----------------------------- MODULE PeriodClose -----------------------------
(***************************************************************************)
(* Closing and reopening fiscal periods (apps/core/period_close.py).       *)
(*                                                                         *)
(* A transaction locks its own period row, then reads the other periods    *)
(* without locking them, then writes its row and commits.  Under READ      *)
(* COMMITTED each of the three is a step of its own: another transaction   *)
(* may commit in between.  A refusal raises and rolls back.                *)
(*                                                                         *)
(* Left out: the LOCKED status, which no code sets, the reason texts, and  *)
(* the other lines of the checklist, which only refuse.                    *)
(***************************************************************************)
EXTENDS Integers

CONSTANTS
  LastPeriod,  \* fiscal periods are 1 .. LastPeriod, in calendar order
  Closers,     \* users who may close and reopen periods
  Nobody       \* the holder of a row lock nobody holds

Periods == 1 .. LastPeriod

ASSUME PeriodAssumption == LastPeriod \in Nat /\ Nobody \notin Closers

VARIABLES
  status,     \* committed status of every period
  periodLock, \* the transaction that holds the row lock of every period
  closer      \* what every closer is doing: its step, and on which period

periodVars == <<status, periodLock, closer>>

Idle == [step |-> "idle", op |-> "none", period |-> 0]

PeriodInit ==
  /\ status = [p \in Periods |-> "OPEN"]
  /\ periodLock = [p \in Periods |-> Nobody]
  /\ closer = [c \in Closers |-> Idle]

\* select_for_update().get(pk): waits for the row; refused when the period is
\* not in the status the operation starts from.
From(op) == IF op = "close" THEN "OPEN" ELSE "CLOSED"
LockOwnPeriod(c, op, p) ==
  /\ closer[c] = Idle
  /\ periodLock[p] = Nobody
  /\ status[p] = From(op)
  /\ periodLock' = [periodLock EXCEPT ![p] = c]
  /\ closer' = [closer EXCEPT ![c] = [step |-> "locked", op |-> op, period |-> p]]
  /\ UNCHANGED status

\* Close in order: nothing earlier may be open.  Reopen in reverse order:
\* nothing later may be closed.
EarlierClosed(p) == \A q \in Periods : q < p => status[q] = "CLOSED"
LaterNotAsked(p) == TRUE
LaterOpen(p) == \A q \in Periods : q > p => status[q] = "OPEN"

CheckCalendar(c) ==
  /\ closer[c].step = "locked"
  /\ IF closer[c].op = "close" THEN EarlierClosed(closer[c].period)
                              ELSE LaterOpen(closer[c].period)
  /\ closer' = [closer EXCEPT ![c].step = "checked"]
  /\ UNCHANGED <<status, periodLock>>

\* The calendar refuses, or another check does.
RefuseChange(c) ==
  /\ closer[c].step = "locked"
  /\ closer' = [closer EXCEPT ![c] = Idle]
  /\ periodLock' = [periodLock EXCEPT ![closer[c].period] = Nobody]
  /\ UNCHANGED status

CommitChange(c) ==
  LET p == closer[c].period
  IN  /\ closer[c].step = "checked"
      /\ status' = [status EXCEPT
                      ![p] = IF closer[c].op = "close" THEN "CLOSED" ELSE "OPEN"]
      /\ periodLock' = [periodLock EXCEPT ![p] = Nobody]
      /\ closer' = [closer EXCEPT ![c] = Idle]

PeriodNext ==
  \E c \in Closers :
    \/ \E op \in {"close", "reopen"}, p \in Periods : LockOwnPeriod(c, op, p)
    \/ CheckCalendar(c)
    \/ RefuseChange(c)
    \/ CommitChange(c)

PeriodSpec == PeriodInit /\ [][PeriodNext]_periodVars

-----------------------------------------------------------------------------
PeriodTypeOK ==
  /\ status \in [Periods -> {"OPEN", "CLOSED"}]
  /\ closer \in [Closers -> {Idle} \cup
                   [step : {"locked", "checked"}, op : {"close", "reopen"},
                    period : Periods]]
  /\ DOMAIN periodLock = Periods

\* period_close.py: reopening "refuses to leave a hole in the calendar".  A
\* closed period never sits behind an open one.
NoHoleInCalendar ==
  \A p, q \in Periods : p < q /\ status[q] = "CLOSED" => status[p] = "CLOSED"
=============================================================================
