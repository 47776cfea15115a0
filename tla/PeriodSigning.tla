---------------------------- MODULE PeriodSigning ----------------------------
(***************************************************************************)
(* Signing a fiscal period off: the page with its checklist, the form with *)
(* its acknowledgement, the service (PeriodClose), and the audit event,    *)
(* while documents are drafted and posted.  The checklist is computed      *)
(* three times: for the page, for the form, and inside the service under   *)
(* the lock of the period.  The event is written after the service has     *)
(* committed.                                                              *)
(*                                                                         *)
(* The trial balance check is a refusal of the service that may always     *)
(* come (RefuseChange): the triggers keep the ledger balanced.             *)
(***************************************************************************)
EXTENDS PeriodClose, Sequences, FiniteSets

CONSTANTS
  Docs,       \* documents that are still to be posted
  MaxChanges, \* bound: changes to documents and balances
  MaxPages,   \* bound: pages opened
  MaxDeaths   \* bound: workers that end between the service and the event

ASSUME SigningAssumption ==
  MaxChanges \in Nat /\ MaxPages \in Nat /\ MaxDeaths \in Nat

VARIABLES
  dated,    \* the period an unposted document is dated in, 0 once it is not
  differs,  \* a control account differs from its subledger
  desk,     \* what every closer has on the screen, or asked for
  signed,   \* what the last close of every period was based on
  trail,    \* the events recorded of every period, in order
  overlap,  \* two were in the service, or between it and the event, at once
  deaths, changes, pages

signVars == <<dated, differs, desk, signed, trail, overlap, deaths, changes, pages>>
allVars == <<status, periodLock, closer, signVars>>

\* The warnings of the checklist: what somebody has to decide.
UnpostedSource(p) == \E d \in Docs : dated[d] = p
Warnings(p) ==
  (IF UnpostedSource(p) THEN {"unposted"} ELSE {})
    \cup (IF differs THEN {"subledger"} ELSE {})
CanClose(p) == EarlierClosed(p)

Away == [at |-> "away", op |-> "none", period |-> 0, shown |-> {}, ticked |-> FALSE,
         report |-> {}, over |-> {}, stirred |-> FALSE]
Unsigned == [over |-> {}, shown |-> {}, ticked |-> FALSE, stirred |-> FALSE]

SigningInit ==
  /\ PeriodInit
  /\ dated \in [Docs -> 0 .. LastPeriod]
  /\ differs = FALSE
  /\ desk = [c \in Closers |-> Away]
  /\ signed = [p \in Periods |-> Unsigned]
  /\ trail = [p \in Periods |-> <<>>]
  /\ overlap = FALSE
  /\ deaths = 0 /\ changes = 0 /\ pages = 0

-----------------------------------------------------------------------------
\* The page: the form to close where nothing blocks, the one to reopen where
\* the period is closed.
OpenPage(c) ==
  \E p \in Periods :
    /\ desk[c].at = "away" /\ pages < MaxPages
    /\ pages' = pages + 1
    /\ \E op \in {"close", "reopen"} :
         /\ status[p] = From(op)
         /\ op = "close" => CanClose(p)
         /\ desk' = [desk EXCEPT ![c] = [Away EXCEPT !.at = "page", !.op = op, !.period = p,
                                           !.shown = Warnings(p)]]
    /\ UNCHANGED <<status, periodLock, closer, dated, differs, signed, trail, overlap, deaths, changes>>

\* The form: the box is on it when this request found a warning, and must be
\* ticked then; it could be ticked where the page showed one.
FormIgnoresBox(report, ticked) == TRUE
PeriodCloseForm(report, ticked) == report # {} => ticked
PressButton(c) ==
  /\ desk[c].at = "page"
  /\ LET report == Warnings(desk[c].period)
     IN  \E ticked \in BOOLEAN :
           /\ ticked => desk[c].op = "close" /\ desk[c].shown # {}
           /\ desk' = [desk EXCEPT ![c] =
                         IF desk[c].op = "close" /\ ~PeriodCloseForm(report, ticked) THEN Away
                         ELSE [@ EXCEPT !.at = "asked", !.ticked = ticked, !.report = report]]
  /\ UNCHANGED <<status, periodLock, closer, dated, differs, signed, trail, overlap, deaths, changes, pages>>

\* close_period and reopen_period, on what was asked for.
InService(c) == desk[c].at \in {"serving", "committed"}
PressedAgain(c) == desk' = desk
PressedOnce(c) == desk' = [desk EXCEPT ![c].at = "serving"]
Enter(c) ==
  /\ desk[c].at = "asked"
  /\ LockOwnPeriod(c, desk[c].op, desk[c].period)
  /\ PressedOnce(c)
  /\ overlap' = (overlap \/ \E d \in Closers \ {c} : InService(d))
  /\ UNCHANGED <<dated, differs, signed, trail, deaths, changes, pages>>
\* The row is not in the status it was in on the page.
TurnedAway(c) ==
  /\ desk[c].at = "asked"
  /\ periodLock[desk[c].period] = Nobody
  /\ status[desk[c].period] # From(desk[c].op)
  /\ desk' = [desk EXCEPT ![c] = Away]
  /\ UNCHANGED <<status, periodLock, closer, dated, differs, signed, trail, overlap, deaths, changes, pages>>
\* The checklist again: its blockers refuse, its warnings are not looked at.
Check(c) ==
  /\ CheckCalendar(c)
  /\ desk' = [desk EXCEPT ![c].over = Warnings(desk[c].period)]
  /\ UNCHANGED <<dated, differs, signed, trail, overlap, deaths, changes, pages>>
ToTheEvent(c) == RefuseChange(c) /\ desk' = [desk EXCEPT ![c].at = "committed"]
ToThePage(c) == RefuseChange(c) /\ desk' = [desk EXCEPT ![c] = Away]
Refuse(c) ==
  /\ ToThePage(c)
  /\ UNCHANGED <<dated, differs, signed, trail, overlap, deaths, changes, pages>>
CommitSigned(c) ==
  /\ CommitChange(c)
  /\ desk' = [desk EXCEPT ![c].at = "committed"]
  /\ signed' = IF desk[c].op # "close" THEN signed
               ELSE [signed EXCEPT ![desk[c].period] =
                       [over |-> desk[c].over, shown |-> desk[c].shown,
                        ticked |-> desk[c].ticked, stirred |-> desk[c].stirred]]
  /\ UNCHANGED <<dated, differs, trail, overlap, deaths, changes, pages>>

\* audit.record_action, with how many warnings the form had found.
Record(c) ==
  /\ desk[c].at = "committed"
  /\ trail' = [trail EXCEPT ![desk[c].period] =
                 Append(@, [action |-> desk[c].op, kept |-> Cardinality(desk[c].report)])]
  /\ desk' = [desk EXCEPT ![c] = Away]
  /\ UNCHANGED <<status, periodLock, closer, dated, differs, signed, overlap, deaths, changes, pages>>
Die(c) ==
  /\ desk[c].at = "committed" /\ deaths < MaxDeaths
  /\ deaths' = deaths + 1
  /\ desk' = [desk EXCEPT ![c] = Away]
  /\ UNCHANGED <<status, periodLock, closer, dated, differs, signed, trail, overlap, changes, pages>>

-----------------------------------------------------------------------------
\* Meanwhile: a document is drafted in a period, moved, posted or cancelled; a
\* balance moves without its subledger, or is put right.
Stir ==
  /\ changes < MaxChanges
  /\ changes' = changes + 1
  /\ desk' = [c \in Closers |-> IF desk[c].at = "away" THEN desk[c]
                                ELSE [desk[c] EXCEPT !.stirred = TRUE]]
  /\ UNCHANGED <<status, periodLock, closer, signed, trail, overlap, deaths, pages>>
MoveDocument ==
  /\ \E d \in Docs : \E p \in 0 .. LastPeriod \ {dated[d]} : dated' = [dated EXCEPT ![d] = p]
  /\ Stir /\ UNCHANGED differs
MoveBalance ==
  /\ differs' = ~differs
  /\ Stir /\ UNCHANGED dated

SigningNext ==
  \/ \E c \in Closers :
       \/ OpenPage(c) \/ PressButton(c) \/ Enter(c) \/ TurnedAway(c) \/ Check(c)
       \/ Refuse(c) \/ CommitSigned(c) \/ Record(c) \/ Die(c)
  \/ MoveDocument \/ MoveBalance

SigningSpec == SigningInit /\ [][SigningNext]_allVars

-----------------------------------------------------------------------------
\* What must hold.

Findings == SUBSET {"unposted", "subledger"}
SigningTypeOK ==
  /\ PeriodTypeOK
  /\ dated \in [Docs -> 0 .. LastPeriod] /\ differs \in BOOLEAN
  /\ \A c \in Closers :
       /\ desk[c].at \in {"away", "page", "asked", "serving", "committed"}
       /\ desk[c].at = "serving" <=> closer[c] # Idle
       /\ desk[c].at = "serving" => closer[c].period = desk[c].period /\ closer[c].op = desk[c].op
  /\ signed \in [Periods -> [over : Findings, shown : Findings, ticked : BOOLEAN, stirred : BOOLEAN]]
  /\ \A p \in Periods : Len(trail[p]) <= pages
  /\ overlap \in BOOLEAN

\* A hole in the calendar takes two calls of the service at once.
HoleTakesTwo == ~overlap => NoHoleInCalendar

\* Where nothing moved since the page was drawn, a period is closed over what
\* the page showed, and over nothing that was not acknowledged.
CloseIsInformed ==
  \A p \in Periods : ~signed[p].stirred =>
    signed[p].over = signed[p].shown /\ (signed[p].over # {} => signed[p].ticked)

\* With nobody at work, no worker lost and no two calls at once, the last event
\* of a period says what its status is, and events of one period alternate.
Says(event) == IF event.action = "close" THEN "CLOSED" ELSE "OPEN"
TrailTellsTheCalendar ==
  (~overlap /\ deaths = 0 /\ \A c \in Closers : desk[c].at # "committed") =>
    \A p \in Periods :
      Len(trail[p]) > 0 => Says(trail[p][Len(trail[p])]) = status[p]

\* Signing a period off is accounted for: what was closed over was shown and
\* acknowledged, and the trail says what was done (close_period,
\* FiscalPeriodCloseView).
ClosesAreAccountedFor == SigningTypeOK /\ CloseIsInformed /\ TrailTellsTheCalendar
=============================================================================
