---------------------------- MODULE PostingEngine ----------------------------
(***************************************************************************)
(* How a journal entry reaches the ledger while others post and the        *)
(* calendar is being changed.                                              *)
(*                                                                         *)
(* Two kinds of writer share one journal-entry number sequence.  An engine *)
(* request goes through PostingEngine.post (apps/ledger/services): it locks *)
(* its source document, the fiscal period and the sequence, in that order. *)
(* A direct request is a purchasing or inventory service that writes the   *)
(* entry itself: it reads its draft and the period without locking either. *)
(*                                                                         *)
(* Every step below is one statement to the database, or several with no   *)
(* lock to wait for and no row to read between them.  Isolation is READ    *)
(* COMMITTED: a step reads what has been committed, and what its own       *)
(* transaction has written.  A transaction that fails leaves nothing       *)
(* behind, and gives back the locks and the number it had.                 *)
(*                                                                         *)
(* Left out: what the entry says (mappings, lines, balance), which only    *)
(* adds reasons to refuse, and the posting link written with each entry.   *)
(***************************************************************************)
EXTENDS PeriodClose, FiniteSets

CONSTANTS
  Requests,    \* calls that want an entry in the ledger
  Direct,      \* those that write it without the engine
  Sources,     \* the documents posted
  Key,         \* Key[r]: the idempotency key of r
  Source,      \* Source[r]: the document r posts
  EntryPeriod, \* EntryPeriod[r]: the period of the entry's date
  YearOf,      \* YearOf[p]: the calendar year of a period, a month
  ResetPolicy, \* when the sequence starts again at 1
  Nothing      \* no draw, no answer

ASSUME RequestAssumption ==
  /\ Direct \subseteq Requests
  /\ Nobody \notin Requests
  /\ Requests \cap Closers = {}
  /\ Source \in [Requests -> Sources]
  /\ EntryPeriod \in [Requests -> Periods]
  /\ ResetPolicy \in {"NEVER", "YEARLY", "MONTHLY"}
ASSUME FiniteAssumption == IsFiniteSet(Requests)

VARIABLES
  pc,           \* where every request is
  sourceLock,   \* who holds the row lock of every source
  sequenceLock, \* who holds the row lock of the journal-entry sequence
  sequence,     \* the sequence's committed next number and period key
  draw,         \* what a request has drawn from the sequence: number and key
  ledger,       \* the committed entries
  answer        \* the entry every finished call was given

postVars == <<pc, sourceLock, sequenceLock, sequence, draw, ledger, answer>>
vars == <<periodVars, postVars>>

Ended == {"done", "failed"}

PostInit ==
  /\ PeriodInit
  /\ pc = [r \in Requests |-> "start"]
  /\ sourceLock = [s \in Sources |-> Nobody]
  /\ sequenceLock = Nobody
  /\ sequence = [next |-> 1, key |-> <<>>]
  /\ draw = [r \in Requests |-> Nothing]
  /\ ledger = {}
  /\ answer = [r \in Requests |-> Nothing]

-----------------------------------------------------------------------------
\* The transaction of r ends: its row locks go.
Release(r) ==
  /\ sourceLock' = [s \in Sources |-> IF sourceLock[s] = r THEN Nobody ELSE sourceLock[s]]
  /\ periodLock' = [p \in Periods |-> IF periodLock[p] = r THEN Nobody ELSE periodLock[p]]
  /\ sequenceLock' = IF sequenceLock = r THEN Nobody ELSE sequenceLock

Fail(r) ==
  /\ pc' = [pc EXCEPT ![r] = "failed"]
  /\ draw' = [draw EXCEPT ![r] = Nothing]
  /\ Release(r)
  /\ UNCHANGED <<status, closer, sequence, ledger, answer>>

Goto(r, step) ==
  /\ pc' = [pc EXCEPT ![r] = step]
  /\ UNCHANGED <<status, closer, sequence, ledger, answer>>

Posted(r) == {e \in ledger : e.key = Key[r]}

-----------------------------------------------------------------------------
\* PostingService.post: lock the source before anything is read.
LockSource(r) ==
  /\ pc[r] = "start" /\ r \notin Direct
  /\ sourceLock[Source[r]] = Nobody
  /\ sourceLock' = [sourceLock EXCEPT ![Source[r]] = r]
  /\ Goto(r, "lookup")
  /\ UNCHANGED <<periodLock, sequenceLock, draw>>

\* An entry with the key of r answers the call if it is of the same source;
\* otherwise the key is in use by another (IDEMPOTENCY_CONFLICT).
FindPosted(r) ==
  \E e \in Posted(r) :
    IF e.source = Source[r]
    THEN /\ answer' = [answer EXCEPT ![r] = e]
         /\ pc' = [pc EXCEPT ![r] = "done"]
         /\ Release(r)
         /\ UNCHANGED <<status, closer, sequence, draw, ledger>>
    ELSE Fail(r)

LookupSkipped(r) ==
  /\ pc[r] = "lookup"
  /\ Goto(r, "period")
  /\ UNCHANGED <<sourceLock, periodLock, sequenceLock, draw>>
Lookup(r) ==
  /\ pc[r] = "lookup"
  /\ IF Posted(r) # {}
     THEN FindPosted(r)
     ELSE /\ Goto(r, "period")
          /\ UNCHANGED <<sourceLock, periodLock, sequenceLock, draw>>

\* The mappings or the draft are refused.
RefuseDraft(r) ==
  /\ pc[r] = "period"
  /\ Fail(r)

\* No open period has the date.  The query passes over a row that is committed
\* CLOSED, whoever has it locked.
RefuseClosedNever(r) == pc[r] = "period" /\ status[EntryPeriod[r]] = "GONE" /\ Fail(r)
RefuseClosed(r) ==
  /\ pc[r] = "period"
  /\ status[EntryPeriod[r]] = "CLOSED"
  /\ Fail(r)

LockPeriodUnlocked(r) ==
  /\ pc[r] = "period" /\ r \notin Direct
  /\ status[EntryPeriod[r]] = "OPEN"
  /\ Goto(r, "number")
  /\ UNCHANGED <<sourceLock, periodLock, sequenceLock, draw>>
LockPeriod(r) ==
  /\ pc[r] = "period" /\ r \notin Direct
  /\ status[EntryPeriod[r]] = "OPEN"
  /\ periodLock[EntryPeriod[r]] = Nobody
  /\ periodLock' = [periodLock EXCEPT ![EntryPeriod[r]] = r]
  /\ Goto(r, "number")
  /\ UNCHANGED <<sourceLock, sequenceLock, draw>>

-----------------------------------------------------------------------------
\* A direct service is handed a draft read before its transaction began.
ReadDraft(r) ==
  /\ pc[r] = "start" /\ r \in Direct
  /\ IF \E e \in ledger : e.source = Source[r]
     THEN Fail(r)
     ELSE /\ Goto(r, "period")
          /\ UNCHANGED <<sourceLock, periodLock, sequenceLock, draw>>

\* _fiscal_period_for: the open period, read without a lock.
ReadPeriod(r) ==
  /\ pc[r] = "period" /\ r \in Direct
  /\ status[EntryPeriod[r]] = "OPEN"
  /\ Goto(r, "number")
  /\ UNCHANGED <<sourceLock, periodLock, sequenceLock, draw>>

-----------------------------------------------------------------------------
\* The period key the writer computes for its date.  The two kinds of writer
\* format a month differently: %Y-%m and %Y%m.
SequenceKey(r) ==
  CASE ResetPolicy = "NEVER" -> sequence.key
    [] ResetPolicy = "YEARLY" -> <<YearOf[EntryPeriod[r]]>>
    [] ResetPolicy = "MONTHLY" ->
         <<IF r \in Direct THEN "%Y%m" ELSE "%Y-%m", EntryPeriod[r]>>

RestartAtZero(r) == IF SequenceKey(r) = sequence.key THEN sequence.next ELSE 0
NextNumber(r) == IF SequenceKey(r) = sequence.key THEN sequence.next ELSE 1

\* The sequence row is locked from here to the end of the transaction; what is
\* written to it stays with the transaction, in draw[r], until the commit.
TakeNumberUnlocked(r) ==
  /\ pc[r] = "number"
  /\ draw' = [draw EXCEPT ![r] = [number |-> NextNumber(r), key |-> SequenceKey(r)]]
  /\ Goto(r, "insert")
  /\ UNCHANGED <<sourceLock, periodLock, sequenceLock>>
TakeNumberAtOnce(r) ==
  /\ pc[r] = "number"
  /\ draw' = [draw EXCEPT ![r] = [number |-> NextNumber(r), key |-> SequenceKey(r)]]
  /\ sequence' = [next |-> NextNumber(r) + 1, key |-> SequenceKey(r)]
  /\ pc' = [pc EXCEPT ![r] = "insert"]
  /\ UNCHANGED <<periodVars, ledger, answer, sourceLock, sequenceLock>>
TakeNumber(r) ==
  /\ pc[r] = "number"
  /\ sequenceLock = Nobody
  /\ sequenceLock' = r
  /\ draw' = [draw EXCEPT ![r] = [number |-> NextNumber(r), key |-> SequenceKey(r)]]
  /\ Goto(r, "insert")
  /\ UNCHANGED <<sourceLock, periodLock>>

-----------------------------------------------------------------------------
\* What the table accepts: the trigger reads the period's status, without a
\* lock; key and number are unique.
FitsWithoutUniqueKey(r) ==
  /\ status[EntryPeriod[r]] = "OPEN"
  /\ \A e \in ledger : e.number # draw[r].number
Fits(r) ==
  /\ status[EntryPeriod[r]] = "OPEN"
  /\ \A e \in ledger : e.key # Key[r] /\ e.number # draw[r].number

Insert(r) ==
  /\ pc[r] = "insert"
  /\ Fits(r)
  /\ Goto(r, "inserted")
  /\ UNCHANGED <<sourceLock, periodLock, sequenceLock, draw>>

\* IntegrityError.  The engine goes back to its savepoint, which gives back the
\* number and the lock on the sequence, and looks the key up again.  A direct
\* service has no savepoint: its transaction is lost.
InsertRejected(r) ==
  /\ pc[r] = "insert"
  /\ ~Fits(r)
  /\ IF r \in Direct
     THEN Fail(r)
     ELSE /\ draw' = [draw EXCEPT ![r] = Nothing]
          /\ sequenceLock' = Nobody
          /\ Goto(r, "relookup")
          /\ UNCHANGED <<sourceLock, periodLock>>

LookupAgain(r) ==
  /\ pc[r] = "relookup"
  /\ IF Posted(r) # {} THEN FindPosted(r) ELSE Fail(r)

\* The commit checks the entry's reference to its period, under a share lock
\* on the period's row: it waits for whoever has the row locked.
PeriodRowReadable(r) == periodLock[EntryPeriod[r]] \in {r, Nobody}

Commit(r) ==
  LET e == [key |-> Key[r], source |-> Source[r], number |-> draw[r].number,
            period |-> EntryPeriod[r], by |-> r]
  IN  /\ pc[r] = "inserted"
      /\ PeriodRowReadable(r)
      /\ ledger' = ledger \cup {e}
      /\ answer' = [answer EXCEPT ![r] = e]
      /\ sequence' = [next |-> draw[r].number + 1, key |-> draw[r].key]
      /\ pc' = [pc EXCEPT ![r] = "done"]
      /\ draw' = [draw EXCEPT ![r] = Nothing]
      /\ Release(r)
      /\ UNCHANGED <<status, closer>>

\* Something after the entry fails: a status update of the owning service, or
\* the connection.
Abort(r) ==
  /\ pc[r] = "inserted"
  /\ Fail(r)

\* An engine request has the period and waits for the sequence; a direct one
\* has the sequence and its commit waits for the period.  The database finds
\* the deadlock and ends one of the two transactions.
Deadlocked(e, d) ==
  /\ pc[e] = "number" /\ sequenceLock = d
  /\ pc[d] = "inserted" /\ periodLock[EntryPeriod[d]] = e

BreakDeadlock(e, d) ==
  /\ Deadlocked(e, d)
  /\ Fail(e) \/ Fail(d)

-----------------------------------------------------------------------------
\* What r does by itself once it is called.
Step(r) ==
  \/ LockSource(r) \/ Lookup(r) \/ LockPeriod(r) \/ RefuseClosed(r)
  \/ ReadDraft(r) \/ ReadPeriod(r)
  \/ TakeNumber(r) \/ Insert(r) \/ InsertRejected(r) \/ LookupAgain(r) \/ Commit(r)

Next ==
  \/ \E r \in Requests : Step(r) \/ RefuseDraft(r) \/ Abort(r)
  \/ \E e, d \in Requests : BreakDeadlock(e, d)
  \/ PeriodNext /\ UNCHANGED postVars

Spec == PostInit /\ [][Next]_vars

\* A statement that can run runs; a row lock that keeps coming free is granted
\* in the end, because the database queues those who wait; a transaction that
\* changes the calendar ends; the database looks for deadlocks.
Fairness ==
  /\ \A r \in Requests : SF_vars(Step(r))
  /\ \A e, d \in Requests : WF_vars(BreakDeadlock(e, d))
  /\ \A c \in Closers :
       WF_vars((CheckCalendar(c) \/ RefuseChange(c) \/ CommitChange(c)) /\ UNCHANGED postVars)

FairSpec == Spec /\ Fairness

-----------------------------------------------------------------------------
Entries == [key : {Key[r] : r \in Requests}, source : Sources,
            number : 1 .. Cardinality(Requests), period : Periods, by : Requests]

\* Every row is one the schema allows and every step is one of the code's.
PostingTypeOK ==
  /\ PeriodTypeOK
  /\ pc \in [Requests -> Ended \cup {"start", "lookup", "period", "number",
                                     "insert", "inserted", "relookup"}]
  /\ sourceLock \in [Sources -> Requests \cup {Nobody}]
  /\ periodLock \in [Periods -> Requests \cup Closers \cup {Nobody}]
  /\ sequenceLock \in Requests \cup {Nobody}
  /\ sequence.next \in 1 .. Cardinality(Requests) + 1
  /\ \A r \in Requests : draw[r] # Nothing => draw[r].number \in 1 .. Cardinality(Requests)
  /\ ledger \subseteq Entries
  /\ answer \in [Requests -> ledger \cup {Nothing}]

\* docs/posting-engine-contract.md: an exact retry returns what is there, and
\* the unique constraints close the race between sources.  However calls with
\* one key meet, one entry has the key, and every call that succeeded was given
\* that entry, of its own source.
OnceOnly ==
  /\ \A e1, e2 \in ledger : e1.key = e2.key => e1 = e2
  /\ \A r \in Requests :
       pc[r] = "done" => /\ answer[r] \in ledger
                         /\ answer[r].key = Key[r] /\ answer[r].source = Source[r]

\* numbering.py: "no two documents can ever receive the same number".  What a
\* writer has drawn is on no committed entry and drawn by nobody else.
NumbersHandedOutOnce ==
  \A r \in Requests : draw[r] # Nothing =>
    /\ \A e \in ledger : e.number # draw[r].number
    /\ \A o \in Requests \ {r} : draw[o] # Nothing => draw[o].number # draw[r].number

\* Calls that fail give their number back: the ledger's numbers have no gap.
GapFree == {e.number : e \in ledger} = 1 .. Cardinality(ledger)

\* ... which the engine's lock on the period guarantees for the engine.
EngineRespectsClose ==
  [][\A e \in ledger' \ ledger : e.by \notin Direct => status[e.period] = "OPEN"]_vars

\* No call waits for ever, whatever the calendar and the other calls do.
EveryCallEnds == <>(\A r \in Requests : pc[r] \in Ended)

\* docs/posting-engine-contract.md: the existing result is looked up before
\* anything is validated.  A call repeated after its entry was committed
\* succeeds, even when the period has been closed in between.
RepeatIsAnswered ==
  \A r \in Requests \ Direct :
    (pc[r] = "start" /\ \E e \in Posted(r) : e.source = Source[r]) ~> pc[r] = "done"

\* The ledger as a whole: rows and requests have their types, and the numbers
\* have no gap, whichever calls failed after they had drawn one.
LedgerIsGapFree == PostingTypeOK /\ GapFree
=============================================================================
