------------------------------ MODULE AiSummary ------------------------------
(***************************************************************************)
(* The financial summary written by an AI provider.  A page reads the      *)
(* figures of a window of days, in several queries, and shows an answer    *)
(* made from the same figures if there is one.  A post reads them too,     *)
(* looks for a recent answer, counts itself against the user's limit,      *)
(* calls the provider and records what came of it.  A browser is then sent *)
(* to the page, which reads everything again.                              *)
(*                                                                         *)
(* The limit is counted in the memory of each worker process; answers are  *)
(* rows of the database.  Requests are threads of the workers, and each    *)
(* query, each access to the counter and the call are steps of their own.  *)
(*                                                                         *)
(* The figures are abstracted to the state of the ledger they were read    *)
(* from, and the hash of a payload to the payload.                         *)
(***************************************************************************)
EXTENDS Naturals, Sequences, FiniteSets

CONSTANTS
  Users, Workers,
  Threads, WorkerOf,        \* the threads, and the worker of each
  Uses,                     \* bound: what a behaviour may hold, see below
  Period,                   \* the fiscal period that covers the days of the run
  MaxSpan,                  \* MAX_PERIOD_DAYS
  Limit, RateWindow,        \* AI_SUMMARY_RATE_LIMIT_PER_HOUR and its window
  DedupWindow,              \* AI_SUMMARY_DEDUP_WINDOW_SECONDS
  FirstDay, TicksPerDay     \* the clock starts at tick 0 of the first day

NoDates == [from |-> 0, to |-> 0]

ASSUME SummaryAssumption ==
  /\ WorkerOf \in [Threads -> Workers] /\ Users # {}
  /\ {FirstDay, TicksPerDay, MaxSpan, Limit, RateWindow, DedupWindow} \subseteq Nat
  /\ TicksPerDay > 0 /\ RateWindow > 0
  /\ Period \in [from : Nat, to : Nat]
  \* The queries, and how many requests, postings, ticks and restarts there may be.
  /\ \A u \in Uses :
       /\ {u.requests, u.postings, u.ticks, u.deaths} \subseteq Nat
       /\ Period.from <= FirstDay /\ FirstDay + u.ticks \div TicksPerDay <= Period.to
       \* kind; whether dates were given; the window they make, NoDates for one missing
       /\ \A q \in u.queries :
            /\ q \in [kind : {"page", "csv", "post"}, given : BOOLEAN, dates : [from : Nat, to : Nat]]
            /\ ~q.given => q.dates = NoDates

\* Threads are counted.
ASSUME ThreadsAssumption == IsFiniteSet(Threads)

VARIABLES
  use,
  now,       \* ticks
  ledger,    \* what the reports are computed from: two states, each may return
  postings,
  thread,    \* the request of each thread
  counter,   \* of each worker and user: the count and the tick it expires
  calls,     \* the calls the provider has answered
  records,   \* AISummaryRequest
  seen,      \* history: figures some answer was shown with, per user
  asked, deaths

summaryVars == <<use, now, ledger, postings, thread, counter, calls, records, seen, asked, deaths>>

Today == FirstDay + now \div TicksPerDay
NoCount == [count |-> 0, until |-> 0]
Idle == [at |-> "idle", user |-> CHOOSE u \in Users : TRUE,
         query |-> [kind |-> "page", given |-> FALSE, dates |-> NoDates],
         window |-> NoDates, results |-> 0, balances |-> 0,
         call |-> 0, looked |-> 0, reused |-> FALSE]

SummaryInit ==
  /\ use \in Uses
  /\ now = 0 /\ ledger = 0 /\ postings = 0 /\ asked = 0 /\ deaths = 0
  /\ thread = [t \in Threads |-> Idle]
  /\ counter = [w \in Workers |-> [u \in Users |-> NoCount]]
  /\ calls = <<>> /\ records = <<>> /\ seen = {}

-----------------------------------------------------------------------------
\* The forms and the windows.

FormValid(q) == q.dates # NoDates /\ q.dates.from <= q.dates.to
DefaultWindow == Period

\* The default ends with the period, which may be days ahead.
PageWindowUnclamped(q) == IF FormValid(q) THEN q.dates ELSE DefaultWindow
PageWindow(q) ==
  IF FormValid(q) THEN q.dates
  ELSE [DefaultWindow EXCEPT !.to = IF @ > Today THEN Today ELSE @]

ValidPeriod(w) == w.from <= w.to /\ w.to <= Today /\ w.to - w.from <= MaxSpan

RejectedPost(q) == q.kind = "post" /\ ~FormValid(q)
Rejected(q) == RejectedPost(q) \/ (q.kind = "csv" /\ q.given /\ ~FormValid(q))

Payload(r) == [window |-> r.window, results |-> r.results, balances |-> r.balances]

Move(t, stage) == thread' = [thread EXCEPT ![t].at = stage]

\* A thread takes its next request.
Ask(t) ==
  /\ thread[t].at \in {"idle", "done", "told", "limited", "error"}
  /\ asked < use.requests /\ asked' = asked + 1
  /\ \E u \in Users, q \in use.queries :
       thread' = [thread EXCEPT ![t] =
         [Idle EXCEPT !.user = u, !.query = q, !.window = PageWindow(q),
                      !.at = IF Rejected(q) THEN "told" ELSE "asked"]]
  /\ UNCHANGED <<use, now, ledger, postings, counter, calls, records, seen, deaths>>

\* build_summary_payload: each report is a query with a snapshot of its own.
ReadResults(t) ==
  /\ thread[t].at = "asked"
  /\ IF ValidPeriod(thread[t].window)
     THEN thread' = [thread EXCEPT ![t].results = ledger, ![t].at = "reading"]
     ELSE Move(t, "told")
  /\ UNCHANGED <<use, now, ledger, postings, counter, calls, records, seen, asked, deaths>>

ReadBalances(t) ==
  /\ thread[t].at = "reading"
  /\ thread' = [thread EXCEPT ![t].balances = ledger, ![t].at = "read"]
  /\ UNCHANGED <<use, now, ledger, postings, counter, calls, records, seen, asked, deaths>>

-----------------------------------------------------------------------------
\* Answers on record.

\* _matching_success: the rows that answer this request, made since a moment.
MatchesSince(r, since) ==
  {i \in DOMAIN records : /\ records[i].user = r.user /\ records[i].payload = Payload(r)
                       /\ records[i].status = "SUCCESS" /\ records[i].at + since >= now}
MatchesAnyStatus(r) ==
  {i \in DOMAIN records : records[i].user = r.user /\ records[i].payload = Payload(r)}
MatchesAnyFigures(r) ==
  {i \in DOMAIN records : /\ records[i].user = r.user /\ records[i].payload.window = r.window
                       /\ records[i].status = "SUCCESS"}
Matches(r) == {i \in MatchesAnyStatus(r) : records[i].status = "SUCCESS"}
Latest(found) == CHOOSE i \in found : \A j \in found : j <= i

find_reusable_result_ever(r) == Matches(r)
find_reusable_result(r) == MatchesSince(r, DedupWindow)

find_latest_result_any_status(r) ==
  LET found == MatchesAnyStatus(r)
  IN  IF found = {} \/ records[Latest(found)].status # "SUCCESS" THEN 0 ELSE records[Latest(found)].call
find_latest_result_any_figures(r) ==
  LET found == MatchesAnyFigures(r) IN IF found = {} THEN 0 ELSE records[Latest(found)].call
find_latest_result(r) ==
  LET found == Matches(r) IN IF found = {} THEN 0 ELSE records[Latest(found)].call

Answered(t, call) ==
  IF call = 0 THEN seen ELSE seen \cup {[user |-> thread[t].user, payload |-> Payload(thread[t])]}

\* The page and the download show the latest answer, of whatever age.
Show(t) ==
  /\ thread[t].at = "read" /\ thread[t].query.kind \in {"page", "csv"}
  /\ LET call == find_latest_result(thread[t])
     IN  /\ thread' = [thread EXCEPT ![t].call = call, ![t].at = "done"]
         /\ seen' = Answered(t, call)
  /\ UNCHANGED <<use, now, ledger, postings, counter, calls, records, asked, deaths>>

\* A post that succeeded: a program is answered, a browser is sent to the page.
Succeed(t, call, reused) ==
  \/ /\ thread' = [thread EXCEPT ![t].call = call, ![t].reused = reused,
                                 ![t].looked = IF reused THEN now ELSE @, ![t].at = "done"]
     /\ seen' = Answered(t, call)
  \/ /\ thread' = [thread EXCEPT ![t].query.kind = "page", ![t].at = "asked"]
     /\ UNCHANGED seen

Look(t) ==
  /\ thread[t].at = "read" /\ thread[t].query.kind = "post"
  /\ LET found == find_reusable_result(thread[t])
     IN  IF found = {} THEN Move(t, "new") /\ UNCHANGED seen
         ELSE Succeed(t, records[Latest(found)].call, TRUE)
  /\ UNCHANGED <<use, now, ledger, postings, counter, calls, records, asked, deaths>>

-----------------------------------------------------------------------------
\* rate_limit_exceeded, in the cache of one process.

Count(t) == counter[WorkerOf[t]][thread[t].user]
Running(c) == c.until > now
Counted(t) == IF Running(Count(t)) THEN Count(t).count ELSE 0

ReadCountPastLimit(t) ==
  /\ thread[t].at = "new"
  /\ Move(t, IF Counted(t) > Limit THEN "limited" ELSE "count")
  /\ UNCHANGED <<use, now, ledger, postings, counter, calls, records, seen, asked, deaths>>
ReadCount(t) ==
  /\ thread[t].at = "new"
  /\ Move(t, IF Counted(t) >= Limit THEN "limited" ELSE "count")
  /\ UNCHANGED <<use, now, ledger, postings, counter, calls, records, seen, asked, deaths>>

\* incr of a key that is not there raises, and the key is set.
CountUp(t) ==
  /\ thread[t].at = "count"
  /\ IF Running(Count(t))
     THEN /\ counter' = [counter EXCEPT ![WorkerOf[t]][thread[t].user].count = @ + 1]
          /\ Move(t, "call")
     ELSE Move(t, "set") /\ UNCHANGED counter
  /\ UNCHANGED <<use, now, ledger, postings, calls, records, seen, asked, deaths>>
SetCount(t) ==
  /\ thread[t].at = "set"
  /\ counter' = [counter EXCEPT ![WorkerOf[t]][thread[t].user] =
                   [count |-> 1, until |-> now + RateWindow]]
  /\ Move(t, "call")
  /\ UNCHANGED <<use, now, ledger, postings, calls, records, seen, asked, deaths>>

-----------------------------------------------------------------------------
\* The provider.

\* A timeout, a refusal, text of the wrong shape: all are failures.  A valid
\* answer may hold a character the column of the row does not take.
Outcomes == {"SUCCESS", "FAILED", "UNSTORABLE"}
Call(t) ==
  /\ thread[t].at = "call"
  /\ \E outcome \in Outcomes :
       calls' = Append(calls, [user |-> thread[t].user, worker |-> WorkerOf[t],
                               payload |-> Payload(thread[t]), outcome |-> outcome])
  /\ thread' = [thread EXCEPT ![t].call = Len(calls'), ![t].at = "called"]
  /\ UNCHANGED <<use, now, ledger, postings, counter, records, seen, asked, deaths>>

Row(t) == [user |-> thread[t].user, payload |-> Payload(thread[t]), call |-> thread[t].call,
           status |-> calls[thread[t].call].outcome, at |-> now]
RecordAndTryAgain(t) ==
  /\ thread[t].at = "called" /\ records' = Append(records, Row(t))
  /\ Move(t, IF Row(t).status = "FAILED" THEN "called" ELSE "error")
  /\ UNCHANGED <<use, now, ledger, postings, counter, calls, seen, asked, deaths>>
Record(t) ==
  /\ thread[t].at = "called"
  /\ records' = IF Row(t).status = "UNSTORABLE" THEN records ELSE Append(records, Row(t))
  /\ IF Row(t).status = "SUCCESS" THEN Succeed(t, thread[t].call, FALSE)
     ELSE Move(t, "error") /\ UNCHANGED seen
  /\ UNCHANGED <<use, now, ledger, postings, counter, calls, asked, deaths>>

-----------------------------------------------------------------------------
\* Around the requests.

\* An entry is posted, or one is reversed and the figures are what they were.
PostEntry ==
  /\ postings < use.postings /\ postings' = postings + 1
  /\ ledger' = 1 - ledger
  /\ UNCHANGED <<use, now, thread, counter, calls, records, seen, asked, deaths>>

Tick ==
  /\ now < use.ticks /\ now' = now + 1
  /\ UNCHANGED <<use, ledger, postings, thread, counter, calls, records, seen, asked, deaths>>

\* A worker ends, is recycled, or is killed: its threads and its cache with it.
Die(w) ==
  /\ deaths < use.deaths /\ deaths' = deaths + 1
  /\ thread' = [t \in Threads |-> IF WorkerOf[t] = w THEN Idle ELSE thread[t]]
  /\ counter' = [counter EXCEPT ![w] = [u \in Users |-> NoCount]]
  /\ UNCHANGED <<use, now, ledger, postings, calls, records, seen, asked>>

Step(t) == \/ Ask(t) \/ ReadResults(t) \/ ReadBalances(t) \/ Show(t) \/ Look(t)
           \/ ReadCount(t) \/ CountUp(t) \/ SetCount(t) \/ Call(t) \/ Record(t)
SummaryNext == (\E t \in Threads : Step(t)) \/ PostEntry \/ Tick \/ \E w \in Workers : Die(w)
SummarySpec == SummaryInit /\ [][SummaryNext]_summaryVars

-----------------------------------------------------------------------------
\* The properties.

Stages == {"idle", "asked", "reading", "read", "new", "count", "set", "call",
           "called", "done", "told", "limited", "error"}

\* The types; rows are of calls, and in their order no row is of a later one twice.
SummaryTypeOK ==
  /\ now \in 0 .. use.ticks /\ ledger \in {0, 1}
  /\ \A t \in Threads : /\ thread[t].at \in Stages /\ thread[t].user \in Users
                        /\ thread[t].call \in 0 .. Len(calls)
  /\ \A w \in Workers, u \in Users : counter[w][u].count \in Nat
  /\ \A i \in DOMAIN records : records[i].call \in DOMAIN calls
  /\ \A i, j \in DOMAIN records : records[i].call = records[j].call => i = j

\* An answer is shown only beside the figures it was made from, to the user
\* who asked for it, however the ledger moved while it was made and since.
ShownDescribesFigures ==
  \A t \in Threads :
    thread[t].at = "done" /\ thread[t].call # 0
      => /\ calls[thread[t].call].user = thread[t].user
         /\ calls[thread[t].call].payload = Payload(thread[t])
         /\ calls[thread[t].call].outcome = "SUCCESS"

\* Once a user was shown an answer with some figures, a page with those
\* figures shows one again: after failures, other postings and reversals,
\* midnight and restarts.
ShownOnceShownAgain ==
  [][\A t \in Threads :
       /\ thread[t].at = "read" /\ thread[t].query.kind # "post"
       /\ thread'[t].at = "done"
       /\ [user |-> thread[t].user, payload |-> Payload(thread[t])] \in seen
       => thread'[t].call # 0]_summaryVars

\* An answer given again without a call was recorded within the window.
ReusedIsFresh ==
  \A t \in Threads :
    thread[t].at = "done" /\ thread[t].reused
      => \E i \in DOMAIN records : /\ records[i].call = thread[t].call
                                /\ records[i].at + DedupWindow >= thread[t].looked

\* A file never holds other days than the user named.
ExportIsOfWhatWasAsked ==
  \A t \in Threads :
    thread[t].at = "done" /\ thread[t].query.kind = "csv" /\ thread[t].query.given
      => thread[t].window = thread[t].query.dates

\* A page or a file asked for without dates has figures, at any time of any
\* day of a period that began no longer ago than a summary may span; and no
\* payload reaches past the day it was read.
DefaultHasFigures ==
  \A t \in Threads :
    /\ thread[t].at = "told" /\ thread[t].query.kind # "post" /\ Today - Period.from <= MaxSpan
         => thread[t].query.given
    /\ thread[t].at \notin {"idle", "asked", "told"} => thread[t].window.to <= Today

ThreadsOf(w) == {t \in Threads : WorkerOf[t] = w}
CallsOf(u, w) == {n \in DOMAIN calls : calls[n].user = u /\ calls[n].worker = w}

\* What the races over the counter cost, while no counter expires.  Every
\* thread that found no counter sets it back to one, once; and the threads
\* that go on meanwhile may have read it together when it was one below the
\* limit: one of them before the second is set, two before the third.  A
\* restart forgets it all.
CallsAtMost(n) == n * Limit + (n * (n - 1)) \div 2
OverrunIsBounded ==
  \A u \in Users, w \in Workers :
    now < RateWindow
      => Cardinality(CallsOf(u, w)) <= (1 + deaths) * CallsAtMost(Cardinality(ThreadsOf(w)))

\* Answers and files are of the figures they stand beside, of the days asked
\* for, and as recent as they have to be.
AnswersDescribeFigures ==
  /\ SummaryTypeOK /\ ShownDescribesFigures /\ ReusedIsFresh
  /\ ExportIsOfWhatWasAsked /\ DefaultHasFigures
=============================================================================
