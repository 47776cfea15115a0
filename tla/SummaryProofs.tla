---------------------------- MODULE SummaryProofs ----------------------------
(***************************************************************************)
(* Proofs about figures: what the AI summary says of them, and what documents *)
(* are worth and post.                                                     *)
(***************************************************************************)
EXTENDS Billing, AiSummary, Sums, FiniteSetTheorems, SequenceTheorems, TLAPS

-----------------------------------------------------------------------------
(***************************************************************************)
(* What is shown is what was asked about, for any number of users, workers *)
(* and threads, and how far the races over the counter let a user go.      *)
(***************************************************************************)

SummaryWindows == [from : Nat, to : Nat]
Payloads == [window : SummaryWindows, results : {0, 1}, balances : {0, 1}]
Queries == [kind : {"page", "csv", "post"}, given : BOOLEAN, dates : SummaryWindows]
Asking == [at : Stages, user : Users, query : Queries, window : SummaryWindows,
           results : {0, 1}, balances : {0, 1}, call : Nat, looked : Nat, reused : BOOLEAN]
Counts == [count : Nat, until : Nat]
CallRecords == [user : Users, worker : Workers, payload : Payloads, outcome : Outcomes]
AnswerRecords ==
  [user : Users, payload : Payloads, call : Nat, status : Outcomes, at : Nat]

SummaryTypes ==
  /\ use \in Uses /\ now \in 0 .. use.ticks /\ ledger \in {0, 1} /\ deaths \in Nat
  /\ thread \in [Threads -> Asking]
  /\ counter \in [Workers -> [Users -> Counts]]
  /\ calls \in Seq(CallRecords)
  /\ records \in Seq(AnswerRecords)
  /\ seen \subseteq [user : Users, payload : Payloads]

-----------------------------------------------------------------------------
(* Days, windows, and the latest of some records.                          *)

LEMMA DivisionGrows ==
  ASSUME NEW n \in Nat, NEW d \in Nat, d > 0
  PROVE  n \div d \in Nat /\ (n + 1) \div d \in Nat /\ n \div d <= (n + 1) \div d
<1> DEFINE q == n \div d
           r == (n + 1) \div d
<1>1. q \in Int /\ r \in Int /\ d * q <= n /\ n < d * (q + 1) /\ d * r <= n + 1 /\ n + 1 < d * (r + 1)
  OBVIOUS
<1> HIDE DEF q, r
<1>2. q >= 0 /\ r >= 0
  BY <1>1
<1>3. ASSUME r < q PROVE FALSE
  <2>1. r + 1 <= q /\ d * (r + 1) <= d * q
    BY <1>1, <1>3
  <2> QED BY <1>1, <2>1
<1> QED BY <1>1, <1>2, <1>3 DEF q, r

LEMMA TodayIsDay ==
  ASSUME now \in Nat
  PROVE  Today \in Nat /\ Today >= FirstDay
BY SummaryAssumption, DivisionGrows DEF Today

LEMMA PageWindowType ==
  ASSUME now \in Nat, NEW q \in Queries
  PROVE  PageWindow(q) \in SummaryWindows
BY TodayIsDay, SummaryAssumption DEF PageWindow, DefaultWindow, Queries, SummaryWindows

LEMMA LatestIsThere ==
  ASSUME NEW n \in Nat, NEW found \in SUBSET (1 .. n), found # {}
  PROVE  Latest(found) \in found
<1> DEFINE S == {k \in Nat : \E i \in found : k = n - i}
<1>0. \A i \in found : i \in Nat /\ n - i \in S
  OBVIOUS
<1>1. S \in SUBSET Nat /\ S # {}
  BY <1>0
<1>2. PICK m \in S : \A k \in S : m <= k
  <2> HIDE DEF S
  <2>1. PICK m \in S : \A k \in S : ~(<<k, m>> \in OpToRel(<, Nat))
    BY <1>1, NatLessThanWellFounded, WFMin
  <2>2. ASSUME NEW k \in S PROVE m <= k
    <3>1. m \in Nat /\ k \in Nat
      BY <1>1
    <3>2. <<k, m>> \in OpToRel(<, Nat) <=> k < m
      BY <3>1 DEF OpToRel
    <3>3. ~(k < m)
      BY <2>1, <3>2, Zenon
    <3> QED BY <3>1, <3>3
  <2> QED BY <2>2
<1>3. PICK i \in found : m = n - i
  BY <1>2
<1>4. \A j \in found : j <= i
  BY <1>0, <1>2, <1>3
<1> QED BY <1>3, <1>4 DEF Latest

LEMMA PayloadType ==
  ASSUME NEW r \in Asking PROVE Payload(r) \in Payloads
BY DEF Asking, Payload, Payloads

\* What the steps change of a request.
LEMMA AskingChanges ==
  ASSUME NEW r \in Asking, NEW at \in Stages
  PROVE  /\ [r EXCEPT !.at = at] \in Asking
         /\ \A x \in {0, 1} : /\ [r EXCEPT !.results = x, !.at = at] \in Asking
                            /\ [r EXCEPT !.balances = x, !.at = at] \in Asking
         /\ \A call \in Nat : [r EXCEPT !.call = call, !.at = at] \in Asking
         /\ \A call \in Nat, reused \in BOOLEAN, looked \in Nat :
              [r EXCEPT !.call = call, !.reused = reused, !.looked = looked, !.at = at] \in Asking
         /\ [r EXCEPT !.query.kind = "page", !.at = at] \in Asking
<1>1. [r.query EXCEPT !.kind = "page"] \in Queries
  BY DEF Asking, Queries
<1>2. [r EXCEPT !.query.kind = "page", !.at = at]
        = [[r EXCEPT !.query = [r.query EXCEPT !.kind = "page"]] EXCEPT !.at = at]
  BY DEF Asking
<1>3. [r EXCEPT !.query.kind = "page", !.at = at] \in Asking
  BY <1>1, <1>2 DEF Asking
<1> QED BY <1>3 DEF Asking

LEMMA InitTypes == SummaryInit => SummaryTypes
<1> SUFFICES ASSUME SummaryInit PROVE SummaryTypes
  OBVIOUS
<1>1. Idle \in Asking
  BY SummaryAssumption DEF Idle, Asking, Stages, Queries, SummaryWindows, NoDates
<1>2. NoCount \in Counts
  BY DEF NoCount, Counts
<1> QED BY <1>1, <1>2, SummaryAssumption DEF SummaryInit, SummaryTypes

LEMMA StepTypes ==
  ASSUME SummaryTypes, [SummaryNext]_summaryVars,
         \A t \in Threads : thread[t].at = "called" => thread[t].call \in DOMAIN calls
  PROVE  SummaryTypes'
<1> USE DEF SummaryTypes
<1>0. use.ticks \in Nat /\ now \in Nat /\ Idle \in Asking /\ NoCount \in Counts
  BY SummaryAssumption DEF Idle, Asking, Stages, Queries, SummaryWindows, NoDates, NoCount, Counts
<1>1. ASSUME NEW t \in Threads, Ask(t) PROVE SummaryTypes'
  <2>1. PICK u \in Users, q \in use.queries :
          thread' = [thread EXCEPT ![t] =
            [Idle EXCEPT !.user = u, !.query = q, !.window = PageWindow(q),
                         !.at = IF Rejected(q) THEN "told" ELSE "asked"]]
    BY <1>1 DEF Ask
  <2>2. q \in Queries
    BY <1>0, SummaryAssumption DEF Queries, SummaryWindows
  <2>3. PageWindow(q) \in SummaryWindows
    BY <1>0, <2>2, PageWindowType
  <2>4. thread' \in [Threads -> Asking]
    <3> DEFINE r == [Idle EXCEPT !.user = u, !.query = q, !.window = PageWindow(q),
                         !.at = IF Rejected(q) THEN "told" ELSE "asked"]
    <3>1. r \in Asking
      BY <1>0, <2>2, <2>3 DEF Asking, Stages
    <3>2. thread' = [thread EXCEPT ![t] = r]
      BY <2>1
    <3> HIDE DEF r
    <3> QED BY <3>1, <3>2
  <2> QED BY <1>1, <2>4 DEF Ask
<1>m. ASSUME NEW t \in Threads, NEW stage \in Stages, Move(t, stage)
      PROVE  thread' \in [Threads -> Asking]
  BY <1>m, AskingChanges DEF Move
<1>s. {"told", "asked", "reading", "read", "limited", "count", "set", "call", "called",
       "done", "new", "error"} \subseteq Stages
  BY DEF Stages
<1>2. ASSUME NEW t \in Threads, ReadResults(t) \/ ReadBalances(t) \/ ReadCount(t) PROVE SummaryTypes'
  <2>1. thread' \in [Threads -> Asking]
    <3>1. CASE ReadResults(t)
      <4>1. CASE ValidPeriod(thread[t].window)
        <5> DEFINE r == [thread[t] EXCEPT !.results = ledger, !.at = "reading"]
        <5>1. thread' = [thread EXCEPT ![t] = r]
          BY <3>1, <4>1 DEF ReadResults
        <5>2. r \in Asking
          BY <1>s, AskingChanges
        <5> HIDE DEF r
        <5> QED BY <5>1, <5>2
      <4>2. CASE ~ValidPeriod(thread[t].window)
        BY <1>m, <1>s, <3>1, <4>2 DEF ReadResults
      <4> QED BY <4>1, <4>2
    <3>2. CASE ReadBalances(t)
      BY <1>s, <3>2, AskingChanges DEF ReadBalances
    <3>3. CASE ReadCount(t)
      BY <1>m, <1>s, <3>3 DEF ReadCount
    <3> QED BY <1>2, <3>1, <3>2, <3>3
  <2> QED BY <1>2, <2>1 DEF ReadResults, ReadBalances, ReadCount
<1>3. ASSUME NEW t \in Threads, NEW call \in Nat, Answered(t, call) = seen'
      PROVE  seen' \subseteq [user : Users, payload : Payloads]
  BY <1>3, PayloadType DEF Answered, Asking
<1>4. ASSUME NEW t \in Threads, NEW call \in Nat, NEW reused \in BOOLEAN, Succeed(t, call, reused)
      PROVE  thread' \in [Threads -> Asking] /\ seen' \subseteq [user : Users, payload : Payloads]
  <2>0. thread[t] \in Asking /\ thread[t].looked \in Nat
    BY DEF Asking
  <2>1. thread' \in [Threads -> Asking]
    <3>1. CASE /\ thread' = [thread EXCEPT ![t].call = call, ![t].reused = reused,
                                 ![t].looked = IF reused THEN now ELSE @, ![t].at = "done"]
      BY <1>0, <1>4, <1>s, <2>0, <3>1, AskingChanges
    <3>2. CASE thread' = [thread EXCEPT ![t].query.kind = "page", ![t].at = "asked"]
      BY <1>s, <2>0, <3>2, AskingChanges
    <3> QED BY <1>4, <3>1, <3>2 DEF Succeed
  <2> QED BY <1>3, <1>4, <2>1 DEF Succeed
<1>5. ASSUME NEW found \in SUBSET DOMAIN records, found # {}
      PROVE  records[Latest(found)].call \in Nat
  <2>1. found \in SUBSET (1 .. Len(records)) /\ Len(records) \in Nat
    BY <1>5, LenProperties
  <2>2. Latest(found) \in DOMAIN records
    BY <1>5, <2>1, LatestIsThere
  <2> HIDE DEF SummaryTypes
  <2>3. records[Latest(found)] \in AnswerRecords
    BY <2>2, ElementOfSeq DEF SummaryTypes
  <2> QED BY <2>3 DEF AnswerRecords
<1>6. ASSUME NEW t \in Threads, Show(t) PROVE SummaryTypes'
  <2> DEFINE call == find_latest_result(thread[t])
  <2>1. call \in Nat
    BY <1>5 DEF find_latest_result, Matches, MatchesAnyStatus
  <2> HIDE DEF call
  <2>2. /\ thread' = [thread EXCEPT ![t].call = call, ![t].at = "done"]
        /\ seen' = Answered(t, call)
    BY <1>6 DEF Show, call
  <2>3. thread' \in [Threads -> Asking]
    BY <1>s, <2>1, <2>2, AskingChanges
  <2> QED BY <1>3, <1>6, <2>1, <2>2, <2>3 DEF Show
<1>7. ASSUME NEW t \in Threads, Look(t) PROVE SummaryTypes'
  <2> DEFINE found == find_reusable_result(thread[t])
  <2>1. found \in SUBSET DOMAIN records
    BY DEF find_reusable_result, MatchesSince
  <2> HIDE DEF found
  <2>2. CASE found = {}
    <3>1. thread' \in [Threads -> Asking] /\ UNCHANGED seen
      BY <1>7, <1>m, <1>s, <2>2 DEF Look, found
    <3> QED BY <1>7, <3>1 DEF Look
  <2>3. CASE found # {}
    <3>1. records[Latest(found)].call \in Nat
      BY <1>5, <2>1, <2>3
    <3>2. Succeed(t, records[Latest(found)].call, TRUE)
      BY <1>7, <2>3 DEF Look, found
    <3> QED BY <1>4, <1>7, <3>1, <3>2 DEF Look
  <2> QED BY <2>2, <2>3
<1>8. ASSUME NEW t \in Threads, CountUp(t) \/ SetCount(t) PROVE SummaryTypes'
  <2>0. WorkerOf[t] \in Workers /\ thread[t].user \in Users
    BY SummaryAssumption DEF Asking
  <2>1. thread' \in [Threads -> Asking]
    BY <1>8, <1>m, <1>s DEF CountUp, SetCount
  <2>2. counter' \in [Workers -> [Users -> Counts]]
    <3>0. \A c \in Counts : [c EXCEPT !.count = @ + 1] \in Counts
      BY DEF Counts
    <3>00. [count |-> 1, until |-> now + RateWindow] \in Counts
      <4>1. now \in Nat /\ RateWindow \in Nat
        BY <1>0, SummaryAssumption
      <4>2. now + RateWindow \in Nat
        BY <4>1
      <4> QED BY <4>2 DEF Counts
    <3>1. CASE CountUp(t)
      <4>1. CASE Running(Count(t))
        <5> DEFINE c == [counter[WorkerOf[t]][thread[t].user] EXCEPT !.count = @ + 1]
        <5>1. counter' = [counter EXCEPT ![WorkerOf[t]][thread[t].user] = c]
          BY <3>1, <4>1 DEF CountUp
        <5>2. c \in Counts
          BY <2>0, <3>0
        <5> HIDE DEF c
        <5> QED BY <2>0, <5>1, <5>2
      <4>2. CASE ~Running(Count(t))
        BY <3>1, <4>2 DEF CountUp
      <4> QED BY <4>1, <4>2
    <3>2. CASE SetCount(t)
      <4> DEFINE c == [count |-> 1, until |-> now + RateWindow]
      <4>1. counter' = [counter EXCEPT ![WorkerOf[t]][thread[t].user] = c]
        BY <3>2 DEF SetCount
      <4> HIDE DEF c
      <4> QED BY <2>0, <3>00, <4>1 DEF c
    <3> QED BY <1>8, <3>1, <3>2
  <2> QED BY <1>8, <2>1, <2>2 DEF CountUp, SetCount
<1>9. ASSUME NEW t \in Threads, Call(t) PROVE SummaryTypes'
  <2>0. WorkerOf[t] \in Workers /\ thread[t].user \in Users /\ Payload(thread[t]) \in Payloads
    BY SummaryAssumption, PayloadType DEF Asking
  <2>1. calls' \in Seq(CallRecords) /\ Len(calls') \in Nat
    BY <1>9, <2>0 DEF Call, CallRecords, Outcomes
  <2>2. thread' \in [Threads -> Asking]
    BY <1>9, <1>s, <2>1, AskingChanges DEF Call
  <2> QED BY <1>9, <2>1, <2>2 DEF Call
<1>10. ASSUME NEW t \in Threads, Record(t) PROVE SummaryTypes'
  <2>0. calls[thread[t].call] \in CallRecords
    BY <1>10, ElementOfSeq DEF Record
  <2>1. Row(t) \in AnswerRecords
    <3>1. thread[t].user \in Users /\ thread[t].call \in Nat /\ Payload(thread[t]) \in Payloads
      BY PayloadType DEF Asking
    <3> QED BY <1>0, <2>0, <3>1 DEF Row, AnswerRecords, CallRecords
  <2>2. records' \in Seq(AnswerRecords)
    BY <1>10, <2>1 DEF Record
  <2>3. thread[t].call \in Nat
    BY DEF Asking
  <2>4. thread' \in [Threads -> Asking] /\ seen' \subseteq [user : Users, payload : Payloads]
    <3>1. CASE Row(t).status = "SUCCESS"
      BY <1>4, <1>10, <2>3, <3>1 DEF Record
    <3>2. CASE Row(t).status # "SUCCESS"
      BY <1>10, <1>m, <1>s, <3>2 DEF Record
    <3> QED BY <3>1, <3>2
  <2> QED BY <1>10, <2>2, <2>4 DEF Record
<1>11. CASE PostEntry
  BY <1>11 DEF PostEntry
<1>12. CASE Tick
  BY <1>0, <1>12 DEF Tick
<1>13. ASSUME NEW w \in Workers, Die(w) PROVE SummaryTypes'
  <2>1. thread' \in [Threads -> Asking]
    BY <1>0, <1>13 DEF Die
  <2>2. counter' \in [Workers -> [Users -> Counts]]
    BY <1>0, <1>13 DEF Die
  <2> QED BY <1>13, <2>1, <2>2 DEF Die
<1>14. CASE UNCHANGED summaryVars
  BY <1>14 DEF summaryVars
<1> QED BY <1>1, <1>2, <1>6, <1>7, <1>8, <1>9, <1>10, <1>11, <1>12, <1>13, <1>14
        DEF SummaryNext, Step

-----------------------------------------------------------------------------
(* Answers, the calls they are of, and what was made of them.              *)

\* A thread whose call was answered holds it, until the answer is recorded.
CallsAreHeld ==
  \A t \in Threads :
    /\ thread[t].call \in 0 .. Len(calls)
    /\ thread[t].reused => thread[t].at = "done"
    /\ thread[t].at = "called"
         => /\ thread[t].call \in DOMAIN calls
            /\ calls[thread[t].call].user = thread[t].user
            /\ calls[thread[t].call].payload = Payload(thread[t])
            /\ \A i \in DOMAIN records : records[i].call # thread[t].call
            /\ \A s \in Threads \ {t} :
                 thread[s].at = "called" => thread[s].call # thread[t].call

\* A record is of one call, and says of it what was.
CallsAreRecorded ==
  /\ \A i \in DOMAIN records :
       /\ records[i].call \in DOMAIN calls
       /\ calls[records[i].call].user = records[i].user
       /\ calls[records[i].call].payload = records[i].payload
       /\ calls[records[i].call].outcome = records[i].status
  /\ \A i, j \in DOMAIN records : records[i].call = records[j].call => i = j

\* What a user was shown is on record.
SeenIsRecorded ==
  \A s \in seen : \E i \in DOMAIN records :
    records[i].user = s.user /\ records[i].payload = s.payload /\ records[i].status = "SUCCESS"

AnswersAreKept ==
  /\ CallsAreHeld /\ CallsAreRecorded /\ SeenIsRecorded
  /\ ShownDescribesFigures /\ ReusedIsFresh

LEMMA InitKept == SummaryInit => AnswersAreKept
BY DEF SummaryInit, AnswersAreKept, CallsAreHeld, CallsAreRecorded, SeenIsRecorded,
       ShownDescribesFigures, ReusedIsFresh, Idle

\* Most steps leave calls and records alone, and no thread holds an answer after them
\* that did not before.
Quiet ==
  /\ UNCHANGED <<calls, records, seen>>
  /\ \A s \in Threads : \/ thread'[s] = thread[s]
                        \/ /\ thread'[s].at \notin {"called", "done"} /\ ~thread'[s].reused
                           /\ thread'[s].call \in 0 .. Len(calls)

LEMMA QuietKeeps ==
  ASSUME AnswersAreKept, Quiet PROVE AnswersAreKept'
<1>1. CallsAreHeld'
  BY DEF Quiet, AnswersAreKept, CallsAreHeld, Payload
<1>2. CallsAreRecorded' /\ SeenIsRecorded'
  BY DEF Quiet, AnswersAreKept, CallsAreRecorded, SeenIsRecorded
<1>3. ShownDescribesFigures' /\ ReusedIsFresh'
  BY DEF Quiet, AnswersAreKept, ShownDescribesFigures, ReusedIsFresh, Payload
<1> QED BY <1>1, <1>2, <1>3 DEF AnswersAreKept

\* Which steps are quiet.
LEMMA QuietSteps ==
  ASSUME SummaryTypes, CallsAreHeld,
         \/ UNCHANGED summaryVars \/ PostEntry \/ Tick
         \/ \E w \in Workers : Die(w)
         \/ \E t \in Threads : \/ Ask(t) \/ ReadResults(t) \/ ReadBalances(t) \/ ReadCount(t)
                               \/ CountUp(t) \/ SetCount(t)
  PROVE  Quiet
<1> USE DEF SummaryTypes, CallsAreHeld
<1>0. calls \in Seq(CallRecords) /\ Len(calls) \in Nat /\ 0 \in 0 .. Len(calls)
  OBVIOUS
<1>1. CASE UNCHANGED summaryVars \/ PostEntry \/ Tick
  BY <1>1 DEF summaryVars, PostEntry, Tick, Quiet
<1>2. ASSUME NEW w \in Workers, Die(w) PROVE Quiet
  BY <1>0, <1>2 DEF Die, Quiet, Idle
<1>m. ASSUME NEW t \in Threads, NEW stage, Move(t, stage), stage \notin {"called", "done"},
             thread[t].at # "done", UNCHANGED <<calls, records, seen>>
      PROVE  Quiet
  <2>1. thread[t] \in Asking
    OBVIOUS
  <2> QED BY <1>m, <2>1 DEF Move, Quiet, Asking
<1>3. ASSUME NEW t \in Threads, Ask(t) PROVE Quiet
  <2>1. PICK u \in Users, q \in use.queries :
          thread' = [thread EXCEPT ![t] =
            [Idle EXCEPT !.user = u, !.query = q, !.window = PageWindow(q),
                         !.at = IF Rejected(q) THEN "told" ELSE "asked"]]
    BY <1>3 DEF Ask
  <2> DEFINE r == [Idle EXCEPT !.user = u, !.query = q, !.window = PageWindow(q),
                         !.at = IF Rejected(q) THEN "told" ELSE "asked"]
  <2>2. r.at \in {"told", "asked"} /\ ~r.reused /\ r.call = 0
    BY DEF Idle
  <2>3. thread'[t] = r /\ \A s \in Threads \ {t} : thread'[s] = thread[s]
    BY <2>1
  <2> HIDE DEF r
  <2> QED BY <1>0, <1>3, <2>2, <2>3 DEF Ask, Quiet
<1>4. ASSUME NEW t \in Threads, ReadResults(t) \/ ReadBalances(t) PROVE Quiet
  <2>1. thread[t] \in Asking /\ thread[t].at # "done"
    BY <1>4 DEF ReadResults, ReadBalances
  <2>2. CASE ReadResults(t) /\ ValidPeriod(thread[t].window)
    <3> DEFINE r == [thread[t] EXCEPT !.results = ledger, !.at = "reading"]
    <3>1. r.at = "reading" /\ r.reused = thread[t].reused /\ r.call = thread[t].call
      BY <2>1 DEF Asking
    <3>2. thread'[t] = r /\ \A s \in Threads \ {t} : thread'[s] = thread[s]
      BY <2>2 DEF ReadResults
    <3> HIDE DEF r
    <3> QED BY <2>1, <2>2, <3>1, <3>2 DEF ReadResults, Quiet
  <2>3. CASE ReadResults(t) /\ ~ValidPeriod(thread[t].window)
    BY <1>m, <2>1, <2>3 DEF ReadResults
  <2>4. CASE ReadBalances(t)
    BY <2>1, <2>4 DEF ReadBalances, Quiet, Asking
  <2> QED BY <1>4, <2>2, <2>3, <2>4
<1>5. ASSUME NEW t \in Threads, ReadCount(t) \/ CountUp(t) \/ SetCount(t) PROVE Quiet
  BY <1>5, <1>m DEF ReadCount, CountUp, SetCount
<1> QED BY <1>1, <1>2, <1>3, <1>4, <1>5

\* A thread that shows an answer on record keeps all of it.
LEMMA ShowingKeeps ==
  ASSUME SummaryTypes, AnswersAreKept, NEW t \in Threads, thread[t].at \notin {"done"},
         UNCHANGED <<calls, records>>,
         NEW i \in DOMAIN records, records[i].user = thread[t].user,
         records[i].payload = Payload(thread[t]), records[i].status = "SUCCESS",
         NEW reused \in BOOLEAN, NEW looked \in Nat,
         reused => records[i].at + DedupWindow >= looked,
         thread' = [thread EXCEPT ![t] = [thread[t] EXCEPT !.call = records[i].call,
                                            !.reused = reused, !.looked = looked, !.at = "done"]],
         seen' = Answered(t, records[i].call)
  PROVE  AnswersAreKept'
<1> USE DEF AnswersAreKept
<1> DEFINE r == [thread[t] EXCEPT !.call = records[i].call,
                                  !.reused = reused, !.looked = looked, !.at = "done"]
<1>0. thread[t] \in Asking
  BY DEF SummaryTypes
<1>1. /\ r.call = records[i].call /\ r.reused = reused /\ r.looked = looked /\ r.at = "done"
      /\ r.user = thread[t].user /\ Payload(r) = Payload(thread[t])
  BY <1>0 DEF Asking, Payload
<1> HIDE DEF r
<1>2. thread'[t] = r /\ \A s \in Threads \ {t} : thread'[s] = thread[s]
  BY DEF SummaryTypes, r
<1>3. r.call \in DOMAIN calls /\ r.call \in 0 .. Len(calls) /\ r.call # 0
  BY <1>1, LenProperties DEF CallsAreRecorded, SummaryTypes
<1>4. CallsAreHeld'
  BY <1>1, <1>2, <1>3 DEF CallsAreHeld, Payload
<1>5. CallsAreRecorded'
  BY DEF CallsAreRecorded
<1>6. SeenIsRecorded'
  BY DEF SeenIsRecorded, Answered
<1>7. ShownDescribesFigures'
  BY <1>1, <1>2, <1>3 DEF ShownDescribesFigures, CallsAreRecorded, Payload
<1>8. ReusedIsFresh'
  BY <1>1, <1>2 DEF ReusedIsFresh
<1> QED BY <1>4, <1>5, <1>6, <1>7, <1>8

LEMMA RecordTypes ==
  ASSUME SummaryTypes, NEW found \in SUBSET DOMAIN records, found # {}
  PROVE  Latest(found) \in found
<1>1. Len(records) \in Nat /\ DOMAIN records = 1 .. Len(records)
  BY LenProperties DEF SummaryTypes
<1> QED BY <1>1, LatestIsThere

LEMMA ShowKeeps ==
  ASSUME SummaryTypes, AnswersAreKept, NEW t \in Threads, Show(t) PROVE AnswersAreKept'
<1> DEFINE found == Matches(thread[t])
           call == find_latest_result(thread[t])
<1>0. thread[t] \in Asking /\ ~thread[t].reused /\ thread[t].at = "read" /\ UNCHANGED <<calls, records>>
  BY DEF SummaryTypes, AnswersAreKept, CallsAreHeld, Show
<1>1. /\ thread' = [thread EXCEPT ![t].call = call, ![t].at = "done"]
      /\ seen' = Answered(t, call)
  BY DEF Show
<1>2. CASE found = {}
  <2>1. call = 0
    BY <1>2 DEF find_latest_result
  <2> HIDE DEF call
  <2> DEFINE r == [thread[t] EXCEPT !.call = 0, !.at = "done"]
  <2>2. r.call = 0 /\ r.at = "done" /\ ~r.reused /\ r.call \in 0 .. Len(calls)
    BY <1>0, LenProperties DEF Asking, SummaryTypes
  <2>3. thread'[t] = r /\ \A s \in Threads \ {t} : thread'[s] = thread[s]
    BY <1>1, <2>1 DEF SummaryTypes
  <2> HIDE DEF r
  <2>4. seen' = seen
    BY <1>1, <2>1 DEF Answered
  <2>5. CallsAreHeld'
    BY <1>0, <2>2, <2>3 DEF AnswersAreKept, CallsAreHeld, Payload
  <2>6. CallsAreRecorded' /\ SeenIsRecorded'
    BY <1>0, <2>4 DEF AnswersAreKept, CallsAreRecorded, SeenIsRecorded
  <2>7. ShownDescribesFigures' /\ ReusedIsFresh'
    BY <1>0, <2>2, <2>3 DEF AnswersAreKept, ShownDescribesFigures, ReusedIsFresh, Payload
  <2> QED BY <2>5, <2>6, <2>7 DEF AnswersAreKept
<1>3. CASE found # {}
  <2>1. PICK i \in found : i = Latest(found)
    BY <1>3, RecordTypes DEF Matches, MatchesAnyStatus
  <2>2. call = records[i].call
    BY <1>3, <2>1 DEF find_latest_result
  <2>3. /\ i \in DOMAIN records /\ records[i].user = thread[t].user
        /\ records[i].payload = Payload(thread[t]) /\ records[i].status = "SUCCESS"
    BY DEF Matches, MatchesAnyStatus
  <2> HIDE DEF call, found
  <2>4. thread' = [thread EXCEPT ![t] = [thread[t] EXCEPT !.call = records[i].call,
                     !.reused = FALSE, !.looked = thread[t].looked, !.at = "done"]]
    BY <1>0, <1>1, <2>2 DEF Asking, SummaryTypes
  <2>5. thread[t].looked \in Nat
    BY <1>0 DEF Asking
  <2> QED BY <1>0, <1>1, <2>2, <2>3, <2>4, <2>5, ShowingKeeps
<1> QED BY <1>2, <1>3

\* A browser that is sent to the page holds no answer.
LEMMA RedirectedIsQuiet ==
  ASSUME SummaryTypes, CallsAreHeld, NEW t \in Threads, thread[t].at # "done",
         thread' = [thread EXCEPT ![t].query.kind = "page", ![t].at = "asked"]
  PROVE  \A s \in Threads : \/ thread'[s] = thread[s]
                            \/ /\ thread'[s].at \notin {"called", "done"} /\ ~thread'[s].reused
                               /\ thread'[s].call \in 0 .. Len(calls)
<1>0. thread[t] \in Asking /\ ~thread[t].reused /\ thread[t].call \in 0 .. Len(calls)
  BY DEF SummaryTypes, CallsAreHeld
<1>1. thread'[t].at = "asked" /\ thread'[t].reused = thread[t].reused /\ thread'[t].call = thread[t].call
  BY <1>0 DEF SummaryTypes, Asking
<1> QED BY <1>0, <1>1 DEF SummaryTypes

LEMMA LookKeeps ==
  ASSUME SummaryTypes, AnswersAreKept, NEW t \in Threads, Look(t) PROVE AnswersAreKept'
<1> DEFINE found == find_reusable_result(thread[t])
<1>0. /\ thread[t] \in Asking /\ ~thread[t].reused /\ thread[t].at = "read" /\ UNCHANGED <<calls, records>>
      /\ now \in Nat
  BY SummaryAssumption DEF SummaryTypes, AnswersAreKept, CallsAreHeld, Look
<1>1. CASE found = {}
  <2>1. thread' = [thread EXCEPT ![t].at = "new"] /\ UNCHANGED seen
    BY <1>1 DEF Look, Move
  <2>2. thread'[t].at = "new" /\ ~thread'[t].reused /\ thread'[t].call = thread[t].call
    BY <1>0, <2>1 DEF SummaryTypes, Asking
  <2>3. Quiet
    BY <1>0, <2>1, <2>2 DEF Quiet, AnswersAreKept, CallsAreHeld, SummaryTypes
  <2> QED BY <2>3, QuietKeeps
<1>2. CASE found # {}
  <2>1. PICK i \in found : i = Latest(found)
    BY <1>2, RecordTypes DEF find_reusable_result, MatchesSince
  <2>2. /\ i \in DOMAIN records /\ records[i].user = thread[t].user
        /\ records[i].payload = Payload(thread[t]) /\ records[i].status = "SUCCESS"
        /\ records[i].at + DedupWindow >= now
    BY DEF find_reusable_result, MatchesSince
  <2>3. Succeed(t, records[i].call, TRUE)
    BY <1>2, <2>1 DEF Look
  <2> HIDE DEF found
  <2>4. CASE /\ thread' = [thread EXCEPT ![t].call = records[i].call, ![t].reused = TRUE,
                                 ![t].looked = now, ![t].at = "done"]
             /\ seen' = Answered(t, records[i].call)
    <3>1. thread' = [thread EXCEPT ![t] = [thread[t] EXCEPT !.call = records[i].call,
                       !.reused = TRUE, !.looked = now, !.at = "done"]]
      BY <2>4 DEF SummaryTypes, Asking
    <3> QED BY <1>0, <2>2, <2>4, <3>1, ShowingKeeps
  <2>5. CASE /\ thread' = [thread EXCEPT ![t].query.kind = "page", ![t].at = "asked"]
             /\ UNCHANGED seen
    <3>1. Quiet
      BY <1>0, <2>5, RedirectedIsQuiet DEF Quiet, AnswersAreKept
    <3> QED BY <3>1, QuietKeeps
  <2> QED BY <2>3, <2>4, <2>5 DEF Succeed
<1> QED BY <1>1, <1>2

LEMMA CallKeeps ==
  ASSUME SummaryTypes, AnswersAreKept, NEW t \in Threads, Call(t) PROVE AnswersAreKept'
<1> DEFINE n == Len(calls) + 1
<1>0. /\ thread[t] \in Asking /\ thread[t].at = "call" /\ UNCHANGED <<records, seen>> /\ Len(calls) \in Nat
      /\ ~thread[t].reused
  BY LenProperties DEF SummaryTypes, Call, AnswersAreKept, CallsAreHeld
<1>1. PICK outcome \in Outcomes :
        calls' = Append(calls, [user |-> thread[t].user, worker |-> WorkerOf[t],
                                payload |-> Payload(thread[t]), outcome |-> outcome])
  BY DEF Call
<1>2. /\ Len(calls') = n /\ DOMAIN calls = 1 .. Len(calls) /\ DOMAIN calls' = 1 .. n
      /\ \A k \in DOMAIN calls : calls'[k] = calls[k]
      /\ calls'[n].user = thread[t].user /\ calls'[n].payload = Payload(thread[t])
  BY <1>1, LenProperties, AppendProperties DEF SummaryTypes
<1>3. thread' = [thread EXCEPT ![t] = [thread[t] EXCEPT !.call = n, !.at = "called"]]
  BY <1>2 DEF Call
<1> DEFINE r == [thread[t] EXCEPT !.call = n, !.at = "called"]
<1>4. /\ r.call = n /\ r.at = "called" /\ ~r.reused /\ r.user = thread[t].user
      /\ Payload(r) = Payload(thread[t])
  BY <1>0 DEF Asking, Payload
<1>5. thread'[t] = r /\ \A s \in Threads \ {t} : thread'[s] = thread[s]
  BY <1>3 DEF SummaryTypes
<1> HIDE DEF r
<1>6. \A i \in DOMAIN records : records[i].call \in 1 .. Len(calls) /\ records[i].call # n
  BY <1>0, <1>2 DEF AnswersAreKept, CallsAreRecorded
<1>7. \A s \in Threads : thread[s].call \in 0 .. Len(calls) /\ thread[s].call # n
  BY <1>0 DEF AnswersAreKept, CallsAreHeld
<1> HIDE DEF n
<1>8. \A s \in Threads \ {t} : thread[s].call \in 0 .. n
  BY <1>0, <1>7 DEF n
<1>80. n \in 1 .. n /\ n \in 0 .. n /\ DOMAIN calls \subseteq DOMAIN calls'
  BY <1>0, <1>2 DEF n
<1>9. CallsAreHeld'
  BY <1>0, <1>2, <1>4, <1>5, <1>6, <1>7, <1>8, <1>80 DEF AnswersAreKept, CallsAreHeld, Payload
<1>10. CallsAreRecorded' /\ SeenIsRecorded'
  BY <1>0, <1>2, <1>80 DEF AnswersAreKept, CallsAreRecorded, SeenIsRecorded
<1>11. ReusedIsFresh'
  BY <1>0, <1>4, <1>5 DEF AnswersAreKept, ReusedIsFresh
<1>12. ShownDescribesFigures'
  <2>1. \A s \in Threads : thread[s].call # 0 => thread[s].call \in DOMAIN calls
    BY <1>0, <1>2, <1>7
  <2> QED BY <1>0, <1>2, <1>4, <1>5, <2>1 DEF AnswersAreKept, ShownDescribesFigures, Payload
<1> QED BY <1>9, <1>10, <1>11, <1>12 DEF AnswersAreKept

LEMMA RecordKeeps ==
  ASSUME SummaryTypes, AnswersAreKept, NEW t \in Threads, Record(t) PROVE AnswersAreKept'
<1> DEFINE n == Len(records) + 1
           call == thread[t].call
<1>0. /\ thread[t] \in Asking /\ thread[t].at = "called" /\ UNCHANGED calls
      /\ ~thread[t].reused /\ call \in DOMAIN calls /\ call \in 0 .. Len(calls)
      /\ calls[call].user = thread[t].user /\ calls[call].payload = Payload(thread[t])
      /\ \A i \in DOMAIN records : records[i].call # call
      /\ Len(records) \in Nat
  BY LenProperties DEF SummaryTypes, Record, AnswersAreKept, CallsAreHeld
<1>01. call # 0
  BY <1>0, LenProperties DEF SummaryTypes
<1>1. /\ Row(t).user = thread[t].user /\ Row(t).payload = Payload(thread[t])
      /\ Row(t).call = call /\ Row(t).status = calls[call].outcome
  BY DEF Row
<1>2. /\ DOMAIN records \subseteq DOMAIN records'
      /\ \A i \in DOMAIN records : records'[i] = records[i]
      /\ \A i \in DOMAIN records' \ DOMAIN records : i = n /\ records'[i] = Row(t)
      /\ Row(t).status = "SUCCESS" => n \in DOMAIN records' /\ records'[n] = Row(t)
  <2>1. CASE Row(t).status = "UNSTORABLE"
    BY <2>1 DEF Record
  <2>2. CASE Row(t).status # "UNSTORABLE"
    <3>1. records' = Append(records, Row(t))
      BY <2>2 DEF Record
    <3> QED BY <3>1, LenProperties, AppendProperties DEF SummaryTypes
  <2> QED BY <2>1, <2>2
<1>3. CallsAreRecorded'
  BY <1>0, <1>1, <1>2 DEF AnswersAreKept, CallsAreRecorded
<1>m. \A s \in Threads \ {t} : thread'[s] = thread[s]
  BY DEF Record, Succeed, Move, SummaryTypes
<1>4. ASSUME thread'[t].at \notin {"called"}, thread'[t].call = call,
             thread'[t].reused = FALSE
      PROVE  CallsAreHeld' /\ ReusedIsFresh'
  <2>1. ASSUME NEW s \in Threads \ {t}, thread[s].at = "called",
               NEW i \in DOMAIN records'
        PROVE  records'[i].call # thread[s].call
    <3>1. thread[s].call # call /\ \A j \in DOMAIN records : records[j].call # thread[s].call
      BY <1>0, <2>1 DEF AnswersAreKept, CallsAreHeld
    <3> QED BY <1>1, <1>2, <3>1
  <2>2. CallsAreHeld'
    BY <1>0, <1>m, <1>4, <2>1 DEF AnswersAreKept, CallsAreHeld, Payload
  <2>3. ReusedIsFresh'
    BY <1>2, <1>m, <1>4 DEF AnswersAreKept, ReusedIsFresh
  <2> QED BY <2>2, <2>3
<1>5. ASSUME Row(t).status = "SUCCESS" \/ UNCHANGED seen,
             seen' = seen \/ seen' = Answered(t, call)
      PROVE  SeenIsRecorded'
  BY <1>1, <1>2, <1>5 DEF AnswersAreKept, SeenIsRecorded, Answered
<1>6. CASE Row(t).status = "SUCCESS"
  <2>1. Succeed(t, call, FALSE)
    BY <1>6 DEF Record
  <2>2. SeenIsRecorded'
    BY <1>5, <1>6, <2>1 DEF Succeed
  <2>3. CASE thread' = [thread EXCEPT ![t].call = call, ![t].reused = FALSE,
                                      ![t].looked = thread[t].looked, ![t].at = "done"]
    <3>1. /\ thread'[t].at = "done" /\ thread'[t].call = call /\ thread'[t].reused = FALSE
          /\ thread'[t].user = thread[t].user /\ Payload(thread'[t]) = Payload(thread[t])
      BY <1>0, <2>3 DEF SummaryTypes, Asking, Payload
    <3>2. ShownDescribesFigures'
      <4>1. /\ calls'[call].user = thread'[t].user /\ calls'[call].payload = Payload(thread'[t])
            /\ calls'[call].outcome = "SUCCESS"
        BY <1>0, <1>1, <1>6, <3>1
      <4>2. ASSUME NEW s \in Threads \ {t}, thread'[s].at = "done", thread'[s].call # 0
            PROVE  /\ calls'[thread'[s].call].user = thread'[s].user
                   /\ calls'[thread'[s].call].payload = Payload(thread'[s])
                   /\ calls'[thread'[s].call].outcome = "SUCCESS"
        BY <1>0, <1>m, <4>2 DEF AnswersAreKept, ShownDescribesFigures
      <4> QED BY <3>1, <4>1, <4>2 DEF ShownDescribesFigures, Payload
    <3> QED BY <1>3, <1>4, <2>2, <3>1, <3>2 DEF AnswersAreKept
  <2>4. CASE thread' = [thread EXCEPT ![t].query.kind = "page", ![t].at = "asked"]
    <3>1. thread'[t].at = "asked" /\ thread'[t].reused = FALSE /\ thread'[t].call = call
      BY <1>0, <2>4 DEF SummaryTypes, Asking
    <3>2. ShownDescribesFigures'
      BY <1>0, <1>m, <3>1 DEF AnswersAreKept, ShownDescribesFigures, Payload
    <3> QED BY <1>3, <1>4, <2>2, <3>1, <3>2 DEF AnswersAreKept
  <2> QED BY <2>1, <2>3, <2>4 DEF Succeed
<1>7. CASE Row(t).status # "SUCCESS"
  <2>1. thread' = [thread EXCEPT ![t].at = "error"] /\ UNCHANGED seen
    BY <1>7 DEF Record, Move
  <2>2. thread'[t].at = "error" /\ thread'[t].reused = FALSE /\ thread'[t].call = call
    BY <1>0, <2>1 DEF SummaryTypes, Asking
  <2>3. ShownDescribesFigures'
    BY <1>0, <1>m, <2>2 DEF AnswersAreKept, ShownDescribesFigures, Payload
  <2> QED BY <1>3, <1>4, <1>5, <2>1, <2>2, <2>3 DEF AnswersAreKept
<1> QED BY <1>6, <1>7

LEMMA StepKeeps ==
  ASSUME SummaryTypes, AnswersAreKept, [SummaryNext]_summaryVars PROVE AnswersAreKept'
<1>1. CASE \E t \in Threads : Show(t) \/ Look(t) \/ Call(t) \/ Record(t)
  BY <1>1, ShowKeeps, LookKeeps, CallKeeps, RecordKeeps
<1>2. CASE ~ \E t \in Threads : Show(t) \/ Look(t) \/ Call(t) \/ Record(t)
  <2>1. Quiet
    BY <1>2, QuietSteps DEF SummaryNext, Step, AnswersAreKept
  <2> QED BY <2>1, QuietKeeps
<1> QED BY <1>1, <1>2

-----------------------------------------------------------------------------
(* The days asked for.                                                     *)

\* What holds of a request at each of its stages, on a day.
AskedWell(r, day) ==
  /\ r.at \notin {"idle", "told"} /\ r.query.kind = "csv" /\ r.query.given => r.window = r.query.dates
  /\ r.at \notin {"idle", "told"} /\ ~r.query.given
       => /\ r.query.kind # "post" /\ r.window.from = Period.from
          /\ r.window.from <= r.window.to /\ r.window.to <= day
  /\ r.at \notin {"idle", "asked", "told"} => r.window.to <= day
  /\ r.at = "told" /\ r.query.kind # "post" /\ ~r.query.given => day - Period.from > MaxSpan
WindowsAreAsked == \A t \in Threads : AskedWell(thread[t], Today)

LEMMA DaysPass ==
  ASSUME SummaryTypes, [SummaryNext]_summaryVars
  PROVE  Today \in Nat /\ Today' \in Nat /\ Today <= Today' /\ Today >= FirstDay
<1>1. now \in Nat
  BY SummaryAssumption DEF SummaryTypes
<1>2. now' = now \/ now' = now + 1
  BY DEF SummaryNext, Step, summaryVars, Ask, ReadResults, ReadBalances, Show, Look, ReadCount,
         CountUp, SetCount, Call, Record, PostEntry, Tick, Die
<1>3. \A n \in Nat : (n \div TicksPerDay) \in Nat /\ ((n + 1) \div TicksPerDay) \in Nat
                     /\ n \div TicksPerDay <= (n + 1) \div TicksPerDay
  BY SummaryAssumption, DivisionGrows
<1> DEFINE q(n) == n \div TicksPerDay
<1>4. q(now) \in Nat /\ q(now + 1) \in Nat /\ q(now) <= q(now + 1)
  BY <1>1, <1>3
<1>5. Today = FirstDay + q(now) /\ Today' = FirstDay + q(now')
  BY DEF Today
<1> HIDE DEF q
<1>6. q(now') \in Nat /\ q(now) <= q(now')
  BY <1>2, <1>4
<1> QED BY <1>4, <1>5, <1>6, SummaryAssumption

\* A day later a request is as well asked; and it stays so while it goes on.
LEMMA AskedWellLater ==
  ASSUME NEW r \in Asking, NEW day \in Nat, NEW later \in Nat, day <= later, AskedWell(r, day)
  PROVE  AskedWell(r, later)
BY SummaryAssumption DEF AskedWell, Asking, SummaryWindows

LEMMA AskedWellOn ==
  ASSUME NEW r \in Asking, NEW on \in Asking, NEW day \in Nat, AskedWell(r, day),
         r.at \notin {"idle", "asked", "told"}, on.at \notin {"idle", "told"},
         on.window = r.window, on.query.given = r.query.given, on.query.dates = r.query.dates,
         on.query.kind = r.query.kind \/ on.query.kind = "page"
  PROVE  AskedWell(on, day)
BY DEF AskedWell

LEMMA GoesOn ==
  ASSUME SummaryTypes, NEW t \in Threads,
         ReadBalances(t) \/ Show(t) \/ Look(t) \/ ReadCount(t) \/ CountUp(t) \/ SetCount(t)
           \/ Call(t) \/ Record(t)
  PROVE  /\ \A s \in Threads \ {t} : thread'[s] = thread[s]
         /\ thread[t].at \notin {"idle", "asked", "told"}
         /\ thread'[t].at \notin {"idle", "told"} /\ thread'[t].window = thread[t].window
         /\ thread'[t].query.given = thread[t].query.given
         /\ thread'[t].query.dates = thread[t].query.dates
         /\ thread'[t].query.kind = thread[t].query.kind \/ thread'[t].query.kind = "page"
<1> DEFINE Goal ==
             /\ \A s \in Threads \ {t} : thread'[s] = thread[s]
             /\ thread'[t].at \notin {"idle", "told"} /\ thread'[t].window = thread[t].window
             /\ thread'[t].query.given = thread[t].query.given
             /\ thread'[t].query.dates = thread[t].query.dates
             /\ thread'[t].query.kind = thread[t].query.kind \/ thread'[t].query.kind = "page"
<1>0. thread \in [Threads -> Asking] /\ thread[t] \in Asking /\ thread[t].query \in Queries
  BY DEF SummaryTypes, Asking, Queries
<1>1. thread[t].at \notin {"idle", "asked", "told"}
  BY DEF ReadBalances, Show, Look, ReadCount, CountUp, SetCount, Call, Record
<1>2. ASSUME NEW stage, stage \notin {"idle", "told"}, Move(t, stage) PROVE Goal
  BY <1>0, <1>2 DEF Move, Asking
<1>3. ASSUME NEW call, NEW reused, Succeed(t, call, reused) PROVE Goal
  <2>1. CASE thread' = [thread EXCEPT ![t].query.kind = "page", ![t].at = "asked"]
    BY <1>0, <2>1 DEF Asking, Queries
  <2>2. CASE thread' = [thread EXCEPT ![t].call = call, ![t].reused = reused,
                                 ![t].looked = IF reused THEN now ELSE @, ![t].at = "done"]
    BY <1>0, <2>2 DEF Asking
  <2> QED BY <1>3, <2>1, <2>2 DEF Succeed
<1>4. CASE ReadBalances(t)
  BY <1>0, <1>4 DEF ReadBalances, Asking
<1>5. CASE Show(t)
  BY <1>0, <1>5 DEF Show, Asking
<1>6. CASE Look(t)
  BY <1>2, <1>3, <1>6 DEF Look
<1>7. CASE ReadCount(t) \/ CountUp(t) \/ SetCount(t)
  BY <1>2, <1>7 DEF ReadCount, CountUp, SetCount
<1>8. CASE Call(t)
  BY <1>0, <1>8 DEF Call, Asking
<1>9. CASE Record(t)
  BY <1>2, <1>3, <1>9 DEF Record
<1> QED BY <1>1, <1>4, <1>5, <1>6, <1>7, <1>8, <1>9

LEMMA InitWindows == SummaryInit => WindowsAreAsked
BY DEF SummaryInit, WindowsAreAsked, AskedWell, Idle

LEMMA StepWindows ==
  ASSUME SummaryTypes, SummaryTypes', WindowsAreAsked, [SummaryNext]_summaryVars
  PROVE  WindowsAreAsked'
<1>0. Today \in Nat /\ Today' \in Nat /\ Today <= Today' /\ Today >= FirstDay
  BY DaysPass
<1>1. thread \in [Threads -> Asking] /\ thread' \in [Threads -> Asking]
  BY DEF SummaryTypes
<1>2. SUFFICES ASSUME NEW s \in Threads PROVE AskedWell(thread'[s], Today')
  BY DEF WindowsAreAsked
<1>3. AskedWell(thread[s], Today)
  BY DEF WindowsAreAsked
<1>4. CASE thread'[s] = thread[s]
  BY <1>0, <1>1, <1>3, <1>4, AskedWellLater
<1>5. CASE thread'[s] = Idle
  BY <1>5 DEF AskedWell, Idle
<1>6. CASE Ask(s)
  <2>1. PICK u \in Users, q \in use.queries :
          thread' = [thread EXCEPT ![s] =
            [Idle EXCEPT !.user = u, !.query = q, !.window = PageWindow(q),
                         !.at = IF Rejected(q) THEN "told" ELSE "asked"]]
    BY <1>6 DEF Ask
  <2>2. q \in Queries /\ (~q.given => q.dates = NoDates)
    BY SummaryAssumption DEF SummaryTypes, Queries, SummaryWindows
  <2>3. /\ thread'[s].query = q /\ thread'[s].window = PageWindow(q)
        /\ thread'[s].at = IF Rejected(q) THEN "told" ELSE "asked"
    BY <1>1, <2>1 DEF Idle
  <2>4. Period.from \in Nat /\ Period.to \in Nat /\ Period.from <= FirstDay /\ Period.from <= Period.to
    <3>1. use \in Uses /\ use.ticks \in Nat
      BY SummaryAssumption DEF SummaryTypes
    <3>2. (use.ticks \div TicksPerDay) \in Nat
      BY <3>1, SummaryAssumption, DivisionGrows
    <3> QED BY <3>1, <3>2, SummaryAssumption
  <2>5. CASE q.given
    BY <2>3, <2>5 DEF AskedWell, Rejected, RejectedPost, PageWindow
  <2>6. CASE ~q.given
    <3>1. ~FormValid(q)
      BY <2>2, <2>6 DEF FormValid
    <3>2. CASE q.kind = "post"
      BY <2>3, <3>1, <3>2 DEF AskedWell, Rejected, RejectedPost
    <3>3. CASE q.kind # "post"
      <4>1. ~Rejected(q)
        BY <2>6, <3>3 DEF Rejected, RejectedPost
      <4>2. PageWindow(q) = [Period EXCEPT !.to = IF @ > Today THEN Today ELSE @]
        BY <3>1 DEF PageWindow, DefaultWindow
      <4>3. PageWindow(q).from = Period.from
            /\ PageWindow(q).to = IF Period.to > Today THEN Today ELSE Period.to
        BY <4>2, SummaryAssumption
      <4>4. Today' = Today
        BY <1>6 DEF Ask, Today
      <4> QED BY <1>0, <2>3, <2>4, <2>6, <3>3, <4>1, <4>3, <4>4, SummaryAssumption DEF AskedWell
    <3> QED BY <3>2, <3>3
  <2> QED BY <2>5, <2>6
<1>7. CASE ReadResults(s)
  <2> DEFINE r == thread[s]
  <2>0. Today' = Today /\ r \in Asking /\ r.window.from \in Nat /\ r.window.to \in Nat /\ r.at = "asked"
    BY <1>1, <1>7 DEF ReadResults, Today, Asking, SummaryWindows
  <2>1. CASE ValidPeriod(r.window)
    <3>1. thread'[s].window = r.window /\ thread'[s].query = r.query /\ thread'[s].at = "reading"
      BY <1>1, <1>7, <2>0, <2>1 DEF ReadResults, Asking
    <3>2. r.window.to <= Today
      BY <2>1 DEF ValidPeriod
    <3> QED BY <1>3, <2>0, <3>1, <3>2 DEF AskedWell
  <2>2. CASE ~ValidPeriod(r.window)
    <3>1. thread'[s].query = r.query /\ thread'[s].at = "told"
      BY <1>1, <1>7, <2>0, <2>2 DEF ReadResults, Asking, Move
    <3>2. Today - Period.from > MaxSpan \/ r.query.given
      BY <1>0, <1>3, <2>0, <2>2, SummaryAssumption DEF AskedWell, ValidPeriod
    <3> QED BY <2>0, <3>1, <3>2 DEF AskedWell
  <2> QED BY <2>1, <2>2
<1>8. CASE ReadBalances(s) \/ Show(s) \/ Look(s) \/ ReadCount(s) \/ CountUp(s) \/ SetCount(s)
             \/ Call(s) \/ Record(s)
  <2>1. AskedWell(thread'[s], Today)
    BY <1>0, <1>1, <1>3, <1>8, GoesOn, AskedWellOn
  <2> QED BY <1>0, <1>1, <2>1, AskedWellLater
<1>9. \/ thread'[s] = thread[s] \/ thread'[s] = Idle \/ Ask(s) \/ ReadResults(s)
      \/ ReadBalances(s) \/ Show(s) \/ Look(s) \/ ReadCount(s) \/ CountUp(s) \/ SetCount(s)
      \/ Call(s) \/ Record(s)
  <2>1. CASE UNCHANGED summaryVars \/ PostEntry \/ Tick
    BY <2>1 DEF summaryVars, PostEntry, Tick
  <2>2. CASE \E w \in Workers : Die(w)
    BY <2>2 DEF Die
  <2>3. ASSUME NEW t \in Threads, Step(t), t # s PROVE thread'[s] = thread[s]
    <3>1. CASE Ask(t) \/ ReadResults(t)
      BY <1>1, <3>1, <2>3 DEF Ask, ReadResults, Move
    <3>2. CASE ~(Ask(t) \/ ReadResults(t))
      BY <2>3, <3>2, GoesOn DEF Step
    <3> QED BY <3>1, <3>2
  <2> QED BY <2>1, <2>2, <2>3 DEF SummaryNext, Step
<1> QED BY <1>4, <1>5, <1>6, <1>7, <1>8, <1>9

LEMMA WindowsServe ==
  ASSUME WindowsAreAsked, SummaryTypes PROVE ExportIsOfWhatWasAsked /\ DefaultHasFigures
<1>1. Today \in Nat /\ Period.from \in Nat /\ MaxSpan \in Nat
  BY TodayIsDay, SummaryAssumption DEF SummaryTypes
<1> QED BY <1>1 DEF WindowsAreAsked, AskedWell, ExportIsOfWhatWasAsked, DefaultHasFigures

-----------------------------------------------------------------------------
(* The calls that the races over the counter let through.                  *)

At(stage, u, w) == {t \in ThreadsOf(w) : thread[t].at = stage /\ thread[t].user = u}
Turns == {"count", "set", "call"}

\* Threads that will not set a counter back, and the calls so many can make.
Unset(u, w) == Cardinality(ThreadsOf(w)) - Cardinality(At("set", u, w))
Room(a) == (a - 1) * (Limit - 1) + (a * (a - 1)) \div 2

\* While no counter expires, the calls made and about to be made are those that
\* restarts let through, those the counter knows of, and those it was set back from.
Tally(running, count, atCount, atCall, made, unset, past) ==
  /\ ~running => made <= past /\ atCall = 0
  /\ running => /\ Limit >= 1 /\ count >= 1
                /\ count + atCount <= Limit - 1 + unset
                /\ made + atCall <= past + count + Room(unset)
CountedAt(u, w) ==
  LET c == counter[w][u]
  IN  now < RateWindow
        => /\ c.until = 0 \/ c.until >= RateWindow
           /\ Tally(Running(c), c.count, Cardinality(At("count", u, w)),
                    Cardinality(At("call", u, w)), Cardinality(CallsOf(u, w)), Unset(u, w),
                    deaths * CallsAtMost(Cardinality(ThreadsOf(w))))
CallsAreCounted ==
  /\ \A u \in Users, w \in Workers : CountedAt(u, w)
  /\ \A t \in Threads : thread[t].at \in Turns => Limit >= 1

LEMMA RoomRises ==
  ASSUME NEW a \in Nat
  PROVE  /\ Room(a) \in Int /\ Room(a + 1) = Room(a) + (Limit - 1) + a
         /\ Room(a + 1) = CallsAtMost(a) /\ CallsAtMost(a) \in Nat
         /\ Limit >= 1 => \A b \in Nat : a <= b => Room(a) <= Room(b)
<1>0. Limit \in Nat
  BY SummaryAssumption
<1> DEFINE x(b) == b * (b - 1)
<1>1. \A b \in Nat : x(b) \in Nat /\ x(b + 1) = x(b) + 2 * b
  OBVIOUS
<1>2. \A y \in Nat, b \in Nat : (y + 2 * b) \div 2 = (y \div 2) + b /\ y \div 2 \in Nat
  OBVIOUS
<1>3. x(a + 1) \div 2 = (x(a) \div 2) + a /\ x(a) \div 2 \in Nat
  BY <1>1, <1>2
<1>4. (a + 1) * a = x(a + 1) /\ ((a + 1) - 1) = a
  OBVIOUS
<1>5. Room(a) = (a - 1) * (Limit - 1) + (x(a) \div 2) /\ Room(a + 1) = a * (Limit - 1) + (x(a + 1) \div 2)
  BY <1>4 DEF Room
<1>6. CallsAtMost(a) = a * Limit + (x(a) \div 2)
  BY DEF CallsAtMost
<1>7. a * (Limit - 1) = a * Limit - a /\ a * (Limit - 1) = (a - 1) * (Limit - 1) + (Limit - 1)
      /\ (a - 1) * (Limit - 1) \in Int /\ a * Limit \in Nat
  BY <1>0
<1>8. ASSUME Limit >= 1, NEW b \in Nat, a <= b PROVE Room(a) <= Room(b)
  <2>1. x(a) <= x(b)
    BY <1>8
  <2>2. x(a) \div 2 <= x(b) \div 2
    BY <1>1, <2>1
  <2>3. (a - 1) * (Limit - 1) <= (b - 1) * (Limit - 1)
    BY <1>0, <1>8
  <2>4. Room(b) = (b - 1) * (Limit - 1) + (x(b) \div 2) /\ x(b) \div 2 \in Nat
    BY <1>1, <1>2 DEF Room
  <2>5. (b - 1) * (Limit - 1) \in Int
    BY <1>0
  <2> HIDE DEF x
  <2> QED BY <1>3, <1>5, <1>7, <2>2, <2>3, <2>4, <2>5
<1> HIDE DEF x
<1> QED BY <1>0, <1>3, <1>5, <1>6, <1>7, <1>8

LEMMA TurnsAreCounted ==
  ASSUME NEW u \in Users, NEW w \in Workers
  PROVE  /\ IsFiniteSet(ThreadsOf(w)) /\ Cardinality(ThreadsOf(w)) \in Nat
         /\ \A stage : /\ IsFiniteSet(At(stage, u, w)) /\ Cardinality(At(stage, u, w)) \in Nat
                       /\ Cardinality(At(stage, u, w)) <= Cardinality(ThreadsOf(w))
         /\ Unset(u, w) \in Nat
         /\ Cardinality(At("set", u, w)) + Cardinality(At("count", u, w)) <= Cardinality(ThreadsOf(w))
         /\ \A t \in ThreadsOf(w) : thread[t].at \notin {"set", "count"}
              => Cardinality(At("count", u, w)) + 1 <= Unset(u, w)
<1>1. IsFiniteSet(ThreadsOf(w)) /\ Cardinality(ThreadsOf(w)) \in Nat
  BY ThreadsAssumption, FS_Subset, FS_CardinalityType DEF ThreadsOf
<1>2. ASSUME NEW S \in SUBSET ThreadsOf(w)
      PROVE  IsFiniteSet(S) /\ Cardinality(S) \in Nat /\ Cardinality(S) <= Cardinality(ThreadsOf(w))
  BY <1>1, FS_Subset, FS_CardinalityType
<1>3. \A stage : At(stage, u, w) \in SUBSET ThreadsOf(w)
  BY DEF At
<1>4. \A stage : /\ IsFiniteSet(At(stage, u, w)) /\ Cardinality(At(stage, u, w)) \in Nat
                 /\ Cardinality(At(stage, u, w)) <= Cardinality(ThreadsOf(w))
  BY <1>2, <1>3
<1> DEFINE S == At("set", u, w)
           C == At("count", u, w)
<1>5. S \cap C = {} /\ S \cup C \in SUBSET ThreadsOf(w)
  BY DEF At
<1>6. Cardinality(S \cup C) = Cardinality(S) + Cardinality(C)
  BY <1>4, <1>5, FS_Union, FS_EmptySet
<1>7. ASSUME NEW t \in ThreadsOf(w), thread[t].at \notin {"set", "count"}
      PROVE  Cardinality(C) + 1 <= Unset(u, w)
  <2>1. t \notin S \cup C /\ (S \cup C) \cup {t} \in SUBSET ThreadsOf(w)
    BY <1>5, <1>7 DEF At
  <2>2. Cardinality((S \cup C) \cup {t}) = Cardinality(S \cup C) + 1
    BY <1>2, <1>5, <2>1, FS_AddElement
  <2>3. Cardinality((S \cup C) \cup {t}) <= Cardinality(ThreadsOf(w))
    BY <1>2, <2>1
  <2> QED BY <1>1, <1>4, <1>6, <2>2, <2>3 DEF Unset
<1> QED BY <1>1, <1>2, <1>4, <1>5, <1>6, <1>7 DEF Unset

LEMMA CallsAreFinite ==
  ASSUME SummaryTypes, NEW u \in Users, NEW w \in Workers
  PROVE  IsFiniteSet(CallsOf(u, w)) /\ Cardinality(CallsOf(u, w)) \in Nat /\ CallsOf(u, w) \subseteq 1 .. Len(calls)
<1>1. Len(calls) \in Nat /\ DOMAIN calls = 1 .. Len(calls)
  BY LenProperties DEF SummaryTypes
<1>2. CallsOf(u, w) \subseteq 1 .. Len(calls)
  BY <1>1 DEF CallsOf
<1>3. IsFiniteSet(1 .. Len(calls))
  BY <1>1, FS_Interval
<1>4. IsFiniteSet(CallsOf(u, w))
  BY <1>2, <1>3, FS_Subset
<1> QED BY <1>2, <1>4, FS_CardinalityType

\* What the counts of a user in a worker come to after a step.
LEMMA CountedThen ==
  ASSUME SummaryTypes, SummaryTypes', NEW u \in Users, NEW w \in Workers, now <= now',
         CountedAt(u, w),
         now < RateWindow => counter'[w][u].until = 0 \/ counter'[w][u].until >= RateWindow,
         /\ now < RateWindow /\ (counter[w][u].until = 0 \/ counter[w][u].until >= RateWindow)
         /\ now' < RateWindow
         /\ Tally(Running(counter[w][u]), counter[w][u].count, Cardinality(At("count", u, w)),
                  Cardinality(At("call", u, w)), Cardinality(CallsOf(u, w)), Unset(u, w),
                  deaths * CallsAtMost(Cardinality(ThreadsOf(w))))
         => Tally(counter'[w][u].until > now', counter'[w][u].count, Cardinality(At("count", u, w))',
                  Cardinality(At("call", u, w))', Cardinality(CallsOf(u, w))',
                  Cardinality(ThreadsOf(w)) - Cardinality(At("set", u, w))',
                  deaths' * CallsAtMost(Cardinality(ThreadsOf(w))))
  PROVE  CountedAt(u, w)'
<1>1. now \in Nat /\ now' \in Nat /\ RateWindow \in Nat
  BY SummaryAssumption DEF SummaryTypes
<1>2. Unset(u, w)' = Cardinality(ThreadsOf(w)) - Cardinality(At("set", u, w))'
      /\ (deaths * CallsAtMost(Cardinality(ThreadsOf(w))))' = deaths' * CallsAtMost(Cardinality(ThreadsOf(w)))
  BY DEF Unset, ThreadsOf, CallsAtMost
<1>3. SUFFICES ASSUME now' < RateWindow
               PROVE  /\ counter'[w][u].until = 0 \/ counter'[w][u].until >= RateWindow
                      /\ Tally(counter'[w][u].until > now', counter'[w][u].count, Cardinality(At("count", u, w))',
                               Cardinality(At("call", u, w))', Cardinality(CallsOf(u, w))',
                               Cardinality(ThreadsOf(w)) - Cardinality(At("set", u, w))',
                               deaths' * CallsAtMost(Cardinality(ThreadsOf(w))))
  BY <1>2 DEF CountedAt, Running, Tally, Room
<1>4. now < RateWindow
  BY <1>1, <1>3
<1> QED BY <1>3, <1>4 DEF CountedAt

\* The counts, and how many calls restarts let through.
LEMMA TallyTypes ==
  ASSUME SummaryTypes, NEW u \in Users, NEW w \in Workers
  PROVE  /\ now \in Nat /\ deaths \in Nat /\ counter[w][u] \in Counts
         /\ Cardinality(At("count", u, w)) \in Nat /\ Cardinality(At("call", u, w)) \in Nat
         /\ Cardinality(CallsOf(u, w)) \in Nat /\ Unset(u, w) \in Nat /\ Room(Unset(u, w)) \in Int
         /\ CallsAtMost(Cardinality(ThreadsOf(w))) \in Nat
         /\ deaths * CallsAtMost(Cardinality(ThreadsOf(w))) \in Nat
         /\ (deaths + 1) * CallsAtMost(Cardinality(ThreadsOf(w)))
              = deaths * CallsAtMost(Cardinality(ThreadsOf(w))) + CallsAtMost(Cardinality(ThreadsOf(w)))
<1>1. now \in Nat /\ deaths \in Nat /\ counter[w][u] \in Counts
  BY SummaryAssumption DEF SummaryTypes
<1>2. CallsAtMost(Cardinality(ThreadsOf(w))) \in Nat
  BY TurnsAreCounted, RoomRises
<1>3. \A x \in Nat : deaths * x \in Nat /\ (deaths + 1) * x = deaths * x + x
  BY <1>1
<1> QED BY <1>1, <1>2, <1>3, TurnsAreCounted, RoomRises, CallsAreFinite

\* A step that moves none of them.
LEMMA CountStays ==
  ASSUME SummaryTypes, SummaryTypes', NEW u \in Users, NEW w \in Workers, CountedAt(u, w),
         \A stage \in Turns : At(stage, u, w)' = At(stage, u, w),
         CallsOf(u, w)' = CallsOf(u, w), counter'[w][u] = counter[w][u],
         now <= now', deaths' \in {deaths, deaths + 1}
  PROVE  CountedAt(u, w)'
<1> DEFINE c == counter[w][u]
           past == deaths * CallsAtMost(Cardinality(ThreadsOf(w)))
           later == deaths' * CallsAtMost(Cardinality(ThreadsOf(w)))
<1>0. c \in Counts /\ now \in Nat
  BY TallyTypes
<1>1. now \in Nat /\ now' \in Nat /\ c.until \in Nat /\ c.count \in Nat
  <2>1. now' \in Nat
    BY SummaryAssumption DEF SummaryTypes
  <2> QED BY <1>0, <2>1 DEF Counts
<1>2. past <= later /\ past \in Nat /\ later \in Nat
  BY TallyTypes
<1>3. /\ Cardinality(At("set", u, w))' = Cardinality(At("set", u, w))
      /\ Cardinality(At("count", u, w))' = Cardinality(At("count", u, w))
      /\ Cardinality(At("call", u, w))' = Cardinality(At("call", u, w))
      /\ Cardinality(CallsOf(u, w))' = Cardinality(CallsOf(u, w))
  BY DEF Turns
<1>4. now' < RateWindow /\ (c.until = 0 \/ c.until >= RateWindow) => (c.until > now' <=> Running(c))
  BY <1>1, SummaryAssumption DEF Running
<1>5. ASSUME now' < RateWindow, c.until = 0 \/ c.until >= RateWindow,
             Tally(Running(c), c.count, Cardinality(At("count", u, w)),
                   Cardinality(At("call", u, w)), Cardinality(CallsOf(u, w)), Unset(u, w), past)
      PROVE  Tally(c.until > now', c.count, Cardinality(At("count", u, w)),
                   Cardinality(At("call", u, w)), Cardinality(CallsOf(u, w)), Unset(u, w), later)
  BY <1>1, <1>2, <1>4, <1>5, TallyTypes DEF Tally
<1> QED BY <1>3, <1>5, CountedThen DEF CountedAt, Unset

\* Steps that take no thread to the counter or from it.
LEMMA NoTurn ==
  ASSUME SummaryTypes, NEW t \in Threads,
         Ask(t) \/ ReadResults(t) \/ ReadBalances(t) \/ Show(t) \/ Look(t) \/ Record(t)
  PROVE  /\ \A s \in Threads \ {t} : thread'[s] = thread[s]
         /\ thread[t].at \notin Turns /\ thread'[t].at \notin Turns
         /\ UNCHANGED <<counter, calls, deaths, now>>
<1> USE DEF Turns
<1> DEFINE Goal == /\ \A s \in Threads \ {t} : thread'[s] = thread[s]
                   /\ thread'[t].at \notin Turns
<1>0. thread \in [Threads -> Asking] /\ thread[t] \in Asking
  BY DEF SummaryTypes
<1>1. thread[t].at \notin Turns /\ UNCHANGED <<counter, calls, deaths, now>>
  BY DEF Ask, ReadResults, ReadBalances, Show, Look, Record
<1>2. ASSUME NEW stage, stage \notin Turns, Move(t, stage) PROVE Goal
  BY <1>0, <1>2 DEF Move, Asking
<1>3. ASSUME NEW call, NEW reused, Succeed(t, call, reused) PROVE Goal
  <2>1. CASE thread' = [thread EXCEPT ![t].query.kind = "page", ![t].at = "asked"]
    BY <1>0, <2>1 DEF Asking, Queries
  <2>2. CASE thread' = [thread EXCEPT ![t].call = call, ![t].reused = reused,
                                 ![t].looked = IF reused THEN now ELSE @, ![t].at = "done"]
    BY <1>0, <2>2 DEF Asking
  <2> QED BY <1>3, <2>1, <2>2 DEF Succeed
<1>4. ASSUME Ask(t) PROVE Goal
  <2>1. PICK u \in Users, q \in use.queries :
          thread' = [thread EXCEPT ![t] =
            [Idle EXCEPT !.user = u, !.query = q, !.window = PageWindow(q),
                         !.at = IF Rejected(q) THEN "told" ELSE "asked"]]
    BY <1>4 DEF Ask
  <2> QED BY <1>0, <2>1 DEF Idle
<1>5. ASSUME ReadResults(t) PROVE Goal
  <2>1. CASE ValidPeriod(thread[t].window)
    BY <1>0, <1>5, <2>1 DEF ReadResults, Asking
  <2>2. CASE ~ValidPeriod(thread[t].window)
    BY <1>2, <1>5, <2>2 DEF ReadResults
  <2> QED BY <2>1, <2>2
<1>6. ASSUME ReadBalances(t) \/ Show(t) PROVE Goal
  BY <1>0, <1>6 DEF ReadBalances, Show, Asking
<1>7. ASSUME Look(t) \/ Record(t) PROVE Goal
  BY <1>2, <1>3, <1>7 DEF Look, Record
<1> HIDE DEF Goal
<1>8. Goal
  BY <1>4, <1>5, <1>6, <1>7
<1> QED BY <1>1, <1>8 DEF Goal

\* A thread that takes a turn is one fewer here and one more there.
LEMMA TurnMoves ==
  ASSUME SummaryTypes, NEW t \in Threads, NEW from, from = thread[t].at, NEW to, to # from,
         \A s \in Threads \ {t} : thread'[s] = thread[s],
         thread'[t].at = to, thread'[t].user = thread[t].user,
         NEW u \in Users, NEW w \in Workers
  PROVE  /\ ~(u = thread[t].user /\ w = WorkerOf[t]) => \A stage : At(stage, u, w)' = At(stage, u, w)
         /\ u = thread[t].user /\ w = WorkerOf[t] =>
              /\ t \in ThreadsOf(w)
              /\ Cardinality(At(to, u, w))' = Cardinality(At(to, u, w)) + 1
              /\ Cardinality(At(from, u, w))' = Cardinality(At(from, u, w)) - 1
              /\ Cardinality(At(from, u, w)) >= 1
              /\ \A stage : stage \notin {from, to} => At(stage, u, w)' = At(stage, u, w)
<1>1. ASSUME ~(u = thread[t].user /\ w = WorkerOf[t]), NEW stage PROVE At(stage, u, w)' = At(stage, u, w)
  BY <1>1 DEF At, ThreadsOf
<1>2. ASSUME u = thread[t].user, w = WorkerOf[t]
      PROVE  /\ t \in ThreadsOf(w) /\ At(to, u, w)' = At(to, u, w) \cup {t} /\ t \notin At(to, u, w)
             /\ At(from, u, w)' = At(from, u, w) \ {t} /\ t \in At(from, u, w)
             /\ \A stage : stage \notin {from, to} => At(stage, u, w)' = At(stage, u, w)
  <2>1. t \in ThreadsOf(w)
    BY <1>2 DEF ThreadsOf
  <2>2. t \notin At(to, u, w) /\ t \in At(from, u, w)
    BY <1>2, <2>1 DEF At
  <2> DEFINE A(stage) == {s \in ThreadsOf(w) : thread[s].at = stage /\ thread[s].user = u}
             B(stage) == {s \in ThreadsOf(w) : thread'[s].at = stage /\ thread'[s].user = u}
  <2>30. \A s \in ThreadsOf(w) : s \in Threads
    BY DEF ThreadsOf
  <2>31. B(to) = A(to) \cup {t}
    BY <1>2, <2>1, <2>30
  <2>32. B(from) = A(from) \ {t}
    BY <1>2, <2>1, <2>30
  <2>3. At(to, u, w)' = At(to, u, w) \cup {t} /\ At(from, u, w)' = At(from, u, w) \ {t}
    <3>1. A(to) = At(to, u, w) /\ B(to) = At(to, u, w)'
      BY DEF At, ThreadsOf
    <3>2. A(from) = At(from, u, w) /\ B(from) = At(from, u, w)'
      BY DEF At, ThreadsOf
    <3> QED BY <2>31, <2>32, <3>1, <3>2
  <2>4. ASSUME NEW stage, stage \notin {from, to} PROVE At(stage, u, w)' = At(stage, u, w)
    BY <1>2, <2>4 DEF At, ThreadsOf
  <2> QED BY <2>1, <2>2, <2>3, <2>4
<1>3. \A stage : IsFiniteSet(At(stage, u, w))
  BY TurnsAreCounted
<1>4. ASSUME u = thread[t].user, w = WorkerOf[t]
      PROVE  /\ Cardinality(At(to, u, w) \cup {t}) = Cardinality(At(to, u, w)) + 1
             /\ Cardinality(At(from, u, w) \ {t}) = Cardinality(At(from, u, w)) - 1
             /\ Cardinality(At(from, u, w)) >= 1
  <2>1. Cardinality(At(to, u, w) \cup {t}) = Cardinality(At(to, u, w)) + 1
    BY <1>2, <1>3, <1>4, FS_AddElement
  <2>2. Cardinality(At(from, u, w) \ {t}) = Cardinality(At(from, u, w)) - 1
    <3>1. t \in At(from, u, w) /\ IsFiniteSet(At(from, u, w))
      BY <1>2, <1>3, <1>4
    <3> QED BY <3>1, FS_RemoveElement
  <2>3. Cardinality(At(from, u, w)) \in Nat /\ Cardinality(At(from, u, w) \ {t}) \in Nat
    BY <1>3, FS_RemoveElement, FS_CardinalityType
  <2> QED BY <2>1, <2>2, <2>3
<1>5. ASSUME NEW stage PROVE Cardinality(At(stage, u, w))' = Cardinality(At(stage, u, w)')
  OBVIOUS
<1>6. ASSUME u = thread[t].user, w = WorkerOf[t]
      PROVE  /\ t \in ThreadsOf(w)
             /\ Cardinality(At(to, u, w))' = Cardinality(At(to, u, w)) + 1
             /\ Cardinality(At(from, u, w))' = Cardinality(At(from, u, w)) - 1
             /\ Cardinality(At(from, u, w)) >= 1
             /\ \A stage : stage \notin {from, to} => At(stage, u, w)' = At(stage, u, w)
  BY <1>2, <1>4, <1>6
<1> QED BY <1>1, <1>6

\* The steps of a thread at the counter and at the call, for its user in its worker.
LEMMA TurnCounts ==
  ASSUME SummaryTypes, SummaryTypes', NEW t \in Threads, NEW u \in Users, NEW w \in Workers,
         u = thread[t].user, w = WorkerOf[t], CountedAt(u, w),
         thread[t].at \in Turns => Limit >= 1,
         ReadCount(t) \/ CountUp(t) \/ SetCount(t) \/ Call(t)
  PROVE  CountedAt(u, w)' /\ (thread'[t].at \in Turns => Limit >= 1)
<1> DEFINE n == Cardinality(ThreadsOf(w))
           c == counter[w][u]
           past == deaths * CallsAtMost(n)
           p == Cardinality(At("count", u, w))
           q == Cardinality(At("call", u, w))
           s == Cardinality(At("set", u, w))
           k == Cardinality(CallsOf(u, w))
           a == n - s
           Counting(i, run, count, atCount, atCall, made, unset) ==
             now < RateWindow /\ (c.until = 0 \/ c.until >= RateWindow) /\ Tally(Running(c), c.count, p, q, k, a, past)
               => (i = 0 \/ i >= RateWindow) /\ Tally(run, count, atCount, atCall, made, unset, past)
<1>0. /\ now \in Nat /\ c.until \in Nat /\ c.count \in Nat /\ past \in Nat /\ p \in Nat /\ q \in Nat
      /\ s \in Nat /\ k \in Nat /\ n \in Nat /\ a \in Nat /\ Room(a) \in Int /\ Limit \in Nat
      /\ RateWindow \in Nat /\ RateWindow > 0
  <2>1. c \in Counts
    BY TallyTypes
  <2>2. c.until \in Nat /\ c.count \in Nat
    BY <2>1 DEF Counts
  <2> QED BY <2>2, TallyTypes, TurnsAreCounted, SummaryAssumption DEF Unset
<1>1. UNCHANGED <<now, deaths>> /\ a = Unset(u, w)
  BY DEF ReadCount, CountUp, SetCount, Call, Unset
<1>2. thread \in [Threads -> Asking] /\ thread[t] \in Asking /\ t \in ThreadsOf(w)
  BY DEF SummaryTypes, ThreadsOf
<1>m. ASSUME NEW to, Move(t, to)
      PROVE  /\ \A r \in Threads \ {t} : thread'[r] = thread[r]
             /\ thread'[t].at = to /\ thread'[t].user = thread[t].user
  BY <1>2, <1>m DEF Move, Asking
<1> HIDE DEF n, p, q, s, k, past
<1>c. ASSUME UNCHANGED calls PROVE Cardinality(CallsOf(u, w))' = k
  BY <1>c DEF CallsOf, k
<1>t. ASSUME NEW p1, NEW q1, NEW s1, NEW k1,
             /\ Cardinality(At("count", u, w))' = p1 /\ Cardinality(At("call", u, w))' = q1
             /\ Cardinality(At("set", u, w))' = s1 /\ Cardinality(CallsOf(u, w))' = k1,
             Counting(counter'[w][u].until, counter'[w][u].until > now, counter'[w][u].count, p1, q1, k1, n - s1)
      PROVE  CountedAt(u, w)'
  <2>1. CountedAt(u, w) <=>
          (now < RateWindow => /\ c.until = 0 \/ c.until >= RateWindow
                               /\ Tally(Running(c), c.count, p, q, k, a, past))
    BY <1>1 DEF CountedAt, p, q, k, past, n
  <2>2. now' = now /\ deaths' = deaths /\ Unset(u, w) = a
    BY <1>1
  <2>3. now < RateWindow => counter'[w][u].until = 0 \/ counter'[w][u].until >= RateWindow
    BY <1>t, <2>1
  <2>4. /\ now < RateWindow /\ (c.until = 0 \/ c.until >= RateWindow) /\ now' < RateWindow
        /\ Tally(Running(c), c.count, p, q, k, a, past)
        => Tally(counter'[w][u].until > now', counter'[w][u].count, Cardinality(At("count", u, w))',
                 Cardinality(At("call", u, w))', Cardinality(CallsOf(u, w))',
                 n - Cardinality(At("set", u, w))', past)
    BY <1>t, <2>2
  <2>5. now <= now'
    BY <1>0, <2>2
  <2> QED BY <2>2, <2>3, <2>4, <2>5, CountedThen DEF p, q, k, past, n
<1>3. CASE ReadCount(t)
  <2>1. CASE Counted(t) >= Limit
    <3>1. thread'[t].at = "limited" /\ thread[t].at = "new" /\ UNCHANGED <<counter, calls>>
          /\ \A stage \in Turns : At(stage, u, w)' = At(stage, u, w)
      BY <1>3, <1>m, <2>1, TurnMoves DEF ReadCount, Turns
    <3>2. CallsOf(u, w)' = CallsOf(u, w) /\ counter'[w][u] = counter[w][u]
      BY <3>1 DEF CallsOf
    <3> QED BY <1>0, <1>1, <3>1, <3>2, CountStays DEF Turns
  <2>2. CASE ~(Counted(t) >= Limit)
    <3>1. thread'[t].at = "count" /\ thread[t].at = "new" /\ UNCHANGED <<counter, calls>>
          /\ thread'[t].user = thread[t].user /\ \A r \in Threads \ {t} : thread'[r] = thread[r]
      BY <1>3, <1>m, <2>2 DEF ReadCount
    <3>2. /\ Cardinality(At("count", u, w))' = p + 1 /\ Cardinality(At("call", u, w))' = q
          /\ Cardinality(At("set", u, w))' = s /\ Cardinality(CallsOf(u, w))' = k
      BY <1>c, <3>1, TurnMoves DEF p, q, s
    <3>3. p + 1 <= a
      BY <1>1, <1>2, <3>1, TurnsAreCounted DEF p
    <3>4. (IF Running(c) THEN c.count ELSE 0) < Limit
      BY <1>0, <2>2 DEF Counted, Count
    <3>5. Limit >= 1
      BY <1>0, <3>4
    <3>6. Counting(c.until, c.until > now, c.count, p + 1, q, k, n - s)
      BY <1>0, <3>3, <3>4, <3>5 DEF Tally, Running
    <3>7. counter'[w][u] = c
      BY <1>1, <3>1
    <3>8. CountedAt(u, w)'
      BY <1>t, <3>2, <3>6, <3>7
    <3> QED BY <3>5, <3>8
  <2> QED BY <2>1, <2>2
<1>4. CASE CountUp(t) /\ Running(Count(t))
  <2>1. /\ thread'[t].at = "call" /\ thread[t].at = "count" /\ UNCHANGED calls
        /\ thread'[t].user = thread[t].user /\ \A r \in Threads \ {t} : thread'[r] = thread[r]
    BY <1>4, <1>m DEF CountUp
  <2>2. /\ Cardinality(At("count", u, w))' = p - 1 /\ Cardinality(At("call", u, w))' = q + 1 /\ p >= 1
        /\ Cardinality(At("set", u, w))' = s /\ Cardinality(CallsOf(u, w))' = k
    BY <1>c, <2>1, TurnMoves DEF p, q, s
  <2>3. counter'[w][u] = [c EXCEPT !.count = @ + 1] /\ c \in Counts
    <3> DEFINE d == [c EXCEPT !.count = @ + 1]
    <3>1. counter' = [counter EXCEPT ![w][u] = d]
      BY <1>4 DEF CountUp
    <3> HIDE DEF d
    <3>2. counter'[w][u] = d
      BY <3>1 DEF SummaryTypes
    <3> QED BY <3>2, TallyTypes DEF d
  <2>4. counter'[w][u].until = c.until /\ counter'[w][u].count = c.count + 1
    BY <2>3 DEF Counts
  <2>5. Running(c)
    BY <1>4 DEF Count
  <2>6. Counting(c.until, c.until > now, c.count + 1, p - 1, q + 1, k, n - s)
    BY <1>0, <2>2, <2>5 DEF Tally, Running
  <2>7. CountedAt(u, w)'
    BY <1>t, <2>2, <2>4, <2>6
  <2> QED BY <2>1, <2>7 DEF Turns
<1>5. CASE CountUp(t) /\ ~Running(Count(t))
  <2>1. /\ thread'[t].at = "set" /\ thread[t].at = "count" /\ UNCHANGED <<calls, counter>>
        /\ thread'[t].user = thread[t].user /\ \A r \in Threads \ {t} : thread'[r] = thread[r]
    BY <1>5, <1>m DEF CountUp
  <2>2. /\ Cardinality(At("count", u, w))' = p - 1 /\ Cardinality(At("call", u, w))' = q
        /\ Cardinality(At("set", u, w))' = s + 1 /\ Cardinality(CallsOf(u, w))' = k
    BY <1>c, <2>1, TurnMoves DEF p, q, s
  <2>3. counter'[w][u] = c /\ ~Running(c)
    BY <1>5, <2>1 DEF Count
  <2>4. Counting(c.until, c.until > now, c.count, p - 1, q, k, n - (s + 1))
    BY <1>0, <2>3 DEF Tally, Running
  <2>5. CountedAt(u, w)'
    BY <1>t, <2>2, <2>3, <2>4
  <2> QED BY <2>1, <2>5 DEF Turns
<1>6. CASE SetCount(t)
  <2>1. /\ thread'[t].at = "call" /\ thread[t].at = "set" /\ UNCHANGED calls
        /\ thread'[t].user = thread[t].user /\ \A r \in Threads \ {t} : thread'[r] = thread[r]
    BY <1>6, <1>m DEF SetCount
  <2>2. /\ Cardinality(At("count", u, w))' = p /\ Cardinality(At("call", u, w))' = q + 1 /\ s >= 1
        /\ Cardinality(At("set", u, w))' = s - 1 /\ Cardinality(CallsOf(u, w))' = k
    BY <1>c, <2>1, TurnMoves DEF p, q, s
  <2>3. counter'[w][u] = [count |-> 1, until |-> now + RateWindow]
    BY <1>6 DEF SetCount, SummaryTypes
  <2>4. Limit >= 1
    BY <2>1 DEF Turns
  <2>5. n - (s - 1) = a + 1 /\ Room(a + 1) = Room(a) + (Limit - 1) + a /\ p <= a /\ Room(a + 1) \in Nat
    <3>1. a \in Nat /\ s + p <= n
      BY <1>0, TurnsAreCounted DEF s, p, n
    <3>2. Room(a + 1) = CallsAtMost(a) /\ CallsAtMost(a) \in Nat /\ Room(a + 1) = Room(a) + (Limit - 1) + a
      BY <3>1, RoomRises
    <3> HIDE DEF a
    <3>3. a = n - s
      BY DEF a
    <3> QED BY <1>0, <3>1, <3>2, <3>3
  <2>6. Counting(now + RateWindow, now + RateWindow > now, 1, p, q + 1, k, a + 1)
    <3> HIDE DEF a
    <3> QED BY <1>0, <2>2, <2>4, <2>5 DEF Tally, Running
  <2>7. Counting(now + RateWindow, now + RateWindow > now, 1, p, q + 1, k, n - (s - 1))
    BY <2>5, <2>6
  <2>8. CountedAt(u, w)'
    BY <1>t, <2>2, <2>3, <2>7
  <2> QED BY <2>4, <2>8
<1>7. CASE Call(t)
  <2>1. /\ thread'[t].at = "called" /\ thread[t].at = "call" /\ UNCHANGED counter
        /\ thread'[t].user = thread[t].user /\ \A r \in Threads \ {t} : thread'[r] = thread[r]
    BY <1>2, <1>7 DEF Call, Asking
  <2>2. /\ Cardinality(At("count", u, w))' = p /\ Cardinality(At("call", u, w))' = q - 1 /\ q >= 1
        /\ Cardinality(At("set", u, w))' = s
    BY <2>1, TurnMoves DEF p, q, s
  <2>3. Cardinality(CallsOf(u, w))' = k + 1
    <3> DEFINE m == Len(calls) + 1
    <3>1. PICK outcome \in Outcomes :
            calls' = Append(calls, [user |-> thread[t].user, worker |-> WorkerOf[t],
                                    payload |-> Payload(thread[t]), outcome |-> outcome])
      BY <1>7 DEF Call
    <3>2. /\ DOMAIN calls' = DOMAIN calls \cup {m} /\ m \notin DOMAIN calls
          /\ \A i \in DOMAIN calls : calls'[i] = calls[i]
          /\ calls'[m].user = u /\ calls'[m].worker = w
      BY <3>1, LenProperties, AppendProperties DEF SummaryTypes
    <3>3. CallsOf(u, w)' = CallsOf(u, w) \cup {m} /\ m \notin CallsOf(u, w)
      BY <3>2 DEF CallsOf
    <3>4. IsFiniteSet(CallsOf(u, w))
      BY CallsAreFinite
    <3>5. Cardinality(CallsOf(u, w) \cup {m}) = k + 1
      BY <3>3, <3>4, FS_AddElement DEF k
    <3> QED BY <3>3, <3>5
  <2>4. Counting(c.until, c.until > now, c.count, p, q - 1, k + 1, n - s)
    BY <1>0, <2>2 DEF Tally, Running
  <2>5. CountedAt(u, w)'
    BY <1>t, <2>1, <2>2, <2>3, <2>4
  <2> QED BY <2>1, <2>5 DEF Turns
<1> QED BY <1>3, <1>4, <1>5, <1>6, <1>7

LEMMA InitCounts == SummaryInit => CallsAreCounted
<1> SUFFICES ASSUME SummaryInit PROVE CallsAreCounted
  OBVIOUS
<1>0. SummaryTypes
  BY InitTypes
<1>1. \A t \in Threads : thread[t].at \notin Turns
  BY DEF SummaryInit, Idle, Turns
<1>2. ASSUME NEW u \in Users, NEW w \in Workers PROVE CountedAt(u, w)
  <2>1. counter[w][u] = NoCount /\ ~Running(NoCount) /\ NoCount.until = 0
    BY SummaryAssumption DEF SummaryInit, NoCount, Running
  <2>2. At("call", u, w) = {} /\ CallsOf(u, w) = {}
    BY <1>1 DEF At, ThreadsOf, CallsOf, SummaryInit, Turns
  <2>3. 0 <= deaths * CallsAtMost(Cardinality(ThreadsOf(w)))
    BY <1>0, TallyTypes
  <2> QED BY <2>1, <2>2, <2>3, FS_EmptySet DEF CountedAt, Tally
<1> QED BY <1>1, <1>2 DEF CallsAreCounted

LEMMA StepCounts ==
  ASSUME SummaryTypes, SummaryTypes', CallsAreCounted, [SummaryNext]_summaryVars
  PROVE  CallsAreCounted'
<1>0. thread \in [Threads -> Asking] /\ thread' \in [Threads -> Asking] /\ now \in Nat /\ deaths \in Nat
  <2>1. now \in Nat
    BY SummaryAssumption DEF SummaryTypes
  <2> QED BY <2>1 DEF SummaryTypes
<1>a. ASSUME NEW u \in Users, NEW w \in Workers,
             \A s \in ThreadsOf(w) : \/ thread'[s] = thread[s]
                                     \/ thread[s].at \notin Turns /\ thread'[s].at \notin Turns,
             UNCHANGED <<calls, counter>>, now <= now', deaths' = deaths
      PROVE  CountedAt(u, w)'
  <2>1. ASSUME NEW stage \in Turns PROVE At(stage, u, w)' = At(stage, u, w)
    BY <1>a DEF At, ThreadsOf
  <2>2. CallsOf(u, w)' = CallsOf(u, w)
    BY <1>a DEF CallsOf
  <2> QED BY <1>a, <2>1, <2>2, CountStays DEF CallsAreCounted
<1>1. CASE UNCHANGED summaryVars \/ PostEntry \/ Tick
  <2>1. UNCHANGED <<thread, calls, counter, deaths>> /\ now <= now'
    BY <1>0, <1>1 DEF summaryVars, PostEntry, Tick
  <2>2. \A u \in Users, w \in Workers : CountedAt(u, w)'
    BY <1>a, <2>1
  <2> QED BY <2>1, <2>2 DEF CallsAreCounted
<1>2. ASSUME NEW t \in Threads,
             Ask(t) \/ ReadResults(t) \/ ReadBalances(t) \/ Show(t) \/ Look(t) \/ Record(t)
      PROVE  CallsAreCounted'
  <2>1. /\ \A s \in Threads \ {t} : thread'[s] = thread[s]
        /\ thread[t].at \notin Turns /\ thread'[t].at \notin Turns
        /\ UNCHANGED <<counter, calls, deaths, now>>
    BY <1>2, NoTurn
  <2>2. \A u \in Users, w \in Workers : CountedAt(u, w)'
    BY <1>0, <1>a, <2>1 DEF ThreadsOf
  <2>3. \A s \in Threads : thread'[s].at \in Turns => Limit >= 1
    BY <2>1 DEF CallsAreCounted
  <2> QED BY <2>2, <2>3 DEF CallsAreCounted
<1>3. ASSUME NEW t \in Threads, ReadCount(t) \/ CountUp(t) \/ SetCount(t) \/ Call(t)
      PROVE  CallsAreCounted'
  <2>0. thread[t].user \in Users /\ WorkerOf[t] \in Workers /\ UNCHANGED <<now, deaths>>
    BY <1>0, <1>3, SummaryAssumption DEF Asking, ReadCount, CountUp, SetCount, Call
  <2>1. \A u \in Users, w \in Workers :
          u = thread[t].user /\ w = WorkerOf[t] =>
            CountedAt(u, w)' /\ (thread'[t].at \in Turns => Limit >= 1)
    BY <1>3, TurnCounts DEF CallsAreCounted
  <2>2. PICK to : /\ \A r \in Threads \ {t} : thread'[r] = thread[r]
                  /\ thread'[t].at = to /\ thread'[t].user = thread[t].user /\ to # thread[t].at
    <3>m. ASSUME NEW to, Move(t, to)
          PROVE  /\ \A r \in Threads \ {t} : thread'[r] = thread[r]
                 /\ thread'[t].at = to /\ thread'[t].user = thread[t].user
      BY <1>0, <3>m DEF Move, Asking
    <3>1. CASE ReadCount(t)
      BY <3>1, <3>m DEF ReadCount
    <3>2. CASE CountUp(t) \/ SetCount(t)
      BY <3>2, <3>m DEF CountUp, SetCount
    <3>3. CASE Call(t)
      BY <1>0, <3>3 DEF Call, Asking
    <3> QED BY <1>3, <3>1, <3>2, <3>3
  <2>3. ASSUME NEW u \in Users, NEW w \in Workers, ~(u = thread[t].user /\ w = WorkerOf[t])
        PROVE  CountedAt(u, w)'
    <3>1. \A stage \in Turns : At(stage, u, w)' = At(stage, u, w)
      BY <2>2, <2>3, TurnMoves
    <3>2. CallsOf(u, w)' = CallsOf(u, w)
      <4>1. CASE UNCHANGED calls
        BY <4>1 DEF CallsOf
      <4>2. CASE Call(t)
        <5>1. PICK outcome \in Outcomes :
                calls' = Append(calls, [user |-> thread[t].user, worker |-> WorkerOf[t],
                                        payload |-> Payload(thread[t]), outcome |-> outcome])
          BY <4>2 DEF Call
        <5> DEFINE m == Len(calls) + 1
        <5>2. /\ DOMAIN calls' = DOMAIN calls \cup {m} /\ m \notin DOMAIN calls
              /\ \A i \in DOMAIN calls : calls'[i] = calls[i]
              /\ calls'[m].user = thread[t].user /\ calls'[m].worker = WorkerOf[t]
          BY <5>1, LenProperties, AppendProperties DEF SummaryTypes
        <5> QED BY <2>3, <5>2 DEF CallsOf
      <4> QED BY <1>3, <4>1, <4>2 DEF ReadCount, CountUp, SetCount
    <3>3. counter'[w][u] = counter[w][u]
      BY <1>3, <2>3 DEF ReadCount, CountUp, SetCount, Call, SummaryTypes
    <3> QED BY <1>0, <2>0, <3>1, <3>2, <3>3, CountStays DEF CallsAreCounted
  <2>4. \A s \in Threads : thread'[s].at \in Turns => Limit >= 1
    BY <2>0, <2>1, <2>2 DEF CallsAreCounted
  <2>5. \A u \in Users, w \in Workers : CountedAt(u, w)'
    BY <2>1, <2>3
  <2> QED BY <2>4, <2>5 DEF CallsAreCounted
<1>4. ASSUME NEW x \in Workers, Die(x) PROVE CallsAreCounted'
  <2>1. /\ \A s \in Threads : thread'[s] = IF WorkerOf[s] = x THEN Idle ELSE thread[s]
        /\ deaths' = deaths + 1 /\ UNCHANGED <<calls, now>>
    BY <1>4 DEF Die
  <2>2. \A s \in Threads : thread'[s].at \in Turns => Limit >= 1
    <3>1. Idle.at \notin Turns
      BY DEF Idle, Turns
    <3> QED BY <2>1, <3>1 DEF CallsAreCounted
  <2>3. ASSUME NEW u \in Users, NEW w \in Workers PROVE CountedAt(u, w)'
    <3>1. CallsOf(u, w)' = CallsOf(u, w)
      BY <2>1 DEF CallsOf
    <3>2. CASE w # x
      <4>1. \A stage \in Turns : At(stage, u, w)' = At(stage, u, w)
        BY <2>1, <3>2 DEF At, ThreadsOf
      <4>2. counter'[w][u] = counter[w][u]
        BY <1>4, <3>2 DEF Die, SummaryTypes
      <4> QED BY <1>0, <2>1, <3>1, <4>1, <4>2, CountStays DEF CallsAreCounted
    <3>3. CASE w = x
      <4> DEFINE n == Cardinality(ThreadsOf(w))
                 c == counter[w][u]
                 past == deaths * CallsAtMost(n)
                 p == Cardinality(At("count", u, w))
                 q == Cardinality(At("call", u, w))
                 k == Cardinality(CallsOf(u, w))
                 a == Unset(u, w)
                 later == deaths' * CallsAtMost(n)
      <4>0. /\ c.until \in Nat /\ c.count \in Nat /\ past \in Nat /\ p \in Nat /\ q \in Nat
            /\ k \in Nat /\ n \in Nat /\ a \in Nat /\ Room(a) \in Int /\ Limit \in Nat
            /\ later = past + CallsAtMost(n) /\ CallsAtMost(n) \in Nat
        <5>1. c \in Counts
          BY TallyTypes
        <5>2. c.until \in Nat /\ c.count \in Nat
          BY <5>1 DEF Counts
        <5> QED BY <2>1, <5>2, TallyTypes, TurnsAreCounted, SummaryAssumption
      <4>1. a <= n
        BY TurnsAreCounted DEF Unset
      <4>2. Room(a) + (Limit - 1) + a = Room(a + 1) /\ Room(n + 1) = CallsAtMost(n)
        BY <4>0, RoomRises
      <4>3. Limit >= 1 => Room(a + 1) <= Room(n + 1)
        <5>1. a + 1 \in Nat /\ n + 1 \in Nat /\ a + 1 <= n + 1
          BY <4>0, <4>1
        <5> HIDE DEF a, n
        <5> QED BY <5>1, RoomRises
      <4>4. counter'[w][u] = NoCount
        BY <1>4, <3>3 DEF Die, SummaryTypes
      <4>5. \A stage \in Turns : At(stage, u, w)' = {}
        <5>1. Idle.at \notin Turns /\ \A s \in ThreadsOf(w) : thread'[s] = Idle
          BY <2>1, <3>3 DEF Idle, Turns, ThreadsOf
        <5> QED BY <5>1 DEF At, ThreadsOf
      <4>6. Cardinality(At("count", u, w))' = 0 /\ Cardinality(At("call", u, w))' = 0
            /\ Cardinality(CallsOf(u, w))' = k
        BY <3>1, <4>5, FS_EmptySet DEF Turns
      <4>7. CountedAt(u, w)
        BY DEF CallsAreCounted
      <4>8. ASSUME Tally(Running(c), c.count, p, q, k, a, past) PROVE k <= later
        <5> HIDE DEF a, n, past, later, p, q, k
        <5> QED BY <4>0, <4>1, <4>2, <4>3, <4>8 DEF Tally
      <4>9. NoCount.until = 0 /\ ~(NoCount.until > now')
        BY <1>0, <2>1 DEF NoCount
      <4> QED BY <1>0, <2>1, <4>4, <4>6, <4>7, <4>8, <4>9, CountedThen DEF Tally
    <3> QED BY <3>2, <3>3
  <2> QED BY <2>2, <2>3 DEF CallsAreCounted
<1> QED BY <1>1, <1>2, <1>3, <1>4 DEF SummaryNext, Step

LEMMA CountsBound ==
  ASSUME SummaryTypes, CallsAreCounted PROVE OverrunIsBounded
<1> SUFFICES ASSUME NEW u \in Users, NEW w \in Workers, now < RateWindow
             PROVE  Cardinality(CallsOf(u, w)) <= (1 + deaths) * CallsAtMost(Cardinality(ThreadsOf(w)))
  BY DEF OverrunIsBounded
<1> DEFINE n == Cardinality(ThreadsOf(w))
           c == counter[w][u]
           past == deaths * CallsAtMost(n)
           p == Cardinality(At("count", u, w))
           q == Cardinality(At("call", u, w))
           k == Cardinality(CallsOf(u, w))
           a == Unset(u, w)
<1>0. /\ c.until \in Nat /\ c.count \in Nat /\ past \in Nat /\ p \in Nat /\ q \in Nat
      /\ k \in Nat /\ n \in Nat /\ a \in Nat /\ Room(a) \in Int /\ Limit \in Nat
      /\ (1 + deaths) * CallsAtMost(n) = past + CallsAtMost(n) /\ CallsAtMost(n) \in Nat
  <2>1. c \in Counts
    BY TallyTypes
  <2>2. c.until \in Nat /\ c.count \in Nat
    BY <2>1 DEF Counts
  <2>3. deaths \in Nat /\ 1 + deaths = deaths + 1
    BY TallyTypes
  <2> QED BY <2>2, <2>3, TallyTypes, TurnsAreCounted, SummaryAssumption
<1>1. a <= n
  BY TurnsAreCounted DEF Unset
<1>2. Room(a) + (Limit - 1) + a = Room(a + 1) /\ Room(n + 1) = CallsAtMost(n)
  BY <1>0, RoomRises
<1>3. Limit >= 1 => Room(a + 1) <= Room(n + 1)
  <2>1. a + 1 \in Nat /\ n + 1 \in Nat /\ a + 1 <= n + 1
    BY <1>0, <1>1
  <2> HIDE DEF a, n
  <2> QED BY <2>1, RoomRises
<1>4. Tally(Running(c), c.count, p, q, k, a, past)
  BY DEF CallsAreCounted, CountedAt
<1> HIDE DEF a, n, past, p, q, k
<1>5. k <= past + CallsAtMost(n)
  BY <1>0, <1>1, <1>2, <1>3, <1>4 DEF Tally
<1> QED BY <1>0, <1>5 DEF k, n

-----------------------------------------------------------------------------
(* The theorems.                                                           *)

\* The inductive invariant.
SummaryInvariant == SummaryTypes /\ AnswersAreKept /\ WindowsAreAsked /\ CallsAreCounted

\* A page or file that has the figures of an answer on record shows it.
LEMMA SeenIsShown ==
  ASSUME SummaryInvariant, [SummaryNext]_summaryVars, NEW t \in Threads,
         thread[t].at = "read", thread[t].query.kind # "post", thread'[t].at = "done",
         [user |-> thread[t].user, payload |-> Payload(thread[t])] \in seen
  PROVE  thread'[t].call # 0
<1>0. thread \in [Threads -> Asking] /\ SummaryTypes
  BY DEF SummaryInvariant, SummaryTypes
<1>1. Show(t)
  <2>1. CASE UNCHANGED summaryVars \/ PostEntry \/ Tick
    BY <2>1 DEF summaryVars, PostEntry, Tick
  <2>2. CASE \E w \in Workers : Die(w)
    BY <2>2 DEF Die, Idle
  <2>3. ASSUME NEW s \in Threads, Step(s), s # t PROVE FALSE
    <3>1. thread'[t] = thread[t]
      <4>1. CASE ReadCount(s) \/ CountUp(s) \/ SetCount(s) \/ Call(s)
        BY <1>0, <2>3, <4>1 DEF ReadCount, CountUp, SetCount, Call, Move
      <4>2. CASE ~(ReadCount(s) \/ CountUp(s) \/ SetCount(s) \/ Call(s))
        BY <1>0, <2>3, <4>2, NoTurn DEF Step
      <4> QED BY <4>1, <4>2
    <3> QED BY <3>1
  <2>4. CASE Step(t)
    <3>1. ~ReadBalances(t) /\ ~Look(t) /\ ~Ask(t) /\ ~ReadResults(t) /\ ~ReadCount(t) /\ ~CountUp(t)
          /\ ~SetCount(t) /\ ~Call(t) /\ ~Record(t)
      BY DEF ReadBalances, Look, Ask, ReadResults, ReadCount, CountUp, SetCount, Call, Record
    <3> QED BY <2>4, <3>1 DEF Step
  <2> QED BY <2>1, <2>2, <2>3, <2>4 DEF SummaryNext
<1> DEFINE found == Matches(thread[t])
<1>2. found # {} /\ found \in SUBSET DOMAIN records
  BY DEF SummaryInvariant, AnswersAreKept, SeenIsRecorded, Matches, MatchesAnyStatus
<1>3. Latest(found) \in DOMAIN records
  BY <1>0, <1>2, RecordTypes
<1>4. find_latest_result(thread[t]) = records[Latest(found)].call
  BY <1>2 DEF find_latest_result
<1>5. records[Latest(found)].call # 0
  <2> HIDE DEF found
  <2> QED BY <1>0, <1>3, LenProperties DEF SummaryInvariant, AnswersAreKept, CallsAreRecorded, SummaryTypes
<1>6. thread'[t] = [thread[t] EXCEPT !.call = find_latest_result(thread[t]), !.at = "done"]
  BY <1>0, <1>1 DEF Show
<1>7. thread'[t].call = find_latest_result(thread[t])
  BY <1>0, <1>6 DEF Asking
<1> QED BY <1>4, <1>5, <1>7

LEMMA SummaryInvariantHolds == SummarySpec => []SummaryInvariant
<1>1. SummaryInit => SummaryInvariant
  BY InitTypes, InitKept, InitWindows, InitCounts DEF SummaryInvariant
<1>2. SummaryInvariant /\ [SummaryNext]_summaryVars => SummaryInvariant'
  <2> SUFFICES ASSUME SummaryInvariant, [SummaryNext]_summaryVars PROVE SummaryInvariant'
    OBVIOUS
  <2>1. SummaryTypes'
    BY StepTypes DEF SummaryInvariant, AnswersAreKept, CallsAreHeld
  <2> QED BY <2>1, StepKeeps, StepWindows, StepCounts DEF SummaryInvariant
<1> QED BY <1>1, <1>2, PTL DEF SummarySpec

\* What is shown is what was asked about, over the days asked for and no later, and an
\* answer given again is as fresh as it has to be: for every number of users, workers
\* and threads, however the ledger moves between the queries.
THEOREM AnswersAlwaysDescribeFigures == SummarySpec => []AnswersDescribeFigures
<1>1. SummaryInvariant => AnswersDescribeFigures
  <2> SUFFICES ASSUME SummaryInvariant PROVE AnswersDescribeFigures
    OBVIOUS
  <2>1. \A w \in Workers, u \in Users : counter[w][u].count \in Nat
    <3>1. \A w \in Workers, u \in Users : counter[w][u] \in Counts
      BY DEF SummaryInvariant, SummaryTypes
    <3> QED BY <3>1 DEF Counts
  <2>2. SummaryTypeOK
    BY <2>1 DEF SummaryInvariant, SummaryTypes, SummaryTypeOK, Asking, AnswersAreKept, CallsAreHeld,
                CallsAreRecorded
  <2> QED BY <2>2, WindowsServe DEF SummaryInvariant, AnswersAreKept, AnswersDescribeFigures
<1> QED BY <1>1, SummaryInvariantHolds, PTL

\* The races over the counter let a user make no more calls than the threads of a
\* worker can set it back for, times the restarts, while no counter expires.
THEOREM OverrunAlwaysBounded == SummarySpec => []OverrunIsBounded
<1>1. SummaryInvariant => OverrunIsBounded
  BY CountsBound DEF SummaryInvariant
<1> QED BY <1>1, SummaryInvariantHolds, PTL

\* A user who was shown an answer with some figures is shown one with them again.
THEOREM ShownIsAlwaysShownAgain == SummarySpec => ShownOnceShownAgain
<1>1. SummaryInvariant /\ [SummaryNext]_summaryVars
        => [\A t \in Threads :
              /\ thread[t].at = "read" /\ thread[t].query.kind # "post"
              /\ thread'[t].at = "done"
              /\ [user |-> thread[t].user, payload |-> Payload(thread[t])] \in seen
              => thread'[t].call # 0]_summaryVars
  BY SeenIsShown
<1> QED BY <1>1, SummaryInvariantHolds, PTL DEF SummarySpec, ShownOnceShownAgain

-----------------------------------------------------------------------------
(***************************************************************************)
(* Documents are worth what their lines are, for any lines, discounts, rates *)
(* and reversals.  Everything rests on what rounding half up may add or take *)
(* away (NearestBounds), summed over lines and over notes; the invariant says *)
(* that documents are what their forms make them, that a journal is its    *)
(* document's and balances, and that notes of one kind take no more of a line *)
(* than the invoice has.                                                   *)
(***************************************************************************)

-----------------------------------------------------------------------------
(* Rounding.                                                               *)

LEMMA TimesGrows ==
  ASSUME NEW d \in Nat, NEW a \in Int, NEW b \in Int, a <= b
  PROVE  d * a \in Int /\ d * b \in Int /\ d * a <= d * b
<1> DEFINE m == b - a
<1>1. m \in Nat /\ b = a + m
  OBVIOUS
<1> HIDE DEF m
<1>2. d * m \in Nat /\ d * b = d * a + d * m
  BY <1>1
<1> QED BY <1>2

LEMMA Doubled ==
  ASSUME NEW a \in Int, NEW b \in Int
  PROVE  a * b \in Int /\ (2 * a) * b = 2 * (a * b) /\ (2 * a) * b \in Int
OBVIOUS

LEMMA NearestBounds ==
  ASSUME NEW n \in Int, NEW d \in Nat \ {0}
  PROVE  /\ Nearest(n, d) \in Int
         /\ 2 * n - d <= 2 * (d * Nearest(n, d)) /\ 2 * (d * Nearest(n, d)) <= 2 * n + d
         /\ n >= 0 => 2 * n - d < 2 * (d * Nearest(n, d))
         /\ n <= 0 => 2 * (d * Nearest(n, d)) < 2 * n + d
<1> DEFINE q == (2 * n + d) \div (2 * d)
           r == (d - 2 * n) \div (2 * d)
<1>1. q \in Int /\ (2 * d) * q <= 2 * n + d /\ 2 * n + d < (2 * d) * q + 2 * d
  OBVIOUS
<1>2. r \in Int /\ (2 * d) * r <= d - 2 * n /\ d - 2 * n < (2 * d) * r + 2 * d
  OBVIOUS
<1>3. Nearest(n, d) = IF n >= 0 THEN q ELSE -r
  BY DEF Nearest
<1> HIDE DEF q, r
<1>4. (2 * d) * q = 2 * (d * q) /\ (2 * d) * r = 2 * (d * r) /\ d * (-r) = -(d * r)
  BY <1>1, <1>2
<1>5. CASE n > 0
  BY <1>1, <1>3, <1>4, <1>5
<1>6. CASE n < 0
  BY <1>2, <1>3, <1>4, <1>6
<1>7. CASE n = 0
  <2>1. q = 0
    <3>1. 2 * (d * q) <= d /\ d < 2 * (d * q) + 2 * d
      BY <1>1, <1>4, <1>7
    <3>2. ASSUME q >= 1 PROVE FALSE
      <4>1. d * 1 <= d * q
        BY <1>1, <3>2, TimesGrows
      <4>2. d * 1 = d /\ d * q \in Int
        BY <1>1
      <4> QED BY <3>1, <4>1, <4>2
    <3>3. ASSUME q <= -1 PROVE FALSE
      <4>1. d * q <= d * (-1)
        BY <1>1, <3>3, TimesGrows
      <4>2. d * (-1) = -d /\ d * q \in Int
        BY <1>1
      <4> QED BY <3>1, <4>1, <4>2
    <3> QED BY <1>1, <3>2, <3>3
  <2> QED BY <1>3, <1>7, <2>1
<1> QED BY <1>5, <1>6, <1>7

LEMMA NearestWithin ==
  ASSUME NEW n \in Int, NEW d \in Nat \ {0}, NEW k \in Int
  PROVE  /\ n <= k * d => Nearest(n, d) <= k
         /\ n >= k * d => Nearest(n, d) >= k
         /\ n = k * d => Nearest(n, d) = k
<1> DEFINE q == Nearest(n, d)
<1>1. q \in Int /\ 2 * n - d <= 2 * (d * q) /\ 2 * (d * q) <= 2 * n + d
  BY NearestBounds
<1> HIDE DEF q
<1>2. ASSUME n <= k * d, q >= k + 1 PROVE FALSE
  <2>1. d * q >= d * (k + 1) /\ d * (k + 1) = k * d + d
    BY <1>1, <1>2
  <2> QED BY <1>1, <1>2, <2>1
<1>3. ASSUME n >= k * d, q <= k - 1 PROVE FALSE
  <2>1. d * q <= d * (k - 1) /\ d * (k - 1) = k * d - d
    BY <1>1, <1>3
  <2> QED BY <1>1, <1>3, <2>1
<1> QED BY <1>1, <1>2, <1>3 DEF q

\* By a fixed divisor.
LEMMA NearestHundred ==
  ASSUME NEW n \in Int
  PROVE  /\ Nearest(n, 100) \in Int
         /\ 2 * n - 100 <= 200 * Nearest(n, 100) /\ 200 * Nearest(n, 100) <= 2 * n + 100
<1> DEFINE q == Nearest(n, 100)
<1>1. q \in Int /\ 2 * n - 100 <= 2 * (100 * q) /\ 2 * (100 * q) <= 2 * n + 100
  BY NearestBounds
<1> HIDE DEF q
<1>2. 2 * (100 * q) = 200 * q
  BY <1>1
<1> QED BY <1>1, <1>2 DEF q

-----------------------------------------------------------------------------
(* Sums.                                                                   *)

LEMMA SumOrdered ==
  ASSUME NEW S, IsFiniteSet(S), NEW f, NEW g, \A x \in S : f[x] \in Int /\ g[x] \in Int /\ f[x] <= g[x]
  PROVE  SumFunctionOnSet(f, S) <= SumFunctionOnSet(g, S)
<1> DEFINE h == [x \in S |-> g[x] - f[x]]
<1>1. \A x \in S : h[x] \in Nat
  OBVIOUS
<1>2. \A x \in S : f[x] \in Int /\ h[x] \in Int /\ g[x] = f[x] + h[x]
  OBVIOUS
<1> HIDE DEF h
<1>3. SumFunctionOnSet(g, S) = SumFunctionOnSet(f, S) + SumFunctionOnSet(h, S)
  BY <1>2, SumPlus
<1>4. SumFunctionOnSet(h, S) \in Nat /\ SumFunctionOnSet(f, S) \in Int
  BY <1>1, SumNat, SumType
<1> QED BY <1>3, <1>4

LEMMA SumOfSame ==
  ASSUME NEW S, IsFiniteSet(S), NEW k \in Int, NEW f, \A x \in S : f[x] = k
  PROVE  SumFunctionOnSet(f, S) = k * Cardinality(S)
<1> DEFINE Sm(A) == SumFunctionOnSet(f, A)
           T == {A \in SUBSET S : Sm(A) = k * Cardinality(A)}
<1>1. ASSUME NEW A \in SUBSET S, \A B \in SUBSET A : B # A => B \in T
      PROVE  A \in T
  <2>1. CASE A = {}
    BY <2>1, SumEmpty, FS_EmptySet
  <2>2. CASE A # {}
    <3>1. PICK x \in A : TRUE
      BY <2>2
    <3>2. A \ {x} \in SUBSET A /\ A \ {x} # A /\ IsFiniteSet(A) /\ x \in S /\ A \ {x} \in T
      BY <1>1, <3>1, FS_Subset
    <3>3. Sm(A \ {x}) = k * Cardinality(A \ {x})
      BY <3>2
    <3>4. Sm(A) = k + Sm(A \ {x})
      <4>1. \A y \in A : f[y] \in Int
        OBVIOUS
      <4> QED BY <3>1, <3>2, <4>1, SumTake
    <3>5. Cardinality(A) \in Nat /\ Cardinality(A \ {x}) = Cardinality(A) - 1
      BY <3>1, <3>2, FS_RemoveElement, FS_CardinalityType
    <3> DEFINE a == Cardinality(A)
    <3> HIDE DEF a
    <3>6. k + k * (a - 1) = k * a
      BY <3>5 DEF a
    <3> QED BY <3>3, <3>4, <3>5, <3>6 DEF a
  <2> QED BY <2>1, <2>2
<1> HIDE DEF T
<1>2. S \in T
  BY <1>1, AllSubsets
<1> QED BY <1>2 DEF T

LEMMA PairIsFinite == IsFiniteSet({1, 2})
<1>1. {1, 2} = {1} \cup {2}
  OBVIOUS
<1>2. IsFiniteSet({1}) /\ IsFiniteSet({2})
  BY FS_Singleton
<1>3. IsFiniteSet({1} \cup {2})
  BY <1>2, FS_Union
<1> QED BY <1>1, <1>3

LEMMA TotalOfTwo ==
  ASSUME NEW a \in Int, NEW b \in Int PROVE Total(<<a, b>>) = a + b
<1> DEFINE f == <<a, b>>
<1>1. DOMAIN f = {1, 2} /\ f[1] = a /\ f[2] = b
  OBVIOUS
<1> HIDE DEF f
<1>2. SumFunctionOnSet(f, {} \cup {1}) = f[1] + SumFunctionOnSet(f, {})
  BY <1>1, FS_EmptySet, SumAdd
<1>3. SumFunctionOnSet(f, {1} \cup {2}) = f[2] + SumFunctionOnSet(f, {1})
  <2>1. IsFiniteSet({1})
    BY FS_Singleton
  <2>2. 2 \notin {1} /\ \A y \in {1} \cup {2} : f[y] \in Int
    BY <1>1
  <2> QED BY <2>1, <2>2, SumAdd
<1>4. {} \cup {1} = {1} /\ {1} \cup {2} = {1, 2}
  OBVIOUS
<1>5. Total(f) = b + (a + 0)
  BY <1>1, <1>2, <1>3, <1>4, SumEmpty DEF Total
<1> QED BY <1>5 DEF f

LEMMA TotalOfThree ==
  ASSUME NEW a \in Int, NEW b \in Int, NEW c \in Int PROVE Total(<<a, b, c>>) = a + b + c
<1> DEFINE f == <<a, b, c>>
<1>1. DOMAIN f = {1, 2, 3} /\ f[1] = a /\ f[2] = b /\ f[3] = c
  OBVIOUS
<1> HIDE DEF f
<1>2. SumFunctionOnSet(f, {} \cup {1}) = f[1] + SumFunctionOnSet(f, {})
  BY <1>1, FS_EmptySet, SumAdd
<1>3. SumFunctionOnSet(f, {1} \cup {2}) = f[2] + SumFunctionOnSet(f, {1})
  <2>1. IsFiniteSet({1})
    BY FS_Singleton
  <2>2. 2 \notin {1} /\ \A y \in {1} \cup {2} : f[y] \in Int
    BY <1>1
  <2> QED BY <2>1, <2>2, SumAdd
<1>4. SumFunctionOnSet(f, {1, 2} \cup {3}) = f[3] + SumFunctionOnSet(f, {1, 2})
  <2>1. IsFiniteSet({1, 2})
    BY PairIsFinite
  <2>2. 3 \notin {1, 2} /\ \A y \in {1, 2} \cup {3} : f[y] \in Int
    BY <1>1
  <2> QED BY <2>1, <2>2, SumAdd
<1>5. {} \cup {1} = {1} /\ {1} \cup {2} = {1, 2} /\ {1, 2} \cup {3} = {1, 2, 3}
  OBVIOUS
<1>6. Total(f) = c + (b + (a + 0))
  BY <1>1, <1>2, <1>3, <1>4, <1>5, SumEmpty DEF Total
<1> QED BY <1>6 DEF f

-----------------------------------------------------------------------------
(* One line.                                                               *)

LEMMA LineWeighs ==
  ASSUME NEW l \in FormLine
  PROVE  Gross(l) \in Nat /\ LineDiscount(l) \in Int /\ Gross(l) - LineDiscount(l) \in Nat
<1>1. l.quantity \in Nat /\ l.price \in Nat /\ l.off \in Int /\ l.off <= 100
  BY DEF FormLine, Hundred
<1> DEFINE g == l.quantity * l.price
<1>2. g \in Nat
  BY <1>1
<1> HIDE DEF g
<1>3. g * l.off \in Int /\ g * 100 \in Int /\ g * l.off <= g * 100
  BY <1>1, <1>2, TimesGrows
<1>4. Nearest(g * l.off, 100) \in Int /\ Nearest(g * l.off, 100) <= g
  <2> DEFINE n == g * l.off
  <2>1. n \in Int /\ 100 \in Nat \ {0} /\ n <= g * 100
    BY <1>3
  <2> HIDE DEF n
  <2>2. Nearest(n, 100) \in Int
    BY <2>1, NearestHundred
  <2>3. Nearest(n, 100) <= g
    BY <1>2, <2>1, NearestWithin
  <2> QED BY <2>2, <2>3 DEF n
<1>5. Gross(l) = g /\ LineDiscount(l) = Nearest(g * l.off, 100)
  BY DEF Gross, LineDiscount, Hundred, g
<1> QED BY <1>2, <1>4, <1>5

LEMMA BaseIsFair ==
  ASSUME NEW l \in FormLine, NEW net \in Int
  PROVE  LET base == TaxableBase(l, net)
         IN  /\ base \in Int
             /\ net >= 0 => base >= 0
             /\ net >= 1 => base >= 1
             /\ net <= 0 => base >= net /\ base <= 0
             /\ ~l.inclusive => base = net
<1>1. l.tax \in 0 .. 100
  BY DEF FormLine, Hundred
<1> DEFINE d == 100 + l.tax
           q == Nearest(net * 100, d)
<1>2. d \in Nat \ {0} /\ d >= 100 /\ d <= 200 /\ net * 100 \in Int
  BY <1>1
<1>3. /\ TaxableBase(l, net) = net \/ (l.inclusive /\ TaxableBase(l, net) = q)
      /\ ~l.inclusive => TaxableBase(l, net) = net
  BY DEF TaxableBase, Hundred
<1> HIDE DEF d
<1>4. /\ q \in Int
      /\ net * 100 >= 0 => 2 * (net * 100) - d < 2 * (d * q)
      /\ net * 100 >= 0 * d => q >= 0
      /\ net * 100 <= 0 * d => q <= 0
      /\ net * 100 >= net * d => q >= net
  BY <1>2, NearestBounds, NearestWithin
<1> HIDE DEF q
<1>5. 0 * d = 0
  BY <1>2
<1>6. net >= 0 => q >= 0
  BY <1>4, <1>5
<1>7. ASSUME net >= 1 PROVE q >= 1
  <2>1. ASSUME q = 0 PROVE FALSE
    <3>1. d * q = 0
      BY <1>2, <2>1
    <3> QED BY <1>2, <1>4, <1>7, <3>1
  <2> QED BY <1>4, <1>6, <1>7, <2>1
<1>8. ASSUME net <= 0 PROVE q >= net /\ q <= 0
  <2> DEFINE m == -net
             k == d - 100
  <2>1. m \in Nat /\ k \in Nat /\ net = -m /\ d = 100 + k
    BY <1>2, <1>8
  <2> HIDE DEF m, k
  <2>2. m * k \in Nat /\ net * d = net * 100 - m * k
    BY <2>1
  <2> QED BY <1>4, <1>5, <1>8, <2>2
<1> QED BY <1>3, <1>4, <1>6, <1>7, <1>8

\* A line that costs nothing is charged nothing; one that costs something is
\* charged something; a negative one takes back twice its amount at the most.
LEMMA AmountsAreFair ==
  ASSUME NEW l \in FormLine, NEW share \in Int, NEW net \in Int
  PROVE  LET a == Amounts(l, share, net)
         IN  /\ a.gross = Gross(l) /\ a.off = LineDiscount(l) /\ a.share = share /\ a.net = net
             /\ a.base \in Int /\ a.tax \in Int
             /\ net >= 0 => a.base >= 0 /\ a.tax >= 0
             /\ net >= 1 => a.base + a.tax >= 1
             /\ net <= 0 => a.base + a.tax >= 2 * net
             /\ ~l.inclusive => a.base = net /\ a.tax = Nearest(net * l.tax, 100)
<1> DEFINE base == TaxableBase(l, net)
           tax == Nearest(base * l.tax, 100)
<1>1. /\ base \in Int /\ (net >= 0 => base >= 0) /\ (net >= 1 => base >= 1)
      /\ (net <= 0 => base >= net /\ base <= 0) /\ (~l.inclusive => base = net)
  BY BaseIsFair
<1>2. Amounts(l, share, net) = [gross |-> Gross(l), off |-> LineDiscount(l), share |-> share,
                                net |-> net, base |-> base, tax |-> tax]
  BY DEF Amounts, Hundred
<1> HIDE DEF base
<1>3. l.tax \in 0 .. 100
  BY DEF FormLine, Hundred
<1>4. base * l.tax \in Int
  BY <1>1, <1>3
<1>5. tax \in Int /\ (base * l.tax >= 0 * 100 => tax >= 0) /\ (base * l.tax >= base * 100 => tax >= base)
  <2> DEFINE n == base * l.tax
  <2>1. n \in Int /\ 100 \in Nat \ {0} /\ 0 \in Int
    BY <1>4
  <2> HIDE DEF n
  <2>2. Nearest(n, 100) \in Int
    BY <2>1, NearestHundred
  <2>3. n >= 0 * 100 => Nearest(n, 100) >= 0
    BY <2>1, NearestWithin
  <2>4. n >= base * 100 => Nearest(n, 100) >= base
    BY <1>1, <2>1, NearestWithin
  <2> QED BY <2>2, <2>3, <2>4 DEF n
<1>6. base >= 0 => base * l.tax >= 0
  BY <1>1, <1>3
<1>7. ASSUME base <= 0 PROVE base * l.tax >= base * 100
  <2> DEFINE m == -base
             k == 100 - l.tax
  <2>1. m \in Nat /\ k \in Nat /\ base = -m /\ l.tax = 100 - k
    BY <1>1, <1>3, <1>7
  <2> HIDE DEF m, k
  <2>2. m * k \in Nat /\ base * l.tax = base * 100 + m * k
    BY <2>1
  <2> QED BY <1>1, <2>2
<1> HIDE DEF tax
<1>8. /\ net >= 0 => base >= 0 /\ tax >= 0
      /\ net >= 1 => base + tax >= 1
      /\ net <= 0 => base + tax >= 2 * net
  BY <1>1, <1>5, <1>6, <1>7
<1>9. ~l.inclusive => base = net /\ tax = Nearest(net * l.tax, 100)
  BY <1>1 DEF tax
<1> QED BY <1>1, <1>2, <1>5, <1>8, <1>9

-----------------------------------------------------------------------------
(* The header discount over the lines.                                     *)

LEMMA UpTo ==
  ASSUME NEW n \in Nat \ {0}
  PROVE  /\ IsFiniteSet(1 .. n) /\ Cardinality(1 .. n) = n
         /\ IsFiniteSet(1 .. n - 1) /\ Cardinality(1 .. n - 1) = n - 1
         /\ 1 .. n = (1 .. n - 1) \cup {n} /\ n \notin 1 .. n - 1
<1>1. 1 \in Int /\ n \in Int /\ n - 1 \in Int
  OBVIOUS
<1>2. IsFiniteSet(1 .. n) /\ Cardinality(1 .. n) = n
  BY <1>1, FS_Interval
<1>3. IsFiniteSet(1 .. n - 1) /\ Cardinality(1 .. n - 1) = n - 1
  BY <1>1, FS_Interval
<1> QED BY <1>2, <1>3

LEMMA SharesFoot ==
  ASSUME NEW n \in Nat \ {0}, NEW w, w = [i \in 1 .. n |-> w[i]],
         \A i \in 1 .. n : w[i] \in Nat, NEW D \in Int
  PROVE  LET s == Allocate(D, w)
             W == Total(w)
         IN  /\ W \in Nat
             /\ s = [i \in 1 .. n |-> s[i]] /\ \A i \in 1 .. n : s[i] \in Int
             /\ Total(s) = D
             /\ \A i \in 1 .. n - 1 :
                  IF W > 0 THEN /\ 2 * (D * w[i]) - W <= 2 * (W * s[i])
                                /\ 2 * (W * s[i]) <= 2 * (D * w[i]) + W
                           ELSE s[i] = 0
             /\ D <= W => \A i \in 1 .. n - 1 : s[i] <= w[i]
             /\ s[n] = D - SumFunctionOnSet(s, 1 .. n - 1)
<1> DEFINE s == Allocate(D, w)
           W == Total(w)
           part(i) == IF W > 0 THEN Nearest(D * w[i], W) ELSE 0
           parts == [j \in 1 .. n - 1 |-> part(j)]
           left == D - Total(parts)
<1>1. DOMAIN w = 1 .. n /\ Len(w) = n
  OBVIOUS
<1>2. W \in Nat
  BY <1>1, UpTo, SumNat DEF Total
<1>3. s = [i \in 1 .. n |-> IF i < n THEN part(i) ELSE left]
  BY <1>1 DEF Allocate
<1> HIDE DEF W, s, left
<1>4. ASSUME NEW i \in 1 .. n
      PROVE  /\ part(i) \in Int
             /\ IF W > 0 THEN /\ 2 * (D * w[i]) - W <= 2 * (W * part(i))
                              /\ 2 * (W * part(i)) <= 2 * (D * w[i]) + W
                         ELSE part(i) = 0
             /\ D <= W => part(i) <= w[i]
  <2>1. CASE W > 0
    <3> DEFINE a == w[i]
               x == D * a
    <3>1. a \in Nat /\ x \in Int /\ W \in Nat \ {0}
      BY <1>2, <2>1
    <3>2. part(i) = Nearest(x, W)
      BY <2>1
    <3>3. D <= W => x <= a * W
      <4>1. a * D <= a * W \/ ~(D <= W)
        BY <1>2, <3>1, TimesGrows
      <4> QED BY <3>1, <4>1
    <3> HIDE DEF x, part
    <3>4. Nearest(x, W) \in Int /\ 2 * x - W <= 2 * (W * Nearest(x, W)) /\ 2 * (W * Nearest(x, W)) <= 2 * x + W
      BY <3>1, NearestBounds
    <3>5. D <= W => Nearest(x, W) <= a
      BY <3>1, <3>3, NearestWithin
    <3> QED BY <2>1, <3>2, <3>4, <3>5 DEF x
  <2>2. CASE ~(W > 0)
    BY <1>2, <2>2
  <2> QED BY <2>1, <2>2
<1>5. \A i \in 1 .. n - 1 : i \in 1 .. n /\ s[i] = part(i) /\ parts[i] = part(i)
  <2> HIDE DEF part
  <2>1. \A i \in 1 .. n - 1 : i \in 1 .. n /\ i < n
    OBVIOUS
  <2> QED BY <1>3, <2>1
<1>12. s[n] = left /\ DOMAIN s = 1 .. n /\ s = [i \in 1 .. n |-> s[i]]
  <2> HIDE DEF part, parts
  <2>1. n \in 1 .. n /\ ~(n < n)
    OBVIOUS
  <2> QED BY <1>3, <2>1
<1> HIDE DEF part
<1>6. DOMAIN parts = 1 .. n - 1 /\ \A i \in 1 .. n - 1 : parts[i] \in Int /\ parts[i] = s[i]
  BY <1>4, <1>5
<1>7. Total(parts) \in Int /\ Total(parts) = SumFunctionOnSet(s, 1 .. n - 1)
  <2> HIDE DEF parts
  <2>1. SumFunctionOnSet(parts, 1 .. n - 1) \in Int
    BY <1>6, UpTo, SumType
  <2>2. SumFunctionOnSet(parts, 1 .. n - 1) = SumFunctionOnSet(s, 1 .. n - 1)
    BY <1>6, UpTo, SumAgrees
  <2> QED BY <1>6, <2>1, <2>2 DEF Total
<1>8. s[n] = D - Total(parts) /\ DOMAIN s = 1 .. n /\ s = [i \in 1 .. n |-> s[i]]
  BY <1>12 DEF left
<1> HIDE DEF parts
<1>9. \A i \in 1 .. n : s[i] \in Int
  <2>1. \A i \in 1 .. n - 1 : s[i] \in Int
    BY <1>4, <1>5
  <2>2. s[n] \in Int
    BY <1>7, <1>8
  <2> QED BY <2>1, <2>2, UpTo
<1>10. Total(s) = D
  <2>1. SumFunctionOnSet(s, (1 .. n - 1) \cup {n}) = s[n] + SumFunctionOnSet(s, 1 .. n - 1)
    BY <1>9, UpTo, SumAdd
  <2>2. DOMAIN s = (1 .. n - 1) \cup {n}
    BY <1>8, UpTo
  <2>3. Total(s) = SumFunctionOnSet(s, (1 .. n - 1) \cup {n})
    BY <2>2 DEF Total
  <2> DEFINE before == SumFunctionOnSet(s, 1 .. n - 1)
  <2>4. before \in Int /\ s[n] = D - before
    BY <1>7, <1>8
  <2>5. Total(s) = s[n] + before
    BY <2>1, <2>3
  <2> HIDE DEF before
  <2> QED BY <2>4, <2>5
<1>11. \A i \in 1 .. n - 1 : /\ IF W > 0 THEN /\ 2 * (D * w[i]) - W <= 2 * (W * s[i])
                                              /\ 2 * (W * s[i]) <= 2 * (D * w[i]) + W
                                         ELSE s[i] = 0
                             /\ D <= W => s[i] <= w[i]
  BY <1>4, <1>5
<1> QED BY <1>2, <1>7, <1>8, <1>9, <1>10, <1>11 DEF s, W

-----------------------------------------------------------------------------
(* Purchases.                                                              *)

Nets(a) == [i \in DOMAIN a |-> a[i].net]
Bases(a) == [i \in DOMAIN a |-> a[i].base]
Taxes(a) == [i \in DOMAIN a |-> a[i].tax]
Grosses(a) == [i \in DOMAIN a |-> a[i].gross]
Offs(a) == [i \in DOMAIN a |-> a[i].off]
Weights(lines) == [i \in DOMAIN lines |-> Gross(lines[i]) - LineDiscount(lines[i])]

LEMMA ColumnsAreRead ==
  ASSUME NEW a
  PROVE  /\ DOMAIN Nets(a) = DOMAIN a /\ DOMAIN Bases(a) = DOMAIN a /\ DOMAIN Taxes(a) = DOMAIN a
         /\ DOMAIN Grosses(a) = DOMAIN a /\ DOMAIN Offs(a) = DOMAIN a
         /\ \A i \in DOMAIN a :
              /\ Nets(a)[i] = a[i].net /\ Bases(a)[i] = a[i].base /\ Taxes(a)[i] = a[i].tax
              /\ Grosses(a)[i] = a[i].gross /\ Offs(a)[i] = a[i].off
BY DEF Nets, Bases, Taxes, Grosses, Offs

LEMMA FormIsTyped ==
  ASSUME NEW lines \in Forms
  PROVE  /\ Len(lines) \in Nat \ {0} /\ DOMAIN lines = 1 .. Len(lines)
         /\ \A i \in 1 .. Len(lines) : lines[i] \in FormLine
BY BillingAssumption

LEMMA DiscountIsInt ==
  ASSUME NEW header, header.value \in Int, NEW whole \in Int
  PROVE  Discount(header, whole) \in Int
<1>1. whole * header.value \in Int
  OBVIOUS
<1>2. Nearest(whole * header.value, 100) \in Int
  BY <1>1, NearestHundred
<1> QED BY <1>2 DEF Discount, Hundred

LEMMA WeightsAreNat ==
  ASSUME NEW lines \in Forms
  PROVE  LET w == Weights(lines)
             n == Len(lines)
         IN  w = [i \in 1 .. n |-> w[i]] /\ (\A i \in 1 .. n : w[i] \in Nat) /\ Total(w) \in Nat
<1> DEFINE w == Weights(lines)
           n == Len(lines)
<1>1. n \in Nat \ {0} /\ DOMAIN w = 1 .. n /\ w = [i \in 1 .. n |-> w[i]]
  BY FormIsTyped DEF Weights
<1>2. \A i \in 1 .. n : w[i] \in Nat
  BY <1>1, FormIsTyped, LineWeighs DEF Weights
<1> HIDE DEF w, n
<1>3. Total(w) \in Nat
  BY <1>1, <1>2, UpTo, SumNat DEF Total
<1> QED BY <1>1, <1>2, <1>3 DEF w, n

\* What a purchase takes off is what there is at the most.
LEMMA BillDiscountWithin ==
  ASSUME NEW lines \in Forms, NEW header \in Headers
  PROVE  BillDiscount(lines, header) \in Int /\ BillDiscount(lines, header) <= Total(Weights(lines))
<1> DEFINE W == Total(Weights(lines))
           D == Discount(header, W)
<1>1. W \in Nat
  BY WeightsAreNat
<1>2. BillDiscount(lines, header) = IF D < W THEN D ELSE W
  BY DEF BillDiscount, Column, Weights
<1> HIDE DEF W
<1>3. D \in Int
  BY <1>1, BillingAssumption, DiscountIsInt
<1> HIDE DEF D
<1> QED BY <1>1, <1>2, <1>3 DEF W

LEMMA PurchaseIsSplit ==
  ASSUME NEW lines \in Forms, NEW header \in Headers
  PROVE  LET a == PurchaseAmounts(lines, header)
             w == Weights(lines)
             s == Allocate(BillDiscount(lines, header), w)
             n == Len(lines)
         IN  /\ n \in Nat \ {0} /\ DOMAIN a = 1 .. n
             /\ \A i \in 1 .. n :
                  /\ s[i] \in Int /\ w[i] \in Nat /\ a[i].net = w[i] - s[i]
                  /\ a[i].gross \in Int /\ a[i].off \in Int /\ a[i].gross - a[i].off = w[i]
                  /\ a[i].base \in Int /\ a[i].tax \in Int
                  /\ a[i].net >= 0 => a[i].base >= 0 /\ a[i].tax >= 0
                  /\ a[i].net >= 1 => a[i].base + a[i].tax >= 1
                  /\ a[i].net <= 0 => a[i].base + a[i].tax >= 2 * a[i].net
<1> DEFINE a == PurchaseAmounts(lines, header)
           w == Weights(lines)
           s == Allocate(BillDiscount(lines, header), w)
           n == Len(lines)
<1>1. n \in Nat \ {0} /\ DOMAIN lines = 1 .. n /\ \A i \in 1 .. n : lines[i] \in FormLine
  BY FormIsTyped
<1>2. a = [i \in 1 .. n |-> PurchaseLine(lines[i], s[i])]
  BY <1>1 DEF PurchaseAmounts, Weights
<1>3. w = [i \in 1 .. n |-> w[i]] /\ \A i \in 1 .. n : w[i] \in Nat
  BY WeightsAreNat
<1>4. BillDiscount(lines, header) \in Int
  BY BillDiscountWithin
<1>5. \A i \in 1 .. n : w[i] = Gross(lines[i]) - LineDiscount(lines[i])
  BY <1>1 DEF Weights
<1> HIDE DEF w, n
<1>6. \A i \in 1 .. n : s[i] \in Int
  BY <1>1, <1>3, <1>4, SharesFoot
<1> HIDE DEF s, a
<1>7. ASSUME NEW i \in 1 .. n
      PROVE  /\ s[i] \in Int /\ w[i] \in Nat /\ a[i].net = w[i] - s[i]
             /\ a[i].gross \in Int /\ a[i].off \in Int /\ a[i].gross - a[i].off = w[i]
             /\ a[i].base \in Int /\ a[i].tax \in Int
             /\ a[i].net >= 0 => a[i].base >= 0 /\ a[i].tax >= 0
             /\ a[i].net >= 1 => a[i].base + a[i].tax >= 1
             /\ a[i].net <= 0 => a[i].base + a[i].tax >= 2 * a[i].net
  <2> DEFINE l == lines[i]
             net == Gross(l) - LineDiscount(l) - s[i]
  <2>1. l \in FormLine /\ s[i] \in Int
    BY <1>1, <1>6
  <2>2. a[i] = Amounts(l, s[i], net)
    BY <1>2 DEF PurchaseLine
  <2>3. Gross(l) \in Nat /\ LineDiscount(l) \in Int /\ w[i] = Gross(l) - LineDiscount(l)
    BY <1>5, <2>1, LineWeighs
  <2>4. net \in Int /\ net = w[i] - s[i]
    BY <2>1, <2>3
  <2> HIDE DEF l, net
  <2> DEFINE b == Amounts(l, s[i], net)
  <2>5. /\ b.gross = Gross(l) /\ b.off = LineDiscount(l) /\ b.net = net
        /\ b.base \in Int /\ b.tax \in Int
        /\ net >= 0 => b.base >= 0 /\ b.tax >= 0
        /\ net >= 1 => b.base + b.tax >= 1
        /\ net <= 0 => b.base + b.tax >= 2 * net
    BY <2>1, <2>4, AmountsAreFair
  <2>6. a[i] = b /\ w[i] \in Nat
    BY <1>3, <2>2
  <2> HIDE DEF b
  <2> QED BY <2>1, <2>3, <2>4, <2>5, <2>6
<1> QED BY <1>1, <1>2, <1>7 DEF a, s, w, n

\* The discount foots, line by line and in all.
LEMMA PurchaseFoots ==
  ASSUME NEW lines \in Forms, NEW header \in Headers
  PROVE  LET a == PurchaseAmounts(lines, header)
             D == BillDiscount(lines, header)
         IN  /\ Total(Nets(a)) = Total(Weights(lines)) - D
             /\ Total(Grosses(a)) - Total(Offs(a)) = Total(Weights(lines))
             /\ \A f \in {Nets(a), Bases(a), Taxes(a), Grosses(a), Offs(a)} : Total(f) \in Int
<1> DEFINE a == PurchaseAmounts(lines, header)
           D == BillDiscount(lines, header)
           w == Weights(lines)
           s == Allocate(D, w)
           n == Len(lines)
<1>1. /\ n \in Nat \ {0} /\ DOMAIN a = 1 .. n
      /\ \A i \in 1 .. n :
           /\ s[i] \in Int /\ w[i] \in Nat /\ a[i].net = w[i] - s[i]
           /\ a[i].gross \in Int /\ a[i].off \in Int /\ a[i].gross - a[i].off = w[i]
           /\ a[i].base \in Int /\ a[i].tax \in Int
  BY PurchaseIsSplit
<1>2. w = [i \in 1 .. n |-> w[i]] /\ D \in Int
  BY WeightsAreNat, BillDiscountWithin
<1> HIDE DEF a, w, n, D
<1>3. Total(s) = D /\ DOMAIN s = 1 .. n
  BY <1>1, <1>2, SharesFoot
<1> HIDE DEF s
<1>4. ASSUME NEW f \in {Nets(a), Bases(a), Taxes(a), Grosses(a), Offs(a)}
      PROVE  DOMAIN f = 1 .. n /\ (\A i \in 1 .. n : f[i] \in Int) /\ Total(f) \in Int
  <2>1. DOMAIN f = 1 .. n /\ \A i \in 1 .. n : f[i] \in Int
    <3>1. \A i \in 1 .. n : /\ a[i].net \in Int /\ a[i].gross \in Int /\ a[i].off \in Int
                             /\ a[i].base \in Int /\ a[i].tax \in Int
      BY <1>1
    <3>2. ASSUME NEW i \in 1 .. n
          PROVE  /\ Nets(a)[i] \in Int /\ Grosses(a)[i] \in Int /\ Offs(a)[i] \in Int
                 /\ Bases(a)[i] \in Int /\ Taxes(a)[i] \in Int
      <4>1. i \in DOMAIN a
        BY <1>1
      <4>2. /\ Nets(a)[i] = a[i].net /\ Grosses(a)[i] = a[i].gross /\ Offs(a)[i] = a[i].off
            /\ Bases(a)[i] = a[i].base /\ Taxes(a)[i] = a[i].tax
        BY <4>1, ColumnsAreRead
      <4>3. /\ a[i].net \in Int /\ a[i].gross \in Int /\ a[i].off \in Int
            /\ a[i].base \in Int /\ a[i].tax \in Int
        BY <3>1
      <4> QED BY <4>2, <4>3
    <3> QED BY <1>1, <1>4, <3>2, ColumnsAreRead
  <2> QED BY <1>1, <2>1, UpTo, SumType DEF Total
<1>5. Total(w) = Total(Nets(a)) + Total(s)
  <2> DEFINE f == Nets(a)
  <2>1. DOMAIN f = 1 .. n /\ \A i \in 1 .. n : f[i] \in Int /\ s[i] \in Int /\ w[i] = f[i] + s[i]
    BY <1>1, ColumnsAreRead
  <2> HIDE DEF f
  <2>2. SumFunctionOnSet(w, 1 .. n) = SumFunctionOnSet(f, 1 .. n) + SumFunctionOnSet(s, 1 .. n)
    <3>1. IsFiniteSet(1 .. n)
      BY <1>1, UpTo
    <3> QED BY <2>1, <3>1, SumPlus
  <2>3. DOMAIN w = 1 .. n
    BY <1>2
  <2> QED BY <1>3, <2>1, <2>2, <2>3 DEF Total, f
<1>6. Total(Grosses(a)) = Total(Offs(a)) + Total(w)
  <2> DEFINE f == Grosses(a)
             g == Offs(a)
  <2>1. DOMAIN f = 1 .. n /\ DOMAIN g = 1 .. n /\ \A i \in 1 .. n : g[i] \in Int /\ w[i] \in Int /\ f[i] = g[i] + w[i]
    BY <1>1, ColumnsAreRead
  <2> HIDE DEF f, g
  <2>2. SumFunctionOnSet(f, 1 .. n) = SumFunctionOnSet(g, 1 .. n) + SumFunctionOnSet(w, 1 .. n)
    <3>1. IsFiniteSet(1 .. n)
      BY <1>1, UpTo
    <3>2. \A i \in 1 .. n : g[i] \in Int /\ w[i] \in Int /\ f[i] = g[i] + w[i]
      BY <2>1
    <3> QED BY <3>1, <3>2, SumPlus
  <2>3. DOMAIN w = 1 .. n
    BY <1>2
  <2> QED BY <2>1, <2>2, <2>3 DEF Total, f, g
<1>7. Total(w) \in Nat
  BY WeightsAreNat DEF w
<1> QED BY <1>2, <1>3, <1>4, <1>5, <1>6, <1>7 DEF a, w, D

\* Only the last line of a purchase can fall below zero, by half a unit for
\* each line before it.
LEMMA LastLineBounded ==
  ASSUME NEW lines \in Forms, NEW header \in Headers
  PROVE  LET a == PurchaseAmounts(lines, header)
             n == Len(lines)
         IN  /\ (\A i \in 1 .. n - 1 : a[i].net >= 0) /\ a[n].net > -n
             /\ Total(Weights(lines)) = 0 => a[n].net >= 0
<1> DEFINE a == PurchaseAmounts(lines, header)
           D == BillDiscount(lines, header)
           w == Weights(lines)
           s == Allocate(D, w)
           n == Len(lines)
           W == Total(w)
           S == SumFunctionOnSet(s, 1 .. n - 1)
           V == SumFunctionOnSet(w, 1 .. n - 1)
<1>1. n \in Nat \ {0} /\ \A i \in 1 .. n : s[i] \in Int /\ w[i] \in Nat /\ a[i].net = w[i] - s[i]
  BY PurchaseIsSplit
<1>2. w = [i \in 1 .. n |-> w[i]] /\ D \in Int /\ D <= W /\ W \in Nat
  BY WeightsAreNat, BillDiscountWithin
<1> HIDE DEF a, w, n, D
<1>3. /\ \A i \in 1 .. n - 1 :
           /\ IF W > 0 THEN 2 * (D * w[i]) - W <= 2 * (W * s[i]) ELSE s[i] = 0
           /\ s[i] <= w[i]
      /\ s[n] = D - S
  <2>1. \A i \in 1 .. n - 1 :
          IF W > 0 THEN /\ 2 * (D * w[i]) - W <= 2 * (W * s[i])
                        /\ 2 * (W * s[i]) <= 2 * (D * w[i]) + W
                   ELSE s[i] = 0
    BY <1>1, <1>2, SharesFoot
  <2>2. D <= W => \A i \in 1 .. n - 1 : s[i] <= w[i]
    BY <1>1, <1>2, SharesFoot
  <2>3. s[n] = D - S
    BY <1>1, <1>2, SharesFoot
  <2> HIDE DEF s, W, S
  <2> QED BY <1>2, <2>1, <2>2, <2>3
<1> HIDE DEF s
<1>4. S \in Int /\ V \in Int /\ W = w[n] + V
  <2>1. \A i \in 1 .. n - 1 : i \in 1 .. n
    BY <1>1
  <2>2. S \in Int /\ V \in Int
    BY <1>1, <2>1, UpTo, SumType
  <2>3. SumFunctionOnSet(w, (1 .. n - 1) \cup {n}) = w[n] + V
    <3>1. \A y \in (1 .. n - 1) \cup {n} : w[y] \in Int
      BY <1>1
    <3>2. IsFiniteSet(1 .. n - 1) /\ n \notin 1 .. n - 1
      BY <1>1, UpTo
    <3> QED BY <3>1, <3>2, SumAdd
  <2>4. DOMAIN w = (1 .. n - 1) \cup {n}
    BY <1>1, <1>2, UpTo
  <2>5. W = SumFunctionOnSet(w, (1 .. n - 1) \cup {n})
    BY <2>4 DEF Total
  <2> QED BY <2>2, <2>3, <2>5
<1>5. \A i \in 1 .. n - 1 : a[i].net >= 0
  <2>1. \A i \in 1 .. n - 1 : i \in 1 .. n
    BY <1>1
  <2> QED BY <1>1, <1>3, <2>1
<1>6. CASE W = 0
  <2>1. S = 0
    <3>1. IsFiniteSet(1 .. n - 1)
      BY <1>1, UpTo
    <3>2. \A i \in 1 .. n - 1 : s[i] = 0
      BY <1>3, <1>6
    <3> QED BY <3>1, <3>2, SumOfZeros
  <2>2. n \in 1 .. n
    BY <1>1
  <2>3. a[n].net = w[n] - D /\ w[n] \in Nat
    BY <1>1, <1>2, <1>3, <2>1, <2>2
  <2> QED BY <1>1, <1>2, <1>5, <1>6, <2>3 DEF a, n, w
<1>7. CASE W > 0
  <2> DEFINE f == [i \in 1 .. n - 1 |-> (2 * W) * s[i]]
             g == [i \in 1 .. n - 1 |-> (2 * D) * w[i]]
             k == [i \in 1 .. n - 1 |-> -W]
             h == [i \in 1 .. n - 1 |-> (2 * D) * w[i] + (-W)]
             sum(e) == SumFunctionOnSet(e, 1 .. n - 1)
  <2>1. \A i \in 1 .. n - 1 : s[i] \in Int /\ w[i] \in Int
    BY <1>1
  <2>2. ASSUME NEW i \in 1 .. n - 1
        PROVE  /\ f[i] \in Int /\ g[i] \in Int /\ k[i] = -W /\ k[i] \in Int /\ h[i] = g[i] + k[i]
               /\ f[i] = (2 * W) * s[i] /\ g[i] = (2 * D) * w[i] /\ h[i] \in Int
               /\ f[i] = 2 * (W * s[i]) /\ g[i] = 2 * (D * w[i])
               /\ W * s[i] \in Int /\ D * w[i] \in Int
    <3> HIDE DEF f, g, h, k, W
    <3>1. W \in Int /\ D \in Int /\ s[i] \in Int /\ w[i] \in Int
      <4>1. W \in Int /\ D \in Int
        BY <1>2
      <4>2. s[i] \in Int /\ w[i] \in Int
        BY <2>1
      <4> QED BY <4>1, <4>2
    <3>2. /\ W * s[i] \in Int /\ (2 * W) * s[i] = 2 * (W * s[i])
          /\ D * w[i] \in Int /\ (2 * D) * w[i] = 2 * (D * w[i])
      BY <3>1, Doubled
    <3>3. f[i] = (2 * W) * s[i] /\ g[i] = (2 * D) * w[i] /\ k[i] = -W /\ h[i] = g[i] + k[i]
      BY DEF f, g, h, k
    <3> QED BY <3>1, <3>2, <3>3
  <2>3. \A i \in 1 .. n - 1 : h[i] <= f[i]
    <3>1. ASSUME NEW i \in 1 .. n - 1 PROVE h[i] <= f[i]
      <4>1. 2 * (D * w[i]) - W <= 2 * (W * s[i])
        BY <1>3, <1>7
      <4> HIDE DEF f, g, h, k
      <4> QED BY <1>2, <2>2, <4>1
    <3> QED BY <3>1
  <2> HIDE DEF f, g, h, k
  <2>4. IsFiniteSet(1 .. n - 1) /\ Cardinality(1 .. n - 1) = n - 1 /\ -W \in Int /\ 2 * W \in Int /\ 2 * D \in Int
    BY <1>1, <1>2, UpTo
  <2>5. sum(f) = (2 * W) * S
    BY <2>1, <2>2, <2>4, SumScale
  <2>6. sum(g) = (2 * D) * V
    BY <2>1, <2>2, <2>4, SumScale
  <2>7. sum(k) = (-W) * (n - 1)
    BY <2>2, <2>4, SumOfSame
  <2>8. sum(h) = sum(g) + sum(k)
    <3>1. \A i \in 1 .. n - 1 : g[i] \in Int /\ k[i] \in Int /\ h[i] = g[i] + k[i]
      BY <2>2
    <3> QED BY <2>4, <3>1, SumPlus
  <2>9. sum(h) <= sum(f)
    BY <2>2, <2>3, <2>4, SumOrdered
  <2>10. (2 * D) * V + (-W) * (n - 1) <= (2 * W) * S
    BY <2>5, <2>6, <2>7, <2>8, <2>9
  <2>11. a[n].net = w[n] - (D - S) /\ w[n] \in Nat
    <3>1. n \in 1 .. n
      BY <1>1
    <3> QED BY <1>1, <1>3, <3>1
  <2> DEFINE x == w[n]
             net == a[n].net
  <2>12. ASSUME net <= -n PROVE FALSE
    <3>0. x \in Nat /\ net = x - (D - S) /\ V = W - x /\ D \in Int /\ S \in Int /\ W \in Nat \ {0}
      BY <1>2, <1>4, <1>7, <2>11
    <3> HIDE DEF x, net, S, V, W
    <3>1. (2 * D) * V = 2 * (W * D) - 2 * (x * D)
      BY <3>0
    <3>2. x * D <= x * W
      BY <1>2, <3>0, TimesGrows
    <3>3. W * net = x * W - W * D + W * S
      BY <3>0
    <3>4. (2 * W) * S = 2 * (W * S) /\ (-W) * (n - 1) = W - W * n
      BY <1>1, <3>0
    <3>5. W * net <= W * (-n) /\ W * (-n) = -(W * n)
      BY <1>1, <2>12, <3>0, TimesGrows
    <3>6. W * 1 <= W * n /\ W * 1 = W
      BY <1>1, <3>0, TimesGrows
    <3>7. W * D \in Int /\ x * D \in Int /\ x * W \in Int /\ W * S \in Int /\ W * n \in Int
      BY <1>1, <3>0
    <3> DEFINE p1 == W * D  p2 == x * D  p3 == x * W  p4 == W * S  p5 == W * n
    <3>8. /\ 2 * p1 - 2 * p2 + (W - p5) <= 2 * p4
          /\ p2 <= p3 /\ p3 - p1 + p4 <= -p5 /\ W <= p5
      BY <2>10, <3>1, <3>2, <3>3, <3>4, <3>5, <3>6
    <3> HIDE DEF p1, p2, p3, p4, p5
    <3>9. p1 \in Int /\ p2 \in Int /\ p3 \in Int /\ p4 \in Int /\ p5 \in Int /\ W \in Nat \ {0}
      BY <3>0, <3>7 DEF p1, p2, p3, p4, p5
    <3> QED BY <3>8, <3>9
  <2>13. net \in Int
    BY <1>2, <1>4, <2>11
  <2> HIDE DEF net
  <2>14. net > -n
    BY <1>1, <2>12, <2>13
  <2> QED BY <1>5, <1>7, <2>14 DEF net, a, n, w
<1> QED BY <1>2, <1>6, <1>7

\* What the last line gives back, the lines before it have kept.
LEMMA PurchaseTotalIsNat ==
  ASSUME NEW lines \in Forms, NEW header \in Headers
  PROVE  LET a == PurchaseAmounts(lines, header)
         IN  Total(Bases(a)) + Total(Taxes(a)) \in Nat
<1> DEFINE a == PurchaseAmounts(lines, header)
           D == BillDiscount(lines, header)
           w == Weights(lines)
           s == Allocate(D, w)
           n == Len(lines)
           W == Total(w)
           T == [i \in 1 .. n |-> a[i].base + a[i].tax]
<1>1. /\ n \in Nat \ {0} /\ DOMAIN a = 1 .. n
      /\ \A i \in 1 .. n :
           /\ s[i] \in Int /\ w[i] \in Nat /\ a[i].net = w[i] - s[i]
           /\ a[i].base \in Int /\ a[i].tax \in Int
           /\ a[i].net >= 0 => a[i].base >= 0 /\ a[i].tax >= 0
           /\ a[i].net >= 1 => a[i].base + a[i].tax >= 1
           /\ a[i].net <= 0 => a[i].base + a[i].tax >= 2 * a[i].net
  BY PurchaseIsSplit
<1>2. w = [i \in 1 .. n |-> w[i]] /\ D \in Int /\ D <= W /\ W \in Nat
  BY WeightsAreNat, BillDiscountWithin
<1>3. (\A i \in 1 .. n - 1 : a[i].net >= 0) /\ (W = 0 => a[n].net >= 0)
  BY LastLineBounded
<1>4. Total(Nets(a)) = W - D /\ Total(Nets(a)) \in Int /\ Total(Bases(a)) \in Int /\ Total(Taxes(a)) \in Int
  BY PurchaseFoots
<1> HIDE DEF a, w, n, D
<1>5. \A i \in 1 .. n - 1 : W > 0 => 2 * (D * w[i]) - W <= 2 * (W * s[i])
  BY <1>1, <1>2, SharesFoot
<1> HIDE DEF s
<1>6. IsFiniteSet(1 .. n) /\ 1 .. n = (1 .. n - 1) \cup {n}
  BY <1>1, UpTo
<1>7. \A i \in 1 .. n : T[i] = a[i].base + a[i].tax /\ T[i] \in Int
  BY <1>1
<1> HIDE DEF T
<1>8. SumFunctionOnSet(T, 1 .. n) = Total(Bases(a)) + Total(Taxes(a))
  <2>1. \A i \in 1 .. n : Bases(a)[i] = a[i].base /\ Taxes(a)[i] = a[i].tax
    BY <1>1, ColumnsAreRead
  <2>2. \A i \in 1 .. n : Bases(a)[i] \in Int /\ Taxes(a)[i] \in Int /\ T[i] = Bases(a)[i] + Taxes(a)[i]
    BY <1>1, <1>7, <2>1
  <2>3. SumFunctionOnSet(T, 1 .. n) = SumFunctionOnSet(Bases(a), 1 .. n) + SumFunctionOnSet(Taxes(a), 1 .. n)
    BY <1>6, <2>2, SumPlus
  <2>4. DOMAIN Bases(a) = 1 .. n /\ DOMAIN Taxes(a) = 1 .. n
    BY <1>1, ColumnsAreRead
  <2> QED BY <2>3, <2>4 DEF Total
<1>9. CASE \A i \in 1 .. n : a[i].net >= 0
  <2>1. \A i \in 1 .. n : T[i] \in Nat
    BY <1>1, <1>7, <1>9
  <2> QED BY <1>6, <1>8, <2>1, SumNat DEF a
<1>10. CASE ~(\A i \in 1 .. n : a[i].net >= 0)
  <2>1. a[n].net < 0 /\ W > 0 /\ n \in 1 .. n
    <3>1. n \in 1 .. n
      BY <1>1
    <3>2. w[n] \in Nat /\ s[n] \in Int /\ a[n].net = w[n] - s[n]
      BY <1>1, <3>1
    <3>3. a[n].net \in Int
      BY <3>2
    <3>4. \E i \in 1 .. n : ~(a[i].net >= 0)
      BY <1>10
    <3>5. ~(a[n].net >= 0)
      BY <1>3, <1>6, <3>4
    <3> QED BY <1>2, <1>3, <3>1, <3>3, <3>5
  <2> DEFINE k == W - D
             nets == Nets(a)
             f == [i \in 1 .. n |-> W * T[i]]
             g == [i \in 1 .. n |-> (2 * W) * nets[i]]
             h == [i \in 1 .. n |-> (-2 * k) * w[i]]
             e == [i \in 1 .. n |-> g[i] + h[i]]
             sum(x) == SumFunctionOnSet(x, 1 .. n)
  <2>2. k \in Nat /\ W \in Nat \ {0} /\ DOMAIN nets = 1 .. n /\ DOMAIN w = 1 .. n
    BY <1>1, <1>2, <2>1, ColumnsAreRead
  <2>3. ASSUME NEW i \in 1 .. n
        PROVE  /\ f[i] \in Int /\ g[i] \in Int /\ h[i] \in Int /\ e[i] \in Int
               /\ nets[i] \in Int /\ w[i] \in Int
               /\ f[i] = W * T[i] /\ g[i] = (2 * W) * nets[i] /\ h[i] = (-2 * k) * w[i] /\ e[i] = g[i] + h[i]
               /\ e[i] <= f[i]
    <3>1. f[i] = W * T[i] /\ g[i] = (2 * W) * nets[i] /\ h[i] = (-2 * k) * w[i] /\ e[i] = g[i] + h[i]
      OBVIOUS
    <3>2. nets[i] = a[i].net
      BY <1>1, ColumnsAreRead
    <3> DEFINE t == T[i]
               x == w[i]
               y == s[i]
               net == a[i].net
    <3>3. /\ x \in Nat /\ y \in Int /\ net = x - y /\ t \in Int /\ net \in Int
          /\ net >= 0 => t >= 0
          /\ net >= 1 => t >= 1
          /\ net <= 0 => t >= 2 * net
      <4>1. x \in Nat /\ y \in Int /\ net = x - y /\ t \in Int
        BY <1>1, <1>7
      <4>2. t = a[i].base + a[i].tax /\ a[i].base \in Int /\ a[i].tax \in Int
        BY <1>1, <1>7
      <4>3. net >= 0 => a[i].base >= 0 /\ a[i].tax >= 0
        BY <1>1
      <4>4. net >= 1 => a[i].base + a[i].tax >= 1
        BY <1>1
      <4>5. net <= 0 => a[i].base + a[i].tax >= 2 * net
        BY <1>1
      <4>6. net \in Int
        BY <4>1
      <4> DEFINE u == a[i].base
                 v == a[i].tax
      <4> HIDE DEF x, y, net, t, u, v
      <4> QED BY <4>1, <4>2, <4>3, <4>4, <4>5, <4>6 DEF u, v
    <3>4. net < 0 \/ 2 * (D * x) - W <= 2 * (W * y)
      <4>1. CASE i = n
        BY <2>1, <4>1
      <4>2. CASE i # n
        <5>1. i \in 1 .. n - 1
          BY <1>1, <4>2
        <5> QED BY <1>5, <2>1, <5>1
      <4> QED BY <4>1, <4>2
    <3> HIDE DEF f, g, h, e, nets, x, y, net, t
    <3>5. /\ W * t \in Int /\ W * net \in Int /\ k * x \in Nat /\ W * x \in Int /\ W * y \in Int /\ D * x \in Int
          /\ (2 * W) * net = 2 * (W * net) /\ (-2 * k) * x = -(2 * (k * x))
          /\ W * net = W * x - W * y /\ k * x = W * x - D * x
      <4>1. W \in Int /\ D \in Int /\ t \in Int /\ x \in Int /\ y \in Int /\ net = x - y
        BY <1>2, <3>3
      <4>2. /\ W * t \in Int /\ W * net \in Int /\ W * x \in Int /\ W * y \in Int /\ D * x \in Int
            /\ (2 * W) * net = 2 * (W * net) /\ W * net = W * x - W * y
        BY <4>1
      <4>3. k * x \in Nat /\ (-2 * k) * x = -(2 * (k * x))
        <5> HIDE DEF k
        <5> QED BY <2>2, <3>3
      <4>4. k * x = W * x - D * x
        BY <4>1
      <4> QED BY <4>2, <4>3, <4>4
    <3>6. 2 * (W * net) - 2 * (k * x) <= W * t
      <4>1. CASE net < 0
        <5>1. W * (2 * net) <= W * t
          BY <1>2, <3>3, <4>1, TimesGrows
        <5>2. W * (2 * net) = 2 * (W * net)
          BY <1>2, <3>3
        <5> HIDE DEF W, k
        <5> QED BY <3>5, <5>1, <5>2
      <4>2. CASE net = 0
        <5>1. W * 0 <= W * t /\ W * 0 = 0
          BY <1>2, <3>3, <4>2, TimesGrows
        <5>2. W * net = 0
          BY <4>2, <5>1
        <5> HIDE DEF W, k
        <5> QED BY <3>5, <5>1, <5>2
      <4>3. CASE net >= 1
        <5>1. W * 1 <= W * t /\ W * 1 = W
          BY <1>2, <3>3, <4>3, TimesGrows
        <5>2. 2 * (D * x) - W <= 2 * (W * y)
          BY <3>3, <3>4, <4>3
        <5> DEFINE p1 == W * t  p2 == W * net  p3 == k * x  p4 == W * x  p5 == W * y  p6 == D * x
        <5>3. /\ p1 \in Int /\ p2 \in Int /\ p3 \in Int /\ p4 \in Int /\ p5 \in Int /\ p6 \in Int
              /\ p2 = p4 - p5 /\ p3 = p4 - p6 /\ W <= p1 /\ 2 * p6 - W <= 2 * p5 /\ W \in Int
          BY <1>2, <3>5, <5>1, <5>2
        <5> HIDE DEF p1, p2, p3, p4, p5, p6
        <5>4. 2 * p2 - 2 * p3 <= p1
          BY <5>3
        <5> QED BY <5>4 DEF p1, p2, p3
      <4> QED BY <3>3, <4>1, <4>2, <4>3
    <3>7. /\ f[i] = W * t /\ g[i] = 2 * (W * net) /\ h[i] = -(2 * (k * x)) /\ e[i] = g[i] + h[i]
      BY <3>1, <3>2, <3>5 DEF t, net, x
    <3>8. f[i] \in Int /\ g[i] \in Int /\ h[i] \in Int /\ e[i] \in Int /\ e[i] <= f[i]
      <4> DEFINE p1 == W * t  p2 == W * net  p3 == k * x
      <4>1. p1 \in Int /\ p2 \in Int /\ p3 \in Int /\ 2 * p2 - 2 * p3 <= p1
        BY <3>5, <3>6
      <4>2. f[i] = p1 /\ g[i] = 2 * p2 /\ h[i] = -(2 * p3) /\ e[i] = g[i] + h[i]
        BY <3>7
      <4> HIDE DEF p1, p2, p3
      <4> QED BY <4>1, <4>2
    <3>9. nets[i] \in Int /\ w[i] \in Int
      BY <3>2, <3>3 DEF net, x
    <3> QED BY <3>1, <3>8, <3>9
  <2> HIDE DEF f, g, h, e, nets
  <2>4. sum(f) = W * sum(T)
    <3>1. \A i \in 1 .. n : T[i] \in Int /\ f[i] = W * T[i]
      BY <1>7, <2>3
    <3>2. W \in Int
      BY <1>2
    <3> QED BY <1>6, <3>1, <3>2, SumScale
  <2>5. sum(g) = (2 * W) * sum(nets)
    <3>1. 2 * W \in Int
      BY <1>2
    <3> QED BY <1>6, <2>3, <3>1, SumScale
  <2>6. sum(h) = (-2 * k) * sum(w)
    <3>1. -2 * k \in Int
      BY <2>2
    <3> QED BY <1>6, <2>3, <3>1, SumScale
  <2>7. sum(e) = sum(g) + sum(h)
    <3>1. \A i \in 1 .. n : g[i] \in Int /\ h[i] \in Int /\ e[i] = g[i] + h[i]
      BY <2>3
    <3> QED BY <1>6, <3>1, SumPlus
  <2>8. sum(e) <= sum(f)
    BY <1>6, <2>3, SumOrdered
  <2>9. sum(nets) = k /\ sum(w) = W
    BY <1>4, <2>2 DEF Total, nets
  <2>10. sum(T) \in Int
    BY <1>6, <1>7, SumType
  <2> DEFINE z == sum(T)
  <2>11. (2 * W) * k + (-2 * k) * W <= W * z
    BY <2>4, <2>5, <2>6, <2>7, <2>8, <2>9
  <2>12. z \in Nat
    <3> HIDE DEF z, W, k
    <3>1. (2 * W) * k + (-2 * k) * W = 0
      BY <2>2
    <3>2. ASSUME z <= -1 PROVE FALSE
      <4>1. W \in Nat \ {0} /\ z \in Int
        BY <2>2, <2>10 DEF z
      <4>2. W * z <= W * (-1)
        BY <3>2, <4>1, TimesGrows
      <4>3. W * (-1) = -W /\ W * z \in Int
        BY <4>1
      <4>4. 0 <= W * z
        BY <2>11, <3>1
      <4> DEFINE p == W * z
      <4> HIDE DEF p
      <4> QED BY <4>1, <4>2, <4>3, <4>4 DEF p
    <3> QED BY <2>10, <3>2 DEF z
  <2> QED BY <1>8, <2>12 DEF a
<1> QED BY <1>9, <1>10

-----------------------------------------------------------------------------
(* Sales: what the amounts of an order, an invoice or a note are like.     *)

Shares(a) == [i \in DOMAIN a |-> a[i].share]
SalesSheet(lines, a) ==
  /\ IsFiniteSet(DOMAIN lines) /\ DOMAIN a = DOMAIN lines
  /\ \A i \in DOMAIN lines :
       /\ lines[i] \in FormLine
       /\ a[i].gross = Gross(lines[i]) /\ a[i].off = LineDiscount(lines[i])
       /\ a[i].gross \in Int /\ a[i].off \in Int /\ a[i].share \in Int
       /\ a[i].gross - a[i].off \in Nat
       /\ a[i].net \in Nat /\ a[i].base \in Nat /\ a[i].tax \in Nat
       /\ a[i].net = IF a[i].gross - a[i].off - a[i].share < 0 THEN 0
                     ELSE a[i].gross - a[i].off - a[i].share
       /\ ~lines[i].inclusive => a[i].base = a[i].net
                                 /\ a[i].tax = Nearest(a[i].net * lines[i].tax, 100)

LEMMA SalesLineIsFair ==
  ASSUME NEW l \in FormLine, NEW share \in Int
  PROVE  LET a == SalesLine(l, share)
         IN  /\ a.gross = Gross(l) /\ a.off = LineDiscount(l) /\ a.share = share
             /\ a.gross \in Int /\ a.off \in Int /\ a.gross - a.off \in Nat
             /\ a.net \in Nat /\ a.base \in Nat /\ a.tax \in Nat
             /\ a.net = IF a.gross - a.off - a.share < 0 THEN 0 ELSE a.gross - a.off - a.share
             /\ ~l.inclusive => a.base = a.net /\ a.tax = Nearest(a.net * l.tax, 100)
<1> DEFINE left == Gross(l) - LineDiscount(l) - share
           net == IF left < 0 THEN 0 ELSE left
           a == Amounts(l, share, net)
<1>1. SalesLine(l, share) = a
  BY DEF SalesLine
<1>2. Gross(l) \in Nat /\ LineDiscount(l) \in Int /\ Gross(l) - LineDiscount(l) \in Nat
  BY LineWeighs
<1>3. net \in Nat
  BY <1>2
<1>4. /\ a.gross = Gross(l) /\ a.off = LineDiscount(l) /\ a.share = share /\ a.net = net
      /\ a.base \in Int /\ a.tax \in Int
      /\ net >= 0 => a.base >= 0 /\ a.tax >= 0
      /\ ~l.inclusive => a.base = net /\ a.tax = Nearest(net * l.tax, 100)
  <2> HIDE DEF net
  <2> QED BY <1>3, AmountsAreFair
<1> HIDE DEF a
<1>5. a.base \in Nat /\ a.tax \in Nat
  BY <1>3, <1>4
<1>6. net = IF a.gross - a.off - a.share < 0 THEN 0 ELSE a.gross - a.off - a.share
  BY <1>4
<1> HIDE DEF net
<1> QED BY <1>1, <1>2, <1>3, <1>4, <1>5, <1>6

LEMMA SheetFromShares ==
  ASSUME NEW lines, IsFiniteSet(DOMAIN lines), \A i \in DOMAIN lines : lines[i] \in FormLine,
         NEW s, \A i \in DOMAIN lines : s[i] \in Int,
         NEW a, a = [i \in DOMAIN lines |-> SalesLine(lines[i], s[i])]
  PROVE  SalesSheet(lines, a) /\ DOMAIN a = DOMAIN lines /\ \A i \in DOMAIN lines : a[i].share = s[i]
<1>1. ASSUME NEW i \in DOMAIN lines
      PROVE  /\ a[i].gross = Gross(lines[i]) /\ a[i].off = LineDiscount(lines[i]) /\ a[i].share = s[i]
             /\ a[i].gross \in Int /\ a[i].off \in Int /\ a[i].gross - a[i].off \in Nat
             /\ a[i].net \in Nat /\ a[i].base \in Nat /\ a[i].tax \in Nat
             /\ a[i].net = IF a[i].gross - a[i].off - a[i].share < 0 THEN 0
                           ELSE a[i].gross - a[i].off - a[i].share
             /\ ~lines[i].inclusive => a[i].base = a[i].net
                                       /\ a[i].tax = Nearest(a[i].net * lines[i].tax, 100)
  <2>1. lines[i] \in FormLine /\ s[i] \in Int /\ a[i] = SalesLine(lines[i], s[i])
    OBVIOUS
  <2> QED BY <2>1, SalesLineIsFair
<1> QED BY <1>1 DEF SalesSheet

\* An invoice, a credit note: no header discount, and no line bears any.
LEMMA UndiscountedIsSheet ==
  ASSUME NEW lines, IsFiniteSet(DOMAIN lines), \A i \in DOMAIN lines : lines[i] \in FormLine
  PROVE  LET a == SalesAmounts(lines, NoDiscount)
         IN  SalesSheet(lines, a) /\ DOMAIN a = DOMAIN lines /\ \A i \in DOMAIN lines : a[i].share = 0
<1> DEFINE s == [i \in DOMAIN lines |-> 0]
           a == SalesAmounts(lines, NoDiscount)
<1>1. \A whole : SalesDiscount(NoDiscount, whole) = 0
  BY DEF SalesDiscount, Discount, NoDiscount
<1>2. a = [i \in DOMAIN lines |-> SalesLine(lines[i], s[i])]
  BY <1>1 DEF SalesAmounts
<1>3. \A i \in DOMAIN lines : s[i] = 0 /\ s[i] \in Int
  OBVIOUS
<1> HIDE DEF a, s
<1> QED BY <1>2, <1>3, SheetFromShares DEF a

\* An order: its lines bear the header discount, whole.
LEMMA OrderIsSheet ==
  ASSUME NEW lines \in Forms, NEW header \in Headers
  PROVE  LET a == SalesAmounts(lines, header)
         IN  SalesSheet(lines, a) /\ Total(Shares(a)) = SalesDiscount(header, Total(Grosses(a)))
<1> DEFINE a == SalesAmounts(lines, header)
           n == Len(lines)
           w == [i \in DOMAIN lines |-> Gross(lines[i])]
           W == Total(w)
           D == SalesDiscount(header, W)
           s == IF D = 0 THEN [i \in DOMAIN lines |-> 0] ELSE Allocate(D, w)
<1>1. n \in Nat \ {0} /\ DOMAIN lines = 1 .. n /\ \A i \in 1 .. n : lines[i] \in FormLine
  BY FormIsTyped
<1> HIDE DEF n
<1>2. w = [i \in 1 .. n |-> w[i]] /\ \A i \in 1 .. n : w[i] \in Nat /\ w[i] = Gross(lines[i])
  BY <1>1, LineWeighs
<1>3. a = [i \in DOMAIN lines |-> SalesLine(lines[i], s[i])]
  BY DEF SalesAmounts
<1> HIDE DEF a, w
<1>4. IsFiniteSet(1 .. n) /\ W \in Nat
  BY <1>1, <1>2, UpTo, SumNat DEF Total
<1> HIDE DEF W
<1>5. D \in Int
  <2>1. Discount(header, W) \in Int
    BY <1>4, BillingAssumption, DiscountIsInt
  <2> QED BY <2>1 DEF SalesDiscount
<1> HIDE DEF D
<1>6. DOMAIN s = 1 .. n /\ (\A i \in 1 .. n : s[i] \in Int) /\ SumFunctionOnSet(s, 1 .. n) = D
  <2>1. CASE D = 0
    <3>1. s = [i \in 1 .. n |-> 0]
      BY <1>1, <2>1
    <3> HIDE DEF s
    <3>2. \A i \in 1 .. n : s[i] = 0
      BY <3>1
    <3>3. SumFunctionOnSet(s, 1 .. n) = 0
      BY <1>4, <3>2, SumOfZeros
    <3> QED BY <2>1, <3>1, <3>2, <3>3
  <2>2. CASE D # 0
    <3>1. s = Allocate(D, w)
      BY <2>2
    <3> HIDE DEF s
    <3>2. \A i \in 1 .. n : w[i] \in Nat
      BY <1>2
    <3>3. w = [i \in 1 .. n |-> w[i]]
      BY <1>2
    <3> DEFINE t == Allocate(D, w)
    <3>4. t = [i \in 1 .. n |-> t[i]] /\ (\A i \in 1 .. n : t[i] \in Int) /\ Total(t) = D
      BY <1>1, <1>5, <3>2, <3>3, SharesFoot
    <3>5. s = t
      BY <3>1
    <3> HIDE DEF t
    <3> QED BY <3>4, <3>5 DEF Total
  <2> QED BY <2>1, <2>2
<1> HIDE DEF s
<1>7. SalesSheet(lines, a) /\ DOMAIN a = 1 .. n /\ \A i \in 1 .. n : a[i].share = s[i]
  <2>1. IsFiniteSet(DOMAIN lines) /\ (\A i \in DOMAIN lines : lines[i] \in FormLine)
        /\ (\A i \in DOMAIN lines : s[i] \in Int)
    BY <1>1, <1>4, <1>6
  <2>2. SalesSheet(lines, a) /\ DOMAIN a = DOMAIN lines /\ \A i \in DOMAIN lines : a[i].share = s[i]
    BY <1>3, <2>1, SheetFromShares
  <2> QED BY <1>1, <2>2
<1>8. Total(Shares(a)) = D
  <2>1. DOMAIN Shares(a) = 1 .. n /\ \A i \in 1 .. n : Shares(a)[i] = s[i]
    BY <1>7 DEF Shares
  <2> QED BY <1>4, <1>6, <2>1, SumAgrees DEF Total
<1>9. Total(Grosses(a)) = W
  <2>1. DOMAIN Grosses(a) = 1 .. n /\ \A i \in 1 .. n : Grosses(a)[i] = w[i]
    BY <1>1, <1>2, <1>7 DEF Grosses, SalesSheet
  <2>2. DOMAIN w = 1 .. n
    BY <1>2
  <2> QED BY <1>4, <2>1, <2>2, SumAgrees DEF Total, W
<1> QED BY <1>7, <1>8, <1>9 DEF a, D

LEMMA SheetFoots ==
  ASSUME NEW lines, NEW a, SalesSheet(lines, a)
  PROVE  /\ \A f \in {Nets(a), Bases(a), Taxes(a), Grosses(a), Offs(a), Shares(a)} :
              DOMAIN f = DOMAIN a /\ (\A i \in DOMAIN a : f[i] \in Int) /\ Total(f) \in Int
         /\ Total(Bases(a)) \in Nat /\ Total(Taxes(a)) \in Nat
         /\ Total(Nets(a)) >= Total(Grosses(a)) - Total(Offs(a)) - Total(Shares(a))
         /\ (\A i \in DOMAIN a : ~(a[i].gross - a[i].off < a[i].share)) =>
              Total(Nets(a)) = Total(Grosses(a)) - Total(Offs(a)) - Total(Shares(a))
<1> DEFINE S == DOMAIN a
<1>1. IsFiniteSet(S) /\ DOMAIN lines = S
  BY DEF SalesSheet
<1>2. \A i \in S : /\ a[i].gross \in Int /\ a[i].off \in Int /\ a[i].share \in Int
                   /\ a[i].net \in Nat /\ a[i].base \in Nat /\ a[i].tax \in Nat
                   /\ a[i].net = IF a[i].gross - a[i].off - a[i].share < 0 THEN 0
                                 ELSE a[i].gross - a[i].off - a[i].share
  BY DEF SalesSheet
<1> DEFINE nets == Nets(a)
           bases == Bases(a)
           taxes == Taxes(a)
           grosses == Grosses(a)
           offs == Offs(a)
           shares == Shares(a)
<1>3. /\ DOMAIN nets = S /\ DOMAIN bases = S /\ DOMAIN taxes = S
      /\ DOMAIN grosses = S /\ DOMAIN offs = S /\ DOMAIN shares = S
  BY DEF Nets, Bases, Taxes, Grosses, Offs, Shares
<1>4. \A i \in S : /\ nets[i] = a[i].net /\ bases[i] = a[i].base /\ taxes[i] = a[i].tax
                   /\ grosses[i] = a[i].gross /\ offs[i] = a[i].off /\ shares[i] = a[i].share
  BY DEF Nets, Bases, Taxes, Grosses, Offs, Shares
<1>5. \A i \in S : /\ nets[i] \in Nat /\ bases[i] \in Nat /\ taxes[i] \in Nat
                   /\ grosses[i] \in Int /\ offs[i] \in Int /\ shares[i] \in Int
  BY <1>2, <1>4
<1> DEFINE both == [i \in S |-> offs[i] + shares[i]]
           left == [i \in S |-> grosses[i] - both[i]]
<1>6. ASSUME NEW i \in S
      PROVE  /\ both[i] = offs[i] + shares[i] /\ left[i] = grosses[i] - both[i]
             /\ both[i] \in Int /\ left[i] \in Int
             /\ grosses[i] = left[i] + both[i]
             /\ left[i] <= nets[i]
             /\ ~(a[i].gross - a[i].off < a[i].share) => nets[i] = left[i]
  <2>1. both[i] = offs[i] + shares[i] /\ left[i] = grosses[i] - both[i]
    OBVIOUS
  <2>2. /\ nets[i] = a[i].net /\ grosses[i] = a[i].gross /\ offs[i] = a[i].off /\ shares[i] = a[i].share
        /\ a[i].net = IF a[i].gross - a[i].off - a[i].share < 0 THEN 0
                      ELSE a[i].gross - a[i].off - a[i].share
    BY <1>2, <1>4
  <2>3. nets[i] \in Nat /\ grosses[i] \in Int /\ offs[i] \in Int /\ shares[i] \in Int
    BY <1>5
  <2> HIDE DEF both, left, nets, grosses, offs, shares
  <2> QED BY <2>1, <2>2, <2>3
<1> HIDE DEF nets, bases, taxes, grosses, offs, shares, both, left, S
<1> DEFINE sum(f) == SumFunctionOnSet(f, S)
<1>7. /\ sum(nets) \in Nat /\ sum(bases) \in Nat /\ sum(taxes) \in Nat
  BY <1>1, <1>5, SumNat
<1>8. sum(grosses) \in Int /\ sum(offs) \in Int /\ sum(shares) \in Int /\ sum(left) \in Int
  BY <1>1, <1>5, <1>6, SumType
<1>9. sum(both) = sum(offs) + sum(shares)
  BY <1>1, <1>5, <1>6, SumPlus
<1>10. sum(grosses) = sum(left) + sum(both)
  <2>1. \A i \in S : left[i] \in Int /\ both[i] \in Int /\ grosses[i] = left[i] + both[i]
    BY <1>6
  <2> QED BY <1>1, <2>1, SumPlus
<1>11. sum(left) <= sum(nets)
  <2>1. \A i \in S : left[i] \in Int /\ nets[i] \in Int /\ left[i] <= nets[i]
    BY <1>5, <1>6
  <2> QED BY <1>1, <2>1, SumOrdered
<1>12. (\A i \in S : ~(a[i].gross - a[i].off < a[i].share)) => sum(nets) = sum(left)
  <2>1. (\A i \in S : ~(a[i].gross - a[i].off < a[i].share)) => \A i \in S : nets[i] = left[i]
    BY <1>6
  <2> QED BY <1>1, <2>1, SumAgrees
<1>13. /\ Total(nets) = sum(nets) /\ Total(bases) = sum(bases) /\ Total(taxes) = sum(taxes)
       /\ Total(grosses) = sum(grosses) /\ Total(offs) = sum(offs) /\ Total(shares) = sum(shares)
  BY <1>3 DEF Total
<1> HIDE DEF sum
<1>14. ASSUME NEW f \in {nets, bases, taxes, grosses, offs, shares}
       PROVE  DOMAIN f = S /\ (\A i \in S : f[i] \in Int) /\ Total(f) \in Int
  <2>1. DOMAIN f = S
    BY <1>3, <1>14
  <2>2. \A i \in S : f[i] \in Int
    BY <1>5, <1>14
  <2>3. Total(f) \in Int
    BY <1>7, <1>8, <1>13, <1>14
  <2> QED BY <2>1, <2>2, <2>3
<1>15. /\ Total(bases) \in Nat /\ Total(taxes) \in Nat
       /\ Total(nets) >= Total(grosses) - Total(offs) - Total(shares)
       /\ (\A i \in S : ~(a[i].gross - a[i].off < a[i].share)) =>
            Total(nets) = Total(grosses) - Total(offs) - Total(shares)
  BY <1>7, <1>8, <1>9, <1>10, <1>11, <1>12, <1>13
<1> QED BY <1>14, <1>15 DEF nets, bases, taxes, grosses, offs, shares, S

\* To the cent, or not at all; and what is owed stays what is owed.
LEMMA RoundingIsFair ==
  ASSUME NEW raw \in Nat
  PROVE  RoundingOf(raw) \in Int /\ raw + RoundingOf(raw) \in Nat
<1> DEFINE k == Nearest(raw, 100)
<1>1. k \in Int /\ k >= 0
  <2>1. 100 \in Nat \ {0} /\ 0 \in Int /\ raw >= 0 * 100 /\ raw \in Int
    OBVIOUS
  <2> QED BY <2>1, NearestHundred, NearestWithin
<1>2. RoundingOf(raw) \in {k * 100 - raw, 0}
  BY DEF RoundingOf, Cent
<1> HIDE DEF k
<1> QED BY <1>1, <1>2

LEMMA SalesHeader ==
  ASSUME NEW lines, NEW a, SalesSheet(lines, a), NEW rate
  PROVE  LET h == SalesTotals(a, rate)
         IN  /\ h.subtotal = Total(Grosses(a)) /\ h.off = Total(Offs(a)) /\ h.discount = Total(Shares(a))
             /\ h.base = Total(Bases(a)) /\ h.tax = Total(Taxes(a))
             /\ h.rounding = RoundingOf(h.base + h.tax) /\ h.total = h.base + h.tax + h.rounding
             /\ h.rate = rate
             /\ h.base \in Nat /\ h.tax \in Nat /\ h.rounding \in Int /\ h.total \in Nat
<1> DEFINE h == SalesTotals(a, rate)
           raws == [i \in DOMAIN a |-> a[i].base + a[i].tax]
<1>1. h = [subtotal |-> Total(Grosses(a)), off |-> Total(Offs(a)), discount |-> Total(Shares(a)),
           base |-> Total(Bases(a)), tax |-> Total(Taxes(a)), rounding |-> RoundingOf(Total(raws)),
           total |-> Total(Bases(a)) + Total(Taxes(a)) + RoundingOf(Total(raws)), rate |-> rate]
  BY DEF SalesTotals, Header, Column, Grosses, Offs, Shares, Bases, Taxes
<1>2. /\ IsFiniteSet(DOMAIN a)
      /\ DOMAIN Bases(a) = DOMAIN a /\ \A i \in DOMAIN a : Bases(a)[i] \in Int
      /\ DOMAIN Taxes(a) = DOMAIN a /\ \A i \in DOMAIN a : Taxes(a)[i] \in Int
      /\ Total(Bases(a)) \in Nat /\ Total(Taxes(a)) \in Nat
  <2>1. IsFiniteSet(DOMAIN a)
    BY DEF SalesSheet
  <2> QED BY <2>1, SheetFoots
<1>3. DOMAIN raws = DOMAIN a /\ \A i \in DOMAIN a : raws[i] = Bases(a)[i] + Taxes(a)[i]
  BY DEF Bases, Taxes
<1> HIDE DEF raws, h
<1>4. SumFunctionOnSet(raws, DOMAIN a)
        = SumFunctionOnSet(Bases(a), DOMAIN a) + SumFunctionOnSet(Taxes(a), DOMAIN a)
  BY <1>2, <1>3, SumPlus
<1>5. Total(raws) = Total(Bases(a)) + Total(Taxes(a))
  BY <1>2, <1>3, <1>4 DEF Total
<1> DEFINE b == Total(Bases(a))
           t == Total(Taxes(a))
           raw == Total(raws)
<1>6. b \in Nat /\ t \in Nat /\ raw = b + t
  BY <1>2, <1>5
<1> HIDE DEF b, t, raw
<1>7. RoundingOf(raw) \in Int /\ raw + RoundingOf(raw) \in Nat
  BY <1>6, RoundingIsFair
<1>8. b + t + RoundingOf(raw) \in Nat
  BY <1>6, <1>7
<1>9. /\ h.subtotal = Total(Grosses(a)) /\ h.off = Total(Offs(a)) /\ h.discount = Total(Shares(a))
      /\ h.base = b /\ h.tax = t /\ h.rounding = RoundingOf(raw) /\ h.total = b + t + RoundingOf(raw)
      /\ h.rate = rate
  BY <1>1 DEF b, t, raw
<1>10. h.rounding = RoundingOf(h.base + h.tax) /\ h.total = h.base + h.tax + h.rounding
  BY <1>6, <1>9
<1> QED BY <1>6, <1>7, <1>8, <1>9, <1>10 DEF b, t, h

-----------------------------------------------------------------------------
(* Journals.                                                               *)

LEMMA InBaseBounds ==
  ASSUME NEW x \in Int, NEW rate \in Nat
  PROVE  /\ InBase(x, rate) \in Int
         /\ 2 * (x * rate) - RateScale <= 2 * (RateScale * InBase(x, rate))
         /\ 2 * (RateScale * InBase(x, rate)) <= 2 * (x * rate) + RateScale
         /\ rate = RateScale => InBase(x, rate) = x
<1>1. x * rate \in Int /\ RateScale \in Nat \ {0}
  BY PricingAssumption
<1>2. rate = RateScale => x * rate = x * RateScale
  OBVIOUS
<1> DEFINE n == x * rate
           R == RateScale
<1>3. n \in Int /\ R \in Nat \ {0} /\ (rate = R => n = x * R)
  BY <1>1, <1>2
<1> HIDE DEF n, R
<1>4. /\ Nearest(n, R) \in Int
      /\ 2 * n - R <= 2 * (R * Nearest(n, R)) /\ 2 * (R * Nearest(n, R)) <= 2 * n + R
  BY <1>3, NearestBounds
<1>5. n = x * R => Nearest(n, R) = x
  BY <1>3, NearestWithin
<1> QED BY <1>3, <1>4, <1>5 DEF InBase, n, R

\* A whole number that a quantum more than once over would overshoot.
LEMMA WholeWithin ==
  ASSUME NEW R \in Nat \ {0}, NEW x \in Int, NEW k \in Nat,
         2 * (R * x) <= 2 * (R * k) + R, -(2 * (R * k) + R) <= 2 * (R * x)
  PROVE  x \in -k .. k
<1>1. ASSUME x >= k + 1 PROVE FALSE
  <2>1. k + 1 \in Int
    OBVIOUS
  <2>2. R * (k + 1) <= R * x
    BY <1>1, <2>1, TimesGrows
  <2>3. R * (k + 1) = R * k + R /\ R * k \in Int /\ R * x \in Int
    OBVIOUS
  <2> DEFINE p == R * x  q == R * k  r == R * (k + 1)
  <2>4. r <= p /\ r = q + R /\ p \in Int /\ q \in Int /\ 2 * p <= 2 * q + R
    BY <2>2, <2>3
  <2> HIDE DEF p, q, r
  <2> QED BY <2>4
<1>2. ASSUME x <= -k - 1 PROVE FALSE
  <2>1. -k - 1 \in Int
    OBVIOUS
  <2>2. R * x <= R * (-k - 1)
    BY <1>2, <2>1, TimesGrows
  <2>3. R * (-k - 1) = -(R * k) - R /\ R * k \in Int /\ R * x \in Int
    OBVIOUS
  <2> DEFINE p == R * x  q == R * k  r == R * (-k - 1)
  <2>4. p <= r /\ r = -q - R /\ p \in Int /\ q \in Int /\ -(2 * q + R) <= 2 * p
    BY <2>2, <2>3
  <2> HIDE DEF p, q, r
  <2> QED BY <2>4
<1> QED BY <1>1, <1>2

\* A header posted at a rate is out by twice its rounding, and by two at most.
LEMMA InvoiceGap ==
  ASSUME NEW doc, doc.header.base \in Int, doc.header.tax \in Int, doc.header.rounding \in Int,
         doc.header.total = doc.header.base + doc.header.tax + doc.header.rounding,
         doc.header.rate \in Nat
  PROVE  LET h == doc.header
             j == InvoiceJournal(doc)
             B(x) == InBase(x, h.rate)
         IN  /\ B(h.total) \in Int /\ B(h.rounding) \in Int
             /\ j.control = B(h.total)
             /\ Gap(j) = j.control + Total(j.others)
             /\ Gap(j) = B(h.total) - B(h.base) - B(h.tax) + B(h.rounding)
             /\ Gap(j) - 2 * B(h.rounding) \in -2 .. 2
             /\ h.rate = RateScale => Gap(j) - 2 * B(h.rounding) = 0
<1> DEFINE h == doc.header
           j == InvoiceJournal(doc)
           R == RateScale
           rate == h.rate
           t == h.total  b == h.base  x == h.tax  r == h.rounding
           bt == InBase(t, rate)  bb == InBase(b, rate)  bx == InBase(x, rate)  br == InBase(r, rate)
<1>1. j.control = bt /\ j.others = <<-bb, -bx, br>>
  BY DEF InvoiceJournal
<1>2. b \in Int /\ x \in Int /\ r \in Int /\ t = b + x + r /\ rate \in Nat /\ R \in Nat \ {0}
  BY PricingAssumption
<1> HIDE DEF j, h, R, rate, t, b, x, r
<1>3. /\ bt \in Int /\ bb \in Int /\ bx \in Int /\ br \in Int
      /\ rate = R => bt = t /\ bb = b /\ bx = x /\ br = r
      /\ 2 * (t * rate) - R <= 2 * (R * bt) /\ 2 * (R * bt) <= 2 * (t * rate) + R
      /\ 2 * (b * rate) - R <= 2 * (R * bb) /\ 2 * (R * bb) <= 2 * (b * rate) + R
      /\ 2 * (x * rate) - R <= 2 * (R * bx) /\ 2 * (R * bx) <= 2 * (x * rate) + R
      /\ 2 * (r * rate) - R <= 2 * (R * br) /\ 2 * (R * br) <= 2 * (r * rate) + R
  <2>1. t \in Int
    BY <1>2
  <2> QED BY <1>2, <2>1, InBaseBounds DEF R
<1> HIDE DEF bt, bb, bx, br
<1>4. Total(<<-bb, -bx, br>>) = (-bb) + (-bx) + br
  <2>1. -bb \in Int /\ -bx \in Int
    BY <1>3
  <2> DEFINE m == -bb  n == -bx
  <2> HIDE DEF m, n
  <2>2. Total(<<m, n, br>>) = m + n + br
    BY <1>3, <2>1, TotalOfThree DEF m, n
  <2> QED BY <2>2 DEF m, n
<1>5. Gap(j) = j.control + Total(j.others) /\ Gap(j) = bt - bb - bx + br
  BY <1>1, <1>3, <1>4 DEF Gap
<1> DEFINE g == bt - bb - bx - br
<1>6. g \in Int /\ Gap(j) - 2 * br = g /\ (rate = R => g = 0)
  BY <1>2, <1>3, <1>5
<1>7. 2 * (R * g) <= 2 * (R * 2) + R /\ -(2 * (R * 2) + R) <= 2 * (R * g)
  <2>1. R * g = R * bt - R * bb - R * bx - R * br /\ R * bt \in Int /\ R * bb \in Int /\ R * bx \in Int /\ R * br \in Int
    BY <1>2, <1>3
  <2>2. t * rate = b * rate + x * rate + r * rate /\ b * rate \in Int /\ x * rate \in Int /\ r * rate \in Int
    BY <1>2
  <2> DEFINE p1 == R * bt  p2 == R * bb  p3 == R * bx  p4 == R * br  q0 == t * rate
             q1 == b * rate  q2 == x * rate  q3 == r * rate  p0 == R * g
  <2>3. /\ p0 = p1 - p2 - p3 - p4 /\ q0 = q1 + q2 + q3
        /\ p1 \in Int /\ p2 \in Int /\ p3 \in Int /\ p4 \in Int /\ q1 \in Int /\ q2 \in Int /\ q3 \in Int
        /\ 2 * q0 - R <= 2 * p1 /\ 2 * p1 <= 2 * q0 + R
        /\ 2 * q1 - R <= 2 * p2 /\ 2 * p2 <= 2 * q1 + R
        /\ 2 * q2 - R <= 2 * p3 /\ 2 * p3 <= 2 * q2 + R
        /\ 2 * q3 - R <= 2 * p4 /\ 2 * p4 <= 2 * q3 + R
    BY <1>3, <2>1, <2>2
  <2> HIDE DEF p0, p1, p2, p3, p4, q0, q1, q2, q3
  <2>4. 2 * p0 <= 4 * R /\ -(4 * R) <= 2 * p0
    BY <1>2, <2>3
  <2>5. p0 \in Int
    BY <2>3
  <2> DEFINE v == R * 2
  <2>6. v = 2 * R /\ v \in Nat
    BY <1>2
  <2> HIDE DEF v
  <2>7. 2 * p0 <= 2 * v + R /\ -(2 * v + R) <= 2 * p0
    BY <1>2, <2>4, <2>5, <2>6
  <2> QED BY <2>7 DEF p0, v
<1> HIDE DEF g
<1>8. g \in -2 .. 2
  <2>1. 2 \in Nat
    OBVIOUS
  <2> QED BY <1>2, <1>6, <1>7, <2>1, WholeWithin
<1> QED BY <1>1, <1>3, <1>5, <1>6, <1>8 DEF h, j, R, rate, t, b, x, r, bt, bb, bx, br

\* A bill posted line by line against its total: out by a unit a line at most.
LEMMA BillGap ==
  ASSUME NEW doc, doc.header.rate \in Nat,
         NEW n \in Nat \ {0}, DOMAIN doc.amounts = 1 .. n,
         \A i \in 1 .. n : doc.amounts[i].base \in Int /\ doc.amounts[i].tax \in Int,
         doc.header.total = Total(Bases(doc.amounts)) + Total(Taxes(doc.amounts))
  PROVE  LET h == doc.header
             j == BillJournal(doc)
         IN  /\ j.control \in {x * InBase(h.total, h.rate) : x \in {-1, 1}}
             /\ Gap(j) = j.control + Total(j.others)
             /\ Gap(j) \in -n .. n
             /\ h.rate = RateScale => Gap(j) = 0
<1> DEFINE a == doc.amounts
           rate == doc.header.rate
           t == doc.header.total
           R == RateScale
           j == BillJournal(doc)
           sign == IF doc.kind = "BILL" THEN 1 ELSE -1
           bases == Bases(a)
           taxes == Taxes(a)
           e == [i \in 1 .. n |-> InBase(a[i].base, rate) + InBase(a[i].tax, rate)]
           others == [i \in 1 .. n |-> sign * e[i]]
           raws == [i \in 1 .. n |-> bases[i] + taxes[i]]
           bt == InBase(t, rate)
<1>1. j.control = -sign * bt /\ j.others = others
  BY DEF BillJournal
<1>2. sign \in {-1, 1} /\ R \in Nat \ {0} /\ rate \in Nat /\ IsFiniteSet(1 .. n)
  BY PricingAssumption, UpTo
<1>3. /\ DOMAIN bases = 1 .. n /\ DOMAIN taxes = 1 .. n
      /\ \A i \in 1 .. n : bases[i] = a[i].base /\ taxes[i] = a[i].tax /\ bases[i] \in Int /\ taxes[i] \in Int
  BY DEF Bases, Taxes
<1>4. \A i \in 1 .. n : raws[i] = bases[i] + taxes[i] /\ raws[i] \in Int
  BY <1>3
<1>5. t = Total(bases) + Total(taxes)
  OBVIOUS
<1>6. \A i \in 1 .. n : e[i] = InBase(bases[i], rate) + InBase(taxes[i], rate) /\ others[i] = sign * e[i]
  BY <1>3
<1>7. DOMAIN others = 1 .. n
  OBVIOUS
<1> HIDE DEF a, rate, t, R, j, sign, bases, taxes, e, others, raws
<1> DEFINE sum(f) == SumFunctionOnSet(f, 1 .. n)
<1>8. sum(raws) = t /\ t \in Int
  <2>1. sum(raws) = sum(bases) + sum(taxes)
    <3>1. \A i \in 1 .. n : bases[i] \in Int /\ taxes[i] \in Int /\ raws[i] = bases[i] + taxes[i]
      BY <1>3, <1>4
    <3> QED BY <1>2, <3>1, SumPlus
  <2>2. sum(bases) \in Int /\ sum(taxes) \in Int
    BY <1>2, <1>3, SumType
  <2> QED BY <1>3, <1>5, <2>1, <2>2 DEF Total
<1>9. ASSUME NEW i \in 1 .. n
      PROVE  /\ e[i] \in Int /\ R * e[i] \in Int /\ raws[i] * rate \in Int
             /\ -2 * R <= 2 * (R * e[i]) - 2 * (raws[i] * rate)
             /\ 2 * (R * e[i]) - 2 * (raws[i] * rate) <= 2 * R
             /\ rate = R => e[i] = raws[i]
  <2> DEFINE x == bases[i]
             y == taxes[i]
             bx == InBase(x, rate)
             by == InBase(y, rate)
  <2>1. x \in Int /\ y \in Int /\ raws[i] = x + y /\ e[i] = bx + by
    BY <1>3, <1>4, <1>6
  <2> HIDE DEF x, y
  <2>2. /\ bx \in Int /\ by \in Int
        /\ 2 * (x * rate) - R <= 2 * (R * bx) /\ 2 * (R * bx) <= 2 * (x * rate) + R
        /\ 2 * (y * rate) - R <= 2 * (R * by) /\ 2 * (R * by) <= 2 * (y * rate) + R
        /\ rate = R => bx = x /\ by = y
    BY <1>2, <2>1, InBaseBounds DEF R
  <2> HIDE DEF bx, by
  <2>3. /\ R * e[i] = R * bx + R * by /\ R * bx \in Int /\ R * by \in Int
        /\ raws[i] * rate = x * rate + y * rate /\ x * rate \in Int /\ y * rate \in Int
    <3>1. R \in Int /\ rate \in Int /\ x \in Int /\ y \in Int /\ bx \in Int /\ by \in Int
      BY <1>2, <2>1, <2>2
    <3>2. R * (bx + by) = R * bx + R * by /\ R * bx \in Int /\ R * by \in Int
      BY <3>1
    <3>3. (x + y) * rate = x * rate + y * rate /\ x * rate \in Int /\ y * rate \in Int
      BY <3>1
    <3> QED BY <2>1, <3>2, <3>3
  <2> DEFINE p == R * bx  q == R * by  u == x * rate  v == y * rate  p0 == R * e[i]  u0 == raws[i] * rate
  <2>4. /\ p0 = p + q /\ u0 = u + v /\ p \in Int /\ q \in Int /\ u \in Int /\ v \in Int
        /\ 2 * u - R <= 2 * p /\ 2 * p <= 2 * u + R /\ 2 * v - R <= 2 * q /\ 2 * q <= 2 * v + R
    BY <2>2, <2>3
  <2> HIDE DEF p, q, u, v, p0, u0
  <2>5. p0 \in Int /\ u0 \in Int /\ -2 * R <= 2 * p0 - 2 * u0 /\ 2 * p0 - 2 * u0 <= 2 * R
    BY <1>2, <2>4
  <2>6. e[i] \in Int /\ (rate = R => e[i] = raws[i])
    BY <2>1, <2>2
  <2> QED BY <2>5, <2>6 DEF p0, u0
<1> DEFINE E == sum(e)
           f == [i \in 1 .. n |-> (2 * R) * e[i]]
           g == [i \in 1 .. n |-> (2 * rate) * raws[i]]
           d == [i \in 1 .. n |-> f[i] - g[i]]
           hi == [i \in 1 .. n |-> 2 * R]
           lo == [i \in 1 .. n |-> -2 * R]
<1>10. E \in Int /\ sum(others) = sign * E
  <2>1. E \in Int
    BY <1>2, <1>9, SumType
  <2>2. \A i \in 1 .. n : e[i] \in Int /\ others[i] = sign * e[i]
    BY <1>6, <1>9
  <2>3. sign \in Int
    BY <1>2
  <2>4. sum(others) = sign * sum(e)
    BY <1>2, <2>2, <2>3, SumScale
  <2> QED BY <2>1, <2>4
<1>11. bt \in Int /\ 2 * (t * rate) - R <= 2 * (R * bt) /\ 2 * (R * bt) <= 2 * (t * rate) + R
       /\ (rate = R => bt = t)
  BY <1>2, <1>8, InBaseBounds DEF R
<1> HIDE DEF bt
<1>12. rate = R => E = t
  BY <1>2, <1>8, <1>9, SumAgrees
<1>13. -(2 * (R * n)) <= 2 * (R * E) - 2 * (t * rate) /\ 2 * (R * E) - 2 * (t * rate) <= 2 * (R * n)
  <2>1. ASSUME NEW i \in 1 .. n
        PROVE  /\ f[i] = (2 * R) * e[i] /\ g[i] = (2 * rate) * raws[i] /\ hi[i] = 2 * R /\ lo[i] = -2 * R
               /\ e[i] \in Int /\ raws[i] \in Int
               /\ f[i] \in Int /\ g[i] \in Int /\ d[i] \in Int /\ hi[i] \in Int /\ lo[i] \in Int
               /\ f[i] = d[i] + g[i] /\ lo[i] <= d[i] /\ d[i] <= hi[i]
    <3>1. f[i] = (2 * R) * e[i] /\ g[i] = (2 * rate) * raws[i] /\ d[i] = f[i] - g[i] /\ hi[i] = 2 * R /\ lo[i] = -2 * R
      OBVIOUS
    <3>2. e[i] \in Int /\ raws[i] \in Int
      BY <1>4, <1>9
    <3> HIDE DEF f, g, d, hi, lo
    <3> DEFINE p == R * e[i]  u == raws[i] * rate
    <3>3. p \in Int /\ u \in Int /\ f[i] = 2 * p /\ g[i] = 2 * u
      <4> DEFINE y == e[i]
                 z == raws[i]
      <4>1. R \in Int /\ rate \in Int /\ y \in Int /\ z \in Int
        BY <1>2, <3>2
      <4> HIDE DEF y, z
      <4>2. R * y \in Int /\ z * rate \in Int /\ (2 * R) * y = 2 * (R * y) /\ (2 * rate) * z = 2 * (z * rate)
        BY <4>1
      <4> QED BY <3>1, <4>2 DEF y, z
    <3>4. -2 * R <= 2 * p - 2 * u /\ 2 * p - 2 * u <= 2 * R
      BY <1>9
    <3> HIDE DEF p, u
    <3>5. /\ f[i] \in Int /\ g[i] \in Int /\ d[i] \in Int /\ hi[i] \in Int /\ lo[i] \in Int
          /\ f[i] = d[i] + g[i] /\ lo[i] <= d[i] /\ d[i] <= hi[i]
      <4> DEFINE fi == f[i]  gi == g[i]  di == d[i]  top == hi[i]  low == lo[i]
      <4>1. /\ fi = 2 * p /\ gi = 2 * u /\ di = fi - gi /\ top = 2 * R /\ low = -(2 * R)
            /\ p \in Int /\ u \in Int
        BY <1>2, <3>1, <3>3
      <4> HIDE DEF fi, gi, di, top, low
      <4>2. /\ fi \in Int /\ gi \in Int /\ di \in Int /\ top \in Int /\ low \in Int /\ fi = di + gi
        BY <1>2, <4>1
      <4>3. low <= di /\ di <= top
        BY <1>2, <3>4, <4>1
      <4> QED BY <4>2, <4>3 DEF fi, gi, di, top, low
    <3> QED BY <3>1, <3>2, <3>5
  <2> HIDE DEF f, g, d, hi, lo
  <2>2. sum(f) = (2 * R) * E
    <3>1. 2 * R \in Int /\ \A i \in 1 .. n : e[i] \in Int /\ f[i] = (2 * R) * e[i]
      BY <1>2, <2>1
    <3> QED BY <1>2, <3>1, SumScale
  <2>3. sum(g) = (2 * rate) * t
    <3>1. 2 * rate \in Int /\ \A i \in 1 .. n : raws[i] \in Int /\ g[i] = (2 * rate) * raws[i]
      BY <1>2, <2>1
    <3>2. sum(g) = (2 * rate) * sum(raws)
      BY <1>2, <3>1, SumScale
    <3> QED BY <1>8, <3>2
  <2>4. sum(f) = sum(d) + sum(g)
    <3>1. \A i \in 1 .. n : d[i] \in Int /\ g[i] \in Int /\ f[i] = d[i] + g[i]
      BY <2>1
    <3> QED BY <1>2, <3>1, SumPlus
  <2>5. sum(lo) <= sum(d) /\ sum(d) <= sum(hi)
    <3>1. \A i \in 1 .. n : lo[i] \in Int /\ d[i] \in Int /\ lo[i] <= d[i]
      BY <2>1
    <3>2. \A i \in 1 .. n : hi[i] \in Int /\ d[i] \in Int /\ d[i] <= hi[i]
      BY <2>1
    <3> QED BY <1>2, <3>1, <3>2, SumOrdered
  <2>6. sum(lo) = (-2 * R) * n /\ sum(hi) = (2 * R) * n
    <3>1. -2 * R \in Int /\ 2 * R \in Int /\ Cardinality(1 .. n) = n
      BY <1>2, UpTo
    <3>2. \A i \in 1 .. n : lo[i] = -2 * R
      BY <2>1
    <3>3. \A i \in 1 .. n : hi[i] = 2 * R
      BY <2>1
    <3>4. sum(lo) = (-2 * R) * Cardinality(1 .. n)
      BY <1>2, <3>1, <3>2, SumOfSame
    <3>5. sum(hi) = (2 * R) * Cardinality(1 .. n)
      BY <1>2, <3>1, <3>3, SumOfSame
    <3> QED BY <3>1, <3>4, <3>5
  <2>7. sum(d) \in Int
    BY <1>2, <2>1, SumType
  <2> HIDE DEF sum, E
  <2>8. /\ (2 * R) * E = 2 * (R * E) /\ (2 * rate) * t = 2 * (t * rate) /\ (2 * R) * n = 2 * (R * n)
        /\ (-2 * R) * n = -(2 * (R * n)) /\ R * E \in Int /\ t * rate \in Int /\ R * n \in Int
    BY <1>2, <1>8, <1>10
  <2> DEFINE p == R * E  u == t * rate  k == R * n
  <2>9. /\ 2 * p = sum(d) + 2 * u /\ -(2 * k) <= sum(d) /\ sum(d) <= 2 * k
        /\ p \in Int /\ u \in Int /\ k \in Int
    BY <2>2, <2>3, <2>4, <2>5, <2>6, <2>8
  <2> HIDE DEF p, u, k
  <2>10. -(2 * k) <= 2 * p - 2 * u /\ 2 * p - 2 * u <= 2 * k
    BY <2>7, <2>9
  <2> QED BY <2>10 DEF p, u, k
<1> HIDE DEF E
<1> DEFINE x == E - bt
<1>14. x \in Int /\ Gap(j) = j.control + Total(j.others) /\ Gap(j) = sign * x
  <2>1. Total(others) = sign * E
    BY <1>7, <1>10 DEF Total
  <2>2. Gap(j) = j.control + Total(j.others)
    BY DEF Gap
  <2> QED BY <1>1, <1>2, <1>10, <1>11, <2>1, <2>2
<1>15. 2 * (R * x) <= 2 * (R * n) + R /\ -(2 * (R * n) + R) <= 2 * (R * x)
  <2>1. R * x = R * E - R * bt /\ R * E \in Int /\ R * bt \in Int /\ t * rate \in Int /\ R * n \in Int
    BY <1>2, <1>8, <1>10, <1>11
  <2> DEFINE p == R * x  q == R * E  r == R * bt  u == t * rate  k == R * n
  <2>2. /\ p = q - r /\ q \in Int /\ r \in Int /\ u \in Int /\ k \in Int
        /\ -(2 * k) <= 2 * q - 2 * u /\ 2 * q - 2 * u <= 2 * k
        /\ 2 * u - R <= 2 * r /\ 2 * r <= 2 * u + R
    BY <1>11, <1>13, <2>1
  <2> HIDE DEF p, q, r, u, k
  <2>3. 2 * p <= 2 * k + R /\ -(2 * k + R) <= 2 * p
    BY <1>2, <2>2
  <2> QED BY <2>3 DEF p, k
<1>16. rate = R => x = 0
  BY <1>8, <1>10, <1>11, <1>12
<1> HIDE DEF x
<1>17. x \in -n .. n
  BY <1>2, <1>14, <1>15, WholeWithin
<1>18. Gap(j) \in -n .. n /\ (rate = R => Gap(j) = 0)
  BY <1>2, <1>14, <1>16, <1>17
<1>19. j.control \in {k * bt : k \in {-1, 1}}
  <2>1. CASE sign = 1
    <3>1. j.control = (-1) * bt
      BY <1>1, <1>11, <2>1
    <3> QED BY <3>1
  <2>2. CASE sign = -1
    <3>1. j.control = 1 * bt
      BY <1>1, <1>11, <2>2
    <3> QED BY <3>1
  <2> QED BY <1>2, <2>1, <2>2
<1> QED BY <1>14, <1>18, <1>19 DEF j, rate, t, bt, R

-----------------------------------------------------------------------------
(* The inductive invariant: documents are what their forms make them, a    *)
(* journal is its document's and balances, and notes of one kind take no   *)
(* more of a line than the invoice has.                                    *)

Sale(doc) ==
  /\ SalesSheet(doc.lines, doc.amounts)
  /\ doc.header.rate \in Rates /\ doc.header = SalesTotals(doc.amounts, doc.header.rate)
Spread(doc) ==
  Total(Shares(doc.amounts)) = SalesDiscount(doc.discount, Total(Grosses(doc.amounts)))
Undiscounted(doc) == \A i \in DOMAIN doc.lines : doc.lines[i].off = 0 /\ doc.amounts[i].share = 0
Bought(doc) ==
  /\ doc.lines \in Forms /\ doc.discount \in Headers /\ doc.header.rate \in Rates
  /\ doc.amounts = PurchaseAmounts(doc.lines, doc.discount)
  /\ doc.header = PurchaseTotals(doc.amounts, BillDiscount(doc.lines, doc.discount), doc.header.rate)
ReversalOf(doc, inv) ==
  /\ doc.kind \in ReversalKinds
  /\ DOMAIN doc.taken = DOMAIN inv.lines /\ \A i \in DOMAIN inv.lines : doc.taken[i] \in Nat

NotesOf(notes, kind) == {n \in Reversals : notes[n] # Absent /\ notes[n].kind = kind}
TakenOf(notes, kind, i) == [n \in NotesOf(notes, kind) |-> notes[n].taken[i]]
WithinQuantities(inv, notes) ==
  \A kind \in ReversalKinds, i \in DOMAIN inv.lines :
    Total(TakenOf(notes, kind, i)) <= inv.lines[i].quantity

\* ReversalJournal, over a given invoice.
JournalOver(inv, doc) ==
  LET list == [i \in DOMAIN doc.taken |-> inv.lines[i].price * doc.taken[i]]
      net == Total(list)
      tax == Nearest(Total([i \in DOMAIN list |-> list[i] * inv.lines[i].tax]), Hundred)
  IN  [control |-> -(net + tax), others |-> <<net, tax>>]

OrderHolds == \A doc \in {order} \ {Absent} : Sale(doc) /\ Spread(doc)
InvoiceHolds == \A doc \in {invoice} \ {Absent} : Sale(doc) /\ Undiscounted(doc)
PurchaseHolds == \A doc \in {purchase} \ {Absent} : Bought(doc)
ReversalsHold ==
  /\ \A n \in Reversals : \A doc \in {reversal[n]} \ {Absent}, inv \in {invoice} :
       journal["invoice"] # Absent /\ ReversalOf(doc, inv)
  /\ \A inv \in {invoice} \ {Absent}, notes \in {reversal} : WithinQuantities(inv, notes)
JournalsHold ==
  /\ reversal = [n \in Reversals |-> reversal[n]] /\ DOMAIN journal = {"invoice", "purchase"} \cup Reversals
  /\ \A d \in {"invoice", "purchase"} \cup Reversals :
       \A entry \in {journal[d]} \ {Absent} : Balanced(entry)
  /\ journal["invoice"] # Absent =>
       invoice # Absent /\ \A doc \in {invoice} : journal["invoice"] = InvoiceJournal(doc)
  /\ journal["purchase"] # Absent =>
       purchase # Absent /\ \A doc \in {purchase} : journal["purchase"] = BillJournal(doc)
  /\ \A n \in Reversals : journal[n] # Absent =>
       /\ reversal[n] # Absent
       /\ \A doc \in {reversal[n]}, inv \in {invoice} : journal[n] = JournalOver(inv, doc)
BillingInvariant == OrderHolds /\ InvoiceHolds /\ PurchaseHolds /\ ReversalsHold /\ JournalsHold

LEMMA BillingStarts == ASSUME BillingInit PROVE BillingInvariant
BY DEF BillingInit, BillingInvariant, OrderHolds, InvoiceHolds, PurchaseHolds, ReversalsHold, JournalsHold

\* A line of what is taken: the line it is taken of, at its quantity.
LEMMA TakenIsForm ==
  ASSUME NEW lines, IsFiniteSet(DOMAIN lines), \A i \in DOMAIN lines : lines[i] \in FormLine,
         NEW taken \in Takings(lines)
  PROVE  LET t == TakenLines(lines, taken)
         IN  /\ IsFiniteSet(DOMAIN t)
             /\ \A i \in DOMAIN t : t[i] \in FormLine /\ t[i].off = 0
<1> DEFINE t == TakenLines(lines, taken)
           u == [i \in DOMAIN lines |-> [lines[i] EXCEPT !.quantity = taken[i], !.off = 0]]
           S == {i \in DOMAIN lines : u[i].quantity > 0}
<1>1. t = [i \in S |-> u[i]]
  BY DEF TakenLines, RestrictValues, Restrict
<1>2. taken \in [DOMAIN lines -> Nat]
  BY BillingAssumption DEF Takings
<1>3. S \subseteq DOMAIN lines /\ IsFiniteSet(S)
  BY FS_Subset
<1>4. ASSUME NEW i \in S PROVE u[i] \in FormLine /\ u[i].off = 0
  <2>1. lines[i] \in FormLine /\ taken[i] \in Nat /\ u[i] = [lines[i] EXCEPT !.quantity = taken[i], !.off = 0]
    BY <1>2, <1>3
  <2>2. u[i].quantity > 0
    OBVIOUS
  <2> HIDE DEF u
  <2>3. u[i].quantity = taken[i] /\ u[i].off = 0
    BY <2>1 DEF FormLine
  <2>4. taken[i] \in Nat \ {0} /\ 0 \in {n \in Int : n <= Hundred}
    BY <2>1, <2>2, <2>3 DEF Hundred
  <2> QED BY <2>1, <2>3, <2>4 DEF FormLine
<1> HIDE DEF t, u, S
<1> QED BY <1>1, <1>3, <1>4 DEF t

\* One more note, of no more than remains.
LEMMA OneMoreNote ==
  ASSUME NEW inv, NEW notes, DOMAIN notes = Reversals, WithinQuantities(inv, notes),
         NEW n \in Reversals, notes[n] = Absent, NEW r, r # Absent,
         \A i \in DOMAIN inv.lines :
           /\ inv.lines[i].quantity \in Nat /\ r.taken[i] \in Nat
           /\ r.taken[i] <= inv.lines[i].quantity - Total(TakenOf(notes, r.kind, i))
           /\ \A m \in Reversals : notes[m] # Absent => notes[m].taken[i] \in Nat
  PROVE  WithinQuantities(inv, [notes EXCEPT ![n] = r])
<1> DEFINE more == [notes EXCEPT ![n] = r]
<1>1. DOMAIN more = Reversals /\ more[n] = r /\ \A m \in Reversals \ {n} : more[m] = notes[m]
  OBVIOUS
<1> HIDE DEF more
<1>2. ASSUME NEW kind \in ReversalKinds, NEW i \in DOMAIN inv.lines
      PROVE  Total(TakenOf(more, kind, i)) <= inv.lines[i].quantity
  <2> DEFINE P == NotesOf(notes, kind)
             Q == NotesOf(more, kind)
             f == TakenOf(notes, kind, i)
             g == TakenOf(more, kind, i)
             q == inv.lines[i].quantity
  <2>1. DOMAIN f = P /\ DOMAIN g = Q
    BY DEF TakenOf
  <2>2. /\ \A m \in P : m \in Reversals /\ notes[m] # Absent /\ f[m] = notes[m].taken[i] /\ f[m] \in Nat
        /\ \A m \in Q : m \in Reversals /\ g[m] = more[m].taken[i]
    BY DEF TakenOf, NotesOf
  <2>3. IsFiniteSet(P) /\ n \notin P
    BY BillingAssumption, FS_Subset DEF NotesOf
  <2>4. SumFunctionOnSet(f, P) \in Nat
    BY <2>2, <2>3, SumNat
  <2>5. SumFunctionOnSet(f, P) <= q /\ q \in Nat
    BY <2>1 DEF WithinQuantities, Total
  <2>6. CASE r.kind = kind
    <3>1. Q = P \cup {n}
      BY <1>1, <2>6 DEF NotesOf
    <3> HIDE DEF P, Q, f, g, q
    <3>2. \A m \in P : g[m] = f[m]
      BY <1>1, <2>2, <2>3, <3>1
    <3>3. g[n] = r.taken[i] /\ g[n] \in Nat
      BY <1>1, <2>2, <3>1
    <3>4. \A m \in P \cup {n} : g[m] \in Int
      BY <2>2, <3>2, <3>3
    <3>5. SumFunctionOnSet(g, P \cup {n}) = g[n] + SumFunctionOnSet(g, P)
      BY <2>3, <3>4, SumAdd
    <3>6. SumFunctionOnSet(g, P) = SumFunctionOnSet(f, P)
      BY <2>3, <3>2, SumAgrees
    <3>7. r.taken[i] <= q - SumFunctionOnSet(f, P)
      BY <2>1, <2>6 DEF Total, f, q
    <3>8. SumFunctionOnSet(g, Q) <= q
      BY <2>4, <2>5, <3>1, <3>3, <3>5, <3>6, <3>7
    <3> QED BY <2>1, <3>8 DEF Total, g, q
  <2>7. CASE r.kind # kind
    <3>1. Q = P
      BY <1>1, <2>7 DEF NotesOf
    <3> HIDE DEF P, Q, f, g, q
    <3>2. \A m \in P : g[m] = f[m]
      BY <1>1, <2>2, <2>3, <3>1
    <3>3. SumFunctionOnSet(g, Q) = SumFunctionOnSet(f, P)
      BY <2>3, <3>1, <3>2, SumAgrees
    <3> QED BY <2>1, <2>5, <3>3 DEF Total, g, q
  <2> QED BY <2>6, <2>7
<1> QED BY <1>2 DEF WithinQuantities, more

LEMMA SaveOrderKeeps == ASSUME BillingInvariant, SaveOrder PROVE BillingInvariant'
<1>1. PICK lines \in Forms, header \in Headers, rate \in Rates :
        LET amounts == SalesAmounts(lines, header)
        IN  order' = [lines |-> lines, discount |-> header, amounts |-> amounts,
                      header |-> SalesTotals(amounts, rate)]
  BY DEF SaveOrder
<1> DEFINE a == SalesAmounts(lines, header)
           h == SalesTotals(a, rate)
           r == [lines |-> lines, discount |-> header, amounts |-> a, header |-> h]
<1>2. order' = r
  BY <1>1
<1>3. SalesSheet(lines, a) /\ Total(Shares(a)) = SalesDiscount(header, Total(Grosses(a)))
  BY OrderIsSheet
<1>4. h.rate = rate
  BY <1>3, SalesHeader
<1> HIDE DEF h, a
<1>5. r.lines = lines /\ r.discount = header /\ r.amounts = a /\ r.header = h
  OBVIOUS
<1> HIDE DEF r
<1>6. r.header = SalesTotals(r.amounts, r.header.rate)
  BY <1>4, <1>5 DEF h
<1>7. Sale(r) /\ Spread(r)
  BY <1>3, <1>4, <1>5, <1>6 DEF Sale, Spread
<1>8. OrderHolds'
  BY <1>2, <1>7 DEF OrderHolds
<1>9. invoice' = invoice /\ reversal' = reversal /\ purchase' = purchase /\ journal' = journal
  BY DEF SaveOrder
<1> QED BY <1>8, <1>9 DEF BillingInvariant, InvoiceHolds, PurchaseHolds, ReversalsHold, JournalsHold

LEMMA CreateInvoiceKeeps == ASSUME BillingInvariant, CreateInvoice PROVE BillingInvariant'
<1>1. PICK taken \in Takings(order.lines) :
        LET lines == TakenLines(order.lines, taken)
            amounts == SalesAmounts(lines, NoDiscount)
        IN  invoice' = [lines |-> lines, amounts |-> amounts,
                        header |-> SalesTotals(amounts, order.header.rate)]
  BY DEF CreateInvoice
<1> DEFINE lines == TakenLines(order.lines, taken)
           a == SalesAmounts(lines, NoDiscount)
           rate == order.header.rate
           h == SalesTotals(a, rate)
           r == [lines |-> lines, amounts |-> a, header |-> h]
<1>2. invoice' = r
  BY <1>1
<1>3. Sale(order)
  BY DEF CreateInvoice, BillingInvariant, OrderHolds
<1>4. /\ IsFiniteSet(DOMAIN order.lines) /\ \A i \in DOMAIN order.lines : order.lines[i] \in FormLine
      /\ rate \in Rates
  BY <1>3 DEF Sale, SalesSheet
<1>5. IsFiniteSet(DOMAIN lines) /\ \A i \in DOMAIN lines : lines[i] \in FormLine /\ lines[i].off = 0
  BY <1>4, TakenIsForm
<1> HIDE DEF lines, rate
<1>6. SalesSheet(lines, a) /\ \A i \in DOMAIN lines : a[i].share = 0
  BY <1>5, UndiscountedIsSheet
<1> HIDE DEF a
<1>7. h.rate = rate
  BY <1>6, SalesHeader
<1> HIDE DEF h
<1>8. r.lines = lines /\ r.amounts = a /\ r.header = h
  OBVIOUS
<1> HIDE DEF r
<1>9. r.header = SalesTotals(r.amounts, r.header.rate)
  BY <1>7, <1>8 DEF h
<1>10. Sale(r) /\ Undiscounted(r)
  BY <1>4, <1>5, <1>6, <1>7, <1>8, <1>9 DEF Sale, Undiscounted
<1>11. InvoiceHolds'
  BY <1>2, <1>10 DEF InvoiceHolds
<1>12. /\ order' = order /\ reversal' = reversal /\ purchase' = purchase /\ journal' = journal
       /\ invoice = Absent
  BY DEF CreateInvoice
<1>13. journal["invoice"] = Absent /\ \A n \in Reversals : reversal[n] = Absent /\ journal[n] = Absent
  BY <1>12 DEF BillingInvariant, JournalsHold, ReversalsHold
<1>14. WithinQuantities(r, reversal)
  <2>1. ASSUME NEW kind \in ReversalKinds, NEW i \in DOMAIN r.lines
        PROVE  Total(TakenOf(reversal, kind, i)) <= r.lines[i].quantity
    <3>1. DOMAIN TakenOf(reversal, kind, i) = {}
      BY <1>13 DEF TakenOf, NotesOf
    <3>2. Total(TakenOf(reversal, kind, i)) = 0
      BY <3>1, SumEmpty DEF Total
    <3>3. r.lines[i].quantity \in Nat
      BY <1>5, <1>8 DEF FormLine
    <3> QED BY <3>2, <3>3
  <2> QED BY <2>1 DEF WithinQuantities
<1>15. ReversalsHold'
  BY <1>2, <1>12, <1>13, <1>14 DEF ReversalsHold
<1>16. JournalsHold'
  BY <1>12, <1>13 DEF BillingInvariant, JournalsHold
<1> QED BY <1>11, <1>12, <1>15, <1>16 DEF BillingInvariant, OrderHolds, PurchaseHolds

LEMMA ReversalJournalIsRead == \A doc : ReversalJournal(doc) = JournalOver(invoice, doc)
BY DEF ReversalJournal, JournalOver

LEMMA PostInvoiceKeeps == ASSUME BillingInvariant, PostInvoice PROVE BillingInvariant'
<1> DEFINE e == InvoiceJournal(invoice)
<1>1. /\ invoice # Absent /\ journal["invoice"] = Absent /\ Balanced(e)
      /\ journal' = [journal EXCEPT !["invoice"] = e]
      /\ order' = order /\ invoice' = invoice /\ reversal' = reversal /\ purchase' = purchase
  BY DEF PostInvoice, Post
<1>2. OrderHolds /\ InvoiceHolds /\ PurchaseHolds /\ ReversalsHold /\ JournalsHold
  BY DEF BillingInvariant
<1>3. \A n \in Reversals : reversal[n] = Absent /\ journal[n] = Absent
  BY <1>1, <1>2 DEF ReversalsHold, JournalsHold
<1>4. OrderHolds' /\ InvoiceHolds' /\ PurchaseHolds'
  BY <1>1, <1>2 DEF OrderHolds, InvoiceHolds, PurchaseHolds
<1>5. ReversalsHold'
  BY <1>1, <1>2, <1>3 DEF ReversalsHold
<1>6. DOMAIN journal = {"invoice", "purchase"} \cup Reversals /\ Reversals \cap {"invoice", "purchase"} = {}
  BY <1>2, BillingAssumption DEF JournalsHold
<1>7. /\ DOMAIN journal' = DOMAIN journal /\ journal'["invoice"] = e
      /\ \A d \in DOMAIN journal \ {"invoice"} : journal'[d] = journal[d]
  BY <1>1, <1>6
<1> HIDE DEF e
<1>8. JournalsHold'
  <2>1. e = InvoiceJournal(invoice)
    BY DEF e
  <2>2. \A n \in Reversals : journal'[n] = journal[n]
    BY <1>6, <1>7
  <2>3. journal'["purchase"] = journal["purchase"]
    BY <1>6, <1>7
  <2> QED BY <1>1, <1>2, <1>3, <1>6, <1>7, <2>1, <2>2, <2>3 DEF JournalsHold
<1> QED BY <1>4, <1>5, <1>8 DEF BillingInvariant

LEMMA PostReversalKeeps ==
  ASSUME BillingInvariant, NEW n \in Reversals, PostReversal(n) PROVE BillingInvariant'
<1> DEFINE e == ReversalJournal(reversal[n])
<1>1. /\ reversal[n] # Absent /\ journal[n] = Absent /\ Balanced(e)
      /\ journal' = [journal EXCEPT ![n] = e]
      /\ order' = order /\ invoice' = invoice /\ reversal' = reversal /\ purchase' = purchase
  BY DEF PostReversal, Post
<1>2. OrderHolds /\ InvoiceHolds /\ PurchaseHolds /\ ReversalsHold /\ JournalsHold
  BY DEF BillingInvariant
<1>3. e = JournalOver(invoice, reversal[n])
  BY ReversalJournalIsRead
<1>4. OrderHolds' /\ InvoiceHolds' /\ PurchaseHolds'
  BY <1>1, <1>2 DEF OrderHolds, InvoiceHolds, PurchaseHolds
<1>5. DOMAIN journal = {"invoice", "purchase"} \cup Reversals /\ Reversals \cap {"invoice", "purchase"} = {}
  BY <1>2, BillingAssumption DEF JournalsHold
<1>6. /\ DOMAIN journal' = DOMAIN journal /\ journal'[n] = e
      /\ \A d \in DOMAIN journal \ {n} : journal'[d] = journal[d]
  BY <1>1, <1>5
<1> HIDE DEF e
<1>7. journal'["purchase"] = journal["purchase"] /\ journal'["invoice"] = journal["invoice"]
  BY <1>5, <1>6
<1>8. ReversalsHold'
  BY <1>1, <1>2, <1>7 DEF ReversalsHold
<1>9. JournalsHold'
  <2>1. \A m \in Reversals : m # n => journal'[m] = journal[m]
    BY <1>5, <1>6
  <2>2. \A d \in {"invoice", "purchase"} \cup Reversals : \A entry \in {journal'[d]} \ {Absent} : Balanced(entry)
    <3>1. \A d \in {"invoice", "purchase"} \cup Reversals : \A entry \in {journal[d]} \ {Absent} : Balanced(entry)
      BY <1>2 DEF JournalsHold
    <3> QED BY <1>1, <1>5, <1>6, <3>1
  <2>3. \A m \in Reversals : journal'[m] # Absent =>
          /\ reversal[m] # Absent
          /\ journal'[m] = JournalOver(invoice, reversal[m])
    BY <1>1, <1>2, <1>3, <1>6, <2>1 DEF JournalsHold
  <2> QED BY <1>1, <1>2, <1>5, <1>6, <1>7, <2>2, <2>3 DEF JournalsHold
<1> QED BY <1>4, <1>8, <1>9 DEF BillingInvariant

LEMMA DraftReversalKeeps ==
  ASSUME BillingInvariant, NEW n \in Reversals, NEW kind \in ReversalKinds, DraftReversal(n, kind)
  PROVE  BillingInvariant'
<1>1. PICK taken \in Takings(invoice.lines) :
        /\ \A i \in DOMAIN taken : taken[i] <= Remaining(kind, i)
        /\ reversal' = [reversal EXCEPT ![n] =
             [kind |-> kind, taken |-> taken,
              header |-> IF kind = "RETURN" THEN Absent ELSE NoteTotals(taken)]]
  BY DEF DraftReversal
<1> DEFINE totals == IF kind = "RETURN" THEN Absent ELSE NoteTotals(taken)
           r == [kind |-> kind, taken |-> taken, header |-> totals]
<1>2. /\ journal["invoice"] # Absent /\ reversal[n] = Absent
      /\ order' = order /\ invoice' = invoice /\ purchase' = purchase /\ journal' = journal
      /\ reversal' = [reversal EXCEPT ![n] = r]
  BY <1>1 DEF DraftReversal
<1>3. OrderHolds /\ InvoiceHolds /\ PurchaseHolds /\ ReversalsHold /\ JournalsHold
  BY DEF BillingInvariant
<1>4. OrderHolds' /\ InvoiceHolds' /\ PurchaseHolds'
  BY <1>2, <1>3 DEF OrderHolds, InvoiceHolds, PurchaseHolds
<1>5. r.kind = kind /\ r.taken = taken
  OBVIOUS
<1> HIDE DEF r, totals
<1>6. taken \in [DOMAIN invoice.lines -> Nat]
  BY BillingAssumption DEF Takings
<1>7. /\ invoice # Absent /\ journal[n] = Absent
      /\ reversal = [m \in Reversals |-> reversal[m]] /\ DOMAIN reversal = Reversals
  <2>1. invoice # Absent /\ journal[n] = Absent
    BY <1>2, <1>3 DEF JournalsHold
  <2>2. reversal = [m \in Reversals |-> reversal[m]]
    BY <1>3 DEF JournalsHold
  <2> QED BY <2>1, <2>2
<1>8. /\ reversal' = [m \in Reversals |-> reversal'[m]] /\ reversal'[n] = r
      /\ \A m \in Reversals \ {n} : reversal'[m] = reversal[m]
  BY <1>2, <1>7
<1>9. ReversalsHold'
  <2>1. ReversalOf(r, invoice)
    BY <1>5, <1>6 DEF ReversalOf
  <2>2. \A m \in Reversals : reversal[m] # Absent => ReversalOf(reversal[m], invoice)
    BY <1>3 DEF ReversalsHold
  <2>3. WithinQuantities(invoice, reversal)
    BY <1>3, <1>7 DEF ReversalsHold
  <2>4. WithinQuantities(invoice, [reversal EXCEPT ![n] = r])
    <3>1. CASE r = Absent
      <4>1. [reversal EXCEPT ![n] = r] = reversal
        BY <1>2, <1>7, <3>1
      <4> QED BY <2>3, <4>1
    <3>2. CASE r # Absent
      <4>1. ASSUME NEW i \in DOMAIN invoice.lines
            PROVE  /\ invoice.lines[i].quantity \in Nat /\ r.taken[i] \in Nat
                   /\ r.taken[i] <= invoice.lines[i].quantity - Total(TakenOf(reversal, r.kind, i))
                   /\ \A m \in Reversals : reversal[m] # Absent => reversal[m].taken[i] \in Nat
        <5>1. invoice.lines[i].quantity \in Nat
          <6>1. invoice.lines[i] \in FormLine
            BY <1>3, <1>7 DEF InvoiceHolds, Sale, SalesSheet
          <6> QED BY <6>1 DEF FormLine
        <5>2. taken[i] <= invoice.lines[i].quantity - Total(TakenOf(reversal, kind, i))
          BY <1>1, <1>6 DEF Remaining, TakenOf, NotesOf, Of
        <5>3. \A m \in Reversals : reversal[m] # Absent => reversal[m].taken[i] \in Nat
          BY <2>2 DEF ReversalOf
        <5> QED BY <1>5, <1>6, <5>1, <5>2, <5>3
      <4> QED BY <1>2, <1>7, <2>3, <3>2, <4>1, OneMoreNote
    <3> QED BY <3>1, <3>2
  <2>5. WithinQuantities(invoice', reversal')
    BY <1>2, <2>4
  <2>6. \A m \in Reversals : reversal'[m] # Absent => ReversalOf(reversal'[m], invoice)
    BY <1>8, <2>1, <2>2
  <2> QED BY <1>2, <2>5, <2>6 DEF ReversalsHold
<1>10. JournalsHold'
  <2>1. \A m \in Reversals : journal[m] # Absent => m # n /\ reversal'[m] = reversal[m]
    BY <1>7, <1>8
  <2> QED BY <1>2, <1>3, <1>8, <2>1 DEF JournalsHold
<1> QED BY <1>4, <1>9, <1>10 DEF BillingInvariant

LEMMA SavePurchaseKeeps == ASSUME BillingInvariant, SavePurchase PROVE BillingInvariant'
<1>1. PICK kind \in PurchaseKinds, lines \in Forms, header \in Headers, rate \in Rates :
        LET amounts == PurchaseAmounts(lines, header)
        IN  purchase' = [kind |-> kind, lines |-> lines, discount |-> header, amounts |-> amounts,
                         header |-> PurchaseTotals(amounts, BillDiscount(lines, header), rate)]
  BY DEF SavePurchase
<1> DEFINE a == PurchaseAmounts(lines, header)
           h == PurchaseTotals(a, BillDiscount(lines, header), rate)
           r == [kind |-> kind, lines |-> lines, discount |-> header, amounts |-> a, header |-> h]
<1>2. purchase' = r
  BY <1>1
<1>3. h.rate = rate
  BY DEF PurchaseTotals, Header
<1> HIDE DEF a, h
<1>4. r.lines = lines /\ r.discount = header /\ r.amounts = a /\ r.header = h
  OBVIOUS
<1> HIDE DEF r
<1>5. Bought(r)
  <2>1. r.amounts = PurchaseAmounts(r.lines, r.discount)
    BY <1>4 DEF a
  <2>2. r.header = PurchaseTotals(r.amounts, BillDiscount(r.lines, r.discount), r.header.rate)
    BY <1>3, <1>4 DEF h
  <2> QED BY <1>3, <1>4, <2>1, <2>2 DEF Bought
<1>6. PurchaseHolds'
  BY <1>2, <1>5 DEF PurchaseHolds
<1>7. /\ order' = order /\ invoice' = invoice /\ reversal' = reversal /\ journal' = journal
      /\ purchase = Absent
  BY DEF SavePurchase
<1>8. JournalsHold'
  BY <1>7 DEF BillingInvariant, JournalsHold
<1> QED BY <1>6, <1>7, <1>8 DEF BillingInvariant, OrderHolds, InvoiceHolds, ReversalsHold

LEMMA PostPurchaseKeeps == ASSUME BillingInvariant, PostPurchase PROVE BillingInvariant'
<1> DEFINE e == BillJournal(purchase)
<1>1. /\ purchase # Absent /\ journal["purchase"] = Absent /\ Balanced(e)
      /\ journal' = [journal EXCEPT !["purchase"] = e]
      /\ order' = order /\ invoice' = invoice /\ reversal' = reversal /\ purchase' = purchase
  BY DEF PostPurchase, Post
<1>2. OrderHolds /\ InvoiceHolds /\ PurchaseHolds /\ ReversalsHold /\ JournalsHold
  BY DEF BillingInvariant
<1>3. OrderHolds' /\ InvoiceHolds' /\ PurchaseHolds'
  BY <1>1, <1>2 DEF OrderHolds, InvoiceHolds, PurchaseHolds
<1>4. DOMAIN journal = {"invoice", "purchase"} \cup Reversals /\ Reversals \cap {"invoice", "purchase"} = {}
  BY <1>2, BillingAssumption DEF JournalsHold
<1>5. /\ DOMAIN journal' = DOMAIN journal /\ journal'["purchase"] = e
      /\ \A d \in DOMAIN journal \ {"purchase"} : journal'[d] = journal[d]
  BY <1>1, <1>4
<1>6. e = BillJournal(purchase)
  OBVIOUS
<1> HIDE DEF e
<1>7. journal'["invoice"] = journal["invoice"] /\ \A n \in Reversals : journal'[n] = journal[n]
  BY <1>4, <1>5
<1>8. ReversalsHold'
  BY <1>1, <1>2, <1>7 DEF ReversalsHold
<1>9. JournalsHold'
  BY <1>1, <1>2, <1>4, <1>5, <1>6, <1>7 DEF JournalsHold
<1> QED BY <1>3, <1>8, <1>9 DEF BillingInvariant

LEMMA BillingInvariantHolds == BillingSpec => []BillingInvariant
<1>1. BillingInvariant /\ [BillingNext]_billingVars => BillingInvariant'
  <2> SUFFICES ASSUME BillingInvariant, [BillingNext]_billingVars PROVE BillingInvariant'
    OBVIOUS
  <2>1. CASE UNCHANGED billingVars
    BY <2>1 DEF billingVars, BillingInvariant, OrderHolds, InvoiceHolds, PurchaseHolds, ReversalsHold, JournalsHold
  <2>2. CASE BillingNext
    BY <2>2, SaveOrderKeeps, CreateInvoiceKeeps, PostInvoiceKeeps, DraftReversalKeeps, PostReversalKeeps,
       SavePurchaseKeeps, PostPurchaseKeeps DEF BillingNext
  <2> QED BY <2>1, <2>2
<1> QED BY <1>1, BillingStarts, PTL DEF BillingSpec

-----------------------------------------------------------------------------
(* What it means for the documents.                                        *)

LEMMA SaleIsFair ==
  ASSUME NEW doc, Sale(doc)
  PROVE  /\ Fits(doc, -1) /\ doc.header.rate \in Nat
         /\ doc.header.subtotal = Total(Grosses(doc.amounts))
         /\ doc.header.discount = Total(Shares(doc.amounts))
         /\ NetOf(doc) >= LeftOf(doc)
         /\ ~Clamped(doc) => NetOf(doc) = LeftOf(doc)
         /\ doc.header.base = Total(Bases(doc.amounts)) /\ doc.header.tax = Total(Taxes(doc.amounts))
         /\ doc.header.base \in Int /\ doc.header.tax \in Int /\ doc.header.rounding \in Int
         /\ doc.header.total = doc.header.base + doc.header.tax + doc.header.rounding
<1> DEFINE a == doc.amounts
           h == doc.header
<1>1. SalesSheet(doc.lines, a) /\ h.rate \in Rates /\ h = SalesTotals(a, h.rate)
  BY DEF Sale
<1>2. h.rate \in Nat
  BY <1>1, BillingAssumption
<1>3. NetOf(doc) = Total(Nets(a))
  BY DEF NetOf, Column, Nets
<1>4. Clamped(doc) <=> \E i \in DOMAIN a : a[i].gross - a[i].off < a[i].share
  BY DEF Clamped
<1>5. LeftOf(doc) = h.subtotal - h.off - h.discount
  BY DEF LeftOf
<1>6. DOMAIN a = DOMAIN doc.lines /\ \A i \in DOMAIN doc.lines : doc.lines[i] \in FormLine
  BY <1>1 DEF SalesSheet
<1>7. \A i \in DOMAIN a : a[i].gross - a[i].off \in Nat /\ a[i].net > -1
  BY <1>1 DEF SalesSheet
<1>8. doc.amounts = a /\ doc.header = h
  OBVIOUS
<1> HIDE DEF a, h
<1>9. /\ h.subtotal = Total(Grosses(a)) /\ h.off = Total(Offs(a)) /\ h.discount = Total(Shares(a))
      /\ h.base = Total(Bases(a)) /\ h.tax = Total(Taxes(a))
      /\ h.total = h.base + h.tax + h.rounding
      /\ h.base \in Nat /\ h.tax \in Nat /\ h.rounding \in Int /\ h.total \in Nat
  <2> DEFINE rate == h.rate
             k == SalesTotals(a, rate)
  <2>1. h = k
    BY <1>1
  <2> HIDE DEF rate
  <2>2. /\ k.subtotal = Total(Grosses(a)) /\ k.off = Total(Offs(a)) /\ k.discount = Total(Shares(a))
        /\ k.base = Total(Bases(a)) /\ k.tax = Total(Taxes(a))
        /\ k.total = k.base + k.tax + k.rounding
        /\ k.base \in Nat /\ k.tax \in Nat /\ k.rounding \in Int /\ k.total \in Nat
    BY <1>1, SalesHeader
  <2> HIDE DEF k
  <2> QED BY <2>1, <2>2
<1>10. /\ Total(Nets(a)) >= Total(Grosses(a)) - Total(Offs(a)) - Total(Shares(a))
       /\ (\A i \in DOMAIN a : ~(a[i].gross - a[i].off < a[i].share)) =>
            Total(Nets(a)) = Total(Grosses(a)) - Total(Offs(a)) - Total(Shares(a))
  BY <1>1, SheetFoots
<1>11. Fits(doc, -1)
  BY <1>6, <1>7, <1>8, <1>9 DEF Fits
<1>12. h.base \in Int /\ h.tax \in Int
  BY <1>9
<1> QED BY <1>2, <1>3, <1>4, <1>5, <1>8, <1>9, <1>10, <1>11, <1>12

LEMMA BoughtIsFair ==
  ASSUME NEW doc, Bought(doc)
  PROVE  /\ Fits(doc, -Len(doc.lines)) /\ doc.header.rate \in Nat
         /\ NetOf(doc) = LeftOf(doc)
         /\ Len(doc.lines) \in Nat \ {0} /\ DOMAIN doc.amounts = 1 .. Len(doc.lines)
         /\ \A i \in 1 .. Len(doc.lines) : doc.amounts[i].base \in Int /\ doc.amounts[i].tax \in Int
         /\ doc.header.total = Total(Bases(doc.amounts)) + Total(Taxes(doc.amounts))
<1> DEFINE lines == doc.lines
           header == doc.discount
           a == PurchaseAmounts(lines, header)
           D == BillDiscount(lines, header)
           h == doc.header
           n == Len(lines)
<1>1. /\ lines \in Forms /\ header \in Headers /\ h.rate \in Rates
      /\ doc.amounts = a /\ h = PurchaseTotals(a, D, h.rate)
  BY DEF Bought
<1>2. h.rate \in Nat
  BY <1>1, BillingAssumption
<1>3. NetOf(doc) = Total(Nets(a)) /\ LeftOf(doc) = h.subtotal - h.off - h.discount
  BY <1>1 DEF NetOf, Column, Nets, LeftOf
<1>4. /\ h.subtotal = Total(Grosses(a)) /\ h.off = Total(Offs(a)) /\ h.discount = D
      /\ h.total = Total(Bases(a)) + Total(Taxes(a)) + 0
  <2> DEFINE rate == h.rate
             k == PurchaseTotals(a, D, rate)
  <2>1. h = k
    BY <1>1
  <2> HIDE DEF rate, a, D
  <2>2. /\ k.subtotal = Total(Grosses(a)) /\ k.off = Total(Offs(a)) /\ k.discount = D
        /\ k.total = Total(Bases(a)) + Total(Taxes(a)) + 0
    BY DEF PurchaseTotals, Header, Column, Grosses, Offs, Bases, Taxes
  <2> HIDE DEF k
  <2> QED BY <2>1, <2>2
<1>5. n \in Nat \ {0} /\ DOMAIN lines = 1 .. n /\ \A i \in 1 .. n : lines[i] \in FormLine
  BY <1>1, FormIsTyped
<1>6. /\ DOMAIN a = 1 .. n
      /\ \A i \in 1 .. n : /\ a[i].gross - a[i].off \in Nat
                           /\ a[i].base \in Int /\ a[i].tax \in Int /\ a[i].net \in Int
  <2>1. /\ DOMAIN a = 1 .. n
        /\ \A i \in 1 .. n :
             /\ Allocate(D, Weights(lines))[i] \in Int /\ Weights(lines)[i] \in Nat
             /\ a[i].net = Weights(lines)[i] - Allocate(D, Weights(lines))[i]
             /\ a[i].gross - a[i].off = Weights(lines)[i]
             /\ a[i].base \in Int /\ a[i].tax \in Int
    BY <1>1, PurchaseIsSplit
  <2> HIDE DEF a, D, n, lines
  <2> QED BY <2>1
<1>7. (\A i \in 1 .. n - 1 : a[i].net >= 0) /\ a[n].net > -n
  BY <1>1, LastLineBounded
<1>8. /\ Total(Nets(a)) = Total(Weights(lines)) - D
      /\ Total(Grosses(a)) - Total(Offs(a)) = Total(Weights(lines))
      /\ Total(Bases(a)) \in Int /\ Total(Taxes(a)) \in Int
  BY <1>1, PurchaseFoots
<1>9. Total(Bases(a)) + Total(Taxes(a)) \in Nat
  BY <1>1, PurchaseTotalIsNat
<1>10. doc.header = h /\ doc.lines = lines
  OBVIOUS
<1> HIDE DEF a, D, h, n, lines, header
<1>11. h.total = Total(Bases(a)) + Total(Taxes(a)) /\ h.total \in Nat
  BY <1>4, <1>8, <1>9
<1>12. \A i \in 1 .. n : a[i].net > -n
  <2>1. \A i \in 1 .. n : i = n \/ i \in 1 .. n - 1
    BY <1>5
  <2> QED BY <1>5, <1>6, <1>7, <2>1
<1>13. Fits(doc, -n)
  BY <1>1, <1>5, <1>6, <1>10, <1>11, <1>12 DEF Fits
<1>14. NetOf(doc) = LeftOf(doc)
  BY <1>3, <1>4, <1>8
<1> QED BY <1>1, <1>2, <1>5, <1>6, <1>10, <1>11, <1>13, <1>14 DEF n

LEMMA InvariantImpliesAmountsAgree == ASSUME BillingInvariant PROVE AmountsAgree
<1>1. ASSUME order # Absent PROVE Sale(order) /\ Spread(order)
  BY <1>1 DEF BillingInvariant, OrderHolds
<1>2. ASSUME invoice # Absent PROVE Sale(invoice)
  BY <1>2 DEF BillingInvariant, InvoiceHolds
<1>3. ASSUME purchase # Absent PROVE Bought(purchase)
  BY <1>3 DEF BillingInvariant, PurchaseHolds
<1>4. BillingTypeOK
  <2>1. \A n \in Reversals : reversal[n] = Absent \/ reversal[n].kind \in ReversalKinds
    BY DEF BillingInvariant, ReversalsHold, ReversalOf
  <2> QED BY <1>1, <1>2, <1>3, <2>1, SaleIsFair, BoughtIsFair DEF BillingTypeOK
<1>5. DiscountsFoot
  <2>1. ASSUME order # Absent
        PROVE  order.header.discount = SalesDiscount(order.discount, order.header.subtotal)
    BY <1>1, <2>1, SaleIsFair DEF Spread
  <2> QED BY <1>1, <1>3, <2>1, SaleIsFair, BoughtIsFair DEF DiscountsFoot
<1>6. ASSUME invoice # Absent
      PROVE  LET h == invoice.header
                 j == InvoiceJournal(invoice)
             IN  /\ j.control = InBase(h.total, h.rate)
                 /\ Gap(j) - 2 * InBase(h.rounding, h.rate) \in -2 .. 2
                 /\ h.rate = RateScale => Gap(j) - 2 * InBase(h.rounding, h.rate) = 0
  BY <1>2, <1>6, SaleIsFair, InvoiceGap
<1>7. ASSUME purchase # Absent
      PROVE  LET h == purchase.header
                 j == BillJournal(purchase)
                 n == Len(purchase.lines)
             IN  /\ j.control \in {x * InBase(h.total, h.rate) : x \in {-1, 1}}
                 /\ Gap(j) \in -n .. n
                 /\ h.rate = RateScale => Gap(j) = 0
  <2> DEFINE n == Len(purchase.lines)
  <2>1. /\ purchase.header.rate \in Nat /\ n \in Nat \ {0} /\ DOMAIN purchase.amounts = 1 .. n
        /\ \A i \in 1 .. n : purchase.amounts[i].base \in Int /\ purchase.amounts[i].tax \in Int
        /\ purchase.header.total = Total(Bases(purchase.amounts)) + Total(Taxes(purchase.amounts))
    BY <1>3, <1>7, BoughtIsFair
  <2> HIDE DEF n
  <2> QED BY <2>1, BillGap DEF n
<1>8. LedgerAgreesWithDocuments
  <2>1. \A d \in DOMAIN journal : Posted(d) => Balanced(journal[d])
    BY DEF BillingInvariant, JournalsHold, Posted
  <2>2. ASSUME Posted("invoice")
        PROVE  journal["invoice"].control = InBase(invoice.header.total, invoice.header.rate)
    <3>1. invoice # Absent /\ journal["invoice"] = InvoiceJournal(invoice)
      BY <2>2 DEF BillingInvariant, JournalsHold, Posted
    <3> QED BY <1>6, <3>1
  <2>3. ASSUME Posted("purchase")
        PROVE  journal["purchase"].control \in
                 {x * InBase(purchase.header.total, purchase.header.rate) : x \in {-1, 1}}
    <3>1. purchase # Absent /\ journal["purchase"] = BillJournal(purchase)
      BY <2>3 DEF BillingInvariant, JournalsHold, Posted
    <3> QED BY <1>7, <3>1
  <2> QED BY <2>1, <2>2, <2>3 DEF LedgerAgreesWithDocuments
<1>9. ImbalanceIsOnlyRounding
  <2>1. ASSUME purchase # Absent
        PROVE  Within(IF purchase.header.rate = RateScale THEN 0 ELSE Len(purchase.lines),
                      Gap(BillJournal(purchase)))
    <3>1. CASE purchase.header.rate = RateScale
      <4>1. Gap(BillJournal(purchase)) = 0
        BY <1>7, <2>1, <3>1
      <4> QED BY <3>1, <4>1 DEF Within
    <3>2. CASE purchase.header.rate # RateScale
      BY <1>7, <2>1, <3>2 DEF Within
    <3> QED BY <3>1, <3>2
  <2>2. ASSUME invoice # Absent
        PROVE  Within(IF invoice.header.rate = RateScale THEN 0 ELSE 2,
                      Gap(InvoiceJournal(invoice))
                        - 2 * InBase(invoice.header.rounding, invoice.header.rate))
    <3>1. CASE invoice.header.rate = RateScale
      <4>1. Gap(InvoiceJournal(invoice)) - 2 * InBase(invoice.header.rounding, invoice.header.rate) = 0
        BY <1>6, <2>2, <3>1
      <4> QED BY <3>1, <4>1 DEF Within
    <3>2. CASE invoice.header.rate # RateScale
      BY <1>6, <2>2, <3>2 DEF Within
    <3> QED BY <3>1, <3>2
  <2> QED BY <2>1, <2>2 DEF ImbalanceIsOnlyRounding
<1> QED BY <1>4, <1>5, <1>8, <1>9 DEF AmountsAgree

\* BR-011, BR-006, GL-011: at whatever rates, with whatever lines and header
\* discounts, the shares of a discount foot to the last unit, what is posted
\* is balanced and moves the control account by the document's total, and what
\* keeps a document from posting is the rounding of its lines and no more.
THEOREM AmountsAlwaysAgree == BillingSpec => []AmountsAgree
BY BillingInvariantHolds, InvariantImpliesAmountsAgree, PTL

-----------------------------------------------------------------------------
(* What is reversed of an invoice, in parts, against what it charges: both *)
(* are weighed in 200ths, so that a rounded tax is off by at most a half.  *)

Worth(l) == l.price * (200 + 2 * l.tax)

LEMMA LineWorth ==
  ASSUME NEW l \in FormLine, NEW q \in Nat
  PROVE  /\ Worth(l) \in Nat /\ l.price * q \in Nat /\ (l.price * q) * l.tax \in Nat
         /\ Worth(l) * q = 200 * (l.price * q) + 2 * ((l.price * q) * l.tax)
         /\ Worth(l) * q \in Nat
<1> DEFINE p == l.price
           t == l.tax
           x == p * q
           y == x * t
<1>1. p \in Nat /\ t \in Nat
  BY DEF FormLine, Hundred
<1>2. Worth(l) = p * (200 + 2 * t)
  BY DEF Worth
<1> HIDE DEF p, t
<1>3. x \in Nat /\ y \in Nat /\ p * (200 + 2 * t) \in Nat
  BY <1>1
<1>4. (p * (200 + 2 * t)) * q = 200 * (p * q) + 2 * ((p * q) * t)
  BY <1>1
<1> QED BY <1>2, <1>3, <1>4 DEF p, t

LEMMA NoteReverses ==
  ASSUME NEW inv, IsFiniteSet(DOMAIN inv.lines),
         \A i \in DOMAIN inv.lines : inv.lines[i] \in FormLine,
         NEW doc, ReversalOf(doc, inv),
         NEW worths, \A i \in DOMAIN inv.lines : worths[i] = Worth(inv.lines[i]) * doc.taken[i]
  PROVE  LET j == JournalOver(inv, doc)
             row == SumFunctionOnSet(worths, DOMAIN inv.lines)
         IN  j.control \in Int /\ row \in Int /\ -(200 * j.control) <= row + 100
<1> DEFINE S == DOMAIN inv.lines
           lines == inv.lines
           taken == doc.taken
           j == JournalOver(inv, doc)
           list == [i \in S |-> lines[i].price * taken[i]]
           taxed == [i \in S |-> list[i] * lines[i].tax]
           net == SumFunctionOnSet(list, S)
           due == SumFunctionOnSet(taxed, S)
           tax == Nearest(due, 100)
           g == [i \in S |-> 200 * list[i]]
           h == [i \in S |-> 2 * taxed[i]]
           row == SumFunctionOnSet(worths, S)
<1>1. DOMAIN taken = S /\ \A i \in S : taken[i] \in Nat
  BY DEF ReversalOf
<1>2. j.control = -(net + tax)
  <2>1. list = [i \in DOMAIN doc.taken |-> inv.lines[i].price * doc.taken[i]] /\ DOMAIN list = S
    BY <1>1
  <2>2. taxed = [i \in DOMAIN list |-> list[i] * inv.lines[i].tax] /\ DOMAIN taxed = S
    OBVIOUS
  <2>3. net = Total(list) /\ due = Total(taxed)
    BY <2>1, <2>2 DEF Total
  <2> HIDE DEF list, taxed, net, due
  <2> QED BY <2>1, <2>2, <2>3 DEF JournalOver, Hundred
<1>3. \A i \in S : /\ list[i] = lines[i].price * taken[i] /\ taxed[i] = list[i] * lines[i].tax
                   /\ g[i] = 200 * list[i] /\ h[i] = 2 * taxed[i]
  OBVIOUS
<1>4. IsFiniteSet(S) /\ \A i \in S : lines[i] \in FormLine /\ worths[i] = Worth(lines[i]) * taken[i]
  OBVIOUS
<1> HIDE DEF S, lines, taken, j, list, taxed, g, h
<1>5. ASSUME NEW i \in S
      PROVE  /\ list[i] \in Nat /\ taxed[i] \in Nat
             /\ g[i] = 200 * list[i] /\ h[i] = 2 * taxed[i]
             /\ g[i] \in Int /\ h[i] \in Int /\ worths[i] = g[i] + h[i] /\ worths[i] \in Int
  <2> DEFINE l == lines[i]
             q == taken[i]
             w == Worth(l) * q
             x == l.price * q
             y == x * l.tax
  <2>1. l \in FormLine /\ q \in Nat
    BY <1>1, <1>4
  <2>2. x \in Nat /\ y \in Nat /\ w = 200 * x + 2 * y /\ w \in Nat
    BY <2>1, LineWorth
  <2>3. list[i] = x /\ taxed[i] = y /\ worths[i] = w /\ g[i] = 200 * list[i] /\ h[i] = 2 * taxed[i]
    BY <1>3, <1>4
  <2> HIDE DEF w, x, y
  <2> QED BY <2>2, <2>3
<1>6. net \in Int /\ due \in Int /\ row \in Int
  BY <1>4, <1>5, SumType
<1>7. SumFunctionOnSet(g, S) = 200 * net
  <2>1. 200 \in Int /\ \A i \in S : list[i] \in Int /\ g[i] = 200 * list[i]
    BY <1>5
  <2> QED BY <1>4, <2>1, SumScale
<1>8. SumFunctionOnSet(h, S) = 2 * due
  <2>1. 2 \in Int /\ \A i \in S : taxed[i] \in Int /\ h[i] = 2 * taxed[i]
    BY <1>5
  <2> QED BY <1>4, <2>1, SumScale
<1>9. row = SumFunctionOnSet(g, S) + SumFunctionOnSet(h, S)
  <2>1. \A i \in S : g[i] \in Int /\ h[i] \in Int /\ worths[i] = g[i] + h[i]
    BY <1>5
  <2> QED BY <1>4, <2>1, SumPlus
<1> HIDE DEF net, due, row
<1>10. tax \in Int /\ 200 * tax <= 2 * due + 100
  BY <1>6, NearestHundred
<1> HIDE DEF tax
<1>11. j.control \in Int /\ row \in Int /\ -(200 * j.control) <= row + 100
  BY <1>2, <1>6, <1>7, <1>8, <1>9, <1>10
<1> QED BY <1>11 DEF j, row, S

LEMMA InvoiceCharges ==
  ASSUME NEW inv, SalesSheet(inv.lines, inv.amounts), Undiscounted(inv),
         \A i \in DOMAIN inv.lines : ~inv.lines[i].inclusive,
         NEW worths, \A i \in DOMAIN inv.lines :
                       worths[i] = Worth(inv.lines[i]) * inv.lines[i].quantity
  PROVE  LET S == DOMAIN inv.lines
             charged == Total(Bases(inv.amounts)) + Total(Taxes(inv.amounts))
         IN  /\ SumFunctionOnSet(worths, S) \in Int /\ charged \in Int
             /\ SumFunctionOnSet(worths, S) <= 200 * charged + 100 * Cardinality(S)
<1> DEFINE S == DOMAIN inv.lines
           lines == inv.lines
           a == inv.amounts
           bases == Bases(a)
           taxes == Taxes(a)
           both == [i \in S |-> bases[i] + taxes[i]]
           scaled == [i \in S |-> 200 * both[i]]
           halves == [i \in S |-> 100]
           most == [i \in S |-> scaled[i] + halves[i]]
           sum(f) == SumFunctionOnSet(f, S)
<1>1. /\ IsFiniteSet(S) /\ DOMAIN bases = S /\ DOMAIN taxes = S
      /\ \A i \in S : bases[i] = a[i].base /\ taxes[i] = a[i].tax
  BY DEF SalesSheet, Bases, Taxes
<1>2. ASSUME NEW i \in S
      PROVE  /\ a[i].base \in Int /\ a[i].tax \in Int /\ worths[i] \in Int
             /\ worths[i] <= 200 * (a[i].base + a[i].tax) + 100
  <2> DEFINE l == lines[i]
             q == l.quantity
             x == l.price * q
             y == x * l.tax
  <2>1. /\ l \in FormLine /\ l.off = 0 /\ ~l.inclusive /\ a[i].share = 0
        /\ a[i].gross = Gross(l) /\ a[i].off = LineDiscount(l)
        /\ a[i].base = a[i].net /\ a[i].tax = Nearest(a[i].net * l.tax, 100)
        /\ a[i].net = IF a[i].gross - a[i].off - a[i].share < 0 THEN 0
                      ELSE a[i].gross - a[i].off - a[i].share
        /\ worths[i] = Worth(l) * q
    BY DEF SalesSheet, Undiscounted
  <2>2. q \in Nat /\ l.price \in Nat
    BY <2>1 DEF FormLine
  <2>3. x \in Nat /\ y \in Nat /\ Worth(l) * q = 200 * x + 2 * y
    BY <2>1, <2>2, LineWorth
  <2>4. Gross(l) = x
    BY <2>2 DEF Gross
  <2>5. LineDiscount(l) = 0
    <3>1. Gross(l) * 0 = 0 /\ 0 = 0 * 100 /\ 0 \in Int /\ 100 \in Nat \ {0}
      BY <2>3, <2>4
    <3>2. Nearest(0, 100) = 0
      BY <3>1, NearestWithin
    <3> QED BY <2>1, <3>1, <3>2 DEF LineDiscount, Hundred
  <2> HIDE DEF x
  <2>6. a[i].net = x /\ a[i].net * l.tax = y
    <3>1. a[i].gross - a[i].off - a[i].share = x
      BY <2>1, <2>3, <2>4, <2>5
    <3>2. ~(x < 0)
      BY <2>3
    <3> QED BY <2>1, <3>1, <3>2
  <2> DEFINE tax == Nearest(y, 100)
             w == Worth(l) * q
  <2>7. a[i].base = x /\ a[i].tax = tax /\ worths[i] = w /\ w = 200 * x + 2 * y
    BY <2>1, <2>3, <2>6
  <2> HIDE DEF y, w
  <2>8. tax \in Int /\ 2 * y - 100 <= 200 * tax
    BY <2>3, NearestHundred
  <2> HIDE DEF tax
  <2> QED BY <2>3, <2>7, <2>8
<1>3. ASSUME NEW i \in S
      PROVE  /\ bases[i] \in Int /\ taxes[i] \in Int /\ both[i] = bases[i] + taxes[i] /\ both[i] \in Int
             /\ scaled[i] = 200 * both[i] /\ halves[i] = 100 /\ most[i] = scaled[i] + halves[i]
             /\ scaled[i] \in Int /\ halves[i] \in Int /\ most[i] \in Int
             /\ worths[i] \in Int /\ worths[i] <= most[i]
  <2>1. /\ both[i] = bases[i] + taxes[i] /\ scaled[i] = 200 * both[i] /\ halves[i] = 100
        /\ most[i] = scaled[i] + halves[i]
    OBVIOUS
  <2>2. /\ bases[i] \in Int /\ taxes[i] \in Int /\ worths[i] \in Int
        /\ worths[i] <= 200 * (bases[i] + taxes[i]) + 100
    BY <1>1, <1>2
  <2> HIDE DEF bases, taxes, both, scaled, halves, most
  <2> QED BY <2>1, <2>2
<1> HIDE DEF S, lines, a, bases, taxes, both, scaled, halves, most
<1>4. sum(worths) \in Int /\ sum(bases) \in Int /\ sum(taxes) \in Int
  BY <1>1, <1>3, SumType
<1>5. sum(both) = sum(bases) + sum(taxes)
  BY <1>1, <1>3, SumPlus
<1>6. sum(scaled) = 200 * sum(both)
  <2> DEFINE k == 200
  <2>1. k \in Int /\ \A i \in S : both[i] \in Int /\ scaled[i] = k * both[i]
    BY <1>3
  <2> HIDE DEF k
  <2>2. SumFunctionOnSet(scaled, S) = k * SumFunctionOnSet(both, S)
    BY <1>1, <2>1, SumScale
  <2> QED BY <2>2 DEF k
<1>7. sum(halves) = 100 * Cardinality(S) /\ Cardinality(S) \in Nat
  <2>1. \A i \in S : halves[i] = 100
    BY <1>3
  <2>2. 100 \in Int
    OBVIOUS
  <2> QED BY <1>1, <2>1, <2>2, SumOfSame, FS_CardinalityType
<1>8. sum(most) = sum(scaled) + sum(halves)
  BY <1>1, <1>3, SumPlus
<1>9. sum(worths) <= sum(most)
  BY <1>1, <1>3, SumOrdered
<1>10. Total(bases) = sum(bases) /\ Total(taxes) = sum(taxes)
  BY <1>1 DEF Total
<1> HIDE DEF sum
<1> DEFINE charged == Total(bases) + Total(taxes)
<1>11. charged \in Int /\ sum(worths) \in Int /\ sum(worths) <= 200 * charged + 100 * Cardinality(S)
  BY <1>4, <1>5, <1>6, <1>7, <1>8, <1>9, <1>10
<1> QED BY <1>11 DEF sum, bases, taxes, a, S

LEMMA ReversedWithin ==
  ASSUME NEW inv, SalesSheet(inv.lines, inv.amounts), Undiscounted(inv),
         \A i \in DOMAIN inv.lines : ~inv.lines[i].inclusive,
         NEW P, IsFiniteSet(P), NEW docs, \A n \in P : ReversalOf(docs[n], inv),
         \A i \in DOMAIN inv.lines :
           SumFunctionOnSet([n \in P |-> docs[n].taken[i]], P) <= inv.lines[i].quantity,
         NEW spent, \A n \in P : spent[n] = JournalOver(inv, docs[n]).control
  PROVE  LET charged == Total(Bases(inv.amounts)) + Total(Taxes(inv.amounts))
         IN  /\ SumFunctionOnSet(spent, P) \in Int /\ charged \in Int
             /\ -(2 * SumFunctionOnSet(spent, P))
                  <= 2 * charged + Cardinality(P) + Cardinality(DOMAIN inv.lines)
<1> DEFINE S == DOMAIN inv.lines
           lines == inv.lines
           charged == Total(Bases(inv.amounts)) + Total(Taxes(inv.amounts))
           c == [i \in S |-> Worth(lines[i])]
           m == [n \in P |-> [i \in S |-> c[i] * docs[n].taken[i]]]
           mm == [i \in S |-> [n \in P |-> c[i] * docs[n].taken[i]]]
           took == [i \in S |-> [n \in P |-> docs[n].taken[i]]]
           rows == [n \in P |-> SumFunctionOnSet(m[n], S)]
           cols == [i \in S |-> SumFunctionOnSet(mm[i], P)]
           v == [i \in S |-> c[i] * lines[i].quantity]
           neg == [n \in P |-> (-200) * spent[n]]
           halves == [n \in P |-> 100]
           most == [n \in P |-> rows[n] + halves[n]]
           sum(f) == SumFunctionOnSet(f, P)
<1>1. IsFiniteSet(S) /\ \A i \in S : lines[i] \in FormLine
  BY DEF SalesSheet
<1>2. \A i \in S : /\ c[i] = Worth(lines[i]) /\ c[i] \in Nat
                   /\ lines[i].quantity \in Nat /\ v[i] = c[i] * lines[i].quantity
  <2>1. ASSUME NEW i \in S
        PROVE  /\ c[i] = Worth(lines[i]) /\ c[i] \in Nat
               /\ lines[i].quantity \in Nat /\ v[i] = c[i] * lines[i].quantity
    <3>1. lines[i] \in FormLine
      BY <1>1
    <3>2. lines[i].quantity \in Nat
      BY <3>1 DEF FormLine
    <3> QED BY <3>1, <3>2, LineWorth
  <2> QED BY <2>1
<1>3. \A n \in P : \A i \in S : docs[n].taken[i] \in Nat
  BY DEF ReversalOf
<1>4. \A n \in P : \A i \in S : /\ m[n][i] = c[i] * docs[n].taken[i] /\ mm[i][n] = m[n][i]
                                /\ m[n][i] \in Int /\ took[i][n] = docs[n].taken[i]
                                /\ took[i][n] \in Int
  <2>1. ASSUME NEW n \in P, NEW i \in S
        PROVE  /\ m[n][i] = c[i] * docs[n].taken[i] /\ mm[i][n] = m[n][i]
               /\ m[n][i] \in Int /\ took[i][n] = docs[n].taken[i] /\ took[i][n] \in Int
    <3>1. /\ m[n][i] = c[i] * docs[n].taken[i] /\ mm[i][n] = c[i] * docs[n].taken[i]
          /\ took[i][n] = docs[n].taken[i]
      OBVIOUS
    <3> HIDE DEF m, mm, took, c
    <3>2. c[i] \in Nat /\ docs[n].taken[i] \in Nat
      BY <1>2, <1>3
    <3> QED BY <3>1, <3>2
  <2> QED BY <2>1
<1>5. \A i \in S : sum(took[i]) <= lines[i].quantity
  OBVIOUS
<1>6. /\ \A n \in P : /\ rows[n] = SumFunctionOnSet(m[n], S) /\ neg[n] = (-200) * spent[n]
                      /\ halves[n] = 100 /\ most[n] = rows[n] + halves[n]
      /\ \A i \in S : cols[i] = SumFunctionOnSet(mm[i], P)
  OBVIOUS
<1>7. SumFunctionOnSet(v, S) \in Int /\ charged \in Int
      /\ SumFunctionOnSet(v, S) <= 200 * charged + 100 * Cardinality(S)
  <2>1. \A i \in DOMAIN inv.lines : v[i] = Worth(inv.lines[i]) * inv.lines[i].quantity
    BY <1>2
  <2> HIDE DEF v
  <2> QED BY <2>1, InvoiceCharges
<1> HIDE DEF c, m, mm, took, rows, cols, v, neg, halves, most, charged
<1>8. ASSUME NEW n \in P
      PROVE  /\ spent[n] \in Int /\ rows[n] \in Int
             /\ neg[n] \in Int /\ most[n] \in Int /\ neg[n] <= most[n]
  <2> DEFINE doc == docs[n]
             worths == m[n]
             j == JournalOver(inv, doc)
  <2>1. ReversalOf(doc, inv) /\ spent[n] = j.control
    OBVIOUS
  <2>2. \A i \in DOMAIN inv.lines : worths[i] = Worth(inv.lines[i]) * doc.taken[i]
    BY <1>2, <1>4
  <2>3. /\ IsFiniteSet(DOMAIN inv.lines) /\ \A i \in DOMAIN inv.lines : inv.lines[i] \in FormLine
    BY <1>1
  <2> HIDE DEF doc, worths
  <2>4. /\ j.control \in Int /\ SumFunctionOnSet(worths, DOMAIN inv.lines) \in Int
        /\ -(200 * j.control) <= SumFunctionOnSet(worths, DOMAIN inv.lines) + 100
    BY <2>1, <2>2, <2>3, NoteReverses
  <2>5. rows[n] = SumFunctionOnSet(worths, DOMAIN inv.lines)
    BY <1>6 DEF worths
  <2>6. neg[n] = (-200) * spent[n] /\ most[n] = rows[n] + 100
    BY <1>6
  <2> HIDE DEF j
  <2> QED BY <2>1, <2>4, <2>5, <2>6
<1>9. sum(rows) = SumFunctionOnSet(cols, S)
  <2>1. Tallied(P, S, m, mm, rows, cols)
    <3>1. \A n \in P, i \in S : m[n][i] \in Int /\ mm[i][n] = m[n][i]
      BY <1>4
    <3> QED BY <1>6, <3>1 DEF Tallied
  <2> QED BY <1>1, <2>1, SumExchange
<1>10. ASSUME NEW i \in S PROVE cols[i] \in Int /\ v[i] \in Int /\ cols[i] <= v[i]
  <2> DEFINE f == took[i]
             g == mm[i]
             k == c[i]
             q == lines[i].quantity
  <2>1. k \in Nat /\ q \in Nat /\ v[i] = k * q
    BY <1>2
  <2>2. \A n \in P : f[n] \in Int /\ g[n] = k * f[n]
    <3>1. ASSUME NEW n \in P PROVE f[n] \in Int /\ g[n] = k * f[n]
      <4>1. /\ m[n][i] = c[i] * docs[n].taken[i] /\ mm[i][n] = m[n][i]
            /\ took[i][n] = docs[n].taken[i] /\ took[i][n] \in Int
        BY <1>4
      <4> QED BY <4>1
    <3> QED BY <3>1
  <2>3. sum(f) <= q
    BY <1>5
  <2>4. cols[i] = sum(g)
    BY <1>6
  <2> HIDE DEF f, g, k, q
  <2>5. sum(f) \in Int
    BY <2>2, SumType
  <2>6. sum(g) = k * sum(f)
    BY <2>1, <2>2, SumScale
  <2> DEFINE z == sum(f)
  <2>7. z \in Int /\ z <= q /\ cols[i] = k * z
    BY <2>3, <2>4, <2>5, <2>6
  <2> HIDE DEF z
  <2> QED BY <2>1, <2>7, TimesGrows
<1>11. SumFunctionOnSet(cols, S) <= SumFunctionOnSet(v, S)
  BY <1>1, <1>10, SumOrdered
<1>12. sum(spent) \in Int /\ sum(rows) \in Int
  BY <1>8, SumType
<1>13. sum(neg) = (-200) * sum(spent)
  <2> DEFINE k == -200
  <2>1. k \in Int /\ \A n \in P : spent[n] \in Int /\ neg[n] = k * spent[n]
    BY <1>6, <1>8
  <2> HIDE DEF k
  <2>2. SumFunctionOnSet(neg, P) = k * SumFunctionOnSet(spent, P)
    BY <2>1, SumScale
  <2> QED BY <2>2 DEF k
<1>14. sum(halves) = 100 * Cardinality(P) /\ Cardinality(P) \in Nat
  <2>1. (\A n \in P : halves[n] = 100) /\ 100 \in Int
    BY <1>6
  <2> QED BY <2>1, SumOfSame, FS_CardinalityType
<1>15. sum(most) = sum(rows) + sum(halves)
  <2>1. \A n \in P : rows[n] \in Int /\ halves[n] \in Int /\ most[n] = rows[n] + halves[n]
    BY <1>6, <1>8
  <2> QED BY <2>1, SumPlus
<1>16. sum(neg) <= sum(most)
  <2>1. \A n \in P : neg[n] \in Int /\ most[n] \in Int /\ neg[n] <= most[n]
    BY <1>8
  <2> QED BY <2>1, SumOrdered
<1>17. Cardinality(S) \in Nat
  BY <1>1, FS_CardinalityType
<1> DEFINE x == sum(spent)
           y == sum(rows)
           z == SumFunctionOnSet(v, S)
           p == Cardinality(P)
           k == Cardinality(S)
<1>18. /\ x \in Int /\ y \in Int /\ z \in Int /\ p \in Nat /\ k \in Nat /\ charged \in Int
       /\ (-200) * x <= y + 100 * p /\ y <= z /\ z <= 200 * charged + 100 * k
  BY <1>7, <1>9, <1>11, <1>12, <1>13, <1>14, <1>15, <1>16, <1>17
<1> HIDE DEF x, y, z, p, k
<1>19. -(2 * x) <= 2 * charged + p + k
  BY <1>18
<1> QED BY <1>18, <1>19 DEF x, p, k, charged, S

LEMMA InvariantImpliesReversalsStay == ASSUME BillingInvariant PROVE ReversalsStayWithinInvoice
<1> SUFFICES ASSUME Posted("invoice"), InTheirOwnTerms, NEW kind \in ReversalKinds
             PROVE  -Total([n \in PostedOf(kind) |-> journal[n].control])
                      <= journal["invoice"].control + Halves(kind) \div 2
  BY DEF ReversalsStayWithinInvoice
<1> DEFINE P == PostedOf(kind)
           spent == [n \in P |-> journal[n].control]
           h == invoice.header
           a == invoice.amounts
           S == DOMAIN invoice.lines
           charged == Total(Bases(a)) + Total(Taxes(a))
           c == journal["invoice"].control
           x == SumFunctionOnSet(spent, P)
<1>1. journal["invoice"] # Absent /\ invoice # Absent /\ journal["invoice"] = InvoiceJournal(invoice)
  BY DEF BillingInvariant, JournalsHold, Posted
<1>2. Sale(invoice) /\ Undiscounted(invoice)
  BY <1>1 DEF BillingInvariant, InvoiceHolds
<1>3. SalesSheet(invoice.lines, a) /\ IsFiniteSet(S)
  BY <1>2 DEF Sale, SalesSheet
<1>4. h.rate = RateScale /\ \A i \in S : ~invoice.lines[i].inclusive
  BY DEF InTheirOwnTerms
<1>5. c = charged /\ c \in Int
  <2>1. /\ h.rate \in Nat /\ h.base \in Int /\ h.tax \in Int /\ h.rounding \in Int
        /\ h.base = Total(Bases(a)) /\ h.tax = Total(Taxes(a))
        /\ h.total = h.base + h.tax + h.rounding
    BY <1>2, SaleIsFair
  <2>2. Gap(journal["invoice"]) = 0
    <3>1. Balanced(journal["invoice"])
      BY <1>1 DEF BillingInvariant, JournalsHold
    <3> QED BY <3>1 DEF Balanced, Gap
  <2>3. /\ c = InBase(h.total, h.rate)
        /\ Gap(journal["invoice"]) - 2 * InBase(h.rounding, h.rate) = 0
    BY <1>1, <1>4, <2>1, InvoiceGap
  <2>4. InBase(h.rounding, h.rate) = h.rounding /\ InBase(h.total, h.rate) = h.total
    <3>1. h.total \in Int
      BY <2>1
    <3> HIDE DEF h
    <3> QED BY <1>4, <2>1, <3>1, InBaseBounds
  <2> QED BY <2>1, <2>2, <2>3, <2>4
<1>6. IsFiniteSet(P) /\ P \subseteq Reversals
  BY BillingAssumption, FS_Subset DEF PostedOf, Of
<1>7. ASSUME NEW n \in P
      PROVE  /\ n \in NotesOf(reversal, kind) /\ reversal[n] # Absent
             /\ ReversalOf(reversal[n], invoice)
             /\ spent[n] = JournalOver(invoice, reversal[n]).control
  <2>1. n \in Reversals /\ reversal[n] # Absent /\ reversal[n].kind = kind /\ journal[n] # Absent
    BY DEF PostedOf, Of, Posted
  <2>2. journal[n] = JournalOver(invoice, reversal[n])
    BY <2>1 DEF BillingInvariant, JournalsHold
  <2>3. ReversalOf(reversal[n], invoice)
    BY <2>1 DEF BillingInvariant, ReversalsHold
  <2> QED BY <2>1, <2>2, <2>3 DEF NotesOf
<1>8. ASSUME NEW i \in S
      PROVE  SumFunctionOnSet([n \in P |-> reversal[n].taken[i]], P) <= invoice.lines[i].quantity
  <2> DEFINE N == NotesOf(reversal, kind)
             f == TakenOf(reversal, kind, i)
             g == [n \in P |-> reversal[n].taken[i]]
             q == invoice.lines[i].quantity
  <2>1. IsFiniteSet(N) /\ P \subseteq N
    BY <1>7, BillingAssumption, FS_Subset DEF NotesOf
  <2>2. DOMAIN f = N /\ \A n \in N : f[n] = reversal[n].taken[i]
    BY DEF TakenOf
  <2>3. \A n \in N : f[n] \in Nat
    <3>1. ASSUME NEW n \in N PROVE f[n] \in Nat
      <4>1. n \in Reversals /\ reversal[n] # Absent
        BY DEF NotesOf
      <4>2. ReversalOf(reversal[n], invoice)
        BY <4>1 DEF BillingInvariant, ReversalsHold
      <4> QED BY <2>2, <4>2 DEF ReversalOf
    <3> QED BY <3>1
  <2>4. Total(f) <= q
    BY <1>1 DEF BillingInvariant, ReversalsHold, WithinQuantities
  <2>5. q \in Nat
    <3>1. invoice.lines[i] \in FormLine
      BY <1>3 DEF SalesSheet
    <3> QED BY <3>1 DEF FormLine
  <2>6. \A n \in P : f[n] = g[n]
    BY <2>1, <2>2
  <2> HIDE DEF N, f, g, q, P
  <2>7. /\ SumFunctionOnSet(f, P) \in Nat /\ SumFunctionOnSet(f, N) \in Nat
        /\ SumFunctionOnSet(f, P) <= SumFunctionOnSet(f, N)
    BY <2>1, <2>3, SumSubset
  <2>8. SumFunctionOnSet(f, P) = SumFunctionOnSet(g, P)
    BY <1>6, <2>6, SumAgrees
  <2>9. SumFunctionOnSet(g, P) <= q
    BY <2>2, <2>4, <2>5, <2>7, <2>8 DEF Total
  <2> QED BY <2>9 DEF g, q
<1>9. DOMAIN spent = P
  OBVIOUS
<1> HIDE DEF P, spent
<1>10. x \in Int /\ charged \in Int /\ -(2 * x) <= 2 * charged + Cardinality(P) + Cardinality(S)
  BY <1>2, <1>3, <1>4, <1>6, <1>7, <1>8, ReversedWithin
<1>11. Cardinality(P) \in Nat /\ Cardinality(S) \in Nat
  BY <1>3, <1>6, FS_CardinalityType
<1>12. Halves(kind) = Cardinality(P) + Cardinality(S)
  BY DEF Halves, P
<1>13. Total(spent) = x
  BY <1>9 DEF Total
<1> HIDE DEF x, charged, c
<1> DEFINE k == Cardinality(P)
           l == Cardinality(S)
<1>14. -x <= c + (k + l) \div 2
  <2>1. x \in Int /\ charged \in Int /\ c = charged /\ k \in Nat /\ l \in Nat /\ -(2 * x) <= 2 * charged + k + l
    BY <1>5, <1>10, <1>11
  <2> HIDE DEF k, l
  <2> QED BY <2>1
<1> QED BY <1>12, <1>13, <1>14 DEF spent, c, P

\* RET-001, RET-004: in however many parts an invoice is credited or returned,
\* at whatever prices, quantities and tax rates, its credit notes together give
\* back no more than it charged, but for half a unit a note and a line, and so
\* do its returns.
THEOREM ReversalsAlwaysWithinInvoice == BillingSpec => []ReversalsStayWithinInvoice
BY BillingInvariantHolds, InvariantImpliesReversalsStay, PTL

=============================================================================
