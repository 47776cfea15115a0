---------------------------- MODULE MCAiSummary ----------------------------
(* Two threads of one worker.  In one use they ask for everything while
   entries are posted and midnight passes, in the other they run up the
   counter, and the worker is restarted. *)
EXTENDS AiSummary, TLC

CONSTANTS t1, t2, w1, ann
TwoThreads == {t1, t2}
OneWorker == {w1}
Shared == (t1 :> w1 @@ t2 :> w1)
EitherThread == Permutations(TwoThreads)

\* Days 2 to 4, of which 2 and 3 pass.
MonthOfThree == [from |-> 2, to |-> 4]
Days(a, b) == [from |-> a, to |-> b]

\* No dates; one of two, or the wrong way round; ahead of the first day; good ones.
Everything ==
  {[kind |-> k, given |-> FALSE, dates |-> NoDates] : k \in {"page", "csv"}}
  \cup {[kind |-> "csv", given |-> TRUE, dates |-> d] : d \in {Days(3, 2), Days(2, 3)}}
  \cup {[kind |-> "post", given |-> TRUE, dates |-> d] : d \in {NoDates, Days(2, 2)}}
OnlyPosts == [kind : {"post"}, given : {TRUE}, dates : {Days(1, 2)}]
BothUses ==
  {[queries |-> Everything, requests |-> 3, postings |-> 2, ticks |-> 1, deaths |-> 0],
   [queries |-> OnlyPosts, requests |-> 5, postings |-> 0, ticks |-> 0, deaths |-> 1]}
=============================================================================
