-------------------------- MODULE MCStripeCheckout --------------------------
(***************************************************************************)
(* One invoice of two units, so that links over one and over two can exist *)
(* side by side.  Stripe charges in twos: the link over one is rounded up. *)
(***************************************************************************)
EXTENDS StripeCheckout, TLC

CONSTANTS i1, l1, l2, w1, w2

Totals2 == [i \in Invoices |-> 2]
\* Bounds: a payment takes its time only while there is one link; a link
\* that is paid so has one request settling it at a time; while there are two
\* links, two requests are at work at once only where both post a receipt.
OneLinkAtATime ==
  LET opened == {l \in Links : session[l] # NoSession}
  IN  /\ opened # {} /\ opened \subseteq Delayed =>
           \E w \in Workers : worker[w].at \in {"idle", "loaded", "replacing"}
      /\ opened = Links =>
           /\ \/ \E w \in Workers : worker[w] = Idle
              \/ \A w \in Workers : worker[w].at \in {"recorded", "posting"}
           /\ \A l \in Links : /\ session[l].state \notin {"processing", "failed"}
                               /\ "async_payment_succeeded" \notin event[l]

Symmetric == Permutations(Workers)
=============================================================================
