------------------------------ MODULE Documents ------------------------------
(***************************************************************************)
(* The documents of the trade cycle and the users who work on them: orders,*)
(* deliveries, invoices, receipts, bills, returns, notes, transfers and    *)
(* adjustments, each of one line.                                          *)
(*                                                                         *)
(* A request loads the document, and the lines it hangs on, without a lock *)
(* and tests what it loaded; its transaction comes later and writes.  The  *)
(* two are separate steps, so that requests overlap.                       *)
(***************************************************************************)
EXTENDS Integers, FiniteSets, Functions

CONSTANTS
  Kind,          \* the kind of each document: its domain are the documents
  NoDoc,         \* a document entered without a source
  Plans,         \* bound: the sets of documents a behaviour may use
  Approved,      \* orders approved before the behaviour starts
  Callers,       \* bound: requests in flight
  Quantities,    \* bound: the quantities entered
  AutoApproved   \* documents whose kind or reason needs no approval

Kinds == {"SO", "DN", "SI", "SR", "CN", "PO", "GR", "PB", "PR", "DBN", "ST", "SA"}
Docs == DOMAIN Kind

ASSUME KindAssumption == Kind \in [Docs -> Kinds] /\ IsFiniteSet(Docs) /\ NoDoc \notin Docs
ASSUME QuantityAssumption == Quantities \subseteq Nat \ {0}
ASSUME PlanAssumption ==
  /\ Plans \subseteq SUBSET Docs /\ AutoApproved \subseteq Docs
  /\ \A d \in Approved : d \in Docs /\ Kind[d] \in {"SO", "PO"}

VARIABLES
  doc,      \* the document rows
  written,  \* the documents whose idempotency keys are in the database
  call      \* the requests in flight

docVars == <<doc, written, call>>

DocumentStatus == {"DRAFT", "SUBMITTED", "APPROVED", "REJECTED", "POSTED",
                   "PARTIAL", "COMPLETED"}

\* The disposition of a return, the direction of an adjustment.
Effects == {"", "RESTOCK", "WRITE_OFF", "NO_STOCK_EFFECT", "increase", "decrease"}

\* source: the document whose line this one's line refers to.  cost: the unit
\* cost on the line.  value: what its posting moved through inventory.
Document == [status : DocumentStatus, source : Docs \cup {NoDoc}, qty : Quantities,
             cost : Nat, value : Nat, how : Effects]
Blank == [status |-> "NONE"]
Unused == [status |-> "UNUSED"]

Idle == [step |-> "idle"]
Steps == {"submit", "approve", "reject", "post"}

DocumentsInit ==
  /\ \E plan \in Plans, q \in Quantities :
       doc = [d \in Docs |->
         IF d \notin plan THEN Unused
         ELSE IF d \notin Approved THEN Blank
         ELSE [status |-> "APPROVED", source |-> NoDoc, qty |-> q, cost |-> 0,
               value |-> 0, how |-> ""]]
  /\ written = {}
  /\ call = [c \in Callers |-> Idle]

Exists(d) == doc[d].status \in DocumentStatus
Entered == {d \in Docs : Exists(d)}
Of(kind) == {d \in Docs : Kind[d] = kind}
From(kind, source) == {d \in Of(kind) : Exists(d) /\ doc[d].source = source}
SumOver(S, op(_)) == SumFunctionOnSet([x \in S |-> op(x)], S)
QtyOf(docs) == SumOver(docs, LAMBDA d : doc[d].qty)
ValueOf(docs) == SumOver(docs, LAMBDA d : doc[d].value)

\* A new draft.
Draft(d, source, q, cost, how) ==
  /\ doc[d] = Blank
  /\ q \in Quantities
  /\ doc' = [doc EXCEPT ![d] = [status |-> "DRAFT", source |-> source, qty |-> q,
                                cost |-> cost, value |-> 0, how |-> how]]
  /\ UNCHANGED <<written, call>>

-----------------------------------------------------------------------------
(* Requests.                                                               *)

\* The states each service accepts; it raises in every other.
Accepts(step, kind) ==
  CASE step = "submit" /\ kind = "SI" -> {"DRAFT", "SUBMITTED"}
    [] step = "submit" /\ kind \in {"SO", "SR", "CN", "PO", "SA"} -> {"DRAFT", "REJECTED"}
    [] step = "approve" /\ kind \in {"SO", "SR", "CN", "PO"} -> {"SUBMITTED"}
    [] step = "approve" /\ kind = "SA" -> {"DRAFT", "SUBMITTED", "REJECTED"}
    [] step = "reject" /\ kind \in {"SO", "SR", "CN", "PO", "SA"} -> {"SUBMITTED"}
    [] step = "post" /\ kind \in {"DN", "GR", "PB", "PR", "DBN", "ST"} -> {"DRAFT"}
    [] step = "post" /\ kind \in {"SI", "SR", "CN"} -> {"SUBMITTED"}
    [] step = "post" /\ kind = "SA" -> {"APPROVED"}
    [] OTHER -> {}

\* The view loads the document; the service tests the status it loaded.  read
\* is the counter of the source line as it was loaded with it.
Load(c, step, d, read) ==
  /\ call[c] = Idle
  /\ doc[d].status \in Accepts(step, Kind[d])
  /\ call' = [call EXCEPT ![c] = [step |-> step, doc |-> d, read |-> read]]
  /\ UNCHANGED <<doc, written>>

\* A purchase order or an adjustment that needs no sign-off is approved by the
\* call that submits it.
Outcome(step, d) ==
  CASE step = "submit" -> IF d \in AutoApproved THEN "APPROVED" ELSE "SUBMITTED"
    [] step = "approve" -> "APPROVED"
    [] step = "reject" -> "REJECTED"

\* Submitting, approving and rejecting save the header without a second look.
Decide(c) ==
  /\ call[c].step \in {"submit", "approve", "reject"}
  /\ doc' = [doc EXCEPT ![call[c].doc].status = Outcome(call[c].step, call[c].doc)]
  /\ call' = [call EXCEPT ![c] = Idle]
  /\ UNCHANGED written

\* The transaction of a post is about to write.
Posting(c, kind) == call[c].step = "post" /\ Kind[call[c].doc] = kind

\* What every post writes: its row, with the status and what it costed, and
\* its keys, which are unique.
Posted(d, cost, value) ==
  [doc EXCEPT ![d].status = "POSTED", ![d].cost = cost, ![d].value = value]
Post(c, rows) ==
  /\ doc' = rows
  /\ written' = written \cup {call[c].doc}
  /\ call' = [call EXCEPT ![c] = Idle]
NoKeys(d) == TRUE
KeysAreFree(d) == d \notin written

\* The call is refused, by a check or by a constraint, and rolled back; or its
\* process dies.
Abandon(c) ==
  /\ call[c] # Idle
  /\ call' = [call EXCEPT ![c] = Idle]
  /\ UNCHANGED <<doc, written>>
=============================================================================
