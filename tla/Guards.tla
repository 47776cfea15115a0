------------------------------- MODULE Guards -------------------------------
(***************************************************************************)
(* The guards the database itself keeps over the journal and over          *)
(* settlement: CHECK constraints on a row, triggers before a statement,    *)
(* and triggers deferred to the commit.  The writers are not the services  *)
(* of this repository but anything that can send SQL, each in a            *)
(* transaction of its own under READ COMMITTED: a statement may insert,    *)
(* change or delete any row the guards let through, in any order, with     *)
(* wrong totals, and be rolled back at any point.                          *)
(*                                                                         *)
(* A row is locked by the transaction that wrote it until that one ends.   *)
(* A deferred check is a function of several queries, and under READ       *)
(* COMMITTED each sees what was committed when it started: the reading     *)
(* order is kept, as two steps.                                            *)
(***************************************************************************)
EXTENDS Integers, FiniteSets, Functions

CONSTANTS
  Transactions,
  Entries, Lines, Periods,    \* rows of the journal
  Documents, Sources, Rows,   \* invoices and bills, payments and notes, allocations
  Type,         \* what each document and each source is
  Worth,        \* the amount of each document and source
  Amounts,      \* amounts of lines and of allocation rows
  Totals,       \* values written into totals
  Opening,      \* the committed rows to start from
  Worlds,       \* bound: the sets of rows a behaviour is about
  MaxStatements \* bound: the statements of each transaction

JournalTables == Entries \cup Lines \cup Periods
Balanced == Documents \cup Sources
SettlementTables == Balanced \cup Rows
Ids == JournalTables \cup SettlementTables
None == [none |-> TRUE]
Nothing == [id \in {} |-> None]

\* A row belongs to one table.
ASSUME TablesAssumption ==
  /\ (Entries \cup Lines) \cap Periods = {} /\ Entries \cap Lines = {}
  /\ Balanced \cap Rows = {} /\ Documents \cap Sources = {}
  /\ JournalTables \cap SettlementTables = {}
  /\ IsFiniteSet(Lines) /\ IsFiniteSet(Rows)
ASSUME GuardsAssumption ==
  /\ Amounts \subseteq Nat \ {0} /\ Totals \subseteq Nat
  /\ \A x \in Balanced : Worth[x] \in Nat
  /\ Worlds \subseteq {JournalTables, SettlementTables, Ids}
  /\ MaxStatements \in [Transactions -> Nat]

VARIABLES
  db,      \* what is committed: id -> row
  phase,   \* of each transaction
  writes,  \* what it has written: id -> row
  due,     \* what it will be asked about at the commit
  seen,    \* the answer to the first question of each check
  left,    \* how many statements it has left
  bare,    \* totals committed by a transaction that touched no allocation row of them
  loose,   \* totals a transaction left alone although it touched a row of them
  moved    \* totals a row was moved away from
vars == <<db, phase, writes, due, seen, left, bare, loose, moved>>

Init ==
  /\ \E world \in Worlds : db = [id \in world |-> Opening[id]]
  /\ phase = [t \in Transactions |-> "open"]
  /\ writes = [t \in Transactions |-> Nothing]
  /\ due = [t \in Transactions |-> {}]
  /\ seen = [t \in Transactions |-> Nothing]
  /\ left = MaxStatements
  /\ bare = {} /\ loose = {} /\ moved = {}

Written(t) == DOMAIN writes[t]
View(t) == [id \in DOMAIN db |-> IF id \in Written(t) THEN writes[t][id] ELSE db[id]]
Locked(t, id) == \E u \in Transactions \ {t} : id \in Written(u)
SumOver(S, op(_)) == SumFunctionOnSet([x \in S |-> op(x)], S)

----------------------------------------------------------------------------
(* What a statement may make of a row: the constraints of the table, and   *)
(* the triggers that run before it.                                        *)

\* journal_entry_balanced, journal_entry_totals_nonneg
EntryFits(e) == e.debit = e.credit /\ e.debit >= 0
\* journal_line_amounts_nonneg, journal_line_debit_xor_credit
LineFits(l) ==
  /\ l.debit >= 0 /\ l.credit >= 0
  /\ (l.debit > 0 /\ l.credit = 0) \/ (l.credit > 0 /\ l.debit = 0)

\* trg_journal_period_check, on insert only
period_check(t, new) == View(t)[new.period].status = "OPEN"
\* trg_journal_entry_immutable: no delete, and the identity is frozen
entry_immutable(old, new) == new # None /\ new.period = old.period
\* trg_journal_line_immutable
line_removable(old, new) == old = None \/ new = None
line_immutable(old, new) == old = None

EntryAccepts(t, old, new) ==
  IF old = None
  THEN new # None /\ EntryFits(new) /\ period_check(t, new)
  ELSE entry_immutable(old, new) /\ EntryFits(new)
LineAccepts(t, old, new) ==
  /\ line_immutable(old, new)
  /\ new # None => LineFits(new) /\ View(t)[new.entry] # None

\* sales_invoice_open_is_derived and its like: what is left is never negative
DocumentFitsPaid(x, d) == d.allocated <= Worth[x]
DocumentFits(x, d) == d.allocated + d.credited <= Worth[x]
\* payment_allocated_within_amount
SourceFits(x, s) == s.allocated <= Worth[x]
\* allocation_side_consistency, allocation_source_matches_type
RowFits(r) ==
  \/ /\ r.side = "CUSTOMER" /\ Type[r.target] = "SALES_INVOICE"
     /\ Type[r.source] \in {"PAYMENT", "SALES_CREDIT_NOTE"}
  \/ /\ r.side = "VENDOR" /\ Type[r.target] = "PURCHASE_BILL"
     /\ Type[r.source] \in {"PAYMENT", "VENDOR_DEBIT_NOTE"}

\* The rows a statement may try to leave behind.
Attempts(id) ==
  CASE id \in Entries -> {None} \cup [period : Periods, debit : Totals, credit : Totals]
    [] id \in Lines -> {None} \cup [entry : Entries, debit : Amounts \cup {0}, credit : Amounts \cup {0}]
    [] id \in Periods -> [status : {"OPEN", "CLOSED"}]
    [] id \in Documents -> [allocated : Totals, credited : Totals]
    [] id \in Sources -> [allocated : Totals]
    [] id \in Rows -> {None} \cup [side : {"CUSTOMER", "VENDOR"}, source : Sources,
                                   target : Documents, amount : Amounts, reversed : BOOLEAN]
Accepts(t, id, old, new) ==
  CASE id \in Entries -> EntryAccepts(t, old, new)
    [] id \in Lines -> LineAccepts(t, old, new)
    [] id \in Periods -> TRUE
    [] id \in Documents -> DocumentFits(id, new)
    [] id \in Sources -> SourceFits(id, new)
    [] id \in Rows -> new # None => RowFits(new)

----------------------------------------------------------------------------
(* What a statement puts off to the commit. *)
Coalesce(old, new) == IF new # None THEN new ELSE old
DueOfTargets(id, old, new) ==
  CASE id \in Entries -> {id}
    [] id \in Lines -> {Coalesce(old, new).entry}
    [] id \in Rows -> {Coalesce(old, new).target}
    [] OTHER -> {}
Due(id, old, new) ==
  CASE id \in Entries -> {id}
    [] id \in Lines -> {Coalesce(old, new).entry}
    [] id \in Rows -> {Coalesce(old, new).source, Coalesce(old, new).target}
    [] OTHER -> {}

Statement(t, id, new) ==
  LET old == View(t)[id]
  IN  /\ phase[t] = "open" /\ left[t] > 0
      /\ ~Locked(t, id)
      /\ old # None \/ new # None
      /\ Accepts(t, id, old, new)
      /\ writes' = [writes EXCEPT ![t] =
                      [x \in Written(t) \cup {id} |-> IF x = id THEN new ELSE @[x]]]
      /\ due' = [due EXCEPT ![t] = @ \cup Due(id, old, new)]
      /\ left' = [left EXCEPT ![t] = @ - 1]
      /\ UNCHANGED <<db, phase, seen, bare, loose, moved>>

\* The queries of wams_journal_balance_check and wams_allocation_consistency.
LinesOf(rows, e) == {l \in Lines : rows[l] # None /\ rows[l].entry = e}
Header(rows, e) == [debit |-> rows[e].debit, credit |-> rows[e].credit]
Booked(rows, e) == [debit |-> SumOver(LinesOf(rows, e), LAMBDA l : rows[l].debit),
                    credit |-> SumOver(LinesOf(rows, e), LAMBDA l : rows[l].credit)]
Live(rows) == {r \in Rows : rows[r] # None /\ ~rows[r].reversed}
Settled(rows, x, types) ==
  SumOver({r \in Live(rows) : rows[r].target = x /\ Type[rows[r].source] \in types},
      LAMBDA r : rows[r].amount)
Columns(rows, x) == [allocated |-> rows[x].allocated, credited |-> rows[x].credited]
SettledColumns(rows, x) ==
  [allocated |-> Settled(rows, x, {"PAYMENT"}),
   credited |-> Settled(rows, x, {"SALES_CREDIT_NOTE", "VENDOR_DEBIT_NOTE"})]
Spent(rows, x) ==
  [allocated |-> SumOver({r \in Live(rows) : rows[r].source = x}, LAMBDA r : rows[r].amount)]

\* The two questions of a check, in the order they are asked.
QueryLinesFirst(n, rows, x) ==
  CASE x \in Entries -> IF n = 1 THEN Booked(rows, x) ELSE Header(rows, x)
    [] x \in Documents -> IF n = 1 THEN Columns(rows, x) ELSE SettledColumns(rows, x)
    [] x \in Sources -> IF n = 1 THEN Spent(rows, x) ELSE rows[x]
Query(n, rows, x) ==
  CASE x \in Entries -> IF n = 1 THEN Header(rows, x) ELSE Booked(rows, x)
    [] x \in Documents -> IF n = 1 THEN Columns(rows, x) ELSE SettledColumns(rows, x)
    [] x \in Sources -> IF n = 1 THEN Spent(rows, x) ELSE rows[x]
Empty(x, answer) == x \in Entries /\ answer.debit = 0

\* The rows to start from are rows the guards have let through.
ASSUME OpeningAssumption ==
  /\ \A id \in Ids : Opening[id] \in Attempts(id)
  /\ \A x \in Documents : DocumentFits(x, Opening[x]) /\ Columns(Opening, x) = SettledColumns(Opening, x)
  /\ \A x \in Sources : SourceFits(x, Opening[x]) /\ Opening[x] = Spent(Opening, x)
  /\ \A e \in Entries : Opening[e] # None =>
       EntryFits(Opening[e]) /\ Booked(Opening, e) = Header(Opening, e) /\ Opening[e].debit > 0

StartCheck(t) ==
  /\ phase[t] = "open" /\ Written(t) # {}
  /\ phase' = [phase EXCEPT ![t] = "checking"]
  /\ seen' = [seen EXCEPT ![t] = [x \in due[t] |-> Query(1, View(t), x)]]
  /\ UNCHANGED <<db, writes, due, left, bare, loose, moved>>

CheckHolds(t) ==
  \A x \in due[t] :
    LET answer == Query(2, View(t), x)
    IN  answer = seen[t][x] /\ (x \in Entries => answer.debit = answer.credit) /\ ~Empty(x, answer)

End(t) ==
  /\ phase' = [phase EXCEPT ![t] = "ended"]
  /\ writes' = [writes EXCEPT ![t] = Nothing]
  /\ due' = [due EXCEPT ![t] = {}]
  /\ seen' = [seen EXCEPT ![t] = Nothing]
  /\ left' = [left EXCEPT ![t] = 0]

Commit(t) ==
  LET written == Written(t) \cap Balanced
      named == due[t] \cap Balanced
      before == {r \in Written(t) \cap Rows : db[r] # None}
  IN  /\ phase[t] = "checking" /\ CheckHolds(t)
      /\ db' = View(t)
      /\ bare' = bare \cup (written \ named)
      /\ loose' = loose \cup (named \ written)
      /\ moved' = moved \cup ((UNION {{db[r].source, db[r].target} : r \in before}) \ named)
      /\ End(t)

\* The client gives up, or a check fails.
Rollback(t) ==
  /\ phase[t] # "ended"
  /\ End(t)
  /\ UNCHANGED <<db, bare, loose, moved>>

Next ==
  \E t \in Transactions :
    \/ \E id \in DOMAIN db : \E new \in Attempts(id) : Statement(t, id, new)
    \/ StartCheck(t) \/ Commit(t) \/ Rollback(t)

Spec == Init /\ [][Next]_vars

----------------------------------------------------------------------------
(* The properties. *)

Here(S) == S \cap DOMAIN db

\* The types; what is committed keeps the constraints of its table.
TypeOK ==
  /\ DOMAIN db \in Worlds
  /\ \A id \in DOMAIN db : db[id] \in Attempts(id)
  /\ \A x \in Here(Documents) : db[x].allocated + db[x].credited \in 0 .. Worth[x]
  /\ \A x \in Here(Sources) : db[x].allocated \in 0 .. Worth[x]
  /\ \A t \in Transactions : Written(t) \cup due[t] \subseteq DOMAIN db

\* BR-006: in every committed entry the lines balance, are some, and sum to
\* the totals of the header, however two transactions build it or add to it.
CommittedEntriesBalance ==
  \A e \in Here(Entries) : db[e] # None =>
    /\ Booked(db, e) = Header(db, e)
    /\ db[e].debit = db[e].credit /\ db[e].debit > 0

\* BR-004: a committed entry keeps its period and is not deleted, and a
\* committed line stays as it is.
PostedRowsStand ==
  [][/\ \A e \in Here(Entries) : db[e] # None => db'[e] # None /\ db'[e].period = db[e].period
     /\ \A l \in Here(Lines) : db[l] # None => db'[l] = db[l]]_vars

Agrees(x) ==
  IF x \in Documents THEN Columns(db, x) = SettledColumns(db, x) ELSE db[x] = Spent(db, x)

\* BR-008 for writers that write a total whenever they touch a row of it, and
\* only then, whatever value they write and whatever else is going on: the
\* totals agree with the rows.  (The services of apps/payments write so.)
LockedTotalsAgree ==
  \A x \in Here(Balanced) : x \in bare \cup loose \cup moved \/ Agrees(x)

\* What the guards let through: entries that balance, and settlement totals
\* that agree with their rows where a total is written with its rows.
CommittedRowsAgree == TypeOK /\ CommittedEntriesBalance /\ LockedTotalsAgree
=============================================================================
