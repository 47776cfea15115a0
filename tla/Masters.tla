------------------------------- MODULE Masters -------------------------------
(***************************************************************************)
(* The settings and master data that the documents are made from: the      *)
(* chart of accounts, categories and units (trees), price lists,           *)
(* currencies and the company, number series, coded lists, parties with    *)
(* their addresses and contacts.  A behaviour is about one of them, kind.  *)
(*                                                                         *)
(* Every screen saves the same way: the row is loaded, the form reads what *)
(* it needs to accept the values posted, the row is read again for the     *)
(* audit trail, and the whole row is written.  Nothing is locked between   *)
(* these steps, so each is an action.  overtaken says that some request    *)
(* ended late: the table was written between its load and its end, by a    *)
(* draw or by another request.                                             *)
(*                                                                         *)
(* A table is a function from keys to rows, None where there is no row.    *)
(***************************************************************************)
EXTENDS Naturals, FiniteSets

CONSTANTS
  Admins,
  Nodes,        \* the keys of a table
  One,          \* the key of a table of one row: the company, a number series
  None,         \* no row; no parent
  Kinds,        \* bound: the tables the behaviours are about
  Days,         \* bound: the last day of the price list
  MaxNumber,    \* bound: of the numbers drawn
  MaxAccounts,  \* bound: of the accounts that get lines
  MaxRequests   \* bound

ASSUME MastersAssumption ==
  /\ One \notin Nodes /\ None \notin Nodes \cup {One}
  /\ Days \in Nat /\ MaxNumber \in Nat /\ MaxAccounts \in Nat /\ MaxRequests \in Nat

VARIABLES
  kind,
  tbl,      \* the rows
  told,     \* the rows as the audit trail tells them
  posted,   \* what documents hold: accounts with lines, base currencies, numbers
  req,      \* the request of each administrator
  overtaken, \* a request ended after something had been written behind it
  turns     \* requests made

mastersVars == <<kind, tbl, told, posted, req, overtaken, turns>>

Trees == {"account", "category", "unit"}
Coded == {"coded"}                 \* tax codes, payment terms, products
Parties == {"customer", "vendor"}
Children == {"address", "contact"}

Codes == {"a1", "A1", "B2"}
Upper(code) == IF code = "a1" THEN "A1" ELSE code

-----------------------------------------------------------------------------
\* The tables: the columns that the behaviour turns on, and the constraints.

Account == [parent : Nodes \cup {None}, postable : BOOLEAN, active : BOOLEAN]
ProductCategory == [parent : Nodes \cup {None}, active : BOOLEAN]
UnitOfMeasure == [parent : Nodes \cup {None}, ratio : {1, 12}]  \* parent is base_unit
Currency == [base : BOOLEAN, active : BOOLEAN]
Company == [currency : Nodes]
DocumentSequence == [next : 1 .. MaxNumber + 1]
ProductPrice ==
  {p \in [from : 1 .. Days, to : 1 .. Days \cup {None}, min : {0, 10}] :
     p.to # None => p.to >= p.from}
CodedRow == [code : Codes]
Customer == [code : Codes, active : BOOLEAN, stamped : BOOLEAN,   \* deactivated_at
             hold : {"none", "reasoned", "bare"}]
Vendor == [code : Codes, active : BOOLEAN, stamped : BOOLEAN]
Address == [type : {"BILLING", "SHIPPING"}, default : BOOLEAN]
Contact == [type : {"any"}, default : BOOLEAN]                    \* is_primary

RowsAt(k) ==
  CASE kind = "account" -> Account
    [] kind = "category" -> ProductCategory
    [] kind = "unit" -> UnitOfMeasure
    [] kind = "currency" -> IF k = One THEN Company ELSE Currency
    [] kind = "series" -> DocumentSequence
    [] kind = "price" -> ProductPrice
    [] kind \in Coded -> CodedRow
    [] kind = "customer" -> Customer
    [] kind = "vendor" -> Vendor
    [] kind = "address" -> Address
    [] kind = "contact" -> Contact

\* A behaviour is about one of these, and no row is the None there is for none.
ASSUME KindsAssumption ==
  Kinds \subseteq Trees \cup Coded \cup Parties \cup Children \cup {"currency", "series", "price"}
ASSUME NoneIsNoRow ==
  /\ None \notin Account \cup ProductCategory \cup UnitOfMeasure \cup Currency \cup Company
  /\ None \notin DocumentSequence \cup ProductPrice \cup CodedRow
  /\ None \notin Customer \cup Vendor \cup Address \cup Contact

Keys(m) == CASE m = "series" -> {One}
             [] m = "currency" -> Nodes \cup {One}
             [] OTHER -> Nodes
Stored == {k \in DOMAIN tbl : tbl[k] # None}

\* No two rows of t alike in what F tells of them, among those that matter.
Unique(t, Matters(_), F(_)) ==
  \A j, k \in DOMAIN t :
    /\ t[j] # None /\ t[k] # None
    /\ Matters(t[j]) /\ Matters(t[k])
    /\ F(t[j]) = F(t[k])
    => j = k
Every(row) == TRUE

not_self_parent(t) == \A k \in DOMAIN t : t[k].parent # k
currency_single_base(t) ==
  Unique([n \in Nodes |-> t[n]], LAMBDA r : r.base, LAMBDA r : r.base)
product_price_unique_point(t) == Unique(t, Every, LAMBDA r : <<r.from, r.min>>)
code_unique(t) == Unique(t, Every, LAMBDA r : r.code)
customer_code_unique_ci(t) == Unique(t, Every, LAMBDA r : Upper(r.code))
address_one_default(t) == Unique(t, LAMBDA r : r.default, LAMBDA r : r.type)

Lawful(t) ==
  CASE kind \in Trees -> not_self_parent(t)
    [] kind = "currency" -> currency_single_base(t)
    [] kind = "price" -> product_price_unique_point(t)
    [] kind \in Coded -> code_unique(t)
    [] kind \in Parties -> customer_code_unique_ci(t)
    [] kind \in Children -> address_one_default(t)
    [] OTHER -> TRUE

-----------------------------------------------------------------------------
\* The forms: what each asks of the values posted for row k.

\* The rows from p to its root, p included; the forms walk them one by one.
\* They are the rows that are in every set that holds p and, of each row, its parent.
ClosedUpwards(S) == \A n \in S : tbl[n].parent \in S \cup {None}
Upwards(p) == {n \in Nodes : \A S \in SUBSET Nodes : p \in S \cup {None} /\ ClosedUpwards(S) => n \in S}
WalkOneStep(p) == {p}
Walk(p) == Upwards(p)

AccountForm(k, form) ==
  /\ form.parent \in {None} \cup {n \in Nodes \ {k} : tbl[n].active}
  /\ k \notin Walk(form.parent)
  /\ form.postable => ~\E n \in Nodes : tbl[n].parent = k
ProductCategoryForm(k, form) ==
  /\ form.parent \in {None} \cup {n \in Nodes \ {k} : tbl[n].active}
  /\ k \notin Walk(form.parent)
UnitOfMeasureForm(k, form) ==
  /\ form.parent # k
  /\ k \notin Walk(form.parent)
  /\ form.parent = None => form.ratio = 1

CurrencyForm(k, form) ==
  form.base => form.active /\ ~\E n \in Nodes \ {k} : tbl[n].base
CompanyForm(form) == tbl[form.currency].active

\* The counter may not be lowered below the one the row was loaded with.
DocumentSequenceFormLax(inst, form) == TRUE
DocumentSequenceForm(inst, form) == form.next >= inst.next

\* A window that starts when another ends overlaps it: both days are in both.
OverlapsStrictly(p, q) ==
  /\ p.to = None \/ p.to > q.from
  /\ q.to = None \/ p.from <= q.to
Overlaps(p, q) ==
  /\ p.to = None \/ p.to >= q.from
  /\ q.to = None \/ p.from <= q.to
ProductPriceForm(k, form) ==
  ~\E j \in Stored \ {k} : tbl[j].min = form.min /\ Overlaps(tbl[j], form)

Taken(k, code) == \E j \in Stored \ {k} : Upper(tbl[j].code) = Upper(code)
\* Coded lists keep the code in capitals; parties keep it as it was typed.
clean_code_as_typed(form) == form
clean_code(form) == [form EXCEPT !.code = Upper(@)]
CustomerForm(k, form) == ~Taken(k, form.code) /\ form.hold # "bare"
VendorForm(k, form) == ~Taken(k, form.code)

FormAccepts(k, inst, form) ==
  CASE kind = "account" -> AccountForm(k, form)
    [] kind = "category" -> ProductCategoryForm(k, form)
    [] kind = "unit" -> UnitOfMeasureForm(k, form)
    [] kind = "currency" -> IF k = One THEN CompanyForm(form) ELSE CurrencyForm(k, form)
    [] kind = "series" -> DocumentSequenceForm(inst, form)
    [] kind = "price" -> ProductPriceForm(k, form)
    [] kind \in Coded -> ~Taken(k, form.code)
    [] kind = "customer" -> CustomerForm(k, form)
    [] kind = "vendor" -> VendorForm(k, form)
    [] kind \in Children -> TRUE

\* The row to write: what the form does not show stays as it was loaded.
Instance(inst, form) ==
  IF kind \in Coded THEN clean_code(form)
  ELSE IF kind \in Parties /\ inst # None THEN [form EXCEPT !.stamped = inst.stamped]
  ELSE form

\* A ModelForm tries the constraints of which it has every column.
validate_constraints(k, row) ==
  kind \in Children \cup {"price"} \/ Lawful([tbl EXCEPT ![k] = row])

-----------------------------------------------------------------------------
\* The audit trail, and the steps of a request.

\* What the trail tells of a row after an event with these changes.
ToldOfChanges(known, before, after) ==
  [f \in {g \in DOMAIN known : before[g] # after[g]} |-> after[f]]
Told(known, before, after) ==
  [f \in DOMAIN known |-> IF before[f] # after[f] THEN after[f] ELSE known[f]]
record_update(k, before, after) == [told EXCEPT ![k] = Told(@, before, after)]
record_create(k, after) == [told EXCEPT ![k] = after]
record_delete(k) == [told EXCEPT ![k] = None]

NoEdit == [at |-> "idle", key |-> None, inst |-> None, form |-> None, before |-> None,
         cleared |-> {}, waits |-> {}, raced |-> FALSE]
Done == {"idle", "saved", "refused", "error"}

First(m) ==
  CASE m = "account" -> [parent |-> None, postable |-> TRUE, active |-> TRUE]
    [] m = "category" -> [parent |-> None, active |-> TRUE]
    [] m = "unit" -> [parent |-> None, ratio |-> 1]
    [] m = "series" -> [next |-> 1]
    [] OTHER -> None

MastersInit ==
  /\ kind \in Kinds
  /\ \E b \in Nodes :
       tbl = [k \in Keys(kind) |->
                IF kind # "currency" THEN First(kind)
                ELSE IF k = One THEN [currency |-> b]
                ELSE [base |-> k = b, active |-> TRUE]]
  /\ told = tbl
  /\ posted = {}
  /\ req = [c \in Admins |-> NoEdit]
  /\ overtaken = FALSE
  /\ turns = 0

At(c, stage) == req[c].at = stage
Begin(c, r) ==
  /\ req[c].at \in Done
  /\ turns < MaxRequests
  /\ req' = [req EXCEPT ![c] = r]
  /\ turns' = turns + 1
  /\ UNCHANGED <<kind, tbl, told, posted, overtaken>>
Move(c, r) == req' = [req EXCEPT ![c] = r] /\ UNCHANGED <<kind, tbl, told, posted, overtaken, turns>>

\* A request ends; if it wrote, those under way have been overtaken.
End(c, stage, wrote) ==
  /\ req' = [d \in Admins |->
               IF d = c THEN [NoEdit EXCEPT !.at = stage]
               ELSE IF wrote /\ req[d].at \notin Done THEN [req[d] EXCEPT !.raced = TRUE]
               ELSE req[d]]
  /\ overtaken' = (overtaken \/ req[c].raced)
  /\ UNCHANGED <<kind, posted, turns>>

\* get_object: the row, or none for a new one that nobody else is adding.
Load(c) ==
  \E k \in DOMAIN tbl : \E form \in RowsAt(k) :
    /\ kind \in Parties => ~form.stamped
    /\ tbl[k] = None => \A d \in Admins : req[d].key # k
    /\ Begin(c, [NoEdit EXCEPT !.at = "loaded", !.key = k, !.inst = tbl[k], !.form = form])

\* is_valid: the form asks the table, and the values go into the instance.
Clean(c) ==
  /\ At(c, "loaded")
  /\ LET k == req[c].key
         row == Instance(req[c].inst, req[c].form)
     IN  IF FormAccepts(k, req[c].inst, req[c].form) /\ validate_constraints(k, row)
         THEN Move(c, [req[c] EXCEPT !.at = "valid", !.form = row])
         ELSE End(c, "refused", FALSE) /\ UNCHANGED <<tbl, told>>

\* clear_previous_flag: the siblings that lose the flag to this row.
Siblings(k, row) ==
  IF kind \in Children /\ row.default
  THEN {j \in Stored \ {k} : tbl[j].default /\ tbl[j].type = row.type} ELSE {}
NoSiblings(k, row) == {}
clear_previous_flag(k, row) == Siblings(k, row)

\* form_valid reads the row again: the form has already changed the instance.
Stale(c) == req[c].form
Reread(c) == tbl[req[c].key]
Before(c) ==
  /\ At(c, "valid")
  /\ LET cleared == clear_previous_flag(req[c].key, req[c].form)
     IN  IF req[c].inst # None /\ tbl[req[c].key] = None
         THEN End(c, "error", FALSE) /\ UNCHANGED <<tbl, told>>
         ELSE Move(c, [req[c] EXCEPT !.at = "before", !.cleared = cleared,
                         !.before = IF req[c].inst = None THEN None ELSE Reread(c),
                         !.waits = {d \in Admins : req[d].at = "before"
                                                   /\ req[d].cleared \cap cleared # {}}])

\* form.save and the event, in one transaction.
Save(c) ==
  /\ At(c, "before")
  /\ \A d \in req[c].waits : ~At(d, "before")
  /\ LET k == req[c].key
         row == req[c].form
         new == [j \in DOMAIN tbl |->
                   IF j = k THEN row
                   ELSE IF j \in req[c].cleared /\ tbl[j] # None
                        THEN [tbl[j] EXCEPT !.default = FALSE]
                   ELSE tbl[j]]
     IN  IF Lawful(new)
         THEN /\ tbl' = new
              /\ told' = IF req[c].before = None THEN record_create(k, row)
                         ELSE IF told[k] = None THEN told
                         ELSE record_update(k, req[c].before, row)
              /\ End(c, "saved", TRUE)
         ELSE End(c, "error", FALSE) /\ UNCHANGED <<tbl, told>>

\* Prices, addresses and contacts may be deleted.
LoadToDelete(c) ==
  /\ kind \in Children \cup {"price"}
  /\ \E k \in Stored : Begin(c, [NoEdit EXCEPT !.at = "deleting", !.key = k, !.inst = tbl[k]])
Delete(c) ==
  /\ At(c, "deleting")
  /\ tbl' = [tbl EXCEPT ![req[c].key] = None]
  /\ told' = record_delete(req[c].key)
  /\ End(c, "saved", TRUE)

\* The page of a party, whose button says what it will do; the button pressed.
OpenPartyPage(c) ==
  /\ kind \in Parties
  /\ \E k \in Stored : Begin(c, [NoEdit EXCEPT !.at = "page", !.key = k])
Press(c) ==
  /\ At(c, "page")
  /\ LET row == tbl[req[c].key]
     IN  Move(c, [req[c] EXCEPT !.at = "pressed", !.before = row, !.raced = FALSE,
                    !.form = [row EXCEPT !.active = ~row.active, !.stamped = row.active]])
DeactivateView(c) ==
  /\ At(c, "pressed")
  /\ LET k == req[c].key
         row == [tbl[k] EXCEPT !.active = req[c].form.active, !.stamped = req[c].form.stamped]
     IN  /\ tbl' = [tbl EXCEPT ![k] = row]
         /\ told' = record_update(k, req[c].before, req[c].form)
         /\ End(c, "saved", TRUE)

-----------------------------------------------------------------------------
\* What the documents do with the masters.

Used(x) == posted' = posted \cup {x} /\ UNCHANGED <<kind, told, overtaken, turns>>

\* A journal line is written to an account that is active and postable.
PostLine ==
  /\ kind = "account"
  /\ Cardinality(posted) < MaxAccounts
  /\ \E a \in Nodes : tbl[a].active /\ tbl[a].postable /\ Used(a)
  /\ UNCHANGED <<tbl, req>>
\* An entry of inventory is written in the currency of the company.
PostEntry ==
  /\ kind = "currency"
  /\ Used(tbl[One].currency)
  /\ UNCHANGED <<tbl, req>>
\* next_number, of a series that never starts again.
Draw ==
  /\ kind = "series"
  /\ tbl[One].next <= MaxNumber
  /\ Used(tbl[One].next)
  /\ tbl' = [tbl EXCEPT ![One].next = @ + 1]
  /\ req' = [c \in Admins |-> IF At(c, "loaded") \/ At(c, "valid") \/ At(c, "before")
                              THEN [req[c] EXCEPT !.raced = TRUE] ELSE req[c]]

\* The lookup of a price: the entries that cover the day, from which the
\* highest minimum, then the latest start, is taken.
price_for(day, quantity) ==
  {k \in Stored : /\ tbl[k].from <= day
                  /\ tbl[k].to = None \/ tbl[k].to >= day
                  /\ tbl[k].min <= quantity}

MastersNext ==
  \/ \E c \in Admins :
       \/ Load(c) \/ Clean(c) \/ Before(c) \/ Save(c)
       \/ LoadToDelete(c) \/ Delete(c)
       \/ OpenPartyPage(c) \/ Press(c) \/ DeactivateView(c)
  \/ PostLine \/ PostEntry \/ Draw

MastersSpec == MastersInit /\ [][MastersNext]_mastersVars

-----------------------------------------------------------------------------
\* What must hold.

Stages == Done \cup {"loaded", "valid", "before", "deleting", "page", "pressed"}
TypeOK ==
  /\ kind \in Kinds
  /\ \A k \in Keys(kind) : tbl[k] \in RowsAt(k) \cup {None}
  /\ \A k \in Keys(kind) : told[k] # None => \E row \in RowsAt(k) : DOMAIN told[k] = DOMAIN row
  /\ posted \subseteq Nodes \cup 1 .. MaxNumber
  /\ \A c \in Admins : req[c].at \in Stages /\ req[c].key \in Keys(kind) \cup {None}
  /\ overtaken \in BOOLEAN
  /\ turns \in 0 .. MaxRequests

\* A chart, a set of categories or of units can be walked to a root: no row is
\* above itself.  The forms see to it as long as no edit overtakes another.
NoneAboveItself == kind \in Trees => \A n \in Nodes : n \notin Upwards(tbl[n].parent)
TreesHaveRoots == ~overtaken => NoneAboveItself

\* At most one entry of a price list matches each quantity break on a day, as
\* price_for counts on; edited one at a time.
Unambiguous ==
  kind = "price" =>
    \A day \in 1 .. Days : \A quantity \in {0, 10} :
      Cardinality({k \in price_for(day, quantity) : tbl[k].min = quantity}) <= 1
OnePricePerDay == ~overtaken => Unambiguous

\* Two codes that differ only in their capitals are one code, also when two
\* people add them at once: capitals in the coded lists, an index for parties.
NoTwinCodes == kind \in Coded \cup Parties => customer_code_unique_ci(tbl)

\* The audit trail, replayed, gives the table that is there: for the masters
\* whose rows only the forms and the buttons write, one request at a time.
TrailTellsTheTable == ~overtaken /\ kind \notin Children \cup {"series"} => told = tbl

\* What a table would refuse, its form has refused before: nobody who is not
\* overtaken is shown a server error.
FormsSpeakFirst == ~overtaken => \A c \in Admins : ~At(c, "error")

\* The counter of a number series goes down only when an edit is saved whose
\* page was loaded before the counter rose, by draws or by other edits, and then
\* not below the number the page was loaded with: what comes up again was drawn
\* or skipped behind that page.  DocumentSequenceForm compares with no other.
OnlyStaleEditsLowerCounter ==
  [][kind = "series" /\ tbl'[One].next < tbl[One].next =>
       \E c \in Admins : /\ At(c, "before") /\ req'[c].at = "saved"
                         /\ req[c].inst.next < tbl[One].next
                         /\ req[c].inst.next <= tbl'[One].next]_mastersVars

\* The masters keep what the documents rely on: trees have roots, prices and
\* codes are unambiguous, the trail tells the rows, and forms speak first.
MastersAreSound ==
  /\ TypeOK /\ TreesHaveRoots /\ OnePricePerDay /\ NoTwinCodes
  /\ TrailTellsTheTable /\ FormsSpeakFirst
=============================================================================
