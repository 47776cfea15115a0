----------------------------- MODULE GuardsProofs -----------------------------
(***************************************************************************)
(* What the guards of the database let through agrees, for any number of   *)
(* transactions, rows and periods: committed entries balance and show what *)
(* their lines add up to, and settlement totals that are written with      *)
(* their rows are the sums of them.                                        *)
(*                                                                         *)
(* A deferred check asks twice, and others commit in between.  It cannot   *)
(* be misled about a row its transaction has written, which is locked; and *)
(* about an entry it has not, only in one direction, because lines are     *)
(* added and never changed: what it saw in the header is at most what the  *)
(* lines of others add up to now, so that lines of its own are too much.   *)
(***************************************************************************)
EXTENDS Guards, Sums, TLAPS

Phases == {"open", "checking", "ended"}
EntryRows == [period : Periods, debit : Totals, credit : Totals]
LineRows == [entry : Entries, debit : Amounts \cup {0}, credit : Amounts \cup {0}]
DocumentRows == [allocated : Totals, credited : Totals]
SourceRows == [allocated : Totals]
AllocationRows == [side : {"CUSTOMER", "VENDOR"}, source : Sources,
                   target : Documents, amount : Amounts, reversed : BOOLEAN]

-----------------------------------------------------------------------------
\* What each table takes, table by table.

LEMMA TablesApart ==
  \A x :
    /\ x \in Entries => x \notin Lines /\ x \notin Periods /\ x \notin Documents /\ x \notin Sources
                        /\ x \notin Rows
    /\ x \in Lines => x \notin Periods /\ x \notin Documents /\ x \notin Sources /\ x \notin Rows
    /\ x \in Periods => x \notin Documents /\ x \notin Sources /\ x \notin Rows
    /\ x \in Documents => x \notin Sources /\ x \notin Rows
    /\ x \in Sources => x \notin Rows
    /\ x \in Balanced <=> x \in Documents \/ x \in Sources
BY TablesAssumption DEF JournalTables, SettlementTables, Balanced

LEMMA EntryTable ==
  \A e \in Entries :
    /\ Attempts(e) = {None} \cup EntryRows
    /\ \A t, old, new : Accepts(t, e, old, new) <=> EntryAccepts(t, old, new)
    /\ \A old, new : Due(e, old, new) = {e}
    /\ \A rows : Query(1, rows, e) = Header(rows, e) /\ Query(2, rows, e) = Booked(rows, e)
<1> SUFFICES ASSUME NEW e \in Entries
             PROVE  /\ Attempts(e) = {None} \cup EntryRows
                    /\ \A t, old, new : Accepts(t, e, old, new) <=> EntryAccepts(t, old, new)
                    /\ \A old, new : Due(e, old, new) = {e}
                    /\ \A rows : Query(1, rows, e) = Header(rows, e) /\ Query(2, rows, e) = Booked(rows, e)
  OBVIOUS
<1>1. e \notin Lines /\ e \notin Periods /\ e \notin Documents /\ e \notin Sources /\ e \notin Rows
  BY TablesApart
<1>2. Attempts(e) = {None} \cup EntryRows
  BY <1>1 DEF Attempts, EntryRows
<1>3. \A t, old, new : Accepts(t, e, old, new) <=> EntryAccepts(t, old, new)
  BY <1>1, Zenon DEF Accepts
<1>4. \A old, new : Due(e, old, new) = {e}
  BY <1>1 DEF Due
<1>5. \A rows : Query(1, rows, e) = Header(rows, e) /\ Query(2, rows, e) = Booked(rows, e)
  BY <1>1 DEF Query
<1> QED BY <1>2, <1>3, <1>4, <1>5

LEMMA LineTable ==
  \A l \in Lines :
    /\ Attempts(l) = {None} \cup LineRows
    /\ \A t, old, new : Accepts(t, l, old, new) <=> LineAccepts(t, old, new)
    /\ \A old, new : Due(l, old, new) = {Coalesce(old, new).entry}
<1> SUFFICES ASSUME NEW l \in Lines
             PROVE  /\ Attempts(l) = {None} \cup LineRows
                    /\ \A t, old, new : Accepts(t, l, old, new) <=> LineAccepts(t, old, new)
                    /\ \A old, new : Due(l, old, new) = {Coalesce(old, new).entry}
  OBVIOUS
<1>1. l \notin Entries /\ l \notin Periods /\ l \notin Documents /\ l \notin Sources /\ l \notin Rows
  BY TablesApart
<1>2. Attempts(l) = {None} \cup LineRows
  BY <1>1 DEF Attempts, LineRows
<1>3. \A t, old, new : Accepts(t, l, old, new) <=> LineAccepts(t, old, new)
  BY <1>1, Zenon DEF Accepts
<1>4. \A old, new : Due(l, old, new) = {Coalesce(old, new).entry}
  BY <1>1 DEF Due
<1> QED BY <1>2, <1>3, <1>4

LEMMA PeriodTable ==
  \A p \in Periods : \A old, new : Due(p, old, new) = {}
BY TablesApart DEF Due

LEMMA DocumentTable ==
  \A x \in Documents :
    /\ Attempts(x) = DocumentRows
    /\ \A t, old, new : Accepts(t, x, old, new) <=> DocumentFits(x, new)
    /\ \A old, new : Due(x, old, new) = {}
    /\ \A rows : Query(1, rows, x) = Columns(rows, x) /\ Query(2, rows, x) = SettledColumns(rows, x)
<1> SUFFICES ASSUME NEW x \in Documents
             PROVE  /\ Attempts(x) = DocumentRows
                    /\ \A t, old, new : Accepts(t, x, old, new) <=> DocumentFits(x, new)
                    /\ \A old, new : Due(x, old, new) = {}
                    /\ \A rows : Query(1, rows, x) = Columns(rows, x)
                                 /\ Query(2, rows, x) = SettledColumns(rows, x)
  OBVIOUS
<1>1. x \notin Entries /\ x \notin Lines /\ x \notin Periods /\ x \notin Sources /\ x \notin Rows
  BY TablesApart
<1>2. Attempts(x) = DocumentRows
  BY <1>1 DEF Attempts, DocumentRows
<1>3. \A t, old, new : Accepts(t, x, old, new) <=> DocumentFits(x, new)
  BY <1>1, Zenon DEF Accepts
<1>4. \A old, new : Due(x, old, new) = {}
  BY <1>1 DEF Due
<1>5. \A rows : Query(1, rows, x) = Columns(rows, x) /\ Query(2, rows, x) = SettledColumns(rows, x)
  BY <1>1 DEF Query
<1> QED BY <1>2, <1>3, <1>4, <1>5

LEMMA SourceTable ==
  \A x \in Sources :
    /\ Attempts(x) = SourceRows
    /\ \A t, old, new : Accepts(t, x, old, new) <=> SourceFits(x, new)
    /\ \A old, new : Due(x, old, new) = {}
    /\ \A rows : Query(1, rows, x) = Spent(rows, x) /\ Query(2, rows, x) = rows[x]
<1> SUFFICES ASSUME NEW x \in Sources
             PROVE  /\ Attempts(x) = SourceRows
                    /\ \A t, old, new : Accepts(t, x, old, new) <=> SourceFits(x, new)
                    /\ \A old, new : Due(x, old, new) = {}
                    /\ \A rows : Query(1, rows, x) = Spent(rows, x) /\ Query(2, rows, x) = rows[x]
  OBVIOUS
<1>1. x \notin Entries /\ x \notin Lines /\ x \notin Periods /\ x \notin Documents /\ x \notin Rows
  BY TablesApart
<1>2. Attempts(x) = SourceRows
  BY <1>1 DEF Attempts, SourceRows
<1>3. \A t, old, new : Accepts(t, x, old, new) <=> SourceFits(x, new)
  BY <1>1, Zenon DEF Accepts
<1>4. \A old, new : Due(x, old, new) = {}
  BY <1>1 DEF Due
<1>5. \A rows : Query(1, rows, x) = Spent(rows, x) /\ Query(2, rows, x) = rows[x]
  BY <1>1 DEF Query
<1> QED BY <1>2, <1>3, <1>4, <1>5

LEMMA AllocationTable ==
  \A r \in Rows :
    /\ Attempts(r) = {None} \cup AllocationRows
    /\ \A old, new : Due(r, old, new) = {Coalesce(old, new).source, Coalesce(old, new).target}
<1> SUFFICES ASSUME NEW r \in Rows
             PROVE  /\ Attempts(r) = {None} \cup AllocationRows
                    /\ \A old, new : Due(r, old, new) = {Coalesce(old, new).source, Coalesce(old, new).target}
  OBVIOUS
<1>1. r \notin Entries /\ r \notin Lines /\ r \notin Periods /\ r \notin Documents /\ r \notin Sources
  BY TablesApart
<1>2. Attempts(r) = {None} \cup AllocationRows
  BY <1>1 DEF Attempts, AllocationRows
<1>3. \A old, new : Due(r, old, new) = {Coalesce(old, new).source, Coalesce(old, new).target}
  BY <1>1 DEF Due
<1> QED BY <1>2, <1>3

LEMMA NoneIsNoRow ==
  None \notin EntryRows /\ None \notin LineRows /\ None \notin DocumentRows
  /\ None \notin SourceRows /\ None \notin AllocationRows
BY DEF None, EntryRows, LineRows, DocumentRows, SourceRows, AllocationRows

\* A behaviour is about the journal, settlement, or both, and whole tables.
LEMMA WorldsAreWhole ==
  \A world \in Worlds :
    /\ world \subseteq Ids
    /\ \A id \in world : id \in JournalTables => JournalTables \subseteq world
    /\ \A id \in world : id \in SettlementTables => SettlementTables \subseteq world
BY TablesAssumption, GuardsAssumption DEF Ids

-----------------------------------------------------------------------------
\* The invariant.

Fits(id, row) ==
  /\ row \in Attempts(id)
  /\ id \in Documents => DocumentFits(id, row)
  /\ id \in Sources => SourceFits(id, row)
  /\ id \in Entries /\ row # None => EntryFits(row)

Typed ==
  /\ DOMAIN db \in Worlds
  /\ DOMAIN phase = Transactions /\ DOMAIN writes = Transactions
  /\ DOMAIN due = Transactions /\ DOMAIN seen = Transactions
  /\ \A id \in DOMAIN db : Fits(id, db[id])
  /\ \A t \in Transactions : Written(t) \subseteq DOMAIN db /\ due[t] \subseteq DOMAIN db
  /\ \A t \in Transactions : \A id \in Written(t) : Fits(id, writes[t][id])

\* Nobody writes what another has written.
RowLocks == \A t, u \in Transactions : t # u => Written(t) \cap Written(u) = {}

\* An entry that is written stays, keeps its period and will be asked about.
EntriesWritten(t) ==
  \A e \in Written(t) \cap Entries :
    /\ writes[t][e] # None /\ e \in due[t]
    /\ db[e] # None => writes[t][e].period = db[e].period
\* A line is written where there was none, and its entry will be asked about.
LinesWritten(t) ==
  \A l \in Written(t) \cap Lines :
    /\ db[l] = None
    /\ writes[t][l] # None => LineFits(writes[t][l]) /\ writes[t][l].entry \in due[t]
EntriesDue(t) == \A e \in due[t] \cap Entries : e \in Written(t) \/ db[e] # None

\* What a check has seen of a header: it is locked, or at most what the lines
\* of others add up to by now.
HeaderSeen(t) ==
  phase[t] = "checking" => \A e \in due[t] \cap Entries :
    IF e \in Written(t) THEN seen[t][e] = Header(writes[t], e)
    ELSE /\ seen[t][e].debit \in Nat /\ seen[t][e].debit <= Booked(db, e).debit
         /\ seen[t][e].credit \in Nat /\ seen[t][e].credit <= Booked(db, e).credit

\* An allocation that is written names what will be asked about.
RowsWritten(t) ==
  \A r \in Written(t) \cap Rows :
    writes[t][r] # None => writes[t][r].source \in due[t] /\ writes[t][r].target \in due[t]

\* What a check has seen of the totals its transaction writes: the columns of
\* a document are locked, and who adds rows to a source meanwhile cannot write
\* its total.
Unsettled == bare \cup loose \cup moved
TotalsSeen(t) ==
  phase[t] = "checking" => \A x \in due[t] \cap Written(t) :
    /\ x \in Documents => seen[t][x] = Columns(writes[t], x)
    /\ x \in Sources => x \in Unsettled \/ seen[t][x] = Spent(View(t), x)

JournalInv ==
  /\ CommittedEntriesBalance
  /\ \A t \in Transactions :
       EntriesWritten(t) /\ LinesWritten(t) /\ EntriesDue(t) /\ HeaderSeen(t)
SettlementInv ==
  /\ LockedTotalsAgree
  /\ \A t \in Transactions : RowsWritten(t) /\ TotalsSeen(t)

-----------------------------------------------------------------------------
\* What a transaction sees.

LEMMA ViewIs ==
  \A t \in Transactions :
    /\ DOMAIN View(t) = DOMAIN db
    /\ \A id \in DOMAIN db : id \in Written(t) => View(t)[id] = writes[t][id]
    /\ \A id \in DOMAIN db : id \notin Written(t) => View(t)[id] = db[id]
BY DEF View

LEMMA ViewFits == Typed => \A t \in Transactions : \A id \in DOMAIN db : Fits(id, View(t)[id])
BY ViewIs DEF Typed

\* What the steps change.
Wrote(t, id, new) ==
  /\ Written(t)' = Written(t) \cup {id} /\ writes'[t][id] = new
  /\ \A x \in Written(t) : x # id => writes'[t][x] = writes[t][x]
  /\ due'[t] = due[t] \cup Due(id, View(t)[id], new)
Others(t) ==
  \A u \in Transactions : u # t =>
    /\ Written(u)' = Written(u) /\ writes'[u] = writes[u] /\ due'[u] = due[u]
    /\ phase'[u] = phase[u] /\ seen'[u] = seen[u]
Domains ==
  /\ DOMAIN phase = Transactions /\ DOMAIN writes = Transactions
  /\ DOMAIN due = Transactions /\ DOMAIN seen = Transactions

LEMMA StatementIs ==
  ASSUME Typed, NEW t \in Transactions, NEW id \in DOMAIN db, NEW new \in Attempts(id),
         Statement(t, id, new)
  PROVE  /\ Wrote(t, id, new) /\ Others(t) /\ Domains'
         /\ phase'[t] = "open" /\ UNCHANGED <<db, bare, loose, moved>>
         /\ \A u \in Transactions : u # t => id \notin Written(u)
         /\ View(t)[id] # None \/ new # None
         /\ Accepts(t, id, View(t)[id], new)
<1> DEFINE row == [x \in Written(t) \cup {id} |-> IF x = id THEN new ELSE writes[t][x]]
           asked == Due(id, View(t)[id], new)
<1>1. /\ writes' = [writes EXCEPT ![t] = row]
      /\ due' = [due EXCEPT ![t] = due[t] \cup asked]
      /\ UNCHANGED <<db, phase, seen, bare, loose, moved>>
      /\ phase[t] = "open"
      /\ ~Locked(t, id)
      /\ View(t)[id] # None \/ new # None
      /\ Accepts(t, id, View(t)[id], new)
  BY Zenon DEF Statement
<1>2. DOMAIN row = Written(t) \cup {id} /\ row[id] = new
      /\ \A x \in Written(t) : x # id => row[x] = writes[t][x]
  OBVIOUS
<1> HIDE DEF row, asked
<1>3. writes'[t] = row /\ due'[t] = due[t] \cup asked
      /\ \A u \in Transactions : u # t => writes'[u] = writes[u] /\ due'[u] = due[u]
  BY <1>1 DEF Typed
<1>4. Domains'
  BY <1>1 DEF Typed, Domains
<1>5. \A u \in Transactions : u # t => id \notin Written(u)
  BY <1>1 DEF Locked
<1>6. Wrote(t, id, new)
  BY <1>2, <1>3 DEF Wrote, Written, asked
<1>7. Others(t)
  BY <1>1, <1>3 DEF Others, Written
<1> QED BY <1>1, <1>4, <1>5, <1>6, <1>7

LEMMA StartIs ==
  ASSUME Typed, NEW t \in Transactions, StartCheck(t)
  PROVE  /\ UNCHANGED <<db, writes, due, bare, loose, moved>> /\ Others(t) /\ Domains'
         /\ phase[t] = "open" /\ phase'[t] = "checking"
         /\ \A x \in due[t] : seen'[t][x] = Query(1, View(t), x)
<1> DEFINE answers == [x \in due[t] |-> Query(1, View(t), x)]
<1>1. /\ phase' = [phase EXCEPT ![t] = "checking"]
      /\ seen' = [seen EXCEPT ![t] = answers]
      /\ UNCHANGED <<db, writes, due, left, bare, loose, moved>>
      /\ phase[t] = "open"
  BY Zenon DEF StartCheck
<1>2. \A x \in due[t] : answers[x] = Query(1, View(t), x)
  OBVIOUS
<1> HIDE DEF answers
<1>3. seen'[t] = answers /\ phase'[t] = "checking"
  BY <1>1 DEF Typed
<1>4. Others(t) /\ Domains'
  BY <1>1 DEF Others, Typed, Domains, Written
<1> QED BY <1>1, <1>2, <1>3, <1>4

LEMMA EndIs ==
  ASSUME Typed, NEW t \in Transactions, End(t)
  PROVE  /\ Others(t) /\ Domains'
         /\ phase'[t] = "ended" /\ Written(t)' = {} /\ due'[t] = {}
<1>1. DOMAIN Nothing = {}
  BY DEF Nothing
<1>2. phase'[t] = "ended" /\ writes'[t] = Nothing /\ due'[t] = {}
  BY DEF End, Typed
<1>3. Others(t) /\ Domains'
  BY DEF End, Others, Typed, Domains, Written
<1> QED BY <1>1, <1>2, <1>3 DEF Written

LEMMA CommitIs ==
  ASSUME Typed, NEW t \in Transactions, Commit(t)
  PROVE  /\ phase[t] = "checking" /\ CheckHolds(t) /\ db' = View(t) /\ End(t)
         /\ Others(t) /\ Domains'
         /\ phase'[t] = "ended" /\ Written(t)' = {} /\ due'[t] = {}
BY EndIs DEF Commit

-----------------------------------------------------------------------------
\* Types and locks.

LEMMA InitTyped == Init => Typed /\ RowLocks
<1> SUFFICES ASSUME Init PROVE Typed /\ RowLocks
  OBVIOUS
<1>1. PICK world \in Worlds : db = [id \in world |-> Opening[id]]
  BY DEF Init
<1>2. DOMAIN Nothing = {}
  BY DEF Nothing
<1>3. \A t \in Transactions : Written(t) = {} /\ due[t] = {}
  BY <1>2 DEF Init, Written
<1>4. \A id \in Ids : Fits(id, Opening[id])
  BY OpeningAssumption DEF Fits
<1>5. DOMAIN db = world /\ \A id \in world : id \in Ids /\ db[id] = Opening[id]
  BY <1>1, WorldsAreWhole
<1>6. Domains
  BY DEF Init, Domains
<1>7. Typed
  BY <1>3, <1>4, <1>5, <1>6 DEF Typed, Domains
<1>8. RowLocks
  BY <1>3 DEF RowLocks
<1> QED BY <1>7, <1>8

LEMMA AcceptedFits ==
  ASSUME NEW t \in Transactions, NEW id, NEW old, NEW new \in Attempts(id), Accepts(t, id, old, new)
  PROVE  Fits(id, new)
<1>1. id \in Documents => DocumentFits(id, new)
  BY DocumentTable
<1>2. id \in Sources => SourceFits(id, new)
  BY SourceTable
<1>3. id \in Entries /\ new # None => EntryFits(new)
  BY EntryTable DEF EntryAccepts
<1> QED BY <1>1, <1>2, <1>3 DEF Fits

\* What will be asked about belongs to the same part of the database.
LEMMA DueIsHere ==
  ASSUME Typed, NEW id \in DOMAIN db, NEW old, Fits(id, old), NEW new, Fits(id, new),
         old # None \/ new # None
  PROVE  Due(id, old, new) \subseteq DOMAIN db
<1> DEFINE row == Coalesce(old, new)
<1>1. row \in Attempts(id) /\ row # None
  BY DEF Coalesce, Fits
<1> HIDE DEF row
<1>2. id \in Ids /\ (id \in JournalTables => JournalTables \subseteq DOMAIN db)
      /\ (id \in SettlementTables => SettlementTables \subseteq DOMAIN db)
  BY WorldsAreWhole DEF Typed
<1>3. CASE id \in Entries
  BY <1>3, EntryTable
<1>4. CASE id \in Lines
  <2>1. row.entry \in Entries
    BY <1>1, <1>4, LineTable DEF LineRows
  <2> QED BY <1>2, <1>4, <2>1, LineTable DEF JournalTables, row
<1>5. CASE id \in Rows
  <2>1. row.source \in Sources /\ row.target \in Documents
    BY <1>1, <1>5, AllocationTable DEF AllocationRows
  <2> QED BY <1>2, <1>5, <2>1, AllocationTable DEF SettlementTables, Balanced, row
<1>6. CASE id \in Periods \cup Balanced
  BY <1>6, PeriodTable, DocumentTable, SourceTable DEF Balanced
<1> QED BY <1>2, <1>3, <1>4, <1>5, <1>6 DEF Ids, JournalTables, SettlementTables

LEMMA StatementTyped ==
  ASSUME Typed, RowLocks, NEW t \in Transactions, NEW id \in DOMAIN db, NEW new \in Attempts(id),
         Statement(t, id, new)
  PROVE  Typed' /\ RowLocks'
<1>1. /\ Wrote(t, id, new) /\ Others(t) /\ Domains' /\ UNCHANGED db
      /\ \A u \in Transactions : u # t => id \notin Written(u)
      /\ View(t)[id] # None \/ new # None
      /\ Accepts(t, id, View(t)[id], new)
  BY StatementIs
<1>2. Fits(id, new) /\ Fits(id, View(t)[id])
  BY <1>1, AcceptedFits, ViewFits
<1>3. Due(id, View(t)[id], new) \subseteq DOMAIN db
  BY <1>1, <1>2, DueIsHere
<1>4. \A u \in Transactions : Written(u)' \subseteq DOMAIN db /\ due'[u] \subseteq DOMAIN db
  BY <1>1, <1>3 DEF Wrote, Others, Typed
<1>5. \A u \in Transactions : \A x \in Written(u)' : Fits(x, writes'[u][x])
  BY <1>1, <1>2 DEF Wrote, Others, Typed
<1>6. Typed'
  BY <1>1, <1>4, <1>5 DEF Typed, Domains, Fits
<1>7. RowLocks'
  BY <1>1 DEF RowLocks, Wrote, Others
<1> QED BY <1>6, <1>7

LEMMA StartTyped ==
  ASSUME Typed, RowLocks, NEW t \in Transactions, StartCheck(t)
  PROVE  Typed' /\ RowLocks'
BY StartIs DEF Typed, RowLocks, Domains, Written, Fits

LEMMA EndTyped ==
  ASSUME Typed, RowLocks, NEW t \in Transactions, End(t), db' = db \/ db' = View(t)
  PROVE  Typed' /\ RowLocks'
<1>1. /\ Others(t) /\ Domains' /\ Written(t)' = {} /\ due'[t] = {}
  BY EndIs
<1>2. DOMAIN db' = DOMAIN db /\ \A id \in DOMAIN db : Fits(id, db'[id])
  BY ViewIs, ViewFits DEF Typed
<1>3. \A u \in Transactions : Written(u)' \subseteq DOMAIN db /\ due'[u] \subseteq DOMAIN db
  BY <1>1 DEF Others, Typed
<1>4. \A u \in Transactions : \A x \in Written(u)' : Fits(x, writes'[u][x])
  BY <1>1 DEF Others, Typed
<1>5. Typed'
  BY <1>1, <1>2, <1>3, <1>4 DEF Typed, Domains, Fits
<1>6. RowLocks'
  BY <1>1 DEF RowLocks, Others
<1> QED BY <1>5, <1>6

-----------------------------------------------------------------------------
\* Lines are only added, so what an entry adds up to only grows.

LinesTyped(rows) == \A l \in Lines : rows[l] \in {None} \cup LineRows
Extends(rows, more) == \A l \in Lines : rows[l] # None => more[l] = rows[l]

LEMMA LineFields ==
  \A row \in LineRows : row.entry \in Entries /\ row.debit \in Nat /\ row.credit \in Nat
<1>1. \A row \in LineRows : row.entry \in Entries /\ row.debit \in Amounts \cup {0}
                           /\ row.credit \in Amounts \cup {0}
  BY DEF LineRows
<1>2. Amounts \cup {0} \subseteq Nat
  BY GuardsAssumption
<1> QED BY <1>1, <1>2

LEMMA BookedSame ==
  ASSUME NEW rows, NEW more, NEW e,
         \A l \in Lines : rows[l] # more[l] =>
            /\ rows[l] # None => rows[l].entry # e
            /\ more[l] # None => more[l].entry # e
  PROVE  Booked(more, e) = Booked(rows, e)
<1>1. LinesOf(more, e) = LinesOf(rows, e) /\ \A l \in LinesOf(rows, e) : more[l] = rows[l]
  BY DEF LinesOf
<1> DEFINE L == LinesOf(rows, e)
<1>2. [l \in L |-> more[l].debit] = [l \in L |-> rows[l].debit]
      /\ [l \in L |-> more[l].credit] = [l \in L |-> rows[l].credit]
  BY <1>1
<1> HIDE DEF L
<1>3. LinesOf(more, e) = L /\ LinesOf(rows, e) = L
  BY <1>1 DEF L
<1> QED BY <1>2, <1>3 DEF Booked, SumOver

LEMMA BookedGrows ==
  ASSUME NEW rows, NEW more, LinesTyped(rows), LinesTyped(more), Extends(rows, more), NEW e
  PROVE  /\ Booked(rows, e).debit \in Nat /\ Booked(rows, e).credit \in Nat
         /\ Booked(more, e).debit \in Nat /\ Booked(more, e).credit \in Nat
         /\ Booked(rows, e).debit <= Booked(more, e).debit
         /\ Booked(rows, e).credit <= Booked(more, e).credit
         /\ \A l \in LinesOf(more, e) \ LinesOf(rows, e) :
              /\ Booked(rows, e).debit + more[l].debit <= Booked(more, e).debit
              /\ Booked(rows, e).credit + more[l].credit <= Booked(more, e).credit
<1> DEFINE R == LinesOf(rows, e)  S == LinesOf(more, e)
           d == [l \in S |-> more[l].debit]  c == [l \in S |-> more[l].credit]
           dr == [l \in R |-> rows[l].debit]  cr == [l \in R |-> rows[l].credit]
<1>1. S \in SUBSET Lines /\ R \in SUBSET S /\ \A l \in R : more[l] = rows[l]
  BY DEF LinesOf, Extends
<1>2. IsFiniteSet(S) /\ IsFiniteSet(R)
  BY <1>1, TablesAssumption, FS_Subset
<1>3. \A l \in S : more[l].debit \in Nat /\ more[l].credit \in Nat
  <2>1. \A l \in S : more[l] \in LineRows
    BY DEF LinesOf, LinesTyped
  <2> QED BY <2>1, LineFields
<1>4. /\ \A l \in S : d[l] = more[l].debit /\ c[l] = more[l].credit
      /\ \A l \in R : dr[l] = d[l] /\ cr[l] = c[l]
  BY <1>1
<1>5. /\ Booked(more, e).debit = SumFunctionOnSet(d, S)
      /\ Booked(more, e).credit = SumFunctionOnSet(c, S)
      /\ Booked(rows, e).debit = SumFunctionOnSet(dr, R)
      /\ Booked(rows, e).credit = SumFunctionOnSet(cr, R)
  BY DEF Booked, SumOver
<1> HIDE DEF R, S, d, c, dr, cr
<1>6. SumFunctionOnSet(dr, R) = SumFunctionOnSet(d, R)
      /\ SumFunctionOnSet(cr, R) = SumFunctionOnSet(c, R)
  BY <1>2, <1>4, SumAgrees
<1>7. /\ SumFunctionOnSet(d, R) \in Nat /\ SumFunctionOnSet(d, S) \in Nat
      /\ SumFunctionOnSet(d, R) <= SumFunctionOnSet(d, S)
      /\ \A l \in S \ R : SumFunctionOnSet(d, R) + d[l] <= SumFunctionOnSet(d, S)
  <2>1. \A l \in S : d[l] \in Nat
    BY <1>3, <1>4
  <2> QED BY <1>1, <1>2, <2>1, SumSubset
<1>8. /\ SumFunctionOnSet(c, R) \in Nat /\ SumFunctionOnSet(c, S) \in Nat
      /\ SumFunctionOnSet(c, R) <= SumFunctionOnSet(c, S)
      /\ \A l \in S \ R : SumFunctionOnSet(c, R) + c[l] <= SumFunctionOnSet(c, S)
  <2>1. \A l \in S : c[l] \in Nat
    BY <1>3, <1>4
  <2> QED BY <1>1, <1>2, <2>1, SumSubset
<1>9. \A l \in S \ R :
        /\ Booked(rows, e).debit + more[l].debit <= Booked(more, e).debit
        /\ Booked(rows, e).credit + more[l].credit <= Booked(more, e).credit
  BY <1>4, <1>5, <1>6, <1>7, <1>8
<1> QED BY <1>5, <1>6, <1>7, <1>8, <1>9 DEF R, S

\* The rows of the journal are rows of their tables.
LEMMA DbLines == Typed => \A e \in Here(Entries) : LinesTyped(db) /\ Lines \subseteq DOMAIN db
<1> SUFFICES ASSUME Typed, NEW e \in Here(Entries) PROVE LinesTyped(db) /\ Lines \subseteq DOMAIN db
  OBVIOUS
<1>1. Lines \subseteq DOMAIN db
  BY WorldsAreWhole DEF Here, JournalTables, Typed
<1> QED BY <1>1, LineTable DEF Typed, Fits, LinesTyped

LEMMA ViewLines ==
  ASSUME Typed, NEW t \in Transactions, LinesWritten(t), Lines \subseteq DOMAIN db
  PROVE  LinesTyped(View(t)) /\ Extends(db, View(t))
<1>1. LinesTyped(View(t))
  BY ViewFits, LineTable DEF Fits, LinesTyped
<1>2. Extends(db, View(t))
  BY ViewIs DEF LinesWritten, Extends
<1> QED BY <1>1, <1>2

LEMMA EntryRow ==
  ASSUME NEW e \in Entries, NEW row, Fits(e, row), row # None
  PROVE  row \in EntryRows /\ row.debit \in Nat /\ row.credit \in Nat /\ row.debit = row.credit
<1>1. row \in EntryRows
  BY EntryTable DEF Fits
<1> QED BY <1>1, GuardsAssumption DEF EntryRows, Fits, EntryFits

-----------------------------------------------------------------------------
\* The journal, step by step.

LEMMA InitJournal == Init => JournalInv
<1> SUFFICES ASSUME Init PROVE JournalInv
  OBVIOUS
<1>1. PICK world \in Worlds : db = [id \in world |-> Opening[id]]
  BY DEF Init
<1>2. DOMAIN Nothing = {}
  BY DEF Nothing
<1>3. \A t \in Transactions : Written(t) = {} /\ due[t] = {}
  BY <1>2 DEF Init, Written
<1>4. DOMAIN db = world /\ \A id \in world : db[id] = Opening[id]
  BY <1>1
<1>5. ASSUME NEW e \in Here(Entries), db[e] # None
      PROVE  Booked(db, e) = Header(db, e) /\ db[e].debit = db[e].credit /\ db[e].debit > 0
  <2>1. e \in Entries /\ db[e] = Opening[e] /\ Lines \subseteq world
    BY <1>4, <1>5, WorldsAreWhole DEF Here, JournalTables
  <2>2. EntryFits(Opening[e]) /\ Booked(Opening, e) = Header(Opening, e) /\ Opening[e].debit > 0
    BY <1>5, <2>1, OpeningAssumption
  <2>3. Booked(Opening, e) = Booked(db, e)
    BY <1>4, <2>1, BookedSame
  <2>4. Header(db, e) = Header(Opening, e)
    BY <2>1 DEF Header
  <2> QED BY <2>1, <2>2, <2>3, <2>4 DEF EntryFits
<1>6. CommittedEntriesBalance
  BY <1>5 DEF CommittedEntriesBalance
<1>7. \A t \in Transactions : EntriesWritten(t) /\ LinesWritten(t) /\ EntriesDue(t)
  BY <1>3 DEF EntriesWritten, LinesWritten, EntriesDue
<1>8. \A t \in Transactions : HeaderSeen(t)
  BY <1>3 DEF HeaderSeen
<1> QED BY <1>6, <1>7, <1>8 DEF JournalInv

\* What another transaction does to rows of its own.
LEMMA OthersJournal ==
  ASSUME Typed, JournalInv, NEW t \in Transactions, Others(t), UNCHANGED db
  PROVE  /\ CommittedEntriesBalance'
         /\ \A u \in Transactions \ {t} :
              (EntriesWritten(u) /\ LinesWritten(u) /\ EntriesDue(u) /\ HeaderSeen(u))'
<1>1. CommittedEntriesBalance'
  BY DEF JournalInv, CommittedEntriesBalance, Here, Header
<1>2. ASSUME NEW u \in Transactions \ {t}
      PROVE  (EntriesWritten(u) /\ LinesWritten(u) /\ EntriesDue(u) /\ HeaderSeen(u))'
  <2>1. /\ Written(u)' = Written(u) /\ writes'[u] = writes[u] /\ due'[u] = due[u]
        /\ phase'[u] = phase[u] /\ seen'[u] = seen[u]
    BY DEF Others
  <2>2. EntriesWritten(u) /\ LinesWritten(u) /\ EntriesDue(u) /\ HeaderSeen(u)
    BY DEF JournalInv
  <2>3. (EntriesWritten(u) /\ LinesWritten(u) /\ EntriesDue(u))'
    BY <2>1, <2>2 DEF EntriesWritten, LinesWritten, EntriesDue
  <2>4. HeaderSeen(u)'
    BY <2>1, <2>2 DEF HeaderSeen, Header
  <2> QED BY <2>3, <2>4
<1> QED BY <1>1, <1>2

LEMMA StatementJournal ==
  ASSUME Typed, RowLocks, JournalInv, NEW t \in Transactions, NEW id \in DOMAIN db,
         NEW new \in Attempts(id), Statement(t, id, new)
  PROVE  JournalInv'
<1> DEFINE old == View(t)[id]
<1>1. /\ Wrote(t, id, new) /\ Others(t) /\ phase'[t] = "open" /\ UNCHANGED db
      /\ old # None \/ new # None
      /\ Accepts(t, id, old, new)
  BY StatementIs
<1>2. Fits(id, new) /\ Fits(id, old)
  BY <1>1, AcceptedFits, ViewFits
<1>3. id \in Written(t) => old = writes[t][id]
  BY ViewIs
<1>4. id \notin Written(t) => old = db[id]
  BY ViewIs
<1> HIDE DEF old
<1>5. EntriesWritten(t) /\ LinesWritten(t) /\ EntriesDue(t)
  BY DEF JournalInv
<1>6. /\ Written(t)' = Written(t) \cup {id} /\ writes'[t][id] = new
      /\ \A x \in Written(t) : x # id => writes'[t][x] = writes[t][x]
      /\ due'[t] = due[t] \cup Due(id, old, new)
  BY <1>1 DEF Wrote, old
<1>7. EntriesWritten(t)'
  <2> SUFFICES ASSUME NEW e \in Written(t)' \cap Entries
               PROVE  /\ writes'[t][e] # None /\ e \in due'[t]
                      /\ db[e] # None => writes'[t][e].period = db[e].period
    BY <1>1 DEF EntriesWritten
  <2>1. CASE e # id
    BY <1>5, <1>6, <2>1 DEF EntriesWritten
  <2>2. CASE e = id
    <3>1. EntryAccepts(t, old, new) /\ Due(e, old, new) = {e}
      BY <1>1, <2>2, EntryTable
    <3>2. new # None
      BY <3>1 DEF EntryAccepts, entry_immutable
    <3>3. ASSUME db[e] # None PROVE new.period = db[e].period
      <4>1. old # None
        BY <1>3, <1>4, <1>5, <2>2, <3>3 DEF EntriesWritten
      <4>2. new.period = old.period
        BY <3>1, <4>1 DEF EntryAccepts, entry_immutable
      <4>3. old.period = db[e].period
        BY <1>3, <1>4, <1>5, <2>2, <3>3 DEF EntriesWritten
      <4> QED BY <4>2, <4>3
    <3> QED BY <1>6, <2>2, <3>1, <3>2, <3>3
  <2> QED BY <2>1, <2>2
\* A line that is written anew was written by this transaction: no committed
\* line is changed.
<1>8. ASSUME id \in Lines
      PROVE  /\ db[id] = None
             /\ new # None => LineFits(new) /\ View(t)[new.entry] # None /\ new.entry \in Entries
                              /\ new.entry \in due'[t]
             /\ old # None => old.entry \in due[t]
             /\ Due(id, old, new) = {Coalesce(old, new).entry}
  <2>1. LineAccepts(t, old, new) /\ Due(id, old, new) = {Coalesce(old, new).entry}
    BY <1>1, <1>8, LineTable
  <2>2. old = None
    BY <2>1 DEF LineAccepts, line_immutable
  <2>3. db[id] = None
    BY <1>4, <1>5, <1>8, <2>2 DEF LinesWritten
  <2>4. ASSUME new # None
        PROVE  LineFits(new) /\ View(t)[new.entry] # None /\ new.entry \in Entries
               /\ new.entry \in due'[t]
    <3>1. new \in LineRows
      BY <1>2, <1>8, <2>4, LineTable DEF Fits
    <3> QED BY <1>6, <2>1, <2>4, <3>1, LineFields DEF LineAccepts, Coalesce
  <2> QED BY <2>1, <2>2, <2>3, <2>4
<1>9. LinesWritten(t)'
  <2> SUFFICES ASSUME NEW l \in Written(t)' \cap Lines
               PROVE  /\ db[l] = None
                      /\ writes'[t][l] # None =>
                           LineFits(writes'[t][l]) /\ writes'[t][l].entry \in due'[t]
    BY <1>1 DEF LinesWritten
  <2>1. CASE l # id
    BY <1>5, <1>6, <2>1 DEF LinesWritten
  <2>2. CASE l = id
    BY <1>6, <1>8, <2>2
  <2> QED BY <2>1, <2>2
<1>10. EntriesDue(t)'
  <2> SUFFICES ASSUME NEW e \in due'[t] \cap Entries
               PROVE  e \in Written(t)' \/ db[e] # None
    BY <1>1 DEF EntriesDue
  <2>1. CASE e \in due[t]
    BY <1>5, <1>6, <2>1 DEF EntriesDue
  <2>2. CASE e \in Due(id, old, new)
    <3>1. CASE id \in Entries
      BY <1>6, <2>2, <3>1, EntryTable
    <3>2. CASE id \in Lines
      <4>1. CASE new # None
        <5>1. e = new.entry /\ View(t)[e] # None
          BY <1>8, <2>2, <3>2, <4>1 DEF Coalesce
        <5>2. e \in DOMAIN db
          <6>1. e \in due'[t]
            OBVIOUS
          <6>2. Typed'
            BY StatementTyped
          <6> QED BY <1>1, <6>1, <6>2 DEF Typed
        <5> QED BY <1>6, <5>1, <5>2, ViewIs
      <4>2. CASE new = None
        BY <1>1, <1>5, <1>6, <1>8, <2>2, <3>2, <4>2 DEF Coalesce, EntriesDue
      <4> QED BY <4>1, <4>2
    <3>3. CASE id \in Rows
      <4> DEFINE row == Coalesce(old, new)
      <4>1. row \in AllocationRows
        BY <1>1, <1>2, <3>3, AllocationTable DEF Coalesce, Fits
      <4>2. e \in {row.source, row.target}
        BY <2>2, <3>3, AllocationTable
      <4>3. row.source \in Sources /\ row.target \in Documents
        BY <4>1 DEF AllocationRows
      <4> QED BY <4>2, <4>3, TablesApart
    <3>4. CASE id \in Periods \cup Balanced
      BY <2>2, <3>4, PeriodTable, DocumentTable, SourceTable DEF Balanced
    <3>5. id \in Ids
      BY WorldsAreWhole DEF Typed
    <3> QED BY <3>1, <3>2, <3>3, <3>4, <3>5 DEF Ids, JournalTables, SettlementTables
  <2> QED BY <1>6, <2>1, <2>2
<1>11. HeaderSeen(t)'
  BY <1>1 DEF HeaderSeen
<1> QED BY <1>1, <1>7, <1>9, <1>10, <1>11, OthersJournal DEF JournalInv

LEMMA StartJournal ==
  ASSUME Typed, RowLocks, JournalInv, NEW t \in Transactions, StartCheck(t)
  PROVE  JournalInv'
<1>1. /\ UNCHANGED <<db, writes, due>> /\ Others(t)
      /\ \A x \in due[t] : seen'[t][x] = Query(1, View(t), x)
  BY StartIs
<1>2. EntriesWritten(t) /\ LinesWritten(t) /\ EntriesDue(t) /\ CommittedEntriesBalance
  BY DEF JournalInv
<1>3. (EntriesWritten(t) /\ LinesWritten(t) /\ EntriesDue(t))'
  BY <1>1, <1>2 DEF EntriesWritten, LinesWritten, EntriesDue, Written
<1>4. ASSUME NEW e \in due[t] \cap Entries
      PROVE  IF e \in Written(t) THEN seen'[t][e] = Header(writes[t], e)
             ELSE /\ seen'[t][e].debit \in Nat /\ seen'[t][e].debit <= Booked(db, e).debit
                  /\ seen'[t][e].credit \in Nat /\ seen'[t][e].credit <= Booked(db, e).credit
  <2>1. seen'[t][e] = Header(View(t), e) /\ e \in DOMAIN db /\ e \in Here(Entries)
    BY <1>1, EntryTable DEF Typed, Here
  <2>2. CASE e \in Written(t)
    BY <2>1, <2>2, ViewIs DEF Header
  <2>3. CASE e \notin Written(t)
    <3>1. db[e] # None
      BY <1>2, <2>3 DEF EntriesDue
    <3>2. Booked(db, e) = Header(db, e) /\ Fits(e, db[e])
      BY <1>2, <2>1, <3>1 DEF CommittedEntriesBalance, Typed
    <3>3. db[e].debit \in Nat /\ db[e].credit \in Nat
      BY <3>1, <3>2, EntryRow
    <3>4. seen'[t][e] = Header(db, e)
      BY <2>1, <2>3, ViewIs DEF Header
    <3> QED BY <2>3, <3>2, <3>3, <3>4 DEF Header
  <2> QED BY <2>2, <2>3
<1>5. HeaderSeen(t)'
  BY <1>1, <1>4 DEF HeaderSeen, Written
<1> QED BY <1>1, <1>3, <1>5, OthersJournal DEF JournalInv

LEMMA RollbackJournal ==
  ASSUME Typed, RowLocks, JournalInv, NEW t \in Transactions, Rollback(t)
  PROVE  JournalInv'
<1>1. UNCHANGED db /\ Others(t) /\ phase'[t] = "ended" /\ Written(t)' = {} /\ due'[t] = {}
  BY EndIs DEF Rollback
<1>2. (EntriesWritten(t) /\ LinesWritten(t) /\ EntriesDue(t) /\ HeaderSeen(t))'
  BY <1>1 DEF EntriesWritten, LinesWritten, EntriesDue, HeaderSeen
<1> QED BY <1>1, <1>2, OthersJournal DEF JournalInv

\* A commit.  Of an entry it has written, the check saw the header it writes;
\* of an entry it has not, too little for a line of its own.
LEMMA CommitEntry ==
  ASSUME Typed, RowLocks, JournalInv, NEW t \in Transactions, Commit(t), NEW e \in Here(Entries)
  PROVE  /\ db'[e] # None =>
              Booked(db', e) = Header(db', e) /\ db'[e].debit = db'[e].credit /\ db'[e].debit > 0
         /\ db[e] # None => db'[e] # None /\ db'[e].period = db[e].period
         /\ db[e] # None => \A l \in Lines : db[l] # None => db'[l] = db[l]
<1>1. /\ phase[t] = "checking" /\ CheckHolds(t) /\ db' = View(t)
  BY CommitIs
<1>2. e \in Entries /\ e \in DOMAIN db /\ Lines \subseteq DOMAIN db /\ LinesTyped(db)
  BY DbLines DEF Here
<1>3. EntriesWritten(t) /\ LinesWritten(t) /\ EntriesDue(t) /\ HeaderSeen(t) /\ CommittedEntriesBalance
  BY DEF JournalInv
<1>4. LinesTyped(db') /\ Extends(db, db')
  BY <1>1, <1>2, <1>3, ViewLines
<1>5. db[e] # None => db'[e] # None /\ db'[e].period = db[e].period
  BY <1>1, <1>2, <1>3, ViewIs DEF EntriesWritten
<1>6. Fits(e, db'[e])
  BY <1>1, <1>2, ViewFits
<1>7. ASSUME db'[e] # None, e \in Written(t)
      PROVE  Booked(db', e) = Header(db', e) /\ db'[e].debit = db'[e].credit /\ db'[e].debit > 0
  <2>1. e \in due[t] /\ seen[t][e] = Header(writes[t], e)
    BY <1>1, <1>2, <1>3, <1>7 DEF EntriesWritten, HeaderSeen
  <2>2. Booked(db', e) = seen[t][e] /\ ~Empty(e, Booked(db', e))
    BY <1>1, <1>2, <2>1, EntryTable DEF CheckHolds
  <2>3. Header(writes[t], e) = Header(db', e)
    BY <1>1, <1>2, <1>7, ViewIs DEF Header
  <2>4. Booked(db', e) = Header(db', e) /\ Header(db', e).debit # 0
    BY <1>2, <2>1, <2>2, <2>3 DEF Empty
  <2>5. Header(db', e).debit = db'[e].debit
    BY DEF Header
  <2>6. db'[e].debit \in Nat /\ db'[e].debit = db'[e].credit
    BY <1>2, <1>6, <1>7, EntryRow
  <2> QED BY <2>4, <2>5, <2>6
<1>8. ASSUME db'[e] # None, e \notin Written(t)
      PROVE  Booked(db', e) = Header(db', e) /\ db'[e].debit = db'[e].credit /\ db'[e].debit > 0
  <2>1. db'[e] = db[e]
    BY <1>1, <1>2, <1>8, ViewIs
  <2>2. Booked(db, e) = Header(db, e) /\ db[e].debit = db[e].credit /\ db[e].debit > 0
    BY <1>3, <1>8, <2>1 DEF CommittedEntriesBalance
  <2>3. LinesOf(db', e) \subseteq LinesOf(db, e)
    <3> SUFFICES ASSUME NEW l \in LinesOf(db', e), l \notin LinesOf(db, e) PROVE FALSE
      OBVIOUS
    <3>1. l \in Lines /\ db'[l] # None /\ db'[l].entry = e /\ db[l] = None
      BY <1>4 DEF LinesOf, Extends
    <3>2. l \in Written(t) /\ db'[l] = writes[t][l]
      BY <1>1, <1>2, <3>1, ViewIs
    <3>3. e \in due[t] /\ LineFits(db'[l])
      BY <1>3, <3>1, <3>2 DEF LinesWritten
    <3>4. Booked(db', e) = seen[t][e]
      BY <1>1, <1>2, <3>3, EntryTable DEF CheckHolds
    <3>5. Booked(db', e).debit <= Booked(db, e).debit /\ Booked(db', e).credit <= Booked(db, e).credit
      BY <1>1, <1>2, <1>3, <1>8, <3>3, <3>4 DEF HeaderSeen
    <3>6. /\ Booked(db, e).debit \in Nat /\ Booked(db, e).credit \in Nat
          /\ Booked(db', e).debit \in Nat /\ Booked(db', e).credit \in Nat
          /\ Booked(db, e).debit + db'[l].debit <= Booked(db', e).debit
          /\ Booked(db, e).credit + db'[l].credit <= Booked(db', e).credit
      BY <1>2, <1>4, BookedGrows
    <3>7. db'[l].debit \in Nat /\ db'[l].credit \in Nat
      BY <1>4, <3>1, LineFields DEF LinesTyped
    <3>8. db'[l].debit > 0 \/ db'[l].credit > 0
      BY <3>3 DEF LineFits
    <3> DEFINE b == Booked(db, e)  n == Booked(db', e)
    <3> HIDE DEF b, n
    <3>9. b.debit + db'[l].debit <= b.debit /\ b.credit + db'[l].credit <= b.credit
      <4>1. n.debit <= b.debit /\ n.credit <= b.credit
        BY <3>5 DEF b, n
      <4>2. b.debit \in Nat /\ b.credit \in Nat /\ n.debit \in Nat /\ n.credit \in Nat
            /\ b.debit + db'[l].debit <= n.debit /\ b.credit + db'[l].credit <= n.credit
        BY <3>6 DEF b, n
      <4> QED BY <3>7, <4>1, <4>2
    <3>10. b.debit \in Nat /\ b.credit \in Nat
      BY <3>6 DEF b
    <3> QED BY <3>7, <3>8, <3>9, <3>10
  <2>4. Booked(db', e) = Booked(db, e)
    <3> SUFFICES ASSUME NEW l \in Lines, db[l] # db'[l]
                 PROVE  /\ db[l] # None => db[l].entry # e
                        /\ db'[l] # None => db'[l].entry # e
      BY BookedSame
    <3> QED BY <1>4, <2>3 DEF Extends, LinesOf
  <2> QED BY <2>1, <2>2, <2>4 DEF Header
<1>9. db[e] # None => \A l \in Lines : db[l] # None => db'[l] = db[l]
  BY <1>4 DEF Extends
<1> QED BY <1>5, <1>7, <1>8, <1>9

LEMMA CommitJournal ==
  ASSUME Typed, RowLocks, JournalInv, NEW t \in Transactions, Commit(t)
  PROVE  JournalInv'
<1>1. /\ db' = View(t) /\ Others(t)
      /\ phase'[t] = "ended" /\ Written(t)' = {} /\ due'[t] = {}
  BY CommitIs
<1>2. DOMAIN db' = DOMAIN db
  BY <1>1, ViewIs
<1>3. CommittedEntriesBalance'
  BY <1>2, CommitEntry DEF CommittedEntriesBalance, Here
<1>4. (EntriesWritten(t) /\ LinesWritten(t) /\ EntriesDue(t) /\ HeaderSeen(t))'
  BY <1>1 DEF EntriesWritten, LinesWritten, EntriesDue, HeaderSeen
<1>5. ASSUME NEW u \in Transactions, u # t
      PROVE  (EntriesWritten(u) /\ LinesWritten(u) /\ EntriesDue(u) /\ HeaderSeen(u))'
  <2>1. /\ Written(u)' = Written(u) /\ writes'[u] = writes[u] /\ due'[u] = due[u]
        /\ phase'[u] = phase[u] /\ seen'[u] = seen[u]
    BY <1>1, <1>5 DEF Others
  <2>2. EntriesWritten(u) /\ LinesWritten(u) /\ EntriesDue(u) /\ HeaderSeen(u)
        /\ Written(u) \subseteq DOMAIN db /\ due[u] \subseteq DOMAIN db
    BY DEF JournalInv, Typed
  <2>3. \A id \in Written(u) : db'[id] = db[id]
    BY <1>1, <1>5, <2>2, ViewIs DEF RowLocks
  <2>4. EntriesWritten(u)' /\ LinesWritten(u)'
    BY <2>1, <2>2, <2>3 DEF EntriesWritten, LinesWritten
  <2>5. ASSUME NEW e \in due[u] \cap Entries, e \notin Written(u)
        PROVE  /\ db'[e] # None
               /\ Booked(db, e).debit \in Nat /\ Booked(db, e).credit \in Nat
               /\ Booked(db', e).debit \in Nat /\ Booked(db', e).credit \in Nat
               /\ Booked(db, e).debit <= Booked(db', e).debit
               /\ Booked(db, e).credit <= Booked(db', e).credit
    <3>1. e \in Here(Entries) /\ db[e] # None
      BY <2>2, <2>5 DEF Here, EntriesDue
    <3>2. db'[e] # None
      BY <3>1, CommitEntry
    <3>3. LinesTyped(db) /\ Lines \subseteq DOMAIN db
      BY <3>1, DbLines
    <3>4. LinesTyped(db') /\ Extends(db, db')
      BY <1>1, <3>3, ViewLines DEF JournalInv
    <3> QED BY <3>2, <3>3, <3>4, BookedGrows
  <2>6. EntriesDue(u)'
    BY <2>1, <2>5 DEF EntriesDue
  <2>7. HeaderSeen(u)'
    <3> SUFFICES ASSUME phase[u] = "checking", NEW e \in due[u] \cap Entries
                 PROVE  IF e \in Written(u) THEN seen[u][e] = Header(writes[u], e)
                        ELSE /\ seen[u][e].debit \in Nat /\ seen[u][e].debit <= Booked(db', e).debit
                             /\ seen[u][e].credit \in Nat /\ seen[u][e].credit <= Booked(db', e).credit
      BY <2>1 DEF HeaderSeen, Header
    <3>1. CASE e \in Written(u)
      BY <2>2, <3>1 DEF HeaderSeen
    <3>2. CASE e \notin Written(u)
      <4> DEFINE b == Booked(db, e)  n == Booked(db', e)  s == seen[u][e]
      <4>1. s.debit \in Nat /\ s.debit <= b.debit /\ s.credit \in Nat /\ s.credit <= b.credit
        BY <2>2, <3>2 DEF HeaderSeen
      <4>2. /\ b.debit \in Nat /\ b.credit \in Nat /\ n.debit \in Nat /\ n.credit \in Nat
            /\ b.debit <= n.debit /\ b.credit <= n.credit
        BY <2>5, <3>2
      <4> HIDE DEF b, n, s
      <4>3. s.debit \in Nat /\ s.debit <= n.debit /\ s.credit \in Nat /\ s.credit <= n.credit
        BY <4>1, <4>2
      <4> QED BY <3>2, <4>3 DEF n, s
    <3> QED BY <3>1, <3>2
  <2> QED BY <2>4, <2>6, <2>7
<1> QED BY <1>3, <1>4, <1>5 DEF JournalInv

-----------------------------------------------------------------------------
\* Settlement: what a source or a document comes to depends on its rows alone.

Apart(r, rows, more, x) ==
  rows[r] # more[r] =>
    /\ rows[r] # None => rows[r].source # x /\ rows[r].target # x
    /\ more[r] # None => more[r].source # x /\ more[r].target # x

LEMMA SpentSame ==
  ASSUME NEW rows, NEW more, NEW x, \A r \in Rows : Apart(r, rows, more, x)
  PROVE  Spent(more, x) = Spent(rows, x)
<1> DEFINE A == {r \in Live(rows) : rows[r].source = x}
           B == {r \in Live(more) : more[r].source = x}
<1>1. A = B /\ \A r \in A : more[r] = rows[r]
  BY DEF Live, Apart
<1> HIDE DEF A, B
<1>2. [r \in A |-> more[r].amount] = [r \in A |-> rows[r].amount]
  BY <1>1
<1>3. Spent(more, x) = [allocated |-> SumFunctionOnSet([r \in B |-> more[r].amount], B)]
      /\ Spent(rows, x) = [allocated |-> SumFunctionOnSet([r \in A |-> rows[r].amount], A)]
  BY DEF Spent, SumOver, A, B
<1> QED BY <1>1, <1>2, <1>3

LEMMA SettledSame ==
  ASSUME NEW rows, NEW more, NEW x, \A r \in Rows : Apart(r, rows, more, x), NEW types
  PROVE  Settled(more, x, types) = Settled(rows, x, types)
<1> DEFINE A == {r \in Live(rows) : rows[r].target = x /\ Type[rows[r].source] \in types}
           B == {r \in Live(more) : more[r].target = x /\ Type[more[r].source] \in types}
<1>1. A = B /\ \A r \in A : more[r] = rows[r]
  BY DEF Live, Apart
<1> HIDE DEF A, B
<1>2. [r \in A |-> more[r].amount] = [r \in A |-> rows[r].amount]
  BY <1>1
<1>3. Settled(more, x, types) = SumFunctionOnSet([r \in B |-> more[r].amount], B)
      /\ Settled(rows, x, types) = SumFunctionOnSet([r \in A |-> rows[r].amount], A)
  BY DEF Settled, SumOver, A, B
<1> QED BY <1>1, <1>2, <1>3

\* Whether a total agrees with its rows, of any state of the tables.
AgreesIn(rows, x) ==
  IF x \in Documents THEN Columns(rows, x) = SettledColumns(rows, x) ELSE rows[x] = Spent(rows, x)

LEMMA AgreesSame ==
  ASSUME NEW rows, NEW more, NEW x, \A r \in Rows : Apart(r, rows, more, x),
         more[x] = rows[x], AgreesIn(rows, x)
  PROVE  AgreesIn(more, x)
<1>1. Spent(more, x) = Spent(rows, x) /\ SettledColumns(more, x) = SettledColumns(rows, x)
  BY SpentSame, SettledSame DEF SettledColumns
<1>2. Columns(more, x) = Columns(rows, x)
  BY DEF Columns
<1> QED BY <1>1, <1>2 DEF AgreesIn

LEMMA HereRows == Typed => \A x \in Here(Balanced) : Rows \subseteq DOMAIN db
BY WorldsAreWhole DEF Here, SettlementTables, Typed

LEMMA InitSettlement == Init => SettlementInv
<1> SUFFICES ASSUME Init PROVE SettlementInv
  OBVIOUS
<1>1. PICK world \in Worlds : db = [id \in world |-> Opening[id]]
  BY DEF Init
<1>2. DOMAIN Nothing = {}
  BY DEF Nothing
<1>3. \A t \in Transactions : Written(t) = {} /\ due[t] = {}
  BY <1>2 DEF Init, Written
<1>4. DOMAIN db = world /\ \A id \in world : db[id] = Opening[id]
  BY <1>1
<1>5. ASSUME NEW x \in Here(Balanced)
      PROVE  Agrees(x)
  <2>1. x \in world /\ Rows \subseteq world
    BY <1>3, <1>4, WorldsAreWhole DEF Here, SettlementTables
  <2>2. AgreesIn(Opening, x)
    BY OpeningAssumption DEF AgreesIn, Here, Balanced
  <2>3. \A r \in Rows : Apart(r, Opening, db, x)
    BY <1>4, <2>1 DEF Apart
  <2>4. AgreesIn(db, x)
    BY <1>4, <2>1, <2>2, <2>3, AgreesSame
  <2> QED BY <2>4 DEF AgreesIn, Agrees
<1>6. LockedTotalsAgree
  BY <1>5 DEF LockedTotalsAgree
<1>7. \A t \in Transactions : RowsWritten(t) /\ TotalsSeen(t)
  BY <1>3 DEF RowsWritten, TotalsSeen
<1> QED BY <1>6, <1>7 DEF SettlementInv

LEMMA OthersSettlement ==
  ASSUME Typed, SettlementInv, NEW t \in Transactions, Others(t), UNCHANGED <<db, bare, loose, moved>>
  PROVE  /\ LockedTotalsAgree'
         /\ \A u \in Transactions \ {t} : (RowsWritten(u) /\ TotalsSeen(u))'
<1>1. LockedTotalsAgree'
  BY DEF SettlementInv, LockedTotalsAgree, Here, Agrees, Columns
<1>2. ASSUME NEW u \in Transactions \ {t} PROVE (RowsWritten(u) /\ TotalsSeen(u))'
  <2>1. /\ Written(u)' = Written(u) /\ writes'[u] = writes[u] /\ due'[u] = due[u]
        /\ phase'[u] = phase[u] /\ seen'[u] = seen[u]
    BY DEF Others
  <2>2. RowsWritten(u) /\ TotalsSeen(u)
    BY DEF SettlementInv
  <2>3. View(u)' = View(u)
    BY <2>1 DEF View
  <2>4. Unsettled' = Unsettled
    BY DEF Unsettled
  <2>5. RowsWritten(u)'
    BY <2>1, <2>2 DEF RowsWritten
  <2>6. TotalsSeen(u)'
    BY <2>1, <2>2, <2>3, <2>4 DEF TotalsSeen, Columns
  <2> QED BY <2>5, <2>6
<1> QED BY <1>1, <1>2

LEMMA StatementSettlement ==
  ASSUME Typed, RowLocks, SettlementInv, NEW t \in Transactions, NEW id \in DOMAIN db,
         NEW new \in Attempts(id), Statement(t, id, new)
  PROVE  SettlementInv'
<1> DEFINE old == View(t)[id]
<1>1. /\ Wrote(t, id, new) /\ Others(t) /\ phase'[t] = "open"
      /\ UNCHANGED <<db, bare, loose, moved>>
  BY StatementIs
<1> HIDE DEF old
<1>2. /\ Written(t)' = Written(t) \cup {id} /\ writes'[t][id] = new
      /\ \A x \in Written(t) : x # id => writes'[t][x] = writes[t][x]
      /\ due'[t] = due[t] \cup Due(id, old, new)
  BY <1>1 DEF Wrote, old
<1>3. RowsWritten(t)'
  <2> SUFFICES ASSUME NEW r \in Written(t)' \cap Rows, writes'[t][r] # None
               PROVE  writes'[t][r].source \in due'[t] /\ writes'[t][r].target \in due'[t]
    BY DEF RowsWritten
  <2>1. CASE r # id
    BY <1>2, <2>1 DEF SettlementInv, RowsWritten
  <2>2. CASE r = id
    BY <1>2, <2>2, AllocationTable DEF Coalesce
  <2> QED BY <2>1, <2>2
<1>4. TotalsSeen(t)'
  BY <1>1 DEF TotalsSeen
<1> QED BY <1>1, <1>3, <1>4, OthersSettlement DEF SettlementInv

LEMMA StartSettlement ==
  ASSUME Typed, RowLocks, SettlementInv, NEW t \in Transactions, StartCheck(t)
  PROVE  SettlementInv'
<1>1. /\ UNCHANGED <<db, writes, due, bare, loose, moved>> /\ Others(t)
      /\ \A x \in due[t] : seen'[t][x] = Query(1, View(t), x)
  BY StartIs
<1>2. RowsWritten(t)'
  BY <1>1 DEF SettlementInv, RowsWritten, Written
<1>3. View(t)' = View(t) /\ Written(t)' = Written(t)
  BY <1>1 DEF View, Written
<1>4. ASSUME NEW x \in due[t] \cap Written(t)
      PROVE  /\ x \in Documents => seen'[t][x] = Columns(writes[t], x)
             /\ x \in Sources => seen'[t][x] = Spent(View(t), x)
  <2>1. x \in DOMAIN db /\ View(t)[x] = writes[t][x]
    BY ViewIs DEF Typed
  <2>2. Columns(View(t), x) = Columns(writes[t], x)
    BY <2>1 DEF Columns
  <2> QED BY <1>1, <2>2, DocumentTable, SourceTable
<1>5. TotalsSeen(t)'
  BY <1>1, <1>3, <1>4 DEF TotalsSeen, Columns
<1> QED BY <1>1, <1>2, <1>5, OthersSettlement DEF SettlementInv

LEMMA RollbackSettlement ==
  ASSUME Typed, RowLocks, SettlementInv, NEW t \in Transactions, Rollback(t)
  PROVE  SettlementInv'
<1>1. UNCHANGED <<db, bare, loose, moved>> /\ Others(t) /\ phase'[t] = "ended"
      /\ Written(t)' = {} /\ due'[t] = {}
  BY EndIs DEF Rollback
<1>2. (RowsWritten(t) /\ TotalsSeen(t))'
  BY <1>1 DEF RowsWritten, TotalsSeen
<1> QED BY <1>1, <1>2, OthersSettlement DEF SettlementInv

\* A commit that neither writes a total nor names it, and takes no row from it,
\* touches no row of it.
LEMMA CommitApart ==
  ASSUME Typed, RowLocks, SettlementInv, NEW t \in Transactions, Commit(t),
         NEW x \in Here(Balanced), x \notin Written(t), x \notin Unsettled'
  PROVE  x \notin Unsettled /\ \A r \in Rows : Apart(r, db, db', x)
<1> DEFINE named == due[t] \cap Balanced
           before == {q \in Written(t) \cap Rows : db[q] # None}
           taken == UNION {{db[q].source, db[q].target} : q \in before}
<1>1. /\ db' = View(t)
      /\ bare \subseteq bare' /\ loose' = loose \cup (named \ (Written(t) \cap Balanced))
      /\ moved' = moved \cup (taken \ named)
  BY DEF Commit
<1> HIDE DEF taken
<1>2. x \notin Unsettled /\ x \notin due[t]
  BY <1>1 DEF Unsettled, Here
<1>3. ASSUME NEW r \in Written(t) \cap Rows, db[r] # None
      PROVE  db[r].source # x /\ db[r].target # x
  <2>1. x \notin taken
    BY <1>1, <1>2 DEF Unsettled
  <2>2. r \in before
    BY <1>3
  <2> HIDE DEF before
  <2> QED BY <2>1, <2>2 DEF taken
<1>4. RowsWritten(t)
  BY DEF SettlementInv
<1>5. ASSUME NEW r \in Rows, db[r] # db'[r] PROVE Apart(r, db, db', x)
  <2>1. r \in DOMAIN db
    BY HereRows
  <2>2. r \in Written(t) /\ db'[r] = writes[t][r]
    BY <1>1, <1>5, <2>1, ViewIs
  <2> QED BY <1>2, <1>3, <1>4, <2>2 DEF Apart, RowsWritten
<1> QED BY <1>2, <1>5 DEF Apart

LEMMA CommitSettlement ==
  ASSUME Typed, RowLocks, SettlementInv, NEW t \in Transactions, Commit(t)
  PROVE  SettlementInv'
<1>1. /\ phase[t] = "checking" /\ CheckHolds(t) /\ db' = View(t) /\ Others(t)
      /\ phase'[t] = "ended" /\ Written(t)' = {} /\ due'[t] = {}
  BY CommitIs
<1>2. /\ bare' = bare \cup ((Written(t) \cap Balanced) \ (due[t] \cap Balanced))
      /\ Unsettled \subseteq Unsettled'
  BY DEF Commit, Unsettled
<1>3. DOMAIN db' = DOMAIN db
  BY <1>1, ViewIs
<1>4. ASSUME NEW x \in Here(Balanced), x \notin Unsettled' PROVE AgreesIn(db', x)
  <2>0. x \in DOMAIN db /\ x \in Balanced
    BY DEF Here
  <2>1. CASE x \notin Written(t)
    <3>1. x \notin Unsettled /\ \A r \in Rows : Apart(r, db, db', x)
      BY <1>4, <2>1, CommitApart
    <3>2. Agrees(x)
      BY <3>1 DEF SettlementInv, LockedTotalsAgree, Unsettled
    <3>3. AgreesIn(db, x) /\ db'[x] = db[x]
      BY <1>1, <2>0, <2>1, <3>2, ViewIs DEF AgreesIn, Agrees
    <3> QED BY <3>1, <3>3, AgreesSame
  <2>2. CASE x \in Written(t)
    <3>1. x \in due[t]
      BY <1>2, <1>4, <2>0, <2>2 DEF Unsettled
    <3>2. x \notin Unsettled
      BY <1>2, <1>4
    <3>3. TotalsSeen(t)
      BY DEF SettlementInv
    <3>4. db'[x] = writes[t][x]
      BY <1>1, <2>0, <2>2, ViewIs
    <3>5. Query(2, db', x) = seen[t][x]
      BY <1>1, <3>1 DEF CheckHolds
    <3>6. CASE x \in Documents
      <4>1. seen[t][x] = Columns(writes[t], x) /\ SettledColumns(db', x) = seen[t][x]
        BY <1>1, <2>2, <3>1, <3>3, <3>5, <3>6, DocumentTable DEF TotalsSeen
      <4>2. Columns(writes[t], x) = Columns(db', x)
        BY <3>4 DEF Columns
      <4> QED BY <3>6, <4>1, <4>2 DEF AgreesIn
    <3>7. CASE x \in Sources
      <4>1. seen[t][x] = Spent(db', x) /\ db'[x] = seen[t][x]
        BY <1>1, <2>2, <3>1, <3>2, <3>3, <3>5, <3>7, SourceTable DEF TotalsSeen
      <4> QED BY <3>7, <4>1, TablesApart DEF AgreesIn
    <3> QED BY <2>0, <3>6, <3>7 DEF Balanced
  <2> QED BY <2>1, <2>2
<1>5. LockedTotalsAgree'
  BY <1>3, <1>4 DEF LockedTotalsAgree, Here, Agrees, AgreesIn, Unsettled, Columns
<1>6. (RowsWritten(t) /\ TotalsSeen(t))'
  BY <1>1 DEF RowsWritten, TotalsSeen
<1>7. ASSUME NEW u \in Transactions, u # t PROVE (RowsWritten(u) /\ TotalsSeen(u))'
  <2>1. /\ Written(u)' = Written(u) /\ writes'[u] = writes[u] /\ due'[u] = due[u]
        /\ phase'[u] = phase[u] /\ seen'[u] = seen[u]
    BY <1>1, <1>7 DEF Others
  <2>2. RowsWritten(u) /\ TotalsSeen(u)
    BY DEF SettlementInv
  <2>3. RowsWritten(u)'
    BY <2>1, <2>2 DEF RowsWritten
  <2>4. ASSUME NEW x \in due[u] \cap Written(u), x \in Sources, phase[u] = "checking",
               x \notin Unsettled'
        PROVE  seen[u][x] = Spent(View(u)', x)
    <3>1. x \notin Written(t) /\ x \in Here(Balanced)
      BY <1>7, <2>4 DEF RowLocks, Here, Typed, Balanced
    <3>2. x \notin Unsettled /\ \A r \in Rows : Apart(r, db, db', x)
      BY <2>4, <3>1, CommitApart
    <3>3. seen[u][x] = Spent(View(u), x)
      BY <2>2, <2>4, <3>2 DEF TotalsSeen
    <3>4. ASSUME NEW r \in Rows PROVE Apart(r, View(u), View(u)', x)
      <4>1. r \in DOMAIN db
        BY <3>1, HereRows
      <4>2. r \in Written(u) => View(u)'[r] = View(u)[r]
        BY <1>3, <2>1, <4>1 DEF View
      <4>3. r \notin Written(u) => View(u)'[r] = db'[r] /\ View(u)[r] = db[r]
        BY <1>3, <2>1, <4>1 DEF View
      <4> QED BY <3>2, <4>2, <4>3 DEF Apart
    <3> HIDE DEF View
    <3>5. Spent(View(u)', x) = Spent(View(u), x)
      BY <3>4, SpentSame
    <3> QED BY <3>3, <3>5
  <2>5. TotalsSeen(u)'
    BY <2>1, <2>2, <2>4 DEF TotalsSeen, Columns
  <2> QED BY <2>3, <2>5
<1> QED BY <1>5, <1>6, <1>7 DEF SettlementInv

-----------------------------------------------------------------------------
\* Every step, and the theorems.

GuardsInv == Typed /\ RowLocks /\ JournalInv /\ SettlementInv

LEMMA InitGuards == Init => GuardsInv
BY InitTyped, InitJournal, InitSettlement DEF GuardsInv

LEMMA StutterGuards == ASSUME GuardsInv, UNCHANGED vars PROVE GuardsInv'
<1>1. UNCHANGED <<db, phase, writes, due, seen, bare, loose, moved>>
  BY DEF vars
<1>2. /\ \A t \in Transactions : Written(t)' = Written(t) /\ View(t)' = View(t)
      /\ Unsettled' = Unsettled
  BY <1>1 DEF Written, View, Unsettled
<1>3. Typed' /\ RowLocks'
  BY <1>1, <1>2 DEF GuardsInv, Typed, RowLocks
<1>4. JournalInv'
  <2>1. CommittedEntriesBalance'
    BY <1>1 DEF GuardsInv, JournalInv, CommittedEntriesBalance, Here
  <2>2. ASSUME NEW t \in Transactions
        PROVE  (EntriesWritten(t) /\ LinesWritten(t) /\ EntriesDue(t) /\ HeaderSeen(t))'
    <3>1. EntriesWritten(t) /\ LinesWritten(t) /\ EntriesDue(t) /\ HeaderSeen(t)
      BY DEF GuardsInv, JournalInv
    <3> QED BY <1>1, <1>2, <3>1 DEF EntriesWritten, LinesWritten, EntriesDue, HeaderSeen, Header
  <2> QED BY <2>1, <2>2 DEF JournalInv
<1>5. SettlementInv'
  <2>1. LockedTotalsAgree'
    BY <1>1 DEF GuardsInv, SettlementInv, LockedTotalsAgree, Here, Agrees, Columns
  <2>2. ASSUME NEW t \in Transactions PROVE (RowsWritten(t) /\ TotalsSeen(t))'
    BY <1>1, <1>2 DEF GuardsInv, SettlementInv, RowsWritten, TotalsSeen, Columns
  <2> QED BY <2>1, <2>2 DEF SettlementInv
<1> QED BY <1>3, <1>4, <1>5 DEF GuardsInv

LEMMA StepGuards == GuardsInv /\ [Next]_vars => GuardsInv'
<1> SUFFICES ASSUME GuardsInv, Next PROVE GuardsInv'
  BY StutterGuards
<1>1. Typed /\ RowLocks /\ JournalInv /\ SettlementInv
  BY DEF GuardsInv
<1>2. PICK t \in Transactions :
        \/ \E id \in DOMAIN db : \E new \in Attempts(id) : Statement(t, id, new)
        \/ StartCheck(t) \/ Commit(t) \/ Rollback(t)
  BY Zenon DEF Next
<1>3. ASSUME NEW id \in DOMAIN db, NEW new \in Attempts(id), Statement(t, id, new) PROVE GuardsInv'
  BY <1>1, <1>3, StatementTyped, StatementJournal, StatementSettlement DEF GuardsInv
<1>4. CASE StartCheck(t)
  BY <1>1, <1>4, StartTyped, StartJournal, StartSettlement DEF GuardsInv
<1>5. CASE Commit(t)
  <2>1. Typed' /\ RowLocks'
    BY <1>1, <1>5, CommitIs, EndTyped
  <2> QED BY <1>1, <1>5, <2>1, CommitJournal, CommitSettlement DEF GuardsInv
<1>6. CASE Rollback(t)
  <2>1. Typed' /\ RowLocks'
    BY <1>1, <1>6, EndTyped DEF Rollback
  <2> QED BY <1>1, <1>6, <2>1, RollbackJournal, RollbackSettlement DEF GuardsInv
<1> QED BY <1>2, <1>3, <1>4, <1>5, <1>6

LEMMA GuardsMean == GuardsInv => CommittedRowsAgree
<1> SUFFICES ASSUME GuardsInv PROVE CommittedRowsAgree
  OBVIOUS
<1>1. Typed /\ CommittedEntriesBalance /\ LockedTotalsAgree
  BY DEF GuardsInv, JournalInv, SettlementInv
<1>2. ASSUME NEW x \in Here(Documents) PROVE db[x].allocated + db[x].credited \in 0 .. Worth[x]
  <2>1. x \in Documents /\ Fits(x, db[x])
    BY <1>1 DEF Here, Typed
  <2>2. db[x].allocated \in Nat /\ db[x].credited \in Nat
    <3>1. db[x] \in DocumentRows
      BY <2>1, DocumentTable DEF Fits
    <3> QED BY <3>1, GuardsAssumption DEF DocumentRows
  <2>3. Worth[x] \in Nat
    BY <2>1, GuardsAssumption DEF Balanced
  <2> QED BY <2>1, <2>2, <2>3 DEF Fits, DocumentFits
<1>3. ASSUME NEW x \in Here(Sources) PROVE db[x].allocated \in 0 .. Worth[x]
  <2>1. x \in Sources /\ Fits(x, db[x])
    BY <1>1 DEF Here, Typed
  <2>2. db[x].allocated \in Nat
    <3>1. db[x] \in SourceRows
      BY <2>1, SourceTable DEF Fits
    <3> QED BY <3>1, GuardsAssumption DEF SourceRows
  <2>3. Worth[x] \in Nat
    BY <2>1, GuardsAssumption DEF Balanced
  <2> QED BY <2>1, <2>2, <2>3 DEF Fits, SourceFits
<1>4. TypeOK
  BY <1>1, <1>2, <1>3 DEF TypeOK, Typed, Fits
<1> QED BY <1>1, <1>4 DEF CommittedRowsAgree

\* The rows change at a commit, and a commit leaves posted rows as they were.
PostedStand ==
  /\ \A e \in Here(Entries) : db[e] # None => db'[e] # None /\ db'[e].period = db[e].period
  /\ \A l \in Here(Lines) : db[l] # None => db'[l] = db[l]

LEMMA StepKeepsRows == GuardsInv /\ [Next]_vars => PostedStand
<1> SUFFICES ASSUME GuardsInv, [Next]_vars PROVE PostedStand
  OBVIOUS
<1>1. CASE db' = db
  BY <1>1 DEF PostedStand
<1>2. ASSUME NEW t \in Transactions, Commit(t) PROVE PostedStand
  <2>1. Typed /\ RowLocks /\ JournalInv
    BY DEF GuardsInv
  <2>2. \A e \in Here(Entries) : db[e] # None => db'[e] # None /\ db'[e].period = db[e].period
    BY <1>2, <2>1, CommitEntry
  <2>3. ASSUME NEW l \in Here(Lines), db[l] # None PROVE db'[l] = db[l]
    <3>1. l \in Lines /\ l \in DOMAIN db /\ db' = View(t)
      BY <1>2, <2>1, CommitIs DEF Here
    <3>2. l \notin Written(t)
      BY <2>1, <2>3, <3>1 DEF JournalInv, LinesWritten
    <3> QED BY <3>1, <3>2, ViewIs
  <2> QED BY <2>2, <2>3 DEF PostedStand
<1>3. db' = db \/ \E t \in Transactions : Commit(t)
  BY Zenon DEF Next, vars, Statement, StartCheck, Rollback
<1> QED BY <1>1, <1>2, <1>3

LEMMA GuardsAlways == Spec => []GuardsInv
BY InitGuards, StepGuards, PTL DEF Spec

\* BR-006 and BR-008, as far as the guards carry them: whatever transactions
\* overlap, and whatever they write, what is committed keeps the constraints
\* of its table, a committed entry has lines that balance and add up to its
\* header, and a settlement total written with its rows is their sum.
THEOREM CommittedRowsAlwaysAgree == Spec => []CommittedRowsAgree
BY GuardsAlways, GuardsMean, PTL

\* BR-004: no transaction deletes a committed entry, moves it to another
\* period, or changes a committed line or removes it.
THEOREM PostedRowsAlwaysStand == Spec => PostedRowsStand
<1>1. Spec => [][PostedStand]_vars
  BY GuardsAlways, StepKeepsRows, PTL DEF Spec
<1> QED BY <1>1 DEF PostedStand, PostedRowsStand
=============================================================================
