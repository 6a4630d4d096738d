------------------------- MODULE DepartmentStoreProofs -------------------------
(***************************************************************************)
(* Proofs about DepartmentStore, for every set of clients, ids, codes and  *)
(* names and every MaxVersion.  The inductive invariant IInv is preserved  *)
(* by five shapes of step: a request arrives, a transaction moves on, it   *)
(* ends without a trace, it writes and keeps its lock, it commits.         *)
(***************************************************************************)
EXTENDS DepartmentStore, SequenceTheorems, TLAPS

USE StoreAssumption

\* Nothing a transaction does can be seen in the table before it commits.
TableUnchanged == UNCHANGED <<rows, history>>

\* The migrated table with no request in flight satisfies the invariant.
LEMMA InitIInv == Init => IInv
<1> SUFFICES ASSUME Init PROVE IInv
  OBVIOUS
<1> USE DEF Init
<1>1. SeedRow \in Row
  BY DEF SeedRow, Row
<1>2. /\ DOMAIN rows = {SeedId} /\ rows[SeedId] = SeedRow
      /\ DOMAIN history = {SeedId}
      /\ history[SeedId] = <<[expected |-> 0, row |-> SeedRow]>>
  OBVIOUS
<1>3. history[SeedId] \in Seq(Change)
  BY <1>1, <1>2 DEF Change
<1>4. TypeOK
  BY <1>1, <1>2, <1>3 DEF TypeOK
<1>5. RequestsInv /\ IdleInv /\ FreshInv /\ HoldingInv /\ ExclusionInv
  BY DEF RequestsInv, IdleInv, FreshInv, HoldingInv, ExclusionInv, Holding
<1>6. /\ Len(history[SeedId]) = 1
      /\ DOMAIN history[SeedId] = {1}
      /\ history[SeedId][1] = [expected |-> 0, row |-> SeedRow]
  <2>1. 1..1 = {1}
    OBVIOUS
  <2>2. /\ Len(history[SeedId]) = 1
        /\ DOMAIN history[SeedId] = 1..1
        /\ history[SeedId][1] = [expected |-> 0, row |-> SeedRow]
    BY <1>2
  <2> QED
    BY <2>1, <2>2
<1>7. LedgerInv /\ NoLostUpdate
  <2> HIDE DEF Init
  <2>1. SeedRow.version = 1
    BY DEF SeedRow
  <2>2. LedgerInv
    <3> SUFFICES ASSUME NEW id \in DOMAIN rows
                 PROVE  LedgerInv!(id)
      BY DEF LedgerInv
    <3>1. id = SeedId
      BY <1>2
    <3>2. rows[id].version = 1 /\ rows[id] = SeedRow
      BY <1>2, <2>1, <3>1
    <3>3. Len(history[id]) = 1 /\ history[id][1].row = SeedRow
      BY <1>6, <3>1
    <3> QED
      BY <3>2, <3>3
  <2>3. NoLostUpdate
    BY <1>2, <1>6, <2>1 DEF NoLostUpdate
  <2> QED
    BY <2>2, <2>3
<1>8. ImmutableFieldsKept /\ UniqueCodes
  BY <1>2, <1>6 DEF ImmutableFieldsKept, UniqueCodes, SeedRow
<1> QED
  BY <1>4, <1>5, <1>7, <1>8 DEF IInv

-----------------------------------------------------------------------------

\* The invariants of the table alone depend only on rows and history.
LEMMA TableStays ==
  ASSUME IInv, TableUnchanged
  PROVE  /\ (LedgerInv /\ NoLostUpdate /\ ImmutableFieldsKept /\ UniqueCodes)'
         /\ DOMAIN rows' \subseteq Ids
         /\ rows' \in [DOMAIN rows' -> Row]
         /\ history' \in [DOMAIN rows' -> Seq(Change)]
BY DEF IInv, TypeOK, TableUnchanged, LedgerInv, NoLostUpdate, ImmutableFieldsKept,
       UniqueCodes

\* The invariant depends on the variables only.
LEMMA StutterIInv == IInv /\ UNCHANGED vars => IInv'
BY DEF IInv, vars, TypeOK, RequestsInv, IdleInv, FreshInv, HoldingInv, ExclusionInv,
       LedgerInv, NoLostUpdate, ImmutableFieldsKept, UniqueCodes, Holding, Matches, CodeTaken

\* What a PATCH makes of a row at the version it expects is a row again.
LEMMA TouchedRow ==
  ASSUME NEW old \in Row, NEW r \in Request, old.version = r.expected
  PROVE  LET new == Assigned(old, r)
             row == Touched(old, new)
         IN /\ new \in Row /\ new.version = old.version
            /\ row \in Row
            /\ new # old => row = [new EXCEPT !.version = old.version + 1]
                           /\ row.version = old.version + 1
<1> DEFINE new == Assigned(old, r)
           row == Touched(old, new)
<1>1. new \in Row /\ new.version = old.version
  BY DEF Assigned, Row, Request
<1>2. CASE new = old
  BY <1>1, <1>2 DEF Touched
<1>3. CASE new # old
  <2>1. old.version + 1 \in 1..MaxVersion
    BY DEF Row, Request
  <2>2. row = [new EXCEPT !.version = old.version + 1]
    BY <1>3 DEF Touched
  <2>3. DOMAIN new = {"code", "name", "isSystem", "isActive", "version"}
    BY <1>1 DEF Row
  <2> HIDE DEF new, row
  <2>4. row \in Row /\ row.version = old.version + 1
    BY <1>1, <2>1, <2>2, <2>3 DEF Row
  <2> QED
    BY <1>1, <1>3, <2>2, <2>4 DEF new, row
<1> QED
  BY <1>2, <1>3

\* A transaction that ends without committing takes its traces with it.
LEMMA FinishIInv ==
  ASSUME IInv, TableUnchanged, NEW c \in Clients, NEW kind \in Kinds,
         NEW row \in Row \cup {None}, NEW version \in 0..MaxVersion,
         Finish(c, kind, row, version)
  PROVE  IInv'
<1> USE DEF IInv, TypeOK, TableUnchanged, Finish
<1>1. answer' \in Answer \cup {None}
  BY DEF Says, Answer
<1>2. TypeOK'
  BY <1>1, TableStays
<1>3. RequestsInv'
  BY DEF RequestsInv
<1>4. FreshInv' /\ IdleInv'
  BY DEF FreshInv, IdleInv
<1>5. HoldingInv'
  BY DEF HoldingInv, Holding, CodeTaken, Matches
<1>6. ExclusionInv'
  BY DEF ExclusionInv, Holding
<1> QED
  BY <1>2, <1>3, <1>4, <1>5, <1>6, TableStays

\* A transaction that moves on: only the place changes.
LEMMA GoToIInv ==
  ASSUME IInv, TableUnchanged, NEW c \in Clients, NEW p \in {"waiting", "probing"},
         pc[c] # "idle", req[c].op \in {"create", "patch"},
         p = "probing" => req[c].op = "patch" /\ ~Matches(req[c]),
         GoTo(c, p)
  PROVE  IInv'
<1> USE DEF IInv, TypeOK, TableUnchanged, GoTo
<1>1. TypeOK'
  BY TableStays
<1>2. RequestsInv'
  <2> SUFFICES ASSUME NEW d \in Clients, pc'[d] # "idle"
               PROVE  RequestsInv!(d)'
    BY DEF RequestsInv
  <2> QED
    BY DEF RequestsInv, Matches, Request, Row
<1>3. FreshInv' /\ IdleInv'
  BY DEF FreshInv, IdleInv
<1>4. HoldingInv'
  BY DEF HoldingInv, Holding, CodeTaken, Matches
<1>5. ExclusionInv'
  BY DEF ExclusionInv, Holding
<1> QED
  BY <1>1, <1>2, <1>3, <1>4, <1>5, TableStays

\* A request arrives: a create with an id of its own, a get or a patch.
LEMMA SubmitIInv ==
  ASSUME IInv, NEW c \in Clients, NEW r \in Request, Submit(c, r),
         r.op = "create" => r.name \in Names /\ r.id \in FreshIds /\ r.expected = 0,
         r.known => Known(r.id, r.expected)
  PROVE  IInv'
<1> USE DEF IInv, TypeOK, Submit
<1>0. TableUnchanged
  BY DEF TableUnchanged
<1>1. TypeOK'
  BY <1>0, TableStays
<1>2. RequestsInv'
  <2> SUFFICES ASSUME NEW d \in Clients, pc'[d] # "idle"
               PROVE  RequestsInv!(d)'
    BY DEF RequestsInv
  <2>1. CASE d = c
    BY <2>1 DEF RequestsInv, Known, FreshIds
  <2>2. CASE d # c
    BY <2>2 DEF RequestsInv
  <2> QED
    BY <2>1, <2>2
<1>3. FreshInv' /\ IdleInv'
  BY DEF FreshInv, IdleInv, FreshIds
<1>4. HoldingInv'
  BY DEF HoldingInv, Holding, CodeTaken, Matches
<1>5. ExclusionInv'
  BY DEF ExclusionInv, Holding
<1> QED
  BY <1>0, <1>1, <1>2, <1>3, <1>4, <1>5, TableStays

\* An INSERT or UPDATE that got its row: what it wrote fits the committed row,
\* and no other open transaction has the row or the code.
LEMMA HoldIInv ==
  ASSUME IInv, TableUnchanged, NEW c \in Clients, NEW row \in Row, Hold(c, row),
         pc[c] \in {"ready", "waiting"}, req[c].op \in {"create", "patch"},
         req[c].op = "create" => /\ row = NewRow(req[c])
                                 /\ ~CodeTaken(req[c].code)
                                 /\ ~CodeInFlight(c),
         req[c].op = "patch" => LET old == rows[req[c].id]
                                    new == Assigned(old, req[c])
                                IN /\ Matches(req[c])
                                   /\ ~Locked(c)
                                   /\ NameRule(old, new) /\ RetireRule(new)
                                   /\ row = Touched(old, new)
  PROVE  IInv'
<1> USE DEF IInv, TypeOK, TableUnchanged, Hold
<1>1. TypeOK'
  BY TableStays
<1>2. RequestsInv'
  BY DEF RequestsInv
<1>3. FreshInv' /\ IdleInv'
  BY DEF FreshInv, IdleInv
<1>4. HoldingInv'
  <2> SUFFICES ASSUME NEW d \in Clients, Holding(d)'
               PROVE  HoldingInv!(d)'
    BY DEF HoldingInv
  <2>1. CASE d = c
    BY <2>1 DEF HoldingInv, Holding, CodeTaken, Matches
  <2>2. CASE d # c
    BY <2>2 DEF HoldingInv, Holding, CodeTaken, Matches
  <2> QED
    BY <2>1, <2>2
<1>5. ExclusionInv'
  BY DEF ExclusionInv, Holding, Locked, CodeInFlight
<1> QED
  BY <1>1, <1>2, <1>3, <1>4, <1>5, TableStays

-----------------------------------------------------------------------------
(* The commit.                                                             *)

\* What the open transaction of c does to the log of its department.
Log(c) ==
  IF req[c].id \notin DOMAIN rows \/ rows[req[c].id] # pending[c]
    THEN Append(IF req[c].id \in DOMAIN history THEN history[req[c].id] ELSE <<>>,
                [expected |-> req[c].expected, row |-> pending[c]])
    ELSE history[req[c].id]

\* The log is the old one and at most one entry more, for the very next version,
\* and ends with the row that is committed.
LEMMA LogGrows ==
  ASSUME IInv, NEW c \in Clients, Holding(c)
  PROVE  LET id == req[c].id
             row == pending[c]
             old == IF id \in DOMAIN rows THEN rows[id].version ELSE 0
         IN /\ id \in Ids /\ row \in Row
            /\ Log(c) \in Seq(Change)
            /\ Len(Log(c)) = row.version
            /\ row.version \in {old, old + 1}
            /\ \A n \in 1..old : Log(c)[n] = history[id][n]
            /\ Log(c)[row.version].row = row
            /\ row.version = old + 1 => Log(c)[row.version].expected = old
            /\ row.version = old => id \in DOMAIN rows /\ row = rows[id]
<1> DEFINE r == req[c]
           id == r.id
           row == pending[c]
<1> USE DEF IInv, TypeOK
<1>1. /\ r \in Request /\ r.op \in {"create", "patch"}
      /\ r.expected \in 0..(MaxVersion - 1)
  BY DEF RequestsInv, Holding, Request
<1>2. CASE r.op = "create"
  <2>1. id \notin DOMAIN rows /\ r.expected = 0 /\ row = NewRow(r) /\ r.name \in Names
    BY <1>1, <1>2 DEF RequestsInv, HoldingInv, Holding
  <2>2. row \in Row /\ row.version = 1
    BY <1>1, <2>1 DEF NewRow, Row, Request
  <2>3. Log(c) = <<[expected |-> 0, row |-> row]>>
    BY <2>1 DEF Log
  <2>4. [expected |-> 0, row |-> row] \in Change
    BY <2>2 DEF Change
  <2> QED
    BY <1>1, <2>1, <2>2, <2>3, <2>4 DEF Request
<1>3. CASE r.op = "patch"
  <2> DEFINE old == rows[id]
             new == Assigned(old, r)
  <2>1. /\ id \in DOMAIN rows /\ old.version = r.expected
        /\ row = Touched(old, new)
    BY <1>1, <1>3 DEF HoldingInv, Holding, Matches
  <2>2. old \in Row /\ history[id] \in Seq(Change)
    BY <2>1
  <2>3. Len(history[id]) = old.version /\ history[id][old.version].row = old
    BY <2>1 DEF LedgerInv
  <2>4. new \in Row /\ new.version = old.version
    BY <1>1, <2>1, <2>2, TouchedRow
  <2>5. CASE new = old
    <3>1. row = old
      BY <2>1, <2>5 DEF Touched
    <3>2. Log(c) = history[id]
      BY <2>1, <3>1 DEF Log
    <3> QED
      BY <1>1, <2>1, <2>2, <2>3, <3>1, <3>2 DEF Row, Request
  <2>6. CASE new # old
    <3>1. row \in Row /\ row.version = old.version + 1
      BY <1>1, <2>1, <2>2, <2>6, TouchedRow
    <3>2. row # old
      BY <2>2, <3>1 DEF Row
    <3>3. Log(c) = Append(history[id], [expected |-> r.expected, row |-> row])
      BY <2>1, <3>2 DEF Log
    <3> DEFINE change == [expected |-> r.expected, row |-> row]
    <3>4. change \in Change /\ change.expected = r.expected /\ change.row = row
      BY <1>1, <3>1 DEF Change
    <3>5. old.version \in Nat /\ r.expected \in Nat
      BY <1>1, <2>2 DEF Row, Request
    <3>6. Log(c) = Append(history[id], change)
      BY <3>3
    <3> HIDE DEF change, IInv
    <3> DEFINE log == history[id]
    <3>7. log \in Seq(Change) /\ Len(log) = old.version /\ Log(c) = Append(log, change)
      BY <2>2, <2>3, <3>6
    <3>8. id \in Ids
      BY <1>1 DEF Request
    <3> HIDE DEF log
    <3>9. /\ Log(c) \in Seq(Change) /\ Len(Log(c)) = old.version + 1
          /\ Log(c)[old.version + 1] = change
          /\ \A n \in 1..old.version : Log(c)[n] = log[n]
      BY <3>4, <3>5, <3>7
    <3> QED
      BY <2>1, <3>1, <3>4, <3>5, <3>8, <3>9 DEF log
  <2> QED
    BY <2>5, <2>6
<1> QED
  BY <1>1, <1>2, <1>3

\* What the commit does to the two tables, read off Install.
LEMMA InstallTables ==
  ASSUME IInv, NEW c \in Clients, Holding(c), Install(c)
  PROVE  LET id == req[c].id
         IN /\ DOMAIN rows' = DOMAIN rows \cup {id}
            /\ DOMAIN history' = DOMAIN rows'
            /\ rows'[id] = pending[c] /\ history'[id] = Log(c)
            /\ \A i \in DOMAIN rows \ {id} : rows'[i] = rows[i]
                                           /\ history'[i] = history[i]
            /\ rows' \in [DOMAIN rows' -> Row]
            /\ history' \in [DOMAIN rows' -> Seq(Change)]
            /\ DOMAIN rows' \subseteq Ids
<1> DEFINE id == req[c].id
<1>1. DOMAIN history = DOMAIN rows
  BY DEF IInv, TypeOK
<1>2. rows' = [i \in DOMAIN rows \cup {id} |-> IF i = id THEN pending[c] ELSE rows[i]]
  BY DEF Install
<1>3. history' = [i \in DOMAIN rows \cup {id} |-> IF i = id THEN Log(c) ELSE history[i]]
  BY <1>1 DEF Install, Log
<1>4. pending[c] \in Row /\ Log(c) \in Seq(Change) /\ id \in Ids
  BY LogGrows
<1>5. /\ \A i \in DOMAIN rows : rows[i] \in Row /\ history[i] \in Seq(Change)
      /\ DOMAIN rows \subseteq Ids
  BY DEF IInv, TypeOK
<1> HIDE DEF id
<1> QED
  BY <1>1, <1>2, <1>3, <1>4, <1>5 DEF id

\* A department's log, as LedgerInv, NoLostUpdate and ImmutableFieldsKept see it.
LEMMA InstallLog ==
  ASSUME IInv, NEW c \in Clients, Holding(c), Install(c)
  PROVE  (LedgerInv /\ NoLostUpdate)'
<1> DEFINE id == req[c].id
           row == pending[c]
           old == IF id \in DOMAIN rows THEN rows[id].version ELSE 0
<1>1. /\ Len(Log(c)) = row.version /\ Log(c)[row.version].row = row
      /\ row.version \in {old, old + 1}
      /\ \A n \in 1..old : Log(c)[n] = history[id][n]
      /\ row.version = old + 1 => Log(c)[row.version].expected = old
      /\ Log(c) \in Seq(Change)
  BY LogGrows
<1>2. old \in Nat /\ row.version \in Nat
  BY LogGrows DEF IInv, TypeOK, Row
<1>t. /\ DOMAIN rows' = DOMAIN rows \cup {id} /\ DOMAIN history' = DOMAIN rows'
      /\ rows'[id] = row /\ history'[id] = Log(c)
      /\ \A i \in DOMAIN rows \ {id} : rows'[i] = rows[i] /\ history'[i] = history[i]
  BY InstallTables
<1> HIDE DEF id, row
<1>3. LedgerInv'
  <2> SUFFICES ASSUME NEW i \in DOMAIN rows'
               PROVE  LedgerInv!(i)'
    BY DEF LedgerInv
  <2>1. CASE i = id
    BY <1>1, <1>t, <2>1
  <2>2. CASE i # id
    BY <1>t, <2>2 DEF IInv, LedgerInv
  <2> QED
    BY <2>1, <2>2
<1>4. NoLostUpdate'
  <2> SUFFICES ASSUME NEW i \in DOMAIN rows', NEW n \in DOMAIN history'[i]
               PROVE  history'[i][n].row.version = n /\ history'[i][n].expected = n - 1
    BY DEF NoLostUpdate
  <2>1. CASE i = id
    <3>1. n \in 1..row.version /\ history'[i] = Log(c)
      BY <1>1, <1>t, <2>1
    <3>2. CASE n \in 1..old
      <4>1. id \in DOMAIN rows /\ Len(history[id]) = old /\ history[id] \in Seq(Change)
        BY <3>2 DEF IInv, TypeOK, LedgerInv
      <4>2. n \in DOMAIN history[id]
        BY <3>2, <4>1
      <4> QED
        BY <1>1, <3>1, <3>2, <4>1, <4>2 DEF IInv, NoLostUpdate
    <3>3. CASE n \notin 1..old
      <4>1. n = old + 1 /\ n = row.version
        BY <1>1, <1>2, <3>1, <3>3
      <4> QED
        BY <1>1, <1>2, <3>1, <4>1
    <3> QED
      BY <3>2, <3>3
  <2>2. CASE i # id
    BY <1>t, <2>2 DEF IInv, NoLostUpdate
  <2> QED
    BY <2>1, <2>2
<1> QED
  BY <1>3, <1>4

\* A row about to be committed keeps to the rules of the department it changes,
\* or opens a new one under a code that is free.
LEMMA PendingKeepsRules ==
  ASSUME IInv, NEW c \in Clients, Holding(c)
  PROVE  LET r == req[c]
             row == pending[c]
             old == rows[r.id]
         IN /\ row.isSystem => row.isActive
            /\ r.op = "patch" => /\ r.id \in DOMAIN rows
                                 /\ row.code = old.code
                                 /\ row.isSystem = old.isSystem
                                 /\ row.isSystem => row.name = old.name
            /\ r.op = "create" => /\ r.id \notin DOMAIN rows
                                  /\ row = NewRow(r)
                                  /\ ~CodeTaken(row.code)
            /\ r.op \in {"create", "patch"}
<1> DEFINE r == req[c]
           row == pending[c]
<1> USE DEF IInv
<1>1. r.op \in {"create", "patch"}
  BY DEF RequestsInv, Holding
<1>2. CASE r.op = "create"
  <2>1. r.id \notin DOMAIN rows /\ row = NewRow(r) /\ ~CodeTaken(r.code)
    BY <1>2 DEF RequestsInv, HoldingInv, Holding
  <2> QED
    BY <1>2, <2>1 DEF NewRow
<1>3. CASE r.op = "patch"
  <2> DEFINE old == rows[r.id]
             new == Assigned(old, r)
  <2>1. /\ r.id \in DOMAIN rows /\ row = Touched(old, new)
        /\ NameRule(old, new) /\ RetireRule(new)
    BY <1>3 DEF HoldingInv, Holding, Matches
  <2>2. old \in Row
    BY <2>1 DEF TypeOK
  <2>3. new.code = old.code /\ new.isSystem = old.isSystem
    BY <2>2 DEF Assigned, Row
  <2>4. DOMAIN new = {"code", "name", "isSystem", "isActive", "version"}
    BY <2>2 DEF Assigned, Row
  <2> HIDE DEF new
  <2>5. /\ row.code = new.code /\ row.isSystem = new.isSystem
        /\ row.name = new.name /\ row.isActive = new.isActive
    BY <2>1, <2>4 DEF Touched
  <2> QED
    BY <1>3, <2>1, <2>3, <2>5 DEF NameRule, RetireRule
<1> QED
  BY <1>1, <1>2, <1>3

\* A commit keeps the immutable columns of its department and the codes apart.
LEMMA InstallRules ==
  ASSUME IInv, NEW c \in Clients, Holding(c), Install(c)
  PROVE  (ImmutableFieldsKept /\ UniqueCodes)'
<1> DEFINE id == req[c].id
           row == pending[c]
           old == IF id \in DOMAIN rows THEN rows[id].version ELSE 0
<1>1. /\ Len(Log(c)) = row.version /\ Log(c)[row.version].row = row
      /\ row.version \in {old, old + 1}
      /\ \A n \in 1..old : Log(c)[n] = history[id][n]
      /\ Log(c) \in Seq(Change)
  BY LogGrows
<1>2. old \in Nat /\ row.version \in Nat
  BY LogGrows DEF IInv, TypeOK, Row
<1>3. /\ DOMAIN rows' = DOMAIN rows \cup {id} /\ DOMAIN history' = DOMAIN rows'
      /\ rows'[id] = row /\ history'[id] = Log(c)
      /\ \A i \in DOMAIN rows \ {id} : rows'[i] = rows[i] /\ history'[i] = history[i]
  BY InstallTables
<1>4. /\ row.isSystem => row.isActive
      /\ id \in DOMAIN rows => /\ row.code = rows[id].code
                               /\ row.isSystem = rows[id].isSystem
                               /\ row.isSystem => row.name = rows[id].name
      /\ id \notin DOMAIN rows => ~CodeTaken(row.code)
  BY PendingKeepsRules
<1>5. id \in DOMAIN rows => /\ Len(history[id]) = old
                           /\ history[id] \in Seq(Change)
                           /\ old \in 1..MaxVersion
                           /\ history[id][old].row = rows[id]
  BY DEF IInv, TypeOK, LedgerInv, Row
<1> HIDE DEF id, row
<1>6. ImmutableFieldsKept'
  <2> SUFFICES ASSUME NEW i \in DOMAIN rows', NEW n \in DOMAIN history'[i]
               PROVE  LET first == history'[i][1].row
                          this == history'[i][n].row
                      IN /\ this.code = first.code
                         /\ this.isSystem = first.isSystem
                         /\ this.isSystem => this.isActive /\ this.name = first.name
    BY DEF ImmutableFieldsKept
  <2>1. CASE i = id /\ id \in DOMAIN rows
    <3>1. n \in 1..row.version /\ history'[i] = Log(c)
      BY <1>1, <1>2, <1>3, <2>1
    <3>2. /\ 1 \in DOMAIN history[id] /\ old \in DOMAIN history[id]
          /\ history'[i][1] = history[id][1]
      BY <1>1, <1>2, <1>5, <2>1, <3>1
    <3>3. CASE n \in 1..old
      <4>1. n \in DOMAIN history[id] /\ history'[i][n] = history[id][n]
        BY <1>1, <1>5, <2>1, <3>1, <3>3
      <4> QED
        BY <2>1, <3>2, <4>1 DEF IInv, ImmutableFieldsKept
    <3>4. CASE n \notin 1..old
      <4>1. history'[i][n].row = row
        BY <1>1, <1>2, <3>1, <3>4
      <4> QED
        BY <1>4, <1>5, <2>1, <3>2, <4>1 DEF IInv, ImmutableFieldsKept
    <3> QED
      BY <3>3, <3>4
  <2>2. CASE i = id /\ id \notin DOMAIN rows
    <3>1. n \in 1..row.version /\ history'[i] = Log(c) /\ old = 0
      BY <1>1, <1>2, <1>3, <2>2
    <3>2. n = 1 /\ row.version = 1
      BY <1>1, <1>2, <3>1
    <3> QED
      BY <1>1, <1>4, <3>1, <3>2
  <2>3. CASE i # id
    BY <1>3, <2>3 DEF IInv, ImmutableFieldsKept
  <2> QED
    BY <2>1, <2>2, <2>3
<1>7. UniqueCodes'
  BY <1>3, <1>4 DEF IInv, UniqueCodes, CodeTaken
<1> QED
  BY <1>6, <1>7

\* A commit preserves the invariant, whether or not its client hears of it.
LEMMA InstallIInv ==
  ASSUME IInv, NEW c \in Clients, Holding(c), Install(c), NEW kind \in Kinds,
         NEW shown \in Row \cup {None}, Finish(c, kind, shown, 0)
  PROVE  IInv'
<1> DEFINE id == req[c].id
           row == pending[c]
           old == IF id \in DOMAIN rows THEN rows[id].version ELSE 0
<1>1. /\ DOMAIN rows' = DOMAIN rows \cup {id}
      /\ rows'[id] = row
      /\ \A i \in DOMAIN rows \ {id} : rows'[i] = rows[i]
      /\ rows' \in [DOMAIN rows' -> Row]
      /\ history' \in [DOMAIN rows' -> Seq(Change)]
      /\ DOMAIN rows' \subseteq Ids
  BY InstallTables
<1>2. /\ req[c].op = "patch" => id \in DOMAIN rows /\ row.code = rows[id].code
      /\ req[c].op = "create" => id \notin DOMAIN rows /\ row = NewRow(req[c])
      /\ req[c].op \in {"create", "patch"}
  BY PendingKeepsRules
<1>3. row.version \in {old, old + 1} /\ row \in Row
  BY LogGrows
<1>4. /\ pc' = [pc EXCEPT ![c] = "idle"]
      /\ req' = [req EXCEPT ![c] = None]
      /\ pending' = [pending EXCEPT ![c] = None]
  BY DEF Finish
<1>5. \A d \in Clients \ {c} : pc'[d] = pc[d] /\ req'[d] = req[d]
                              /\ pending'[d] = pending[d]
  BY <1>4 DEF IInv, TypeOK
<1>6. pc'[c] = "idle"
  BY <1>4 DEF IInv, TypeOK
<1>7. TypeOK'
  <2>1. answer' \in Answer \cup {None}
    BY DEF Finish, Says, Answer, IInv, TypeOK
  <2> QED
    BY <1>1, <1>4, <2>1 DEF IInv, TypeOK
<1>8. RequestsInv'
  <2> SUFFICES ASSUME NEW d \in Clients, pc'[d] # "idle"
               PROVE  RequestsInv!(d)'
    BY DEF RequestsInv
  <2>1. d # c /\ pc[d] # "idle" /\ req'[d] = req[d] /\ pc'[d] = pc[d]
    BY <1>5, <1>6
  <2> DEFINE r == req[d]
  <2>2. /\ r \in Request /\ r.expected \in Nat
        /\ pc[d] \in {"waiting", "holding"} => r.op \in {"create", "patch"}
        /\ pc[d] = "probing" => r.op = "patch"
    BY <2>1 DEF IInv, RequestsInv, Request
  <2>3. ASSUME r.op = "create"
        PROVE  r.name \in Names /\ r.id \notin DOMAIN rows' /\ r.expected = 0
    <3>1. r.name \in Names /\ r.id \notin DOMAIN rows /\ r.expected = 0
      BY <2>1, <2>3 DEF IInv, RequestsInv
    <3>2. req[c].op = "create" => r.id # id
      BY <2>1, <2>3 DEF IInv, FreshInv, Holding
    <3> QED
      BY <1>1, <1>2, <3>1, <3>2
  <2>4. ASSUME r.known
        PROVE  /\ r.id \in DOMAIN rows' /\ r.expected <= rows'[r.id].version
               /\ pc[d] = "probing" => r.expected < rows'[r.id].version
    <3>1. /\ r.id \in DOMAIN rows /\ r.expected <= rows[r.id].version
          /\ pc[d] = "probing" => r.expected < rows[r.id].version
      BY <2>1, <2>4 DEF IInv, RequestsInv
    <3>2. rows[r.id].version \in Nat /\ rows'[r.id].version \in Nat
      BY <1>1, <3>1 DEF IInv, TypeOK, Row
    <3>3. rows[r.id].version <= rows'[r.id].version
      <4>1. CASE r.id # id
        <5>1. rows'[r.id] = rows[r.id]
          BY <1>1, <3>1, <4>1
        <5> QED
          BY <3>2, <5>1
      <4>2. CASE r.id = id
        <5>1. old = rows[r.id].version
          BY <3>1, <4>2
        <5>2. rows'[r.id].version \in {old, old + 1}
          BY <1>1, <1>3, <4>2
        <5> HIDE DEF old
        <5> QED
          BY <3>2, <5>1, <5>2
      <4> QED
        BY <4>1, <4>2
    <3> HIDE DEF r
    <3> QED
      BY <1>1, <2>2, <3>1, <3>2, <3>3
  <2> QED
    BY <2>1, <2>2, <2>3, <2>4
<1>9. FreshInv' /\ IdleInv'
  BY <1>4, <1>5, <1>6 DEF IInv, TypeOK, FreshInv, IdleInv
<1>10. HoldingInv'
  <2> SUFFICES ASSUME NEW d \in Clients, pc'[d] = "holding"
               PROVE  HoldingInv!(d)'
    BY DEF HoldingInv, Holding
  <2> DEFINE r == req[d]
  <2>1. /\ d # c /\ Holding(d) /\ req'[d] = r /\ pending'[d] = pending[d]
    BY <1>5, <1>6 DEF Holding
  <2>2. ASSUME r.op = "create"
        PROVE  pending[d] = NewRow(r) /\ ~CodeTaken(r.code)'
    <3>1. pending[d] = NewRow(r) /\ ~CodeTaken(r.code)
      BY <2>1, <2>2 DEF IInv, HoldingInv
    <3>2. row.code # r.code
      <4>1. CASE req[c].op = "create"
        BY <1>2, <2>1, <2>2, <4>1 DEF IInv, ExclusionInv, NewRow
      <4>2. CASE req[c].op = "patch"
        BY <1>2, <3>1, <4>2 DEF CodeTaken
      <4> QED
        BY <1>2, <4>1, <4>2
    <3> QED
      BY <1>1, <2>1, <3>1, <3>2 DEF CodeTaken
  <2>3. ASSUME r.op = "patch"
        PROVE  /\ Matches(r)'
               /\ rows'[r.id] = rows[r.id]
    <3>1. Matches(r)
      BY <2>1, <2>3 DEF IInv, HoldingInv
    <3>2. r.id # id
      BY <1>2, <2>1, <2>3, <3>1 DEF IInv, ExclusionInv, Matches
    <3> QED
      BY <1>1, <2>1, <3>1, <3>2 DEF Matches
  <2> QED
    BY <2>1, <2>2, <2>3 DEF IInv, HoldingInv
<1>11. ExclusionInv'
  BY <1>5, <1>6 DEF IInv, ExclusionInv, Holding
<1> QED
  BY <1>7, <1>8, <1>9, <1>10, <1>11, InstallLog, InstallRules DEF IInv

\* The row a PATCH is about to commit carries the PATCH out.
LEMMA PatchApplied ==
  ASSUME IInv, NEW c \in Clients, Holding(c), req[c].op = "patch"
  PROVE  LET r == req[c]
             row == pending[c]
         IN /\ r.name \in {Unset, row.name}
            /\ r.isActive \in {Unset, row.isActive}
            /\ row.version \in {r.expected, r.expected + 1}
<1> DEFINE r == req[c]
           old == rows[r.id]
           new == Assigned(old, r)
           row == pending[c]
<1>1. /\ r \in Request /\ old \in Row /\ old.version = r.expected
      /\ row = Touched(old, new)
  BY DEF IInv, TypeOK, RequestsInv, HoldingInv, Holding, Matches
<1>2. /\ r.name \in {Unset, new.name} /\ r.isActive \in {Unset, new.isActive}
      /\ DOMAIN new = {"code", "name", "isSystem", "isActive", "version"}
  BY <1>1 DEF Assigned, Row
<1>3. /\ new.version = old.version
      /\ new # old => row.version = old.version + 1
  BY <1>1, TouchedRow
<1> HIDE DEF new, old
<1>4. row.name = new.name /\ row.isActive = new.isActive
  BY <1>1, <1>2 DEF Touched
<1>5. new = old => row = old
  BY <1>1 DEF Touched
<1> QED
  BY <1>1, <1>2, <1>3, <1>4, <1>5

-----------------------------------------------------------------------------
(* Every step preserves the invariant.                                     *)

\* An UPDATE that holds the row lock fails on a rule or keeps the lock.
LEMMA UpdateIInv ==
  ASSUME IInv, NEW c \in Clients, Update(c)
  PROVE  IInv'
<1>1. /\ pc[c] \in {"ready", "waiting"} /\ req[c].op = "patch"
      /\ TableUnchanged
  BY DEF Update, TableUnchanged
<1>2. CASE Matches(req[c]) /\ Locked(c) /\ pc[c] = "ready" /\ GoTo(c, "waiting")
  BY <1>1, <1>2, GoToIInv
<1>3. CASE Matches(req[c]) /\ ~Locked(c) /\ WriteRow(c)
  <2> DEFINE old == rows[req[c].id]
             new == Assigned(old, req[c])
  <2>1. CASE Fail(c, "name_immutable") \/ Fail(c, "cannot_retire")
    <3>1. \A kind \in Kinds : Fail(c, kind) => IInv'
      BY <1>1, FinishIInv DEF Fail
    <3> QED
      BY <2>1, <3>1 DEF Kinds
  <2>2. CASE NameRule(old, new) /\ RetireRule(new) /\ Hold(c, Touched(old, new))
    <3>1. old \in Row /\ req[c] \in Request /\ old.version = req[c].expected
      BY <1>1, <1>3 DEF Matches, IInv, TypeOK, RequestsInv
    <3>2. Touched(old, new) \in Row
      BY <3>1, TouchedRow
    <3> QED
      BY <1>1, <1>3, <2>2, <3>2, HoldIInv
  <2> QED
    BY <1>3, <2>1, <2>2 DEF WriteRow
<1>4. CASE ~Matches(req[c]) /\ GoTo(c, "probing")
  BY <1>1, <1>4, GoToIInv
<1> QED
  BY <1>2, <1>3, <1>4 DEF Update

\* An INSERT is refused, waits, or keeps the code to itself until it commits.
LEMMA InsertIInv ==
  ASSUME IInv, NEW c \in Clients, Insert(c)
  PROVE  IInv'
<1>1. /\ pc[c] \in {"ready", "waiting"} /\ req[c].op = "create"
      /\ TableUnchanged
  BY DEF Insert, TableUnchanged
<1>2. CASE Fail(c, "duplicate_code")
  BY <1>1, <1>2, FinishIInv DEF Fail, Kinds
<1>3. CASE GoTo(c, "waiting")
  BY <1>1, <1>3, GoToIInv
<1>4. CASE ~CodeTaken(req[c].code) /\ ~CodeInFlight(c) /\ Hold(c, NewRow(req[c]))
  <2>1. req[c] \in Request /\ req[c].name \in Names
    BY <1>1 DEF IInv, RequestsInv
  <2>2. NewRow(req[c]) \in Row
    BY <2>1 DEF NewRow, Row, Request
  <2> QED
    BY <1>1, <1>4, <2>2, HoldIInv
<1> QED
  BY <1>2, <1>3, <1>4 DEF Insert

(***************************************************************************)
(* No step of a client, and no failure of the database, breaks IInv.       *)
(***************************************************************************)
THEOREM NextIInv == IInv /\ [Next]_vars => IInv'
<1> SUFFICES ASSUME IInv, Next
             PROVE  IInv'
  BY StutterIInv
<1> PICK c \in Clients :
      \/ SubmitGet(c) \/ SubmitCreate(c) \/ SubmitPatch(c)
      \/ Read(c) \/ Insert(c) \/ Update(c) \/ Probe(c)
      \/ Commit(c) \/ CommitUnacknowledged(c) \/ Abort(c)
  BY DEF Next
<1>0. ASSUME NEW kind \in Kinds, Refuse(c, kind)
      PROVE  IInv'
  <2>1. answer' \in Answer
    BY <1>0 DEF Refuse, Says, Answer
  <2> QED
    BY <1>0, <2>1 DEF Refuse, IInv, TypeOK, RequestsInv, IdleInv, FreshInv, HoldingInv,
       ExclusionInv, LedgerInv, NoLostUpdate, ImmutableFieldsKept, UniqueCodes,
       Holding, Matches, CodeTaken
<1>1. CASE SubmitGet(c)
  <2> PICK id \in Ids :
        Submit(c, [op |-> "get", id |-> id, code |-> SeedCode, name |-> Unset,
                   isSystem |-> FALSE, isActive |-> Unset, expected |-> 0,
                   known |-> id \in DOMAIN rows])
    BY <1>1 DEF SubmitGet
  <2> DEFINE r == [op |-> "get", id |-> id, code |-> SeedCode, name |-> Unset,
                   isSystem |-> FALSE, isActive |-> Unset, expected |-> 0,
                   known |-> id \in DOMAIN rows]
  <2>1. r \in Request
    BY DEF Request
  <2>2. id \in DOMAIN rows => Known(id, 0)
    BY DEF Known, IInv, TypeOK, Row
  <2> QED
    BY <2>1, <2>2, SubmitIInv
<1>2. CASE SubmitCreate(c)
  <2> PICK id \in FreshIds, code \in Codes \cup {Blank}, name \in Names \cup {Blank},
          isSystem \in BOOLEAN :
        IF code = Blank \/ name = Blank
          THEN Refuse(c, "validation_error")
          ELSE Submit(c, [op |-> "create", id |-> id, code |-> code, name |-> name,
                          isSystem |-> isSystem, isActive |-> Unset,
                          expected |-> 0, known |-> FALSE])
    BY <1>2 DEF SubmitCreate
  <2>1. CASE code = Blank \/ name = Blank
    BY <1>0, <2>1 DEF Kinds
  <2>2. CASE code # Blank /\ name # Blank
    <3> DEFINE r == [op |-> "create", id |-> id, code |-> code, name |-> name,
                     isSystem |-> isSystem, isActive |-> Unset,
                     expected |-> 0, known |-> FALSE]
    <3>1. r \in Request
      BY <2>2 DEF Request, FreshIds
    <3> QED
      BY <2>2, <3>1, SubmitIInv
  <2> QED
    BY <2>1, <2>2
<1>3. CASE SubmitPatch(c)
  <2> PICK id \in Ids, name \in Names \cup {Unset, Blank},
          isActive \in BOOLEAN \cup {Unset}, expected \in 0..(MaxVersion - 1) :
        IF name = Unset /\ isActive = Unset
          THEN Refuse(c, "no_mutable_field")
          ELSE IF name = Blank
            THEN Refuse(c, "validation_error")
            ELSE Submit(c, [op |-> "patch", id |-> id, code |-> SeedCode,
                            name |-> name, isSystem |-> FALSE,
                            isActive |-> isActive, expected |-> expected,
                            known |-> Known(id, expected)])
    BY <1>3 DEF SubmitPatch
  <2>1. CASE (name = Unset /\ isActive = Unset) \/ name = Blank
    BY <1>0, <2>1 DEF Kinds
  <2>2. CASE ~(name = Unset /\ isActive = Unset) /\ name # Blank
    <3> DEFINE r == [op |-> "patch", id |-> id, code |-> SeedCode,
                     name |-> name, isSystem |-> FALSE,
                     isActive |-> isActive, expected |-> expected,
                     known |-> Known(id, expected)]
    <3>1. r \in Request
      BY <2>2 DEF Request, Known
    <3> QED
      BY <2>2, <3>1, SubmitIInv
  <2> QED
    BY <2>1, <2>2
<1>4. CASE Read(c)
  <2>1. TableUnchanged
    BY <1>4 DEF Read, TableUnchanged
  <2>2. CASE req[c].id \in DOMAIN rows
    <3>1. rows[req[c].id] \in Row
      BY <2>2 DEF IInv, TypeOK
    <3> QED
      BY <1>4, <2>1, <2>2, <3>1, FinishIInv DEF Read, Kinds
  <2>3. CASE req[c].id \notin DOMAIN rows
    BY <1>4, <2>1, <2>3, FinishIInv DEF Read, Fail, Kinds
  <2> QED
    BY <2>2, <2>3
<1>5. CASE Insert(c)
  BY <1>5, InsertIInv
<1>6. CASE Update(c)
  BY <1>6, UpdateIInv
<1>7. CASE Probe(c)
  <2>1. TableUnchanged
    BY <1>7 DEF Probe, TableUnchanged
  <2>2. CASE req[c].id \in DOMAIN rows
    <3>1. rows[req[c].id].version \in 0..MaxVersion
      BY <2>2 DEF IInv, TypeOK, Row
    <3> QED
      BY <1>7, <2>1, <2>2, <3>1, FinishIInv DEF Probe, Kinds
  <2>3. CASE req[c].id \notin DOMAIN rows
    BY <1>7, <2>1, <2>3, FinishIInv DEF Probe, Fail, Kinds
  <2> QED
    BY <2>2, <2>3
<1>8. CASE Commit(c)
  <2>1. pending[c] \in Row \cup {None}
    BY DEF IInv, TypeOK
  <2> QED
    BY <1>8, <2>1, InstallIInv DEF Commit, Kinds
<1>9. CASE CommitUnacknowledged(c)
  BY <1>9, InstallIInv DEF CommitUnacknowledged, Fail, Kinds
<1>10. CASE Abort(c)
  BY <1>10, FinishIInv DEF Abort, Fail, Kinds, TableUnchanged
<1> QED
  BY <1>1, <1>2, <1>3, <1>4, <1>5, <1>6, <1>7, <1>8, <1>9, <1>10

-----------------------------------------------------------------------------
(* The theorems of the specification.                                      *)

(***************************************************************************)
(* The conjunction IInv holds in every reachable state, and so does each   *)
(* of its conjuncts.                                                       *)
(***************************************************************************)
THEOREM Inductive == Spec => []IInv
<1>1. Init => IInv
  BY InitIInv
<1>2. IInv /\ [Next]_vars => IInv'
  BY NextIInv
<1> QED
  BY <1>1, <1>2, PTL DEF Spec

(***************************************************************************)
(* The rows, the change log, the requests and the answers keep their types *)
(* whatever the clients send.                                              *)
(***************************************************************************)
THEOREM TypeCorrect == Spec => []TypeOK
<1>1. IInv => TypeOK
  BY DEF IInv
<1> QED
  BY <1>1, Inductive, PTL

(***************************************************************************)
(* The WHERE record_version = $n clause and touch_row together never lose  *)
(* an update (DepartmentRepository.Update).                                *)
(***************************************************************************)
THEOREM UpdatesNotLost == Spec => []NoLostUpdate
<1>1. IInv => NoLostUpdate
  BY DEF IInv
<1> QED
  BY <1>1, Inductive, PTL

(***************************************************************************)
(* No sequence of accepted requests changes an immutable column            *)
(* (deptUpdateFromTx with the triggers of the migration).                  *)
(***************************************************************************)
THEOREM ImmutableFieldsStay == Spec => []ImmutableFieldsKept
<1>1. IInv => ImmutableFieldsKept
  BY DEF IInv
<1> QED
  BY <1>1, Inductive, PTL

(***************************************************************************)
(* Concurrent creates never leave two departments with one code            *)
(* (DepartmentRepository.Insert under uq_departments_code).                *)
(***************************************************************************)
THEOREM CodesStayUnique == Spec => []UniqueCodes
<1>1. IInv => UniqueCodes
  BY DEF IInv
<1> QED
  BY <1>1, Inductive, PTL

(***************************************************************************)
(* The version of a 409 is newer than the one the caller sent, and a row   *)
(* the caller had seen is never a 404 (the probe of deptUpdateFromTx).     *)
(***************************************************************************)
THEOREM ConflictsAreTrue == Spec => []ConflictReportsNewer
<1>1. Init => ConflictReportsNewer
  BY DEF Init, ConflictReportsNewer
<1>2. ASSUME IInv, ConflictReportsNewer, [Next]_vars
      PROVE  ConflictReportsNewer'
  <2>1. CASE UNCHANGED vars
    BY <1>2, <2>1 DEF vars, ConflictReportsNewer
  <2>2. CASE Next
    <3> PICK c \in Clients :
          \/ SubmitGet(c) \/ SubmitCreate(c) \/ SubmitPatch(c)
          \/ Read(c) \/ Insert(c) \/ Update(c) \/ Probe(c)
          \/ Commit(c) \/ CommitUnacknowledged(c) \/ Abort(c)
      BY <2>2 DEF Next
    <3>1. CASE Probe(c)
      <4>1. /\ req[c].known => /\ req[c].id \in DOMAIN rows
                              /\ req[c].expected < rows[req[c].id].version
            /\ rows' = rows
        BY <1>2, <3>1 DEF Probe, IInv, RequestsInv
      <4>2. CASE req[c].id \in DOMAIN rows
        <5>1. /\ rows[req[c].id].version \in Nat
              /\ answer' = Says(req[c], "conflict", None, rows[req[c].id].version)
          BY <1>2, <3>1, <4>2 DEF Probe, Finish, IInv, TypeOK, Row
        <5> QED
          BY <4>1, <4>2, <5>1 DEF Says, ConflictReportsNewer
      <4>3. CASE req[c].id \notin DOMAIN rows
        BY <3>1, <4>1, <4>3 DEF Probe, Fail, Finish, Says, ConflictReportsNewer
      <4> QED
        BY <4>2, <4>3
    <3>2. CASE Read(c)
      <4>1. req[c].op = "get" /\ pc[c] = "ready" /\ rows' = rows
        BY <3>2 DEF Read
      <4>2. req[c].known => req[c].id \in DOMAIN rows
        BY <1>2, <4>1 DEF IInv, RequestsInv
      <4> QED
        BY <3>2, <4>1, <4>2 DEF Read, Fail, Finish, Says, ConflictReportsNewer
    <3>3. ASSUME answer' = None \/ answer'.kind \notin {"conflict", "not_found"}
          PROVE  ConflictReportsNewer'
      BY <3>3 DEF ConflictReportsNewer
    <3>4. CASE SubmitGet(c) \/ SubmitCreate(c) \/ SubmitPatch(c)
      BY <3>3, <3>4 DEF SubmitGet, SubmitCreate, SubmitPatch, Submit, Refuse, Says
    <3>5. CASE Insert(c)
      BY <3>3, <3>5 DEF Insert, Fail, Finish, GoTo, Hold, Says
    <3>6. CASE Update(c)
      BY <3>3, <3>6 DEF Update, WriteRow, Fail, Finish, GoTo, Hold, Says
    <3>7. CASE Commit(c) \/ CommitUnacknowledged(c) \/ Abort(c)
      BY <3>3, <3>7 DEF Commit, CommitUnacknowledged, Abort, Fail, Finish, Says
    <3> QED
      BY <3>1, <3>2, <3>4, <3>5, <3>6, <3>7
  <2> QED
    BY <1>2, <2>1, <2>2
<1> QED
  BY <1>1, <1>2, Inductive, PTL DEF Spec

(***************************************************************************)
(* A 200 shows a committed state that carries out the request (the         *)
(* RETURNING clauses, read under the row lock and answered after COMMIT).  *)
(***************************************************************************)
THEOREM AnswersAreCommitted == Spec => []OkIsCommitted
<1>1. Init => OkIsCommitted
  BY DEF Init, OkIsCommitted
<1>2. ASSUME IInv, OkIsCommitted, [Next]_vars
      PROVE  OkIsCommitted'
  <2>1. CASE UNCHANGED vars
    BY <1>2, <2>1 DEF vars, OkIsCommitted
  <2>2. CASE Next
    <3> PICK c \in Clients :
          \/ SubmitGet(c) \/ SubmitCreate(c) \/ SubmitPatch(c)
          \/ Read(c) \/ Insert(c) \/ Update(c) \/ Probe(c)
          \/ Commit(c) \/ CommitUnacknowledged(c) \/ Abort(c)
      BY <2>2 DEF Next
    <3>1. ASSUME answer' = None \/ answer'.kind # "ok"
          PROVE  OkIsCommitted'
      BY <3>1 DEF OkIsCommitted
    <3>2. CASE Read(c)
      <4>1. /\ req[c].op = "get" /\ rows' = rows /\ history' = history
        BY <3>2 DEF Read
      <4>2. CASE req[c].id \in DOMAIN rows
        <5> DEFINE id == req[c].id
        <5>1. answer' = Says(req[c], "ok", rows[id], 0)
          BY <3>2, <4>2 DEF Read, Finish
        <5>2. /\ history[id] \in Seq(Change) /\ rows[id].version \in 1..MaxVersion
              /\ Len(history[id]) = rows[id].version
              /\ history[id][rows[id].version].row = rows[id]
          BY <1>2, <4>2 DEF IInv, TypeOK, LedgerInv, Row
        <5>3. rows[id].version \in DOMAIN history[id]
          BY <5>2
        <5> QED
          BY <4>1, <4>2, <5>1, <5>2, <5>3 DEF Says, OkIsCommitted
      <4>3. CASE req[c].id \notin DOMAIN rows
        BY <3>1, <3>2, <4>3 DEF Read, Fail, Finish, Says
      <4> QED
        BY <4>2, <4>3
    <3>3. CASE Commit(c)
      <4> DEFINE id == req[c].id
                 row == pending[c]
      <4>1. /\ Holding(c) /\ Install(c) /\ answer' = Says(req[c], "ok", row, 0)
        BY <3>3 DEF Commit, Finish
      <4>2. /\ DOMAIN rows' = DOMAIN rows \cup {id}
            /\ history'[id] = Log(c)
        BY <1>2, <4>1, InstallTables
      <4>3. /\ row \in Row /\ Log(c) \in Seq(Change)
            /\ Len(Log(c)) = row.version /\ Log(c)[row.version].row = row
        BY <1>2, <4>1, LogGrows
      <4>4. row.version \in DOMAIN Log(c)
        BY <4>3 DEF Row
      <4>5. req[c].op = "patch" =>
              /\ req[c].name \in {Unset, row.name}
              /\ req[c].isActive \in {Unset, row.isActive}
              /\ row.version \in {req[c].expected, req[c].expected + 1}
        BY <1>2, <4>1, PatchApplied
      <4> QED
        BY <4>1, <4>2, <4>3, <4>4, <4>5 DEF Says, OkIsCommitted
    <3>4. CASE SubmitGet(c) \/ SubmitCreate(c) \/ SubmitPatch(c)
      BY <3>1, <3>4 DEF SubmitGet, SubmitCreate, SubmitPatch, Submit, Refuse, Says
    <3>5. CASE Insert(c)
      BY <3>1, <3>5 DEF Insert, Fail, Finish, GoTo, Hold, Says
    <3>6. CASE Update(c)
      BY <3>1, <3>6 DEF Update, WriteRow, Fail, Finish, GoTo, Hold, Says
    <3>7. CASE Probe(c)
      BY <3>1, <3>7 DEF Probe, Fail, Finish, Says
    <3>8. CASE CommitUnacknowledged(c) \/ Abort(c)
      BY <3>1, <3>8 DEF CommitUnacknowledged, Abort, Fail, Finish, Says
    <3> QED
      BY <3>2, <3>3, <3>4, <3>5, <3>6, <3>7, <3>8
  <2> QED
    BY <1>2, <2>1, <2>2
<1> QED
  BY <1>1, <1>2, Inductive, PTL DEF Spec

-----------------------------------------------------------------------------
(* The transactions implement the atomic register.                         *)

\* A PATCH changes nothing in a system department: what it may assign is what
\* the row has already.
LEMMA SystemRowsStay ==
  ASSUME IInv, NEW c \in Clients, Holding(c), req[c].op = "patch",
         rows[req[c].id].isSystem
  PROVE  pending[c] = rows[req[c].id]
<1> DEFINE r == req[c]
           old == rows[r.id]
           new == Assigned(old, r)
<1>1. /\ r.id \in DOMAIN rows /\ r \in Request /\ old \in Row
      /\ NameRule(old, new) /\ RetireRule(new)
      /\ pending[c] = Touched(old, new)
  BY DEF IInv, TypeOK, RequestsInv, HoldingInv, Holding, Matches
<1>2. old.isActive
  <2>1. /\ history[r.id] \in Seq(Change) /\ old.version \in 1..MaxVersion
        /\ Len(history[r.id]) = old.version
        /\ history[r.id][old.version].row = old
    BY <1>1 DEF IInv, TypeOK, LedgerInv, Row
  <2>2. old.version \in DOMAIN history[r.id]
    BY <2>1
  <2> QED
    BY <1>1, <2>1, <2>2 DEF IInv, ImmutableFieldsKept
<1>3. new.name = old.name /\ new.isActive = old.isActive
  <2>1. new.isSystem = old.isSystem
    BY <1>1 DEF Assigned, Row
  <2>2. new.isActive \in BOOLEAN /\ old.isActive \in BOOLEAN
    BY <1>1 DEF Assigned, Row, Request
  <2> HIDE DEF new, old
  <2> QED
    BY <1>1, <1>2, <2>1, <2>2 DEF NameRule, RetireRule, old
<1>4. new = old
  <2>1. new = [old EXCEPT !.name = new.name, !.isActive = new.isActive]
    BY <1>1 DEF Assigned, Row
  <2>2. old \in Row /\ new.name = old.name /\ new.isActive = old.isActive
    BY <1>1, <1>3
  <2> HIDE DEF new, old
  <2>3. new = [old EXCEPT !.name = old.name, !.isActive = old.isActive]
    BY <2>1, <2>2
  <2> QED
    BY <2>2, <2>3 DEF Row
<1> QED
  BY <1>1, <1>4 DEF Touched

\* A commit is one step of the register, or changes nothing in it.
LEMMA InstallRefines ==
  ASSUME IInv, NEW c \in Clients, Holding(c), Install(c)
  PROVE  Register!Next \/ rows' = rows
<1> DEFINE id == req[c].id
           row == pending[c]
<1>1. /\ row.isSystem => row.isActive
      /\ req[c].op = "patch" => /\ id \in DOMAIN rows
                                /\ row.code = rows[id].code
                                /\ row.isSystem = rows[id].isSystem
      /\ req[c].op = "create" => /\ id \notin DOMAIN rows
                                 /\ row = NewRow(req[c])
                                 /\ ~CodeTaken(row.code)
      /\ req[c].op \in {"create", "patch"}
  BY PendingKeepsRules
<1>2. /\ id \in Ids /\ row \in Row
      /\ id \in DOMAIN rows => /\ row.version \in {rows[id].version, rows[id].version + 1}
                               /\ row.version = rows[id].version => row = rows[id]
  BY LogGrows
<1>3. rows' = Register!Written(id, row)
  BY DEF Install, Register!Written
<1>4. /\ row = [code |-> row.code, name |-> row.name, isSystem |-> row.isSystem,
               isActive |-> row.isActive, version |-> row.version]
      /\ row.code \in Codes /\ row.name \in Names /\ row.isSystem \in BOOLEAN
      /\ row.isActive \in BOOLEAN /\ row.version \in 1..MaxVersion
  BY <1>2 DEF Row
<1>5. CASE req[c].op = "create"
  <2>1. row.isActive = TRUE /\ row.version = 1
    BY <1>1, <1>5 DEF NewRow
  <2>2. \A other \in DOMAIN rows : rows[other].code # row.code
    BY <1>1, <1>5 DEF CodeTaken
  <2>3. row = [code |-> row.code, name |-> row.name, isSystem |-> row.isSystem,
               isActive |-> TRUE, version |-> 1]
    BY <1>4, <2>1
  <2> HIDE DEF id, row
  <2>4. Register!Create(id)
    BY <1>1, <1>3, <1>4, <1>5, <2>2, <2>3 DEF Register!Create, id
  <2> QED
    BY <1>2, <2>4 DEF Register!Next
<1>6. CASE req[c].op = "patch" /\ row = rows[id]
  BY <1>1, <1>3, <1>6 DEF Register!Written, IInv, TypeOK
<1>7. CASE req[c].op = "patch" /\ row # rows[id]
  <2> DEFINE old == rows[id]
  <2>1. ~old.isSystem
    BY <1>7, SystemRowsStay
  <2>2. id \in DOMAIN rows /\ old \in Row
    BY <1>1, <1>7 DEF IInv, TypeOK
  <2>3. /\ row.version = old.version + 1
        /\ row.code = old.code /\ row.isSystem = old.isSystem
    BY <1>1, <1>2, <1>7, <2>2
  <2> HIDE DEF id, row, old
  <2>4. row = [old EXCEPT !.name = row.name, !.isActive = row.isActive,
                          !.version = old.version + 1]
    BY <1>4, <2>2, <2>3 DEF Row
  <2>5. old.version < MaxVersion
    BY <1>4, <2>2, <2>3, StoreAssumption DEF Row
  <2>6. Register!Change(id)
    BY <1>3, <1>4, <2>1, <2>2, <2>4, <2>5 DEF Register!Change, old
  <2> QED
    BY <1>2, <2>6 DEF Register!Next
<1> QED
  BY <1>1, <1>5, <1>6, <1>7

(***************************************************************************)
(* The interleaved, locked, retried transactions of DepartmentRepository   *)
(* implement the atomic register: each step creates one row, changes one   *)
(* row or changes none.                                                    *)
(***************************************************************************)
THEOREM ImplementsRegister == Spec => RefinesRegister
<1>1. Init => Register!Init
  BY DEF Init, SeedRow, Register!Init
<1>2. ASSUME IInv, [Next]_vars
      PROVE  [Register!Next]_rows
  <2>1. CASE UNCHANGED vars
    BY <2>1 DEF vars
  <2>2. CASE Next
    <3> PICK c \in Clients :
          \/ SubmitGet(c) \/ SubmitCreate(c) \/ SubmitPatch(c)
          \/ Read(c) \/ Insert(c) \/ Update(c) \/ Probe(c)
          \/ Commit(c) \/ CommitUnacknowledged(c) \/ Abort(c)
      BY <2>2 DEF Next
    <3>1. CASE SubmitGet(c) \/ SubmitCreate(c) \/ SubmitPatch(c)
      BY <3>1 DEF SubmitGet, SubmitCreate, SubmitPatch, Submit, Refuse
    <3>2. CASE Read(c) \/ Insert(c) \/ Update(c) \/ Probe(c) \/ Abort(c)
      BY <3>2 DEF Read, Insert, Update, Probe, Abort
    <3>3. CASE Commit(c) \/ CommitUnacknowledged(c)
      BY <1>2, <3>3, InstallRefines DEF Commit, CommitUnacknowledged
    <3> QED
      BY <3>1, <3>2, <3>3
  <2> QED
    BY <1>2, <2>1, <2>2
<1> QED
  BY <1>1, <1>2, Inductive, PTL DEF Spec, RefinesRegister, Register!Spec
=============================================================================
