-------------------------- MODULE CatalogServiceProofs --------------------------
(***************************************************************************)
(* Proofs about CatalogService, for every set of clients and readers.  The *)
(* table of DepartmentStore keeps its invariant, whatever the lists do;    *)
(* the change log then explains every state the table has been in, and a   *)
(* list, cached or not, is one of these states.                            *)
(***************************************************************************)
EXTENDS CatalogService, DepartmentAtomicityProofs

\* The table stays as it is, or one open transaction commits.
TableStep ==
  TableUnchanged \/ \E c \in Clients : Holding(c) /\ Install(c)

\* Every row of the list is in the log of changes, under its version.
Recorded(l) ==
  \A id \in DOMAIN l : /\ Known(id, l[id].version)
                       /\ history[id][l[id].version].row = l[id]

-----------------------------------------------------------------------------
\* The table is a list, and each of its rows is the last entry of its log.
LEMMA RowsRecorded ==
  ASSUME IInv
  PROVE  rows \in Lists /\ Recorded(rows)
<1>1. DOMAIN rows \in SUBSET Ids /\ rows \in [DOMAIN rows -> Row]
  BY DEF IInv, TypeOK
<1>2. rows \in Lists
  BY <1>1 DEF Lists
<1>3. ASSUME NEW id \in DOMAIN rows
      PROVE  /\ Known(id, rows[id].version)
             /\ history[id][rows[id].version].row = rows[id]
  <2>1. rows[id].version \in Nat
    BY <1>1 DEF Row
  <2> QED
    BY <2>1 DEF IInv, LedgerInv, Known
<1> QED
  BY <1>2, <1>3 DEF Recorded

\* A list has rows for some of the ids.
LEMMA ListRows ==
  ASSUME NEW l \in Lists
  PROVE  /\ DOMAIN l \subseteq Ids
         /\ l \in [DOMAIN l -> Row]
         /\ \A id \in DOMAIN l : l[id] \in Row /\ l[id].version \in Nat \ {0}
<1>1. PICK ids \in SUBSET Ids : l \in [ids -> Row]
  BY DEF Lists
<1>2. DOMAIN l = ids
  BY <1>1
<1>3. \A row \in Row : row.version \in Nat \ {0}
  BY DEF Row
<1> QED
  BY <1>1, <1>2, <1>3

\* A filtered list is a list.
LEMMA ShownIsList ==
  ASSUME NEW l \in Lists, NEW activeOnly \in BOOLEAN
  PROVE  Shown(l, activeOnly) \in Lists
<1> DEFINE ids == {i \in DOMAIN l : activeOnly => l[i].isActive}
<1>1. ids \in SUBSET Ids
  BY ListRows
<1>2. \A id \in ids : l[id] \in Row
  BY ListRows
<1>3. Shown(l, activeOnly) = [id \in ids |-> l[id]]
  BY DEF Shown
<1> HIDE DEF ids
<1>4. Shown(l, activeOnly) \in [ids -> Row]
  BY <1>2, <1>3
<1> QED
  BY <1>1, <1>4 DEF Lists

\* What was recorded stays recorded: logs only grow, versions only rise.
LEMMA RecordedStays ==
  ASSUME IInv, TableStep, NEW l \in Lists, Recorded(l)
  PROVE  Recorded(l)'
<1>1. CASE TableUnchanged
  BY <1>1 DEF TableUnchanged, Recorded, Known
<1>2. ASSUME NEW c \in Clients, Holding(c), Install(c)
      PROVE  Recorded(l)'
  <2> DEFINE id == req[c].id
             row == pending[c]
             old == IF id \in DOMAIN rows THEN rows[id].version ELSE 0
  <2>1. /\ DOMAIN rows' = DOMAIN rows \cup {id}
        /\ rows'[id] = row /\ history'[id] = Log(c)
        /\ \A i \in DOMAIN rows \ {id} : rows'[i] = rows[i] /\ history'[i] = history[i]
    BY <1>2, InstallTables
  <2>2. /\ row \in Row
        /\ row.version \in {old, old + 1}
        /\ \A n \in 1..old : Log(c)[n] = history[id][n]
    BY <1>2, LogGrows
  <2> HIDE DEF id, row
  <2> SUFFICES ASSUME NEW i \in DOMAIN l
               PROVE  /\ Known(i, l[i].version)'
                      /\ history'[i][l[i].version].row = l[i]
    BY DEF Recorded
  <2> DEFINE v == l[i].version
  <2>3. /\ v \in Nat \ {0} /\ i \in DOMAIN rows /\ v <= rows[i].version
        /\ history[i][v].row = l[i]
    BY ListRows DEF Recorded, Known
  <2> HIDE DEF v
  <2>4. CASE i # id
    <3>1. rows'[i] = rows[i] /\ history'[i] = history[i] /\ i \in DOMAIN rows'
      BY <2>1, <2>3, <2>4
    <3> QED
      BY <2>3, <3>1 DEF Known, v
  <2>5. CASE i = id
    <3>1. old = rows[i].version /\ rows[i].version \in Nat
      BY <2>3, <2>5 DEF IInv, TypeOK, Row
    <3>2. v \in 1..old /\ row.version \in Nat /\ old <= row.version
      <4>1. row.version \in {rows[i].version, rows[i].version + 1}
        BY <2>2, <3>1
      <4> HIDE DEF old
      <4> QED
        BY <2>3, <3>1, <4>1
    <3>3. history'[i][v] = history[i][v]
      BY <2>1, <2>2, <2>5, <3>2
    <3>4. i \in DOMAIN rows' /\ rows'[i] = row
      BY <2>1, <2>5
    <3>5. v <= rows'[i].version
      <4> HIDE DEF old
      <4> QED
        BY <2>3, <3>1, <3>2, <3>4
    <3> QED
      BY <2>3, <3>3, <3>4, <3>5 DEF Known, v
  <2> QED
    BY <2>4, <2>5
<1> QED
  BY <1>1, <1>2 DEF TableStep

\* The table moves on, and its new state joins the past.
LEMMA PastStep ==
  ASSUME ServiceInv, IInv', TableStep, past' = past \cup {rows'}
  PROVE  PastInv' /\ past' \subseteq Lists /\ past \subseteq past'
<1>1. IInv /\ past \subseteq Lists
  BY DEF ServiceInv, ServiceTypeOK
<1>2. \A l \in past : Recorded(l)
  BY DEF ServiceInv, PastInv, Recorded
<1>3. \A l \in past : Recorded(l)'
  BY <1>1, <1>2, RecordedStays
<1>4. (rows \in Lists /\ Recorded(rows))'
  BY RowsRecorded, PTL
<1>5. \A l \in past' : Recorded(l)'
  <2> SUFFICES ASSUME NEW l \in past'
               PROVE  Recorded(l)'
    OBVIOUS
  <2>1. CASE l \in past
    BY <1>3, <2>1
  <2>2. CASE l = rows'
    BY <1>4, <2>2 DEF Recorded, Known
  <2> QED
    BY <2>1, <2>2
<1>6. PastInv'
  BY <1>5 DEF PastInv, Recorded
<1> QED
  BY <1>1, <1>4, <1>6

-----------------------------------------------------------------------------
\* Requests of the clients: the table moves, the lists do not.
LEMMA ClientInv ==
  ASSUME ServiceInv, [Next]_vars, TableStep, UNCHANGED listing,
         past' = past \cup {rows'}, owes' \in [Clients -> BOOLEAN]
  PROVE  ServiceInv'
<1>1. IInv'
  BY NextIInv DEF ServiceInv
<1>2. PastInv' /\ past' \subseteq Lists /\ past \subseteq past'
  BY <1>1, PastStep
<1>3. ServiceTypeOK'
  BY <1>2 DEF ServiceInv, ServiceTypeOK, listing
<1>4. SnapInv'
  BY <1>2 DEF ServiceInv, SnapInv, Filling, listing
<1>5. ListsAreSnapshots'
  BY <1>2 DEF ServiceInv, ListsAreSnapshots, listing
<1> QED
  BY <1>1, <1>2, <1>3, <1>4, <1>5 DEF ServiceInv

\* Requests for the list: the table stays, the key and the reader move.
LEMMA ReaderInv ==
  ASSUME ServiceInv, UNCHANGED <<rows, history, pc, req, pending, past>>,
         answer' = None, owes' \in [Clients -> BOOLEAN],
         cache' \in past \cup {None},
         list' \in [Readers -> [at : {"idle", "querying", "filling", "late"},
                                snap : Lists \cup {None}]],
         \A r \in Readers : Filling(r)' => list'[r].snap \in past,
         \/ UNCHANGED seen
         \/ \E r \in Readers, l \in past : Show(r, l)
  PROVE  ServiceInv'
<1>1. IInv'
  BY DEF ServiceInv, IInv, TypeOK, RequestsInv, IdleInv, FreshInv, HoldingInv,
         ExclusionInv, LedgerInv, NoLostUpdate, ImmutableFieldsKept, UniqueCodes, Holding, Matches,
         CodeTaken
<1>2. PastInv' /\ past' = past /\ past \subseteq Lists
  BY DEF ServiceInv, PastInv, Known, ServiceTypeOK
<1>3. SnapInv'
  BY <1>2 DEF SnapInv
<1>4. /\ seen' \in [Readers -> Lists \cup {None}]
      /\ \A r \in Readers :
           seen'[r] # None =>
             \E l \in past, activeOnly \in BOOLEAN : seen'[r] = Shown(l, activeOnly)
  <2>1. /\ seen \in [Readers -> Lists \cup {None}]
        /\ \A r \in Readers :
             seen[r] # None =>
               \E l \in past, activeOnly \in BOOLEAN : seen[r] = Shown(l, activeOnly)
    BY DEF ServiceInv, ServiceTypeOK, ListsAreSnapshots
  <2>2. CASE UNCHANGED seen
    BY <2>1, <2>2
  <2>3. ASSUME NEW r \in Readers, NEW l \in past, Show(r, l)
        PROVE  <1>4
    <3>1. PICK activeOnly \in BOOLEAN :
            seen' = [seen EXCEPT ![r] = Shown(l, activeOnly)]
      BY <2>3 DEF Show
    <3>2. Shown(l, activeOnly) \in Lists
      BY <1>2, ShownIsList
    <3> QED
      BY <2>1, <3>1, <3>2
  <2> QED
    BY <2>2, <2>3
<1>5. ServiceTypeOK'
  BY <1>2, <1>4 DEF ServiceTypeOK
<1>6. ListsAreSnapshots'
  BY <1>2, <1>4 DEF ListsAreSnapshots
<1> QED
  BY <1>1, <1>2, <1>3, <1>5, <1>6 DEF ServiceInv

\* The empty cache over the migrated table satisfies the invariant.
LEMMA InitServiceInv == ServiceInit => ServiceInv
<1> SUFFICES ASSUME ServiceInit PROVE ServiceInv
  OBVIOUS
<1> USE DEF ServiceInit
<1>1. IInv
  BY InitIInv
<1>2. rows \in Lists /\ Recorded(rows)
  BY <1>1, RowsRecorded
<1>3. PastInv
  BY <1>2 DEF PastInv, Recorded
<1>4. ServiceTypeOK
  BY <1>2 DEF ServiceTypeOK, IdleList
<1>5. SnapInv /\ ListsAreSnapshots
  BY DEF SnapInv, Filling, IdleList, ListsAreSnapshots
<1> QED
  BY <1>1, <1>3, <1>4, <1>5 DEF ServiceInv

\* Each action of the service preserves the invariant.
LEMMA NextServiceInv ==
  ServiceInv /\ [ServiceNext]_serviceVars => ServiceInv'
<1> SUFFICES ASSUME ServiceInv, [ServiceNext]_serviceVars
             PROVE  ServiceInv'
  OBVIOUS
<1> DEFINE Requests == [at : {"idle", "querying", "filling", "late"},
                        snap : Lists \cup {None}]
<1>t. /\ past \subseteq Lists /\ rows \in past /\ rows \in Lists
      /\ owes \in [Clients -> BOOLEAN]
      /\ cache \in past \cup {None}
      /\ list \in [Readers -> Requests]
      /\ \A r \in Readers : list[r].at \in {"filling", "late"} => list[r].snap \in past
  BY DEF ServiceInv, ServiceTypeOK, PastInv, SnapInv, Filling, ListsAreSnapshots
<1>1. CASE UNCHANGED serviceVars
  <2>1. TableStep /\ UNCHANGED vars /\ past' = past \cup {rows'}
    BY <1>1, <1>t DEF serviceVars, vars, TableStep, TableUnchanged
  <2> QED
    BY <1>1, <1>t, <2>1, ClientInv DEF serviceVars, listing
<1>2. ASSUME NEW c \in Clients, Ask(c)
      PROVE  ServiceInv'
  <2>1. Next
    BY <1>2 DEF Ask, Next
  <2>2. TableUnchanged
    BY <1>2 DEF Ask, SubmitGet, SubmitCreate, SubmitPatch, Submit, Refuse, TableUnchanged
  <2>3. past' = past \cup {rows'} /\ UNCHANGED <<cache, list, seen, owes>>
    BY <1>2, <1>t, <2>2 DEF Ask, listing, TableUnchanged
  <2> QED
    BY <1>t, <2>1, <2>2, <2>3, ClientInv DEF TableStep, listing
<1>3. ASSUME NEW c \in Clients, Work(c)
      PROVE  ServiceInv'
  <2>1. Next
    BY <1>3 DEF Work, Statement, Next
  <2>2. TableStep
    BY <1>3 DEF Work, Statement, Read, Insert, Update, Probe, CommitUnacknowledged,
                Abort, TableStep, TableUnchanged
  <2>3. past' = past \cup {rows'} /\ UNCHANGED <<cache, list, seen, owes>>
    BY <1>3 DEF Work, listing
  <2> QED
    BY <1>t, <2>1, <2>2, <2>3, ClientInv DEF listing
<1>4. ASSUME NEW c \in Clients, Write(c)
      PROVE  ServiceInv'
  <2>1. Next
    BY <1>4 DEF Write, Next
  <2>2. TableStep
    BY <1>4 DEF Write, Commit, TableStep
  <2>3. /\ past' = past \cup {rows'} /\ UNCHANGED <<cache, list, seen>>
        /\ owes' \in [Clients -> BOOLEAN]
    BY <1>4, <1>t DEF Write, listing
  <2> QED
    BY <2>1, <2>2, <2>3, ClientInv DEF listing
<1>5. ASSUME NEW c \in Clients, Invalidate(c)
      PROVE  ServiceInv'
  <2>1. /\ UNCHANGED <<rows, history, pc, req, pending, past, list, seen>>
        /\ answer' = None /\ owes' \in [Clients -> BOOLEAN]
        /\ cache' \in past \cup {None}
    BY <1>5, <1>t DEF Invalidate
  <2>2. \A r \in Readers : Filling(r)' => list'[r].snap \in past
    BY <1>t, <2>1 DEF Filling
  <2> QED
    BY <1>t, <2>1, <2>2, ReaderInv
<1>6. ASSUME NEW r \in Readers,
             \/ ListHit(r) \/ ListMiss(r) \/ ListQuery(r) \/ ListFill(r)
             \/ ListFillFails(r) \/ LateFill(r) \/ ListAbandon(r)
      PROVE  ServiceInv'
  <2>1. /\ UNCHANGED <<rows, history, pc, req, pending, past, owes>>
        /\ answer' = None
    BY <1>6 DEF ListHit, ListMiss, ListQuery, ListFill, ListFillFails, LateFill,
                ListAbandon, ListStep
  <2>2. cache' \in past \cup {None}
    BY <1>6, <1>t DEF ListHit, ListMiss, ListQuery, ListFill, ListFillFails, LateFill,
                      ListAbandon
  <2>3. \/ UNCHANGED list
        \/ list' = [list EXCEPT ![r].at = "querying"]
        \/ list[r].at = "filling" /\ list' = [list EXCEPT ![r].at = "late"]
        \/ list' = [list EXCEPT ![r] = IdleList]
        \/ list' = [list EXCEPT ![r] = [at |-> "filling", snap |-> rows]]
    BY <1>6 DEF ListHit, ListMiss, ListQuery, ListFill, ListFillFails, LateFill,
                ListAbandon
  <2>4. list' \in [Readers -> Requests]
    BY <1>t, <2>3 DEF IdleList
  <2>5. \A q \in Readers : Filling(q)' => list'[q].snap \in past
    BY <1>t, <2>3 DEF Filling, IdleList
  <2>6. UNCHANGED seen \/ \E q \in Readers, l \in past : Show(q, l)
    BY <1>6, <1>t DEF ListHit, ListMiss, ListQuery, ListFill, ListFillFails, LateFill,
                      ListAbandon
  <2> QED
    BY <1>t, <2>1, <2>2, <2>4, <2>5, <2>6, ReaderInv
<1>7. CASE Expire
  <2>1. /\ UNCHANGED <<rows, history, pc, req, pending, past, owes, list, seen>>
        /\ answer' = None /\ cache' = None
    BY <1>7 DEF Expire, ListStep
  <2>2. \A r \in Readers : Filling(r)' => list'[r].snap \in past
    BY <1>t, <2>1 DEF Filling
  <2> QED
    BY <1>t, <2>1, <2>2, ReaderInv
<1> QED
  BY <1>1, <1>2, <1>3, <1>4, <1>5, <1>6, <1>7 DEF ServiceNext

-----------------------------------------------------------------------------
(***************************************************************************)
(* The composition keeps its invariant: the lists and their key take       *)
(* nothing from what is proved of the table.                               *)
(***************************************************************************)
THEOREM ServiceInductive == ServiceSpec => []ServiceInv
BY InitServiceInv, NextServiceInv, PTL DEF ServiceSpec

(***************************************************************************)
(* The key, the list requests and what they answered keep their types.     *)
(***************************************************************************)
THEOREM ServiceTypeCorrect == ServiceSpec => []ServiceTypeOK
<1>1. ServiceInv => ServiceTypeOK
  BY DEF ServiceInv
<1> QED
  BY <1>1, ServiceInductive, PTL

(***************************************************************************)
(* Every list is one state of the table, whoever filled the key, filtered  *)
(* or not (DepartmentService.List and listAllCached).                      *)
(***************************************************************************)
THEOREM ListsShowSnapshots == ServiceSpec => []ListsAreSnapshots
<1>1. ServiceInv => ListsAreSnapshots
  BY DEF ServiceInv
<1> QED
  BY <1>1, ServiceInductive, PTL

(***************************************************************************)
(* However old a list is, what it shows exists, and under its own version  *)
(* it is what is there: the optimistic lock protects an edit made from a   *)
(* cached list (listAllCached with record_version).                        *)
(***************************************************************************)
THEOREM EditsAreSafe == ServiceSpec => []EditsFromListsAreSafe
<1>1. ASSUME ServiceInv
      PROVE  EditsFromListsAreSafe
  <2> SUFFICES ASSUME NEW r \in Readers, seen[r] # None, NEW id \in DOMAIN seen[r]
               PROVE  /\ Known(id, seen[r][id].version)
                      /\ rows[id].version = seen[r][id].version
                           => rows[id] = seen[r][id]
    BY DEF EditsFromListsAreSafe
  <2>1. PICK l \in past, activeOnly \in BOOLEAN : seen[r] = Shown(l, activeOnly)
    BY <1>1 DEF ServiceInv, ListsAreSnapshots
  <2>2. id \in DOMAIN l /\ seen[r][id] = l[id]
    BY <2>1 DEF Shown
  <2>3. /\ Known(id, l[id].version)
        /\ history[id][l[id].version].row = l[id]
    BY <1>1, <2>2 DEF ServiceInv, PastInv
  <2>4. history[id][rows[id].version].row = rows[id]
    BY <1>1, <2>3 DEF ServiceInv, IInv, LedgerInv, Known
  <2> QED
    BY <2>2, <2>3, <2>4
<1> QED
  BY <1>1, ServiceInductive, PTL

-----------------------------------------------------------------------------
\* CatalogApi speaks of the same departments as AtomicDepartments.
LEMMA SamePromise == /\ Api!Init <=> Atomic!Init
                     /\ Api!Next <=> Atomic!Next
                     /\ Api!Work <=> Atomic!Work
<1>1. Api!Init <=> Atomic!Init
  BY DEF Api!Init, Atomic!Init
<1>2. Api!Work <=> Atomic!Work
  BY DEF Api!Work, Atomic!Work
<1>3. Api!Reject <=> Atomic!Reject
  BY DEF Api!Reject, Atomic!Reject
<1>4. ASSUME NEW c \in Clients
      PROVE  /\ Api!Ask(c) <=> Atomic!Ask(c)
             /\ Api!Lose(c) <=> Atomic!Lose(c)
             /\ Api!Get(c) <=> Atomic!Get(c)
             /\ Api!Create(c) <=> Atomic!Create(c)
             /\ Api!Patch(c) <=> Atomic!Patch(c)
  BY DEF Api!Ask, Atomic!Ask, Api!Lose, Atomic!Lose, Api!Get, Atomic!Get,
         Api!Create, Atomic!Create, Api!Patch, Atomic!Patch,
         Api!Request, Atomic!Request, Api!Committed, Atomic!Committed,
         Api!Current, Atomic!Current, Api!Renames, Atomic!Renames,
         Api!Taken, Atomic!Taken, Api!Created, Atomic!Created,
         Api!Patched, Atomic!Patched, Api!Written, Atomic!Written,
         Api!Asked, Atomic!Asked, Api!Reply, Atomic!Reply,
         Api!Write, Atomic!Write, Api!Refuse, Atomic!Refuse
<1> QED
  BY <1>1, <1>2, <1>3, <1>4 DEF Api!Next, Atomic!Next

\* A step of the lists and their key shows a caller one past state, or nothing.
LEMMA ListStepIsApi ==
  ASSUME ServiceInv, UNCHANGED <<rows, history, pc, req, pending, past>>,
         answer' = None,
         UNCHANGED seen \/ \E r \in Readers, l \in past : Show(r, l)
  PROVE  Api!ApiNext
<1>1. CASE UNCHANGED seen
  <2>1. Api!Next
    BY SamePromise DEF Atomic!Next, Atomic!Work
  <2>2. past' = past \cup {rows'}
    BY DEF ServiceInv, PastInv
  <2> QED
    BY <1>1, <2>1, <2>2 DEF Api!ApiNext, Api!Department
<1>2. ASSUME NEW r \in Readers, NEW l \in past, Show(r, l)
      PROVE  Api!List(r)
  BY <1>2 DEF Show, Shown, Api!List, Api!Shown
<1> QED
  BY <1>1, <1>2 DEF Api!ApiNext

\* A step of a request is the step AtomicDepartments makes of it.
LEMMA ClientStepIsApi ==
  ASSUME ServiceInv, Next, UNCHANGED listing, past' = past \cup {rows'}
  PROVE  [Api!ApiNext]_(Api!apiVars)
<1>1. [Atomic!Next]_(Atomic!vars)
  BY StepIsAtomic DEF ServiceInv
<1>2. CASE Atomic!Next
  BY <1>2, SamePromise DEF Api!ApiNext, Api!Department, listing
<1>3. CASE UNCHANGED Atomic!vars
  <2>1. past' = past
    BY <1>3 DEF Atomic!vars, ServiceInv, PastInv
  <2> QED
    BY <1>3, <2>1 DEF Atomic!vars, Api!apiVars, Api!vars, listing
<1> QED
  BY <1>1, <1>2, <1>3

(***************************************************************************)
(* The service with its cache, over the interleaved transactions, keeps    *)
(* the promise of CatalogApi: atomic requests for one department, and      *)
(* lists that are past states (DepartmentService, DepartmentRepository).   *)
(***************************************************************************)
THEOREM ServiceImplementsApi == ServiceSpec => ImplementsApi
<1>1. ServiceInit => Api!ApiInit
  <2>1. Init => Atomic!Init
    BY DEF Init, SeedRow, Atomic!Init
  <2> QED
    BY <2>1, SamePromise DEF ServiceInit, Api!ApiInit
<1>2. ServiceInv /\ [ServiceNext]_serviceVars => [Api!ApiNext]_(Api!apiVars)
  <2> SUFFICES ASSUME ServiceInv, [ServiceNext]_serviceVars
               PROVE  [Api!ApiNext]_(Api!apiVars)
    OBVIOUS
  <2>1. CASE UNCHANGED serviceVars
    BY <2>1 DEF serviceVars, vars, Api!apiVars, Api!vars
  <2>2. ASSUME NEW c \in Clients, Ask(c) \/ Work(c) \/ Write(c)
        PROVE  [Api!ApiNext]_(Api!apiVars)
    <3>1. Next
      BY <2>2 DEF Ask, Work, Write, Statement, Next
    <3>2. UNCHANGED listing
      BY <2>2 DEF Ask, Work, Write
    <3>3. past' = past \cup {rows'}
      <4>1. CASE Ask(c)
        <5>1. rows' = rows /\ past' = past
          BY <4>1 DEF Ask, SubmitGet, SubmitCreate, SubmitPatch, Submit, Refuse
        <5> QED
          BY <5>1 DEF ServiceInv, PastInv
      <4> QED
        BY <2>2, <4>1 DEF Work, Write
    <3> QED
      BY <3>1, <3>2, <3>3, ClientStepIsApi
  <2>3. ASSUME NEW c \in Clients, Invalidate(c)
        PROVE  Api!ApiNext
    BY <2>3, ListStepIsApi DEF Invalidate
  <2>4. ASSUME NEW r \in Readers,
               \/ ListHit(r) \/ ListMiss(r) \/ ListQuery(r) \/ ListFill(r)
               \/ ListFillFails(r) \/ LateFill(r) \/ ListAbandon(r)
        PROVE  Api!ApiNext
    <3>1. /\ UNCHANGED <<rows, history, pc, req, pending, past>>
          /\ answer' = None
      BY <2>4 DEF ListHit, ListMiss, ListQuery, ListFill, ListFillFails, LateFill,
                  ListAbandon, ListStep
    <3>2. UNCHANGED seen \/ \E q \in Readers, l \in past : Show(q, l)
      <4>1. cache # None => cache \in past
        BY DEF ServiceInv, ListsAreSnapshots
      <4>2. list[r].at = "filling" => list[r].snap \in past
        BY DEF ServiceInv, SnapInv, Filling
      <4> QED
        BY <2>4, <4>1, <4>2
        DEF ListHit, ListMiss, ListQuery, ListFill, ListFillFails, LateFill, ListAbandon
    <3> QED
      BY <3>1, <3>2, ListStepIsApi
  <2>5. CASE Expire
    BY <2>5, ListStepIsApi DEF Expire, ListStep
  <2> QED
    BY <2>1, <2>2, <2>3, <2>4, <2>5 DEF ServiceNext
<1> QED
  BY <1>1, <1>2, ServiceInductive, PTL DEF ServiceSpec, ImplementsApi, Api!ApiSpec
=============================================================================
