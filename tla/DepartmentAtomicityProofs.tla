----------------------- MODULE DepartmentAtomicityProofs -----------------------
(***************************************************************************)
(* The transactions of DepartmentStore implement AtomicDepartments, for    *)
(* every set of clients, ids, codes and names: the instant at which a      *)
(* request happens is that of its answer.  For a write this is the COMMIT, *)
(* because the row it locked has stayed as the UPDATE found it; for a      *)
(* conflict it is the probe, because a version that was overtaken stays    *)
(* overtaken.                                                              *)
(***************************************************************************)
EXTENDS DepartmentStoreProofs

\* The two specifications speak of the same requests.
LEMMA SameRequests == Request = Atomic!Request
BY DEF Request, Atomic!Request

\* An open transaction has a request, and it is none of those that are absent.
LEMMA OpenRequest ==
  ASSUME IInv, NEW c \in Clients, pc[c] # "idle"
  PROVE  req[c] \in Request /\ req[c] # None
BY NoneAssumption DEF IInv, RequestsInv

\* A request that the service lets through is put.
LEMMA SubmitIsAsk ==
  ASSUME IInv, NEW c \in Clients, NEW r \in Request, Submit(c, r),
         r.known <=> Known(r.id, r.expected)
  PROVE  Atomic!Ask(c)
<1>1. req[c] = None
  BY DEF Submit, IInv, IdleInv
<1>2. req'[c] = r
  BY DEF Submit, IInv, TypeOK
<1> QED
  BY <1>1, <1>2, SameRequests DEF Submit, Known, Atomic!Ask, Atomic!Committed

\* An end of a transaction that leaves the table alone.
LEMMA FinishIsReply ==
  ASSUME NEW c \in Clients, NEW kind, NEW row, NEW version,
         Finish(c, kind, row, version)
  PROVE  Atomic!Reply(c, kind, row, version)
BY DEF Finish, Says, Atomic!Reply

\* A statement that does not end its transaction shows nobody anything.
LEMMA MoveIsWork ==
  ASSUME TableUnchanged, NEW c \in Clients,
         (\E p : GoTo(c, p)) \/ (\E row : Hold(c, row))
  PROVE  Atomic!Work
BY DEF TableUnchanged, GoTo, Hold, Atomic!Work

\* A GET is the state its SELECT saw.
LEMMA ReadIsGet ==
  ASSUME IInv, NEW c \in Clients, Read(c)
  PROVE  Atomic!Get(c)
<1>1. pc[c] = "ready" /\ req[c].op = "get" /\ rows' = rows
  BY DEF Read
<1>2. Atomic!Asked(c, "get")
  BY <1>1, OpenRequest DEF Atomic!Asked
<1>3. CASE req[c].id \in DOMAIN rows
  <2>1. Finish(c, "ok", rows[req[c].id], 0)
    BY <1>3 DEF Read
  <2> QED
    BY <1>1, <1>2, <1>3, <2>1, FinishIsReply DEF Atomic!Get
<1>4. CASE req[c].id \notin DOMAIN rows
  <2>1. Finish(c, "not_found", None, 0)
    BY <1>4 DEF Read, Fail
  <2> QED
    BY <1>1, <1>2, <1>4, <2>1, FinishIsReply DEF Atomic!Get, Atomic!Refuse
<1> QED
  BY <1>3, <1>4

\* An INSERT that fails is a refused create; otherwise its caller waits on.
LEMMA InsertIsCreate ==
  ASSUME IInv, NEW c \in Clients, Insert(c)
  PROVE  Atomic!Create(c) \/ Atomic!Work
<1>1. pc[c] \in {"ready", "waiting"} /\ req[c].op = "create" /\ TableUnchanged
  BY DEF Insert, TableUnchanged
<1>2. Atomic!Asked(c, "create")
  BY <1>1, OpenRequest DEF Atomic!Asked
<1>3. CASE CodeTaken(req[c].code) /\ Fail(c, "duplicate_code")
  <2>1. Atomic!Taken(req[c].code)
    BY <1>3 DEF CodeTaken, Atomic!Taken
  <2>2. Finish(c, "duplicate_code", None, 0)
    BY <1>3 DEF Fail
  <2> QED
    BY <1>1, <1>2, <2>1, <2>2, FinishIsReply
    DEF TableUnchanged, Atomic!Create, Atomic!Refuse
<1>4. CASE GoTo(c, "waiting") \/ Hold(c, NewRow(req[c]))
  BY <1>1, <1>4, MoveIsWork
<1> QED
  BY <1>3, <1>4 DEF Insert

\* What an UPDATE makes of a row, in the words of the promise.
LEMMA TouchedIsPatched ==
  ASSUME NEW r \in Request, NEW id \in DOMAIN rows, rows[id] \in Row, id = r.id
  PROVE  Touched(rows[id], Assigned(rows[id], r)) = Atomic!Patched(r)
<1> DEFINE old == rows[id]
           n == IF r.name = Unset THEN old.name ELSE r.name
           a == IF r.isActive = Unset THEN old.isActive ELSE r.isActive
           same == n = old.name /\ a = old.isActive
           next == old.version + IF same THEN 0 ELSE 1
           named == [old EXCEPT !.name = n]
           new == [old EXCEPT !.name = n, !.isActive = a]
           row(x, y, z) == [code |-> old.code, name |-> x, isSystem |-> old.isSystem,
                            isActive |-> y, version |-> z]
<1>1. Assigned(old, r) = new
  BY DEF Assigned
<1>2. Atomic!Patched(r) = [old EXCEPT !.name = n, !.isActive = a, !.version = next]
  BY DEF Atomic!Patched
<1>3. old \in Row /\ old.version \in Nat
  BY DEF Row
<1> HIDE DEF old, n, a, next
<1>4. [old EXCEPT !.name = n, !.isActive = a, !.version = next] =
        [new EXCEPT !.version = next]
  OBVIOUS
<1>5. new = [named EXCEPT !.isActive = a]
  OBVIOUS
<1>6. old = row(old.name, old.isActive, old.version)
  BY <1>3 DEF Row
<1>7. named = row(n, old.isActive, old.version)
  BY <1>6
<1> HIDE DEF named, new
<1>8. new = row(n, a, old.version)
  BY <1>5, <1>7
<1>9. new = old <=> same
  BY <1>6, <1>8
<1>10. CASE same
  <2>1. [new EXCEPT !.version = next] = new
    BY <1>3, <1>8, <1>10 DEF next
  <2> QED
    BY <1>1, <1>2, <1>4, <1>9, <1>10, <2>1 DEF Touched, old
<1>11. CASE ~same
  <2>1. next = old.version + 1
    BY <1>11 DEF next
  <2>2. Touched(old, new) = [new EXCEPT !.version = next]
    BY <1>9, <1>11, <2>1 DEF Touched
  <2> QED
    BY <1>1, <1>2, <1>4, <2>2 DEF old
<1> QED
  BY <1>10, <1>11

\* No sequence of PATCHes has retired a system department.
LEMMA SystemRowsActive ==
  ASSUME IInv, NEW id \in DOMAIN rows, rows[id].isSystem
  PROVE  rows[id].isActive
<1>1. /\ history[id] \in Seq(Change) /\ rows[id].version \in 1..MaxVersion
      /\ Len(history[id]) = rows[id].version
      /\ history[id][rows[id].version].row = rows[id]
  BY DEF IInv, TypeOK, LedgerInv, Row
<1>2. rows[id].version \in DOMAIN history[id]
  BY <1>1
<1> QED
  BY <1>1, <1>2 DEF IInv, ImmutableFieldsKept

\* An UPDATE that a rule of the table stops is a refused PATCH.  The rules see
\* the row before and after; what they stop is a system department's new name
\* or its retirement.
LEMMA UpdateIsPatch ==
  ASSUME IInv, NEW c \in Clients, Update(c)
  PROVE  Atomic!Patch(c) \/ Atomic!Work
<1> DEFINE r == req[c]
           old == rows[r.id]
           new == Assigned(old, r)
<1>1. pc[c] \in {"ready", "waiting"} /\ r.op = "patch" /\ TableUnchanged
  BY DEF Update, TableUnchanged
<1>2. Atomic!Asked(c, "patch") /\ r \in Request
  BY <1>1, OpenRequest DEF Atomic!Asked
<1>3. CASE (\E p : GoTo(c, p)) \/ Hold(c, Touched(old, new))
  BY <1>1, <1>3, MoveIsWork
<1>4. ASSUME Matches(r),
             \/ ~NameRule(old, new) /\ Fail(c, "name_immutable")
             \/ NameRule(old, new) /\ ~RetireRule(new) /\ Fail(c, "cannot_retire")
      PROVE  Atomic!Patch(c)
  <2>1. r.id \in DOMAIN rows /\ r.expected = old.version /\ old \in Row
    BY <1>4 DEF Matches, IInv, TypeOK
  <2>2. Atomic!Current(r)
    BY <2>1 DEF Atomic!Current
  <2>3. /\ new.isSystem = old.isSystem
        /\ new.name = IF r.name = Unset THEN old.name ELSE r.name
        /\ new.isActive = IF r.isActive = Unset THEN old.isActive ELSE r.isActive
    BY <2>1 DEF Assigned, Row
  <2>4. old.isSystem => old.isActive
    BY <2>1, SystemRowsActive
  <2>5. NameRule(old, new) <=> (old.isSystem => ~Atomic!Renames(r))
    BY <2>3 DEF NameRule, Atomic!Renames
  <2>6. ~RetireRule(new) => old.isSystem /\ r.isActive = FALSE
    <3>1. r.isActive \in BOOLEAN \cup {Unset}
      BY <1>2 DEF Request
    <3> QED
      BY <2>3, <2>4, <3>1 DEF RetireRule
  <2>7. CASE ~NameRule(old, new) /\ Fail(c, "name_immutable")
    BY <1>1, <1>2, <2>2, <2>5, <2>7, FinishIsReply
    DEF Fail, TableUnchanged, Atomic!Patch, Atomic!Refuse
  <2>8. CASE NameRule(old, new) /\ ~RetireRule(new) /\ Fail(c, "cannot_retire")
    BY <1>1, <1>2, <2>2, <2>5, <2>6, <2>8, FinishIsReply
    DEF Fail, TableUnchanged, Atomic!Patch, Atomic!Refuse
  <2> QED
    BY <1>4, <2>7, <2>8
<1>5. \/ GoTo(c, "waiting") \/ GoTo(c, "probing")
      \/ Matches(r) /\ WriteRow(c)
  BY DEF Update
<1>6. CASE Matches(r) /\ WriteRow(c)
  <2>1. \/ ~NameRule(old, new) /\ Fail(c, "name_immutable")
        \/ NameRule(old, new) /\ ~RetireRule(new) /\ Fail(c, "cannot_retire")
        \/ Hold(c, Touched(old, new))
    BY <1>6 DEF WriteRow
  <2> QED
    BY <1>3, <1>4, <1>6, <2>1
<1> QED
  BY <1>3, <1>5, <1>6

\* The probe of a PATCH that matched nothing: the version it reads is not the
\* one that was sent, if that one had been committed.
LEMMA ProbeIsPatch ==
  ASSUME IInv, NEW c \in Clients, Probe(c)
  PROVE  Atomic!Patch(c)
<1> DEFINE r == req[c]
<1>1. pc[c] = "probing" /\ r.op = "patch" /\ rows' = rows
  BY DEF Probe, IInv, RequestsInv
<1>2. Atomic!Asked(c, "patch")
  BY <1>1, OpenRequest DEF Atomic!Asked
<1>3. CASE r.id \in DOMAIN rows
  <2>1. Finish(c, "conflict", None, rows[r.id].version)
    BY <1>3 DEF Probe
  <2>2. r.known => r.expected < rows[r.id].version
    BY <1>1 DEF IInv, RequestsInv
  <2> QED
    BY <1>1, <1>2, <1>3, <2>1, <2>2, FinishIsReply DEF Atomic!Patch
<1>4. CASE r.id \notin DOMAIN rows
  <2>1. Finish(c, "not_found", None, 0)
    BY <1>4 DEF Probe, Fail
  <2> QED
    BY <1>1, <1>2, <1>4, <2>1, FinishIsReply DEF Atomic!Patch, Atomic!Refuse
<1> QED
  BY <1>3, <1>4

\* A commit is the whole request, done now: the code is still free, the row is
\* still the one the UPDATE matched.
LEMMA InstallIsWrite ==
  ASSUME IInv, NEW c \in Clients, Holding(c), Install(c),
         Finish(c, "ok", pending[c], 0) \/ Finish(c, "unavailable", None, 0)
  PROVE  Atomic!Create(c) \/ Atomic!Patch(c)
<1> DEFINE r == req[c]
           row == pending[c]
<1>1. r \in Request /\ r # None /\ r.op \in {"create", "patch"}
  BY OpenRequest DEF IInv, RequestsInv, Holding
<1>2. rows' = Atomic!Written(r.id, row)
  BY DEF Install, Atomic!Written
<1>3. Atomic!Reply(c, "ok", row, 0) \/ Atomic!Reply(c, "unavailable", None, 0)
  BY FinishIsReply
<1>4. Atomic!Write(c, row)
  BY <1>2, <1>3 DEF Atomic!Write
<1>5. CASE r.op = "create"
  <2>1. r.id \notin DOMAIN rows /\ row = NewRow(r) /\ ~CodeTaken(r.code)
    BY <1>5 DEF IInv, RequestsInv, HoldingInv, Holding
  <2>2. row = Atomic!Created(r) /\ ~Atomic!Taken(r.code)
    BY <2>1 DEF NewRow, CodeTaken, Atomic!Created, Atomic!Taken
  <2> QED
    BY <1>1, <1>4, <1>5, <2>1, <2>2 DEF Atomic!Asked, Atomic!Create
<1>6. CASE r.op = "patch"
  <2> DEFINE old == rows[r.id]
             new == Assigned(old, r)
  <2>1. /\ r.id \in DOMAIN rows /\ old.version = r.expected /\ old \in Row
        /\ NameRule(old, new) /\ RetireRule(new)
        /\ row = Touched(old, new)
    BY <1>6 DEF IInv, TypeOK, HoldingInv, Holding, Matches
  <2>2. Atomic!Current(r) /\ row = Atomic!Patched(r)
    BY <1>1, <2>1, TouchedIsPatched DEF Atomic!Current
  <2>3. /\ new.isSystem = old.isSystem
        /\ new.name = IF r.name = Unset THEN old.name ELSE r.name
        /\ new.isActive = IF r.isActive = Unset THEN old.isActive ELSE r.isActive
    BY <2>1 DEF Assigned, Row
  <2>4. old.isSystem => ~Atomic!Renames(r) /\ r.isActive # FALSE
    <3>1. old.isSystem => ~Atomic!Renames(r)
      BY <2>1, <2>3 DEF NameRule, Atomic!Renames
    <3>2. r.isActive = FALSE => new.isActive = FALSE
      BY <2>3, StoreAssumption
    <3> QED
      BY <2>1, <2>3, <3>1, <3>2 DEF RetireRule
  <2> QED
    BY <1>1, <1>4, <1>6, <2>2, <2>4 DEF Atomic!Asked, Atomic!Patch
<1> QED
  BY <1>1, <1>5, <1>6

-----------------------------------------------------------------------------
(***************************************************************************)
(* One step of the promise, or none, for each step of the transactions.    *)
(***************************************************************************)
THEOREM StepIsAtomic ==
  ASSUME IInv, [Next]_vars
  PROVE  [Atomic!Next]_(Atomic!vars)
<1>1. CASE UNCHANGED vars
  BY <1>1 DEF vars, Atomic!vars
<1>2. CASE Next
  <2> PICK c \in Clients :
        \/ SubmitGet(c) \/ SubmitCreate(c) \/ SubmitPatch(c)
        \/ Read(c) \/ Insert(c) \/ Update(c) \/ Probe(c)
        \/ Commit(c) \/ CommitUnacknowledged(c) \/ Abort(c)
    BY <1>2 DEF Next
  <2> SUFFICES \/ Atomic!Work \/ Atomic!Reject \/ Atomic!Ask(c) \/ Atomic!Lose(c)
               \/ Atomic!Get(c) \/ Atomic!Create(c) \/ Atomic!Patch(c)
    BY DEF Atomic!Next
  <2>0. \A kind \in {"validation_error", "no_mutable_field"} :
          Refuse(c, kind) => Atomic!Reject
    BY DEF Refuse, Says, Atomic!Reject
  <2>1. CASE SubmitGet(c)
    <3> PICK id \in Ids :
          Submit(c, [op |-> "get", id |-> id, code |-> SeedCode, name |-> Unset,
                     isSystem |-> FALSE, isActive |-> Unset, expected |-> 0,
                     known |-> id \in DOMAIN rows])
      BY <2>1 DEF SubmitGet
    <3> DEFINE r == [op |-> "get", id |-> id, code |-> SeedCode, name |-> Unset,
                     isSystem |-> FALSE, isActive |-> Unset, expected |-> 0,
                     known |-> id \in DOMAIN rows]
    <3>1. r \in Request
      BY StoreAssumption DEF Request
    <3>2. id \in DOMAIN rows <=> Known(id, 0)
      BY DEF Known, IInv, TypeOK, Row
    <3>3. r.known <=> Known(r.id, r.expected)
      BY <3>2
    <3>4. Submit(c, r)
      OBVIOUS
    <3> QED
      BY <3>1, <3>3, <3>4, SubmitIsAsk
  <2>2. CASE SubmitCreate(c)
    <3> PICK id \in FreshIds, code \in Codes \cup {Blank},
            name \in Names \cup {Blank}, isSystem \in BOOLEAN :
          IF code = Blank \/ name = Blank
            THEN Refuse(c, "validation_error")
            ELSE Submit(c, [op |-> "create", id |-> id, code |-> code, name |-> name,
                            isSystem |-> isSystem, isActive |-> Unset,
                            expected |-> 0, known |-> FALSE])
      BY <2>2 DEF SubmitCreate
    <3> DEFINE r == [op |-> "create", id |-> id, code |-> code, name |-> name,
                     isSystem |-> isSystem, isActive |-> Unset,
                     expected |-> 0, known |-> FALSE]
    <3>1. CASE code = Blank \/ name = Blank
      BY <2>0, <3>1
    <3>2. CASE code # Blank /\ name # Blank
      <4>1. r \in Request
        BY <3>2, StoreAssumption DEF Request, FreshIds
      <4>2. r.known <=> Known(r.id, r.expected)
        BY DEF Known, FreshIds
      <4> QED
        BY <3>2, <4>1, <4>2, SubmitIsAsk
    <3> QED
      BY <3>1, <3>2
  <2>3. CASE SubmitPatch(c)
    <3> PICK id \in Ids, name \in Names \cup {Unset, Blank},
            isActive \in BOOLEAN \cup {Unset}, expected \in 0..(MaxVersion - 1) :
          IF name = Unset /\ isActive = Unset
            THEN Refuse(c, "no_mutable_field")
            ELSE IF name = Blank
              THEN Refuse(c, "validation_error")
              ELSE Submit(c, [op |-> "patch", id |-> id, code |-> SeedCode,
                              name |-> name, isSystem |-> FALSE,
                              isActive |-> isActive, expected |-> expected,
                              known |-> Known(id, expected)])
      BY <2>3 DEF SubmitPatch
    <3> DEFINE r == [op |-> "patch", id |-> id, code |-> SeedCode, name |-> name,
                     isSystem |-> FALSE, isActive |-> isActive,
                     expected |-> expected, known |-> Known(id, expected)]
    <3>1. CASE (name = Unset /\ isActive = Unset) \/ name = Blank
      BY <2>0, <3>1
    <3>2. CASE ~(name = Unset /\ isActive = Unset) /\ name # Blank
      <4>1. r \in Request
        BY <3>2, StoreAssumption DEF Request, Known
      <4> QED
        BY <3>2, <4>1, SubmitIsAsk
    <3> QED
      BY <3>1, <3>2
  <2>4. CASE Read(c)
    BY <2>4, ReadIsGet
  <2>5. CASE Insert(c)
    BY <2>5, InsertIsCreate
  <2>6. CASE Update(c)
    BY <2>6, UpdateIsPatch
  <2>7. CASE Probe(c)
    BY <2>7, ProbeIsPatch
  <2>8. CASE Commit(c) \/ CommitUnacknowledged(c)
    BY <2>8, InstallIsWrite DEF Commit, CommitUnacknowledged, Fail
  <2>9. CASE Abort(c)
    <3>1. req[c] # None /\ rows' = rows /\ Finish(c, "unavailable", None, 0)
      BY <2>9, OpenRequest DEF Abort, Fail
    <3> QED
      BY <3>1, FinishIsReply DEF Atomic!Lose, Atomic!Refuse
  <2> QED
    BY <2>1, <2>2, <2>3, <2>4, <2>5, <2>6, <2>7, <2>8, <2>9
<1> QED
  BY <1>1, <1>2

(***************************************************************************)
(* The statements, locks, waits, probes and failed commits of              *)
(* DepartmentRepository implement requests that happen at one instant,     *)
(* that of their answer.                                                   *)
(***************************************************************************)
THEOREM ImplementsAtomic == Spec => RequestsAreAtomic
<1>1. Init => Atomic!Init
  BY DEF Init, SeedRow, Atomic!Init
<1>2. IInv /\ [Next]_vars => [Atomic!Next]_(Atomic!vars)
  BY StepIsAtomic
<1> QED
  BY <1>1, <1>2, Inductive, PTL DEF Spec, RequestsAreAtomic, Atomic!Spec

(***************************************************************************)
(* A PATCH sent again at the version its first answer named changes        *)
(* nothing, not even the version (DepartmentRepository.Update, touch_row). *)
(***************************************************************************)
THEOREM RepeatChangesNothing ==
  ASSUME NEW r \in Request, NEW old \in Row
  PROVE  LET once == Touched(old, Assigned(old, r))
         IN Touched(once, Assigned(once, r)) = once
<1> DEFINE n == IF r.name = Unset THEN old.name ELSE r.name
           a == IF r.isActive = Unset THEN old.isActive ELSE r.isActive
           row(v) == [code |-> old.code, name |-> n, isSystem |-> old.isSystem,
                      isActive |-> a, version |-> v]
           named == [old EXCEPT !.name = n]
           new == Assigned(old, r)
           once == Touched(old, new)
           onceNamed == [once EXCEPT !.name = IF r.name = Unset THEN once.name ELSE r.name]
           again == Assigned(once, r)
<1>1. old = [code |-> old.code, name |-> old.name, isSystem |-> old.isSystem,
             isActive |-> old.isActive, version |-> old.version]
  BY DEF Row
<1>2. new = [named EXCEPT !.isActive = a]
  BY DEF Assigned
<1>3. again = [onceNamed EXCEPT !.isActive =
                 IF r.isActive = Unset THEN once.isActive ELSE r.isActive]
  BY DEF Assigned
<1>4. PICK v : once = row(v)
  <2> HIDE DEF n, a, new
  <2>1. named = [code |-> old.code, name |-> n, isSystem |-> old.isSystem,
                 isActive |-> old.isActive, version |-> old.version]
    BY <1>1
  <2> HIDE DEF named
  <2>2. new = row(old.version)
    BY <1>2, <2>1
  <2>3. CASE new = old
    BY <2>2, <2>3 DEF Touched
  <2>4. CASE new # old
    <3>1. once = row(old.version + 1)
      BY <2>2, <2>4 DEF Touched
    <3> QED
      BY <3>1
  <2> QED
    BY <2>3, <2>4
<1>5. /\ once.name = IF r.name = Unset THEN once.name ELSE r.name
      /\ once.isActive = IF r.isActive = Unset THEN once.isActive ELSE r.isActive
  <2> HIDE DEF once, again, onceNamed
  <2> QED
    BY <1>4
<1> HIDE DEF n, a, new, once
<1>6. onceNamed = once
  BY <1>4, <1>5
<1>7. again = once
  BY <1>3, <1>4, <1>5, <1>6
<1> QED
  BY <1>7 DEF new, once, Touched
=============================================================================
