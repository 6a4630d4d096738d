--------------------------- MODULE PlanStoreProofs ---------------------------
(***************************************************************************)
(* Proofs about PlanStore: what the three readings of a PATCH let through  *)
(* fits the table, the inductive invariant, and the properties it gives.   *)
(***************************************************************************)
EXTENDS PlanStore, SequenceTheorems, TLAPS

-----------------------------------------------------------------------------
(* What validation lets through.                                           *)

LEMMA FieldKinds ==
  /\ LimitFields \subseteq IntFields /\ IntFields \subseteq Fields
  /\ \A f \in Fields : f \in IntFields \/ f \in OtherFields
  /\ \A f \in OtherFields : f \notin IntFields /\ f \notin LimitFields
BY DEF LimitFields, IntFields, OtherFields, Fields

\* What fits a column is a cell of the table.
LEMMA ColumnCells ==
  ASSUME NEW f \in Fields
  PROVE  Column(f) \subseteq Cell
<1>1. CASE f \in IntFields
  BY <1>1, FieldKinds DEF Column, Cell
<1>2. CASE f \in OtherFields
  BY <1>2, FieldKinds DEF Column, Cell
<1> QED
  BY <1>1, <1>2, FieldKinds

\* An accepted PATCH whose integers the driver can encode fits every column.
LEMMA AcceptedFits ==
  ASSUME NEW plan, NEW b \in Bodies, Verdict(plan, b) = "accepted",
         ~Overflows(Patch(b)), NEW f \in DOMAIN Patch(b)
  PROVE  f \in Fields /\ Patch(b)[f] \in Column(f)
<1> DEFINE p == Patch(b)
<1>1. /\ ~Misshapen(b) /\ ~Invalid(p) /\ ~NestedFeature(p)
  BY DEF Verdict
<1>2. /\ f \in DOMAIN b /\ f \in Fields /\ b[f] \in Json(f)
      /\ b[f] # Null \/ f \in LimitFields
      /\ p[f] = IF b[f] = Null THEN Unlimited ELSE b[f]
      /\ b[f] # Malformed
  BY <1>1, PlanAssumption DEF Patch, Sent, Misshapen
<1>3. CASE f \in IntFields
  <2>1. CASE b[f] = Null
    BY <1>2, <2>1 DEF Column
  <2>2. CASE b[f] # Null
    <3>1. p[f] \in Int /\ p[f] # Unlimited
      BY <1>2, <1>3, <2>2, PlanAssumption DEF Json
    <3>2. p[f] >= 0
      BY <1>1, <1>3, <3>1 DEF Invalid
    <3>3. p[f] <= MaxInt
      BY <1>3, <3>1, PlanAssumption DEF Overflows
    <3> QED
      BY <1>2, <1>3, <3>1, <3>2, <3>3, PlanAssumption DEF Column
  <2> QED
    BY <2>1, <2>2
<1>4. CASE f \in OtherFields
  <2>1. p[f] = b[f] /\ b[f] \in Json(f) \ {Null, Malformed}
    BY <1>2, <1>4, FieldKinds
  <2>2. p[f] # Bad \/ f = "sso_enabled"
    BY <1>1, <1>4 DEF OtherFields, Invalid, NestedFeature
  <2>3. p[f] \in Legal[f]
    BY <1>4, <2>1, <2>2, FieldKinds DEF Json
  <2> QED
    BY <1>2, <1>4, <2>3, FieldKinds DEF Column
<1> QED
  BY <1>2, <1>3, <1>4, FieldKinds

\* The row such a PATCH leaves is a row, at the version it had.
LEMMA AssignedRow ==
  ASSUME NEW plan, NEW b \in Bodies, Verdict(plan, b) = "accepted",
         ~Overflows(Patch(b)), NEW row \in Row
  PROVE  /\ Assigned(row, Patch(b)) \in Row
         /\ Assigned(row, Patch(b)).version = row.version
<1> DEFINE p == Patch(b)
           vals == [f \in Fields |-> IF f \in DOMAIN p THEN p[f] ELSE row.values[f]]
<1>1. row.values \in Values /\ row.version \in 1..MaxVersion
  BY DEF Row
<1>2. \A f \in Fields : vals[f] \in Column(f)
  BY <1>1, AcceptedFits DEF Values
<1>3. vals \in Values
  BY <1>2, ColumnCells DEF Values
<1>4. Assigned(row, p) = [row EXCEPT !.values = vals]
  BY DEF Assigned
<1> QED
  BY <1>3, <1>4 DEF Row

\* So the CHECKs of the table have nothing left to refuse.
LEMMA AssignedChecks ==
  ASSUME NEW plan, NEW b \in Bodies, Verdict(plan, b) = "accepted",
         ~Overflows(Patch(b)), NEW row \in Row
  PROVE  Checks(Assigned(row, Patch(b)))
BY AssignedRow DEF Checks, Row, Values

LEMMA TouchedRow ==
  ASSUME NEW old \in Row, NEW new \in Row, new.version = old.version,
         old.version < MaxVersion
  PROVE  /\ Touched(old, new) \in Row
         /\ Touched(old, new).values = new.values
         /\ new = old => Touched(old, new) = old
         /\ new # old => Touched(old, new).version = old.version + 1
BY PlanAssumption DEF Touched, Row

-----------------------------------------------------------------------------
(* The steps that leave the table alone.                                   *)

TableUnchanged == UNCHANGED <<rows, history>>

\* What holds of the table alone.
TableInv == LedgerInv /\ NoLostUpdate /\ OnlySentFieldsChange

LEMMA TableStays ==
  ASSUME TableInv, TableUnchanged
  PROVE  TableInv'
BY DEF TableInv, TableUnchanged, LedgerInv, NoLostUpdate, OnlySentFieldsChange

\* A transaction that ends without a commit.
LEMMA FailIInv ==
  ASSUME IInv, TableUnchanged, NEW c \in Clients,
         NEW kind \in Kinds \ {"check_violation"}, NEW version \in 0..MaxVersion,
         pc[c] # "idle", Finish(c, kind, None, version)
  PROVE  IInv'
<1> USE DEF IInv, TypeOK, TableUnchanged, Finish
<1>1. req[c] \in Request
  BY DEF RequestsInv
<1>2. TypeOK'
  BY <1>1 DEF Says, Answer
<1>3. RequestsInv'
  BY DEF RequestsInv
<1>4. HoldingInv'
  BY DEF HoldingInv, Holding, Matches
<1>5. ExclusionInv' /\ IdleInv'
  BY DEF ExclusionInv, IdleInv, Holding
<1>6. TableInv'
  BY TableStays DEF TableInv
<1>7. ChecksMirrored'
  BY DEF ChecksMirrored, Says
<1> QED
  BY <1>2, <1>3, <1>4, <1>5, <1>6, <1>7 DEF TableInv

\* A transaction that waits for the row or goes on to the probe.
LEMMA GoToIInv ==
  ASSUME IInv, TableUnchanged, NEW c \in Clients, NEW p \in {"waiting", "probing"},
         pc[c] # "idle", p = "probing" => ~Matches(req[c]), GoTo(c, p),
         ~Overflows(Patch(req[c].body))
  PROVE  IInv'
<1> USE DEF IInv, TypeOK, TableUnchanged, GoTo
<1>1. TypeOK'
  OBVIOUS
<1>2. RequestsInv'
  <2> SUFFICES ASSUME NEW d \in Clients, pc'[d] # "idle"
               PROVE  RequestsInv!(d)'
    BY DEF RequestsInv
  <2>1. pc[d] # "idle" /\ req[d] \in Request
    BY DEF RequestsInv
  <2>2. rows[req[d].plan].version \in Nat /\ req[d].expected \in Nat
    BY <2>1 DEF Request, Row
  <2> QED
    BY <2>1, <2>2 DEF RequestsInv, Matches
<1>3. HoldingInv'
  BY DEF HoldingInv, Holding, Matches
<1>4. ExclusionInv' /\ IdleInv'
  BY DEF ExclusionInv, IdleInv, Holding
<1>5. TableInv'
  BY TableStays DEF TableInv
<1>6. ChecksMirrored'
  BY DEF ChecksMirrored
<1> QED
  BY <1>1, <1>2, <1>3, <1>4, <1>5, <1>6 DEF TableInv

\* The UPDATE got its row: nobody else has it, and what it wrote is a row.
LEMMA HoldIInv ==
  ASSUME IInv, TableUnchanged, NEW c \in Clients, NEW row \in Row, Hold(c, row),
         pc[c] \in {"ready", "waiting"}, Matches(req[c]), ~Locked(c),
         ~Overflows(Patch(req[c].body)),
         row = Touched(rows[req[c].plan],
                       Assigned(rows[req[c].plan], Patch(req[c].body)))
  PROVE  IInv'
<1> USE DEF IInv, TypeOK, TableUnchanged, Hold
<1>1. TypeOK'
  OBVIOUS
<1>2. RequestsInv'
  BY DEF RequestsInv
<1>3. HoldingInv'
  <2> SUFFICES ASSUME NEW d \in Clients, Holding(d)'
               PROVE  HoldingInv!(d)'
    BY DEF HoldingInv
  <2>1. CASE d = c
    BY <2>1 DEF Matches
  <2>2. CASE d # c
    <3>1. Holding(d) /\ pending'[d] = pending[d]
      BY <2>2 DEF Holding
    <3> QED
      BY <3>1 DEF HoldingInv, Matches
  <2> QED
    BY <2>1, <2>2
<1>4. ExclusionInv' /\ IdleInv'
  BY DEF ExclusionInv, IdleInv, Holding, Locked
<1>5. TableInv'
  BY TableStays DEF TableInv
<1>6. ChecksMirrored'
  BY DEF ChecksMirrored
<1> QED
  BY <1>1, <1>2, <1>3, <1>4, <1>5, <1>6 DEF TableInv

-----------------------------------------------------------------------------
(* The commit.                                                             *)

\* What an open transaction wrote, in terms of the body its caller sent.
LEMMA PendingRow ==
  ASSUME IInv, NEW c \in Clients, Holding(c)
  PROVE  LET r == req[c]
             old == rows[r.plan]
             row == pending[c]
         IN /\ r \in Request /\ old \in Row /\ row \in Row
            /\ old.version = r.expected
            /\ row = old \/ row.version = old.version + 1
            /\ \A f \in Fields :
                 row.values[f] = IF f \notin DOMAIN r.body THEN old.values[f]
                                 ELSE IF r.body[f] # Null THEN r.body[f]
                                 ELSE IF f \in LimitFields THEN Unlimited
                                 ELSE old.values[f]
<1> DEFINE r == req[c]
           old == rows[r.plan]
           row == pending[c]
           p == Patch(r.body)
           new == Assigned(old, p)
           vals == [f \in Fields |-> IF f \in DOMAIN p THEN p[f] ELSE old.values[f]]
<1>1. r \in Request /\ r.plan \in Plans /\ row \in Row
  BY DEF IInv, RequestsInv, HoldingInv, Holding, Request
<1>2. /\ old \in Row /\ old.version = r.expected
      /\ row = Touched(old, new)
  BY <1>1 DEF IInv, TypeOK, HoldingInv, Matches
<1>3. new.values = vals /\ new = [old EXCEPT !.values = vals]
  BY <1>2 DEF Assigned, Row
<1>4. /\ row = old \/ row.version = old.version + 1
      /\ row.values = vals
  BY <1>2, <1>3 DEF Touched, Row
<1>5. ASSUME NEW f \in Fields
      PROVE  vals[f] = IF f \notin DOMAIN r.body THEN old.values[f]
                       ELSE IF r.body[f] # Null THEN r.body[f]
                       ELSE IF f \in LimitFields THEN Unlimited
                       ELSE old.values[f]
  BY DEF Patch, Sent
<1> QED
  BY <1>1, <1>2, <1>4, <1>5

\* A change differs from the row before it in what its body mentions only.
Explained(old, change) ==
  \A f \in Fields :
    change.row.values[f] = IF f \notin DOMAIN change.body THEN old.values[f]
                           ELSE IF change.body[f] # Null THEN change.body[f]
                           ELSE IF f \in LimitFields THEN Unlimited
                           ELSE old.values[f]

\* A commit that changes the row adds the change to the log of its plan.
LEMMA InstallTables ==
  ASSUME IInv, NEW c \in Clients, Holding(c), Install(c)
  PROVE  /\ rows' \in [Plans -> Row] /\ history' \in [Plans -> Seq(Change)]
         /\ rows'[req[c].plan] = pending[c]
         /\ \A q \in Plans \ {req[c].plan} : rows'[q] = rows[q]
         /\ TableInv'
<1> DEFINE r == req[c]
           plan == r.plan
           old == rows[plan]
           row == pending[c]
           change == [expected |-> r.expected, body |-> r.body, row |-> row]
<1>1. /\ r \in Request /\ old \in Row /\ row \in Row
      /\ old.version = r.expected
      /\ row = old \/ row.version = old.version + 1
  BY PendingRow
<1>2. /\ plan \in Plans /\ change \in Change
      /\ old.version \in Nat /\ old.version >= 1
  BY <1>1 DEF Request, Change, Row
<1>3. /\ rows \in [Plans -> Row] /\ history \in [Plans -> Seq(Change)]
      /\ TableInv
      /\ rows' = [rows EXCEPT ![plan] = row]
      /\ history' = IF old = row THEN history
                    ELSE [history EXCEPT ![plan] = Append(@, change)]
  BY DEF IInv, TypeOK, TableInv, Install
<1>4. /\ change.row = row /\ change.expected = old.version /\ change.body = r.body
      /\ \A f \in Fields :
           row.values[f] = IF f \notin DOMAIN r.body THEN old.values[f]
                           ELSE IF r.body[f] # Null THEN r.body[f]
                           ELSE IF f \in LimitFields THEN Unlimited
                           ELSE old.values[f]
  BY <1>1, PendingRow
<1>5. old = rows[plan]
  OBVIOUS
<1> DEFINE log == history[plan]
<1>6. /\ log \in Seq(Change) /\ Len(log) = old.version
      /\ log[old.version].row = old
  BY <1>2, <1>3, <1>5 DEF TableInv, LedgerInv
<1>7. /\ rows' \in [Plans -> Row] /\ rows'[plan] = row
      /\ \A q \in Plans \ {plan} : rows'[q] = rows[q]
  BY <1>1, <1>2, <1>3
<1> HIDE DEF change, row, old
<1>8. CASE row = old
  <2>1. rows' = rows
    BY <1>3, <1>5, <1>8
  <2>2. TableUnchanged
    BY <1>3, <1>8, <2>1 DEF TableUnchanged
  <2>3. TableInv'
    BY <1>3, <2>2, TableStays
  <2> QED
    BY <1>3, <1>7, <2>2, <2>3 DEF TableUnchanged, row
<1>9. CASE row # old
  <2> DEFINE new == Append(log, change)
  <2>1. history'[plan] = new
        /\ \A q \in Plans \ {plan} : history'[q] = history[q]
    BY <1>2, <1>3, <1>9
  <2>2. /\ new \in Seq(Change) /\ Len(new) = old.version + 1
        /\ new[old.version + 1] = change
        /\ \A n \in 1..old.version : new[n] = log[n]
    <3> HIDE DEF log
    <3> QED
      BY <1>2, <1>6
  <2> HIDE DEF new
  <2>3. history' \in [Plans -> Seq(Change)]
    <3>1. history' = [history EXCEPT ![plan] = new]
      BY <1>2, <1>3, <1>9 DEF new
    <3> QED
      BY <1>2, <1>3, <2>2, <3>1
  <2>4. \A n \in DOMAIN new : n \in 1..(old.version + 1)
    BY <2>2
  <2>5. LedgerInv'
    <3> SUFFICES ASSUME NEW q \in Plans
                 PROVE  /\ Len(history'[q]) = rows'[q].version
                        /\ history'[q][rows'[q].version].row = rows'[q]
      BY DEF LedgerInv
    <3>1. CASE q # plan
      BY <1>3, <1>7, <2>1, <3>1 DEF LedgerInv, TableInv
    <3>2. CASE q = plan
      BY <1>1, <1>4, <1>7, <1>9, <2>1, <2>2, <3>2
    <3> QED
      BY <3>1, <3>2
  <2>6. NoLostUpdate'
    <3> SUFFICES ASSUME NEW q \in Plans, NEW n \in DOMAIN history'[q]
                 PROVE  /\ history'[q][n].row.version = n
                        /\ history'[q][n].expected = n - 1
      BY DEF NoLostUpdate
    <3>1. CASE q # plan
      <4>1. history'[q] = history[q]
        BY <2>1, <3>1
      <4> QED
        BY <1>3, <4>1 DEF NoLostUpdate, TableInv
    <3>2. CASE q = plan /\ n = old.version + 1
      <4>1. history'[q][n] = change
        BY <2>1, <2>2, <3>2
      <4>2. row.version = n /\ old.version = n - 1
        BY <1>1, <1>2, <1>9, <3>2
      <4> QED
        BY <1>4, <4>1, <4>2
    <3>3. CASE q = plan /\ n # old.version + 1
      <4>1. n \in 1..old.version
        BY <1>2, <2>1, <2>4, <3>3
      <4>2. n \in DOMAIN log /\ history'[q][n] = log[n]
        BY <1>6, <2>1, <2>2, <3>3, <4>1
      <4>3. log[n].row.version = n /\ log[n].expected = n - 1
        BY <1>2, <1>3, <4>2 DEF NoLostUpdate, TableInv
      <4> QED
        BY <4>2, <4>3
    <3> QED
      BY <3>1, <3>2, <3>3
  <2>7. OnlySentFieldsChange'
    <3> SUFFICES ASSUME NEW q \in Plans, NEW n \in 2..Len(history'[q])
                 PROVE  Explained(history'[q][n - 1].row, history'[q][n])
      BY DEF OnlySentFieldsChange, Explained
    <3>1. \A p \in Plans : \A m \in 2..Len(history[p]) :
            Explained(history[p][m - 1].row, history[p][m])
      BY <1>3 DEF OnlySentFieldsChange, Explained, TableInv
    <3>2. CASE q # plan
      <4>1. history'[q] = history[q]
        BY <2>1, <3>2
      <4> QED
        BY <3>1, <4>1
    <3>3. CASE q = plan /\ n = old.version + 1
      <4>1. history'[q][n] = change
        BY <2>1, <2>2, <3>3
      <4>2. n - 1 = old.version /\ n - 1 \in 1..old.version
        BY <1>2, <3>3
      <4>3. history'[q][n - 1] = log[old.version]
        BY <2>1, <2>2, <3>3, <4>2
      <4> HIDE DEF log
      <4> QED
        BY <1>4, <1>6, <4>1, <4>3 DEF Explained
    <3>4. CASE q = plan /\ n # old.version + 1
      <4>1. Len(history'[q]) = old.version + 1
        BY <2>1, <2>2, <3>4
      <4>2. n \in 2..old.version /\ n - 1 \in 1..old.version /\ n \in 1..old.version
        BY <1>2, <3>4, <4>1
      <4>3. history'[q][n] = log[n] /\ history'[q][n - 1] = log[n - 1]
        BY <2>1, <2>2, <3>4, <4>2
      <4>4. n \in 2..Len(history[plan])
        BY <1>6, <4>2
      <4> QED
        BY <3>1, <3>4, <4>3, <4>4
    <3> QED
      BY <3>2, <3>3, <3>4
  <2> QED
    BY <1>7, <2>3, <2>5, <2>6, <2>7 DEF TableInv, row
<1> QED
  BY <1>8, <1>9

\* COMMIT, acknowledged or not.
LEMMA CommitIInv ==
  ASSUME IInv, NEW c \in Clients, Holding(c), Install(c),
         NEW kind \in {"ok", "unavailable"}, NEW row \in {pending[c], None},
         Finish(c, kind, row, 0)
  PROVE  IInv'
<1>1. /\ rows' \in [Plans -> Row] /\ history' \in [Plans -> Seq(Change)]
      /\ rows'[req[c].plan] = pending[c]
      /\ \A q \in Plans \ {req[c].plan} : rows'[q] = rows[q]
      /\ TableInv'
  BY InstallTables
<1>2. /\ req[c] \in Request /\ pending[c] \in Row /\ pc[c] # "idle"
      /\ rows[req[c].plan] \in Row
      /\ pending[c] = rows[req[c].plan]
           \/ pending[c].version = rows[req[c].plan].version + 1
  BY PendingRow DEF Holding
<1> USE DEF IInv, TypeOK, Finish
<1>3. TypeOK'
  BY <1>1, <1>2, PlanAssumption DEF Says, Answer, Kinds
<1>4. RequestsInv'
  <2> SUFFICES ASSUME NEW d \in Clients, pc'[d] # "idle"
               PROVE  RequestsInv!(d)'
    BY DEF RequestsInv
  <2>1. /\ d # c /\ pc'[d] = pc[d] /\ req'[d] = req[d] /\ req[d] \in Request
        /\ Verdict(req[d].plan, req[d].body) = "accepted"
        /\ pc[d] # "ready" => ~Overflows(Patch(req[d].body))
    BY DEF RequestsInv
  <2>2. /\ req[d].plan \in Plans /\ req[d].expected \in Nat
        /\ rows[req[d].plan].version \in Nat
        /\ rows'[req[d].plan].version \in Nat
    BY <1>1, <2>1 DEF Request, Row
  <2>3. rows'[req[d].plan].version >= rows[req[d].plan].version
    <3>1. CASE req[d].plan = req[c].plan
      BY <1>1, <1>2, <2>2, <3>1
    <3>2. CASE req[d].plan # req[c].plan
      BY <1>1, <2>2, <3>2
    <3> QED
      BY <3>1, <3>2
  <2>4. req[d].known => /\ req[d].expected <= rows[req[d].plan].version
                        /\ pc[d] = "probing"
                             => req[d].expected < rows[req[d].plan].version
    BY <2>1 DEF RequestsInv
  <2> HIDE DEF IInv, TypeOK, Finish
  <2> QED
    BY <2>1, <2>2, <2>3, <2>4
<1>5. HoldingInv'
  <2> SUFFICES ASSUME NEW d \in Clients, Holding(d)'
               PROVE  HoldingInv!(d)'
    BY DEF HoldingInv
  <2>1. d # c /\ Holding(d) /\ req'[d] = req[d] /\ pending'[d] = pending[d]
    BY DEF Holding
  <2>2. req[d].plan # req[c].plan /\ req[d].plan \in Plans
    BY <2>1 DEF ExclusionInv, RequestsInv, Holding, Request
  <2> QED
    BY <1>1, <2>1, <2>2 DEF HoldingInv, Matches
<1>6. ExclusionInv' /\ IdleInv'
  BY DEF ExclusionInv, IdleInv, Holding
<1>7. ChecksMirrored'
  BY DEF ChecksMirrored, Says
<1> QED
  BY <1>1, <1>3, <1>4, <1>5, <1>6, <1>7 DEF TableInv

-----------------------------------------------------------------------------
(* The invariant.                                                          *)

LEMMA InitIInv == Init => IInv
<1> SUFFICES ASSUME Init PROVE IInv
  OBVIOUS
<1> USE DEF Init
<1>1. \A q \in Plans : rows[q] \in Row /\ rows[q].version = 1
  BY PlanAssumption DEF Row
<1>2. ASSUME NEW q \in Plans
      PROVE  [expected |-> 0, body |-> EmptyBody, row |-> rows[q]] \in Change
  BY <1>1, PlanAssumption DEF Change
<1>3. TypeOK
  BY <1>1, <1>2 DEF TypeOK
<1>4. RequestsInv /\ IdleInv /\ HoldingInv /\ ExclusionInv
  BY DEF RequestsInv, IdleInv, HoldingInv, ExclusionInv, Holding
<1>5. LedgerInv /\ NoLostUpdate /\ OnlySentFieldsChange
  BY <1>1 DEF LedgerInv, NoLostUpdate, OnlySentFieldsChange
<1>6. ChecksMirrored
  BY DEF ChecksMirrored
<1> QED
  BY <1>3, <1>4, <1>5, <1>6 DEF IInv

\* A read, or a request that is refused: only the answer changes.
LEMMA AnswerIInv ==
  ASSUME IInv, UNCHANGED <<rows, history, pc, req, pending>>,
         NEW kind \in Kinds \ {"check_violation"}, NEW row \in Row \cup {None},
         answer' = Says(None, kind, row, 0)
  PROVE  IInv'
<1> USE DEF IInv
<1>1. TypeOK'
  BY PlanAssumption DEF TypeOK, Says, Answer
<1>2. RequestsInv' /\ IdleInv' /\ HoldingInv' /\ ExclusionInv'
  BY DEF RequestsInv, IdleInv, HoldingInv, ExclusionInv, Holding, Matches
<1>3. TableInv'
  BY TableStays DEF TableInv, TableUnchanged
<1>4. ChecksMirrored'
  BY DEF ChecksMirrored, Says
<1> QED
  BY <1>1, <1>2, <1>3, <1>4 DEF TableInv

\* A PATCH that passed the handler and the service.
LEMMA SubmitIInv ==
  ASSUME IInv, TableUnchanged, NEW c \in Clients, NEW r \in Request,
         pc[c] = "idle", Verdict(r.plan, r.body) = "accepted",
         r.known => r.expected <= rows[r.plan].version,
         pc' = [pc EXCEPT ![c] = "ready"], req' = [req EXCEPT ![c] = r],
         pending' = pending, answer' = None
  PROVE  IInv'
<1> USE DEF IInv, TypeOK, TableUnchanged
<1>1. TypeOK'
  OBVIOUS
<1>2. RequestsInv'
  <2> SUFFICES ASSUME NEW d \in Clients, pc'[d] # "idle"
               PROVE  RequestsInv!(d)'
    BY DEF RequestsInv
  <2>1. CASE d = c
    BY <2>1
  <2>2. CASE d # c
    BY <2>2 DEF RequestsInv
  <2> QED
    BY <2>1, <2>2
<1>3. HoldingInv'
  BY DEF HoldingInv, Holding, Matches
<1>4. ExclusionInv' /\ IdleInv'
  BY DEF ExclusionInv, IdleInv, Holding
<1>5. TableInv'
  BY TableStays DEF TableInv
<1>6. ChecksMirrored'
  BY DEF ChecksMirrored
<1> QED
  BY <1>1, <1>2, <1>3, <1>4, <1>5, <1>6 DEF TableInv

LEMMA UpdateIInv ==
  ASSUME IInv, NEW c \in Clients, Update(c)
  PROVE  IInv'
<1> DEFINE r == req[c]
           p == Patch(r.body)
           old == rows[r.plan]
<1>1. /\ TableUnchanged /\ pc[c] \in {"ready", "waiting"}
      /\ r \in Request /\ Verdict(r.plan, r.body) = "accepted"
      /\ r.plan \in Plans /\ r.body \in Bodies /\ r.expected \in 0..(MaxVersion - 1)
      /\ old \in Row
  BY DEF Update, TableUnchanged, IInv, TypeOK, RequestsInv, Request
<1>2. CASE Overflows(p) /\ Fail(c, "out_of_range")
  BY <1>1, <1>2, FailIInv, PlanAssumption DEF Fail, Kinds
<1>3. CASE ~Overflows(p) /\ GoTo(c, "waiting")
  BY <1>1, <1>3, GoToIInv
<1>4. CASE ~Overflows(p) /\ ~Matches(r) /\ GoTo(c, "probing")
  BY <1>1, <1>4, GoToIInv
<1>5. CASE ~Overflows(p) /\ Matches(r) /\ ~Locked(c) /\ WriteRow(c)
  <2>1. /\ Assigned(old, p) \in Row /\ Assigned(old, p).version = old.version
        /\ Checks(Assigned(old, p))
    BY <1>1, <1>5, AssignedRow, AssignedChecks
  <2>2. old.version < MaxVersion
    BY <1>1, <1>5, PlanAssumption DEF Matches
  <2>3. Touched(old, Assigned(old, p)) \in Row
    BY <1>1, <2>1, <2>2, TouchedRow
  <2>4. Hold(c, Touched(old, Assigned(old, p)))
    BY <1>5, <2>1 DEF WriteRow
  <2> QED
    BY <1>1, <1>5, <2>3, <2>4, HoldIInv
<1> QED
  BY <1>2, <1>3, <1>4, <1>5 DEF Update

(***************************************************************************)
(* Every step of the plan store preserves the inductive invariant, one     *)
(* case per action.                                                        *)
(***************************************************************************)
LEMMA NextIInv == IInv /\ [Next]_vars => IInv'
<1> SUFFICES ASSUME IInv, [Next]_vars PROVE IInv'
  OBVIOUS
<1>1. CASE UNCHANGED vars
  BY <1>1 DEF vars, IInv, TypeOK, RequestsInv, IdleInv, HoldingInv, ExclusionInv, LedgerInv,
     NoLostUpdate, OnlySentFieldsChange, ChecksMirrored, Holding, Matches
<1>2. ASSUME NEW c \in Clients, Get(c) PROVE IInv'
  <2>1. PICK plan \in Plans \cup {None} :
          /\ \/ answer' = Says(None, "not_found", None, 0)
             \/ plan # None /\ answer' = Says(None, "ok", rows[plan], 0)
             \/ answer' = Says(None, "unavailable", None, 0)
          /\ UNCHANGED <<rows, history, pc, req, pending>>
    BY <1>2 DEF Get
  <2>2. plan # None => rows[plan] \in Row
    BY DEF IInv, TypeOK
  <2> QED
    BY <2>1, <2>2, AnswerIInv DEF Kinds
<1>3. ASSUME NEW c \in Clients, SubmitPatch(c) PROVE IInv'
  <2>1. PICK plan \in Plans \cup {None}, b \in Bodies, expected \in 0..(MaxVersion - 1) :
          SubmitPatch(c)!(plan, b, expected)
    BY <1>3 DEF SubmitPatch
  <2>2. CASE Verdict(plan, b) # "accepted"
    <3>1. Verdict(plan, b) \in Kinds \ {"check_violation"}
      BY <2>2 DEF Verdict, Kinds
    <3> QED
      BY <2>1, <2>2, <3>1, AnswerIInv
  <2>3. CASE Verdict(plan, b) = "accepted"
    <3> DEFINE r == [plan |-> plan, body |-> b, expected |-> expected,
                     known |-> expected <= rows[plan].version]
    <3>1. plan \in Plans
      BY <2>3 DEF Verdict
    <3>2. r \in Request
      BY <3>1 DEF Request
    <3>3. /\ pc[c] = "idle" /\ TableUnchanged /\ pending' = pending
          /\ pc' = [pc EXCEPT ![c] = "ready"] /\ req' = [req EXCEPT ![c] = r]
          /\ answer' = None
      BY <2>1, <2>3 DEF TableUnchanged
    <3> QED
      BY <2>3, <3>2, <3>3, SubmitIInv
  <2> QED
    BY <2>2, <2>3
<1>4. ASSUME NEW c \in Clients, Update(c) PROVE IInv'
  BY <1>4, UpdateIInv
<1>5. ASSUME NEW c \in Clients, Probe(c) PROVE IInv'
  <2>1. rows[req[c].plan].version \in 0..MaxVersion
    BY <1>5 DEF Probe, IInv, TypeOK, RequestsInv, Request, Row
  <2> QED
    BY <1>5, <2>1, FailIInv DEF Probe, TableUnchanged, Kinds
<1>6. ASSUME NEW c \in Clients, Commit(c) PROVE IInv'
  BY <1>6, CommitIInv DEF Commit
<1>7. ASSUME NEW c \in Clients, CommitUnacknowledged(c) PROVE IInv'
  BY <1>7, CommitIInv DEF CommitUnacknowledged, Fail
<1>8. ASSUME NEW c \in Clients, Abort(c) PROVE IInv'
  BY <1>8, FailIInv, PlanAssumption DEF Abort, Fail, TableUnchanged, Kinds
<1> QED
  BY <1>1, <1>2, <1>3, <1>4, <1>5, <1>6, <1>7, <1>8 DEF Next, Step

(***************************************************************************)
(* The inductive invariant holds in every state of the plan store, for any *)
(* number of clients and plans and any set of bodies.                      *)
(***************************************************************************)
THEOREM Inductive == Spec => []IInv
BY InitIInv, NextIInv, PTL DEF Spec

(***************************************************************************)
(* Rows, requests and answers are what they should be; in particular every *)
(* row fits its columns whatever JSON the callers send.                    *)
(***************************************************************************)
THEOREM TypeCorrect == Spec => []TypeOK
<1>1. IInv => TypeOK
  BY DEF IInv
<1> QED
  BY <1>1, Inductive, PTL

(***************************************************************************)
(* No PATCH overwrites a change its sender has not seen, nor is applied    *)
(* twice.                                                                  *)
(***************************************************************************)
THEOREM UpdatesNotLost == Spec => []NoLostUpdate
<1>1. IInv => NoLostUpdate
  BY DEF IInv
<1> QED
  BY <1>1, Inductive, PTL

(***************************************************************************)
(* A committed change is what its body says, field by field, and nothing   *)
(* else.                                                                   *)
(***************************************************************************)
THEOREM ChangesAreWhatWasSent == Spec => []OnlySentFieldsChange
<1>1. IInv => OnlySentFieldsChange
  BY DEF IInv
<1> QED
  BY <1>1, Inductive, PTL

(***************************************************************************)
(* The service refuses everything the CHECKs of the table would refuse.    *)
(***************************************************************************)
THEOREM ChecksNeverFire == Spec => []ChecksMirrored
<1>1. IInv => ChecksMirrored
  BY DEF IInv
<1> QED
  BY <1>1, Inductive, PTL

-----------------------------------------------------------------------------
(* The answers.                                                            *)

LEMMA ConflictStep ==
  ASSUME IInv, ConflictReportsNewer, [Next]_vars
  PROVE  ConflictReportsNewer'
<1>1. CASE UNCHANGED vars
  BY <1>1 DEF vars, ConflictReportsNewer
<1>2. ASSUME NEW c \in Clients, Probe(c) PROVE ConflictReportsNewer'
  <2>1. /\ req[c].known => req[c].expected < rows[req[c].plan].version
        /\ rows' = rows
        /\ rows[req[c].plan].version \in Nat /\ req[c].expected \in Nat
        /\ answer' = Says(req[c], "conflict", None, rows[req[c].plan].version)
    BY <1>2 DEF Probe, Finish, IInv, TypeOK, RequestsInv, Request, Row
  <2> QED
    BY <2>1 DEF ConflictReportsNewer, Says
<1>3. ASSUME NEW c \in Clients, Step(c), ~Probe(c)
      PROVE  answer' # None => answer'.kind # "conflict"
  <2>1. CASE Get(c) \/ SubmitPatch(c)
    BY <2>1 DEF Get, SubmitPatch, Verdict, Says
  <2>2. CASE Update(c)
    BY <2>2 DEF Update, WriteRow, Hold, GoTo, Fail, Finish, Says
  <2>3. CASE Commit(c) \/ CommitUnacknowledged(c) \/ Abort(c)
    BY <2>3 DEF Commit, CommitUnacknowledged, Abort, Fail, Finish, Says
  <2> QED
    BY <1>3, <2>1, <2>2, <2>3 DEF Step
<1> QED
  BY <1>1, <1>2, <1>3 DEF Next, ConflictReportsNewer

(***************************************************************************)
(* A 409 always sends a caller that did not invent its version forward.    *)
(***************************************************************************)
THEOREM ConflictsAreTrue == Spec => []ConflictReportsNewer
<1>1. Init => ConflictReportsNewer
  BY DEF Init, ConflictReportsNewer
<1> QED
  BY <1>1, ConflictStep, Inductive, PTL DEF Spec

\* A commit leaves its row at the end of the log.
LEMMA CommitLogged ==
  ASSUME IInv, NEW c \in Clients, Commit(c)
  PROVE  LET r == req[c]
         IN /\ \E n \in DOMAIN history'[r.plan] : history'[r.plan][n].row = pending[c]
            /\ pending[c].version \in {r.expected, r.expected + 1}
<1> DEFINE plan == req[c].plan
           v == rows'[plan].version
<1>1. /\ rows'[plan] = pending[c] /\ LedgerInv'
      /\ history' \in [Plans -> Seq(Change)] /\ rows' \in [Plans -> Row]
  BY InstallTables DEF Commit, TableInv
<1>2. /\ plan \in Plans /\ rows[plan].version = req[c].expected
      /\ pending[c] = rows[plan] \/ pending[c].version = rows[plan].version + 1
  BY PendingRow DEF Commit, Request
<1>3. v \in DOMAIN history'[plan] /\ history'[plan][v].row = pending[c]
  BY <1>1, <1>2 DEF LedgerInv, Row
<1> QED
  BY <1>2, <1>3

LEMMA OkStep ==
  ASSUME IInv, OkIsCommitted, [Next]_vars
  PROVE  OkIsCommitted'
<1>1. CASE UNCHANGED vars
  BY <1>1 DEF vars, OkIsCommitted
<1>2. ASSUME NEW c \in Clients, Commit(c) PROVE OkIsCommitted'
  <2>1. answer' = Says(req[c], "ok", pending[c], 0)
    BY <1>2 DEF Commit, Finish
  <2> QED
    BY <1>2, <2>1, CommitLogged DEF OkIsCommitted, Says
<1>3. ASSUME NEW c \in Clients, Step(c), ~Commit(c)
      PROVE  answer' # None => answer'.kind # "ok" \/ answer'.req = None
  <2>1. CASE Get(c) \/ SubmitPatch(c)
    BY <2>1 DEF Get, SubmitPatch, Says
  <2>2. CASE Update(c)
    BY <2>2 DEF Update, WriteRow, Hold, GoTo, Fail, Finish, Says
  <2>3. CASE Probe(c) \/ CommitUnacknowledged(c) \/ Abort(c)
    BY <2>3 DEF Probe, CommitUnacknowledged, Abort, Fail, Finish, Says
  <2> QED
    BY <1>3, <2>1, <2>2, <2>3 DEF Step
<1> QED
  BY <1>1, <1>2, <1>3 DEF Next, OkIsCommitted

(***************************************************************************)
(* A 200 shows a committed state, the one its sender asked for.            *)
(***************************************************************************)
THEOREM AnswersAreCommitted == Spec => []OkIsCommitted
<1>1. Init => OkIsCommitted
  BY DEF Init, OkIsCommitted
<1> QED
  BY <1>1, OkStep, Inductive, PTL DEF Spec

-----------------------------------------------------------------------------
(* The endpoints are atomic.                                               *)

\* The two specifications speak of the same fields and the same requests.
LEMMA SameWords ==
  /\ Atomic!Limits = LimitFields /\ Atomic!Numbers = IntFields
  /\ Atomic!Fields = Fields /\ Atomic!Request = Request
<1>1. Atomic!Limits = LimitFields
  BY DEF Atomic!Limits, LimitFields
<1>2. Atomic!Numbers = IntFields
  BY <1>1 DEF Atomic!Numbers, IntFields
<1>3. Atomic!Fields = Fields
  BY <1>2 DEF Atomic!Fields, Fields, OtherFields
<1>4. Atomic!Request = Request
  BY DEF Atomic!Request, Request
<1> QED
  BY <1>1, <1>2, <1>3, <1>4

\* A value that a body mentions: null, legal for its field, or refused.
LEMMA MentionedValue ==
  ASSUME NEW b \in Bodies, NEW f \in DOMAIN b
  PROVE  /\ f \in Fields /\ b[f] \in Json(f)
         /\ f \in IntFields =>
              \/ b[f] \in Int /\ b[f] \notin {Null, Malformed, Unlimited}
              \/ b[f] \in {Null, Malformed} /\ b[f] \notin Int
         /\ f \in OtherFields =>
              \/ b[f] \in Legal[f] /\ b[f] \notin {Null, Bad, Malformed}
              \/ b[f] \in {Null, Malformed} /\ b[f] \notin Legal[f]
              \/ b[f] = Bad /\ b[f] \notin Legal[f] /\ f # "sso_enabled"
<1>1. f \in Fields /\ b[f] \in Json(f)
  BY PlanAssumption
<1>2. CASE f \in IntFields
  BY <1>1, <1>2, FieldKinds, PlanAssumption DEF Json
<1>3. CASE f \in OtherFields
  BY <1>1, <1>3, FieldKinds, PlanAssumption DEF Json
<1> QED
  BY <1>1, <1>2, <1>3, FieldKinds

(***************************************************************************)
(* The checks that the handler and the service make of a body, one field   *)
(* and one rule after the other, let through exactly the bodies that are   *)
(* sound as a whole: none too many, which the table would refuse, and none *)
(* too few (parseLimit, PlanHandler.Patch, PlanService.Patch).             *)
(***************************************************************************)
THEOREM ValidationIsExact ==
  ASSUME NEW plan \in Plans \cup {None}, NEW b \in Bodies
  PROVE  Verdict(plan, b) = "accepted" <=> plan \in Plans /\ Atomic!Sound(b)
<1> DEFINE p == Patch(b)
<1>1. Verdict(plan, b) = "accepted" <=>
        /\ ~Misshapen(b) /\ plan \in Plans /\ Sent(b) # {}
        /\ ~Invalid(p) /\ ~NestedFeature(p)
  BY DEF Verdict
<1>2. Sent(b) # {} <=> \E f \in DOMAIN b : b[f] # Null \/ f \in Atomic!Limits
  BY SameWords DEF Sent
<1>3. ASSUME ~Misshapen(b), ~Invalid(p), ~NestedFeature(p), NEW f \in DOMAIN b
      PROVE  b[f] = Null \/ b[f] \in Atomic!Allowed(f)
  <2>1. b[f] # Malformed
    BY <1>3 DEF Misshapen
  <2> SUFFICES ASSUME b[f] # Null
               PROVE  b[f] \in Atomic!Allowed(f)
    OBVIOUS
  <2>2. f \in DOMAIN p /\ p[f] = b[f]
    BY DEF Patch, Sent
  <2>3. CASE f \in IntFields
    <3>1. b[f] \in Int /\ b[f] # Unlimited
      BY <2>1, <2>3, MentionedValue
    <3>2. b[f] >= 0
      BY <1>3, <2>2, <2>3, <3>1 DEF Invalid
    <3> QED
      BY <2>3, <3>1, <3>2, SameWords DEF Atomic!Allowed
  <2>4. CASE f \in OtherFields
    <3>1. b[f] # Bad \/ f = "sso_enabled"
      BY <1>3, <2>2, <2>4 DEF OtherFields, Invalid, NestedFeature
    <3>2. b[f] \in Legal[f]
      BY <2>1, <2>4, <3>1, MentionedValue
    <3> QED
      BY <2>4, <3>2, SameWords, FieldKinds DEF Atomic!Allowed
  <2> QED
    BY <2>3, <2>4, MentionedValue, FieldKinds
<1>4. ASSUME \A f \in DOMAIN b : b[f] = Null \/ b[f] \in Atomic!Allowed(f)
      PROVE  ~Misshapen(b) /\ ~Invalid(p) /\ ~NestedFeature(p)
  <2>1. ASSUME NEW f \in DOMAIN b
        PROVE  /\ f \in IntFields => b[f] = Null \/ b[f] \in Nat
               /\ f \in OtherFields => b[f] = Null \/ b[f] \in Legal[f]
    BY <1>4, SameWords, FieldKinds DEF Atomic!Allowed
  <2>2. ASSUME NEW f \in DOMAIN b
        PROVE  b[f] # Malformed
    BY <2>1, MentionedValue, FieldKinds, PlanAssumption
  <2>3. ASSUME NEW f \in DOMAIN p, f \in IntFields, p[f] # Unlimited
        PROVE  p[f] \in Nat
    BY <2>1, <2>3 DEF Patch, Sent
  <2>4. ASSUME NEW f \in DOMAIN p, f \in OtherFields
        PROVE  p[f] # Bad
    <3>1. f \in DOMAIN b /\ b[f] # Null /\ p[f] = b[f]
      BY <2>4, FieldKinds DEF Patch, Sent
    <3> QED
      BY <2>1, <2>4, <3>1, MentionedValue
  <2>5. ~Misshapen(b)
    BY <2>2 DEF Misshapen
  <2>6. ~Invalid(p)
    <3>1. \A f \in DOMAIN p : f \in IntFields /\ p[f] # Unlimited => ~(p[f] < 0)
      BY <2>3
    <3> QED
      BY <2>4, <3>1 DEF Invalid, OtherFields
  <2>7. ~NestedFeature(p)
    BY <2>4 DEF NestedFeature, OtherFields
  <2> QED
    BY <2>5, <2>6, <2>7
<1> QED
  BY <1>1, <1>2, <1>3, <1>4 DEF Atomic!Sound

\* The driver encodes the numbers of a sound body exactly when they fit.
LEMMA OverflowIsMisfit ==
  ASSUME NEW b \in Bodies, Atomic!Sound(b)
  PROVE  Overflows(Patch(b)) <=> ~Atomic!Fits(b)
<1> DEFINE p == Patch(b)
<1>1. ASSUME NEW f \in DOMAIN b, f \in IntFields
      PROVE  b[f] # Null => /\ f \in DOMAIN p /\ p[f] = b[f]
                            /\ p[f] \in Nat /\ p[f] # Unlimited
  BY <1>1, SameWords, PlanAssumption DEF Patch, Sent, Atomic!Sound, Atomic!Allowed
<1>2. ASSUME NEW f \in DOMAIN p, p[f] # Unlimited
      PROVE  f \in DOMAIN b /\ b[f] # Null
  BY <1>2 DEF Patch, Sent
<1> HIDE DEF p
<1>3. Overflows(p) <=> \E f \in DOMAIN b : f \in IntFields /\ b[f] # Null /\ b[f] > MaxInt
  BY <1>1, <1>2 DEF Overflows
<1>4. Atomic!Fits(b) <=> ~\E f \in DOMAIN b : f \in IntFields /\ b[f] # Null /\ b[f] > MaxInt
  BY <1>1, SameWords, PlanAssumption DEF Atomic!Fits
<1> QED
  BY <1>3, <1>4 DEF p

\* What an UPDATE makes of a plan is what the body means.
LEMMA TouchedIsPatched ==
  ASSUME NEW r \in Request, NEW plan \in Plans, plan = r.plan, rows[plan] \in Row
  PROVE  Touched(rows[plan], Assigned(rows[plan], Patch(r.body))) = Atomic!Patched(r)
<1> DEFINE old == rows[plan]
           p == Patch(r.body)
           new == Assigned(old, p)
           vals == [f \in Fields |-> IF f \in DOMAIN p THEN p[f] ELSE old.values[f]]
           wanted == Atomic!Wanted(old.values, r.body)
<1>1. old = [values |-> old.values, version |-> old.version] /\ old.version \in Nat
  BY DEF Row
<1>2. vals = wanted
  BY SameWords DEF Atomic!Wanted, Patch, Sent
<1>3. new = [old EXCEPT !.values = vals]
  BY DEF Assigned
<1>4. Atomic!Patched(r) =
        [values |-> wanted,
         version |-> old.version + IF wanted = old.values THEN 0 ELSE 1]
  BY DEF Atomic!Patched
<1> HIDE DEF old, new, vals, wanted
<1>5. new = [values |-> wanted, version |-> old.version]
  BY <1>1, <1>2, <1>3
<1>6. new = old <=> wanted = old.values
  BY <1>1, <1>5
<1>7. [new EXCEPT !.version = old.version + 1] =
        [values |-> wanted, version |-> old.version + 1]
  BY <1>5
<1>8. Touched(old, new) = Atomic!Patched(r)
  BY <1>1, <1>4, <1>5, <1>6, <1>7 DEF Touched
<1> QED
  BY <1>8 DEF old, new

(***************************************************************************)
(* A PATCH sent again at the version its first answer named changes        *)
(* nothing, not even the version: what a body says is a state and not a    *)
(* step (PlanRepository.Update, touch_plans).                              *)
(***************************************************************************)
THEOREM RepeatChangesNothing ==
  ASSUME NEW b, NEW old \in Row
  PROVE  LET once == Touched(old, Assigned(old, Patch(b)))
         IN Touched(once, Assigned(once, Patch(b))) = once
<1> DEFINE p == Patch(b)
           vals == [f \in Fields |-> IF f \in DOMAIN p THEN p[f] ELSE old.values[f]]
           new == Assigned(old, p)
           once == Touched(old, new)
           again == Assigned(once, p)
<1>1. old = [values |-> old.values, version |-> old.version]
  BY DEF Row
<1>2. new = [values |-> vals, version |-> old.version]
  BY <1>1 DEF Assigned
<1>3. PICK v : once = [values |-> vals, version |-> v]
  <2> HIDE DEF vals, new
  <2>1. CASE new = old
    BY <1>2, <2>1 DEF Touched
  <2>2. CASE new # old
    <3>1. once = [values |-> vals, version |-> old.version + 1]
      BY <1>2, <2>2 DEF Touched
    <3> QED
      BY <3>1
  <2> QED
    BY <2>1, <2>2
<1> HIDE DEF once
<1>4. again = [once EXCEPT !.values =
                 [f \in Fields |-> IF f \in DOMAIN p THEN p[f] ELSE once.values[f]]]
  BY DEF Assigned
<1>5. [f \in Fields |-> IF f \in DOMAIN p THEN p[f] ELSE once.values[f]] = vals
  BY <1>3
<1>6. again = once
  BY <1>3, <1>4, <1>5
<1> QED
  BY <1>6 DEF once, Touched

\* An open transaction has a sound PATCH of a plan that exists.
LEMMA OpenRequest ==
  ASSUME IInv, NEW c \in Clients, pc[c] # "idle"
  PROVE  /\ req[c] \in Request /\ req[c] # None
         /\ req[c].plan \in Plans /\ req[c].body \in Bodies
         /\ Atomic!Sound(req[c].body)
         /\ pc[c] # "ready" => Atomic!Fits(req[c].body)
<1>1. /\ req[c] \in Request /\ Verdict(req[c].plan, req[c].body) = "accepted"
      /\ pc[c] # "ready" => ~Overflows(Patch(req[c].body))
  BY DEF IInv, RequestsInv
<1>2. req[c].plan \in Plans /\ req[c].body \in Bodies
  BY <1>1 DEF Request
<1>3. Atomic!Sound(req[c].body)
  BY <1>1, <1>2, ValidationIsExact
<1>4. Overflows(Patch(req[c].body)) <=> ~Atomic!Fits(req[c].body)
  BY <1>2, <1>3, OverflowIsMisfit
<1> QED
  BY <1>1, <1>2, <1>3, <1>4, PlanAssumption

\* An end of a transaction, in the words of the promise.
LEMMA FinishIsReply ==
  ASSUME NEW c, NEW kind, NEW row, NEW version, Finish(c, kind, row, version)
  PROVE  Atomic!Reply(c, kind, row, version)
BY DEF Finish, Says, Atomic!Reply, Atomic!Says

\* GET, and a PATCH that goes no further than the service.
LEMMA AnswerIsAtOnce ==
  ASSUME NEW c \in Clients, Get(c) \/ (SubmitPatch(c) /\ UNCHANGED req)
  PROVE  Atomic!Get \/ Atomic!Reject \/ Atomic!Work
<1>1. CASE Get(c)
  BY <1>1 DEF Get, Says, Atomic!Get, Atomic!Says
<1>2. CASE SubmitPatch(c) /\ UNCHANGED req
  <2>1. PICK plan \in Plans \cup {None}, b \in Bodies, expected \in 0..(MaxVersion - 1) :
          SubmitPatch(c)!(plan, b, expected)
    BY <1>2 DEF SubmitPatch
  <2>2. CASE Verdict(plan, b) # "accepted"
    <3>1. answer' = Says(None, Verdict(plan, b), None, 0) /\ UNCHANGED <<rows, req>>
      BY <2>1, <2>2
    <3>2. CASE plan \in Plans
      <4>1. ~Atomic!Sound(b)
        BY <2>2, <3>2, ValidationIsExact
      <4>2. Verdict(plan, b) \in {"validation_error", "no_mutable_field", "invalid_feature_value"}
        BY <2>2, <3>2 DEF Verdict
      <4> QED
        BY <3>1, <4>1, <4>2 DEF Says, Atomic!Reject, Atomic!Says
    <3>3. CASE plan \notin Plans
      <4>1. CASE ~Misshapen(b)
        <5>1. Verdict(plan, b) = "not_found"
          BY <3>3, <4>1 DEF Verdict
        <5> QED
          BY <3>1, <5>1 DEF Says, Atomic!Get, Atomic!Says
      <4>2. CASE Misshapen(b)
        <5>1. Verdict(plan, b) = "validation_error"
          BY <4>2 DEF Verdict
        <5>2. ~Atomic!Sound(b)
          <6>1. PICK f \in DOMAIN b : b[f] = Malformed
            BY <4>2 DEF Misshapen
          <6>2. b[f] # Null /\ b[f] \notin Nat /\ f \in Fields
            BY <6>1, MentionedValue, PlanAssumption
          <6>3. f \in OtherFields => b[f] \notin Legal[f]
            BY <6>1, PlanAssumption
          <6> QED
            BY <6>2, <6>3, SameWords, FieldKinds DEF Atomic!Sound, Atomic!Allowed
        <5> QED
          BY <3>1, <5>1, <5>2 DEF Says, Atomic!Reject, Atomic!Says
      <4> QED
        BY <4>1, <4>2
    <3> QED
      BY <3>2, <3>3
  <2>3. CASE Verdict(plan, b) = "accepted"
    BY <1>2, <2>1, <2>3 DEF Atomic!Work
  <2> QED
    BY <2>2, <2>3
<1> QED
  BY <1>1, <1>2

\* A PATCH that passed the handler and the service is put.
LEMMA SubmitIsAsk ==
  ASSUME IInv, NEW c \in Clients, SubmitPatch(c), ~UNCHANGED req
  PROVE  Atomic!Ask(c)
<1>1. PICK plan \in Plans \cup {None}, b \in Bodies, expected \in 0..(MaxVersion - 1) :
        SubmitPatch(c)!(plan, b, expected)
  BY DEF SubmitPatch
<1> DEFINE r == [plan |-> plan, body |-> b, expected |-> expected,
                 known |-> expected <= rows[plan].version]
<1>2. /\ Verdict(plan, b) = "accepted" /\ pc[c] = "idle" /\ rows' = rows
      /\ req' = [req EXCEPT ![c] = r] /\ answer' = None
  BY <1>1
<1>3. plan \in Plans /\ Atomic!Sound(b)
  BY <1>2, ValidationIsExact
<1>4. r \in Request /\ r.plan = plan /\ r.body = b
  BY <1>3 DEF Request
<1>5. r.known <=> r.expected <= rows[r.plan].version
  OBVIOUS
<1> HIDE DEF r
<1>6. req[c] = None /\ req'[c] = r
  BY <1>2 DEF IInv, IdleInv, TypeOK
<1>7. req'[c] \in Atomic!Request /\ Atomic!Sound(req'[c].body)
  BY <1>3, <1>4, <1>6, SameWords
<1>8. req'[c].known <=> req'[c].expected <= rows[req'[c].plan].version
  BY <1>5, <1>6
<1> QED
  BY <1>2, <1>6, <1>7, <1>8 DEF Atomic!Ask

\* The commit is the whole PATCH, done now.
LEMMA InstallIsWrite ==
  ASSUME IInv, NEW c \in Clients, Holding(c), Install(c),
         Finish(c, "ok", pending[c], 0) \/ Finish(c, "unavailable", None, 0)
  PROVE  Atomic!Write(c)
<1> DEFINE r == req[c]
<1>1. r \in Request /\ r.plan \in Plans /\ Atomic!Fits(r.body)
  BY OpenRequest DEF Holding
<1>2. Matches(r) /\ rows[r.plan] \in Row
      /\ pending[c] = Touched(rows[r.plan], Assigned(rows[r.plan], Patch(r.body)))
  BY <1>1 DEF IInv, TypeOK, HoldingInv
<1>3. pending[c] = Atomic!Patched(r)
  BY <1>1, <1>2, TouchedIsPatched
<1>4. Atomic!Current(r)
  BY <1>2 DEF Matches, Atomic!Current
<1>5. rows' = [rows EXCEPT ![r.plan] = pending[c]]
  BY DEF Install
<1>6. Atomic!Reply(c, "ok", pending[c], 0) \/ Atomic!Reply(c, "unavailable", None, 0)
  BY FinishIsReply
<1> QED
  BY <1>1, <1>3, <1>4, <1>5, <1>6 DEF Atomic!Write

\* A statement shows nobody anything, unless the driver refuses a number.
LEMMA UpdateIsWork ==
  ASSUME IInv, NEW c \in Clients, Update(c)
  PROVE  Atomic!Work \/ Atomic!Refuse(c)
<1> DEFINE r == req[c]
<1>1. /\ pc[c] \in {"ready", "waiting"} /\ rows' = rows
      /\ r \in Request /\ r.plan \in Plans /\ r.body \in Bodies
      /\ Atomic!Sound(r.body) /\ rows[r.plan] \in Row
      /\ Verdict(r.plan, r.body) = "accepted"
  BY OpenRequest DEF Update, IInv, TypeOK, RequestsInv
<1>2. CASE Overflows(Patch(r.body)) /\ Fail(c, "out_of_range")
  <2>1. ~Atomic!Fits(r.body)
    BY <1>1, <1>2, OverflowIsMisfit
  <2>2. Atomic!Reply(c, "out_of_range", None, 0)
    BY <1>2, FinishIsReply DEF Fail
  <2> QED
    BY <1>1, <2>1, <2>2 DEF Atomic!Refuse
<1>3. CASE \E p : GoTo(c, p)
  BY <1>1, <1>3 DEF GoTo, Atomic!Work
<1>4. CASE ~Overflows(Patch(r.body)) /\ WriteRow(c)
  <2>1. Checks(Assigned(rows[r.plan], Patch(r.body)))
    BY <1>1, <1>4, AssignedChecks
  <2>2. \E row : Hold(c, row)
    BY <1>4, <2>1 DEF WriteRow
  <2> QED
    BY <1>1, <2>2 DEF Hold, Atomic!Work
<1> QED
  BY <1>2, <1>3, <1>4 DEF Update

(***************************************************************************)
(* One step of the promise, or none, for each step of the transactions.    *)
(***************************************************************************)
LEMMA StepIsAtomic ==
  ASSUME IInv, [Next]_vars
  PROVE  [Atomic!Next]_(Atomic!vars)
<1>1. CASE UNCHANGED vars
  BY <1>1 DEF vars, Atomic!vars
<1>2. ASSUME NEW c \in Clients, Get(c) PROVE Atomic!Next
  BY <1>2, AnswerIsAtOnce DEF Atomic!Next
<1>3. ASSUME NEW c \in Clients, SubmitPatch(c) PROVE Atomic!Next
  <2>1. CASE UNCHANGED req
    BY <1>3, <2>1, AnswerIsAtOnce DEF Atomic!Next
  <2>2. CASE ~UNCHANGED req
    BY <1>3, <2>2, SubmitIsAsk DEF Atomic!Next
  <2> QED
    BY <2>1, <2>2
<1>4. ASSUME NEW c \in Clients, Update(c) PROVE Atomic!Next
  <2>1. req[c] # None
    BY <1>4, OpenRequest DEF Update
  <2> QED
    BY <1>4, <2>1, UpdateIsWork DEF Atomic!Next
<1>5. ASSUME NEW c \in Clients, Probe(c) PROVE Atomic!Next
  <2>1. /\ req[c] # None /\ Atomic!Fits(req[c].body)
        /\ req[c].known => req[c].expected < rows[req[c].plan].version
    BY <1>5, OpenRequest DEF Probe, IInv, RequestsInv
  <2>2. Atomic!Reply(c, "conflict", None, rows[req[c].plan].version) /\ rows' = rows
    BY <1>5, FinishIsReply DEF Probe
  <2> QED
    BY <2>1, <2>2 DEF Atomic!Refuse, Atomic!Next
<1>6. ASSUME NEW c \in Clients, Commit(c) \/ CommitUnacknowledged(c) PROVE Atomic!Next
  <2>1. req[c] # None
    BY <1>6, OpenRequest DEF Commit, CommitUnacknowledged, Holding
  <2>2. Atomic!Write(c)
    BY <1>6, InstallIsWrite DEF Commit, CommitUnacknowledged, Fail
  <2> QED
    BY <2>1, <2>2 DEF Atomic!Next
<1>7. ASSUME NEW c \in Clients, Abort(c) PROVE Atomic!Next
  <2>1. req[c] # None /\ rows' = rows
    BY <1>7, OpenRequest DEF Abort
  <2>2. Atomic!Reply(c, "unavailable", None, 0)
    BY <1>7, FinishIsReply DEF Abort, Fail
  <2> QED
    BY <2>1, <2>2 DEF Atomic!Lose, Atomic!Next
<1> QED
  BY <1>1, <1>2, <1>3, <1>4, <1>5, <1>6, <1>7 DEF Next, Step

(***************************************************************************)
(* The handler's, the service's, the driver's and the table's readings of  *)
(* a PATCH, with its statements, locks and probes, implement PATCHes that  *)
(* are read once and happen at one instant, that of their answer           *)
(* (PlanHandler, PlanService, PlanRepository).                             *)
(***************************************************************************)
THEOREM ImplementsAtomic == Spec => RequestsAreAtomic
<1>1. Init => Atomic!Init
  BY DEF Init, Atomic!Init
<1> QED
  BY <1>1, StepIsAtomic, Inductive, PTL DEF Spec, RequestsAreAtomic, Atomic!Spec
=============================================================================
