--------------------------- MODULE WriteMetricsProofs ---------------------------
(***************************************************************************)
(* Proof about WriteMetrics: what the write counters add up to, for any    *)
(* number of clients, finite or not, and any number of counts.             *)
(***************************************************************************)
EXTENDS WriteMetrics, FiniteSetTheorems, TLAPS

Places == {"idle", "ready", "waiting", "holding", "probing"}

Holders == {c \in Clients : Holding(c)}

\* The inductive invariant: only finitely many transactions are ever open.
CountersInv ==
  /\ pc \in [Clients -> Places]
  /\ IsFiniteSet(Holders)
  /\ writes \in Nat /\ conflicts \in Nat
  /\ updates \in Nat /\ lost \in Nat /\ refusals \in Nat
  /\ CountersExplained

\* A step moves one transaction: it stays without a written row, writes one,
\* or ends with the commit or the loss of the one it had.
LEMMA StepShape ==
  ASSUME pc \in [Clients -> Places], NEW c \in Clients, Step(c)
  PROVE  /\ pc' \in [Clients -> Places]
         /\ \A d \in Clients \ {c} : pc'[d] = pc[d]
         /\ \/ ~Holding(c) /\ ~Holding(c)' /\ ~Answers(c, "ok")
            \/ ~Holding(c) /\ Holding(c)'
            \/ /\ Holding(c) /\ pc'[c] = "idle"
               /\ answer'.kind \in {"ok", "unavailable"}
<1> USE DEF Places, Holding, Answers
<1>1. CASE Get(c) \/ SubmitPatch(c)
  <2>1. pc' = pc \/ pc' = [pc EXCEPT ![c] = "ready"]
    BY <1>1 DEF Get, SubmitPatch
  <2>2. pc[c] = "idle"
    BY <1>1 DEF Get, SubmitPatch
  <2> QED
    BY <2>1, <2>2
<1>2. CASE Update(c)
  <2>1. pc[c] \in {"ready", "waiting"}
    BY <1>2 DEF Update
  <2>2. \/ \E p \in {"waiting", "probing", "holding"} : pc' = [pc EXCEPT ![c] = p]
        \/ /\ pc' = [pc EXCEPT ![c] = "idle"]
           /\ answer'.kind \in {"out_of_range", "check_violation"}
    BY <1>2 DEF Update, WriteRow, Hold, GoTo, Fail, Finish, Says
  <2> QED
    BY <2>1, <2>2
<1>3. CASE Probe(c)
  <2>1. /\ pc[c] = "probing" /\ pc' = [pc EXCEPT ![c] = "idle"]
        /\ answer'.kind = "conflict"
    BY <1>3 DEF Probe, Finish, Says
  <2> QED
    BY <2>1
<1>4. CASE Commit(c) \/ CommitUnacknowledged(c)
  <2>1. /\ pc[c] = "holding" /\ pc' = [pc EXCEPT ![c] = "idle"]
        /\ answer'.kind \in {"ok", "unavailable"}
    BY <1>4 DEF Commit, CommitUnacknowledged, Fail, Finish, Says
  <2> QED
    BY <2>1
<1>5. CASE Abort(c)
  <2>1. /\ pc[c] # "idle" /\ pc' = [pc EXCEPT ![c] = "idle"]
        /\ answer'.kind = "unavailable"
    BY <1>5 DEF Abort, Fail, Finish, Says
  <2> QED
    BY <2>1
<1> QED
  BY <1>1, <1>2, <1>3, <1>4, <1>5 DEF Step

LEMMA MetricsInitInv ==
  MetricsInit => CountersInv
<1> SUFFICES ASSUME MetricsInit
             PROVE  CountersInv
  OBVIOUS
<1>1. pc \in [Clients -> Places] /\ Holders = {}
  BY DEF MetricsInit, Init, Places, Holders, Holding
<1>2. IsFiniteSet(Holders) /\ Cardinality(Holders) = 0
  BY <1>1, FS_EmptySet
<1> QED
  BY <1>1, <1>2 DEF MetricsInit, CountersInv, CountersExplained, Holders

LEMMA MetricsStepInv ==
  ASSUME CountersInv, NEW c \in Clients, Step(c), Count(c)
  PROVE  CountersInv'
<1> DEFINE n == Cardinality(Holders)
           ok == One(Answers(c, "ok"))
           gone == One(Holding(c) /\ Answers(c, "unavailable"))
           refused == One(Answers(c, "conflict"))
           written == One(~Holding(c) /\ pc'[c] = "holding")
<1>1. /\ pc \in [Clients -> Places] /\ pc' \in [Clients -> Places]
      /\ \A d \in Clients \ {c} : pc'[d] = pc[d]
  BY StepShape DEF CountersInv
<1>2. /\ IsFiniteSet(Holders) /\ n \in Nat
      /\ writes = 2 * updates + lost + n /\ conflicts = 2 * refusals
      /\ writes \in Nat /\ conflicts \in Nat
      /\ updates \in Nat /\ lost \in Nat /\ refusals \in Nat
  BY FS_CardinalityType DEF CountersInv, CountersExplained, Holders
<1>3. ok \in {0, 1} /\ gone \in {0, 1} /\ refused \in {0, 1} /\ written \in {0, 1}
  BY DEF One
<1>4. /\ writes' = writes + written + ok /\ conflicts' = conflicts + refused + refused
      /\ updates' = updates + ok /\ lost' = lost + gone /\ refusals' = refusals + refused
  BY DEF Count, RepositoryWrites, HandlerWrites, RepositoryConflicts, HandlerConflicts
<1>5. /\ IsFiniteSet(Holders') /\ Cardinality(Holders') \in Nat
      /\ written + ok = 2 * ok + gone + (Cardinality(Holders') - n)
  <2>1. CASE ~Holding(c) /\ ~Holding(c)' /\ ~Answers(c, "ok")
    <3>1. Holders' = Holders
      BY <1>1, <2>1 DEF Holders, Holding
    <3>2. ok = 0 /\ gone = 0 /\ written = 0
      BY <2>1 DEF One, Holding
    <3> HIDE DEF ok, gone, written, refused
    <3> QED
      BY <1>2, <3>1, <3>2
  <2>2. CASE ~Holding(c) /\ Holding(c)'
    <3>1. Holders' = Holders \cup {c} /\ c \notin Holders
      BY <1>1, <2>2 DEF Holders, Holding
    <3>2. IsFiniteSet(Holders') /\ Cardinality(Holders') = n + 1
      BY <1>2, <3>1, FS_AddElement
    <3>3. ok = 0 /\ gone = 0 /\ written = 1
      BY <2>2 DEF One, Holding, Answers
    <3> HIDE DEF ok, gone, written, refused
    <3> QED
      BY <1>2, <3>2, <3>3
  <2>3. CASE Holding(c) /\ pc'[c] = "idle" /\ answer'.kind \in {"ok", "unavailable"}
    <3>1. Holders' = Holders \ {c} /\ c \in Holders
      BY <1>1, <2>3 DEF Holders, Holding
    <3>2. IsFiniteSet(Holders') /\ Cardinality(Holders') = n - 1
      BY <1>2, <3>1, FS_RemoveElement
    <3>3. Cardinality(Holders') \in Nat
      BY <3>2, FS_CardinalityType
    <3>4. ok + gone = 1 /\ written = 0
      BY <2>3 DEF One, Holding, Answers
    <3> HIDE DEF ok, gone, written, refused
    <3> QED
      BY <1>2, <1>3, <3>2, <3>3, <3>4
  <2> QED
    BY <2>1, <2>2, <2>3, StepShape DEF CountersInv
<1> HIDE DEF ok, gone, written, refused, n
<1>6. /\ updates' \in Nat /\ lost' \in Nat /\ refusals' \in Nat
      /\ writes' \in Nat /\ conflicts' \in Nat
  BY <1>2, <1>3, <1>4
<1>7. conflicts' = 2 * refusals'
  BY <1>2, <1>3, <1>4
<1>8. writes' = 2 * updates' + lost' + Cardinality(Holders')
  <2> DEFINE k == Cardinality(Holders')
  <2>1. k \in Nat /\ written + ok = 2 * ok + gone + (k - n)
    BY <1>5
  <2> HIDE DEF k
  <2>2. writes' = 2 * updates' + lost' + k
    BY <1>2, <1>3, <1>4, <2>1
  <2> QED
    BY <2>2 DEF k
<1> QED
  BY <1>1, <1>5, <1>6, <1>7, <1>8 DEF CountersInv, CountersExplained, Holders

(***************************************************************************)
(* However many transactions run, wait, roll back or are not acknowledged: *)
(* writes_total is twice the acknowledged updates plus the lost ones and   *)
(* those under way, and the conflicts are twice the 409s                   *)
(* (PlanRepository.Update, PlanHandler.Patch).                             *)
(***************************************************************************)
THEOREM CountersAddUp == MetricsSpec => []CountersExplained
<1>1. CountersInv /\ [MetricsNext]_<<vars, counters>> => CountersInv'
  <2> SUFFICES ASSUME CountersInv, [MetricsNext]_<<vars, counters>>
               PROVE  CountersInv'
    OBVIOUS
  <2>1. CASE MetricsNext
    BY <2>1, MetricsStepInv DEF MetricsNext
  <2>2. CASE UNCHANGED <<vars, counters>>
    BY <2>2 DEF vars, counters, CountersInv, CountersExplained, Holders, Holding
  <2> QED
    BY <2>1, <2>2
<1>2. CountersInv => CountersExplained
  BY DEF CountersInv
<1> QED
  BY <1>1, <1>2, MetricsInitInv, PTL DEF MetricsSpec

(***************************************************************************)
(* Counting changes nothing: what is proved of the plan store holds of the *)
(* pod with its counters, whose steps are those of the store               *)
(* (the Inc calls of PlanRepository and PlanHandler).                      *)
(***************************************************************************)
THEOREM CountingChangesNothing == MetricsSpec => Spec
<1>1. MetricsInit => Init
  BY DEF MetricsInit
<1>2. [MetricsNext]_<<vars, counters>> => [Next]_vars
  BY DEF MetricsNext, Next
<1> QED
  BY <1>1, <1>2, PTL DEF MetricsSpec, Spec
=============================================================================
