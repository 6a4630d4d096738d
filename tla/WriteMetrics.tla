------------------------------ MODULE WriteMetrics ------------------------------
(***************************************************************************)
(* The counters catalog_admin_writes_total and                             *)
(* catalog_admin_optimistic_lock_conflicts_total of one pod, added to the  *)
(* steps of PlanStore.  The repository increments them inside the          *)
(* transaction function, before COMMIT; the handler increments them again  *)
(* when it answers.  The departments handler and repository do the same    *)
(* under their own labels.                                                 *)
(***************************************************************************)
EXTENDS PlanStore, FiniteSets

CONSTANT MaxCounted   \* bound: no transaction is opened after this many counts

ASSUME MetricsAssumption == MaxCounted \in Nat

VARIABLES
  writes,     \* catalog_admin_writes_total{table="plans",op="update"}
  conflicts,  \* catalog_admin_optimistic_lock_conflicts_total{table="plans"}
  updates,    \* history variable: PATCHes answered 200
  lost,       \* history variable: updates rolled back or not acknowledged
  refusals    \* history variable: PATCHes answered 409

counters == <<writes, conflicts, updates, lost, refusals>>

One(condition) == IF condition THEN 1 ELSE 0

\* The transaction of c ends in this step with an answer of the given kind.
Answers(c, kind) == /\ pc[c] # "idle" /\ pc'[c] = "idle"
                    /\ answer'.kind = kind

\* The UPDATE returned its row, and the transaction is still open.
RepositoryWrites(c) == One(~Holding(c) /\ pc'[c] = "holding")

\* Mutant of HandlerWrites: a PATCH whose commit failed is counted as well.
HandlerCountsLost(c) == One(Answers(c, "ok") \/ Answers(c, "unavailable"))

HandlerWrites(c) == One(Answers(c, "ok"))

RepositoryConflicts(c) == One(Answers(c, "conflict"))

HandlerConflicts(c) == One(Answers(c, "conflict"))

Count(c) ==
  /\ writes' = writes + RepositoryWrites(c) + HandlerWrites(c)
  /\ conflicts' = conflicts + RepositoryConflicts(c) + HandlerConflicts(c)
  /\ updates' = updates + One(Answers(c, "ok"))
  /\ lost' = lost + One(Holding(c) /\ Answers(c, "unavailable"))
  /\ refusals' = refusals + One(Answers(c, "conflict"))

MetricsInit ==
  /\ Init
  /\ writes = 0 /\ conflicts = 0 /\ updates = 0 /\ lost = 0 /\ refusals = 0

MetricsNext ==
  \E c \in Clients :
    /\ Step(c)
    /\ Count(c)
    /\ pc[c] = "idle" /\ pc'[c] # "idle" => writes + conflicts < MaxCounted

MetricsSpec == MetricsInit /\ [][MetricsNext]_<<vars, counters>>

-----------------------------------------------------------------------------
(***************************************************************************)
(* What the counters do say: every acknowledged update counts twice, once  *)
(* before its commit and once with its answer, and an update that was      *)
(* rolled back or not acknowledged counts once, however transactions       *)
(* interleave; every 409 counts twice (plan_repository.go and              *)
(* plan_handler.go, the Inc calls).                                        *)
(***************************************************************************)
CountersExplained ==
  /\ writes = 2 * updates + lost + Cardinality({c \in Clients : Holding(c)})
  /\ conflicts = 2 * refusals

(***************************************************************************)
(* What metrics.go documents: writes_total counts inserts and updates.     *)
(* While no transaction is open it should be at least the acknowledged     *)
(* updates, and at most those and the unacknowledged ones.                 *)
(***************************************************************************)
WritesCountUpdates ==
  (\A c \in Clients : ~Holding(c)) => writes \in updates..(updates + lost)
=============================================================================
