--------------------------- MODULE PodLifecycleProofs ---------------------------
(***************************************************************************)
(* Proofs about PodLifecycle, for any number of pods and clients and any   *)
(* budgets that PodAssumption allows.                                      *)
(*                                                                         *)
(* The steps of a pod are of two shapes, and a lemma covers each: main()   *)
(* enters a phase (Enter), or the process ends (End).  What remains of     *)
(* every step is who holds the migration lock after it.                    *)
(***************************************************************************)
EXTENDS PodLifecycle, TLAPS

\* The phases in which the migration must have been applied.
Later == {"listening"} \cup Up \cup Stopping

\* The migration is never undone.
Onward == applied' \in 0..2 /\ (applied # 0 => applied' # 0)

LEMMA EndIInv ==
  ASSUME PodAssumption, IInv, NEW p \in Pods, End(p), Onward, LockInv',
         ghost' \in [Pods -> {"none"} \cup Migrating]
  PROVE  IInv'
<1> USE DEF IInv, Onward
<1>1. /\ phase' = [phase EXCEPT ![p] = "off"]
      /\ budget' = [budget EXCEPT ![p] = 0]
      /\ startup' = [startup EXCEPT ![p] = 0]
      /\ grace' = [grace EXCEPT ![p] = 0]
      /\ slow' = [slow EXCEPT ![p] = FALSE]
      /\ requests' = [c \in Clients |-> IF c \in At(p) THEN None ELSE requests[c]]
      /\ env' = env
  BY DEF End
<1>2. TypeOK'
  BY <1>1 DEF TypeOK, Phases
<1>3. /\ phase'[p] = "off"
      /\ \A q \in Pods \ {p} : /\ phase'[q] = phase[q]
                               /\ budget'[q] = budget[q]
                               /\ startup'[q] = startup[q]
                               /\ grace'[q] = grace[q]
                               /\ slow'[q] = slow[q]
  BY <1>1 DEF TypeOK
<1>4. /\ At(p)' = {}
      /\ \A q \in Pods \ {p} : At(q)' = At(q) /\ Started(q)' = Started(q)
      /\ \A q \in Pods \ {p} : \A c \in At(q) : requests'[c] = requests[c]
  BY <1>1 DEF At, Started
<1>5. Started(p)' = {} /\ \A q \in Pods : Started(q) \subseteq At(q)
  BY <1>4 DEF Started
<1>6. SchemaInv'
  BY <1>3 DEF SchemaInv, Up, Stopping
<1>7. StartupInv'
  BY <1>3 DEF StartupInv, Migrating
<1>8. DrainInv'
  BY <1>3, <1>4, <1>5 DEF DrainInv
<1>9. RequestInv'
  BY <1>3, <1>4, <1>5 DEF RequestInv, Stopping
<1>10. StartedRequestsAnswered'
  BY <1>3, <1>4, <1>5 DEF StartedRequestsAnswered, Stopping
<1> QED
  BY <1>2, <1>6, <1>7, <1>8, <1>9, <1>10

LEMMA EnterIInv ==
  ASSUME PodAssumption, IInv, NEW p \in Pods,
         NEW next \in Phases \ {"off", "draining"}, NEW limit \in Nat,
         Enter(p, next, limit), Onward, LockInv',
         startup' \in [Pods -> Nat], slow' \in [Pods -> BOOLEAN],
         ghost' \in [Pods -> {"none"} \cup Migrating],
         \A q \in Pods \ {p} : startup'[q] = startup[q] /\ slow'[q] = slow[q],
         next \in Later => applied' # 0,
         next \in {"queued"} \cup Migrating => slow'[p] \/ limit < startup'[p],
         next \notin {"serving"} \cup Stopping => At(p) = {},
         next \in Stopping => \A c \in Started(p) : requests[c].left = 0
  PROVE  IInv'
<1> USE DEF IInv, Onward
<1>1. /\ phase' = [phase EXCEPT ![p] = next]
      /\ budget' = [budget EXCEPT ![p] = limit]
      /\ UNCHANGED <<env, grace, requests>>
  BY DEF Enter
<1>2. TypeOK'
  BY <1>1 DEF TypeOK
<1>3. /\ phase'[p] = next /\ budget'[p] = limit
      /\ \A q \in Pods \ {p} : phase'[q] = phase[q] /\ budget'[q] = budget[q]
  BY <1>1 DEF TypeOK
<1>4. \A q \in Pods : At(q)' = At(q) /\ Started(q)' = Started(q)
  BY <1>1 DEF At, Started
<1>5. SchemaInv'
  BY <1>3 DEF SchemaInv, Later
<1>6. StartupInv'
  BY <1>3 DEF StartupInv
<1>7. DrainInv'
  BY <1>1, <1>3, <1>4 DEF DrainInv
<1>8. RequestInv'
  BY <1>1, <1>3, <1>4 DEF RequestInv
<1>9. StartedRequestsAnswered'
  BY <1>1, <1>3, <1>4 DEF StartedRequestsAnswered
<1> QED
  BY <1>2, <1>5, <1>6, <1>7, <1>8, <1>9
-----------------------------------------------------------------------------
(* Who holds the migration lock.                                           *)

\* A lock that may be taken is free, in a documented deployment.
LEMMA LockIsFree ==
  ASSUME Documented, MayLock
  PROVE  LockFree
BY DEF Documented, MayLock, MigrationSession, PoolSession

\* A process ends: its session may stay behind, and then holds the lock alone.
LEMMA DieLock ==
  ASSUME IInv, NEW p \in Pods, Die(p)
  PROVE  LockInv' /\ ghost' \in [Pods -> {"none"} \cup Migrating] /\ Onward
<1> USE DEF IInv, Onward
<1>1. /\ phase' = [phase EXCEPT ![p] = "off"]
      /\ ghost' = [ghost EXCEPT ![p] = IF phase[p] \in Migrating
                                         THEN phase[p] ELSE ghost[p]]
      /\ applied' = applied /\ env' = env
  BY DEF Die, End, Leaves
<1>2. ghost' \in [Pods -> {"none"} \cup Migrating] /\ Onward
  BY <1>1 DEF TypeOK
<1>3. /\ phase'[p] = "off"
      /\ ghost'[p] = IF phase[p] \in Migrating THEN phase[p] ELSE ghost[p]
      /\ \A q \in Pods \ {p} : phase'[q] = phase[q] /\ ghost'[q] = ghost[q]
  BY <1>1 DEF TypeOK
<1>4. LockInv'
  BY <1>1, <1>3 DEF LockInv, Documented, Migrating
<1> QED
  BY <1>2, <1>4

LEMMA DieIInv ==
  ASSUME PodAssumption, IInv, NEW p \in Pods, Die(p)
  PROVE  IInv'
BY DieLock, EndIInv DEF Die

\* A phase that does not hold the lock is entered, and no session is left.
LEMMA ReleaseLock ==
  ASSUME IInv, NEW p \in Pods, NEW next \in Phases \ Migrating,
         phase' = [phase EXCEPT ![p] = next], UNCHANGED <<env, ghost, applied>>
  PROVE  LockInv' /\ ghost' \in [Pods -> {"none"} \cup Migrating] /\ Onward
<1> USE DEF IInv, Onward
<1>1. phase'[p] = next /\ \A q \in Pods \ {p} : phase'[q] = phase[q]
  BY DEF TypeOK
<1>2. LockInv'
  BY <1>1 DEF LockInv, Documented, Migrating
<1> QED
  BY <1>2 DEF TypeOK
-----------------------------------------------------------------------------
(* Startup.                                                                *)

LEMMA StartIInv ==
  ASSUME PodAssumption, IInv, NEW p \in Pods, Start(p)
  PROVE  IInv'
<1>1. /\ phase' = [phase EXCEPT ![p] = "connecting"]
      /\ startup' = [startup EXCEPT ![p] = StartupLimit]
      /\ UNCHANGED <<env, slow, ghost, applied>>
  BY DEF Start, Enter, starts
<1>2. phase[p] = "off" /\ At(p) = {}
  BY DEF Start, IInv, RequestInv, Stopping
<1>3. LockInv' /\ ghost' \in [Pods -> {"none"} \cup Migrating] /\ Onward
  BY <1>1, ReleaseLock DEF Phases, Starting, Migrating
<1>4. Enter(p, "connecting", 0)
  BY DEF Start
<1> HIDE DEF Start
<1>5. "connecting" \in Phases \ {"off", "draining"}
  BY DEF Phases, Starting
<1>6. "connecting" \notin Later \cup {"queued"} \cup Migrating \cup Stopping
  BY DEF Later, Up, Migrating, Stopping
<1>7. /\ startup' \in [Pods -> Nat] /\ slow' \in [Pods -> BOOLEAN]
      /\ \A q \in Pods \ {p} : startup'[q] = startup[q] /\ slow'[q] = slow[q]
  BY <1>1 DEF PodAssumption, IInv, TypeOK
<1> QED
  BY <1>2, <1>3, <1>4, <1>5, <1>6, <1>7, EnterIInv

LEMMA ConnectIInv ==
  ASSUME PodAssumption, IInv, NEW p \in Pods, Connect(p)
  PROVE  IInv'
<1>1. /\ phase' = [phase EXCEPT ![p] = "queued"]
      /\ slow' = [slow EXCEPT ![p] = startup[p] <= MigrationLimit]
      /\ UNCHANGED <<env, startup, ghost, applied>>
  BY DEF Connect, Enter
<1>2. phase[p] = "connecting" /\ At(p) = {}
  BY DEF Connect, IInv, RequestInv, Stopping
<1>3. LockInv' /\ ghost' \in [Pods -> {"none"} \cup Migrating] /\ Onward
  BY <1>1, ReleaseLock DEF Phases, Starting, Migrating
<1>4. Enter(p, "queued", MigrationLimit)
  BY DEF Connect, MigrationBudget
<1>5. "queued" \in Phases \ {"off", "draining"}
  BY DEF Phases, Starting
<1>6. "queued" \notin Later \cup Stopping
  BY DEF Later, Up, Stopping
<1>7. /\ startup' \in [Pods -> Nat] /\ slow' \in [Pods -> BOOLEAN]
      /\ \A q \in Pods \ {p} : startup'[q] = startup[q] /\ slow'[q] = slow[q]
      /\ slow'[p] = (startup[p] <= MigrationLimit)
  <2>1. slow \in [Pods -> BOOLEAN] /\ startup \in [Pods -> Nat]
    BY DEF IInv, TypeOK
  <2>2. (startup[p] <= MigrationLimit) \in BOOLEAN
    OBVIOUS
  <2>3. slow' \in [Pods -> BOOLEAN] /\ slow'[p] = (startup[p] <= MigrationLimit)
    BY <1>1, <2>1, <2>2, Zenon
  <2>4. \A q \in Pods \ {p} : slow'[q] = slow[q]
    BY <1>1, <2>1
  <2> QED
    BY <1>1, <2>1, <2>3, <2>4
<1>8. MigrationLimit \in Nat /\ (slow'[p] \/ MigrationLimit < startup'[p])
  <2>1. MigrationLimit \in Nat /\ startup[p] \in Nat /\ startup'[p] = startup[p]
    BY <1>1 DEF PodAssumption, IInv, TypeOK
  <2> QED
    BY <1>7, <2>1
<1> QED
  BY <1>2, <1>3, <1>4, <1>5, <1>6, <1>7, <1>8, EnterIInv

\* The lock is free when it is taken, and nobody else is given it.
LEMMA LockIInv ==
  ASSUME PodAssumption, IInv, NEW p \in Pods, Lock(p)
  PROVE  IInv'
<1>1. /\ phase' = [phase EXCEPT ![p] = "checking"]
      /\ UNCHANGED <<env, startup, slow, ghost, applied>>
  BY DEF Lock, Enter, starts
<1>2. phase[p] = "queued" /\ At(p) = {} /\ budget[p] \in Nat
  BY DEF Lock, IInv, RequestInv, Stopping, TypeOK
<1>3. LockInv'
  <2>1. phase'[p] = "checking" /\ \A q \in Pods \ {p} : phase'[q] = phase[q]
    BY <1>1 DEF IInv, TypeOK
  <2>2. Documented => \A q \in Pods : phase[q] \notin Migrating /\ ghost[q] = "none"
    BY LockIsFree DEF Lock, LockFree
  <2> QED
    BY <1>1, <2>1, <2>2 DEF IInv, LockInv, Documented, Migrating
<1>4. Enter(p, "checking", budget[p])
  BY DEF Lock
<1>5. "checking" \in Phases \ {"off", "draining"} /\ "checking" \notin Later \cup Stopping
  BY DEF Phases, Starting, Migrating, Later, Up, Stopping
<1>6. slow'[p] \/ budget[p] < startup'[p]
  BY <1>1, <1>2 DEF IInv, StartupInv
<1>7. /\ startup' \in [Pods -> Nat] /\ slow' \in [Pods -> BOOLEAN]
      /\ ghost' \in [Pods -> {"none"} \cup Migrating] /\ Onward
      /\ \A q \in Pods \ {p} : startup'[q] = startup[q] /\ slow'[q] = slow[q]
  BY <1>1 DEF IInv, TypeOK, Onward
<1> QED
  BY <1>2, <1>3, <1>4, <1>5, <1>6, <1>7, EnterIInv

\* A pod that goes on to migrate has found the schema absent.
LEMMA CheckIInv ==
  ASSUME PodAssumption, IInv, NEW p \in Pods, Check(p)
  PROVE  IInv'
<1>1. /\ phase[p] = "checking" /\ At(p) = {} /\ budget[p] \in Nat
      /\ slow[p] \/ budget[p] < startup[p]
  BY DEF Check, IInv, RequestInv, Stopping, TypeOK, StartupInv, Migrating
<1>2. UNCHANGED <<env, startup, slow, ghost, applied>>
  BY DEF Check, Enter, starts
<1>3. /\ startup' \in [Pods -> Nat] /\ slow' \in [Pods -> BOOLEAN]
      /\ ghost' \in [Pods -> {"none"} \cup Migrating] /\ Onward
      /\ \A q \in Pods \ {p} : startup'[q] = startup[q] /\ slow'[q] = slow[q]
  BY <1>2 DEF IInv, TypeOK, Onward
<1>4. CASE applied = 0
  <2>1. Enter(p, "migrating", budget[p])
    BY <1>4 DEF Check
  <2>2. "migrating" \in Phases \ {"off", "draining"} /\ "migrating" \notin Later \cup Stopping
    BY DEF Phases, Starting, Migrating, Later, Up, Stopping
  <2>3. LockInv'
    <3>1. phase'[p] = "migrating" /\ \A q \in Pods \ {p} : phase'[q] = phase[q]
      BY <2>1 DEF Enter, IInv, TypeOK
    <3> QED
      BY <1>1, <1>2, <1>4, <3>1 DEF IInv, LockInv, Documented, Migrating
  <2> QED
    BY <1>1, <1>2, <1>3, <2>1, <2>2, <2>3, EnterIInv
<1>5. CASE applied # 0
  <2>1. Enter(p, "listening", 0)
    BY <1>5 DEF Check
  <2>2. /\ "listening" \in Phases \ ({"off", "draining"} \cup Migrating)
        /\ "listening" \notin {"queued"} \cup Migrating \cup Stopping
    BY DEF Phases, Starting, Migrating, Stopping
  <2>3. LockInv'
    BY <1>2, <2>1, <2>2, ReleaseLock DEF Enter
  <2> QED
    BY <1>1, <1>2, <1>3, <1>5, <2>1, <2>2, <2>3, EnterIInv
<1> QED
  BY <1>4, <1>5

\* Only the holder of the lock begins the migration, so nobody is about to
\* begin it once more.
LEMMA ApplyIInv ==
  ASSUME PodAssumption, IInv, NEW p \in Pods, Apply(p)
  PROVE  IInv'
<1>1. phase[p] = "migrating" /\ At(p) = {}
  BY DEF Apply, IInv, RequestInv, Stopping
<1>2. env' = env /\ ghost' = ghost
  BY DEF Apply, Enter, End
<1>3. ghost' \in [Pods -> {"none"} \cup Migrating]
  BY <1>2 DEF IInv, TypeOK
<1>4. CASE applied = 0
  <2>1. Enter(p, "listening", 0) /\ applied' = 1 /\ UNCHANGED <<startup, slow>>
    BY <1>4 DEF Apply
  <2>2. /\ "listening" \in Phases \ {"off", "draining"}
        /\ "listening" \notin {"queued"} \cup Migrating \cup Stopping
    BY DEF Phases, Starting, Migrating, Stopping
  <2>3. LockInv'
    <3>1. phase'[p] = "listening" /\ \A q \in Pods \ {p} : phase'[q] = phase[q]
      BY <2>1 DEF Enter, IInv, TypeOK
    <3> QED
      BY <1>1, <1>2, <2>1, <3>1 DEF IInv, LockInv, Documented, Migrating
  <2>4. /\ startup' \in [Pods -> Nat] /\ slow' \in [Pods -> BOOLEAN] /\ Onward
        /\ \A q \in Pods \ {p} : startup'[q] = startup[q] /\ slow'[q] = slow[q]
    BY <2>1 DEF IInv, TypeOK, Onward
  <2> QED
    BY <1>1, <1>3, <2>1, <2>2, <2>3, <2>4, EnterIInv
<1>5. CASE applied # 0
  <2>1. End(p) /\ applied' = 2
    BY <1>5 DEF Apply
  <2>2. ~Documented' /\ Onward
    BY <1>1, <1>2, <1>5, <2>1 DEF IInv, LockInv, Documented, Onward
  <2>3. LockInv'
    BY <2>2 DEF LockInv
  <2> QED
    BY <1>3, <2>1, <2>2, <2>3, EndIInv
<1> QED
  BY <1>4, <1>5

LEMMA FailToStartIInv ==
  ASSUME PodAssumption, IInv, NEW p \in Pods, FailToStart(p)
  PROVE  IInv'
<1>1. End(p) /\ UNCHANGED <<ghost, applied>>
  BY DEF FailToStart
<1>2. phase' = [phase EXCEPT ![p] = "off"] /\ env' = env
  BY <1>1 DEF End
<1>3. LockInv' /\ ghost' \in [Pods -> {"none"} \cup Migrating] /\ Onward
  BY <1>1, <1>2, ReleaseLock DEF Phases, Starting, Migrating
<1> QED
  BY <1>1, <1>3, EndIInv

\* A step of a session that was left behind touches no pod.
LEMMA GhostIInv ==
  ASSUME PodAssumption, IInv, NEW p \in Pods, GhostApplies(p) \/ GhostEnds(p)
  PROVE  IInv'
<1> USE DEF IInv
<1>1. /\ UNCHANGED <<env, phase, budget, startup, grace, slow, requests>>
      /\ ghost[p] # "none" /\ ghost' = [ghost EXCEPT ![p] = "none"]
      /\ \/ applied' = applied
         \/ ghost[p] = "migrating" /\ applied' = IF applied = 0 THEN 1 ELSE 2
  BY DEF GhostApplies, GhostEnds
<1>2. TypeOK'
  BY <1>1 DEF TypeOK
<1>3. ghost'[p] = "none" /\ \A q \in Pods \ {p} : ghost'[q] = ghost[q]
  BY <1>1 DEF TypeOK
<1>4. LockInv'
  BY <1>1, <1>3 DEF LockInv, Documented, Migrating
<1>5. \A q \in Pods : At(q)' = At(q) /\ Started(q)' = Started(q)
  BY <1>1 DEF At, Started
<1>6. SchemaInv' /\ StartupInv'
  BY <1>1 DEF SchemaInv, StartupInv
<1>7. DrainInv' /\ RequestInv' /\ StartedRequestsAnswered'
  BY <1>1, <1>5 DEF DrainInv, RequestInv, StartedRequestsAnswered
<1> QED
  BY <1>2, <1>4, <1>6, <1>7

LEMMA ListenIInv ==
  ASSUME PodAssumption, IInv, NEW p \in Pods, Listen(p)
  PROVE  IInv'
<1>1. /\ phase[p] = "listening" /\ At(p) = {} /\ applied # 0
  BY DEF Listen, IInv, RequestInv, Stopping, SchemaInv
<1>2. PICK next \in Up : /\ Enter(p, next, 0)
                         /\ startup' \in {startup, [startup EXCEPT ![p] = 0]}
                         /\ UNCHANGED <<slow, ghost, applied>>
  BY DEF Listen, Up, starts
<1>3. /\ next \in Phases \ ({"off", "draining"} \cup Migrating)
      /\ next \notin {"queued"} \cup Migrating \cup Stopping
  BY DEF Phases, Starting, Migrating, Stopping, Up
<1>4. LockInv' /\ ghost' \in [Pods -> {"none"} \cup Migrating] /\ Onward
  BY <1>2, <1>3, ReleaseLock DEF Enter
<1>5. /\ startup' \in [Pods -> Nat] /\ slow' \in [Pods -> BOOLEAN]
      /\ \A q \in Pods \ {p} : startup'[q] = startup[q] /\ slow'[q] = slow[q]
  BY <1>2 DEF IInv, TypeOK
<1> QED
  BY <1>1, <1>2, <1>3, <1>4, <1>5, EnterIInv
-----------------------------------------------------------------------------
(* Shutdown.                                                               *)

\* A drain starts with its whole budget, which outlasts every request.
LEMMA TerminateIInv ==
  ASSUME PodAssumption, IInv, NEW p \in Pods, Terminate(p)
  PROVE  IInv'
<1> USE DEF IInv
<1>1. CASE Die(p)
  BY <1>1, DieIInv
<1>2. CASE phase[p] \in Up /\ ~Die(p)
  <2>1. /\ phase' = [phase EXCEPT ![p] = "draining"]
        /\ budget' = [budget EXCEPT ![p] = DrainLimit]
        /\ startup' = [startup EXCEPT ![p] = 0]
        /\ grace' = [grace EXCEPT ![p] = Grace]
        /\ UNCHANGED <<env, requests, slow, ghost, applied>>
    BY <1>2 DEF Terminate, starts
  <2>2. "draining" \in Phases \ Migrating
    BY DEF Phases, Stopping, Migrating
  <2>3. TypeOK'
    BY <2>1, <2>2 DEF TypeOK, PodAssumption
  <2>4. /\ phase'[p] = "draining" /\ budget'[p] = DrainLimit /\ grace'[p] = Grace
        /\ \A q \in Pods \ {p} : /\ phase'[q] = phase[q]
                                 /\ budget'[q] = budget[q]
                                 /\ startup'[q] = startup[q]
                                 /\ grace'[q] = grace[q]
    BY <2>1 DEF TypeOK
  <2>5. \A q \in Pods : At(q)' = At(q) /\ Started(q)' = Started(q)
    BY <2>1 DEF At, Started
  <2>6. LockInv'
    BY <2>1, <2>2, ReleaseLock
  <2>7. SchemaInv'
    BY <1>2, <2>1, <2>4 DEF SchemaInv
  <2>8. StartupInv'
    BY <2>1, <2>4 DEF StartupInv, Migrating
  <2>9. \A c \in Started(p) : requests[c].left <= DrainLimit
    <3>1. \A c \in Started(p) : requests[c].left \in Nat
      BY DEF TypeOK, Started, At, Request
    <3> QED
      BY <3>1 DEF RequestInv, PodAssumption
  <2>10. DrainInv'
    BY <2>1, <2>4, <2>5, <2>9 DEF DrainInv, PodAssumption
  <2>11. RequestInv'
    BY <2>1, <2>4, <2>5 DEF RequestInv, Stopping
  <2>12. Grace > 0
    BY DEF PodAssumption
  <2>13. StartedRequestsAnswered'
    BY <2>1, <2>4, <2>5, <2>12 DEF StartedRequestsAnswered
  <2> QED
    BY <2>3, <2>6, <2>7, <2>8, <2>10, <2>11, <2>13
<1> QED
  BY <1>1, <1>2 DEF Terminate

\* main() goes on to another phase of its shutdown.
LEMMA GoOnIInv ==
  ASSUME PodAssumption, IInv, NEW p \in Pods, NEW limit \in Nat,
         NEW next \in Stopping \ {"draining"}, phase[p] \in Stopping,
         Enter(p, next, limit), UNCHANGED <<startup, slow, ghost, applied>>,
         \A c \in Started(p) : requests[c].left = 0
  PROVE  IInv'
<1>1. /\ next \in Phases \ ({"off", "draining"} \cup Migrating)
      /\ next \notin {"queued"} \cup Migrating
  BY DEF Phases, Stopping, Migrating
<1>2. LockInv' /\ ghost' \in [Pods -> {"none"} \cup Migrating] /\ Onward
  BY <1>1, ReleaseLock DEF Enter
<1>3. applied' # 0
  BY DEF IInv, SchemaInv
<1>4. startup' \in [Pods -> Nat] /\ slow' \in [Pods -> BOOLEAN]
  BY DEF IInv, TypeOK
<1> QED
  BY <1>1, <1>2, <1>3, <1>4, EnterIInv

LEMMA DrainApiIInv ==
  ASSUME PodAssumption, IInv, NEW p \in Pods, DrainApi(p)
  PROVE  IInv'
<1>1. /\ phase[p] = "draining" /\ (At(p) = {} \/ budget[p] = 0)
      /\ Enter(p, "drainingMetrics", MetricsLimit)
      /\ UNCHANGED <<startup, slow, ghost, applied>>
  BY DEF DrainApi, Drained, starts
<1>2. \A c \in Started(p) : requests[c].left = 0
  <2>1. \A c \in Started(p) : c \in At(p) /\ requests[c].left \in Nat
    BY DEF IInv, TypeOK, Started, At, Request
  <2>2. \A c \in Started(p) : requests[c].left <= budget[p]
    BY <1>1 DEF IInv, DrainInv
  <2> QED
    BY <1>1, <2>1, <2>2
<1>3. MetricsLimit \in Nat
  BY DEF PodAssumption
<1>4. "drainingMetrics" \in Stopping \ {"draining"} /\ phase[p] \in Stopping
  BY <1>1 DEF Stopping
<1> QED
  BY <1>1, <1>2, <1>3, <1>4, GoOnIInv

LEMMA CloseIInv ==
  ASSUME PodAssumption, IInv, NEW p \in Pods, DrainMetrics(p) \/ CloseCache(p)
  PROVE  IInv'
<1>1. PICK next \in {"flushing", "closing"} :
        /\ phase[p] \in {"drainingMetrics", "flushing"}
        /\ Enter(p, next, 0)
        /\ UNCHANGED <<startup, slow, ghost, applied>>
  BY DEF DrainMetrics, CloseCache, starts
<1>2. next \in Stopping \ {"draining"} /\ phase[p] \in Stopping \ {"draining"}
  BY <1>1 DEF Stopping
<1>3. \A c \in Started(p) : requests[c].left = 0
  BY <1>2 DEF IInv, StartedRequestsAnswered
<1> QED
  BY <1>1, <1>2, <1>3, GoOnIInv
-----------------------------------------------------------------------------
(* Requests, and the clock.                                                *)

\* A request changes; if its handler has started, it has no more time left
\* than it had, and it came in time only if it did before.
LEMMA RequestIInv ==
  ASSUME PodAssumption, IInv, NEW p \in Pods, NEW c \in Clients,
         NEW r \in Request \cup {None}, SetRequest(c, r),
         requests[c] = None \/ c \in At(p),
         r # None => r.pod = p /\ phase[p] \in {"serving"} \cup Stopping,
         r # None /\ r.stage # "reading" /\ ~r.late =>
           \/ c \in Started(p) /\ r.left = requests[c].left
           \/ phase[p] = "serving" /\ r.left <= RequestLimit
  PROVE  IInv'
<1> USE DEF IInv
<1>1. /\ requests' = [requests EXCEPT ![c] = r]
      /\ UNCHANGED <<env, phase, budget, startup, grace, slow, ghost, applied>>
  BY DEF SetRequest
<1>2. TypeOK'
  BY <1>1 DEF TypeOK
<1>3. requests'[c] = r /\ \A d \in Clients \ {c} : requests'[d] = requests[d]
  BY <1>1 DEF TypeOK
<1>4. \A q \in Pods : \A d \in At(q)' : d # c => d \in At(q)
  BY <1>3 DEF At
<1>5. \A q \in Pods : \A d \in Started(q)' : d # c => d \in Started(q)
  BY <1>3 DEF At, Started
<1>6. \A q \in Pods : c \in At(q)' => q = p /\ phase[p] \in {"serving"} \cup Stopping
  BY <1>3 DEF At
<1>7. \A q \in Pods : c \in Started(q)' =>
        /\ q = p
        /\ \/ c \in Started(p) /\ requests'[c].left = requests[c].left
           \/ phase[p] = "serving" /\ requests'[c].left <= RequestLimit
  BY <1>3 DEF At, Started
<1>8. LockInv' /\ SchemaInv' /\ StartupInv'
  BY <1>1 DEF LockInv, SchemaInv, StartupInv, Documented
<1>9. \A q \in Pods, d \in Clients : d # c => requests'[d] = requests[d]
  BY <1>3
<1>10. \A q \in Pods : At(q) \subseteq Clients /\ At(q)' \subseteq Clients
                       /\ Started(q)' \subseteq Clients
  BY DEF At, Started
<1>11. DrainInv'
  BY <1>1, <1>5, <1>7, <1>9, <1>10 DEF DrainInv
<1>12. RequestInv'
  <2>1. \A q \in Pods : phase'[q] \notin {"serving"} \cup Stopping => At(q)' = {}
    BY <1>1, <1>4, <1>6 DEF RequestInv
  <2>2. \A q \in Pods : \A d \in Started(q)' : requests'[d].left <= RequestLimit
    BY <1>5, <1>7, <1>9, <1>10 DEF RequestInv
  <2> QED
    BY <2>1, <2>2 DEF RequestInv
<1>13. "serving" \notin Stopping
  BY DEF Stopping
<1>14. StartedRequestsAnswered'
  BY <1>1, <1>5, <1>7, <1>9, <1>10, <1>13 DEF StartedRequestsAnswered
<1> QED
  BY <1>2, <1>8, <1>11, <1>12, <1>14

LEMMA ServeIInv ==
  ASSUME PodAssumption, IInv, NEW p \in Pods, NEW c \in Clients, Serve(p, c)
  PROVE  IInv'
<1>1. CASE Accept(p, c)
  <2> DEFINE r == [pod |-> p, stage |-> "reading", left |-> ReadLimit, late |-> FALSE]
  <2>1. r \in Request /\ r.pod = p /\ r.stage = "reading"
    BY DEF Request, PodAssumption
  <2>2. phase[p] = "serving" /\ requests[c] = None /\ SetRequest(c, r)
    BY <1>1 DEF Accept
  <2> QED
    BY <2>1, <2>2, RequestIInv
<1>2. c \in At(p) => /\ phase[p] \in {"serving"} \cup Stopping
                     /\ requests[c] \in Request /\ requests[c].pod = p
  BY DEF IInv, TypeOK, RequestInv, At
<1>3. CASE Handle(p, c)
  <2> DEFINE r == [pod |-> p, stage |-> "handling", left |-> RequestLimit,
                   late |-> phase[p] # "serving"]
  <2>1. r \in Request /\ r.pod = p /\ r.left = RequestLimit
    BY DEF Request, PodAssumption
  <2>2. ~r.late => phase[p] = "serving"
    OBVIOUS
  <2>3. c \in At(p) /\ SetRequest(c, r) /\ RequestLimit <= RequestLimit
    BY <1>3 DEF Handle, PodAssumption
  <2> HIDE DEF r
  <2> QED
    BY <1>2, <2>1, <2>2, <2>3, RequestIInv
<1>4. CASE Begin(p, c) \/ Commit(p, c)
  <2>1. PICK to \in {"transaction", "committed"} :
          /\ c \in At(p) /\ requests[c].stage # "reading"
          /\ SetRequest(c, [requests[c] EXCEPT !.stage = to])
    BY <1>4 DEF Begin, Commit, Advance
  <2> DEFINE r == [requests[c] EXCEPT !.stage = to]
  <2>2. /\ r \in Request /\ r.pod = p
        /\ r.left = requests[c].left /\ r.late = requests[c].late
    BY <1>2, <2>1 DEF Request
  <2>3. ~r.late => c \in Started(p)
    BY <2>1, <2>2 DEF Started
  <2> QED
    BY <1>2, <2>1, <2>2, <2>3, RequestIInv
<1>5. CASE Answer(p, c)
  BY <1>5, RequestIInv DEF Answer
<1> QED
  BY <1>1, <1>3, <1>4, <1>5 DEF Serve

\* Every timer that is not spent loses one unit, so the timers that bound one
\* another still do.
LEMMA TickIInv ==
  ASSUME PodAssumption, IInv, Tick
  PROVE  IInv'
<1> USE DEF IInv
<1>1. /\ budget' = [p \in Pods |-> Less(budget[p])]
      /\ startup' = [p \in Pods |-> Less(startup[p])]
      /\ grace' = [p \in Pods |-> Less(grace[p])]
      /\ requests' = [c \in Clients |->
                       IF requests[c] = None THEN None
                       ELSE [requests[c] EXCEPT !.left = Less(@)]]
      /\ UNCHANGED <<env, phase, slow, ghost, applied>>
  BY DEF Tick
<1>2. \A n \in Nat : Less(n) \in Nat
  BY DEF Less
<1>3. \A m, n \in Nat : m < n => Less(m) < Less(n) \/ Less(n) = 0
  BY DEF Less
<1>4. \A m, n \in Nat : m <= n => Less(m) <= Less(n)
  BY DEF Less
<1>5. \A c \in Clients :
        /\ requests'[c] # None => requests[c] # None
        /\ requests[c] # None =>
             /\ requests[c] \in Request
             /\ requests'[c] = [requests[c] EXCEPT !.left = Less(requests[c].left)]
  BY <1>1 DEF TypeOK
<1>6. \A r \in Request : LET s == [r EXCEPT !.left = Less(r.left)]
                         IN /\ s \in Request /\ s.left = Less(r.left)
                            /\ s.pod = r.pod /\ s.stage = r.stage /\ s.late = r.late
  BY <1>2 DEF Request
<1>7. TypeOK'
  <2>1. requests' \in [Clients -> Request \cup {None}]
    BY <1>1, <1>5, <1>6
  <2>2. /\ budget' \in [Pods -> Nat]
        /\ startup' \in [Pods -> Nat]
        /\ grace' \in [Pods -> Nat]
    BY <1>1, <1>2 DEF TypeOK
  <2> QED
    BY <1>1, <2>1, <2>2 DEF TypeOK
<1>8. \A p \in Pods : At(p)' \subseteq At(p) /\ Started(p)' \subseteq Started(p)
  <2>1. \A c \in Clients : requests'[c] # None =>
          /\ requests[c] # None
          /\ requests'[c].pod = requests[c].pod
          /\ requests'[c].stage = requests[c].stage
          /\ requests'[c].late = requests[c].late
    BY <1>5, <1>6
  <2>2. \A p \in Pods : At(p)' \subseteq At(p)
    BY <2>1 DEF At
  <2>3. ASSUME NEW p \in Pods, NEW c \in Started(p)'
        PROVE  c \in Started(p)
    <3>1. c \in At(p)' /\ c \in At(p)
      BY <2>2 DEF Started
    <3>2. c \in Clients /\ requests'[c] # None
      BY <3>1 DEF At
    <3> QED
      BY <2>1, <3>1, <3>2 DEF Started
  <2> QED
    BY <2>2, <2>3
<1>9. \A p \in Pods : \A c \in At(p)' : /\ requests[c].left \in Nat
                                        /\ requests'[c].left = Less(requests[c].left)
  BY <1>5, <1>6 DEF At, Request
<1>10. LockInv' /\ SchemaInv'
  BY <1>1 DEF LockInv, SchemaInv, Documented
<1>11. \A p \in Pods : /\ budget[p] \in Nat /\ budget'[p] = Less(budget[p])
                       /\ startup[p] \in Nat /\ startup'[p] = Less(startup[p])
                       /\ grace[p] \in Nat /\ grace'[p] = Less(grace[p])
  BY <1>1 DEF TypeOK
<1>12. \A p \in Pods : OnTime(p)
  BY DEF Tick
<1>13. StartupInv'
  <2> SUFFICES ASSUME NEW p \in Pods, phase[p] \in {"queued"} \cup Migrating, ~slow[p]
               PROVE  budget'[p] < startup'[p]
    BY <1>1 DEF StartupInv
  <2>1. budget[p] < startup[p] /\ budget[p] # 0
    BY <1>12 DEF StartupInv, OnTime
  <2> QED
    BY <1>11, <2>1 DEF Less
<1>14. DrainInv'
  <2> SUFFICES ASSUME NEW p \in Pods, phase[p] = "draining"
               PROVE  /\ budget'[p] < grace'[p]
                      /\ \A c \in Started(p)' : requests'[c].left <= budget'[p]
    BY <1>1 DEF DrainInv
  <2>1. budget[p] < grace[p] /\ budget[p] # 0
    BY <1>12 DEF DrainInv, OnTime, Drained
  <2>2. budget'[p] < grace'[p]
    BY <1>11, <2>1 DEF Less
  <2>3. ASSUME NEW c \in Started(p)'
        PROVE  requests'[c].left <= budget'[p]
    <3>1. c \in Started(p) /\ c \in At(p)'
      BY <1>8 DEF Started
    <3>2. requests[c].left <= budget[p] /\ requests[c].left \in Nat
      BY <1>9, <3>1 DEF DrainInv
    <3> QED
      BY <1>4, <1>9, <1>11, <3>1, <3>2
  <2> QED
    BY <2>2, <2>3
<1>15. ASSUME NEW p \in Pods, NEW c \in Started(p)'
       PROVE  /\ c \in Started(p)
              /\ requests[c].left \in Nat /\ requests'[c].left = Less(requests[c].left)
  BY <1>8, <1>9 DEF Started
<1>16. RequestInv'
  <2>1. \A p \in Pods : phase'[p] \notin {"serving"} \cup Stopping => At(p)' = {}
    BY <1>1, <1>8 DEF RequestInv
  <2>2. \A p \in Pods : \A c \in Started(p)' : requests'[c].left <= RequestLimit
    BY <1>15 DEF RequestInv, PodAssumption, Less
  <2> QED
    BY <2>1, <2>2 DEF RequestInv
<1>17. StartedRequestsAnswered'
  <2>1. \A p \in Pods : phase'[p] = "draining" => grace'[p] > 0
    BY <1>1, <1>7, <1>14 DEF DrainInv, TypeOK
  <2>2. ASSUME NEW p \in Pods, phase'[p] \in Stopping \ {"draining"},
               NEW c \in Started(p)'
        PROVE  requests'[c].left = 0
    BY <1>1, <1>15, <2>2 DEF StartedRequestsAnswered, Less
  <2> QED
    BY <2>1, <2>2 DEF StartedRequestsAnswered
<1> QED
  BY <1>7, <1>10, <1>13, <1>14, <1>16, <1>17
-----------------------------------------------------------------------------
LEMMA InitIInv ==
  ASSUME PodAssumption, Init
  PROVE  IInv
<1> USE DEF Init
<1>1. TypeOK
  BY DEF TypeOK, Phases
<1>2. \A p \in Pods : At(p) = {} /\ Started(p) = {}
  BY DEF At, Started
<1>3. LockInv /\ SchemaInv /\ StartupInv
  BY DEF LockInv, SchemaInv, StartupInv, Migrating, Up, Stopping
<1>4. DrainInv /\ RequestInv /\ StartedRequestsAnswered
  BY <1>2 DEF DrainInv, RequestInv, StartedRequestsAnswered, Stopping
<1> QED
  BY <1>1, <1>3, <1>4 DEF IInv

LEMMA NextIInv ==
  ASSUME PodAssumption, IInv, [Next]_vars
  PROVE  IInv'
<1>1. ASSUME NEW p \in Pods, Process(p)
      PROVE  IInv'
  <2>1. CASE Start(p) \/ Connect(p) \/ Lock(p) \/ Check(p) \/ Apply(p) \/ Listen(p)
    BY <2>1, StartIInv, ConnectIInv, LockIInv, CheckIInv, ApplyIInv, ListenIInv
  <2>2. CASE FailToStart(p) \/ GhostApplies(p) \/ GhostEnds(p)
    BY <2>2, FailToStartIInv, GhostIInv
  <2>3. CASE Stop(p) \/ ProbeFails(p)
    BY <2>3, TerminateIInv DEF Stop, ProbeFails
  <2>4. CASE DrainApi(p) \/ DrainMetrics(p) \/ CloseCache(p)
    BY <2>4, DrainApiIInv, CloseIInv
  <2>5. CASE MigrationTimesOut(p) \/ Exit(p) \/ Sigkill(p) \/ Crash(p)
    BY <2>5, DieIInv DEF MigrationTimesOut, Exit, Sigkill, Crash
  <2> QED
    BY <1>1, <2>1, <2>2, <2>3, <2>4, <2>5 DEF Process
<1>2. CASE UNCHANGED vars
  <2>1. \A p \in Pods : At(p)' = At(p) /\ Started(p)' = Started(p)
    BY <1>2 DEF vars, At, Started
  <2>2. TypeOK' /\ LockInv' /\ SchemaInv' /\ StartupInv'
    BY <1>2 DEF vars, IInv, TypeOK, LockInv, SchemaInv, StartupInv, Documented
  <2>3. DrainInv' /\ RequestInv' /\ StartedRequestsAnswered'
    BY <1>2, <2>1 DEF vars, IInv, DrainInv, RequestInv, StartedRequestsAnswered
  <2> QED
    BY <2>2, <2>3 DEF IInv
<1> QED
  BY <1>1, <1>2, ServeIInv, TickIInv DEF Next

(***************************************************************************)
(* The inductive invariant holds in every reachable state: who holds the   *)
(* migration lock, in which order startup and shutdown run, and which      *)
(* timer bounds which.                                                     *)
(***************************************************************************)
THEOREM Inductive == Spec => []IInv
<1>1. Init => IInv
  BY PodAssumption, InitIInv
<1>2. IInv /\ [Next]_vars => IInv'
  BY PodAssumption, NextIInv
<1> QED
  BY <1>1, <1>2, PTL DEF Spec

(***************************************************************************)
(* Every variable keeps its type; no timer runs below zero.                *)
(***************************************************************************)
THEOREM TypeCorrect == Spec => []TypeOK
<1>1. IInv => TypeOK
  BY DEF IInv
<1> QED
  BY <1>1, Inductive, PTL

(***************************************************************************)
(* The migration is begun once, for any number of pods that start, die in  *)
(* the migration and leave sessions behind (RunMigrations).                *)
(***************************************************************************)
THEOREM MigratedOnce == Spec => []AppliedOnce
<1>1. IInv => AppliedOnce
  BY DEF IInv, LockInv, AppliedOnce
<1> QED
  BY <1>1, Inductive, PTL

(***************************************************************************)
(* The deadline of the migration strikes before the startup probe, for all *)
(* budgets with MigrationLimit < StartupLimit, unless connecting was slow  *)
(* (main.go: migrationCtx).                                                *)
(***************************************************************************)
THEOREM WedgedLocksReported == Spec => []WedgedLockReported
<1>1. IInv => WedgedLockReported
  BY DEF IInv, TypeOK, StartupInv, WedgedLockReported
<1> QED
  BY <1>1, Inductive, PTL

(***************************************************************************)
(* A request that was being handled when SIGTERM came is answered before   *)
(* the cache and the pool are closed, or at its deadline, for all budgets  *)
(* with RequestLimit <= DrainLimit < Grace (main.go: graceful shutdown).   *)
(***************************************************************************)
THEOREM DrainsKeepRequests == Spec => []StartedRequestsAnswered
<1>1. IInv => StartedRequestsAnswered
  BY DEF IInv
<1> QED
  BY <1>1, Inductive, PTL
-----------------------------------------------------------------------------
(* The time in which a pod settles.                                        *)

\* What SettlesInTime says of a step, when it is no tick of the clock.
GainsNoTime(p) ==
  Unsettled(p)' =>
    IF Unsettled(p) THEN TimeLeft(p)' <= TimeLeft(p)
                    ELSE TimeLeft(p)' <= StartupLimit + Grace

LEMMA TimersKept ==
  ASSUME PodAssumption, TypeOK, NEW p \in Pods,
         phase'[p] = phase[p], startup'[p] = startup[p], grace'[p] = grace[p]
  PROVE  GainsNoTime(p)
<1>1. startup[p] \in Nat /\ grace[p] \in Nat /\ Grace \in Nat
  BY DEF TypeOK, PodAssumption
<1> QED
  BY <1>1 DEF GainsNoTime, Unsettled, TimeLeft

\* The process of p ends, and p has settled.
LEMMA EndSettles ==
  ASSUME TypeOK, NEW p \in Pods, End(p)
  PROVE  /\ GainsNoTime(p)
         /\ \A q \in Pods \ {p} : /\ phase'[q] = phase[q]
                                  /\ startup'[q] = startup[q]
                                  /\ grace'[q] = grace[q]
BY DEF TypeOK, End, GainsNoTime, Unsettled

\* main() of p goes on, in its startup or in its shutdown, without a new timer.
LEMMA GoOnKeepsTime ==
  ASSUME PodAssumption, TypeOK, NEW p \in Pods, NEW next, NEW limit,
         Enter(p, next, limit),
         startup' \in {startup, [startup EXCEPT ![p] = 0]},
         Unsettled(p), phase[p] \in Stopping <=> next \in Stopping
  PROVE  /\ GainsNoTime(p)
         /\ \A q \in Pods \ {p} : /\ phase'[q] = phase[q]
                                  /\ startup'[q] = startup[q]
                                  /\ grace'[q] = grace[q]
<1>1. /\ startup[p] \in Nat /\ grace[p] \in Nat /\ Grace \in Nat
      /\ phase \in [Pods -> Phases] /\ startup \in [Pods -> Nat]
  BY DEF TypeOK, PodAssumption
<1>2. /\ phase'[p] = next /\ grace'[p] = grace[p]
      /\ startup'[p] \in {startup[p], 0}
  BY <1>1 DEF Enter
<1>3. GainsNoTime(p)
  BY <1>1, <1>2 DEF GainsNoTime, TimeLeft
<1> QED
  BY <1>1, <1>3 DEF Enter

\* A pod that starts, and a pod that is told to stop, begin with a timer that
\* is within the bound; one that never served gives up the rest of its startup.
LEMMA StartInTime ==
  ASSUME PodAssumption, TypeOK, NEW p \in Pods, Start(p)
  PROVE  /\ GainsNoTime(p)
         /\ \A q \in Pods \ {p} : /\ phase'[q] = phase[q]
                                  /\ startup'[q] = startup[q]
                                  /\ grace'[q] = grace[q]
<1>1. /\ phase[p] = "off"
      /\ phase' = [phase EXCEPT ![p] = "connecting"]
      /\ startup' = [startup EXCEPT ![p] = StartupLimit]
      /\ grace' = grace
  BY DEF Start, Enter
<1>2. phase'[p] = "connecting" /\ startup'[p] = StartupLimit
  BY <1>1 DEF TypeOK
<1>3. StartupLimit \in Nat /\ Grace \in Nat /\ "connecting" \notin Stopping
  BY DEF PodAssumption, Stopping
<1>4. GainsNoTime(p)
  BY <1>1, <1>2, <1>3 DEF GainsNoTime, Unsettled, TimeLeft
<1> QED
  BY <1>1, <1>4 DEF TypeOK

LEMMA TerminateInTime ==
  ASSUME PodAssumption, TypeOK, NEW p \in Pods, Terminate(p)
  PROVE  /\ GainsNoTime(p)
         /\ \A q \in Pods \ {p} : /\ phase'[q] = phase[q]
                                  /\ startup'[q] = startup[q]
                                  /\ grace'[q] = grace[q]
<1>1. CASE Die(p)
  BY <1>1, EndSettles DEF Die
<1>2. CASE ~Die(p)
  <2>1. /\ phase[p] \in Up
        /\ phase' = [phase EXCEPT ![p] = "draining"]
        /\ startup' = [startup EXCEPT ![p] = 0]
        /\ grace' = [grace EXCEPT ![p] = Grace]
    BY <1>2 DEF Terminate
  <2>2. phase'[p] = "draining" /\ grace'[p] = Grace
    BY <2>1 DEF TypeOK
  <2>3. /\ startup[p] \in Nat /\ StartupLimit \in Nat /\ Grace \in Nat
        /\ phase[p] \notin Stopping /\ "draining" \in Stopping
    BY <2>1 DEF TypeOK, PodAssumption, Up, Stopping
  <2>4. GainsNoTime(p)
    BY <2>2, <2>3 DEF GainsNoTime, TimeLeft
  <2> QED
    BY <2>1, <2>4 DEF TypeOK
<1> QED
  BY <1>1, <1>2

LEMMA ProcessInTime ==
  ASSUME PodAssumption, TypeOK, NEW p \in Pods, Process(p)
  PROVE  \A q \in Pods : GainsNoTime(q)
<1> SUFFICES \/ /\ GainsNoTime(p)
                /\ \A q \in Pods \ {p} : /\ phase'[q] = phase[q]
                                         /\ startup'[q] = startup[q]
                                         /\ grace'[q] = grace[q]
             \/ UNCHANGED <<phase, startup, grace>>
  BY TimersKept
<1>1. CASE Start(p)
  BY <1>1, StartInTime
<1>2. CASE Connect(p) \/ Lock(p) \/ Check(p) \/ Listen(p)
  <2>1. PICK next \in Phases, limit \in {0, MigrationBudget, budget[p]} :
          /\ Enter(p, next, limit)
          /\ startup' \in {startup, [startup EXCEPT ![p] = 0]}
          /\ phase[p] \in Starting
          /\ next \in Starting \cup Up
    <3>1. CASE Connect(p)
      BY <3>1 DEF Connect, Phases, Starting
    <3>2. CASE Lock(p)
      BY <3>2 DEF Lock, Phases, Starting, Migrating
    <3>3. CASE Check(p)
      <4>1. /\ phase[p] \in Starting /\ startup' = startup
            /\ {"migrating", "listening"} \subseteq Phases \cap Starting
        BY <3>3 DEF Check, Phases, Starting, Migrating
      <4>2. \/ Enter(p, "migrating", budget[p])
            \/ Enter(p, "listening", 0)
        BY <3>3 DEF Check
      <4> QED
        BY <4>1, <4>2
    <3>4. CASE Listen(p)
      <4>1. phase[p] \in Starting /\ Up \subseteq Phases
        BY <3>4 DEF Listen, Phases, Starting
      <4>2. \E next \in Up : /\ Enter(p, next, 0)
                             /\ startup' \in {startup, [startup EXCEPT ![p] = 0]}
        BY <3>4 DEF Listen, Up
      <4> QED
        BY <4>1, <4>2
    <3> QED
      BY <1>2, <3>1, <3>2, <3>3, <3>4
  <2>2. Unsettled(p) /\ phase[p] \notin Stopping /\ next \notin Stopping
    BY <2>1 DEF Unsettled, Starting, Migrating, Up, Stopping
  <2> QED
    BY <2>1, <2>2, GoOnKeepsTime
<1>3. CASE Apply(p)
  <2>1. CASE End(p)
    BY <2>1, EndSettles
  <2>2. CASE ~End(p)
    <3>1. Enter(p, "listening", 0) /\ startup' = startup /\ phase[p] = "migrating"
      BY <1>3, <2>2 DEF Apply
    <3>2. Unsettled(p) /\ phase[p] \notin Stopping /\ "listening" \notin Stopping
      BY <3>1 DEF Unsettled, Stopping
    <3> QED
      BY <3>1, <3>2, GoOnKeepsTime
  <2> QED
    BY <2>1, <2>2
<1>4. CASE GhostApplies(p) \/ GhostEnds(p)
  BY <1>4 DEF GhostApplies, GhostEnds
<1>5. CASE Stop(p) \/ ProbeFails(p)
  BY <1>5, TerminateInTime DEF Stop, ProbeFails
<1>6. CASE DrainApi(p) \/ DrainMetrics(p) \/ CloseCache(p)
  <2>1. PICK next \in Stopping, limit \in {0, MetricsLimit} :
          /\ Enter(p, next, limit)
          /\ startup' = startup
          /\ phase[p] \in Stopping
    BY <1>6 DEF DrainApi, DrainMetrics, CloseCache, Stopping
  <2>2. Unsettled(p)
    BY <2>1 DEF Unsettled, Stopping
  <2> QED
    BY <2>1, <2>2, GoOnKeepsTime
<1>7. CASE \/ FailToStart(p) \/ MigrationTimesOut(p)
           \/ Exit(p) \/ Sigkill(p) \/ Crash(p)
  BY <1>7, EndSettles
     DEF FailToStart, MigrationTimesOut, Exit, Sigkill, Crash, Die
<1> QED
  BY <1>1, <1>2, <1>3, <1>4, <1>5, <1>6, <1>7 DEF Process

\* An unsettled pod always has a timer that runs, so that no tick is free.
LEMMA TickTakesTime ==
  ASSUME PodAssumption, TypeOK, Tick, NEW p \in Pods, Unsettled(p)
  PROVE  TimeLeft(p)' < TimeLeft(p)
<1>1. /\ phase'[p] = phase[p]
      /\ startup'[p] = Less(startup[p]) /\ startup[p] \in Nat
      /\ grace'[p] = Less(grace[p]) /\ grace[p] \in Nat
      /\ Grace \in Nat
  BY DEF Tick, TypeOK, PodAssumption
<1>2. OnTime(p)
  BY DEF Tick
<1>3. CASE phase[p] \in Stopping
  <2>1. grace[p] # 0
    BY <1>2, <1>3 DEF OnTime
  <2> QED
    BY <1>1, <1>3, <2>1 DEF TimeLeft, Less
<1>4. CASE phase[p] \notin Stopping
  <2>1. phase[p] \in Starting \cup {"unserved"}
    BY <1>4 DEF TypeOK, Phases, Unsettled, Up
  <2>2. startup[p] # 0
    BY <1>2, <2>1 DEF OnTime
  <2> QED
    BY <1>1, <1>4, <2>2 DEF TimeLeft, Less
<1> QED
  BY <1>3, <1>4

(***************************************************************************)
(* A pod that is neither serving nor off has at most StartupLimit + Grace  *)
(* to become one or the other, for any budgets, and nothing gives it more  *)
(* (main.go): the part of EveryPodSettles that needs no fairness.          *)
(***************************************************************************)
THEOREM PodsSettleInTime == Spec => SettlesInTime
<1> DEFINE Timely(p) ==
      Unsettled(p)' =>
        IF Unsettled(p)
          THEN /\ TimeLeft(p)' <= TimeLeft(p)
               /\ Tick => TimeLeft(p)' < TimeLeft(p)
          ELSE TimeLeft(p)' <= StartupLimit + Grace
<1>1. ASSUME TypeOK, TypeOK', [Next]_vars
      PROVE  [\A p \in Pods : Timely(p)]_vars
  <2> SUFFICES ASSUME ~UNCHANGED vars, NEW p \in Pods
               PROVE  Timely(p)
    OBVIOUS
  <2> USE PodAssumption
  <2>1. CASE Tick
    <3>1. Unsettled(p)' <=> Unsettled(p)
      BY <2>1 DEF Tick, Unsettled
    <3>2. Unsettled(p) => TimeLeft(p)' < TimeLeft(p)
      BY <1>1, <2>1, TickTakesTime
    <3>3. TimeLeft(p) \in Int /\ TimeLeft(p)' \in Int
      BY <1>1 DEF TypeOK, TimeLeft, PodAssumption
    <3> QED
      BY <3>1, <3>2, <3>3
  <2>2. CASE ~Tick
    <3>1. CASE \E q \in Pods : Process(q)
      BY <1>1, <2>2, <3>1, ProcessInTime DEF GainsNoTime
    <3>2. CASE \E q \in Pods, c \in Clients : Serve(q, c)
      <4>1. UNCHANGED <<phase, startup, grace>>
        BY <3>2 DEF Serve, Accept, Handle, Begin, Commit, Answer, Advance, SetRequest
      <4> QED
        BY <1>1, <2>2, <4>1, TimersKept DEF GainsNoTime
    <3> QED
      BY <1>1, <2>2, <3>1, <3>2 DEF Next
  <2> QED
    BY <2>1, <2>2
<1> QED
  BY <1>1, TypeCorrect, PTL DEF Spec, SettlesInTime
=============================================================================
