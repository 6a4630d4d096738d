------------------------------ MODULE PodLifecycle ------------------------------
(***************************************************************************)
(* The life of the pods of one deployment, from main() to the end of its   *)
(* deferred calls: they share the database, whose migration each of them   *)
(* runs under one advisory lock, and each serves requests until it is told *)
(* to stop.                                                                *)
(*                                                                         *)
(* A pod is a replica: a process that ended is started again.  Time is a   *)
(* clock that all timers share; Tick brings every budget one unit nearer   *)
(* to its end, and waits for what a spent budget forces: a deadline is     *)
(* enforced as soon as it has passed.                                      *)
(*                                                                         *)
(* External, as this code uses them: the migration runner of               *)
(* platform-pgcommon (one session that locks, reads the schema version,    *)
(* migrates and unlocks), net/http, the kubelet and its probes.            *)
(***************************************************************************)
EXTENDS Integers

CONSTANTS
  Pods,           \* replicas
  Clients,        \* callers, each with at most one request in flight
  None,           \* no request
  Environments,   \* the configurations the deployment may have
  MigrationLimit, \* the deadline of RunMigrations
  StartupLimit,   \* the kubelet's startup probe gives up after it
  ReadLimit,      \* http.Server.ReadTimeout
  RequestLimit,   \* gincommon.TimeoutMiddleware
  DrainLimit,     \* the budget of srv.Shutdown
  MetricsLimit,   \* the budget of metricsServer.Shutdown
  Grace           \* terminationGracePeriodSeconds

\* What main reads of its environment variables; "pgVars" are PG_USER and
\* PG_DBNAME, "pgTls" is an SSL mode that never falls back to plaintext.
Environment == [valkey: {"unset", "plain", "tls"}, strict: BOOLEAN,
                databaseUrl: BOOLEAN, pgVars: BOOLEAN, pgTls: BOOLEAN,
                migrationUrl: BOOLEAN, bouncer: BOOLEAN]

ASSUME PodAssumption ==
  /\ Environments \subseteq Environment
  /\ MigrationLimit \in Nat \ {0} /\ StartupLimit \in Nat
  /\ MigrationLimit < StartupLimit
  /\ ReadLimit \in Nat \ {0} /\ RequestLimit \in Nat \ {0}
  /\ DrainLimit \in Nat /\ MetricsLimit \in Nat \ {0} /\ Grace \in Nat
  /\ RequestLimit <= DrainLimit /\ DrainLimit < Grace

VARIABLES
  env,      \* the configuration of the deployment
  phase,    \* where main() of each pod is
  budget,   \* time left for the step of main() that has a deadline
  startup,  \* time left until the startup probe gives up
  grace,    \* time left between SIGTERM and SIGKILL
  slow,     \* history: connecting left too little time for the migration
  ghost,    \* the session of a dead process that PostgreSQL still runs
  applied,  \* how often the migration was begun: 2 for a second time
  requests  \* the request of each client, and the pod that has it

vars == <<env, phase, budget, startup, grace, slow, ghost, applied, requests>>

starts == <<slow, ghost, applied>>

-----------------------------------------------------------------------------
Migrating == {"checking", "migrating"}   \* the phases that hold the lock

\* Before signal.Notify: SIGTERM ends the process at once.
Starting == {"connecting", "queued", "listening"} \cup Migrating

\* "unserved" is a main() that waits for a signal although the listener failed.
Up == {"serving", "unserved"}

Stopping == {"draining", "drainingMetrics", "flushing", "closing"}

Phases == {"off"} \cup Starting \cup Up \cup Stopping

\* "late": its headers were complete only after the signal.
Request == [pod: Pods, stage: {"reading", "handling", "transaction", "committed"},
            left: Nat, late: BOOLEAN]

\* validateRequiredEnv and validatePostgresConfig panic.
Refused(e) ==
  \/ e.valkey = "unset"
  \/ ~e.migrationUrl /\ e.bouncer /\ ~e.databaseUrl
  \/ e.strict /\ e.valkey = "plain"
  \/ ~e.databaseUrl /\ ~e.pgVars
  \/ e.strict /\ ~e.pgTls

\* DSNFromEnv: where the sessions of the pool end.
PoolSession(e) == IF e.bouncer THEN "pooled" ELSE "direct"

\* Mutant of MigrationSession: migrations use the DSN of the pool.
MigrationSessionOfPool(e) == PoolSession(e)

\* MigrationDSNFromEnv: where the session of the migration ends.
MigrationSession(e) == IF e.migrationUrl THEN "direct" ELSE PoolSession(e)

LockFree == \A p \in Pods : phase[p] \notin Migrating /\ ghost[p] = "none"

\* The lock belongs to a session.  Behind a pooler in transaction mode it
\* does not exclude another pod, which may be given the same session.
MayLock == MigrationSession(env) = "direct" => LockFree

\* Mutant of MigrationBudget: the deadline is set for the whole startup.
MigrationBudgetLong == StartupLimit

MigrationBudget == MigrationLimit

Less(n) == IF n = 0 THEN 0 ELSE n - 1

\* A session lives on in PostgreSQL when its process dies in the migration.
Leaves(p) == ghost' = [ghost EXCEPT ![p] = IF phase[p] \in Migrating
                                             THEN phase[p] ELSE ghost[p]]

\* The requests in flight at p.
At(p) == {c \in Clients : requests[c] # None /\ requests[c].pod = p}

\* The process of p is gone, with its timers and its requests.
End(p) ==
  /\ phase' = [phase EXCEPT ![p] = "off"]
  /\ budget' = [budget EXCEPT ![p] = 0]
  /\ startup' = [startup EXCEPT ![p] = 0]
  /\ grace' = [grace EXCEPT ![p] = 0]
  /\ slow' = [slow EXCEPT ![p] = FALSE]
  /\ requests' = [c \in Clients |-> IF c \in At(p) THEN None ELSE requests[c]]
  /\ UNCHANGED env

Die(p) == End(p) /\ Leaves(p) /\ UNCHANGED applied

\* main() of p moves on to a phase with its budget.
Enter(p, next, limit) ==
  /\ phase' = [phase EXCEPT ![p] = next]
  /\ budget' = [budget EXCEPT ![p] = limit]
  /\ UNCHANGED <<env, grace, requests>>

-----------------------------------------------------------------------------
Init ==
  /\ env \in Environments
  /\ phase = [p \in Pods |-> "off"]
  /\ budget = [p \in Pods |-> 0]
  /\ startup = [p \in Pods |-> 0]
  /\ grace = [p \in Pods |-> 0]
  /\ slow = [p \in Pods |-> FALSE]
  /\ ghost = [p \in Pods |-> "none"]
  /\ applied = 0
  /\ requests = [c \in Clients |-> None]

\* The container starts; a configuration that is refused ends it in a panic,
\* and it is off again.
Start(p) ==
  /\ phase[p] = "off"
  /\ ~Refused(env)
  /\ Enter(p, "connecting", 0)
  /\ startup' = [startup EXCEPT ![p] = StartupLimit]
  /\ UNCHANGED starts

\* NewPool on context.Background(): it may take as long as it likes.  Then
\* migrationCtx starts.
Connect(p) ==
  /\ phase[p] = "connecting"
  /\ Enter(p, "queued", MigrationBudget)
  /\ slow' = [slow EXCEPT ![p] = startup[p] <= MigrationLimit]
  /\ UNCHANGED <<startup, ghost, applied>>

\* The runner is given the advisory lock ...
Lock(p) ==
  /\ phase[p] = "queued"
  /\ MayLock
  /\ Enter(p, "checking", budget[p])
  /\ UNCHANGED <<startup, starts>>

\* Mutant of Check: the migration is left to run in the background.
CheckOnly(p) ==
  /\ phase[p] = "checking"
  /\ Enter(p, "listening", 0)
  /\ UNCHANGED <<startup, starts>>

\* ... finds the schema applied, and unlocks, or has to migrate ...
Check(p) ==
  /\ phase[p] = "checking"
  /\ IF applied = 0 THEN Enter(p, "migrating", budget[p])
                    ELSE Enter(p, "listening", 0)
  /\ UNCHANGED <<startup, starts>>

\* ... and commits the migration.  It is not idempotent: a second CREATE TYPE
\* fails, and main panics.
Apply(p) ==
  /\ phase[p] = "migrating"
  /\ IF applied = 0
       THEN /\ Enter(p, "listening", 0)
            /\ applied' = 1
            /\ UNCHANGED <<startup, slow, ghost>>
       ELSE /\ End(p)
            /\ applied' = 2
            /\ UNCHANGED ghost

\* NewPool or the runner fails, its session is closed, and main panics.
FailToStart(p) ==
  /\ phase[p] \in Starting \ {"listening"}
  /\ End(p)
  /\ UNCHANGED <<ghost, applied>>

\* migrationCtx expires.  The session may still run what it was sent.
MigrationTimesOut(p) ==
  /\ phase[p] \in {"queued"} \cup Migrating
  /\ budget[p] = 0
  /\ Die(p)

\* The session of a dead process commits the migration it was running ...
GhostApplies(p) ==
  /\ ghost[p] = "migrating"
  /\ applied' = IF applied = 0 THEN 1 ELSE 2
  /\ ghost' = [ghost EXCEPT ![p] = "none"]
  /\ UNCHANGED <<env, phase, budget, startup, grace, slow, requests>>

\* ... or PostgreSQL notices, and rolls it back.
GhostEnds(p) ==
  /\ ghost[p] # "none"
  /\ ghost' = [ghost EXCEPT ![p] = "none"]
  /\ UNCHANGED <<env, phase, budget, startup, grace, slow, applied, requests>>

\* ListenAndServe in a goroutine: its error is logged and main waits on.  The
\* error of a listener that has served before is left out.
Listen(p) ==
  /\ phase[p] = "listening"
  /\ \/ /\ Enter(p, "serving", 0)
        /\ startup' = [startup EXCEPT ![p] = 0]
     \/ /\ Enter(p, "unserved", 0)
        /\ UNCHANGED startup
  /\ UNCHANGED starts

-----------------------------------------------------------------------------
\* SIGTERM.
Terminate(p) ==
  \/ /\ phase[p] \in Starting
     /\ Die(p)
  \/ /\ phase[p] \in Up
     /\ phase' = [phase EXCEPT ![p] = "draining"]
     /\ budget' = [budget EXCEPT ![p] = DrainLimit]
     /\ startup' = [startup EXCEPT ![p] = 0]
     /\ grace' = [grace EXCEPT ![p] = Grace]
     /\ UNCHANGED <<env, requests>>
     /\ UNCHANGED starts

\* A rollout, a drained node, a smaller replica count.
Stop(p) == Terminate(p)

\* Mutant of ProbeFails: a pod whose migrations are done counts as started.
ProbeFailsEarly(p) ==
  /\ phase[p] \in Starting
  /\ startup[p] = 0
  /\ Terminate(p)

\* The startup probe has not reached /healthz in time.
ProbeFails(p) ==
  /\ phase[p] \in Starting \cup {"unserved"}
  /\ startup[p] = 0
  /\ Terminate(p)

\* Mutant of Drained: srv.Close() instead of srv.Shutdown().
DrainedAtOnce(p) == TRUE

\* srv.Shutdown returns: nothing is in flight, or its budget is spent.
Drained(p) == At(p) = {} \/ budget[p] = 0

DrainApi(p) ==
  /\ phase[p] = "draining"
  /\ Drained(p)
  /\ Enter(p, "drainingMetrics", MetricsLimit)
  /\ UNCHANGED <<startup, starts>>

\* metricsServer.Shutdown returns: the scrape ended, or its budget is spent.
DrainMetrics(p) ==
  /\ phase[p] = "drainingMetrics"
  /\ Enter(p, "flushing", 0)
  /\ UNCHANGED <<startup, starts>>

\* Traces and logs are flushed, main returns; the deferred calls close the
\* cache first ...
CloseCache(p) ==
  /\ phase[p] = "flushing"
  /\ Enter(p, "closing", 0)
  /\ UNCHANGED <<startup, starts>>

\* ... and then the pool, which waits for the connections in use.
Exit(p) ==
  /\ phase[p] = "closing"
  /\ \A c \in At(p) : requests[c].stage # "transaction"
  /\ Die(p)

Sigkill(p) ==
  /\ phase[p] \in Stopping
  /\ grace[p] = 0
  /\ Die(p)

\* The pod is lost: out of memory, a failed node, a panic in a goroutine.
Crash(p) ==
  /\ phase[p] # "off"
  /\ Die(p)

-----------------------------------------------------------------------------
SetRequest(c, r) ==
  /\ requests' = [requests EXCEPT ![c] = r]
  /\ UNCHANGED <<env, phase, budget, startup, grace, slow, ghost, applied>>

\* The first byte of a request: its headers have ReadLimit to arrive.
Accept(p, c) ==
  /\ phase[p] = "serving"
  /\ requests[c] = None
  /\ SetRequest(c, [pod |-> p, stage |-> "reading", left |-> ReadLimit,
                    late |-> FALSE])

\* The handler chain starts: TimeoutMiddleware.  srv.Shutdown lets a
\* connection that is reading its request go on.
Handle(p, c) ==
  /\ c \in At(p)
  /\ requests[c].stage = "reading"
  /\ SetRequest(c, [pod |-> p, stage |-> "handling", left |-> RequestLimit,
                    late |-> phase[p] # "serving"])

Advance(p, c, from, to) ==
  /\ c \in At(p)
  /\ requests[c].stage = from
  /\ SetRequest(c, [requests[c] EXCEPT !.stage = to])

\* A connection of the pool; a closing pool gives none.
Begin(p, c) == phase[p] # "closing" /\ Advance(p, c, "handling", "transaction")

Commit(p, c) == Advance(p, c, "transaction", "committed")

\* The request is answered or given up, after its DEL if it committed; with
\* the cache closed that DEL fails and the catalog's key stays.
Answer(p, c) == c \in At(p) /\ SetRequest(c, None)

\* ReadTimeout, or the deadline of TimeoutMiddleware.
TimeUp(p, c) == c \in At(p) /\ requests[c].left = 0 /\ SetRequest(c, None)

\* What a spent budget forces, and the end of a drain nothing holds up.
Deadline(p) ==
  \/ MigrationTimesOut(p) \/ ProbeFails(p) \/ Sigkill(p) \/ DrainApi(p)
  \/ budget[p] = 0 /\ DrainMetrics(p)
  \/ \E c \in Clients : TimeUp(p, c)

\* Mutant of OnTime: the startup probe asks the listener of the metrics, which
\* answers in a pod whose API does not.
OnTimeEarly(p) ==
  /\ phase[p] \in {"queued", "drainingMetrics"} \cup Migrating => budget[p] # 0
  /\ phase[p] = "draining" => ~Drained(p)
  /\ phase[p] \in Starting => startup[p] # 0
  /\ phase[p] \in Stopping => grace[p] # 0
  /\ \A c \in At(p) : requests[c].left # 0

\* Nothing is overdue.
OnTime(p) ==
  /\ phase[p] \in {"queued", "drainingMetrics"} \cup Migrating => budget[p] # 0
  /\ phase[p] = "draining" => ~Drained(p)
  /\ phase[p] \in Starting \cup {"unserved"} => startup[p] # 0
  /\ phase[p] \in Stopping => grace[p] # 0
  /\ \A c \in At(p) : requests[c].left # 0

Tick ==
  /\ \A p \in Pods : OnTime(p)
  /\ budget' = [p \in Pods |-> Less(budget[p])]
  /\ startup' = [p \in Pods |-> Less(startup[p])]
  /\ grace' = [p \in Pods |-> Less(grace[p])]
  /\ requests' = [c \in Clients |->
                    IF requests[c] = None THEN None
                    ELSE [requests[c] EXCEPT !.left = Less(@)]]
  /\ UNCHANGED <<env, phase, slow, ghost, applied>>

Process(p) ==
  \/ Start(p) \/ Connect(p) \/ Lock(p) \/ Check(p) \/ Apply(p) \/ Listen(p)
  \/ FailToStart(p) \/ MigrationTimesOut(p) \/ GhostApplies(p) \/ GhostEnds(p)
  \/ Stop(p) \/ ProbeFails(p) \/ DrainApi(p) \/ DrainMetrics(p)
  \/ CloseCache(p) \/ Exit(p) \/ Sigkill(p) \/ Crash(p)

Serve(p, c) ==
  Accept(p, c) \/ Handle(p, c) \/ Begin(p, c) \/ Commit(p, c) \/ Answer(p, c)

Next ==
  \/ \E p \in Pods : Process(p) \/ \E c \in Clients : Serve(p, c)
  \/ Tick

\* Only time and what it forces: no step of main(), of PostgreSQL or of a
\* caller is assumed to happen.  SF: time passes however fast pods restart.
Fairness == SF_vars(Tick) /\ \A p \in Pods : WF_vars(Deadline(p))

Spec == Init /\ [][Next]_vars

FairSpec == Spec /\ Fairness

-----------------------------------------------------------------------------
TypeOK ==
  /\ env \in Environments
  /\ phase \in [Pods -> Phases]
  /\ budget \in [Pods -> Nat]
  /\ startup \in [Pods -> Nat]
  /\ grace \in [Pods -> Nat]
  /\ slow \in [Pods -> BOOLEAN]
  /\ ghost \in [Pods -> {"none"} \cup Migrating]
  /\ applied \in 0..2
  /\ requests \in [Clients -> Request \cup {None}]

\* What db.go asks of a deployment: MIGRATION_DATABASE_URL must be set
\* whenever PG_BOUNCER_MODE=true.
Documented == env.bouncer => env.migrationUrl

(***************************************************************************)
(* The migration, which cannot be repeated, is begun once, whichever pods  *)
(* start together, die while they hold the lock or leave a session behind  *)
(* that commits later (RunMigrations, MigrationDSNFromEnv).                *)
(***************************************************************************)
AppliedOnce == Documented => applied <= 1

(***************************************************************************)
(* A pod that waits for a wedged migration lock ends by its own deadline,  *)
(* with a log line, before the startup probe kills it, unless connecting   *)
(* to PostgreSQL had used up the difference (main.go: migrationCtx).       *)
(***************************************************************************)
WedgedLockReported ==
  \A p \in Pods :
    phase[p] \in {"queued"} \cup Migrating /\ startup[p] = 0 => slow[p]

\* The requests at p whose handlers had started when the signal came.
Started(p) == {c \in At(p) : requests[c].stage # "reading" /\ ~requests[c].late}

(***************************************************************************)
(* A request whose handler had started when SIGTERM came is not cut short: *)
(* the drain outlasts its deadline, the kubelet does not kill a draining   *)
(* pod, and when the cache and the pool are closed such a request is over, *)
(* or at its deadline (main.go: the shutdown order and its budgets).       *)
(***************************************************************************)
StartedRequestsAnswered ==
  \A p \in Pods :
    /\ phase[p] = "draining" => grace[p] > 0
    /\ phase[p] \in Stopping \ {"draining"} =>
         \A c \in Started(p) : requests[c].left = 0

-----------------------------------------------------------------------------
(* The invariant that is preserved step by step, in five parts.            *)

\* Whoever holds the lock, a pod or a session left behind, holds it alone.
LockInv ==
  Documented =>
    /\ applied <= 1
    /\ \A p, q \in Pods :
         /\ phase[p] \in Migrating /\ phase[q] \in Migrating => p = q
         /\ ghost[p] # "none" /\ ghost[q] # "none" => p = q
         /\ phase[p] \in Migrating => ghost[q] = "none"
    /\ \A p \in Pods : "migrating" \in {phase[p], ghost[p]} => applied = 0

\* Nothing is served before the migration was applied.
SchemaInv ==
  \A p \in Pods :
    phase[p] \in {"listening"} \cup Up \cup Stopping => applied # 0

StartupInv ==
  \A p \in Pods :
    phase[p] \in {"queued"} \cup Migrating => slow[p] \/ budget[p] < startup[p]

\* A drain leaves room for the requests it found, and for itself.
DrainInv ==
  \A p \in Pods :
    phase[p] = "draining" =>
      /\ budget[p] < grace[p]
      /\ \A c \in Started(p) : requests[c].left <= budget[p]

RequestInv ==
  \A p \in Pods :
    /\ phase[p] \notin {"serving"} \cup Stopping => At(p) = {}
    /\ \A c \in Started(p) : requests[c].left <= RequestLimit

(***************************************************************************)
(* The inductive invariant: the order of startup and shutdown, and the     *)
(* timers that bound one another.                                          *)
(***************************************************************************)
IInv ==
  /\ TypeOK
  /\ LockInv /\ SchemaInv /\ StartupInv /\ DrainInv /\ RequestInv
  /\ StartedRequestsAnswered

-----------------------------------------------------------------------------
(***************************************************************************)
(* No pod is stuck: whatever hangs (PostgreSQL, the lock of a dead pod, a  *)
(* listener that failed, a scrape, a flush, the pool), a pod is serving or *)
(* has ended, and is started again, some time later (main.go: a failed     *)
(* ListenAndServe is only logged).                                         *)
(***************************************************************************)
EveryPodSettles ==
  \A p \in Pods : phase[p] \notin {"serving", "off"}
                    ~> phase[p] \in {"serving", "off"}

\* Neither serving nor off.
Unsettled(p) == phase[p] \notin {"serving", "off"}

\* The longest that p may stay unsettled.
TimeLeft(p) == IF phase[p] \in Stopping THEN grace[p] ELSE startup[p] + Grace

(***************************************************************************)
(* How long that takes at most: a pod that begins to start or to stop has  *)
(* StartupLimit + Grace; nothing that happens to it later gives it more,   *)
(* no unit of time goes by without taking one of it, and so a pod that     *)
(* cannot listen, or is stopped halfway through its startup, is no         *)
(* exception (main.go: the order of startup and shutdown).                 *)
(***************************************************************************)
SettlesInTime ==
  [][\A p \in Pods : Unsettled(p)' =>
       IF Unsettled(p)
         THEN /\ TimeLeft(p)' <= TimeLeft(p)
              /\ Tick => TimeLeft(p)' < TimeLeft(p)
         ELSE TimeLeft(p)' <= StartupLimit + Grace]_vars

(***************************************************************************)
(* What the chart says of terminationGracePeriodSeconds: "30s HTTP drain   *)
(* (main.go's shutdown timeout) + 15s buffer", that is, the servers of a   *)
(* pod that is told to stop have shut down before SIGKILL.                 *)
(***************************************************************************)
DrainsWithinGrace ==
  \A p \in Pods : phase[p] \in {"draining", "drainingMetrics"} => grace[p] > 0
=============================================================================
