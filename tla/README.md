# A formal model of iam-catalog-admin

The service keeps two small catalogs, departments and plan tiers, in PostgreSQL, serves
them to the other IAM services through a Valkey cache, and lets platform operators edit
them. Several replicas run the same code; nothing is shared between them but the database
and the cache. This directory holds TLA+ modules of its core, TLC configurations that
check them, and TLAPS proofs that hold for every size of the constants.

## Inventory

| component | source | state | operations | what is hard | what makes it correct |
|---|---|---|---|---|---|
| departments table and repository | `internal/adapter/outbound/postgres/department_repository.go`, `db.go`, the migration | rows with `record_version`; open transactions and their locks | FindByID, List, Insert, Update (UPDATE, then a probe) | row-lock waits, two statements in one READ COMMITTED transaction, commits whose outcome is unknown, retries, triggers and CHECKs in one UPDATE | no lost update, immutable columns stay, codes unique, answers that tell the truth, every request answered |
| catalog list cache | `internal/core/service/*_service.go`, `internal/adapter/outbound/valkey/cache.go` | one key per catalog with a TTL; snapshots held by requests | GET, SELECT, SET; COMMIT, DEL | no lock orders a SET after a DEL; every command may fail, be lost or arrive late; a pod may die between COMMIT and DEL | bounded staleness, a reason for every missed write, healing |
| department service | `internal/core/service/department_service.go` | none | List, Get, Create, Patch, DeleteBlocked | order of validation, commit and invalidation | refusals change nothing; every committed write invalidates |
| plan service and repository | `plan_service.go`, `plan_repository.go` | three rows | List, GetByCode, Patch | absent, null and numeric limits; replaced feature_set; int4 columns | as departments, and limits mean what the caller sent |
| HTTP handlers | `internal/adapter/inbound/http/*_handler.go`, `dto.go` | none | CAT-1..7, CAT-I1, CAT-I2 | 422 for immutable fields the DTO would drop | one answer per request, the right status |
| request pipeline | `middleware.go`, `router.go` | the response under construction | probes, body cap, deadline, recovery, identity, roles, error normalisation | order of registration, a panic or a timeout inside a buffered writer | no handler runs unauthorised, one response is written |
| metrics | `internal/adapter/outbound/metrics/metrics.go` | counters | Inc | counted in two layers, before the commit | a counter equals what it names |
| pod lifecycle | `cmd/catalog-admin-config/main.go`, `migrate.go` | phase of the process, servers, pool | start, migrate, serve, drain, stop | the migration lock of a dead pod, two drain budgets, deferred closes, a failed listener | the migration runs once; a started request is not cut short; a pod that does not serve ends |
| API docs, Helm charts, dashboards | `swagger_*.go`, `deploy/` | none | static content | — | not modelled: no state |

Interaction: a request passes the pipeline, reaches a handler, then a service; the service
calls the repository, which opens one transaction per call, and the cache, whose errors it
drops. A write invalidates its catalog's key after its commit. Readers of the list go to
the cache first; `GET /departments/:id` and `GET /plans/:code` never do. Other services
poll `/internal/*` and keep caches of their own, outside this repository.

The hazards of each part, at their lines, are listed in `PROJECT.json`.

Coverage. Modelled with all their state-changing operations: the departments table and
repository, the department service, the plan service and repository, the list cache, the
HTTP handlers (their checks and answers). In part: the request pipeline (without the docs
routes), the pod lifecycle (without a listener that fails after it has served) and the
metrics (without cache hits and misses and the duration histogram).

## Modules

| module | what it is |
|---|---|
| `DepartmentStore` | the departments table under interleaved transactions, one action per SQL statement, COMMIT and failure |
| `DepartmentRegister` | its abstract specification: atomic, versioned rows |
| `AtomicDepartments` | what the endpoints promise each caller: every request happens at the instant of its answer, or not at all |
| `DepartmentStoreProofs` | inductive invariant, safety theorems and refinement of the register, for TLAPS |
| `DepartmentAtomicityProofs` | the refinement of `AtomicDepartments`, for TLAPS |
| `MCDepartmentStore` | the model-checking instance |
| `CatalogCache` | the read-through cache of one list, with a countdown clock |
| `BoundedStaleCatalog` | its abstract specification: a served version is current or recently superseded |
| `CatalogCacheProofs` | inductive invariant, safety theorems and refinement, for TLAPS |
| `MCCatalogCache` | the model-checking instance |
| `CatalogService` | `DepartmentStore` behind the cache of its list: what lists show, and edits made from them |
| `CatalogApi` | its abstract specification: `AtomicDepartments` with lists from the table's past |
| `CatalogServiceProofs` | inductive invariant, safety theorems and refinement of the composition, for TLAPS |
| `MCCatalogService` | the model-checking instance |
| `PlanStore` | the plans table and CAT-4, CAT-5: three readings of a PATCH body, then a transaction |
| `AtomicPlans` | its abstract specification: a body is sound or not, and a sound PATCH happens at one instant |
| `PlanStoreProofs` | inductive invariant, safety theorems, validation and refinement, for TLAPS |
| `MCPlanStore` | the model-checking instance: the seeded plans and the bodies callers send |
| `WriteMetrics` | `PlanStore` with the counters of one pod |
| `WriteMetricsProofs` | what the counters add up to, and that they disturb nothing, for TLAPS |
| `MCWriteMetrics` | the model-checking instance |
| `RequestPipeline` | one request's way through the middleware chain to a handler and back |
| `RequestPipelineProofs` | inductive invariant and safety theorems, for TLAPS |
| `MCRequestPipeline` | the model-checking instance |
| `PodLifecycle` | the pods of one deployment from `main()` to their end, with their requests |
| `PodLifecycleProofs` | inductive invariant and safety theorems, for TLAPS |
| `MCPodLifecycle` | the model-checking instance |

Operators introduced as "Mutant of X" are not used by any specification. Each is X with a
bug that could have been written; checking the specification with the mutant in X's place
shows that the property named in `PROJECT.json` notices it.

### DepartmentStore

A client is a request goroutine together with its caller. `pc[c]` is the place of its
transaction: `ready` (validated, transaction opened), `waiting` (blocked in PostgreSQL on
another transaction), `holding` (the statement wrote its row, which stays in `pending[c]`
until the commit), `probing` (the UPDATE matched nothing), `idle`.

| code | actions |
|---|---|
| `DepartmentService.Get`, `FindByID` | `SubmitGet`, `Read`: one SELECT |
| `DepartmentService.Create`, `Insert` | `SubmitCreate` with its validation, `Insert` |
| `DepartmentService.Patch`, `Update` | `SubmitPatch` with its validation, `Update`, `Probe` |
| `touch_row`, the name trigger, `chk_system_department_active` | `Touched`, `NameRule`, `RetireRule`, applied in PostgreSQL's order inside `WriteRow` |
| `withPool`, `wrapConnErr` | `Commit`; `CommitUnacknowledged` (the change is made, the caller gets a 5xx or nothing); `Abort` (it is not) |

PostgreSQL is external and is modelled as this code uses it, under READ COMMITTED: a
statement sees what was committed when it began; an UPDATE that meets a row another open
transaction updated waits, and then matches its WHERE clause again; an INSERT waits for an
open transaction that inserted the same unique key. Five system departments are seeded;
the model has one, which stands for each of them. Blank strings are one value, `Blank`.

`history` and the field `known` of a request are history variables: the committed changes
of each row with the version their request expected, and whether the row and version a
request names had been committed when it arrived.

Properties: `NoLostUpdate`, `ImmutableFieldsKept`, `UniqueCodes` (of the table);
`OkIsCommitted`, `ConflictReportsNewer` (of the answers); `EveryRequestAnswered`
(liveness); `RefinesRegister`, `RequestsAreAtomic` (refinements).

`DepartmentRegister` speaks of the rows only. `AtomicDepartments` speaks of requests and
answers as well: who asked what, which answer is right on which table, and that each
request is answered once. Its actions are CAT-1, CAT-2 and CAT-7 as a caller would describe
them, so `RequestsAreAtomic` is what would be called strict serializability of the
endpoints: the instant at which a request happens lies between its arrival and its answer.
Two answers need a word. A 5xx says nothing: the request happened (`Write`) or did not
(`Lose`). A 409 names the row's version at the instant of the answer, which differs from
the one the caller sent *if that one had been committed when the request arrived*
(`known`): the conflict was found by an earlier statement than the version, and a caller
who invents a version may be told of a conflict with that very version.

### CatalogCache

One module stands for both keys: `DepartmentService.listAllCached` and `PlanService.List`
are the same code on `cat:departments` and `cat:plans`, and no step touches both. The
content of the catalog is its version, the number of committed changes.

| code | actions |
|---|---|
| `Cache.Get` | `Hit`; `Miss` (no key, an error, a blob that does not parse) |
| `repo.List` | `Query`: one SELECT, one snapshot |
| `Cache.Set`, its error dropped | `Fill`; `FillFails`, after which the SET is lost or still on its way; `LateFill` |
| request deadline, cancelled request, dead pod, failed query | `Abandon` |
| a create or PATCH that commits | `Commit`, also of a PATCH that changed nothing |
| `invalidateCache`, `Cache.Delete`, its error dropped | `Delete`, `DeleteFails`; both answer the writer |
| unknown commit outcome, pod dead before the DEL | `WriterLost` |
| Valkey | `Evict`, `Tick` (expiry) |

Time is a countdown. `Tick` brings the expiry of the key and the end of every open read one
unit nearer and makes superseded versions one unit older. `Deadline` is the time between
the first step of a read and the moment its SET reaches Valkey: the 30 s of
`TimeoutMiddleware`, plus the time a command may be on its way. That a command does not
stay on its way for ever is an assumption about the network, expressed by `Tick` waiting
for reads that have run out of time. A hit is dated at the moment Valkey answers.

Properties: `BoundedStaleness`: a list is less than `TTL + Deadline` out of date (not `TTL`,
because a SET may store a list that is already outdated). `StaleReadExplained`: a caller
that does not see an acknowledged write got an entry stored by a read that straddled an
invalidation, or one whose invalidation failed; no third cause exists. `CacheHeals`
(liveness). `KeepsPromise` (refinement).

`WritesVisibleImmediately` is what `CACHE_DESIGN.md` lines 34-37 claim, and the run
`cache_claim` refutes it without any failure of Valkey: a reader misses and takes its
snapshot; a writer commits, deletes the key and is answered; the reader SETs the key with
the list from before; the next read is a hit on the old list, and so are all reads for a
TTL. The test `TestE2E090` (`test/e2e/endpoints_test.go`) checks the claim with one client
at a time, where it holds.

### CatalogService

The composition: the requests of `DepartmentStore` and list requests of any replica meet in
one table and one key. Here a list is what it shows, row by row, and not a version, and the
key may expire at any moment; how long it lasts is `CatalogCache`'s question.

| code | actions |
|---|---|
| `DepartmentService.Get`, `Create`, `Patch` up to the repository | `Ask` |
| the repository, up to a refusal, a failure or an unknown commit | `Work` |
| a commit the service is told of | `Write`, after which it owes the DEL |
| `invalidateCache`, or a pod that dies before it | `Invalidate` |
| `listAllCached` | `ListHit`, `ListMiss`, `ListQuery`, `ListFill`, `ListFillFails`, `LateFill` |
| deadline, failed query, dead pod | `ListAbandon` |
| the active-only filter of `List` | `Shown` |

`past` is a history variable, the set of states the whole table has been in.

Properties: `ListsAreSnapshots`: every list, stored or answered, is one of these states,
complete or without its inactive rows (the two endpoints share the key, the filter acts on
the answer only). `EditsFromListsAreSafe`: what a list of any age shows still exists, at that
version or a later one, and if the version is the current one then the row is the one that
was shown; so an operator who edits from a stale list gets a 409 whenever the row has moved,
and never a 404. This is what makes the cache harmless to writers, and it rests on
`touch_row` counting every change: a trigger that looked at the name only would break it.
`ImplementsApi`: to its callers the service is `CatalogApi`, that is, departments are as
atomic as without a cache, and a list may be old but is never a mixture of two tables.

### PlanStore

The tiers are the members of an enum and are neither created nor deleted, so a PATCH is the
only write. Its transactions have the same places as those of `DepartmentStore`.

| code | definitions |
|---|---|
| the body of `PlanHandler.Patch`, `parseLimit`, the pointers and maps of `PlanPatch` | `Misshapen`, `Sent`, `Patch` |
| `PlanService.Patch` up to the repository | `Verdict`, in the order of its checks; `SubmitPatch` |
| `PlanService.GetByCode`, `FindByCode` | `Get` |
| encoding of the arguments, `UPDATE ... RETURNING`, `trg_touch_plans`, the CHECKs | `Overflows`, `Update`, `Assigned`, `Touched`, `Checks` |
| the probe of `planUpdateFromTx` | `Probe` |
| `withPool`, `wrapConnErr` | `Commit`, `CommitUnacknowledged`, `Abort` |

A field's value is what the readings tell apart: an integer (with `MaxInt` for the largest
int4), `Null` (JSON null), `Malformed` (another JSON type, a fraction, an int64 overflow),
`Bad` (the right type, refused by validation), `Unlimited` (NULL in a limit column), or one
of the legal values of the field. `Bodies` is the set of PATCH bodies callers send; the
proofs put no other condition on it than that its values can stand in a JSON body.

Properties: `NoLostUpdate`; `OnlySentFieldsChange` (a limit becomes unlimited exactly when
the body says null, null elsewhere changes nothing, no concurrent PATCH leaks into a row);
`ChecksMirrored` (the table's CHECKs never refuse what validation accepted);
`ConflictReportsNewer`, `OkIsCommitted`; `RequestsAreAtomic` (refinement of `AtomicPlans`).

`AtomicPlans` does not know of pointers, raw messages, SET clauses or arguments. A body is
`Sound` when every field it mentions holds a value the field may have, or null, and it asks
for something; what becomes of a plan is `Wanted`, one definition over the body itself.
That the code's readings, field by field and layer by layer, come to the same is what the
refinement adds to the properties above. A number beyond int4 is sound and has an answer of
its own (`out_of_range`, a 5xx): `Fits` says which.

`InvalidValuesAreRefused` is what the comment on `PlanService.Patch` promises, and
`plan_range_claim` refutes it: a limit above the int4 range passes the validation, is
refused by the driver and answered with a 5xx.

### WriteMetrics

The counters live in one pod, are incremented with no lock around them and the transaction,
and start at zero with the pod, so the model is of a pod that does not die. Both the
repository, inside the transaction function, and the handler, with its answer, increment
`writes_total`; the same holds of the conflicts. `CountersExplained` says what the counters
equal for every interleaving. `WritesCountUpdates` is what `metrics.go` documents, and
`write_counters_claim` refutes it with a single PATCH, which is counted twice.

### RequestPipeline

`pc` is the element of the chain that acts next, in the order of registration in
`NewRouter`. Requests share nothing on this way but the counter of requests, so the module
follows one at a time.

| code | actions |
|---|---|
| the body cap in `NewRouter` (router.go) | `BodyCap`, which answers on the wire, above the buffer |
| `TimeoutMiddleware` of platform-gincommon | `Deadline` (external), at any time while the chain below it runs |
| gin's routing, NoMethod | `Dispatch` |
| `ProtectedMiddlewares` of platform-gincommon | `Protect` (external) |
| `IdentityBridgeMiddleware`, `RequireJSONContentType` | `IdentityBridge`, `RequireJSON` |
| `RequireOperatorRole`, `RequireSystemRole` | `GroupGate` |
| `requireOperator`, `requireSystem`, the id and body checks of the handlers | `Handle` |
| a handler's call of its service, `HandleError` | `Serve`: any answer the service can give on that route |
| `/healthz`, `/readyz` | `Probe` |
| a panic in a handler or below it, the recovery of `ObservabilityMiddlewares` | `Panic`, `Recover` |
| `requestMetricsMiddleware` and `NormalizeAuthErrors` after `c.Next()` | `CountRequest`, `Normalize` |

The role is checked in two places. `Layers` names those in force; the code has both, the
theorems hold for any nonempty choice, so either check alone is enough.

Bodies come in seven kinds: none, one that fits, one with an immutable field, one of the
wrong shape, one whose declared length exceeds the cap, and two chunked ones above the cap:
`padded`, whose JSON value is complete before the cap and followed by blanks, and `endless`.

The deadline stands above the buffer, so its answer goes past it; the chain below runs on
and is counted, and what it sends is dropped (`OnWire`). That the first answer stays is
what any HTTP writer does; nothing in the repository fixes the status, so it is a constant
(`DeadlineStatuses`, any error), nor the body, which counts as one without a code. A
deadline that only cancels the request's context is a failure of the service (`Serve`).

`IdentityBridge` leaves out the pass-through for a request without a platform
`RequestContext`: `NewRouter` registers it behind `ProtectedMiddlewares`, which lets no such
request by.

A panic skips everything the middlewares do after `c.Next()`, since none of it is deferred:
the request is not counted, and the buffer stays installed as `c.Writer`. The recovery is
external; it is assumed to be registered where `NewRouter` says (above
`NormalizeAuthErrors`) and to answer through `c.Writer`, as gin's does. What it writes then
ends in the buffer that nobody empties, and the caller gets an empty 200. The model says so
(`Recover`), and `OnlyPanicsFeignSuccess` says that nothing else does this: a 2xx without a
body of the service means a panic. No document of the repository speaks of the answer to a
panic; of its count they do (see the disagreements at the end).

Properties: `OnlyPermittedServed`, `RefusalRevealsNothing`, `OnlyPanicsFeignSuccess` and two
that are weaker than what the documents say. `CountedAsSent`: every API request whose
handlers return is counted, under the status sent unless the deadline answered first. It
says nothing of a request that the body cap answers or that panics, neither of which the
code counts. `ErrorsAreCoded` is about the errors that this service's own code writes or
passes on: gin's 404 for an unknown path, the 503 of `/readyz` and the deadline's answer are
outside it. `OversizeIsRefused` is what the comment on the
cap says, and `pipeline_oversize_claim` refutes it: an `endless` body is answered 400, because the
handlers do not hand the reader's error to `HandleError`. A `padded` body is served: the
binding stops at the end of the first JSON value and never reads up to the cap. The
property does not ask for more than an unreadable body's 413, of a request that neither
panics nor runs out of time.

### PodLifecycle

The pods of one deployment share the database and its migration lock; `phase[p]` is the
place of `main()` of a pod. A pod is a replica: when its process ends it is started again.

| code | actions |
|---|---|
| `validateRequiredEnv`, `validatePostgresConfig` | `Refused`, the guard of `Start` (a refused start panics and is off again) |
| `DSNFromEnv`, `MigrationDSNFromEnv` | `PoolSession`, `MigrationSession`: direct or through PgBouncer |
| `NewPool` | `Connect`, which then starts `migrationCtx` |
| `RunMigrations` | `Lock`, `Check`, `Apply`; `MigrationTimesOut`; `FailToStart` |
| the two `ListenAndServe` goroutines | `Listen`; a failed API listener leaves the pod `unserved` |
| `<-quit`, `srv.Shutdown`, `metricsServer.Shutdown` | `Terminate`, `DrainApi`, `DrainMetrics` |
| flushing, the deferred `cache.Close` and `pool.Close` | `CloseCache`, `Exit`, which waits for connections in use |
| the kubelet: probe, SIGTERM, SIGKILL; a crash | `ProbeFails`, `Stop`, `Sigkill`, `Crash` |
| a request at the server and in the repository | `Accept`, `Handle`, `Begin`, `Commit`, `Answer`, `TimeUp` |

A process that dies in the migration may leave its session in PostgreSQL (`ghost`), which
still holds the lock and may still commit (`GhostApplies`) or not (`GhostEnds`). Behind a
pooler in transaction mode the lock excludes nobody, and the model lets two pods have it.
`srv.Shutdown` lets a connection go on that has sent part of a request, so a handler may
start during the drain (`late`); such a request may outlive it, and its commit may then find
the cache closed. `db.go` asks that MIGRATION_DATABASE_URL be set with PG_BOUNCER_MODE;
`validateRequiredEnv` lets a deployment with DATABASE_URL through without it, which is why
`AppliedOnce` is about deployments that follow the rule (`Documented`).

Properties: `AppliedOnce`, `WedgedLockReported`, `StartedRequestsAnswered`, and the liveness
`EveryPodSettles`: a pod that is neither serving nor ended does not stay so, whatever hangs.
A pod whose listener failed is ended by nothing but the startup probe. A listener that fails
after it has served is left out, and so is the liveness probe that would end its pod: such
a pod is one that gets no more requests until `Stop`. `SettlesInTime` is
the same without fairness and with a number: from the moment a pod begins to start or to
stop, `TimeLeft` is at most `StartupLimit + Grace`, no step of anybody raises it, and every
tick lowers it. In the deployment that is 120 s and 45 s.

`DrainsWithinGrace` is what the comment on `terminationGracePeriodSeconds` says, and
`grace_claim` refutes it: the drains of the two servers, 30 s each, run one after the other,
and 45 s end in the second when a scrape hangs.

## Runs

| run | instance | states | shows |
|---|---|---|---|
| `store_conflicts` | 2 clients, 2 ids, 2 codes, 2 names, 3 versions | 1.0 M | lost updates, immutable columns, truth of 200 and 409 answers, the inductive invariant |
| `store_live` | 2 clients, 3 ids, 2 codes, 1 name, 2 versions, fairness | 0.19 M | no request waits for ever, for a row or for a code; concurrent creates of one code; refinement of the register and of the atomic departments |
| `cache_live` | 2 readers, 1 writer, 3 catalog versions, TTL 2, Deadline 2, fairness | 1.6 M | the staleness bound, the explanation of stale reads, the inductive invariant; healing; refinement of the bounded-stale catalog |
| `cache_claim` | 2 readers, 1 writer | small | refutes the immediate visibility of writes |
| `service` | 1 client, 1 reader, 3 ids, 3 codes, 1 name, 2 versions | 0.18 M | lists are states of the table; edits from lists are safe; the inductive invariant of the composition; refinement of `CatalogApi` |
| `pod` | 2 pods, 1 caller, budgets 1:2 (startup), 1:2:2:2:3 (requests, drains, grace), fairness | 0.44 M | one migration, reported locks, requests kept by a drain, pods that settle, and in time, the inductive invariant |
| `grace_claim` | 1 pod, 1 caller | small | refutes that the servers shut down within the grace period |
| `plan_range_claim` | 1 client, 1 plan | small | refutes that every invalid value is a validation error |
| `write_counters` | 2 clients, 1 plan, 3 versions, `MaxInt` 2, 4 counts | 0.25 M | no lost update, absent and null limits, CHECKs mirrored, truth of 200 and 409, the inductive invariant of the plans; refinement of the atomic plans; what the counters equal |
| `write_counters_claim` | 1 client | small | refutes that `writes_total` counts updates |
| `pipeline` | every route, body kind, identity and set of 3 roles; 2 statuses of the deadline | 0.21 M | roles, silence of refusals, the request counter, coded errors, panics, the deadline, the inductive invariant |
| `pipeline_oversize_claim` | the same | small | refutes the 413 for chunked bodies |

Bounds. `MaxVersion` limits the versions a client may expect (a row can reach
`MaxVersion`, and no update is accepted from there) and, in `CatalogCache`, the number of
changes. Three versions of a row are the first instance in which a request can be one
version behind, two behind, current, or ahead. Conflicts are between two transactions on
one row. Two clients are enough for a transaction that waits, loses and meets a further commit
before its probe, since the winner's client may submit again in between; the proofs hold for
any number. In the cache three catalog versions let a snapshot be overtaken by two writes, TTL and Deadline of
two ticks distinguish an entry that was stored fresh from one stored late. In the plan
runs an integer is below, at or above the bounds of its column (`MaxInt` is 2). `MaxCounted`
stops new transactions after so many counts; four allow two acknowledged updates and one
more transaction after them, or failures between them. The pipeline has no bounds: its set
of requests is finite; of the two statuses of the deadline the service uses one itself (503)
and not the other (504). In `service` one client and one reader are enough for a list to be
overtaken by any number of writes, since the client goes on while the list is cached or
shown; three ids let a filtered list differ from every older state of the table, so that
storing the filtered one is noticed. In `pod` the budgets keep the code's order and ratios:
the migration's 60 s are half of the startup probe's 120 s, and 15:30:30:30:45 are the read
timeout, the request deadline, the two drains and the grace period. Two pods contend for the
lock while a dead one's session holds it; one request in flight meets every phase.
Interchangeable clients are permuted in `store_conflicts`, `service` and `write_counters`
(in `service` also the ids and codes that are not the seed's); the liveness runs use no
symmetry.
The seeded constants never stop a client: a new request can always be submitted, so
deadlock is checked everywhere.

Fairness. `store_live`: SF on the statement of each client and WF on its commit. PostgreSQL
grants a row or key lock in the order of the queue, so a waiter that could proceed again and
again does proceed; a weaker assumption would let later transactions overtake it for ever.
Nothing is assumed of `Abort`, so the requests do not owe their answers to timeouts.
`cache_live`: WF on the open steps of each read, cut by the request deadline, and on `Tick`.
Nothing is assumed of evictions, and nothing of writers, which may stop anywhere.
`pod`: SF on `Tick` and WF on `Deadline` of each pod, that is, time passes and what a spent
budget forces does happen: context deadlines, probes, SIGKILL. No step of `main()`, of
PostgreSQL or of a caller is assumed to be taken. SF, since a pod that starts over and over
would otherwise be allowed to stop the clock.

## Proofs

`DepartmentStoreProofs`. `IInv` conjoins the types, the table properties and five parts
that make them inductive: `RequestsInv` (what holds of a request from arrival to answer;
here, that a version once committed stays in the past), `FreshInv` (ids of open creates are
distinct), `HoldingInv` (an open transaction's row was made from the row that is still
committed, and passed the rules), `ExclusionInv` (open transactions differ in row or in
code), `LedgerInv` (the log of a row ends with the row). `NoLostUpdate` alone is not
inductive: that a pending row carries the next version depends on nobody else having
committed to the row since, which is `HoldingInv` and needs `ExclusionInv`. Steps fall into five shapes (submit, move
on, finish, hold, install) with a lemma each; `NextIInv` has one case per action. From
`IInv` follow `TypeCorrect`, `UpdatesNotLost`, `ImmutableFieldsStay`, `CodesStayUnique`,
and, with a look at the step that answers, `ConflictsAreTrue` and `AnswersAreCommitted`.
`ImplementsRegister` shows that a commit is one step of the register or none.

`DepartmentAtomicityProofs`. The refinement mapping is the identity on `rows`, `req` and
`answer`; what needs an argument is that the instant of the answer will do for each request,
although its statements ran earlier. For a commit: the pending row was made from the row
that is still committed, since nobody else could write it (`HoldingInv`), so the whole PATCH
may be thought of as happening now; the rules it passed are those of the present row. A
create is the same with the unique code (`ExclusionInv`, `FreshInv`). For a probe: the
UPDATE found another version than the expected one, a version once overtaken stays
overtaken (`RequestsInv`), and so the present row conflicts too. For a duplicate code and a
broken rule the statement and the answer are one step. `StepIsAtomic` has a case for each
action, `ImplementsAtomic` is the theorem of the specification. The mapping needs one fact
that no safety property needed, that a client without a transaction has no request
(`IdleInv`), and so it is part of `IInv`. `RepeatChangesNothing`: a PATCH that is sent again
on the row it left, at the version it was answered with, leaves row and version alone.

`CatalogCacheProofs`. `BudgetInv`: the time a snapshot has left plus the time its version
has been superseded never exceeds `Deadline`, and for an entry never exceeds
`TTL + Deadline`; a Tick moves a unit from one summand to the other, a SET starts a new
budget with what the old one proves. `FreshnessInv`: an entry or snapshot no invalidation
has overtaken includes every acknowledged write. They give `StalenessIsBounded`,
`StaleReadsAreExplained` and `ImplementsPromise`.

`PlanStoreProofs`. The table part follows `DepartmentStoreProofs`: `RequestsInv`,
`HoldingInv`, `ExclusionInv`, `LedgerInv`. What is new is the way of a value:
`AcceptedFits` (a value that passed the three readings and the driver fits its column), from
which `AssignedRow` (the row an UPDATE makes is a row), so that no CHECK can fire
(`ChecksNeverFire`). `ChangesAreWhatWasSent` needs `HoldingInv`: a pending row is that of its
own body over the row still committed.

`ValidationIsExact` compares the chain of checks of the handler and the service with
`Sound`: they accept a body exactly when it is sound, none too many and none too few.
`ImplementsAtomic` adds the driver, the assignment (`Wanted`, null and absent fields apart)
and the transaction, along the argument for departments; a request under way is one whose
numbers fit, which `RequestsInv` now says. `RepeatChangesNothing` as for departments.

`RequestPipelineProofs`. `GateInv` is what each element of the chain may rely on,
`ResponseInv` what the buffer holds on the way back. They give `OnlyPermittedAreServed`,
`RefusalsRevealNothing`, `AnswersAreCounted` and `ErrorsNameTheirCode` for every nonempty `Layers`
and whatever error statuses the deadline answers with; `DeadlineIInv` shows that its answer
at any point leaves the chain what it relies on.

`SuccessesAreServed` adds that a success nobody served is a panic's.

`PodLifecycleProofs`. `LockInv` (one holder of the lock, a pod or a session left behind, and
a migration in progress is the first), `SchemaInv`, `StartupInv` (the migration's budget runs
out before the probe's, unless connecting was slow), `DrainInv` (a drain leaves room for the
requests it found and for itself), `RequestInv`. `MigratedOnce`, `WedgedLocksReported` and
`DrainsKeepRequests` follow for any number of pods and callers and any budgets in the order
`PodAssumption` names, which is the order of the code's numbers. `PodsSettleInTime` is an
action property: startup and shutdown each have one timer that is set when the pod enters
them and never again, a pod does not go back from the second to the first, and the clock
waits for what a spent timer forces.

`WriteMetricsProofs`. `CountersAddUp`: per step, the set of open transactions gains or loses
the client that moved, and the counters change by as much. `CountingChangesNothing`: every
behaviour with counters is one of `PlanStore`, so the theorems of `PlanStoreProofs` hold of
the counted system, which is the one the run `write_counters` explores.

`CatalogServiceProofs`. It cites the lemmas of `DepartmentStoreProofs` about a commit.
`PastInv`: every row of a past state is in the log of changes under its version, which stays
so because logs only grow (`RecordedStays`). With `SnapInv` it gives `ListsShowSnapshots` and,
with `LedgerInv`, `EditsAreSafe`. `ServiceImplementsApi` cites `StepIsAtomic` for the steps of
a department's request; the invalidation, the cache and the steps of a list are nobody's
answer, and an answered list is in `past` by `SnapInv`.

Assumptions: `StoreAssumption` (the seed is a row, the special values are not names),
`NoneAssumption` (the value for "no request" is not a request),
`CacheAssumption` (TTL and Deadline are positive), `PlanAssumption` (the seed is legal,
special values are no integers, null is no malformed value, bodies are JSON), `PipelineAssumption` (some role check is in
force, and the deadline answers with an error), `PodAssumption` (the order of the budgets), and for the counters
`MetricsAssumption`. TLC evaluates them in the runs.

Only model-checked: `EveryRequestAnswered`, `CacheHeals` and `EveryPodSettles`, because
liveness under fairness is outside what the provers handle. `PodsSettleInTime` is the part of
`EveryPodSettles` that is not liveness, and `StalenessIsBounded` that of `CacheHeals`; what
is left to TLC is that time passes and that what is due is done.

The type invariants of `CatalogCache`, `CatalogService` and `PodLifecycle` are not listed in
their runs: they are the first conjunct of the inductive invariant that is checked there.

## Not modelled, and the plan

Left out, with the reason:

- the docs routes and pages, charts, dashboards and alert rules: no state;
- the inside of `TimeoutMiddleware`, which is not in this repository: a deadline is an
  answer at any time in `RequestPipeline`, the end of a request in `PodLifecycle`, an
  `Abandon` or `Abort` elsewhere;
- a listener that fails after it has served, and the liveness probe;
- `as_of` of the internal endpoints: the time of the answer, which no step reads;
- the hit and miss counters and the duration histogram: no step depends on them;
- the wire formats: `json.Marshal` of a list and back loses nothing (all fields of
  `Department` and `Plan` are exported), so a list is modelled by its rows.

What could follow: the composition of `CatalogService` with the clock of `CatalogCache`,
refining one abstract catalog with bounded staleness row by row; plans behind their list,
which repeats `CatalogService` on another table; a pod that dies in `WriteMetrics`.

Disagreements between code and documents that were met and have no run of their own:
`valkey/cache.go` calls the cache advisory everywhere, while `/readyz` takes a pod out of
rotation without it (router.go says so itself); `requests_total` is documented for "every
request through the /api/v1 group" (router.go:240-243) and every terminal outcome
(router.go:270-273, LLD 11.2, line 1076) and misses the requests that the body cap answers
and those that end in a panic, and counts a status the caller did not get when the deadline
answers first; src/README.md:235 promises the flat envelope for every non-2xx response, and
gin's 404 for an unknown path has no body, the 503 of `/readyz` has one of its own shape and
the deadline's answer is not this service's; src/README.md:129 and the LLD (lines 552, 614, 906) give a
nested `feature_set` value 422 `invalid_feature_value`, the code and the LLD's own table
(line 1318) 400, which is what `StatusOf` has; LLD 8.4.7 and 21.2 answer `GET /departments/:id` from the cached list, the
code and `CACHE_DESIGN.md:21-24` from PostgreSQL; `metrics.go` counts a cache outage as a miss;
`PG_STATEMENT_TIMEOUT` is appended to the migration's DSN as well, so it bounds a migration
statement, and the wait for its lock, together with the 60 s.
