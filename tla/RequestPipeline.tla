---------------------------- MODULE RequestPipeline ----------------------------
(***************************************************************************)
(* The way of one request through the middleware chain that NewRouter      *)
(* registers, to a handler and back: body cap, buffered response, request  *)
(* counter, identity, media type, role gates, the handler's own checks.    *)
(* A panic on the way unwinds to the recovery of platform-gincommon, which *)
(* is registered above the buffer, and the deadline above that may answer  *)
(* before the chain does.  Requests share nothing on this way but the      *)
(* counter, so the module follows one at a time.                           *)
(***************************************************************************)
EXTENDS Naturals

CONSTANTS
  Layers,            \* the places where a role is checked; the code has both
  DeadlineStatuses,  \* the statuses the deadline may answer with
  None               \* no request

ASSUME PipelineAssumption ==
  /\ Layers \subseteq {"group", "handler"} /\ Layers # {}
  /\ DeadlineStatuses \subseteq 400..599

VARIABLES
  pc,        \* the element of the chain that acts next
  req,       \* the request
  identity,  \* IdentityBridgeMiddleware stored a RequestContext
  buffer,    \* the response in the bufferedWriter of NormalizeAuthErrors
  sent,      \* the response on the wire
  counted,   \* the status label requests_total counted for the request, or 0
  served,    \* history variable: a handler called the service
  panicked,  \* a handler or what it calls panicked
  expired    \* the deadline answered before the chain did

vars == <<pc, req, identity, buffer, sent, counted, served, panicked, expired>>

-----------------------------------------------------------------------------
(* Requests.                                                               *)

OperatorRoutes == {"create", "patch_department", "delete_department", "plans",
                   "plan", "patch_plan"}

InternalRoutes == {"internal_departments", "internal_plans"}

Routes == {"departments", "department"} \cup OperatorRoutes \cup InternalRoutes

\* The routes whose method RequireJSONContentType looks at.
WriteRoutes == {"create", "patch_department", "patch_plan"}

IdRoutes == {"department", "patch_department"}

\* "padded" and "endless" are chunked bodies above the cap: the JSON value of
\* the first is complete, and followed by blanks, where the cap cuts it off.
Bodies == {"none", "fits", "immutable", "misshapen", "declared_large",
           "padded", "endless"}

\* The probes of the kubelet: on the engine, outside the API group.
InfraRoutes == {"healthz", "readyz"}

Roles == {"platform_operator", "iam-system", "other"}

Request == [route: Routes \cup InfraRoutes \cup {"no_route", "no_method"},
            body: Bodies, json: BOOLEAN, uuid: BOOLEAN, roles: SUBSET Roles,
            identity: {"missing", "malformed", "valid"}]

Matched(r) == r.route \in Routes

-----------------------------------------------------------------------------
(* Responses.                                                              *)

Codes == {"ok", "created", "validation_error", "invalid_uuid", "no_mutable_field",
          "invalid_feature_value", "missing_identity_headers", "insufficient_role",
          "department_not_found", "plan_not_found", "method_not_allowed",
          "optimistic_lock_conflict", "duplicate_code", "request_entity_too_large",
          "unsupported_media_type", "field_immutable", "system_name_immutable",
          "system_department_cannot_be_retired", "internal_error",
          "db_unavailable", "dependency_unavailable"}

\* domainErrorStatus, and the statuses the middleware and handlers name.
StatusOf(code) ==
  CASE code = "ok" -> 200
    [] code = "created" -> 201
    [] code \in {"validation_error", "invalid_uuid", "no_mutable_field",
                 "invalid_feature_value"} -> 400
    [] code = "missing_identity_headers" -> 401
    [] code = "insufficient_role" -> 403
    [] code \in {"department_not_found", "plan_not_found"} -> 404
    [] code = "method_not_allowed" -> 405
    [] code \in {"optimistic_lock_conflict", "duplicate_code"} -> 409
    [] code = "request_entity_too_large" -> 413
    [] code = "unsupported_media_type" -> 415
    [] code \in {"field_immutable", "system_name_immutable",
                 "system_department_cannot_be_retired"} -> 422
    [] code = "internal_error" -> 500
    [] code \in {"db_unavailable", "dependency_unavailable"} -> 503

\* What the service can answer on a route, the database being up or not.
Outcomes(route) ==
  LET failures == {"internal_error", "db_unavailable", "dependency_unavailable"}
  IN CASE route \in {"departments", "plans"} \cup InternalRoutes ->
            failures \cup {"ok"}
       [] route = "department" -> failures \cup {"ok", "department_not_found"}
       [] route = "plan" -> failures \cup {"ok", "plan_not_found"}
       [] route = "create" ->
            failures \cup {"created", "validation_error", "duplicate_code"}
       [] route = "patch_department" ->
            failures \cup {"ok", "validation_error", "no_mutable_field",
              "department_not_found", "optimistic_lock_conflict",
              "system_name_immutable", "system_department_cannot_be_retired"}
       [] route = "delete_department" -> {"method_not_allowed"}
       [] route = "patch_plan" ->
            failures \cup {"ok", "validation_error", "no_mutable_field",
              "invalid_feature_value", "plan_not_found",
              "optimistic_lock_conflict"}

\* A body without a code has "bare", and status 0 is a writer nobody wrote to.
Response == [status: 0..599, code: Codes \cup {"bare"}]

Nothing == [status |-> 0, code |-> "bare"]

\* What the engine sends when nobody wrote to the connection's own writer.
Blank == [status |-> 200, code |-> "bare"]

Coded(code) == [status |-> StatusOf(code), code |-> code]

-----------------------------------------------------------------------------
GoTo(p) ==
  /\ pc' = p
  /\ UNCHANGED <<req, identity, buffer, sent, counted, served, panicked, expired>>

\* c.JSON or an abort below requestMetricsMiddleware: the chain unwinds.
Reply(response) ==
  /\ buffer' = response
  /\ pc' = "count"
  /\ UNCHANGED <<req, identity, sent, counted, served, panicked, expired>>

Init ==
  /\ pc = "idle" /\ req = None /\ identity = FALSE /\ served = FALSE
  /\ panicked = FALSE /\ expired = FALSE
  /\ buffer = Nothing /\ sent = Nothing /\ counted = 0

Receive ==
  /\ pc = "idle"
  /\ req' \in Request
  /\ pc' = "body_cap"
  /\ UNCHANGED <<identity, buffer, sent, counted, served, panicked, expired>>

\* gincommon.TimeoutMiddleware, below the body cap and above all the rest: its
\* answer is on the wire and has no code of this service.  The chain below it
\* runs on, with its buffer and its counter, and what it sends is dropped.
Deadline ==
  /\ pc \notin {"idle", "body_cap", "answered"} /\ ~expired
  /\ expired' = TRUE
  /\ \E status \in DeadlineStatuses : sent' = [status |-> status, code |-> "bare"]
  /\ UNCHANGED <<pc, req, identity, buffer, counted, served, panicked>>

\* What is on the wire once the chain has sent a response: the first one stays.
OnWire(response) == IF expired THEN sent ELSE response

\* The first middleware; it answers on the wire, below it there is the buffer.
BodyCap ==
  /\ pc = "body_cap"
  /\ \/ req.body # "declared_large" /\ GoTo("route")
     \/ /\ req.body = "declared_large"
        /\ sent' = Coded("request_entity_too_large")
        /\ pc' = "answered"
        /\ UNCHANGED <<req, identity, buffer, counted, served, panicked, expired>>

\* A request that matches no route gets the engine's middleware and gin's 404
\* without a body, or the NoMethod handler.
Dispatch ==
  /\ pc = "route"
  /\ \/ Matched(req) /\ GoTo("protect")
     \/ req.route \in InfraRoutes /\ GoTo("probe")
     \/ /\ req.route \in {"no_route", "no_method"}
        /\ buffer' = IF req.route = "no_method" THEN Coded("method_not_allowed")
                     ELSE [status |-> 404, code |-> "bare"]
        /\ pc' = "normalize"
        /\ UNCHANGED <<req, identity, sent, counted, served, panicked, expired>>

\* gincommon.HealthHandler, and readyz, which asks PostgreSQL and then Valkey:
\* one that is down makes the pod not ready, in a body of its own shape.
Probe ==
  /\ pc = "probe"
  /\ \/ buffer' = Coded("ok")
     \/ req.route = "readyz" /\ buffer' = [status |-> 503, code |-> "bare"]
  /\ pc' = "normalize"
  /\ UNCHANGED <<req, identity, sent, counted, served, panicked, expired>>

\* Mutant of Protect: the request counter runs after the identity check.
ProtectUncounted ==
  /\ pc = "protect"
  /\ \/ req.identity # "missing" /\ GoTo("bridge")
     \/ /\ req.identity # "valid"
        /\ buffer' = [status |-> 401, code |-> "bare"]
        /\ pc' = "normalize"
        /\ UNCHANGED <<req, identity, sent, counted, served, panicked, expired>>

\* gincommon.ProtectedMiddlewares: its 401 carries no code.  How much of the
\* shape of a header it checks is its own affair.
Protect ==
  /\ pc = "protect"
  /\ \/ req.identity # "missing" /\ GoTo("bridge")
     \/ req.identity # "valid" /\ Reply([status |-> 401, code |-> "bare"])

\* Mutant of IdentityBridge: ids that do not parse are let through.
IdentityBridgeLenient ==
  /\ pc = "bridge"
  /\ identity' = TRUE
  /\ pc' = "media_type"
  /\ UNCHANGED <<req, buffer, sent, counted, served, panicked, expired>>

\* Behind ProtectedMiddlewares there is a platform RequestContext, so that the
\* pass-through for requests without one is not taken.
IdentityBridge ==
  /\ pc = "bridge"
  /\ \/ req.identity # "valid" /\ Reply(Coded("missing_identity_headers"))
     \/ /\ req.identity = "valid"
        /\ identity' = TRUE
        /\ pc' = "media_type"
        /\ UNCHANGED <<req, buffer, sent, counted, served, panicked, expired>>

RequireJSON ==
  /\ pc = "media_type"
  /\ LET refused == req.route \in WriteRoutes /\ req.body # "none" /\ ~req.json
     IN \/ refused /\ Reply(Coded("unsupported_media_type"))
        \/ ~refused /\ GoTo("group")

\* Mutant of HasRole: any role will do.
HasAnyRole(r, role) == r.roles # {}

HasRole(r, role) == role \in r.roles

\* The caller may use the route.
RoleFits(r) ==
  /\ r.route \in OperatorRoutes => HasRole(r, "platform_operator")
  /\ r.route \in InternalRoutes => HasRole(r, "iam-system")

\* Mutant of GroupGate: the group has no role gate.
GroupGateOpen == pc = "group" /\ GoTo("handler")

\* RequireOperatorRole or RequireSystemRole.
GroupGate ==
  /\ pc = "group"
  /\ LET refused == "group" \in Layers /\ ~(RoleFits(req) /\ identity)
     IN \/ refused /\ Reply(Coded("insufficient_role"))
        \/ ~refused /\ GoTo("handler")

\* requireOperator or requireSystem.
HandlerGate(r) ==
  IF "handler" \in Layers /\ r.route \notin {"departments", "department"}
    THEN IF ~identity THEN "missing_identity_headers"
         ELSE IF ~RoleFits(r) THEN "insufficient_role"
         ELSE "pass"
    ELSE "pass"

\* What a handler makes of the body.  An error of the body reader is dropped
\* by CAT-2's ReadAll and replaced by validation_error elsewhere; all of them
\* bind the first JSON value and CAT-2 looks at its keys before.
BodyVerdict(r) ==
  IF r.route \notin WriteRoutes THEN "pass"
  ELSE IF r.body \in {"none", "misshapen", "endless"} THEN "validation_error"
  ELSE IF r.route = "patch_department" /\ r.body = "immutable" THEN "field_immutable"
  ELSE "pass"

HandlerVerdict(r) ==
  IF HandlerGate(r) # "pass" THEN HandlerGate(r)
  ELSE IF r.route \in IdRoutes /\ ~r.uuid THEN "invalid_uuid"
  ELSE BodyVerdict(r)

Handle ==
  /\ pc = "handler"
  /\ \/ HandlerVerdict(req) # "pass" /\ Reply(Coded(HandlerVerdict(req)))
     \/ /\ HandlerVerdict(req) = "pass"
        /\ pc' = "service" /\ served' = TRUE
        /\ UNCHANGED <<req, identity, buffer, sent, counted, panicked, expired>>

\* Mutant of Serve: a branch of HandleError returns without writing.
ServeSilent ==
  /\ pc = "service"
  /\ \E code \in Outcomes(req.route) :
       Reply(IF code = "internal_error" THEN Blank ELSE Coded(code))

\* The service answers, and HandleError or c.JSON writes the response.
Serve ==
  /\ pc = "service"
  /\ \E code \in Outcomes(req.route) : Reply(Coded(code))

\* A handler past its role check, or what it calls, panics.  What the
\* middlewares do after c.Next() is no defer, so it is skipped.
Panic ==
  /\ \/ pc = "service"
     \/ pc = "handler" /\ HandlerGate(req) = "pass"
  /\ pc' = "recover" /\ panicked' = TRUE
  /\ UNCHANGED <<req, identity, buffer, sent, counted, served, expired>>

\* The recovery of gincommon.ObservabilityMiddlewares.  c.Writer is still the
\* bufferedWriter, which nobody empties any more: what the recovery writes is
\* lost, and the engine ends the response with an empty 200.
Recover ==
  /\ pc = "recover"
  /\ buffer' \in {Nothing, [status |-> 500, code |-> "bare"]}
  /\ sent' = OnWire(Blank)
  /\ pc' = "answered"
  /\ UNCHANGED <<req, identity, counted, served, panicked, expired>>

\* requestMetricsMiddleware after c.Next(); the writer it asks is the buffer.
CountRequest ==
  /\ pc = "count"
  /\ counted' = buffer.status
  /\ pc' = "normalize"
  /\ UNCHANGED <<req, identity, buffer, sent, served, panicked, expired>>

\* Mutant of Normalized: the buffer is sent as it is.
NormalizedNever(response) == response

Normalized(response) ==
  IF response.status = 401 /\ response.code = "bare"
    THEN Coded("missing_identity_headers")
    ELSE response

\* NormalizeAuthErrors after c.Next().
Normalize ==
  /\ pc = "normalize"
  /\ sent' = OnWire(Normalized(buffer))
  /\ pc' = "answered"
  /\ UNCHANGED <<req, identity, buffer, counted, served, panicked, expired>>

\* The connection waits for its next request.
Close ==
  /\ pc = "answered"
  /\ pc' = "idle" /\ req' = None /\ identity' = FALSE /\ served' = FALSE
  /\ panicked' = FALSE /\ expired' = FALSE
  /\ buffer' = Nothing /\ sent' = Nothing /\ counted' = 0

Next ==
  \/ Receive \/ BodyCap \/ Dispatch \/ Probe \/ Protect \/ IdentityBridge
  \/ RequireJSON \/ GroupGate \/ Handle \/ Serve \/ Panic \/ Recover
  \/ CountRequest \/ Normalize \/ Deadline \/ Close

Spec == Init /\ [][Next]_vars

-----------------------------------------------------------------------------
Stages == {"idle", "body_cap", "route", "probe", "protect", "bridge", "media_type",
           "group", "handler", "service", "recover", "count", "normalize",
           "answered"}

TypeOK ==
  /\ pc \in Stages
  /\ req \in Request \cup {None}
  /\ identity \in BOOLEAN /\ served \in BOOLEAN
  /\ panicked \in BOOLEAN /\ expired \in BOOLEAN
  /\ buffer \in Response /\ sent \in Response
  /\ counted \in 0..599

\* What the routes demand of a caller.
Permitted(r) ==
  /\ r.identity = "valid"
  /\ r.route \in OperatorRoutes => "platform_operator" \in r.roles
  /\ r.route \in InternalRoutes => "iam-system" \in r.roles

(***************************************************************************)
(* Defence in depth: no handler calls the service for a caller without the *)
(* identity and role its route demands, whichever of the two role checks   *)
(* is in force (RequireOperatorRole and RequireSystemRole on the groups,   *)
(* requireOperator and requireSystem in the handlers).                     *)
(***************************************************************************)
OnlyPermittedServed == served => Permitted(req)

(***************************************************************************)
(* A caller who may not use a route learns nothing from its answer but     *)
(* that, or that the deadline has passed: neither whether a department or  *)
(* plan exists nor what is wrong with an id or a JSON body (the order of   *)
(* the checks in the chain and in each handler).                           *)
(***************************************************************************)
RefusalRevealsNothing ==
  pc = "answered" /\ Matched(req) /\ ~Permitted(req) =>
    sent.status \in IF expired THEN DeadlineStatuses ELSE {401, 403, 413, 415}

(***************************************************************************)
(* Every API request whose handlers return is counted in requests_total,   *)
(* also when the identity check or a role gate ended it or its deadline    *)
(* had passed; no other path is counted; and what is counted is the status *)
(* the caller got, although the response is still in the buffer then.  A   *)
(* deadline that answered first may have sent another status than the one  *)
(* counted.                                                                *)
(* The property is weaker than the documents, which promise the count for  *)
(* "every request through the /api/v1 group" (router.go:240-243) and every *)
(* terminal outcome (router.go:270-273, LLD 11.2).  It takes no side on a  *)
(* request whose declared body is too large, or one that panics: the code  *)
(* counts neither (BodyCap, Panic).                                        *)
(***************************************************************************)
CountedAsSent ==
  pc = "answered" =>
    /\ Matched(req) /\ req.body # "declared_large" /\ ~panicked => counted # 0
    /\ counted # 0 => Matched(req) /\ (~expired => counted = sent.status)

(***************************************************************************)
(* An error answer of this service's own code, or of the auth middleware   *)
(* of platform-gincommon as NormalizeAuthErrors passes it on, names a code *)
(* and has the status that the code stands for (HandleError, NoMethod, the *)
(* body cap, the middlewares).                                             *)
(* src/README.md:235 promises the envelope for every non-2xx response.     *)
(* Three answers are not held to it: gin's own 404 for a path that does    *)
(* not exist, the 503 of readyz, which has a body of its own shape, and    *)
(* the answer of the deadline, which TimeoutMiddleware writes above        *)
(* NormalizeAuthErrors and whose shape nothing here determines.            *)
(***************************************************************************)
ErrorsAreCoded ==
  pc = "answered" /\ ~expired /\ sent.status >= 400
      /\ req.route \notin {"no_route", "readyz"} =>
    sent.code # "bare" /\ sent.status = StatusOf(sent.code)

(***************************************************************************)
(* A success of the API is what the service answered, with one exception:  *)
(* a panic, whatever it interrupted and whatever the recovery wrote, is    *)
(* answered with an empty 200, unless the deadline answers before          *)
(* (NormalizeAuthErrors, bufferedWriter).                                  *)
(***************************************************************************)
OnlyPanicsFeignSuccess ==
  pc = "answered" /\ Matched(req) =>
    /\ panicked /\ ~expired => sent = Blank
    /\ ~panicked /\ sent.status < 400 =>
         served /\ sent.code \in {"ok", "created"} \cap Outcomes(req.route)

(***************************************************************************)
(* What the comment on the body cap says of write requests that are        *)
(* otherwise in order: a body above 1 MB is answered 413, and HandleError  *)
(* sees to it for chunked ones.  The handlers do not pass the reader's     *)
(* error on to HandleError.                                                *)
(***************************************************************************)
OversizeIsRefused ==
  pc = "answered" /\ req.route \in WriteRoutes /\ Permitted(req) /\ req.json
      /\ req.uuid /\ req.body \in {"declared_large", "endless"}
      /\ ~panicked /\ ~expired =>
    sent.status = 413

-----------------------------------------------------------------------------
(***************************************************************************)
(* The inductive invariant: what each element of the chain may rely on.    *)
(***************************************************************************)
GateInv ==
  /\ pc # "idle" => req \in Request
  /\ pc \notin {"idle", "body_cap", "answered"} => req.body # "declared_large"
  /\ pc \in {"protect", "bridge", "media_type", "group", "handler", "service",
             "recover", "count"} => Matched(req)
  /\ pc = "probe" => req.route \in InfraRoutes
  /\ pc = "recover" => panicked /\ Permitted(req)
  /\ panicked => pc \in {"recover", "answered"}
  /\ pc \in {"media_type", "group", "handler", "service"} =>
       identity /\ req.identity = "valid"
  /\ pc = "handler" /\ "group" \in Layers => Permitted(req)
  /\ pc = "service" => served
  /\ pc = "idle" => ~served
  /\ pc \in {"idle", "body_cap"} => ~expired

ResponseInv ==
  /\ pc \in {"count", "normalize"} /\ Matched(req) /\ ~Permitted(req) =>
       buffer.status \in {401, 403, 415}
  /\ pc \in {"count", "normalize"} /\ Matched(req) /\ buffer.status < 400 =>
       served /\ buffer.code \in {"ok", "created"} \cap Outcomes(req.route)
  /\ pc \in {"count", "normalize"} /\ req.route \notin {"no_route", "readyz"} =>
       IF buffer.code = "bare" THEN buffer.status = 401
                               ELSE buffer.status = StatusOf(buffer.code)
  /\ pc = "normalize" => counted = IF Matched(req) THEN buffer.status ELSE 0
  /\ pc \notin {"normalize", "answered"} => counted = 0
  /\ expired => sent.status \in DeadlineStatuses

IInv ==
  /\ TypeOK /\ GateInv /\ ResponseInv
  /\ OnlyPermittedServed /\ RefusalRevealsNothing /\ CountedAsSent /\ ErrorsAreCoded
  /\ OnlyPanicsFeignSuccess
=============================================================================
