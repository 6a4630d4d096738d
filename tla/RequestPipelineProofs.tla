------------------------- MODULE RequestPipelineProofs -------------------------
(***************************************************************************)
(* Proofs about RequestPipeline: its inductive invariant, and that one     *)
(* role check of the two is enough.                                        *)
(***************************************************************************)
EXTENDS RequestPipeline, TLAPS

-----------------------------------------------------------------------------
(* Codes and statuses.                                                     *)

LEMMA StatusType ==
  \A code \in Codes : StatusOf(code) \in 200..599
BY DEF Codes, StatusOf

\* Every code but those of a success is an error's.
LEMMA ErrorStatus ==
  \A code \in Codes : code \notin {"ok", "created"} => StatusOf(code) >= 400
BY DEF Codes, StatusOf

LEMMA CodedType ==
  ASSUME NEW code \in Codes
  PROVE  /\ Coded(code) \in Response
         /\ Coded(code).code = code /\ code # "bare"
         /\ Coded(code).status = StatusOf(code)
<1>1. code # "bare"
  BY DEF Codes
<1> QED
  BY <1>1, StatusType DEF Coded, Response

LEMMA RefusalStatus ==
  /\ StatusOf("missing_identity_headers") = 401
  /\ StatusOf("insufficient_role") = 403
  /\ StatusOf("request_entity_too_large") = 413
  /\ StatusOf("unsupported_media_type") = 415
BY DEF StatusOf

LEMMA OutcomesAreCodes ==
  ASSUME NEW route \in Routes
  PROVE  Outcomes(route) \subseteq Codes
BY DEF Routes, OperatorRoutes, InternalRoutes, Outcomes, Codes

LEMMA BareType ==
  /\ [status |-> 401, code |-> "bare"] \in Response
  /\ [status |-> 404, code |-> "bare"] \in Response
  /\ [status |-> 500, code |-> "bare"] \in Response
  /\ [status |-> 503, code |-> "bare"] \in Response
  /\ Nothing \in Response /\ Blank \in Response
BY DEF Response, Nothing, Blank

\* A handler's verdict is "pass" or an error code, of the role check if the
\* caller's role does not fit and the handler checks it.
LEMMA VerdictType ==
  ASSUME NEW r \in Request
  PROVE  /\ HandlerVerdict(r) # "pass" =>
              HandlerVerdict(r) \in Codes \ {"ok", "created"}
         /\ HandlerGate(r) # "pass" => HandlerVerdict(r) = HandlerGate(r)
BY DEF HandlerVerdict, HandlerGate, BodyVerdict, Codes

-----------------------------------------------------------------------------
(* The inductive invariant.                                                *)

LEMMA InitIInv ==
  Init => IInv
<1> SUFFICES ASSUME Init
             PROVE  IInv
  OBVIOUS
<1> USE DEF Init
<1>1. TypeOK
  <2>1. counted \in 0..599
    OBVIOUS
  <2>2. pc \in Stages /\ req \in Request \cup {None}
    BY DEF Stages
  <2>3. /\ identity \in BOOLEAN /\ served \in BOOLEAN
        /\ panicked \in BOOLEAN /\ expired \in BOOLEAN
    OBVIOUS
  <2>4. buffer \in Response /\ sent \in Response
    BY BareType
  <2> QED
    BY <2>1, <2>2, <2>3, <2>4 DEF TypeOK
<1>2. GateInv /\ ResponseInv
  BY DEF GateInv, ResponseInv
<1>3. /\ OnlyPermittedServed /\ RefusalRevealsNothing /\ CountedAsSent
      /\ ErrorsAreCoded /\ OnlyPanicsFeignSuccess
  BY DEF OnlyPermittedServed, RefusalRevealsNothing, CountedAsSent, ErrorsAreCoded,
     OnlyPanicsFeignSuccess
<1> QED
  BY <1>1, <1>2, <1>3 DEF IInv

\* A step to another element of the chain that writes no response.
LEMMA GoToIInv ==
  ASSUME IInv, NEW p \in Stages \ {"idle", "service", "count", "normalize", "answered"},
         pc # "idle", pc # "normalize", pc # "answered", GoTo(p), GateInv'
  PROVE  IInv'
BY DEF GoTo, IInv, TypeOK, Stages, ResponseInv, OnlyPermittedServed, Permitted,
   RefusalRevealsNothing, CountedAsSent, ErrorsAreCoded,
   OnlyPanicsFeignSuccess

\* A response written below the request counter.
LEMMA ReplyIInv ==
  ASSUME IInv, NEW response \in Response, Reply(response),
         pc \in {"protect", "bridge", "media_type", "group", "handler", "service"},
         ~Permitted(req) => response.status \in {401, 403, 415},
         response.status < 400 =>
           served /\ response.code \in {"ok", "created"} \cap Outcomes(req.route),
         IF response.code = "bare" THEN response.status = 401
                                   ELSE response.status = StatusOf(response.code)
  PROVE  IInv'
<1> USE DEF Reply, IInv
<1>1. TypeOK'
  BY DEF TypeOK, Stages
<1>2. GateInv'
  BY DEF GateInv, Matched
<1>3. ResponseInv'
  BY DEF ResponseInv, GateInv, Matched, Permitted
<1>4. (/\ OnlyPermittedServed /\ RefusalRevealsNothing /\ CountedAsSent
       /\ ErrorsAreCoded /\ OnlyPanicsFeignSuccess)'
  BY DEF OnlyPermittedServed, Permitted, RefusalRevealsNothing, CountedAsSent,
     ErrorsAreCoded, OnlyPanicsFeignSuccess
<1> QED
  BY <1>1, <1>2, <1>3, <1>4

LEMMA ReceiveIInv ==
  IInv /\ Receive => IInv'
BY DEF Receive, IInv, TypeOK, Stages, GateInv, ResponseInv, OnlyPermittedServed,
   RefusalRevealsNothing, CountedAsSent, ErrorsAreCoded,
   OnlyPanicsFeignSuccess

LEMMA BodyCapIInv ==
  ASSUME IInv, BodyCap
  PROVE  IInv'
<1> USE DEF BodyCap
<1>1. CASE req.body # "declared_large" /\ GoTo("route")
  <2>1. GateInv'
    BY <1>1 DEF IInv, GateInv, GoTo
  <2> QED
    BY <1>1, <2>1, GoToIInv DEF Stages
<1>2. CASE req.body = "declared_large" /\ ~GoTo("route")
  <2> DEFINE tooLarge == Coded("request_entity_too_large")
  <2>1. /\ tooLarge \in Response /\ tooLarge.status = 413
        /\ tooLarge.code = "request_entity_too_large"
    BY CodedType, RefusalStatus DEF Codes
  <2>2. /\ pc = "body_cap" /\ pc' = "answered" /\ sent' = tooLarge
        /\ UNCHANGED <<req, identity, buffer, counted, served, panicked, expired>>
    BY <1>2
  <2> HIDE DEF tooLarge
  <2> QED
    BY <1>2, <2>1, <2>2, RefusalStatus
    DEF IInv, TypeOK, Stages, GateInv, ResponseInv, OnlyPermittedServed, Permitted,
        RefusalRevealsNothing, CountedAsSent, ErrorsAreCoded,
        OnlyPanicsFeignSuccess
<1> QED
  BY <1>1, <1>2 DEF GoTo

LEMMA DispatchIInv ==
  ASSUME IInv, Dispatch
  PROVE  IInv'
<1> USE DEF Dispatch
<1>1. CASE Matched(req) /\ GoTo("protect")
  <2>1. GateInv'
    BY <1>1 DEF IInv, GateInv, GoTo, Matched
  <2> QED
    BY <1>1, <2>1, GoToIInv DEF Stages
<1>2. CASE req.route \in InfraRoutes /\ GoTo("probe")
  <2>1. GateInv'
    BY <1>2 DEF IInv, GateInv, GoTo, Matched
  <2> QED
    BY <1>2, <2>1, GoToIInv DEF Stages
<1>3. CASE req.route \in {"no_route", "no_method"} /\ ~GoTo("probe")
  <2> DEFINE response == IF req.route = "no_method" THEN Coded("method_not_allowed")
                         ELSE [status |-> 404, code |-> "bare"]
  <2>1. req \in Request /\ ~Matched(req)
    BY <1>3 DEF IInv, GateInv, Matched, Routes, OperatorRoutes, InternalRoutes
  <2>2. /\ response \in Response
        /\ req.route # "no_route" => /\ response.code # "bare"
                                     /\ response.status = StatusOf(response.code)
    BY <1>3, <2>1, BareType, CodedType DEF Codes, Matched, Request
  <2>3. /\ pc = "route" /\ pc' = "normalize" /\ buffer' = response
        /\ UNCHANGED <<req, identity, sent, counted, served, panicked, expired>>
    BY <1>3, <2>1
  <2> HIDE DEF response
  <2> QED
    BY <1>3, <2>1, <2>2, <2>3
    DEF IInv, TypeOK, Stages, GateInv, ResponseInv, Matched, OnlyPermittedServed,
        Permitted, RefusalRevealsNothing, CountedAsSent, ErrorsAreCoded,
        OnlyPanicsFeignSuccess
<1> QED
  BY <1>1, <1>2, <1>3 DEF GoTo

\* A probe is outside the API and its answer has a code unless it is readyz's.
LEMMA ProbeIInv ==
  ASSUME IInv, Probe
  PROVE  IInv'
<1> USE DEF Probe
<1>1. req.route \in InfraRoutes /\ ~Matched(req)
  BY DEF IInv, GateInv, InfraRoutes, Matched, Routes, OperatorRoutes, InternalRoutes
<1>2. /\ buffer' \in Response
      /\ req.route # "readyz" => /\ buffer'.code # "bare"
                                 /\ buffer'.status = StatusOf(buffer'.code)
  BY BareType, CodedType DEF Codes
<1>3. /\ pc = "probe" /\ pc' = "normalize"
      /\ UNCHANGED <<req, identity, sent, counted, served, panicked, expired>>
  OBVIOUS
<1> QED
  BY <1>1, <1>2, <1>3
  DEF IInv, TypeOK, Stages, GateInv, ResponseInv, Matched, OnlyPermittedServed,
      Permitted, RefusalRevealsNothing, CountedAsSent, ErrorsAreCoded,
      OnlyPanicsFeignSuccess

\* What each refusal on the way replies.
LEMMA RefusalReply ==
  ASSUME NEW code \in {"missing_identity_headers", "insufficient_role",
                       "unsupported_media_type"}
  PROVE  /\ Coded(code) \in Response /\ Coded(code).code # "bare"
         /\ Coded(code).status = StatusOf(Coded(code).code)
         /\ Coded(code).status \in {401, 403, 415}
BY CodedType, RefusalStatus DEF Codes

LEMMA ProtectIInv ==
  ASSUME IInv, Protect
  PROVE  IInv'
<1> USE DEF Protect
<1>1. CASE GoTo("bridge")
  <2>1. GateInv'
    BY <1>1 DEF IInv, GateInv, GoTo, Matched
  <2> QED
    BY <1>1, <2>1, GoToIInv DEF Stages
<1>2. CASE Reply([status |-> 401, code |-> "bare"])
  BY <1>2, BareType, ReplyIInv
<1> QED
  BY <1>1, <1>2

LEMMA IdentityBridgeIInv ==
  ASSUME IInv, IdentityBridge
  PROVE  IInv'
<1> USE DEF IdentityBridge
<1>1. CASE Reply(Coded("missing_identity_headers"))
  BY <1>1, RefusalReply, ReplyIInv
<1>2. CASE /\ req.identity = "valid" /\ identity' = TRUE /\ pc' = "media_type"
           /\ UNCHANGED <<req, buffer, sent, counted, served, panicked, expired>>
  BY <1>2 DEF IInv, TypeOK, Stages, GateInv, ResponseInv, Matched,
     OnlyPermittedServed, Permitted, RefusalRevealsNothing, CountedAsSent,
     ErrorsAreCoded, OnlyPanicsFeignSuccess
<1> QED
  BY <1>1, <1>2

LEMMA RequireJSONIInv ==
  ASSUME IInv, RequireJSON
  PROVE  IInv'
<1> USE DEF RequireJSON
<1>1. CASE Reply(Coded("unsupported_media_type"))
  BY <1>1, RefusalReply, ReplyIInv
<1>2. CASE GoTo("group")
  <2>1. GateInv'
    BY <1>2 DEF IInv, GateInv, GoTo, Matched
  <2> QED
    BY <1>2, <2>1, GoToIInv DEF Stages
<1> QED
  BY <1>1, <1>2

\* A caller with an identity and a fitting role is a permitted one.
LEMMA FitsIsPermitted ==
  ASSUME NEW r \in Request, r.identity = "valid"
  PROVE  RoleFits(r) <=> Permitted(r)
BY DEF RoleFits, HasRole, Permitted

LEMMA GroupGateIInv ==
  ASSUME IInv, GroupGate
  PROVE  IInv'
<1> USE DEF GroupGate
<1>1. CASE Reply(Coded("insufficient_role"))
  BY <1>1, RefusalReply, ReplyIInv
<1>2. CASE /\ ~("group" \in Layers /\ ~(RoleFits(req) /\ identity))
           /\ GoTo("handler")
  <2>1. "group" \in Layers => Permitted(req)
    BY <1>2, FitsIsPermitted DEF IInv, GateInv
  <2>2. GateInv'
    BY <1>2, <2>1 DEF IInv, GateInv, GoTo, Matched, Permitted
  <2> QED
    BY <1>2, <2>2, GoToIInv DEF Stages
<1> QED
  BY <1>1, <1>2

\* One layer is enough: past the handler's checks a caller is permitted.
LEMMA PassIsPermitted ==
  ASSUME IInv, pc = "handler", HandlerGate(req) = "pass"
  PROVE  Permitted(req)
<1>1. req \in Request /\ req.identity = "valid" /\ identity
  BY DEF IInv, GateInv
<1>2. CASE "group" \in Layers
  BY <1>2 DEF IInv, GateInv
<1>3. CASE "handler" \in Layers /\ req.route \notin {"departments", "department"}
  BY <1>1, <1>3, FitsIsPermitted DEF HandlerGate
<1>4. CASE req.route \in {"departments", "department"}
  BY <1>1, <1>4 DEF Permitted, OperatorRoutes, InternalRoutes
<1> QED
  BY <1>2, <1>3, <1>4, PipelineAssumption

\* The role check of a handler only refuses with these.
LEMMA GateCodes ==
  ASSUME NEW r \in Request, HandlerGate(r) # "pass"
  PROVE  HandlerGate(r) \in {"missing_identity_headers", "insufficient_role"}
BY DEF HandlerGate

LEMMA HandleIInv ==
  ASSUME IInv, Handle
  PROVE  IInv'
<1> USE DEF Handle
<1>1. req \in Request
  BY DEF IInv, GateInv
<1>2. CASE HandlerVerdict(req) # "pass" /\ Reply(Coded(HandlerVerdict(req)))
  <2>1. CASE HandlerGate(req) = "pass"
    <3>1. Permitted(req)
      BY <2>1, PassIsPermitted
    <3>2. HandlerVerdict(req) \in Codes \ {"ok", "created"}
      BY <1>1, <1>2, VerdictType
    <3>3. ~(Coded(HandlerVerdict(req)).status < 400)
      BY <3>2, CodedType, ErrorStatus, StatusType
    <3> QED
      BY <1>2, <3>1, <3>2, <3>3, CodedType, ReplyIInv
  <2>2. CASE HandlerGate(req) # "pass"
    BY <1>1, <1>2, <2>2, VerdictType, GateCodes, RefusalReply, ReplyIInv
  <2> QED
    BY <2>1, <2>2
<1>3. CASE HandlerVerdict(req) = "pass" /\ pc' = "service" /\ served' = TRUE
           /\ UNCHANGED <<req, identity, buffer, sent, counted, panicked, expired>>
  <2>1. Permitted(req)
    BY <1>1, <1>3, VerdictType, PassIsPermitted
  <2> QED
    BY <1>3, <2>1 DEF IInv, TypeOK, Stages, GateInv, ResponseInv, Matched,
       OnlyPermittedServed, Permitted, RefusalRevealsNothing, CountedAsSent,
       ErrorsAreCoded, OnlyPanicsFeignSuccess
<1> QED
  BY <1>2, <1>3

LEMMA ServeIInv ==
  ASSUME IInv, Serve
  PROVE  IInv'
<1>1. Matched(req) /\ Permitted(req)
  BY DEF Serve, IInv, GateInv, OnlyPermittedServed
<1>2. PICK code \in Outcomes(req.route) : Reply(Coded(code))
  BY DEF Serve
<1>3. code \in Codes
  BY <1>1, <1>2, OutcomesAreCodes DEF Matched
<1>4. served /\ pc = "service"
  BY DEF Serve, IInv, GateInv
<1>5. Coded(code).status < 400 => code \in {"ok", "created"}
  BY <1>3, CodedType, ErrorStatus, StatusType
<1> QED
  BY <1>1, <1>2, <1>3, <1>4, <1>5, CodedType, ReplyIInv

\* Only requests of permitted callers get as far as a panic.
LEMMA PanicIInv ==
  ASSUME IInv, Panic
  PROVE  IInv'
<1>1. Matched(req) /\ Permitted(req)
  BY PassIsPermitted DEF Panic, IInv, GateInv, OnlyPermittedServed
<1>2. /\ pc \in {"service", "handler"} /\ pc' = "recover" /\ panicked' = TRUE
      /\ UNCHANGED <<req, identity, buffer, sent, counted, served, expired>>
  BY DEF Panic
<1> QED
  BY <1>1, <1>2
  DEF IInv, TypeOK, Stages, GateInv, ResponseInv, Matched, OnlyPermittedServed,
      Permitted, RefusalRevealsNothing, CountedAsSent, ErrorsAreCoded,
      OnlyPanicsFeignSuccess

LEMMA RecoverIInv ==
  ASSUME IInv, Recover
  PROVE  IInv'
<1>1. /\ pc = "recover" /\ pc' = "answered"
      /\ sent' = IF expired THEN sent ELSE Blank
      /\ buffer' \in Response
      /\ UNCHANGED <<req, identity, counted, served, panicked, expired>>
  BY BareType DEF Recover, OnWire
<1>2. Blank \in Response /\ Blank.status = 200
  BY BareType DEF Blank
<1> QED
  BY <1>1, <1>2, PipelineAssumption
  DEF IInv, TypeOK, Stages, GateInv, ResponseInv, Matched, OnlyPermittedServed,
      Permitted, RefusalRevealsNothing, CountedAsSent, ErrorsAreCoded,
      OnlyPanicsFeignSuccess

LEMMA CountRequestIInv ==
  ASSUME IInv, CountRequest
  PROVE  IInv'
BY DEF CountRequest, IInv, TypeOK, Stages, Response, GateInv, ResponseInv, Matched,
   OnlyPermittedServed, Permitted, RefusalRevealsNothing, CountedAsSent,
   ErrorsAreCoded, OnlyPanicsFeignSuccess

\* The answer of an API request that the chain hands up has a status.
LEMMA AnswerHasStatus ==
  ASSUME IInv, pc \in {"count", "normalize"}, Matched(req)
  PROVE  buffer.status # 0
<1>1. /\ buffer.code \in Codes \cup {"bare"}
      /\ IF buffer.code = "bare" THEN buffer.status = 401
                                 ELSE buffer.status = StatusOf(buffer.code)
  BY DEF IInv, TypeOK, Response, ResponseInv, Matched, Routes, OperatorRoutes,
     InternalRoutes
<1> QED
  BY <1>1, StatusType

LEMMA NormalizeIInv ==
  ASSUME IInv, Normalize
  PROVE  IInv'
<1> DEFINE response == Normalized(buffer)
<1>1. /\ response \in Response /\ response.status = buffer.status
      /\ buffer.status # 401 => response = buffer
      /\ req.route \notin {"no_route", "readyz"} =>
           response.code # "bare" /\ response.status = StatusOf(response.code)
  BY CodedType, RefusalStatus
  DEF Codes, Normalize, Normalized, IInv, TypeOK, ResponseInv
<1>2. /\ pc = "normalize" /\ pc' = "answered"
      /\ sent' = IF expired THEN sent ELSE response
      /\ UNCHANGED <<req, identity, buffer, counted, served, panicked, expired>>
  BY DEF Normalize, OnWire
<1>3. Matched(req) => buffer.status # 0
  BY <1>2, AnswerHasStatus
<1>4. expired => ~(sent.status < 400)
  <2>1. expired => sent.status \in 400..599
    BY PipelineAssumption DEF IInv, ResponseInv
  <2> QED
    BY <2>1
<1> HIDE DEF response
<1>5. TypeOK' /\ GateInv' /\ ResponseInv' /\ OnlyPermittedServed'
  BY <1>1, <1>2
  DEF IInv, TypeOK, Stages, GateInv, ResponseInv, Matched, OnlyPermittedServed,
      Permitted
<1>6. RefusalRevealsNothing'
  BY <1>1, <1>2 DEF IInv, ResponseInv, RefusalRevealsNothing, Matched, Permitted
<1>7. CountedAsSent'
  BY <1>1, <1>2, <1>3 DEF IInv, ResponseInv, CountedAsSent, Matched
<1>8. ErrorsAreCoded'
  BY <1>1, <1>2 DEF ErrorsAreCoded
<1>9. OnlyPanicsFeignSuccess'
  BY <1>1, <1>2, <1>4
  DEF IInv, GateInv, ResponseInv, OnlyPanicsFeignSuccess, Matched
<1> QED
  BY <1>5, <1>6, <1>7, <1>8, <1>9 DEF IInv

\* The deadline answers beside the chain, whose own steps go on unchanged.
LEMMA DeadlineIInv ==
  ASSUME IInv, Deadline
  PROVE  IInv'
<1>1. PICK status \in DeadlineStatuses : sent' = [status |-> status, code |-> "bare"]
  BY DEF Deadline
<1>2. sent' \in Response /\ sent'.status = status
  BY <1>1, PipelineAssumption DEF Response
<1>3. /\ pc \notin {"idle", "body_cap", "answered"} /\ expired' = TRUE
      /\ UNCHANGED <<pc, req, identity, buffer, counted, served, panicked>>
  BY DEF Deadline
<1> QED
  BY <1>1, <1>2, <1>3
  DEF IInv, TypeOK, GateInv, ResponseInv, Matched, OnlyPermittedServed, Permitted,
      RefusalRevealsNothing, CountedAsSent, ErrorsAreCoded, OnlyPanicsFeignSuccess

\* Every step keeps the invariant.
LEMMA NextIInv ==
  IInv /\ [Next]_vars => IInv'
<1> SUFFICES ASSUME IInv, [Next]_vars
             PROVE  IInv'
  OBVIOUS
<1>1. CASE Receive
  BY <1>1, ReceiveIInv
<1>2. CASE BodyCap
  BY <1>2, BodyCapIInv
<1>3. CASE Dispatch
  BY <1>3, DispatchIInv
<1>4. CASE Protect
  BY <1>4, ProtectIInv
<1>5. CASE IdentityBridge
  BY <1>5, IdentityBridgeIInv
<1>6. CASE RequireJSON
  BY <1>6, RequireJSONIInv
<1>7. CASE GroupGate
  BY <1>7, GroupGateIInv
<1>8. CASE Handle
  BY <1>8, HandleIInv
<1>9. CASE Serve
  BY <1>9, ServeIInv
<1>10. CASE CountRequest
  BY <1>10, CountRequestIInv
<1>11. CASE Normalize
  BY <1>11, NormalizeIInv
<1>14. CASE Probe
  BY <1>14, ProbeIInv
<1>15. CASE Panic
  BY <1>15, PanicIInv
<1>16. CASE Recover
  BY <1>16, RecoverIInv
<1>17. CASE Deadline
  BY <1>17, DeadlineIInv
<1>12. CASE Close
  <2>1. Init'
    BY <1>12 DEF Close, Init
  <2> QED
    BY <2>1, InitIInv, PTL
<1>13. CASE UNCHANGED vars
  BY <1>13 DEF vars, IInv, TypeOK, GateInv, ResponseInv, Matched,
     OnlyPermittedServed, Permitted, RefusalRevealsNothing, CountedAsSent,
     ErrorsAreCoded, OnlyPanicsFeignSuccess
<1> QED
  BY <1>1, <1>2, <1>3, <1>4, <1>5, <1>6, <1>7, <1>8, <1>9, <1>10, <1>11, <1>12,
     <1>13, <1>14, <1>15, <1>16, <1>17 DEF Next

-----------------------------------------------------------------------------
(***************************************************************************)
(* The invariant of the chain holds of every request.                      *)
(***************************************************************************)
THEOREM Inductive == Spec => []IInv
BY InitIInv, NextIInv, PTL DEF Spec

(***************************************************************************)
(* With the group gates, with the handlers' own checks, or with both: the  *)
(* service only works for callers with the identity and the role of the    *)
(* route (RequireOperatorRole, requireOperator and their iam-system        *)
(* counterparts).                                                          *)
(***************************************************************************)
THEOREM OnlyPermittedAreServed == Spec => []OnlyPermittedServed
<1>1. IInv => OnlyPermittedServed
  BY DEF IInv
<1> QED
  BY <1>1, Inductive, PTL

(***************************************************************************)
(* With one role check or both, a caller who may not use a route cannot    *)
(* tell an existing department from a missing one, nor a good body from a  *)
(* bad one.                                                                *)
(***************************************************************************)
THEOREM RefusalsRevealNothing == Spec => []RefusalRevealsNothing
<1>1. IInv => RefusalRevealsNothing
  BY DEF IInv
<1> QED
  BY <1>1, Inductive, PTL

(***************************************************************************)
(* An API request whose handlers return is counted, and under the status   *)
(* its caller got unless the deadline answered first, whatever it answers  *)
(* with (requestMetricsMiddleware).  Requests that declare too large a     *)
(* body or panic are outside this, contrary to the documents.              *)
(***************************************************************************)
THEOREM AnswersAreCounted == Spec => []CountedAsSent
<1>1. IInv => CountedAsSent
  BY DEF IInv
<1> QED
  BY <1>1, Inductive, PTL

(***************************************************************************)
(* The errors this service writes, and the 401 it passes on, name their    *)
(* code: all but gin's 404 for an unknown path, the 503 of readyz and the  *)
(* answer of the deadline.                                                 *)
(***************************************************************************)
THEOREM ErrorsNameTheirCode == Spec => []ErrorsAreCoded
<1>1. IInv => ErrorsAreCoded
  BY DEF IInv
<1> QED
  BY <1>1, Inductive, PTL

(***************************************************************************)
(* Whatever roles are checked and wherever a handler panics: a success of  *)
(* the API was answered by the service, or is the empty 200 of a panic,    *)
(* and the deadline feigns none                                            *)
(* (NormalizeAuthErrors under the recovery of platform-gincommon).         *)
(***************************************************************************)
THEOREM SuccessesAreServed == Spec => []OnlyPanicsFeignSuccess
<1>1. IInv => OnlyPanicsFeignSuccess
  BY DEF IInv
<1> QED
  BY <1>1, Inductive, PTL
=============================================================================
