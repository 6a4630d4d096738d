------------------------------ MODULE MCPlanStore ------------------------------
(***************************************************************************)
(* PlanStore on small instances.  The bodies are one of every kind the     *)
(* three readings of a PATCH tell apart, and pairs that set one limit and  *)
(* lift the other.                                                         *)
(***************************************************************************)
EXTENDS PlanStore, TLC

CONSTANTS starter, enterprise,
          name0, name1, off, on, plain, logo, basic, extended

MCLegal == [display_name |-> {name0, name1}, sso_enabled |-> {off, on},
            custom_branding |-> {plain, logo}, feature_set |-> {basic, extended}]

Capped == [display_name |-> name0, workflow_template_limit |-> 1,
           tender_limit |-> 1, trial_duration_days |-> 1, sso_enabled |-> off,
           custom_branding |-> plain, feature_set |-> basic]

\* The enterprise tier is seeded without limits.
MCSeed == [p \in Plans |-> IF p = enterprise
             THEN [Capped EXCEPT !.workflow_template_limit = Unlimited,
                                 !.tender_limit = Unlimited]
             ELSE Capped]

\* Bodies that PATCH the row.
Accepted == {
  ("workflow_template_limit" :> Null) @@ ("display_name" :> Null),
  ("workflow_template_limit" :> 0) @@ ("tender_limit" :> Null),
  ("tender_limit" :> MaxInt) @@ ("feature_set" :> extended),
  ("trial_duration_days" :> 0)}

\* Bodies that are refused on the way.
Refused == {
  EmptyBody,
  "display_name" :> Null, "trial_duration_days" :> Null, "feature_set" :> Null,
  "display_name" :> Bad, "custom_branding" :> Bad, "feature_set" :> Bad,
  "tender_limit" :> -1, "trial_duration_days" :> -1,
  "workflow_template_limit" :> Malformed, "sso_enabled" :> Malformed,
  "trial_duration_days" :> MaxInt + 1}

MCBodies == Accepted \cup Refused

ClientSymmetry == Permutations(Clients)
=============================================================================
