------------------------------ MODULE AtomicPlans ------------------------------
(***************************************************************************)
(* What CAT-4 and CAT-5 promise to each caller.  A body is read once, as a *)
(* whole: it is sound when every field it mentions holds a value the field *)
(* may have, or null, and it asks for some change.  A sound PATCH happens  *)
(* at the instant of its answer, on the plan as it is then; what is not    *)
(* sound never comes near a plan.                                          *)
(*                                                                         *)
(* A 409 names a version other than the one the caller sent, provided that *)
(* one had been committed when the caller asked.                           *)
(***************************************************************************)
EXTENDS Integers

CONSTANTS Clients, Plans, Seed, Bodies, Legal, Null, Unlimited, None,
          MaxInt, MaxVersion

VARIABLES
  rows,    \* the committed plans
  req,     \* the PATCH each client waits for, None when it is idle
  answer   \* the answer this step gives, with its PATCH, None for other steps

vars == <<rows, req, answer>>

Limits == {"workflow_template_limit", "tender_limit"}

Numbers == Limits \cup {"trial_duration_days"}

Fields == Numbers \cup {"display_name", "sso_enabled", "custom_branding", "feature_set"}

\* What a field may be set to; null lifts a limit and leaves other fields alone.
Allowed(f) == IF f \in Numbers THEN Nat ELSE Legal[f]

Sound(b) ==
  /\ \A f \in DOMAIN b : b[f] = Null \/ b[f] \in Allowed(f)
  /\ \E f \in DOMAIN b : b[f] # Null \/ f \in Limits

\* The numbers of a body fit the columns.
Fits(b) == \A f \in DOMAIN b \cap Numbers : b[f] = Null \/ b[f] <= MaxInt

Request == [plan: Plans, body: Bodies, expected: 0..(MaxVersion - 1),
            known: BOOLEAN]

\* A PATCH expects the version the plan is at.
Current(r) == r.expected = rows[r.plan].version

\* The values of a plan after a PATCH.
Wanted(old, b) ==
  [f \in Fields |-> IF f \notin DOMAIN b THEN old[f]
                    ELSE IF b[f] # Null THEN b[f]
                    ELSE IF f \in Limits THEN Unlimited
                    ELSE old[f]]

\* The version counts the PATCHes that change something.
Patched(r) ==
  LET old == rows[r.plan]
      values == Wanted(old.values, r.body)
  IN [values |-> values,
      version |-> old.version + IF values = old.values THEN 0 ELSE 1]

-----------------------------------------------------------------------------
Init ==
  /\ rows = [p \in Plans |-> [values |-> Seed[p], version |-> 1]]
  /\ req = [c \in Clients |-> None]
  /\ answer = None

Says(r, kind, row, version) ==
  answer' = [req |-> r, kind |-> kind, row |-> row, version |-> version]

\* A GET is answered at once, and so is a body that is not sound.
Get ==
  /\ \/ \E plan \in Plans : Says(None, "ok", rows[plan], 0)
     \/ Says(None, "not_found", None, 0) \/ Says(None, "unavailable", None, 0)
  /\ UNCHANGED <<rows, req>>

Reject ==
  /\ \E b \in Bodies : ~Sound(b)
  /\ \E kind \in {"validation_error", "no_mutable_field", "invalid_feature_value"} :
       Says(None, kind, None, 0)
  /\ UNCHANGED <<rows, req>>

Ask(c) ==
  /\ req[c] = None
  /\ req'[c] \in Request
  /\ Sound(req'[c].body)
  /\ req'[c].known <=> req'[c].expected <= rows[req'[c].plan].version
  /\ req' = [req EXCEPT ![c] = req'[c]]
  /\ answer' = None
  /\ UNCHANGED rows

Reply(c, kind, row, version) ==
  /\ req' = [req EXCEPT ![c] = None]
  /\ Says(req[c], kind, row, version)

\* The change is made; its caller may not come to know.
Write(c) ==
  LET r == req[c]
  IN /\ Fits(r.body) /\ Current(r)
     /\ rows' = [rows EXCEPT ![r.plan] = Patched(r)]
     /\ Reply(c, "ok", Patched(r), 0) \/ Reply(c, "unavailable", None, 0)

\* What a number above the columns' range gets is not pretty, but no change.
Refuse(c) ==
  LET r == req[c]
  IN /\ \/ ~Fits(r.body) /\ Reply(c, "out_of_range", None, 0)
        \/ /\ Fits(r.body)
           /\ r.known => r.expected < rows[r.plan].version
           /\ Reply(c, "conflict", None, rows[r.plan].version)
     /\ UNCHANGED rows

\* The PATCH did not happen.
Lose(c) == Reply(c, "unavailable", None, 0) /\ UNCHANGED rows

\* Work behind the scenes: nobody is answered.
Work ==
  /\ answer' = None
  /\ UNCHANGED <<rows, req>>

Next ==
  \/ Work \/ Get \/ Reject
  \/ \E c \in Clients :
       \/ Ask(c)
       \/ req[c] # None /\ (Write(c) \/ Refuse(c) \/ Lose(c))

Spec == Init /\ [][Next]_vars
=============================================================================
