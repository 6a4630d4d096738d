------------------------------- MODULE PlanStore -------------------------------
(***************************************************************************)
(* The plans table and CAT-4, CAT-5: a fixed set of plan tiers that        *)
(* operators PATCH.  A PATCH passes three readings of the same field, the  *)
(* handler's (absent, null, a value), the service's validation and the     *)
(* column's type and CHECKs, and then races with other PATCHes of the plan *)
(* in a READ COMMITTED transaction of one UPDATE and at times a probe.     *)
(*                                                                         *)
(* A value of a field is abstracted to what those readings tell apart.     *)
(* The integers are themselves, with MaxInt for the largest int4.          *)
(***************************************************************************)
EXTENDS Integers, Sequences

CONSTANTS
  Clients,     \* request goroutines, each with its caller
  Plans,       \* the members of the tenant_plan enum
  Seed,        \* for each plan, the values of its seeded row
  Bodies,      \* the PATCH bodies callers send
  Legal,       \* for each field that holds no integer, its legal values
  Null,        \* JSON null
  Bad,         \* a value of the right JSON type that validation refuses
  Malformed,   \* a value of another JSON type, a fraction, an int64 overflow
  Unlimited,   \* NULL in a limit column
  None,        \* no plan, no row, no request, no answer
  MaxInt,      \* the largest value of an int4 column
  MaxVersion   \* bound: the versions callers send stay below it

VARIABLES
  rows,     \* committed rows
  history,  \* history variable: for each plan, its committed changes in order
  pc,       \* where the transaction of each client is
  req,      \* the PATCH each client waits for, None when it is idle
  pending,  \* the row a transaction wrote and has not committed
  answer    \* the answer the last step gave, with its request, if it gave one

vars == <<rows, history, pc, req, pending, answer>>

-----------------------------------------------------------------------------
LimitFields == {"workflow_template_limit", "tender_limit"}

IntFields == LimitFields \cup {"trial_duration_days"}

OtherFields == {"display_name", "sso_enabled", "custom_branding", "feature_set"}

Fields == IntFields \cup OtherFields

\* What the column of a field can hold, CHECK constraints included.
Column(f) ==
  IF f \in LimitFields THEN 0..MaxInt \cup {Unlimited}
  ELSE IF f \in IntFields THEN 0..MaxInt
  ELSE Legal[f]

\* What a body can hold for a field it mentions; no boolean is a bad one.
Json(f) ==
  {Null, Malformed} \cup IF f \in IntFields THEN Int
                         ELSE IF f = "sso_enabled" THEN Legal[f]
                         ELSE Legal[f] \cup {Bad}

Cell == 0..MaxInt \cup {Unlimited} \cup UNION {Legal[f] : f \in OtherFields}

Values == {v \in [Fields -> Cell] : \A f \in Fields : v[f] \in Column(f)}

Row == [values: Values, version: 1..MaxVersion]

EmptyBody == [f \in {} |-> Null]

Change == [expected: 0..(MaxVersion - 1), body: Bodies \cup {EmptyBody}, row: Row]

\* "known" is a history field: the version the caller expects had been
\* committed when the request arrived, so some read could show it.
Request == [plan: Plans, body: Bodies, expected: 0..(MaxVersion - 1),
            known: BOOLEAN]

Kinds == {"ok", "validation_error", "no_mutable_field", "invalid_feature_value",
          "not_found", "conflict", "out_of_range", "check_violation",
          "unavailable"}

Answer == [req: Request \cup {None}, kind: Kinds, row: Row \cup {None},
           version: 0..MaxVersion]

ASSUME PlanAssumption ==
  /\ MaxInt \in Nat /\ MaxVersion \in Nat \ {0}
  /\ Seed \in [Plans -> Values]
  /\ None \notin Plans /\ None \notin Request
  /\ \A f \in OtherFields : Legal[f] \cap {Null, Bad, Malformed} = {}
  /\ {Null, Bad, Malformed, Unlimited} \cap Int = {} /\ Null # Malformed
  /\ \A b \in Bodies : /\ DOMAIN b \subseteq Fields
                       /\ b = [f \in DOMAIN b |-> b[f]]
                       /\ \A f \in DOMAIN b : b[f] \in Json(f)

-----------------------------------------------------------------------------
(* The handler: what a body asks for.                                      *)

Misshapen(b) == \E f \in DOMAIN b : b[f] = Malformed

\* Mutant of Sent: null is taken for an absent field everywhere.
SentValues(b) == {f \in DOMAIN b : b[f] # Null}

\* The fields a PATCH sets: null leaves a nil pointer or a nil map, but for
\* the limits parseLimit tells it from an absent field.
Sent(b) == {f \in DOMAIN b : b[f] # Null \/ f \in LimitFields}

Patch(b) == [f \in Sent(b) |-> IF b[f] = Null THEN Unlimited ELSE b[f]]

(* The service: what it refuses, in the order of its checks.               *)

\* Mutant of Invalid: trial_duration_days is not checked.
InvalidLimits(p) == \E f \in DOMAIN p :
                      \/ f \in LimitFields /\ p[f] # Unlimited /\ p[f] < 0
                      \/ f \in {"display_name", "custom_branding"} /\ p[f] = Bad

Invalid(p) == \E f \in DOMAIN p :
                \/ f \in IntFields /\ p[f] # Unlimited /\ p[f] < 0
                \/ f \in {"display_name", "custom_branding"} /\ p[f] = Bad

\* Mutant of NestedFeature: nested values are accepted.
NoNestedFeature(p) == FALSE

NestedFeature(p) == "feature_set" \in DOMAIN p /\ p["feature_set"] = Bad

Verdict(plan, b) ==
  IF Misshapen(b) THEN "validation_error"
  ELSE IF plan \notin Plans THEN "not_found"
  ELSE IF Sent(b) = {} THEN "no_mutable_field"
  ELSE IF Invalid(Patch(b)) THEN "validation_error"
  ELSE IF NestedFeature(Patch(b)) THEN "invalid_feature_value"
  ELSE "accepted"

(* The repository and the table.                                           *)

\* An argument that does not fit an int4 parameter.
Overflows(p) == \E f \in DOMAIN p \cap IntFields : p[f] # Unlimited /\ p[f] > MaxInt

\* SET assigns the fields that were sent, feature_set as a whole ...
Assigned(row, p) ==
  [row EXCEPT !.values =
     [f \in Fields |-> IF f \in DOMAIN p THEN p[f] ELSE row.values[f]]]

\* ... and trg_touch_plans counts an update that changes some column.
Touched(old, new) ==
  IF new = old THEN new ELSE [new EXCEPT !.version = old.version + 1]

\* The CHECK constraints and enum types of the table; jsonb takes anything.
Checks(row) == \A f \in Fields \ {"feature_set"} : row.values[f] \in Column(f)

Holding(c) == pc[c] = "holding"

\* Mutant of Matches: the UPDATE forgot the version in its WHERE clause.
MatchesAnyVersion(r) == TRUE

\* WHERE code = $1 AND record_version = $2, on the committed rows.
Matches(r) == rows[r.plan].version = r.expected

\* Mutant of Locked: nobody waits for a row.
LockedNever(c) == FALSE

\* Some other transaction updated the plan and is still open.
Locked(c) == \E d \in Clients \ {c} : Holding(d) /\ req[d].plan = req[c].plan

Says(r, kind, row, version) ==
  [req |-> r, kind |-> kind, row |-> row, version |-> version]

\* The transaction of c ends and its caller is answered.
Finish(c, kind, row, version) ==
  /\ pc' = [pc EXCEPT ![c] = "idle"]
  /\ req' = [req EXCEPT ![c] = None]
  /\ pending' = [pending EXCEPT ![c] = None]
  /\ answer' = Says(req[c], kind, row, version)

Fail(c, kind) == Finish(c, kind, None, 0)

Hold(c, row) ==
  /\ pc' = [pc EXCEPT ![c] = "holding"]
  /\ pending' = [pending EXCEPT ![c] = row]
  /\ answer' = None
  /\ UNCHANGED req

GoTo(c, p) ==
  /\ pc' = [pc EXCEPT ![c] = p]
  /\ answer' = None
  /\ UNCHANGED <<req, pending>>

-----------------------------------------------------------------------------
Init ==
  /\ rows = [p \in Plans |-> [values |-> Seed[p], version |-> 1]]
  /\ history = [p \in Plans |->
                  <<[expected |-> 0, body |-> EmptyBody, row |-> rows[p]]>>]
  /\ pc = [c \in Clients |-> "idle"]
  /\ req = [c \in Clients |-> None]
  /\ pending = [c \in Clients |-> None]
  /\ answer = None

\* CAT-4: one SELECT by code, which may fail; None stands for a code that is
\* no tier and never gets to the table.
Get(c) ==
  \E plan \in Plans \cup {None} :
    /\ pc[c] = "idle"
    /\ \/ plan = None /\ answer' = Says(None, "not_found", None, 0)
       \/ plan # None /\ answer' = Says(None, "ok", rows[plan], 0)
       \/ plan # None /\ answer' = Says(None, "unavailable", None, 0)
    /\ UNCHANGED <<rows, history, pc, req, pending>>

\* CAT-5 up to the transaction: refused, or on its way to the table.
SubmitPatch(c) ==
  \E plan \in Plans \cup {None}, b \in Bodies, expected \in 0..(MaxVersion - 1) :
    /\ pc[c] = "idle"
    /\ UNCHANGED <<rows, history, pending>>
    /\ \/ /\ Verdict(plan, b) # "accepted"
          /\ answer' = Says(None, Verdict(plan, b), None, 0)
          /\ UNCHANGED <<pc, req>>
       \/ /\ Verdict(plan, b) = "accepted"
          /\ pc' = [pc EXCEPT ![c] = "ready"]
          /\ req' = [req EXCEPT ![c] =
                       [plan |-> plan, body |-> b, expected |-> expected,
                        known |-> expected <= rows[plan].version]]
          /\ answer' = None

\* The row lock is held: the CHECKs decide.
WriteRow(c) ==
  LET old == rows[req[c].plan]
      new == Assigned(old, Patch(req[c].body))
  IN \/ ~Checks(new) /\ Fail(c, "check_violation")
     \/ Checks(new) /\ Hold(c, Touched(old, new))

\* UPDATE ... RETURNING.  The driver encodes the arguments first; a statement
\* that waited for the row matches its WHERE clause again.
Update(c) ==
  /\ pc[c] \in {"ready", "waiting"}
  /\ \/ /\ Overflows(Patch(req[c].body))
        /\ Fail(c, "out_of_range")
     \/ /\ ~Overflows(Patch(req[c].body))
        /\ Matches(req[c])
        /\ Locked(c)
        /\ pc[c] = "ready"
        /\ GoTo(c, "waiting")
     \/ /\ ~Overflows(Patch(req[c].body))
        /\ Matches(req[c])
        /\ ~Locked(c)
        /\ WriteRow(c)
     \/ /\ ~Overflows(Patch(req[c].body))
        /\ ~Matches(req[c])
        /\ pc[c] = "waiting" => ~Locked(c)
        /\ GoTo(c, "probing")
  /\ UNCHANGED <<rows, history>>

\* Mutant of Probe: the 409 repeats the version the caller sent.
ProbeEchoes(c) ==
  /\ pc[c] = "probing"
  /\ Finish(c, "conflict", None, req[c].expected)
  /\ UNCHANGED <<rows, history>>

\* SELECT record_version, a second snapshot.  Plans are never deleted, so the
\* probe of a member of the enum finds its row.
Probe(c) ==
  /\ pc[c] = "probing"
  /\ Finish(c, "conflict", None, rows[req[c].plan].version)
  /\ UNCHANGED <<rows, history>>

\* Mutant of Install: the answer is sent although nothing was committed.
InstallNothing(c) == UNCHANGED <<rows, history>>

\* COMMIT: the pending row becomes the committed one.
Install(c) ==
  LET plan == req[c].plan
      change == [expected |-> req[c].expected, body |-> req[c].body,
                 row |-> pending[c]]
  IN /\ rows' = [rows EXCEPT ![plan] = pending[c]]
     /\ history' = IF rows[plan] = pending[c] THEN history
                   ELSE [history EXCEPT ![plan] = Append(@, change)]

Commit(c) ==
  /\ Holding(c)
  /\ Install(c)
  /\ Finish(c, "ok", pending[c], 0)

\* The change is made; its acknowledgement or the HTTP answer is lost.
CommitUnacknowledged(c) ==
  /\ Holding(c)
  /\ Install(c)
  /\ Fail(c, "unavailable")

\* A cancelled context, a timeout, a broken connection or a dead pod before
\* the commit: PostgreSQL rolls back.
Abort(c) ==
  /\ pc[c] # "idle"
  /\ Fail(c, "unavailable")
  /\ UNCHANGED <<rows, history>>

Step(c) ==
  \/ Get(c) \/ SubmitPatch(c) \/ Update(c) \/ Probe(c)
  \/ Commit(c) \/ CommitUnacknowledged(c) \/ Abort(c)

Next == \E c \in Clients : Step(c)

Spec == Init /\ [][Next]_vars

-----------------------------------------------------------------------------
TypeOK ==
  /\ rows \in [Plans -> Row]
  /\ history \in [Plans -> Seq(Change)]
  /\ pc \in [Clients -> {"idle", "ready", "waiting", "holding", "probing"}]
  /\ req \in [Clients -> Request \cup {None}]
  /\ pending \in [Clients -> Row \cup {None}]
  /\ answer \in Answer \cup {None}

(***************************************************************************)
(* No lost update: the n-th committed state of a plan has record_version   *)
(* n, and a PATCH made it that expected the state before it, so an         *)
(* operator never overwrites limits or a feature_set it has not seen, not  *)
(* even by repeating a PATCH whose answer was lost (PlanRepository.Update, *)
(* trg_touch_plans).                                                       *)
(***************************************************************************)
NoLostUpdate ==
  \A plan \in Plans :
    \A n \in DOMAIN history[plan] : /\ history[plan][n].row.version = n
                                    /\ history[plan][n].expected = n - 1

(***************************************************************************)
(* Each committed change differs from the state before it in what its body *)
(* mentions and in nothing else: a limit becomes unlimited when, and only  *)
(* when, the body says null, null elsewhere changes nothing, and no        *)
(* concurrent PATCH leaks into the row (parseLimit, PlanPatch, the SET     *)
(* list of PlanRepository.Update).                                         *)
(***************************************************************************)
OnlySentFieldsChange ==
  \A plan \in Plans :
    \A n \in 2..Len(history[plan]) :
      LET body == history[plan][n].body
          old == history[plan][n - 1].row.values
          new == history[plan][n].row.values
      IN \A f \in Fields :
           new[f] = IF f \notin DOMAIN body THEN old[f]
                    ELSE IF body[f] # Null THEN body[f]
                    ELSE IF f \in LimitFields THEN Unlimited
                    ELSE old[f]

(***************************************************************************)
(* The service's validation is at least as strict as the CHECKs of the     *)
(* table: no PATCH that reaches the table is refused there by a CHECK,     *)
(* which would surface as a 500 (the comment on PlanService.Patch).        *)
(***************************************************************************)
ChecksMirrored == answer # None => answer.kind # "check_violation"

(***************************************************************************)
(* A 409 for a version that had been committed gives the caller a strictly *)
(* newer one to re-read, although the probe is a second statement          *)
(* (planUpdateFromTx).                                                     *)
(***************************************************************************)
ConflictReportsNewer ==
  answer # None /\ answer.kind = "conflict" /\ answer.req.known =>
    /\ answer.version > answer.req.expected
    /\ answer.version <= rows[answer.req.plan].version

(***************************************************************************)
(* A 200 to a PATCH shows a state that was really committed, at the        *)
(* version after the one the caller expected, or at that version when the  *)
(* PATCH changed nothing.                                                  *)
(***************************************************************************)
OkIsCommitted ==
  answer # None /\ answer.kind = "ok" /\ answer.req # None =>
    LET r == answer.req
    IN /\ \E n \in DOMAIN history[r.plan] : history[r.plan][n].row = answer.row
       /\ answer.row.version \in {r.expected, r.expected + 1}

(***************************************************************************)
(* What the comment on PlanService.Patch promises of invalid values: they  *)
(* surface as a validation error.  An integer above the int4 range does    *)
(* not: it passes the service and fails at the database driver.            *)
(***************************************************************************)
InvalidValuesAreRefused ==
  answer # None => answer.kind \notin {"check_violation", "out_of_range"}

-----------------------------------------------------------------------------
\* What holds of a PATCH from its arrival to its answer.
RequestsInv ==
  \A c \in Clients : pc[c] # "idle" =>
    LET r == req[c]
    IN /\ r \in Request
       /\ Verdict(r.plan, r.body) = "accepted"
       /\ pc[c] # "ready" => ~Overflows(Patch(r.body))
       /\ r.known => /\ r.expected <= rows[r.plan].version
                     /\ pc[c] = "probing" => r.expected < rows[r.plan].version

\* A client without a transaction waits for no answer.
IdleInv == \A c \in Clients : pc[c] = "idle" => req[c] = None

\* An open transaction wrote its row from the row that is still committed.
HoldingInv ==
  \A c \in Clients : Holding(c) =>
    LET r == req[c]
        old == rows[r.plan]
    IN /\ Matches(r)
       /\ pending[c] \in Row
       /\ pending[c] = Touched(old, Assigned(old, Patch(r.body)))

\* Open transactions exclude each other on a plan.
ExclusionInv ==
  \A c, d \in Clients :
    c # d /\ Holding(c) /\ Holding(d) => req[c].plan # req[d].plan

\* The change log of a plan ends with its row.
LedgerInv ==
  \A plan \in Plans :
    /\ Len(history[plan]) = rows[plan].version
    /\ history[plan][rows[plan].version].row = rows[plan]

(***************************************************************************)
(* The inductive invariant: the table properties, and what makes them last *)
(* while transactions are open.                                            *)
(***************************************************************************)
IInv ==
  /\ TypeOK
  /\ RequestsInv /\ IdleInv /\ HoldingInv /\ ExclusionInv /\ LedgerInv
  /\ NoLostUpdate /\ OnlySentFieldsChange /\ ChecksMirrored

-----------------------------------------------------------------------------
\* The endpoints as each caller sees them: PATCHes that happen at an instant.
Atomic == INSTANCE AtomicPlans

(***************************************************************************)
(* Every PATCH is atomic and is read once.  What the handler, the service, *)
(* the driver and the table make of a body field by field is what the body *)
(* means as a whole, and whatever interleaves with its statements, it is   *)
(* answered once, with what it would be answered if all of it happened on  *)
(* the plan as it is at that moment (PlanHandler.Patch, PlanService.Patch, *)
(* planUpdateFromTx under READ COMMITTED).                                 *)
(***************************************************************************)
RequestsAreAtomic == Atomic!Spec
=============================================================================
