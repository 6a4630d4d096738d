---------------------------- MODULE DepartmentStore ----------------------------
(***************************************************************************)
(* The departments table as the repository uses it: every call of          *)
(* DepartmentRepository is one READ COMMITTED transaction, and the calls   *)
(* of many request goroutines, in several replicas, interleave at the      *)
(* granularity of SQL statements.                                          *)
(*                                                                         *)
(* A client stands for one request goroutine and its caller: it submits    *)
(* requests one after the other, and may repeat one whose answer it lost.  *)
(* The UPDATE locks the row it matched until its transaction ends; a       *)
(* second UPDATE that matched the same row waits, and then PostgreSQL      *)
(* evaluates its WHERE clause again on the row as it is by then.  The      *)
(* triggers and CHECK constraints of the migration run inside the UPDATE.  *)
(***************************************************************************)
EXTENDS Integers, Sequences

CONSTANTS
  Clients,      \* request goroutines, each with its caller
  Ids,          \* department ids (uuids)
  Codes, Names, \* non-blank department codes and names
  Blank,        \* a string that is empty once trimmed
  Unset,        \* a field absent from a PATCH body (a nil pointer)
  None,         \* no row, no request, no answer
  SeedId, SeedCode, SeedName,   \* the system department of the migration
  MaxVersion    \* bound: the versions clients send stay below it

ASSUME StoreAssumption ==
  /\ SeedId \in Ids /\ SeedCode \in Codes /\ SeedName \in Names
  /\ Blank \notin Names /\ Blank \notin Codes
  /\ Unset \notin Names /\ Unset \notin BOOLEAN /\ Unset # Blank
  /\ MaxVersion \in Nat \ {0}

VARIABLES
  rows,     \* committed rows: a function on the ids that exist
  history,  \* history variable: for each id, its committed changes in order
  pc,       \* where the transaction of each client is
  req,      \* the request each client waits for, None when it is idle
  pending,  \* the row version a transaction wrote and has not committed
  answer    \* the answer the last step gave, with its request, if it gave one

vars == <<rows, history, pc, req, pending, answer>>

-----------------------------------------------------------------------------
Row == [code: Codes, name: Names, isSystem: BOOLEAN, isActive: BOOLEAN,
        version: 1..MaxVersion]

\* "known" is a history field: when the request arrived, the row existed and
\* the version it expects had been committed, so some read could show it.
Request == [op: {"get", "create", "patch"}, id: Ids,
            code: Codes, name: Names \cup {Unset}, isSystem: BOOLEAN,
            isActive: BOOLEAN \cup {Unset}, expected: 0..(MaxVersion - 1),
            known: BOOLEAN]

\* nil is no request.
ASSUME NoneAssumption == None \notin Request

Kinds == {"ok", "validation_error", "no_mutable_field", "not_found",
          "conflict", "duplicate_code", "name_immutable", "cannot_retire",
          "unavailable"}

Answer == [req: Request \cup {None}, kind: Kinds, row: Row \cup {None},
           version: 0..MaxVersion]

Change == [expected: 0..(MaxVersion - 1), row: Row]

SeedRow == [code |-> SeedCode, name |-> SeedName, isSystem |-> TRUE,
            isActive |-> TRUE, version |-> 1]

Known(id, expected) == id \in DOMAIN rows /\ expected <= rows[id].version

Holding(c) == pc[c] = "holding"

\* The row a PATCH leaves: SET touches the fields that are present ...
Assigned(row, r) ==
  [row EXCEPT !.name = IF r.name = Unset THEN row.name ELSE r.name,
              !.isActive = IF r.isActive = Unset THEN row.isActive ELSE r.isActive]

\* Mutant of Touched: the trigger counts every UPDATE.
TouchedAlways(old, new) == [new EXCEPT !.version = old.version + 1]

\* Mutant of Touched: the trigger only looks at the name.
TouchedByName(old, new) ==
  IF new.name = old.name THEN new ELSE [new EXCEPT !.version = old.version + 1]

\* ... and touch_row counts the update when some column really changes.
Touched(old, new) ==
  IF new = old THEN new ELSE [new EXCEPT !.version = old.version + 1]

\* trg_system_department_name_immutable, a BEFORE trigger, raises first ...
NameRule(old, new) == old.isSystem => new.name = old.name

\* Mutant of RetireRule: the migration forgot the CHECK.
NoRetireRule(new) == TRUE

\* ... and chk_system_department_active is checked on the row it let through.
RetireRule(new) == ~(new.isSystem /\ ~new.isActive)

\* Mutant of NewRow: record_version starts at 0.
NewRowFromZero(r) == [code |-> r.code, name |-> r.name, isSystem |-> r.isSystem,
                      isActive |-> TRUE, version |-> 0]

NewRow(r) == [code |-> r.code, name |-> r.name, isSystem |-> r.isSystem,
              isActive |-> TRUE, version |-> 1]

\* Mutant of Matches: the UPDATE forgot the version in its WHERE clause.
MatchesAnyVersion(r) == r.id \in DOMAIN rows

\* WHERE id = $1 AND record_version = $2, on the committed rows.
Matches(r) == r.id \in DOMAIN rows /\ rows[r.id].version = r.expected

\* Mutant of Locked: nobody waits for a row.
LockedNever(c) == FALSE

\* Some other transaction updated the row and is still open.
Locked(c) == \E d \in Clients \ {c} : /\ Holding(d)
                                      /\ req[d].op = "patch"
                                      /\ req[d].id = req[c].id

CodeTaken(code) == \E id \in DOMAIN rows : rows[id].code = code

\* Mutants of CodeInFlight: the code is checked with a SELECT and not by an
\* index; a creator waits for every other creator of the code.
CodeInFlightIgnored(c) == FALSE

CodeWanted(c) == \E d \in Clients \ {c} : /\ pc[d] # "idle"
                                          /\ req[d].op = "create"
                                          /\ req[d].code = req[c].code

\* Some other transaction put the code in uq_departments_code and is open.
CodeInFlight(c) == \E d \in Clients \ {c} : /\ Holding(d)
                                            /\ req[d].op = "create"
                                            /\ req[d].code = req[c].code

\* uuid.New(): an id no row and no open insert has.
FreshIds == {id \in Ids \ DOMAIN rows :
               \A d \in Clients : pc[d] # "idle" /\ req[d].op = "create"
                                    => req[d].id # id}

\* The answer to a request: a row with a 200, a version with a 409.
Says(r, kind, row, version) ==
  [req |-> r, kind |-> kind, row |-> row, version |-> version]

\* The transaction of c ends and its caller is answered.
Finish(c, kind, row, version) ==
  /\ pc' = [pc EXCEPT ![c] = "idle"]
  /\ req' = [req EXCEPT ![c] = None]
  /\ pending' = [pending EXCEPT ![c] = None]
  /\ answer' = Says(req[c], kind, row, version)

Fail(c, kind) == Finish(c, kind, None, 0)

\* The transaction of c has written row and keeps its lock until it ends.
Hold(c, row) ==
  /\ pc' = [pc EXCEPT ![c] = "holding"]
  /\ pending' = [pending EXCEPT ![c] = row]
  /\ answer' = None
  /\ UNCHANGED req

\* The transaction of c moves on to place p and nothing else happens.
GoTo(c, p) ==
  /\ pc' = [pc EXCEPT ![c] = p]
  /\ answer' = None
  /\ UNCHANGED <<req, pending>>

-----------------------------------------------------------------------------
Init ==
  /\ rows = [i \in {SeedId} |-> SeedRow]
  /\ history = [i \in {SeedId} |-> <<[expected |-> 0, row |-> SeedRow]>>]
  /\ pc = [c \in Clients |-> "idle"]
  /\ req = [c \in Clients |-> None]
  /\ pending = [c \in Clients |-> None]
  /\ answer = None

Submit(c, r) ==
  /\ pc[c] = "idle"
  /\ pc' = [pc EXCEPT ![c] = "ready"]
  /\ req' = [req EXCEPT ![c] = r]
  /\ answer' = None
  /\ UNCHANGED <<rows, history, pending>>

\* The service refuses before any transaction is opened.
Refuse(c, kind) ==
  /\ pc[c] = "idle"
  /\ answer' = Says(None, kind, None, 0)
  /\ UNCHANGED <<rows, history, pc, req, pending>>

\* CAT-7: read one department; the read is not cached.
SubmitGet(c) ==
  \E id \in Ids :
    Submit(c, [op |-> "get", id |-> id, code |-> SeedCode, name |-> Unset,
               isSystem |-> FALSE, isActive |-> Unset, expected |-> 0,
               known |-> id \in DOMAIN rows])

\* CAT-1: create a department, active whatever the body says.
SubmitCreate(c) ==
  \E id \in FreshIds, code \in Codes \cup {Blank}, name \in Names \cup {Blank},
     isSystem \in BOOLEAN :
    IF code = Blank \/ name = Blank
      THEN Refuse(c, "validation_error")
      ELSE Submit(c, [op |-> "create", id |-> id, code |-> code, name |-> name,
                      isSystem |-> isSystem, isActive |-> Unset,
                      expected |-> 0, known |-> FALSE])

\* CAT-2: rename, retire or reactivate, at any version the caller believes in.
SubmitPatch(c) ==
  \E id \in Ids, name \in Names \cup {Unset, Blank},
     isActive \in BOOLEAN \cup {Unset}, expected \in 0..(MaxVersion - 1) :
    IF name = Unset /\ isActive = Unset
      THEN Refuse(c, "no_mutable_field")
      ELSE IF name = Blank
        THEN Refuse(c, "validation_error")
        ELSE Submit(c, [op |-> "patch", id |-> id, code |-> SeedCode,
                        name |-> name, isSystem |-> FALSE,
                        isActive |-> isActive, expected |-> expected,
                        known |-> Known(id, expected)])

-----------------------------------------------------------------------------
\* SELECT ... WHERE id = $1.
Read(c) ==
  /\ pc[c] = "ready"
  /\ req[c].op = "get"
  /\ IF req[c].id \in DOMAIN rows
       THEN Finish(c, "ok", rows[req[c].id], 0)
       ELSE Fail(c, "not_found")
  /\ UNCHANGED <<rows, history>>

\* INSERT: the unique index answers at once for a committed code, and makes
\* the statement wait for an open transaction that inserted the same code.
Insert(c) ==
  /\ pc[c] \in {"ready", "waiting"}
  /\ req[c].op = "create"
  /\ \/ /\ CodeTaken(req[c].code)
        /\ Fail(c, "duplicate_code")
     \/ /\ ~CodeTaken(req[c].code)
        /\ CodeInFlight(c)
        /\ pc[c] = "ready"
        /\ GoTo(c, "waiting")
     \/ /\ ~CodeTaken(req[c].code)
        /\ ~CodeInFlight(c)
        /\ Hold(c, NewRow(req[c]))
  /\ UNCHANGED <<rows, history>>

\* The triggers and CHECKs of an UPDATE that holds the row lock.
WriteRow(c) ==
  LET old == rows[req[c].id]
      new == Assigned(old, req[c])
  IN \/ /\ ~NameRule(old, new)
        /\ Fail(c, "name_immutable")
     \/ /\ NameRule(old, new)
        /\ ~RetireRule(new)
        /\ Fail(c, "cannot_retire")
     \/ /\ NameRule(old, new)
        /\ RetireRule(new)
        /\ Hold(c, Touched(old, new))

\* UPDATE ... WHERE id = $1 AND record_version = $2 RETURNING.  The snapshot
\* decides at first whether to wait; a statement that waited matches again.
Update(c) ==
  /\ pc[c] \in {"ready", "waiting"}
  /\ req[c].op = "patch"
  /\ \/ /\ Matches(req[c])
        /\ Locked(c)
        /\ pc[c] = "ready"
        /\ GoTo(c, "waiting")
     \/ /\ Matches(req[c])
        /\ ~Locked(c)
        /\ WriteRow(c)
     \/ /\ ~Matches(req[c])
        /\ pc[c] = "waiting" => ~Locked(c)
        /\ GoTo(c, "probing")
  /\ UNCHANGED <<rows, history>>

\* Mutant of Probe: the 409 repeats the version the caller sent.
ProbeEchoes(c) ==
  /\ pc[c] = "probing"
  /\ IF req[c].id \in DOMAIN rows
       THEN Finish(c, "conflict", None, req[c].expected)
       ELSE Fail(c, "not_found")
  /\ UNCHANGED <<rows, history>>

\* SELECT record_version, a second statement and so a second snapshot.
Probe(c) ==
  /\ pc[c] = "probing"
  /\ IF req[c].id \in DOMAIN rows
       THEN Finish(c, "conflict", None, rows[req[c].id].version)
       ELSE Fail(c, "not_found")
  /\ UNCHANGED <<rows, history>>

-----------------------------------------------------------------------------
\* Mutant of Install: the answer is sent although nothing was committed.
InstallNothing(c) == UNCHANGED <<rows, history>>

\* COMMIT: the pending row becomes the committed one.
Install(c) ==
  LET id == req[c].id
      changed == id \notin DOMAIN rows \/ rows[id] # pending[c]
      past == IF id \in DOMAIN history THEN history[id] ELSE <<>>
      log == IF changed
               THEN Append(past, [expected |-> req[c].expected, row |-> pending[c]])
               ELSE past
  IN /\ rows' = [i \in DOMAIN rows \cup {id} |->
                   IF i = id THEN pending[c] ELSE rows[i]]
     /\ history' = [i \in DOMAIN history \cup {id} |->
                      IF i = id THEN log ELSE history[i]]

Commit(c) ==
  /\ Holding(c)
  /\ Install(c)
  /\ Finish(c, "ok", pending[c], 0)

\* The commit happens but its acknowledgement, or the HTTP answer, is lost:
\* the connection breaks, the request's deadline passes or the pod dies.
CommitUnacknowledged(c) ==
  /\ Holding(c)
  /\ Install(c)
  /\ Fail(c, "unavailable")

\* A cancelled context, a statement timeout, a broken connection or a dead
\* pod before the commit: PostgreSQL rolls the transaction back.
Abort(c) ==
  /\ pc[c] # "idle"
  /\ Fail(c, "unavailable")
  /\ UNCHANGED <<rows, history>>

Statement(c) == Read(c) \/ Insert(c) \/ Update(c) \/ Probe(c)

Next ==
  \E c \in Clients :
    \/ SubmitGet(c) \/ SubmitCreate(c) \/ SubmitPatch(c)
    \/ Read(c) \/ Insert(c) \/ Update(c) \/ Probe(c)
    \/ Commit(c) \/ CommitUnacknowledged(c) \/ Abort(c)

\* PostgreSQL runs the statements it is given and grants a row lock to its
\* waiters in the order they came, so a waiter that can run again and again
\* does run (SF); an open transaction is committed or rolled back (WF).
Fairness ==
  \A c \in Clients : SF_vars(Statement(c)) /\ WF_vars(Commit(c))

Spec == Init /\ [][Next]_vars

FairSpec == Spec /\ Fairness

-----------------------------------------------------------------------------
TypeOK ==
  /\ DOMAIN rows \subseteq Ids
  /\ rows \in [DOMAIN rows -> Row]
  /\ history \in [DOMAIN rows -> Seq(Change)]
  /\ pc \in [Clients -> {"idle", "ready", "waiting", "holding", "probing"}]
  /\ req \in [Clients -> Request \cup {None}]
  /\ pending \in [Clients -> Row \cup {None}]
  /\ answer \in Answer \cup {None}

(***************************************************************************)
(* No lost update: the n-th committed state of a department has            *)
(* record_version n and was written by a request that expected exactly     *)
(* the state before it.  So of two requests that read the same version,    *)
(* or of a request and its repetition, at most one is applied              *)
(* (department_repository.go: the WHERE clause; migration: touch_row).     *)
(***************************************************************************)
NoLostUpdate ==
  \A id \in DOMAIN rows :
    \A n \in DOMAIN history[id] : /\ history[id][n].row.version = n
                                  /\ history[id][n].expected = n - 1

(***************************************************************************)
(* No sequence of accepted requests changes what is immutable: a           *)
(* department keeps its code and is_system (D-10, D-2), and a system       *)
(* department keeps its name and stays active as well (D-11, D-9).         *)
(***************************************************************************)
ImmutableFieldsKept ==
  \A id \in DOMAIN rows :
    \A n \in DOMAIN history[id] :
      LET first == history[id][1].row
          row == history[id][n].row
      IN /\ row.code = first.code
         /\ row.isSystem = first.isSystem
         /\ row.isSystem => row.isActive /\ row.name = first.name

(***************************************************************************)
(* A code names one department, even when two operators create it at the   *)
(* same time (uq_departments_code).                                        *)
(***************************************************************************)
UniqueCodes ==
  \A i, j \in DOMAIN rows : rows[i].code = rows[j].code => i = j

(***************************************************************************)
(* A 200 shows the caller a state that was really committed, in which its  *)
(* PATCH holds, one version after the one it expected, or at that same     *)
(* version when the PATCH changed nothing.                                 *)
(***************************************************************************)
OkIsCommitted ==
  answer # None /\ answer.kind = "ok" =>
    LET row == answer.row
        r == answer.req
    IN /\ r.id \in DOMAIN rows
       /\ \E n \in DOMAIN history[r.id] : history[r.id][n].row = row
       /\ r.op = "patch" => /\ r.name \in {Unset, row.name}
                            /\ r.isActive \in {Unset, row.isActive}
                            /\ row.version \in {r.expected, r.expected + 1}

(***************************************************************************)
(* A caller whose version had been committed before it asked is never told *)
(* 404, and a 409 gives it a strictly newer version to re-read: the probe  *)
(* is a second statement on a second snapshot, and still cannot contradict *)
(* the UPDATE that matched nothing (deptUpdateFromTx).                     *)
(***************************************************************************)
ConflictReportsNewer ==
  answer # None /\ answer.kind \in {"conflict", "not_found"} /\ answer.req.known =>
    /\ answer.kind = "conflict"
    /\ answer.version > answer.req.expected
    /\ answer.version <= rows[answer.req.id].version

-----------------------------------------------------------------------------
(* The invariant that is preserved step by step, in six parts.             *)

\* What holds of a request from its arrival to its answer: a create keeps the
\* id it was given to itself, a version that was committed stays committed.
RequestsInv ==
  \A c \in Clients : pc[c] # "idle" =>
    LET r == req[c]
    IN /\ r \in Request
       /\ pc[c] \in {"waiting", "holding"} => r.op \in {"create", "patch"}
       /\ pc[c] = "probing" => r.op = "patch"
       /\ r.op = "create" => /\ r.name \in Names
                             /\ r.id \notin DOMAIN rows
                             /\ r.expected = 0
       /\ r.known => /\ r.id \in DOMAIN rows
                     /\ r.expected <= rows[r.id].version
                     /\ pc[c] = "probing" => r.expected < rows[r.id].version

\* A client without a transaction waits for no answer.
IdleInv == \A c \in Clients : pc[c] = "idle" => req[c] = None

FreshInv ==
  \A c, d \in Clients :
    /\ c # d
    /\ pc[c] # "idle" /\ pc[d] # "idle"
    /\ req[c].op = "create" /\ req[d].op = "create"
    => req[c].id # req[d].id

\* An open transaction wrote its row from the row that is still committed.
HoldingInv ==
  \A c \in Clients : Holding(c) =>
    LET r == req[c]
    IN /\ r.op = "create" => pending[c] = NewRow(r) /\ ~CodeTaken(r.code)
       /\ r.op = "patch" =>
            LET old == rows[r.id]
                new == Assigned(old, r)
            IN /\ Matches(r)
               /\ NameRule(old, new) /\ RetireRule(new)
               /\ pending[c] = Touched(old, new)

\* Open transactions exclude each other on rows and on codes.
ExclusionInv ==
  \A c, d \in Clients :
    c # d /\ Holding(c) /\ Holding(d) /\ req[c].op = req[d].op =>
      /\ req[c].op = "patch" => req[c].id # req[d].id
      /\ req[c].op = "create" => req[c].code # req[d].code

\* The change log of a row ends with the row.
LedgerInv ==
  \A id \in DOMAIN rows :
    /\ Len(history[id]) = rows[id].version
    /\ history[id][rows[id].version].row = rows[id]

(***************************************************************************)
(* The inductive invariant: the table properties, and what makes them last *)
(* while transactions are open.                                            *)
(***************************************************************************)
IInv ==
  /\ TypeOK
  /\ RequestsInv /\ IdleInv /\ FreshInv
  /\ HoldingInv /\ ExclusionInv /\ LedgerInv
  /\ NoLostUpdate /\ ImmutableFieldsKept /\ UniqueCodes

-----------------------------------------------------------------------------
(***************************************************************************)
(* Every request is answered, however the transactions contend for a row   *)
(* or a code: no lock outlives its transaction.                            *)
(***************************************************************************)
EveryRequestAnswered ==
  \A c \in Clients : pc[c] # "idle" ~> pc[c] = "idle"

\* The table as its callers see it: atomic, versioned, rule-abiding rows.
Register == INSTANCE DepartmentRegister

(***************************************************************************)
(* The interleaved transactions implement the atomic register.             *)
(***************************************************************************)
RefinesRegister == Register!Spec

\* The endpoints as each caller sees them: requests that happen at an instant.
Atomic == INSTANCE AtomicDepartments

(***************************************************************************)
(* Every request is atomic: whatever interleaves with its statements, it   *)
(* is answered once, with what it would be answered if all of it happened  *)
(* on the table as it is at that moment (DepartmentRepository.Insert and   *)
(* Update under READ COMMITTED).  The two statements of a PATCH that       *)
(* conflicts are no exception, for a version the caller had seen.          *)
(***************************************************************************)
RequestsAreAtomic == Atomic!Spec
=============================================================================
