--------------------------- MODULE AtomicDepartments ---------------------------
(***************************************************************************)
(* What the departments endpoints promise to each caller, with no          *)
(* transaction, lock or statement in sight: a request is answered once,    *)
(* and the whole of it happens at the instant of its answer, on the table  *)
(* as it is then.  A caller that gets no answer knows that its request     *)
(* happened at such an instant or not at all.                              *)
(*                                                                         *)
(* One sentence of the promise is conditional: a 409 names a version other *)
(* than the one the caller sent, provided that one had been committed when *)
(* the caller asked.  Who invents a version may be told of a conflict with *)
(* the very version that was committed meanwhile.                          *)
(***************************************************************************)
EXTENDS Integers

CONSTANTS Clients, Ids, Codes, Names, Unset, None, SeedId, SeedCode, SeedName,
          MaxVersion

VARIABLES
  rows,    \* committed rows: a function on the ids that exist
  req,     \* the request each client waits for, None when it is idle
  answer   \* the answer this step gives, with its request, None for other steps

vars == <<rows, req, answer>>

Request == [op: {"get", "create", "patch"}, id: Ids,
            code: Codes, name: Names \cup {Unset}, isSystem: BOOLEAN,
            isActive: BOOLEAN \cup {Unset}, expected: 0..(MaxVersion - 1),
            known: BOOLEAN]

\* The version a request expects has been committed.
Committed(r) == r.id \in DOMAIN rows /\ r.expected <= rows[r.id].version

\* A PATCH expects the version the row is at.
Current(r) == r.id \in DOMAIN rows /\ r.expected = rows[r.id].version

Renames(r) == r.name \notin {Unset, rows[r.id].name}

Taken(code) == \E id \in DOMAIN rows : rows[id].code = code

Created(r) == [code |-> r.code, name |-> r.name, isSystem |-> r.isSystem,
               isActive |-> TRUE, version |-> 1]

\* The version counts the PATCHes that change something.
Patched(r) ==
  LET old == rows[r.id]
      name == IF r.name = Unset THEN old.name ELSE r.name
      isActive == IF r.isActive = Unset THEN old.isActive ELSE r.isActive
      same == name = old.name /\ isActive = old.isActive
  IN [old EXCEPT !.name = name, !.isActive = isActive,
                 !.version = old.version + IF same THEN 0 ELSE 1]

\* The rows once row has been written under id, whether id existed or not.
Written(id, row) ==
  [i \in DOMAIN rows \cup {id} |-> IF i = id THEN row ELSE rows[i]]

-----------------------------------------------------------------------------
Init ==
  /\ rows = [i \in {SeedId} |-> [code |-> SeedCode, name |-> SeedName,
                                 isSystem |-> TRUE, isActive |-> TRUE,
                                 version |-> 1]]
  /\ req = [c \in Clients |-> None]
  /\ answer = None

Ask(c) ==
  /\ req[c] = None
  /\ req'[c] \in Request
  /\ req'[c].known <=> Committed(req'[c])
  /\ req' = [req EXCEPT ![c] = req'[c]]
  /\ answer' = None
  /\ UNCHANGED rows

\* A request that cannot be meant: refused without a look at the table.
Reject ==
  /\ \E kind \in {"validation_error", "no_mutable_field"} :
       answer' = [req |-> None, kind |-> kind, row |-> None, version |-> 0]
  /\ UNCHANGED <<rows, req>>

Asked(c, op) == req[c] # None /\ req[c].op = op

Reply(c, kind, row, version) ==
  /\ req' = [req EXCEPT ![c] = None]
  /\ answer' = [req |-> req[c], kind |-> kind, row |-> row, version |-> version]

\* The change is made; its caller may not come to know.
Write(c, row) ==
  /\ rows' = Written(req[c].id, row)
  /\ Reply(c, "ok", row, 0) \/ Reply(c, "unavailable", None, 0)

Refuse(c, kind) == Reply(c, kind, None, 0) /\ UNCHANGED rows

Get(c) ==
  LET r == req[c]
  IN /\ Asked(c, "get")
     /\ \/ r.id \in DOMAIN rows /\ Reply(c, "ok", rows[r.id], 0) /\ UNCHANGED rows
        \/ r.id \notin DOMAIN rows /\ Refuse(c, "not_found")

Create(c) ==
  LET r == req[c]
  IN /\ Asked(c, "create")
     /\ \/ Taken(r.code) /\ Refuse(c, "duplicate_code")
        \/ ~Taken(r.code) /\ r.id \notin DOMAIN rows /\ Write(c, Created(r))

\* A system department refuses a new name first, then to be retired.
Patch(c) ==
  LET r == req[c]
      old == rows[r.id]
  IN /\ Asked(c, "patch")
     /\ \/ r.id \notin DOMAIN rows /\ Refuse(c, "not_found")
        \/ /\ r.id \in DOMAIN rows
           /\ r.known => r.expected < old.version
           /\ Reply(c, "conflict", None, old.version)
           /\ UNCHANGED rows
        \/ /\ Current(r) /\ old.isSystem /\ Renames(r)
           /\ Refuse(c, "name_immutable")
        \/ /\ Current(r) /\ old.isSystem /\ ~Renames(r) /\ r.isActive = FALSE
           /\ Refuse(c, "cannot_retire")
        \/ /\ Current(r)
           /\ old.isSystem => ~Renames(r) /\ r.isActive # FALSE
           /\ Write(c, Patched(r))

\* The request did not happen.
Lose(c) == req[c] # None /\ Refuse(c, "unavailable")

\* Work behind the scenes: nobody is answered.
Work ==
  /\ answer' = None
  /\ UNCHANGED <<rows, req>>

Next ==
  \/ Work \/ Reject
  \/ \E c \in Clients : Ask(c) \/ Lose(c) \/ Get(c) \/ Create(c) \/ Patch(c)

Spec == Init /\ [][Next]_vars
=============================================================================
