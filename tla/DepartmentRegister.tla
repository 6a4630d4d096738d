-------------------------- MODULE DepartmentRegister --------------------------
(***************************************************************************)
(* What the departments table promises to its callers, with no             *)
(* transaction, lock or request in sight: a set of rows in which one row   *)
(* at a time is created or changed, atomically.  A code names one          *)
(* department for ever, a system department never changes, and             *)
(* record_version counts the changes of its row.                           *)
(***************************************************************************)
EXTENDS Integers

CONSTANTS Ids, Codes, Names, SeedId, SeedCode, SeedName, MaxVersion

VARIABLE rows   \* committed rows: a function on the ids that exist

\* The rows once row has been written under id, whether id existed or not.
Written(id, row) ==
  [i \in DOMAIN rows \cup {id} |-> IF i = id THEN row ELSE rows[i]]

Init ==
  rows = [i \in {SeedId} |-> [code |-> SeedCode, name |-> SeedName,
                              isSystem |-> TRUE, isActive |-> TRUE,
                              version |-> 1]]

\* CAT-1: a new row, active, at version 1, under a code nobody holds.
Create(id) ==
  /\ id \notin DOMAIN rows
  /\ \E code \in Codes, name \in Names, isSystem \in BOOLEAN :
       /\ \A other \in DOMAIN rows : rows[other].code # code
       /\ rows' = Written(id, [code |-> code, name |-> name, isSystem |-> isSystem,
                               isActive |-> TRUE, version |-> 1])

\* CAT-2: an ordinary department is renamed, retired or reactivated.
Change(id) ==
  /\ id \in DOMAIN rows
  /\ ~rows[id].isSystem
  /\ rows[id].version < MaxVersion
  /\ \E name \in Names, isActive \in BOOLEAN :
       rows' = Written(id, [rows[id] EXCEPT !.name = name, !.isActive = isActive,
                                            !.version = rows[id].version + 1])

Next == \E id \in Ids : Create(id) \/ Change(id)

Spec == Init /\ [][Next]_rows
=============================================================================
