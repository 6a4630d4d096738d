------------------------------- MODULE CatalogApi -------------------------------
(***************************************************************************)
(* What the department service promises as a whole, with neither           *)
(* transactions nor a cache in sight.  Requests for one department are     *)
(* atomic, as in AtomicDepartments.  The list is of another kind: it is    *)
(* some state the whole table has been in, not the present one, nor one    *)
(* that is newer than the list before.                                     *)
(***************************************************************************)
EXTENDS AtomicDepartments

CONSTANT Readers

VARIABLES
  seen,    \* the last list each reader was answered with
  past     \* every state the whole table has been in

apiVars == <<vars, seen, past>>

\* A list is complete, or complete but for the inactive departments.
Shown(l, activeOnly) ==
  [id \in {i \in DOMAIN l : activeOnly => l[i].isActive} |-> l[id]]

-----------------------------------------------------------------------------
ApiInit ==
  /\ Init
  /\ seen = [r \in Readers |-> None]
  /\ past = {rows}

\* A request for one department is put, answered or lost.
Department ==
  /\ Next
  /\ past' = past \cup {rows'}
  /\ UNCHANGED seen

List(r) ==
  /\ \E l \in past, activeOnly \in BOOLEAN :
       seen' = [seen EXCEPT ![r] = Shown(l, activeOnly)]
  /\ answer' = None
  /\ UNCHANGED <<rows, req, past>>

ApiNext == Department \/ \E r \in Readers : List(r)

ApiSpec == ApiInit /\ [][ApiNext]_apiVars
=============================================================================
