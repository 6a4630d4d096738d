----------------------------- MODULE CatalogService -----------------------------
(***************************************************************************)
(* DepartmentService: the departments table of DepartmentStore behind the  *)
(* read-through cache of its list.  Readers list the departments; clients  *)
(* get, create and patch them, and what they patch may come from a list    *)
(* that was cached long ago.  Here a list is what it shows, row by row,    *)
(* and the life of the key has no length: it may end at any moment.  How   *)
(* old a list can be is the subject of CatalogCache.                       *)
(***************************************************************************)
EXTENDS DepartmentStore

CONSTANT Readers   \* list requests, of any replica

VARIABLES
  cache,  \* the list under cat:departments, None if there is no key
  list,   \* the state of each list request
  seen,   \* the last list each reader was answered with
  owes,   \* the write of the client has committed and the DEL is still to come
  past    \* history variable: every state the whole table has been in

listing == <<cache, list, seen>>

serviceVars == <<vars, cache, list, seen, owes, past>>

-----------------------------------------------------------------------------
\* A list of departments: some ids and the row of each.
Lists == UNION {[ids -> Row] : ids \in SUBSET Ids}

IdleList == [at |-> "idle", snap |-> None]

\* A list request that has read the table, whether its caller waits or not.
Filling(r) == list[r].at \in {"filling", "late"}

\* List filters what it read or found, in memory.
Shown(l, activeOnly) ==
  [id \in {i \in DOMAIN l : activeOnly => l[i].isActive} |-> l[id]]

Show(r, l) == \E activeOnly \in BOOLEAN :
                seen' = [seen EXCEPT ![r] = Shown(l, activeOnly)]

-----------------------------------------------------------------------------
ServiceInit ==
  /\ Init
  /\ cache = None
  /\ list = [r \in Readers |-> IdleList]
  /\ seen = [r \in Readers |-> None]
  /\ owes = [c \in Clients |-> FALSE]
  /\ past = {rows}

\* Get, Create or Patch up to the repository.
Ask(c) ==
  /\ ~owes[c]
  /\ SubmitGet(c) \/ SubmitCreate(c) \/ SubmitPatch(c)
  /\ UNCHANGED <<listing, owes, past>>

\* The repository, up to an end of the transaction that is no success.
Work(c) ==
  /\ Statement(c) \/ CommitUnacknowledged(c) \/ Abort(c)
  /\ past' = past \cup {rows'}
  /\ UNCHANGED <<listing, owes>>

\* The write succeeded: the service goes on to the invalidation.
Write(c) ==
  /\ Commit(c)
  /\ owes' = [owes EXCEPT ![c] = TRUE]
  /\ past' = past \cup {rows'}
  /\ UNCHANGED listing

\* invalidateCache: the DEL, or its failure, which is dropped; or the pod dies.
Invalidate(c) ==
  /\ owes[c]
  /\ owes' = [owes EXCEPT ![c] = FALSE]
  /\ cache' \in {None, cache}
  /\ answer' = None
  /\ UNCHANGED <<rows, history, pc, req, pending, list, seen, past>>

-----------------------------------------------------------------------------
(* List.                                                                   *)

ListStep == /\ answer' = None
            /\ UNCHANGED <<rows, history, pc, req, pending, owes, past>>

\* GET finds the key.
ListHit(r) ==
  /\ list[r].at = "idle"
  /\ cache # None
  /\ Show(r, cache)
  /\ UNCHANGED <<cache, list>>
  /\ ListStep

\* GET finds nothing, fails, or finds what does not parse.
ListMiss(r) ==
  /\ list[r].at = "idle"
  /\ list' = [list EXCEPT ![r].at = "querying"]
  /\ UNCHANGED <<cache, seen>>
  /\ ListStep

\* Mutant of ListQuery: the SELECT sees rows that are not committed.
ListQueryDirty(r) ==
  /\ list[r].at = "querying"
  /\ \E d \in Clients :
       list' = [list EXCEPT ![r] =
         [at |-> "filling",
          snap |-> [i \in DOMAIN rows |->
            IF Holding(d) /\ req[d].id = i THEN pending[d] ELSE rows[i]]]]
  /\ UNCHANGED <<cache, seen>>
  /\ ListStep

\* One SELECT of all rows: one snapshot.
ListQuery(r) ==
  /\ list[r].at = "querying"
  /\ list' = [list EXCEPT ![r] = [at |-> "filling", snap |-> rows]]
  /\ UNCHANGED <<cache, seen>>
  /\ ListStep

\* Mutant of ListFill: the filtered list is cached under the shared key.
ListFillFiltered(r) ==
  /\ list[r].at = "filling"
  /\ \E activeOnly \in BOOLEAN :
       /\ cache' = Shown(list[r].snap, activeOnly)
       /\ seen' = [seen EXCEPT ![r] = Shown(list[r].snap, activeOnly)]
  /\ list' = [list EXCEPT ![r] = IdleList]
  /\ ListStep

\* SET, whoever wrote since the snapshot, and the answer.
ListFill(r) ==
  /\ list[r].at = "filling"
  /\ cache' = list[r].snap
  /\ Show(r, list[r].snap)
  /\ list' = [list EXCEPT ![r] = IdleList]
  /\ ListStep

\* SET fails: the same answer, and the command is lost or still on its way.
ListFillFails(r) ==
  /\ list[r].at = "filling"
  /\ Show(r, list[r].snap)
  /\ \/ list' = [list EXCEPT ![r] = IdleList]
     \/ list' = [list EXCEPT ![r].at = "late"]
  /\ UNCHANGED cache
  /\ ListStep

LateFill(r) ==
  /\ list[r].at = "late"
  /\ cache' = list[r].snap
  /\ list' = [list EXCEPT ![r] = IdleList]
  /\ UNCHANGED seen
  /\ ListStep

\* The query fails, the request ends early, the pod dies, a late SET is lost.
ListAbandon(r) ==
  /\ list[r].at # "idle"
  /\ list' = [list EXCEPT ![r] = IdleList]
  /\ UNCHANGED <<cache, seen>>
  /\ ListStep

\* The key expires or is evicted.
Expire ==
  /\ cache # None
  /\ cache' = None
  /\ UNCHANGED <<list, seen>>
  /\ ListStep

ServiceNext ==
  \/ \E c \in Clients :
       Ask(c) \/ Work(c) \/ Write(c) \/ Invalidate(c)
  \/ \E r \in Readers :
       \/ ListHit(r) \/ ListMiss(r) \/ ListQuery(r) \/ ListFill(r)
       \/ ListFillFails(r) \/ LateFill(r) \/ ListAbandon(r)
  \/ Expire

ServiceSpec == ServiceInit /\ [][ServiceNext]_serviceVars

-----------------------------------------------------------------------------
ServiceTypeOK ==
  /\ cache \in Lists \cup {None}
  /\ list \in [Readers -> [at : {"idle", "querying", "filling", "late"},
                           snap : Lists \cup {None}]]
  /\ seen \in [Readers -> Lists \cup {None}]
  /\ owes \in [Clients -> BOOLEAN]
  /\ past \subseteq Lists

(***************************************************************************)
(* Every list a caller gets, from the table or from the key, is one state  *)
(* the whole table has been in, complete or without its inactive rows: no  *)
(* mixture of two states, nothing uncommitted, and no filtered list in     *)
(* place of the full one, although both endpoints share the key            *)
(* (DepartmentService.List and listAllCached).                             *)
(***************************************************************************)
ListsAreSnapshots ==
  /\ cache \in past \cup {None}
  /\ \A r \in Readers :
       seen[r] # None =>
         \E l \in past, activeOnly \in BOOLEAN : seen[r] = Shown(l, activeOnly)

(***************************************************************************)
(* Editing from a list is safe however old the list is: a department in it *)
(* exists, at that version or a later one, so that a PATCH is never a 404; *)
(* and if its version is still the current one, the row is the very row    *)
(* that was shown.  So the optimistic lock covers the cache as well, whose *)
(* entries no transaction ever saw (record_version and touch_row together  *)
(* with listAllCached).                                                    *)
(***************************************************************************)
EditsFromListsAreSafe ==
  \A r \in Readers :
    seen[r] # None =>
      \A id \in DOMAIN seen[r] :
        /\ Known(id, seen[r][id].version)
        /\ rows[id].version = seen[r][id].version => rows[id] = seen[r][id]

-----------------------------------------------------------------------------
\* Every row of a past state is in the log of changes, under its version.
PastInv ==
  /\ rows \in past
  /\ \A l \in past : \A id \in DOMAIN l :
       /\ Known(id, l[id].version)
       /\ history[id][l[id].version].row = l[id]

\* A list request that has read the table holds what it read.
SnapInv == \A r \in Readers : Filling(r) => list[r].snap \in past

(***************************************************************************)
(* The inductive invariant of the composition.                             *)
(***************************************************************************)
ServiceInv ==
  IInv /\ ServiceTypeOK /\ PastInv /\ SnapInv /\ ListsAreSnapshots

-----------------------------------------------------------------------------
\* The endpoints as their callers see them: the cache shows only in the lists.
Api == INSTANCE CatalogApi

(***************************************************************************)
(* Behind the cache, requests for one department are as atomic as without  *)
(* it, and what the cache costs the list is its date and nothing else: no  *)
(* fill, invalidation, late SET or expiry lets one department of a list    *)
(* be older than another, or touches a request under way                   *)
(* (DepartmentService over DepartmentRepository).                          *)
(***************************************************************************)
ImplementsApi == Api!ApiSpec
=============================================================================
