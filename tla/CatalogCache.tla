------------------------------ MODULE CatalogCache ------------------------------
(***************************************************************************)
(* The read-through cache in front of one catalog list, cat:departments or *)
(* cat:plans: many requests, in several replicas, share one Valkey key.    *)
(*                                                                         *)
(* A reader serves the key when Valkey has it; otherwise it takes a        *)
(* snapshot of the table, SETs the key with a TTL and answers.  A writer   *)
(* commits and then, with no lock in common with the readers, DELetes the  *)
(* key.  The cache is advisory: any of its commands may fail, and the      *)
(* request goes on.  The content of the catalog is its version, the number *)
(* of changes committed so far.  Time is a countdown: every Tick brings    *)
(* the expiry of the key and the deadlines of the open requests nearer.    *)
(***************************************************************************)
EXTENDS Integers

CONSTANTS
  Readers, Writers,  \* request goroutines of any replica
  TTL,               \* ticks a SET keeps the key
  Deadline,          \* ticks from a reader's first step to its last command
  MaxVersion,        \* bound on the versions of the catalog
  None               \* no answer

ASSUME CacheAssumption ==
  TTL \in Nat \ {0} /\ Deadline \in Nat \ {0} /\ MaxVersion \in Nat

VARIABLES
  db,      \* the committed version of the catalog
  age,     \* history variable: ticks since each version was superseded
  entry,   \* the Valkey key
  reader,  \* the state of each read request
  writer,  \* the state of each write request
  acked,   \* history variable: the newest version whose writer was answered
  answer   \* what the last step answered to a reader, None if nothing

vars == <<db, age, entry, reader, writer, acked, answer>>

-----------------------------------------------------------------------------
Versions == 0..MaxVersion

MaxStale == TTL + Deadline

\* "straddled" and "missed" are history fields.  A read straddles an
\* invalidation that is attempted between its snapshot and its SET; an entry
\* misses an invalidation whose DEL never reached Valkey.
Entry == [version: Versions, left: 0..TTL, straddled: BOOLEAN, missed: BOOLEAN]

NoEntry == [version |-> 0, left |-> 0, straddled |-> FALSE, missed |-> FALSE]

Live == entry.left > 0

\* "floor" is a history field: the newest answered write when the read began.
Reader == [pc: {"idle", "querying", "filling", "late"}, snap: Versions,
           left: 0..Deadline, straddled: BOOLEAN, floor: Versions]

IdleReader == [pc |-> "idle", snap |-> 0, left |-> 0, straddled |-> FALSE, floor |-> 0]

Writer == [pc: {"idle", "committed"}, wrote: Versions]

IdleWriter == [pc |-> "idle", wrote |-> 0]

Answer == [version: Versions, floor: Versions, from: {"cache", "table"},
           straddled: BOOLEAN, missed: BOOLEAN]

\* A reader that has its snapshot and whose SET may still reach Valkey.
Filling(r) == reader[r].pc \in {"filling", "late"}

Older(n) == IF n < MaxStale THEN n + 1 ELSE n

Greater(m, n) == IF m < n THEN n ELSE m

-----------------------------------------------------------------------------
Init ==
  /\ db = 0
  /\ age = [v \in Versions |-> 0]
  /\ entry = NoEntry
  /\ reader = [r \in Readers |-> IdleReader]
  /\ writer = [w \in Writers |-> IdleWriter]
  /\ acked = 0
  /\ answer = None

\* Mutant of Hit: a hit renews the TTL.
HitSliding(r) ==
  /\ reader[r].pc = "idle"
  /\ Live
  /\ answer' = [version |-> entry.version, floor |-> acked, from |-> "cache",
                straddled |-> entry.straddled, missed |-> entry.missed]
  /\ entry' = [entry EXCEPT !.left = TTL]
  /\ UNCHANGED <<db, age, reader, writer, acked>>

\* GET finds the key: the request ends here.
Hit(r) ==
  /\ reader[r].pc = "idle"
  /\ Live
  /\ answer' = [version |-> entry.version, floor |-> acked, from |-> "cache",
                straddled |-> entry.straddled, missed |-> entry.missed]
  /\ UNCHANGED <<db, age, entry, reader, writer, acked>>

\* GET finds nothing, or Valkey does not answer: the request turns to Postgres.
Miss(r) ==
  /\ reader[r].pc = "idle"
  /\ reader' = [reader EXCEPT ![r] =
       [IdleReader EXCEPT !.pc = "querying", !.left = Deadline, !.floor = acked]]
  /\ answer' = None
  /\ UNCHANGED <<db, age, entry, writer, acked>>

\* Mutant of Query: the list comes from a replica that lags one commit.
QueryReplica(r) ==
  /\ reader[r].pc = "querying"
  /\ reader' = [reader EXCEPT ![r].pc = "filling", ![r].snap = IF db = 0 THEN 0 ELSE db - 1]
  /\ answer' = None
  /\ UNCHANGED <<db, age, entry, writer, acked>>

\* The SELECT of the whole table takes its snapshot.
Query(r) ==
  /\ reader[r].pc = "querying"
  /\ reader' = [reader EXCEPT ![r].pc = "filling", ![r].snap = db]
  /\ answer' = None
  /\ UNCHANGED <<db, age, entry, writer, acked>>

\* The list the request read from the table, sent to its caller.
AnswerSnap(r) ==
  answer' = [version |-> reader[r].snap, floor |-> reader[r].floor, from |-> "table",
             straddled |-> reader[r].straddled, missed |-> FALSE]

\* Mutant of Store: the SET gives the key a longer life.
StoreLonger(r) ==
  entry' = [version |-> reader[r].snap, left |-> TTL + 1,
            straddled |-> reader[r].straddled, missed |-> FALSE]

Store(r) ==
  entry' = [version |-> reader[r].snap, left |-> TTL,
            straddled |-> reader[r].straddled, missed |-> FALSE]

\* SET with the TTL, whatever happened to the table in the meantime.
Fill(r) ==
  /\ reader[r].pc = "filling"
  /\ Store(r)
  /\ AnswerSnap(r)
  /\ reader' = [reader EXCEPT ![r] = IdleReader]
  /\ UNCHANGED <<db, age, writer, acked>>

\* SET fails or times out: the answer is the same, and the command is either
\* lost or still on its way.
FillFails(r) ==
  /\ reader[r].pc = "filling"
  /\ AnswerSnap(r)
  /\ \/ reader' = [reader EXCEPT ![r] = IdleReader]
     \/ reader' = [reader EXCEPT ![r].pc = "late"]
  /\ UNCHANGED <<db, age, entry, writer, acked>>

\* A SET the client gave up on reaches Valkey after all.
LateFill(r) ==
  /\ reader[r].pc = "late"
  /\ Store(r)
  /\ reader' = [reader EXCEPT ![r] = IdleReader]
  /\ answer' = None
  /\ UNCHANGED <<db, age, writer, acked>>

\* The query fails, the request is cancelled or its pod dies; a late SET is lost.
Abandon(r) ==
  /\ reader[r].pc # "idle"
  /\ reader' = [reader EXCEPT ![r] = IdleReader]
  /\ answer' = None
  /\ UNCHANGED <<db, age, entry, writer, acked>>

-----------------------------------------------------------------------------
\* A create or a PATCH commits; a PATCH that changes nothing commits too.
Commit(w) ==
  /\ writer[w].pc = "idle"
  /\ db' \in {db, db + 1}
  /\ db' <= MaxVersion
  /\ writer' = [writer EXCEPT ![w] = [pc |-> "committed", wrote |-> db']]
  /\ answer' = None
  /\ UNCHANGED <<age, entry, reader, acked>>

\* The invalidation was attempted and the writer is answered with a 200 or 201.
Acknowledge(w) ==
  /\ writer' = [writer EXCEPT ![w] = IdleWriter]
  /\ acked' = Greater(acked, writer[w].wrote)
  /\ reader' = [r \in Readers |->
       IF Filling(r) THEN [reader[r] EXCEPT !.straddled = TRUE] ELSE reader[r]]
  /\ answer' = None
  /\ UNCHANGED <<db, age>>

\* Mutant of Delete: it names another key.
DeleteOther(w) ==
  /\ writer[w].pc = "committed"
  /\ entry' = entry
  /\ Acknowledge(w)

\* DEL removes the key.
Delete(w) ==
  /\ writer[w].pc = "committed"
  /\ entry' = NoEntry
  /\ Acknowledge(w)

\* DEL fails: it is logged, and the write succeeds all the same.
DeleteFails(w) ==
  /\ writer[w].pc = "committed"
  /\ entry' = IF Live THEN [entry EXCEPT !.missed = TRUE] ELSE entry
  /\ Acknowledge(w)

\* The outcome of the COMMIT is unknown to the pod, or the pod dies: the change
\* is in the table, nobody invalidates and the writer gets no success.
WriterLost(w) ==
  /\ writer[w].pc = "committed"
  /\ writer' = [writer EXCEPT ![w] = IdleWriter]
  /\ answer' = None
  /\ UNCHANGED <<db, age, entry, reader, acked>>

-----------------------------------------------------------------------------
\* Valkey drops the key: memory pressure, a restart, a DEL that arrives late.
Evict ==
  /\ Live
  /\ entry' = NoEntry
  /\ answer' = None
  /\ UNCHANGED <<db, age, reader, writer, acked>>

\* Mutant of Tick: the key was SET without an expiry.
TickForever ==
  /\ \A r \in Readers : reader[r].pc # "idle" => reader[r].left > 0
  /\ age' = [v \in Versions |-> IF v < db THEN Older(age[v]) ELSE age[v]]
  /\ entry' = entry
  /\ reader' = [r \in Readers |->
       IF reader[r].pc = "idle" THEN reader[r]
       ELSE [reader[r] EXCEPT !.left = reader[r].left - 1]]
  /\ answer' = None
  /\ UNCHANGED <<db, writer, acked>>

\* Time passes, for as long as no open read has run out of it.
Tick ==
  /\ \A r \in Readers : reader[r].pc # "idle" => reader[r].left > 0
  /\ age' = [v \in Versions |-> IF v < db THEN Older(age[v]) ELSE age[v]]
  /\ entry' = IF entry.left > 1 THEN [entry EXCEPT !.left = entry.left - 1] ELSE NoEntry
  /\ reader' = [r \in Readers |->
       IF reader[r].pc = "idle" THEN reader[r]
       ELSE [reader[r] EXCEPT !.left = reader[r].left - 1]]
  /\ answer' = None
  /\ UNCHANGED <<db, writer, acked>>

Read(r) == \/ Hit(r) \/ Miss(r) \/ Query(r) \/ Fill(r) \/ FillFails(r)
           \/ LateFill(r) \/ Abandon(r)

Write(w) == Commit(w) \/ Delete(w) \/ DeleteFails(w) \/ WriterLost(w)

Next == \/ \E r \in Readers : Read(r)
        \/ \E w \in Writers : Write(w)
        \/ Evict
        \/ Tick

\* The deadline cuts every open read, and time passes.
Fairness ==
  /\ \A r \in Readers : WF_vars(Query(r) \/ Fill(r) \/ FillFails(r) \/ LateFill(r) \/ Abandon(r))
  /\ WF_vars(Tick)

Spec == Init /\ [][Next]_vars

FairSpec == Spec /\ Fairness

-----------------------------------------------------------------------------
TypeOK ==
  /\ db \in Versions
  /\ age \in [Versions -> 0..MaxStale]
  /\ entry \in Entry
  /\ reader \in [Readers -> Reader]
  /\ writer \in [Writers -> Writer]
  /\ acked \in Versions
  /\ answer \in Answer \cup {None}

(***************************************************************************)
(* However the reads, the writes and the failures of Valkey interleave, a  *)
(* list answer is current or was superseded less than TTL + Deadline ticks *)
(* ago; one that comes from the table itself, at most Deadline ago.  The   *)
(* TTL alone is not the bound: a SET may store a list that was already     *)
(* outdated (DepartmentService.listAllCached, PlanService.List).           *)
(***************************************************************************)
BoundedStaleness ==
  answer # None =>
    \/ answer.from = "table" /\ age[answer.version] <= Deadline
    \/ answer.from = "cache" /\ age[answer.version] < MaxStale

(***************************************************************************)
(* A caller that was answered after a write was acknowledged, and does not *)
(* see it, was served from an entry that either a read straddling an       *)
(* invalidation stored or an invalidation failed to remove.  No other      *)
(* interleaving hides an acknowledged write (the DEL that follows the      *)
(* COMMIT in Create and Patch).                                            *)
(***************************************************************************)
StaleReadExplained ==
  answer # None /\ answer.version < answer.floor =>
    answer.from = "cache" /\ (answer.straddled \/ answer.missed)

(***************************************************************************)
(* The claim of the cache design document: once a write is acknowledged,   *)
(* no read of this service observes an older list, unless the invalidation *)
(* itself failed.                                                          *)
(***************************************************************************)
WritesVisibleImmediately ==
  answer # None /\ ~answer.missed => answer.version >= answer.floor

(***************************************************************************)
(* Once the writes stop, whatever was lost or overtaken on the way, the    *)
(* key ends up absent or current for good.                                 *)
(***************************************************************************)
CacheHeals == <>[](Live => entry.version = db)

-----------------------------------------------------------------------------
(* The invariant that is preserved step by step.                           *)

\* Time left is staleness not yet spent.
BudgetInv ==
  /\ \A v \in Versions : v >= db => age[v] = 0
  /\ Live => entry.version <= db /\ age[entry.version] + entry.left <= MaxStale
  /\ \A r \in Readers : Filling(r) =>
       reader[r].snap <= db /\ age[reader[r].snap] + reader[r].left <= Deadline

\* What no invalidation has overtaken includes every acknowledged write.
FreshnessInv ==
  /\ acked <= db
  /\ \A w \in Writers : writer[w].wrote <= db
  /\ Live /\ ~entry.straddled /\ ~entry.missed => entry.version >= acked
  /\ \A r \in Readers :
       /\ reader[r].floor <= acked
       /\ Filling(r) => reader[r].floor <= reader[r].snap
       /\ Filling(r) /\ ~reader[r].straddled => reader[r].snap >= acked

IInv == TypeOK /\ BudgetInv /\ FreshnessInv

-----------------------------------------------------------------------------
\* The endpoint as its callers see it.
Promise == INSTANCE BoundedStaleCatalog
             WITH current <- db, Nothing <- None,
                  served <- IF answer = None THEN None ELSE answer.version

(***************************************************************************)
(* The read-through cache implements the bounded-stale catalog.            *)
(***************************************************************************)
KeepsPromise == Promise!Spec
=============================================================================
