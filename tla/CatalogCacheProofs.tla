--------------------------- MODULE CatalogCacheProofs ---------------------------
(***************************************************************************)
(* Proofs about CatalogCache, for every set of readers and writers, every  *)
(* TTL and Deadline.  The argument is a budget: the time a snapshot or an  *)
(* entry has left, added to the time its version has been outdated, never  *)
(* exceeds what it started with, because a Tick moves one unit from the    *)
(* first to the second.                                                    *)
(***************************************************************************)
EXTENDS CatalogCache, TLAPS

USE CacheAssumption

\* The empty table, the empty cache and the idle requests satisfy the invariant.
LEMMA InitIInv == Init => IInv
<1> SUFFICES ASSUME Init PROVE IInv
  OBVIOUS
<1> USE DEF Init, MaxStale, Versions
<1>1. TypeOK
  BY DEF TypeOK, Entry, NoEntry, Reader, IdleReader, Writer, IdleWriter
<1>2. BudgetInv
  BY DEF BudgetInv, Live, NoEntry, Filling, IdleReader
<1>3. FreshnessInv
  BY DEF FreshnessInv, Live, NoEntry, Filling, IdleReader, IdleWriter
<1> QED
  BY <1>1, <1>2, <1>3 DEF IInv

\* An absent key is a well-formed entry.
LEMMA NoEntryType == NoEntry \in Entry
<1>1. 0 \in Versions /\ 0 \in 0..TTL
  BY DEF Versions
<1> QED
  BY <1>1 DEF NoEntry, Entry

\* A step that only answers, or none at all, preserves the invariant.
LEMMA AnswerIInv ==
  ASSUME IInv, UNCHANGED <<db, age, entry, reader, writer, acked>>,
         answer' \in Answer \cup {None}
  PROVE  IInv'
BY DEF IInv, TypeOK, BudgetInv, FreshnessInv, Live, Filling

\* What a reader is told of its snapshot is a well-formed answer.
LEMMA AnswerSnapType ==
  ASSUME IInv, NEW r \in Readers, AnswerSnap(r)
  PROVE  answer' \in Answer
BY DEF IInv, TypeOK, AnswerSnap, Answer, Reader

\* A step of one read request preserves the invariant, wherever it goes, if its
\* new state keeps the request's part of it.
LEMMA ReaderIInv ==
  ASSUME IInv, UNCHANGED <<db, age, entry, writer, acked>>,
         answer' \in Answer \cup {None},
         NEW r \in Readers, NEW new \in Reader, reader' = [reader EXCEPT ![r] = new],
         new.floor <= acked,
         new.pc \in {"filling", "late"} =>
           /\ new.snap <= db /\ age[new.snap] + new.left <= Deadline
           /\ new.floor <= new.snap
           /\ ~new.straddled => new.snap >= acked
  PROVE  IInv'
<1> USE DEF IInv
<1>1. TypeOK'
  BY DEF TypeOK
<1>2. \A q \in Readers : reader'[q] = IF q = r THEN new ELSE reader[q]
  BY DEF TypeOK
<1>3. BudgetInv'
  BY <1>2 DEF BudgetInv, Live, Filling
<1>4. FreshnessInv'
  BY <1>2 DEF FreshnessInv, Live, Filling
<1> QED
  BY <1>1, <1>3, <1>4

\* A request that ends is idle again.
LEMMA IdleFits == IInv => IdleReader \in Reader /\ IdleReader.floor <= acked
                          /\ IdleReader.pc = "idle"
BY DEF IInv, TypeOK, IdleReader, Reader, Versions

\* The SET stores a list whose age and time left add up to at most MaxStale.
LEMMA StoreIInv ==
  ASSUME IInv, UNCHANGED <<db, age, writer, acked>>, answer' \in Answer \cup {None},
         NEW r \in Readers, Filling(r), Store(r),
         reader' = [reader EXCEPT ![r] = IdleReader]
  PROVE  IInv'
<1> USE DEF IInv
<1>1. /\ entry'.version = reader[r].snap /\ entry'.left = TTL
      /\ entry'.straddled = reader[r].straddled
  BY DEF Store
<1>2. reader[r] \in Reader
  BY DEF TypeOK
<1>3. TypeOK'
  BY <1>2, IdleFits DEF TypeOK, Store, Entry, Reader
<1>4. \A q \in Readers : reader'[q] = IF q = r THEN IdleReader ELSE reader[q]
  BY DEF TypeOK
<1>5. BudgetInv'
  <2>1. entry'.version <= db /\ age[entry'.version] + entry'.left <= MaxStale
    <3>1. age[reader[r].snap] \in Nat /\ reader[r].left \in Nat
      BY <1>2 DEF TypeOK, Reader, MaxStale
    <3> QED
      BY <1>1, <3>1 DEF BudgetInv, MaxStale
  <2> QED
    BY <1>4, <2>1, IdleFits DEF BudgetInv, Live, Filling
<1>6. FreshnessInv'
  BY <1>1, <1>4, IdleFits DEF FreshnessInv, Live, Filling
<1> QED
  BY <1>3, <1>5, <1>6

-----------------------------------------------------------------------------
(* The writers and the clock.                                              *)

\* A commit makes the current version old; nothing stored gets older by it.
LEMMA CommitIInv ==
  ASSUME IInv, NEW w \in Writers, Commit(w)
  PROVE  IInv'
<1> USE DEF IInv
<1>1. /\ db \in Nat /\ acked \in Nat /\ db' \in Nat /\ db <= db'
      /\ db' \in Versions
  BY DEF Commit, TypeOK, Versions
<1>2. UNCHANGED <<age, entry, reader, acked>> /\ answer' = None
  BY DEF Commit
<1>3. /\ writer' = [writer EXCEPT ![w] = [pc |-> "committed", wrote |-> db']]
      /\ [pc |-> "committed", wrote |-> db'] \in Writer
  BY <1>1 DEF Commit, Writer
<1>4. TypeOK'
  BY <1>1, <1>2, <1>3 DEF TypeOK
<1>5. BudgetInv'
  <2>1. \A r \in Readers : reader[r] \in Reader
    BY DEF TypeOK
  <2> QED
    BY <1>1, <1>2, <2>1 DEF BudgetInv, Live, Filling, TypeOK, Entry, Reader, Versions
<1>6. FreshnessInv'
  <2>1. \A v \in Writers : writer'[v].wrote = IF v = w THEN db' ELSE writer[v].wrote
    BY <1>3 DEF TypeOK
  <2>2. \A v \in Writers : writer[v].wrote \in Nat
    BY DEF TypeOK, Writer, Versions
  <2> QED
    BY <1>1, <1>2, <2>1, <2>2 DEF FreshnessInv, Live, Filling
<1> QED
  BY <1>4, <1>5, <1>6

\* An invalidation, successful or not, marks what it may have overtaken.
LEMMA AcknowledgeIInv ==
  ASSUME IInv, NEW w \in Writers, Acknowledge(w),
         \/ entry' = NoEntry
         \/ /\ Live
            /\ entry' = [entry EXCEPT !.missed = TRUE]
         \/ /\ ~Live
            /\ entry' = entry
  PROVE  IInv'
<1> USE DEF IInv
<1>1. /\ acked' = Greater(acked, writer[w].wrote) /\ UNCHANGED <<db, age>>
      /\ writer' = [writer EXCEPT ![w] = IdleWriter] /\ answer' = None
  BY DEF Acknowledge
<1>2. acked \in Versions /\ writer[w].wrote \in Versions /\ writer[w].wrote <= db
  BY DEF TypeOK, Writer, FreshnessInv
<1>3. /\ acked <= acked' /\ acked' <= db /\ acked' \in Versions
      /\ acked \in Nat /\ acked' \in Nat /\ db \in Nat
  BY <1>1, <1>2 DEF Greater, FreshnessInv, TypeOK, Versions
<1>4. ASSUME NEW r \in Readers
      PROVE  /\ reader[r] \in Reader /\ reader'[r] \in Reader
             /\ reader'[r].pc = reader[r].pc /\ reader'[r].snap = reader[r].snap
             /\ reader'[r].left = reader[r].left /\ reader'[r].floor = reader[r].floor
             /\ Filling(r) => reader'[r].straddled
  <2>1. reader[r] \in Reader
    BY DEF TypeOK
  <2>2. reader'[r] = IF Filling(r) THEN [reader[r] EXCEPT !.straddled = TRUE]
                                   ELSE reader[r]
    BY DEF Acknowledge
  <2> QED
    BY <2>1, <2>2 DEF Reader
<1>5. entry \in Entry /\ entry' \in Entry
  <2>1. entry \in Entry
    BY DEF TypeOK
  <2>2. [entry EXCEPT !.missed = TRUE] \in Entry
    BY <2>1 DEF Entry
  <2> QED
    BY <2>1, <2>2, NoEntryType
<1>6. TypeOK'
  <2>1. reader' = [r \in Readers |-> reader'[r]]
    BY DEF Acknowledge
  <2>2. reader' \in [Readers -> Reader]
    BY <1>4, <2>1
  <2>3. writer' \in [Writers -> Writer]
    BY <1>1 DEF TypeOK, Writer, IdleWriter, Versions
  <2> QED
    BY <1>1, <1>3, <1>5, <2>2, <2>3 DEF TypeOK
<1>7. Live' => /\ Live /\ entry'.version = entry.version /\ entry'.left = entry.left
               /\ entry'.missed
  BY <1>5 DEF Live, NoEntry, Entry
<1>8. BudgetInv'
  BY <1>1, <1>4, <1>7 DEF BudgetInv, Filling
<1>9. FreshnessInv'
  <2>1. \A v \in Writers : writer'[v].wrote <= db
    BY <1>1, <1>3 DEF FreshnessInv, TypeOK, IdleWriter
  <2>2. \A r \in Readers : reader[r].floor \in Nat
    BY <1>4 DEF Reader, Versions
  <2> QED
    BY <1>1, <1>3, <1>4, <1>7, <2>1, <2>2 DEF FreshnessInv, Filling
<1> QED
  BY <1>6, <1>8, <1>9

\* A writer that is lost, or a key that is dropped, takes nothing with it.
LEMMA ForgetIInv ==
  ASSUME IInv, UNCHANGED <<db, age, reader, acked>>, answer' = None,
         entry' \in {entry, NoEntry},
         writer' = writer \/ \E w \in Writers : writer' = [writer EXCEPT ![w] = IdleWriter]
  PROVE  IInv'
<1> USE DEF IInv
<1>1. \A w \in Writers : /\ writer'[w] \in {writer[w], IdleWriter}
                         /\ writer[w] \in Writer /\ IdleWriter \in Writer
  BY DEF TypeOK, IdleWriter, Writer, Versions
<1>2. NoEntry \in Entry
  BY NoEntryType
<1>3. TypeOK'
  BY <1>1, <1>2 DEF TypeOK
<1>4. BudgetInv'
  BY DEF BudgetInv, Live, NoEntry, Filling
<1>5. FreshnessInv'
  <2>1. \A w \in Writers : writer'[w].wrote <= db
    BY <1>1 DEF FreshnessInv, IdleWriter, TypeOK, Versions
  <2> QED
    BY <2>1 DEF FreshnessInv, Live, NoEntry, Filling
<1> QED
  BY <1>3, <1>4, <1>5

\* A Tick takes from what is left what it adds to the age.
LEMMA TickIInv ==
  ASSUME IInv, Tick
  PROVE  IInv'
<1> USE DEF IInv
<1>1. UNCHANGED <<db, writer, acked>> /\ answer' = None
  BY DEF Tick
<1>2. ASSUME NEW v \in Versions
      PROVE  /\ age[v] \in Nat /\ age'[v] \in 0..MaxStale
             /\ age'[v] <= age[v] + 1
             /\ v >= db => age'[v] = age[v]
  <2>1. age[v] \in 0..MaxStale /\ v \in Nat /\ db \in Nat
    BY DEF TypeOK, Versions
  <2>2. age'[v] = IF v < db THEN Older(age[v]) ELSE age[v]
    BY DEF Tick
  <2> QED
    BY <2>1, <2>2 DEF Older, MaxStale
<1>3. ASSUME NEW r \in Readers
      PROVE  /\ reader'[r] \in Reader /\ reader[r] \in Reader
             /\ reader'[r].pc = reader[r].pc /\ reader'[r].snap = reader[r].snap
             /\ reader'[r].straddled = reader[r].straddled
             /\ reader'[r].floor = reader[r].floor
             /\ reader[r].pc # "idle" => reader'[r].left = reader[r].left - 1
  <2>1. reader[r] \in Reader
    BY DEF TypeOK
  <2>2. /\ reader[r].pc # "idle" => reader[r].left > 0
        /\ reader'[r] = IF reader[r].pc = "idle" THEN reader[r]
                        ELSE [reader[r] EXCEPT !.left = reader[r].left - 1]
    BY DEF Tick
  <2> QED
    BY <2>1, <2>2 DEF Reader
<1>4. entry \in Entry /\ entry' \in Entry
  <2>1. entry \in Entry
    BY DEF TypeOK
  <2>2. entry.left > 1 => [entry EXCEPT !.left = entry.left - 1] \in Entry
    BY <2>1 DEF Entry
  <2> QED
    BY <2>1, <2>2, NoEntryType DEF Tick
<1>5. Live' => /\ Live /\ entry'.version = entry.version /\ entry'.left = entry.left - 1
               /\ entry'.straddled = entry.straddled /\ entry'.missed = entry.missed
  <2>1. entry' = IF entry.left > 1 THEN [entry EXCEPT !.left = entry.left - 1] ELSE NoEntry
    BY DEF Tick
  <2>2. CASE entry.left > 1
    BY <1>4, <2>1, <2>2 DEF Live, Entry
  <2>3. CASE ~(entry.left > 1)
    BY <2>1, <2>3 DEF Live, NoEntry
  <2> QED
    BY <2>2, <2>3
<1>6. TypeOK'
  <2>1. age' \in [Versions -> 0..MaxStale]
    BY <1>2 DEF Tick
  <2>2. reader' \in [Readers -> Reader]
    BY <1>3 DEF Tick
  <2> QED
    BY <1>1, <1>4, <2>1, <2>2 DEF TypeOK
<1>7. BudgetInv'
  <2>1. \A v \in Versions : v >= db' => age'[v] = 0
    BY <1>1, <1>2 DEF BudgetInv
  <2>2. Live' => entry'.version <= db' /\ age'[entry'.version] + entry'.left <= MaxStale
    <3>1. /\ entry.version \in Versions /\ entry.left \in Nat
      BY <1>4 DEF Entry
    <3>2. /\ age[entry.version] \in Nat /\ age'[entry.version] \in Nat
          /\ age'[entry.version] <= age[entry.version] + 1 /\ MaxStale \in Nat
      BY <1>2, <3>1 DEF MaxStale
    <3> QED
      BY <1>1, <1>5, <3>1, <3>2 DEF BudgetInv
  <2>3. ASSUME NEW r \in Readers, Filling(r)'
        PROVE  /\ reader'[r].snap <= db'
               /\ age'[reader'[r].snap] + reader'[r].left <= Deadline
    <3>1. /\ Filling(r) /\ reader[r].snap \in Versions /\ reader[r].left \in Nat
          /\ reader[r].pc # "idle"
      BY <1>3, <2>3 DEF Filling, Reader
    <3>2. /\ age[reader[r].snap] \in Nat /\ age'[reader[r].snap] \in Nat
          /\ age'[reader[r].snap] <= age[reader[r].snap] + 1
      BY <1>2, <3>1 DEF MaxStale
    <3> QED
      BY <1>1, <1>3, <3>1, <3>2 DEF BudgetInv
  <2> QED
    BY <2>1, <2>2, <2>3 DEF BudgetInv
<1>8. FreshnessInv'
  BY <1>1, <1>3, <1>5 DEF FreshnessInv, Filling
<1> QED
  BY <1>6, <1>7, <1>8

-----------------------------------------------------------------------------
(* Every step preserves the invariant.                                     *)

\* The steps of a read request.
LEMMA ReadIInv ==
  ASSUME IInv, NEW r \in Readers, Read(r)
  PROVE  IInv'
<1>1. reader[r] \in Reader /\ reader[r].floor <= acked /\ acked <= db
  BY DEF IInv, TypeOK, FreshnessInv
<1>2. CASE Hit(r)
  <2>1. answer' \in Answer
    BY <1>2 DEF Hit, Answer, IInv, TypeOK, Entry
  <2> QED
    BY <1>2, <2>1, AnswerIInv DEF Hit
<1>3. CASE Miss(r)
  <2> DEFINE new == [IdleReader EXCEPT !.pc = "querying", !.left = Deadline, !.floor = acked]
  <2>1. 0 \in Versions /\ Deadline \in 0..Deadline /\ acked \in Versions
    BY DEF IInv, TypeOK, Versions
  <2>2. new \in Reader /\ new.floor = acked /\ new.pc = "querying"
    BY <2>1 DEF Reader, IdleReader
  <2>3. new.floor <= acked
    BY <2>1, <2>2 DEF Versions
  <2> HIDE DEF new
  <2>4. reader' = [reader EXCEPT ![r] = new]
    BY <1>3 DEF Miss, new
  <2> QED
    BY <1>3, <2>2, <2>3, <2>4, ReaderIInv DEF Miss
<1>4. CASE Query(r)
  <2> DEFINE new == [reader[r] EXCEPT !.pc = "filling", !.snap = db]
  <2>1. /\ new \in Reader /\ new.snap = db /\ new.left = reader[r].left
        /\ new.floor = reader[r].floor
    BY <1>1 DEF Reader, IInv, TypeOK
  <2>2. reader' = [reader EXCEPT ![r] = new]
    BY <1>4 DEF Query, IInv, TypeOK
  <2>3. age[db] = 0 /\ db \in Nat /\ reader[r].left <= Deadline /\ reader[r].left \in Nat
    BY <1>1 DEF IInv, TypeOK, BudgetInv, Reader, Versions
  <2>4. acked \in Nat /\ reader[r].floor \in Nat
    BY <1>1 DEF IInv, TypeOK, Reader, Versions
  <2> HIDE DEF new
  <2>5. /\ new.snap <= db /\ age[new.snap] + new.left <= Deadline
        /\ new.floor <= acked /\ new.floor <= new.snap /\ new.snap >= acked
    BY <1>1, <2>1, <2>3, <2>4
  <2> QED
    BY <1>4, <2>1, <2>2, <2>5, ReaderIInv DEF Query
<1>5. CASE Fill(r)
  <2>1. answer' \in Answer
    BY <1>5, AnswerSnapType DEF Fill
  <2> QED
    BY <1>5, <2>1, StoreIInv DEF Fill, Filling
<1>6. CASE FillFails(r)
  <2>1. answer' \in Answer
    BY <1>6, AnswerSnapType DEF FillFails
  <2>2. CASE reader' = [reader EXCEPT ![r] = IdleReader]
    BY <1>6, <2>1, <2>2, IdleFits, ReaderIInv DEF FillFails
  <2>3. CASE reader' = [reader EXCEPT ![r].pc = "late"]
    <3> DEFINE new == [reader[r] EXCEPT !.pc = "late"]
    <3>1. /\ new \in Reader /\ new.snap = reader[r].snap /\ new.left = reader[r].left
          /\ new.floor = reader[r].floor /\ new.straddled = reader[r].straddled
      BY <1>1 DEF Reader
    <3>2. reader' = [reader EXCEPT ![r] = new]
      BY <2>3 DEF IInv, TypeOK
    <3>3. /\ reader[r].snap <= db /\ age[reader[r].snap] + reader[r].left <= Deadline
          /\ reader[r].floor <= reader[r].snap
          /\ ~reader[r].straddled => reader[r].snap >= acked
      BY <1>6 DEF FillFails, Filling, IInv, BudgetInv, FreshnessInv
    <3> HIDE DEF new
    <3> QED
      BY <1>1, <1>6, <2>1, <3>1, <3>2, <3>3, ReaderIInv DEF FillFails
  <2> QED
    BY <1>6, <2>2, <2>3 DEF FillFails
<1>7. CASE LateFill(r)
  BY <1>7, StoreIInv DEF LateFill, Filling
<1>8. CASE Abandon(r)
  BY <1>8, IdleFits, ReaderIInv DEF Abandon
<1> QED
  BY <1>2, <1>3, <1>4, <1>5, <1>6, <1>7, <1>8 DEF Read

\* The budget and the freshness of every entry and snapshot survive every step.
THEOREM NextIInv == IInv /\ [Next]_vars => IInv'
<1> SUFFICES ASSUME IInv, [Next]_vars
             PROVE  IInv'
  OBVIOUS
<1>1. ASSUME NEW r \in Readers, Read(r) PROVE IInv'
  BY <1>1, ReadIInv
<1>2. ASSUME NEW w \in Writers, Commit(w) PROVE IInv'
  BY <1>2, CommitIInv
<1>3. ASSUME NEW w \in Writers, Delete(w) PROVE IInv'
  BY <1>3, AcknowledgeIInv DEF Delete
<1>4. ASSUME NEW w \in Writers, DeleteFails(w) PROVE IInv'
  BY <1>4, AcknowledgeIInv DEF DeleteFails
<1>5. ASSUME NEW w \in Writers, WriterLost(w) PROVE IInv'
  BY <1>5, ForgetIInv DEF WriterLost
<1>6. CASE Evict
  BY <1>6, ForgetIInv DEF Evict
<1>7. CASE Tick
  BY <1>7, TickIInv
<1>8. CASE UNCHANGED vars
  <2>1. answer' \in Answer \cup {None}
    BY <1>8 DEF vars, IInv, TypeOK
  <2> QED
    BY <1>8, <2>1, AnswerIInv DEF vars
<1> QED
  BY <1>1, <1>2, <1>3, <1>4, <1>5, <1>6, <1>7, <1>8 DEF Next, Write

-----------------------------------------------------------------------------
(* The theorems of the specification.                                      *)

(***************************************************************************)
(* IInv holds in every reachable state.                                    *)
(***************************************************************************)
THEOREM Inductive == Spec => []IInv
<1>1. Init => IInv
  BY InitIInv
<1>2. IInv /\ [Next]_vars => IInv'
  BY NextIInv
<1> QED
  BY <1>1, <1>2, PTL DEF Spec

(***************************************************************************)
(* The key, the requests and the answers keep their types.                 *)
(***************************************************************************)
THEOREM TypeCorrect == Spec => []TypeOK
<1>1. IInv => TypeOK
  BY DEF IInv
<1> QED
  BY <1>1, Inductive, PTL

\* What a step answers to a reader, in terms of the state before it.
LEMMA AnswerCases ==
  ASSUME IInv, [Next]_vars, answer' # None, answer' # answer
  PROVE  /\ UNCHANGED <<db, age>>
         /\ \/ /\ Live /\ answer'.version = entry.version /\ answer'.floor = acked
               /\ answer'.from = "cache" /\ answer'.straddled = entry.straddled
               /\ answer'.missed = entry.missed
            \/ \E r \in Readers : /\ Filling(r) /\ answer'.version = reader[r].snap
                                 /\ answer'.floor = reader[r].floor
                                 /\ answer'.from = "table"
<1>1. ASSUME NEW r \in Readers, Hit(r)
      PROVE  /\ UNCHANGED <<db, age>> /\ Live /\ answer'.version = entry.version
             /\ answer'.floor = acked /\ answer'.from = "cache"
             /\ answer'.straddled = entry.straddled /\ answer'.missed = entry.missed
  BY <1>1 DEF Hit
<1>2. ASSUME NEW r \in Readers, Fill(r) \/ FillFails(r)
      PROVE  /\ UNCHANGED <<db, age>> /\ Filling(r) /\ answer'.version = reader[r].snap
             /\ answer'.floor = reader[r].floor /\ answer'.from = "table"
  BY <1>2 DEF Fill, FillFails, AnswerSnap, Filling
<1>3. ASSUME NEW r \in Readers, Read(r), ~(Hit(r) \/ Fill(r) \/ FillFails(r))
      PROVE  answer' = None
  BY <1>3 DEF Read, Miss, Query, LateFill, Abandon
<1>4. ASSUME NEW w \in Writers, Write(w)
      PROVE  answer' = None
  BY <1>4 DEF Write, Commit, Delete, DeleteFails, Acknowledge, WriterLost
<1>5. Evict \/ Tick => answer' = None
  BY DEF Evict, Tick
<1>6. UNCHANGED vars => answer' = answer
  BY DEF vars
<1> QED
  BY <1>1, <1>2, <1>3, <1>4, <1>5, <1>6 DEF Next

(***************************************************************************)
(* Whatever the interleaving and whichever Valkey commands fail, a list    *)
(* answer is less than TTL + Deadline ticks out of date.                     *)
(***************************************************************************)
THEOREM StalenessIsBounded == Spec => []BoundedStaleness
<1>1. Init => BoundedStaleness
  BY DEF Init, BoundedStaleness
<1>2. ASSUME IInv, BoundedStaleness, [Next]_vars
      PROVE  BoundedStaleness'
  <2>1. CASE answer' = None
    BY <2>1 DEF BoundedStaleness
  <2>2. CASE answer' # None /\ answer' # answer
    <3>1. entry \in Entry /\ \A r \in Readers : reader[r] \in Reader
      BY <1>2 DEF IInv, TypeOK
    <3>2. \A v \in Versions : age[v] \in Nat
      BY <1>2 DEF IInv, TypeOK, MaxStale
    <3>3. Live => age[entry.version] < MaxStale
      BY <1>2, <3>1, <3>2 DEF IInv, BudgetInv, Entry, Live, MaxStale
    <3>4. \A r \in Readers : Filling(r) => age[reader[r].snap] <= Deadline
      BY <1>2, <3>1, <3>2 DEF IInv, BudgetInv, Reader
    <3> QED
      BY <1>2, <2>2, <3>3, <3>4, AnswerCases DEF BoundedStaleness
  <2>3. CASE answer' = answer /\ answer # None
    <3>1. UNCHANGED vars \/ answer' = None \/ age' = age
      BY <1>2 DEF Next, Read, Write, Hit, Miss, Query, Fill, FillFails, LateFill,
         Abandon, Commit, Delete, DeleteFails, Acknowledge, WriterLost, Evict, Tick
    <3> QED
      BY <1>2, <2>3, <3>1 DEF BoundedStaleness, vars
  <2> QED
    BY <2>1, <2>2, <2>3
<1> QED
  BY <1>1, <1>2, Inductive, PTL DEF Spec

(***************************************************************************)
(* Only a straddling read or a lost DEL can hide an acknowledged write     *)
(* from a later reader.                                                    *)
(***************************************************************************)
THEOREM StaleReadsAreExplained == Spec => []StaleReadExplained
<1>1. Init => StaleReadExplained
  BY DEF Init, StaleReadExplained
<1>2. ASSUME IInv, StaleReadExplained, [Next]_vars
      PROVE  StaleReadExplained'
  <2>1. CASE answer' = None \/ answer' = answer
    BY <1>2, <2>1 DEF StaleReadExplained
  <2>2. CASE answer' # None /\ answer' # answer
    <3>1. /\ acked \in Nat /\ entry.version \in Nat
          /\ \A r \in Readers : reader[r].snap \in Nat /\ reader[r].floor \in Nat
      BY <1>2 DEF IInv, TypeOK, Entry, Reader, Versions
    <3>2. Live => ~(entry.version < acked) \/ entry.straddled \/ entry.missed
      BY <1>2, <3>1 DEF IInv, FreshnessInv
    <3>3. \A r \in Readers : Filling(r) => ~(reader[r].snap < reader[r].floor)
      BY <1>2, <3>1 DEF IInv, FreshnessInv
    <3> QED
      BY <1>2, <2>2, <3>2, <3>3, AnswerCases DEF StaleReadExplained
  <2> QED
    BY <2>1, <2>2
<1> QED
  BY <1>1, <1>2, Inductive, PTL DEF Spec

-----------------------------------------------------------------------------
(* The cache keeps the promise of the endpoint.                            *)

\* A step that serves nobody and leaves the table alone is work of the catalog.
LEMMA WorkKeepsPromise ==
  ASSUME answer' = None, UNCHANGED <<db, age>>
  PROVE  Promise!Next
BY DEF Promise!Next, Promise!Work

\* An answer serves one version, recent enough.
LEMMA AnswerKeepsPromise ==
  ASSUME IInv, UNCHANGED <<db, age>>, answer' # None,
         \/ Live /\ answer'.version = entry.version
         \/ \E r \in Readers : Filling(r) /\ answer'.version = reader[r].snap
  PROVE  Promise!Next
<1> DEFINE v == answer'.version
<1>1. v \in Versions /\ v <= db
  BY DEF IInv, TypeOK, Entry, Reader, BudgetInv
<1>2. age[v] < MaxStale
  <2>1. \A u \in Versions : age[u] \in Nat
    BY DEF IInv, TypeOK, MaxStale
  <2>2. /\ entry.version \in Versions /\ entry.left \in Nat
        /\ \A r \in Readers : reader[r].snap \in Versions /\ reader[r].left \in Nat
    BY DEF IInv, TypeOK, Entry, Reader
  <2>3. Live => age[entry.version] < MaxStale
    BY <2>1, <2>2 DEF IInv, BudgetInv, Live, MaxStale
  <2>4. \A r \in Readers : Filling(r) => age[reader[r].snap] < MaxStale
    BY <2>1, <2>2 DEF IInv, BudgetInv, MaxStale
  <2> QED
    BY <2>3, <2>4
<1>3. Promise!Serve(v)
  BY <1>1, <1>2 DEF Promise!Serve
<1> QED
  BY <1>1, <1>3 DEF Promise!Next, Promise!Versions, Versions

(***************************************************************************)
(* The read-through cache of DepartmentService and PlanService implements  *)
(* the bounded-stale catalog, with TTL + Deadline as the bound.            *)
(***************************************************************************)
THEOREM ImplementsPromise == Spec => KeepsPromise
<1>1. Init => Promise!Init
  BY DEF Init, Promise!Init, Promise!Versions, Versions
<1>2. ASSUME IInv, [Next]_vars
      PROVE  [Promise!Next]_Promise!vars
  <2>1. ASSUME NEW r \in Readers, Read(r)
        PROVE  Promise!Next
    <3>1. CASE Hit(r)
      <4>1. answer' # None => Promise!Next
        BY <1>2, <3>1, AnswerKeepsPromise DEF Hit
      <4> QED
        BY <3>1, <4>1, WorkKeepsPromise DEF Hit
    <3>2. CASE Fill(r) \/ FillFails(r)
      <4>1. Filling(r) /\ answer'.version = reader[r].snap /\ UNCHANGED <<db, age>>
        BY <3>2 DEF Fill, FillFails, AnswerSnap, Filling
      <4> QED
        BY <1>2, <4>1, AnswerKeepsPromise, WorkKeepsPromise
    <3>3. CASE Miss(r) \/ Query(r) \/ LateFill(r) \/ Abandon(r)
      BY <3>3, WorkKeepsPromise DEF Miss, Query, LateFill, Abandon
    <3> QED
      BY <2>1, <3>1, <3>2, <3>3 DEF Read
  <2>2. ASSUME NEW w \in Writers, Write(w)
        PROVE  Promise!Next
    <3>1. CASE Commit(w)
      <4>1. db \in Nat /\ db' \in {db, db + 1} /\ db' <= MaxVersion
            /\ answer' = None /\ age' = age
        BY <1>2, <3>1 DEF Commit, IInv, TypeOK, Versions
      <4>2. CASE db' = db + 1
        BY <4>1, <4>2 DEF Promise!Next, Promise!Commit
      <4> QED
        BY <4>1, <4>2, WorkKeepsPromise
    <3>2. CASE Delete(w) \/ DeleteFails(w) \/ WriterLost(w)
      BY <3>2, WorkKeepsPromise DEF Delete, DeleteFails, Acknowledge, WriterLost
    <3> QED
      BY <2>2, <3>1, <3>2 DEF Write
  <2>3. Evict => Promise!Next
    BY WorkKeepsPromise DEF Evict
  <2>4. Tick => Promise!Next
    BY DEF Tick, Promise!Next, Promise!Tick, Promise!Older, Older, Promise!Versions,
       Versions
  <2>5. UNCHANGED vars => UNCHANGED Promise!vars
    BY DEF vars, Promise!vars
  <2> QED
    BY <1>2, <2>1, <2>2, <2>3, <2>4, <2>5 DEF Next
<1> QED
  BY <1>1, <1>2, Inductive, PTL DEF Spec, KeepsPromise, Promise!Spec
=============================================================================
