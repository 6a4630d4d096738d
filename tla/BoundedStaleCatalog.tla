-------------------------- MODULE BoundedStaleCatalog --------------------------
(***************************************************************************)
(* What a cached list endpoint promises, with no cache in sight: the       *)
(* catalog goes through numbered versions, and a caller is served one that *)
(* is current or was superseded less than MaxStale ticks ago.              *)
(***************************************************************************)
EXTENDS Integers

CONSTANTS MaxStale,    \* the promise, in ticks
          MaxVersion,  \* bound on the versions of the catalog
          Nothing      \* no version is being served

VARIABLES current,  \* the committed version
          age,      \* ticks since each version was superseded, saturating
          served    \* the version this step serves, Nothing for other steps

vars == <<current, age, served>>

Versions == 0..MaxVersion

\* An age past the promise is as good as any other.
Older(n) == IF n < MaxStale THEN n + 1 ELSE n

Init ==
  /\ current = 0
  /\ age = [v \in Versions |-> 0]
  /\ served = Nothing

Commit ==
  /\ current < MaxVersion
  /\ current' = current + 1
  /\ served' = Nothing
  /\ UNCHANGED age

Tick ==
  /\ age' = [v \in Versions |-> IF v < current THEN Older(age[v]) ELSE age[v]]
  /\ served' = Nothing
  /\ UNCHANGED current

Serve(v) ==
  /\ v <= current
  /\ age[v] < MaxStale
  /\ served' = v
  /\ UNCHANGED <<current, age>>

\* Work behind the scenes: nobody is served.
Work ==
  /\ served' = Nothing
  /\ UNCHANGED <<current, age>>

Next == Commit \/ Tick \/ Work \/ \E v \in Versions : Serve(v)

Spec == Init /\ [][Next]_vars
=============================================================================
