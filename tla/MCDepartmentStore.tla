--------------------------- MODULE MCDepartmentStore ---------------------------
(***************************************************************************)
(* DepartmentStore on small instances: the clients are interchangeable, so *)
(* the safety runs identify states that differ by their permutation.       *)
(***************************************************************************)
EXTENDS DepartmentStore, TLC

ClientSymmetry == Permutations(Clients)
=============================================================================
