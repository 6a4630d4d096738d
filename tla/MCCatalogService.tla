---------------------------- MODULE MCCatalogService ----------------------------
(***************************************************************************)
(* CatalogService on small instances.  Readers are interchangeable, and so *)
(* are the ids and codes that are not the seed's.                          *)
(***************************************************************************)
EXTENDS CatalogService, TLC

ServiceSymmetry ==
  Permutations(Clients) \cup Permutations(Readers)
    \cup Permutations(Ids \ {SeedId}) \cup Permutations(Codes \ {SeedCode})
=============================================================================
