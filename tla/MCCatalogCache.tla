---------------------------- MODULE MCCatalogCache ----------------------------
(***************************************************************************)
(* CatalogCache on small instances: the sizes are in the configurations.   *)
(* No symmetry: one of the runs checks liveness.                           *)
(***************************************************************************)
EXTENDS CatalogCache, TLC
=============================================================================
