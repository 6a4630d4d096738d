----------------------------- MODULE MCWriteMetrics -----------------------------
(***************************************************************************)
(* WriteMetrics on the instance of MCPlanStore.                            *)
(***************************************************************************)
EXTENDS MCPlanStore, WriteMetrics
=============================================================================
