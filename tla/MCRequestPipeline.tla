--------------------------- MODULE MCRequestPipeline ---------------------------
(***************************************************************************)
(* RequestPipeline with the role checks of the code, for TLC.              *)
(***************************************************************************)
EXTENDS RequestPipeline

BothLayers == {"group", "handler"}
=============================================================================
