--------------------------- MODULE MCBatchPipeline --------------------------
(***************************************************************************)
(* Small instances of BatchPipeline: the options are in the .cfg.          *)
(***************************************************************************)
EXTENDS BatchPipeline
=============================================================================
