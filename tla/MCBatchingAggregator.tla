------------------------ MODULE MCBatchingAggregator ------------------------
(***************************************************************************)
(* Small instances of BatchingAggregator: the options are in the .cfg.     *)
(***************************************************************************)
EXTENDS BatchingAggregator
=============================================================================
