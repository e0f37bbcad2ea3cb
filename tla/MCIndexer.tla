----------------------------- MODULE MCIndexer ------------------------------
(* Small instances of ChainIndexer. *)
EXTENDS ChainIndexer

CONSTANTS p, k, l
=============================================================================
