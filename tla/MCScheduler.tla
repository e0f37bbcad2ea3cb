---------------------------- MODULE MCScheduler -----------------------------
(* Small instances of RpcScheduler. *)
EXTENDS RpcScheduler

CONSTANTS a, b, c, d
=============================================================================
