---------------------------- MODULE MCWriteFlow -----------------------------
(* Small instances of WriteFlow. *)
EXTENDS WriteFlow, TLC

\* Nothing tells one page, or one call, from another.
Symmetry == Permutations(Pages) \cup Permutations(Calls)
=============================================================================
