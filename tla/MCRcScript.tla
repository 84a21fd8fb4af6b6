----------------------------- MODULE MCRcScript -----------------------------
(* Pids, and invocations of the script, are interchangeable. *)
EXTENDS RcScript, TLC

Symmetry == Permutations(Pids) \cup Permutations(Invocations)
=============================================================================
