---------------------------- MODULE MCReplayCache ----------------------------
(* A small instance of ReplayCache for TLC. *)
EXTENDS ReplayCache, TLC

MCSymmetry == Permutations(Tokens) \cup Permutations(Slots)
=============================================================================
