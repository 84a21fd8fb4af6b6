--------------------------- MODULE MCDeployService ---------------------------
(* A small instance of DeployService for TLC; handlers are interchangeable. *)
EXTENDS DeployService, TLC

MCBroken == {}

Symmetry == Permutations(Requests) \cup Permutations(Versions)
=============================================================================
