---------------------------- MODULE MCDeployRun ----------------------------
(* A small instance of DeployRun for TLC: one of its versions is broken. *)
EXTENDS DeployRun, TLC

CONSTANT bad

MCBroken == {bad}
=============================================================================
