------------------------------- MODULE MCTfRun -------------------------------
(* A small instance of TfRun for TLC: one commit for each way to fail. *)
EXTENDS TfRun

CONSTANTS unknown, rootless

MCUnknown == {unknown}

MCRootless == {rootless}
=============================================================================
