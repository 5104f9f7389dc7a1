---------------------------- MODULE MCFetchGate ----------------------------
(* Small instances of FetchGate for TLC.                                   *)
EXTENDS FetchGate, TLC

TargetSymmetry == Permutations(Targets)
============================================================================
