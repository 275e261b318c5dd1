---------------------------- MODULE MCGribHandle ----------------------------
(* An instance of GribHandle for TLC.                                      *)
EXTENDS GribHandle, TLC

Symmetry == Permutations(Slots)
==============================================================================
