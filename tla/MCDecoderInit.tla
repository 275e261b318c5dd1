---------------------------- MODULE MCDecoderInit ----------------------------
(* Instances of DecoderInit for TLC.                                       *)
EXTENDS DecoderInit, TLC

Symmetry == Permutations(Threads)
==============================================================================
