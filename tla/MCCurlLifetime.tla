--------------------------- MODULE MCCurlLifetime ---------------------------
(* An instance of CurlLifetime for TLC.                                    *)
EXTENDS CurlLifetime, TLC

Symmetry == Permutations(Clients)
==============================================================================
