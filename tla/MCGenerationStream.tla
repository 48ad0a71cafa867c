--------------------------- MODULE MCGenerationStream ---------------------------
(* Small instances of GenerationStream for TLC. *)
EXTENDS GenerationStream, TLC

CONSTANTS r1, r2, r3

MCRequests2 == {r1, r2}
MCRequests3 == {r1, r2, r3}
Symmetric3  == Permutations(MCRequests3)
=============================================================================
