--------------------------- MODULE MCMinerShared ---------------------------
(* Two keys, so four hits: two with one zero and two with two, which gives *)
(* ties as well as improvements.                                           *)
EXTENDS MinerShared, TLC

CONSTANTS k1, k2

MCZerosOf == (k1 :> 1) @@ (k2 :> 2)

ThreadSymmetry == Permutations(Thread)

=============================================================================
