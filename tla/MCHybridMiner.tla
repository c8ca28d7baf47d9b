--------------------------- MODULE MCHybridMiner ---------------------------
(* Keys of one, two and three zeros; the GPU reaches two of them in its    *)
(* first batch, the third in its second, and its counter wraps after two.  *)
EXTENDS HybridMiner, TLC

CONSTANTS k1, k2, k3

MCZerosOf == (k1 :> 1) @@ (k2 :> 2) @@ (k3 :> 3)

MCScan == (0 :> {k1, k2}) @@ (1 :> {k3})

WorkerSymmetry == Permutations(Worker)

=============================================================================
