----------------------------- MODULE MCCpuMiner -----------------------------
(* Two keys that tie at the floor and differ in repeated characters, and   *)
(* one with more zeros and fewer repeated characters.                      *)
EXTENDS CpuMiner, TLC

CONSTANTS k1, k2, k3

MCZerosOf == [k \in Key |-> IF k = k3 THEN 2 ELSE 1]

MCCharsInOrder == [k \in Key |-> CASE k = k1 -> 1 [] k = k2 -> 3 [] k = k3 -> 2]

WorkerSymmetry == Permutations(Worker)

=============================================================================
