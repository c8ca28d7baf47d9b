--------------------------- MODULE MCMineKernels ---------------------------
(* p = 8^3 - 8 - 5 = 499; y^2 = x^3 + 23 over F_499 has 457 points, a      *)
(* prime, and (1, 39) generates them.  The digests of the seeds lie around *)
(* 0 and n, at the powers of two and in between.                           *)
EXTENDS MineKernels, TLC

MCDigest == {0, 1, 2, 3, 5, 8, 16, 63, 64, 100, 227, 228, 229, 256, 300, 400}
              \cup n - 6 .. n + 1 \cup {Weight[LIMBS] - 1}
MCSeed == MCDigest
MCDerive == [s \in MCSeed |->
               [c \in 0 .. ITERS |-> (s + 91 * c) % Weight[LIMBS]]]

=============================================================================
