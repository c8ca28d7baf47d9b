---------------------------- MODULE MCHitBuffer ----------------------------
(* Three threads of two candidates, one of them out of range: one, two or  *)
(* three qualify at the thresholds 3, 2 and 1.                             *)
EXTENDS HitBuffer, TLC

CONSTANTS g1, g2, g3

MCZerosOf ==
  [c \in Candidate |->
     CASE c = <<g1, 0>> -> 1
       [] c = <<g2, 1>> -> 2
       [] c \in {<<g3, 0>>, <<g1, 1>>} -> 3
       [] OTHER -> 0]

OneOutOfRange == {<<g1, 1>>}

=============================================================================
