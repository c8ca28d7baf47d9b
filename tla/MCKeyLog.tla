------------------------------ MODULE MCKeyLog ------------------------------
(* Three identities: one comes from the environment, keygen generates the  *)
(* other two.  Addresses of 14 nibbles: all zeros and ones, among them     *)
(* every count from 0 to 14; the keys found have 3, 4 and 11 zeros.        *)
EXTENDS KeyLog, TLC

CONSTANTS e, i1, i2

GeneratedSymmetry == Permutations({i1, i2})

MCAddresses == {[i \in 1 .. 14 |-> a[i]] : a \in [1 .. 14 -> {0, 1}]}
MCAddressOf ==
  [k \in 1 .. 3 |->
     [i \in 1 .. 14 |-> IF i > (CASE k = 1 -> 3 [] k = 2 -> 4 [] k = 3 -> 11)
                          THEN 1 ELSE 0]]

(* Every command line of up to three of these arguments.                   *)
MCNumber == [a \in {"0", "8", "41"} |->
               CASE a = "0" -> 0 [] a = "8" -> 8 [] a = "41" -> 41]
MCBytes == [a \in {"address"} |-> 20]
MCArguments ==
  UNION {[1 .. k -> {"--reveal", "--reveal8", "--createx", "--owner", "--prefix",
                     "address", "0", "8", "41"}] : k \in 0 .. 3}

=============================================================================
