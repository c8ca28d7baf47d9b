---------------------------- MODULE MCSaltMiner ----------------------------
(* Two streams of six counters, two per batch: a first batch that only a   *)
(* target below the floor cares for, a second with more hits than the      *)
(* buffer holds, and a third with a tie.                                   *)
EXTENDS SaltMiner, TLC

CONSTANTS g1, g2

MCZerosOf ==
  [s \in Salt |->
     CASE s = <<g1, 0>> -> 1
       [] s \in {<<g1, 2>>, <<g2, 2>>} -> 2
       [] s \in {<<g2, 3>>, <<g1, 4>>, <<g2, 5>>} -> 3
       [] OTHER -> 0]

(* Records with the address of another salt, with a count too high and one *)
(* too low, each of a salt that may not be in the batch.                   *)
MCWrongRecords ==
  { [salt |-> <<g1, 3>>, address |-> <<g1, 4>>, zeros |-> 3],
    [salt |-> <<g2, 1>>, address |-> <<g2, 1>>, zeros |-> 3],
    [salt |-> <<g2, 5>>, address |-> <<g2, 5>>, zeros |-> 1] }

(* What a buffer of an earlier dispatch left.                              *)
MCMemory == {Own(<<g1, 0>>)}

(* Targets 1, 3 and the default in each of the modes; values that look     *)
(* like targets or flags, values that are missing, targets out of range.   *)
MCNumber == [a \in {"0", "1", "3", "40", "41", "0003"} |->
               CASE a = "0" -> 0 [] a = "1" -> 1 [] a = "40" -> 40
                 [] a = "41" -> 41 [] OTHER -> 3]
MCBytes == [a \in {"address", "hash"} |-> IF a = "address" THEN 20 ELSE 32]

MCArguments ==
  { <<"3", "--create2", "--deployer", "address", "--init-code-hash", "hash">>,
    <<"--create2", "--deployer", "address", "--init-code-hash", "hash">>,
    <<"--create2", "--deployer", "hash", "--init-code-hash", "hash">>,
    <<"--create2", "--init-code-hash", "hash", "--deployer">>,
    <<"--create3", "--factory", "address", "--owner", "40", "1">>,
    <<"--create3", "--factory", "address", "--proxy-hash", "address">>,
    <<"0003", "--createx", "--reveal", "41">>,
    <<"--createx", "0">>, <<"--createx", "41">>, <<"--createx", "address">>,
    <<"--createx", "--Reveal">>,
    <<"--create2-tagged", "--prefix", "hash", "--deployer", "address",
      "--owner", "address", "--permissions", "address", "--factory", "address",
      "--init-code-hash", "hash", "1">>,
    <<"--create2-tagged", "--prefix", "--createx", "--deployer", "address",
      "--owner", "address", "--permissions", "address", "--factory", "address",
      "--init-code-hash", "hash", "3">> }

=============================================================================
