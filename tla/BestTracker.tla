---------------------------- MODULE BestTracker ----------------------------
(***************************************************************************)
(* What the miner promises its operator about the hits it reports, with no *)
(* threads, locks or atomics: one candidate at a time becomes the new best *)
(* and is then entered in the log.  The log may miss a best only where the *)
(* platform fails (Lossy): it is never out of order and never repeats.     *)
(* MinerShared is shown to implement this module.                          *)
(***************************************************************************)
EXTENDS Naturals, Sequences

CONSTANTS
  Candidate,  \* what may be reported
  Rank,       \* Rank[c]: the number of leading zeros of c
  None,       \* "nothing found yet"
  Lossy       \* whether a best may fail to reach the log

VARIABLES
  top,      \* the best candidate so far
  pending,  \* top has not been settled with the log yet
  log       \* the candidates entered in the log, oldest first

trackerVars == <<top, pending, log>>

TopRank == IF top = None THEN 0 ELSE Rank[top]

Init ==
  /\ top = None
  /\ pending = FALSE
  /\ log = <<>>

(* A candidate with strictly more zeros than every earlier one takes over. *)
Raise(c) ==
  /\ ~pending
  /\ Rank[c] > TopRank
  /\ top' = c
  /\ pending' = TRUE
  /\ UNCHANGED log

(* The new best is entered in the log before the next one may take over.   *)
Settle ==
  /\ pending
  /\ \/ log' = Append(log, top)
     \/ Lossy /\ UNCHANGED log
  /\ pending' = FALSE
  /\ UNCHANGED top

Next == Settle \/ \E c \in Candidate : Raise(c)

Spec == Init /\ [][Next]_trackerVars

=============================================================================
