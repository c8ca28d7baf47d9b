----------------------------- MODULE HitReport -----------------------------
(***************************************************************************)
(* What a dispatch of a mining kernel promises the driver that waits for   *)
(* it: one answer, a list of whole records of qualifying candidates, none  *)
(* twice, and all of them unless the list is as long as the buffer; or no  *)
(* answer at all but a panic.  HitBuffer is shown to implement it.         *)
(***************************************************************************)
EXTENDS Naturals, Sequences

CONSTANT Capacity  \* records that fit the buffer

VARIABLES
  wanted,  \* the records of the candidates that qualify
  host,    \* "waiting", "returned" or "panicked"
  report   \* what the dispatch returned

reportVars == <<wanted, host, report>>

Init == host = "waiting" /\ report = <<>>

(* A list the driver can rely on.                                          *)
Sound(list) ==
  /\ list \in Seq(wanted)
  /\ \A i, j \in DOMAIN list : list[i] = list[j] => i = j
  /\ wanted \subseteq {list[i] : i \in DOMAIN list} \/ Len(list) = Capacity

Answer ==
  /\ host = "waiting"
  /\ host' = "returned"
  /\ Sound(report')
  /\ UNCHANGED wanted

Fail ==
  /\ host = "waiting"
  /\ host' = "panicked"
  /\ UNCHANGED <<wanted, report>>

Next == Answer \/ Fail

Spec == Init /\ [][Next]_reportVars

=============================================================================
