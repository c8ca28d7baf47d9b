----------------------------- MODULE HitBuffer -----------------------------
(***************************************************************************)
(* One dispatch of a mining kernel: the GPU threads scan their candidates  *)
(* and append hits to a bounded buffer behind one atomic counter (the tail *)
(* of mine in src/kernels/miner.metal; the other four mining kernels end   *)
(* alike), and the host waits and reads counter and buffer back            *)
(* (dispatch_mine_kernel in src/src/gpu/mod.rs).  The platform's watchdog  *)
(* may kill the command at any moment; what the threads wrote may then be  *)
(* in memory in part, and the threads' order says nothing about which.     *)
(***************************************************************************)
EXTENDS Integers, Sequences, FiniteSets

CONSTANTS
  GpuThread,      \* the grid: one seed and base counter each
  ITERS,          \* candidates per thread
  MAX_HITS,       \* records that fit the buffer
  Threshold,      \* thresholds a dispatch may ask for
  ZerosOf,        \* ZerosOf[c]: leading zero nibbles of the address of c
  OutOfRange,     \* candidates whose private key scalar_in_range refuses
  Watchdog,       \* whether the platform may kill the command
  StatusChecked,  \* whether the host looks at the status of the command
  Unwritten       \* what memory nobody wrote holds

(* Candidate <<t, i>> is the key thread t derives in iteration i.          *)
Candidate == GpuThread \X (0 .. ITERS - 1)
Slot == 0 .. MAX_HITS - 1
Field == {"key", "address", "zeros"}

ASSUME BufferAssumption ==
  /\ ITERS \in Nat \ {0}
  /\ MAX_HITS \in Nat \ {0}
  /\ Threshold \subseteq Nat
  /\ ZerosOf \in [Candidate -> Nat]
  /\ OutOfRange \subseteq Candidate
  /\ Watchdog \in BOOLEAN
  /\ StatusChecked \in BOOLEAN
  /\ Unwritten \notin Candidate \cup Nat

VARIABLES
  threshold,  \* the zeros a candidate needs in this dispatch
  it,         \* the iteration each thread is in
  pc,         \* "scan", or the field of its record the thread writes next
  slot,       \* the slot each thread claimed last
  hit_count,  \* atomic_uint
  hits,       \* the records in the buffer
  status,     \* of the command: "running", "completed" or "error"
  host,       \* the dispatching thread: "waiting", "returned" or "panicked"
  report      \* the hits the dispatch returns

vars == <<threshold, it, pc, slot, hit_count, hits, status, host, report>>

Record == [key : Candidate \cup {Unwritten},
           address : Candidate \cup {Unwritten},
           zeros : Nat \cup {Unwritten}]

Whole(c) == [key |-> c, address |-> c, zeros |-> ZerosOf[c]]
Blank == [f \in Field |-> Unwritten]

(* The counter is zeroed by the host; the buffer is not.                   *)
Init ==
  /\ threshold \in Threshold
  /\ it = [t \in GpuThread |-> 0]
  /\ pc = [t \in GpuThread |-> "scan"]
  /\ slot = [t \in GpuThread |-> 0]
  /\ hit_count = 0
  /\ hits = [s \in Slot |-> Blank]
  /\ status = "running"
  /\ host = "waiting"
  /\ report = <<>>

----------------------------------------------------------------------------
(* A GPU thread                                                            *)

Cand(t) == <<t, it[t]>>

Scanning(t) == status = "running" /\ pc[t] = "scan" /\ it[t] < ITERS
ContinueEarly(t) ==
  IF Cand(t) \in OutOfRange THEN UNCHANGED it ELSE it' = [it EXCEPT ![t] = @ + 1]
NextCandidate(t) == it' = [it EXCEPT ![t] = @ + 1]

BelowThreshold(c) == ZerosOf[c] < threshold

(* `continue`: an invalid scalar, or too few zeros.                        *)
Pass(t) ==
  /\ Scanning(t)
  /\ Cand(t) \in OutOfRange \/ BelowThreshold(Cand(t))
  /\ NextCandidate(t)
  /\ UNCHANGED <<threshold, pc, slot, hit_count, hits, status, host, report>>

OverFull(idx) == idx > MAX_HITS
Full(idx) == idx >= MAX_HITS

NotBumped(count) == count
Bumped(count) == count + 1

(* atomic_fetch_add_explicit: the old count is the slot, if there is one.  *)
Claim(t) ==
  /\ Scanning(t)
  /\ Cand(t) \notin OutOfRange
  /\ ~BelowThreshold(Cand(t))
  /\ hit_count' = Bumped(hit_count)
  /\ IF Full(hit_count)
       THEN NextCandidate(t) /\ UNCHANGED <<pc, slot>>
       ELSE /\ slot' = [slot EXCEPT ![t] = hit_count]
            /\ pc' = [pc EXCEPT ![t] = "key"]
            /\ UNCHANGED it
  /\ UNCHANGED <<threshold, hits, status, host, report>>

Put(t, field, value) == hits' = [hits EXCEPT ![slot[t]][field] = value]

WriteKey(t) ==
  /\ status = "running" /\ pc[t] = "key"
  /\ Put(t, "key", Cand(t))
  /\ pc' = [pc EXCEPT ![t] = "address"]
  /\ UNCHANGED <<threshold, it, slot, hit_count, status, host, report>>

WriteAddress(t) ==
  /\ status = "running" /\ pc[t] = "address"
  /\ Put(t, "address", Cand(t))
  /\ pc' = [pc EXCEPT ![t] = "zeros"]
  /\ UNCHANGED <<threshold, it, slot, hit_count, status, host, report>>

WriteZeros(t) ==
  /\ status = "running" /\ pc[t] = "zeros"
  /\ Put(t, "zeros", ZerosOf[Cand(t)])
  /\ pc' = [pc EXCEPT ![t] = "scan"]
  /\ NextCandidate(t)
  /\ UNCHANGED <<threshold, slot, hit_count, status, host, report>>

GpuStep(t) ==
  Pass(t) \/ Claim(t) \/ WriteKey(t) \/ WriteAddress(t) \/ WriteZeros(t)

----------------------------------------------------------------------------
(* The command and the host                                                *)

AllThreadsDone == \A t \in GpuThread : it[t] = ITERS

Complete ==
  /\ status = "running"
  /\ AllThreadsDone
  /\ status' = "completed"
  /\ UNCHANGED <<threshold, it, pc, slot, hit_count, hits, host, report>>

(* The command is killed: any part of what was written is in memory.       *)
WatchdogKills ==
  /\ Watchdog
  /\ status = "running"
  /\ status' = "error"
  /\ hit_count' \in 0 .. hit_count
  /\ \E kept \in SUBSET (Slot \X Field) :
       hits' = [s \in Slot |-> [f \in Field |->
                  IF <<s, f>> \in kept THEN hits[s][f] ELSE Unwritten]]
  /\ UNCHANGED <<threshold, it, pc, slot, host, report>>

StatusIgnored == FALSE
StatusFailed == StatusChecked /\ status = "error"

OneTooFew(found) == IF found < MAX_HITS THEN found ELSE MAX_HITS - 1
Readable(found) == IF found < MAX_HITS THEN found ELSE MAX_HITS

HostPanics ==
  /\ host = "waiting"
  /\ StatusFailed
  /\ host' = "panicked"
  /\ UNCHANGED <<threshold, it, pc, slot, hit_count, hits, status, report>>

HostReads ==
  /\ host = "waiting"
  /\ status # "running"
  /\ ~StatusFailed
  /\ host' = "returned"
  /\ report' = [i \in 1 .. Readable(hit_count) |-> hits[i - 1]]
  /\ UNCHANGED <<threshold, it, pc, slot, hit_count, hits, status>>

Host == Complete \/ WatchdogKills \/ HostPanics \/ HostReads

Done == host # "waiting" /\ UNCHANGED vars

Next == (\E t \in GpuThread : GpuStep(t)) \/ Host \/ Done

Spec == Init /\ [][Next]_vars

(* The GPU runs every thread of the grid, and the host is scheduled; the   *)
(* watchdog need not strike.                                               *)
Fairness ==
  /\ \A t \in GpuThread : WF_vars(GpuStep(t))
  /\ WF_vars(Complete \/ HostPanics \/ HostReads)

FairSpec == Spec /\ Fairness

----------------------------------------------------------------------------
TypeOK ==
  /\ threshold \in Threshold
  /\ it \in [GpuThread -> 0 .. ITERS]
  /\ pc \in [GpuThread -> {"scan"} \cup Field]
  /\ slot \in [GpuThread -> Slot]
  /\ hit_count \in Nat
  /\ hits \in [Slot -> Record]
  /\ status \in {"running", "completed", "error"}
  /\ host \in {"waiting", "returned", "panicked"}
  /\ report \in Seq(Record)

Qualifying ==
  {c \in Candidate : c \notin OutOfRange /\ ZerosOf[c] >= threshold}

Reported == {report[i] : i \in DOMAIN report}

(* Two threads never write the same slot: the claims hand out each slot    *)
(* once, in whatever order the threads of the grid run.                    *)
SlotsDisjoint ==
  \A t, u \in GpuThread :
    pc[t] # "scan" /\ pc[u] # "scan" /\ slot[t] = slot[u] => t = u

(* Whatever the dispatch returns is the whole record of one candidate that *)
(* qualifies: no slot read before it was written, no mix of two records.   *)
NothingTorn == Reported \subseteq {Whole(c) : c \in Qualifying}

(* A dispatch that returns has every qualifying candidate, or the counter  *)
(* says that the batch was saturated and the buffer was full.              *)
NothingMissed ==
  host = "returned" =>
    \/ \A c \in Qualifying : Whole(c) \in Reported
    \/ hit_count > MAX_HITS /\ Len(report) = MAX_HITS

Report == INSTANCE HitReport WITH
  Capacity <- MAX_HITS,
  wanted <- {Whole(c) : c \in Qualifying}

(* The dispatch keeps its promise to the driver.                           *)
ImplementsReport == Report!Spec

(* The dispatching thread does not wait for ever.                          *)
DispatchEnds == <>(host # "waiting")

=============================================================================
