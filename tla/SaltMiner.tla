----------------------------- MODULE SaltMiner -----------------------------
(***************************************************************************)
(* A salt-mining mode (src/src/miner/create2.rs; create3.rs, createx.rs    *)
(* and create2tag.rs have the same loop) and the part of bin/gpu.rs that   *)
(* runs it: one driver thread that dispatches batches, checks every hit    *)
(* and records each new best, and the Ctrl-C task.  Without a fault the    *)
(* kernel's answer is the one HitReport promises.                          *)
(*                                                                         *)
(* Faults: "kernel" (a wrong record, in its address or only in its count), *)
(* "gpu" (the watchdog kills a batch: commit_and_wait panics, but tagged   *)
(* CREATE2 does not look), "write" (writeln! fails, which the driver       *)
(* ignores) and "stdout" (println! panics once standard output is broken). *)
(***************************************************************************)
EXTENDS Naturals, Sequences, FiniteSets, CommandLine

CONSTANTS
  GpuThread,     \* the grid: one random base salt each
  ITERS,         \* salts a thread scans per batch
  CounterSpace,  \* counters before wrapping_add wraps (2^64)
  ZerosOf,       \* ZerosOf[s]: leading zero nibbles of the address of salt s
  GPU_FLOOR,
  MAX_HITS,
  WrongRecords,  \* records a failing kernel may return
  Memory,        \* records that memory nobody wrote may hold
  Arguments,     \* command lines of nullforge-gpu
  Faults,
  MaxTotal,      \* bound: salts counted
  MaxStrays      \* bound: wrong records returned

(* A salt: the high bytes of the thread's base salt and a counter.         *)
Salt == GpuThread \X (0 .. CounterSpace - 1)

(* The address of salt s is named s; zeros is the record's own count.      *)
Hit == [salt : Salt, address : Salt, zeros : Nat]
Own(s) == [salt |-> s, address |-> s, zeros |-> ZerosOf[s]]

ASSUME SaltAssumption ==
  /\ IsFiniteSet(GpuThread)
  /\ ITERS \in Nat \ {0}
  /\ CounterSpace \in Nat \ {0}
  /\ ZerosOf \in [Salt -> Nat]
  /\ GPU_FLOOR \in Nat
  /\ MAX_HITS \in Nat \ {0}
  /\ WrongRecords \cup Memory \subseteq Hit
  /\ \A args \in Arguments : gpu_main(args).mode # "keys"
  /\ MaxTotal \in Nat /\ MaxStrays \in Nat

VARIABLES
  mode,         \* the mode that runs, "usage" when the arguments are refused
  target,       \* argument of run_create2, 0 when the arguments are refused
  best, base, total,  \* locals of run_create2
  hits,         \* hits of the batch not processed yet
  pc,           \* "top" of the while loop, or in a "batch"
  report_due,   \* five seconds have passed since last_report
  file,         \* lines of scanned_salts.txt
  stop,         \* AtomicBool, stored by the driver and the Ctrl-C task
  broken,       \* standard output no longer accepts writes
  interrupted,  \* Ctrl-C was received
  exited,       \* "running", "ok" (summary printed), "panic", "fatal", or
                \* "usage": the arguments were refused
  scanned,      \* history: the salts dispatched
  seen,         \* history: those of batches that ended without a fault and
                \* that the buffer had room for
  strays        \* history: the records returned that a sound answer has not

run == <<mode, target>>
history == <<scanned, seen, strays>>
vars == <<run, best, base, total, hits, pc, report_due, file, stop, broken,
          interrupted, exited, history>>
process == <<run, broken, interrupted>>

Init ==
  /\ \E args \in Arguments :
       /\ mode = gpu_main(args).mode
       /\ target = gpu_main(args).target
       /\ exited = IF gpu_main(args) = Usage THEN "usage" ELSE "running"
  /\ best = 0 /\ base = 0 /\ total = 0
  /\ hits = {}
  /\ pc = "top"
  /\ report_due = FALSE
  /\ file = <<>>
  /\ stop = FALSE
  /\ broken = FALSE
  /\ interrupted = FALSE
  /\ scanned = {} /\ seen = {} /\ strays = {}

----------------------------------------------------------------------------
(* run_create2                                                             *)

unclamped_threshold(zeros) == IF zeros > GPU_FLOOR THEN zeros ELSE GPU_FLOOR

c2_threshold(zeros) ==
  IF target < GPU_FLOOR THEN target
  ELSE IF zeros > GPU_FLOOR THEN zeros ELSE GPU_FLOOR

(* Salts of a batch: each thread's counters base .. base + ITERS - 1.      *)
Batch == {<<t, (base + i) % CounterSpace>> : t \in GpuThread, i \in 0 .. ITERS - 1}

Qualifying == {s \in Batch : ZerosOf[s] >= c2_threshold(best)}
Saturated == Cardinality(Qualifying) > MAX_HITS

(* What HitReport promises: the records of all salts that qualify, or of   *)
(* as many as fit the buffer.                                              *)
Promised ==
  LET kept == IF Saturated
                THEN {Q \in SUBSET Qualifying : Cardinality(Q) = MAX_HITS}
                ELSE {Qualifying}
  IN  {{Own(s) : s \in Q} : Q \in kept}

(* A wrong record, and right ones, some perhaps missing.                   *)
Miscomputed ==
  LET some == UNION {SUBSET answer : answer \in Promised}
  IN  {kept \cup {h} : h \in WrongRecords,
                       kept \in {S \in some : Cardinality(S) < MAX_HITS}}

(* Killed half way: fewer records, and each of them written in part.       *)
Torn(s) ==
  LET parts == {Own(s)} \cup Memory
  IN  {[salt |-> a.salt, address |-> b.address, zeros |-> c.zeros] :
         a \in parts, b \in parts, c \in parts}

Killed ==
  LET records == UNION {Torn(s) : s \in Qualifying}
  IN  {Range(list) : list \in UNION {[1 .. k -> records] : k \in 0 .. MAX_HITS}}

Overlapping == (base + ITERS - 1) % CounterSpace
NextBase == (base + ITERS) % CounterSpace

(* One turn of the loop up to its hits, whatever the dispatch returned.    *)
Advance ==
  /\ pc = "top" /\ ~stop
  /\ strays' = strays \cup (hits' \ {Own(s) : s \in Qualifying})
  /\ base' = NextBase
  /\ total' = IF total < MaxTotal THEN total + Cardinality(GpuThread) * ITERS
                                  ELSE total
  /\ pc' = "batch"
  /\ scanned' = scanned \cup Batch
  /\ UNCHANGED <<best, report_due, file, stop, process, exited>>

Dispatch ==
  /\ hits' \in Promised
  /\ Advance
  /\ seen' = IF Saturated THEN seen ELSE seen \cup Batch

KernelErrs ==
  /\ "kernel" \in Faults
  /\ Cardinality(strays) < MaxStrays
  /\ hits' \in Miscomputed
  /\ Advance
  /\ UNCHANGED seen

(* dispatch_create2tag waits for its command by itself.                    *)
StatusChecked == mode # "create2tag"

KilledUnnoticed ==
  /\ "gpu" \in Faults
  /\ ~StatusChecked
  /\ Cardinality(strays) < MaxStrays
  /\ hits' \in Killed
  /\ Advance
  /\ UNCHANGED seen

GpuPanics ==
  /\ "gpu" \in Faults
  /\ StatusChecked
  /\ pc = "top" /\ ~stop
  /\ exited' = "panic"
  /\ UNCHANGED <<best, base, total, hits, pc, report_due, file, stop, process,
                 history>>

TrustKernel(h) == TRUE
verify_create2(h) == h.salt = h.address

IsNewBest(h) == h.zeros > best

WriteMayFail == "write" \in Faults

PassesTarget(h) == h.zeros > target
ReachesTarget(h) == h.zeros >= target

(* best, the line, the println! and the store of stop at the target.       *)
RecordBest(h) ==
  /\ best' = h.zeros
  /\ \/ file' = Append(file, [total |-> total, address |-> h.address,
                              zeros |-> h.zeros, salt |-> h.salt])
     \/ WriteMayFail /\ UNCHANGED file
  /\ exited' = IF broken THEN "panic" ELSE exited
  /\ stop' = (stop \/ (~broken /\ ReachesTarget(h)))

ProcessHit ==
  /\ pc = "batch"
  /\ \E h \in hits :
       /\ hits' = hits \ {h}
       /\ \/ /\ ~verify_create2(h)
             /\ exited' = "fatal"
             /\ UNCHANGED <<best, file, stop>>
          \/ /\ verify_create2(h)
             /\ IsNewBest(h)
             /\ RecordBest(h)
          \/ /\ verify_create2(h)
             /\ ~IsNewBest(h)
             /\ UNCHANGED <<best, file, stop, exited>>
  /\ UNCHANGED <<base, total, pc, report_due, process, history>>

QuietReport == exited
ReportRate == IF report_due /\ broken THEN "panic" ELSE exited

(* The rate report, if it is time, and the duty-cycle sleep.               *)
EndBatch ==
  /\ pc = "batch" /\ hits = {}
  /\ exited' = ReportRate
  /\ report_due' = FALSE
  /\ pc' = "top"
  /\ UNCHANGED <<best, base, total, hits, file, stop, process, history>>

(* The loop ends and the summary is printed.                               *)
Leave ==
  /\ pc = "top" /\ stop
  /\ exited' = IF broken THEN "panic" ELSE "ok"
  /\ UNCHANGED <<best, base, total, hits, pc, report_due, file, stop, process,
                 history>>

Driver ==
  \/ Dispatch \/ KernelErrs \/ KilledUnnoticed \/ GpuPanics
  \/ ProcessHit \/ EndBatch \/ Leave

----------------------------------------------------------------------------
(* The Ctrl-C task, the clock and standard output                          *)

(* It prints before it stores stop: on a broken output it only panics.     *)
CtrlC ==
  /\ ~interrupted
  /\ interrupted' = TRUE
  /\ stop' = (stop \/ ~broken)
  /\ UNCHANGED <<run, best, base, total, hits, pc, report_due, file, broken,
                 exited, history>>

Clock ==
  /\ ~report_due
  /\ report_due' = TRUE
  /\ UNCHANGED <<best, base, total, hits, pc, file, stop, process, exited,
                 history>>

StdoutBreaks ==
  /\ "stdout" \in Faults
  /\ ~broken
  /\ broken' = TRUE
  /\ UNCHANGED <<run, best, base, total, hits, pc, report_due, file, stop,
                 interrupted, exited, history>>

Running ==
  exited = "running" /\ (Driver \/ CtrlC \/ Clock \/ StdoutBreaks)

Ended == exited # "running" /\ UNCHANGED vars

Next == Running \/ Ended

Spec == Init /\ [][Next]_vars

(* The driver thread is scheduled and time passes; Ctrl-C and the faults   *)
(* need not happen.                                                        *)
Fairness ==
  WF_vars(exited = "running" /\ Driver) /\ WF_vars(exited = "running" /\ Clock)

FairSpec == Spec /\ Fairness

----------------------------------------------------------------------------
TypeOK ==
  /\ mode \in IF exited = "usage" THEN {"usage"}
              ELSE {"create2", "create3", "createx", "create2tag"}
  /\ target \in IF exited = "usage" THEN {0} ELSE 1 .. 40
  /\ best \in Nat
  /\ base \in 0 .. CounterSpace - 1
  /\ total \in Nat
  /\ hits \subseteq Hit
  /\ pc \in {"top", "batch"}
  /\ file \in Seq([total : Nat, address : Salt, zeros : Nat, salt : Salt])
  /\ {report_due, stop, broken, interrupted} \subseteq BOOLEAN
  /\ exited \in {"running", "ok", "panic", "fatal", "usage"}
  /\ scanned \subseteq Salt /\ seen \subseteq scanned
  /\ strays \subseteq Hit

(* A line's salt was scanned and its count is right, unless the record it  *)
(* was made from was already wrong.                                        *)
Record(l) == [salt |-> l.salt, address |-> l.address, zeros |-> l.zeros]
RightLine(l) ==
  \/ l.salt \in scanned /\ l.zeros = ZerosOf[l.salt]
  \/ Record(l) \in strays

(* Whatever the kernel returned and in whatever order it claimed slots, a  *)
(* line has the address of its salt and beats every line before it in the  *)
(* zeros it tells.  It tells the truth about a scanned salt unless a       *)
(* failing kernel or an unnoticed kill made that very record: no check     *)
(* covers the count.                                                       *)
LinesTrue ==
  /\ \A i \in DOMAIN file : /\ file[i].address = file[i].salt
                            /\ RightLine(file[i])
  /\ \A i, j \in DOMAIN file : i < j => /\ file[i].zeros < file[j].zeros
                                        /\ file[i].total <= file[j].total

(* Between batches, the best is at least as good as every salt worth a     *)
(* report of the batches that ended without a fault, also when others did  *)
(* not: neither a threshold that follows the best nor the floor nor the    *)
(* early stop loses one.  The batch of tagged CREATE2 that is killed       *)
(* unnoticed loses what it had (HitBuffer_unchecked), and a count that is  *)
(* too high hides better salts, for the best believes it.                  *)
NothingLost ==
  exited \in {"running", "ok"} /\ pc = "top" =>
    \A s \in seen : ZerosOf[s] >= target \/ ZerosOf[s] >= GPU_FLOOR
                      => best >= ZerosOf[s]

(* Every salt counted is a new one, until the counter wraps: no batch      *)
(* rescans what an earlier one did.                                        *)
TotalIsHonest ==
  \/ total = Cardinality(scanned)
  \/ scanned = Salt
  \/ total >= MaxTotal

(* No batch is dispatched after a hit reached the target: the stop stored  *)
(* while the hits are processed is seen before the next batch.             *)
NoBatchAfterTarget == [][scanned' # scanned => best < target]_vars

(* Ctrl-C ends the process though its task may panic before it stores      *)
(* stop: the driver then dies of its own next report.                      *)
CtrlCEndsTheProcess == interrupted ~> exited # "running"

=============================================================================
