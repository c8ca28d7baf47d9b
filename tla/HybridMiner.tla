---------------------------- MODULE HybridMiner ----------------------------
(***************************************************************************)
(* The hybrid miner (src/src/bin/gpu.rs): CPU workers (src/src/miner/      *)
(* cpu.rs) and one GPU driver (src/src/miner/gpu_driver.rs) around the     *)
(* shared state and the report_hit funnel of MinerShared, Ctrl-C, and the  *)
(* main task that joins the threads and prints the summary.                *)
(*                                                                         *)
(* The kernel is a function of the batch: the keys the seeds reach at each *)
(* counter are fixed (Scan), every one whose address has enough zeros is a *)
(* hit, and at most MAX_HITS of them fit the buffer.  Further faults:      *)
(* "kernel" (a hit whose address is not that of its key) and "gpu" (the    *)
(* command buffer fails and commit_and_wait panics in the driver thread).  *)
(***************************************************************************)
EXTENDS MinerShared, FiniteSets, FiniteSetsExt, Functions

CONSTANTS
  Worker, Gpu,     \* the CPU workers and the thread of the GPU driver
  COUNTER_FLUSH,   \* keys a worker counts locally before it publishes them
  GPU_FLOOR,       \* lowest dispatch threshold
  N_THREADS,       \* GPU threads, one seed each
  ITERS,           \* counters a GPU thread scans in a batch
  CounterSpace,    \* counters before wrapping_add wraps (2^64)
  MAX_HITS,        \* hit records that fit the kernel's buffer
  Scan             \* Scan[c]: the keys the seeds reach at counter c

ASSUME HybridAssumption ==
  /\ Thread = Worker \cup {Gpu}
  /\ Gpu \notin Worker
  /\ IsFiniteSet(Worker)
  /\ COUNTER_FLUSH \in Nat \ {0}
  /\ GPU_FLOOR \in Nat
  /\ N_THREADS \in Nat \ {0}
  /\ ITERS \in Nat \ {0}
  /\ MAX_HITS \in Nat \ {0}
  /\ CounterSpace \in Nat \ {0}
  /\ Scan \in [0 .. CounterSpace - 1 -> SUBSET Key]

VARIABLES
  local,        \* cpu_worker: keys not yet added to cpu_keys
  drawn,        \* cpu_worker: the key of this iteration, until it is compared
  finished,     \* threads that left their loop
  base,         \* run_batches: first counter of the next batch
  threshold,    \* run_batches: threshold of the batch to dispatch, or None
  hits,         \* run_batches: hits of the batch not processed yet
  interrupted,  \* Ctrl-C was received
  exited,       \* how the process ended: "running", "ok", "panic", "fatal"
  summary,      \* the wallet the summary prints
  mined,        \* history: keys drawn by the workers
  seen          \* history: keys of workers, and keys of batches that reach
                \* the target, unless the batch saturated the buffer

driverVars == <<local, drawn, finished, base, threshold, hits, interrupted,
                exited, summary, mined, seen>>
vars == <<sharedVars, driverVars>>
searchVars == <<best_zeros, best, lock, poisoned, file, stdout, broken>>

HybridInit ==
  /\ Init
  /\ local = [w \in Worker |-> 0]
  /\ drawn = [w \in Worker |-> None]
  /\ finished = {}
  /\ base = 0
  /\ threshold = None
  /\ hits = {}
  /\ interrupted = FALSE
  /\ exited = "running"
  /\ summary = None
  /\ mined = 0
  /\ seen = {}

Own(k) == [privkey |-> k, address |-> k]

(* The caller's own check before report_hit, an unlocked load like the     *)
(* fast path's: `if zeros > shared.best_zeros() { shared.report_hit(..) }` *)
ReportIfBetter(t, h) ==
  /\ \E v \in RelaxedLoads :
       IF Zeros(h) > v THEN report_hit(t, h) ELSE UNCHANGED <<pc, hit>>
  /\ UNCHANGED <<searchVars, keyVars, stop, total>>

----------------------------------------------------------------------------
(* cpu_worker                                                              *)

AtLoopTop(w) == At(w, "idle") /\ drawn[w] = None /\ w \notin finished

FlushOverdue(n) == n > COUNTER_FLUSH
FlushDue(n) == n >= COUNTER_FLUSH

(* The loop never ends by itself: at the bound it goes on, uncounted.      *)
CountKey(w) ==
  IF mined = MaxKeys THEN UNCHANGED <<mined, local, keyVars>>
  ELSE /\ mined' = mined + 1
       /\ IF FlushDue(local[w] + 1)
            THEN add_cpu_keys(local[w] + 1) /\ local' = [local EXCEPT ![w] = 0]
            ELSE UNCHANGED keyVars /\ local' = [local EXCEPT ![w] = @ + 1]

WorkerDraws(w) ==
  /\ AtLoopTop(w)
  /\ ~stop
  /\ \E k \in Key : /\ drawn' = [drawn EXCEPT ![w] = k]
                    /\ seen' = seen \cup {k}
  /\ CountKey(w)
  /\ UNCHANGED <<searchVars, stop, pc, hit, total, finished, base, threshold,
                 hits, interrupted, exited, summary>>

WorkerCompares(w) ==
  /\ At(w, "idle")
  /\ drawn[w] # None
  /\ ReportIfBetter(w, Own(drawn[w]))
  /\ drawn' = [drawn EXCEPT ![w] = None]
  /\ UNCHANGED <<local, finished, base, threshold, hits, interrupted,
                 exited, summary, mined, seen>>

NoFinalFlush(w) == UNCHANGED keyVars
FinalFlush(w) == add_cpu_keys(local[w])

WorkerStops(w) ==
  /\ AtLoopTop(w)
  /\ stop
  /\ FinalFlush(w)
  /\ local' = [local EXCEPT ![w] = 0]
  /\ finished' = finished \cup {w}
  /\ UNCHANGED <<searchVars, stop, pc, hit, total, drawn, base, threshold,
                 hits, interrupted, exited, summary, mined, seen>>

WorkerStep(w) == WorkerDraws(w) \/ WorkerCompares(w) \/ WorkerStops(w)

----------------------------------------------------------------------------
(* run_batches                                                             *)

unclamped_threshold(zeros, goal) ==
  IF zeros > GPU_FLOOR THEN zeros ELSE GPU_FLOOR

gpu_threshold(zeros, goal) ==
  IF goal < GPU_FLOOR THEN goal
  ELSE IF zeros > GPU_FLOOR THEN zeros ELSE GPU_FLOOR

GpuAtLoopTop ==
  At(Gpu, "idle") /\ threshold = None /\ hits = {} /\ Gpu \notin finished

GpuPicksThreshold ==
  /\ GpuAtLoopTop
  /\ ~stop
  /\ \E v \in RelaxedLoads : threshold' = gpu_threshold(v, target)
  /\ UNCHANGED <<sharedVars, local, drawn, finished, base, hits, interrupted,
                 exited, summary, mined, seen>>

GpuStops ==
  /\ GpuAtLoopTop
  /\ stop
  /\ finished' = finished \cup {Gpu}
  /\ UNCHANGED <<sharedVars, local, drawn, base, threshold, hits, interrupted,
                 exited, summary, mined, seen>>

(* The candidates of a batch: counters base .. base+ITERS-1, wrapping.     *)
Batch == UNION {Scan[(base + i) % CounterSpace] : i \in 0 .. ITERS - 1}

Qualifying == {k \in Batch : ZerosOf[k] >= threshold}

(* The records the kernel leaves: claims past the cap are dropped, and the *)
(* order of the atomic claims decides whose those are.                     *)
Saturated == Cardinality(Qualifying) > MAX_HITS

KernelOutput ==
  LET sound == {{Own(k) : k \in kept} :
                  kept \in IF Saturated THEN kSubset(MAX_HITS, Qualifying)
                                       ELSE {Qualifying}}
      wrong == {h \in Hit : /\ h.privkey # h.address
                            /\ ZerosOf[h.address] >= threshold}
  IN  sound \cup IF "kernel" \in Faults
                   THEN {S \cup {h} : S \in sound, h \in wrong} ELSE {}

GpuDispatches ==
  /\ At(Gpu, "idle")
  /\ threshold # None
  /\ hits' \in KernelOutput
  /\ base' = (base + ITERS) % CounterSpace
  /\ IF gpu_keys >= MaxKeys THEN UNCHANGED keyVars
                            ELSE add_gpu_keys(N_THREADS * ITERS)
  /\ threshold' = None
  /\ seen' = IF Saturated THEN seen
             ELSE seen \cup {k \in Batch : ZerosOf[k] >= target}
  /\ UNCHANGED <<searchVars, stop, pc, hit, total, local, drawn, finished,
                 interrupted, exited, summary, mined>>

(* The status check after the wait panics in the driver thread; nothing    *)
(* asks the other threads to stop.                                         *)
GpuPanics ==
  /\ "gpu" \in Faults
  /\ At(Gpu, "idle")
  /\ threshold # None
  /\ Goto(Gpu, "dead")
  /\ threshold' = None
  /\ UNCHANGED <<searchVars, keyVars, stop, hit, total, local, drawn, finished,
                 base, hits, interrupted, exited, summary, mined, seen>>

TrustKernel(h) == TRUE
verify_hit(h) == h.privkey = h.address

FirstHitOnly(h) == {}
Remaining(h) == hits \ {h}

(* A hit is reported only if its key gives its address; a mismatch ends    *)
(* the whole process.                                                      *)
GpuProcessesHit ==
  /\ At(Gpu, "idle")
  /\ \E h \in hits :
       /\ hits' = Remaining(h)
       /\ IF verify_hit(h)
            THEN ReportIfBetter(Gpu, h) /\ UNCHANGED exited
            ELSE exited' = "fatal" /\ UNCHANGED sharedVars
  /\ UNCHANGED <<local, drawn, finished, base, threshold, interrupted,
                 summary, mined, seen>>

GpuStep ==
  \/ GpuPicksThreshold
  \/ GpuDispatches
  \/ GpuPanics
  \/ GpuProcessesHit
  \/ GpuStops

----------------------------------------------------------------------------
(* Operator, platform and the main task                                    *)

(* The Ctrl-C task prints before it requests stop: on a broken standard    *)
(* output it panics and stop is never requested.                           *)
CtrlC ==
  /\ ~interrupted
  /\ interrupted' = TRUE
  /\ stop' = (stop \/ ~broken)
  /\ UNCHANGED <<searchVars, keyVars, pc, hit, total, local, drawn, finished,
                 base, threshold, hits, exited, summary, mined, seen>>

OutputBreaks == StdoutBreaks /\ ~broken /\ UNCHANGED driverVars

WorkerJoined(t) == t = Gpu \/ t \in finished \/ At(t, "dead")
Joined(t) == t \in finished \/ At(t, "dead")

(* Every thread has returned or panicked (JoinErrors are ignored): the     *)
(* summary prints the best wallet, or lock().unwrap() panics.              *)
Summarise ==
  /\ \A t \in Thread : Joined(t)
  /\ IF poisoned THEN exited' = "panic" /\ UNCHANGED summary
                 ELSE exited' = "ok" /\ summary' = best
  /\ UNCHANGED <<sharedVars, local, drawn, finished, base, threshold, hits,
                 interrupted, mined, seen>>

Reporting(t) == InReportHit(t) /\ UNCHANGED driverVars

Running ==
  /\ exited = "running"
  /\ \/ \E t \in Thread : Reporting(t)
     \/ \E w \in Worker : WorkerStep(w)
     \/ GpuStep
     \/ CtrlC
     \/ OutputBreaks
     \/ Summarise

Ended == exited # "running" /\ UNCHANGED vars

HybridNext == Running \/ Ended

(* The operating system schedules every thread and the main task; nobody   *)
(* has to press Ctrl-C, and a fault need not happen.                       *)
HybridFairness ==
  /\ \A t \in Thread : WF_vars(exited = "running" /\ Reporting(t))
  /\ \A w \in Worker : WF_vars(exited = "running" /\ WorkerStep(w))
  /\ WF_vars(exited = "running" /\ GpuStep)
  /\ WF_vars(exited = "running" /\ Summarise)

HybridSpec == HybridInit /\ [][HybridNext]_vars

FairHybridSpec == HybridSpec /\ HybridFairness

----------------------------------------------------------------------------
HybridTypeOK ==
  /\ TypeOK
  /\ local \in [Worker -> 0 .. COUNTER_FLUSH - 1]
  /\ drawn \in [Worker -> Key \cup {None}]
  /\ finished \subseteq Thread
  /\ base \in 0 .. CounterSpace - 1
  /\ threshold \in Nat \cup {None}
  /\ hits \subseteq Hit
  /\ interrupted \in BOOLEAN
  /\ exited \in {"running", "ok", "panic", "fatal"}
  /\ summary \in Hit \cup {None}
  /\ mined \in Nat
  /\ seen \subseteq Key

InFlight(k) ==
  \/ \E w \in Worker : drawn[w] = k
  \/ Own(k) \in hits
  \/ \E t \in Thread : hit[t] = Own(k)

(* No key a worker drew, and no key of a batch that reaches the target, is *)
(* lost: it is on its way or the best is at least as good.  It is what the *)
(* stale reads, the threshold of the batch and the order in which threads  *)
(* get the lock could each break.                                          *)
NothingLost ==
  ~poisoned => \A k \in seen : ZerosOf[k] <= best_zeros \/ InFlight(k)

(* The wallet the summary names beats every key seen before the exit, the  *)
(* hits reported while the threads were stopping included.                 *)
SummaryIsTheBest ==
  exited = "ok" =>
    \A k \in seen : ZerosOf[k] <= IF summary = None THEN 0 ELSE Zeros(summary)

(* A wrong record of the kernel reaches neither the wallet kept, nor the   *)
(* file, nor the screen.                                                   *)
OnlyVerifiedKeys ==
  \A h \in {best} \cup {file[i].found : i \in DOMAIN file}
                  \cup {stdout[i] : i \in DOMAIN stdout} :
     h # None => h.privkey = h.address

(* The published count and the workers' local counts always add up to the  *)
(* keys drawn; after a normal exit nothing is left unpublished.            *)
KeysAccounted ==
  /\ cpu_keys + SumFunction(local) = mined
  /\ exited = "ok" /\ (\A w \in Worker : ~At(w, "dead")) => cpu_keys = mined

(* Once stop is requested or the target is reached the process ends, a     *)
(* driver thread that panicked notwithstanding (no thread waits forever).  *)
StopEndsTheProcess ==
  stop \/ best_zeros >= target ~> exited # "running"

=============================================================================
