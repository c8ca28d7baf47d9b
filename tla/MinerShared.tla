---------------------------- MODULE MinerShared ----------------------------
(***************************************************************************)
(* The state both mining engines share and report_hit, the one function    *)
(* through which every hit goes (src/src/miner/shared.rs).  Each step of a *)
(* thread inside report_hit is an action: the unlocked fast path, taking   *)
(* the `best` mutex, the second check, storing the new best, writing the   *)
(* line of scanned_keys.txt, printing, stopping, releasing.  Here the      *)
(* threads call report_hit with any hit at any time; HybridMiner puts the  *)
(* engines that call it around this module.                                *)
(*                                                                         *)
(* Faults the code meets: "write" (the key cannot be encoded, or the write *)
(* fails: both leave no line) and "stdout" (println! panics once standard  *)
(* output is broken, which poisons the mutex the printing thread holds).   *)
(***************************************************************************)
EXTENDS Naturals, Sequences

CONSTANTS
  Thread,    \* threads that call report_hit: the CPU workers, the GPU driver
  Key,       \* private keys; the address of key k is named k as well
  ZerosOf,   \* ZerosOf[k]: leading zero nibbles of the address of k
  target,    \* leading zeros at which the search stops
  Faults,    \* the faults that may happen, a subset of {"write", "stdout", ...}
  None,      \* Option::None
  NoThread,  \* the mutex is free
  MaxKeys    \* bound: the most keys either counter counts

ASSUME SharedAssumption ==
  /\ ZerosOf \in [Key -> Nat]
  /\ target \in Nat \ {0}
  /\ NoThread \notin Thread
  /\ MaxKeys \in Nat

(* A hit: a private key and the address claimed for it.                    *)
Hit == [privkey : Key, address : Key]

ASSUME NoneIsNoHit == None \notin Hit \cup Key

(* Callers count the zeros on the address bytes (leading_zero_nibbles).    *)
Zeros(hit) == ZerosOf[hit.address]

VARIABLES
  best_zeros,  \* AtomicUsize, read without the lock
  best,        \* Mutex<Option<FoundKey>>: the data ...
  lock,        \* ... its holder ...
  poisoned,    \* ... and whether a holder has panicked
  file,        \* the lines of scanned_keys.txt
  stdout,      \* the "New best" lines printed
  broken,      \* standard output no longer accepts writes
  cpu_keys, gpu_keys,  \* AtomicU64 counters
  stop,        \* AtomicBool
  pc,          \* where each thread is in report_hit
  hit,         \* the arguments each thread passed
  total        \* local of the lock holder: keys counted when it found the hit

sharedVars == <<best_zeros, best, lock, poisoned, file, stdout, broken,
                cpu_keys, gpu_keys, stop, pc, hit, total>>
keyVars == <<cpu_keys, gpu_keys>>

Steps == {"idle", "fast_path", "lock", "recheck", "set_best", "write_line",
          "print", "dead"}

Line == [total : Nat, found : Hit, zeros : Nat]

Init ==
  /\ best_zeros = 0
  /\ best = None
  /\ lock = NoThread
  /\ poisoned = FALSE
  /\ file = <<>>
  /\ stdout = <<>>
  /\ broken = FALSE
  /\ cpu_keys = 0
  /\ gpu_keys = 0
  /\ stop = FALSE
  /\ pc = [t \in Thread |-> "idle"]
  /\ hit = [t \in Thread |-> None]
  /\ total = 0

At(t, step) == pc[t] = step
Goto(t, step) == pc' = [pc EXCEPT ![t] = step]
Return(t) == Goto(t, "idle") /\ hit' = [hit EXCEPT ![t] = None]

(* A Relaxed load of best_zeros outside the lock: any value stored so far. *)
(* Every value stored before the current one was printed by the thread     *)
(* that stored it before that thread let the lock go.                      *)
RelaxedLoads == {0, best_zeros} \cup {Zeros(stdout[i]) : i \in DOMAIN stdout}

add_cpu_keys(n) == cpu_keys' = cpu_keys + n /\ UNCHANGED gpu_keys
add_gpu_keys(n) == gpu_keys' = gpu_keys + n /\ UNCHANGED cpu_keys

----------------------------------------------------------------------------
(* report_hit, step by step.                                               *)

(* Mutants, each a slip in the operator after it, are defined beside it.   *)

BeatenByOneMore(t, zeros) == Zeros(hit[t]) <= zeros + 1
Beaten(t, zeros) == Zeros(hit[t]) <= zeros

BestNotGuarded == TRUE
BestUnlocked == lock = NoThread

NoRecheck(t) == TRUE
StillBeats(t) == ~Beaten(t, best_zeros)

SubtractingTotal == total - gpu_keys
LineTotal == total + gpu_keys

AnyWriteMayBeLost == TRUE
WriteMayFail == "write" \in Faults

PassesTarget(h) == Zeros(h) > target
ReachesTarget(h) == Zeros(h) >= target

report_hit(t, h) ==
  /\ At(t, "idle")
  /\ hit' = [hit EXCEPT ![t] = h]
  /\ Goto(t, "fast_path")

FastPath(t) ==
  /\ At(t, "fast_path")
  /\ \E seen \in RelaxedLoads :
       IF Beaten(t, seen) THEN Return(t)
                          ELSE Goto(t, "lock") /\ UNCHANGED hit
  /\ UNCHANGED <<best_zeros, best, lock, poisoned, file, stdout, broken,
                 keyVars, stop, total>>

LockBest(t) ==
  /\ At(t, "lock")
  /\ BestUnlocked
  /\ IF poisoned THEN Goto(t, "dead") /\ UNCHANGED lock
                 ELSE Goto(t, "recheck") /\ lock' = t
  /\ UNCHANGED <<best_zeros, best, poisoned, file, stdout, broken,
                 keyVars, stop, hit, total>>

LostRace(t) ==
  /\ At(t, "recheck")
  /\ ~StillBeats(t)
  /\ lock' = NoThread
  /\ Return(t)
  /\ UNCHANGED <<best_zeros, best, poisoned, file, stdout, broken,
                 keyVars, stop, total>>

StoreZeros(t) ==
  /\ At(t, "recheck")
  /\ StillBeats(t)
  /\ best_zeros' = Zeros(hit[t])
  /\ Goto(t, "set_best")
  /\ UNCHANGED <<best, lock, poisoned, file, stdout, broken,
                 keyVars, stop, hit, total>>

(* *best = Some(..), and the first of the two loads that make up `total`.  *)
SetBest(t) ==
  /\ At(t, "set_best")
  /\ best' = hit[t]
  /\ total' = cpu_keys
  /\ Goto(t, "write_line")
  /\ UNCHANGED <<best_zeros, lock, poisoned, file, stdout, broken,
                 keyVars, stop, hit>>

WriteLine(t) ==
  /\ At(t, "write_line")
  /\ \/ file' = Append(file, [total |-> LineTotal, found |-> hit[t],
                              zeros |-> Zeros(hit[t])])
     \/ WriteMayFail /\ UNCHANGED file
  /\ total' = 0
  /\ Goto(t, "print")
  /\ UNCHANGED <<best_zeros, best, lock, poisoned, stdout, broken,
                 keyVars, stop, hit>>

(* println!, request_stop at the target, and the guard dropped on return.  *)
PrintNewBest(t) ==
  /\ At(t, "print")
  /\ ~broken
  /\ stdout' = Append(stdout, hit[t])
  /\ stop' = (stop \/ ReachesTarget(hit[t]))
  /\ lock' = NoThread
  /\ Return(t)
  /\ UNCHANGED <<best_zeros, best, poisoned, file, broken, keyVars, total>>

(* println! panics: the guard is dropped while unwinding and poisons.      *)
PrintPanics(t) ==
  /\ At(t, "print")
  /\ broken
  /\ poisoned' = TRUE
  /\ lock' = NoThread
  /\ Goto(t, "dead")
  /\ UNCHANGED <<best_zeros, best, file, stdout, broken, keyVars, stop,
                 hit, total>>

InReportHit(t) ==
  \/ FastPath(t)
  \/ LockBest(t)
  \/ LostRace(t)
  \/ StoreZeros(t)
  \/ SetBest(t)
  \/ WriteLine(t)
  \/ PrintNewBest(t)
  \/ PrintPanics(t)

----------------------------------------------------------------------------
(* The open system: what engines, operator and platform may do.            *)

Call(t, h) ==
  /\ report_hit(t, h)
  /\ UNCHANGED <<best_zeros, best, lock, poisoned, file, stdout, broken,
                 keyVars, stop, total>>

AddKeys ==
  /\ cpu_keys + gpu_keys < MaxKeys
  /\ add_cpu_keys(1) \/ add_gpu_keys(1)
  /\ UNCHANGED <<best_zeros, best, lock, poisoned, file, stdout, broken,
                 stop, pc, hit, total>>

RequestStop ==
  /\ stop' = TRUE
  /\ UNCHANGED <<best_zeros, best, lock, poisoned, file, stdout, broken,
                 keyVars, pc, hit, total>>

StdoutBreaks ==
  /\ "stdout" \in Faults
  /\ broken' = TRUE
  /\ UNCHANGED <<best_zeros, best, lock, poisoned, file, stdout,
                 keyVars, stop, pc, hit, total>>

Next ==
  \/ \E t \in Thread : InReportHit(t) \/ \E h \in Hit : Call(t, h)
  \/ AddKeys
  \/ RequestStop
  \/ StdoutBreaks

Spec == Init /\ [][Next]_sharedVars

----------------------------------------------------------------------------
TypeOK ==
  /\ best_zeros \in Nat
  /\ best \in Hit \cup {None}
  /\ lock \in Thread \cup {NoThread}
  /\ poisoned \in BOOLEAN
  /\ file \in Seq(Line)
  /\ stdout \in Seq(Hit)
  /\ broken \in BOOLEAN
  /\ cpu_keys \in Nat
  /\ gpu_keys \in Nat
  /\ stop \in BOOLEAN
  /\ pc \in [Thread -> Steps]
  /\ hit \in [Thread -> Hit \cup {None}]
  /\ total \in Nat

BestZeros == IF best = None THEN 0 ELSE Zeros(best)

(* The atomic that engines read without the lock and the wallet the mutex  *)
(* guards name the same zeros, except while one thread is between the two  *)
(* stores (shared.rs:118-123).                                             *)
BestAgrees ==
  (\A t \in Thread : ~At(t, "set_best")) => best_zeros = BestZeros

(* Every line of the file has strictly more zeros than the line before and *)
(* a key count that does not go back, though the count is two unlocked     *)
(* loads and the lines come from different threads.                        *)
LinesOrdered ==
  \A i, j \in 1..Len(file) :
    i < j => /\ file[i].zeros < file[j].zeros
             /\ file[i].total <= file[j].total

(* No hit that reaches the target is settled without stop being requested, *)
(* unless the thread that should have done it panicked.                    *)
TargetStops ==
  lock = NoThread /\ ~poisoned /\ best_zeros >= target => stop

(* With no write fault, a best that is settled is the last line of the     *)
(* file: the wallet of the summary can be recovered from it.               *)
BestIsLastLine ==
  "write" \notin Faults
    /\ (\A t \in Thread : pc[t] \notin {"set_best", "write_line"})
    /\ best # None
  => file # <<>> /\ file[Len(file)].found = best

(* A call returns false only for a hit that does not beat the best at that *)
(* moment, however stale the value the fast path loaded (shared.rs:111).   *)
RejectedOnlyIfBeaten ==
  [][\A t \in Thread :
       pc[t] \in {"fast_path", "recheck"} /\ pc'[t] = "idle"
         => Zeros(hit[t]) <= best_zeros]_sharedVars

Tracker == INSTANCE BestTracker WITH
  Candidate <- Hit,
  Rank      <- [h \in Hit |-> Zeros(h)],
  Lossy     <- "write" \in Faults,
  top       <- best,
  pending   <- \E t \in Thread : At(t, "write_line"),
  log       <- [i \in DOMAIN file |-> file[i].found]

(* report_hit, called by any threads in any interleaving, implements the   *)
(* atomic tracker of the best hit.                                         *)
ImplementsTracker == Tracker!Spec

=============================================================================
