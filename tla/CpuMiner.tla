------------------------------ MODULE CpuMiner ------------------------------
(***************************************************************************)
(* The CPU-only miner (src/src/main.rs).  Unlike the hybrid miner it has   *)
(* no funnel: each worker checks a candidate against two atomics, stores   *)
(* them, appends to the file under one mutex and sets the final wallet     *)
(* under another, with nothing held from the check to the last store.      *)
(*                                                                         *)
(* Faults: "encode" (the key cannot be encrypted: no line, the rest goes   *)
(* on), "write" (writeln! fails: expect panics and poisons the file mutex) *)
(* and "stdout" (println! panics once standard output is broken).          *)
(***************************************************************************)
EXTENDS Naturals, FiniteSets, Functions

CONSTANTS
  Worker,
  Key,
  ZerosOf,        \* leading zero nibbles of the address of each key
  CharsInOrder,   \* longest run of one character after those zeros
  MIN_ZEROS,      \* candidates below are never reported (the literal 3)
  max_zeros,      \* target
  COUNTER_FLUSH,
  Faults,
  Relaxed,        \* whether Relaxed loads may return overwritten values
  None,
  MaxKeys         \* bound: keys counted

ASSUME CpuAssumption ==
  /\ IsFiniteSet(Worker)
  /\ ZerosOf \in [Key -> Nat]
  /\ CharsInOrder \in [Key -> Nat]
  /\ MIN_ZEROS \in Nat \ {0}
  /\ max_zeros \in Nat \ {0}
  /\ COUNTER_FLUSH \in Nat \ {0}
  /\ Relaxed \in BOOLEAN
  /\ MaxKeys \in Nat
  /\ None \notin Key

VARIABLES
  max_zero_count, max_order_chars,  \* AtomicUsize
  best_wallet,      \* Mutex<Option<Wallet>>, held for one assignment
  file,             \* the keys with a line in scanned_keys.txt
  poisoned,         \* a thread panicked holding the file mutex
  broken,           \* standard output no longer accepts writes
  total_generated,  \* AtomicUsize
  stop_signal,      \* AtomicBool
  pc, key,          \* where each worker is, and with which candidate
  current_max, max_order_value,  \* what each worker loaded
  local_generated,
  interrupted,      \* Ctrl-C was received
  summary,          \* the wallet the summary prints
  mined,            \* history: keys drawn
  seen,             \* history: keys compared or to be compared
  accepted,         \* history: keys that passed both checks
  unencoded         \* history: keys without a line, for they were not encrypted

vars == <<max_zero_count, max_order_chars, best_wallet, file, poisoned, broken,
          total_generated, stop_signal, pc, key, current_max, max_order_value,
          local_generated, interrupted, summary, mined, seen, accepted,
          unencoded>>
atomics == <<max_zero_count, max_order_chars>>
results == <<best_wallet, file, poisoned>>
control == <<broken, stop_signal, interrupted, summary>>
counting == <<total_generated, local_generated, mined>>
loaded == <<current_max, max_order_value>>
history == <<seen, accepted, unencoded>>

Steps == {"top", "load_max", "load_order", "store_max", "store_order", "flush",
          "write_line", "set_wallet", "print", "finished", "dead"}

Init ==
  /\ max_zero_count = 0
  /\ max_order_chars = 0
  /\ best_wallet = None
  /\ file = {}
  /\ poisoned = FALSE
  /\ broken = FALSE
  /\ total_generated = 0
  /\ stop_signal = FALSE
  /\ pc = [w \in Worker |-> "top"]
  /\ key = [w \in Worker |-> None]
  /\ current_max = [w \in Worker |-> 0]
  /\ max_order_value = [w \in Worker |-> 0]
  /\ local_generated = [w \in Worker |-> 0]
  /\ interrupted = FALSE
  /\ summary = "running"
  /\ mined = 0
  /\ seen = {}
  /\ accepted = {}
  /\ unencoded = {}

At(w, step) == pc[w] = step
Goto(w, step) == pc' = [pc EXCEPT ![w] = step]

(* `continue` or the end of the iteration: the candidate and what was      *)
(* loaded for it go out of scope.                                          *)
Leave(w, step) ==
  /\ Goto(w, step)
  /\ key' = [key EXCEPT ![w] = None]
  /\ current_max' = [current_max EXCEPT ![w] = 0]
  /\ max_order_value' = [max_order_value EXCEPT ![w] = 0]

(* Relaxed loads: the current value, or any value stored before.           *)
MaxLoads == {max_zero_count} \cup
            IF Relaxed THEN {0} \cup {ZerosOf[k] : k \in accepted} ELSE {}
OrderLoads == {max_order_chars} \cup
              IF Relaxed THEN {0} \cup {CharsInOrder[k] : k \in accepted} ELSE {}

(* Mutants, each a slip in the operator after it, are defined beside it.   *)

ForgetLocal(w) ==
  /\ UNCHANGED total_generated
  /\ local_generated' = [local_generated EXCEPT ![w] = 0]
FlushLocal(w) ==
  /\ total_generated' = total_generated + local_generated[w]
  /\ local_generated' = [local_generated EXCEPT ![w] = 0]

----------------------------------------------------------------------------
(* The worker loop.                                                        *)

FlushDue(n) == n >= COUNTER_FLUSH

(* The loop never ends by itself: at the bound it goes on, uncounted.      *)
CountKey(w) ==
  IF mined = MaxKeys THEN UNCHANGED counting
  ELSE LET n == local_generated[w] + 1
       IN  /\ mined' = mined + 1
           /\ total_generated' = total_generated + IF FlushDue(n) THEN n ELSE 0
           /\ local_generated' =
                [local_generated EXCEPT ![w] = IF FlushDue(n) THEN 0 ELSE n]

Draw(w) ==
  /\ At(w, "top")
  /\ ~stop_signal
  /\ \E k \in Key : key' = [key EXCEPT ![w] = k] /\ seen' = seen \cup {k}
  /\ CountKey(w)
  /\ Goto(w, "load_max")
  /\ UNCHANGED <<atomics, results, control, loaded, accepted, unencoded>>

Stop(w) ==
  /\ At(w, "top")
  /\ stop_signal
  /\ FlushLocal(w)
  /\ Goto(w, "finished")
  /\ UNCHANGED <<atomics, results, control, key, loaded, mined, history>>

Uninteresting(k, max) == ZerosOf[k] < MIN_ZEROS \/ ZerosOf[k] < max

LoadMax(w) ==
  /\ At(w, "load_max")
  /\ \E max \in MaxLoads :
       IF Uninteresting(key[w], max) THEN Leave(w, "top")
       ELSE /\ current_max' = [current_max EXCEPT ![w] = max]
            /\ Goto(w, "load_order")
            /\ UNCHANGED <<key, max_order_value>>
  /\ UNCHANGED <<atomics, results, control, counting, history>>

FewerInOrder(w, order) == CharsInOrder[key[w]] < order
TiesWithFewer(w, order) ==
  ZerosOf[key[w]] = current_max[w] /\ CharsInOrder[key[w]] < order

LoadOrder(w) ==
  /\ At(w, "load_order")
  /\ \E order \in OrderLoads :
       IF TiesWithFewer(w, order)
         THEN Leave(w, "top") /\ UNCHANGED accepted
         ELSE /\ max_order_value' = [max_order_value EXCEPT ![w] = order]
              /\ accepted' = accepted \cup {key[w]}
              /\ Goto(w, "store_max")
              /\ UNCHANGED <<key, current_max>>
  /\ UNCHANGED <<atomics, results, control, counting, seen, unencoded>>

StoreMax(w) ==
  /\ At(w, "store_max")
  /\ max_zero_count' = ZerosOf[key[w]]
  /\ Goto(w, IF CharsInOrder[key[w]] > max_order_value[w]
               THEN "store_order" ELSE "flush")
  /\ UNCHANGED <<max_order_chars, results, control, counting, key, loaded,
                 history>>

StoreOrder(w) ==
  /\ At(w, "store_order")
  /\ max_order_chars' = CharsInOrder[key[w]]
  /\ Goto(w, "flush")
  /\ UNCHANGED <<max_zero_count, results, control, counting, key, loaded,
                 history>>

Flush(w) ==
  /\ At(w, "flush")
  /\ FlushLocal(w)
  /\ Goto(w, "write_line")
  /\ UNCHANGED <<atomics, results, control, mined, key, loaded, history>>

(* The mutex is held for this step only, so it is always free; it may be   *)
(* poisoned, and then lock().unwrap() panics.                              *)
WriteLine(w) ==
  /\ At(w, "write_line")
  /\ ~poisoned
  /\ file' = file \cup {key[w]}
  /\ Goto(w, "set_wallet")
  /\ UNCHANGED <<atomics, best_wallet, poisoned, control, counting, key, loaded,
                 history>>

CannotEncode(w) ==
  /\ At(w, "write_line")
  /\ "encode" \in Faults
  /\ unencoded' = unencoded \cup {key[w]}
  /\ Goto(w, "set_wallet")
  /\ UNCHANGED <<atomics, results, control, counting, key, loaded, seen,
                 accepted>>

IgnoredFailure(w) == Goto(w, "set_wallet") /\ UNCHANGED <<poisoned, key, loaded>>
WritePanic(w) == Leave(w, "dead") /\ poisoned' = TRUE

WriteFails(w) ==
  /\ At(w, "write_line")
  /\ "write" \in Faults \/ poisoned
  /\ WritePanic(w)
  /\ UNCHANGED <<atomics, best_wallet, file, control, counting, history>>

SetWallet(w) ==
  /\ At(w, "set_wallet")
  /\ best_wallet' = key[w]
  /\ Goto(w, "print")
  /\ UNCHANGED <<atomics, file, poisoned, control, counting, key, loaded,
                 history>>

(* println!, then `break` at the target: this worker alone leaves its loop *)
(* (its count was flushed before the report, so nothing is left to flush). *)
PrintNewBest(w) ==
  /\ At(w, "print")
  /\ Leave(w, IF broken THEN "dead"
              ELSE IF ZerosOf[key[w]] >= max_zeros THEN "finished" ELSE "top")
  /\ UNCHANGED <<atomics, results, control, counting, history>>

WorkerStep(w) ==
  \/ Draw(w)
  \/ Stop(w)
  \/ LoadMax(w)
  \/ LoadOrder(w)
  \/ StoreMax(w)
  \/ StoreOrder(w)
  \/ Flush(w)
  \/ WriteLine(w)
  \/ CannotEncode(w)
  \/ WriteFails(w)
  \/ SetWallet(w)
  \/ PrintNewBest(w)

----------------------------------------------------------------------------
StopAfterPrint == IF broken THEN UNCHANGED stop_signal ELSE stop_signal' = TRUE
StoreStop == stop_signal' = TRUE

CtrlC ==
  /\ ~interrupted
  /\ interrupted' = TRUE
  /\ StoreStop
  /\ UNCHANGED <<atomics, results, broken, summary, pc, key, loaded, counting,
                 history>>

StdoutBreaks ==
  /\ "stdout" \in Faults
  /\ ~broken
  /\ broken' = TRUE
  /\ UNCHANGED <<atomics, results, stop_signal, interrupted, summary, pc, key,
                 loaded, counting, history>>

Ended == summary # "running"

(* All workers joined, panicked ones included: the summary names the       *)
(* wallet set last.                                                        *)
Summarise ==
  /\ \A w \in Worker : pc[w] \in {"finished", "dead"}
  /\ summary' = best_wallet
  /\ UNCHANGED <<atomics, results, broken, stop_signal, interrupted, pc, key,
                 loaded, counting, history>>

Running == (\E w \in Worker : WorkerStep(w)) \/ CtrlC \/ StdoutBreaks \/ Summarise

Next == (~Ended /\ Running) \/ (Ended /\ UNCHANGED vars)

Fairness ==
  /\ \A w \in Worker : WF_vars(~Ended /\ WorkerStep(w))
  /\ WF_vars(~Ended /\ Summarise)

Spec == Init /\ [][Next]_vars
FairSpec == Spec /\ Fairness

----------------------------------------------------------------------------
(* Whatever the races do to the atomics and to the final wallet, the file  *)
(* is right: when the process ends and no write failed, it holds a key     *)
(* with as many zeros as any key drawn, unless that one was not encrypted. *)
FileHasTheBest ==
  Ended /\ ~poisoned =>
    \A k \in seen : ZerosOf[k] >= MIN_ZEROS =>
      \E line \in file \cup unencoded : ZerosOf[line] >= ZerosOf[k]

(* The wallet kept for the summary is in the file unless it could not be   *)
(* encrypted: a failed write ends the worker before it sets the wallet.    *)
WalletIsInFile == best_wallet \in file \cup unencoded \cup {None}

(* The published count and the workers' local counts always add up to the  *)
(* keys drawn.                                                             *)
KeysAccounted == total_generated + SumFunction(local_generated) = mined

(* Ctrl-C ends the process, whatever fails meanwhile.                      *)
CtrlCEndsTheProcess == interrupted ~> Ended

(* The summary: "Found wallet with the most leading zeros".                *)
SummaryIsTheBest ==
  Ended => \A k \in file : summary # None /\ ZerosOf[summary] >= ZerosOf[k]

=============================================================================
