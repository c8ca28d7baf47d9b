-------------------------- MODULE CpuMiner_proofs --------------------------
(***************************************************************************)
(* Proofs about the CPU-only miner for any number of workers, any keys and *)
(* any faults.  IInv is the inductive invariant: where a key that was      *)
(* drawn can be while no worker has panicked with the file mutex.          *)
(***************************************************************************)
EXTENDS CpuMiner, NumberLemmas

TypeOK ==
  /\ max_zero_count \in Nat
  /\ max_order_chars \in Nat
  /\ best_wallet \in Key \cup {None}
  /\ file \subseteq Key
  /\ poisoned \in BOOLEAN
  /\ broken \in BOOLEAN
  /\ total_generated \in Nat
  /\ stop_signal \in BOOLEAN
  /\ pc \in [Worker -> Steps]
  /\ key \in [Worker -> Key \cup {None}]
  /\ current_max \in [Worker -> Nat]
  /\ max_order_value \in [Worker -> Nat]
  /\ local_generated \in [Worker -> Nat]
  /\ interrupted \in BOOLEAN
  /\ mined \in Nat
  /\ seen \subseteq Key
  /\ accepted \subseteq Key
  /\ unencoded \subseteq Key

Checking == {"load_max", "load_order"}
Reporting == {"store_max", "store_order", "flush", "write_line"}

(* A worker has a candidate from the draw to the end of the iteration.     *)
HasKey ==
  \A w \in Worker :
    pc[w] \in Checking \cup Reporting \cup {"set_wallet", "print"}
      => key[w] \in Key

Kept(k) == k \in file \cup unencoded

(* A worker that is about to set the wallet is done with the file.         *)
WrittenFirst == \A w \in Worker : pc[w] = "set_wallet" => Kept(key[w])

(* Every value a worker can load of the maximum is 0 or the zeros of a key *)
(* that passed both checks.                                                *)
Stored(n) == n = 0 \/ \E k \in accepted : n = ZerosOf[k]
LoadsAccepted ==
  /\ Stored(max_zero_count)
  /\ \A w \in Worker : Stored(current_max[w])
  /\ \A w \in Worker : pc[w] \in Reporting => key[w] \in accepted

(* A key that was drawn is still being checked, or one as good passed.     *)
SeenIsMatched ==
  \A k \in seen : ZerosOf[k] >= MIN_ZEROS =>
    \/ \E w \in Worker : pc[w] \in Checking /\ key[w] = k
    \/ \E a \in accepted : ZerosOf[a] >= ZerosOf[k]

(* A key that passed both checks is on its way to the file, or through.    *)
AcceptedIsKept ==
  ~poisoned =>
    \A a \in accepted :
      \/ \E w \in Worker : pc[w] \in Reporting /\ key[w] = a
      \/ Kept(a)

(* The summary is printed when every worker has left its loop.             *)
AllJoined == Ended => \A w \in Worker : pc[w] \in {"finished", "dead"}

IInv ==
  /\ TypeOK
  /\ HasKey
  /\ WrittenFirst
  /\ WalletIsInFile
  /\ LoadsAccepted
  /\ SeenIsMatched
  /\ AcceptedIsKept
  /\ AllJoined
  /\ KeysAccounted

----------------------------------------------------------------------------
(* The counts: a draw adds one key, a flush moves keys.                    *)
LEMMA MovedSum ==
  ASSUME TypeOK, KeysAccounted, NEW w \in Worker, NEW v \in Nat,
         local_generated' = [local_generated EXCEPT ![w] = v],
         total_generated' \in Nat, mined' \in Nat,
         total_generated' + v + mined
           = total_generated + local_generated[w] + mined'
  PROVE  KeysAccounted'
  <1>1. local_generated \in [Worker -> Nat] /\ IsFiniteSet(Worker)
    BY CpuAssumption DEF TypeOK
  <1>2. /\ SumFunction(local_generated) \in Nat
        /\ SumFunction(local_generated')
             = SumFunction(local_generated) - local_generated[w] + v
    BY <1>1, SumChanges
  <1>3. /\ total_generated \in Nat /\ mined \in Nat
        /\ local_generated[w] \in Nat
    BY DEF TypeOK
  <1>4. total_generated + SumFunction(local_generated) = mined
    BY DEF KeysAccounted
  <1>5. total_generated' + SumFunction(local_generated') = mined'
    BY <1>2, <1>3, <1>4
  <1> QED
    BY <1>5 DEF KeysAccounted

LEMMA CountKeyCounts ==
  ASSUME TypeOK, KeysAccounted, NEW w \in Worker, CountKey(w)
  PROVE  /\ KeysAccounted'
         /\ total_generated' \in Nat /\ mined' \in Nat
         /\ local_generated' \in [Worker -> Nat]
  <1>1. CASE UNCHANGED counting
    BY <1>1 DEF counting, KeysAccounted, TypeOK
  <1>2. CASE ~UNCHANGED counting
    <2> DEFINE n == local_generated[w] + 1
               v == IF FlushDue(n) THEN 0 ELSE n
    <2>1. /\ mined' = mined + 1
          /\ total_generated' = total_generated + IF FlushDue(n) THEN n ELSE 0
          /\ local_generated' = [local_generated EXCEPT ![w] = v]
      BY <1>2 DEF CountKey
    <2>2. local_generated[w] \in Nat /\ total_generated \in Nat /\ mined \in Nat
      BY DEF TypeOK
    <2>3. v \in Nat /\ local_generated' \in [Worker -> Nat]
      BY <2>1, <2>2 DEF TypeOK
    <2>4. /\ total_generated' \in Nat /\ mined' \in Nat
          /\ total_generated' + v + mined
               = total_generated + local_generated[w] + mined'
      BY <2>1, <2>2
    <2> HIDE DEF v
    <2> QED
      BY <2>1, <2>3, <2>4, MovedSum
  <1> QED
    BY <1>1, <1>2

LEMMA FlushLocalCounts ==
  ASSUME TypeOK, KeysAccounted, NEW w \in Worker, FlushLocal(w), mined' = mined
  PROVE  /\ KeysAccounted'
         /\ total_generated' \in Nat
         /\ local_generated' \in [Worker -> Nat]
  <1>1. /\ total_generated' = total_generated + local_generated[w]
        /\ local_generated' = [local_generated EXCEPT ![w] = 0]
        /\ local_generated[w] \in Nat /\ total_generated \in Nat /\ mined \in Nat
    BY DEF FlushLocal, TypeOK
  <1>2. /\ total_generated' \in Nat /\ mined' \in Nat /\ 0 \in Nat
        /\ total_generated' + 0 + mined
             = total_generated + local_generated[w] + mined'
    BY <1>1
  <1> QED
    BY <1>1, <1>2, MovedSum DEF TypeOK

LEMMA CountsUnchanged ==
  ASSUME KeysAccounted, UNCHANGED counting
  PROVE  KeysAccounted'
  BY DEF KeysAccounted, counting

----------------------------------------------------------------------------
(* What a worker can load is what some worker stored.                      *)
LEMMA LoadsStored ==
  ASSUME IInv, NEW max \in MaxLoads
  PROVE  max \in Nat /\ Stored(max)
  BY CpuAssumption DEF IInv, TypeOK, LoadsAccepted, Stored, MaxLoads

LEMMA OrderLoadsType ==
  ASSUME IInv, NEW order \in OrderLoads
  PROVE  order \in Nat
  BY CpuAssumption DEF IInv, TypeOK, OrderLoads

LEMMA InitIInv == Init => IInv
  <1> SUFFICES ASSUME Init PROVE IInv
    OBVIOUS
  <1> USE DEF Init
  <1>1. TypeOK
    BY DEF TypeOK, Steps
  <1>2. KeysAccounted
    <2>1. SumFunction(local_generated) = 0
      BY CpuAssumption, SumOfZeros
    <2> QED
      BY <2>1 DEF KeysAccounted
  <1>3. HasKey /\ WrittenFirst /\ WalletIsInFile /\ LoadsAccepted /\ SeenIsMatched
    BY DEF HasKey, WrittenFirst, WalletIsInFile, LoadsAccepted, Stored,
           SeenIsMatched, Checking, Reporting
  <1>4. AcceptedIsKept /\ AllJoined
    BY DEF AcceptedIsKept, AllJoined, Ended
  <1> QED
    BY <1>1, <1>2, <1>3, <1>4 DEF IInv

(* One lemma per action.                                                   *)
LEMMA DrawIInv ==
  ASSUME IInv, ~Ended, NEW w \in Worker, Draw(w)
  PROVE  IInv'
  <1> USE DEF Draw, At, Goto, atomics, results, control, loaded
  <1>1. TypeOK' /\ KeysAccounted'
    BY CountKeyCounts DEF IInv, TypeOK, Steps
  <1>2. HasKey' /\ WrittenFirst' /\ WalletIsInFile'
    BY DEF IInv, TypeOK, HasKey, WrittenFirst, WalletIsInFile, Kept,
           Checking, Reporting
  <1>3. LoadsAccepted' /\ AcceptedIsKept'
    BY DEF IInv, TypeOK, LoadsAccepted, Stored, AcceptedIsKept, Kept, Reporting
  <1>4. SeenIsMatched'
    BY DEF IInv, TypeOK, SeenIsMatched, Checking
  <1>5. AllJoined'
    BY DEF AllJoined, Ended
  <1> QED
    BY <1>1, <1>2, <1>3, <1>4, <1>5 DEF IInv

LEMMA StopIInv ==
  ASSUME IInv, ~Ended, NEW w \in Worker, Stop(w)
  PROVE  IInv'
  <1> USE DEF Stop, At, Goto, atomics, results, control, loaded, history
  <1>1. TypeOK' /\ KeysAccounted'
    BY FlushLocalCounts DEF IInv, TypeOK, Steps
  <1>2. HasKey' /\ WrittenFirst' /\ WalletIsInFile'
    BY DEF IInv, TypeOK, HasKey, WrittenFirst, WalletIsInFile, Kept,
           Checking, Reporting
  <1>3. LoadsAccepted' /\ AcceptedIsKept'
    BY DEF IInv, TypeOK, LoadsAccepted, Stored, AcceptedIsKept, Kept, Reporting
  <1>4. SeenIsMatched' /\ AllJoined'
    BY DEF IInv, TypeOK, SeenIsMatched, Checking, AllJoined, Ended
  <1> QED
    BY <1>1, <1>2, <1>3, <1>4 DEF IInv

(* A key below the maximum loaded is matched by the key that stored it.    *)
LEMMA LoadMaxIInv ==
  ASSUME IInv, ~Ended, NEW w \in Worker, LoadMax(w)
  PROVE  IInv'
  <1> USE DEF LoadMax, At, Goto, Leave, atomics, results, control, counting,
              history
  <1>1. PICK max \in MaxLoads :
          IF Uninteresting(key[w], max) THEN Leave(w, "top")
          ELSE /\ current_max' = [current_max EXCEPT ![w] = max]
               /\ Goto(w, "load_order")
               /\ UNCHANGED <<key, max_order_value>>
    OBVIOUS
  <1>2. max \in Nat /\ Stored(max)
    BY LoadsStored
  <1>3. TypeOK' /\ KeysAccounted'
    BY <1>1, <1>2, CountsUnchanged DEF IInv, TypeOK, Steps
  <1>4. HasKey' /\ WrittenFirst' /\ WalletIsInFile'
    BY <1>1 DEF IInv, TypeOK, HasKey, WrittenFirst, WalletIsInFile, Kept,
                Checking, Reporting
  <1>5. LoadsAccepted' /\ AcceptedIsKept'
    BY <1>1, <1>2
    DEF IInv, TypeOK, LoadsAccepted, Stored, AcceptedIsKept, Kept, Reporting
  <1>6. SeenIsMatched'
    <2>1. CASE Uninteresting(key[w], max)
      <3>1. key[w] \in Key /\ ZerosOf[key[w]] \in Nat
        BY CpuAssumption DEF IInv, HasKey, Checking
      <3>2. ZerosOf[key[w]] >= MIN_ZEROS =>
              \E a \in accepted : ZerosOf[a] >= ZerosOf[key[w]]
        BY <1>2, <2>1, <3>1, CpuAssumption
        DEF Uninteresting, Stored, IInv, TypeOK
      <3> QED
        BY <1>1, <2>1, <3>2 DEF IInv, TypeOK, SeenIsMatched, Checking
    <2>2. CASE ~Uninteresting(key[w], max)
      BY <1>1, <2>2 DEF IInv, TypeOK, SeenIsMatched, Checking
    <2> QED
      BY <2>1, <2>2
  <1>7. AllJoined'
    BY DEF AllJoined, Ended
  <1> QED
    BY <1>3, <1>4, <1>5, <1>6, <1>7 DEF IInv

(* A tie with fewer repeated characters is matched by the key that stored  *)
(* the maximum; any other key passes and is the match for itself.          *)
LEMMA LoadOrderIInv ==
  ASSUME IInv, ~Ended, NEW w \in Worker, LoadOrder(w)
  PROVE  IInv'
  <1> USE DEF LoadOrder, At, Goto, Leave, atomics, results, control, counting
  <1>1. PICK order \in OrderLoads :
          IF TiesWithFewer(w, order)
            THEN Leave(w, "top") /\ UNCHANGED accepted
            ELSE /\ max_order_value' = [max_order_value EXCEPT ![w] = order]
                 /\ accepted' = accepted \cup {key[w]}
                 /\ Goto(w, "store_max")
                 /\ UNCHANGED <<key, current_max>>
    OBVIOUS
  <1>2. order \in Nat /\ key[w] \in Key /\ ZerosOf[key[w]] \in Nat
    BY OrderLoadsType, CpuAssumption DEF IInv, HasKey, Checking
  <1>3. TypeOK' /\ KeysAccounted'
    BY <1>1, <1>2, CountsUnchanged DEF IInv, TypeOK, Steps
  <1>4. HasKey' /\ WrittenFirst' /\ WalletIsInFile'
    BY <1>1 DEF IInv, TypeOK, HasKey, WrittenFirst, WalletIsInFile, Kept,
                Checking, Reporting
  <1>5. CASE TiesWithFewer(w, order)
    <2>1. LoadsAccepted' /\ AcceptedIsKept'
      BY <1>1, <1>5
      DEF IInv, TypeOK, LoadsAccepted, Stored, AcceptedIsKept, Kept, Reporting
    <2>2. ZerosOf[key[w]] >= MIN_ZEROS =>
            \E a \in accepted : ZerosOf[a] >= ZerosOf[key[w]]
      BY <1>2, <1>5, CpuAssumption
      DEF TiesWithFewer, IInv, LoadsAccepted, Stored
    <2>3. SeenIsMatched'
      BY <1>1, <1>5, <2>2 DEF IInv, TypeOK, SeenIsMatched, Checking
    <2> QED
      BY <1>3, <1>4, <2>1, <2>3 DEF IInv, AllJoined, Ended
  <1>6. CASE ~TiesWithFewer(w, order)
    <2>1. LoadsAccepted' /\ AcceptedIsKept'
      BY <1>1, <1>6
      DEF IInv, TypeOK, LoadsAccepted, Stored, AcceptedIsKept, Kept, Reporting
    <2>2. SeenIsMatched'
      BY <1>1, <1>2, <1>6 DEF IInv, TypeOK, SeenIsMatched, Checking
    <2> QED
      BY <1>3, <1>4, <2>1, <2>2 DEF IInv, AllJoined, Ended
  <1> QED
    BY <1>5, <1>6

LEMMA StoreMaxIInv ==
  ASSUME IInv, ~Ended, NEW w \in Worker, StoreMax(w)
  PROVE  IInv'
  <1> USE DEF StoreMax, At, Goto, results, control, counting, loaded, history
  <1>0. key[w] \in Key /\ key[w] \in accepted /\ ZerosOf[key[w]] \in Nat
    BY CpuAssumption DEF IInv, HasKey, LoadsAccepted, Reporting
  <1>1. TypeOK' /\ KeysAccounted'
    BY <1>0, CountsUnchanged DEF IInv, TypeOK, Steps
  <1>2. HasKey' /\ WrittenFirst' /\ WalletIsInFile'
    BY DEF IInv, TypeOK, HasKey, WrittenFirst, WalletIsInFile, Kept,
           Checking, Reporting
  <1>3. LoadsAccepted' /\ AcceptedIsKept'
    BY <1>0
    DEF IInv, TypeOK, LoadsAccepted, Stored, AcceptedIsKept, Kept, Reporting
  <1>4. SeenIsMatched' /\ AllJoined'
    BY DEF IInv, TypeOK, SeenIsMatched, Checking, AllJoined, Ended
  <1> QED
    BY <1>1, <1>2, <1>3, <1>4 DEF IInv

LEMMA StoreOrderIInv ==
  ASSUME IInv, ~Ended, NEW w \in Worker, StoreOrder(w)
  PROVE  IInv'
  <1> USE DEF StoreOrder, At, Goto, results, control, counting, loaded, history
  <1>0. key[w] \in Key /\ CharsInOrder[key[w]] \in Nat
    BY CpuAssumption DEF IInv, HasKey, Reporting
  <1>1. TypeOK' /\ KeysAccounted'
    BY <1>0, CountsUnchanged DEF IInv, TypeOK, Steps
  <1>2. HasKey' /\ WrittenFirst' /\ WalletIsInFile'
    BY DEF IInv, TypeOK, HasKey, WrittenFirst, WalletIsInFile, Kept,
           Checking, Reporting
  <1>3. LoadsAccepted' /\ AcceptedIsKept'
    BY DEF IInv, TypeOK, LoadsAccepted, Stored, AcceptedIsKept, Kept, Reporting
  <1>4. SeenIsMatched' /\ AllJoined'
    BY DEF IInv, TypeOK, SeenIsMatched, Checking, AllJoined, Ended
  <1> QED
    BY <1>1, <1>2, <1>3, <1>4 DEF IInv

LEMMA FlushIInv ==
  ASSUME IInv, ~Ended, NEW w \in Worker, Flush(w)
  PROVE  IInv'
  <1> USE DEF Flush, At, Goto, atomics, results, control, loaded, history
  <1>1. TypeOK' /\ KeysAccounted'
    BY FlushLocalCounts DEF IInv, TypeOK, Steps
  <1>2. HasKey' /\ WrittenFirst' /\ WalletIsInFile'
    BY DEF IInv, TypeOK, HasKey, WrittenFirst, WalletIsInFile, Kept,
           Checking, Reporting
  <1>3. LoadsAccepted' /\ AcceptedIsKept'
    BY DEF IInv, TypeOK, LoadsAccepted, Stored, AcceptedIsKept, Kept, Reporting
  <1>4. SeenIsMatched' /\ AllJoined'
    BY DEF IInv, TypeOK, SeenIsMatched, Checking, AllJoined, Ended
  <1> QED
    BY <1>1, <1>2, <1>3, <1>4 DEF IInv

LEMMA WriteLineIInv ==
  ASSUME IInv, ~Ended, NEW w \in Worker, WriteLine(w) \/ CannotEncode(w)
  PROVE  IInv'
  <1> USE DEF WriteLine, CannotEncode, At, Goto, atomics, results, control,
              counting, loaded, history
  <1>0. /\ key[w] \in Key
        /\ file' \cup unencoded' = file \cup unencoded \cup {key[w]}
    BY DEF IInv, HasKey, Reporting
  <1>1. TypeOK' /\ KeysAccounted'
    BY <1>0, CountsUnchanged DEF IInv, TypeOK, Steps
  <1>2. HasKey' /\ WrittenFirst' /\ WalletIsInFile'
    BY <1>0 DEF IInv, TypeOK, HasKey, WrittenFirst, WalletIsInFile, Kept,
                Checking, Reporting
  <1>3. LoadsAccepted' /\ AcceptedIsKept'
    BY <1>0
    DEF IInv, TypeOK, LoadsAccepted, Stored, AcceptedIsKept, Kept, Reporting
  <1>4. SeenIsMatched' /\ AllJoined'
    BY DEF IInv, TypeOK, SeenIsMatched, Checking, AllJoined, Ended
  <1> QED
    BY <1>1, <1>2, <1>3, <1>4 DEF IInv

(* The key is lost with the panic, and the mutex is poisoned.              *)
LEMMA WriteFailsIInv ==
  ASSUME IInv, ~Ended, NEW w \in Worker, WriteFails(w)
  PROVE  IInv'
  <1> USE DEF WriteFails, WritePanic, Leave, At, Goto, atomics, control,
              counting, history
  <1>1. TypeOK' /\ KeysAccounted'
    BY CountsUnchanged DEF IInv, TypeOK, Steps
  <1>2. HasKey' /\ WrittenFirst' /\ WalletIsInFile'
    BY DEF IInv, TypeOK, HasKey, WrittenFirst, WalletIsInFile, Kept,
           Checking, Reporting
  <1>3. LoadsAccepted' /\ AcceptedIsKept'
    BY DEF IInv, TypeOK, LoadsAccepted, Stored, AcceptedIsKept, Reporting
  <1>4. SeenIsMatched' /\ AllJoined'
    BY DEF IInv, TypeOK, SeenIsMatched, Checking, AllJoined, Ended
  <1> QED
    BY <1>1, <1>2, <1>3, <1>4 DEF IInv

LEMMA SetWalletIInv ==
  ASSUME IInv, ~Ended, NEW w \in Worker, SetWallet(w)
  PROVE  IInv'
  <1> USE DEF SetWallet, At, Goto, atomics, control, counting, loaded, history
  <1>0. key[w] \in Key /\ Kept(key[w])
    BY DEF IInv, HasKey, WrittenFirst
  <1>1. TypeOK' /\ KeysAccounted'
    BY <1>0, CountsUnchanged DEF IInv, TypeOK, Steps
  <1>2. HasKey' /\ WrittenFirst' /\ WalletIsInFile'
    BY <1>0 DEF IInv, TypeOK, HasKey, WrittenFirst, WalletIsInFile, Kept,
                Checking, Reporting
  <1>3. LoadsAccepted' /\ AcceptedIsKept'
    BY DEF IInv, TypeOK, LoadsAccepted, Stored, AcceptedIsKept, Kept, Reporting
  <1>4. SeenIsMatched' /\ AllJoined'
    BY DEF IInv, TypeOK, SeenIsMatched, Checking, AllJoined, Ended
  <1> QED
    BY <1>1, <1>2, <1>3, <1>4 DEF IInv

LEMMA PrintNewBestIInv ==
  ASSUME IInv, ~Ended, NEW w \in Worker, PrintNewBest(w)
  PROVE  IInv'
  <1> USE DEF PrintNewBest, Leave, At, Goto, atomics, results, control,
              counting, history
  <1>1. TypeOK' /\ KeysAccounted'
    BY CountsUnchanged DEF IInv, TypeOK, Steps
  <1>2. HasKey' /\ WrittenFirst' /\ WalletIsInFile'
    BY DEF IInv, TypeOK, HasKey, WrittenFirst, WalletIsInFile, Kept,
           Checking, Reporting
  <1>3. LoadsAccepted' /\ AcceptedIsKept'
    BY DEF IInv, TypeOK, LoadsAccepted, Stored, AcceptedIsKept, Kept, Reporting
  <1>4. SeenIsMatched' /\ AllJoined'
    BY DEF IInv, TypeOK, SeenIsMatched, Checking, AllJoined, Ended
  <1> QED
    BY <1>1, <1>2, <1>3, <1>4 DEF IInv

(* Ctrl-C, a broken standard output, the summary and the end.              *)
LEMMA MainIInv ==
  ASSUME IInv, CtrlC \/ StdoutBreaks \/ Summarise \/ UNCHANGED vars
  PROVE  IInv'
  <1> USE DEF CtrlC, StoreStop, StdoutBreaks, Summarise, vars, atomics, results,
              control, counting, loaded, history
  <1>0. /\ UNCHANGED <<atomics, results, pc, key, loaded, counting, history>>
        /\ AllJoined'
    BY DEF IInv, AllJoined, Ended
  <1>1. TypeOK' /\ KeysAccounted'
    BY CountsUnchanged DEF IInv, TypeOK
  <1>2. HasKey' /\ WrittenFirst' /\ WalletIsInFile' /\ LoadsAccepted'
    BY <1>0 DEF IInv, HasKey, WrittenFirst, WalletIsInFile, Kept, LoadsAccepted,
                Stored
  <1>3. AcceptedIsKept' /\ SeenIsMatched'
    BY <1>0 DEF IInv, AcceptedIsKept, SeenIsMatched, Kept
  <1> QED
    BY <1>0, <1>1, <1>2, <1>3 DEF IInv

LEMMA NextIInv == IInv /\ [Next]_vars => IInv'
  <1> SUFFICES ASSUME IInv, [Next]_vars PROVE IInv'
    OBVIOUS
  <1>1. ASSUME ~Ended, NEW w \in Worker, WorkerStep(w) PROVE IInv'
    BY <1>1, DrawIInv, StopIInv, LoadMaxIInv, LoadOrderIInv, StoreMaxIInv,
       StoreOrderIInv, FlushIInv, WriteLineIInv, WriteFailsIInv, SetWalletIInv,
       PrintNewBestIInv DEF WorkerStep
  <1> QED
    BY <1>1, MainIInv DEF Next, Running

(* Whatever the workers interleave and whatever fails, the invariant holds. *)
THEOREM Invariance == Spec => []IInv
  BY InitIInv, NextIInv, PTL DEF Spec

(* The wallet the summary names is in the file, or could not be encrypted. *)
THEOREM WalletAlwaysInFile == Spec => []WalletIsInFile
  <1>1. IInv => WalletIsInFile
    BY DEF IInv
  <1> QED
    BY <1>1, Invariance, PTL

(* Published and local counts add up to the keys drawn.                    *)
THEOREM KeysAlwaysAccounted == Spec => []KeysAccounted
  <1>1. IInv => KeysAccounted
    BY DEF IInv
  <1> QED
    BY <1>1, Invariance, PTL

(* At the end the file has a key as good as any drawn, though the workers  *)
(* race on the atomics and the loads may be stale.                         *)
THEOREM FileAlwaysHasTheBest == Spec => []FileHasTheBest
  <1>1. IInv => FileHasTheBest
    <2> SUFFICES ASSUME IInv, Ended, ~poisoned, NEW k \in seen,
                        ZerosOf[k] >= MIN_ZEROS
                 PROVE  \E line \in file \cup unencoded :
                          ZerosOf[line] >= ZerosOf[k]
      BY DEF FileHasTheBest
    <2>1. \A w \in Worker : pc[w] \notin Checking \cup Reporting
      BY DEF IInv, AllJoined, Checking, Reporting
    <2>2. PICK a \in accepted : ZerosOf[a] >= ZerosOf[k]
      BY <2>1 DEF IInv, SeenIsMatched
    <2>3. Kept(a)
      BY <2>1 DEF IInv, AcceptedIsKept
    <2> QED
      BY <2>2, <2>3 DEF Kept
  <1> QED
    BY <1>1, Invariance, PTL

=============================================================================
