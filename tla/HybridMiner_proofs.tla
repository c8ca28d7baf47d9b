------------------------- MODULE HybridMiner_proofs -------------------------
(***************************************************************************)
(* Proofs about the mining run for any number of threads, any keys, any    *)
(* kernel batches, any target and any faults.  First report_hit by itself: *)
(* IInv is its inductive invariant, who may be inside the critical section *)
(* and how the shared data relate at each step of the thread inside.  Then *)
(* the hybrid miner: the engines, Ctrl-C and the driver's panic keep IInv, *)
(* and HInv adds where a key that was seen can be between its discovery    *)
(* and the summary.                                                        *)
(***************************************************************************)
EXTENDS HybridMiner, TLAPS, NumberLemmas

----------------------------------------------------------------------------
(* report_hit (MinerShared)                                                *)

InCritical == {"recheck", "set_best", "write_line", "print"}

(* Only the holder of the mutex is past the lock() of report_hit.          *)
Mutex == \A t \in Thread : pc[t] \in InCritical => lock = t

(* A thread inside report_hit has a hit to report.                         *)
HasHit == \A t \in Thread : pc[t] \notin {"idle", "dead"} => hit[t] \in Hit

(* What the shared data are while a thread is at a step.                   *)
AtStep ==
  \A t \in Thread :
    /\ pc[t] = "set_best" => /\ best_zeros = Zeros(hit[t])
                             /\ BestZeros < best_zeros
    /\ pc[t] \in {"write_line", "print"} => best = hit[t]
    /\ pc[t] = "write_line" => total <= cpu_keys

(* What has been written and printed never exceeds the best, and a best    *)
(* that is not written yet exceeds every line.                             *)
Bounded ==
  /\ \A i \in 1..Len(file) : /\ file[i].zeros = Zeros(file[i].found)
                             /\ file[i].zeros <= best_zeros
                             /\ file[i].total <= cpu_keys + gpu_keys
  /\ \A i \in 1..Len(stdout) : Zeros(stdout[i]) <= best_zeros
  /\ \A t \in Thread : \A i \in 1..Len(file) :
       /\ pc[t] \in {"set_best", "write_line"} => file[i].zeros < best_zeros
       /\ pc[t] = "write_line" => file[i].total <= total + gpu_keys

(* A best that reaches the target and is settled has stopped the search.   *)
Stopped ==
  ~poisoned /\ best_zeros >= target
    /\ (\A t \in Thread : pc[t] \notin {"set_best", "write_line", "print"})
  => stop

IInv ==
  /\ TypeOK
  /\ Mutex
  /\ HasHit
  /\ AtStep
  /\ BestAgrees
  /\ Bounded
  /\ LinesOrdered
  /\ Stopped
  /\ BestIsLastLine

----------------------------------------------------------------------------
LEMMA ZerosType == \A h \in Hit : Zeros(h) \in Nat
  BY SharedAssumption DEF Zeros, Hit

LEMMA LineType ==
  ASSUME file \in Seq(Line), NEW i \in 1..Len(file)
  PROVE  /\ file[i] \in Line
         /\ file[i].zeros \in Nat
         /\ file[i].total \in Nat
  <1>1. file[i] \in Line
    OBVIOUS
  <1> QED
    BY <1>1 DEF Line

LEMMA InitIInv == Init => IInv
  <1> SUFFICES ASSUME Init PROVE IInv
    OBVIOUS
  <1> USE DEF Init
  <1>1. TypeOK
    <2>1. file \in Seq(Line) /\ stdout \in Seq(Hit)
      OBVIOUS
    <2>2. pc \in [Thread -> Steps] /\ hit \in [Thread -> Hit \cup {None}]
      BY DEF Steps
    <2> QED
      BY <2>1, <2>2 DEF TypeOK
  <1>2. Mutex /\ HasHit /\ AtStep /\ BestAgrees /\ BestIsLastLine
    BY DEF Mutex, InCritical, HasHit, AtStep, BestAgrees, BestZeros,
           BestIsLastLine
  <1>3. Bounded /\ LinesOrdered
    BY DEF Bounded, LinesOrdered
  <1>4. Stopped
    BY SharedAssumption DEF Stopped
  <1> QED
    BY <1>1, <1>2, <1>3, <1>4 DEF IInv

----------------------------------------------------------------------------
(* A relaxed load never sees more than the current best.                   *)
LEMMA LoadsBelow ==
  ASSUME IInv, NEW v \in RelaxedLoads
  PROVE  v \in Nat /\ v <= best_zeros
  BY ZerosType DEF IInv, TypeOK, RelaxedLoads, Bounded

(* One lemma per action: the whole invariant is preserved.                 *)
LEMMA CallIInv ==
  ASSUME IInv, NEW t \in Thread, NEW h \in Hit, Call(t, h)
  PROVE  IInv'
  <1> USE DEF Call, report_hit, At, Goto
  <1>1. TypeOK'
    BY DEF IInv, TypeOK, Steps, keyVars
  <1>2. Mutex' /\ HasHit'
    BY DEF IInv, TypeOK, Mutex, InCritical, HasHit
  <1>3. AtStep' /\ BestAgrees'
    BY DEF IInv, TypeOK, AtStep, BestAgrees, BestZeros, Zeros, keyVars
  <1>4. Bounded' /\ LinesOrdered'
    BY DEF IInv, TypeOK, Bounded, LinesOrdered, Zeros, keyVars
  <1>5. Stopped' /\ BestIsLastLine'
    BY DEF IInv, TypeOK, Stopped, BestIsLastLine
  <1> QED
    BY <1>1, <1>2, <1>3, <1>4, <1>5 DEF IInv

LEMMA FastPathIInv ==
  ASSUME IInv, NEW t \in Thread, FastPath(t)
  PROVE  IInv'
  <1> USE DEF FastPath, Return, At, Goto
  <1>1. TypeOK'
    BY DEF IInv, TypeOK, Steps, keyVars
  <1>2. Mutex' /\ HasHit'
    BY DEF IInv, TypeOK, Mutex, InCritical, HasHit
  <1>3. AtStep' /\ BestAgrees'
    BY DEF IInv, TypeOK, AtStep, BestAgrees, BestZeros, Zeros, keyVars
  <1>4. Bounded' /\ LinesOrdered'
    BY DEF IInv, TypeOK, Bounded, LinesOrdered, Zeros, keyVars
  <1>5. Stopped' /\ BestIsLastLine'
    BY DEF IInv, TypeOK, Stopped, BestIsLastLine
  <1> QED
    BY <1>1, <1>2, <1>3, <1>4, <1>5 DEF IInv

LEMMA LockBestIInv ==
  ASSUME IInv, NEW t \in Thread, LockBest(t)
  PROVE  IInv'
  <1> USE DEF LockBest, BestUnlocked, At, Goto
  <1>1. TypeOK'
    BY DEF IInv, TypeOK, Steps, keyVars
  <1>2. Mutex' /\ HasHit'
    BY SharedAssumption DEF IInv, TypeOK, Mutex, InCritical, HasHit
  <1>3. AtStep' /\ BestAgrees'
    BY DEF IInv, TypeOK, AtStep, BestAgrees, BestZeros, Zeros, keyVars
  <1>4. Bounded' /\ LinesOrdered'
    BY DEF IInv, TypeOK, Bounded, LinesOrdered, Zeros, keyVars
  <1>5. Stopped' /\ BestIsLastLine'
    BY DEF IInv, TypeOK, Stopped, BestIsLastLine
  <1> QED
    BY <1>1, <1>2, <1>3, <1>4, <1>5 DEF IInv

LEMMA LostRaceIInv ==
  ASSUME IInv, NEW t \in Thread, LostRace(t)
  PROVE  IInv'
  <1> USE DEF LostRace, StillBeats, Beaten, Return, At, Goto
  <1>1. TypeOK'
    BY DEF IInv, TypeOK, Steps, keyVars
  <1>2. Mutex' /\ HasHit'
    BY DEF IInv, TypeOK, Mutex, InCritical, HasHit
  <1>3. AtStep' /\ BestAgrees'
    BY DEF IInv, TypeOK, AtStep, BestAgrees, BestZeros, Zeros, keyVars
  <1>4. Bounded' /\ LinesOrdered'
    BY DEF IInv, TypeOK, Bounded, LinesOrdered, Zeros, keyVars
  <1>5. Stopped' /\ BestIsLastLine'
    BY DEF IInv, TypeOK, Stopped, BestIsLastLine
  <1> QED
    BY <1>1, <1>2, <1>3, <1>4, <1>5 DEF IInv

(* The store opens the window in which the atomic is ahead of the wallet.  *)
LEMMA StoreZerosIInv ==
  ASSUME IInv, NEW t \in Thread, StoreZeros(t)
  PROVE  IInv'
  <1> USE DEF StoreZeros, StillBeats, Beaten, At, Goto
  <1>a. hit[t] \in Hit /\ Zeros(hit[t]) \in Nat /\ best_zeros < Zeros(hit[t])
    BY ZerosType DEF IInv, TypeOK, HasHit
  <1>b. \A u \in Thread \ {t} : pc[u] \notin InCritical
    BY DEF IInv, Mutex, InCritical
  <1>c. best_zeros = BestZeros
    BY <1>b DEF IInv, BestAgrees, InCritical
  <1>1. TypeOK'
    BY <1>a DEF IInv, TypeOK, Steps, keyVars
  <1>2. Mutex' /\ HasHit'
    BY DEF IInv, TypeOK, Mutex, InCritical, HasHit
  <1>3. AtStep' /\ BestAgrees'
    <2>1. AtStep'
      BY <1>a, <1>b, <1>c
      DEF IInv, TypeOK, AtStep, BestZeros, Zeros, InCritical, keyVars
    <2>2. BestAgrees'
      BY DEF IInv, TypeOK, BestAgrees
    <2> QED
      BY <2>1, <2>2
  <1>4. Bounded' /\ LinesOrdered'
    <2>1. LinesOrdered'
      BY DEF IInv, LinesOrdered
    <2>2. \A i \in 1..Len(file) : /\ file[i] \in Line
                                  /\ file[i].zeros \in Nat
                                  /\ file[i].zeros < best_zeros'
      BY <1>a, LineType DEF IInv, TypeOK, Bounded, Line
    <2>3. \A i \in 1..Len(stdout) : Zeros(stdout[i]) <= best_zeros'
      BY <1>a, ZerosType DEF IInv, TypeOK, Bounded
    <2>4. \A i \in 1..Len(file) : /\ file[i].zeros = Zeros(file[i].found)
                                  /\ file[i].total <= cpu_keys + gpu_keys
      BY DEF IInv, Bounded
    <2>5. best_zeros' \in Nat /\ UNCHANGED <<file, stdout, keyVars, total>>
      BY <1>a
    <2>6. \A u \in Thread : pc'[u] # "write_line"
      BY <1>b DEF IInv, TypeOK, InCritical
    <2>7. Bounded'
      BY <2>2, <2>3, <2>4, <2>5, <2>6 DEF Bounded, Zeros, keyVars
    <2> QED
      BY <2>1, <2>7
  <1>5. Stopped' /\ BestIsLastLine'
    BY DEF IInv, TypeOK, Stopped, BestIsLastLine
  <1> QED
    BY <1>1, <1>2, <1>3, <1>4, <1>5 DEF IInv

LEMMA SetBestIInv ==
  ASSUME IInv, NEW t \in Thread, SetBest(t)
  PROVE  IInv'
  <1> USE DEF SetBest, At, Goto
  <1>a. hit[t] \in Hit /\ hit[t] # None /\ Zeros(hit[t]) = best_zeros
    BY NoneIsNoHit DEF IInv, HasHit, AtStep
  <1>b. \A u \in Thread \ {t} : pc[u] \notin InCritical
    BY DEF IInv, Mutex, InCritical
  <1>1. TypeOK'
    BY <1>a DEF IInv, TypeOK, Steps, keyVars
  <1>2. Mutex' /\ HasHit'
    BY DEF IInv, TypeOK, Mutex, InCritical, HasHit
  <1>3. AtStep' /\ BestAgrees'
    BY <1>a, <1>b
    DEF IInv, TypeOK, AtStep, BestAgrees, BestZeros, Zeros, InCritical, keyVars
  <1>4. Bounded' /\ LinesOrdered'
    <2>1. LinesOrdered'
      BY DEF IInv, LinesOrdered
    <2>2. Bounded'
      BY <1>b DEF IInv, TypeOK, Bounded, Zeros, InCritical, Line, keyVars
    <2> QED
      BY <2>1, <2>2
  <1>5. Stopped' /\ BestIsLastLine'
    BY DEF IInv, TypeOK, Stopped, BestIsLastLine
  <1> QED
    BY <1>1, <1>2, <1>3, <1>4, <1>5 DEF IInv

(* The new line exceeds every line before it, in zeros and in total.       *)
LEMMA WriteLineIInv ==
  ASSUME IInv, NEW t \in Thread, WriteLine(t)
  PROVE  IInv'
  <1> USE DEF WriteLine, WriteMayFail, LineTotal, At, Goto
  <1> DEFINE line == [total |-> total + gpu_keys, found |-> hit[t],
                      zeros |-> Zeros(hit[t])]
  <1>a. hit[t] \in Hit /\ hit[t] # None /\ best = hit[t]
    BY NoneIsNoHit DEF IInv, HasHit, AtStep
  <1>b. \A u \in Thread \ {t} : pc[u] \notin InCritical
    BY DEF IInv, Mutex, InCritical
  <1>c. best_zeros = Zeros(hit[t])
    BY <1>a, <1>b DEF IInv, BestAgrees, BestZeros, InCritical
  <1>d. line \in Line
    BY <1>a, ZerosType DEF IInv, TypeOK, Line
  <1>e. total + gpu_keys <= cpu_keys + gpu_keys
    BY DEF IInv, TypeOK, AtStep
  <1>1. TypeOK'
    <2>1. file \in Seq(Line) /\ (file' = file \/ file' = Append(file, line))
      BY DEF IInv, TypeOK
    <2>2. file' \in Seq(Line)
      <3> HIDE DEF line
      <3> QED
        BY <1>d, <2>1
    <2> QED
      BY <2>2 DEF IInv, TypeOK, Steps, keyVars
  <1>2. Mutex' /\ HasHit'
    BY DEF IInv, TypeOK, Mutex, InCritical, HasHit
  <1>3. AtStep' /\ BestAgrees'
    BY <1>a, <1>b
    DEF IInv, TypeOK, AtStep, BestAgrees, BestZeros, Zeros, InCritical, keyVars
  <1>4. Bounded' /\ LinesOrdered'
    <2>1. CASE file' = Append(file, line)
      <3>1. /\ Len(file') = Len(file) + 1
            /\ file'[Len(file) + 1] = line
            /\ \A i \in 1..Len(file) : file'[i] = file[i]
        BY <2>1 DEF IInv, TypeOK
      <3>2. Len(file) \in Nat
        BY DEF IInv, TypeOK
      <3>3. /\ line.zeros = best_zeros /\ line.zeros = Zeros(line.found)
            /\ line.total = total + gpu_keys
        BY <1>c
      <3>4. \A i \in 1..Len(file) : /\ file[i].zeros < line.zeros
                                    /\ file[i].total <= line.total
                                    /\ file[i].zeros = Zeros(file[i].found)
        BY <3>3, <1>c DEF IInv, Bounded
      <3>5. \A i \in 1..Len(file) : /\ file[i].zeros \in Nat
                                    /\ file[i].total \in Nat
        BY LineType DEF IInv, TypeOK
      <3>6. line.zeros \in Nat /\ line.total \in Nat
        BY <3>3 DEF IInv, TypeOK
      <3> HIDE DEF line
      <3>7. LinesOrdered'
        <4> SUFFICES ASSUME NEW i \in 1..Len(file'), NEW j \in 1..Len(file'),
                            i < j
                     PROVE  /\ file'[i].zeros < file'[j].zeros
                            /\ file'[i].total <= file'[j].total
          BY DEF LinesOrdered
        <4>1. i \in 1..Len(file) /\ (j \in 1..Len(file) \/ j = Len(file) + 1)
          BY <3>1, <3>2
        <4>2. CASE j \in 1..Len(file)
          BY <4>1, <4>2, <3>1 DEF IInv, LinesOrdered
        <4>3. CASE j = Len(file) + 1
          BY <4>1, <4>3, <3>1, <3>4
        <4> QED
          BY <4>1, <4>2, <4>3
      <3>8. \A i \in 1..Len(file') : /\ file'[i].zeros = Zeros(file'[i].found)
                                     /\ file'[i].zeros <= best_zeros
                                     /\ file'[i].total <= cpu_keys + gpu_keys
        <4>1. /\ best_zeros \in Nat /\ total \in Nat
              /\ cpu_keys \in Nat /\ gpu_keys \in Nat
          BY DEF IInv, TypeOK
        <4>2. \A i \in 1..Len(file) : /\ file[i].zeros <= best_zeros
                                      /\ file[i].total <= cpu_keys + gpu_keys
          BY DEF IInv, Bounded
        <4> QED
          BY <4>1, <4>2, <3>1, <3>2, <3>3, <3>4, <1>e
      <3>9. Bounded'
        BY <3>8, <1>b
        DEF IInv, TypeOK, Bounded, Zeros, InCritical, keyVars
      <3> QED
        BY <3>7, <3>9
    <2>2. CASE UNCHANGED file
      BY <2>2, <1>b
      DEF IInv, TypeOK, Bounded, LinesOrdered, Zeros, InCritical, keyVars
    <2> QED
      BY <2>1, <2>2
  <1>5. Stopped' /\ BestIsLastLine'
    <2>1. Stopped'
      BY DEF IInv, TypeOK, Stopped
    <2>2. BestIsLastLine'
      <3>1. CASE "write" \in Faults
        BY <3>1 DEF BestIsLastLine
      <3>2. CASE "write" \notin Faults
        <4>1. file' = Append(file, line) /\ file \in Seq(Line)
          BY <3>2 DEF IInv, TypeOK
        <4>2. file' # <<>> /\ file'[Len(file')] = line
          BY <4>1, <1>d
        <4> QED
          BY <4>2, <1>a DEF BestIsLastLine
      <3> QED
        BY <3>1, <3>2
    <2> QED
      BY <2>1, <2>2
  <1> QED
    BY <1>1, <1>2, <1>3, <1>4, <1>5 DEF IInv

LEMMA PrintNewBestIInv ==
  ASSUME IInv, NEW t \in Thread, PrintNewBest(t)
  PROVE  IInv'
  <1> USE DEF PrintNewBest, ReachesTarget, Return, At, Goto
  <1>a. hit[t] \in Hit /\ hit[t] # None /\ best = hit[t]
    BY NoneIsNoHit DEF IInv, HasHit, AtStep
  <1>b. \A u \in Thread \ {t} : pc[u] \notin InCritical
    BY DEF IInv, Mutex, InCritical
  <1>c. best_zeros = Zeros(hit[t])
    BY <1>a, <1>b DEF IInv, BestAgrees, BestZeros, InCritical
  <1>1. TypeOK'
    <2>1. stdout' \in Seq(Hit)
      BY <1>a DEF IInv, TypeOK
    <2>2. stop' \in BOOLEAN
      BY DEF IInv, TypeOK
    <2> QED
      BY <2>1, <2>2 DEF IInv, TypeOK, Steps, keyVars
  <1>2. Mutex' /\ HasHit'
    BY <1>b DEF IInv, TypeOK, Mutex, InCritical, HasHit
  <1>3. AtStep' /\ BestAgrees'
    BY <1>b
    DEF IInv, TypeOK, AtStep, BestAgrees, BestZeros, Zeros, InCritical, keyVars
  <1>4. Bounded' /\ LinesOrdered'
    <2>1. LinesOrdered'
      BY DEF IInv, LinesOrdered
    <2>2. \A i \in 1..Len(stdout') : Zeros(stdout'[i]) <= best_zeros
      <3>1. /\ Len(stdout) \in Nat
            /\ Len(stdout') = Len(stdout) + 1
            /\ stdout'[Len(stdout) + 1] = hit[t]
            /\ \A i \in 1..Len(stdout) : stdout'[i] = stdout[i]
        BY DEF IInv, TypeOK
      <3> QED
        BY <3>1, <1>c, <1>a, ZerosType DEF IInv, Bounded
    <2>3. Bounded'
      BY <1>b, <2>2
      DEF IInv, TypeOK, Bounded, Zeros, InCritical, keyVars
    <2> QED
      BY <2>1, <2>3
  <1>5. Stopped' /\ BestIsLastLine'
    <2>1. Stopped'
      BY <1>c DEF IInv, TypeOK, Stopped
    <2>2. BestIsLastLine'
      BY <1>b DEF IInv, TypeOK, BestIsLastLine, InCritical
    <2> QED
      BY <2>1, <2>2
  <1> QED
    BY <1>1, <1>2, <1>3, <1>4, <1>5 DEF IInv

LEMMA PrintPanicsIInv ==
  ASSUME IInv, NEW t \in Thread, PrintPanics(t)
  PROVE  IInv'
  <1> USE DEF PrintPanics, At, Goto
  <1>b. \A u \in Thread \ {t} : pc[u] \notin InCritical
    BY DEF IInv, Mutex, InCritical
  <1>1. TypeOK'
    BY DEF IInv, TypeOK, Steps, keyVars
  <1>2. Mutex' /\ HasHit'
    BY <1>b DEF IInv, TypeOK, Mutex, InCritical, HasHit
  <1>3. AtStep' /\ BestAgrees'
    BY DEF IInv, TypeOK, AtStep, BestAgrees, BestZeros, Zeros, keyVars
  <1>4. Bounded' /\ LinesOrdered'
    BY DEF IInv, TypeOK, Bounded, LinesOrdered, Zeros, keyVars
  <1>5. Stopped' /\ BestIsLastLine'
    BY DEF IInv, TypeOK, Stopped, BestIsLastLine
  <1> QED
    BY <1>1, <1>2, <1>3, <1>4, <1>5 DEF IInv

(* Engines publish any number of keys at once; the counters only grow.     *)
CountersGrow ==
  /\ cpu_keys' \in Nat /\ cpu_keys <= cpu_keys'
  /\ gpu_keys' \in Nat /\ gpu_keys <= gpu_keys'
  /\ UNCHANGED <<best_zeros, best, lock, poisoned, file, stdout, broken,
                 stop, pc, hit, total>>

(* So the totals already written stay below.                               *)
LEMMA CountersGrowIInv ==
  ASSUME IInv, CountersGrow
  PROVE  IInv'
  <1> USE DEF CountersGrow
  <1>1. TypeOK'
    BY DEF IInv, TypeOK
  <1>2. Mutex' /\ HasHit' /\ BestAgrees' /\ LinesOrdered' /\ Stopped'
          /\ BestIsLastLine'
    BY DEF IInv, Mutex, HasHit, BestAgrees, BestZeros, Zeros, LinesOrdered,
           Stopped, BestIsLastLine, At
  <1>3. AtStep'
    BY DEF IInv, TypeOK, AtStep, BestZeros, Zeros
  <1>4. Bounded'
    <2>1. \A i \in 1..Len(file) : file[i].total \in Nat
      BY LineType DEF IInv, TypeOK
    <2>2. cpu_keys \in Nat /\ gpu_keys \in Nat /\ total \in Nat
      BY DEF IInv, TypeOK
    <2>3. \A i \in 1..Len(file) : file[i].total <= cpu_keys' + gpu_keys'
      BY <2>1, <2>2 DEF IInv, Bounded
    <2>4. \A t \in Thread : \A i \in 1..Len(file) :
            pc[t] = "write_line" => file[i].total <= total + gpu_keys'
      BY <2>1, <2>2 DEF IInv, Bounded
    <2> QED
      BY <2>3, <2>4 DEF IInv, Bounded, Zeros
  <1> QED
    BY <1>1, <1>2, <1>3, <1>4 DEF IInv

LEMMA AddKeysIInv ==
  ASSUME IInv, AddKeys
  PROVE  IInv'
  <1>1. CountersGrow
    BY DEF IInv, TypeOK, AddKeys, add_cpu_keys, add_gpu_keys, CountersGrow
  <1> QED
    BY <1>1, CountersGrowIInv

LEMMA PlatformIInv ==
  ASSUME IInv, RequestStop \/ StdoutBreaks \/ UNCHANGED sharedVars
  PROVE  IInv'
  <1> USE DEF RequestStop, StdoutBreaks, sharedVars, keyVars
  <1>1. TypeOK'
    BY DEF IInv, TypeOK
  <1>2. Mutex' /\ HasHit' /\ BestAgrees' /\ LinesOrdered' /\ BestIsLastLine'
    BY DEF IInv, Mutex, HasHit, BestAgrees, BestZeros, Zeros, LinesOrdered,
           BestIsLastLine, At
  <1>3. AtStep' /\ Bounded'
    BY DEF IInv, AtStep, BestZeros, Zeros, Bounded
  <1>4. Stopped'
    BY DEF IInv, TypeOK, Stopped
  <1> QED
    BY <1>1, <1>2, <1>3, <1>4 DEF IInv

LEMMA NextIInv == IInv /\ [Next]_sharedVars => IInv'
  <1> SUFFICES ASSUME IInv, [Next]_sharedVars PROVE IInv'
    OBVIOUS
  <1>1. ASSUME NEW t \in Thread, InReportHit(t) PROVE IInv'
    BY <1>1, FastPathIInv, LockBestIInv, LostRaceIInv, StoreZerosIInv,
       SetBestIInv, WriteLineIInv, PrintNewBestIInv, PrintPanicsIInv
    DEF InReportHit
  <1>2. ASSUME NEW t \in Thread, NEW h \in Hit, Call(t, h) PROVE IInv'
    BY <1>2, CallIInv
  <1>3. ASSUME AddKeys PROVE IInv'
    BY <1>3, AddKeysIInv
  <1>4. ASSUME RequestStop \/ StdoutBreaks \/ UNCHANGED sharedVars PROVE IInv'
    BY <1>4, PlatformIInv
  <1> QED
    BY <1>1, <1>2, <1>3, <1>4 DEF Next

(* report_hit keeps its inductive invariant, whatever the engines do.      *)
THEOREM Invariance == Spec => []IInv
  BY InitIInv, NextIInv, PTL DEF Spec

(* Every variable keeps its type.                                          *)
THEOREM TypeCorrect == Spec => []TypeOK
  <1>1. IInv => TypeOK
    BY DEF IInv
  <1> QED
    BY <1>1, Invariance, PTL

(* The atomic and the wallet agree outside the window between the stores.  *)
THEOREM BestAlwaysAgrees == Spec => []BestAgrees
  <1>1. IInv => BestAgrees
    BY DEF IInv
  <1> QED
    BY <1>1, Invariance, PTL

(* The lines of the file increase in zeros and do not go back in totals.   *)
THEOREM LinesAlwaysOrdered == Spec => []LinesOrdered
  <1>1. IInv => LinesOrdered
    BY DEF IInv
  <1> QED
    BY <1>1, Invariance, PTL

(* A settled best that reaches the target has stopped the search.          *)
THEOREM TargetAlwaysStops == Spec => []TargetStops
  <1>1. IInv => TargetStops
    <2> SUFFICES ASSUME IInv PROVE TargetStops
      OBVIOUS
    <2>1. lock = NoThread => \A t \in Thread : pc[t] \notin InCritical
      BY SharedAssumption DEF IInv, Mutex
    <2> QED
      BY <2>1 DEF IInv, Stopped, TargetStops, InCritical
  <1> QED
    BY <1>1, Invariance, PTL

(* Without write faults a settled best is the last line of the file.       *)
THEOREM BestAlwaysLastLine == Spec => []BestIsLastLine
  <1>1. IInv => BestIsLastLine
    BY DEF IInv
  <1> QED
    BY <1>1, Invariance, PTL

----------------------------------------------------------------------------
(* The fast path and the second check turn away only beaten hits.          *)
THEOREM RejectionsJustified == Spec => RejectedOnlyIfBeaten
  <1> DEFINE A == \A t \in Thread :
                    pc[t] \in {"fast_path", "recheck"} /\ pc'[t] = "idle"
                      => Zeros(hit[t]) <= best_zeros
  <1>1. IInv /\ [Next]_sharedVars => [A]_sharedVars
    <2> SUFFICES ASSUME IInv, Next, NEW t \in Thread,
                        pc[t] \in {"fast_path", "recheck"}, pc'[t] = "idle"
                 PROVE  Zeros(hit[t]) <= best_zeros
      OBVIOUS
    <2>0. /\ hit[t] \in Hit /\ Zeros(hit[t]) \in Nat
          /\ pc \in [Thread -> Steps]
      BY ZerosType DEF IInv, HasHit, TypeOK
    <2>1. PICK u \in Thread : InReportHit(u) \/ \E h \in Hit : Call(u, h)
      BY <2>0 DEF Next, AddKeys, RequestStop, StdoutBreaks
    <2>2. u = t
      BY <2>0, <2>1 DEF InReportHit, FastPath, LockBest, LostRace, StoreZeros,
         SetBest, WriteLine, PrintNewBest, PrintPanics, Call, report_hit,
         Return, Goto, At
    <2>3. FastPath(t) \/ LostRace(t)
      BY <2>0, <2>1, <2>2 DEF InReportHit, LockBest, StoreZeros,
         SetBest, WriteLine, PrintNewBest, PrintPanics, Call, report_hit,
         Goto, At
    <2>4. CASE LostRace(t)
      BY <2>4 DEF LostRace, StillBeats, Beaten
    <2>5. CASE FastPath(t)
      <3>1. PICK loaded \in RelaxedLoads :
               IF Zeros(hit[t]) <= loaded THEN Return(t)
                                        ELSE Goto(t, "lock") /\ UNCHANGED hit
        BY <2>5 DEF FastPath, Beaten
      <3>2. Zeros(hit[t]) <= loaded
        BY <3>1, <2>0 DEF Goto
      <3>3. loaded \in Nat /\ loaded <= best_zeros /\ best_zeros \in Nat
        BY LoadsBelow DEF IInv, TypeOK
      <3> QED
        BY <2>0, <3>2, <3>3
    <2> QED
      BY <2>3, <2>4, <2>5
  <1> QED
    BY <1>1, Invariance, PTL DEF Spec, RejectedOnlyIfBeaten

----------------------------------------------------------------------------
(* Refinement: a step of the threads is a step of the tracker or none.     *)
LEMMA RankOfHit ==
  ASSUME NEW h \in Hit
  PROVE  [x \in Hit |-> Zeros(x)][h] = Zeros(h)
  OBVIOUS

LEMMA TrackerInit == Init => Tracker!Init
  BY DEF Init, Tracker!Init, At

(* The wallet is replaced: the tracker raises its best.                    *)
LEMMA SetBestRaises ==
  ASSUME IInv, NEW t \in Thread, SetBest(t)
  PROVE  Tracker!Next
  <1>a. /\ hit[t] \in Hit /\ hit[t] # None
        /\ BestZeros < Zeros(hit[t])
    BY NoneIsNoHit DEF IInv, HasHit, AtStep, SetBest, At
  <1>b. \A u \in Thread : pc[u] # "write_line"
    BY DEF IInv, Mutex, InCritical, SetBest, At
  <1>c. Tracker!TopRank = BestZeros
    BY RankOfHit DEF Tracker!TopRank, BestZeros, IInv, TypeOK
  <1>d. BestZeros \in Nat /\ Zeros(hit[t]) \in Nat
    BY <1>a, ZerosType DEF BestZeros, IInv, TypeOK
  <1>e. pc'[t] = "write_line"
    BY DEF SetBest, Goto, IInv, TypeOK
  <1>1. Tracker!Raise(hit[t])
    BY <1>a, <1>b, <1>c, <1>d, <1>e DEF Tracker!Raise, SetBest, At
  <1> QED
    BY <1>1, <1>a DEF Tracker!Next

(* The line is written or lost: the tracker settles its best.              *)
LEMMA WriteLineSettles ==
  ASSUME IInv, NEW t \in Thread, WriteLine(t)
  PROVE  Tracker!Next
  <1> DEFINE line == [total |-> total + gpu_keys, found |-> hit[t],
                      zeros |-> Zeros(hit[t])]
             log(f) == [i \in DOMAIN f |-> f[i].found]
  <1>a. hit[t] \in Hit /\ best = hit[t]
    BY DEF IInv, HasHit, AtStep, WriteLine, At
  <1>b. \A u \in Thread : pc'[u] # "write_line"
    BY DEF IInv, TypeOK, Mutex, InCritical, WriteLine, At, Goto
  <1>c. file \in Seq(Line)
    BY DEF IInv, TypeOK
  <1>0. \/ file' = Append(file, line)
        \/ "write" \in Faults /\ UNCHANGED file
    BY DEF WriteLine, WriteMayFail, LineTotal
  <1>1. CASE file' = Append(file, line)
    <2>1. line.found = best
      BY <1>a
    <2>2. log(file') = Append(log(file), best)
      <3> HIDE DEF line
      <3> QED
        BY <1>1, <1>c, <2>1
    <2> QED
      BY <2>2, <1>b DEF Tracker!Next, Tracker!Settle, WriteLine, At
  <1>2. CASE "write" \in Faults /\ UNCHANGED file
    BY <1>2, <1>b DEF Tracker!Next, Tracker!Settle, WriteLine, At
  <1> QED
    BY <1>0, <1>1, <1>2

LEMMA TrackerNext ==
  IInv /\ [Next]_sharedVars => [Tracker!Next]_(Tracker!trackerVars)
  <1> SUFFICES ASSUME IInv, [Next]_sharedVars,
                      ~\E t \in Thread : SetBest(t) \/ WriteLine(t)
               PROVE  UNCHANGED Tracker!trackerVars
    BY SetBestRaises, WriteLineSettles
  <1>1. UNCHANGED <<best, file>>
    BY DEF Next, InReportHit, FastPath, LockBest, LostRace, StoreZeros,
       PrintNewBest, PrintPanics, Call, AddKeys, RequestStop, StdoutBreaks,
       sharedVars
  <1>2. \A u \in Thread : At(u, "write_line")' <=> At(u, "write_line")
    BY DEF IInv, TypeOK, Next, InReportHit, FastPath, LockBest, LostRace,
       StoreZeros, PrintNewBest, PrintPanics, Call, AddKeys, RequestStop,
       StdoutBreaks, sharedVars, report_hit, Return, Goto, At
  <1> QED
    BY <1>1, <1>2 DEF Tracker!trackerVars

(* Any number of threads in report_hit implement the atomic tracker.       *)
THEOREM Implements == Spec => ImplementsTracker
  BY TrackerInit, TrackerNext, Invariance, PTL
  DEF Spec, ImplementsTracker, Tracker!Spec

----------------------------------------------------------------------------
(* The engines around it (HybridMiner)                                     *)

(* A thread outside report_hit holds no hit.                               *)
IdleHasNone == \A t \in Thread : pc[t] = "idle" => hit[t] = None

(* A thread that left its loop left nothing behind.                        *)
Retired ==
  \A t \in finished :
    /\ pc[t] = "idle"
    /\ t \in Worker => drawn[t] = None /\ local[t] = 0
    /\ t = Gpu => threshold = None /\ hits = {}

(* A thread died of a poisoned mutex, or it is the driver, which panicked  *)
(* waiting for a batch and had processed the hits of every batch before.   *)
DeadPoisoned ==
  \A t \in Thread : pc[t] = "dead" =>
    poisoned \/ (t = Gpu /\ hits = {} /\ hit[t] = None)

(* No hit is left when a batch is dispatched, and its threshold hides only *)
(* keys below the target or the best.                                      *)
BatchReady ==
  threshold # None =>
    hits = {} /\ (threshold <= target \/ threshold <= best_zeros)

(* What a thread reports was verified.                                     *)
Verified ==
  \A t \in Thread : hit[t] # None => hit[t].privkey = hit[t].address

HInv ==
  /\ IInv
  /\ HybridTypeOK
  /\ IdleHasNone
  /\ Retired
  /\ DeadPoisoned
  /\ BatchReady
  /\ Verified
  /\ OnlyVerifiedKeys
  /\ NothingLost
  /\ SummaryIsTheBest
  /\ KeysAccounted

----------------------------------------------------------------------------
LEMMA OwnIsHit ==
  ASSUME NEW k \in Key
  PROVE  /\ Own(k) \in Hit /\ Own(k) # None
         /\ Own(k).privkey = k /\ Own(k).address = k
         /\ Zeros(Own(k)) = ZerosOf[k] /\ ZerosOf[k] \in Nat
  BY SharedAssumption, NoneIsNoHit DEF Own, Hit, Zeros

LEMMA InitHInv == HybridInit => HInv
  <1> SUFFICES ASSUME HybridInit PROVE HInv
    OBVIOUS
  <1> USE DEF HybridInit
  <1>1. IInv /\ TypeOK
    BY InitIInv DEF IInv
  <1>2. HybridTypeOK
    <2>1. /\ 0 \in 0 .. COUNTER_FLUSH - 1
          /\ 0 \in 0 .. CounterSpace - 1
      BY HybridAssumption
    <2> QED
      BY <1>1, <2>1 DEF HybridTypeOK
  <1>3. IdleHasNone /\ Retired /\ DeadPoisoned /\ BatchReady /\ Verified
    BY DEF Init, IdleHasNone, Retired, DeadPoisoned, BatchReady, Verified
  <1>4. OnlyVerifiedKeys /\ NothingLost /\ SummaryIsTheBest
    BY DEF Init, OnlyVerifiedKeys, NothingLost, SummaryIsTheBest
  <1>5. KeysAccounted
    <2>1. SumFunction(local) = 0
      BY HybridAssumption, SumOfZeros
    <2> QED
      BY <2>1 DEF Init, KeysAccounted
  <1> QED
    BY <1>1, <1>2, <1>3, <1>4, <1>5 DEF HInv

----------------------------------------------------------------------------
(* What a step inside report_hit does, as far as the engines can tell: the *)
(* hit stays with its thread, or it is dropped and does not beat the best. *)
LEMMA ReportingEffect ==
  ASSUME IInv, NEW t \in Thread, InReportHit(t)
  PROVE  /\ pc[t] \notin {"idle", "dead"}
         /\ \A u \in Thread : u # t => pc'[u] = pc[u] /\ hit'[u] = hit[u]
         /\ \/ hit'[t] = hit[t] /\ pc'[t] # "idle"
            \/ hit'[t] = None /\ hit[t] \in Hit /\ Zeros(hit[t]) <= best_zeros
         /\ pc'[t] = "dead" => poisoned'
         /\ poisoned => poisoned'
         /\ best_zeros <= best_zeros'
         /\ UNCHANGED keyVars
  <1> USE DEF At, Goto, Return
  <1>0. /\ pc \in [Thread -> Steps] /\ hit \in [Thread -> Hit \cup {None}]
        /\ best_zeros \in Nat
    BY DEF IInv, TypeOK
  <1>1. CASE FastPath(t)
    <2>1. PICK v \in RelaxedLoads :
            IF Beaten(t, v) THEN Return(t) ELSE Goto(t, "lock") /\ UNCHANGED hit
      BY <1>1 DEF FastPath
    <2>2. v \in Nat /\ v <= best_zeros /\ hit[t] \in Hit /\ Zeros(hit[t]) \in Nat
      BY <1>1, LoadsBelow, ZerosType DEF IInv, HasHit, FastPath
    <2>3. Beaten(t, v) => Zeros(hit[t]) <= best_zeros
      BY <1>0, <2>2 DEF Beaten
    <2>4. \/ hit' = hit /\ pc' = [pc EXCEPT ![t] = "lock"]
          \/ /\ hit' = [hit EXCEPT ![t] = None]
             /\ pc' = [pc EXCEPT ![t] = "idle"]
             /\ Zeros(hit[t]) <= best_zeros
      BY <2>1, <2>3
    <2> QED
      BY <1>0, <1>1, <2>2, <2>4 DEF FastPath
  <1>2. CASE LockBest(t)
    BY <1>0, <1>2 DEF LockBest
  <1>3. CASE LostRace(t)
    <2>1. hit[t] \in Hit
      BY <1>3 DEF IInv, HasHit, LostRace
    <2> QED
      BY <1>0, <1>3, <2>1 DEF LostRace, StillBeats, Beaten
  <1>4. CASE StoreZeros(t)
    <2>1. hit[t] \in Hit /\ Zeros(hit[t]) \in Nat
      BY <1>4, ZerosType DEF IInv, HasHit, StoreZeros
    <2> QED
      BY <1>0, <1>4, <2>1 DEF StoreZeros, StillBeats, Beaten
  <1>5. CASE SetBest(t)
    BY <1>0, <1>5 DEF SetBest
  <1>6. CASE WriteLine(t)
    BY <1>0, <1>6 DEF WriteLine
  <1>7. CASE PrintNewBest(t)
    <2>1. hit[t] \in Hit /\ best = hit[t] /\ hit[t] # None
      BY <1>7, NoneIsNoHit DEF IInv, HasHit, AtStep, PrintNewBest
    <2>2. \A u \in Thread : pc[u] # "set_best"
      BY <1>7 DEF IInv, Mutex, InCritical, PrintNewBest
    <2>3. best_zeros = Zeros(hit[t])
      BY <2>1, <2>2 DEF IInv, BestAgrees, BestZeros
    <2> QED
      BY <1>0, <1>7, <2>1, <2>3 DEF PrintNewBest
  <1>8. CASE PrintPanics(t)
    BY <1>0, <1>8 DEF PrintPanics
  <1> QED
    BY <1>1, <1>2, <1>3, <1>4, <1>5, <1>6, <1>7, <1>8 DEF InReportHit

LEMMA InReportHitIInv ==
  ASSUME IInv, NEW t \in Thread, InReportHit(t)
  PROVE  IInv'
  BY NextIInv DEF Next

(* What is kept, written or printed afterwards was so before, or it is the *)
(* hit of the reporting thread.                                            *)
LEMMA ReportingOutput ==
  ASSUME IInv, Verified, OnlyVerifiedKeys, NEW t \in Thread, InReportHit(t)
  PROVE  OnlyVerifiedKeys'
  <1> DEFINE Good(h) == h # None => h.privkey = h.address
  <1>0. hit[t] \in Hit /\ Good(hit[t])
    <2>1. pc[t] \notin {"idle", "dead"}
      BY ReportingEffect
    <2> QED
      BY <2>1, NoneIsNoHit DEF IInv, HasHit, Verified
  <1>1. /\ Good(best)
        /\ \A i \in DOMAIN file : Good(file[i].found)
        /\ \A i \in DOMAIN stdout : Good(stdout[i])
    BY DEF OnlyVerifiedKeys
  <1>2. file \in Seq(Line) /\ stdout \in Seq(Hit)
    BY DEF IInv, TypeOK
  <1> HIDE DEF Good
  <1>3. best' = best \/ best' = hit[t]
    BY DEF InReportHit, FastPath, LockBest, LostRace, StoreZeros, SetBest,
           WriteLine, PrintNewBest, PrintPanics
  <1>4. \A i \in DOMAIN file' : Good(file'[i].found)
    <2> DEFINE line == [total |-> LineTotal, found |-> hit[t],
                        zeros |-> Zeros(hit[t])]
    <2>1. file' = file \/ file' = Append(file, line)
      BY DEF InReportHit, FastPath, LockBest, LostRace, StoreZeros, SetBest,
             WriteLine, PrintNewBest, PrintPanics
    <2>2. Good(line.found)
      BY <1>0
    <2> HIDE DEF line
    <2>3. CASE file' = Append(file, line)
      <3>1. \A i \in DOMAIN file' : i \in DOMAIN file \/ i = Len(file) + 1
        BY <1>2, <2>3
      <3>2. /\ \A i \in DOMAIN file : file'[i] = file[i]
            /\ file'[Len(file) + 1] = line
        BY <1>2, <2>3
      <3> QED
        BY <1>1, <2>2, <3>1, <3>2
    <2> QED
      BY <1>1, <2>1, <2>3
  <1>5. \A i \in DOMAIN stdout' : Good(stdout'[i])
    <2>1. stdout' = stdout \/ stdout' = Append(stdout, hit[t])
      BY DEF InReportHit, FastPath, LockBest, LostRace, StoreZeros, SetBest,
             WriteLine, PrintNewBest, PrintPanics
    <2>2. CASE stdout' = Append(stdout, hit[t])
      <3>1. \A i \in DOMAIN stdout' : i \in DOMAIN stdout \/ i = Len(stdout) + 1
        BY <1>2, <2>2
      <3>2. /\ \A i \in DOMAIN stdout : stdout'[i] = stdout[i]
            /\ stdout'[Len(stdout) + 1] = hit[t]
        BY <1>2, <2>2
      <3> QED
        BY <1>0, <1>1, <3>1, <3>2
    <2> QED
      BY <1>1, <2>1, <2>2
  <1>6. Good(best')
    BY <1>0, <1>1, <1>3
  <1> QED
    BY <1>4, <1>5, <1>6 DEF OnlyVerifiedKeys, Good

LEMMA ReportingHInv ==
  ASSUME HInv, exited = "running", NEW t \in Thread, Reporting(t)
  PROVE  HInv'
  <1> USE DEF HInv
  <1>1. InReportHit(t) /\ UNCHANGED driverVars /\ UNCHANGED keyVars
    BY ReportingEffect DEF Reporting
  <1>2. IInv' /\ TypeOK'
    BY <1>1, InReportHitIInv DEF IInv
  <1>3. HybridTypeOK'
    BY <1>1, <1>2 DEF HybridTypeOK, driverVars
  <1>4. /\ pc[t] \notin {"idle", "dead"}
        /\ \A u \in Thread : u # t => pc'[u] = pc[u] /\ hit'[u] = hit[u]
        /\ \/ hit'[t] = hit[t] /\ pc'[t] # "idle"
           \/ hit'[t] = None /\ hit[t] \in Hit /\ Zeros(hit[t]) <= best_zeros
        /\ pc'[t] = "dead" => poisoned'
        /\ poisoned => poisoned'
        /\ best_zeros <= best_zeros'
    BY <1>1, ReportingEffect
  <1>5. best_zeros \in Nat /\ best_zeros' \in Nat
    BY <1>2 DEF IInv, TypeOK
  <1>6. IdleHasNone' /\ Verified'
    BY <1>4 DEF IdleHasNone, Verified
  <1>7. Retired'
    BY <1>1, <1>4 DEF Retired, driverVars, HybridTypeOK
  <1>8. DeadPoisoned'
    BY <1>1, <1>4 DEF DeadPoisoned, driverVars
  <1>9. BatchReady'
    <2>1. target \in Nat /\ threshold \in Nat \cup {None}
      BY SharedAssumption DEF HybridTypeOK
    <2> QED
      BY <1>1, <1>4, <1>5, <2>1 DEF BatchReady, driverVars
  <1>10. OnlyVerifiedKeys'
    BY <1>1, ReportingOutput
  <1>11. NothingLost'
    <2> SUFFICES ASSUME ~poisoned', NEW k \in seen
                 PROVE  ZerosOf[k] <= best_zeros' \/ InFlight(k)'
      BY <1>1 DEF NothingLost, driverVars
    <2>1. k \in Key /\ ZerosOf[k] \in Nat
      BY OwnIsHit DEF HybridTypeOK
    <2>2. CASE ZerosOf[k] <= best_zeros
      BY <1>4, <1>5, <2>1, <2>2
    <2>3. CASE (\E w \in Worker : drawn[w] = k) \/ Own(k) \in hits
      BY <1>1, <2>3 DEF InFlight, driverVars
    <2>4. CASE \E u \in Thread : hit[u] = Own(k)
      <3>1. PICK u \in Thread : hit[u] = Own(k)
        BY <2>4
      <3>2. CASE hit'[u] = hit[u]
        BY <3>1, <3>2 DEF InFlight, Own
      <3>3. CASE hit'[u] # hit[u]
        <4>1. Zeros(hit[u]) <= best_zeros
          BY <1>4, <3>3
        <4> QED
          BY <1>4, <1>5, <2>1, <3>1, <4>1, OwnIsHit
      <3> QED
        BY <3>2, <3>3
    <2> QED
      BY <1>4, <2>2, <2>3, <2>4 DEF NothingLost, InFlight
  <1>12. SummaryIsTheBest' /\ KeysAccounted'
    BY <1>1 DEF SummaryIsTheBest, KeysAccounted, driverVars, keyVars
  <1> QED
    BY <1>2, <1>3, <1>6, <1>7, <1>8, <1>9, <1>10, <1>11, <1>12

----------------------------------------------------------------------------
(* The caller's check drops only a hit that does not beat the best.        *)
LEMMA ReportIfBetterEffect ==
  ASSUME IInv, NEW t \in Thread, NEW h \in Hit, At(t, "idle"),
         ReportIfBetter(t, h)
  PROVE  /\ IInv'
         /\ UNCHANGED <<searchVars, keyVars, stop, total>>
         /\ \/ UNCHANGED <<pc, hit>> /\ Zeros(h) <= best_zeros
            \/ /\ pc' = [pc EXCEPT ![t] = "fast_path"]
               /\ hit' = [hit EXCEPT ![t] = h]
  <1>1. PICK v \in RelaxedLoads :
          IF Zeros(h) > v THEN report_hit(t, h) ELSE UNCHANGED <<pc, hit>>
    BY DEF ReportIfBetter
  <1>2. UNCHANGED <<searchVars, keyVars, stop, total>>
    BY DEF ReportIfBetter
  <1>3. CASE Zeros(h) > v
    <2>1. report_hit(t, h)
      BY <1>1, <1>3
    <2>2. Call(t, h)
      BY <1>2, <2>1 DEF Call, searchVars
    <2> QED
      BY <1>2, <2>1, <2>2, CallIInv DEF report_hit, Goto
  <1>4. CASE ~(Zeros(h) > v)
    <2>1. Zeros(h) <= best_zeros
      BY <1>4, LoadsBelow, ZerosType DEF IInv, TypeOK
    <2>2. UNCHANGED sharedVars
      BY <1>1, <1>2, <1>4 DEF sharedVars, searchVars, keyVars
    <2> QED
      BY <1>1, <1>2, <1>4, <2>1, <2>2, PlatformIInv
  <1> QED
    BY <1>3, <1>4

(* The counts: a worker moves keys from its local count to the shared one. *)
LEMMA MovedSum ==
  ASSUME TypeOK, HybridTypeOK, cpu_keys + SumFunction(local) = mined,
         NEW w \in Worker, NEW v \in 0 .. COUNTER_FLUSH - 1,
         local' = [local EXCEPT ![w] = v],
         cpu_keys' \in Nat, mined' \in Nat,
         cpu_keys' + v + mined = cpu_keys + local[w] + mined'
  PROVE  /\ local' \in [Worker -> 0 .. COUNTER_FLUSH - 1]
         /\ cpu_keys' + SumFunction(local') = mined'
  <1>0. local \in [Worker -> Nat] /\ IsFiniteSet(Worker) /\ v \in Nat
    BY HybridAssumption DEF HybridTypeOK
  <1>1. local[w] \in Nat /\ local' \in [Worker -> 0 .. COUNTER_FLUSH - 1]
    BY HybridAssumption DEF HybridTypeOK
  <1>2. /\ SumFunction(local) \in Nat
        /\ SumFunction(local') = SumFunction(local) - local[w] + v
    BY <1>0, SumChanges
  <1>3. cpu_keys \in Nat /\ mined \in Nat
    BY DEF TypeOK, HybridTypeOK
  <1> QED
    BY <1>1, <1>2, <1>3

LEMMA CountKeyCounts ==
  ASSUME TypeOK, HybridTypeOK, cpu_keys + SumFunction(local) = mined,
         NEW w \in Worker, CountKey(w)
  PROVE  /\ local' \in [Worker -> 0 .. COUNTER_FLUSH - 1]
         /\ \A u \in Worker : u # w => local'[u] = local[u]
         /\ mined' \in Nat
         /\ cpu_keys' \in Nat /\ cpu_keys <= cpu_keys'
         /\ UNCHANGED gpu_keys
         /\ cpu_keys' + SumFunction(local') = mined'
  <1>0. /\ cpu_keys \in Nat /\ mined \in Nat /\ COUNTER_FLUSH \in Nat \ {0}
        /\ local[w] \in 0 .. COUNTER_FLUSH - 1
        /\ local \in [Worker -> 0 .. COUNTER_FLUSH - 1]
    BY HybridAssumption DEF TypeOK, HybridTypeOK
  <1>1. CASE mined = MaxKeys
    BY <1>0, <1>1 DEF CountKey, keyVars
  <1>2. CASE mined # MaxKeys /\ FlushDue(local[w] + 1)
    <2>1. /\ mined' = mined + 1 /\ cpu_keys' = cpu_keys + (local[w] + 1)
          /\ local' = [local EXCEPT ![w] = 0] /\ UNCHANGED gpu_keys
      BY <1>2 DEF CountKey, add_cpu_keys
    <2>2. /\ 0 \in 0 .. COUNTER_FLUSH - 1
          /\ cpu_keys' \in Nat /\ mined' \in Nat /\ cpu_keys <= cpu_keys'
          /\ cpu_keys' + 0 + mined = cpu_keys + local[w] + mined'
      BY <1>0, <2>1
    <2> QED
      BY <1>0, <2>1, <2>2, MovedSum
  <1>3. CASE mined # MaxKeys /\ ~FlushDue(local[w] + 1)
    <2>1. /\ mined' = mined + 1 /\ UNCHANGED keyVars
          /\ local' = [local EXCEPT ![w] = local[w] + 1]
      BY <1>3 DEF CountKey
    <2>2. /\ local[w] + 1 \in 0 .. COUNTER_FLUSH - 1
          /\ cpu_keys' \in Nat /\ mined' \in Nat /\ cpu_keys <= cpu_keys'
          /\ cpu_keys' + (local[w] + 1) + mined = cpu_keys + local[w] + mined'
      BY <1>0, <1>3, <2>1 DEF FlushDue, keyVars
    <2> QED
      BY <1>0, <2>1, <2>2, MovedSum DEF keyVars
  <1> QED
    BY <1>1, <1>2, <1>3

----------------------------------------------------------------------------
(* One lemma per action of the engines.                                    *)
LEMMA WorkerDrawsHInv ==
  ASSUME HInv, exited = "running", NEW w \in Worker, WorkerDraws(w)
  PROVE  HInv'
  <1> USE DEF HInv
  <1>1. PICK k \in Key : /\ drawn' = [drawn EXCEPT ![w] = k]
                         /\ seen' = seen \cup {k}
    BY DEF WorkerDraws
  <1>2. /\ UNCHANGED <<searchVars, stop, pc, hit, total, finished, base,
                       threshold, hits, interrupted, exited, summary>>
        /\ AtLoopTop(w) /\ CountKey(w)
    BY DEF WorkerDraws
  <1>3. /\ local' \in [Worker -> 0 .. COUNTER_FLUSH - 1]
        /\ \A u \in Worker : u # w => local'[u] = local[u]
        /\ mined' \in Nat
        /\ cpu_keys' \in Nat /\ cpu_keys <= cpu_keys'
        /\ UNCHANGED gpu_keys
        /\ cpu_keys' + SumFunction(local') = mined'
    BY <1>2, CountKeyCounts DEF IInv, KeysAccounted
  <1>4. IInv'
    <2>1. CountersGrow
      BY <1>2, <1>3 DEF CountersGrow, searchVars, IInv, TypeOK
    <2> QED
      BY <2>1, CountersGrowIInv
  <1>5. HybridTypeOK'
    BY <1>1, <1>2, <1>3, <1>4 DEF IInv, HybridTypeOK
  <1>6. IdleHasNone' /\ DeadPoisoned' /\ BatchReady' /\ Verified'
    BY <1>2
    DEF IdleHasNone, DeadPoisoned, BatchReady, Verified, searchVars
  <1>7. Retired'
    BY <1>1, <1>2, <1>3, HybridAssumption
    DEF Retired, AtLoopTop, HybridTypeOK
  <1>8. OnlyVerifiedKeys'
    BY <1>2 DEF OnlyVerifiedKeys, searchVars
  <1>9. NothingLost'
    <2> SUFFICES ASSUME ~poisoned, NEW j \in seen \cup {k}
                 PROVE  ZerosOf[j] <= best_zeros \/ InFlight(j)'
      BY <1>1, <1>2 DEF NothingLost, searchVars
    <2>1. CASE j = k
      BY <1>1, <2>1 DEF InFlight, HybridTypeOK
    <2>2. CASE j \in seen
      <3>1. j \in Key /\ j # None
        BY <2>2, NoneIsNoHit DEF HybridTypeOK
      <3> QED
        BY <1>1, <1>2, <2>2, <3>1
        DEF NothingLost, InFlight, AtLoopTop, HybridTypeOK, Own
    <2> QED
      BY <2>1, <2>2
  <1>10. SummaryIsTheBest' /\ KeysAccounted'
    BY <1>2, <1>3 DEF SummaryIsTheBest, KeysAccounted
  <1> QED
    BY <1>4, <1>5, <1>6, <1>7, <1>8, <1>9, <1>10

(* The key drawn is handed to report_hit or does not beat the best.        *)
LEMMA WorkerComparesHInv ==
  ASSUME HInv, exited = "running", NEW w \in Worker, WorkerCompares(w)
  PROVE  HInv'
  <1> USE DEF HInv
  <1> DEFINE k == drawn[w]
  <1>0. /\ At(w, "idle") /\ k # None /\ k \in Key /\ w \in Thread
        /\ ReportIfBetter(w, Own(k))
        /\ drawn' = [drawn EXCEPT ![w] = None]
        /\ UNCHANGED <<local, finished, base, threshold, hits, interrupted,
                       exited, summary, mined, seen>>
    BY HybridAssumption DEF WorkerCompares, HybridTypeOK
  <1>1. /\ Own(k) \in Hit /\ Own(k).privkey = Own(k).address
        /\ Zeros(Own(k)) = ZerosOf[k]
    BY <1>0, OwnIsHit
  <1>2. /\ IInv'
        /\ UNCHANGED <<searchVars, keyVars, stop, total>>
        /\ \/ UNCHANGED <<pc, hit>> /\ ZerosOf[k] <= best_zeros
           \/ /\ pc' = [pc EXCEPT ![w] = "fast_path"]
              /\ hit' = [hit EXCEPT ![w] = Own(k)]
    BY <1>0, <1>1, ReportIfBetterEffect
  <1> HIDE DEF k
  <1>3. /\ hit[w] = None /\ pc[w] = "idle"
        /\ pc \in [Thread -> Steps] /\ hit \in [Thread -> Hit \cup {None}]
    BY <1>0 DEF IdleHasNone, At, IInv, TypeOK
  <1>4. HybridTypeOK'
    BY <1>0, <1>2 DEF IInv, HybridTypeOK
  <1>5. IdleHasNone' /\ DeadPoisoned' /\ BatchReady'
    BY <1>0, <1>2, <1>3
    DEF IdleHasNone, DeadPoisoned, BatchReady, searchVars
  <1>6. Verified'
    BY <1>1, <1>2, <1>3 DEF Verified
  <1>7. Retired'
    <2>1. w \notin finished
      BY <1>0 DEF Retired, k
    <2> QED
      BY <1>0, <1>2, <1>3, <2>1 DEF Retired, HybridTypeOK
  <1>8. OnlyVerifiedKeys'
    BY <1>2 DEF OnlyVerifiedKeys, searchVars
  <1>9. NothingLost'
    <2> SUFFICES ASSUME ~poisoned, NEW j \in seen
                 PROVE  ZerosOf[j] <= best_zeros \/ InFlight(j)'
      BY <1>0, <1>2 DEF NothingLost, searchVars
    <2>1. CASE j = k
      BY <1>0, <1>2, <1>3, <2>1 DEF InFlight
    <2>2. CASE \E u \in Worker : drawn[u] = j /\ j # k
      BY <1>0, <2>2 DEF InFlight, k, HybridTypeOK
    <2>3. CASE Own(j) \in hits
      BY <1>0, <2>3 DEF InFlight, Own
    <2>4. CASE \E u \in Thread : hit[u] = Own(j)
      <3>1. j \in Key
        BY DEF HybridTypeOK
      <3>2. PICK u \in Thread : hit[u] = Own(j)
        BY <2>4
      <3>3. u # w
        BY <1>3, <3>1, <3>2, OwnIsHit
      <3>4. hit'[u] = Own(j)
        BY <1>2, <1>3, <3>2, <3>3
      <3> QED
        BY <3>4 DEF InFlight, Own
    <2> QED
      BY <2>1, <2>2, <2>3, <2>4 DEF NothingLost, InFlight
  <1>10. SummaryIsTheBest' /\ KeysAccounted'
    BY <1>0, <1>2 DEF SummaryIsTheBest, KeysAccounted, keyVars
  <1> QED
    BY <1>2, <1>4, <1>5, <1>6, <1>7, <1>8, <1>9, <1>10

(* The last flush leaves no key unpublished.                               *)
LEMMA WorkerStopsHInv ==
  ASSUME HInv, exited = "running", NEW w \in Worker, WorkerStops(w)
  PROVE  HInv'
  <1> USE DEF HInv
  <1>1. /\ AtLoopTop(w) /\ w \in Thread
        /\ cpu_keys' = cpu_keys + local[w] /\ UNCHANGED gpu_keys
        /\ local' = [local EXCEPT ![w] = 0]
        /\ finished' = finished \cup {w}
        /\ UNCHANGED <<searchVars, stop, pc, hit, total, drawn, base, threshold,
                       hits, interrupted, exited, summary, mined, seen>>
    BY HybridAssumption DEF WorkerStops, FinalFlush, add_cpu_keys
  <1>2. /\ local[w] \in Nat /\ cpu_keys \in Nat /\ mined \in Nat
        /\ 0 \in 0 .. COUNTER_FLUSH - 1
    BY HybridAssumption DEF IInv, TypeOK, HybridTypeOK
  <1>3. /\ cpu_keys' \in Nat /\ mined' \in Nat /\ cpu_keys <= cpu_keys'
        /\ cpu_keys' + 0 + mined = cpu_keys + local[w] + mined'
    BY <1>1, <1>2
  <1>4. /\ local' \in [Worker -> 0 .. COUNTER_FLUSH - 1]
        /\ cpu_keys' + SumFunction(local') = mined'
    BY <1>1, <1>2, <1>3, MovedSum DEF IInv, KeysAccounted
  <1>5. IInv'
    <2>1. CountersGrow
      BY <1>1, <1>3 DEF CountersGrow, searchVars, IInv, TypeOK
    <2> QED
      BY <2>1, CountersGrowIInv
  <1>6. HybridTypeOK'
    BY <1>1, <1>4, <1>5 DEF IInv, HybridTypeOK
  <1>7. IdleHasNone' /\ DeadPoisoned' /\ BatchReady' /\ Verified'
    BY <1>1
    DEF IdleHasNone, DeadPoisoned, BatchReady, Verified, searchVars
  <1>8. Retired'
    BY <1>1, HybridAssumption DEF Retired, AtLoopTop, At, HybridTypeOK
  <1>9. OnlyVerifiedKeys' /\ NothingLost'
    BY <1>1 DEF OnlyVerifiedKeys, NothingLost, InFlight, Own, searchVars
  <1>10. SummaryIsTheBest' /\ KeysAccounted'
    BY <1>1, <1>4 DEF SummaryIsTheBest, KeysAccounted
  <1> QED
    BY <1>5, <1>6, <1>7, <1>8, <1>9, <1>10

(* The driver's threshold hides a key only if it misses the target or does *)
(* not beat the best (gpu_driver.rs:38).                                   *)
LEMMA GpuPicksThresholdHInv ==
  ASSUME HInv, exited = "running", GpuPicksThreshold
  PROVE  HInv'
  <1> USE DEF HInv
  <1>1. PICK v \in RelaxedLoads : threshold' = gpu_threshold(v, target)
    BY DEF GpuPicksThreshold
  <1>2. /\ GpuAtLoopTop
        /\ UNCHANGED <<sharedVars, local, drawn, finished, base, hits,
                       interrupted, exited, summary, mined, seen>>
    BY DEF GpuPicksThreshold
  <1>3. /\ v \in Nat /\ v <= best_zeros /\ best_zeros \in Nat
        /\ target \in Nat /\ GPU_FLOOR \in Nat
    BY LoadsBelow, SharedAssumption, HybridAssumption DEF IInv, TypeOK
  <1>4. /\ threshold' \in Nat
        /\ threshold' <= target \/ threshold' <= best_zeros
    BY <1>1, <1>3 DEF gpu_threshold
  <1>5. IInv'
    BY <1>2, PlatformIInv
  <1>6. HybridTypeOK'
    BY <1>2, <1>4, <1>5 DEF IInv, HybridTypeOK
  <1>7. IdleHasNone' /\ DeadPoisoned' /\ Verified' /\ OnlyVerifiedKeys'
    BY <1>2 DEF IdleHasNone, DeadPoisoned, Verified, OnlyVerifiedKeys,
                sharedVars
  <1>8. Retired'
    BY <1>2 DEF Retired, GpuAtLoopTop, sharedVars
  <1>9. BatchReady'
    BY <1>2, <1>4 DEF BatchReady, GpuAtLoopTop, sharedVars
  <1>10. NothingLost' /\ SummaryIsTheBest' /\ KeysAccounted'
    BY <1>2 DEF NothingLost, InFlight, Own, SummaryIsTheBest, KeysAccounted,
                sharedVars
  <1> QED
    BY <1>5, <1>6, <1>7, <1>8, <1>9, <1>10

LEMMA GpuStopsHInv ==
  ASSUME HInv, exited = "running", GpuStops
  PROVE  HInv'
  <1> USE DEF HInv
  <1>1. /\ GpuAtLoopTop /\ finished' = finished \cup {Gpu}
        /\ UNCHANGED <<sharedVars, local, drawn, base, threshold, hits,
                       interrupted, exited, summary, mined, seen>>
    BY DEF GpuStops
  <1>2. IInv'
    BY <1>1, PlatformIInv
  <1>3. HybridTypeOK'
    BY <1>1, <1>2, HybridAssumption DEF IInv, HybridTypeOK
  <1>4. IdleHasNone' /\ DeadPoisoned' /\ Verified' /\ OnlyVerifiedKeys'
    BY <1>1 DEF IdleHasNone, DeadPoisoned, Verified, OnlyVerifiedKeys,
                sharedVars
  <1>5. Retired' /\ BatchReady'
    BY <1>1, HybridAssumption
    DEF Retired, BatchReady, GpuAtLoopTop, At, sharedVars
  <1>6. NothingLost' /\ SummaryIsTheBest' /\ KeysAccounted'
    BY <1>1 DEF NothingLost, InFlight, Own, SummaryIsTheBest, KeysAccounted,
                sharedVars
  <1> QED
    BY <1>2, <1>3, <1>4, <1>5, <1>6

(* Every qualifying key of a batch that does not saturate is a hit.        *)
LEMMA OutputHasQualifying ==
  ASSUME NEW out \in KernelOutput, ~Saturated, NEW k \in Qualifying
  PROVE  Own(k) \in out
  BY DEF KernelOutput

LEMMA OutputType ==
  ASSUME HybridTypeOK, NEW out \in KernelOutput
  PROVE  out \subseteq Hit
  <1>1. Qualifying \subseteq Key
    <2>1. \A i \in 0 .. ITERS - 1 : (base + i) % CounterSpace \in 0 .. CounterSpace - 1
      BY HybridAssumption DEF HybridTypeOK
    <2>2. Batch \subseteq Key
      BY <2>1, HybridAssumption DEF Batch
    <2> QED
      BY <2>2 DEF Qualifying
  <1>2. \A kept \in SUBSET Qualifying : {Own(k) : k \in kept} \subseteq Hit
    BY <1>1, OwnIsHit
  <1>3. \A kept \in kSubset(MAX_HITS, Qualifying) : kept \in SUBSET Qualifying
    BY DEF kSubset
  <1>4. ASSUME NEW S \in {{Own(k) : k \in kept} :
                            kept \in IF Saturated THEN kSubset(MAX_HITS, Qualifying)
                                                 ELSE {Qualifying}}
        PROVE  S \subseteq Hit
    BY <1>2, <1>3
  <1> QED
    BY <1>4 DEF KernelOutput

LEMMA GpuDispatchesHInv ==
  ASSUME HInv, exited = "running", GpuDispatches
  PROVE  HInv'
  <1> USE DEF HInv
  <1>1. /\ At(Gpu, "idle") /\ threshold # None /\ threshold' = None
        /\ hits' \in KernelOutput
        /\ base' = (base + ITERS) % CounterSpace
        /\ IF gpu_keys >= MaxKeys THEN UNCHANGED keyVars
                                  ELSE add_gpu_keys(N_THREADS * ITERS)
        /\ seen' = IF Saturated THEN seen
                   ELSE seen \cup {k \in Batch : ZerosOf[k] >= target}
        /\ UNCHANGED <<searchVars, stop, pc, hit, total, local, drawn, finished,
                       interrupted, exited, summary, mined>>
    BY DEF GpuDispatches
  <1>2. /\ cpu_keys' = cpu_keys /\ cpu_keys' \in Nat
        /\ gpu_keys' \in Nat /\ gpu_keys <= gpu_keys'
    <2>1. /\ cpu_keys \in Nat /\ gpu_keys \in Nat /\ N_THREADS \in Nat
          /\ ITERS \in Nat
      BY HybridAssumption DEF IInv, TypeOK
    <2>2. N_THREADS * ITERS \in Nat
      BY <2>1
    <2>3. gpu_keys' = gpu_keys \/ gpu_keys' = gpu_keys + N_THREADS * ITERS
      BY <1>1 DEF keyVars, add_gpu_keys
    <2>4. cpu_keys' = cpu_keys
      BY <1>1 DEF keyVars, add_gpu_keys
    <2> QED
      BY <2>1, <2>2, <2>3, <2>4
  <1>3. IInv'
    <2>1. CountersGrow
      BY <1>1, <1>2 DEF CountersGrow, searchVars
    <2> QED
      BY <2>1, CountersGrowIInv
  <1>4. Batch \subseteq Key
    <2>1. \A i \in 0 .. ITERS - 1 : (base + i) % CounterSpace \in 0 .. CounterSpace - 1
      BY HybridAssumption DEF HybridTypeOK
    <2> QED
      BY <2>1, HybridAssumption DEF Batch
  <1>5. HybridTypeOK'
    <2>1. base' \in 0 .. CounterSpace - 1
      BY <1>1, HybridAssumption DEF HybridTypeOK
    <2>2. hits' \subseteq Hit
      BY <1>1, OutputType
    <2>3. seen' \subseteq Key
      BY <1>1, <1>4 DEF HybridTypeOK
    <2> QED
      BY <1>1, <1>3, <2>1, <2>2, <2>3 DEF IInv, HybridTypeOK
  <1>6. IdleHasNone' /\ Verified' /\ BatchReady' /\ OnlyVerifiedKeys'
    BY <1>1 DEF IdleHasNone, Verified, BatchReady, OnlyVerifiedKeys, searchVars
  <1>7. Retired' /\ DeadPoisoned'
    BY <1>1 DEF Retired, DeadPoisoned, At, searchVars
  <1>8. NothingLost'
    <2> SUFFICES ASSUME ~poisoned, NEW k \in seen'
                 PROVE  ZerosOf[k] <= best_zeros \/ InFlight(k)'
      BY <1>1 DEF NothingLost, searchVars
    <2>1. CASE k \in seen
      <3>1. hits = {}
        BY <1>1 DEF BatchReady
      <3> QED
        BY <1>1, <2>1, <3>1 DEF NothingLost, InFlight, Own
    <2>2. CASE k \notin seen
      <3>1. ~Saturated /\ k \in Batch /\ ZerosOf[k] >= target
        BY <1>1, <2>2
      <3>2. /\ ZerosOf[k] \in Nat /\ target \in Nat /\ best_zeros \in Nat
            /\ threshold \in Nat
            /\ threshold <= target \/ threshold <= best_zeros
        BY <1>1, <1>4, <3>1, SharedAssumption
        DEF IInv, TypeOK, HybridTypeOK, BatchReady
      <3>3. CASE ZerosOf[k] >= threshold
        <4>1. k \in Qualifying
          BY <3>1, <3>3 DEF Qualifying
        <4>2. Own(k) \in hits'
          BY <1>1, <3>1, <4>1, OutputHasQualifying
        <4> QED
          BY <4>2 DEF InFlight, Own
      <3>4. CASE ~(ZerosOf[k] >= threshold)
        BY <3>1, <3>2, <3>4
      <3> QED
        BY <3>3, <3>4
    <2> QED
      BY <2>1, <2>2
  <1>9. SummaryIsTheBest' /\ KeysAccounted'
    BY <1>1, <1>2 DEF SummaryIsTheBest, KeysAccounted
  <1> QED
    BY <1>3, <1>5, <1>6, <1>7, <1>8, <1>9

(* The driver panics between batches: it takes no hit with it.             *)
LEMMA GpuPanicsHInv ==
  ASSUME HInv, exited = "running", GpuPanics
  PROVE  HInv'
  <1> USE DEF HInv
  <1>1. /\ pc[Gpu] = "idle" /\ threshold # None /\ threshold' = None
        /\ pc' = [pc EXCEPT ![Gpu] = "dead"] /\ Gpu \in Thread
        /\ UNCHANGED <<searchVars, keyVars, stop, hit, total, local, drawn,
                       finished, base, hits, interrupted, exited, summary,
                       mined, seen>>
    BY HybridAssumption DEF GpuPanics, At, Goto
  <1>2. hits = {} /\ hit[Gpu] = None
    BY <1>1 DEF BatchReady, IdleHasNone
  <1>3. IInv'
    <2> USE <1>1 DEF IInv, searchVars, keyVars
    <2>1. TypeOK'
      BY DEF TypeOK, Steps
    <2>2. Mutex' /\ HasHit' /\ BestAgrees' /\ AtStep'
      BY DEF TypeOK, Mutex, InCritical, HasHit, BestAgrees, BestZeros, Zeros,
             AtStep, At
    <2>3. Bounded' /\ LinesOrdered'
      BY DEF TypeOK, Bounded, LinesOrdered, Zeros
    <2>4. Stopped' /\ BestIsLastLine'
      BY DEF TypeOK, Stopped, BestIsLastLine
    <2> QED
      BY <2>1, <2>2, <2>3, <2>4
  <1>4. HybridTypeOK'
    BY <1>1, <1>3 DEF IInv, HybridTypeOK
  <1>5. IdleHasNone' /\ Verified' /\ DeadPoisoned'
    BY <1>1, <1>2 DEF IdleHasNone, Verified, DeadPoisoned, searchVars,
                      IInv, TypeOK
  <1>6. Retired' /\ BatchReady' /\ OnlyVerifiedKeys'
    BY <1>1 DEF Retired, BatchReady, OnlyVerifiedKeys, searchVars,
                IInv, TypeOK
  <1>7. NothingLost' /\ SummaryIsTheBest' /\ KeysAccounted'
    BY <1>1 DEF NothingLost, InFlight, Own, SummaryIsTheBest, KeysAccounted,
                searchVars, keyVars
  <1> QED
    BY <1>3, <1>4, <1>5, <1>6, <1>7

(* A hit that is taken from the batch is reported, or it does not beat the *)
(* best, or its address is not that of its key and the process ends.       *)
LEMMA GpuProcessesHitHInv ==
  ASSUME HInv, exited = "running", GpuProcessesHit
  PROVE  HInv'
  <1> USE DEF HInv
  <1>1. PICK h \in hits :
          /\ hits' = hits \ {h}
          /\ IF verify_hit(h)
               THEN ReportIfBetter(Gpu, h) /\ UNCHANGED exited
               ELSE exited' = "fatal" /\ UNCHANGED sharedVars
    BY DEF GpuProcessesHit, Remaining
  <1>2. /\ At(Gpu, "idle") /\ Gpu \in Thread /\ h \in Hit
        /\ UNCHANGED <<local, drawn, finished, base, threshold, interrupted,
                       summary, mined, seen>>
    BY HybridAssumption DEF GpuProcessesHit, HybridTypeOK
  <1>3. /\ hit[Gpu] = None /\ pc[Gpu] = "idle" /\ h # None
        /\ pc \in [Thread -> Steps] /\ hit \in [Thread -> Hit \cup {None}]
        /\ Gpu \notin finished
    BY <1>2, NoneIsNoHit DEF IdleHasNone, Retired, At, IInv, TypeOK
  <1>4. /\ IInv' /\ UNCHANGED <<searchVars, keyVars, stop, total>>
        /\ \/ UNCHANGED <<pc, hit>> /\ (verify_hit(h) => Zeros(h) <= best_zeros)
           \/ /\ pc' = [pc EXCEPT ![Gpu] = "fast_path"]
              /\ hit' = [hit EXCEPT ![Gpu] = h]
              /\ verify_hit(h)
    <2>1. CASE verify_hit(h)
      BY <1>1, <1>2, <2>1, ReportIfBetterEffect
    <2>2. CASE ~verify_hit(h)
      BY <1>1, <2>2, PlatformIInv DEF sharedVars, searchVars, keyVars
    <2> QED
      BY <2>1, <2>2
  <1>5. exited' \in {"running", "fatal"}
    BY <1>1
  <1>6. HybridTypeOK'
    BY <1>1, <1>2, <1>4, <1>5 DEF IInv, HybridTypeOK
  <1>7. IdleHasNone' /\ DeadPoisoned'
    BY <1>1, <1>3, <1>4 DEF IdleHasNone, DeadPoisoned, searchVars
  <1>8. Verified'
    BY <1>3, <1>4 DEF Verified, verify_hit
  <1>9. Retired'
    BY <1>1, <1>2, <1>3, <1>4, HybridAssumption DEF Retired, HybridTypeOK
  <1>10. BatchReady' /\ OnlyVerifiedKeys'
    BY <1>1, <1>2, <1>4 DEF BatchReady, OnlyVerifiedKeys, searchVars
  <1>11. NothingLost'
    <2> SUFFICES ASSUME ~poisoned, NEW k \in seen
                 PROVE  ZerosOf[k] <= best_zeros \/ InFlight(k)'
      BY <1>2, <1>4 DEF NothingLost, searchVars
    <2>0. /\ Own(k) \in Hit /\ Own(k) # None /\ verify_hit(Own(k))
          /\ Zeros(Own(k)) = ZerosOf[k]
      BY OwnIsHit DEF HybridTypeOK, verify_hit
    <2>1. CASE \E w \in Worker : drawn[w] = k
      BY <1>2, <2>1 DEF InFlight
    <2>2. CASE Own(k) \in hits
      <3>1. CASE h = Own(k)
        <4>1. CASE Zeros(h) <= best_zeros
          BY <2>0, <3>1, <4>1
        <4>2. CASE hit' = [hit EXCEPT ![Gpu] = h]
          <5>1. hit'[Gpu] = Own(k)
            BY <1>2, <1>3, <3>1, <4>2
          <5> QED
            BY <1>2, <5>1 DEF InFlight, Own
        <4> QED
          BY <1>4, <2>0, <3>1, <4>1, <4>2
      <3>2. CASE h # Own(k)
        BY <1>1, <2>2, <3>2 DEF InFlight, Own
      <3> QED
        BY <3>1, <3>2
    <2>3. CASE \E u \in Thread : hit[u] = Own(k)
      <3>1. PICK u \in Thread : hit[u] = Own(k)
        BY <2>3
      <3>2. hit'[u] = Own(k)
        BY <1>3, <1>4, <2>0, <3>1
      <3> QED
        BY <3>2 DEF InFlight, Own
    <2> QED
      BY <2>1, <2>2, <2>3 DEF NothingLost, InFlight
  <1>12. SummaryIsTheBest' /\ KeysAccounted'
    BY <1>2, <1>4, <1>5 DEF SummaryIsTheBest, KeysAccounted, keyVars
  <1> QED
    BY <1>4, <1>6, <1>7, <1>8, <1>9, <1>10, <1>11, <1>12

LEMMA PlatformHInv ==
  ASSUME HInv, CtrlC \/ OutputBreaks \/ Ended
  PROVE  HInv'
  <1> USE DEF HInv
  <1>1. /\ UNCHANGED <<best_zeros, best, lock, poisoned, file, stdout,
                       cpu_keys, gpu_keys, pc, hit, total>>
        /\ UNCHANGED <<local, drawn, finished, base, threshold, hits, exited,
                       summary, mined, seen>>
        /\ interrupted' \in BOOLEAN
    BY DEF CtrlC, OutputBreaks, StdoutBreaks, Ended, vars, sharedVars,
           searchVars, keyVars, driverVars, HybridTypeOK
  <1>2. IInv'
    <2>1. RequestStop \/ StdoutBreaks \/ UNCHANGED sharedVars
      BY DEF CtrlC, RequestStop, OutputBreaks, Ended, vars, sharedVars,
             searchVars, keyVars, IInv, TypeOK
    <2> QED
      BY <2>1, PlatformIInv
  <1>3. HybridTypeOK'
    BY <1>1, <1>2 DEF IInv, HybridTypeOK
  <1>4. IdleHasNone' /\ Retired' /\ DeadPoisoned' /\ BatchReady' /\ Verified'
    BY <1>1 DEF IdleHasNone, Retired, DeadPoisoned, BatchReady, Verified
  <1>5. OnlyVerifiedKeys' /\ NothingLost' /\ SummaryIsTheBest'
    BY <1>1 DEF OnlyVerifiedKeys, NothingLost, InFlight, Own, SummaryIsTheBest
  <1>6. KeysAccounted'
    BY <1>1 DEF KeysAccounted, At
  <1> QED
    BY <1>2, <1>3, <1>4, <1>5, <1>6

(* Once every thread is joined no key is on its way, so that the best is   *)
(* as good as any key seen, and every local count was published.           *)
LEMMA JoinedIsSettled ==
  ASSUME HInv, ~poisoned, \A t \in Thread : Joined(t), NEW k \in seen
  PROVE  ZerosOf[k] <= BestZeros
  <1> USE DEF HInv
  <1>1. \A t \in Thread : hit[t] = None /\ pc[t] \in {"idle", "dead"}
    BY DEF Joined, Retired, IdleHasNone, DeadPoisoned, At, HybridTypeOK
  <1>2. \A w \in Worker : drawn[w] = None
    BY HybridAssumption DEF Joined, Retired, DeadPoisoned, At
  <1>3. hits = {}
    BY HybridAssumption DEF Joined, Retired, DeadPoisoned, At
  <1>4. k \in Key /\ Own(k) # None /\ k # None
    BY OwnIsHit, NoneIsNoHit DEF HybridTypeOK
  <1>5. ~InFlight(k)
    BY <1>1, <1>2, <1>3, <1>4 DEF InFlight
  <1>6. best_zeros = BestZeros
    BY <1>1 DEF IInv, BestAgrees, At
  <1> QED
    BY <1>5, <1>6 DEF NothingLost

LEMMA SummariseHInv ==
  ASSUME HInv, exited = "running", Summarise
  PROVE  HInv'
  <1> USE DEF HInv
  <1>1. /\ \A t \in Thread : Joined(t)
        /\ IF poisoned THEN exited' = "panic" /\ UNCHANGED summary
                       ELSE exited' = "ok" /\ summary' = best
        /\ UNCHANGED <<sharedVars, local, drawn, finished, base, threshold,
                       hits, interrupted, mined, seen>>
    BY DEF Summarise
  <1>2. IInv'
    BY <1>1, PlatformIInv
  <1>3. HybridTypeOK'
    BY <1>1, <1>2 DEF IInv, TypeOK, HybridTypeOK
  <1>4. IdleHasNone' /\ Retired' /\ DeadPoisoned' /\ BatchReady' /\ Verified'
    BY <1>1 DEF IdleHasNone, Retired, DeadPoisoned, BatchReady, Verified,
                sharedVars
  <1>5. OnlyVerifiedKeys' /\ NothingLost'
    BY <1>1 DEF OnlyVerifiedKeys, NothingLost, InFlight, Own, sharedVars
  <1>6. SummaryIsTheBest'
    BY <1>1, JoinedIsSettled DEF SummaryIsTheBest, BestZeros, Zeros, sharedVars
  <1>7. KeysAccounted'
    <2>1. ASSUME \A w \in Worker : ~At(w, "dead")
          PROVE  cpu_keys = mined
      <3>1. \A w \in Worker : local[w] = 0
        BY <1>1, <2>1, HybridAssumption DEF Joined, Retired
      <3>2. local = [w \in Worker |-> 0]
        BY <3>1 DEF HybridTypeOK
      <3>3. SumFunction(local) = 0
        BY <3>2, SumOfZeros, HybridAssumption
      <3> QED
        BY <3>3 DEF KeysAccounted, IInv, TypeOK
    <2> QED
      BY <1>1, <2>1 DEF KeysAccounted, At, sharedVars
  <1> QED
    BY <1>2, <1>3, <1>4, <1>5, <1>6, <1>7

----------------------------------------------------------------------------
LEMMA NextHInv == HInv /\ [HybridNext]_vars => HInv'
  <1> SUFFICES ASSUME HInv, [HybridNext]_vars PROVE HInv'
    OBVIOUS
  <1>1. ASSUME exited = "running", NEW w \in Worker, WorkerStep(w) PROVE HInv'
    BY <1>1, WorkerDrawsHInv, WorkerComparesHInv, WorkerStopsHInv
    DEF WorkerStep
  <1>2. ASSUME exited = "running", GpuStep PROVE HInv'
    BY <1>2, GpuPicksThresholdHInv, GpuDispatchesHInv, GpuPanicsHInv,
       GpuProcessesHitHInv, GpuStopsHInv DEF GpuStep
  <1>3. CASE UNCHANGED vars \/ Ended
    <2>1. CASE Ended
      BY <2>1, PlatformHInv
    <2>2. CASE UNCHANGED vars
      <3> USE <2>2 DEF HInv, vars, driverVars
      <3>1. IInv'
        BY PlatformIInv
      <3>2. HybridTypeOK'
        BY <3>1 DEF IInv, HybridTypeOK
      <3>3. IdleHasNone' /\ Retired' /\ DeadPoisoned' /\ BatchReady' /\ Verified'
        BY DEF IdleHasNone, Retired, DeadPoisoned, BatchReady, Verified,
               sharedVars
      <3>4. OnlyVerifiedKeys' /\ NothingLost' /\ SummaryIsTheBest'
        BY DEF OnlyVerifiedKeys, NothingLost, InFlight, Own, SummaryIsTheBest,
               sharedVars
      <3>5. KeysAccounted'
        BY DEF KeysAccounted, At, sharedVars
      <3> QED
        BY <3>1, <3>2, <3>3, <3>4, <3>5
    <2> QED
      BY <1>3, <2>1, <2>2
  <1>4. ASSUME Running PROVE HInv'
    BY <1>1, <1>2, <1>4, ReportingHInv, PlatformHInv, SummariseHInv DEF Running
  <1> QED
    BY <1>3, <1>4 DEF HybridNext

(* The engines around report_hit keep both invariants.                     *)
THEOREM HybridInvariance == HybridSpec => []HInv
  BY InitHInv, NextHInv, PTL DEF HybridSpec

(* Every variable of the hybrid miner keeps its type: a local count stays  *)
(* below the flush limit and the batch counter wraps in time.              *)
THEOREM HybridTypeCorrect == HybridSpec => []HybridTypeOK
  BY HybridInvariance, PTL DEF HInv

(* No key seen is lost between its discovery and report_hit.               *)
THEOREM NothingEverLost == HybridSpec => []NothingLost
  BY HybridInvariance, PTL DEF HInv

(* The wallet of the summary is as good as any key seen.                   *)
THEOREM SummaryAlwaysTheBest == HybridSpec => []SummaryIsTheBest
  BY HybridInvariance, PTL DEF HInv

(* No wrong record of a kernel is kept, written or printed.                *)
THEOREM AlwaysVerified == HybridSpec => []OnlyVerifiedKeys
  BY HybridInvariance, PTL DEF HInv

(* Every key drawn is counted once, and all of them at a normal exit.      *)
THEOREM KeysAlwaysAccounted == HybridSpec => []KeysAccounted
  BY HybridInvariance, PTL DEF HInv

(* What MinerShared shows of report_hit under any callers holds under the  *)
(* engines: atomic and wallet agree, the lines are ordered, the target     *)
(* stops the search and a settled best is the last line.                   *)
THEOREM FunnelStaysSound ==
  HybridSpec => [](BestAgrees /\ LinesOrdered /\ TargetStops /\ BestIsLastLine)
  <1>1. HInv => BestAgrees /\ LinesOrdered /\ TargetStops /\ BestIsLastLine
    <2> SUFFICES ASSUME IInv
                 PROVE  BestAgrees /\ LinesOrdered /\ TargetStops /\ BestIsLastLine
      BY DEF HInv
    <2>1. BestAgrees /\ LinesOrdered /\ BestIsLastLine
      BY DEF IInv
    <2>2. TargetStops
      BY SharedAssumption DEF IInv, Mutex, Stopped, TargetStops, InCritical
    <2> QED
      BY <2>1, <2>2
  <1> QED
    BY <1>1, HybridInvariance, PTL

----------------------------------------------------------------------------
(* Refinement: only a step inside report_hit moves the tracker.            *)
LEMMA EnginesLeaveTracker ==
  ASSUME HInv, [HybridNext]_vars, \A t \in Thread : ~Reporting(t)
  PROVE  /\ UNCHANGED <<best, file>>
         /\ \A u \in Thread : At(u, "write_line")' <=> At(u, "write_line")
  <1> USE DEF HInv
  <1>0. pc \in [Thread -> Steps]
    BY DEF IInv, TypeOK
  <1>1. ASSUME NEW w \in Worker, WorkerCompares(w)
        PROVE  /\ UNCHANGED <<best, file>>
               /\ \A u \in Thread : At(u, "write_line")' <=> At(u, "write_line")
    BY <1>0, <1>1
    DEF WorkerCompares, ReportIfBetter, report_hit, Goto, At, searchVars
  <1>2. ASSUME GpuProcessesHit
        PROVE  /\ UNCHANGED <<best, file>>
               /\ \A u \in Thread : At(u, "write_line")' <=> At(u, "write_line")
    BY <1>0, <1>2
    DEF GpuProcessesHit, ReportIfBetter, report_hit, Goto, At, searchVars,
        sharedVars
  <1>3. ASSUME GpuPanics
        PROVE  /\ UNCHANGED <<best, file>>
               /\ \A u \in Thread : At(u, "write_line")' <=> At(u, "write_line")
    BY <1>0, <1>3 DEF GpuPanics, Goto, At, searchVars
  <1>4. ASSUME NEW w \in Worker, WorkerDraws(w) \/ WorkerStops(w)
        PROVE  UNCHANGED <<best, file, pc>>
    BY <1>4 DEF WorkerDraws, WorkerStops, searchVars
  <1>5. ASSUME \/ GpuPicksThreshold \/ GpuDispatches \/ GpuStops
               \/ CtrlC \/ OutputBreaks \/ Summarise \/ Ended \/ UNCHANGED vars
        PROVE  UNCHANGED <<best, file, pc>>
    BY <1>5 DEF GpuPicksThreshold, GpuDispatches, GpuStops, CtrlC, OutputBreaks,
       StdoutBreaks, Summarise, Ended, vars, sharedVars, searchVars
  <1>6. \/ \E w \in Worker : WorkerStep(w)
        \/ GpuStep \/ CtrlC \/ OutputBreaks \/ Summarise \/ Ended
        \/ UNCHANGED vars
    BY DEF HybridNext, Running
  <1> QED
    BY <1>1, <1>2, <1>3, <1>4, <1>5, <1>6 DEF WorkerStep, GpuStep, At

LEMMA HybridTrackerNext ==
  HInv /\ [HybridNext]_vars => [Tracker!Next]_(Tracker!trackerVars)
  <1> SUFFICES ASSUME HInv, [HybridNext]_vars
               PROVE  [Tracker!Next]_(Tracker!trackerVars)
    OBVIOUS
  <1>1. CASE \E t \in Thread : Reporting(t)
    <2>1. Next
      BY <1>1 DEF Reporting, Next
    <2> QED
      BY <2>1, TrackerNext DEF HInv
  <1>2. CASE \A t \in Thread : ~Reporting(t)
    BY <1>2, EnginesLeaveTracker DEF Tracker!trackerVars
  <1> QED
    BY <1>1, <1>2

(* The hybrid miner as a whole implements the atomic tracker of the best.  *)
THEOREM HybridImplements == HybridSpec => ImplementsTracker
  <1>1. HybridInit => Tracker!Init
    BY TrackerInit DEF HybridInit
  <1> QED
    BY <1>1, HybridTrackerNext, HybridInvariance, PTL
    DEF HybridSpec, ImplementsTracker, Tracker!Spec

=============================================================================
