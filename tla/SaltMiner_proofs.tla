-------------------------- MODULE SaltMiner_proofs --------------------------
(***************************************************************************)
(* Proofs about a salt-mining mode for any grid, any addresses, any size   *)
(* of batch and buffer, any command lines and any faults.  IInv is the     *)
(* inductive invariant: what the hits of a batch that are not processed    *)
(* yet stand for, and how far the counter has come.                        *)
(***************************************************************************)
EXTENDS SaltMiner, FiniteSetTheorems, SequenceTheorems, TLAPS

(* A hit is the own record of a salt of a batch, or a stray.               *)
HitsScanned ==
  \A h \in hits : h \in strays \/ \E s \in scanned : h = Own(s)

(* The best and the total are up to date with the file.                    *)
FileBelow ==
  \A i \in DOMAIN file : file[i].zeros <= best /\ file[i].total <= total

Interesting(s) == ZerosOf[s] >= target \/ ZerosOf[s] >= GPU_FLOOR

(* A salt worth a report is matched by the best or waits among the hits.   *)
Pending ==
  exited \in {"running", "ok"} =>
    \A s \in seen :
      Interesting(s) => best >= ZerosOf[s] \/ Own(s) \in hits

(* Every hit of a batch is processed before the loop goes on.              *)
TopIsClear == pc = "top" => hits = {}

(* While the driver runs, a best that reaches the target has stopped it.   *)
StopsAtTarget == exited = "running" /\ best >= target => stop

(* Until the counter wraps, the salts scanned are those below it.          *)
Progress ==
  \/ total >= MaxTotal
  \/ scanned = Salt
  \/ /\ scanned = GpuThread \X (0 .. base - 1)
     /\ total = Cardinality(GpuThread) * base

IInv ==
  /\ TypeOK
  /\ HitsScanned
  /\ FileBelow
  /\ LinesTrue
  /\ Pending
  /\ TopIsClear
  /\ StopsAtTarget
  /\ Progress

----------------------------------------------------------------------------
(* The arguments: a mode runs only with a target validate_target accepts.  *)
LEMMA MiningTarget ==
  ASSUME NEW name, NEW positional, NEW reveal
  PROVE  \/ Mining(name, positional, reveal) = Usage
         \/ Mining(name, positional, reveal).target \in 1 .. 40
  <1> DEFINE k == IF positional = <<>> THEN 8 ELSE Number[positional[1]]
             sound == /\ positional = <<>> \/ positional[1] \in DOMAIN Number
                      /\ validate_target(k)
  <1>1. Mining(name, positional, reveal)
          = IF sound THEN [mode |-> name, target |-> k, reveal |-> reveal]
                     ELSE Usage
    BY DEF Mining
  <1>2. ASSUME sound PROVE k \in 1 .. 40
    <2>1. k \in Nat
      BY <1>2, CommandLineAssumption DEF Range
    <2>2. validate_target(k)
      BY <1>2
    <2> HIDE DEF k
    <2> QED
      BY <2>1, <2>2 DEF validate_target, MAX_LEADING_ZERO_NIBBLES
  <1> HIDE DEF k, sound
  <1>3. CASE sound
    BY <1>1, <1>2, <1>3
  <1>4. CASE ~sound
    BY <1>1, <1>4
  <1> QED
    BY <1>3, <1>4

LEMMA ArgumentsTarget ==
  ASSUME NEW args
  PROVE  gpu_main(args) = Usage \/ gpu_main(args).target \in 1 .. 40
  BY MiningTarget DEF gpu_main

LEMMA ArgumentsMode ==
  ASSUME NEW args, gpu_main(args) # Usage
  PROVE  gpu_main(args).mode \in
           {"keys", "create2", "create3", "createx", "create2tag"}
  <1> DEFINE positional == SelectSeq(Read(args), LAMBDA a : a \notin Flag)
             reveal == "--reveal" \in Range(Read(args))
  <1>1. gpu_main(args) =
          IF Range(Read(args)) \cap UnknownFlag # {} \/ Mode(args) = "usage"
            THEN Usage ELSE Mining(Mode(args), positional, reveal)
    BY DEF gpu_main
  <1> HIDE DEF positional, reveal
  <1>2. /\ Mode(args) # "usage"
        /\ gpu_main(args) = Mining(Mode(args), positional, reveal)
    BY <1>1
  <1>3. gpu_main(args).mode = Mode(args)
    BY <1>2 DEF Mining
  <1>4. Mode(args) \in {"usage", "keys", "create2", "create3", "createx", "create2tag"}
    BY DEF Mode
  <1> QED
    BY <1>2, <1>3, <1>4

LEMMA InitIInv == Init => IInv
  <1> SUFFICES ASSUME Init PROVE IInv
    OBVIOUS
  <1>1. PICK args \in Arguments :
          /\ mode = gpu_main(args).mode
          /\ target = gpu_main(args).target
          /\ exited = IF gpu_main(args) = Usage THEN "usage" ELSE "running"
    BY DEF Init
  <1>2. /\ best = 0 /\ base = 0 /\ total = 0 /\ hits = {} /\ pc = "top"
        /\ report_due = FALSE /\ file = <<>> /\ stop = FALSE
        /\ broken = FALSE /\ interrupted = FALSE
        /\ scanned = {} /\ seen = {} /\ strays = {}
    BY DEF Init
  <1>3. /\ exited \in {"running", "usage"}
        /\ mode \in IF exited = "usage" THEN {"usage"}
                    ELSE {"create2", "create3", "createx", "create2tag"}
        /\ target \in IF exited = "usage" THEN {0} ELSE 1 .. 40
    <2>1. CASE gpu_main(args) = Usage
      BY <1>1, <2>1 DEF Usage
    <2>2. CASE gpu_main(args) # Usage
      <3>1. gpu_main(args).target \in 1 .. 40
        BY <2>2, ArgumentsTarget
      <3>2. gpu_main(args).mode \in {"create2", "create3", "createx", "create2tag"}
        BY <2>2, ArgumentsMode, SaltAssumption
      <3> QED
        BY <1>1, <2>2, <3>1, <3>2
    <2> QED
      BY <2>1, <2>2
  <1>4. TypeOK
    <2>1. /\ base \in 0 .. CounterSpace - 1
          /\ file \in Seq([total : Nat, address : Salt, zeros : Nat, salt : Salt])
      BY <1>2, SaltAssumption
    <2> QED
      BY <1>2, <1>3, <2>1 DEF TypeOK
  <1>5. HitsScanned /\ FileBelow /\ LinesTrue /\ Pending /\ TopIsClear
    BY <1>2 DEF HitsScanned, FileBelow, LinesTrue, Pending, TopIsClear
  <1>6. StopsAtTarget
    BY <1>2, <1>3 DEF StopsAtTarget
  <1>7. Progress
    <2>1. scanned = GpuThread \X (0 .. base - 1)
      BY <1>2
    <2>2. Cardinality(GpuThread) \in Nat
      BY SaltAssumption, FS_CardinalityType
    <2> QED
      BY <1>2, <2>1, <2>2 DEF Progress
  <1> QED
    BY <1>4, <1>5, <1>6, <1>7 DEF IInv

----------------------------------------------------------------------------
(* Arithmetic of the counter.                                              *)
LEMMA Modulo ==
  ASSUME NEW n \in Nat \ {0}, NEW a \in Nat
  PROVE  /\ a % n \in 0 .. n - 1
         /\ a < n => a % n = a
  OBVIOUS

LEMMA BatchInSalt ==
  ASSUME base \in 0 .. CounterSpace - 1
  PROVE  Batch \subseteq Salt
  <1>1. \A i \in 0 .. ITERS - 1 : (base + i) % CounterSpace \in 0 .. CounterSpace - 1
    <2> TAKE i \in 0 .. ITERS - 1
    <2>1. base + i \in Nat /\ CounterSpace \in Nat \ {0}
      BY SaltAssumption
    <2> QED
      BY <2>1, Modulo
  <1> QED
    BY <1>1 DEF Batch, Salt

(* A batch takes the counter forward, or it completes the circle.          *)
LEMMA BatchGoesOn ==
  ASSUME base \in 0 .. CounterSpace - 1,
         scanned = GpuThread \X (0 .. base - 1)
  PROVE  \/ scanned \cup Batch = Salt
         \/ /\ NextBase = base + ITERS
            /\ scanned \cup Batch = GpuThread \X (0 .. base + ITERS - 1)
  <1>0. /\ base \in Nat /\ ITERS \in Nat \ {0} /\ CounterSpace \in Nat \ {0}
        /\ base < CounterSpace
    BY SaltAssumption
  <1>1. ASSUME NEW c \in base .. base + ITERS - 1, c < CounterSpace, NEW t \in GpuThread
        PROVE  <<t, c>> \in Batch
    <2>1. c - base \in 0 .. ITERS - 1 /\ base + (c - base) = c /\ c \in Nat
      BY <1>0, <1>1
    <2>2. c % CounterSpace = c
      BY <1>0, <1>1, <2>1, Modulo
    <2> QED
      BY <2>1, <2>2 DEF Batch
  <1>2. CASE base + ITERS < CounterSpace
    <2>1. NextBase = base + ITERS
      <3>1. base + ITERS \in Nat
        BY <1>0
      <3> QED
        BY <1>0, <1>2, <3>1, Modulo DEF NextBase
    <2>2. Batch \subseteq GpuThread \X (base .. base + ITERS - 1)
      <3>1. \A i \in 0 .. ITERS - 1 :
              (base + i) % CounterSpace \in base .. base + ITERS - 1
        <4> TAKE i \in 0 .. ITERS - 1
        <4>1. base + i \in Nat /\ base + i < CounterSpace
          BY <1>0, <1>2
        <4>2. (base + i) % CounterSpace = base + i
          BY <1>0, <4>1, Modulo
        <4> QED
          BY <1>0, <4>2
      <3> QED
        BY <3>1 DEF Batch
    <2>3. GpuThread \X (base .. base + ITERS - 1) \subseteq Batch
      <3>1. \A c \in base .. base + ITERS - 1 : c < CounterSpace
        BY <1>0, <1>2
      <3> QED
        BY <1>1, <3>1
    <2>4. (0 .. base - 1) \cup (base .. base + ITERS - 1) = 0 .. base + ITERS - 1
      BY <1>0
    <2> QED
      BY <2>1, <2>2, <2>3, <2>4
  <1>3. CASE ~(base + ITERS < CounterSpace)
    <2>1. scanned \subseteq Salt /\ Batch \subseteq Salt
      BY <1>0, BatchInSalt DEF Salt
    <2>2. ASSUME NEW t \in GpuThread, NEW c \in 0 .. CounterSpace - 1
          PROVE  <<t, c>> \in scanned \cup Batch
      <3>1. CASE c < base
        BY <1>0, <3>1
      <3>2. CASE c >= base
        <4>1. c \in base .. base + ITERS - 1 /\ c < CounterSpace
          BY <1>0, <1>3, <3>2
        <4> QED
          BY <1>1, <4>1
      <3> QED
        BY <1>0, <3>1, <3>2
    <2>3. Salt \subseteq scanned \cup Batch
      BY <2>2 DEF Salt
    <2> QED
      BY <2>1, <2>3
  <1> QED
    BY <1>2, <1>3

----------------------------------------------------------------------------
(* A sound answer has the record of each salt worth a report, or the best  *)
(* is as good; every answer is of records.                                 *)
LEMMA OwnIsHit ==
  ASSUME NEW s \in Salt
  PROVE  Own(s) \in Hit
  BY SaltAssumption DEF Own, Hit

LEMMA QualifyingInBatch ==
  ASSUME TypeOK
  PROVE  Qualifying \subseteq Batch /\ Batch \subseteq Salt
  BY BatchInSalt DEF Qualifying, TypeOK

LEMMA PromisedHas ==
  ASSUME TypeOK, NEW out \in Promised
  PROVE  /\ out \subseteq {Own(s) : s \in Qualifying}
         /\ ~Saturated =>
              \A s \in Batch :
                Interesting(s) => best >= ZerosOf[s] \/ Own(s) \in out
  <1>1. Qualifying \subseteq Batch /\ Batch \subseteq Salt
    BY QualifyingInBatch
  <1>2. PICK kept \in SUBSET Qualifying :
          /\ ~Saturated => kept = Qualifying
          /\ out = {Own(s) : s \in kept}
    BY DEF Promised
  <1>3. ASSUME ~Saturated, NEW s \in Batch, Interesting(s), ~(best >= ZerosOf[s])
        PROVE  Own(s) \in out
    <2>1. /\ ZerosOf[s] \in Nat /\ best \in Nat /\ GPU_FLOOR \in Nat
          /\ target \in Nat
      BY <1>1, SaltAssumption DEF TypeOK
    <2>2. ZerosOf[s] >= c2_threshold(best)
      BY <1>3, <2>1 DEF Interesting, c2_threshold
    <2> QED
      BY <1>2, <1>3, <2>2 DEF Qualifying
  <1> QED
    BY <1>2, <1>3

LEMMA AnswersAreHits ==
  ASSUME TypeOK, NEW out \in Promised \cup Miscomputed \cup Killed
  PROVE  out \subseteq Hit
  <1>1. {Own(s) : s \in Qualifying} \subseteq Hit
    BY QualifyingInBatch, OwnIsHit
  <1>2. CASE out \in Promised
    BY <1>1, <1>2, PromisedHas
  <1>3. CASE out \in Miscomputed
    <2>1. PICK h \in WrongRecords, kept \in UNION {SUBSET answer : answer \in Promised} :
            out = kept \cup {h}
      BY <1>3 DEF Miscomputed
    <2>2. PICK answer \in Promised : kept \subseteq answer
      BY <2>1
    <2>3. answer \subseteq Hit
      BY <1>1, PromisedHas
    <2> QED
      BY <2>1, <2>2, <2>3, SaltAssumption
  <1>4. CASE out \in Killed
    <2> DEFINE records == UNION {Torn(s) : s \in Qualifying}
    <2>1. records \subseteq Hit
      <3> SUFFICES ASSUME NEW s \in Qualifying
                   PROVE  Torn(s) \subseteq Hit
        OBVIOUS
      <3>1. {Own(s)} \cup Memory \subseteq Hit
        BY QualifyingInBatch, OwnIsHit, SaltAssumption
      <3>2. ASSUME NEW a \in Hit, NEW b \in Hit, NEW c \in Hit
            PROVE  [salt |-> a.salt, address |-> b.address, zeros |-> c.zeros] \in Hit
        BY DEF Hit
      <3> QED
        BY <3>1, <3>2 DEF Torn
    <2>2. PICK list \in UNION {[1 .. k -> records] : k \in 0 .. MAX_HITS} :
            out = Range(list)
      BY <1>4 DEF Killed
    <2>3. PICK k \in 0 .. MAX_HITS : list \in [1 .. k -> records]
      BY <2>2
    <2> QED
      BY <2>1, <2>2, <2>3 DEF Range
  <1> QED
    BY <1>2, <1>3, <1>4

LEMMA LineType ==
  ASSUME TypeOK, NEW i \in DOMAIN file
  PROVE  /\ file[i].total \in Nat /\ file[i].zeros \in Nat
         /\ file[i].salt \in Salt /\ file[i].address \in Salt
  <1> DEFINE Line == [total : Nat, address : Salt, zeros : Nat, salt : Salt]
  <1>1. file[i] \in Line
    <2>1. file \in Seq(Line)
      BY DEF TypeOK
    <2> HIDE DEF Line
    <2> QED
      BY <2>1
  <1> QED
    BY <1>1

(* A dispatch, whatever it returned: what was seen is matched or among the *)
(* hits, since the driver is through with those of the last batch.         *)
LEMMA TurnIInv ==
  ASSUME IInv, exited = "running", Dispatch \/ KernelErrs \/ KilledUnnoticed
  PROVE  IInv'
  <1> USE DEF IInv
  <1>0. Advance /\ hits' \in Promised \cup Miscomputed \cup Killed
    BY DEF Dispatch, KernelErrs, KilledUnnoticed
  <1>1. /\ pc = "top" /\ hits = {} /\ pc' = "batch"
        /\ base' = NextBase
        /\ total' = IF total < MaxTotal THEN total + Cardinality(GpuThread) * ITERS
                                        ELSE total
        /\ scanned' = scanned \cup Batch
        /\ strays' = strays \cup (hits' \ {Own(s) : s \in Qualifying})
        /\ UNCHANGED <<mode, target, best, report_due, file, stop, broken,
                       interrupted, exited>>
    BY <1>0 DEF Advance, process, run, TopIsClear
  <1>2. /\ Cardinality(GpuThread) \in Nat /\ ITERS \in Nat /\ total \in Nat
        /\ MaxTotal \in Nat /\ base \in 0 .. CounterSpace - 1 /\ base \in Nat
    BY SaltAssumption, FS_CardinalityType DEF TypeOK
  <1>3. /\ Cardinality(GpuThread) * ITERS \in Nat
        /\ Cardinality(GpuThread) * (base + ITERS)
             = Cardinality(GpuThread) * base + Cardinality(GpuThread) * ITERS
    BY <1>2
  <1>4. total' \in Nat /\ total <= total'
    BY <1>1, <1>2, <1>3
  <1>5. hits' \subseteq Hit /\ strays' \subseteq Hit
    BY <1>0, <1>1, AnswersAreHits DEF TypeOK
  <1>12. Qualifying \subseteq Batch /\ Batch \subseteq Salt
    BY QualifyingInBatch
  <1>13. /\ seen' \subseteq scanned'
         /\ \A s \in seen' :
              Interesting(s) => best >= ZerosOf[s] \/ Own(s) \in hits'
    <2>1. \A s \in seen : Interesting(s) => best >= ZerosOf[s]
      BY <1>1 DEF Pending
    <2>2. CASE Dispatch
      <3>1. hits' \in Promised /\ seen' = IF Saturated THEN seen ELSE seen \cup Batch
        BY <2>2 DEF Dispatch
      <3>2. ~Saturated => \A s \in Batch :
              Interesting(s) => best >= ZerosOf[s] \/ Own(s) \in hits'
        BY <3>1, PromisedHas
      <3> QED
        BY <1>1, <2>1, <3>1, <3>2 DEF TypeOK
    <2>3. CASE KernelErrs \/ KilledUnnoticed
      <3>1. seen' = seen
        BY <2>3 DEF KernelErrs, KilledUnnoticed
      <3> QED
        BY <1>1, <2>1, <3>1 DEF TypeOK
    <2> QED
      BY <2>2, <2>3
  <1>6. TypeOK'
    <2>1. base' \in 0 .. CounterSpace - 1
      BY <1>1, <1>2, SaltAssumption, Modulo DEF NextBase
    <2>2. scanned' \subseteq Salt
      BY <1>1, <1>12 DEF TypeOK
    <2> QED
      BY <1>1, <1>4, <1>5, <1>13, <2>1, <2>2 DEF TypeOK
  <1>7. HitsScanned' /\ TopIsClear'
    <2>1. ASSUME NEW h \in hits', h \notin strays'
          PROVE  \E s \in scanned' : h = Own(s)
      BY <1>1, <1>12, <2>1
    <2>2. TopIsClear'
      BY <1>1 DEF TopIsClear
    <2> QED
      BY <2>1, <2>2 DEF HitsScanned, Own
  <1>8. FileBelow'
    BY <1>1, <1>2, <1>4, LineType DEF FileBelow
  <1>9. LinesTrue' /\ StopsAtTarget'
    BY <1>1 DEF LinesTrue, RightLine, Record, StopsAtTarget
  <1>10. Pending'
    BY <1>1, <1>13 DEF Pending, Interesting, Own
  <1>11. Progress'
    <2>1. CASE total >= MaxTotal
      BY <1>1, <1>2, <2>1 DEF Progress
    <2>2. CASE scanned = Salt
      BY <1>1, <1>2, <2>2, BatchInSalt DEF Progress
    <2>3. CASE /\ total < MaxTotal
               /\ scanned = GpuThread \X (0 .. base - 1)
               /\ total = Cardinality(GpuThread) * base
      BY <1>1, <1>2, <1>3, <2>3, BatchGoesOn DEF Progress
    <2> QED
      BY <1>2, <2>1, <2>2, <2>3 DEF Progress
  <1> QED
    BY <1>6, <1>7, <1>8, <1>9, <1>10, <1>11

(* A new best is on top of the lines, and no hit is forgotten.             *)
LEMMA ProcessHitIInv ==
  ASSUME IInv, exited = "running", ProcessHit
  PROVE  IInv'
  <1> USE DEF IInv
  <1>1. PICK h \in hits :
          /\ hits' = hits \ {h}
          /\ \/ /\ ~verify_create2(h)
                /\ exited' = "fatal"
                /\ UNCHANGED <<best, file, stop>>
             \/ /\ verify_create2(h)
                /\ IsNewBest(h)
                /\ RecordBest(h)
             \/ /\ verify_create2(h)
                /\ ~IsNewBest(h)
                /\ UNCHANGED <<best, file, stop, exited>>
    BY DEF ProcessHit
  <1>2. pc = "batch" /\ UNCHANGED <<base, total, pc, report_due, mode, target,
                                    broken, interrupted, scanned, seen, strays>>
    BY DEF ProcessHit, process, run, history
  <1>3. /\ h \in Hit /\ h.salt \in Salt /\ h.address \in Salt
        /\ h.zeros \in Nat /\ best \in Nat /\ total \in Nat /\ target \in Nat
        /\ target \in 1 .. 40
    <2>1. h \in Hit /\ best \in Nat /\ total \in Nat /\ target \in 1 .. 40
      BY DEF TypeOK
    <2>2. h.salt \in Salt /\ h.address \in Salt /\ h.zeros \in Nat
      BY <2>1 DEF Hit
    <2> QED
      BY <2>1, <2>2
  <1>4. HitsScanned' /\ TopIsClear' /\ Progress'
    BY <1>1, <1>2 DEF HitsScanned, TopIsClear, Progress, Own
  <1>5. CASE ~verify_create2(h)
    <2>1. exited' = "fatal" /\ UNCHANGED <<best, file, stop>>
      BY <1>1, <1>5
    <2>2. TypeOK'
      BY <1>1, <1>2, <1>3, <2>1 DEF TypeOK
    <2>3. FileBelow' /\ LinesTrue' /\ Pending' /\ StopsAtTarget'
      BY <1>2, <2>1 DEF FileBelow, LinesTrue, RightLine, Record, Pending, StopsAtTarget
    <2> QED
      BY <1>4, <2>2, <2>3
  <1>6. CASE verify_create2(h) /\ ~IsNewBest(h)
    <2>1. UNCHANGED <<best, file, stop, exited>>
      BY <1>1, <1>6
    <2>2. TypeOK'
      BY <1>1, <1>2, <1>3, <2>1 DEF TypeOK
    <2>3. FileBelow' /\ LinesTrue' /\ StopsAtTarget'
      BY <1>2, <2>1 DEF FileBelow, LinesTrue, RightLine, Record, StopsAtTarget
    <2>4. Pending'
      <3>1. \A s : h = Own(s) => best >= ZerosOf[s]
        BY <1>3, <1>6 DEF IsNewBest, Own
      <3> QED
        BY <1>1, <1>2, <2>1, <3>1 DEF Pending, Interesting, Own
    <2> QED
      BY <1>4, <2>2, <2>3, <2>4
  <1>7. CASE verify_create2(h) /\ IsNewBest(h)
    <2> DEFINE l == [total |-> total, address |-> h.address, zeros |-> h.zeros,
                    salt |-> h.salt]
    <2>1. /\ best' = h.zeros
          /\ file' = Append(file, l) \/ UNCHANGED file
          /\ exited' = IF broken THEN "panic" ELSE exited
          /\ stop' = (stop \/ (~broken /\ ReachesTarget(h)))
      BY <1>1, <1>7 DEF RecordBest
    <2>2. /\ l \in [total : Nat, address : Salt, zeros : Nat, salt : Salt]
          /\ file \in Seq([total : Nat, address : Salt, zeros : Nat, salt : Salt])
          /\ l.total = total /\ l.zeros = best' /\ l.address = l.salt
          /\ best < best' /\ best' \in Nat
      <3>1. h.address = h.salt /\ best < h.zeros
        BY <1>3, <1>7 DEF verify_create2, IsNewBest
      <3>2. file \in Seq([total : Nat, address : Salt, zeros : Nat, salt : Salt])
        BY DEF TypeOK
      <3> QED
        BY <1>3, <2>1, <3>1, <3>2
    <2>10. \/ l.salt \in scanned /\ l.zeros = ZerosOf[l.salt]
           \/ Record(l) \in strays
      <3>1. Record(l) = h
        BY <1>3 DEF Record, Hit
      <3>2. CASE h \in strays
        BY <3>1, <3>2
      <3>3. CASE \E s \in scanned : h = Own(s)
        BY <3>3 DEF Own
      <3> QED
        BY <3>2, <3>3 DEF HitsScanned
    <2> HIDE DEF l
    <2>3. /\ stop' \in BOOLEAN /\ exited' \in {"running", "panic"}
          /\ broken \in BOOLEAN
      BY <2>1 DEF TypeOK
    <2>4. TypeOK'
      <3> DEFINE Line == [total : Nat, address : Salt, zeros : Nat, salt : Salt]
      <3>1. file' \in Seq(Line)
        <4>1. file \in Seq(Line) /\ l \in Line
          BY <2>2
        <4> HIDE DEF Line
        <4> QED
          BY <2>1, <4>1
      <3> QED
        BY <1>1, <1>2, <1>3, <2>2, <2>3, <3>1 DEF TypeOK
    <2>5. Pending'
      <3>1. \A s : h = Own(s) => best' = ZerosOf[s]
        BY <2>1 DEF Own
      <3>2. \A s \in seen : ZerosOf[s] \in Nat
        BY SaltAssumption DEF TypeOK
      <3> QED
        BY <1>1, <1>2, <1>3, <2>2, <2>3, <3>1, <3>2
        DEF Pending, Interesting, Own
    <2>6. StopsAtTarget'
      BY <1>2, <2>1 DEF StopsAtTarget, ReachesTarget
    <2>7. \A i \in DOMAIN file : /\ file[i].zeros \in Nat /\ file[i].zeros < best'
                                 /\ file[i].total \in Nat /\ file[i].total <= total
      BY <1>3, <2>2, LineType DEF FileBelow
    <2>8. CASE UNCHANGED file
      <3>1. FileBelow' /\ LinesTrue'
        BY <1>2, <1>3, <2>2, <2>7, <2>8 DEF FileBelow, LinesTrue, RightLine, Record
      <3> QED
        BY <1>4, <2>4, <2>5, <2>6, <3>1
    <2>9. CASE file' = Append(file, l)
      <3> DEFINE n == Len(file)
      <3>1. /\ n \in Nat /\ DOMAIN file = 1 .. n
            /\ DOMAIN file' = 1 .. n + 1
            /\ file'[n + 1] = l
            /\ \A i \in 1 .. n : file'[i] = file[i]
        BY <2>2, <2>9
      <3> HIDE DEF n
      <3>2. FileBelow'
        BY <1>2, <1>3, <2>2, <2>7, <3>1 DEF FileBelow
      <3>3. ASSUME NEW i \in DOMAIN file'
            PROVE  (file[i].address = file[i].salt /\ RightLine(file[i]))'
        <4>1. CASE i \in DOMAIN file
          BY <1>2, <3>1, <4>1 DEF LinesTrue, RightLine, Record
        <4>2. CASE i = n + 1
          <5>1. file'[i] = l
            BY <3>1, <4>2
          <5> QED
            BY <1>2, <2>2, <2>10, <5>1 DEF RightLine, Record
        <4> QED
          BY <3>1, <3>3, <4>1, <4>2
      <3>4. ASSUME NEW i \in DOMAIN file', NEW j \in DOMAIN file', i < j
            PROVE  file'[i].zeros < file'[j].zeros /\ file'[i].total <= file'[j].total
        <4>1. i \in DOMAIN file /\ file'[i] = file[i]
          BY <3>1, <3>4
        <4>2. CASE j \in DOMAIN file
          BY <3>1, <3>4, <4>1, <4>2 DEF LinesTrue
        <4>3. CASE j = n + 1
          BY <2>2, <2>7, <3>1, <4>1, <4>3
        <4> QED
          BY <3>1, <4>2, <4>3
      <3>5. LinesTrue'
        BY <3>3, <3>4 DEF LinesTrue, RightLine, Record
      <3> QED
        BY <1>4, <2>4, <2>5, <2>6, <3>2, <3>5
    <2> QED
      BY <2>1, <2>8, <2>9
  <1> QED
    BY <1>5, <1>6, <1>7

(* What the rest of the program does leaves the lines, the best and the    *)
(* salts alone, and clears stop never.                                     *)
LEMMA OthersIInv ==
  ASSUME IInv, exited = "running",
         \/ GpuPanics \/ EndBatch \/ Leave
         \/ CtrlC \/ Clock \/ StdoutBreaks
  PROVE  IInv'
  <1> USE DEF IInv
  <1> DEFINE Others == /\ stop' \in BOOLEAN /\ (stop => stop')
                       /\ broken' \in BOOLEAN /\ interrupted' \in BOOLEAN
                       /\ report_due' \in BOOLEAN
                       /\ exited' \in {"running", "panic", "ok"}
                       /\ pc' = pc \/ (pc' = "top" /\ hits = {})
  <1>0. UNCHANGED <<mode, target, best, base, total, hits, file, scanned, seen,
                    strays>>
    BY DEF GpuPanics, EndBatch, Leave, CtrlC, Clock, StdoutBreaks, process, run,
           history
  <1>1. Others
    <2>1. {report_due, stop, broken, interrupted} \subseteq BOOLEAN
      BY DEF TypeOK
    <2>2. CASE GpuPanics
      BY <2>1, <2>2 DEF GpuPanics, process
    <2>3. CASE EndBatch
      BY <2>1, <2>3 DEF EndBatch, ReportRate, process
    <2>4. CASE Leave
      BY <2>1, <2>4 DEF Leave, process
    <2>5. CASE CtrlC
      BY <2>1, <2>5 DEF CtrlC
    <2>6. CASE Clock
      BY <2>1, <2>6 DEF Clock, process
    <2>7. CASE StdoutBreaks
      BY <2>1, <2>7 DEF StdoutBreaks
    <2> QED
      BY <2>2, <2>3, <2>4, <2>5, <2>6, <2>7
  <1>2. TypeOK'
    BY <1>0, <1>1 DEF TypeOK
  <1>3. HitsScanned' /\ FileBelow' /\ LinesTrue' /\ Progress'
    BY <1>0 DEF HitsScanned, FileBelow, LinesTrue, RightLine, Record, Progress, Own
  <1>4. Pending' /\ TopIsClear' /\ StopsAtTarget'
    BY <1>0, <1>1 DEF Pending, Interesting, Own, TopIsClear, StopsAtTarget
  <1> QED
    BY <1>2, <1>3, <1>4

LEMMA NextIInv == IInv /\ [Next]_vars => IInv'
  <1> SUFFICES ASSUME IInv, [Next]_vars PROVE IInv'
    OBVIOUS
  <1>1. CASE exited = "running" /\ (Dispatch \/ KernelErrs \/ KilledUnnoticed)
    BY <1>1, TurnIInv
  <1>2. CASE exited = "running" /\ ProcessHit
    BY <1>2, ProcessHitIInv
  <1>3. CASE /\ exited = "running"
             /\ \/ GpuPanics \/ EndBatch \/ Leave
                \/ CtrlC \/ Clock \/ StdoutBreaks
    BY <1>3, OthersIInv
  <1>4. CASE UNCHANGED vars
    BY <1>4 DEF vars, run, history, IInv, TypeOK, HitsScanned, FileBelow,
                LinesTrue, RightLine, Record, Pending, Interesting, Own,
                TopIsClear, StopsAtTarget, Progress
  <1> QED
    BY <1>1, <1>2, <1>3, <1>4 DEF Next, Running, Driver, Ended

----------------------------------------------------------------------------
(* The invariant, of every behaviour.                                      *)
THEOREM Invariance == Spec => []IInv
  <1>1. Init => IInv
    BY InitIInv
  <1>2. IInv /\ [Next]_vars => IInv'
    BY NextIInv
  <1> QED
    BY <1>1, <1>2, PTL DEF Spec

(* Every variable of a salt-mining mode keeps its type: a mode runs only   *)
(* with a target from 1 to 40, and the counter stays below CounterSpace.   *)
THEOREM TypeCorrect == Spec => []TypeOK
  <1>1. IInv => TypeOK
    BY DEF IInv
  <1> QED
    BY <1>1, Invariance, PTL

(* A line has the address of its salt and beats the lines before it in the *)
(* zeros it tells, whatever the kernel answers; it is untrue only if the   *)
(* record it was made from already was.                                    *)
THEOREM LinesAlwaysTrue == Spec => []LinesTrue
  <1>1. IInv => LinesTrue
    BY DEF IInv
  <1> QED
    BY <1>1, Invariance, PTL

(* Between batches the best is as good as every salt worth a report of the *)
(* batches that ended without a fault and that the buffer had room for: no *)
(* rising threshold, floor or early stop loses it.                         *)
THEOREM NothingEverLost == Spec => []NothingLost
  <1>1. IInv => NothingLost
    BY DEF IInv, Pending, TopIsClear, Interesting, NothingLost
  <1> QED
    BY <1>1, Invariance, PTL

(* The total that the lines and the summary give counts distinct salts     *)
(* until the counter wraps.                                                *)
THEOREM TotalAlwaysHonest == Spec => []TotalIsHonest
  <1>1. ASSUME IInv PROVE TotalIsHonest
    <2>1. /\ base \in Nat /\ total \in Nat /\ MaxTotal \in Nat
      BY <1>1, SaltAssumption DEF IInv, TypeOK
    <2>2. CASE /\ scanned = GpuThread \X (0 .. base - 1)
               /\ total = Cardinality(GpuThread) * base
      <3>1. /\ IsFiniteSet(0 .. base - 1)
            /\ Cardinality(0 .. base - 1) = base
        BY <2>1, FS_Interval
      <3>2. Cardinality(scanned) = Cardinality(GpuThread) * base
        BY <2>2, <3>1, SaltAssumption, FS_Product
      <3> QED
        BY <2>2, <3>2 DEF TotalIsHonest
    <2> QED
      BY <1>1, <2>2 DEF IInv, Progress, TotalIsHonest
  <1> QED
    BY <1>1, Invariance, PTL

(* No batch is dispatched once the best has reached the target: the stop   *)
(* stored while the hits are processed is seen before the next batch.      *)
THEOREM NoBatchAfterTargetEver == Spec => NoBatchAfterTarget
  <1>1. IInv /\ [Next]_vars => [scanned' # scanned => best < target]_vars
    <2> SUFFICES ASSUME IInv, [Next]_vars, scanned' # scanned
                 PROVE  best < target
      OBVIOUS
    <2>1. exited = "running" /\ ~stop
      BY DEF Next, Running, Driver, Ended, vars, history, Dispatch, KernelErrs,
             KilledUnnoticed, Advance, GpuPanics, ProcessHit, EndBatch, Leave,
             CtrlC, Clock, StdoutBreaks
    <2>2. best \in Nat /\ target \in 1 .. 40
      <3>1. TypeOK /\ exited # "usage"
        BY <2>1 DEF IInv
      <3> QED
        BY ONLY <3>1 DEF TypeOK
    <2> QED
      BY <2>1, <2>2 DEF IInv, StopsAtTarget
  <1> QED
    BY <1>1, Invariance, PTL DEF Spec, NoBatchAfterTarget

=============================================================================
