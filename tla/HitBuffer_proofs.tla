-------------------------- MODULE HitBuffer_proofs --------------------------
(***************************************************************************)
(* Proofs about a dispatch, for any grid, batch, buffer and thresholds.    *)
(* IInv is the inductive invariant: below the counter every slot holds the *)
(* whole record of a candidate that qualifies, or is being written by the  *)
(* one thread that claimed it.                                             *)
(***************************************************************************)
EXTENDS HitBuffer, SequenceTheorems, TLAPS

Writing(t) == pc[t] # "scan"

WholeRecords == {Whole(c) : c \in Qualifying}

(* A thread that writes is not past its last candidate, and that one       *)
(* qualifies.                                                              *)
Busy == \A t \in GpuThread : Writing(t) => /\ it[t] < ITERS
                                           /\ Cand(t) \in Qualifying

(* A slot that is being written was handed out.                            *)
Claimed == \A t \in GpuThread : Writing(t) => slot[t] < hit_count

Filled ==
  \A s \in Slot : s < hit_count =>
    \/ hits[s] \in WholeRecords
    \/ \E t \in GpuThread : Writing(t) /\ slot[t] = s

(* The fields a thread has written hold its candidate.                     *)
Written ==
  \A t \in GpuThread :
    /\ pc[t] \in {"address", "zeros"} => hits[slot[t]].key = Cand(t)
    /\ pc[t] = "zeros" => hits[slot[t]].address = Cand(t)

Buffer == status # "error" => Claimed /\ Filled /\ Written

Finished == status = "completed" => AllThreadsDone

(* What the host returns is whole if it looks at the status.               *)
Checked == StatusChecked => NothingTorn /\ (host = "waiting" => report = <<>>)

IInv ==
  /\ TypeOK
  /\ Busy
  /\ SlotsDisjoint
  /\ Buffer
  /\ Finished
  /\ Checked

(* A second invariant, which rests on the first: the buffer as a ledger of *)
(* the candidates that were scanned.  A slot is settled once its record is *)
(* whole, a candidate is scanned once its thread is past it.               *)
Settled(s) ==
  s < hit_count /\ \A t \in GpuThread : Writing(t) => slot[t] # s
Scanned(c) == c[2] < it[c[1]]

AllEntered ==
  \A c \in Qualifying : Scanned(c) =>
    hit_count > MAX_HITS \/ \E s \in Slot : Settled(s) /\ hits[s] = Whole(c)

OnlyScanned ==
  \A s \in Slot : Settled(s) =>
    \E c \in Qualifying : Scanned(c) /\ hits[s] = Whole(c)

NoneTwice ==
  \A r, s \in Slot : Settled(r) /\ Settled(s) /\ hits[r] = hits[s] => r = s

Ledger == status # "error" => AllEntered /\ OnlyScanned /\ NoneTwice

(* What the host returned stays true: nothing runs after completion.       *)
Answered ==
  StatusChecked /\ host = "returned" => status = "completed" /\ NothingMissed

Accounts == Ledger /\ Answered

----------------------------------------------------------------------------
LEMMA BlankType == Blank \in Record
  BY DEF Blank, Record, Field

LEMMA CandType ==
  ASSUME TypeOK, NEW t \in GpuThread, it[t] < ITERS
  PROVE  Cand(t) \in Candidate
  BY BufferAssumption DEF TypeOK, Cand, Candidate

LEMMA ZerosType == \A c \in Candidate : ZerosOf[c] \in Nat
  BY BufferAssumption

----------------------------------------------------------------------------
LEMMA InitIInv == Init => IInv
  <1> SUFFICES ASSUME Init PROVE IInv
    OBVIOUS
  <1>1. TypeOK
    <2>1. hits \in [Slot -> Record] /\ report \in Seq(Record)
      BY BlankType DEF Init
    <2>2. it \in [GpuThread -> 0 .. ITERS] /\ slot \in [GpuThread -> Slot]
      BY BufferAssumption DEF Init, Slot
    <2> QED
      BY <2>1, <2>2 DEF Init, TypeOK
  <1>2. Busy /\ SlotsDisjoint /\ Finished
    BY DEF Init, Busy, Writing, SlotsDisjoint, Finished
  <1>3. Buffer
    <2>1. Filled
      BY DEF Init, Filled, Slot
    <2> QED
      BY <2>1 DEF Init, Buffer, Claimed, Writing, Written
  <1>4. Checked
    BY DEF Init, Checked, NothingTorn, Reported
  <1> QED
    BY <1>1, <1>2, <1>3, <1>4 DEF IInv

(* What a step leaves alone when it touches neither host nor report.       *)
LEMMA CheckedKept ==
  ASSUME Checked, UNCHANGED <<threshold, host, report>>
  PROVE  Checked'
  BY DEF Checked, NothingTorn, Reported, Qualifying

LEMMA PassKeeps ==
  ASSUME IInv, NEW t \in GpuThread, Pass(t)
  PROVE  IInv'
  <1> USE DEF IInv
  <1>1. it' = [it EXCEPT ![t] = it[t] + 1] /\ pc[t] = "scan" /\ it[t] < ITERS
    BY DEF Pass, Scanning, NextCandidate
  <1>2. UNCHANGED <<threshold, pc, slot, hit_count, hits, status, host, report>>
    BY DEF Pass
  <1>3. TypeOK'
    <2>1. it[t] + 1 \in 0 .. ITERS
      BY <1>1, BufferAssumption DEF TypeOK
    <2> QED
      BY <1>1, <1>2, <2>1 DEF TypeOK
  <1>4. \A u \in GpuThread : Writing(u) => it'[u] = it[u] /\ Cand(u)' = Cand(u)
    BY <1>1 DEF Writing, Cand, TypeOK
  <1>5. Busy'
    BY <1>2, <1>4 DEF Busy, Writing, Qualifying
  <1>6. SlotsDisjoint' /\ Finished'
    BY <1>1, <1>2 DEF SlotsDisjoint, Finished, Pass, Scanning
  <1>7. Buffer'
    <2>1. Claimed => Claimed'
      BY <1>2 DEF Claimed, Writing
    <2>2. Filled => Filled'
      BY <1>2 DEF Filled, Writing, WholeRecords, Qualifying
    <2>3. Written => Written'
      BY <1>2, <1>4 DEF Written, Writing
    <2> QED
      BY <1>2, <2>1, <2>2, <2>3 DEF Buffer
  <1> QED
    BY <1>2, <1>3, <1>5, <1>6, <1>7, CheckedKept

LEMMA ClaimKeeps ==
  ASSUME IInv, NEW t \in GpuThread, Claim(t)
  PROVE  IInv'
  <1> USE DEF IInv
  <1>1. /\ status = "running" /\ pc[t] = "scan" /\ it[t] < ITERS
        /\ hit_count' = hit_count + 1
        /\ UNCHANGED <<threshold, hits, status, host, report>>
    BY DEF Claim, Scanning, Bumped
  <1>2. Cand(t) \in Qualifying
    <2>1. Cand(t) \in Candidate
      BY <1>1, CandType
    <2> QED
      BY <2>1, BufferAssumption DEF Claim, BelowThreshold, Qualifying, TypeOK
  <1>3. Claimed /\ Filled /\ Written
    BY <1>1 DEF Buffer
  <1>4. Finished' /\ Checked'
    BY <1>1, CheckedKept DEF Finished
  <1>5. CASE hit_count >= MAX_HITS
    <2>1. it' = [it EXCEPT ![t] = it[t] + 1] /\ UNCHANGED <<pc, slot>>
      BY <1>5 DEF Claim, Full, NextCandidate
    <2>2. TypeOK'
      <3>1. it[t] + 1 \in 0 .. ITERS
        BY <1>1, BufferAssumption DEF TypeOK
      <3> QED
        BY <1>1, <2>1, <3>1 DEF TypeOK
    <2>3. \A u \in GpuThread : Writing(u) => it'[u] = it[u] /\ Cand(u)' = Cand(u)
      BY <1>1, <2>1 DEF Writing, Cand, TypeOK
    <2>4. Busy' /\ SlotsDisjoint'
      BY <1>1, <2>1, <2>3 DEF Busy, Writing, Qualifying, SlotsDisjoint
    <2>5. Claimed'
      BY <1>1, <1>3, <2>1, BufferAssumption DEF Claimed, Writing, TypeOK, Slot
    <2>6. Filled'
      <3>1. \A s \in Slot : s < hit_count
        BY <1>5, BufferAssumption DEF TypeOK, Slot
      <3>2. WholeRecords' = WholeRecords
        BY <1>1 DEF WholeRecords, Qualifying
      <3> QED
        BY <1>1, <1>3, <2>1, <3>1, <3>2 DEF Filled, Writing
    <2>7. Written'
      BY <1>1, <1>3, <2>1, <2>3 DEF Written, Writing
    <2> QED
      BY <1>4, <2>2, <2>4, <2>5, <2>6, <2>7 DEF Buffer
  <1>6. CASE hit_count < MAX_HITS
    <2>1. /\ slot' = [slot EXCEPT ![t] = hit_count]
          /\ pc' = [pc EXCEPT ![t] = "key"]
          /\ it' = it
      BY <1>6, BufferAssumption DEF Claim, Full, TypeOK
    <2>2. hit_count \in Slot
      BY <1>6, BufferAssumption DEF TypeOK, Slot
    <2>3. TypeOK'
      BY <1>1, <2>1, <2>2 DEF TypeOK, Field
    <2>4. \A u \in GpuThread : Cand(u)' = Cand(u)
      BY <2>1 DEF Cand
    <2>5. Busy'
      BY <1>1, <1>2, <2>1, <2>4 DEF Busy, Writing, Qualifying, TypeOK
    <2>6. SlotsDisjoint'
      <3>1. \A u \in GpuThread : u # t /\ pc'[u] # "scan" => slot'[u] < hit_count
        BY <1>3, <2>1 DEF Claimed, Writing, TypeOK
      <3>2. \A u, v \in GpuThread :
              u # t /\ v # t /\ pc'[u] # "scan" /\ pc'[v] # "scan"
                /\ slot'[u] = slot'[v] => u = v
        BY <2>1 DEF SlotsDisjoint, TypeOK
      <3>3. slot'[t] = hit_count
        BY <2>1 DEF TypeOK
      <3> QED
        BY <3>1, <3>2, <3>3 DEF SlotsDisjoint, TypeOK
    <2>7. Claimed'
      BY <1>1, <1>3, <2>1, BufferAssumption DEF Claimed, Writing, TypeOK, Slot
    <2>8. Filled'
      <3> SUFFICES ASSUME NEW s \in Slot, s < hit_count'
                   PROVE  \/ hits'[s] \in WholeRecords'
                          \/ \E u \in GpuThread : Writing(u)' /\ slot'[u] = s
        BY DEF Filled
      <3>1. CASE s = hit_count
        BY <2>1, <3>1 DEF Writing, TypeOK
      <3>2. CASE s < hit_count
        <4>1. CASE hits[s] \in WholeRecords
          BY <1>1, <4>1 DEF WholeRecords, Qualifying
        <4>2. CASE \E u \in GpuThread : Writing(u) /\ slot[u] = s
          <5>1. PICK u \in GpuThread : Writing(u) /\ slot[u] = s
            BY <4>2
          <5>2. u # t
            BY <1>1, <5>1 DEF Writing
          <5> QED
            BY <2>1, <5>1, <5>2 DEF Writing, TypeOK
        <4> QED
          BY <1>3, <3>2, <4>1, <4>2 DEF Filled
      <3> QED
        BY <1>1, <3>1, <3>2 DEF TypeOK, Slot
    <2>9. Written'
      BY <1>1, <1>3, <2>1, <2>4 DEF Written, TypeOK
    <2> QED
      BY <1>4, <2>3, <2>5, <2>6, <2>7, <2>8, <2>9 DEF Buffer
  <1> QED
    BY <1>5, <1>6, BufferAssumption DEF TypeOK

----------------------------------------------------------------------------
(* The three writes: nobody but t writes into the slot of t.               *)
LEMMA WriteKeeps ==
  ASSUME IInv, NEW t \in GpuThread, NEW f \in Field, NEW v,
         status = "running", pc[t] = f,
         f \in {"key", "address"} => v = Cand(t),
         f = "zeros" => v = ZerosOf[Cand(t)],
         Put(t, f, v),
         UNCHANGED <<threshold, slot, hit_count, status, host, report>>
  PROVE  /\ hits' \in [Slot -> Record]
         /\ hits'[slot[t]] = [hits[slot[t]] EXCEPT ![f] = v]
         /\ \A s \in Slot : s # slot[t] => hits'[s] = hits[s]
         /\ \A u \in GpuThread : u # t /\ Writing(u) => slot[u] # slot[t]
         /\ WholeRecords' = WholeRecords
         /\ Claimed /\ Filled /\ Written /\ Cand(t) \in Qualifying
         /\ it[t] < ITERS
         /\ Finished' /\ Checked'
  <1> USE DEF IInv
  <1>1. Writing(t) /\ it[t] < ITERS /\ Cand(t) \in Qualifying
    BY DEF Busy, Writing, Field
  <1>2. Cand(t) \in Candidate /\ ZerosOf[Cand(t)] \in Nat
    BY <1>1, CandType, ZerosType
  <1>3. /\ hits' \in [Slot -> Record]
        /\ hits'[slot[t]] = [hits[slot[t]] EXCEPT ![f] = v]
        /\ \A s \in Slot : s # slot[t] => hits'[s] = hits[s]
    <2>1. slot[t] \in Slot /\ hits \in [Slot -> Record] /\ hits[slot[t]] \in Record
      BY DEF TypeOK
    <2>2. hits' = [hits EXCEPT ![slot[t]] = [hits[slot[t]] EXCEPT ![f] = v]]
      BY DEF Put
    <2>3. [hits[slot[t]] EXCEPT ![f] = v] \in Record
      BY <1>2, <2>1 DEF Record, Field
    <2> QED
      BY <2>1, <2>2, <2>3
  <1>4. \A u \in GpuThread : u # t /\ Writing(u) => slot[u] # slot[t]
    BY <1>1 DEF SlotsDisjoint, Writing
  <1>5. WholeRecords' = WholeRecords
    BY DEF WholeRecords, Qualifying
  <1>6. Claimed /\ Filled /\ Written
    BY DEF Buffer
  <1>7. Finished' /\ Checked'
    BY CheckedKept DEF Finished
  <1> QED
    BY <1>1, <1>3, <1>4, <1>5, <1>6, <1>7

(* After the key or the address the thread goes on in the same record.     *)
LEMMA HalfWritten ==
  ASSUME IInv, NEW t \in GpuThread, NEW f \in {"key", "address"},
         NEW next \in Field, next = (IF f = "key" THEN "address" ELSE "zeros"),
         status = "running", pc[t] = f, Put(t, f, Cand(t)),
         pc' = [pc EXCEPT ![t] = next],
         UNCHANGED <<threshold, it, slot, hit_count, status, host, report>>
  PROVE  IInv'
  <1> USE DEF IInv
  <1>1. /\ hits' \in [Slot -> Record]
        /\ hits'[slot[t]] = [hits[slot[t]] EXCEPT ![f] = Cand(t)]
        /\ \A s \in Slot : s # slot[t] => hits'[s] = hits[s]
        /\ \A u \in GpuThread : u # t /\ Writing(u) => slot[u] # slot[t]
        /\ WholeRecords' = WholeRecords
        /\ Claimed /\ Filled /\ Written /\ Cand(t) \in Qualifying
        /\ it[t] < ITERS
        /\ Finished' /\ Checked'
    <2>1. f \in Field /\ f # "zeros"
      BY DEF Field
    <2> QED
      BY <2>1, WriteKeeps
  <1>2. TypeOK'
    BY <1>1 DEF TypeOK
  <1>3. \A u \in GpuThread : (Writing(u)' <=> Writing(u)) /\ Cand(u)' = Cand(u)
    BY DEF Writing, Cand, TypeOK, Field
  <1>4. Busy' /\ SlotsDisjoint' /\ Claimed'
    BY <1>1, <1>3 DEF Busy, SlotsDisjoint, Claimed, Qualifying, Writing
  <1>5. Filled'
    <2> SUFFICES ASSUME NEW s \in Slot, s < hit_count
                 PROVE  \/ hits'[s] \in WholeRecords
                        \/ \E u \in GpuThread : Writing(u) /\ slot[u] = s
      BY <1>1, <1>3 DEF Filled
    <2>1. CASE s = slot[t]
      BY <2>1 DEF Writing
    <2>2. CASE s # slot[t]
      BY <1>1, <2>2 DEF Filled
    <2> QED
      BY <2>1, <2>2
  <1>6. Written'
    <2> SUFFICES ASSUME NEW u \in GpuThread
                 PROVE  /\ pc'[u] \in {"address", "zeros"} => hits'[slot[u]].key = Cand(u)
                        /\ pc'[u] = "zeros" => hits'[slot[u]].address = Cand(u)
      BY <1>3 DEF Written
    <2>1. CASE u = t
      <3>1. hits[slot[t]] \in Record
        BY DEF TypeOK
      <3>2. CASE f = "key"
        BY <1>1, <2>1, <3>1, <3>2 DEF TypeOK, Record
      <3>3. CASE f = "address"
        BY <1>1, <2>1, <3>1, <3>3 DEF TypeOK, Record, Written
      <3> QED
        BY <3>2, <3>3
    <2>2. CASE u # t
      <3>1. pc'[u] = pc[u]
        BY <2>2 DEF TypeOK
      <3>2. CASE pc[u] = "scan"
        BY <3>1, <3>2
      <3>3. CASE pc[u] # "scan"
        <4>1. hits'[slot[u]] = hits[slot[u]]
          BY <1>1, <2>2, <3>3 DEF Writing, TypeOK
        <4> QED
          BY <1>1, <3>1, <4>1 DEF Written
      <3> QED
        BY <3>2, <3>3
    <2> QED
      BY <2>1, <2>2
  <1> QED
    BY <1>1, <1>2, <1>4, <1>5, <1>6 DEF Buffer

(* With the zeros the record is whole, and the thread scans on.            *)
LEMMA WriteZerosKeeps ==
  ASSUME IInv, NEW t \in GpuThread, WriteZeros(t)
  PROVE  IInv'
  <1> USE DEF IInv
  <1>1. /\ status = "running" /\ pc[t] = "zeros"
        /\ Put(t, "zeros", ZerosOf[Cand(t)])
        /\ pc' = [pc EXCEPT ![t] = "scan"]
        /\ it' = [it EXCEPT ![t] = it[t] + 1]
        /\ UNCHANGED <<threshold, slot, hit_count, status, host, report>>
    BY DEF WriteZeros, NextCandidate
  <1>2. /\ hits' \in [Slot -> Record]
        /\ hits'[slot[t]] = [hits[slot[t]] EXCEPT !["zeros"] = ZerosOf[Cand(t)]]
        /\ \A s \in Slot : s # slot[t] => hits'[s] = hits[s]
        /\ \A u \in GpuThread : u # t /\ Writing(u) => slot[u] # slot[t]
        /\ WholeRecords' = WholeRecords
        /\ Claimed /\ Filled /\ Written /\ Cand(t) \in Qualifying
        /\ it[t] < ITERS
        /\ Finished' /\ Checked'
    <2>1. "zeros" \in Field
      BY DEF Field
    <2> QED
      BY <1>1, <2>1, WriteKeeps
  <1>3. TypeOK'
    <2>1. it[t] + 1 \in 0 .. ITERS
      BY <1>2, BufferAssumption DEF TypeOK
    <2> QED
      BY <1>1, <1>2, <2>1 DEF TypeOK
  <1>4. \A u \in GpuThread :
          /\ Writing(u)' <=> (u # t /\ Writing(u))
          /\ u # t => pc'[u] = pc[u] /\ it'[u] = it[u] /\ Cand(u)' = Cand(u)
    BY <1>1 DEF Writing, Cand, TypeOK
  <1>5. Busy' /\ SlotsDisjoint' /\ Claimed'
    BY <1>1, <1>2, <1>4
       DEF Busy, SlotsDisjoint, Claimed, Qualifying, Writing
  <1>6. hits'[slot[t]] = Whole(Cand(t))
    <2>1. hits[slot[t]] \in Record
      BY DEF TypeOK
    <2>2. hits[slot[t]].key = Cand(t) /\ hits[slot[t]].address = Cand(t)
      BY <1>1, <1>2 DEF Written
    <2> QED
      BY <1>2, <2>1, <2>2 DEF Record, Whole
  <1>7. Filled'
    <2> SUFFICES ASSUME NEW s \in Slot, s < hit_count
                 PROVE  \/ hits'[s] \in WholeRecords
                        \/ \E u \in GpuThread : Writing(u)' /\ slot[u] = s
      BY <1>1, <1>2 DEF Filled
    <2>1. CASE s = slot[t]
      BY <1>2, <1>6, <2>1 DEF WholeRecords
    <2>2. CASE s # slot[t]
      BY <1>2, <1>4, <2>2 DEF Filled
    <2> QED
      BY <2>1, <2>2
  <1>8. Written'
    <2> SUFFICES ASSUME NEW u \in GpuThread, u # t, pc[u] # "scan"
                 PROVE  /\ pc[u] \in {"address", "zeros"} => hits'[slot[u]].key = Cand(u)
                        /\ pc[u] = "zeros" => hits'[slot[u]].address = Cand(u)
      BY <1>1, <1>4 DEF Written, TypeOK
    <2>1. hits'[slot[u]] = hits[slot[u]]
      BY <1>2 DEF Writing, TypeOK
    <2> QED
      BY <1>2, <2>1 DEF Written
  <1> QED
    BY <1>2, <1>3, <1>5, <1>7, <1>8 DEF Buffer

----------------------------------------------------------------------------
(* The command and the host                                                *)

LEMMA CompleteKeeps == ASSUME IInv, Complete PROVE IInv'
  <1> USE DEF IInv, Complete
  <1>1. TypeOK'
    BY DEF TypeOK
  <1>2. Busy' /\ SlotsDisjoint' /\ Finished'
    BY DEF Busy, Writing, Cand, Qualifying, SlotsDisjoint, Finished, AllThreadsDone
  <1>3. Buffer'
    BY DEF Buffer, Claimed, Filled, Written, Writing, Cand, WholeRecords, Qualifying
  <1>4. Checked'
    BY CheckedKept
  <1> QED
    BY <1>1, <1>2, <1>3, <1>4

LEMMA WatchdogKillsKeeps == ASSUME IInv, WatchdogKills PROVE IInv'
  <1> USE DEF IInv
  <1>1. /\ status' = "error"
        /\ hit_count' \in 0 .. hit_count
        /\ UNCHANGED <<threshold, it, pc, slot, host, report>>
    BY DEF WatchdogKills
  <1>2. hits' \in [Slot -> Record]
    <2>1. PICK kept \in SUBSET (Slot \X Field) :
            hits' = [s \in Slot |-> [f \in Field |->
                       IF <<s, f>> \in kept THEN hits[s][f] ELSE Unwritten]]
      BY DEF WatchdogKills
    <2>2. ASSUME NEW s \in Slot
          PROVE  [f \in Field |->
                    IF <<s, f>> \in kept THEN hits[s][f] ELSE Unwritten] \in Record
      <3>1. hits[s] \in Record
        BY DEF TypeOK
      <3> QED
        BY <3>1 DEF Record, Field
    <2> QED
      BY <2>1, <2>2
  <1>3. TypeOK'
    BY <1>1, <1>2 DEF TypeOK
  <1>4. Busy' /\ SlotsDisjoint' /\ Finished'
    BY <1>1 DEF Busy, Writing, Cand, Qualifying, SlotsDisjoint, Finished
  <1>5. Buffer' /\ Checked'
    BY <1>1, CheckedKept DEF Buffer
  <1> QED
    BY <1>3, <1>4, <1>5

LEMMA HostPanicsKeeps == ASSUME IInv, HostPanics PROVE IInv'
  <1> USE DEF IInv, HostPanics
  <1>1. TypeOK'
    BY DEF TypeOK
  <1>2. Busy' /\ SlotsDisjoint' /\ Finished'
    BY DEF Busy, Writing, Cand, Qualifying, SlotsDisjoint, Finished, AllThreadsDone
  <1>3. Buffer'
    BY DEF Buffer, Claimed, Filled, Written, Writing, Cand, WholeRecords, Qualifying
  <1>4. Checked'
    BY DEF Checked, NothingTorn, Reported, Qualifying
  <1> QED
    BY <1>1, <1>2, <1>3, <1>4

(* The command is complete, so no thread is writing any more, and every    *)
(* slot below the counter holds a whole record.                            *)
LEMMA HostReadsKeeps == ASSUME IInv, HostReads PROVE IInv'
  <1> USE DEF IInv
  <1>1. /\ host = "waiting" /\ host' = "returned" /\ status # "running"
        /\ ~StatusFailed
        /\ report' = [i \in 1 .. Readable(hit_count) |-> hits[i - 1]]
        /\ UNCHANGED <<threshold, it, pc, slot, hit_count, hits, status>>
    BY DEF HostReads
  <1>2. /\ Readable(hit_count) \in Nat
        /\ \A i \in 1 .. Readable(hit_count) : i - 1 \in Slot /\ i - 1 < hit_count
    BY BufferAssumption DEF Readable, TypeOK, Slot
  <1>3. TypeOK'
    <2>1. report' \in [1 .. Readable(hit_count) -> Record]
      BY <1>1, <1>2 DEF TypeOK
    <2>2. report' \in Seq(Record)
      BY <1>2, <2>1, SeqDef
    <2> QED
      BY <1>1, <2>2 DEF TypeOK
  <1>4. Busy' /\ SlotsDisjoint' /\ Finished'
    BY <1>1 DEF Busy, Writing, Cand, Qualifying, SlotsDisjoint, Finished, AllThreadsDone
  <1>5. Buffer'
    BY <1>1 DEF Buffer, Claimed, Filled, Written, Writing, Cand, WholeRecords,
                Qualifying
  <1>6. ASSUME StatusChecked PROVE NothingTorn'
    <2>1. status = "completed"
      BY <1>1, <1>6 DEF StatusFailed, TypeOK
    <2>2. \A t \in GpuThread : ~Writing(t)
      BY <2>1 DEF Finished, AllThreadsDone, Busy, TypeOK
    <2>3. \A s \in Slot : s < hit_count => hits[s] \in WholeRecords
      BY <2>1, <2>2 DEF Buffer, Filled
    <2>4. \A i \in DOMAIN report' : report'[i] \in WholeRecords
      BY <1>1, <1>2, <2>3
    <2>5. WholeRecords' = WholeRecords
      BY <1>1 DEF WholeRecords, Qualifying
    <2> QED
      BY <2>4, <2>5 DEF NothingTorn, Reported, WholeRecords
  <1>7. Checked'
    BY <1>1, <1>6 DEF Checked
  <1> QED
    BY <1>3, <1>4, <1>5, <1>7

LEMMA NextKeeps == IInv /\ [Next]_vars => IInv'
  <1> SUFFICES ASSUME IInv, [Next]_vars PROVE IInv'
    OBVIOUS
  <1>1. ASSUME NEW t \in GpuThread, GpuStep(t) PROVE IInv'
    <2>1. CASE Pass(t)
      BY <2>1, PassKeeps
    <2>2. CASE Claim(t)
      BY <2>2, ClaimKeeps
    <2>3. CASE WriteKey(t)
      BY <2>3, HalfWritten DEF WriteKey, Field
    <2>4. CASE WriteAddress(t)
      BY <2>4, HalfWritten DEF WriteAddress, Field
    <2>5. CASE WriteZeros(t)
      BY <2>5, WriteZerosKeeps
    <2> QED
      BY <1>1, <2>1, <2>2, <2>3, <2>4, <2>5 DEF GpuStep
  <1>2. CASE Host
    BY <1>2, CompleteKeeps, WatchdogKillsKeeps, HostPanicsKeeps, HostReadsKeeps
       DEF Host
  <1>3. CASE UNCHANGED vars
    <2> USE <1>3 DEF vars, IInv
    <2>1. TypeOK'
      BY DEF TypeOK
    <2>2. Busy' /\ SlotsDisjoint' /\ Finished'
      BY DEF Busy, Writing, Cand, Qualifying, SlotsDisjoint, Finished, AllThreadsDone
    <2>3. Buffer'
      BY DEF Buffer, Claimed, Filled, Written, Writing, Cand, WholeRecords, Qualifying
    <2>4. Checked'
      BY CheckedKept
    <2> QED
      BY <2>1, <2>2, <2>3, <2>4
  <1> QED
    BY <1>1, <1>2, <1>3 DEF Next, Done

LEMMA Invariance == Spec => []IInv
  BY InitIInv, NextKeeps, PTL DEF Spec

----------------------------------------------------------------------------
(* Every variable keeps its type: a slot claimed is one of the buffer, so  *)
(* that no thread writes past it (miner.metal:298).                        *)
THEOREM TypeCorrect == Spec => []TypeOK
  BY Invariance, PTL DEF IInv

(* No two threads of any grid ever write the same slot at a time.          *)
THEOREM SlotsAlwaysDisjoint == Spec => []SlotsDisjoint
  BY Invariance, PTL DEF IInv

(* A dispatch that goes through commit_and_wait returns whole records of   *)
(* qualifying candidates only, whatever the watchdog does.                 *)
THEOREM NeverTorn ==
  ASSUME StatusChecked
  PROVE  Spec => []NothingTorn
  <1>1. IInv => NothingTorn
    BY DEF IInv, Checked
  <1> QED
    BY <1>1, Invariance, PTL

----------------------------------------------------------------------------
(* The ledger: what a step keeps of it that settles no slot and changes no *)
(* settled one, when it enters the candidates it passes only as overflow.  *)
LEMMA LedgerKept ==
  ASSUME Ledger, status' # "error" => status # "error",
         threshold' = threshold,
         \A s \in Slot : Settled(s)' <=> Settled(s),
         \A s \in Slot : Settled(s) => hits'[s] = hits[s],
         \A c \in Qualifying : Scanned(c) => Scanned(c)',
         \A c \in Qualifying : Scanned(c)' => Scanned(c) \/ hit_count' > MAX_HITS,
         hit_count > MAX_HITS => hit_count' > MAX_HITS
  PROVE  Ledger'
  <1> SUFFICES ASSUME status' # "error" PROVE (AllEntered /\ OnlyScanned /\ NoneTwice)'
    BY DEF Ledger
  <1>1. AllEntered /\ OnlyScanned /\ NoneTwice
    BY DEF Ledger
  <1>2. Qualifying' = Qualifying
    BY DEF Qualifying
  <1>3. AllEntered'
    <2> SUFFICES ASSUME NEW c \in Qualifying, Scanned(c)', ~(hit_count' > MAX_HITS)
                 PROVE  \E s \in Slot : Settled(s)' /\ hits'[s] = Whole(c)
      BY <1>2 DEF AllEntered, Whole
    <2>1. PICK s \in Slot : Settled(s) /\ hits[s] = Whole(c)
      BY <1>1 DEF AllEntered
    <2> QED
      BY <2>1
  <1>4. OnlyScanned'
    <2> SUFFICES ASSUME NEW s \in Slot, Settled(s)
                 PROVE  \E c \in Qualifying : Scanned(c)' /\ hits'[s] = Whole(c)
      BY <1>2 DEF OnlyScanned, Whole
    <2> QED
      BY <1>1 DEF OnlyScanned
  <1>5. NoneTwice'
    BY <1>1 DEF NoneTwice
  <1> QED
    BY <1>3, <1>4, <1>5

(* A thread that goes on leaves one candidate behind.                      *)
LEMMA OneMoreScanned ==
  ASSUME TypeOK, NEW t \in GpuThread, it' = [it EXCEPT ![t] = it[t] + 1],
         NEW c \in Candidate
  PROVE  /\ Scanned(c) => Scanned(c)'
         /\ Scanned(c)' => Scanned(c) \/ c = Cand(t)
  <1>1. /\ c[1] \in GpuThread /\ c[2] \in Nat /\ c = <<c[1], c[2]>>
        /\ it[c[1]] \in Nat /\ it[t] \in Nat
    BY BufferAssumption DEF Candidate, TypeOK
  <1>2. it'[c[1]] = IF c[1] = t THEN it[t] + 1 ELSE it[c[1]]
    BY <1>1 DEF TypeOK
  <1>3. Scanned(c) => Scanned(c)'
    BY <1>1, <1>2 DEF Scanned
  <1>4. ASSUME Scanned(c)', ~Scanned(c) PROVE c = Cand(t)
    <2>1. c[1] = t /\ c[2] = it[t]
      BY <1>1, <1>2, <1>4 DEF Scanned
    <2> QED
      BY <1>1, <2>1 DEF Cand
  <1> QED
    BY <1>3, <1>4

LEMMA QualifyingType == Qualifying \subseteq Candidate
  BY DEF Qualifying

LEMMA WholeIsOneToOne ==
  ASSUME NEW c, NEW d, Whole(c) = Whole(d) PROVE c = d
  <1>1. Whole(c).key = c /\ Whole(d).key = d
    BY DEF Whole
  <1> QED
    BY <1>1

LEMMA PassEnters ==
  ASSUME IInv, Ledger, NEW t \in GpuThread, Pass(t)
  PROVE  Ledger'
  <1>1. /\ it' = [it EXCEPT ![t] = it[t] + 1]
        /\ UNCHANGED <<threshold, pc, slot, hit_count, hits, status>>
    BY DEF Pass, NextCandidate
  <1>2. Cand(t) \notin Qualifying
    <2>1. CASE Cand(t) \in OutOfRange
      BY <2>1 DEF Qualifying
    <2>2. CASE BelowThreshold(Cand(t))
      <3>1. threshold \in Nat
        BY BufferAssumption DEF IInv, TypeOK
      <3> QED
        BY <2>2, <3>1, ZerosType DEF BelowThreshold, Qualifying
    <2> QED
      BY <2>1, <2>2 DEF Pass
  <1>3. \A c \in Qualifying : Scanned(c)' <=> Scanned(c)
    BY <1>1, <1>2, OneMoreScanned, QualifyingType DEF IInv
  <1>4. \A s \in Slot : Settled(s)' <=> Settled(s)
    BY <1>1 DEF Settled, Writing
  <1> QED
    BY <1>1, <1>3, <1>4, LedgerKept

(* A claim past the end of the buffer loses its candidate, and the counter *)
(* says so; any other claim takes a slot that was not settled.             *)
LEMMA ClaimEnters ==
  ASSUME IInv, Ledger, NEW t \in GpuThread, Claim(t)
  PROVE  Ledger'
  <1>1. /\ status = "running" /\ pc[t] = "scan"
        /\ hit_count' = hit_count + 1
        /\ UNCHANGED <<threshold, hits, status>>
    BY DEF Claim, Scanning, Bumped
  <1>2. hit_count \in Nat /\ MAX_HITS \in Nat
    BY BufferAssumption DEF IInv, TypeOK
  <1>3. CASE hit_count >= MAX_HITS
    <2>1. it' = [it EXCEPT ![t] = it[t] + 1] /\ UNCHANGED <<pc, slot>>
      BY <1>3 DEF Claim, Full, NextCandidate
    <2>2. hit_count' > MAX_HITS
      BY <1>1, <1>2, <1>3
    <2>3. \A c \in Qualifying : Scanned(c) => Scanned(c)'
      BY <2>1, OneMoreScanned, QualifyingType DEF IInv
    <2>4. \A s \in Slot : s < hit_count /\ s < hit_count'
      BY <1>1, <1>2, <1>3 DEF Slot
    <2>5. \A s \in Slot : Settled(s)' <=> Settled(s)
      BY <2>1, <2>4 DEF Settled, Writing
    <2> QED
      BY <1>1, <2>2, <2>3, <2>5, LedgerKept
  <1>4. CASE hit_count < MAX_HITS
    <2>1. /\ slot' = [slot EXCEPT ![t] = hit_count]
          /\ pc' = [pc EXCEPT ![t] = "key"]
          /\ it' = it
      BY <1>2, <1>4 DEF Claim, Full
    <2>2. \A c \in Qualifying : Scanned(c)' <=> Scanned(c)
      BY <2>1 DEF Scanned
    <2>3. ASSUME NEW s \in Slot PROVE Settled(s)' <=> Settled(s)
      <3>1. /\ slot'[t] = hit_count /\ Writing(t)' /\ ~Writing(t)
            /\ \A u \in GpuThread : u # t => /\ slot'[u] = slot[u]
                                             /\ Writing(u)' <=> Writing(u)
        BY <1>1, <2>1 DEF IInv, TypeOK, Writing
      <3>2. s < hit_count' <=> s < hit_count \/ s = hit_count
        BY <1>1, <1>2 DEF Slot
      <3>3. CASE s = hit_count
        BY <1>2, <3>1, <3>3 DEF Settled
      <3>4. CASE s # hit_count
        BY <3>1, <3>2, <3>4 DEF Settled
      <3> QED
        BY <3>3, <3>4
    <2>4. hit_count > MAX_HITS => hit_count' > MAX_HITS
      BY <1>2, <1>4
    <2> QED
      BY <1>1, <2>2, <2>3, <2>4, LedgerKept
  <1> QED
    BY <1>2, <1>3, <1>4

(* A field that is not the last goes into a slot that is not settled.      *)
LEMMA HalfEnters ==
  ASSUME IInv, Ledger, NEW t \in GpuThread, WriteKey(t) \/ WriteAddress(t)
  PROVE  Ledger'
  <1>1. /\ pc[t] # "scan"
        /\ \E next \in Field : pc' = [pc EXCEPT ![t] = next]
        /\ UNCHANGED <<threshold, it, slot, hit_count, status>>
        /\ \E f \in Field : Put(t, f, Cand(t))
    BY DEF WriteKey, WriteAddress, Field
  <1>2. \A u \in GpuThread : Writing(u)' <=> Writing(u)
    BY <1>1 DEF IInv, TypeOK, Writing, Field
  <1>3. \A s \in Slot : Settled(s)' <=> Settled(s)
    BY <1>1, <1>2 DEF Settled
  <1>4. \A s \in Slot : Settled(s) => hits'[s] = hits[s]
    BY <1>1 DEF Settled, Writing, Put, IInv, TypeOK
  <1>5. \A c \in Qualifying : Scanned(c)' <=> Scanned(c)
    BY <1>1 DEF Scanned
  <1> QED
    BY <1>1, <1>3, <1>4, <1>5, LedgerKept

(* The last field settles the slot with the candidate the thread leaves.   *)
LEMMA WriteZerosEnters ==
  ASSUME IInv, Ledger, NEW t \in GpuThread, WriteZeros(t)
  PROVE  Ledger'
  <1>1. /\ status = "running" /\ pc[t] = "zeros"
        /\ Put(t, "zeros", ZerosOf[Cand(t)])
        /\ pc' = [pc EXCEPT ![t] = "scan"]
        /\ it' = [it EXCEPT ![t] = it[t] + 1]
        /\ UNCHANGED <<threshold, slot, hit_count, status, host, report>>
    BY DEF WriteZeros, NextCandidate
  <1>2. /\ hits'[slot[t]] = [hits[slot[t]] EXCEPT !["zeros"] = ZerosOf[Cand(t)]]
        /\ \A s \in Slot : s # slot[t] => hits'[s] = hits[s]
        /\ \A u \in GpuThread : u # t /\ Writing(u) => slot[u] # slot[t]
        /\ Claimed /\ Written /\ Cand(t) \in Qualifying
    <2>1. "zeros" \in Field
      BY DEF Field
    <2> QED
      BY <1>1, <2>1, WriteKeeps
  <1>3. slot[t] \in Slot /\ slot[t] < hit_count
    BY <1>1, <1>2 DEF IInv, TypeOK, Claimed, Writing
  <1>4. hits'[slot[t]] = Whole(Cand(t))
    <2>1. hits[slot[t]] \in Record
      BY <1>3 DEF IInv, TypeOK
    <2>2. hits[slot[t]].key = Cand(t) /\ hits[slot[t]].address = Cand(t)
      BY <1>1, <1>2 DEF Written
    <2> QED
      BY <1>2, <2>1, <2>2 DEF Record, Whole
  <1>5. \A u \in GpuThread : Writing(u)' <=> u # t /\ Writing(u)
    BY <1>1 DEF IInv, TypeOK, Writing
  <1>6. \A s \in Slot : Settled(s)' <=> Settled(s) \/ s = slot[t]
    BY <1>1, <1>2, <1>3, <1>5 DEF Settled, Writing
  <1>7. ~Settled(slot[t])
    BY <1>1 DEF Settled, Writing
  <1>8. \A c \in Qualifying : /\ Scanned(c) => Scanned(c)'
                              /\ Scanned(c)' => Scanned(c) \/ c = Cand(t)
    BY <1>1, OneMoreScanned, QualifyingType DEF IInv
  <1>9. \A c \in Qualifying : c = Cand(t) => Scanned(c)' /\ ~Scanned(c)
    <2>1. it[t] \in Nat /\ it'[t] = it[t] + 1
      BY <1>1, BufferAssumption DEF IInv, TypeOK
    <2>2. Cand(t)[1] = t /\ Cand(t)[2] = it[t]
      BY DEF Cand
    <2> QED
      BY <2>1, <2>2 DEF Scanned
  <1>10. Qualifying' = Qualifying
    BY <1>1 DEF Qualifying
  <1>11. AllEntered /\ OnlyScanned /\ NoneTwice
    BY <1>1 DEF Ledger
  <1>12. AllEntered'
    <2> SUFFICES ASSUME NEW c \in Qualifying, Scanned(c)', ~(hit_count > MAX_HITS)
                 PROVE  \E s \in Slot : Settled(s)' /\ hits'[s] = Whole(c)
      BY <1>1, <1>10 DEF AllEntered, Whole
    <2>1. CASE c = Cand(t)
      BY <1>3, <1>4, <1>6, <2>1
    <2>2. CASE Scanned(c)
      <3>1. PICK s \in Slot : Settled(s) /\ hits[s] = Whole(c)
        BY <1>11, <2>2 DEF AllEntered
      <3> QED
        BY <1>2, <1>6, <1>7, <3>1
    <2> QED
      BY <1>8, <2>1, <2>2
  <1>13. OnlyScanned'
    <2> SUFFICES ASSUME NEW s \in Slot, Settled(s)'
                 PROVE  \E c \in Qualifying : Scanned(c)' /\ hits'[s] = Whole(c)
      BY <1>10 DEF OnlyScanned, Whole
    <2>1. CASE s = slot[t]
      BY <1>2, <1>4, <1>9, <2>1
    <2>2. CASE s # slot[t]
      <3>1. Settled(s) /\ hits'[s] = hits[s]
        BY <1>2, <1>6, <2>2
      <3>2. PICK c \in Qualifying : Scanned(c) /\ hits[s] = Whole(c)
        BY <1>11, <3>1 DEF OnlyScanned
      <3>3. hits'[s] = Whole(c)
        BY <3>1, <3>2
      <3>4. Scanned(c)'
        BY <1>8, <3>2
      <3> QED
        BY <3>3, <3>4
    <2> QED
      BY <2>1, <2>2
  <1>14. NoneTwice'
    <2>1. ASSUME NEW s \in Slot, s # slot[t], Settled(s)
          PROVE  hits'[s] # Whole(Cand(t))
      <3>1. PICK c \in Qualifying : Scanned(c) /\ hits[s] = Whole(c)
        BY <1>11, <2>1 DEF OnlyScanned
      <3>2. c # Cand(t)
        BY <1>9, <3>1
      <3> QED
        BY <1>2, <2>1, <3>1, <3>2, WholeIsOneToOne
    <2> QED
      BY <1>2, <1>4, <1>6, <1>11, <2>1 DEF NoneTwice
  <1> QED
    BY <1>12, <1>13, <1>14 DEF Ledger

LEMMA LedgerStill ==
  ASSUME Ledger,
         \/ WatchdogKills
         \/ /\ UNCHANGED <<threshold, it, pc, slot, hit_count, hits>>
            /\ status' # "error" => status # "error"
  PROVE  Ledger'
  <1>1. CASE WatchdogKills
    BY <1>1 DEF WatchdogKills, Ledger
  <1>2. CASE /\ UNCHANGED <<threshold, it, pc, slot, hit_count, hits>>
             /\ status' # "error" => status # "error"
    <2>1. /\ \A s \in Slot : Settled(s)' <=> Settled(s)
          /\ \A c \in Qualifying : Scanned(c)' <=> Scanned(c)
      BY <1>2 DEF Settled, Scanned, Writing
    <2> QED
      BY <1>2, <2>1, LedgerKept
  <1> QED
    BY <1>1, <1>2

----------------------------------------------------------------------------
(* The answer: the command is complete, so every candidate is scanned and  *)
(* every slot below the counter is settled.                                *)
LEMMA AnswerIsSound ==
  ASSUME StatusChecked, IInv, Ledger, HostReads
  PROVE  /\ status = "completed"
         /\ report' \in Seq(WholeRecords)
         /\ \A i, j \in DOMAIN report' : report'[i] = report'[j] => i = j
         /\ \/ WholeRecords \subseteq {report'[i] : i \in DOMAIN report'}
            \/ hit_count > MAX_HITS /\ Len(report') = MAX_HITS
  <1> DEFINE n == Readable(hit_count)
  <1>1. /\ host = "waiting" /\ status # "running" /\ ~StatusFailed
        /\ report' = [i \in 1 .. n |-> hits[i - 1]]
    BY DEF HostReads
  <1>2. status = "completed"
    BY <1>1 DEF StatusFailed, IInv, TypeOK
  <1>3. \A t \in GpuThread : ~Writing(t) /\ it[t] = ITERS
    BY <1>2, BufferAssumption DEF IInv, Finished, AllThreadsDone, Busy, TypeOK
  <1>4. \A c \in Qualifying : Scanned(c)
    <2> SUFFICES ASSUME NEW c \in Candidate PROVE Scanned(c)
      BY QualifyingType
    <2>1. c[1] \in GpuThread /\ c[2] < ITERS
      BY BufferAssumption DEF Candidate
    <2> QED
      BY <1>3, <2>1 DEF Scanned
  <1>5. hit_count \in Nat /\ MAX_HITS \in Nat /\ n \in Nat
    BY BufferAssumption DEF IInv, TypeOK, Readable
  <1>6. \A s \in Slot : s < hit_count <=> Settled(s)
    BY <1>3 DEF Settled
  <1>7. \A i \in 1 .. n : i - 1 \in Slot /\ Settled(i - 1)
    <2>1. \A i \in 1 .. n : i - 1 \in Slot /\ i - 1 < hit_count
      BY <1>5 DEF Readable, Slot
    <2> QED
      BY <1>6, <2>1
  <1>8. \A s \in Slot : Settled(s) => s + 1 \in 1 .. n /\ (s + 1) - 1 = s
    BY <1>5, <1>6 DEF Slot, Readable
  <1>9. AllEntered /\ OnlyScanned /\ NoneTwice
    BY <1>2 DEF Ledger
  <1> HIDE DEF n
  <1>10. report' \in Seq(WholeRecords)
    <2>1. report' \in [1 .. n -> WholeRecords]
      BY <1>1, <1>7, <1>9 DEF OnlyScanned, WholeRecords
    <2> QED
      BY <1>5, <2>1, SeqDef
  <1>11. \A i, j \in DOMAIN report' : report'[i] = report'[j] => i = j
    <2> SUFFICES ASSUME NEW i \in 1 .. n, NEW j \in 1 .. n, hits[i - 1] = hits[j - 1]
                 PROVE  i = j
      BY <1>1
    <2>1. i - 1 = j - 1
      BY <1>7, <1>9 DEF NoneTwice
    <2> QED
      BY <1>5, <2>1
  <1>12. CASE hit_count > MAX_HITS
    <2>1. n = MAX_HITS
      BY <1>5, <1>12 DEF n, Readable
    <2>2. Len(report') = n
      BY <1>1, <1>5
    <2> QED
      BY <1>2, <1>10, <1>11, <1>12, <2>1, <2>2
  <1>13. CASE ~(hit_count > MAX_HITS)
    <2>1. ASSUME NEW c \in Qualifying
          PROVE  \E i \in DOMAIN report' : report'[i] = Whole(c)
      <3>1. PICK s \in Slot : Settled(s) /\ hits[s] = Whole(c)
        BY <1>4, <1>9, <1>13 DEF AllEntered
      <3>2. s + 1 \in DOMAIN report' /\ report'[s + 1] = hits[s]
        BY <1>1, <1>8, <3>1
      <3> QED
        BY <3>1, <3>2
    <2>2. WholeRecords \subseteq {report'[i] : i \in DOMAIN report'}
      BY <2>1 DEF WholeRecords
    <2> QED
      BY <1>2, <1>10, <1>11, <2>2
  <1> QED
    BY <1>12, <1>13

LEMMA HostReadsAnswers ==
  ASSUME IInv, Ledger, HostReads
  PROVE  Answered'
  <1> SUFFICES ASSUME StatusChecked
               PROVE  (status = "completed" /\ NothingMissed)'
    BY DEF Answered
  <1>1. UNCHANGED <<threshold, hit_count, status>>
    BY DEF HostReads
  <1>2. Qualifying' = Qualifying
    BY <1>1 DEF Qualifying
  <1> QED
    BY <1>1, <1>2, AnswerIsSound DEF NothingMissed, Reported, WholeRecords, Whole

(* After the answer nothing moves: every step but the host's needs a       *)
(* command that runs.                                                      *)
LEMMA AnsweredStays ==
  ASSUME Answered, [Next]_vars, ~HostReads
  PROVE  Answered'
  <1> SUFFICES ASSUME StatusChecked, host' = "returned"
               PROVE  (status = "completed" /\ NothingMissed)'
    BY DEF Answered
  <1>1. host = "returned"
    BY DEF Next, Host, Done, vars, GpuStep, Pass, Claim, WriteKey, WriteAddress,
           WriteZeros, Complete, WatchdogKills, HostPanics
  <1>2. status = "completed" /\ NothingMissed
    BY <1>1 DEF Answered
  <1>3. UNCHANGED vars
    BY <1>1, <1>2
    DEF Next, Host, Done, GpuStep, Pass, Claim, Scanning, WriteKey,
        WriteAddress, WriteZeros, Complete, WatchdogKills, HostPanics
  <1> QED
    BY <1>2, <1>3 DEF vars, NothingMissed, Qualifying, Reported

LEMMA InitAccounts == Init => Accounts
  <1> SUFFICES ASSUME Init PROVE Accounts
    OBVIOUS
  <1>1. \A s \in Slot : ~Settled(s)
    BY DEF Init, Settled, Slot
  <1>2. \A c \in Qualifying : ~Scanned(c)
    BY DEF Init, Scanned, Qualifying, Candidate
  <1> QED
    BY <1>1, <1>2
    DEF Accounts, Ledger, AllEntered, OnlyScanned, NoneTwice, Answered, Init

LEMMA NextAccounts == IInv /\ Accounts /\ [Next]_vars => Accounts'
  <1> SUFFICES ASSUME IInv, Accounts, [Next]_vars PROVE Accounts'
    OBVIOUS
  <1>0. Ledger /\ Answered
    BY DEF Accounts
  <1>1. ASSUME NEW t \in GpuThread, GpuStep(t) PROVE Ledger'
    BY <1>0, <1>1, PassEnters, ClaimEnters, HalfEnters, WriteZerosEnters
       DEF GpuStep
  <1>2. ASSUME Host \/ UNCHANGED vars PROVE Ledger'
    <2>1. \/ WatchdogKills
          \/ /\ UNCHANGED <<threshold, it, pc, slot, hit_count, hits>>
             /\ status' # "error" => status # "error"
      BY <1>2 DEF Host, Complete, HostPanics, HostReads, vars
    <2> QED
      BY <1>0, <2>1, LedgerStill
  <1>3. Ledger'
    BY <1>1, <1>2 DEF Next, Done
  <1>4. Answered'
    BY <1>0, HostReadsAnswers, AnsweredStays
  <1> QED
    BY <1>3, <1>4 DEF Accounts

(* The ledger is kept by every thread of the grid and by the host.         *)
THEOREM AccountsInvariance == Spec => [](IInv /\ Accounts)
  BY InitIInv, NextKeeps, InitAccounts, NextAccounts, PTL DEF Spec

(* A dispatch whose status is looked at misses no qualifying candidate     *)
(* unless its counter says that the buffer overflowed.                     *)
THEOREM NeverMissed ==
  ASSUME StatusChecked
  PROVE  Spec => []NothingMissed
  <1>1. Accounts => NothingMissed
    BY DEF Accounts, Answered, NothingMissed
  <1> QED
    BY <1>1, AccountsInvariance, PTL

----------------------------------------------------------------------------
(* Refinement: the host's read is the answer, its panic the failure, and   *)
(* whatever the threads of the grid do is a stutter.                       *)
LEMMA ReportNext ==
  ASSUME StatusChecked
  PROVE  IInv /\ Accounts /\ [Next]_vars => [Report!Next]_(Report!reportVars)
  <1> SUFFICES ASSUME IInv, Accounts, [Next]_vars
               PROVE  [Report!Next]_(Report!reportVars)
    OBVIOUS
  <1>1. threshold' = threshold /\ WholeRecords' = WholeRecords
    <2>1. threshold' = threshold
      BY DEF Next, Host, Done, vars, GpuStep, Pass, Claim, WriteKey,
             WriteAddress, WriteZeros, Complete, WatchdogKills, HostPanics,
             HostReads
    <2> QED
      BY <2>1 DEF WholeRecords, Qualifying
  <1>2. CASE HostReads
    <2>1. /\ host = "waiting" /\ host' = "returned"
          /\ report' \in Seq(WholeRecords)
          /\ \A i, j \in DOMAIN report' : report'[i] = report'[j] => i = j
          /\ \/ WholeRecords \subseteq {report'[i] : i \in DOMAIN report'}
             \/ Len(report') = MAX_HITS
      BY <1>2, AnswerIsSound DEF Accounts, HostReads
    <2>2. Report!Answer
      BY <1>1, <2>1 DEF Report!Answer, Report!Sound, WholeRecords
    <2> QED
      BY <2>2 DEF Report!Next
  <1>3. CASE HostPanics
    BY <1>1, <1>3 DEF HostPanics, Report!Next, Report!Fail, WholeRecords
  <1>4. CASE ~HostReads /\ ~HostPanics
    <2>1. UNCHANGED <<host, report>>
      BY <1>4 DEF Next, Host, Done, vars, GpuStep, Pass, Claim, WriteKey,
                  WriteAddress, WriteZeros, Complete, WatchdogKills
    <2> QED
      BY <1>1, <2>1 DEF Report!reportVars, WholeRecords
  <1> QED
    BY <1>2, <1>3, <1>4

(* A dispatch that goes through commit_and_wait keeps its promise to the   *)
(* driver: one sound answer, or a panic.                                   *)
THEOREM Implements ==
  ASSUME StatusChecked
  PROVE  Spec => ImplementsReport
  <1>1. Init => Report!Init
    BY DEF Init, Report!Init
  <1> QED
    BY <1>1, ReportNext, AccountsInvariance, PTL
    DEF Spec, ImplementsReport, Report!Spec

=============================================================================
