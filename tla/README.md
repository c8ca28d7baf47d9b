# A TLA+ model of nullforge

nullforge searches for Ethereum addresses with many leading zero nibbles. It
mines private keys on CPU threads and on the GPU, and mines salts for CREATE2,
CREATE3, CreateX and a tagged CREATE2 factory on the GPU alone. This directory
holds a model of the program in TLA+, the configurations that check it with TLC,
and proofs checked by TLAPS. Paths below are relative to the repository.

    cd tla
    tlc -config MinerShared_funnel.cfg MCMinerShared    # any run: cfg and MC module
    tlapm HybridMiner_proofs.tla                         # the proofs

`PROJECT.json` lists the runs, the source lines each definition stands for, the
hazards, the findings, and for each property a mutant of the model (a change a
plausible bug would make) under which TLC finds the property violated.

## Inventory

| Component | State | Operations | Interacts by |
|---|---|---|---|
| Shared state and `report_hit` (`src/miner/shared.rs`) | `best_zeros`, `best` under a mutex, the file under a mutex, `cpu_keys`, `gpu_keys`, `stop` | `report_hit`, `add_keys`, `request_stop`, `take_best` | atomics and mutexes shared by all threads |
| Hybrid engines (`miner/cpu.rs`, `miner/gpu_driver.rs`, `bin/gpu.rs`) | per-worker count, batch base, hits of a batch | the worker loop, `run_batches`, Ctrl-C task, join and summary | calls of `report_hit`, `stop`, dispatches |
| CPU-only miner (`main.rs`) | `max_zero_count`, `max_order_chars`, `best_wallet`, file, counters, `stop_signal` | worker loop, Ctrl-C task, summary | atomics read and stored in separate steps |
| Metal dispatch (`gpu/mod.rs`) | command status, counter, hit buffer | dispatch, wait, read back | buffers shared with the GPU threads |
| Key kernels (`kernels/miner.metal`, `ec.metal`, `field.metal`) | candidate, running point, sub-batch | `mine`, `mine_incremental`, the kernels of the GPU tests | the hit buffer |
| Field and scalar arithmetic (`kernels/field.metal`, `miner.metal`) | none (carries and borrows of a loop) | add, subtract, multiply, invert modulo p; add and compare modulo n | called by the key kernels |
| Salt drivers (`miner/create2.rs`, `create3.rs`, `createx.rs`, `create2tag.rs`) | best, base counter, total, file | batch loop, rate report | dispatches, a `stop` shared with the Ctrl-C task |
| Salt kernels and host checks (`kernels/create*.metal`, `verify_*`) | bound buffers, salt, preimages, records | bind, derive, emit, read back, verify | buffers bound by index |
| Key output (`keyenc.rs`, `bin/keygen.rs`, `bin/decrypt.rs`) | `age-recipient.txt`, the printed secret, `scanned_keys.txt` | keygen, `resolve_sink`, `encode_key_field`, decrypt | files that outlive the processes |
| Command line and target (`bin/gpu.rs`, `main.rs`, `target.rs`) | none | arguments to mode, target and `--reveal` | decides what every run starts with |
| ERC-8117 notation (`erc8117.rs`) | none | `format_address`, the two zero counts | the address column of the key file |
| Keccak, echo kernel | none | pure functions | not modelled, see below |

The hard behaviours: stale unlocked reads and the lost race in `report_hit`; a
panic while a mutex is held; the stop and the joins when threads panic or exit;
check-then-store without a lock in `main.rs`; GPU threads that share a bounded
buffer through one relaxed atomic; a watchdog that kills a command half way;
counters that wrap; carries and borrows at the edges of p and of the word;
buffers bound by number and records laid out by offset on two sides; flags that
are the value of another flag; elliptic-curve special cases and a batch inversion that one
degenerate point could spoil; lines that are cut short by a crash and read by a
later run; write errors that are ignored.

What makes each part correct: the funnel behaves as one atomic tracker of the
best hit and logs what it tracks; no key or salt that matters is lost; only
verified hits are kept; every key drawn is counted once; the target and Ctrl-C
stop the process; a dispatch returns whole records of all qualifying candidates
or tells that it could not; a kernel's address is that of its key or salt; what
was written can be recovered and nothing wrong can.

## Modules

| Module | Models | Composed with |
|---|---|---|
| `BestTracker` | abstract: one best at a time, entered in a log | implemented by `MinerShared` |
| `MinerShared` | `report_hit` step by step for any callers | |
| `HybridMiner` | the engines, Ctrl-C and `main` of the hybrid miner | EXTENDS `MinerShared`, reuses its actions |
| `HybridMiner_proofs` | theorems about it and about `MinerShared` | EXTENDS `HybridMiner`, `NumberLemmas` |
| `CpuMiner` | the CPU-only miner | |
| `CpuMiner_proofs` | theorems about it | EXTENDS `CpuMiner`, `NumberLemmas` |
| `NumberLemmas` | induction, recursion, loops, division, powers, the sums of `SumFunction`, Fermat's theorem | |
| `HitReport` | abstract: what a dispatch promises a driver | implemented by `HitBuffer` |
| `HitBuffer` | GPU threads, buffer, watchdog, host | |
| `HitBuffer_proofs` | theorems about it | EXTENDS `HitBuffer` |
| `FieldLimbs` | the arithmetic modulo p and n on little-endian words | |
| `MineKernels` | `mine` and `mine_incremental` of one GPU thread, and the test kernels with their dispatches | EXTENDS `FieldLimbs` |
| `MineKernels_proofs` | theorems about both | EXTENDS `MineKernels`, `NumberLemmas` |
| `CommandLine` | the arguments of both miners, target validation | |
| `SaltMiner` | the loop of the four salt drivers, Ctrl-C | EXTENDS `CommandLine`; a dispatch is one step that ends as `HitReport` allows, or with a fault |
| `SaltMiner_proofs` | theorems about it | EXTENDS `SaltMiner` |
| `SaltDerivation` | bytes of buffers, salts, preimages, addresses and records, kernel against host | |
| `SaltDerivation_proofs` | theorems about it | EXTENDS `SaltDerivation`, `NumberLemmas` |
| `Notation` | the compact form of an address, the counts of its zeros | |
| `KeyLog` | keygen, miner runs, the file, decrypt | EXTENDS `CommandLine`, `Notation` |
| `KeyLog_proofs` | theorems about it | EXTENDS `KeyLog`, `NumberLemmas` |

`MC*.tla` give the constants of the runs.

### How state and actions correspond to the code

**MinerShared.** The variables are the fields of `MinerShared` with the names of
the source; `lock` and `poisoned` are the mutex around `best`. A thread in
`report_hit` goes through `FastPath` (line 111), `LockBest` (114), `LostRace`
(115), `StoreZeros` (118), `SetBest` (119, and the first of the two loads of
line 125), `WriteLine` (the second load, encoding and `writeln!`), and
`PrintNewBest` or `PrintPanics` (142-151). The file mutex is only taken inside
the `best` mutex, so it needs no variable. A `Relaxed` load may return any value
`best_zeros` has had (`RelaxedLoads`): more than the memory model allows, so what
holds is not an artefact of interleaving semantics. The load under the mutex is
current: the mutex orders it after every earlier store.

**HybridMiner** adds the worker loop (`WorkerDraws`, `WorkerCompares`,
`WorkerStops`), the driver (`GpuPicksThreshold`, `GpuDispatches`,
`GpuProcessesHit`, `GpuStops`, `GpuPanics`) and `CtrlC`, `Summarise`. An address
is named by its key; a wrong record of the kernel has a key that differs from its
address. `Scan` fixes which keys the seeds reach at each counter. A dispatch is
one action: that is what `HitBuffer` implements. `exit(1)` and the summary end
the process for all threads at once.

**CpuMiner.** One step per load and store from `main.rs:157` to 257. With
`Relaxed = TRUE` the loads may be stale.

**HitBuffer.** `Init` chooses the threshold of the dispatch. `Pass`, `Claim`, `WriteKey`, `WriteAddress` and `WriteZeros` are
the tail of `mine`, one step per part of the record; the tails of the other four
kernels differ in names only. `WatchdogKills` leaves any part of what was written
in memory. `StatusChecked` tells the dispatches that go through `commit_and_wait`
(all but tagged CREATE2) from the one that does not.

**FieldLimbs.** A number is a function from limbs to words below W = 2^WORD, as
`fe` is eight `uint`s. Each loop of the source is a loop here: the carry of
`fe_add`, the borrow of `sub_p`, the rows of the product, the folds by
2^32 + 977 (W + C here, with p = W^LIMBS - W - C), the bits of the inversion. `ulong` is
where the source computes in 64 bits.

**MineKernels.** The code's formulas, special cases included, on words
(`FieldLimbs`), on y^2 = x^3 + 23 over F_499, which has prime order 457 as
secp256k1 has a prime order; a field element is three words of three bits,
499 = 8^3 - 8 - 5. The reference is the group law by chord and tangent on numbers. `Pipeline` names the compute pipelines a dispatch may bind: with
`mine_pipeline` alone it is the program as it stands, with `_pipeline` as well it
also covers the incremental kernel, which the program compiles and never runs.
`FieldTest`, `InverseTest`, `ScalarAddTest`, `EcTest`, `DeriveTest`, `RawStart`
and `RawWalk` are the dispatches of `gpu/mod.rs` that run one piece each.

**CommandLine.** An argument is a name; `Number` and `Bytes` say which names
parse as a number or as hex. `gpu_main` follows the loop of `bin/gpu.rs`: the
argument after a value flag is its value even if it looks like a flag
(`Swallowed`), the last value of a flag counts, the first of the modes asked for
in the order of the source runs. `cpu_main` is the scan of `main.rs`, which knows
no value flags and skips unknown ones. The result is a mode, a target and
`reveal`, or `Usage` (exit status 2).

**SaltMiner.** `Init` takes a command line and starts from what `gpu_main` makes of
it; a refused one has ended. A dispatch ends in one of four ways: with the answer
`HitReport` promises (`Dispatch`), with a wrong record among right ones
(`KernelErrs`), killed with a panic (`GpuPanics`, through `commit_and_wait`), or
killed and read all the same (`KilledUnnoticed`: no more records than fit, each with
parts that may never have been written). What follows it in the loop is `Advance`.
Then one action per hit processed, one for the end of the batch (report and sleep)
and one to leave. A record brings its own count, which the driver takes as it is
after `verify_create2`; `strays` remembers the records a sound answer would not
have. The loops of `create3.rs`, `createx.rs` and `create2tag.rs` differ from
`create2.rs` in names and arguments only, but the dispatch of `create2tag.rs`
(`gpu/mod.rs:1423`) does not look at the status of its command: `mode` tells which
of the two kills may happen (`StatusChecked`).

**SaltDerivation.** A byte is named by where it comes from, and keccak256 is a
free constructor: two addresses are equal only if every byte hashed on the way
is. The widths are small (the offsets are formulas of them), the positions are
the source's. `Buffers` is the sequence of `set_buffer` calls of a dispatch, and a
kernel reads `buffer(k)`. Each iteration either finds too few zeros
(`TooFewZeros`) or writes a record (`EmitHit`); `ReadBack` is what the host makes
of the bytes, whatever was in the memory before. The counter's byte i is
`ctr >> (8 * i)` without its high bytes: `Shifted` shifts out one byte i times,
`Power` is the number of counters.

**Notation.** An address is the sequence of its nibbles, a text a sequence of hex
digits, subscript digits and literals. `count_leading_zeros` counts characters,
`leading_zero_nibbles` bytes and then a nibble, as the two functions do. The key
file holds the untruncated form with subscripts; no property is about the others.

**KeyLog.** A run starts with what `gpu_main` or `cpu_main` makes of a command
line; `revealed` looks at all the arguments, so that `FailClosed` does not trust the
parser, and counts a `--reveal` that is the value of another flag as one. A line is eight pieces because `writeln!` on an unbuffered `File`
writes each piece of the format by itself. The file is lines of columns of
pieces, so a torn line and the next one run together as they do on disk. A piece
that is cut leaves a `Fragment`; an address cut inside a subscript, which takes three
bytes, leaves a `HalfCharacter`, and from then on the file is not valid UTF-8
(`IsUtf8`), so that `read_to_string` and with it decrypt fail (`Recovered`).
`decrypt` takes column 4 of lines with four columns or more; a field decrypts only
if it is exactly one ciphertext for that identity, since base64 and age both
reject anything longer or shorter.

## Runs

| Run | Question | Expect |
|---|---|---|
| `MinerShared_funnel` | Do three threads with tying and improving hits keep the funnel ordered, consistent, and an implementation of `BestTracker`? | holds |
| `HybridMiner_safety` | Do two workers and the driver lose a key, keep a wrong one, miscount, or summarise too early? | holds |
| `HybridMiner_liveness` | Is a target below `GPU_FLOOR` still found, and does a stop end the process, GPU faults included? | holds |
| `CpuMiner_all` | Does the file get the best key in spite of the races, is every key counted, has the wallet its line, and does Ctrl-C end the process with any fault? | holds |
| `CpuMiner_summary` | Is the wallet of the summary the best of the file? | violated |
| `HitBuffer_dispatch` | Does a dispatch with fewer hits than slots, as many or more implement `HitReport`, watchdog included, and end? | holds |
| `HitBuffer_unchecked` | Is a killed command noticed without the status check? | violated |
| `MineKernels_both` | Do both kernels emit each valid key of the batch with its point, and is the word arithmetic exact for every pair of operands? | holds |
| `MineKernels_pipeline` | Does `dispatch_mine_incremental` run `mine_incremental`? | violated |
| `SaltMiner_all` | Are lines as true as the records they are made of, salts of sound batches neither lost nor counted twice, is there no batch after the target, and does Ctrl-C end the mode, with every fault and from command lines of every mode? | holds |
| `SaltDerivation_all` | Does the host accept what each kernel emits, read back whole records with their own count, and is no salt repeated? | holds |
| `KeyLog_recovery` | What do odd command lines, torn lines, failing writes, new recipients and a dying keygen do to recovery, and can the whole address be rebuilt from the line? | nothing false; bounded loss while the file is readable |

### Bounds

* Three threads in the funnel: the holder of the mutex, one that lost the race
  and one on the fast path. Two keys give hits that tie and that improve, right
  records and wrong ones. Threads are interchangeable, so the run uses them as a
  symmetry set: no property, and none of its parameters, names a thread.
* Key counts (`MaxKeys`, `MaxTotal`) saturate: counting stops, mining does not,
  so no behaviour ends because of a bound and liveness runs are sound.
* `HybridMiner`: a base that wraps after two batches, so old counters return; two
  hits in the first batch, so one is processed after the other raised the best;
  two or three keys counted, with flushes at two. The target is at the floor in
  the safety run and below it in the liveness run.
* `CpuMiner`: one key at the floor and one above it, so a slow worker can lower
  the maximum; three counted keys with flushes at two leave one for the end.
* `HitBuffer`: six candidates, one of them out of range, and thresholds at which
  one, two or three qualify for two slots: under, exactly full and over.
* `MineKernels`: bases next to 0, 1 and n, so the walk passes doubling, infinity
  and the restart; a last sub-batch that is shorter. Three words make two carries
  between words and one out of the top; `FieldIsExact` takes every pair of
  operands, so every pattern of carries, borrows and folds of that width occurs.
* `SaltMiner`: targets below the floor, reachable, and out of reach; a batch with
  more hits than the buffer holds, a tie, and counters that wrap. A failing kernel
  returns the address of another salt, a count too high or one too low; a killed
  batch mixes what it wrote with one record left in the memory. `MaxStrays` is 1:
  once such a record has come there is no further fault of that kind, so a run with
  one bad batch and otherwise good ones is covered, the proofs take any number. Command lines
  of each mode, with values that look like flags or targets, values that are
  missing or of the wrong length, and targets just out of range.
* `SaltDerivation`: prefix lengths from 0 to the maximum, and as many batches
  as the counter needs to carry between bytes and wrap; none to three hits for
  two records.
* `KeyLog`: two torn lines and three keys, so that one torn line may spoil the
  next, which may be torn itself; two of the addresses have subscripts and can be
  cut inside one, the third has none; three identities, one from the environment and
  two that keygen generates; every command line of up to three of nine arguments;
  every address of 14 nibbles 0 or 1, so that counts on both sides of the
  threshold, of two digits and of zeros alone occur.

### Fairness

Weak fairness on each thread's steps, on the main task and, for the GPU, on each
thread of the grid: the operating system and the device schedule them, and none
of them can be blocked for good by another, since the mutex is always released,
by a panic too. No fairness for Ctrl-C, for faults and for the watchdog: they
need not happen. `Clock` in `SaltMiner` is fair because time passes.

## What is proved

`HybridMiner_proofs` proves about `MinerShared`, for every set of threads and keys, every target and
every set of faults, assuming only `SharedAssumption` and `NoneIsNoHit`: `TypeOK`,
`BestAgrees`, `LinesOrdered`, `TargetStops`, `BestIsLastLine`,
`RejectedOnlyIfBeaten`, and that the interleaved funnel implements
`BestTracker` (`ImplementsTracker`).

None of these is inductive. The invariant `IInv` adds who may be where and what
that means: only the holder of the mutex is past the lock (`Mutex`), a thread in
the funnel has a hit (`HasHit`), at each step the shared data relate to that hit
in a given way (`AtStep`: between the two stores `best_zeros` is the new hit's
and the wallet is older; from then on the wallet is the hit's), and everything
written or printed is bounded by the best, strictly while its line is pending
(`Bounded`). `BestIsLastLine` and `Stopped` are kept by the same case split. There
is a lemma per action; the refinement follows from `IInv`, with `StoreZeros` a
stutter, `SetBest` mapped to `Raise` and `WriteLine` to `Settle`. The fast path
is justified by `LoadsBelow`: a stale load is never above the current value.

About `HybridMiner` it proves, from `SharedAssumption`, `NoneIsNoHit` and the
assumption of `HybridMiner`, for any workers, keys, batches, target and faults, the
five invariants of `HybridMiner_safety`, that the funnel's invariants hold under
the engines (`FunnelStaysSound`), and that the whole miner implements
`BestTracker`. The engines do not refine the funnel's `Next`, where any thread may
call with any hit at any time and none dies outside `report_hit`, so the
argument goes through the invariant: every action of the engines keeps `IInv` of
the funnel, whose action lemmas are used again as they are. `HInv` adds that a thread outside
`report_hit` holds no hit (`IdleHasNone`), that one that left its loop left
nothing behind (`Retired`), that a dead one means a poisoned mutex or the driver's
panic between batches (`DeadPoisoned`), that a threshold in use hides only keys
below the target or the best (`BatchReady`), and that what is being reported was
verified (`Verified`). `NothingLost` and `SummaryIsTheBest` need all of them: a
key is in flight, matched by the best, or its loss is excused by a panic.

`HitBuffer_proofs` proves, assuming `BufferAssumption`, for any grid, batch size,
buffer, thresholds and candidates: `TypeOK`, `SlotsDisjoint`, and, for dispatches
that check the status (`StatusChecked`), `NothingTorn`, `NothingMissed` and the
refinement of `HitReport` (`ImplementsReport`). Without the check these are
false: that is `HitBuffer_unchecked`, and the reason for the hypothesis. Two
invariants carry them. `IInv`: a writing thread is at a candidate that qualifies
(`Busy`) and, while the command is not killed, a claimed slot is below the
counter (`Claimed`), a slot below the counter is either the whole record of a
qualifying candidate or being written by the thread that claimed it (`Filled`),
whose fields so far hold its candidate (`Written`). Disjoint slots keep one
thread's write out of another's record; a completed command has no writer left
(`Finished`), so what the host reads is whole. `Accounts` reads the buffer as a
ledger: every qualifying candidate a thread is past has a settled slot unless the
buffer overflowed (`AllEntered`), every settled slot belongs to one
(`OnlyScanned`), and no two slots to the same (`NoneTwice`). When all threads are
done, the settled slots are in one-to-one correspondence with the qualifying
candidates, which is what the abstract specification promises.

`CpuMiner_proofs` proves `WalletIsInFile`, `KeysAccounted` and `FileHasTheBest`
for any workers, keys and faults. The racing loads make `max_zero_count` go up and
down, so no invariant about it alone is kept. What is kept: every value a worker
can have loaded is 0 or the zeros of a key that passed both checks
(`LoadsAccepted`), so a key that was turned away was matched by one that passed
(`SeenIsMatched`), and one that passed is on its way to the file or there
(`AcceptedIsKept`).

`SaltMiner_proofs` proves for any grid, addresses, batch, buffer, command lines
and faults: `TypeOK` (a mode only runs with a target that `validate_target`
accepts), `LinesTrue`, `NothingLost`, `TotalIsHonest` and the action property
`NoBatchAfterTarget`. They say as much as the code delivers. `LinesTrue`: the address of
a line is always that of its salt, and the zeros it tells always increase, but its
salt was scanned and its count is right only if that very record was sound.
`NothingLost` speaks of the salts of batches that ended without a fault, whatever
the others did in between; the ones a killed batch of tagged CREATE2 had are lost, and
a count that is too high hides better salts, for the best believes it. `IInv` adds
what the hits not yet processed stand for (own records of scanned salts or strays:
`HitsScanned`; `Pending`, `TopIsClear`), that the best is up to date with the
file (`FileBelow`), that a running driver whose best reaches the target has
stopped (`StopsAtTarget`), and that until the counter wraps the salts scanned are
exactly those below it (`Progress`), which makes `total` the count of a
Cartesian product.

`KeyLog_proofs` proves for any identities, command lines, addresses, number of
keys, of torn lines, and faults: `SecretsKept`, `FailClosed`, `NoFalseRecovery`,
`LossBounded` and `ColumnsNameTheKey`. `KeyLogAssumption` says of a command line only
that it is a sequence, and of an address that it has whole bytes and no more
than 40 nibbles. `IInv` follows the current line through its eight
pieces: what is left to write (`LineIsAt`), what the last columns of the file
hold then, wherever a torn line left them (`ColumnsAt`), that a column which is
one field and nothing else has its own count and address before it
(`FieldsFollow`), that the current line is spoiled only if a torn line paid for
it (`TearsPay`); beside it `Utf8UnlessTorn` says that only a line cut short can make
the file unreadable, so `LossBounded` is about every file that decrypt reads, and
blames a torn line for each one that it does not. Then `IInv` says whose field may be in plaintext (`FieldsRevealed`,
`RunRevealed`), and where the secret of each recipient in use is (`KeygenIsAt`,
`RecipientsSafe`). `NoFalseRecovery` rests on one fact: a torn piece is never a
field, so a field that stands alone in its column was written right after a tab
of its own line, and with it the two columns before. `ColumnsNameTheKey` adds what
these columns say (`AlwaysLossless`): the leading zeros of an address are found
by counting characters (`CharactersCount`) and by counting bytes and one nibble
(`BytesCount`); one or two subscripts say how many there are (`CountShown`), and the
remainder starts right behind them (`ReadCompact`), so that the text expands to the
address it was made from (`CompactOf`).

`SaltDerivation_proofs` proves `KernelAgreesWithHost`, `HitsReadBack` and
`CandidateIsUnique` for any widths, number of GPU threads, batch, buffer,
prefix length and counter. `DerivationAssumption` says that the widths are positive,
that an address and a counter are narrower than a word, that a record fits its
stride, and that the threads' base salts, which the drivers draw at random,
differ. Three arguments carry them. What a kernel puts behind
the bytes its buffer starts with is appended to them (`PutNext`), so a
buffer that is filled to its end is the concatenation the host hashes
(`Create2Agrees`, `Nonce1Agrees`, `TagAgrees`), and what it finds at the index of a
buffer is what the dispatch bound there (`Bound`). The invariant `IInv` says that
slot i holds the record of the i-th counter claimed (`RecordsInPlace`): a later
record starts where this one ends, at the earliest (`Rows`), so it leaves this one alone
(`RecordKept`), and what the host slices out is what was put in (`RecordRead`). And
a counter below `CounterSpace` is known by its bytes (`BytesTellCounter`): by
induction over the bytes, a number is its low byte and the number shifted by one.

`MineKernels_proofs` proves `FieldIsExact` for any width and number of words, any
fold constant, order and operands. `FieldAssumption` says that the numbers are of
the shape of secp256k1's (p = W^LIMBS - W - C with C below W - 1, words of more
than one bit), `PrimeAssumption` that p is prime, `KernelAssumption` that a batch
is shorter than a word counts and than the order. Each loop of `field.metal` is a
function of its own there, and has a lemma about the value of its words: a sum with
carries (`Added`) is the sum of the values less what is left over, a difference with
borrows likewise, row i of the schoolbook product has added a[i] * b at word i, a
fold keeps the remainder and is smaller (`2^256` is `2^32 + 977` modulo p), so
the loop ends, and what is left below `W^LIMBS` needs few subtractions. `fe_inv`
follows the bits of p - 2 from the top, so it is a power (`FeInvInverts`), and the
inverse by Fermat's theorem (`FermatInverse`), which is proved in `NumberLemmas`: the
product of all residues is the same before and after multiplying each by a.
On these rest `SharedInversion`, for sub-batches of any length and any invertible
values, and the invariant `KernelInv` of both kernels: points stay triples of
reduced values (`WalkIsReduced`), the sub-batch fits, what was emitted is of
candidates that are done (`EmittedIsDone`), once each, with the key of its
candidate, reduced after `scalar_add_small` (`KeysAreTheirCandidates`), and `mine` has
passed over nothing (`MineIsComplete`, hence `MineNeverSkips`).

The same module proves `KeysOpenPoints` and `NoCandidateSkipped`. A triple of words
stands for a point (x, y) if it is (x Z^2, y Z^3, Z) modulo p with a Z that is not 0,
and for infinity if Z is 0 (`Represents`). Doubling and adding take the tangent and
the chord through what they stand for (`DoubledIs`, `ChordedIs`): the slope l is never
computed, only l times the new Z is, so the lemmas are about any l with
l * (x2 - x1) = y2 - y1, and the reference, which divides, picks that l
(`ChordIsSecant`, `ChordIsTangent`). Which special case `j_add` takes is decided over
a common denominator, which changes no equality (`CommonSame`); with the same x and
different y the points are opposite because both are on the curve (`SameXOnCurve`),
and the third point of a line is on it again since a cubic that vanishes at two
places is (`CubicVanishes`). So `j_add` stands for the sum (`AddRepresents`), and
`scalarmul_jacobian`, whose bits halve the scalar, for the multiple that `Multiples`
builds from halves (`ScalarmulStands`). The invariant `GroupInv` adds to `KernelInv` that
the running point and every point of the sub-batch are the multiples of their
candidates (`WalkStands`), that what was emitted has its key and its point
(`EmittedIsRight`) and that no key of the candidates done is missing
(`BatchIsWhole`). A candidate is passed over only at infinity, which is the multiple 0
(`StandsAtInfinity`); `ec_test` of the key 0 answers zeros because `fe_inv` makes 0 of
0 (`FeInvOfZero`); and a test that writes zeros for no address is told from a point
because (0, 0) is on no curve with b # 0 (`NotTheOrigin`).

`GroupAssumption` is what these two take from mathematics and not from the code: b is
not 0, no multiple of the generator below n is infinity, and adding the generator to one
multiple gives the next. For secp256k1 (b = 7, n the prime order) the last is
associativity of the group law, whose proof is out of reach here; TLC evaluates all
three on the curve of the run. `AddRepresents` needs no such assumption.
`ConsecutiveThroughOwnPipeline` says that the pipeline alone is what
`MineKernels_pipeline` blames: with the one the dispatch compiles and drops, the
property would hold.

`NumberLemmas` holds what the proofs about numbers share. The library's induction theorems
take an operator as a parameter, which the provers cannot instantiate;
`GoodNaturals` and `GoodSubsets` state induction of the naturals and of the
subsets of a finite set as facts about the set of good cases, and are proved from
`WFMin`, which has no such parameter. From them follow recursion up to a
bound, loops in which a number falls, the folds behind `SumFunction` and how a
sum changes with one summand (`SumChanges`), and the facts about remainders and
powers that end in Fermat's theorem.

TLC agreed on every invariant, the inductive ones included, before it was proved.

Only model-checked is everything under fairness, since liveness and `ENABLED` are out
of the prover's reach (`StopEndsTheProcess`, `CtrlCEndsTheProcess`, `DispatchEnds`).
Every invariant and every action property of the passing runs is a theorem.

## Findings

Shown by a run:

1. `main.rs:193`: racing workers leave a weaker wallet as the final one.
   (`CpuMiner_summary`)
2. `gpu/mod.rs:1423`: tagged CREATE2 ignores the command's status, so a killed
   batch reads as an empty one. (`HitBuffer_unchecked`; `KilledUnnoticed` is what
   becomes of it in the driver, with no panic and no word to the operator.)
3. `gpu/mod.rs:802`: the pipeline of `mine` is bound for `mine_incremental`.
   (`MineKernels_pipeline`)

Visible in the models, without a run of their own; each is part of the actions
named, and the properties that hold are stated so as to allow it:

* `bin/gpu.rs:341` prints before it requests stop (`CtrlC`): with a broken standard
  output Ctrl-C no longer ends the hybrid miner. The salt modes do the same, but
  there the next rate report ends the process.
* `bin/gpu.rs:400` sends the operator to a line that a failed write
  (`shared.rs:133`) or encoding (135) never produced (`WriteLine`).
* `main.rs:254`: reaching the target ends one worker, not the search
  (`PrintNewBest`).
* `create2.rs:103`: a salt whose line was not written stays the best
  (`RecordBest`).
* `gpu/mod.rs:1120`: the host check cannot notice a wrong proxy hash, for it uses
  the same one as the kernel (`verify_create3`). `bin/gpu.rs:161` says that a wrong
  value "can't mine garbage silently", `gpu/mod.rs:1117` that a mismatch may
  indicate one.
* `create2.rs:98`: the count of a record is taken as it is. `HitsReadBack` shows
  that it is the kernel's count of that record's address; a GPU that miscounts
  goes unnoticed (`KernelErrs`), writes a wrong line and, with a count too high,
  hides the better salts that follow. `LinesTrue` excuses just these lines.
* `bin/gpu.rs:77`: an argument that follows a value flag is its value:
  `--prefix --reveal` does not reveal (`Swallowed`). `main.rs:28` knows no value
  flags, so there the same arguments do.
* `shared.rs:142`: the line on the screen comes before the request to stop, while
  the lock is held. If standard output is broken, that `println!` panics, stop is
  not requested for this target and the lock is poisoned (`PrintPanics`);
  `TargetStops` excuses it.
* `shared.rs:133`: a torn last line spoils the first line of the next run (`Put`);
  `LossBounded` says that it spoils no more while the file can be read.
* `bin/decrypt.rs:79`: the file is read as text at once. A line cut inside a
  subscript of its address (`erc8117.rs:58`) makes it invalid UTF-8, and decrypt
  recovers nothing at all from it, its complete lines included (`IsUtf8`).
* `bin/keygen.rs:20`: the recipient is replaced before the secret is printed
  (`KeygenDies`). Keys encrypted to a recipient whose keygen died are lost;
  `SecretsKept` says that nothing else loses a secret.

## Not modelled

Keccak-f (a permutation, tested against vectors; a free constructor here), age
and base64 (external), `format_both` and `feasibility_note` (for the screen only),
the arguments of `nullforge-decrypt` (it only reads), Metal set-up and
compilation, `run_keccak_fixed64` and the echo kernel with its dispatch, key
wiping, the duty-cycle sleep (time only), the rate reporter of the hybrid miner
(reads and prints, its panic is awaited by nobody), two miner processes on one
file. The order in which a file system persists writes is not modelled: a crash
cuts the file at its end.

## Plan

Done: every module of the table above; proofs about `MinerShared`, `HybridMiner`,
`CpuMiner`, `HitBuffer`, `FieldLimbs`, `MineKernels`, `SaltMiner`, `KeyLog` and
`SaltDerivation`.

Next:

1. `SaltDerivation` with `HitBuffer`: that the records of a batch stay in place when
   many threads of the salt kernels claim slots at once.
2. `MineKernels`: associativity of the chord and tangent rule, so that
   `GroupAssumption` need only say that the generator has order n.
