---------------------------- MODULE MineKernels ----------------------------
(***************************************************************************)
(* What one GPU thread does in a batch of key mining: mine derives every   *)
(* key from the seed and multiplies it out, mine_incremental derives one   *)
(* base key and walks base*G, base*G + G, ... in Jacobian coordinates with *)
(* one inversion per sub-batch (src/kernels/miner.metal, ec.metal), all on *)
(* the words of FieldLimbs; and which of the two a dispatch really runs.   *)
(* The kernels that only tests dispatch run parts of them: field_test,     *)
(* scalar_add_mod_n_test, ec_test, derive_test, mine_incremental_raw_test. *)
(*                                                                         *)
(* The curve is y^2 = x^3 + b over F_p with a generator of prime order n,  *)
(* as in secp256k1 (b occurs in no formula); the formulas are those of the *)
(* code, special cases included.  An address is named by its point, and    *)
(* every candidate counts as a hit (HitBuffer models the threshold and the *)
(* buffer).                                                                *)
(***************************************************************************)
EXTENDS FieldLimbs

CONSTANTS
  Gx, Gy,         \* the generator
  ITERS,          \* candidates per thread
  B2_SUBBATCH,    \* candidates that share an inversion
  Seed, Counter,  \* seeds, and base counters of batches
  Derive,         \* Derive[s][c]: the digest derive_privkey makes of them
  Entry,          \* the kernels the host asks for
  Pipeline        \* the pipelines it may bind

ASSUME KernelAssumption ==
  /\ {Gx, Gy} \subseteq 0 .. p - 1
  /\ {ITERS, B2_SUBBATCH} \subseteq Nat \ {0}
  /\ ITERS < W /\ ITERS <= n /\ n + ITERS <= Weight[LIMBS]
  /\ Counter \subseteq Nat
  /\ \A s \in Seed, c \in Counter : \A i \in 0 .. ITERS - 1 :
       Derive[s][c + i] \in 0 .. Weight[LIMBS] - 1
  /\ Entry \subseteq {"mine", "mine_incremental", "mine_incremental_raw_test",
                      "derive_test", "ec_test", "field_test",
                      "scalar_add_mod_n_test"}
  /\ Pipeline \subseteq {"mine_pipeline", "_pipeline"}

VARIABLES
  entry, kernel,  \* the kernel asked for, and the one that runs
  seed, counter,  \* the thread's input (raw_test, ec_test: seed is the key)
  base,           \* mine_incremental: the key of candidate 0
  point,          \* mine_incremental: the running point P
  it,             \* first candidate of the sub-batch (mine: the candidate)
  sub,            \* the points of the sub-batch so far
  pc,
  emitted,        \* candidates emitted: [it, key, x, y]
  results         \* the tests: [op, a, out], out[b] for the operands a and b

input == <<entry, kernel, seed, counter>>
mining == <<base, point, it, sub, emitted>>
vars == <<input, mining, pc, results>>

----------------------------------------------------------------------------
(* ec.metal                                                                *)

Point(x, y, z) == [X |-> x, Y |-> y, Z |-> z]

j_infinity == Point(fe_from_u32(1), fe_from_u32(1), fe_from_u32(0))
g_point == Point(Limbs(Gx), Limbs(Gy), fe_from_u32(1))

Twice(a) == fe_add(a, a)

Square(a) == fe_mul(a, a)

(* Doubling and addition end alike: y3 = r * (v - x3) - w.                 *)
OnLine(x3, v, r, w, z) == Point(x3, fe_sub(fe_mul(r, fe_sub(v, x3)), w), z)

Tangent(A, d, e, y4) ==
  OnLine(fe_sub(Square(e), Twice(d)), d, e, Twice(Twice(Twice(y4))),
         fe_mul(Twice(A.Y), A.Z))

Doubled(A, x2, y2, y4) ==
  Tangent(A, Twice(fe_sub(fe_sub(Square(fe_add(A.X, y2)), x2), y4)),
          fe_add(Twice(x2), x2), y4)

j_double(A) ==
  IF fe_is_zero(A.Z) THEN j_infinity
  ELSE LET y2 == Square(A.Y) IN Doubled(A, Square(A.X), y2, Square(y2))

AlwaysOpposite(s1, s2) == FALSE
SamePoint(s1, s2) == s1 = s2

(* Both points over the common denominator, and 2 * A.Z * B.Z.             *)
Scaled(A, B, zz1, zz2) ==
  [u1 |-> fe_mul(A.X, zz2), s1 |-> fe_mul(fe_mul(A.Y, B.Z), zz2),
   u2 |-> fe_mul(B.X, zz1), s2 |-> fe_mul(fe_mul(B.Y, A.Z), zz1),
   z  |-> fe_sub(fe_sub(Square(fe_add(A.Z, B.Z)), zz1), zz2)]

Secant(q, h, r, j, v) ==
  OnLine(fe_sub(fe_sub(Square(r), j), Twice(v)), v, r, Twice(fe_mul(q.s1, j)),
         fe_mul(q.z, h))

Chorded(q, h, i) ==
  Secant(q, h, Twice(fe_sub(q.s2, q.s1)), fe_mul(h, i), fe_mul(q.u1, i))

AddFinite(A, q) ==
  IF q.u1 # q.u2
    THEN LET h == fe_sub(q.u2, q.u1) IN Chorded(q, h, Square(Twice(h)))
  ELSE IF SamePoint(q.s1, q.s2) THEN j_double(A) ELSE j_infinity

j_add(A, B) ==
  IF fe_is_zero(A.Z) THEN B
  ELSE IF fe_is_zero(B.Z) THEN A
  ELSE AddFinite(A, Scaled(A, B, Square(A.Z), Square(B.Z)))

(* Double and add, most significant bit first.                             *)
DoubleAndAdd(R, k, i) ==
  IF Bit(k, i) THEN j_add(j_double(R), g_point) ELSE j_double(R)

scalarmul_jacobian(k) ==
  LET loop[bits \in 0 .. WORD * LIMBS] ==
        [R \in [X : Fe, Y : Fe, Z : Fe] |->
           IF bits = 0 THEN R ELSE loop[bits - 1][DoubleAndAdd(R, k, bits - 1)]]
  IN  loop[WORD * LIMBS][j_infinity]

(* (X, Y, Z) to (x, y), given the inverse of Z.                            *)
ToAffine(A, zinv) ==
  LET zinv2 == Square(zinv)
  IN  <<fe_mul(A.X, zinv2), fe_mul(A.Y, fe_mul(zinv2, zinv))>>

Affine(A) == ToAffine(A, fe_inv(A.Z))
scalarmul(k) == Affine(scalarmul_jacobian(k))

----------------------------------------------------------------------------
(* miner.metal                                                             *)

BatchZ(A) == IF fe_is_zero(A.Z) THEN fe_from_u32(1) ELSE A.Z

(* Montgomery's trick: prefix products, one inversion, and back.           *)
BatchInverse(z) ==
  LET k == Len(z)
      pre[j \in 1 .. k] == IF j = 1 THEN z[1] ELSE fe_mul(pre[j - 1], z[j])
      \* acc[j] is the inverse of z[1] * ... * z[j]
      acc[j \in 1 .. k] == IF j = k THEN fe_inv(pre[k])
                                    ELSE fe_mul(acc[j + 1], z[j + 1])
  IN  [j \in 1 .. k |-> IF j = 1 THEN acc[1] ELSE fe_mul(acc[j], pre[j - 1])]

SubInverses == BatchInverse([j \in DOMAIN sub |-> BatchZ(sub[j])])

(* dispatch_mine_kernel compiles the entry it is asked for into _pipeline  *)
(* (gpu/mod.rs:757) and binds mine_pipeline, built from mine (802); the    *)
(* tests bind the pipeline they build.                                     *)
Runs(bound, name) ==
  IF name = "mine_incremental" /\ bound = "mine_pipeline" THEN "mine" ELSE name

Init ==
  /\ entry \in Entry
  /\ \E bound \in Pipeline : kernel = Runs(bound, entry)
  /\ CASE kernel \in {"mine", "mine_incremental", "derive_test"} ->
            seed \in Seed /\ counter \in Counter
       [] kernel \in {"mine_incremental_raw_test", "ec_test"} ->
            seed \in 0 .. n - 1 /\ counter = 0
       [] OTHER -> seed = 0 /\ counter = 0
  /\ base = Zeros(LIMBS)
  /\ point = j_infinity
  /\ it = 0
  /\ sub = <<>>
  /\ pc = "start"
  /\ emitted = {}
  /\ results = <<>>

derive_privkey(s, c) == Limbs(Derive[s][c])

Emit(i, k, xy) == [it |-> i, key |-> Value(k), x |-> Value(xy[1]),
                   y |-> Value(xy[2])]

(* mine: one iteration, the guard included.                                *)
MineOne ==
  /\ kernel = "mine"
  /\ pc # "done"
  /\ LET key == derive_privkey(seed, counter + it) IN
       emitted' = IF scalar_in_range(key)
                    THEN emitted \cup {Emit(it, key, scalarmul(key))}
                    ELSE emitted
  /\ it' = it + 1
  /\ pc' = IF it + 1 < ITERS THEN "next" ELSE "done"
  /\ UNCHANGED <<input, base, point, sub, results>>

Start ==
  /\ kernel = "mine_incremental"
  /\ pc = "start"
  /\ base' = derive_privkey(seed, counter)
  /\ IF scalar_in_range(base')
       THEN point' = scalarmul_jacobian(base') /\ pc' = "walk"
       ELSE point' = point /\ pc' = "done"
  /\ UNCHANGED <<input, it, sub, emitted, results>>

SubBatch == IF ITERS - it < B2_SUBBATCH THEN ITERS - it ELSE B2_SUBBATCH

(* One step of the walk; the first candidate is base*G itself.             *)
Walk ==
  /\ pc = "walk"
  /\ Len(sub) < SubBatch
  /\ point' = IF it + Len(sub) > 0 THEN j_add(point, g_point) ELSE point
  /\ sub' = Append(sub, point')
  /\ UNCHANGED <<input, base, it, pc, emitted, results>>

(* The sub-batch is inverted, converted and emitted; infinity is skipped.  *)
EmitSubBatch ==
  /\ pc = "walk"
  /\ Len(sub) = SubBatch
  /\ emitted' = emitted \cup
       {Emit(it + j - 1, scalar_add_small(base, it + j - 1),
             ToAffine(sub[j], SubInverses[j])) :
          j \in {i \in DOMAIN sub : ~fe_is_zero(sub[i].Z)}}
  /\ it' = it + Len(sub)
  /\ sub' = <<>>
  /\ pc' = IF it' < ITERS THEN "walk" ELSE "done"
  /\ UNCHANGED <<input, base, point, results>>

(* mine_incremental_raw_test: bases given, an inversion for each point, and *)
(* a pair of zeros where there is no point.                                *)
RawStart ==
  /\ kernel = "mine_incremental_raw_test"
  /\ pc = "start"
  /\ base' = Limbs(seed)
  /\ point' = scalarmul_jacobian(base')
  /\ pc' = "raw"
  /\ UNCHANGED <<input, it, sub, emitted, results>>

NoPoint == <<Zeros(LIMBS), Zeros(LIMBS)>>

RawWalk ==
  /\ pc = "raw"
  /\ point' = IF it > 0 THEN j_add(point, g_point) ELSE point
  /\ emitted' = emitted \cup
       {IF fe_is_zero(point'.Z)
          THEN Emit(it, Zeros(LIMBS), NoPoint)
          ELSE Emit(it, scalar_add_small(base, it), Affine(point'))}
  /\ it' = it + 1
  /\ pc' = IF it' < ITERS THEN "raw" ELSE "done"
  /\ UNCHANGED <<input, base, sub, results>>

(* derive_test writes the key whatever it is, and no address when the key  *)
(* is out of range.                                                        *)
DeriveThread(s, c) ==
  LET key == derive_privkey(s, c)
  IN  Emit(0, key, IF scalar_in_range(key) THEN scalarmul(key) ELSE NoPoint)

DeriveTest ==
  /\ kernel = "derive_test" /\ pc = "start"
  /\ emitted' = {DeriveThread(seed, counter)}
  /\ pc' = "done"
  /\ UNCHANGED <<input, base, point, it, sub, results>>

EcThread(k) == Emit(0, k, scalarmul(k))

(* run_scalarmul.                                                          *)
EcTest ==
  /\ kernel = "ec_test" /\ pc = "start"
  /\ emitted' = {EcThread(Limbs(seed))}
  /\ pc' = "done"
  /\ UNCHANGED <<input, base, point, it, sub, results>>

Apply(op, a, b) ==
  CASE op = "add" -> fe_add(a, b)
    [] op = "sub" -> fe_sub(a, b)
    [] op = "mul" -> fe_mul(a, b)
    [] op = "inv" -> fe_inv(a)

(* One dispatch of field_test: a thread for each second operand.           *)
FieldTest ==
  /\ kernel = "field_test" /\ pc = "start"
  /\ \E op \in {"add", "sub", "mul"}, a \in 0 .. p - 1 :
       results' = [op |-> op, a |-> a,
                   out |-> [b \in 0 .. p - 1 |->
                              Value(Apply(op, Limbs(a), Limbs(b)))]]
  /\ pc' = "done"
  /\ UNCHANGED <<input, mining>>

(* Of fe_inv one thread for each element.                                  *)
InverseTest ==
  /\ kernel = "field_test" /\ pc = "start"
  /\ results' = [op |-> "inv", a |-> 0,
                 out |-> [b \in 0 .. p - 1 |->
                            Value(Apply("inv", Limbs(b), Limbs(0)))]]
  /\ pc' = "done"
  /\ UNCHANGED <<input, mining>>

ScalarAddThread(b, i) == Value(scalar_add_small(Limbs(b), i))

(* scalar_add_mod_n_test: a thread for each base and increment.            *)
ScalarAddTest ==
  /\ kernel = "scalar_add_mod_n_test" /\ pc = "start"
  /\ \E i \in 0 .. ITERS :
       results' = [op |-> "add_mod_n", a |-> i,
                   out |-> [b \in 0 .. n - 1 |-> ScalarAddThread(b, i)]]
  /\ pc' = "done"
  /\ UNCHANGED <<input, mining>>

Done == pc = "done" /\ UNCHANGED vars

Next == \/ MineOne \/ Start \/ Walk \/ EmitSubBatch
        \/ RawStart \/ RawWalk \/ DeriveTest \/ EcTest
        \/ FieldTest \/ InverseTest \/ ScalarAddTest
        \/ Done

Spec == Init /\ [][Next]_vars

----------------------------------------------------------------------------
(* The reference: the group by the chord and tangent rule, with inverses   *)
(* found by search; <<>> is the point at infinity.                         *)

InverseOf(a) == CHOOSE b \in 1 .. p - 1 : (a * b) % p = 1

Chord(A, B) ==
  IF A = B THEN (3 * A[1] * A[1] * InverseOf((2 * A[2]) % p)) % p
           ELSE (((B[2] + p) - A[2]) * InverseOf((B[1] + p - A[1]) % p)) % p

Plus(A, B) ==
  IF A = <<>> THEN B
  ELSE IF B = <<>> THEN A
  ELSE IF A[1] = B[1] /\ (A[2] + B[2]) % p = 0 THEN <<>>
  ELSE LET l == Chord(A, B)
           x == (l * l + 2 * p - A[1] - B[1]) % p
       IN  <<x, (l * (A[1] + p - x) + p - A[2]) % p>>

Multiples ==
  LET times[k \in 0 .. n - 1] ==
        IF k = 0 THEN <<>>
        ELSE LET half  == times[k \div 2]
                 twice == Plus(half, half)
             IN  IF k % 2 = 1 THEN Plus(twice, <<Gx, Gy>>) ELSE twice
  IN  [k \in 1 .. n - 1 |-> times[k]]

(* What the reference is: b is not 0 (7 in secp256k1), the generator has   *)
(* order n, and adding it goes from each multiple to the next.             *)
curve_b == Gy * Gy - Gx * Gx * Gx

ASSUME GroupAssumption ==
  /\ curve_b % p # 0
  /\ \A k \in 1 .. n - 1 :
       /\ Multiples[k] # <<>>
       /\ Plus(Multiples[k], <<Gx, Gy>>) =
            IF k = n - 1 THEN <<>> ELSE Multiples[k + 1]

----------------------------------------------------------------------------
(* Every candidate emitted is a valid key with the point of that key, so   *)
(* that the host's check accepts it: through the doubling at base = 1, the *)
(* order n, infinity, the restart after it and a shared inversion with a   *)
(* degenerate point.  Only the kernels of tests answer with no address.    *)
KeysOpenPoints ==
  \A e \in emitted :
    IF e.key \in 1 .. n - 1 THEN <<e.x, e.y>> = Multiples[e.key]
    ELSE /\ kernel \notin {"mine", "mine_incremental"}
         /\ e.x = 0 /\ e.y = 0

(* The key of candidate i; for a guarded base nothing is a key.            *)
CandidateKey(i) ==
  CASE kernel \in {"mine", "derive_test"} -> Derive[seed][counter + i]
    [] kernel = "mine_incremental" ->
         LET b == Derive[seed][counter]
         IN  IF b \in 1 .. n - 1 THEN (b + i) % n ELSE 0
    [] kernel \in {"mine_incremental_raw_test", "ec_test"} -> (seed + i) % n

(* No valid key of the batch is skipped and every key is that of its       *)
(* candidate: mine passes over the digests that are no scalars, the walk   *)
(* only over the point at infinity, and its keys wrap at n as its points   *)
(* do.                                                                     *)
NoCandidateSkipped ==
  (pc = "done" /\ results = <<>>) =>
    LET last == IF kernel \in {"derive_test", "ec_test"} THEN 0 ELSE ITERS - 1
    IN  {<<e.it, e.key>> : e \in {f \in emitted : f.x # 0 \/ f.y # 0}} =
          {<<i, CandidateKey(i)>> :
             i \in {j \in 0 .. last : CandidateKey(j) \in 1 .. n - 1}}

(* The words come out exact and reduced for every pair of operands: the    *)
(* carry of an addition past the last word, the borrow of a subtraction,   *)
(* the carries inside a fold, a fold that leaves a high half, the last     *)
(* subtractions and the reduction modulo n.                                *)
FieldIsExact ==
  results # <<>> =>
    \A b \in DOMAIN results.out :
      LET a == results.a
          r == results.out[b]
      IN  CASE results.op = "add" -> r = (a + b) % p
            [] results.op = "sub" -> r = (a - b) % p
            [] results.op = "mul" -> r = (a * b) % p
            [] results.op = "inv" -> /\ r \in 0 .. p - 1
                                     /\ (r * b) % p = IF b = 0 THEN 0 ELSE 1
            [] results.op = "add_mod_n" -> r = (a + b) % n

(* A dispatch of mine_incremental yields one keccak-derived base scalar    *)
(* per thread and batch, then consecutive keys (gpu/mod.rs:702-705).       *)
KeysAreConsecutive ==
  entry = "mine_incremental" =>
    \A e \in emitted : e.key = (Derive[seed][counter] + e.it) % n

=============================================================================
