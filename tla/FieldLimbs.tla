----------------------------- MODULE FieldLimbs -----------------------------
(***************************************************************************)
(* Arithmetic on words as the GPU does it: the field of                    *)
(* src/kernels/field.metal and the scalars of miner.metal.  A value is a   *)
(* sequence of LIMBS words of WORD bits, the least significant first (v[0] *)
(* of the code is the first); a uint is a word, a ulong two, and           *)
(* p = 2^(WORD*LIMBS) - 2^WORD - C (2^256 - 2^32 - 977 in the code).       *)
(***************************************************************************)
EXTENDS Integers, Sequences

CONSTANTS
  WORD, LIMBS,    \* 32 and 8 in the code
  C,              \* 977 in the code
  n               \* the order of the group of secp256k1

(* The powers of two in a word, and what the words of a product count.     *)
PowerOfTwo[i \in 0 .. WORD] == IF i = 0 THEN 1 ELSE 2 * PowerOfTwo[i - 1]
W == PowerOfTwo[WORD]
Weight[i \in 0 .. 2 * LIMBS] == IF i = 0 THEN 1 ELSE W * Weight[i - 1]
p == Weight[LIMBS] - W - C

ASSUME FieldAssumption ==
  /\ {WORD, LIMBS, C, n} \subseteq Nat
  /\ WORD > 1 /\ LIMBS > 1 /\ C \in 1 .. W - 2
  /\ n > 2 /\ n < Weight[LIMBS]

(* p is a prime: it divides no product of smaller numbers.                 *)
ASSUME PrimeAssumption == \A x, y \in 1 .. p - 1 : (x * y) % p # 0

ulong(x) == x % (W * W)

Words(len) == [1 .. len -> 0 .. W - 1]
Fe == Words(LIMBS)

(* u256_to_limbs and limbs_to_u256; bytes_be_to_fe and fe_to_bytes_be.     *)
Limbs(x) == [i \in 1 .. LIMBS |-> (x \div Weight[i - 1]) % W]
Total(v, len) ==
  LET upTo[i \in 0 .. len] ==
        IF i = 0 THEN 0 ELSE upTo[i - 1] + v[i] * Weight[i - 1]
  IN  upTo[len]
Value(v) == Total(v, LIMBS)

P == [i \in 1 .. LIMBS |-> CASE i = 1 -> W - C [] i = 2 -> W - 2
                             [] OTHER -> W - 1]
PM2 == [P EXCEPT ![1] = @ - 2]
SECP_N == Limbs(n)

Zeros(len) == [i \in 1 .. len |-> 0]
fe_is_zero(a) == a = Zeros(LIMBS)
fe_from_u32(x) == [Zeros(LIMBS) EXCEPT ![1] = x]

(* Bit i of a value, counted over the words.                               *)
Bit(a, i) == (a[(i \div WORD) + 1] \div PowerOfTwo[i % WORD]) % 2 = 1

(* The highest word that differs decides; equal values are "at least".     *)
AtLeast(a, b) ==
  \/ a = b
  \/ \E i \in 1 .. LIMBS :
       a[i] > b[i] /\ \A j \in i + 1 .. LIMBS : a[j] = b[j]

ge_p(a) == AtLeast(a, P)

----------------------------------------------------------------------------
(* The loops of the code run over the words with a carry (or a borrow) of  *)
(* the word before; what is left after the last word is kept too.          *)

NoWords == [words |-> <<>>, left |-> 0]

Carry(before, x) ==
  LET s == ulong(x + before.left)
  IN  [words |-> Append(before.words, s % W), left |-> s \div W]

Borrow(before, x) ==
  LET s == ulong(x - before.left)
  IN  [words |-> Append(before.words, s % W), left |-> (s \div W) % 2]

Added(sum, len) ==
  LET upTo[k \in 0 .. len] ==
        IF k = 0 THEN NoWords ELSE Carry(upTo[k - 1], sum[k])
  IN  upTo[len]

Subtracted(a, b) ==
  LET upTo[k \in 0 .. LIMBS] ==
        IF k = 0 THEN NoWords ELSE Borrow(upTo[k - 1], a[k] - b[k])
  IN  upTo[LIMBS]

sub_p(a) == Subtracted(a, P).words

OverflowLost(s) == ge_p(s.words)
MustSubtract(s) == s.left # 0 \/ ge_p(s.words)

BelowP(s) == IF MustSubtract(s) THEN sub_p(s.words) ELSE s.words
WordSums(a, b) == [k \in 1 .. LIMBS |-> a[k] + b[k]]

FromZero(d) == IF d.left # 0 THEN Added(WordSums(d.words, P), LIMBS).words
                             ELSE d.words

fe_add(a, b) == BelowP(Added(WordSums(a, b), LIMBS))
fe_sub(a, b) == FromZero(Subtracted(a, b))

(* The high half H of t, as H * C and as H one word up, goes into the low; *)
(* a carry runs on into the high half.                                     *)
High(t) == [k \in 1 .. 2 * LIMBS |-> IF k <= LIMBS THEN t[LIMBS + k] ELSE 0]
Low(t) == [k \in 1 .. 2 * LIMBS |-> IF k <= LIMBS THEN t[k] ELSE 0]

PlusTimesC(low, H) ==
  Added([k \in 1 .. 2 * LIMBS |-> low[k] + H[k] * C], 2 * LIMBS).words
PlusTimesW(low, H) ==
  Added([k \in 1 .. 2 * LIMBS |-> low[k] + IF k = 1 THEN 0 ELSE H[k - 1]],
        2 * LIMBS).words

fold_once(t) == PlusTimesW(PlusTimesC(Low(t), High(t)), High(t))

hi_nonzero(t) == \E i \in LIMBS + 1 .. 2 * LIMBS : t[i] # 0

(* Row i of the schoolbook product, added at word i.                       *)
Overlaid(prod, row, i) ==
  [k \in 1 .. 2 * LIMBS |->
     CASE k \in i .. i + LIMBS - 1 -> row.words[k - i + 1]
       [] k = i + LIMBS -> row.left
       [] OTHER -> prod[k]]

AddRow(prod, ai, b, i) ==
  Overlaid(prod, Added([j \in 1 .. LIMBS |-> ai * b[j] + prod[i + j - 1]],
                       LIMBS), i)

Product(a, b) ==
  LET rows[i \in 0 .. LIMBS] ==
        IF i = 0 THEN Zeros(2 * LIMBS) ELSE AddRow(rows[i - 1], a[i], b, i)
  IN  rows[LIMBS]

(* while (hi_nonzero) fold_once, and while (ge_p) sub_p.                   *)
Folded(t) ==
  LET loop[u \in Words(2 * LIMBS)] ==
        IF hi_nonzero(u) THEN loop[fold_once(u)] ELSE u
  IN  loop[t]

Reduced(a) ==
  LET loop[r \in Fe] == IF ge_p(r) THEN loop[sub_p(r)] ELSE r
  IN  loop[a]

LowHalf(t) == [k \in 1 .. LIMBS |-> t[k]]

fe_mul(a, b) == Reduced(LowHalf(Folded(Product(a, b))))

(* Square and multiply over p - 2, most significant bit first.             *)
SquareAndMultiply(r, a, i) ==
  IF Bit(PM2, i) THEN fe_mul(fe_mul(r, r), a) ELSE fe_mul(r, r)

fe_inv(a) ==
  LET loop[bits \in 0 .. WORD * LIMBS] ==
        [r \in Fe |-> IF bits = 0 THEN r
                      ELSE loop[bits - 1][SquareAndMultiply(r, a, bits - 1)]]
  IN  loop[WORD * LIMBS][fe_from_u32(1)]

----------------------------------------------------------------------------
(* miner.metal: scalars modulo n                                           *)

scalar_ge_n(k) == AtLeast(k, SECP_N)
scalar_in_range(k) == ~fe_is_zero(k) /\ ~scalar_ge_n(k)

Unreduced(base, it) ==
  Added([base EXCEPT ![1] = @ + it], LIMBS).words

(* base + it, the carry of the last word dropped, and one subtraction.     *)
BelowN(r) == IF scalar_ge_n(r) THEN Subtracted(r, SECP_N).words ELSE r
scalar_add_small(base, it) == BelowN(Unreduced(base, it))

=============================================================================
