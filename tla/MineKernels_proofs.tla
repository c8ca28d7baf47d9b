------------------------- MODULE MineKernels_proofs -------------------------
(***************************************************************************)
(* That the words of FieldLimbs compute the field and the scalars exactly, *)
(* for every width, number of words and prime of that shape: sums of words *)
(* and their carries, differences and their borrows, products row by row,  *)
(* folds until no high half is left, and inverses by the power p - 2.      *)
(* Then that the threads of MineKernels stay on reduced words and emit     *)
(* each candidate of a batch once, with its own key; that double and add   *)
(* in Jacobian coordinates multiplies by the scalar in the group of the    *)
(* chord and tangent rule; and so that every key opens its point and no    *)
(* key of a batch is skipped.                                              *)
(***************************************************************************)
EXTENDS MineKernels, NumberLemmas

(* g[i] is the i-th power of m.                                            *)
IsPowers(g, m, N) == g = [i \in 0 .. N |-> IF i = 0 THEN 1 ELSE m * g[i - 1]]

(* The equation of the powers has a solution,                              *)
LEMMA PowersExist ==
  ASSUME NEW m \in Nat \ {0}, NEW N \in Nat
  PROVE  \E g : IsPowers(g, m, N)
  <1> DEFINE S == Nat \ {0}
             step == [i \in 1 .. N |-> [x \in S |-> m * x]]
  <1>1. \A x \in S : m * x \in S
    BY ProductAtLeast
  <1>2. step \in [1 .. N -> [S -> S]] /\ 1 \in S
    BY <1>1
  <1>3. PICK f : IsSteps(f, S, 1, step, N)
    <2> HIDE DEF S, step
    <2> QED
      BY <1>2, StepsExist
  <1>4. \A i \in 1 .. N : f[i] = m * f[i - 1]
    <2> SUFFICES ASSUME NEW i \in 1 .. N PROVE f[i] = m * f[i - 1]
      OBVIOUS
    <2>1. f[i - 1] \in S
      <3> HIDE DEF S, step
      <3> QED
        BY <1>3 DEF IsSteps
    <2> QED
      BY <1>3, <2>1 DEF IsSteps
  <1>5. IsPowers(f, m, N)
    <2> HIDE DEF step
    <2> QED
      BY <1>3, <1>4 DEF IsPowers, IsSteps
  <1> QED
    BY <1>5

(* and only positive ones.                                                 *)
LEMMA PowersTyped ==
  ASSUME NEW m \in Nat \ {0}, NEW N \in Nat, NEW g, IsPowers(g, m, N)
  PROVE  /\ g \in [0 .. N -> Nat \ {0}] /\ g[0] = 1
         /\ \A i \in 1 .. N : g[i] = m * g[i - 1]
  <1>1. /\ g = [i \in 0 .. N |-> g[i]] /\ g[0] = 1
        /\ \A i \in 1 .. N : g[i] = m * g[i - 1]
    BY DEF IsPowers
  <1> DEFINE Good == {i \in Nat : i <= N => g[i] \in Nat \ {0}}
  <1>2. ASSUME NEW i \in Good PROVE i + 1 \in Good
    <2> SUFFICES ASSUME i + 1 <= N PROVE g[i + 1] \in Nat \ {0}
      OBVIOUS
    <2>1. i + 1 \in 1 .. N /\ (i + 1) - 1 = i /\ g[i] \in Nat \ {0}
      OBVIOUS
    <2>2. g[i + 1] = m * g[i]
      BY <1>1, <2>1
    <2> QED
      BY <2>1, <2>2, ProductAtLeast
  <1>3. Good = Nat
    <2>1. Good \in SUBSET Nat /\ 0 \in Good
      BY <1>1
    <2> HIDE DEF Good
    <2> QED
      BY <1>2, <2>1, GoodNaturals
  <1>4. \A i \in 0 .. N : g[i] \in Nat \ {0}
    BY <1>3
  <1> QED
    BY <1>1, <1>4

(* The widths of a word and of a value.                                    *)
LEMMA Widths ==
  /\ WORD \in Nat /\ WORD > 1 /\ LIMBS \in Nat /\ LIMBS > 1
  /\ C \in Nat /\ n \in Nat
  BY FieldAssumption

(* PowerOfTwo doubles from bit to bit.                                     *)
LEMMA TwoPowers ==
  /\ PowerOfTwo \in [0 .. WORD -> Nat \ {0}] /\ PowerOfTwo[0] = 1
  /\ \A i \in 1 .. WORD : PowerOfTwo[i] = 2 * PowerOfTwo[i - 1]
  <1>1. \E g : IsPowers(g, 2, WORD)
    BY PowersExist, Widths
  <1>2. IsPowers(PowerOfTwo, 2, WORD)
    BY <1>1 DEF PowerOfTwo, IsPowers
  <1> QED
    BY <1>2, PowersTyped, Widths

(* The numbers of the code, in their order.                                *)
LEMMA Constants ==
  /\ W \in Nat \ {0} /\ W > 2
  /\ C \in 1 .. W - 2
  /\ n > 2
  <1>1. W \in Nat \ {0}
    BY TwoPowers, Widths DEF W
  <1>2. C \in 1 .. W - 2
    BY FieldAssumption
  <1> QED
    BY <1>1, <1>2, FieldAssumption

(* Weight grows by a word from place to place.                             *)
LEMMA Weights ==
  /\ Weight \in [0 .. 2 * LIMBS -> Nat \ {0}] /\ Weight[0] = 1
  /\ \A i \in 1 .. 2 * LIMBS : Weight[i] = W * Weight[i - 1]
  <1>1. \E g : IsPowers(g, W, 2 * LIMBS)
    BY PowersExist, Widths, Constants
  <1>2. IsPowers(Weight, W, 2 * LIMBS)
    BY <1>1 DEF Weight, IsPowers
  <1>3. 2 * LIMBS \in Nat
    BY Widths
  <1> QED
    BY <1>2, <1>3, PowersTyped, Constants

----------------------------------------------------------------------------
(* The value of words                                                      *)

Numbers(v, len) == \A i \in 1 .. len : v[i] \in Nat

IsTotals(f, v, len) ==
  f = [i \in 0 .. len |-> IF i = 0 THEN 0 ELSE f[i - 1] + v[i] * Weight[i - 1]]

(* The sums over the first words exist,                                    *)
LEMMA TotalsExist ==
  ASSUME NEW len \in Nat, len <= 2 * LIMBS, NEW v, Numbers(v, len)
  PROVE  \E f \in [0 .. len -> Nat] : IsTotals(f, v, len)
  <1> DEFINE step == [i \in 1 .. len |-> [x \in Nat |-> x + v[i] * Weight[i - 1]]]
  <1>1. ASSUME NEW i \in 1 .. len PROVE v[i] * Weight[i - 1] \in Nat
    <2>1. i - 1 \in 0 .. 2 * LIMBS
      BY Widths
    <2>2. Weight[i - 1] \in Nat /\ v[i] \in Nat
      BY <2>1, Weights DEF Numbers
    <2> QED
      BY <2>2
  <1>2. step \in [1 .. len -> [Nat -> Nat]]
    BY <1>1
  <1>3. PICK f : IsSteps(f, Nat, 0, step, len)
    <2> HIDE DEF step
    <2> QED
      BY <1>2, StepsExist
  <1>4. ASSUME NEW i \in 1 .. len PROVE f[i] = f[i - 1] + v[i] * Weight[i - 1]
    <2>1. f[i - 1] \in Nat /\ f[i] = step[i][f[i - 1]]
      <3> HIDE DEF step
      <3> QED
        BY <1>3 DEF IsSteps
    <2> QED
      BY <2>1
  <1>5. f \in [0 .. len -> Nat] /\ f[0] = 0
    BY <1>3 DEF IsSteps
  <1>6. IsTotals(f, v, len)
    <2> HIDE DEF step
    <2> QED
      BY <1>4, <1>5 DEF IsTotals
  <1> QED
    BY <1>5, <1>6

(* start with nothing and add a word at a time;                            *)
LEMMA TotalsLaw ==
  ASSUME NEW len \in Nat, NEW v, NEW f, IsTotals(f, v, len)
  PROVE  /\ IsTable(f, len) /\ f[0] = 0
         /\ \A i \in 1 .. len : f[i] = f[i - 1] + v[i] * Weight[i - 1]
  <1>1. IsTable(f, len) /\ f[0] = 0
    BY DEF IsTotals, IsTable
  <1>2. ASSUME NEW i \in 1 .. len PROVE f[i] = f[i - 1] + v[i] * Weight[i - 1]
    BY DEF IsTotals
  <1> QED
    BY <1>1, <1>2

TellsTotal(f, v, len) ==
  /\ f \in [0 .. len -> Nat] /\ f[0] = 0 /\ Total(v, len) = f[len]
  /\ \A i \in 1 .. len : f[i] = f[i - 1] + v[i] * Weight[i - 1]

(* Total reads the last of them.                                           *)
LEMMA TotalTable ==
  ASSUME NEW len \in Nat, len <= 2 * LIMBS, NEW v, Numbers(v, len)
  PROVE  \E f : TellsTotal(f, v, len)
  <1>1. PICK f \in [0 .. len -> Nat] : IsTotals(f, v, len)
    BY TotalsExist
  <1>2. PICK g : IsTotals(g, v, len) /\ Total(v, len) = g[len]
    BY <1>1 DEF Total, IsTotals
  <1>3. /\ IsTable(f, len) /\ IsTable(g, len) /\ f[0] = 0 /\ g[0] = 0
        /\ \A i \in 1 .. len : f[i] = f[i - 1] + v[i] * Weight[i - 1]
        /\ \A i \in 1 .. len : g[i] = g[i - 1] + v[i] * Weight[i - 1]
    BY <1>1, <1>2, TotalsLaw
  <1>4. \A i \in 1 .. len : f[i - 1] = g[i - 1] => f[i] = g[i]
    BY <1>3
  <1>5. f = g
    <2>1. f[0] = g[0]
      BY <1>3
    <2> QED
      BY ONLY <1>3, <1>4, <2>1, SameSteps, len \in Nat
  <1> QED
    BY <1>1, <1>2, <1>3, <1>5 DEF TellsTotal

(* A total is a natural.                                                   *)
LEMMA TotalType ==
  ASSUME NEW len \in Nat, len <= 2 * LIMBS, NEW v, Numbers(v, len)
  PROVE  Total(v, len) \in Nat
  BY TotalTable DEF TellsTotal

(* No words are worth nothing.                                             *)
LEMMA TotalZero ==
  ASSUME NEW v
  PROVE  Total(v, 0) = 0
  <1>1. 0 <= 2 * LIMBS /\ Numbers(v, 0)
    BY Widths DEF Numbers
  <1> QED
    BY <1>1, TotalTable DEF TellsTotal

(* One word more is worth the word times its weight more.                  *)
LEMMA TotalNext ==
  ASSUME NEW k \in Nat, k + 1 <= 2 * LIMBS, NEW v, Numbers(v, k + 1)
  PROVE  /\ Total(v, k) \in Nat /\ v[k + 1] \in Nat
         /\ Weight[k] \in Nat \ {0} /\ Weight[k + 1] = W * Weight[k]
         /\ Total(v, k + 1) = Total(v, k) + v[k + 1] * Weight[k]
  <1>1. PICK f : TellsTotal(f, v, k + 1)
    <2>1. k + 1 \in Nat
      OBVIOUS
    <2> QED
      BY <2>1, TotalTable
  <1>2. k <= 2 * LIMBS /\ Numbers(v, k) /\ v[k + 1] \in Nat
    BY Widths DEF Numbers
  <1>3. PICK g : TellsTotal(g, v, k)
    BY <1>2, TotalTable
  <1> DEFINE h == [i \in 0 .. k |-> f[i]]
  <1>4. IsTable(h, k) /\ IsTable(g, k) /\ h[0] = g[0]
    BY <1>1, <1>3 DEF IsTable, TellsTotal
  <1>5. ASSUME NEW i \in 1 .. k, h[i - 1] = g[i - 1] PROVE h[i] = g[i]
    <2>1. /\ i \in 1 .. k + 1 /\ i \in 0 .. k /\ i - 1 \in 0 .. k
      OBVIOUS
    <2>2. f[i] = f[i - 1] + v[i] * Weight[i - 1]
      BY <1>1, <2>1 DEF TellsTotal
    <2>3. g[i] = g[i - 1] + v[i] * Weight[i - 1]
      BY <1>3 DEF TellsTotal
    <2> QED
      BY <1>5, <2>1, <2>2, <2>3
  <1>6. h = g
    <2> HIDE DEF h
    <2> QED
      BY ONLY <1>4, <1>5, SameSteps, k \in Nat
  <1>7. f[k] = g[k]
    BY <1>6
  <1>8. f[k + 1] = f[k] + v[k + 1] * Weight[k]
    <2>1. k + 1 \in 1 .. k + 1 /\ (k + 1) - 1 = k
      OBVIOUS
    <2> QED
      BY <1>1, <2>1 DEF TellsTotal
  <1>9. Weight[k] \in Nat \ {0} /\ Weight[k + 1] = W * Weight[k]
    <2>1. k \in 0 .. 2 * LIMBS /\ k + 1 \in 1 .. 2 * LIMBS /\ (k + 1) - 1 = k
      BY Widths
    <2> QED
      BY <2>1, Weights
  <1>10. Total(v, k) \in Nat /\ Total(v, k) = g[k] /\ Total(v, k + 1) = f[k + 1]
    BY <1>1, <1>3 DEF TellsTotal
  <1> QED
    BY <1>2, <1>7, <1>8, <1>9, <1>10

(* The value is linear in the words.                                       *)
LEMMA TotalLinear ==
  ASSUME NEW len \in Nat, len <= 2 * LIMBS, NEW a, NEW b, NEW c, NEW m \in Nat,
         Numbers(a, len), Numbers(b, len),
         \A k \in 1 .. len : c[k] = a[k] + m * b[k]
  PROVE  /\ Numbers(c, len)
         /\ Total(c, len) = Total(a, len) + m * Total(b, len)
  <1>1. Numbers(c, len)
    BY DEF Numbers
  <1> DEFINE Good == {k \in 0 .. len : Total(c, k) = Total(a, k) + m * Total(b, k)}
  <1>2. 0 \in Good
    BY TotalZero
  <1>3. ASSUME NEW k \in Good, k < len PROVE k + 1 \in Good
    <2>1. k \in Nat /\ k + 1 <= 2 * LIMBS /\ k + 1 \in 1 .. len
      BY <1>3, Widths
    <2>2. Numbers(a, k + 1) /\ Numbers(b, k + 1) /\ Numbers(c, k + 1)
      BY <1>1, <2>1 DEF Numbers
    <2>3. PICK w \in Nat : w = Weight[k]
      BY <2>1, <2>2, TotalNext
    <2>4. PICK x \in Nat, y \in Nat, z \in Nat :
            x = Total(a, k) /\ y = Total(b, k) /\ z = Total(c, k)
      BY <2>1, <2>2, TotalNext
    <2>5. PICK i \in Nat, j \in Nat : i = a[k + 1] /\ j = b[k + 1]
      BY <2>1, <2>2, TotalNext
    <2>6. c[k + 1] = i + m * j
      BY <2>1, <2>5
    <2>7. /\ Total(a, k + 1) = x + i * w /\ Total(b, k + 1) = y + j * w
          /\ Total(c, k + 1) = z + (i + m * j) * w
      BY <2>1, <2>2, <2>3, <2>4, <2>5, <2>6, TotalNext
    <2>8. z = x + m * y
      BY <2>4
    <2>9. z + (i + m * j) * w = (x + i * w) + m * (y + j * w)
      BY ONLY <2>8, m \in Nat, x \in Nat, y \in Nat, i \in Nat, j \in Nat, w \in Nat
    <2> QED
      BY <1>3, <2>1, <2>7, <2>9
  <1>4. len \in Good
    <2>1. Good \in SUBSET Nat
      OBVIOUS
    <2> HIDE DEF Good
    <2> QED
      BY <1>2, <1>3, <2>1, GoodUpTo
  <1> QED
    BY <1>1, <1>4

(* Words that are the same are worth the same.                             *)
LEMMA TotalSame ==
  ASSUME NEW len \in Nat, len <= 2 * LIMBS, NEW a, NEW b,
         Numbers(a, len), \A k \in 1 .. len : a[k] = b[k]
  PROVE  Numbers(b, len) /\ Total(b, len) = Total(a, len)
  <1>1. \A k \in 1 .. len : b[k] = a[k] + 0 * a[k]
    BY DEF Numbers
  <1>2. Numbers(b, len) /\ Total(b, len) = Total(a, len) + 0 * Total(a, len)
    BY <1>1, TotalLinear
  <1> QED
    BY <1>2, TotalType

(* len words, each less than W                                             *)
AreWords(v, len) == \A i \in 1 .. len : v[i] \in 0 .. W - 1

(* Words are naturals.                                                     *)
LEMMA WordsAreNumbers ==
  ASSUME NEW len, NEW v, AreWords(v, len)
  PROVE  Numbers(v, len)
  BY Constants DEF AreWords, Numbers

(* Words are worth less than the weight after the last.                    *)
LEMMA TotalBound ==
  ASSUME NEW len \in Nat, len <= 2 * LIMBS, NEW v, AreWords(v, len)
  PROVE  Weight[len] \in Nat \ {0} /\ Total(v, len) \in 0 .. Weight[len] - 1
  <1> DEFINE Good == {k \in 0 .. len : Total(v, k) < Weight[k]}
  <1>1. 0 \in Good
    BY TotalZero, Weights, Widths
  <1>2. ASSUME NEW k \in Good, k < len PROVE k + 1 \in Good
    <2>1. k \in Nat /\ k + 1 <= 2 * LIMBS /\ k + 1 \in 1 .. len
      BY <1>2, Widths
    <2>2. Numbers(v, k + 1) /\ v[k + 1] \in 0 .. W - 1
      BY <2>1, Constants DEF Numbers, AreWords
    <2>3. PICK w \in Nat \ {0} : w = Weight[k] /\ Weight[k + 1] = W * w
      BY <2>1, <2>2, TotalNext
    <2>4. PICK x \in Nat, i \in 0 .. W - 1 :
            /\ x = Total(v, k) /\ i = v[k + 1] /\ Total(v, k + 1) = x + i * w
      BY <2>1, <2>2, <2>3, TotalNext
    <2>5. x < w
      BY <2>3, <2>4
    <2>6. PICK e \in Nat : W = i + 1 + e
      <3>1. W - i - 1 \in Nat /\ W = i + 1 + (W - i - 1)
        BY <2>4, Constants
      <3> QED
        BY <3>1
    <2>7. W * w = i * w + w + e * w /\ e * w \in Nat /\ i * w \in Nat
      BY ONLY <2>6, e \in Nat, w \in Nat \ {0}, i \in 0 .. W - 1
    <2>8. x + i * w < W * w
      BY ONLY <2>5, <2>7, x \in Nat, w \in Nat \ {0}
    <2> QED
      BY <2>1, <2>3, <2>4, <2>8
  <1>3. len \in Good
    <2>1. Good \in SUBSET Nat
      OBVIOUS
    <2> HIDE DEF Good
    <2> QED
      BY <1>1, <1>2, <2>1, GoodUpTo
  <1>4. Total(v, len) \in Nat
    BY TotalType, WordsAreNumbers
  <1>5. Weight[len] \in Nat \ {0}
    BY Weights, Widths
  <1> QED
    BY <1>3, <1>4, <1>5

(* Weights multiply as their places add.                                   *)
LEMMA WeightProduct ==
  ASSUME NEW i \in Nat, NEW k \in Nat, i + k <= 2 * LIMBS
  PROVE  Weight[i] \in Nat \ {0} /\ Weight[k] \in Nat \ {0}
         /\ Weight[i + k] = Weight[i] * Weight[k]
  <1>1. PowerLaw(Weight, W, 2 * LIMBS) /\ 2 * LIMBS \in Nat
    BY Weights, Widths DEF PowerLaw
  <1> QED
    BY <1>1, PowersMultiply, Constants

(* The words from i on count Weight[i] times as much.                      *)
LEMMA TotalSplit ==
  ASSUME NEW i \in Nat, NEW len \in Nat, i + len <= 2 * LIMBS,
         NEW v, Numbers(v, i + len), NEW u, \A k \in 1 .. len : u[k] = v[i + k]
  PROVE  /\ Numbers(v, i) /\ Numbers(u, len)
         /\ Total(v, i + len) = Total(v, i) + Weight[i] * Total(u, len)
  <1>0. Numbers(v, i) /\ Numbers(u, len)
    <2>1. Numbers(v, i)
      BY DEF Numbers
    <2>2. ASSUME NEW k \in 1 .. len PROVE u[k] \in Nat
      <3>1. i + k \in 1 .. i + len
        OBVIOUS
      <3> QED
        BY <3>1 DEF Numbers
    <2> QED
      BY <2>1, <2>2 DEF Numbers
  <1>1. PICK x \in Nat, y \in Nat : x = Total(v, i) /\ y = Weight[i]
    <2>1. i \in 0 .. 2 * LIMBS /\ i <= 2 * LIMBS
      BY Widths
    <2>2. Weight[i] \in Nat /\ Total(v, i) \in Nat
      BY <1>0, <2>1, Weights, TotalType
    <2> QED
      BY <2>2
  <1> DEFINE Good == {k \in 0 .. len : Total(v, i + k) = x + y * Total(u, k)}
  <1>2. 0 \in Good
    BY <1>1, TotalZero
  <1>3. ASSUME NEW k \in Good, k < len PROVE k + 1 \in Good
    <2>1. /\ k \in Nat /\ i + k \in Nat /\ (i + k) + 1 <= 2 * LIMBS
          /\ k + 1 <= 2 * LIMBS /\ k + 1 \in 1 .. len /\ (i + k) + 1 = i + (k + 1)
      BY <1>3, Widths
    <2>2. Numbers(v, (i + k) + 1) /\ Numbers(u, k + 1)
      BY <1>0, <2>1 DEF Numbers
    <2>3. PICK d \in Nat, e \in Nat, w \in Nat :
            /\ d = Total(u, k) /\ e = u[k + 1] /\ w = Weight[k]
            /\ Total(u, k + 1) = d + e * w
      <3>1. /\ Total(u, k) \in Nat /\ u[k + 1] \in Nat
            /\ Weight[k] \in Nat \ {0}
            /\ Total(u, k + 1) = Total(u, k) + u[k + 1] * Weight[k]
        BY <2>1, <2>2, TotalNext
      <3> QED
        BY <3>1
    <2>4. /\ Total(v, (i + k) + 1) = Total(v, i + k) + v[(i + k) + 1] * Weight[i + k]
      BY <2>1, <2>2, TotalNext
    <2>5. Weight[i + k] = y * w
      <3>1. i + k <= 2 * LIMBS
        BY <2>1, Widths
      <3> QED
        BY <1>1, <2>1, <2>3, <3>1, WeightProduct
    <2>6. v[(i + k) + 1] = e /\ Total(v, i + k) = x + y * d
      BY <2>1, <2>3
    <2>7. (x + y * d) + e * (y * w) = x + y * (d + e * w)
      BY ONLY x \in Nat, y \in Nat, d \in Nat, e \in Nat, w \in Nat
    <2>8. Total(v, i + (k + 1)) = x + y * Total(u, k + 1)
      BY <2>1, <2>3, <2>4, <2>5, <2>6, <2>7
    <2> QED
      BY <1>3, <2>1, <2>8
  <1>4. len \in Good
    <2>1. Good \in SUBSET Nat
      OBVIOUS
    <2> HIDE DEF Good
    <2> QED
      BY ONLY <1>2, <1>3, <2>1, GoodUpTo, len \in Nat
  <1> QED
    BY <1>0, <1>1, <1>4

(* Words of zero are worth nothing.                                        *)
LEMMA TotalOfZeros ==
  ASSUME NEW len \in Nat, len <= 2 * LIMBS, NEW v, \A k \in 1 .. len : v[k] = 0
  PROVE  Numbers(v, len) /\ Total(v, len) = 0
  <1>1. Numbers(v, len) /\ \A k \in 1 .. len : v[k] = v[k] + 1 * v[k]
    BY DEF Numbers
  <1>2. Total(v, len) = Total(v, len) + 1 * Total(v, len)
    BY <1>1, TotalLinear
  <1> QED
    BY <1>1, <1>2, TotalType

(* Words behind the last one that is not zero count nothing.               *)
LEMMA TotalOfFew ==
  ASSUME NEW i \in Nat, NEW len \in Nat, i + len <= 2 * LIMBS,
         NEW v, Numbers(v, i), \A k \in 1 .. len : v[i + k] = 0
  PROVE  Numbers(v, i + len) /\ Total(v, i + len) = Total(v, i)
  <1> DEFINE u == [k \in 1 .. len |-> v[i + k]]
  <1>1. Numbers(v, i + len)
    <2> SUFFICES ASSUME NEW j \in 1 .. i + len PROVE v[j] \in Nat
      BY DEF Numbers
    <2>1. CASE j <= i
      BY <2>1 DEF Numbers
    <2>2. CASE j > i
      <3>1. PICK k \in 1 .. len : j = i + k
        <4>1. j - i \in 1 .. len /\ j = i + (j - i)
          BY <2>2
        <4> QED
          BY <4>1
      <3> QED
        BY <3>1
    <2> QED
      BY <2>1, <2>2
  <1>2. \A k \in 1 .. len : u[k] = v[i + k]
    OBVIOUS
  <1>3. \A k \in 1 .. len : u[k] = 0
    OBVIOUS
  <1> HIDE DEF u
  <1>4. Total(u, len) = 0
    BY <1>3, TotalOfZeros, Widths
  <1>5. Total(v, i + len) = Total(v, i) + Weight[i] * Total(u, len)
    BY ONLY <1>1, <1>2, TotalSplit, i \in Nat, len \in Nat, i + len <= 2 * LIMBS
  <1>6. Weight[i] \in Nat /\ Total(v, i) \in Nat
    <2>1. i \in 0 .. 2 * LIMBS
      BY Widths
    <2> QED
      BY <2>1, Weights, TotalType
  <1> QED
    BY <1>1, <1>4, <1>5, <1>6

(* What a sequence of words is.                                            *)
LEMMA FeWords ==
  ASSUME NEW len \in Nat, NEW v \in Words(len)
  PROVE  AreWords(v, len) /\ Numbers(v, len) /\ v = [i \in 1 .. len |-> v[i]]
  BY Constants DEF Words, AreWords, Numbers

(* The value of the words of the field.                                    *)
LEMMA ValueType ==
  ASSUME NEW v \in Fe
  PROVE  /\ AreWords(v, LIMBS) /\ Numbers(v, LIMBS)
         /\ Weight[LIMBS] \in Nat \ {0}
         /\ Value(v) = Total(v, LIMBS) /\ Value(v) \in 0 .. Weight[LIMBS] - 1
  BY FeWords, TotalBound, Widths DEF Fe, Value

(* The next word of a number is the next digit.                            *)
LEMMA NextWord ==
  ASSUME NEW x \in Nat, NEW w \in Nat \ {0}, NEW d \in Nat, d = (x \div w) % W
  PROVE  x % (W * w) = (x % w) + d * w
  <1>1. PICK b \in Nat \ {0} : b = W
    BY Constants
  <1>2. x % (w * b) = (x % w) + w * d
    <2>1. d = (x \div w) % b
      BY <1>1
    <2> QED
      BY ONLY <2>1, NextDigit, x \in Nat, w \in Nat \ {0}, d \in Nat,
              b \in Nat \ {0}
  <1>3. w * b = b * w /\ w * d = d * w
    OBVIOUS
  <1> QED
    BY <1>1, <1>2, <1>3

(* Limbs undoes Value.                                                     *)
LEMMA LimbsValue ==
  ASSUME NEW x \in Nat, x < Weight[LIMBS]
  PROVE  Limbs(x) \in Fe /\ Value(Limbs(x)) = x
  <1>1. PICK v : v = Limbs(x)
    OBVIOUS
  <1>2. ASSUME NEW i \in 1 .. LIMBS
        PROVE  /\ Weight[i - 1] \in Nat \ {0}
               /\ v[i] = (x \div Weight[i - 1]) % W /\ v[i] \in 0 .. W - 1
    <2>1. i - 1 \in 0 .. 2 * LIMBS
      BY Widths
    <2>2. v[i] = (x \div Weight[i - 1]) % W
      BY <1>1 DEF Limbs
    <2>3. PICK w \in Nat \ {0} : w = Weight[i - 1]
      BY <2>1, Weights
    <2>4. x \div w \in Nat
      BY Divided
    <2>5. (x \div w) % W \in 0 .. W - 1
      BY <2>4, Divided, Constants
    <2> QED
      BY <2>2, <2>3, <2>5
  <1>3. v \in Fe /\ AreWords(v, LIMBS) /\ Numbers(v, LIMBS)
    <2>1. v \in Fe
      BY <1>1, <1>2 DEF Limbs, Fe, Words
    <2> QED
      BY <2>1, ValueType
  <1> DEFINE Good == {k \in 0 .. LIMBS : Total(v, k) = x % Weight[k]}
  <1>4. 0 \in Good
    BY TotalZero, Weights, Widths
  <1>5. ASSUME NEW k \in Good, k < LIMBS PROVE k + 1 \in Good
    <2>1. /\ k \in Nat /\ k + 1 <= 2 * LIMBS /\ k + 1 \in 1 .. LIMBS
          /\ (k + 1) - 1 = k /\ Numbers(v, k + 1)
      BY <1>3, <1>5, Widths DEF Numbers
    <2>2. PICK w \in Nat \ {0}, d \in Nat :
            /\ w = Weight[k] /\ Weight[k + 1] = W * w /\ d = v[k + 1]
            /\ Total(v, k + 1) = Total(v, k) + d * w
      BY <2>1, TotalNext
    <2>3. d = (x \div w) % W
      BY <1>2, <2>1, <2>2
    <2>4. x % (W * w) = (x % w) + d * w
      BY <2>3, NextWord
    <2> QED
      BY <1>5, <2>1, <2>2, <2>4
  <1>6. LIMBS \in Good
    <2>1. Good \in SUBSET Nat
      OBVIOUS
    <2> HIDE DEF Good
    <2> QED
      BY <1>4, <1>5, <2>1, GoodUpTo, Widths
  <1>7. x % Weight[LIMBS] = x
    <2>1. PICK w \in Nat \ {0} : w = Weight[LIMBS]
      BY <1>3, ValueType
    <2>2. x \in 0 .. w - 1 /\ 0 \in Int /\ x = w * 0 + x
      BY <2>1
    <2>3. x % w = x
      BY <2>2, DivisionIs
    <2> QED
      BY <2>1, <2>3
  <1> QED
    BY <1>1, <1>3, <1>6, <1>7 DEF Value

----------------------------------------------------------------------------
(* Comparison                                                              *)

(* i is the highest word that differs.                                     *)
Decides(a, b, i, len) == a[i] # b[i] /\ \A j \in i + 1 .. len : a[j] = b[j]

(* Of different words some pair decides: the highest that differs.         *)
LEMMA SomeWordDecides ==
  ASSUME NEW len \in Nat, NEW a, NEW b, NEW k0 \in 1 .. len, a[k0] # b[k0]
  PROVE  \E i \in 1 .. len : Decides(a, b, i, len)
  <1> DEFINE Good == {k \in 0 .. len : \/ \A j \in 1 .. k : a[j] = b[j]
                                       \/ \E i \in 1 .. k : Decides(a, b, i, k)}
  <1>1. 0 \in Good
    OBVIOUS
  <1>2. ASSUME NEW k \in Good, k < len PROVE k + 1 \in Good
    <2>0. k + 1 \in 0 .. len /\ k \in Nat
      BY <1>2
    <2>1. CASE a[k + 1] # b[k + 1]
      <3>1. k + 1 \in 1 .. k + 1 /\ Decides(a, b, k + 1, k + 1)
        BY <2>0, <2>1 DEF Decides
      <3> QED
        BY <2>0, <3>1
    <2>2. CASE a[k + 1] = b[k + 1] /\ \A j \in 1 .. k : a[j] = b[j]
      <3>1. \A j \in 1 .. k + 1 : a[j] = b[j]
        BY <2>0, <2>2
      <3> QED
        BY <2>0, <3>1
    <2>3. CASE a[k + 1] = b[k + 1] /\ \E i \in 1 .. k : Decides(a, b, i, k)
      <3>1. PICK i \in 1 .. k : Decides(a, b, i, k)
        BY <2>3
      <3>2. i \in 1 .. k + 1 /\ Decides(a, b, i, k + 1)
        BY <2>0, <2>3, <3>1 DEF Decides
      <3> QED
        BY <2>0, <3>2
    <2> QED
      BY <1>2, <2>1, <2>2, <2>3
  <1>3. len \in Good
    <2>1. Good \in SUBSET Nat
      OBVIOUS
    <2> HIDE DEF Good
    <2> QED
      BY <1>1, <1>2, <2>1, GoodUpTo
  <1> QED
    BY <1>3

(* The words that it decides for are worth more.                           *)
LEMMA HigherWordDecides ==
  ASSUME NEW len \in Nat, len <= 2 * LIMBS, NEW a, NEW b,
         AreWords(a, len), AreWords(b, len),
         NEW i \in 1 .. len, Decides(a, b, i, len), a[i] > b[i]
  PROVE  Total(a, len) > Total(b, len)
  <1>0. Numbers(a, len) /\ Numbers(b, len)
    BY WordsAreNumbers
  <1> DEFINE Good == {k \in 0 .. len - i : Total(a, i + k) > Total(b, i + k)}
  <1>1. 0 \in Good
    <2>1. PICK h \in Nat : i = h + 1
      <3>1. i - 1 \in Nat /\ i = (i - 1) + 1
        OBVIOUS
      <3> QED
        BY <3>1
    <2>2. h + 1 <= 2 * LIMBS /\ h <= 2 * LIMBS /\ h <= len
      BY <2>1, Widths
    <2>3. /\ Numbers(a, h + 1) /\ Numbers(b, h + 1)
          /\ AreWords(b, h)
      BY <1>0, <2>1 DEF Numbers, AreWords
    <2>4. PICK w \in Nat \ {0} : w = Weight[h]
      BY <2>2, <2>3, TotalNext
    <2>5. PICK x \in Nat, y \in Nat, c \in Nat, d \in Nat :
            /\ x = Total(a, h) /\ y = Total(b, h) /\ c = a[i] /\ d = b[i]
      BY <2>1, <2>2, <2>3, TotalNext
    <2>6. Total(a, i) = x + c * w /\ Total(b, i) = y + d * w /\ y < w
      BY <2>1, <2>2, <2>3, <2>4, <2>5, TotalNext, TotalBound
    <2>7. PICK e \in Nat : c = d + 1 + e
      <3>1. c - d - 1 \in Nat /\ c = d + 1 + (c - d - 1)
        BY <2>5
      <3> QED
        BY <3>1
    <2>8. c * w = d * w + w + e * w /\ e * w \in Nat /\ d * w \in Nat
      BY ONLY <2>7, d \in Nat, e \in Nat, w \in Nat \ {0}
    <2>9. i + 0 = i /\ 0 \in 0 .. len - i
      OBVIOUS
    <2>10. x + c * w > y + d * w
      BY ONLY <2>6, <2>8, x \in Nat, y \in Nat, w \in Nat \ {0}
    <2> QED
      BY <2>6, <2>9, <2>10
  <1>2. ASSUME NEW k \in Good, k < len - i PROVE k + 1 \in Good
    <2>1. /\ k \in Nat /\ i + k \in Nat /\ (i + k) + 1 <= 2 * LIMBS
          /\ (i + k) + 1 \in i + 1 .. len /\ (i + k) + 1 = i + (k + 1)
      BY <1>2, Widths
    <2>2. Numbers(a, (i + k) + 1) /\ Numbers(b, (i + k) + 1)
      BY <1>0, <2>1 DEF Numbers
    <2>3. a[(i + k) + 1] = b[(i + k) + 1]
      BY <2>1 DEF Decides
    <2>4. PICK w \in Nat, c \in Nat : w = Weight[i + k] /\ c = b[(i + k) + 1]
      BY <2>1, <2>2, TotalNext
    <2>5. /\ Total(a, (i + k) + 1) = Total(a, i + k) + c * w
          /\ Total(b, (i + k) + 1) = Total(b, i + k) + c * w
          /\ Total(a, i + k) \in Nat /\ Total(b, i + k) \in Nat
      BY <2>1, <2>2, <2>3, <2>4, TotalNext
    <2>6. c * w \in Nat
      OBVIOUS
    <2>7. Total(a, (i + k) + 1) > Total(b, (i + k) + 1)
      BY <2>5, <2>6
    <2> QED
      BY <1>2, <2>1, <2>7
  <1>3. len - i \in Good
    <2>1. Good \in SUBSET Nat /\ len - i \in Nat
      OBVIOUS
    <2> HIDE DEF Good
    <2> QED
      BY <1>1, <1>2, <2>1, GoodUpTo
  <1>4. i + (len - i) = len
    OBVIOUS
  <1> QED
    BY <1>3, <1>4

(* The comparison of words is that of the values.                          *)
LEMMA AtLeastIs ==
  ASSUME NEW a \in Fe, NEW b \in Fe
  PROVE  /\ AtLeast(a, b) <=> Value(a) >= Value(b)
         /\ Value(a) = Value(b) => a = b
  <1>0. /\ LIMBS \in Nat /\ LIMBS <= 2 * LIMBS
        /\ AreWords(a, LIMBS) /\ AreWords(b, LIMBS)
        /\ Value(a) = Total(a, LIMBS) /\ Value(b) = Total(b, LIMBS)
        /\ Value(a) \in Nat /\ Value(b) \in Nat
    BY ValueType, Widths
  <1>1. CASE a = b
    BY <1>0, <1>1 DEF AtLeast
  <1>2. CASE a # b
    <2>1. PICK k \in 1 .. LIMBS : a[k] # b[k]
      BY <1>2, FeWords, Widths DEF Fe
    <2>2. PICK i \in 1 .. LIMBS : Decides(a, b, i, LIMBS)
      BY <1>0, <2>1, SomeWordDecides
    <2>3. a[i] \in Nat /\ b[i] \in Nat /\ a[i] # b[i]
      BY <1>0, <2>2, WordsAreNumbers DEF Numbers, Decides
    <2>4. CASE a[i] > b[i]
      <3>1. Value(a) > Value(b)
        BY <1>0, <2>2, <2>4, HigherWordDecides
      <3>2. AtLeast(a, b)
        BY <2>2, <2>4 DEF AtLeast, Decides
      <3> QED
        BY <1>0, <3>1, <3>2
    <2>5. CASE b[i] > a[i]
      <3>1. Decides(b, a, i, LIMBS)
        BY <2>2 DEF Decides
      <3>2. Value(b) > Value(a)
        BY <1>0, <2>5, <3>1, HigherWordDecides
      <3>3. ~AtLeast(a, b)
        <4> SUFFICES ASSUME NEW k2 \in 1 .. LIMBS, a[k2] > b[k2],
                            \A j \in k2 + 1 .. LIMBS : a[j] = b[j]
                     PROVE  FALSE
          BY <1>2 DEF AtLeast
        <4>1. Decides(a, b, k2, LIMBS)
          BY <1>0, WordsAreNumbers DEF Decides, Numbers
        <4>2. Value(a) > Value(b)
          BY <1>0, <4>1, HigherWordDecides
        <4> QED
          BY <1>0, <3>2, <4>2
      <3> QED
        BY <1>0, <3>2, <3>3
    <2> QED
      BY <2>3, <2>4, <2>5
  <1> QED
    BY <1>1, <1>2

----------------------------------------------------------------------------
(* The constants of the field and of the group                             *)

LEMMA TotalOnes ==
  ASSUME NEW len \in Nat, len <= 2 * LIMBS, NEW v, \A k \in 1 .. len : v[k] = W - 1
  PROVE  Numbers(v, len) /\ Total(v, len) = Weight[len] - 1
  <1>0. Numbers(v, len)
    BY Constants DEF Numbers
  <1> DEFINE Good == {k \in 0 .. len : Total(v, k) = Weight[k] - 1}
  <1>1. 0 \in Good
    BY TotalZero, Weights
  <1>2. ASSUME NEW k \in Good, k < len PROVE k + 1 \in Good
    <2>1. k \in Nat /\ k + 1 <= 2 * LIMBS /\ k + 1 \in 1 .. len
      BY <1>2, Widths
    <2>2. Numbers(v, k + 1) /\ v[k + 1] = W - 1
      BY <1>0, <2>1 DEF Numbers
    <2>3. PICK w \in Nat : w = Weight[k] /\ Weight[k + 1] = W * w
      BY <2>1, <2>2, TotalNext
    <2>4. Total(v, k + 1) = (w - 1) + (W - 1) * w
      BY <1>2, <2>1, <2>2, <2>3, TotalNext
    <2>5. (w - 1) + (W - 1) * w = W * w - 1
      BY Constants
    <2> QED
      BY <1>2, <2>1, <2>3, <2>4, <2>5
  <1>3. len \in Good
    <2>1. Good \in SUBSET Nat
      OBVIOUS
    <2> HIDE DEF Good
    <2> QED
      BY <1>1, <1>2, <2>1, GoodUpTo
  <1> QED
    BY <1>0, <1>3

(* The first words may be changed on their own.                            *)
LEMMA FirstWords ==
  ASSUME NEW v, Numbers(v, 2)
  PROVE  /\ Total(v, 1) = v[1] /\ Total(v, 2) = v[1] + v[2] * W
         /\ Weight[0] = 1 /\ Weight[1] = W
  <1>1. /\ 0 \in Nat /\ 0 + 1 = 1 /\ 1 \in Nat /\ 1 + 1 = 2
        /\ 1 <= 2 * LIMBS /\ 2 <= 2 * LIMBS /\ 1 \in 1 .. 2 * LIMBS /\ 1 - 1 = 0
    BY Widths
  <1>2. Weight[0] = 1 /\ Weight[1] = W
    BY <1>1, Weights, Constants
  <1>3. Numbers(v, 1) /\ v[1] \in Nat /\ v[2] \in Nat
    BY DEF Numbers
  <1>4. Total(v, 1) = v[1]
    <2>1. Total(v, 0 + 1) = Total(v, 0) + v[0 + 1] * Weight[0]
      BY <1>1, <1>3, TotalNext
    <2> QED
      BY <1>1, <1>2, <1>3, <2>1, TotalZero
  <1>5. Total(v, 1 + 1) = Total(v, 1) + v[1 + 1] * Weight[1]
    BY <1>1, TotalNext
  <1> QED
    BY <1>1, <1>2, <1>4, <1>5

(* Only the two first words of v are not zero.                             *)
LEMMA TotalOfTwo ==
  ASSUME NEW len \in Nat, 2 <= len, len <= 2 * LIMBS,
         NEW v, Numbers(v, 2), \A k \in 3 .. len : v[k] = 0
  PROVE  Numbers(v, len) /\ Total(v, len) = v[1] + v[2] * W
  <1>1. PICK m \in Nat : len = 2 + m
    <2>1. len - 2 \in Nat /\ len = 2 + (len - 2)
      OBVIOUS
    <2> QED
      BY <2>1
  <1>2. \A k \in 1 .. m : v[2 + k] = 0
    BY <1>1
  <1>3. Numbers(v, 2 + m) /\ Total(v, 2 + m) = Total(v, 2)
    BY <1>1, <1>2, TotalOfFew
  <1> QED
    BY <1>1, <1>3, FirstWords

(* The words of P are worth p.                                             *)
LEMMA ModulusWords ==
  /\ P \in Fe /\ Value(P) = p
  /\ p \in Nat /\ p > W /\ p < Weight[LIMBS] /\ Weight[LIMBS] < p + p
  <1>0. LIMBS \in Nat /\ 2 <= LIMBS /\ LIMBS <= 2 * LIMBS
    BY Widths
  <1>1. P \in Fe
    BY Constants DEF P, Fe, Words
  <1>2. /\ AreWords(P, LIMBS) /\ Numbers(P, LIMBS) /\ Value(P) = Total(P, LIMBS)
        /\ Weight[LIMBS] \in Nat
    BY <1>1, ValueType
  <1> DEFINE ones == [k \in 1 .. LIMBS |-> W - 1]
             less == [k \in 1 .. LIMBS |-> CASE k = 1 -> C - 1 [] k = 2 -> 1
                                             [] OTHER -> 0]
  <1>3. ASSUME NEW k \in 1 .. LIMBS PROVE ones[k] = P[k] + 1 * less[k]
    BY Constants DEF P
  <1>4. Numbers(less, 2) /\ \A k \in 3 .. LIMBS : less[k] = 0
    BY <1>0, Constants DEF Numbers
  <1>5. less[1] = C - 1 /\ less[2] = 1
    BY <1>0
  <1>6. \A k \in 1 .. LIMBS : ones[k] = W - 1
    OBVIOUS
  <1> HIDE DEF ones, less
  <1>7. Numbers(less, LIMBS) /\ Total(less, LIMBS) = (C - 1) + W
    BY <1>0, <1>4, <1>5, TotalOfTwo, Constants
  <1>8. Total(ones, LIMBS) = Weight[LIMBS] - 1
    BY <1>0, <1>6, TotalOnes
  <1>9. Total(ones, LIMBS) = Total(P, LIMBS) + 1 * Total(less, LIMBS)
    BY <1>0, <1>2, <1>3, <1>7, TotalLinear
  <1>10. Total(P, LIMBS) \in Nat
    BY <1>0, <1>2, TotalType
  <1>11. Value(P) = p /\ p \in Nat /\ p < Weight[LIMBS]
    BY <1>2, <1>7, <1>8, <1>9, <1>10, Constants DEF p
  <1>12. Weight[LIMBS] >= W * W
    <2>1. PICK k \in Nat : LIMBS = 1 + (1 + k)
      <3>1. LIMBS - 2 \in Nat /\ LIMBS = 1 + (1 + (LIMBS - 2))
        BY <1>0
      <3> QED
        BY <3>1
    <2>2. 1 + (1 + k) <= 2 * LIMBS /\ 1 + k <= 2 * LIMBS /\ 1 + k \in Nat
      BY <1>0, <2>1
    <2>3. /\ Weight[1 + (1 + k)] = Weight[1] * Weight[1 + k]
          /\ Weight[1 + k] = Weight[1] * Weight[k] /\ Weight[k] \in Nat \ {0}
      BY <2>2, WeightProduct
    <2>4. Weight[1] = W
      BY <1>0, <1>2, FirstWords DEF Numbers
    <2>5. PICK w \in Nat \ {0} : w = Weight[k]
      BY <2>3
    <2>6. Weight[LIMBS] = W * (W * w)
      BY <2>1, <2>3, <2>4, <2>5
    <2>7. W * (W * w) = (W * W) * w /\ W * W \in Nat
      BY Constants
    <2>8. (W * W) * w >= W * W
      BY <2>7, ProductAtLeast
    <2> QED
      BY <2>6, <2>7, <2>8
  <1>13. W * W > 4 * W - 4 /\ W * W >= 3 * W /\ W * W \in Nat
    <2>1. PICK e \in Nat : W = 3 + e
      <3>1. W - 3 \in Nat /\ W = 3 + (W - 3)
        BY Constants
      <3> QED
        BY <3>1
    <2>2. W * W = 9 + 6 * e + e * e /\ e * e \in Nat
      BY ONLY <2>1, e \in Nat
    <2> QED
      BY <2>1, <2>2, Constants
  <1>14. p > W /\ Weight[LIMBS] < p + p
    BY <1>2, <1>12, <1>13, Constants DEF p
  <1> QED
    BY <1>1, <1>2, <1>11, <1>14, Constants DEF p

----------------------------------------------------------------------------
(* Carries                                                                 *)

States == [words : Seq(0 .. W - 1), left : Nat]

(* An ulong holds a sum that fits.                                         *)
LEMMA ulongOf ==
  ASSUME NEW x \in Int
  PROVE  ulong(x) \in 0 .. W * W - 1 /\ (x \in 0 .. W * W - 1 => ulong(x) = x)
  <1>1. PICK m \in Nat \ {0} : m = W * W
    <2>1. W * W \in Nat /\ W * W >= W
      BY Constants, ProductAtLeast
    <2> QED
      BY <2>1, Constants
  <1>2. x % m \in 0 .. m - 1
    OBVIOUS
  <1>3. ASSUME x \in 0 .. m - 1 PROVE x % m = x
    <2>1. 0 \in Int /\ x = m * 0 + x
      OBVIOUS
    <2> QED
      BY <1>3, <2>1, DivisionIs
  <1> QED
    BY <1>1, <1>2, <1>3 DEF ulong

(* A carry leaves words and a natural.                                     *)
LEMMA CarryType ==
  ASSUME NEW before \in States, NEW x \in Nat
  PROVE  Carry(before, x) \in States
  <1>1. PICK y \in Nat : y = ulong(x + before.left)
    BY ulongOf, Constants DEF States
  <1>2. y % W \in 0 .. W - 1 /\ y \div W \in Nat
    BY Divided, Constants
  <1>3. Append(before.words, y % W) \in Seq(0 .. W - 1)
    BY <1>2 DEF States
  <1>4. Carry(before, x) = [words |-> Append(before.words, y % W), left |-> y \div W]
    BY <1>1 DEF Carry
  <1> QED
    BY <1>2, <1>3, <1>4 DEF States

(* The loop starts in such a state.                                        *)
LEMMA NoWordsState == NoWords \in States
  BY DEF NoWords, States

(* f[k] is what the loop has after k words.                                *)
IsAdding(f, sum, len) ==
  f = [k \in 0 .. len |-> IF k = 0 THEN NoWords ELSE Carry(f[k - 1], sum[k])]

AddsUp(f, sum, len) ==
  /\ f \in [0 .. len -> States] /\ f[0] = NoWords /\ Added(sum, len) = f[len]
  /\ \A k \in 1 .. len : f[k] = Carry(f[k - 1], sum[k])

(* The loop of an addition has a result,                                   *)
LEMMA AddingExists ==
  ASSUME NEW len \in Nat, NEW sum, Numbers(sum, len)
  PROVE  \E f \in [0 .. len -> States] : IsAdding(f, sum, len)
  <1> DEFINE step == [k \in 1 .. len |-> [x \in States |-> Carry(x, sum[k])]]
  <1>1. ASSUME NEW k \in 1 .. len, NEW x \in States PROVE Carry(x, sum[k]) \in States
    BY CarryType DEF Numbers
  <1>2. step \in [1 .. len -> [States -> States]]
    BY <1>1
  <1>3. PICK f : IsSteps(f, States, NoWords, step, len)
    <2> HIDE DEF step
    <2> QED
      BY <1>2, StepsExist, NoWordsState
  <1>4. ASSUME NEW k \in 1 .. len PROVE f[k] = Carry(f[k - 1], sum[k])
    <2>1. f[k - 1] \in States /\ f[k] = step[k][f[k - 1]]
      <3> HIDE DEF step
      <3> QED
        BY <1>3 DEF IsSteps
    <2> QED
      BY <2>1
  <1>5. f \in [0 .. len -> States] /\ f[0] = NoWords
    BY <1>3 DEF IsSteps
  <1>6. IsAdding(f, sum, len)
    <2> HIDE DEF step
    <2> QED
      BY <1>4, <1>5 DEF IsAdding
  <1> QED
    BY <1>5, <1>6

(* step by step that of the code,                                          *)
LEMMA AddingLaw ==
  ASSUME NEW len \in Nat, NEW sum, NEW f, IsAdding(f, sum, len)
  PROVE  /\ IsTable(f, len) /\ f[0] = NoWords
         /\ \A k \in 1 .. len : f[k] = Carry(f[k - 1], sum[k])
  <1>1. IsTable(f, len) /\ f[0] = NoWords
    BY DEF IsAdding, IsTable
  <1>2. ASSUME NEW k \in 1 .. len PROVE f[k] = Carry(f[k - 1], sum[k])
    BY DEF IsAdding
  <1> QED
    BY <1>1, <1>2

(* and Added reads the last.                                               *)
LEMMA AddingTable ==
  ASSUME NEW len \in Nat, NEW sum, Numbers(sum, len)
  PROVE  \E f : AddsUp(f, sum, len)
  <1>1. PICK f \in [0 .. len -> States] : IsAdding(f, sum, len)
    BY AddingExists
  <1>2. PICK g : IsAdding(g, sum, len) /\ Added(sum, len) = g[len]
    BY <1>1 DEF Added, IsAdding
  <1>3. /\ IsTable(f, len) /\ IsTable(g, len) /\ f[0] = NoWords /\ g[0] = NoWords
        /\ \A k \in 1 .. len : f[k] = Carry(f[k - 1], sum[k])
        /\ \A k \in 1 .. len : g[k] = Carry(g[k - 1], sum[k])
    BY <1>1, <1>2, AddingLaw
  <1>4. \A k \in 1 .. len : f[k - 1] = g[k - 1] => f[k] = g[k]
    BY <1>3
  <1>5. f = g
    <2>1. f[0] = g[0]
      BY <1>3
    <2> QED
      BY ONLY <1>3, <1>4, <2>1, SameSteps, len \in Nat
  <1> QED
    BY <1>1, <1>2, <1>3, <1>5 DEF AddsUp

(* A word more: s is what it adds up to, with the carry.                   *)
LEMMA CarryIs ==
  ASSUME NEW k \in Nat, NEW words \in Seq(0 .. W - 1), Len(words) = k,
         NEW left \in 0 .. W - 1, NEW x \in 0 .. W * W - W,
         NEW before, before.words = words, before.left = left,
         NEW r, r = Carry(before, x)
  PROVE  /\ r.words \in Seq(0 .. W - 1) /\ Len(r.words) = k + 1
         /\ \A i \in 1 .. k : r.words[i] = words[i]
         /\ r.words[k + 1] \in 0 .. W - 1 /\ r.left \in 0 .. W - 1
         /\ x + left = W * r.left + r.words[k + 1]
  <1>1. PICK m \in Nat : m = W * W
    BY Constants
  <1>2. PICK y \in Nat : y = x + left /\ y < m
    BY <1>1, Constants
  <1>3. ulong(x + left) = y
    BY <1>1, <1>2, ulongOf
  <1>4. PICK d \in 0 .. W - 1, q \in Nat : d = y % W /\ q = y \div W /\ y = W * q + d
    BY Divided, Constants
  <1>5. q < W
    <2>1. y < W * W
      BY <1>1, <1>2
    <2> QED
      BY <1>4, <2>1, QuotientBelow, Constants
  <1>6. r = [words |-> Append(words, d), left |-> q]
    BY <1>3, <1>4 DEF Carry
  <1>7. /\ Append(words, d) \in Seq(0 .. W - 1) /\ Len(Append(words, d)) = k + 1
        /\ Append(words, d)[k + 1] = d
        /\ \A i \in 1 .. k : Append(words, d)[i] = words[i]
    OBVIOUS
  <1> QED
    <2>1. r.words = Append(words, d) /\ r.left = q
      BY <1>6
    <2>2. q \in 0 .. W - 1
      BY <1>5, Constants
    <2>3. x + left = W * q + d
      BY <1>2, <1>4
    <2> QED
      BY Zenon, <1>7, <2>1, <2>2, <2>3

(* As many words appended are words.                                       *)
LEMMA SeqWords ==
  ASSUME NEW len \in Nat, NEW s \in Seq(0 .. W - 1), Len(s) = len,
         NEW k \in Nat, k <= len
  PROVE  AreWords(s, k) /\ Numbers(s, k) /\ s \in Words(len)
  <1>0. PICK S : S = 0 .. W - 1
    OBVIOUS
  <1>4. s \in [1 .. len -> S]
    <2>1. s \in Seq(S)
      BY <1>0
    <2>2. s \in [1 .. Len(s) -> S]
      BY ONLY <2>1
    <2> QED
      BY <2>2
  <1>1. \A i \in 1 .. len : s[i] \in 0 .. W - 1
    BY <1>0, <1>4
  <1>2. AreWords(s, k)
    BY <1>1 DEF AreWords
  <1>3. Numbers(s, k)
    BY <1>2, WordsAreNumbers
  <1> QED
    BY <1>0, <1>2, <1>3, <1>4 DEF Words

(* What k words of an addition hold.                                       *)
HasAdded(r, sum, k) ==
  /\ r.words \in Seq(0 .. W - 1) /\ Len(r.words) = k /\ r.left \in 0 .. W - 1
  /\ Total(r.words, k) + r.left * Weight[k] = Total(sum, k)

(* One word more keeps the sum.                                            *)
LEMMA AddedNext ==
  ASSUME NEW k \in Nat, k + 1 <= 2 * LIMBS, NEW sum, Numbers(sum, k + 1),
         sum[k + 1] \in 0 .. W * W - W,
         NEW before, HasAdded(before, sum, k)
  PROVE  HasAdded(Carry(before, sum[k + 1]), sum, k + 1)
  <1>1. PICK ws \in Seq(0 .. W - 1), l \in 0 .. W - 1, x \in 0 .. W * W - W :
          /\ before.words = ws /\ before.left = l /\ x = sum[k + 1]
    BY DEF HasAdded
  <1>2. PICK r : r = Carry(before, x)
    OBVIOUS
  <1>3. Len(ws) = k /\ Total(ws, k) + l * Weight[k] = Total(sum, k)
    BY <1>1 DEF HasAdded
  <1>4. /\ r.words \in Seq(0 .. W - 1) /\ Len(r.words) = k + 1
        /\ \A i \in 1 .. k : r.words[i] = ws[i]
        /\ r.words[k + 1] \in 0 .. W - 1 /\ r.left \in 0 .. W - 1
        /\ x + l = W * r.left + r.words[k + 1]
    BY <1>1, <1>2, <1>3, CarryIs
  <1>5. PICK vs \in Seq(0 .. W - 1), q \in 0 .. W - 1, d \in 0 .. W - 1 :
          /\ vs = r.words /\ q = r.left /\ d = vs[k + 1] /\ Len(vs) = k + 1
    BY <1>4
  <1>6. Numbers(vs, k + 1) /\ Numbers(vs, k) /\ Numbers(ws, k)
    BY <1>3, <1>5, SeqWords
  <1>7. \A i \in 1 .. k : ws[i] = vs[i]
    BY <1>4, <1>5
  <1>8. k <= 2 * LIMBS
    BY Widths
  <1>9. Total(vs, k) = Total(ws, k)
    BY <1>6, <1>7, <1>8, TotalSame
  <1>10. PICK w \in Nat, t \in Nat, u \in Nat :
           /\ w = Weight[k] /\ t = Total(ws, k) /\ u = Total(sum, k)
    <2>1. Weight[k] \in Nat /\ Total(vs, k) \in Nat /\ Total(sum, k) \in Nat
      BY <1>6, TotalNext
    <2> QED
      BY <1>9, <2>1
  <1>11. /\ Weight[k + 1] = W * w /\ Total(vs, k + 1) = t + d * w
         /\ Total(sum, k + 1) = u + x * w
    BY <1>1, <1>5, <1>6, <1>9, <1>10, TotalNext
  <1>12. t + l * w = u /\ x + l = W * q + d
    BY <1>3, <1>4, <1>5, <1>10
  <1>13. (t + d * w) + q * (W * w) = u + x * w
    <2>1. (x + l) * w = (W * q + d) * w
      BY <1>12
    <2>2. (x + l) * w = x * w + l * w
      OBVIOUS
    <2>3. (W * q + d) * w = q * (W * w) + d * w
      BY Constants
    <2>4. PICK i1 \in Int, i2 \in Int, i3 \in Int, i4 \in Int :
            i1 = x * w /\ i2 = l * w /\ i3 = d * w /\ i4 = q * (W * w)
      BY Constants
    <2>5. t + i2 = u /\ i1 + i2 = i4 + i3
      BY <1>12, <2>1, <2>2, <2>3, <2>4
    <2>6. (t + i3) + i4 = u + i1
      BY ONLY <2>5, t \in Nat, u \in Nat, i1 \in Int, i2 \in Int, i3 \in Int,
              i4 \in Int
    <2> QED
      BY <2>4, <2>6
  <1>14. HasAdded(r, sum, k + 1)
    <2>1. Total(vs, k + 1) + q * Weight[k + 1] = Total(sum, k + 1)
      BY <1>11, <1>13
    <2> QED
      BY <1>5, <2>1 DEF HasAdded
  <1> QED
    BY <1>1, <1>2, <1>14

(* A sum of words that carries no more than a word: every ulong holds it,  *)
(* and the words and the carry left are the sum.                           *)
Fits(sum, len) == \A k \in 1 .. len : sum[k] \in 0 .. W * W - W

(* An addition is exact: the words and the carry left are worth the sum.   *)
LEMMA AddedIs ==
  ASSUME NEW len \in Nat, len <= 2 * LIMBS, NEW sum, Fits(sum, len),
         NEW r, r = Added(sum, len)
  PROVE  /\ Numbers(sum, len)
         /\ r.words \in Words(len) /\ r.left \in 0 .. W - 1
         /\ Total(r.words, len) + r.left * Weight[len] = Total(sum, len)
  <1>0. Numbers(sum, len)
    <2>1. W * W \in Nat
      BY Constants
    <2> QED
      BY <2>1, Constants DEF Fits, Numbers
  <1>1. PICK f : AddsUp(f, sum, len)
    BY <1>0, AddingTable
  <1> DEFINE Good == {k \in 0 .. len : HasAdded(f[k], sum, k)}
  <1>2. 0 \in Good
    <2>1. f[0] = [words |-> <<>>, left |-> 0]
      BY <1>1 DEF AddsUp, NoWords
    <2>2. Total(f[0].words, 0) = 0 /\ Total(sum, 0) = 0 /\ Weight[0] = 1
      BY TotalZero, Weights
    <2>3. <<>> \in Seq(0 .. W - 1) /\ Len(<<>>) = 0 /\ 0 \in 0 .. W - 1
      BY Constants
    <2>4. f[0].words = <<>> /\ f[0].left = 0
      BY <2>1
    <2>5. Total(f[0].words, 0) + f[0].left * Weight[0] = Total(sum, 0)
      BY <2>2, <2>4
    <2>6. /\ f[0].words \in Seq(0 .. W - 1) /\ Len(f[0].words) = 0
          /\ f[0].left \in 0 .. W - 1
      BY Zenon, <2>3, <2>4
    <2>7. HasAdded(f[0], sum, 0)
      BY <2>5, <2>6 DEF HasAdded
    <2> QED
      BY <2>7
  <1>3. ASSUME NEW k \in Good, k < len PROVE k + 1 \in Good
    <2>1. /\ k \in Nat /\ k + 1 <= 2 * LIMBS /\ k + 1 \in 1 .. len
          /\ (k + 1) - 1 = k
      BY <1>3, Widths
    <2>2. Numbers(sum, k + 1) /\ sum[k + 1] \in 0 .. W * W - W
      BY <1>0, <2>1 DEF Numbers, Fits
    <2>3. f[k + 1] = Carry(f[k], sum[k + 1])
      BY <1>1, <2>1 DEF AddsUp
    <2>4. HasAdded(f[k], sum, k)
      OBVIOUS
    <2>5. HasAdded(Carry(f[k], sum[k + 1]), sum, k + 1)
      BY <2>1, <2>2, <2>4, AddedNext
    <2> QED
      BY <2>1, <2>3, <2>5
  <1>4. len \in Good
    <2>1. Good \in SUBSET Nat
      OBVIOUS
    <2> HIDE DEF Good
    <2> QED
      BY <1>2, <1>3, <2>1, GoodUpTo
  <1>5. HasAdded(r, sum, len)
    BY <1>1, <1>4 DEF AddsUp
  <1>6. r.words \in Words(len)
    BY <1>5, SeqWords DEF HasAdded
  <1> QED
    BY <1>0, <1>5, <1>6 DEF HasAdded

----------------------------------------------------------------------------
(* Borrows                                                                 *)

LEMMA BorrowType ==
  ASSUME NEW before \in States, NEW x \in Int
  PROVE  Borrow(before, x) \in States
  <1>1. PICK y \in Nat : y = ulong(x - before.left)
    BY ulongOf, Constants DEF States
  <1>2. y % W \in 0 .. W - 1 /\ (y \div W) % 2 \in Nat
    BY Divided, Constants
  <1>3. Append(before.words, y % W) \in Seq(0 .. W - 1)
    BY <1>2 DEF States
  <1>4. Borrow(before, x) =
          [words |-> Append(before.words, y % W), left |-> (y \div W) % 2]
    BY <1>1 DEF Borrow
  <1> QED
    BY <1>2, <1>3, <1>4 DEF States

IsSubtracting(f, a, b) ==
  f = [k \in 0 .. LIMBS |-> IF k = 0 THEN NoWords
                                     ELSE Borrow(f[k - 1], a[k] - b[k])]

Subtracts(f, a, b) ==
  /\ f \in [0 .. LIMBS -> States] /\ f[0] = NoWords
  /\ Subtracted(a, b) = f[LIMBS]
  /\ \A k \in 1 .. LIMBS : f[k] = Borrow(f[k - 1], a[k] - b[k])

(* The loop of a subtraction has a result,                                 *)
LEMMA SubtractingExists ==
  ASSUME NEW a, NEW b, Numbers(a, LIMBS), Numbers(b, LIMBS)
  PROVE  \E f \in [0 .. LIMBS -> States] : IsSubtracting(f, a, b)
  <1> DEFINE step == [k \in 1 .. LIMBS |->
                        [x \in States |-> Borrow(x, a[k] - b[k])]]
  <1>1. ASSUME NEW k \in 1 .. LIMBS, NEW x \in States
        PROVE  Borrow(x, a[k] - b[k]) \in States
    <2>1. a[k] - b[k] \in Int
      BY DEF Numbers
    <2> QED
      BY <2>1, BorrowType
  <1>2. step \in [1 .. LIMBS -> [States -> States]]
    BY <1>1
  <1>3. PICK f : IsSteps(f, States, NoWords, step, LIMBS)
    <2> HIDE DEF step
    <2> QED
      BY <1>2, StepsExist, NoWordsState, Widths
  <1>4. ASSUME NEW k \in 1 .. LIMBS PROVE f[k] = Borrow(f[k - 1], a[k] - b[k])
    <2>1. f[k - 1] \in States /\ f[k] = step[k][f[k - 1]]
      <3> HIDE DEF step
      <3> QED
        BY <1>3, Widths DEF IsSteps
    <2> QED
      BY <2>1
  <1>5. f \in [0 .. LIMBS -> States] /\ f[0] = NoWords
    BY <1>3 DEF IsSteps
  <1>6. IsSubtracting(f, a, b)
    <2> HIDE DEF step
    <2> QED
      BY <1>4, <1>5, Widths DEF IsSubtracting
  <1> QED
    BY <1>5, <1>6

(* step by step that of the code,                                          *)
LEMMA SubtractingLaw ==
  ASSUME NEW a, NEW b, NEW f, IsSubtracting(f, a, b)
  PROVE  /\ IsTable(f, LIMBS) /\ f[0] = NoWords
         /\ \A k \in 1 .. LIMBS : f[k] = Borrow(f[k - 1], a[k] - b[k])
  <1>1. IsTable(f, LIMBS) /\ f[0] = NoWords
    BY Widths DEF IsSubtracting, IsTable
  <1>2. ASSUME NEW k \in 1 .. LIMBS PROVE f[k] = Borrow(f[k - 1], a[k] - b[k])
    BY Widths DEF IsSubtracting
  <1> QED
    BY <1>1, <1>2

(* and Subtracted reads the last.                                          *)
LEMMA SubtractingTable ==
  ASSUME NEW a, NEW b, Numbers(a, LIMBS), Numbers(b, LIMBS)
  PROVE  \E f : Subtracts(f, a, b)
  <1>1. PICK f \in [0 .. LIMBS -> States] : IsSubtracting(f, a, b)
    BY SubtractingExists
  <1>2. PICK g : IsSubtracting(g, a, b) /\ Subtracted(a, b) = g[LIMBS]
    BY <1>1 DEF Subtracted, IsSubtracting
  <1>3. /\ IsTable(f, LIMBS) /\ IsTable(g, LIMBS) /\ f[0] = NoWords /\ g[0] = NoWords
        /\ \A k \in 1 .. LIMBS : f[k] = Borrow(f[k - 1], a[k] - b[k])
        /\ \A k \in 1 .. LIMBS : g[k] = Borrow(g[k - 1], a[k] - b[k])
    <2>1. /\ IsTable(f, LIMBS) /\ f[0] = NoWords
          /\ \A k \in 1 .. LIMBS : f[k] = Borrow(f[k - 1], a[k] - b[k])
      <3>1. IsSubtracting(f, a, b)
        BY <1>1
      <3>2. PICK h : h = f
        OBVIOUS
      <3>3. IsSubtracting(h, a, b)
        BY <3>1, <3>2
      <3>4. /\ IsTable(h, LIMBS) /\ h[0] = NoWords
            /\ \A k \in 1 .. LIMBS : h[k] = Borrow(h[k - 1], a[k] - b[k])
        BY ONLY <3>3, SubtractingLaw
      <3> QED
        BY <3>2, <3>4
    <2>2. /\ IsTable(g, LIMBS) /\ g[0] = NoWords
          /\ \A k \in 1 .. LIMBS : g[k] = Borrow(g[k - 1], a[k] - b[k])
      BY <1>2, SubtractingLaw
    <2> QED
      BY <2>1, <2>2
  <1>4. \A k \in 1 .. LIMBS : f[k - 1] = g[k - 1] => f[k] = g[k]
    BY <1>3
  <1>5. f = g
    <2>1. f[0] = g[0] /\ LIMBS \in Nat
      BY <1>3, Widths
    <2> QED
      BY ONLY <1>3, <1>4, <2>1, SameSteps
  <1> QED
    BY <1>1, <1>2, <1>3, <1>5 DEF Subtracts

(* W is even, so that the quotient of a wrapped ulong is odd.              *)
LEMMA WIsEven == (W - 1) % 2 = 1
  <1>1. WORD \in 1 .. WORD /\ WORD - 1 \in 0 .. WORD
    BY Widths
  <1>2. PICK h \in Nat \ {0} : W = 2 * h
    BY <1>1, TwoPowers DEF W
  <1>3. h - 1 \in Int /\ 1 \in 0 .. 2 - 1 /\ W - 1 = 2 * (h - 1) + 1
    BY <1>2
  <1> QED
    BY <1>2

Differences == 1 - W .. W - 1

(* A word more: x, less the borrow, and W when it would be negative.       *)
LEMMA BorrowIs ==
  ASSUME NEW k \in Nat, NEW words \in Seq(0 .. W - 1), Len(words) = k,
         NEW left \in 0 .. 1, NEW x \in Differences,
         NEW before, before.words = words, before.left = left,
         NEW r, r = Borrow(before, x)
  PROVE  /\ r.words \in Seq(0 .. W - 1) /\ Len(r.words) = k + 1
         /\ \A i \in 1 .. k : r.words[i] = words[i]
         /\ r.words[k + 1] \in 0 .. W - 1 /\ r.left \in 0 .. 1
         /\ x - left + W * r.left = r.words[k + 1]
  <1>0. x \in Int /\ 1 - W <= x /\ x <= W - 1
    BY Constants DEF Differences
  <1>1. PICK y \in Nat : y = ulong(x - left)
    BY <1>0, ulongOf
  <1>2. \E d \in 0 .. W - 1, q \in 0 .. 1 :
          d = y % W /\ q = (y \div W) % 2 /\ x - left + W * q = d
    <2>1. CASE x - left >= 0
      <3>1. PICK d \in 0 .. W - 1 : d = x - left
        BY <1>0, <2>1, Constants
      <3>2. y = d
        <4>1. W * W \in Nat /\ W * W >= W
          BY Constants, ProductAtLeast
        <4>2. d \in 0 .. W * W - 1
          BY <4>1, Constants
        <4> QED
          BY <1>1, <3>1, <4>2, ulongOf
      <3>3. d \div W = 0 /\ d % W = d
        BY SmallDivision, Constants
      <3>4. (y \div W) % 2 = 0 /\ y % W = d
        BY <3>2, <3>3
      <3>5. x - left + W * 0 = d /\ 0 \in 0 .. 1
        BY <1>0, <3>1, Constants
      <3> QED
        BY <3>4, <3>5
    <2>2. CASE x - left < 0
      <3>1. PICK d \in 0 .. W - 1 : d = x - left + W
        BY <1>0, <2>2, Constants
      <3>2. y = W * (W - 1) + d
        <4>1. PICK m \in Nat \ {0} : m = W * W /\ m >= W
          <5>1. W * W \in Nat /\ W * W >= W
            BY Constants, ProductAtLeast
          <5> QED
            BY <5>1, Constants
        <4>2. W * (W - 1) = m - W
          BY <4>1, Constants
        <4>3. x - left = m * (-1) + (m - W + d)
          BY <1>0, <3>1, <4>1, Constants
        <4>4. m - W + d \in 0 .. m - 1 /\ -1 \in Int
          BY <4>1, Constants
        <4>5. PICK c \in 0 .. m - 1 : c = m - W + d
          BY <4>4
        <4>6. PICK z \in Int : z = x - left
          BY <1>0
        <4>7. PICK o \in Int : z = m * o + c
          BY <4>3, <4>5, <4>6
        <4>8. z % m = c
          BY ONLY <4>7, DivisionIs, m \in Nat \ {0}, c \in 0 .. m - 1, z \in Int,
                  o \in Int
        <4> QED
          BY <1>1, <4>1, <4>2, <4>5, <4>6, <4>8 DEF ulong
      <3>3. y \div W = W - 1 /\ y % W = d
        <4>1. PICK b \in Nat \ {0}, c \in Int : b = W /\ c = W - 1
          BY Constants
        <4>2. y = b * c + d /\ d \in 0 .. b - 1
          BY <3>2, <4>1
        <4>3. y \div b = c /\ y % b = d
          BY ONLY <4>2, DivisionIs, b \in Nat \ {0}, c \in Int, y \in Nat
        <4> QED
          BY <4>1, <4>3
      <3>4. (y \div W) % 2 = 1
        BY <3>3, WIsEven
      <3>5. x - left + W * 1 = d /\ 1 \in 0 .. 1
        BY <1>0, <3>1, Constants
      <3> QED
        BY <3>1, <3>3, <3>4, <3>5
    <2> QED
      BY <1>0, <2>1, <2>2, Constants
  <1>3. PICK d \in 0 .. W - 1, q \in 0 .. 1 :
          d = y % W /\ q = (y \div W) % 2 /\ x - left + W * q = d
    BY <1>2
  <1>6. r = [words |-> Append(words, d), left |-> q]
    BY <1>1, <1>3 DEF Borrow
  <1>7. /\ Append(words, d) \in Seq(0 .. W - 1) /\ Len(Append(words, d)) = k + 1
        /\ Append(words, d)[k + 1] = d
        /\ \A i \in 1 .. k : Append(words, d)[i] = words[i]
    OBVIOUS
  <1> QED
    <2>1. r.words = Append(words, d) /\ r.left = q
      BY <1>6
    <2> QED
      BY Zenon, <1>3, <1>7, <2>1

(* What k words of a subtraction hold.                                     *)
HasSubtracted(r, a, b, k) ==
  /\ r.words \in Seq(0 .. W - 1) /\ Len(r.words) = k /\ r.left \in 0 .. 1
  /\ Total(r.words, k) = Total(a, k) - Total(b, k) + r.left * Weight[k]

(* One word more keeps the difference.                                     *)
LEMMA SubtractedNext ==
  ASSUME NEW k \in Nat, k + 1 <= 2 * LIMBS,
         NEW a, NEW b, AreWords(a, k + 1), AreWords(b, k + 1),
         NEW before, HasSubtracted(before, a, b, k)
  PROVE  HasSubtracted(Borrow(before, a[k + 1] - b[k + 1]), a, b, k + 1)
  <1>0. Numbers(a, k + 1) /\ Numbers(b, k + 1)
    BY WordsAreNumbers
  <1>1. PICK ws \in Seq(0 .. W - 1), l \in 0 .. 1, x \in 0 .. W - 1, y \in 0 .. W - 1 :
          /\ before.words = ws /\ before.left = l /\ x = a[k + 1] /\ y = b[k + 1]
    BY DEF HasSubtracted, AreWords
  <1>2. PICK z \in Differences : z = x - y
    <2>1. x - y \in Differences
      BY Constants DEF Differences
    <2> QED
      BY <2>1
  <1>3. PICK r : r = Borrow(before, z)
    OBVIOUS
  <1>4. Len(ws) = k /\ Total(ws, k) = Total(a, k) - Total(b, k) + l * Weight[k]
    BY <1>1 DEF HasSubtracted
  <1>5. /\ r.words \in Seq(0 .. W - 1) /\ Len(r.words) = k + 1
        /\ \A i \in 1 .. k : r.words[i] = ws[i]
        /\ r.words[k + 1] \in 0 .. W - 1 /\ r.left \in 0 .. 1
        /\ z - l + W * r.left = r.words[k + 1]
    <2>1. before.words = ws /\ before.left = l /\ Len(ws) = k
      BY <1>1, <1>4
    <2>2. r = Borrow(before, z)
      BY <1>3
    <2> QED
      BY <2>1, <2>2, BorrowIs
  <1>6. PICK vs \in Seq(0 .. W - 1), q \in 0 .. 1, d \in 0 .. W - 1 :
          /\ vs = r.words /\ q = r.left /\ d = vs[k + 1] /\ Len(vs) = k + 1
    BY <1>5
  <1>7. Numbers(vs, k + 1) /\ Numbers(vs, k) /\ Numbers(ws, k)
    BY <1>4, <1>6, SeqWords
  <1>8. \A i \in 1 .. k : ws[i] = vs[i]
    BY <1>5, <1>6
  <1>9. k <= 2 * LIMBS
    BY Widths
  <1>10. Total(vs, k) = Total(ws, k)
    BY <1>7, <1>8, <1>9, TotalSame
  <1>11. PICK w \in Nat, t \in Nat, u \in Nat, v \in Nat :
           /\ w = Weight[k] /\ t = Total(ws, k) /\ u = Total(a, k) /\ v = Total(b, k)
    <2>1. /\ Weight[k] \in Nat /\ Total(vs, k) \in Nat
          /\ Total(a, k) \in Nat /\ Total(b, k) \in Nat
      BY <1>0, <1>7, TotalNext
    <2> QED
      BY <1>10, <2>1
  <1>12. /\ Weight[k + 1] = W * w /\ Total(vs, k + 1) = t + d * w
         /\ Total(a, k + 1) = u + x * w /\ Total(b, k + 1) = v + y * w
    <2>1. Weight[k + 1] = W * w /\ Total(vs, k + 1) = t + d * w
      BY <1>6, <1>7, <1>10, <1>11, TotalNext
    <2>2. Total(a, k + 1) = u + x * w
      BY <1>0, <1>1, <1>11, TotalNext
    <2>3. Total(b, k + 1) = v + y * w
      BY <1>0, <1>1, <1>11, TotalNext
    <2> QED
      BY <2>1, <2>2, <2>3
  <1>13. t = u - v + l * w /\ (x - y) - l + W * q = d
    BY <1>2, <1>4, <1>5, <1>6, <1>11
  <1>14. t + d * w = (u + x * w) - (v + y * w) + q * (W * w)
    <2>1. d * w = ((x - y) - l + W * q) * w
      BY <1>13
    <2>2. ((x - y) - l + W * q) * w = (x * w - y * w) - l * w + q * (W * w)
      BY Constants
    <2>3. PICK i1 \in Int, i2 \in Int, i3 \in Int, i4 \in Int, i5 \in Int :
            /\ i1 = x * w /\ i2 = l * w /\ i3 = d * w /\ i4 = q * (W * w)
            /\ i5 = y * w
      BY Constants
    <2>4. t = u - v + i2 /\ i3 = (i1 - i5) - i2 + i4
      BY <1>13, <2>1, <2>2, <2>3
    <2>5. t + i3 = (u + i1) - (v + i5) + i4
      BY ONLY <2>4, t \in Nat, u \in Nat, v \in Nat, i1 \in Int, i2 \in Int,
              i3 \in Int, i4 \in Int, i5 \in Int
    <2> QED
      BY <2>3, <2>5
  <1>15. HasSubtracted(r, a, b, k + 1)
    <2>1. Total(vs, k + 1) =
            Total(a, k + 1) - Total(b, k + 1) + q * Weight[k + 1]
      BY <1>12, <1>14
    <2> QED
      BY <1>6, <2>1 DEF HasSubtracted
  <1> QED
    BY <1>1, <1>2, <1>3, <1>15

(* A subtraction is exact, with the weight past the last word borrowed.    *)
LEMMA SubtractedIs ==
  ASSUME NEW a \in Fe, NEW b \in Fe, NEW r, r = Subtracted(a, b)
  PROVE  /\ r.words \in Fe /\ r.left \in 0 .. 1
         /\ Value(r.words) = Value(a) - Value(b) + r.left * Weight[LIMBS]
  <1>0. /\ AreWords(a, LIMBS) /\ AreWords(b, LIMBS)
        /\ Numbers(a, LIMBS) /\ Numbers(b, LIMBS)
    BY ValueType
  <1>1. PICK f : Subtracts(f, a, b)
    BY <1>0, SubtractingTable
  <1> DEFINE Good == {k \in 0 .. LIMBS : HasSubtracted(f[k], a, b, k)}
  <1>2. 0 \in Good
    <2>1. f[0] = [words |-> <<>>, left |-> 0]
      BY <1>1 DEF Subtracts, NoWords
    <2>2. /\ Total(f[0].words, 0) = 0 /\ Total(a, 0) = 0 /\ Total(b, 0) = 0
          /\ Weight[0] = 1
      BY TotalZero, Weights
    <2>3. <<>> \in Seq(0 .. W - 1) /\ Len(<<>>) = 0 /\ 0 \in 0 .. 1
      BY Constants
    <2>4. f[0].words = <<>> /\ f[0].left = 0
      BY <2>1
    <2>5. Total(f[0].words, 0) = Total(a, 0) - Total(b, 0) + f[0].left * Weight[0]
      BY <2>2, <2>4
    <2>6. /\ f[0].words \in Seq(0 .. W - 1) /\ Len(f[0].words) = 0
          /\ f[0].left \in 0 .. 1
      BY Zenon, <2>3, <2>4
    <2>7. HasSubtracted(f[0], a, b, 0)
      BY <2>5, <2>6 DEF HasSubtracted
    <2> QED
      BY <2>7, Widths
  <1>3. ASSUME NEW k \in Good, k < LIMBS PROVE k + 1 \in Good
    <2>1. /\ k \in Nat /\ k + 1 <= 2 * LIMBS /\ k + 1 \in 1 .. LIMBS
          /\ (k + 1) - 1 = k
      BY <1>3, Widths
    <2>2. AreWords(a, k + 1) /\ AreWords(b, k + 1)
      <3>1. \A i \in 1 .. k + 1 : i \in 1 .. LIMBS
        BY <2>1, Widths
      <3> QED
        BY <1>0, <3>1 DEF AreWords
    <2>3. f[k + 1] = Borrow(f[k], a[k + 1] - b[k + 1])
      BY <1>1, <2>1 DEF Subtracts
    <2>4. HasSubtracted(f[k], a, b, k)
      OBVIOUS
    <2>5. HasSubtracted(Borrow(f[k], a[k + 1] - b[k + 1]), a, b, k + 1)
      BY <2>1, <2>2, <2>4, SubtractedNext
    <2> QED
      BY <2>1, <2>3, <2>5
  <1>4. LIMBS \in Good
    <2>1. Good \in SUBSET Nat
      OBVIOUS
    <2> HIDE DEF Good
    <2> QED
      BY <1>2, <1>3, <2>1, GoodUpTo, Widths
  <1>5. HasSubtracted(r, a, b, LIMBS)
    BY <1>1, <1>4 DEF Subtracts
  <1>6. r.words \in Fe
    BY <1>5, SeqWords, Widths DEF HasSubtracted, Fe
  <1> QED
    BY <1>5, <1>6 DEF HasSubtracted, Value

----------------------------------------------------------------------------
(* Addition and subtraction modulo p                                       *)

LEMMA RemainderIs ==
  ASSUME NEW m \in Nat \ {0}, NEW r \in 0 .. m - 1, NEW x \in Int,
         x = r \/ x = m + r \/ x = r - m
  PROVE  x % m = r
  <1>1. PICK q \in {0, 1, -1} : x = m * q + r
    OBVIOUS
  <1>2. q \in Int
    OBVIOUS
  <1> QED
    BY ONLY <1>1, <1>2, DivisionIs, m \in Nat \ {0}, r \in 0 .. m - 1

(* Where p lies.                                                           *)
LEMMA ModulusNumbers ==
  /\ p \in Nat \ {0} /\ Weight[LIMBS] \in Nat \ {0}
  /\ p < Weight[LIMBS] /\ Weight[LIMBS] < p + p
  BY ModulusWords, ValueType, Constants

(* The values below p are the elements of the field.                       *)
Field == {a \in Fe : Value(a) < p}

(* One times a number, or nothing.                                         *)
LEMMA OneOrNone ==
  ASSUME NEW l \in 0 .. 1, NEW w \in Nat
  PROVE  l * w \in {0, w}
  OBVIOUS

(* The values of reduced words.                                            *)
LEMMA FieldValues ==
  ASSUME NEW a \in Field
  PROVE  a \in Fe /\ Value(a) \in 0 .. p - 1
  BY ValueType, ModulusWords DEF Field

(* The words of a number below p are reduced.                              *)
LEMMA FieldLimbsValue ==
  ASSUME NEW x \in 0 .. p - 1
  PROVE  Limbs(x) \in Field /\ Value(Limbs(x)) = x
  BY LimbsValue, ModulusWords, ValueType DEF Field

(* Two words and two more fit in an ulong.                                 *)
LEMMA TwoFit ==
  /\ W * W - W \in Nat /\ 2 * (W - 1) <= W * W - W
  <1>1. PICK w \in Nat : W = w + 2
    <2>1. W - 2 \in Nat /\ W = (W - 2) + 2
      BY Constants
    <2> QED
      BY <2>1
  <1>2. W * W - W = w * w + 3 * w + 2 /\ w * w \in Nat
    BY <1>1
  <1> QED
    BY <1>1, <1>2

(* The sum of two values, the carry past the last word included.           *)
LEMMA SumOfValues ==
  ASSUME NEW a \in Fe, NEW b \in Fe, NEW r, r = Added(WordSums(a, b), LIMBS)
  PROVE  /\ r.words \in Fe /\ r.left \in 0 .. 1
         /\ Value(r.words) + r.left * Weight[LIMBS] = Value(a) + Value(b)
  <1>1. /\ AreWords(a, LIMBS) /\ AreWords(b, LIMBS)
        /\ Numbers(a, LIMBS) /\ Numbers(b, LIMBS)
        /\ Value(a) = Total(a, LIMBS) /\ Value(b) = Total(b, LIMBS)
        /\ Value(a) \in 0 .. Weight[LIMBS] - 1
        /\ Value(b) \in 0 .. Weight[LIMBS] - 1
        /\ Weight[LIMBS] \in Nat \ {0}
    BY ValueType
  <1>2. PICK s : s = WordSums(a, b)
    OBVIOUS
  <1>3. \A k \in 1 .. LIMBS : s[k] = a[k] + 1 * b[k]
    BY <1>1, <1>2 DEF WordSums, Numbers
  <1>4. Fits(s, LIMBS)
    <2>1. ASSUME NEW k \in 1 .. LIMBS PROVE s[k] \in 0 .. W * W - W
      <3>1. PICK x \in 0 .. W - 1, y \in 0 .. W - 1 : x = a[k] /\ y = b[k]
        BY <1>1 DEF AreWords
      <3>2. s[k] = x + y
        BY <1>2, <3>1 DEF WordSums
      <3>3. x + y \in Nat /\ x + y <= 2 * (W - 1)
        BY Constants
      <3>4. PICK z \in Nat : z = W * W - W /\ 2 * (W - 1) <= z
        BY TwoFit
      <3>5. x + y <= z
        BY <3>3, <3>4, Constants
      <3> QED
        BY <3>2, <3>3, <3>4, <3>5
    <2> QED
      BY <2>1 DEF Fits
  <1>5. LIMBS \in Nat /\ LIMBS <= 2 * LIMBS
    BY Widths
  <1>6. /\ r.words \in Fe /\ r.left \in 0 .. W - 1
        /\ Total(r.words, LIMBS) + r.left * Weight[LIMBS] = Total(s, LIMBS)
    BY <1>2, <1>4, <1>5, AddedIs DEF Fe
  <1>7. Total(s, LIMBS) = Total(a, LIMBS) + 1 * Total(b, LIMBS)
    BY <1>1, <1>3, <1>5, TotalLinear
  <1>8. Value(r.words) = Total(r.words, LIMBS) /\ Value(r.words) \in Nat
    BY <1>6, ValueType
  <1>9. PICK l \in Nat, w \in Nat \ {0}, x \in Nat, y \in Nat, v \in Nat :
          /\ l = r.left /\ w = Weight[LIMBS] /\ x = Value(a) /\ y = Value(b)
          /\ v = Value(r.words) /\ x < w /\ y < w
    <2>1. r.left \in Nat
      BY <1>6, Constants
    <2> QED
      BY <1>1, <1>8, <2>1
  <1>10. v + l * w = x + y
    BY <1>1, <1>6, <1>7, <1>8, <1>9
  <1>11. l \in 0 .. 1
    <2> SUFFICES ASSUME l >= 2 PROVE FALSE
      OBVIOUS
    <2>1. PICK e \in Nat : l = 2 + e
      <3>1. l - 2 \in Nat /\ l = 2 + (l - 2)
        OBVIOUS
      <3> QED
        BY <3>1
    <2>2. l * w = 2 * w + e * w /\ e * w \in Nat
      BY <2>1
    <2>3. PICK m \in Nat : m = e * w
      BY <2>2
    <2>4. v + (2 * w + m) = x + y
      BY <1>10, <2>2, <2>3
    <2> QED
      BY ONLY <1>9, <2>4, m \in Nat, v \in Nat, w \in Nat \ {0}, x \in Nat, y \in Nat
  <1> QED
    BY <1>6, <1>9, <1>10, <1>11

(* What a subtraction of P leaves when there is p to subtract, and what is *)
(* left of it below p in all: an addition's carry is the borrow.           *)
LEMMA BelowPIs ==
  ASSUME NEW s, s.words \in Fe, s.left \in 0 .. 1,
         NEW x \in 0 .. 2 * p - 1,
         x = Value(s.words) + s.left * Weight[LIMBS]
  PROVE  BelowP(s) \in Field /\ Value(BelowP(s)) = x % p
  <1>0. PICK v \in Nat, w \in Nat \ {0}, l \in 0 .. 1, m \in Nat \ {0} :
          /\ v = Value(s.words) /\ w = Weight[LIMBS] /\ l = s.left /\ m = p
          /\ v < w /\ m < w /\ w < m + m
    BY ValueType, ModulusWords, Constants
  <1>1. x = v + l * w
    BY <1>0
  <1>2. ge_p(s.words) <=> v >= m
    BY <1>0, AtLeastIs, ModulusWords DEF ge_p
  <1>3. CASE MustSubtract(s)
    <2>1. l = 1 \/ v >= m
      BY <1>0, <1>2, <1>3 DEF MustSubtract
    <2>2. x >= m /\ x - m \in 0 .. m - 1
      BY <1>0, <1>1, <2>1
    <2>3. PICK d : d = Subtracted(s.words, P)
      OBVIOUS
    <2>4. /\ d.words \in Fe /\ d.left \in 0 .. 1
          /\ Value(d.words) = v - m + d.left * w
      BY <1>0, <2>3, SubtractedIs, ModulusWords
    <2>5. PICK u \in Nat, q \in 0 .. 1 : u = Value(d.words) /\ q = d.left /\ u < w
      BY <1>0, <2>4, ValueType
    <2>6. u = v - m + q * w
      BY <2>4, <2>5
    <2>7. u = x - m
      <3>1. PICK i \in {0, w}, k \in {0, w} : i = q * w /\ k = l * w
        BY OneOrNone
      <3>2. u = v - m + i /\ x = v + k
        BY <1>1, <2>6, <3>1
      <3> QED
        BY ONLY <1>0, <2>2, <2>5, <3>2, x \in Int, i \in {0, w}, k \in {0, w},
                u \in Nat, w \in Nat \ {0}, v \in Nat, m \in Nat \ {0}
    <2>8. BelowP(s) = d.words
      BY <1>3, <2>3 DEF BelowP, sub_p
    <2>9. x % m = x - m
      <3>1. PICK y \in 0 .. m - 1 : y = x - m
        BY <2>2
      <3>2. x = m + y /\ x \in Int
        BY <3>1
      <3> QED
        BY <3>1, <3>2, RemainderIs
    <2> QED
      BY <1>0, <2>2, <2>4, <2>5, <2>7, <2>8, <2>9 DEF Field
  <1>4. CASE ~MustSubtract(s)
    <2>1. l = 0 /\ v < m
      BY <1>0, <1>2, <1>4 DEF MustSubtract
    <2>2. x = v /\ x \in 0 .. m - 1
      BY <1>0, <1>1, <2>1
    <2>3. BelowP(s) = s.words
      BY <1>4 DEF BelowP
    <2>4. x % m = x
      BY <1>0, <2>2, SmallDivision
    <2> QED
      BY <1>0, <2>1, <2>2, <2>3, <2>4 DEF Field
  <1> QED
    BY <1>3, <1>4

(* fe_add is exact on reduced words,                                       *)
LEMMA FeAddIs ==
  ASSUME NEW a \in Field, NEW b \in Field
  PROVE  fe_add(a, b) \in Field /\ Value(fe_add(a, b)) = (Value(a) + Value(b)) % p
  <1>1. PICK s : s = Added(WordSums(a, b), LIMBS)
    OBVIOUS
  <1>2. /\ s.words \in Fe /\ s.left \in 0 .. 1
        /\ Value(s.words) + s.left * Weight[LIMBS] = Value(a) + Value(b)
    BY <1>1, FieldValues, SumOfValues
  <1>3. PICK x \in 0 .. 2 * p - 1 : x = Value(a) + Value(b)
    BY FieldValues, ModulusWords
  <1>4. BelowP(s) \in Field /\ Value(BelowP(s)) = x % p
    BY <1>2, <1>3, BelowPIs
  <1> QED
    BY <1>1, <1>3, <1>4 DEF fe_add

(* and so is fe_sub.                                                       *)
LEMMA FeSubIs ==
  ASSUME NEW a \in Field, NEW b \in Field
  PROVE  fe_sub(a, b) \in Field /\ Value(fe_sub(a, b)) = (Value(a) - Value(b)) % p
  <1>1. PICK d : d = Subtracted(a, b)
    OBVIOUS
  <1>2. /\ d.words \in Fe /\ d.left \in 0 .. 1
        /\ Value(d.words) = Value(a) - Value(b) + d.left * Weight[LIMBS]
    BY <1>1, FieldValues, SubtractedIs
  <1>3. PICK m \in Nat \ {0}, w \in Nat \ {0}, x \in Nat, y \in Nat, v \in Nat,
             l \in 0 .. 1 :
          /\ m = p /\ w = Weight[LIMBS] /\ x = Value(a) /\ y = Value(b)
          /\ v = Value(d.words) /\ l = d.left
          /\ x < m /\ y < m /\ v < w /\ m < w /\ w < m + m
    <2>1. /\ Value(a) \in Nat /\ Value(a) < p /\ Value(b) \in Nat /\ Value(b) < p
          /\ Value(d.words) \in Nat /\ Value(d.words) < Weight[LIMBS]
      BY <1>2, FieldValues, ValueType, ModulusWords
    <2>2. p \in Nat \ {0} /\ Weight[LIMBS] \in Nat \ {0}
      BY ModulusNumbers
    <2> QED
      BY <1>2, <2>1, <2>2, ModulusNumbers
  <1>4. v = x - y + l * w
    BY <1>2, <1>3
  <1>5. CASE l = 0
    <2>1. v = x - y /\ v \in 0 .. m - 1
      <3>1. l * w = 0
        BY <1>5
      <3> QED
        BY <1>3, <1>4, <3>1
    <2>2. (x - y) % m = v
      BY <2>1, SmallDivision
    <2>3. fe_sub(a, b) = d.words
      BY <1>1, <1>3, <1>5 DEF fe_sub, FromZero
    <2> QED
      BY <1>2, <1>3, <2>1, <2>2, <2>3 DEF Field
  <1>6. CASE l = 1
    <2>1. PICK s : s = Added(WordSums(d.words, P), LIMBS)
      OBVIOUS
    <2>2. /\ s.words \in Fe /\ s.left \in 0 .. 1
          /\ Value(s.words) + s.left * w = v + m
      BY <1>2, <1>3, <2>1, SumOfValues, ModulusWords
    <2>3. PICK u \in Nat, q \in 0 .. 1 : u = Value(s.words) /\ q = s.left /\ u < w
      BY <1>3, <2>2, ValueType
    <2>4. u + q * w = v + m
      BY <2>2, <2>3
    <2>5. u = x - y + m /\ u \in 0 .. m - 1
      BY <1>3, <1>4, <1>6, <2>3, <2>4
    <2>6. (x - y) % m = u
      <3>1. PICK z \in Int : z = x - y
        OBVIOUS
      <3>2. z = u - m /\ u \in 0 .. m - 1
        BY <2>5, <3>1
      <3>3. z % m = u
        BY ONLY <3>2, RemainderIs, m \in Nat \ {0}, z \in Int
      <3> QED
        BY <3>1, <3>3
    <2>7. fe_sub(a, b) = s.words
      BY <1>1, <1>3, <1>6, <2>1 DEF fe_sub, FromZero
    <2> QED
      <3>1. s.words \in Field
        <4>1. Value(s.words) < p
          BY <1>3, <2>3, <2>5
        <4> QED
          BY <2>2, <4>1 DEF Field
      <3>2. Value(s.words) = (Value(a) - Value(b)) % p
        BY <1>3, <2>3, <2>6
      <3> QED
        BY <2>7, <3>1, <3>2
  <1> QED
    BY <1>5, <1>6

----------------------------------------------------------------------------
(* Scalars modulo n                                                        *)

LEMMA OrderWords ==
  SECP_N \in Fe /\ Value(SECP_N) = n /\ n \in Nat \ {0} /\ n < Weight[LIMBS]
  BY FieldAssumption, LimbsValue DEF SECP_N

(* fe_is_zero tells the value 0.                                           *)
LEMMA ZeroWords ==
  /\ Zeros(LIMBS) \in Fe /\ Value(Zeros(LIMBS)) = 0
  /\ \A a \in Fe : fe_is_zero(a) <=> Value(a) = 0
  <1>1. PICK z : z = Zeros(LIMBS)
    OBVIOUS
  <1>2. z \in Fe /\ \A k \in 1 .. LIMBS : z[k] = 0
    BY <1>1, Constants DEF Zeros, Fe, Words
  <1>3. Total(z, LIMBS) = 0
    BY <1>2, TotalOfZeros, Widths
  <1>4. Value(z) = 0
    BY <1>2, <1>3, ValueType
  <1>5. ASSUME NEW a \in Fe PROVE a = z <=> Value(a) = 0
    BY <1>2, <1>4, AtLeastIs
  <1> QED
    BY <1>1, <1>2, <1>4, <1>5 DEF fe_is_zero

(* The guard of a scalar is the one on its value.                          *)
LEMMA ScalarInRangeIs ==
  ASSUME NEW k \in Fe
  PROVE  /\ scalar_ge_n(k) <=> Value(k) >= n
         /\ scalar_in_range(k) <=> Value(k) \in 1 .. n - 1
  <1>1. scalar_ge_n(k) <=> Value(k) >= n
    BY AtLeastIs, OrderWords DEF scalar_ge_n
  <1>2. fe_is_zero(k) <=> Value(k) = 0
    BY ZeroWords
  <1>3. Value(k) \in Nat /\ n \in Nat
    BY ValueType, OrderWords
  <1> QED
    BY <1>1, <1>2, <1>3 DEF scalar_in_range

(* The sum of a scalar and a small number, before it is reduced.           *)
LEMMA FewSum ==
  ASSUME NEW b \in Fe, NEW i \in 0 .. W - 1, Value(b) + i < Weight[LIMBS]
  PROVE  Unreduced(b, i) \in Fe /\ Value(Unreduced(b, i)) = Value(b) + i
  <1>1. /\ AreWords(b, LIMBS) /\ Numbers(b, LIMBS) /\ Value(b) = Total(b, LIMBS)
        /\ Value(b) \in Nat /\ Weight[LIMBS] \in Nat \ {0}
        /\ b = [k \in 1 .. LIMBS |-> b[k]]
    BY ValueType, FeWords, Widths DEF Fe
  <1>2. PICK s : s = [b EXCEPT ![1] = @ + i]
    OBVIOUS
  <1> DEFINE few == [k \in 1 .. LIMBS |-> IF k = 1 THEN i ELSE 0]
  <1>3. LIMBS \in Nat /\ LIMBS >= 2 /\ LIMBS <= 2 * LIMBS
    BY Widths
  <1>4. \A k \in 1 .. LIMBS : s[k] = b[k] + 1 * few[k]
    BY <1>1, <1>2, <1>3, Constants DEF Numbers
  <1>5. Fits(s, LIMBS)
    <2>1. ASSUME NEW k \in 1 .. LIMBS PROVE s[k] \in 0 .. W * W - W
      <3>1. PICK x \in 0 .. W - 1, y \in 0 .. W - 1 : x = b[k] /\ y = few[k]
        BY <1>1, Constants DEF AreWords
      <3>2. s[k] = x + y
        BY <1>4, <3>1
      <3>3. x + y \in Nat /\ x + y <= 2 * (W - 1)
        BY Constants
      <3>4. PICK z \in Nat : z = W * W - W /\ 2 * (W - 1) <= z
        BY TwoFit
      <3>5. x + y <= z
        BY <3>3, <3>4, Constants
      <3> QED
        BY <3>2, <3>3, <3>4, <3>5
    <2> QED
      BY <2>1 DEF Fits
  <1>6. Numbers(few, 2) /\ few[1] = i /\ few[2] = 0 /\ \A k \in 3 .. LIMBS : few[k] = 0
    BY <1>3, Constants DEF Numbers
  <1> HIDE DEF few
  <1>7. Numbers(few, LIMBS) /\ Total(few, LIMBS) = i
    <2>1. Numbers(few, LIMBS) /\ Total(few, LIMBS) = few[1] + few[2] * W
      BY <1>3, <1>6, TotalOfTwo
    <2> QED
      BY <1>6, <2>1, Constants
  <1>8. Total(s, LIMBS) = Total(b, LIMBS) + 1 * Total(few, LIMBS)
    BY <1>1, <1>3, <1>4, <1>7, TotalLinear
  <1>9. PICK r : r = Added(s, LIMBS)
    OBVIOUS
  <1>10. /\ r.words \in Fe /\ r.left \in 0 .. W - 1
         /\ Total(r.words, LIMBS) + r.left * Weight[LIMBS] = Total(s, LIMBS)
    BY <1>3, <1>5, <1>9, AddedIs DEF Fe
  <1>11. PICK v \in Nat, l \in Nat, w \in Nat \ {0}, x \in Nat :
           /\ v = Value(r.words) /\ l = r.left /\ w = Weight[LIMBS] /\ x = Value(b)
           /\ Total(r.words, LIMBS) = v
    <2>1. r.left \in Nat
      BY <1>10, Constants
    <2>2. Value(r.words) \in Nat /\ Value(r.words) = Total(r.words, LIMBS)
      BY <1>10, ValueType
    <2> QED
      BY <1>1, <2>1, <2>2
  <1>12. v + l * w = x + i /\ x + i < w
    BY <1>1, <1>7, <1>8, <1>10, <1>11
  <1>13. l = 0
    <2> SUFFICES ASSUME l > 0 PROVE FALSE
      OBVIOUS
    <2>1. w * l \in Nat /\ w * l >= w
      BY ProductAtLeast
    <2>2. PICK m \in Nat : m = l * w /\ m >= w
      BY <2>1
    <2> QED
      BY <1>12, <2>2
  <1>14. v = x + i
    BY <1>12, <1>13
  <1>15. Unreduced(b, i) = r.words
    BY <1>2, <1>9 DEF Unreduced
  <1> QED
    BY <1>10, <1>11, <1>14, <1>15

(* One subtraction reduces what is below 2 * n.                            *)
LEMMA BelowNIs ==
  ASSUME NEW r \in Fe, Value(r) < 2 * n
  PROVE  BelowN(r) \in Fe /\ Value(BelowN(r)) = Value(r) % n
  <1>1. PICK v \in Nat, m \in Nat \ {0}, w \in Nat \ {0} :
          v = Value(r) /\ m = n /\ w = Weight[LIMBS] /\ m < w /\ v < w /\ v < m + m
    BY ValueType, OrderWords
  <1>2. CASE v < m
    <2>1. ~scalar_ge_n(r)
      BY <1>1, <1>2, ScalarInRangeIs
    <2>2. v % m = v
      BY <1>2, SmallDivision
    <2> QED
      BY <1>1, <2>1, <2>2 DEF BelowN
  <1>3. CASE v >= m
    <2>1. scalar_ge_n(r)
      BY <1>1, <1>3, ScalarInRangeIs
    <2>2. PICK d : d = Subtracted(r, SECP_N)
      OBVIOUS
    <2>3. /\ d.words \in Fe /\ d.left \in 0 .. 1
          /\ Value(d.words) = v - m + d.left * w
      BY <1>1, <2>2, SubtractedIs, OrderWords
    <2>4. PICK u \in Nat, q \in 0 .. 1 : u = Value(d.words) /\ q = d.left /\ u < w
      BY <1>1, <2>3, ValueType
    <2>5. PICK i \in {0, w} : u = v - m + i
      <3>1. u = v - m + q * w
        BY <2>3, <2>4
      <3> QED
        BY <3>1, OneOrNone
    <2>6. u = v - m /\ u \in 0 .. m - 1
      BY ONLY <1>1, <1>3, <2>4, <2>5
    <2>7. v % m = u
      <3>1. v = m + u /\ v \in Int
        BY <2>6
      <3> QED
        BY ONLY <2>6, <3>1, RemainderIs, m \in Nat \ {0}
    <2> QED
      BY <1>1, <2>1, <2>2, <2>3, <2>4, <2>7 DEF BelowN
  <1> QED
    BY <1>1, <1>2, <1>3

(* A key plus the number of its candidate wraps at n.                      *)
LEMMA ScalarAddSmallIs ==
  ASSUME NEW b \in Fe, Value(b) < n, NEW i \in 0 .. ITERS
  PROVE  /\ scalar_add_small(b, i) \in Fe
         /\ Value(scalar_add_small(b, i)) = (Value(b) + i) % n
  <1>1. /\ i \in 0 .. W - 1 /\ ITERS \in Nat /\ ITERS <= n
        /\ n + ITERS <= Weight[LIMBS]
    BY KernelAssumption, Constants
  <1>2. /\ Value(b) \in Nat /\ n \in Nat /\ Weight[LIMBS] \in Nat
    BY ValueType, OrderWords
  <1>3. Value(b) + i < Weight[LIMBS] /\ Value(b) + i < 2 * n
    BY <1>1, <1>2
  <1>4. Unreduced(b, i) \in Fe /\ Value(Unreduced(b, i)) = Value(b) + i
    BY <1>1, <1>3, FewSum
  <1> QED
    BY <1>3, <1>4, BelowNIs DEF scalar_add_small

----------------------------------------------------------------------------
(* Products                                                                *)

LEMMA ProductFits ==
  ASSUME NEW m \in Nat \ {0},
         NEW x \in 0 .. m - 1, NEW y \in 0 .. m - 1, NEW z \in 0 .. m - 1
  PROVE  x * y + z \in 0 .. m * m - m
  <1>1. PICK w \in Nat, d \in Nat, e \in Nat : m = w + 1 /\ w = x + d /\ w = y + e
    <2>1. m - 1 \in Nat /\ m = (m - 1) + 1
      OBVIOUS
    <2>2. PICK w \in Nat : w = m - 1 /\ m = w + 1
      BY <2>1
    <2>3. w - x \in Nat /\ w = x + (w - x) /\ w - y \in Nat /\ w = y + (w - y)
      BY <2>2
    <2> QED
      BY <2>2, <2>3
  <1>2. m * m - m = w * w + w
    BY <1>1
  <1>3. w * w = x * y + (x * e + d * w)
    <2>1. w * w = x * w + d * w
      BY <1>1
    <2>2. x * w = x * y + x * e
      BY <1>1
    <2> QED
      BY ONLY <2>1, <2>2, x \in 0 .. m - 1, y \in 0 .. m - 1, w \in Nat, d \in Nat,
              e \in Nat
  <1>4. PICK q \in Nat, i \in Nat, j \in Nat : q = x * y /\ i = x * e /\ j = d * w
    OBVIOUS
  <1>5. w * w = q + (i + j) /\ z <= w
    BY <1>1, <1>3, <1>4
  <1> QED
    BY <1>2, <1>4, <1>5

(* Row i + 1 adds ai * b at word i, and fits in one word more.             *)
LEMMA AddRowIs ==
  ASSUME NEW i \in 0 .. LIMBS - 1, NEW prod \in Words(2 * LIMBS),
         NEW ai \in 0 .. W - 1, NEW b \in Fe,
         NEW x, x = AddRow(prod, ai, b, i + 1)
  PROVE  /\ x \in Words(2 * LIMBS)
         /\ \A k \in 1 .. 2 * LIMBS : k > (i + 1) + LIMBS => x[k] = prod[k]
         /\ Total(x, (i + 1) + LIMBS) =
              Total(prod, i + LIMBS) + Weight[i] * (ai * Value(b))
  <1>0. /\ LIMBS \in Nat /\ LIMBS <= 2 * LIMBS /\ 2 * LIMBS \in Nat
        /\ i \in Nat /\ i <= 2 * LIMBS /\ i + LIMBS <= 2 * LIMBS
        /\ i + (LIMBS + 1) <= 2 * LIMBS /\ LIMBS + 1 <= 2 * LIMBS
        /\ LIMBS + 1 \in Nat /\ (i + 1) + LIMBS = i + (LIMBS + 1)
    BY Widths
  <1>1. /\ AreWords(prod, 2 * LIMBS) /\ Numbers(prod, 2 * LIMBS)
        /\ prod = [k \in 1 .. 2 * LIMBS |-> prod[k]]
    BY <1>0, FeWords
  <1>2. /\ AreWords(b, LIMBS) /\ Numbers(b, LIMBS) /\ Value(b) = Total(b, LIMBS)
        /\ Value(b) \in Nat
    BY ValueType
  <1> DEFINE u == [k \in 1 .. LIMBS |-> prod[i + k]]
             s == [j \in 1 .. LIMBS |-> ai * b[j] + prod[(i + 1) + j - 1]]
             r == Added(s, LIMBS)
             tail == [k \in 1 .. LIMBS + 1 |-> x[i + k]]
  <1>3. \A k \in 1 .. LIMBS : i + k \in 1 .. 2 * LIMBS /\ (i + 1) + k - 1 = i + k
    BY <1>0
  <1>4. Fits(s, LIMBS)
    <2>1. ASSUME NEW k \in 1 .. LIMBS PROVE s[k] \in 0 .. W * W - W
      <3>1. PICK y \in 0 .. W - 1, z \in 0 .. W - 1 :
              y = b[k] /\ z = prod[i + k]
        BY <1>1, <1>2, <1>3 DEF AreWords
      <3>2. s[k] = ai * y + z
        BY <1>3, <3>1
      <3> QED
        BY <3>2, ProductFits, Constants
    <2> QED
      BY <2>1 DEF Fits
  <1>5. \A k \in 1 .. LIMBS : s[k] = u[k] + ai * b[k]
    <2>1. ASSUME NEW k \in 1 .. LIMBS PROVE s[k] = u[k] + ai * b[k]
      <3>1. PICK y \in 0 .. W - 1, z \in 0 .. W - 1 :
              y = b[k] /\ z = prod[i + k]
        BY <1>1, <1>2, <1>3 DEF AreWords
      <3>2. s[k] = ai * y + z /\ u[k] = z
        BY <1>3, <3>1
      <3>3. ai * y + z = z + ai * y
        OBVIOUS
      <3> QED
        BY <3>1, <3>2, <3>3
    <2> QED
      BY <2>1
  <1>6. \A k \in 1 .. LIMBS : u[k] = prod[i + k]
    OBVIOUS
  <1>7. x = Overlaid(prod, r, i + 1)
    BY DEF AddRow
  <1> HIDE DEF u, s
  <1>8. /\ r.words \in Words(LIMBS) /\ r.left \in 0 .. W - 1
        /\ Total(r.words, LIMBS) + r.left * Weight[LIMBS] = Total(s, LIMBS)
    BY <1>0, <1>4, AddedIs
  <1> HIDE DEF r
  <1>9. Numbers(u, LIMBS) /\ Numbers(prod, i + LIMBS) /\ Numbers(prod, i)
        /\ Total(prod, i + LIMBS) = Total(prod, i) + Weight[i] * Total(u, LIMBS)
    <2>1. Numbers(prod, i + LIMBS)
      BY <1>0, <1>1 DEF Numbers
    <2> QED
      BY <1>0, <1>6, <2>1, TotalSplit
  <1>10. Total(s, LIMBS) = Total(u, LIMBS) + ai * Total(b, LIMBS)
    <2>1. ai \in Nat
      BY Constants
    <2> QED
      BY <1>0, <1>2, <1>5, <1>9, <2>1, TotalLinear
  <1>11. /\ \A k \in 1 .. i : x[k] = prod[k]
         /\ \A k \in 1 .. LIMBS : x[i + k] = r.words[k]
         /\ x[i + (LIMBS + 1)] = r.left
         /\ \A k \in 1 .. 2 * LIMBS : k > (i + 1) + LIMBS => x[k] = prod[k]
    <2>1. \A k \in 1 .. 2 * LIMBS :
            x[k] = CASE k \in i + 1 .. (i + 1) + LIMBS - 1 -> r.words[k - (i + 1) + 1]
                     [] k = (i + 1) + LIMBS -> r.left
                     [] OTHER -> prod[k]
      BY <1>7 DEF Overlaid
    <2>2. ASSUME NEW k \in 1 .. i PROVE x[k] = prod[k]
      <3>1. k \in 1 .. 2 * LIMBS /\ ~(k \in i + 1 .. (i + 1) + LIMBS - 1)
            /\ k # (i + 1) + LIMBS
        BY <1>0
      <3> QED
        BY <2>1, <3>1
    <2>3. ASSUME NEW k \in 1 .. LIMBS PROVE x[i + k] = r.words[k]
      <3>1. PICK m \in 1 .. 2 * LIMBS :
              /\ m = i + k /\ m \in i + 1 .. (i + 1) + LIMBS - 1
              /\ m - (i + 1) + 1 = k
        BY <1>0
      <3>2. x[m] = CASE m \in i + 1 .. (i + 1) + LIMBS - 1 -> r.words[m - (i + 1) + 1]
                     [] m = (i + 1) + LIMBS -> r.left
                     [] OTHER -> prod[m]
        BY Zenon, <2>1
      <3>3. x[m] = r.words[m - (i + 1) + 1]
        BY ONLY <1>0, <3>1, <3>2, m \in 1 .. 2 * LIMBS
      <3> QED
        BY <3>1, <3>3
    <2>4. x[i + (LIMBS + 1)] = r.left
      <3>1. /\ i + (LIMBS + 1) \in 1 .. 2 * LIMBS
            /\ ~(i + (LIMBS + 1) \in i + 1 .. (i + 1) + LIMBS - 1)
            /\ i + (LIMBS + 1) = (i + 1) + LIMBS
        BY <1>0
      <3> QED
        BY <2>1, <3>1
    <2>5. ASSUME NEW k \in 1 .. 2 * LIMBS, k > (i + 1) + LIMBS PROVE x[k] = prod[k]
      <3>1. ~(k \in i + 1 .. (i + 1) + LIMBS - 1) /\ k # (i + 1) + LIMBS
        BY <1>0, <2>5
      <3> QED
        BY <2>1, <3>1
    <2> QED
      BY <2>2, <2>3, <2>4, <2>5
  <1>12. x \in Words(2 * LIMBS)
    <2>1. ASSUME NEW k \in 1 .. 2 * LIMBS PROVE x[k] \in 0 .. W - 1
      <3>1. CASE k <= i
        <4>1. k \in 1 .. i
          BY <1>0, <3>1
        <4> QED
          BY <1>1, <1>11, <4>1 DEF AreWords
      <3>2. CASE k > i /\ k <= i + LIMBS
        <4>1. PICK j \in 1 .. LIMBS : k = i + j
          <5>1. k - i \in 1 .. LIMBS /\ k = i + (k - i)
            BY <1>0, <3>2
          <5> QED
            BY <5>1
        <4>2. r.words[j] \in 0 .. W - 1
          BY <1>8 DEF Words
        <4> QED
          BY <1>11, <4>1, <4>2
      <3>3. CASE k = i + (LIMBS + 1)
        BY <1>8, <1>11, <3>3
      <3>4. CASE k > i + (LIMBS + 1)
        <4>1. k > (i + 1) + LIMBS
          BY <1>0, <3>4
        <4> QED
          BY <1>1, <1>11, <4>1 DEF AreWords
      <3> QED
        BY <1>0, <3>1, <3>2, <3>3, <3>4
    <2>2. x = [k \in 1 .. 2 * LIMBS |-> x[k]]
      BY <1>7 DEF Overlaid
    <2> QED
      BY <2>1, <2>2 DEF Words
  <1>13. AreWords(x, 2 * LIMBS) /\ Numbers(x, 2 * LIMBS)
    BY <1>0, <1>12, FeWords
  <1>14. Total(x, i) = Total(prod, i)
    BY <1>0, <1>9, <1>11, TotalSame
  <1>15. /\ Numbers(tail, LIMBS + 1)
         /\ Total(x, i + (LIMBS + 1)) = Total(x, i) + Weight[i] * Total(tail, LIMBS + 1)
    <2>1. Numbers(x, i + (LIMBS + 1))
      BY <1>0, <1>13 DEF Numbers
    <2>2. \A k \in 1 .. LIMBS + 1 : tail[k] = x[i + k]
      OBVIOUS
    <2>3. PICK j \in Nat : j = LIMBS + 1 /\ i + j <= 2 * LIMBS
      BY <1>0
    <2>4. Numbers(x, i + j) /\ \A k \in 1 .. j : tail[k] = x[i + k]
      BY <2>1, <2>2, <2>3
    <2> HIDE DEF tail
    <2>5. Numbers(tail, j) /\ Total(x, i + j) = Total(x, i) + Weight[i] * Total(tail, j)
      <3>1. i \in Nat /\ j \in Nat /\ i + j <= 2 * LIMBS
        BY <1>0, <2>3
      <3> QED
        BY ONLY <2>4, <3>1, TotalSplit
    <2> QED
      BY <2>3, <2>5
  <1>16. /\ \A k \in 1 .. LIMBS : r.words[k] = tail[k]
         /\ tail[LIMBS + 1] = r.left
    BY <1>0, <1>11
  <1> HIDE DEF tail
  <1>17. Total(tail, LIMBS + 1) = Total(r.words, LIMBS) + r.left * Weight[LIMBS]
    <2>1. Numbers(r.words, LIMBS)
      BY <1>0, <1>8, FeWords
    <2>2. Total(tail, LIMBS) = Total(r.words, LIMBS)
      BY <1>0, <1>16, <2>1, TotalSame
    <2>3. Total(tail, LIMBS + 1) = Total(tail, LIMBS) + tail[LIMBS + 1] * Weight[LIMBS]
      BY <1>0, <1>15, TotalNext
    <2> QED
      BY <1>16, <2>2, <2>3
  <1>18. PICK w \in Nat, o \in Nat, y \in Nat, v \in Nat :
           w = Weight[i] /\ o = Total(prod, i) /\ y = Total(u, LIMBS) /\ v = Value(b)
    <2>1. Weight[i] \in Nat
      <3>1. i \in 0 .. 2 * LIMBS
        BY <1>0
      <3> QED
        BY <3>1, Weights
    <2>2. Total(prod, i) \in Nat /\ Total(u, LIMBS) \in Nat
      BY <1>0, <1>9, TotalType
    <2> QED
      BY <1>2, <2>1, <2>2
  <1>19. Total(x, (i + 1) + LIMBS) = o + w * (y + ai * v)
    <2>1. Total(tail, LIMBS + 1) = y + ai * v
      BY <1>2, <1>8, <1>10, <1>17, <1>18
    <2> QED
      BY <1>0, <1>14, <1>15, <1>18, <2>1
  <1>20. Total(prod, i + LIMBS) = o + w * y
    BY <1>9, <1>18
  <1>21. o + w * (y + ai * v) = (o + w * y) + w * (ai * v)
    <2>1. PICK z \in Nat : z = ai * v
      BY Constants
    <2>2. w * (y + z) = w * y + w * z
      BY ONLY Distributive, w \in Nat, y \in Nat, z \in Nat
    <2>3. PICK j \in Nat, k \in Nat : j = w * y /\ k = w * z
      OBVIOUS
    <2> QED
      BY <2>1, <2>2, <2>3
  <1> QED
    BY <1>11, <1>12, <1>18, <1>19, <1>20, <1>21

(* f[i] is what the first i rows add up to.                                *)
IsRows(f, a, b) ==
  f = [i \in 0 .. LIMBS |-> IF i = 0 THEN Zeros(2 * LIMBS)
                                     ELSE AddRow(f[i - 1], a[i], b, i)]

(* The rows of the product are added one by one;                           *)
LEMMA RowsLaw ==
  ASSUME NEW a, NEW b, NEW f, IsRows(f, a, b)
  PROVE  /\ IsTable(f, LIMBS) /\ f[0] = Zeros(2 * LIMBS)
         /\ \A i \in 1 .. LIMBS : f[i] = AddRow(f[i - 1], a[i], b, i)
  <1>1. IsTable(f, LIMBS) /\ f[0] = Zeros(2 * LIMBS)
    BY Widths DEF IsRows, IsTable
  <1>2. ASSUME NEW i \in 1 .. LIMBS PROVE f[i] = AddRow(f[i - 1], a[i], b, i)
    BY Widths DEF IsRows
  <1> QED
    BY <1>1, <1>2

(* the loop has a result,                                                  *)
LEMMA RowsExist ==
  ASSUME NEW a \in Fe, NEW b \in Fe
  PROVE  \E f : IsRows(f, a, b)
  <1> DEFINE step == [i \in 1 .. LIMBS |->
                        [x \in Words(2 * LIMBS) |-> AddRow(x, a[i], b, i)]]
  <1>1. ASSUME NEW i \in 1 .. LIMBS, NEW x \in Words(2 * LIMBS)
        PROVE  AddRow(x, a[i], b, i) \in Words(2 * LIMBS)
    <2>1. PICK j \in 0 .. LIMBS - 1 : i = j + 1
      <3>1. i - 1 \in 0 .. LIMBS - 1 /\ i = (i - 1) + 1
        BY Widths
      <3> QED
        BY <3>1
    <2>2. a[i] \in 0 .. W - 1
      BY DEF Fe, Words
    <2> QED
      BY <2>1, <2>2, AddRowIs
  <1>2. step \in [1 .. LIMBS -> [Words(2 * LIMBS) -> Words(2 * LIMBS)]]
    BY <1>1
  <1>3. Zeros(2 * LIMBS) \in Words(2 * LIMBS)
    BY Constants DEF Zeros, Words
  <1>4. PICK f : IsSteps(f, Words(2 * LIMBS), Zeros(2 * LIMBS), step, LIMBS)
    <2> HIDE DEF step
    <2> QED
      BY <1>2, <1>3, StepsExist, Widths
  <1>5. ASSUME NEW i \in 1 .. LIMBS PROVE f[i] = AddRow(f[i - 1], a[i], b, i)
    <2>1. f[i - 1] \in Words(2 * LIMBS) /\ f[i] = step[i][f[i - 1]]
      <3> HIDE DEF step
      <3> QED
        BY <1>4, Widths DEF IsSteps
    <2> QED
      BY <2>1
  <1>6. f \in [0 .. LIMBS -> Words(2 * LIMBS)] /\ f[0] = Zeros(2 * LIMBS)
    BY <1>4 DEF IsSteps
  <1>7. IsRows(f, a, b)
    <2> HIDE DEF step
    <2> QED
      BY <1>5, <1>6, Widths DEF IsRows
  <1> QED
    BY <1>7

(* What i rows hold.                                                       *)
HasRows(x, a, b, i) ==
  /\ x \in Words(2 * LIMBS)
  /\ \A k \in 1 .. 2 * LIMBS : k > i + LIMBS => x[k] = 0
  /\ Total(x, i + LIMBS) = Total(a, i) * Value(b)

(* and one row more is worth one word of a more.                           *)
LEMMA RowsNext ==
  ASSUME NEW a \in Fe, NEW b \in Fe, NEW i \in 0 .. LIMBS - 1,
         NEW x, HasRows(x, a, b, i)
  PROVE  HasRows(AddRow(x, a[i + 1], b, i + 1), a, b, i + 1)
  <1>0. /\ i \in Nat /\ i + 1 <= 2 * LIMBS /\ i + 1 \in 1 .. LIMBS
        /\ i + LIMBS \in Nat /\ LIMBS \in Nat
    BY Widths
  <1>1. AreWords(a, LIMBS) /\ Numbers(a, LIMBS) /\ Value(b) \in Nat
    BY ValueType
  <1>2. PICK d \in 0 .. W - 1 : d = a[i + 1]
    BY <1>0, <1>1 DEF AreWords
  <1>3. PICK y : y = AddRow(x, d, b, i + 1)
    OBVIOUS
  <1>4. x \in Words(2 * LIMBS)
    BY DEF HasRows
  <1>5. /\ y \in Words(2 * LIMBS)
        /\ \A k \in 1 .. 2 * LIMBS : k > (i + 1) + LIMBS => y[k] = x[k]
        /\ Total(y, (i + 1) + LIMBS) =
             Total(x, i + LIMBS) + Weight[i] * (d * Value(b))
    BY <1>3, <1>4, AddRowIs
  <1>6. Numbers(a, i + 1)
    BY <1>0, <1>1 DEF Numbers
  <1>7. PICK t \in Nat, w \in Nat, v \in Nat :
          t = Total(a, i) /\ w = Weight[i] /\ v = Value(b)
    BY <1>0, <1>1, <1>6, TotalNext
  <1>8. Total(a, i + 1) = t + d * w
    BY <1>0, <1>2, <1>6, <1>7, TotalNext
  <1>9. Total(y, (i + 1) + LIMBS) = t * v + w * (d * v)
    BY <1>5, <1>7 DEF HasRows
  <1>10. t * v + w * (d * v) = (t + d * w) * v
    BY Constants
  <1>11. ASSUME NEW k \in 1 .. 2 * LIMBS, k > (i + 1) + LIMBS PROVE y[k] = 0
    <2>1. k > i + LIMBS
      BY <1>0, <1>11
    <2> QED
      BY <1>5, <1>11, <2>1 DEF HasRows
  <1>12. HasRows(y, a, b, i + 1)
    BY <1>5, <1>7, <1>8, <1>9, <1>10, <1>11 DEF HasRows
  <1> QED
    BY <1>2, <1>3, <1>12

(* The schoolbook product is the product.                                  *)
LEMMA ProductIs ==
  ASSUME NEW a \in Fe, NEW b \in Fe
  PROVE  /\ Product(a, b) \in Words(2 * LIMBS)
         /\ Total(Product(a, b), 2 * LIMBS) = Value(a) * Value(b)
  <1>1. PICK f : IsRows(f, a, b) /\ Product(a, b) = f[LIMBS]
    BY RowsExist DEF Product, IsRows
  <1>2. /\ f[0] = Zeros(2 * LIMBS)
        /\ \A i \in 1 .. LIMBS : f[i] = AddRow(f[i - 1], a[i], b, i)
    BY <1>1, RowsLaw
  <1> DEFINE Good == {i \in 0 .. LIMBS : HasRows(f[i], a, b, i)}
  <1>3. 0 \in Good
    <2>1. PICK z : z = f[0]
      OBVIOUS
    <2>2. z \in Words(2 * LIMBS) /\ \A k \in 1 .. 2 * LIMBS : z[k] = 0
      BY <1>2, <2>1, Constants DEF Zeros, Words
    <2>3. \A k \in 1 .. LIMBS : z[k] = 0
      BY <2>2, Widths
    <2>4. Total(z, LIMBS) = 0
      BY <2>3, TotalOfZeros, Widths
    <2>5. 0 + LIMBS = LIMBS /\ Total(a, 0) = 0 /\ 0 * Value(b) = 0
      BY Widths, TotalZero, ValueType
    <2>6. HasRows(z, a, b, 0)
      BY <2>2, <2>4, <2>5 DEF HasRows
    <2> QED
      BY <2>1, <2>6, Widths
  <1>4. ASSUME NEW i \in Good, i < LIMBS PROVE i + 1 \in Good
    <2>1. i \in 0 .. LIMBS - 1 /\ i + 1 \in 1 .. LIMBS /\ (i + 1) - 1 = i
      BY <1>4, Widths
    <2>2. f[i + 1] = AddRow(f[i], a[i + 1], b, i + 1)
      BY <1>2, <2>1
    <2>3. HasRows(f[i], a, b, i)
      OBVIOUS
    <2>4. HasRows(AddRow(f[i], a[i + 1], b, i + 1), a, b, i + 1)
      BY <2>1, <2>3, RowsNext
    <2> QED
      BY <2>1, <2>2, <2>4
  <1>5. LIMBS \in Good
    <2>1. Good \in SUBSET Nat
      OBVIOUS
    <2> HIDE DEF Good
    <2> QED
      BY <1>3, <1>4, <2>1, GoodUpTo, Widths
  <1>6. HasRows(Product(a, b), a, b, LIMBS)
    BY <1>1, <1>5
  <1>7. LIMBS + LIMBS = 2 * LIMBS /\ Total(a, LIMBS) = Value(a)
    BY Widths, ValueType
  <1> QED
    BY <1>6, <1>7 DEF HasRows

----------------------------------------------------------------------------
(* Folds                                                                   *)

LEMMA NothingLeft ==
  ASSUME NEW len \in Nat, len <= 2 * LIMBS, NEW v \in Words(len), NEW l \in Nat,
         NEW x \in Nat, x < Weight[len], Total(v, len) + l * Weight[len] = x
  PROVE  Total(v, len) = x
  <1>1. PICK w \in Nat \ {0}, t \in Nat : w = Weight[len] /\ t = Total(v, len)
    BY FeWords, TotalBound
  <1>2. t + l * w = x /\ x < w
    BY <1>1
  <1>3. l = 0
    <2> SUFFICES ASSUME l > 0 PROVE FALSE
      OBVIOUS
    <2>1. w * l \in Nat /\ w * l >= w
      BY ProductAtLeast
    <2>2. PICK m \in Nat : m = l * w /\ m >= w
      BY <2>1
    <2> QED
      BY <1>2, <2>2
  <1> QED
    BY <1>1, <1>2, <1>3

(* The high half times C is added exactly,                                 *)
LEMMA PlusTimesCIs ==
  ASSUME NEW a \in Words(2 * LIMBS), NEW b \in Words(2 * LIMBS),
         Total(a, 2 * LIMBS) + C * Total(b, 2 * LIMBS) < Weight[2 * LIMBS]
  PROVE  /\ PlusTimesC(a, b) \in Words(2 * LIMBS)
         /\ Total(PlusTimesC(a, b), 2 * LIMBS) =
              Total(a, 2 * LIMBS) + C * Total(b, 2 * LIMBS)
  <1> DEFINE s == [k \in 1 .. 2 * LIMBS |-> a[k] + b[k] * C]
             r == Added(s, 2 * LIMBS)
  <1>0. 2 * LIMBS \in Nat /\ C \in Nat
    BY Widths
  <1>1. /\ AreWords(a, 2 * LIMBS) /\ AreWords(b, 2 * LIMBS)
        /\ Numbers(a, 2 * LIMBS) /\ Numbers(b, 2 * LIMBS)
    BY <1>0, FeWords
  <1>2. ASSUME NEW k \in 1 .. 2 * LIMBS
        PROVE  s[k] = a[k] + C * b[k] /\ s[k] \in 0 .. W * W - W
    <2>1. PICK x \in 0 .. W - 1, y \in 0 .. W - 1, z \in 0 .. W - 1 :
            x = a[k] /\ y = b[k] /\ z = C
      BY <1>1, Constants DEF AreWords
    <2>2. s[k] = x + y * z /\ x + y * z = y * z + x
      BY <2>1
    <2>3. y * z + x \in 0 .. W * W - W
      BY ProductFits, Constants
    <2>4. y * z = z * y
      BY Constants
    <2> QED
      BY <2>1, <2>2, <2>3, <2>4
  <1>3. Fits(s, 2 * LIMBS) /\ \A k \in 1 .. 2 * LIMBS : s[k] = a[k] + C * b[k]
    BY <1>2 DEF Fits
  <1>4. PlusTimesC(a, b) = r.words
    BY DEF PlusTimesC
  <1> HIDE DEF s
  <1>5. /\ r.words \in Words(2 * LIMBS) /\ r.left \in 0 .. W - 1
        /\ Total(r.words, 2 * LIMBS) + r.left * Weight[2 * LIMBS] =
             Total(s, 2 * LIMBS)
    BY <1>0, <1>3, AddedIs
  <1> HIDE DEF r
  <1>6. Total(s, 2 * LIMBS) = Total(a, 2 * LIMBS) + C * Total(b, 2 * LIMBS)
    BY <1>0, <1>1, <1>3, TotalLinear
  <1>7. PICK x \in Nat : x = Total(a, 2 * LIMBS) + C * Total(b, 2 * LIMBS)
    BY <1>0, <1>1, TotalType
  <1>8. r.left \in Nat
    BY <1>5, Constants
  <1>9. Total(r.words, 2 * LIMBS) = x
    BY <1>0, <1>5, <1>6, <1>7, <1>8, NothingLeft
  <1> QED
    BY <1>4, <1>5, <1>7, <1>9

(* and the high half one word up, when it fits.                            *)
LEMMA PlusTimesWIs ==
  ASSUME NEW a \in Words(2 * LIMBS), NEW b \in Words(2 * LIMBS),
         b[2 * LIMBS] = 0,
         Total(a, 2 * LIMBS) + W * Total(b, 2 * LIMBS) < Weight[2 * LIMBS]
  PROVE  /\ PlusTimesW(a, b) \in Words(2 * LIMBS)
         /\ Total(PlusTimesW(a, b), 2 * LIMBS) =
              Total(a, 2 * LIMBS) + W * Total(b, 2 * LIMBS)
  <1> DEFINE up == [k \in 1 .. 2 * LIMBS |-> IF k = 1 THEN 0 ELSE b[k - 1]]
             s == [k \in 1 .. 2 * LIMBS |-> a[k] + IF k = 1 THEN 0 ELSE b[k - 1]]
             r == Added(s, 2 * LIMBS)
  <1>0. 2 * LIMBS \in Nat /\ W \in Nat /\ 2 * LIMBS >= 4
    BY Widths, Constants
  <1>1. /\ AreWords(a, 2 * LIMBS) /\ AreWords(b, 2 * LIMBS)
        /\ Numbers(a, 2 * LIMBS) /\ Numbers(b, 2 * LIMBS)
    BY <1>0, FeWords
  <1>2. ASSUME NEW k \in 1 .. 2 * LIMBS PROVE up[k] \in 0 .. W - 1
    <2>1. CASE k = 1
      BY <2>1, Constants
    <2>2. CASE k # 1
      <3>1. k - 1 \in 1 .. 2 * LIMBS /\ up[k] = b[k - 1]
        BY <1>0, <2>2
      <3> QED
        BY <1>1, <3>1 DEF AreWords
    <2> QED
      BY <2>1, <2>2
  <1>3. ASSUME NEW k \in 1 .. 2 * LIMBS
        PROVE  s[k] = a[k] + 1 * up[k] /\ s[k] \in 0 .. W * W - W
    <2>1. PICK x \in 0 .. W - 1, y \in 0 .. W - 1 : x = a[k] /\ y = up[k]
      BY <1>1, <1>2 DEF AreWords
    <2>2. s[k] = x + y
      BY <2>1
    <2>3. x + y \in Nat /\ x + y <= 2 * (W - 1)
      BY Constants
    <2>4. PICK z \in Nat : z = W * W - W /\ 2 * (W - 1) <= z
      BY TwoFit
    <2>5. x + y <= z
      BY <2>3, <2>4, Constants
    <2> QED
      BY <2>1, <2>2, <2>3, <2>4, <2>5
  <1>4. /\ Fits(s, 2 * LIMBS) /\ \A k \in 1 .. 2 * LIMBS : s[k] = a[k] + 1 * up[k]
        /\ AreWords(up, 2 * LIMBS) /\ Numbers(up, 2 * LIMBS)
    <2>1. AreWords(up, 2 * LIMBS)
      BY <1>2 DEF AreWords
    <2> QED
      BY <1>3, <2>1, WordsAreNumbers DEF Fits
  <1>5. PICK l \in Nat : /\ 2 * LIMBS = 1 + l /\ 2 * LIMBS = l + 1
                         /\ l <= 2 * LIMBS /\ 1 <= l
    <2>1. 2 * LIMBS - 1 \in Nat /\ 2 * LIMBS - 1 >= 1
      BY <1>0
    <2> QED
      BY <1>0, <2>1
  <1>6. up[1] = 0 /\ \A k \in 1 .. l : b[k] = up[1 + k]
    BY <1>0, <1>5
  <1>7. PlusTimesW(a, b) = r.words
    BY DEF PlusTimesW
  <1> HIDE DEF s, up
  <1>8. /\ r.words \in Words(2 * LIMBS) /\ r.left \in 0 .. W - 1
        /\ Total(r.words, 2 * LIMBS) + r.left * Weight[2 * LIMBS] =
             Total(s, 2 * LIMBS)
    BY <1>0, <1>4, AddedIs
  <1> HIDE DEF r
  <1>9. Total(s, 2 * LIMBS) = Total(a, 2 * LIMBS) + 1 * Total(up, 2 * LIMBS)
    BY <1>0, <1>1, <1>4, TotalLinear
  <1>10. Total(up, 2 * LIMBS) = W * Total(b, 2 * LIMBS)
    <2>1. Numbers(up, 1 + l) /\ 1 + l <= 2 * LIMBS /\ 1 \in Nat
      BY <1>0, <1>4, <1>5
    <2>2. /\ Numbers(b, l)
          /\ Total(up, 1 + l) = Total(up, 1) + Weight[1] * Total(b, l)
      BY <1>5, <1>6, <2>1, TotalSplit
    <2>3. Numbers(up, 2)
      BY <1>0, <1>4 DEF Numbers
    <2>4. Total(up, 1) = 0 /\ Weight[1] = W
      BY <1>6, <2>3, FirstWords
    <2>5. Numbers(b, l + 1) /\ l + 1 <= 2 * LIMBS /\ b[l + 1] = 0
      BY <1>0, <1>1, <1>5
    <2>6. Total(b, l + 1) = Total(b, l) + 0 * Weight[l] /\ Weight[l] \in Nat
          /\ Total(b, l) \in Nat
      BY <1>5, <2>5, TotalNext
    <2>7. PICK t \in Nat : t = Total(b, l) /\ Total(b, l + 1) = t
      BY <2>6
    <2> QED
      BY <1>0, <1>5, <2>2, <2>4, <2>7
  <1>11. PICK x \in Nat : x = Total(a, 2 * LIMBS) + W * Total(b, 2 * LIMBS)
    BY <1>0, <1>1, TotalType
  <1>12. r.left \in Nat
    BY <1>8, Constants
  <1>13. Total(s, 2 * LIMBS) = x
    <2>1. Total(b, 2 * LIMBS) \in Nat
      BY <1>0, <1>1, TotalType
    <2>2. PICK y \in Nat : y = W * Total(b, 2 * LIMBS)
      BY <1>0, <2>1
    <2> QED
      BY <1>9, <1>10, <1>11, <2>2
  <1>14. Total(r.words, 2 * LIMBS) = x
    BY <1>0, <1>8, <1>11, <1>12, <1>13, NothingLeft
  <1> QED
    BY <1>7, <1>8, <1>11, <1>14

(* The two halves of a double-length value.                                *)
LEMMA Halves ==
  ASSUME NEW t \in Words(2 * LIMBS)
  PROVE  \E x \in Nat, h \in Nat :
           /\ x < Weight[LIMBS] /\ h < Weight[LIMBS]
           /\ Total(t, 2 * LIMBS) = x + Weight[LIMBS] * h
           /\ Low(t) \in Words(2 * LIMBS) /\ Total(Low(t), 2 * LIMBS) = x
           /\ High(t) \in Words(2 * LIMBS) /\ Total(High(t), 2 * LIMBS) = h
           /\ High(t)[2 * LIMBS] = 0
           /\ hi_nonzero(t) <=> h > 0
           /\ LowHalf(t) \in Fe /\ Value(LowHalf(t)) = x
  <1>0. /\ LIMBS \in Nat /\ 2 * LIMBS \in Nat /\ 2 * LIMBS = LIMBS + LIMBS
        /\ LIMBS <= 2 * LIMBS /\ LIMBS > 1
    BY Widths
  <1>1. AreWords(t, 2 * LIMBS) /\ Numbers(t, 2 * LIMBS)
    BY <1>0, FeWords
  <1> DEFINE top == [k \in 1 .. LIMBS |-> t[LIMBS + k]]
             low == LowHalf(t)
             lo == Low(t)
             hi == High(t)
  <1>2. \A k \in 1 .. LIMBS : k \in 1 .. 2 * LIMBS /\ LIMBS + k \in 1 .. 2 * LIMBS
    BY <1>0
  <1>3. top \in Fe /\ low \in Fe
    BY <1>1, <1>2 DEF AreWords, Fe, Words, LowHalf
  <1>4. lo \in Words(2 * LIMBS) /\ hi \in Words(2 * LIMBS)
    <2>1. ASSUME NEW k \in 1 .. 2 * LIMBS
          PROVE  /\ (IF k <= LIMBS THEN t[k] ELSE 0) \in 0 .. W - 1
                 /\ (IF k <= LIMBS THEN t[LIMBS + k] ELSE 0) \in 0 .. W - 1
      <3>1. CASE k <= LIMBS
        <4>1. k \in 1 .. LIMBS
          BY <1>0, <3>1
        <4> QED
          BY <1>1, <1>2, <3>1, <4>1 DEF AreWords
      <3>2. CASE ~(k <= LIMBS)
        BY <3>2, Constants
      <3> QED
        BY <3>1, <3>2
    <2> QED
      BY <2>1 DEF Low, High, Words
  <1>5. /\ \A k \in 1 .. LIMBS : lo[k] = t[k] /\ hi[k] = t[LIMBS + k] /\ low[k] = t[k]
        /\ \A k \in 1 .. LIMBS : lo[LIMBS + k] = 0 /\ hi[LIMBS + k] = 0
        /\ \A k \in 1 .. LIMBS : top[k] = t[LIMBS + k]
    <2>1. ASSUME NEW k \in 1 .. LIMBS
          PROVE  /\ lo[k] = t[k] /\ hi[k] = t[LIMBS + k] /\ low[k] = t[k]
                 /\ lo[LIMBS + k] = 0 /\ hi[LIMBS + k] = 0
      <3>1. k <= LIMBS /\ ~(LIMBS + k <= LIMBS)
        BY <1>0
      <3> QED
        BY <1>2, <3>1 DEF Low, High, LowHalf
    <2> QED
      BY <2>1
  <1>6. hi_nonzero(t) <=> \E k \in 1 .. LIMBS : top[k] # 0
    <2>1. ASSUME NEW j \in LIMBS + 1 .. 2 * LIMBS
          PROVE  \E k \in 1 .. LIMBS : LIMBS + k = j
      <3>1. j - LIMBS \in 1 .. LIMBS /\ LIMBS + (j - LIMBS) = j
        BY <1>0
      <3> QED
        BY <3>1
    <2>2. ASSUME hi_nonzero(t) PROVE \E k \in 1 .. LIMBS : top[k] # 0
      <3>1. PICK j \in LIMBS + 1 .. 2 * LIMBS : t[j] # 0
        BY <2>2 DEF hi_nonzero
      <3>2. PICK k \in 1 .. LIMBS : LIMBS + k = j
        BY <2>1
      <3> QED
        BY <3>1, <3>2
    <2>3. ASSUME NEW k \in 1 .. LIMBS, top[k] # 0 PROVE hi_nonzero(t)
      <3>1. PICK j \in LIMBS + 1 .. 2 * LIMBS : j = LIMBS + k
        <4>1. LIMBS + k \in LIMBS + 1 .. 2 * LIMBS
          BY <1>0
        <4> QED
          BY <4>1
      <3>2. t[j] # 0
        BY <1>5, <2>3, <3>1
      <3> QED
        BY <3>2 DEF hi_nonzero
    <2> QED
      BY <2>2, <2>3
  <1> HIDE DEF top, low, lo, hi
  <1>7. /\ Numbers(top, LIMBS) /\ Value(top) = Total(top, LIMBS)
        /\ Value(top) \in 0 .. Weight[LIMBS] - 1
        /\ Numbers(low, LIMBS) /\ Value(low) = Total(low, LIMBS)
        /\ Value(low) \in 0 .. Weight[LIMBS] - 1
        /\ Weight[LIMBS] \in Nat
    BY <1>3, ValueType
  <1>8. PICK x \in Nat, h \in Nat : x = Value(low) /\ h = Value(top)
    BY <1>7
  <1>9. /\ Numbers(lo, 2 * LIMBS) /\ Numbers(hi, 2 * LIMBS)
        /\ Numbers(lo, LIMBS) /\ Numbers(hi, LIMBS)
        /\ Numbers(t, LIMBS) /\ Numbers(t, LIMBS + LIMBS)
    <2>1. Numbers(lo, 2 * LIMBS) /\ Numbers(hi, 2 * LIMBS)
      BY <1>0, <1>4, FeWords
    <2> QED
      BY <1>0, <1>1, <1>2, <2>1 DEF Numbers
  <1>10. Total(t, 2 * LIMBS) = x + Weight[LIMBS] * h
    <2>1. Total(t, LIMBS + LIMBS) = Total(t, LIMBS) + Weight[LIMBS] * Total(top, LIMBS)
      BY <1>0, <1>5, <1>9, TotalSplit
    <2>2. \A k \in 1 .. LIMBS : low[k] = t[k]
      BY <1>5
    <2>3. Total(t, LIMBS) = Total(low, LIMBS)
      BY <1>0, <1>7, <2>2, TotalSame
    <2> QED
      BY <1>0, <1>7, <1>8, <2>1, <2>3
  <1>11. Total(lo, 2 * LIMBS) = x
    <2>1. Total(lo, LIMBS + LIMBS) = Total(lo, LIMBS)
      BY <1>0, <1>5, <1>9, TotalOfFew
    <2>2. \A k \in 1 .. LIMBS : low[k] = lo[k]
      BY <1>5
    <2>3. Total(lo, LIMBS) = Total(low, LIMBS)
      BY <1>0, <1>7, <2>2, TotalSame
    <2> QED
      BY <1>0, <1>7, <1>8, <2>1, <2>3
  <1>12. Total(hi, 2 * LIMBS) = h
    <2>1. Total(hi, LIMBS + LIMBS) = Total(hi, LIMBS)
      BY <1>0, <1>5, <1>9, TotalOfFew
    <2>2. \A k \in 1 .. LIMBS : top[k] = hi[k]
      BY <1>5
    <2>3. Total(hi, LIMBS) = Total(top, LIMBS)
      BY <1>0, <1>7, <2>2, TotalSame
    <2> QED
      BY <1>0, <1>7, <1>8, <2>1, <2>3
  <1>13. hi[2 * LIMBS] = 0
    <2>1. LIMBS \in 1 .. LIMBS
      BY <1>0
    <2> QED
      BY <1>0, <1>5, <2>1
  <1>14. hi_nonzero(t) <=> h > 0
    <2>1. (\A k \in 1 .. LIMBS : top[k] = 0) <=> h = 0
      <3>1. top = Zeros(LIMBS) <=> h = 0
        BY <1>3, <1>8, ZeroWords DEF fe_is_zero
      <3>2. top = [k \in 1 .. LIMBS |-> top[k]]
        BY <1>0, <1>3, FeWords DEF Fe
      <3>3. top = Zeros(LIMBS) <=> \A k \in 1 .. LIMBS : top[k] = 0
        BY <3>2 DEF Zeros
      <3> QED
        BY <3>1, <3>3
    <2> QED
      BY <1>6, <2>1
  <1>15. /\ x < Weight[LIMBS] /\ h < Weight[LIMBS]
         /\ Total(Low(t), 2 * LIMBS) = x /\ Total(High(t), 2 * LIMBS) = h
         /\ Low(t) \in Words(2 * LIMBS) /\ High(t) \in Words(2 * LIMBS)
         /\ High(t)[2 * LIMBS] = 0
         /\ LowHalf(t) \in Fe /\ Value(LowHalf(t)) = x
    BY <1>3, <1>4, <1>7, <1>8, <1>11, <1>12, <1>13 DEF low, lo, hi
  <1> QED
    BY <1>10, <1>14, <1>15

(* The weight of twice the words.                                          *)
LEMMA DoubleWeight ==
  /\ Weight[2 * LIMBS] = Weight[LIMBS] * Weight[LIMBS]
  /\ Weight[2 * LIMBS] \in Nat \ {0}
  /\ C + W < Weight[LIMBS]
  <1>1. LIMBS + LIMBS = 2 * LIMBS /\ LIMBS \in Nat /\ 2 * LIMBS \in 0 .. 2 * LIMBS
    BY Widths
  <1>2. Weight[LIMBS + LIMBS] = Weight[LIMBS] * Weight[LIMBS]
    BY <1>1, WeightProduct
  <1>3. C + W < Weight[LIMBS]
    BY ModulusNumbers, ModulusWords, Constants DEF p
  <1> QED
    BY <1>1, <1>2, <1>3, Weights

(* A fold takes p as often as the high half says, and overflows nowhere.   *)
LEMMA FoldIs ==
  ASSUME NEW t \in Words(2 * LIMBS)
  PROVE  \E h \in Nat :
           /\ fold_once(t) \in Words(2 * LIMBS)
           /\ Total(t, 2 * LIMBS) = Total(fold_once(t), 2 * LIMBS) + p * h
           /\ hi_nonzero(t) <=> h > 0
  <1>1. PICK x \in Nat, h \in Nat :
          /\ x < Weight[LIMBS] /\ h < Weight[LIMBS]
          /\ Total(t, 2 * LIMBS) = x + Weight[LIMBS] * h
          /\ Low(t) \in Words(2 * LIMBS) /\ Total(Low(t), 2 * LIMBS) = x
          /\ High(t) \in Words(2 * LIMBS) /\ Total(High(t), 2 * LIMBS) = h
          /\ High(t)[2 * LIMBS] = 0
          /\ hi_nonzero(t) <=> h > 0
    BY Halves
  <1>2. PICK w \in Nat \ {0}, c \in Nat, v \in Nat, m \in Nat :
          /\ w = Weight[LIMBS] /\ c = C /\ v = W /\ m = p
          /\ c + v < w /\ m = w - v - c
    BY ModulusNumbers, DoubleWeight, Constants, Widths DEF p
  <1>3. PICK ch \in Nat, vh \in Nat, wh \in Nat, mh \in Nat :
          ch = c * h /\ vh = v * h /\ wh = w * h /\ mh = m * h
    OBVIOUS
  <1>4. wh = mh + (ch + vh)
    <2>1. w = m + (c + v)
      BY <1>2
    <2>2. (m + (c + v)) * h = m * h + (c * h + v * h)
      OBVIOUS
    <2> QED
      BY <1>3, <2>1, <2>2
  <1>5. PICK ww \in Nat : ww = w * w /\ ww = Weight[2 * LIMBS]
    BY <1>2, DoubleWeight
  <1>6. x + (ch + vh) < ww
    <2>1. PICK cv \in 0 .. w - 1 : cv = c + v
      BY <1>2
    <2>2. h \in 0 .. w - 1 /\ x \in 0 .. w - 1
      BY <1>1, <1>2
    <2>3. cv * h + x \in 0 .. w * w - w
      BY <2>2, ProductFits
    <2>4. cv * h = ch + vh
      <3>1. (c + v) * h = c * h + v * h
        OBVIOUS
      <3> QED
        BY <1>3, <2>1, <3>1
    <2> QED
      BY <1>2, <1>5, <2>3, <2>4
  <1>7. PICK a : a = PlusTimesC(Low(t), High(t))
    OBVIOUS
  <1>8. a \in Words(2 * LIMBS) /\ Total(a, 2 * LIMBS) = x + ch
    <2>1. x + ch < ww
      BY <1>6
    <2>2. C * h = ch
      BY <1>2, <1>3
    <2>3. Total(Low(t), 2 * LIMBS) + C * Total(High(t), 2 * LIMBS) = x + ch
      BY <1>1, <2>2
    <2>4. Total(Low(t), 2 * LIMBS) + C * Total(High(t), 2 * LIMBS) < Weight[2 * LIMBS]
      BY <1>5, <2>1, <2>3
    <2> QED
      BY <1>1, <1>7, <2>3, <2>4, PlusTimesCIs
  <1>9. PICK b : b = PlusTimesW(a, High(t))
    OBVIOUS
  <1>10. b \in Words(2 * LIMBS) /\ Total(b, 2 * LIMBS) = (x + ch) + vh
    <2>1. (x + ch) + vh < ww
      BY <1>6
    <2>2. W * h = vh
      BY <1>2, <1>3
    <2>3. Total(a, 2 * LIMBS) + W * Total(High(t), 2 * LIMBS) = (x + ch) + vh
      BY <1>1, <1>8, <2>2
    <2>4. Total(a, 2 * LIMBS) + W * Total(High(t), 2 * LIMBS) < Weight[2 * LIMBS]
      BY <1>5, <2>1, <2>3
    <2> QED
      BY <1>1, <1>8, <1>9, <2>3, <2>4, PlusTimesWIs
  <1>11. b = fold_once(t)
    BY <1>7, <1>9 DEF fold_once
  <1>12. Total(t, 2 * LIMBS) = ((x + ch) + vh) + mh
    <2>1. Total(t, 2 * LIMBS) = x + wh
      BY <1>1, <1>2, <1>3
    <2> QED
      BY <1>4, <2>1
  <1>13. p * h = mh
    BY <1>2, <1>3
  <1> QED
    BY <1>1, <1>10, <1>11, <1>12, <1>13

(* f[u] is what folding u until no high half is left makes of it.          *)
IsFolding(f) ==
  f = [u \in Words(2 * LIMBS) |-> IF hi_nonzero(u) THEN f[fold_once(u)] ELSE u]

(* The loop of folds ends, without a high half and at the same residue.    *)
LEMMA FoldedIs ==
  ASSUME NEW t \in Words(2 * LIMBS)
  PROVE  /\ Folded(t) \in Words(2 * LIMBS) /\ ~hi_nonzero(Folded(t))
         /\ Total(Folded(t), 2 * LIMBS) % p = Total(t, 2 * LIMBS) % p
  <1>0. PICK D : D = Words(2 * LIMBS)
    OBVIOUS
  <1> DEFINE G == {u \in D : hi_nonzero(u)}
             step == [u \in D |-> fold_once(u)]
             m == [u \in D |-> Total(u, 2 * LIMBS)]
             r == [u \in D |-> Total(u, 2 * LIMBS) % p]
  <1>1. PICK N \in Nat : N = Weight[2 * LIMBS]
    BY DoubleWeight
  <1>2. ASSUME NEW u \in D PROVE Total(u, 2 * LIMBS) \in 0 .. N
    <2>1. 2 * LIMBS \in Nat
      BY Widths
    <2> QED
      BY <1>0, <1>1, <2>1, FeWords, TotalBound
  <1>3. step \in [D -> D]
    BY <1>0, FoldIs
  <1>4. m \in [D -> 0 .. N]
    BY <1>2
  <1>5. ASSUME NEW u \in G PROVE m[step[u]] < m[u] /\ r[step[u]] = r[u]
    <2>1. PICK h \in Nat :
            /\ fold_once(u) \in D /\ h > 0
            /\ Total(u, 2 * LIMBS) = Total(fold_once(u), 2 * LIMBS) + p * h
      BY <1>0, FoldIs
    <2>2. PICK x \in Nat, y \in Nat, q \in Nat \ {0} :
            x = Total(fold_once(u), 2 * LIMBS) /\ y = Total(u, 2 * LIMBS) /\ q = p
      BY <1>2, <2>1, ModulusNumbers
    <2>3. y = x + q * h
      BY <2>1, <2>2
    <2>4. y % q = x % q
      <3>1. Exceeds(y, x, q, h)
        BY <2>3 DEF Exceeds
      <3> QED
        BY <3>1, SameRemainder
    <2>5. q * h \in Nat /\ q * h >= q
      BY <2>1, ProductAtLeast
    <2>6. x < y
      BY <2>3, <2>5
    <2>7. step[u] = fold_once(u) /\ m[step[u]] = x /\ m[u] = y
          /\ r[step[u]] = x % q /\ r[u] = y % q
      BY <2>1, <2>2
    <2> QED
      BY <2>4, <2>6, <2>7
  <1>6. G \in SUBSET D
    OBVIOUS
  <1>7. \A u \in D : u \in G <=> hi_nonzero(u)
    OBVIOUS
  <1>8. \A u \in D : step[u] = fold_once(u)
    OBVIOUS
  <1>9. \A u \in D : r[u] = Total(u, 2 * LIMBS) % p
    OBVIOUS
  <1>10. \E f : IsFolding(f)
    <2> HIDE DEF step, m, r, G
    <2>1. PICK f \in [D -> D] : IsLoop(f, D, G, step)
      BY <1>3, <1>4, <1>5, <1>6, LoopExists
    <2>2. \A u \in D : f[u] = IF hi_nonzero(u) THEN f[fold_once(u)] ELSE u
      BY <1>7, <1>8, <2>1 DEF IsLoop
    <2>3. IsFolding(f)
      BY <1>0, <2>1, <2>2 DEF IsFolding
    <2> QED
      BY <2>3
  <1>11. PICK f : IsFolding(f) /\ Folded(t) = f[t]
    BY <1>10 DEF Folded, IsFolding
  <1>12. ASSUME NEW u \in D
         PROVE  f[u] = IF hi_nonzero(u) THEN f[fold_once(u)] ELSE u
    BY <1>0, <1>11 DEF IsFolding
  <1> HIDE DEF step, m, r, G
  <1>13. IsLoop(f, D, G, step)
    BY <1>7, <1>8, <1>12 DEF IsLoop
  <1>14. f[t] \in D \ G /\ r[f[t]] = r[t]
    <2>1. Falls(m, G, step) /\ Keeps(r, G, step)
      BY <1>5 DEF Falls, Keeps
    <2>2. LeadsOut(f, r, D, G)
      BY ONLY <1>3, <1>4, <1>6, <1>13, <2>1, N \in Nat, LoopEnds
    <2> QED
      BY <1>0, <2>2 DEF LeadsOut
  <1> QED
    BY <1>0, <1>7, <1>9, <1>11, <1>14

IsReducing(f) == f = [r \in Fe |-> IF ge_p(r) THEN f[sub_p(r)] ELSE r]

(* To subtract p keeps the words words.                                    *)
LEMMA SubPIs ==
  ASSUME NEW a \in Fe, ge_p(a)
  PROVE  sub_p(a) \in Fe /\ Value(a) = Value(sub_p(a)) + p
  <1>1. PICK d : d = Subtracted(a, P)
    OBVIOUS
  <1>2. /\ d.words \in Fe /\ d.left \in 0 .. 1
        /\ Value(d.words) = Value(a) - p + d.left * Weight[LIMBS]
    BY <1>1, SubtractedIs, ModulusWords
  <1>3. PICK v \in Nat, w \in Nat, m \in Nat, u \in Nat, l \in 0 .. 1 :
          /\ v = Value(a) /\ w = Weight[LIMBS] /\ m = p /\ u = Value(d.words)
          /\ l = d.left /\ u < w /\ v < w /\ v >= m
    <2>1. Value(a) >= p
      BY AtLeastIs, ModulusWords DEF ge_p
    <2>2. /\ Value(a) \in Nat /\ Value(a) < Weight[LIMBS]
          /\ Value(d.words) \in Nat /\ Value(d.words) < Weight[LIMBS]
      BY <1>2, ValueType, ModulusNumbers
    <2> QED
      BY <1>2, <2>1, <2>2, ModulusNumbers
  <1>4. PICK i \in {0, w} : u = v - m + i
    <2>1. u = v - m + l * w
      BY <1>2, <1>3
    <2> QED
      BY <2>1, OneOrNone
  <1>5. v = u + m
    BY <1>3, <1>4
  <1> QED
    BY <1>1, <1>2, <1>3, <1>5 DEF sub_p

(* The last subtractions end below p, at the same residue.                 *)
LEMMA ReducedIs ==
  ASSUME NEW a \in Fe
  PROVE  Reduced(a) \in Field /\ Value(Reduced(a)) = Value(a) % p
  <1> DEFINE G == {u \in Fe : ge_p(u)}
             step == [u \in Fe |-> IF ge_p(u) THEN sub_p(u) ELSE u]
             m == [u \in Fe |-> Value(u)]
             r == [u \in Fe |-> Value(u) % p]
  <1>1. PICK N \in Nat : N = Weight[LIMBS]
    BY ModulusNumbers
  <1>2. ASSUME NEW u \in Fe PROVE Value(u) \in 0 .. N
    BY <1>1, ValueType
  <1>3. step \in [Fe -> Fe]
    BY SubPIs
  <1>4. m \in [Fe -> 0 .. N]
    BY <1>2
  <1>5. ASSUME NEW u \in G PROVE m[step[u]] < m[u] /\ r[step[u]] = r[u]
    <2>1. sub_p(u) \in Fe /\ Value(u) = Value(sub_p(u)) + p
      BY SubPIs
    <2>2. PICK x \in Nat, y \in Nat, q \in Nat \ {0} :
            x = Value(sub_p(u)) /\ y = Value(u) /\ q = p
      BY <1>2, <2>1, ModulusNumbers
    <2>3. y = x + q * 1 /\ x < y
      BY <2>1, <2>2
    <2>4. y % q = x % q
      <3>1. Exceeds(y, x, q, 1)
        BY <2>3 DEF Exceeds
      <3> QED
        BY <3>1, SameRemainder
    <2>5. step[u] = sub_p(u) /\ m[step[u]] = x /\ m[u] = y
          /\ r[step[u]] = x % q /\ r[u] = y % q
      BY <2>1, <2>2
    <2> QED
      BY <2>3, <2>4, <2>5
  <1>6. G \in SUBSET Fe
    OBVIOUS
  <1>7. \A u \in Fe : u \in G <=> ge_p(u)
    OBVIOUS
  <1>8. \A u \in G : step[u] = sub_p(u)
    OBVIOUS
  <1>9. \A u \in Fe : r[u] = Value(u) % p
    OBVIOUS
  <1>10. \E f : IsReducing(f)
    <2> HIDE DEF step, m, r, G
    <2>1. PICK f \in [Fe -> Fe] : IsLoop(f, Fe, G, step)
      BY <1>3, <1>4, <1>5, <1>6, LoopExists
    <2>2. \A u \in Fe : f[u] = IF ge_p(u) THEN f[sub_p(u)] ELSE u
      BY <1>7, <1>8, <2>1 DEF IsLoop
    <2>3. IsReducing(f)
      BY <2>1, <2>2 DEF IsReducing
    <2> QED
      BY <2>3
  <1>11. PICK f : IsReducing(f) /\ Reduced(a) = f[a]
    BY <1>10 DEF Reduced, IsReducing
  <1>12. ASSUME NEW u \in Fe PROVE f[u] = IF ge_p(u) THEN f[sub_p(u)] ELSE u
    BY <1>11 DEF IsReducing
  <1> HIDE DEF step, m, r, G
  <1>13. IsLoop(f, Fe, G, step)
    BY <1>7, <1>8, <1>12 DEF IsLoop
  <1>14. f[a] \in Fe \ G /\ r[f[a]] = r[a]
    <2>1. Falls(m, G, step) /\ Keeps(r, G, step)
      BY <1>5 DEF Falls, Keeps
    <2>2. LeadsOut(f, r, Fe, G)
      BY ONLY <1>3, <1>4, <1>6, <1>13, <2>1, N \in Nat, LoopEnds
    <2> QED
      BY <2>2 DEF LeadsOut
  <1>15. PICK b \in Fe : b = Reduced(a) /\ ~ge_p(b) /\ Value(b) % p = Value(a) % p
    BY <1>7, <1>9, <1>11, <1>14
  <1>16. Value(b) \in 0 .. p - 1
    <2>1. ~(Value(b) >= p)
      BY <1>15, AtLeastIs, ModulusWords DEF ge_p
    <2> QED
      BY <2>1, ValueType, ModulusNumbers
  <1>17. Value(b) % p = Value(b)
    BY <1>16, SmallDivision, ModulusNumbers
  <1> QED
    BY <1>15, <1>16, <1>17, ModulusNumbers DEF Field

(* A product is exact, for every pair of operands and not only for reduced *)
(* ones.                                                                   *)
LEMMA FeMulIs ==
  ASSUME NEW a \in Fe, NEW b \in Fe
  PROVE  fe_mul(a, b) \in Field /\ Value(fe_mul(a, b)) = (Value(a) * Value(b)) % p
  <1>1. PICK t : t = Folded(Product(a, b))
    OBVIOUS
  <1>2. /\ t \in Words(2 * LIMBS) /\ ~hi_nonzero(t)
        /\ Total(t, 2 * LIMBS) % p = (Value(a) * Value(b)) % p
    BY <1>1, ProductIs, FoldedIs
  <1>3. LowHalf(t) \in Fe /\ Value(LowHalf(t)) = Total(t, 2 * LIMBS)
    <2>1. PICK x \in Nat, h \in Nat :
            /\ Total(t, 2 * LIMBS) = x + Weight[LIMBS] * h
            /\ hi_nonzero(t) <=> h > 0
            /\ LowHalf(t) \in Fe /\ Value(LowHalf(t)) = x
      BY <1>2, Halves
    <2>2. h = 0
      BY <1>2, <2>1
    <2>3. x + Weight[LIMBS] * 0 = x
      BY ModulusNumbers
    <2> QED
      BY <2>1, <2>2, <2>3
  <1>4. fe_mul(a, b) = Reduced(LowHalf(t))
    BY <1>1 DEF fe_mul
  <1> QED
    BY <1>2, <1>3, <1>4, ReducedIs

----------------------------------------------------------------------------
(* The bits of a value, from the highest                                   *)

HighWords(v, q) == Total([k \in 1 .. LIMBS - q |-> v[q + k]], LIMBS - q)

(* The words from q on are the word q and those above it.                  *)
LEMMA HighWordsNext ==
  ASSUME NEW v \in Fe, NEW q \in 0 .. LIMBS - 1
  PROVE  /\ HighWords(v, q) \in Nat /\ HighWords(v, q + 1) \in Nat
         /\ v[q + 1] \in 0 .. W - 1
         /\ HighWords(v, q) = W * HighWords(v, q + 1) + v[q + 1]
  <1>0. LIMBS \in Nat /\ W \in Nat
    BY Widths, Constants
  <1>1. PICK l \in Nat : /\ LIMBS - q = 1 + l /\ LIMBS - (q + 1) = l
                         /\ 1 + l <= 2 * LIMBS /\ l <= 2 * LIMBS
    <2>1. LIMBS - q - 1 \in Nat /\ LIMBS - q = 1 + (LIMBS - q - 1)
          /\ LIMBS - (q + 1) = LIMBS - q - 1 /\ LIMBS - q <= 2 * LIMBS
      BY <1>0
    <2> QED
      BY <1>0, <2>1
  <1> DEFINE a == [k \in 1 .. 1 + l |-> v[q + k]]
             b == [k \in 1 .. l |-> v[(q + 1) + k]]
  <1>2. AreWords(v, LIMBS) /\ q + 1 \in 1 .. LIMBS
    BY <1>0, ValueType
  <1>3. AreWords(a, 1 + l) /\ Numbers(a, 1 + l)
    <2>1. \A k \in 1 .. 1 + l : q + k \in 1 .. LIMBS
      BY <1>0, <1>1
    <2>2. AreWords(a, 1 + l)
      BY <1>2, <2>1 DEF AreWords
    <2> QED
      BY <2>2, WordsAreNumbers
  <1>4. \A k \in 1 .. l : b[k] = a[1 + k]
    <2>1. \A k \in 1 .. l : (q + 1) + k = q + (1 + k) /\ 1 + k \in 1 .. 1 + l
      BY <1>1
    <2> QED
      BY <2>1
  <1>5. PICK d \in 0 .. W - 1 : d = v[q + 1] /\ d = a[1]
    BY <1>1, <1>2 DEF AreWords
  <1>6. HighWords(v, q) = Total(a, 1 + l) /\ HighWords(v, q + 1) = Total(b, l)
    BY <1>1 DEF HighWords
  <1> HIDE DEF a, b
  <1>7. /\ Numbers(a, 1) /\ Numbers(b, l)
        /\ Total(a, 1 + l) = Total(a, 1) + Weight[1] * Total(b, l)
    BY <1>1, <1>3, <1>4, TotalSplit
  <1>8. Total(a, 1) = d /\ Weight[1] = W
    <2>1. 0 \in Nat /\ 0 + 1 = 1 /\ 0 + 1 <= 2 * LIMBS
      BY Widths
    <2>2. /\ Weight[0] \in Nat /\ Weight[0 + 1] = W * Weight[0]
          /\ Total(a, 0 + 1) = Total(a, 0) + a[0 + 1] * Weight[0]
      BY <1>7, <2>1, TotalNext
    <2>3. Weight[0] = 1 /\ Total(a, 0) = 0
      BY Weights, TotalZero
    <2>4. Weight[1] = W * 1 /\ Total(a, 1) = 0 + d * 1
      BY <1>5, <2>1, <2>2, <2>3
    <2> QED
      BY <1>0, <2>4
  <1>9. PICK h \in Nat : h = Total(b, l)
    BY <1>1, <1>7, TotalType
  <1>10. HighWords(v, q) = d + W * h /\ W * h \in Nat
    BY <1>0, <1>6, <1>7, <1>8, <1>9
  <1>11. HighWords(v, q) \in Nat /\ HighWords(v, q) = W * h + d
    BY <1>10
  <1> QED
    BY <1>5, <1>6, <1>9, <1>11

(* All the words, and none of them.                                        *)
LEMMA HighWordsEnds ==
  ASSUME NEW v \in Fe
  PROVE  HighWords(v, 0) = Value(v) /\ HighWords(v, LIMBS) = 0
  <1>0. LIMBS \in Nat /\ LIMBS - 0 = LIMBS /\ LIMBS - LIMBS = 0 /\ LIMBS <= 2 * LIMBS
    BY Widths
  <1>1. HighWords(v, LIMBS) = 0
    BY <1>0, TotalZero DEF HighWords
  <1> DEFINE a == [k \in 1 .. LIMBS |-> v[0 + k]]
  <1>2. \A k \in 1 .. LIMBS : v[k] = a[k]
    BY <1>0
  <1>3. HighWords(v, 0) = Total(a, LIMBS)
    BY <1>0 DEF HighWords
  <1> HIDE DEF a
  <1>4. Numbers(v, LIMBS) /\ Value(v) = Total(v, LIMBS)
    BY ValueType
  <1>5. Total(a, LIMBS) = Total(v, LIMBS)
    BY <1>0, <1>2, <1>4, TotalSame
  <1> QED
    BY <1>1, <1>3, <1>4, <1>5

(* The bits of the words above q and of word q down to bit s.              *)
Prefix(v, q, s) ==
  HighWords(v, q + 1) * PowerOfTwo[WORD - s] + (v[q + 1] \div PowerOfTwo[s])

(* One bit more doubles what the bits above say, and adds the bit.         *)
LEMMA PrefixNext ==
  ASSUME NEW v \in Fe, NEW q \in 0 .. LIMBS - 1, NEW s \in 0 .. WORD - 1
  PROVE  /\ Prefix(v, q, s) \in Nat /\ Prefix(v, q, s + 1) \in Nat
         /\ Prefix(v, q, s) =
              2 * Prefix(v, q, s + 1) + ((v[q + 1] \div PowerOfTwo[s]) % 2)
  <1>0. /\ WORD \in Nat /\ WORD - s \in 1 .. WORD /\ (WORD - s) - 1 = WORD - (s + 1)
        /\ WORD - s \in 0 .. WORD /\ WORD - (s + 1) \in 0 .. WORD
        /\ s + 1 \in 1 .. WORD /\ (s + 1) - 1 = s
        /\ s \in 0 .. WORD /\ s + 1 \in 0 .. WORD
    BY Widths
  <1>1. PICK h \in Nat, d \in Nat : h = HighWords(v, q + 1) /\ d = v[q + 1]
    BY HighWordsNext, Constants
  <1>2. PICK u \in Nat \ {0}, t \in Nat \ {0} :
          u = PowerOfTwo[WORD - (s + 1)] /\ t = PowerOfTwo[s]
    BY <1>0, TwoPowers
  <1>3. PowerOfTwo[WORD - s] = 2 * u /\ PowerOfTwo[s + 1] = 2 * t
    BY <1>0, <1>2, TwoPowers
  <1>4. PICK x \in Nat, b \in 0 .. 1, y \in Nat :
          /\ x = d \div t /\ b = x % 2 /\ y = x \div 2 /\ x = 2 * y + b
    <2>1. d \div t \in Nat
      BY Divided
    <2>2. PICK x \in Nat : x = d \div t
      BY <2>1
    <2>3. x % 2 \in 0 .. 1 /\ x \div 2 \in Nat /\ x = 2 * (x \div 2) + (x % 2)
      OBVIOUS
    <2> QED
      BY <2>2, <2>3
  <1>5. d \div (2 * t) = y
    <2>1. t * 2 = 2 * t /\ 2 \in Nat \ {0}
      OBVIOUS
    <2>2. d \div (t * 2) = (d \div t) \div 2
      BY ONLY <2>1, DividedTwice, d \in Nat, t \in Nat \ {0}
    <2> QED
      BY <1>4, <2>1, <2>2
  <1>6. Prefix(v, q, s) = h * (2 * u) + x
    BY <1>1, <1>2, <1>3, <1>4 DEF Prefix
  <1>7. Prefix(v, q, s + 1) = h * u + y
    BY <1>1, <1>2, <1>3, <1>5 DEF Prefix
  <1>8. PICK z \in Nat : z = h * u /\ h * (2 * u) = 2 * z
    OBVIOUS
  <1>9. Prefix(v, q, s) = 2 * z + (2 * y + b) /\ Prefix(v, q, s + 1) = z + y
    BY <1>4, <1>6, <1>7, <1>8
  <1>10. (v[q + 1] \div PowerOfTwo[s]) % 2 = b
    BY <1>1, <1>2, <1>4
  <1> QED
    BY <1>9, <1>10

(* No bits say nothing, and all of them the value.                         *)
LEMMA PrefixEnds ==
  ASSUME NEW v \in Fe, NEW q \in 0 .. LIMBS - 1
  PROVE  /\ Prefix(v, q, 0) = HighWords(v, q)
         /\ Prefix(v, q, WORD) = HighWords(v, q + 1)
  <1>0. WORD \in Nat /\ WORD - 0 = WORD /\ WORD - WORD = 0
    BY Widths
  <1>1. PICK h \in Nat, d \in 0 .. W - 1 :
          /\ h = HighWords(v, q + 1) /\ d = v[q + 1]
          /\ HighWords(v, q) = W * h + d
    BY HighWordsNext
  <1>2. PowerOfTwo[0] = 1 /\ PowerOfTwo[WORD] = W
    BY TwoPowers DEF W
  <1>3. d \div 1 = d /\ d \div W = 0
    <2>1. d \div W = 0
      BY SmallDivision, Constants
    <2> QED
      BY <2>1
  <1>4. Prefix(v, q, 0) = h * W + d
    BY <1>0, <1>1, <1>2, <1>3 DEF Prefix
  <1>5. Prefix(v, q, WORD) = h * 1 + 0
    BY <1>0, <1>1, <1>2, <1>3 DEF Prefix
  <1>6. h * W = W * h
    BY Constants
  <1> QED
    BY <1>1, <1>4, <1>5, <1>6

(* e[i] is the value of the bits from i on.                                *)
BitOf(v, i) == IF Bit(v, i) THEN 1 ELSE 0

ReadsBits(e, v) ==
  /\ e \in [0 .. WORD * LIMBS -> Nat]
  /\ e[0] = Value(v) /\ e[WORD * LIMBS] = 0
  /\ \A i \in 0 .. WORD * LIMBS - 1 : e[i] = 2 * e[i + 1] + BitOf(v, i)

(* The number of bits.                                                     *)
LEMMA BitCount ==
  /\ WORD * LIMBS \in Nat \ {0}
  /\ \A i \in 0 .. WORD * LIMBS - 1 :
       \E q \in 0 .. LIMBS - 1, s \in 0 .. WORD - 1 :
         i = WORD * q + s /\ i \div WORD = q /\ i % WORD = s
  <1>0. WORD \in Nat \ {0} /\ LIMBS \in Nat \ {0}
    BY Widths
  <1>1. PICK m \in Nat \ {0} : m = WORD * LIMBS
    <2>1. WORD * LIMBS \in Nat /\ WORD * LIMBS >= WORD
      BY <1>0, ProductAtLeast
    <2> QED
      BY <1>0, <2>1
  <1>2. ASSUME NEW i \in 0 .. m - 1
        PROVE  \E q \in 0 .. LIMBS - 1, s \in 0 .. WORD - 1 :
                 i = WORD * q + s /\ i \div WORD = q /\ i % WORD = s
    <2>1. i \in Nat /\ i < WORD * LIMBS
      BY <1>1
    <2>2. i \div WORD < LIMBS
      BY <1>0, <2>1, QuotientBelow
    <2>3. /\ i \div WORD \in Nat /\ i % WORD \in 0 .. WORD - 1
          /\ i = WORD * (i \div WORD) + (i % WORD)
      BY <1>0, <2>1, Divided
    <2>4. i \div WORD \in 0 .. LIMBS - 1
      BY <1>0, <2>2, <2>3
    <2> QED
      BY <2>3, <2>4
  <1> QED
    BY <1>1, <1>2

(* A value can be read bit by bit from the top.                            *)
LEMMA BitsExist ==
  ASSUME NEW v \in Fe
  PROVE  \E e : ReadsBits(e, v)
  <1>0. WORD \in Nat \ {0} /\ LIMBS \in Nat \ {0}
    BY Widths
  <1>1. PICK m \in Nat \ {0} : m = WORD * LIMBS
    BY BitCount
  <1> DEFINE e == [i \in 0 .. m |-> IF i = m THEN 0
                                    ELSE Prefix(v, i \div WORD, i % WORD)]
  <1>2. ASSUME NEW i \in 0 .. m - 1, NEW q \in 0 .. LIMBS - 1, NEW s \in 0 .. WORD - 1,
               i \div WORD = q, i % WORD = s
        PROVE  e[i] = Prefix(v, q, s) /\ e[i] \in Nat
    <2>1. e[i] = Prefix(v, q, s)
      BY <1>2
    <2> QED
      BY <2>1, PrefixNext
  <1>3. e[m] = 0
    OBVIOUS
  <1>4. e \in [0 .. m -> Nat]
    <2>1. ASSUME NEW i \in 0 .. m PROVE e[i] \in Nat
      <3>1. CASE i = m
        BY <1>3, <3>1
      <3>2. CASE i # m
        <4>1. i \in 0 .. m - 1
          BY <3>2
        <4>2. PICK q \in 0 .. LIMBS - 1, s \in 0 .. WORD - 1 :
                i \div WORD = q /\ i % WORD = s
          BY <1>1, <4>1, BitCount
        <4> HIDE DEF e
        <4> QED
          BY <1>2, <4>1, <4>2
      <3> QED
        BY <3>1, <3>2
    <2>2. e = [i \in 0 .. m |-> e[i]]
      OBVIOUS
    <2> HIDE DEF e
    <2> QED
      BY <2>1, <2>2
  <1> HIDE DEF e
  <1>5. e[0] = Value(v)
    <2>1. 0 \in 0 .. m - 1 /\ 0 \in 0 .. LIMBS - 1 /\ 0 \in 0 .. WORD - 1
      BY <1>0
    <2>2. 0 \div WORD = 0 /\ 0 % WORD = 0
      BY <1>0, <2>1, SmallDivision
    <2>3. e[0] = Prefix(v, 0, 0)
      BY <1>2, <2>1, <2>2
    <2> QED
      BY <2>1, <2>3, PrefixEnds, HighWordsEnds
  <1>6. ASSUME NEW i \in 0 .. m - 1 PROVE e[i] = 2 * e[i + 1] + BitOf(v, i)
    <2>1. PICK q \in 0 .. LIMBS - 1, s \in 0 .. WORD - 1 :
            i = WORD * q + s /\ i \div WORD = q /\ i % WORD = s
      BY <1>1, BitCount
    <2>2. e[i] = Prefix(v, q, s)
      BY <1>2, <2>1
    <2>3. (v[q + 1] \div PowerOfTwo[s]) % 2 = BitOf(v, i)
      <3>1. v[q + 1] \div PowerOfTwo[s] \in Nat
        <4>1. PICK d \in Nat : d = v[q + 1]
          BY HighWordsNext, Constants
        <4>2. PowerOfTwo[s] \in Nat \ {0}
          BY TwoPowers, <1>0
        <4> QED
          BY <4>1, <4>2, Divided
      <3>2. PICK x \in Nat : x = v[q + 1] \div PowerOfTwo[s]
        BY <3>1
      <3>3. Bit(v, i) <=> x % 2 = 1
        BY <2>1, <3>2 DEF Bit
      <3>4. x % 2 \in {0, 1}
        OBVIOUS
      <3> QED
        BY <3>2, <3>3, <3>4 DEF BitOf
    <2>4. e[i + 1] = Prefix(v, q, s + 1)
      <3>1. CASE s + 1 < WORD
        <4>1. PICK r \in 0 .. WORD - 1, j \in Nat : r = s + 1 /\ j = i + 1
          BY <1>0, <3>1
        <4>2. q \in Int /\ j = WORD * q + r
          BY <1>0, <2>1, <4>1
        <4>3. j \div WORD = q /\ j % WORD = r
          BY ONLY <1>0, <4>2, DivisionIs, r \in 0 .. WORD - 1, j \in Nat
        <4>4. j \in 0 .. m - 1
          <5>1. j # m
            <6> SUFFICES ASSUME j = m PROVE FALSE
              OBVIOUS
            <6>1. LIMBS \in Int /\ 0 \in 0 .. WORD - 1 /\ j = WORD * LIMBS + 0
              BY <1>0, <1>1
            <6>2. j \div WORD = LIMBS
              BY ONLY <1>0, <6>1, DivisionIs, j \in Nat
            <6> QED
              BY <1>0, <4>3, <6>2
          <5> QED
            BY <4>1, <5>1
        <4> QED
          BY <1>2, <4>1, <4>3, <4>4
      <3>2. CASE s + 1 = WORD
        <4>1. Prefix(v, q, s + 1) = HighWords(v, q + 1)
          BY <3>2, PrefixEnds
        <4>2. i + 1 = WORD * (q + 1)
          BY <1>0, <2>1, <3>2
        <4>3. CASE q + 1 = LIMBS
          BY <1>1, <1>3, <4>1, <4>2, <4>3, HighWordsEnds
        <4>4. CASE q + 1 # LIMBS
          <5>1. PICK c \in 0 .. LIMBS - 1, z \in 0 .. WORD - 1, j \in Nat :
                  c = q + 1 /\ z = 0 /\ j = i + 1
            BY <1>0, <4>4
          <5>2. c \in Int /\ j = WORD * c + z
            BY <1>0, <4>2, <5>1
          <5>3. j \div WORD = c /\ j % WORD = z
            BY ONLY <1>0, <5>2, DivisionIs, z \in 0 .. WORD - 1, j \in Nat
          <5>4. j \in 0 .. m - 1
            <6>1. j # m
              <7> SUFFICES ASSUME j = m PROVE FALSE
                OBVIOUS
              <7>1. LIMBS \in Int /\ 0 \in 0 .. WORD - 1 /\ j = WORD * LIMBS + 0
                BY <1>0, <1>1
              <7>2. j \div WORD = LIMBS
                BY ONLY <1>0, <7>1, DivisionIs, j \in Nat
              <7> QED
                BY <1>0, <5>3, <7>2
            <6> QED
              BY <5>1, <6>1
          <5>5. e[j] = Prefix(v, c, z)
            BY <1>2, <5>3, <5>4
          <5> QED
            BY <4>1, <5>1, <5>5, PrefixEnds
        <4> QED
          BY <4>3, <4>4
      <3> QED
        BY <1>0, <3>1, <3>2
    <2> QED
      BY <2>2, <2>3, <2>4, PrefixNext
  <1> QED
    BY <1>1, <1>3, <1>4, <1>5, <1>6 DEF ReadsBits

----------------------------------------------------------------------------
(* Square and multiply                                                     *)

LEMMA ExponentWords ==
  PM2 \in Fe /\ Value(PM2) = p - 2 /\ p - 2 \in Nat
  <1>0. LIMBS \in Nat /\ LIMBS >= 2 /\ LIMBS <= 2 * LIMBS
    BY Widths
  <1>1. P \in Fe /\ Value(P) = p /\ p \in Nat /\ p > W
    BY ModulusWords
  <1>2. /\ AreWords(P, LIMBS) /\ Value(P) = Total(P, LIMBS)
        /\ P = [k \in 1 .. LIMBS |-> P[k]]
    BY <1>0, <1>1, ValueType, FeWords DEF Fe
  <1>3. P[1] = W - C /\ 1 \in 1 .. LIMBS
    BY <1>0 DEF P
  <1> DEFINE few == [k \in 1 .. LIMBS |-> IF k = 1 THEN 2 ELSE 0]
  <1>4. PICK v : v = PM2
    OBVIOUS
  <1>5. /\ v[1] = P[1] - 2 /\ \A k \in 2 .. LIMBS : v[k] = P[k]
        /\ v = [k \in 1 .. LIMBS |-> v[k]]
    <2>1. P \in [1 .. LIMBS -> 0 .. W - 1]
      BY <1>1 DEF Fe, Words
    <2>2. PICK f \in [1 .. LIMBS -> 0 .. W - 1] : f = P
      BY <2>1
    <2>3. v = [f EXCEPT ![1] = @ - 2]
      BY <1>4, <2>2 DEF PM2
    <2>4. v[1] = f[1] - 2 /\ \A k \in 2 .. LIMBS : v[k] = f[k]
      BY <1>0, <1>3, <2>3
    <2>5. v = [k \in 1 .. LIMBS |-> v[k]]
      BY <2>3
    <2> QED
      BY <2>2, <2>4, <2>5
  <1>6. AreWords(v, LIMBS)
    <2>1. ASSUME NEW k \in 1 .. LIMBS PROVE v[k] \in 0 .. W - 1
      <3>1. CASE k = 1
        BY <1>3, <1>5, <3>1, Constants
      <3>2. CASE k # 1
        <4>1. k \in 2 .. LIMBS
          BY <1>0, <3>2
        <4> QED
          BY <1>2, <1>5, <4>1 DEF AreWords
      <3> QED
        BY <3>1, <3>2
    <2> QED
      BY <2>1 DEF AreWords
  <1>7. v \in Fe /\ Numbers(v, LIMBS)
    BY <1>5, <1>6, WordsAreNumbers DEF AreWords, Fe, Words
  <1>8. ASSUME NEW k \in 1 .. LIMBS PROVE P[k] = v[k] + 1 * few[k]
    <2>1. PICK x \in Nat : x = v[k]
      BY <1>7 DEF Numbers
    <2>2. CASE k = 1
      BY <1>3, <1>5, <2>1, <2>2, Constants
    <2>3. CASE k # 1
      <3>1. k \in 2 .. LIMBS
        BY <1>0, <2>3
      <3> QED
        BY <1>5, <2>1, <2>3, <3>1
    <2> QED
      BY <2>2, <2>3
  <1>9. Numbers(few, 2) /\ few[1] = 2 /\ few[2] = 0 /\ \A k \in 3 .. LIMBS : few[k] = 0
    BY <1>0 DEF Numbers
  <1> HIDE DEF few
  <1>10. Numbers(few, LIMBS) /\ Total(few, LIMBS) = 2
    <2>1. Numbers(few, LIMBS) /\ Total(few, LIMBS) = few[1] + few[2] * W
      BY <1>0, <1>9, TotalOfTwo
    <2> QED
      BY <1>9, <2>1, Constants
  <1>11. Total(P, LIMBS) = Total(v, LIMBS) + 1 * Total(few, LIMBS)
    BY <1>0, <1>7, <1>8, <1>10, TotalLinear
  <1>12. Value(v) = Total(v, LIMBS) /\ Value(v) \in Nat
    BY <1>7, ValueType
  <1> QED
    BY <1>1, <1>2, <1>4, <1>7, <1>10, <1>11, <1>12

(* The words of 1.                                                         *)
LEMMA OneWords ==
  fe_from_u32(1) \in Field /\ Value(fe_from_u32(1)) = 1
  <1>0. LIMBS \in Nat /\ LIMBS >= 2 /\ LIMBS <= 2 * LIMBS
    BY Widths
  <1>1. PICK v : v = fe_from_u32(1)
    OBVIOUS
  <1>2. v = [k \in 1 .. LIMBS |-> IF k = 1 THEN 1 ELSE 0]
    BY <1>0, <1>1 DEF fe_from_u32, Zeros
  <1>3. v \in Fe
    BY <1>2, Constants DEF Fe, Words
  <1>4. Numbers(v, 2) /\ v[1] = 1 /\ v[2] = 0 /\ \A k \in 3 .. LIMBS : v[k] = 0
    BY <1>0, <1>2 DEF Numbers
  <1>5. Total(v, LIMBS) = v[1] + v[2] * W
    BY <1>0, <1>4, TotalOfTwo
  <1>6. Value(v) = 1
    BY <1>3, <1>4, <1>5, ValueType, Constants
  <1>7. 1 < p
    BY ModulusWords, Constants
  <1> QED
    BY <1>1, <1>3, <1>6, <1>7 DEF Field

(* A step of fe_inv squares, and multiplies when the bit is set.           *)
LEMMA SquareAndMultiplyIs ==
  ASSUME NEW a \in Fe, NEW r \in Fe, NEW i,
         NEW x \in Nat, Value(r) = x % p
  PROVE  /\ SquareAndMultiply(r, a, i) \in Field
         /\ Value(SquareAndMultiply(r, a, i)) =
              (IF Bit(PM2, i) THEN (x * x) * Value(a) ELSE x * x) % p
  <1>1. PICK m \in Nat \ {0}, d \in Nat : m = p /\ d = Value(a)
    BY ModulusNumbers, ValueType
  <1>2. PICK s : s = fe_mul(r, r)
    OBVIOUS
  <1>3. PICK xx \in Nat : xx = x * x
    OBVIOUS
  <1>4. s \in Field /\ s \in Fe /\ Value(s) = xx % m
    <2>1. s \in Field /\ Value(s) = (Value(r) * Value(r)) % p
      BY <1>2, FeMulIs
    <2>2. ((x % m) * (x % m)) % m = (x * x) % m
      BY RemainderOfProducts
    <2> QED
      BY <1>1, <1>3, <2>1, <2>2 DEF Field
  <1>5. PICK u : u = fe_mul(s, a)
    OBVIOUS
  <1>6. u \in Field /\ Value(u) = (xx * d) % m
    <2>1. u \in Field /\ Value(u) = (Value(s) * Value(a)) % p
      BY <1>4, <1>5, FeMulIs
    <2>2. ((xx % m) * d) % m = (xx * d) % m
      BY RemainderOfProduct
    <2> QED
      BY <1>1, <1>4, <2>1, <2>2
  <1>7. SquareAndMultiply(r, a, i) = IF Bit(PM2, i) THEN u ELSE s
    BY <1>2, <1>5 DEF SquareAndMultiply
  <1> QED
    BY <1>1, <1>3, <1>4, <1>6, <1>7

(* f[bits][r] is what the bits below make of r.                            *)
IsPowering(f, a) ==
  f = [bits \in 0 .. WORD * LIMBS |->
         [r \in Fe |-> IF bits = 0 THEN r
                       ELSE f[bits - 1][SquareAndMultiply(r, a, bits - 1)]]]

(* The loop of fe_inv goes bit by bit,                                     *)
LEMMA PoweringLaw ==
  ASSUME NEW f, NEW a, IsPowering(f, a)
  PROVE  /\ \A r \in Fe : f[0][r] = r
         /\ \A bits \in 1 .. WORD * LIMBS : \A r \in Fe :
              f[bits][r] = f[bits - 1][SquareAndMultiply(r, a, bits - 1)]
  <1>1. PICK N \in Nat : N = WORD * LIMBS
    BY BitCount
  <1>2. ASSUME NEW bits \in 0 .. N
        PROVE  f[bits] = [r \in Fe |->
                 IF bits = 0 THEN r
                 ELSE f[bits - 1][SquareAndMultiply(r, a, bits - 1)]]
    BY <1>1 DEF IsPowering
  <1>3. ASSUME NEW r \in Fe PROVE f[0][r] = r
    <2>1. 0 \in 0 .. N
      OBVIOUS
    <2> QED
      BY <1>2, <2>1
  <1>4. ASSUME NEW bits \in 1 .. N, NEW r \in Fe
        PROVE  f[bits][r] = f[bits - 1][SquareAndMultiply(r, a, bits - 1)]
    <2>1. bits \in 0 .. N /\ bits # 0
      OBVIOUS
    <2> QED
      BY <1>2, <2>1
  <1> QED
    BY <1>1, <1>3, <1>4

(* and has a result.                                                       *)
LEMMA PoweringExists ==
  ASSUME NEW a \in Fe
  PROVE  \E f : IsPowering(f, a)
  <1>1. PICK N \in Nat : N = WORD * LIMBS
    BY BitCount
  <1>2. PICK S : S = [Fe -> Fe]
    OBVIOUS
  <1> DEFINE first == [r \in Fe |-> r]
             step == [bits \in 1 .. N |-> [h \in S |->
                        [r \in Fe |-> h[SquareAndMultiply(r, a, bits - 1)]]]]
  <1>3. ASSUME NEW r \in Fe, NEW i PROVE SquareAndMultiply(r, a, i) \in Fe
    <2>1. fe_mul(r, r) \in Fe
      BY FeMulIs DEF Field
    <2>2. fe_mul(fe_mul(r, r), a) \in Fe
      BY <2>1, FeMulIs DEF Field
    <2> QED
      BY <2>1, <2>2 DEF SquareAndMultiply
  <1>4. first \in S
    BY <1>2
  <1>5. step \in [1 .. N -> [S -> S]]
    <2>1. ASSUME NEW bits \in 1 .. N, NEW h \in S
          PROVE  [r \in Fe |-> h[SquareAndMultiply(r, a, bits - 1)]] \in S
      BY <1>2, <1>3
    <2> QED
      BY <2>1
  <1>6. PICK f : IsSteps(f, S, first, step, N)
    <2> HIDE DEF first, step
    <2> QED
      BY <1>4, <1>5, StepsExist
  <1>7. f \in [0 .. N -> S] /\ f[0] = first
    BY <1>6 DEF IsSteps
  <1>8. ASSUME NEW bits \in 1 .. N
        PROVE  f[bits] = [r \in Fe |-> f[bits - 1][SquareAndMultiply(r, a, bits - 1)]]
    <2>1. f[bits - 1] \in S /\ f[bits] = step[bits][f[bits - 1]]
      <3> HIDE DEF first, step
      <3> QED
        BY <1>6 DEF IsSteps
    <2> QED
      BY <2>1
  <1>9. ASSUME NEW bits \in 0 .. N
        PROVE  f[bits] = [r \in Fe |->
                 IF bits = 0 THEN r
                 ELSE f[bits - 1][SquareAndMultiply(r, a, bits - 1)]]
    <2>1. CASE bits = 0
      BY <1>7, <2>1
    <2>2. CASE bits # 0
      <3>1. bits \in 1 .. N
        BY <2>2
      <3> QED
        BY <1>8, <2>2, <3>1
    <2> QED
      BY <2>1, <2>2
  <1>10. IsPowering(f, a)
    <2> HIDE DEF first, step
    <2> QED
      BY <1>1, <1>7, <1>9 DEF IsPowering
  <1> QED
    BY <1>10

(* What the higher bits say is not above the whole.                        *)
LEMMA EarlierBits ==
  ASSUME NEW e, NEW v, ReadsBits(e, v)
  PROVE  \A i \in 0 .. WORD * LIMBS : e[i] <= e[0]
  <1>0. PICK N \in Nat : N = WORD * LIMBS
    BY BitCount
  <1>3. /\ e \in [0 .. N -> Nat]
        /\ \A i \in 0 .. N - 1 : e[i] = 2 * e[i + 1] + BitOf(v, i)
    BY <1>0 DEF ReadsBits
  <1> DEFINE Good == {i \in 0 .. N : e[i] <= e[0]}
  <1>1. 0 \in Good
    <2>1. e[0] \in Nat
      BY <1>3
    <2> QED
      BY <2>1
  <1>2. ASSUME NEW i \in Good, i < N PROVE i + 1 \in Good
    <2>1. i \in 0 .. N - 1 /\ i + 1 \in 0 .. N /\ 0 \in 0 .. N
      BY <1>2
    <2>2. PICK b \in 0 .. 1 : b = BitOf(v, i)
      BY DEF BitOf
    <2>3. e[i] = 2 * e[i + 1] + b /\ e[i] \in Nat /\ e[i + 1] \in Nat /\ e[0] \in Nat
      BY <1>3, <2>1, <2>2
    <2>4. e[i] <= e[0]
      OBVIOUS
    <2>5. e[i + 1] <= e[0]
      BY <2>3, <2>4
    <2> QED
      BY <2>1, <2>5
  <1> QED
    <2>1. Good \in SUBSET Nat
      OBVIOUS
    <2>2. \A i \in 0 .. N : i \in Good
      <3> HIDE DEF Good
      <3> QED
        BY <1>1, <1>2, <2>1, GoodUpTo
    <2> QED
      BY <1>0, <2>2

(* fe_inv raises to the power p - 2, whatever the words are.               *)
LEMMA FeInvIs ==
  ASSUME NEW a \in Fe, NEW g, Value(a) # 0 => PowerLaw(g, Value(a), p - 2)
  PROVE  /\ fe_inv(a) \in Field
         /\ Value(a) # 0 => Value(fe_inv(a)) = g[p - 2] % p
  <1>1. PICK N \in Nat : N = WORD * LIMBS
    BY BitCount
  <1>2. PICK e : ReadsBits(e, PM2)
    BY BitsExist, ExponentWords
  <1>3. PICK f : IsPowering(f, a) /\ fe_inv(a) = f[N][fe_from_u32(1)]
    BY <1>1, PoweringExists DEF fe_inv, IsPowering
  <1>4. /\ \A r \in Fe : f[0][r] = r
        /\ \A bits \in 1 .. N : \A r \in Fe :
             f[bits][r] = f[bits - 1][SquareAndMultiply(r, a, bits - 1)]
    BY <1>1, <1>3, PoweringLaw
  <1>5. PICK m \in Nat \ {0}, d \in Nat, z \in Nat : m = p /\ d = Value(a) /\ z = p - 2
    BY ModulusNumbers, ValueType, ExponentWords
  <1>6. /\ e \in [0 .. N -> Nat] /\ e[0] = z /\ e[N] = 0
        /\ \A i \in 0 .. N - 1 : e[i] = 2 * e[i + 1] + BitOf(PM2, i)
    BY <1>1, <1>2, <1>5, ExponentWords DEF ReadsBits
  <1> DEFINE Raised(k) == \A r \in Field :
               /\ f[k][r] \in Field
               /\ (d # 0 /\ Value(r) = g[e[k]] % m)
                    => Value(f[k][r]) = g[z] % m
             Good == {k \in 0 .. N : Raised(k)}
  <1>7. 0 \in Good
    <2>1. ASSUME NEW r \in Field PROVE f[0][r] = r
      BY <1>4 DEF Field
    <2> QED
      BY <1>6, <2>1
  <1>8. ASSUME NEW k \in Good, k < N PROVE k + 1 \in Good
    <2>0. /\ k + 1 \in 1 .. N /\ (k + 1) - 1 = k /\ k \in 0 .. N - 1 /\ k + 1 \in 0 .. N
          /\ Raised(k) /\ k \in 0 .. N
      BY <1>8
    <2>1. ASSUME NEW r \in Field
          PROVE  /\ f[k + 1][r] \in Field
                 /\ (d # 0 /\ Value(r) = g[e[k + 1]] % m)
                      => Value(f[k + 1][r]) = g[z] % m
      <3>1. PICK s : s = SquareAndMultiply(r, a, k)
        OBVIOUS
      <3>2. r \in Fe /\ f[k + 1][r] = f[k][s]
        BY <1>4, <2>0, <3>1 DEF Field
      <3>3. s \in Field
        <4>1. PICK x \in Nat : x = Value(r) /\ Value(r) = x % p
          BY FieldValues, SmallDivision, ModulusNumbers
        <4> QED
          BY <3>1, <3>2, <4>1, SquareAndMultiplyIs
      <3>4. f[k][s] \in Field
        BY <2>0, <3>3
      <3>5. ASSUME d # 0, Value(r) = g[e[k + 1]] % m
            PROVE  Value(f[k][s]) = g[z] % m
        <4>1. PICK b \in 0 .. 1, i \in Nat, j \in Nat :
                /\ b = BitOf(PM2, k) /\ i = e[k + 1] /\ j = e[k] /\ j = 2 * i + b
          <5>1. BitOf(PM2, k) \in 0 .. 1
            BY DEF BitOf
          <5> QED
            BY <1>6, <2>0, <5>1
        <4>2. j <= z
          <5>1. \A l \in 0 .. N : e[l] <= e[0]
            BY <1>1, <1>2, EarlierBits
          <5> QED
            BY <1>6, <2>0, <4>1, <5>1
        <4>3. PowerLaw(g, d, z) /\ d \in Nat \ {0}
          BY <1>5, <3>5
        <4>4. i + i <= z /\ (i + i) + b = j
          BY <4>1, <4>2
        <4>5. PICK x \in Nat : x = g[i]
          BY <4>3, <4>4, PowersMultiply
        <4>6. g[i + i] = x * x
          BY <4>3, <4>4, <4>5, PowersMultiply
        <4>7. g[j] = IF b = 1 THEN (x * x) * d ELSE x * x
          <5>1. CASE b = 0
            BY <4>4, <4>6, <5>1
          <5>2. CASE b = 1
            <6>1. PICK l \in Nat : l = i + i /\ l + 1 = j /\ j \in 1 .. z /\ j - 1 = l
              BY <4>2, <4>4, <5>2
            <6>2. g[j] = d * g[l]
              BY <4>3, <6>1 DEF PowerLaw
            <6>3. d * (x * x) = (x * x) * d
              OBVIOUS
            <6> QED
              BY <4>6, <5>2, <6>1, <6>2, <6>3
          <5> QED
            BY <5>1, <5>2
        <4>8. Value(s) = g[j] % m
          <5>1. Value(r) = x % p
            BY <1>5, <3>5, <4>1, <4>5
          <5>2. Value(s) = (IF Bit(PM2, k) THEN (x * x) * Value(a) ELSE x * x) % p
            BY <3>1, <3>2, <5>1, SquareAndMultiplyIs
          <5>3. Bit(PM2, k) <=> b = 1
            BY <4>1 DEF BitOf
          <5> QED
            BY <1>5, <4>7, <5>2, <5>3
        <4> QED
          BY <2>0, <3>3, <3>5, <4>1, <4>2, <4>8
      <3> QED
        BY <3>2, <3>4, <3>5
    <2> QED
      BY <2>0, <2>1
  <1>9. N \in Good
    <2>1. Good \in SUBSET Nat
      OBVIOUS
    <2> HIDE DEF Good
    <2> QED
      BY <1>7, <1>8, <2>1, GoodUpTo
  <1>10. Raised(N)
    BY <1>9
  <1>11. fe_from_u32(1) \in Field /\ Value(fe_from_u32(1)) = 1
    BY OneWords
  <1>12. ASSUME d # 0 PROVE g[e[N]] % m = 1
    <2>1. g[0] = 1
      BY <1>5, <1>12 DEF PowerLaw
    <2>2. 1 \in 0 .. m - 1
      BY <1>5, ModulusWords, Constants
    <2> QED
      BY <1>6, <2>1, <2>2, SmallDivision
  <1> QED
    BY <1>3, <1>5, <1>10, <1>11, <1>12

(* fe_inv inverts: p - 2 is the exponent that does (Fermat).               *)
LEMMA FeInvInverts ==
  ASSUME NEW a \in Fe
  PROVE  /\ fe_inv(a) \in Field
         /\ Value(a) \in 1 .. p - 1 => (Value(fe_inv(a)) * Value(a)) % p = 1
  <1>1. PICK m \in Nat, d \in Nat, i \in Nat : m = p /\ d = Value(a) /\ i = p - 2
    BY ModulusNumbers, ValueType, ExponentWords
  <1>2. m > 2 /\ IsPrime(m)
    <2>1. m > 2
      BY <1>1, ModulusWords, Constants
    <2>2. IsPrime(p)
      BY PrimeAssumption DEF IsPrime
    <2> QED
      BY <1>1, <2>1, <2>2
  <1>3. CASE d \in 1 .. m - 1
    <2>1. PICK g : PowerLaw(g, d, m - 2) /\ ((g[m - 2] % m) * d) % m = 1
      BY <1>2, <1>3, FermatInverse
    <2>2. PowerLaw(g, Value(a), p - 2)
      BY <1>1, <2>1
    <2>3. fe_inv(a) \in Field /\ (Value(a) # 0 => Value(fe_inv(a)) = g[p - 2] % p)
      BY <2>2, FeInvIs
    <2> QED
      BY <1>1, <1>3, <2>1, <2>3
  <1>4. CASE d \notin 1 .. m - 1
    <2>1. CASE d = 0
      <3>1. fe_inv(a) \in Field
        BY <1>1, <2>1, FeInvIs
      <3> QED
        BY <1>1, <1>4, <3>1
    <2>2. CASE d # 0
      <3>1. PICK g : PowerLaw(g, d, i)
        BY <2>2, PowersLaw
      <3>2. fe_inv(a) \in Field
        BY <1>1, <3>1, FeInvIs
      <3> QED
        BY <1>1, <1>4, <3>2
    <2> QED
      BY <2>1, <2>2
  <1> QED
    BY <1>3, <1>4

(* What a thread of field_test answers.                                    *)
LEMMA ApplyIs ==
  ASSUME NEW a \in 0 .. p - 1, NEW b \in 0 .. p - 1
  PROVE  /\ Value(Apply("add", Limbs(a), Limbs(b))) = (a + b) % p
         /\ Value(Apply("sub", Limbs(a), Limbs(b))) = (a - b) % p
         /\ Value(Apply("mul", Limbs(a), Limbs(b))) = (a * b) % p
  <1>1. PICK v, w : v = Limbs(a) /\ w = Limbs(b)
    OBVIOUS
  <1>2. v \in Field /\ w \in Field /\ Value(v) = a /\ Value(w) = b
    BY <1>1, FieldLimbsValue
  <1>3. v \in Fe /\ w \in Fe
    BY <1>2 DEF Field
  <1>4. /\ Value(fe_add(v, w)) = (Value(v) + Value(w)) % p
        /\ Value(fe_sub(v, w)) = (Value(v) - Value(w)) % p
        /\ Value(fe_mul(v, w)) = (Value(v) * Value(w)) % p
    BY <1>2, <1>3, FeAddIs, FeSubIs, FeMulIs
  <1>5. /\ Apply("add", v, w) = fe_add(v, w) /\ Apply("sub", v, w) = fe_sub(v, w)
        /\ Apply("mul", v, w) = fe_mul(v, w)
    BY DEF Apply
  <1> QED
    BY <1>1, <1>2, <1>4, <1>5

(* What a thread of it answers for an inverse.                             *)
LEMMA ApplyInverseIs ==
  ASSUME NEW b \in 0 .. p - 1, NEW r, r = Value(Apply("inv", Limbs(b), Limbs(0)))
  PROVE  r \in 0 .. p - 1 /\ (r * b) % p = IF b = 0 THEN 0 ELSE 1
  <1>1. PICK v : v = Limbs(b)
    OBVIOUS
  <1>2. v \in Field /\ Value(v) = b /\ v \in Fe
    BY <1>1, FieldLimbsValue DEF Field
  <1>3. /\ fe_inv(v) \in Field
        /\ Value(v) \in 1 .. p - 1 => (Value(fe_inv(v)) * Value(v)) % p = 1
    BY <1>2, FeInvInverts
  <1>4. r = Value(fe_inv(v))
    BY <1>1 DEF Apply
  <1>5. r \in 0 .. p - 1
    BY <1>3, <1>4, FieldValues
  <1>6. CASE b = 0
    <2>1. PICK m \in Nat \ {0} : m = p
      BY ModulusNumbers
    <2>2. r * 0 = 0 /\ 0 % m = 0
      BY <1>5, <2>1, SmallDivision
    <2> QED
      BY <1>5, <1>6, <2>1, <2>2
  <1>7. CASE b # 0
    <2>1. Value(v) \in 1 .. p - 1
      BY <1>2, <1>7, ModulusNumbers
    <2> QED
      BY <1>2, <1>3, <1>4, <1>5, <1>7, <2>1
  <1> QED
    BY <1>6, <1>7

(* What a thread of scalar_add_mod_n_test answers.                         *)
LEMMA ScalarAddThreadIs ==
  ASSUME NEW b \in 0 .. n - 1, NEW i \in 0 .. ITERS
  PROVE  ScalarAddThread(b, i) = (b + i) % n
  <1>1. PICK v : v = Limbs(b)
    OBVIOUS
  <1>2. v \in Fe /\ Value(v) = b
    BY <1>1, OrderWords, ModulusNumbers, LimbsValue
  <1>3. Value(v) < n
    BY <1>2, OrderWords
  <1>4. Value(scalar_add_small(v, i)) = (Value(v) + i) % n
    BY <1>2, <1>3, ScalarAddSmallIs
  <1> QED
    BY <1>1, <1>2, <1>4 DEF ScalarAddThread

(* The words of every test come out exact and reduced, for every width,    *)
(* number of words, prime of that shape and pair of operands.              *)
THEOREM FieldAlwaysExact == Spec => []FieldIsExact
  <1>1. Init => FieldIsExact
    BY DEF Init, FieldIsExact
  <1>2. FieldIsExact /\ [Next]_vars => FieldIsExact'
    <2> SUFFICES ASSUME FieldIsExact, [Next]_vars PROVE FieldIsExact'
      OBVIOUS
    <2>1. ASSUME FieldTest PROVE FieldIsExact'
      <3>1. PICK op \in {"add", "sub", "mul"}, a \in 0 .. p - 1 :
              results' = [op |-> op, a |-> a,
                          out |-> [b \in 0 .. p - 1 |->
                                     Value(Apply(op, Limbs(a), Limbs(b)))]]
        BY <2>1 DEF FieldTest
      <3>2. /\ results'.op = op /\ results'.a = a
            /\ DOMAIN results'.out = 0 .. p - 1
            /\ \A b \in 0 .. p - 1 :
                 results'.out[b] = Value(Apply(op, Limbs(a), Limbs(b)))
        BY <3>1
      <3>3. ASSUME NEW b \in 0 .. p - 1
            PROVE  CASE op = "add" -> results'.out[b] = (a + b) % p
                     [] op = "sub" -> results'.out[b] = (a - b) % p
                     [] op = "mul" -> results'.out[b] = (a * b) % p
        <4>1. results'.out[b] = Value(Apply(op, Limbs(a), Limbs(b)))
          BY <3>2
        <4>2. CASE op = "add"
          BY <4>1, <4>2, ApplyIs
        <4>3. CASE op = "sub"
          BY <4>1, <4>3, ApplyIs
        <4>4. CASE op = "mul"
          BY <4>1, <4>4, ApplyIs
        <4> QED
          BY <4>2, <4>3, <4>4
      <3> QED
        BY <3>2, <3>3 DEF FieldIsExact
    <2>2. ASSUME InverseTest PROVE FieldIsExact'
      <3>1. results' = [op |-> "inv", a |-> 0,
                        out |-> [b \in 0 .. p - 1 |->
                                   Value(Apply("inv", Limbs(b), Limbs(0)))]]
        BY <2>2 DEF InverseTest
      <3>2. /\ results'.op = "inv" /\ DOMAIN results'.out = 0 .. p - 1
            /\ \A b \in 0 .. p - 1 :
                 results'.out[b] = Value(Apply("inv", Limbs(b), Limbs(0)))
        BY <3>1
      <3>3. ASSUME NEW b \in 0 .. p - 1
            PROVE  /\ results'.out[b] \in 0 .. p - 1
                   /\ (results'.out[b] * b) % p = IF b = 0 THEN 0 ELSE 1
        BY <3>2, ApplyInverseIs
      <3> QED
        BY <3>2, <3>3 DEF FieldIsExact
    <2>3. ASSUME ScalarAddTest PROVE FieldIsExact'
      <3>1. PICK i \in 0 .. ITERS :
              results' = [op |-> "add_mod_n", a |-> i,
                          out |-> [b \in 0 .. n - 1 |-> ScalarAddThread(b, i)]]
        BY <2>3 DEF ScalarAddTest
      <3>2. /\ results'.op = "add_mod_n" /\ results'.a = i
            /\ DOMAIN results'.out = 0 .. n - 1
            /\ \A b \in 0 .. n - 1 : results'.out[b] = ScalarAddThread(b, i)
        BY <3>1
      <3>3. ASSUME NEW b \in 0 .. n - 1 PROVE results'.out[b] = (i + b) % n
        <4>1. b + i = i + b
          BY OrderWords, KernelAssumption
        <4> QED
          BY <3>2, <4>1, ScalarAddThreadIs
      <3> QED
        BY <3>2, <3>3 DEF FieldIsExact
    <2>4. ASSUME UNCHANGED results PROVE FieldIsExact'
      BY <2>4 DEF FieldIsExact
    <2> QED
      BY <2>1, <2>2, <2>3, <2>4
      DEF Next, vars, MineOne, Start, Walk, EmitSubBatch, RawStart, RawWalk,
          DeriveTest, EcTest, Done
  <1> QED
    BY <1>1, <1>2, PTL DEF Spec

----------------------------------------------------------------------------
(* Montgomery's trick                                                      *)

Invertible == {a \in Field : Value(a) # 0}

(* Products of numbers that are not 0 are not 0: p is a prime.             *)
LEMMA ProductInvertible ==
  ASSUME NEW a \in Invertible, NEW b \in Invertible
  PROVE  fe_mul(a, b) \in Invertible
  <1>1. PICK x \in 1 .. p - 1, y \in 1 .. p - 1 : x = Value(a) /\ y = Value(b)
    <2>1. ASSUME NEW c \in Invertible PROVE Value(c) \in 1 .. p - 1
      <3>1. Value(c) \in 0 .. p - 1 /\ Value(c) # 0
        BY FieldValues DEF Invertible
      <3> QED
        BY <3>1, ModulusNumbers
    <2> QED
      BY <2>1
  <1>2. a \in Fe /\ b \in Fe
    BY DEF Invertible, Field
  <1>3. fe_mul(a, b) \in Field /\ Value(fe_mul(a, b)) = (Value(a) * Value(b)) % p
    BY <1>2, FeMulIs
  <1>4. (x * y) % p # 0
    BY PrimeAssumption
  <1> QED
    BY <1>1, <1>3, <1>4 DEF Invertible

(* pre[j] is the product of the first j, acc[j] what inverts it.           *)
IsPrefixes(pre, z, k) ==
  pre = [j \in 1 .. k |-> IF j = 1 THEN z[1] ELSE fe_mul(pre[j - 1], z[j])]

IsInverses(acc, pre, z, k) ==
  acc = [j \in 1 .. k |-> IF j = k THEN fe_inv(pre[k])
                                   ELSE fe_mul(acc[j + 1], z[j + 1])]

AllInvertible(z, k) == \A j \in 1 .. k : z[j] \in Invertible

(* The prefix products exist,                                              *)
LEMMA PrefixesExist ==
  ASSUME NEW k \in Nat \ {0}, NEW z, AllInvertible(z, k)
  PROVE  \E pre : IsPrefixes(pre, z, k)
  <1> DEFINE step == [i \in 1 .. k - 1 |-> [h \in Invertible |-> fe_mul(h, z[i + 1])]]
  <1>1. step \in [1 .. k - 1 -> [Invertible -> Invertible]]
    <2>1. ASSUME NEW i \in 1 .. k - 1, NEW h \in Invertible
          PROVE  fe_mul(h, z[i + 1]) \in Invertible
      <3>1. i + 1 \in 1 .. k
        OBVIOUS
      <3>2. z[i + 1] \in Invertible
        BY <3>1 DEF AllInvertible
      <3> QED
        BY <3>2, ProductInvertible
    <2> QED
      BY <2>1
  <1>2. z[1] \in Invertible /\ k - 1 \in Nat
    BY DEF AllInvertible
  <1>3. PICK f : IsSteps(f, Invertible, z[1], step, k - 1)
    <2> HIDE DEF step
    <2> QED
      BY <1>1, <1>2, StepsExist
  <1>4. /\ f \in [0 .. k - 1 -> Invertible] /\ f[0] = z[1]
        /\ \A i \in 1 .. k - 1 : f[i] = step[i][f[i - 1]]
    <2> HIDE DEF step
    <2> QED
      BY <1>3 DEF IsSteps
  <1> DEFINE pre == [j \in 1 .. k |-> f[j - 1]]
  <1>5. ASSUME NEW j \in 1 .. k
        PROVE  pre[j] = IF j = 1 THEN z[1] ELSE fe_mul(pre[j - 1], z[j])
    <2>1. CASE j = 1
      BY <1>4, <2>1
    <2>2. CASE j # 1
      <3>1. PICK i \in 1 .. k - 1 : i = j - 1
        BY <2>2
      <3>2. i - 1 \in 0 .. k - 1 /\ i \in 1 .. k /\ i + 1 = j
        BY <3>1
      <3>3. f[i - 1] \in Invertible
        BY <1>4, <3>2
      <3>4. f[i] = step[i][f[i - 1]]
        <4> HIDE DEF step
        <4> QED
          BY <1>4
      <3>5. step[i][f[i - 1]] = fe_mul(f[i - 1], z[i + 1])
        BY <3>3
      <3>6. pre[j] = f[i] /\ pre[j - 1] = f[i - 1]
        BY <3>1, <3>2
      <3> QED
        BY <2>2, <3>2, <3>4, <3>5, <3>6
    <2> QED
      BY <2>1, <2>2
  <1>6. pre = [j \in 1 .. k |-> pre[j]]
    OBVIOUS
  <1>7. IsPrefixes(pre, z, k)
    <2> HIDE DEF pre
    <2> QED
      BY <1>5, <1>6 DEF IsPrefixes
  <1> QED
    BY <1>7

(* are not 0, and grow by a factor;                                        *)
LEMMA PrefixesLaw ==
  ASSUME NEW k \in Nat \ {0}, NEW z, AllInvertible(z, k), NEW pre, IsPrefixes(pre, z, k)
  PROVE  /\ AllInvertible(pre, k) /\ pre[1] = z[1]
         /\ \A j \in 2 .. k : pre[j] = fe_mul(pre[j - 1], z[j])
  <1>1. \A j \in 1 .. k : pre[j] = IF j = 1 THEN z[1] ELSE fe_mul(pre[j - 1], z[j])
    BY Zenon DEF IsPrefixes
  <1>2. pre[1] = z[1] /\ \A j \in 2 .. k : pre[j] = fe_mul(pre[j - 1], z[j])
    BY <1>1
  <1> DEFINE Good == {i \in 0 .. k : i > 0 => pre[i] \in Invertible}
  <1>3. 0 \in Good
    OBVIOUS
  <1>4. ASSUME NEW i \in Good, i < k PROVE i + 1 \in Good
    <2>1. i + 1 \in 1 .. k /\ z[i + 1] \in Invertible
      BY <1>4 DEF AllInvertible
    <2>2. CASE i = 0
      BY <1>2, <2>1, <2>2
    <2>3. CASE i # 0
      <3>1. pre[i] \in Invertible /\ i + 1 \in 2 .. k /\ (i + 1) - 1 = i
        BY <1>4, <2>3
      <3>2. pre[i + 1] = fe_mul(pre[i], z[i + 1])
        BY <1>2, <3>1
      <3>3. pre[i + 1] \in Invertible
        BY <2>1, <3>1, <3>2, ProductInvertible
      <3> QED
        BY <2>1, <3>3
    <2> QED
      BY <2>2, <2>3
  <1>5. \A i \in 0 .. k : i \in Good
    <2>1. Good \in SUBSET Nat
      OBVIOUS
    <2> HIDE DEF Good
    <2> QED
      BY <1>3, <1>4, <2>1, GoodUpTo
  <1>6. AllInvertible(pre, k)
    BY <1>5 DEF AllInvertible
  <1> QED
    BY <1>2, <1>6

(* so do the inverses on the way back.                                     *)
LEMMA InversesExist ==
  ASSUME NEW k \in Nat \ {0}, NEW z, AllInvertible(z, k), NEW pre, AllInvertible(pre, k)
  PROVE  \E acc : IsInverses(acc, pre, z, k)
  <1> DEFINE first == fe_inv(pre[k])
             step == [i \in 1 .. k - 1 |-> [h \in Field |-> fe_mul(h, z[k - i + 1])]]
  <1>0. k \in 1 .. k
    OBVIOUS
  <1>1. ASSUME NEW h \in Field, NEW j \in 1 .. k PROVE fe_mul(h, z[j]) \in Field
    <2>1. h \in Fe /\ z[j] \in Fe
      BY DEF AllInvertible, Invertible, Field
    <2> QED
      BY <2>1, FeMulIs
  <1>2. step \in [1 .. k - 1 -> [Field -> Field]]
    <2>1. ASSUME NEW i \in 1 .. k - 1, NEW h \in Field
          PROVE  fe_mul(h, z[k - i + 1]) \in Field
      <3>1. k - i + 1 \in 1 .. k
        OBVIOUS
      <3> QED
        BY <1>1, <3>1
    <2> QED
      BY <2>1
  <1>3. first \in Field /\ k - 1 \in Nat
    <2>1. pre[k] \in Fe
      BY <1>0 DEF AllInvertible, Invertible, Field
    <2> QED
      BY <2>1, FeInvInverts
  <1>4. PICK f : IsSteps(f, Field, first, step, k - 1)
    <2> HIDE DEF step, first
    <2> QED
      BY <1>2, <1>3, StepsExist
  <1>5. /\ f \in [0 .. k - 1 -> Field] /\ f[0] = first
        /\ \A i \in 1 .. k - 1 : f[i] = step[i][f[i - 1]]
    <2> HIDE DEF step, first
    <2> QED
      BY <1>4 DEF IsSteps
  <1> HIDE DEF first
  <1> DEFINE acc == [j \in 1 .. k |-> f[k - j]]
  <1>6. ASSUME NEW j \in 1 .. k
        PROVE  acc[j] = IF j = k THEN first ELSE fe_mul(acc[j + 1], z[j + 1])
    <2>1. CASE j = k
      <3>1. k - j = 0
        BY <2>1
      <3> QED
        BY <1>5, <2>1, <3>1
    <2>2. CASE j # k
      <3>1. PICK i \in 1 .. k - 1 : i = k - j
        <4>1. k - j \in 1 .. k - 1
          BY <2>2
        <4> QED
          BY <4>1
      <3>2. /\ i - 1 \in 0 .. k - 1 /\ j + 1 \in 1 .. k
            /\ k - (j + 1) = i - 1 /\ k - i + 1 = j + 1
        BY <3>1
      <3>3. f[i - 1] \in Field
        BY <1>5, <3>2
      <3>4. f[i] = step[i][f[i - 1]]
        <4> HIDE DEF step
        <4> QED
          BY <1>5
      <3>5. step[i][f[i - 1]] = fe_mul(f[i - 1], z[k - i + 1])
        BY <3>3
      <3>6. acc[j] = f[i] /\ acc[j + 1] = f[i - 1]
        BY <3>1, <3>2
      <3> QED
        BY <2>2, <3>2, <3>4, <3>5, <3>6
    <2> QED
      BY <2>1, <2>2
  <1>7. acc = [j \in 1 .. k |-> acc[j]]
    OBVIOUS
  <1>8. IsInverses(acc, pre, z, k)
    <2> HIDE DEF acc
    <2> QED
      BY <1>6, <1>7 DEF IsInverses, first
  <1> QED
    BY <1>8

(* One inversion inverts them all.                                         *)
Inverts(a, b) == a \in Field /\ (Value(a) * Value(b)) % p = 1

(* What inverts a product of two inverts one after the other is multiplied *)
(* in.                                                                     *)
LEMMA InvertsProduct ==
  ASSUME NEW a \in Field, NEW b \in Fe, NEW c \in Fe, Inverts(a, fe_mul(c, b))
  PROVE  Inverts(fe_mul(a, b), c)
  <1>1. PICK m \in Nat \ {0} : m = p
    BY ModulusNumbers
  <1>2. PICK x \in Nat, y \in Nat, u \in Nat : x = Value(a) /\ y = Value(b) /\ u = Value(c)
    BY ValueType DEF Field
  <1>3. a \in Fe
    BY DEF Field
  <1>4. fe_mul(a, b) \in Field /\ Value(fe_mul(a, b)) = (x * y) % m
    BY <1>1, <1>2, <1>3, FeMulIs
  <1>5. Value(fe_mul(c, b)) = (u * y) % m
    BY <1>1, <1>2, FeMulIs
  <1>6. (x * ((u * y) % m)) % m = 1
    BY <1>1, <1>2, <1>5 DEF Inverts
  <1>7. (((x * y) % m) * u) % m = 1
    <2>1. PICK xy \in Nat, uy \in Nat : xy = x * y /\ uy = u * y
      OBVIOUS
    <2>2. ((xy % m) * u) % m = (xy * u) % m
      BY RemainderOfProduct
    <2>3. ((uy % m) * x) % m = (uy * x) % m
      BY RemainderOfProduct
    <2>4. PICK r \in Nat : r = uy % m
      OBVIOUS
    <2>5. (x * y) * u = (u * y) * x /\ r * x = x * r
      OBVIOUS
    <2>6. (x * r) % m = 1
      BY <1>6, <2>1, <2>4
    <2>7. xy * u = uy * x
      BY <2>1, <2>5
    <2> QED
      BY <2>1, <2>2, <2>3, <2>4, <2>5, <2>6, <2>7
  <1> QED
    BY <1>1, <1>2, <1>4, <1>7 DEF Inverts

(* acc[j] inverts pre[j].                                                  *)
LEMMA InversesLaw ==
  ASSUME NEW k \in Nat \ {0}, NEW z, AllInvertible(z, k),
         NEW pre, IsPrefixes(pre, z, k), NEW acc, IsInverses(acc, pre, z, k)
  PROVE  \A j \in 1 .. k : Inverts(acc[j], pre[j])
  <1>1. /\ AllInvertible(pre, k)
        /\ \A j \in 2 .. k : pre[j] = fe_mul(pre[j - 1], z[j])
    BY PrefixesLaw
  <1>2. \A j \in 1 .. k : acc[j] = IF j = k THEN fe_inv(pre[k])
                                   ELSE fe_mul(acc[j + 1], z[j + 1])
    BY Zenon DEF IsInverses
  <1> DEFINE Good == {i \in 0 .. k - 1 : Inverts(acc[k - i], pre[k - i])}
  <1>3. 0 \in Good
    <2>1. k - 0 = k /\ k \in 1 .. k
      OBVIOUS
    <2>2. pre[k] \in Invertible
      BY <1>1, <2>1 DEF AllInvertible
    <2>3. pre[k] \in Fe /\ Value(pre[k]) \in 1 .. p - 1
      <3>1. pre[k] \in Field /\ Value(pre[k]) # 0
        BY <2>2 DEF Invertible
      <3>2. Value(pre[k]) \in 0 .. p - 1 /\ pre[k] \in Fe
        BY <3>1, FieldValues
      <3> QED
        BY <3>1, <3>2, ModulusNumbers
    <2>4. Inverts(fe_inv(pre[k]), pre[k])
      BY <2>3, FeInvInverts DEF Inverts
    <2>5. acc[k] = fe_inv(pre[k])
      BY <1>2, <2>1
    <2> QED
      BY <2>1, <2>4, <2>5
  <1>4. ASSUME NEW i \in Good, i < k - 1 PROVE i + 1 \in Good
    <2>1. PICK j \in 1 .. k - 1 : j = k - (i + 1)
      <3>1. k - (i + 1) \in 1 .. k - 1
        BY <1>4
      <3> QED
        BY <3>1
    <2>2. k - i = j + 1 /\ j + 1 \in 2 .. k /\ (j + 1) - 1 = j /\ j # k /\ j \in 1 .. k
      BY <2>1
    <2>3. Inverts(acc[j + 1], pre[j + 1])
      <3>1. Inverts(acc[k - i], pre[k - i])
        OBVIOUS
      <3> QED
        BY <2>2, <3>1
    <2>4. pre[j + 1] = fe_mul(pre[j], z[j + 1])
      BY <1>1, <2>2
    <2>5. acc[j] = fe_mul(acc[j + 1], z[j + 1])
      BY <1>2, <2>2
    <2>6. acc[j + 1] \in Field /\ pre[j] \in Fe /\ z[j + 1] \in Fe
      <3>1. j + 1 \in 1 .. k
        BY <2>2
      <3> QED
        BY <1>1, <2>2, <2>3, <3>1 DEF Inverts, AllInvertible, Invertible, Field
    <2>7. Inverts(acc[j], pre[j])
      BY <2>3, <2>4, <2>5, <2>6, InvertsProduct
    <2>8. i + 1 \in 0 .. k - 1
      BY <1>4
    <2> QED
      BY <2>1, <2>7, <2>8
  <1>5. \A i \in 0 .. k - 1 : i \in Good
    <2>1. Good \in SUBSET Nat /\ k - 1 \in Nat
      OBVIOUS
    <2> HIDE DEF Good
    <2> QED
      BY <1>3, <1>4, <2>1, GoodUpTo
  <1>6. ASSUME NEW j \in 1 .. k PROVE Inverts(acc[j], pre[j])
    <2>1. PICK i \in 0 .. k - 1 : i = k - j
      OBVIOUS
    <2>2. k - i = j
      BY <2>1
    <2>3. Inverts(acc[k - i], pre[k - i])
      BY <1>5
    <2> QED
      BY <2>2, <2>3
  <1> QED
    BY <1>6

(* The inverses of a sub-batch that share an inversion are the inverses.   *)
THEOREM SharedInversion ==
  ASSUME NEW k \in Nat \ {0}, NEW z, Len(z) = k, \A j \in 1 .. k : z[j] \in Invertible
  PROVE  \A j \in 1 .. k : Inverts(BatchInverse(z)[j], z[j])
  <1>0. AllInvertible(z, k)
    BY DEF AllInvertible
  <1> DEFINE pre0 == CHOOSE pre : IsPrefixes(pre, z, k)
             acc0 == CHOOSE acc : IsInverses(acc, pre0, z, k)
  <1>1. IsPrefixes(pre0, z, k)
    BY <1>0, PrefixesExist
  <1> HIDE DEF pre0
  <1>2. /\ AllInvertible(pre0, k) /\ pre0[1] = z[1]
        /\ \A j \in 2 .. k : pre0[j] = fe_mul(pre0[j - 1], z[j])
    BY <1>0, <1>1, PrefixesLaw
  <1>3. IsInverses(acc0, pre0, z, k)
    BY <1>0, <1>2, InversesExist
  <1> HIDE DEF acc0
  <1>4. \A j \in 1 .. k : Inverts(acc0[j], pre0[j])
    BY <1>0, <1>1, <1>3, InversesLaw
  <1>5. BatchInverse(z) = [j \in 1 .. k |-> IF j = 1 THEN acc0[1]
                                            ELSE fe_mul(acc0[j], pre0[j - 1])]
    BY DEF BatchInverse, IsPrefixes, IsInverses, pre0, acc0
  <1>6. ASSUME NEW j \in 1 .. k PROVE Inverts(BatchInverse(z)[j], z[j])
    <2>1. CASE j = 1
      BY <1>2, <1>4, <1>5, <2>1
    <2>2. CASE j # 1
      <3>1. j \in 2 .. k /\ j - 1 \in 1 .. k
        BY <2>2
      <3>2. BatchInverse(z)[j] = fe_mul(acc0[j], pre0[j - 1])
        BY <1>5, <2>2
      <3>3. Inverts(acc0[j], fe_mul(pre0[j - 1], z[j]))
        BY <1>2, <1>4, <3>1
      <3>4. acc0[j] \in Field /\ pre0[j - 1] \in Fe /\ z[j] \in Fe
        BY <1>0, <1>2, <3>1, <3>3 DEF Inverts, AllInvertible, Invertible, Field
      <3>5. Inverts(acc0[j], fe_mul(z[j], pre0[j - 1]))
        <4>1. PICK b \in Fe, c \in Fe : b = pre0[j - 1] /\ c = z[j]
          BY <3>4
        <4>2. Value(fe_mul(b, c)) = Value(fe_mul(c, b))
          <5>1. PICK x \in Nat, y \in Nat : x = Value(b) /\ y = Value(c)
            BY ValueType
          <5>2. Value(fe_mul(b, c)) = (x * y) % p /\ Value(fe_mul(c, b)) = (y * x) % p
            BY <5>1, FeMulIs
          <5>3. x * y = y * x
            OBVIOUS
          <5> QED
            BY <5>2, <5>3
        <4> QED
          BY <3>3, <4>1, <4>2 DEF Inverts
      <3>6. Inverts(fe_mul(acc0[j], pre0[j - 1]), z[j])
        BY <3>4, <3>5, InvertsProduct
      <3> QED
        BY <3>2, <3>6
    <2> QED
      BY <2>1, <2>2
  <1> QED
    BY <1>6

----------------------------------------------------------------------------
(* The operations of ec.metal stay in a set of words that those of the     *)
(* field stay in: in Fe, and in Field.                                     *)

Closed(K) ==
  /\ fe_from_u32(0) \in K /\ fe_from_u32(1) \in K
  /\ \A a, b \in K : fe_add(a, b) \in K /\ fe_sub(a, b) \in K /\ fe_mul(a, b) \in K

Points(K) == [X : K, Y : K, Z : K]

(* Two names of the same words.                                            *)
LEMMA ZeroIsZeros ==
  fe_from_u32(0) = Zeros(LIMBS)
  <1>1. Zeros(LIMBS) = [i \in 1 .. LIMBS |-> 0]
    BY DEF Zeros
  <1> QED
    BY <1>1, Widths DEF fe_from_u32

(* The operations of the field stay in Field,                              *)
LEMMA FieldClosed == Closed(Field)
  <1>1. fe_from_u32(0) \in Field /\ fe_from_u32(1) \in Field
    BY ZeroIsZeros, ZeroWords, OneWords, ModulusNumbers DEF Field
  <1>2. ASSUME NEW a \in Field, NEW b \in Field
        PROVE  fe_add(a, b) \in Field /\ fe_sub(a, b) \in Field /\ fe_mul(a, b) \in Field
    BY FeAddIs, FeSubIs, FeMulIs, FieldValues
  <1> QED
    BY <1>1, <1>2 DEF Closed

(* and whatever the words are, in Fe.                                      *)
LEMMA WordsClosed == Closed(Fe)
  <1>1. fe_from_u32(0) \in Fe /\ fe_from_u32(1) \in Fe
    BY FieldClosed DEF Closed, Field
  <1>2. P \in Fe
    BY ModulusWords
  <1>3. ASSUME NEW a \in Fe, NEW b \in Fe
        PROVE  fe_add(a, b) \in Fe
    <2>1. PICK s : s = Added(WordSums(a, b), LIMBS)
      OBVIOUS
    <2>2. s.words \in Fe
      BY <2>1, SumOfValues
    <2>3. sub_p(s.words) \in Fe
      <3>1. PICK d : d = Subtracted(s.words, P)
        OBVIOUS
      <3> QED
        BY <1>2, <2>2, <3>1, SubtractedIs DEF sub_p
    <2> QED
      BY <2>1, <2>2, <2>3 DEF fe_add, BelowP
  <1>4. ASSUME NEW a \in Fe, NEW b \in Fe
        PROVE  fe_sub(a, b) \in Fe
    <2>1. PICK d : d = Subtracted(a, b)
      OBVIOUS
    <2>2. d.words \in Fe
      BY <2>1, SubtractedIs
    <2>3. PICK s : s = Added(WordSums(d.words, P), LIMBS)
      OBVIOUS
    <2>4. s.words \in Fe
      BY <1>2, <2>2, <2>3, SumOfValues
    <2> QED
      BY <2>1, <2>2, <2>3, <2>4 DEF fe_sub, FromZero
  <1>5. ASSUME NEW a \in Fe, NEW b \in Fe
        PROVE  fe_mul(a, b) \in Fe
    BY FeMulIs, FieldValues
  <1> QED
    BY <1>1, <1>3, <1>4, <1>5 DEF Closed

(* A point over K.                                                         *)
LEMMA PointType ==
  ASSUME NEW K, NEW x \in K, NEW y \in K, NEW z \in K
  PROVE  Point(x, y, z) \in Points(K)
  BY DEF Point, Points

(* The end of both formulas stays in K,                                    *)
LEMMA OnLineType ==
  ASSUME NEW K, Closed(K),
         NEW x \in K, NEW v \in K, NEW r \in K, NEW w \in K, NEW z \in K
  PROVE  OnLine(x, v, r, w, z) \in Points(K)
  <1>1. fe_sub(v, x) \in K
    BY DEF Closed
  <1>2. fe_mul(r, fe_sub(v, x)) \in K
    BY <1>1 DEF Closed
  <1>3. fe_sub(fe_mul(r, fe_sub(v, x)), w) \in K
    BY <1>2 DEF Closed
  <1> QED
    BY <1>3, PointType DEF OnLine

(* and so do doubles and squares,                                          *)
LEMMA DoublesType ==
  ASSUME NEW K, Closed(K), NEW a \in K
  PROVE  Twice(a) \in K /\ Square(a) \in K
  BY DEF Closed, Twice, Square

(* the doubling of a point,                                                *)
LEMMA DoubleType ==
  ASSUME NEW K, Closed(K), NEW A \in Points(K)
  PROVE  j_double(A) \in Points(K)
  <1>1. j_infinity \in Points(K)
    BY PointType DEF j_infinity, Closed
  <1>2. A.X \in K /\ A.Y \in K /\ A.Z \in K
    BY DEF Points
  <1>3. PICK y2 \in K : y2 = Square(A.Y)
    BY <1>2, DoublesType
  <1>4. PICK x2 \in K, y4 \in K : x2 = Square(A.X) /\ y4 = Square(y2)
    BY <1>2, DoublesType
  <1>5. PICK d \in K : d = Twice(fe_sub(fe_sub(Square(fe_add(A.X, y2)), x2), y4))
    <2>1. fe_add(A.X, y2) \in K
      BY <1>2 DEF Closed
    <2>2. Square(fe_add(A.X, y2)) \in K
      BY <2>1, DoublesType
    <2>3. fe_sub(fe_sub(Square(fe_add(A.X, y2)), x2), y4) \in K
      BY <2>2 DEF Closed
    <2> QED
      BY <2>3, DoublesType
  <1>6. PICK e \in K : e = fe_add(Twice(x2), x2)
    <2>1. Twice(x2) \in K
      BY DoublesType
    <2> QED
      BY <2>1 DEF Closed
  <1>7. Tangent(A, d, e, y4) \in Points(K)
    <2>1. Twice(d) \in K /\ Square(e) \in K /\ Twice(y4) \in K /\ Twice(A.Y) \in K
      BY <1>2, DoublesType
    <2>2. Twice(Twice(y4)) \in K
      BY <2>1, DoublesType
    <2>3. Twice(Twice(Twice(y4))) \in K
      BY <2>2, DoublesType
    <2>4. fe_sub(Square(e), Twice(d)) \in K /\ fe_mul(Twice(A.Y), A.Z) \in K
      BY <1>2, <2>1 DEF Closed
    <2> QED
      BY <2>3, <2>4, OnLineType DEF Tangent
  <1> QED
    BY <1>1, <1>3, <1>4, <1>5, <1>6, <1>7 DEF j_double, Doubled

(* and the sum of two, in every special case.                              *)
LEMMA AddType ==
  ASSUME NEW K, Closed(K), NEW A \in Points(K), NEW B \in Points(K)
  PROVE  j_add(A, B) \in Points(K)
  <1>1. /\ A.X \in K /\ A.Y \in K /\ A.Z \in K
        /\ B.X \in K /\ B.Y \in K /\ B.Z \in K
    BY DEF Points
  <1>2. PICK zz1 \in K, zz2 \in K : zz1 = Square(A.Z) /\ zz2 = Square(B.Z)
    BY <1>1, DoublesType
  <1>3. PICK u1 \in K, s1 \in K, u2 \in K, s2 \in K, z \in K :
          Scaled(A, B, zz1, zz2) = [u1 |-> u1, s1 |-> s1, u2 |-> u2, s2 |-> s2, z |-> z]
    <2>1. fe_mul(A.X, zz2) \in K /\ fe_mul(B.X, zz1) \in K
      BY <1>1 DEF Closed
    <2>2. fe_mul(A.Y, B.Z) \in K /\ fe_mul(B.Y, A.Z) \in K /\ fe_add(A.Z, B.Z) \in K
      BY <1>1 DEF Closed
    <2>3. fe_mul(fe_mul(A.Y, B.Z), zz2) \in K /\ fe_mul(fe_mul(B.Y, A.Z), zz1) \in K
      BY <2>2 DEF Closed
    <2>4. Square(fe_add(A.Z, B.Z)) \in K
      BY <2>2, DoublesType
    <2>5. fe_sub(fe_sub(Square(fe_add(A.Z, B.Z)), zz1), zz2) \in K
      BY <2>4 DEF Closed
    <2> QED
      BY <2>1, <2>3, <2>5 DEF Scaled
  <1>4. PICK q : q = Scaled(A, B, zz1, zz2) /\ q = [u1 |-> u1, s1 |-> s1, u2 |-> u2,
                                                    s2 |-> s2, z |-> z]
    BY <1>3
  <1>5. q.u1 \in K /\ q.s1 \in K /\ q.u2 \in K /\ q.s2 \in K /\ q.z \in K
    BY <1>4
  <1>6. PICK h \in K : h = fe_sub(q.u2, q.u1)
    BY <1>5 DEF Closed
  <1>7. Chorded(q, h, Square(Twice(h))) \in Points(K)
    <2>1. PICK i \in K : i = Square(Twice(h))
      <3>1. Twice(h) \in K
        BY DoublesType
      <3> QED
        BY <3>1, DoublesType
    <2>2. fe_sub(q.s2, q.s1) \in K /\ fe_mul(h, i) \in K /\ fe_mul(q.u1, i) \in K
      BY <1>5 DEF Closed
    <2>3. PICK r \in K, j \in K, v \in K :
            r = Twice(fe_sub(q.s2, q.s1)) /\ j = fe_mul(h, i) /\ v = fe_mul(q.u1, i)
      BY <2>2, DoublesType
    <2>4. Square(r) \in K /\ Twice(v) \in K /\ fe_mul(q.s1, j) \in K /\ fe_mul(q.z, h) \in K
      BY <1>5, DoublesType DEF Closed
    <2>5. fe_sub(Square(r), j) \in K
      BY <2>4 DEF Closed
    <2>6. fe_sub(fe_sub(Square(r), j), Twice(v)) \in K
      BY <2>4, <2>5 DEF Closed
    <2>7. Twice(fe_mul(q.s1, j)) \in K
      BY <2>4, DoublesType
    <2>8. Secant(q, h, r, j, v) \in Points(K)
      BY <2>4, <2>6, <2>7, OnLineType DEF Secant
    <2> QED
      BY <2>1, <2>3, <2>8 DEF Chorded
  <1>8. j_infinity \in Points(K)
    BY PointType DEF j_infinity, Closed
  <1>9. AddFinite(A, q) \in Points(K)
    BY <1>6, <1>7, <1>8, DoubleType DEF AddFinite
  <1> QED
    BY <1>2, <1>4, <1>9 DEF j_add

(* The generator is reduced.                                               *)
LEMMA GeneratorType == g_point \in Points(Field)
  <1>1. Limbs(Gx) \in Field /\ Limbs(Gy) \in Field
    BY FieldLimbsValue, KernelAssumption
  <1> QED
    BY <1>1, FieldClosed, PointType DEF g_point, Closed

(* Reduced points are points.                                              *)
LEMMA FieldPointsAreWords == Points(Field) \subseteq Points(Fe)
  BY DEF Points, Field

(* One bit of the double and add stays in K.                               *)
LEMMA DoubleAndAddType ==
  ASSUME NEW K, Closed(K), g_point \in Points(K), NEW R \in Points(K), NEW k, NEW i
  PROVE  DoubleAndAdd(R, k, i) \in Points(K)
  <1>1. j_double(R) \in Points(K)
    BY DoubleType
  <1>2. j_add(j_double(R), g_point) \in Points(K)
    BY <1>1, AddType
  <1> QED
    BY <1>1, <1>2 DEF DoubleAndAdd

(* f[bits][R] is what the bits below make of R.                            *)
IsMultiplying(f, k) ==
  f = [bits \in 0 .. WORD * LIMBS |->
         [R \in [X : Fe, Y : Fe, Z : Fe] |->
            IF bits = 0 THEN R ELSE f[bits - 1][DoubleAndAdd(R, k, bits - 1)]]]

(* The loop of the double and add goes bit by bit,                         *)
LEMMA MultiplyingLaw ==
  ASSUME NEW f, NEW k, IsMultiplying(f, k)
  PROVE  /\ \A R \in Points(Fe) : f[0][R] = R
         /\ \A bits \in 1 .. WORD * LIMBS : \A R \in Points(Fe) :
              f[bits][R] = f[bits - 1][DoubleAndAdd(R, k, bits - 1)]
  <1>1. PICK N \in Nat : N = WORD * LIMBS
    BY BitCount
  <1>2. ASSUME NEW bits \in 0 .. N
        PROVE  f[bits] = [R \in Points(Fe) |->
                 IF bits = 0 THEN R
                 ELSE f[bits - 1][DoubleAndAdd(R, k, bits - 1)]]
    BY <1>1 DEF IsMultiplying, Points
  <1>3. \A R \in Points(Fe) : f[0][R] = R
    <2>1. 0 \in 0 .. N
      OBVIOUS
    <2> QED
      BY <1>2, <2>1
  <1>4. ASSUME NEW bits \in 1 .. N, NEW R \in Points(Fe)
        PROVE  f[bits][R] = f[bits - 1][DoubleAndAdd(R, k, bits - 1)]
    <2>1. bits \in 0 .. N /\ bits # 0
      OBVIOUS
    <2> QED
      BY <1>2, <2>1
  <1> QED
    BY <1>1, <1>3, <1>4

(* and has a result.                                                       *)
LEMMA MultiplyingExists ==
  ASSUME NEW k
  PROVE  \E f : IsMultiplying(f, k)
  <1>1. PICK N \in Nat : N = WORD * LIMBS
    BY BitCount
  <1>2. PICK D, S : D = Points(Fe) /\ S = [D -> D]
    OBVIOUS
  <1> DEFINE first == [R \in D |-> R]
             step == [bits \in 1 .. N |-> [h \in S |->
                        [R \in D |-> h[DoubleAndAdd(R, k, bits - 1)]]]]
  <1>3. ASSUME NEW R \in D, NEW i PROVE DoubleAndAdd(R, k, i) \in D
    BY <1>2, WordsClosed, GeneratorType, FieldPointsAreWords, DoubleAndAddType
  <1>4. first \in S
    BY <1>2
  <1>5. step \in [1 .. N -> [S -> S]]
    <2>1. ASSUME NEW bits \in 1 .. N, NEW h \in S
          PROVE  [R \in D |-> h[DoubleAndAdd(R, k, bits - 1)]] \in S
      BY <1>2, <1>3
    <2> QED
      BY <2>1
  <1>6. PICK f : IsSteps(f, S, first, step, N)
    <2> HIDE DEF first, step
    <2> QED
      BY <1>4, <1>5, StepsExist
  <1>7. f \in [0 .. N -> S] /\ f[0] = first
    BY <1>6 DEF IsSteps
  <1>8. ASSUME NEW bits \in 1 .. N
        PROVE  f[bits] = [R \in D |-> f[bits - 1][DoubleAndAdd(R, k, bits - 1)]]
    <2>1. f[bits - 1] \in S /\ f[bits] = step[bits][f[bits - 1]]
      <3> HIDE DEF first, step
      <3> QED
        BY <1>6 DEF IsSteps
    <2> QED
      BY <2>1
  <1>9. ASSUME NEW bits \in 0 .. N
        PROVE  f[bits] = [R \in D |->
                 IF bits = 0 THEN R ELSE f[bits - 1][DoubleAndAdd(R, k, bits - 1)]]
    <2>1. CASE bits = 0
      BY <1>7, <2>1
    <2>2. CASE bits # 0
      <3>1. bits \in 1 .. N
        BY <2>2
      <3> QED
        BY <1>8, <2>2, <3>1
    <2> QED
      BY <2>1, <2>2
  <1>10. IsMultiplying(f, k)
    <2> HIDE DEF first, step
    <2> QED
      BY <1>1, <1>2, <1>7, <1>9 DEF IsMultiplying, Points
  <1> QED
    BY <1>10

(* Double and add stays on reduced words.                                  *)
LEMMA ScalarmulType ==
  ASSUME NEW k
  PROVE  scalarmul_jacobian(k) \in Points(Field)
  <1>1. PICK N \in Nat : N = WORD * LIMBS
    BY BitCount
  <1>2. PICK f : IsMultiplying(f, k) /\ scalarmul_jacobian(k) = f[N][j_infinity]
    BY <1>1, MultiplyingExists DEF scalarmul_jacobian, IsMultiplying
  <1>3. /\ \A R \in Points(Fe) : f[0][R] = R
        /\ \A bits \in 1 .. N : \A R \in Points(Fe) :
             f[bits][R] = f[bits - 1][DoubleAndAdd(R, k, bits - 1)]
    BY <1>1, <1>2, MultiplyingLaw
  <1> DEFINE Stays(i) == \A R \in Points(Field) : f[i][R] \in Points(Field)
             Good == {i \in 0 .. N : Stays(i)}
  <1>4. 0 \in Good
    BY <1>3, FieldPointsAreWords
  <1>5. ASSUME NEW i \in Good, i < N PROVE i + 1 \in Good
    <2>1. i + 1 \in 0 .. N /\ i + 1 \in 1 .. N /\ (i + 1) - 1 = i /\ Stays(i)
      BY <1>5
    <2>2. ASSUME NEW R \in Points(Field) PROVE f[i + 1][R] \in Points(Field)
      <3>1. PICK Q \in Points(Field) : Q = DoubleAndAdd(R, k, i)
        BY FieldClosed, GeneratorType, DoubleAndAddType
      <3>2. f[i + 1][R] = f[i][Q]
        BY <1>3, <2>1, <3>1, FieldPointsAreWords
      <3> QED
        BY <2>1, <3>1, <3>2
    <2> QED
      BY <2>1, <2>2
  <1>6. N \in Good
    <2>1. Good \in SUBSET Nat
      OBVIOUS
    <2> HIDE DEF Good
    <2> QED
      BY <1>4, <1>5, <2>1, GoodUpTo
  <1>7. j_infinity \in Points(Field)
    BY FieldClosed, PointType DEF j_infinity, Closed
  <1> QED
    BY <1>2, <1>6, <1>7

(* Coordinates come out reduced.                                           *)
LEMMA AffineType ==
  ASSUME NEW A \in Points(Field), NEW i \in Fe
  PROVE  ToAffine(A, i) \in Field \X Field
  <1>1. A.X \in Fe /\ A.Y \in Fe
    BY DEF Points, Field
  <1>2. PICK s \in Fe : s = Square(i)
    BY WordsClosed, DoublesType
  <1>3. fe_mul(s, i) \in Fe
    BY WordsClosed DEF Closed
  <1>4. fe_mul(A.X, s) \in Field /\ fe_mul(A.Y, fe_mul(s, i)) \in Field
    BY <1>1, <1>3, FeMulIs
  <1> QED
    BY <1>2, <1>4 DEF ToAffine

(* Coordinates of a point with an inversion of its own are reduced.        *)
LEMMA ScalarmulAffineType ==
  ASSUME NEW A \in Points(Field)
  PROVE  Affine(A) \in Field \X Field
  <1>1. A.Z \in Fe
    BY DEF Points, Field
  <1>2. fe_inv(A.Z) \in Fe
    BY <1>1, FeInvInverts DEF Field
  <1> QED
    BY <1>2, AffineType DEF Affine

(* What goes into a shared inversion is never 0.                           *)
LEMMA BatchZType ==
  ASSUME NEW A \in Points(Field)
  PROVE  BatchZ(A) \in Invertible
  <1>1. A.Z \in Field /\ A.Z \in Fe
    BY DEF Points, Field
  <1>2. fe_is_zero(A.Z) <=> Value(A.Z) = 0
    BY <1>1, ZeroWords
  <1>3. fe_from_u32(1) \in Invertible
    BY OneWords DEF Invertible
  <1> QED
    BY <1>1, <1>2, <1>3 DEF BatchZ, Invertible

----------------------------------------------------------------------------
(* What a thread knows between two steps                                   *)

(* The thread's input is what its kernel takes.                            *)
InputIsTaken ==
  /\ kernel \in {"mine", "mine_incremental", "derive_test"} =>
       seed \in Seed /\ counter \in Counter
  /\ kernel \in {"mine_incremental_raw_test", "ec_test"} => seed \in 0 .. n - 1

(* Each loop runs in its kernel, over a base that is in range.             *)
BaseIsInRange ==
  /\ base \in Fe
  /\ pc = "next" => kernel = "mine"
  /\ pc = "walk" => /\ kernel = "mine_incremental"
                    /\ Value(base) = Derive[seed][counter]
                    /\ Value(base) \in 1 .. n - 1
  /\ pc = "raw" => /\ kernel = "mine_incremental_raw_test"
                   /\ Value(base) = seed
  /\ kernel = "mine_incremental" /\ emitted # {} => Derive[seed][counter] \in 1 .. n - 1

(* The walk is inside the batch, and every number of it reduced.           *)
WalkIsReduced ==
  /\ pc \in {"start", "next", "walk", "raw", "done"}
  /\ point \in Points(Field) /\ sub \in Seq(Points(Field))
  /\ it \in 0 .. ITERS
  /\ pc # "done" => it < ITERS
  /\ pc = "start" => it = 0 /\ sub = <<>> /\ emitted = {}
  /\ pc = "walk" => Len(sub) <= SubBatch

(* A candidate of the batch, with its own key, once; its point is reduced. *)
KeyOf(e) ==
  \/ e.key = CandidateKey(e.it)
  \/ kernel = "mine_incremental_raw_test" /\ e.key = 0

KeysAreTheirCandidates ==
  /\ \A e \in emitted : /\ e.it \in 0 .. ITERS - 1 /\ KeyOf(e)
                        /\ e.x \in 0 .. p - 1 /\ e.y \in 0 .. p - 1
  /\ \A e, f \in emitted : e.it = f.it => e = f

(* What has been emitted is of the candidates that are done.               *)
EmittedIsDone ==
  pc # "done" => \A e \in emitted : e.it < it

(* mine has emitted every key in range of the candidates done, no other.   *)
MineIsComplete ==
  kernel = "mine" =>
    /\ pc = "done" => it = ITERS
    /\ \A e \in emitted : e.key \in 1 .. n - 1
    /\ \A i \in 0 .. it - 1 : CandidateKey(i) \in 1 .. n - 1 =>
         \E e \in emitted : e.it = i

KernelInv ==
  /\ InputIsTaken /\ BaseIsInRange /\ WalkIsReduced
  /\ KeysAreTheirCandidates /\ EmittedIsDone /\ MineIsComplete

(* The sizes of a batch.                                                   *)
LEMMA Batches ==
  /\ ITERS \in Nat \ {0} /\ B2_SUBBATCH \in Nat \ {0} /\ ITERS <= n
  /\ n \in Nat \ {0} /\ n < Weight[LIMBS] /\ Weight[LIMBS] \in Nat
  BY KernelAssumption, OrderWords, ModulusNumbers

(* A digest is a value of the words.                                       *)
LEMMA DigestType ==
  ASSUME NEW s \in Seed, NEW c \in Counter, NEW i \in 0 .. ITERS - 1
  PROVE  /\ c \in Nat /\ Derive[s][c + i] \in Nat
         /\ derive_privkey(s, c + i) \in Fe
         /\ Value(derive_privkey(s, c + i)) = Derive[s][c + i]
  <1>1. Derive[s][c + i] \in 0 .. Weight[LIMBS] - 1 /\ c \in Nat
    BY KernelAssumption
  <1>2. PICK d \in Nat : d = Derive[s][c + i] /\ d < Weight[LIMBS]
    BY <1>1, Batches
  <1>3. Limbs(d) \in Fe /\ Value(Limbs(d)) = d
    BY <1>2, LimbsValue
  <1> QED
    BY <1>1, <1>2, <1>3 DEF derive_privkey

(* The digest of the first candidate.                                      *)
LEMMA FirstDigestType ==
  ASSUME NEW s \in Seed, NEW c \in Counter
  PROVE  /\ c + 0 = c /\ Derive[s][c] \in Nat
         /\ derive_privkey(s, c) \in Fe
         /\ Value(derive_privkey(s, c)) = Derive[s][c]
  <1>1. 0 \in 0 .. ITERS - 1 /\ c \in Nat
    BY Batches, KernelAssumption
  <1>2. c + 0 = c
    BY <1>1
  <1> QED
    BY <1>1, <1>2, DigestType

(* What a candidate emitted says.                                          *)
LEMMA EmitIs ==
  ASSUME NEW i, NEW k, NEW xy \in Field \X Field, NEW e, e = Emit(i, k, xy)
  PROVE  e.it = i /\ e.key = Value(k) /\ e.x \in 0 .. p - 1 /\ e.y \in 0 .. p - 1
  <1>1. xy[1] \in Field /\ xy[2] \in Field
    OBVIOUS
  <1> QED
    BY <1>1, FieldValues DEF Emit

(* The pair of zeros is reduced.                                           *)
LEMMA NoPointType == NoPoint \in Field \X Field
  BY FieldClosed, ZeroIsZeros DEF NoPoint, Closed

(* The new candidates are good ones and are not among the old.             *)
Fresh(new) ==
  /\ \A e \in new : /\ e.it \in 0 .. ITERS - 1 /\ KeyOf(e)
                    /\ e.x \in 0 .. p - 1 /\ e.y \in 0 .. p - 1
  /\ \A e, f \in new : e.it = f.it => e = f
  /\ \A e \in emitted, f \in new : e.it # f.it

(* The key of a candidate does not change.                                 *)
LEMMA KeysStay ==
  ASSUME UNCHANGED input
  PROVE  \A e : KeyOf(e) => KeyOf(e)'
  BY DEF input, KeyOf, CandidateKey

(* Fresh candidates keep the candidates good.                              *)
LEMMA EmittedGrows ==
  ASSUME KeysAreTheirCandidates, UNCHANGED input,
         NEW new, Fresh(new), emitted' = emitted \cup new
  PROVE  KeysAreTheirCandidates'
  <1>1. \A e \in emitted' : /\ e.it \in 0 .. ITERS - 1 /\ KeyOf(e)'
                            /\ e.x \in 0 .. p - 1 /\ e.y \in 0 .. p - 1
    BY KeysStay DEF KeysAreTheirCandidates, Fresh
  <1>2. \A e, f \in emitted' : e.it = f.it => e = f
    BY DEF KeysAreTheirCandidates, Fresh
  <1> QED
    BY <1>1, <1>2 DEF KeysAreTheirCandidates

(* No candidate at all is fresh.                                           *)
LEMMA NothingFresh == Fresh({})
  BY DEF Fresh

(* The invariant holds at first.                                           *)
LEMMA KernelInitially == Init => KernelInv
  <1> SUFFICES ASSUME Init PROVE KernelInv
    OBVIOUS
  <1>1. InputIsTaken
    BY DEF Init, InputIsTaken
  <1>2. BaseIsInRange
    BY ZeroWords DEF Init, BaseIsInRange
  <1>3. WalkIsReduced
    <2>1. j_infinity \in Points(Field)
      BY FieldClosed, PointType DEF j_infinity, Closed
    <2> QED
      BY <2>1, Batches DEF Init, WalkIsReduced
  <1>4. KeysAreTheirCandidates /\ EmittedIsDone /\ MineIsComplete
    BY DEF Init, KeysAreTheirCandidates, EmittedIsDone, MineIsComplete
  <1> QED
    BY <1>1, <1>2, <1>3, <1>4 DEF KernelInv

(* A candidate of mine keeps it.                                           *)
LEMMA MineOneKeeps ==
  ASSUME KernelInv, MineOne
  PROVE  KernelInv'
  <1>0. /\ kernel = "mine" /\ pc # "done" /\ UNCHANGED input
        /\ UNCHANGED <<base, point, sub>>
        /\ it' = it + 1 /\ pc' = IF it + 1 < ITERS THEN "next" ELSE "done"
        /\ seed \in Seed /\ counter \in Counter
        /\ it \in 0 .. ITERS - 1
    BY Batches DEF KernelInv, MineOne, InputIsTaken, WalkIsReduced
  <1>1. PICK key \in Fe : key = derive_privkey(seed, counter + it)
    BY <1>0, DigestType
  <1>2. /\ Value(key) = CandidateKey(it)
        /\ scalar_in_range(key) <=> CandidateKey(it) \in 1 .. n - 1
    BY <1>0, <1>1, DigestType, ScalarInRangeIs DEF CandidateKey
  <1>3. PICK new : new = IF scalar_in_range(key) THEN {Emit(it, key, scalarmul(key))} ELSE {}
    OBVIOUS
  <1>4. emitted' = emitted \cup new
    BY <1>1, <1>3 DEF MineOne
  <1>5. scalarmul(key) \in Field \X Field
    BY ScalarmulType, ScalarmulAffineType DEF scalarmul
  <1>6. ASSUME NEW e \in new
        PROVE  /\ e.it = it /\ e.key = CandidateKey(it) /\ CandidateKey(it) \in 1 .. n - 1
               /\ e.x \in 0 .. p - 1 /\ e.y \in 0 .. p - 1
    <2>1. e = Emit(it, key, scalarmul(key)) /\ scalar_in_range(key)
      BY <1>3
    <2> QED
      BY <1>2, <1>5, <2>1, EmitIs
  <1>7. Fresh(new)
    <2>1. \A e \in emitted : e.it < it /\ e.it \in 0 .. ITERS - 1
      BY <1>0 DEF KernelInv, EmittedIsDone, KeysAreTheirCandidates
    <2>2. \A e \in emitted : e.it # it
      BY <1>0, <2>1
    <2>3. \A e, f \in new : e = f
      BY <1>3
    <2> QED
      BY <1>0, <1>6, <2>2, <2>3 DEF Fresh, KeyOf
  <1>8. KeysAreTheirCandidates'
    BY <1>0, <1>4, <1>7, EmittedGrows DEF KernelInv
  <1>9. InputIsTaken' /\ BaseIsInRange'
    BY <1>0 DEF KernelInv, input, InputIsTaken, BaseIsInRange
  <1>10. WalkIsReduced'
    BY <1>0, Batches DEF KernelInv, WalkIsReduced
  <1>11. EmittedIsDone'
    <2>1. \A e \in emitted : e.it < it /\ e.it \in 0 .. ITERS - 1
      BY <1>0 DEF KernelInv, EmittedIsDone, KeysAreTheirCandidates
    <2>2. \A e \in emitted' : e.it < it + 1
      BY <1>0, <1>4, <1>6, <2>1
    <2> QED
      BY <1>0, <2>2 DEF EmittedIsDone
  <1>12. MineIsComplete'
    <2>1. pc' = "done" => it' = ITERS
      BY <1>0, Batches
    <2>2. \A e \in emitted' : e.key \in 1 .. n - 1
      BY <1>0, <1>4, <1>6 DEF KernelInv, MineIsComplete
    <2>3. ASSUME NEW i \in 0 .. it, CandidateKey(i) \in 1 .. n - 1
          PROVE  \E e \in emitted' : e.it = i
      <3>1. CASE i = it
        <4>1. Emit(it, key, scalarmul(key)) \in new
          BY <1>2, <1>3, <2>3, <3>1
        <4> QED
          BY <1>4, <1>6, <3>1, <4>1
      <3>2. CASE i # it
        <4>1. i \in 0 .. it - 1
          BY <1>0, <3>2
        <4> QED
          BY <1>0, <1>4, <2>3, <4>1 DEF KernelInv, MineIsComplete
      <3> QED
        BY <3>1, <3>2
    <2>4. \A i : CandidateKey(i)' = CandidateKey(i)
      BY <1>0 DEF input, CandidateKey
    <2>5. it' - 1 = it
      BY <1>0
    <2> QED
      BY <1>0, <2>1, <2>2, <2>3, <2>4, <2>5 DEF MineIsComplete
  <1> QED
    BY <1>8, <1>9, <1>10, <1>11, <1>12 DEF KernelInv

(* The base of the walk keeps it.                                          *)
LEMMA StartKeeps ==
  ASSUME KernelInv, Start
  PROVE  KernelInv'
  <1>0. /\ kernel = "mine_incremental" /\ pc = "start" /\ UNCHANGED input
        /\ UNCHANGED <<it, sub, emitted>>
        /\ seed \in Seed /\ counter \in Counter
    BY DEF KernelInv, Start, InputIsTaken
  <1>1. PICK b \in Fe : b = derive_privkey(seed, counter) /\ b = base'
    BY <1>0, FirstDigestType DEF Start
  <1>2. /\ Value(b) = Derive[seed][counter]
        /\ scalar_in_range(b) <=> Value(b) \in 1 .. n - 1
    BY <1>0, <1>1, FirstDigestType, ScalarInRangeIs
  <1>3. /\ scalar_in_range(b) => point' = scalarmul_jacobian(b) /\ pc' = "walk"
        /\ ~scalar_in_range(b) => point' = point /\ pc' = "done"
    BY <1>1 DEF Start
  <1>4. point' \in Points(Field)
    BY <1>3, ScalarmulType DEF KernelInv, WalkIsReduced
  <1>5. InputIsTaken' /\ BaseIsInRange'
    BY <1>0, <1>1, <1>2, <1>3 DEF KernelInv, input, InputIsTaken, BaseIsInRange
  <1>6. WalkIsReduced'
    <2>1. it = 0 /\ emitted = {} /\ Len(sub) = 0
      BY <1>0 DEF KernelInv, WalkIsReduced
    <2> QED
      BY <1>0, <1>3, <1>4, <2>1, Batches DEF KernelInv, WalkIsReduced, SubBatch
  <1>7. KeysAreTheirCandidates'
    <2>1. emitted' = emitted \cup {}
      BY <1>0
    <2> QED
      BY <1>0, <2>1, NothingFresh, EmittedGrows DEF KernelInv
  <1>8. EmittedIsDone' /\ MineIsComplete'
    BY <1>0 DEF KernelInv, EmittedIsDone, MineIsComplete, input
  <1> QED
    BY <1>5, <1>6, <1>7, <1>8 DEF KernelInv

(* A step of the walk keeps it.                                            *)
LEMMA WalkKeeps ==
  ASSUME KernelInv, Walk
  PROVE  KernelInv'
  <1>0. /\ pc = "walk" /\ Len(sub) < SubBatch /\ UNCHANGED input
        /\ UNCHANGED <<base, it, pc, emitted>>
        /\ point \in Points(Field) /\ sub \in Seq(Points(Field))
        /\ it \in 0 .. ITERS - 1
    BY Batches DEF KernelInv, Walk, WalkIsReduced
  <1>1. PICK q \in Points(Field) : q = point'
    BY <1>0, FieldClosed, GeneratorType, AddType DEF Walk
  <1>2. sub' = Append(sub, q)
    BY <1>1 DEF Walk
  <1>3. sub' \in Seq(Points(Field)) /\ Len(sub') = Len(sub) + 1 /\ Len(sub) \in Nat
    BY <1>0, <1>2
  <1>4. SubBatch' = SubBatch /\ SubBatch \in Nat
    BY <1>0, Batches DEF SubBatch
  <1>5. Len(sub') <= SubBatch'
    BY <1>0, <1>3, <1>4
  <1>6. InputIsTaken' /\ BaseIsInRange'
    BY <1>0 DEF KernelInv, input, InputIsTaken, BaseIsInRange
  <1>7. WalkIsReduced'
    BY <1>0, <1>1, <1>3, <1>5, Batches DEF KernelInv, WalkIsReduced
  <1>8. KeysAreTheirCandidates'
    <2>1. emitted' = emitted \cup {}
      BY <1>0
    <2> QED
      BY <1>0, <2>1, NothingFresh, EmittedGrows DEF KernelInv
  <1>9. EmittedIsDone' /\ MineIsComplete'
    BY <1>0 DEF KernelInv, EmittedIsDone, MineIsComplete, BaseIsInRange, input
  <1> QED
    BY <1>6, <1>7, <1>8, <1>9 DEF KernelInv

(* The inverses of the sub-batch invert, the stand-in for infinity too.    *)
LEMMA SubInversesAre ==
  ASSUME sub \in Seq(Points(Field)), sub # <<>>
  PROVE  \A j \in 1 .. Len(sub) : Inverts(SubInverses[j], BatchZ(sub[j]))
  <1>1. PICK k \in Nat \ {0} : k = Len(sub) /\ DOMAIN sub = 1 .. k
    OBVIOUS
  <1>2. PICK z : z = [j \in DOMAIN sub |-> BatchZ(sub[j])]
    OBVIOUS
  <1>3. \A j \in 1 .. k : sub[j] \in Points(Field)
    BY <1>1
  <1>4. \A j \in 1 .. k : z[j] \in Invertible /\ z[j] = BatchZ(sub[j])
    BY <1>1, <1>2, <1>3, BatchZType
  <1>5. z \in Seq(Invertible) /\ Len(z) = k
    BY <1>1, <1>2, <1>4
  <1>6. \A j \in 1 .. k : Inverts(BatchInverse(z)[j], z[j])
    BY <1>4, <1>5, SharedInversion
  <1>7. SubInverses = BatchInverse(z)
    BY <1>2 DEF SubInverses
  <1> QED
    BY <1>1, <1>4, <1>6, <1>7

(* A sub-batch inverted and emitted keeps it.                              *)
LEMMA EmitSubBatchKeeps ==
  ASSUME KernelInv, EmitSubBatch
  PROVE  KernelInv'
  <1>0. /\ pc = "walk" /\ kernel = "mine_incremental" /\ UNCHANGED input
        /\ UNCHANGED <<base, point>> /\ sub' = <<>>
        /\ sub \in Seq(Points(Field))
        /\ it \in 0 .. ITERS - 1
        /\ base \in Fe /\ Value(base) = Derive[seed][counter]
        /\ Value(base) \in 1 .. n - 1
        /\ it' = it + Len(sub)
        /\ pc' = IF it' < ITERS THEN "walk" ELSE "done"
        /\ seed \in Seed /\ counter \in Counter
    BY Batches DEF KernelInv, EmitSubBatch, WalkIsReduced, BaseIsInRange, InputIsTaken
  <1>1. PICK k \in Nat \ {0} : k = Len(sub) /\ k <= ITERS - it /\ DOMAIN sub = 1 .. k
    <2>1. Len(sub) = SubBatch
      BY DEF EmitSubBatch
    <2>2. SubBatch \in Nat \ {0} /\ SubBatch <= ITERS - it
      BY <1>0, Batches DEF SubBatch
    <2> QED
      BY <1>0, <2>1, <2>2
  <1>2. \A j \in 1 .. k : SubInverses[j] \in Fe
    <2>1. sub # <<>>
      BY <1>1
    <2> QED
      BY <1>0, <1>1, <2>1, SubInversesAre DEF Inverts, Field
  <1>3. PICK new : new = {Emit(it + j - 1, scalar_add_small(base, it + j - 1),
                               ToAffine(sub[j], SubInverses[j])) :
                            j \in {i \in DOMAIN sub : ~fe_is_zero(sub[i].Z)}}
    OBVIOUS
  <1>4. emitted' = emitted \cup new
    BY <1>3 DEF EmitSubBatch
  <1>5. ASSUME NEW e \in new
        PROVE  \E j \in 1 .. k :
                 e = Emit(it + j - 1, scalar_add_small(base, it + j - 1),
                          ToAffine(sub[j], SubInverses[j]))
    BY <1>1, <1>3
  <1>6. ASSUME NEW e \in new, NEW j \in 1 .. k,
               e = Emit(it + j - 1, scalar_add_small(base, it + j - 1),
                        ToAffine(sub[j], SubInverses[j]))
        PROVE  /\ e.it = it + j - 1 /\ e.it \in 0 .. ITERS - 1 /\ KeyOf(e)
               /\ e.x \in 0 .. p - 1 /\ e.y \in 0 .. p - 1
               /\ e.it >= it /\ e.it < it + k
    <2>1. ToAffine(sub[j], SubInverses[j]) \in Field \X Field
      <3>1. sub[j] \in Points(Field)
        BY <1>0, <1>1
      <3> QED
        BY <1>2, <3>1, AffineType
    <2>2. PICK i \in 0 .. ITERS - 1 : i = it + j - 1 /\ i >= it /\ i < it + k
      BY <1>0, <1>1, Batches
    <2>3. e = Emit(i, scalar_add_small(base, i), ToAffine(sub[j], SubInverses[j]))
      BY <1>6, <2>2
    <2>4. /\ e.it = i /\ e.key = Value(scalar_add_small(base, i))
          /\ e.x \in 0 .. p - 1 /\ e.y \in 0 .. p - 1
      BY <2>1, <2>3, EmitIs
    <2>5. e.key = (Derive[seed][counter] + i) % n
      <3>1. i \in 0 .. ITERS /\ Value(base) < n
        BY <1>0, <2>2, Batches
      <3> QED
        BY <1>0, <2>4, <3>1, ScalarAddSmallIs
    <2>6. CandidateKey(i) = (Derive[seed][counter] + i) % n
      BY <1>0 DEF CandidateKey
    <2> QED
      BY <2>2, <2>4, <2>5, <2>6 DEF KeyOf
  <1>7. Fresh(new)
    <2>1. \A e \in emitted : e.it < it /\ e.it \in 0 .. ITERS - 1
      BY <1>0 DEF KernelInv, EmittedIsDone, KeysAreTheirCandidates
    <2>2. ASSUME NEW e \in emitted, NEW f \in new PROVE e.it # f.it
      <3>1. f.it >= it /\ f.it \in 0 .. ITERS - 1
        BY <1>5, <1>6
      <3>2. e.it < it /\ e.it \in 0 .. ITERS - 1
        BY <2>1
      <3> QED
        BY <1>0, <3>1, <3>2
    <2>3. ASSUME NEW e \in new, NEW f \in new, e.it = f.it PROVE e = f
      <3>1. PICK j \in 1 .. k :
              e = Emit(it + j - 1, scalar_add_small(base, it + j - 1),
                       ToAffine(sub[j], SubInverses[j]))
        BY <1>5
      <3>2. PICK i \in 1 .. k :
              f = Emit(it + i - 1, scalar_add_small(base, it + i - 1),
                       ToAffine(sub[i], SubInverses[i]))
        BY <1>5
      <3>3. e.it = it + j - 1 /\ f.it = it + i - 1
        BY <1>6, <3>1, <3>2
      <3>4. i = j
        <4>1. PICK u \in Int : u = it
          BY <1>0
        <4>2. u + j - 1 = u + i - 1
          BY <2>3, <3>3, <4>1
        <4> QED
          BY <4>2
      <3> QED
        BY <3>1, <3>2, <3>4
    <2>4. \A e \in new : /\ e.it \in 0 .. ITERS - 1 /\ KeyOf(e)
                         /\ e.x \in 0 .. p - 1 /\ e.y \in 0 .. p - 1
      BY <1>5, <1>6
    <2> QED
      BY <2>2, <2>3, <2>4 DEF Fresh
  <1>8. KeysAreTheirCandidates'
    BY <1>0, <1>4, <1>7, EmittedGrows DEF KernelInv
  <1>9. InputIsTaken' /\ BaseIsInRange'
    BY <1>0 DEF KernelInv, input, InputIsTaken, BaseIsInRange
  <1>10. WalkIsReduced'
    <2>1. it' \in 0 .. ITERS /\ pc' \in {"walk", "done"} /\ (pc' # "done" => it' < ITERS)
      BY <1>0, <1>1, Batches
    <2>2. Len(sub') = 0 /\ sub' \in Seq(Points(Field))
      BY <1>0
    <2>3. pc' = "walk" => SubBatch' \in Nat
      <3>1. PICK u \in 0 .. ITERS, z \in Nat : u = it' /\ z = ITERS - u
        BY <2>1, Batches
      <3> QED
        BY <3>1, Batches DEF SubBatch
    <2>4. pc' = "walk" => Len(sub') <= SubBatch'
      BY <2>2, <2>3
    <2> QED
      BY <1>0, <2>1, <2>2, <2>4 DEF KernelInv, WalkIsReduced
  <1>11. EmittedIsDone'
    <2>1. \A e \in emitted : e.it < it /\ e.it \in 0 .. ITERS - 1
      BY <1>0 DEF KernelInv, EmittedIsDone, KeysAreTheirCandidates
    <2>2. \A e \in emitted : e.it < it + k
      BY <1>0, <2>1
    <2>3. \A e \in new : e.it < it + k
      BY <1>5, <1>6
    <2> QED
      BY <1>0, <1>1, <1>4, <2>2, <2>3 DEF EmittedIsDone
  <1>12. MineIsComplete'
    BY <1>0 DEF MineIsComplete, input
  <1> QED
    BY <1>8, <1>9, <1>10, <1>11, <1>12 DEF KernelInv

(* The base given to raw_test keeps it.                                    *)
LEMMA RawStartKeeps ==
  ASSUME KernelInv, RawStart
  PROVE  KernelInv'
  <1>0. /\ kernel = "mine_incremental_raw_test" /\ pc = "start" /\ pc' = "raw"
        /\ UNCHANGED input /\ UNCHANGED <<it, sub, emitted>>
        /\ seed \in 0 .. n - 1
    BY DEF KernelInv, RawStart, InputIsTaken
  <1>1. PICK b \in Fe : b = Limbs(seed) /\ Value(b) = seed /\ b = base'
    <2>1. seed \in Nat /\ seed < Weight[LIMBS]
      BY <1>0, Batches
    <2> QED
      BY <2>1, LimbsValue DEF RawStart
  <1>2. point' \in Points(Field)
    BY <1>1, ScalarmulType DEF RawStart
  <1>3. InputIsTaken' /\ BaseIsInRange'
    BY <1>0, <1>1 DEF KernelInv, input, InputIsTaken, BaseIsInRange
  <1>4. WalkIsReduced'
    BY <1>0, <1>2 DEF KernelInv, WalkIsReduced
  <1>5. KeysAreTheirCandidates'
    <2>1. emitted' = emitted \cup {}
      BY <1>0
    <2> QED
      BY <1>0, <2>1, NothingFresh, EmittedGrows DEF KernelInv
  <1>6. EmittedIsDone' /\ MineIsComplete'
    BY <1>0 DEF KernelInv, EmittedIsDone, MineIsComplete, input
  <1> QED
    BY <1>3, <1>4, <1>5, <1>6 DEF KernelInv

(* A step of raw_test keeps it.                                            *)
LEMMA RawWalkKeeps ==
  ASSUME KernelInv, RawWalk
  PROVE  KernelInv'
  <1>0. /\ pc = "raw" /\ kernel = "mine_incremental_raw_test" /\ UNCHANGED input
        /\ UNCHANGED <<base, sub>>
        /\ point \in Points(Field)
        /\ it \in 0 .. ITERS - 1
        /\ base \in Fe /\ Value(base) = seed /\ seed \in 0 .. n - 1
        /\ it' = it + 1 /\ pc' = IF it' < ITERS THEN "raw" ELSE "done"
    BY Batches DEF KernelInv, RawWalk, WalkIsReduced, BaseIsInRange, InputIsTaken
  <1>1. PICK q \in Points(Field) : q = point'
    BY <1>0, FieldClosed, GeneratorType, AddType DEF RawWalk
  <1>2. PICK e : e = IF fe_is_zero(q.Z) THEN Emit(it, Zeros(LIMBS), NoPoint)
                     ELSE Emit(it, scalar_add_small(base, it), Affine(q))
    OBVIOUS
  <1>3. emitted' = emitted \cup {e}
    BY <1>1, <1>2 DEF RawWalk
  <1>4. e.it = it /\ KeyOf(e) /\ e.x \in 0 .. p - 1 /\ e.y \in 0 .. p - 1
    <2>1. CASE fe_is_zero(q.Z)
      <3>1. e = Emit(it, Zeros(LIMBS), NoPoint)
        BY <1>2, <2>1
      <3> QED
        BY <1>0, <3>1, EmitIs, NoPointType, ZeroWords DEF KeyOf
    <2>2. CASE ~fe_is_zero(q.Z)
      <3>1. e = Emit(it, scalar_add_small(base, it), Affine(q)) /\ Affine(q) \in Field \X Field
        BY <1>2, <2>2, ScalarmulAffineType
      <3>2. e.it = it /\ e.key = Value(scalar_add_small(base, it))
            /\ e.x \in 0 .. p - 1 /\ e.y \in 0 .. p - 1
        BY <3>1, EmitIs
      <3>3. e.key = (seed + it) % n
        <4>1. it \in 0 .. ITERS /\ Value(base) < n
          BY <1>0, Batches
        <4> QED
          BY <1>0, <3>2, <4>1, ScalarAddSmallIs
      <3>4. CandidateKey(it) = (seed + it) % n
        BY <1>0 DEF CandidateKey
      <3> QED
        BY <3>2, <3>3, <3>4 DEF KeyOf
    <2> QED
      BY <2>1, <2>2
  <1>5. \A f \in emitted : f.it < it /\ f.it \in 0 .. ITERS - 1
    BY <1>0 DEF KernelInv, EmittedIsDone, KeysAreTheirCandidates
  <1>6. Fresh({e})
    BY <1>0, <1>4, <1>5 DEF Fresh
  <1>7. KeysAreTheirCandidates'
    BY <1>0, <1>3, <1>6, EmittedGrows DEF KernelInv
  <1>8. InputIsTaken' /\ BaseIsInRange'
    BY <1>0 DEF KernelInv, input, InputIsTaken, BaseIsInRange
  <1>9. WalkIsReduced'
    <2>1. it' \in 0 .. ITERS /\ pc' \in {"raw", "done"} /\ (pc' # "done" => it' < ITERS)
      BY <1>0, Batches
    <2> QED
      BY <1>0, <1>1, <2>1 DEF KernelInv, WalkIsReduced
  <1>10. EmittedIsDone' /\ MineIsComplete'
    <2>1. \A f \in emitted' : f.it < it + 1
      BY <1>0, <1>3, <1>4, <1>5
    <2> QED
      BY <1>0, <2>1 DEF EmittedIsDone, MineIsComplete, input
  <1> QED
    BY <1>7, <1>8, <1>9, <1>10 DEF KernelInv

(* derive_test keeps it.                                                   *)
LEMMA DeriveTestKeeps ==
  ASSUME KernelInv, DeriveTest
  PROVE  KernelInv'
  <1>0. /\ kernel = "derive_test" /\ pc = "start" /\ pc' = "done" /\ UNCHANGED input
        /\ UNCHANGED <<base, point, it, sub>>
        /\ seed \in Seed /\ counter \in Counter /\ emitted = {}
    BY DEF KernelInv, DeriveTest, InputIsTaken, WalkIsReduced
  <1>1. PICK key \in Fe : /\ key = derive_privkey(seed, counter)
                          /\ Value(key) = Derive[seed][counter]
    BY <1>0, FirstDigestType
  <1>2. PICK xy \in Field \X Field :
          xy = IF scalar_in_range(key) THEN scalarmul(key) ELSE NoPoint
    BY ScalarmulType, ScalarmulAffineType, NoPointType DEF scalarmul
  <1>3. PICK e : e = Emit(0, key, xy)
    OBVIOUS
  <1>4. emitted' = emitted \cup {e}
    BY <1>0, <1>1, <1>2, <1>3 DEF DeriveTest, DeriveThread
  <1>5. /\ e.it = 0 /\ e.key = Derive[seed][counter]
        /\ e.x \in 0 .. p - 1 /\ e.y \in 0 .. p - 1
    BY <1>1, <1>3, EmitIs
  <1>6. CandidateKey(0) = Derive[seed][counter]
    BY <1>0, FirstDigestType DEF CandidateKey
  <1>7. Fresh({e})
    BY <1>0, <1>5, <1>6, Batches DEF Fresh, KeyOf
  <1>8. KeysAreTheirCandidates'
    BY <1>0, <1>4, <1>7, EmittedGrows DEF KernelInv
  <1>9. InputIsTaken' /\ BaseIsInRange' /\ WalkIsReduced'
    BY <1>0 DEF KernelInv, input, InputIsTaken, BaseIsInRange, WalkIsReduced
  <1>10. EmittedIsDone' /\ MineIsComplete'
    BY <1>0 DEF EmittedIsDone, MineIsComplete, input
  <1> QED
    BY <1>8, <1>9, <1>10 DEF KernelInv

(* run_scalarmul keeps it.                                                 *)
LEMMA EcTestKeeps ==
  ASSUME KernelInv, EcTest
  PROVE  KernelInv'
  <1>0. /\ kernel = "ec_test" /\ pc = "start" /\ pc' = "done" /\ UNCHANGED input
        /\ UNCHANGED <<base, point, it, sub>>
        /\ seed \in 0 .. n - 1 /\ emitted = {}
    BY DEF KernelInv, EcTest, InputIsTaken, WalkIsReduced
  <1>1. PICK key \in Fe : key = Limbs(seed) /\ Value(key) = seed
    <2>1. seed \in Nat /\ seed < Weight[LIMBS]
      BY <1>0, Batches
    <2> QED
      BY <2>1, LimbsValue
  <1>2. PICK xy \in Field \X Field : xy = scalarmul(key)
    BY ScalarmulType, ScalarmulAffineType DEF scalarmul
  <1>3. PICK e : e = Emit(0, key, xy)
    OBVIOUS
  <1>4. emitted' = emitted \cup {e}
    BY <1>0, <1>1, <1>2, <1>3 DEF EcTest, EcThread
  <1>5. /\ e.it = 0 /\ e.key = seed
        /\ e.x \in 0 .. p - 1 /\ e.y \in 0 .. p - 1
    BY <1>1, <1>3, EmitIs
  <1>6. CandidateKey(0) = seed
    <2>1. PICK s \in 0 .. n - 1 : s = seed
      BY <1>0
    <2>2. s + 0 = s /\ s % n = s
      BY Batches, SmallDivision
    <2> QED
      BY <1>0, <2>1, <2>2 DEF CandidateKey
  <1>7. Fresh({e})
    BY <1>0, <1>5, <1>6, Batches DEF Fresh, KeyOf
  <1>8. KeysAreTheirCandidates'
    BY <1>0, <1>4, <1>7, EmittedGrows DEF KernelInv
  <1>9. InputIsTaken' /\ BaseIsInRange' /\ WalkIsReduced'
    BY <1>0 DEF KernelInv, input, InputIsTaken, BaseIsInRange, WalkIsReduced
  <1>10. EmittedIsDone' /\ MineIsComplete'
    BY <1>0 DEF EmittedIsDone, MineIsComplete, input
  <1> QED
    BY <1>8, <1>9, <1>10 DEF KernelInv

(* A test of the arithmetic mines nothing.                                 *)
LEMMA TestKeeps ==
  ASSUME KernelInv, UNCHANGED <<input, mining>>, pc' = "done",
         kernel \notin {"mine", "mine_incremental"}
  PROVE  KernelInv'
  <1>0. UNCHANGED <<base, point, it, sub, emitted>> /\ UNCHANGED input
    BY DEF mining
  <1>1. KeysAreTheirCandidates'
    <2>1. emitted' = emitted \cup {}
      BY <1>0
    <2> QED
      BY <1>0, <2>1, NothingFresh, EmittedGrows DEF KernelInv
  <1>2. InputIsTaken' /\ BaseIsInRange' /\ WalkIsReduced'
    BY <1>0 DEF KernelInv, input, InputIsTaken, BaseIsInRange, WalkIsReduced
  <1>3. EmittedIsDone' /\ MineIsComplete'
    BY <1>0 DEF EmittedIsDone, MineIsComplete, input
  <1> QED
    BY <1>1, <1>2, <1>3 DEF KernelInv

(* A step that changes nothing keeps it.                                   *)
LEMMA StutterKeeps ==
  ASSUME KernelInv, UNCHANGED vars
  PROVE  KernelInv'
  BY DEF KernelInv, vars, input, mining, InputIsTaken, BaseIsInRange, WalkIsReduced,
         SubBatch, KeysAreTheirCandidates, KeyOf, CandidateKey, EmittedIsDone,
         MineIsComplete

(* The inductive invariant of a thread.                                    *)
THEOREM KernelInvariant == Spec => []KernelInv
  <1>1. KernelInv /\ [Next]_vars => KernelInv'
    <2> SUFFICES ASSUME KernelInv, [Next]_vars PROVE KernelInv'
      OBVIOUS
    <2>1. ASSUME FieldTest \/ InverseTest \/ ScalarAddTest PROVE KernelInv'
      <3>1. UNCHANGED <<input, mining>> /\ pc' = "done"
        BY <2>1 DEF FieldTest, InverseTest, ScalarAddTest
      <3>2. kernel \notin {"mine", "mine_incremental"}
        BY <2>1 DEF FieldTest, InverseTest, ScalarAddTest
      <3> QED
        BY <3>1, <3>2, TestKeeps
    <2>2. ASSUME Done PROVE KernelInv'
      BY <2>2, StutterKeeps DEF Done
    <2> QED
      BY <2>1, <2>2, MineOneKeeps, StartKeeps, WalkKeeps, EmitSubBatchKeeps,
         RawStartKeeps, RawWalkKeeps, DeriveTestKeeps, EcTestKeeps, StutterKeeps
      DEF Next
  <1> QED
    BY <1>1, KernelInitially, PTL DEF Spec

(* Every candidate emitted is one of the batch with the key of that        *)
(* candidate, and none is emitted twice.                                   *)
THEOREM KeysAlwaysTheirCandidates == Spec => []KeysAreTheirCandidates
  BY KernelInvariant, PTL DEF KernelInv

(* The half of NoCandidateSkipped that needs no group law: when mine ends  *)
(* it has emitted every digest of the batch that is a key, and no other.   *)
MineSkipsNone ==
  (kernel = "mine" /\ pc = "done") =>
    {<<e.it, e.key>> : e \in emitted} =
      {<<i, CandidateKey(i)>> :
         i \in {j \in 0 .. ITERS - 1 : CandidateKey(j) \in 1 .. n - 1}}

(* mine ends with every key of the batch and no other.                     *)
THEOREM MineNeverSkips == Spec => []MineSkipsNone
  <1>1. KernelInv => MineSkipsNone
    <2> SUFFICES ASSUME KernelInv, kernel = "mine", pc = "done"
                 PROVE  {<<e.it, e.key>> : e \in emitted} =
                          {<<i, CandidateKey(i)>> :
                             i \in {j \in 0 .. ITERS - 1 : CandidateKey(j) \in 1 .. n - 1}}
      BY DEF MineSkipsNone
    <2>1. ASSUME NEW e \in emitted
          PROVE  /\ e.it \in 0 .. ITERS - 1 /\ e.key = CandidateKey(e.it)
                 /\ e.key \in 1 .. n - 1
      BY DEF KernelInv, KeysAreTheirCandidates, KeyOf, MineIsComplete
    <2>2. ASSUME NEW i \in 0 .. ITERS - 1, CandidateKey(i) \in 1 .. n - 1
          PROVE  \E e \in emitted : e.it = i /\ e.key = CandidateKey(i)
      <3>1. it = ITERS
        BY DEF KernelInv, MineIsComplete
      <3>2. PICK e \in emitted : e.it = i
        BY <2>2, <3>1 DEF KernelInv, MineIsComplete
      <3> QED
        BY <2>1, <3>2
    <2> QED
      BY <2>1, <2>2
  <1> QED
    BY <1>1, KernelInvariant, PTL

(* Of a dispatch that binds the pipeline it is asked to compile, the keys  *)
(* are consecutive; the run where they are not binds the other one.        *)
THEOREM ConsecutiveThroughOwnPipeline ==
  ASSUME Pipeline \subseteq {"_pipeline"}
  PROVE  Spec => []KeysAreConsecutive
  <1> DEFINE Own == entry = "mine_incremental" => kernel = "mine_incremental"
  <1>1. Init => Own
    BY DEF Init, Runs
  <1>2. Own /\ [Next]_vars => Own'
    BY DEF Next, vars, input, MineOne, Start, Walk, EmitSubBatch, RawStart, RawWalk,
           DeriveTest, EcTest, FieldTest, InverseTest, ScalarAddTest, Done
  <1>3. Own /\ KernelInv => KeysAreConsecutive
    <2> SUFFICES ASSUME KernelInv, kernel = "mine_incremental", NEW e \in emitted
                 PROVE  e.key = (Derive[seed][counter] + e.it) % n
      BY DEF KeysAreConsecutive
    <2>1. Derive[seed][counter] \in 1 .. n - 1
      BY DEF KernelInv, BaseIsInRange
    <2>2. e.key = CandidateKey(e.it)
      BY DEF KernelInv, KeysAreTheirCandidates, KeyOf
    <2> QED
      BY <2>1, <2>2 DEF CandidateKey
  <1> QED
    BY <1>1, <1>2, <1>3, KernelInvariant, PTL DEF Spec

----------------------------------------------------------------------------
(* The curve: numbers modulo p, points over a denominator, and the chords  *)
(* and tangents of the code against those of the reference                 *)

(* Numbers that are the same modulo p.                                     *)
Same(x, y) == \E k \in Int : x = y + p * k

(* Sameness is an equivalence,                                             *)
LEMMA SameAs ==
  ASSUME NEW x \in Int, NEW y \in Int
  PROVE  /\ Same(x, x)
         /\ Same(x, y) => Same(y, x)
         /\ \A z \in Int : Same(x, y) /\ Same(y, z) => Same(x, z)
  <1>1. PICK m \in Nat : m = p
    BY ModulusNumbers
  <1>2. Same(x, x)
    <2>1. 0 \in Int /\ x = x + m * 0
      OBVIOUS
    <2> QED
      BY <1>1, <2>1 DEF Same
  <1>3. ASSUME Same(x, y) PROVE Same(y, x)
    <2>1. PICK k \in Int : x = y + m * k
      BY <1>1, <1>3 DEF Same
    <2>2. -k \in Int /\ y = x + m * (-k)
      BY <2>1
    <2> QED
      BY <1>1, <2>2 DEF Same
  <1>4. ASSUME NEW z \in Int, Same(x, y), Same(y, z) PROVE Same(x, z)
    <2>1. PICK k \in Int, l \in Int : x = y + m * k /\ y = z + m * l
      BY <1>1, <1>4 DEF Same
    <2>2. k + l \in Int /\ x = z + m * (k + l)
      BY <2>1
    <2> QED
      BY <1>1, <2>2 DEF Same
  <1> QED
    BY <1>2, <1>3, <1>4

(* that sums, differences and products keep,                               *)
LEMMA SameOps ==
  ASSUME NEW x \in Int, NEW y \in Int, NEW u \in Int, NEW v \in Int,
         Same(x, u), Same(y, v)
  PROVE  Same(x + y, u + v) /\ Same(x - y, u - v) /\ Same(x * y, u * v)
  <1>1. PICK m \in Nat : m = p
    BY ModulusNumbers
  <1>2. PICK k \in Int, l \in Int : x = u + m * k /\ y = v + m * l
    BY <1>1 DEF Same
  <1>3. k + l \in Int /\ x + y = (u + v) + m * (k + l)
    BY <1>2
  <1>4. k - l \in Int /\ x - y = (u - v) + m * (k - l)
    BY <1>2
  <1>5. PICK h \in Int : h = u * l + v * k + m * (k * l)
    OBVIOUS
  <1>6. x * y = u * v + m * h
    BY <1>2, <1>5
  <1> QED
    BY <1>1, <1>3, <1>4, <1>6 DEF Same

(* and what a remainder is the same as.                                    *)
LEMMA SameModulo ==
  ASSUME NEW x \in Int
  PROVE  x % p \in 0 .. p - 1 /\ Same(x % p, x) /\ Same(x, x % p)
  <1>1. PICK m \in Nat \ {0} : m = p
    BY ModulusNumbers
  <1>2. x \div m \in Int /\ x % m \in 0 .. m - 1 /\ x = (x % m) + m * (x \div m)
    OBVIOUS
  <1>3. Same(x, x % p)
    BY <1>1, <1>2 DEF Same
  <1> QED
    BY <1>1, <1>2, <1>3, SameAs

(* Reduced numbers that are the same are equal.                            *)
LEMMA SameReduced ==
  ASSUME NEW x \in 0 .. p - 1, NEW y \in 0 .. p - 1, Same(x, y)
  PROVE  x = y
  <1>1. PICK m \in Nat \ {0} : m = p
    BY ModulusNumbers
  <1>2. PICK k \in Int : x = y + m * k
    BY <1>1 DEF Same
  <1>3. x \in 0 .. m - 1 /\ y \in 0 .. m - 1 /\ x = m * k + y
    BY <1>1, <1>2
  <1>4. x % m = y
    BY ONLY <1>3, DivisionIs, m \in Nat \ {0}, k \in Int
  <1>5. x % m = x
    BY ONLY <1>3, SmallDivision, m \in Nat \ {0}
  <1> QED
    BY <1>4, <1>5

(* A remainder decides what it is the same as.                             *)
LEMMA SameIffModulo ==
  ASSUME NEW x \in Int, NEW y \in Int
  PROVE  Same(x, y) <=> x % p = y % p
  <1>1. x % p \in Int /\ y % p \in Int
    BY SameModulo, ModulusNumbers
  <1>2. ASSUME Same(x, y) PROVE x % p = y % p
    <2>1. Same(x % p, y)
      BY <1>1, <1>2, SameModulo, SameAs
    <2>2. Same(x % p, y % p)
      BY <1>1, <2>1, SameModulo, SameAs
    <2> QED
      BY <2>2, SameModulo, SameReduced
  <1>3. ASSUME x % p = y % p PROVE Same(x, y)
    BY <1>1, <1>3, SameModulo, SameAs
  <1> QED
    BY <1>2, <1>3

(* p divides no product but by a factor.                                   *)
LEMMA SameZero ==
  ASSUME NEW x \in Int, NEW y \in Int, Same(x * y, 0)
  PROVE  Same(x, 0) \/ Same(y, 0)
  <1>1. PICK m \in Nat \ {0}, u \in 0 .. p - 1, v \in 0 .. p - 1 :
          m = p /\ u = x % p /\ v = y % p
    BY SameModulo, ModulusNumbers
  <1>2. Same(x, u) /\ Same(y, v) /\ u \in Int /\ v \in Int
    <2>1. u \in Int /\ v \in Int
      BY <1>1
    <2> QED
      BY <1>1, <2>1, SameModulo
  <1>3. Same(u * v, 0)
    <2>1. Same(x * y, u * v)
      BY <1>2, SameOps
    <2>2. PICK i \in Int, j \in Int, o \in Int : i = x * y /\ j = u * v /\ o = 0
      BY <1>2
    <2>3. Same(j, i) /\ Same(i, o)
      BY <2>1, <2>2, SameAs
    <2> QED
      BY <2>2, <2>3, SameAs
  <1>4. (u * v) % p = 0
    <2>1. 0 % m = 0
      BY SmallDivision
    <2>2. PICK j \in Int : j = u * v
      BY <1>2
    <2>3. j % p = 0 % p
      BY <1>3, <2>2, SameIffModulo
    <2> QED
      BY <1>1, <2>1, <2>2, <2>3
  <1>5. u = 0 \/ v = 0
    <2> SUFFICES ASSUME u # 0, v # 0 PROVE FALSE
      OBVIOUS
    <2>1. u \in 1 .. p - 1 /\ v \in 1 .. p - 1
      BY <1>1
    <2> QED
      BY <1>4, <2>1, PrimeAssumption
  <1> QED
    BY <1>2, <1>5

(* A factor that is not 0 may be left out.                                 *)
LEMMA SameFactor ==
  ASSUME NEW x \in Int, NEW y \in Int, NEW z \in Int,
         Same(x * z, y * z), ~Same(z, 0)
  PROVE  Same(x, y)
  <1>1. PICK m \in Nat : m = p
    BY ModulusNumbers
  <1>2. PICK k \in Int : x * z = y * z + m * k
    BY <1>1 DEF Same
  <1>3. (x - y) * z = 0 + m * k
    BY <1>2
  <1>4. Same((x - y) * z, 0)
    BY <1>1, <1>3 DEF Same
  <1>5. PICK d \in Int : d = x - y
    OBVIOUS
  <1>6. Same(d, 0)
    BY <1>4, <1>5, SameZero
  <1>7. PICK l \in Int : d = 0 + m * l
    BY <1>1, <1>6 DEF Same
  <1>8. x = y + m * l
    BY <1>5, <1>7
  <1> QED
    BY <1>1, <1>8 DEF Same

(* The reduced word w is x modulo p.                                       *)
Is(w, x) == w \in Field /\ Same(Value(w), x)

(* A word is its value, and 0 only if it is zero.                          *)
LEMMA IsValue ==
  ASSUME NEW a \in Field
  PROVE  /\ Value(a) \in Int /\ Is(a, Value(a))
         /\ \A x \in Int : Is(a, x) => (fe_is_zero(a) <=> Same(x, 0))
  <1>1. PICK v \in 0 .. p - 1 : v = Value(a)
    BY FieldValues
  <1>2. PICK o \in 0 .. p - 1 : o = 0
    BY ModulusNumbers
  <1>3. v \in Int /\ o \in Int /\ (fe_is_zero(a) <=> v = o)
    BY <1>1, <1>2, ZeroWords, FieldValues
  <1>4. Is(a, v)
    BY <1>1, <1>3, SameAs DEF Is
  <1>5. ASSUME NEW x \in Int, Is(a, x) PROVE fe_is_zero(a) <=> Same(x, o)
    <2>1. Same(v, x)
      BY <1>1, <1>5 DEF Is
    <2>2. ASSUME v = o PROVE Same(x, o)
      BY <1>3, <2>1, <2>2, SameAs
    <2>3. ASSUME Same(x, o) PROVE v = o
      <3>1. Same(v, o)
        BY <1>3, <2>1, <2>3, SameAs
      <3> QED
        BY <3>1, SameReduced
    <2> QED
      BY <1>3, <2>2, <2>3
  <1> QED
    BY <1>1, <1>2, <1>3, <1>4, <1>5

(* The operations of the field do what they are named for,                 *)
LEMMA IsOps ==
  ASSUME NEW a, NEW b, NEW x \in Int, NEW y \in Int, Is(a, x), Is(b, y)
  PROVE  /\ Is(fe_add(a, b), x + y)
         /\ Is(fe_sub(a, b), x - y)
         /\ Is(fe_mul(a, b), x * y)
  <1>1. a \in Field /\ b \in Field /\ a \in Fe /\ b \in Fe
    BY DEF Is, Field
  <1>2. PICK v \in Int, w \in Int : v = Value(a) /\ w = Value(b)
    BY <1>1, IsValue
  <1>3. Same(v, x) /\ Same(w, y)
    BY <1>2 DEF Is
  <1>4. PICK s \in Int, d \in Int, t \in Int : s = x + y /\ d = x - y /\ t = x * y
    OBVIOUS
  <1>5. PICK i \in Int, j \in Int, k \in Int : i = v + w /\ j = v - w /\ k = v * w
    OBVIOUS
  <1>6. Same(i, s) /\ Same(j, d) /\ Same(k, t)
    BY <1>3, <1>4, <1>5, SameOps
  <1>7. /\ fe_add(a, b) \in Field /\ Value(fe_add(a, b)) = i % p
        /\ fe_sub(a, b) \in Field /\ Value(fe_sub(a, b)) = j % p
        /\ fe_mul(a, b) \in Field /\ Value(fe_mul(a, b)) = k % p
    BY <1>1, <1>2, <1>5, FeAddIs, FeSubIs, FeMulIs
  <1>8. ASSUME NEW c \in Int, NEW e \in Int, Same(c, e) PROVE Same(c % p, e)
    <2>1. c % p \in Int
      BY SameModulo, ModulusNumbers
    <2> QED
      BY <1>8, <2>1, SameModulo, SameAs
  <1>9. Same(i % p, s) /\ Same(j % p, d) /\ Same(k % p, t)
    BY <1>6, <1>8
  <1> QED
    BY <1>4, <1>7, <1>9 DEF Is

(* twice and squared,                                                      *)
LEMMA IsTwiceSquare ==
  ASSUME NEW a, NEW x \in Int, Is(a, x)
  PROVE  Is(Twice(a), x + x) /\ Is(Square(a), x * x)
  BY IsOps DEF Twice, Square

(* and a word is whatever is the same.                                     *)
LEMMA IsSame ==
  ASSUME NEW a, NEW x \in Int, NEW y \in Int, Is(a, x), Same(x, y)
  PROVE  Is(a, y)
  BY IsValue, SameAs DEF Is

(* A stands for the point (x, y): X / Z^2 and Y / Z^3.                     *)
IsAt(A, x, y, z) ==
  /\ Is(A.X, x * (z * z)) /\ Is(A.Y, y * (z * z * z)) /\ Is(A.Z, z)

Finite(A, x, y) == \E z \in Int : IsAt(A, x, y, z) /\ ~Same(z, 0)

(* The point (x, y) and a slope over the powers of Z,                      *)
LineNumbers(x, y, l, q, j, k, h) ==
  j = x * (q * q) /\ k = l * q /\ h = y * (q * q * q)

(* and the mirrored third point of that line.                              *)
ThirdNumbers(x, y, l, a, b, q, i) ==
  b = l * (x - a) - y /\ i = a * (q * q)

(* The end of both formulas.                                               *)
LEMMA OnLineIs ==
  ASSUME NEW x \in Int, NEW y \in Int, NEW l \in Int, NEW q \in Int,
         NEW a \in Int, NEW b \in Int,
         NEW i \in Int, NEW j \in Int, NEW k \in Int, NEW h \in Int,
         LineNumbers(x, y, l, q, j, k, h), ThirdNumbers(x, y, l, a, b, q, i),
         NEW X3, NEW V, NEW R, NEW Y1, NEW Z,
         Is(X3, i), Is(V, j), Is(R, k), Is(Y1, h), Is(Z, q)
  PROVE  IsAt(OnLine(X3, V, R, Y1, Z), a, b, q)
  <1>1. PICK d \in Int, e \in Int, f \in Int : d = j - i /\ e = k * d /\ f = e - h
    OBVIOUS
  <1>2. Is(fe_sub(V, X3), d)
    BY <1>1, IsOps
  <1>3. Is(fe_mul(R, fe_sub(V, X3)), e)
    BY <1>1, <1>2, IsOps
  <1>4. Is(fe_sub(fe_mul(R, fe_sub(V, X3)), Y1), f)
    BY <1>1, <1>3, IsOps
  <1>5. f = b * (q * q * q) /\ i = a * (q * q)
    BY <1>1 DEF LineNumbers, ThirdNumbers
  <1> QED
    BY <1>4, <1>5 DEF OnLine, Point, IsAt

(* l is the slope of the tangent at (x, y).                                *)
IsTangent(l, x, y) == Same((2 * y) * l, 3 * (x * x))

(* The numbers that j_double computes of X and Y.                          *)
DoublingNumbers(x, y, z, X, Y, q, d, e, w) ==
  /\ X = x * (z * z) /\ Y = y * (z * z * z) /\ q = (Y + Y) * z
  /\ d = 2 * ((X + Y * Y) * (X + Y * Y) - X * X - (Y * Y) * (Y * Y))
  /\ e = 3 * (X * X)
  /\ w = 8 * ((Y * Y) * (Y * Y))

(* With q for the new Z they are those of the tangent.                     *)
LEMMA TangentNumbers ==
  ASSUME NEW x \in Int, NEW y \in Int, NEW z \in Int, NEW l \in Int,
         IsTangent(l, x, y),
         NEW X \in Int, NEW Y \in Int, NEW q \in Int,
         NEW d \in Int, NEW e \in Int, NEW w \in Int,
         DoublingNumbers(x, y, z, X, Y, q, d, e, w)
  PROVE  \E k \in Int : Same(e, k) /\ LineNumbers(x, y, l, q, d, k, w)
  <1>1. d = x * (q * q)
    <2>1. d = 4 * (X * (Y * Y))
      BY DEF DoublingNumbers
    <2>2. 4 * (X * (Y * Y)) = x * (q * q)
      BY DEF DoublingNumbers
    <2> QED
      BY <2>1, <2>2
  <1>2. w = y * (q * q * q)
    BY DEF DoublingNumbers
  <1>3. Same(e, l * q)
    <2>1. PICK m \in Nat : m = p
      BY ModulusNumbers
    <2>2. PICK k \in Int : (2 * y) * l = 3 * (x * x) + m * k
      BY <2>1 DEF Same, IsTangent
    <2>3. PICK h \in Int : h = -(k * (z * z * z * z))
      OBVIOUS
    <2>4. e = l * q + m * h
      BY <2>2, <2>3 DEF DoublingNumbers
    <2> QED
      BY <2>1, <2>4 DEF Same
  <1>4. PICK k \in Int : k = l * q
    OBVIOUS
  <1> QED
    BY <1>1, <1>2, <1>3, <1>4 DEF LineNumbers

(* Doubling a finite point takes the tangent.                              *)
LEMMA DoubledIs ==
  ASSUME NEW x \in Int, NEW y \in Int, NEW z \in Int, NEW l \in Int,
         IsTangent(l, x, y),
         NEW A, IsAt(A, x, y, z), ~fe_is_zero(A.Z),
         NEW a \in Int, NEW b \in Int, a = l * l - x - x, b = l * (x - a) - y
  PROVE  IsAt(j_double(A), a, b, 2 * ((y * (z * z * z)) * z))
  <1>1. PICK X \in Int, Y \in Int : X = x * (z * z) /\ Y = y * (z * z * z)
    OBVIOUS
  <1>2. PICK q \in Int : q = (Y + Y) * z
    OBVIOUS
  <1>3. Is(A.X, X) /\ Is(A.Y, Y) /\ Is(A.Z, z)
    BY <1>1 DEF IsAt
  <1>4. PICK i \in Int, j \in Int, w \in Int : i = X * X /\ j = Y * Y /\ w = j * j
    OBVIOUS
  <1>5. PICK x2, y2, y4 : x2 = Square(A.X) /\ y2 = Square(A.Y) /\ y4 = Square(y2)
    OBVIOUS
  <1>6. Is(x2, i) /\ Is(y2, j) /\ Is(y4, w)
    BY <1>3, <1>4, <1>5, IsTwiceSquare
  <1>7. PICK g \in Int, h \in Int, f \in Int, s \in Int, t \in Int :
          g = X + j /\ h = g * g /\ f = h - i /\ s = f - w /\ t = s + s
    OBVIOUS
  <1>8. PICK d : d = Twice(fe_sub(fe_sub(Square(fe_add(A.X, y2)), x2), y4))
    OBVIOUS
  <1>9. Is(d, t)
    <2>1. Is(fe_add(A.X, y2), g)
      BY <1>3, <1>6, <1>7, IsOps
    <2>2. Is(Square(fe_add(A.X, y2)), h)
      BY <1>7, <2>1, IsTwiceSquare
    <2>3. Is(fe_sub(Square(fe_add(A.X, y2)), x2), f)
      BY <1>6, <1>7, <2>2, IsOps
    <2>4. Is(fe_sub(fe_sub(Square(fe_add(A.X, y2)), x2), y4), s)
      BY <1>6, <1>7, <2>3, IsOps
    <2> QED
      BY <1>7, <1>8, <2>4, IsTwiceSquare
  <1>10. PICK e : e = fe_add(Twice(x2), x2)
    OBVIOUS
  <1>11. PICK u \in Int : u = (i + i) + i
    OBVIOUS
  <1>12. Is(e, u)
    <2>1. PICK o \in Int : o = i + i
      OBVIOUS
    <2>2. Is(Twice(x2), o)
      BY <1>6, <2>1, IsTwiceSquare
    <2> QED
      BY <1>6, <1>10, <1>11, <2>1, <2>2, IsOps
  <1>13. PICK y8 : y8 = Twice(Twice(Twice(y4)))
    OBVIOUS
  <1>14. PICK o2 \in Int, o4 \in Int, v \in Int : o2 = w + w /\ o4 = o2 + o2 /\ v = o4 + o4
    OBVIOUS
  <1>15. Is(y8, v)
    <2>1. Is(Twice(y4), o2)
      BY <1>6, <1>14, IsTwiceSquare
    <2>2. Is(Twice(Twice(y4)), o4)
      BY <1>14, <2>1, IsTwiceSquare
    <2> QED
      BY <1>13, <1>14, <2>2, IsTwiceSquare
  <1>16. Is(fe_mul(Twice(A.Y), A.Z), q)
    <2>1. PICK o \in Int : o = Y + Y
      OBVIOUS
    <2>2. Is(Twice(A.Y), o)
      BY <1>3, <2>1, IsTwiceSquare
    <2> QED
      BY <1>2, <1>3, <2>1, <2>2, IsOps
  <1>17. PICK k \in Int : Same(u, k) /\ LineNumbers(x, y, l, q, t, k, v)
    <2>1. t = 2 * ((X + Y * Y) * (X + Y * Y) - X * X - (Y * Y) * (Y * Y))
      BY <1>4, <1>7
    <2>2. u = 3 * (X * X) /\ v = 8 * ((Y * Y) * (Y * Y))
      BY <1>4, <1>11, <1>14
    <2>3. DoublingNumbers(x, y, z, X, Y, q, t, u, v)
      BY <1>1, <1>2, <2>1, <2>2 DEF DoublingNumbers
    <2> QED
      BY <2>3, TangentNumbers
  <1>18. PICK o \in Int : o = a * (q * q)
    OBVIOUS
  <1>19. Is(e, k)
    BY <1>12, <1>17, IsSame
  <1>20. Is(fe_sub(Square(e), Twice(d)), o)
    <2>1. PICK c \in Int, r \in Int, f1 \in Int : c = k * k /\ r = t + t /\ f1 = c - r
      OBVIOUS
    <2>2. Is(Square(e), c) /\ Is(Twice(d), r)
      BY <1>9, <1>19, <2>1, IsTwiceSquare
    <2>3. Is(fe_sub(Square(e), Twice(d)), f1)
      BY <2>1, <2>2, IsOps
    <2>4. f1 = o
      BY <1>17, <1>18, <2>1 DEF LineNumbers
    <2> QED
      BY <2>3, <2>4
  <1>21. IsAt(Tangent(A, d, e, y4), a, b, q)
    <2>1. ThirdNumbers(x, y, l, a, b, q, o)
      BY <1>18 DEF ThirdNumbers
    <2>2. PICK x3, z3 : x3 = fe_sub(Square(e), Twice(d)) /\ z3 = fe_mul(Twice(A.Y), A.Z)
      OBVIOUS
    <2>3. Is(x3, o) /\ Is(z3, q)
      BY <1>16, <1>20, <2>2
    <2>4. IsAt(OnLine(x3, d, e, y8, z3), a, b, q)
      BY <1>9, <1>15, <1>17, <1>19, <2>1, <2>3, OnLineIs
    <2> QED
      BY <1>13, <2>2, <2>4 DEF Tangent
  <1>22. j_double(A) = Tangent(A, d, e, y4)
    BY <1>5, <1>8, <1>10 DEF j_double, Doubled
  <1>23. q = 2 * ((y * (z * z * z)) * z)
    BY <1>1, <1>2
  <1> QED
    BY <1>21, <1>22, <1>23

(* l is the slope of the line through (x, y) and (u, v).                   *)
IsSecant(l, x, y, u, v) == Same(l * (u - x), v - y)

(* Coordinates over the common denominator d of two points.                *)
CommonNumbers(z, w, d) == d = z * w
OverCommon(x, y, d, i, j) == i = x * (d * d) /\ j = y * (d * d * d)

(* Two finite points are brought over a common denominator.                *)
LEMMA ScaledIs ==
  ASSUME NEW x \in Int, NEW y \in Int, NEW z \in Int,
         NEW u \in Int, NEW v \in Int, NEW w \in Int,
         NEW A, NEW B, IsAt(A, x, y, z), IsAt(B, u, v, w),
         NEW d \in Int, NEW i \in Int, NEW j \in Int, NEW k \in Int, NEW h \in Int,
         CommonNumbers(z, w, d), OverCommon(x, y, d, i, j), OverCommon(u, v, d, k, h),
         NEW q, q = Scaled(A, B, Square(A.Z), Square(B.Z))
  PROVE  /\ Is(q.u1, i) /\ Is(q.s1, j) /\ Is(q.u2, k) /\ Is(q.s2, h)
         /\ Is(q.z, d + d)
  <1>1. PICK zz \in Int, ww \in Int, xz \in Int, yz \in Int, uw \in Int, vw \in Int :
          /\ zz = z * z /\ ww = w * w /\ xz = x * zz /\ yz = y * (z * z * z)
          /\ uw = u * ww /\ vw = v * (w * w * w)
    OBVIOUS
  <1>2. /\ Is(A.X, xz) /\ Is(A.Y, yz) /\ Is(A.Z, z)
        /\ Is(B.X, uw) /\ Is(B.Y, vw) /\ Is(B.Z, w)
    BY <1>1 DEF IsAt
  <1>3. PICK zz1, zz2 : zz1 = Square(A.Z) /\ zz2 = Square(B.Z)
    OBVIOUS
  <1>4. Is(zz1, zz) /\ Is(zz2, ww)
    BY <1>1, <1>2, <1>3, IsTwiceSquare
  <1>5. /\ q.u1 = fe_mul(A.X, zz2) /\ q.s1 = fe_mul(fe_mul(A.Y, B.Z), zz2)
        /\ q.u2 = fe_mul(B.X, zz1) /\ q.s2 = fe_mul(fe_mul(B.Y, A.Z), zz1)
        /\ q.z = fe_sub(fe_sub(Square(fe_add(A.Z, B.Z)), zz1), zz2)
    BY <1>3 DEF Scaled
  <1>6. PICK m \in Int, o \in Int, s \in Int, t \in Int :
          /\ m = yz * w /\ o = vw * z
          /\ s = z + w /\ t = s * s
    OBVIOUS
  <1>7. PICK f \in Int, g \in Int : f = t - zz /\ g = f - ww
    OBVIOUS
  <1>8. xz * ww = i /\ m * ww = j
    BY <1>1, <1>6 DEF CommonNumbers, OverCommon
  <1>9. uw * zz = k /\ o * zz = h
    BY <1>1, <1>6 DEF CommonNumbers, OverCommon
  <1>10. g = d + d
    BY <1>1, <1>6, <1>7 DEF CommonNumbers
  <1>11. Is(q.u1, i) /\ Is(q.u2, k)
    <2>1. Is(fe_mul(A.X, zz2), xz * ww)
      BY <1>2, <1>4, IsOps
    <2>2. Is(fe_mul(B.X, zz1), uw * zz)
      BY <1>2, <1>4, IsOps
    <2> QED
      BY <1>5, <1>8, <1>9, <2>1, <2>2
  <1>12. Is(q.s1, j) /\ Is(q.s2, h)
    <2>1. Is(fe_mul(A.Y, B.Z), m) /\ Is(fe_mul(B.Y, A.Z), o)
      BY <1>2, <1>6, IsOps
    <2>2. Is(fe_mul(fe_mul(A.Y, B.Z), zz2), m * ww)
      BY <1>4, <2>1, IsOps
    <2>3. Is(fe_mul(fe_mul(B.Y, A.Z), zz1), o * zz)
      BY <1>4, <2>1, IsOps
    <2> QED
      BY <1>5, <1>8, <1>9, <2>2, <2>3
  <1>13. Is(q.z, g)
    <2>1. Is(fe_add(A.Z, B.Z), s)
      BY <1>2, <1>6, IsOps
    <2>2. Is(Square(fe_add(A.Z, B.Z)), t)
      BY <1>6, <2>1, IsTwiceSquare
    <2>3. Is(fe_sub(Square(fe_add(A.Z, B.Z)), zz1), f)
      BY <1>4, <1>7, <2>2, IsOps
    <2> QED
      BY <1>4, <1>5, <1>7, <2>3, IsOps
  <1> QED
    BY <1>10, <1>11, <1>12, <1>13

(* The numbers that AddFinite computes of them.                            *)
ChordNumbers(d, i, j, k, h, e, q, s, c, r, f, g) ==
  /\ e = k - i /\ q = (d + d) * e /\ s = (e + e) * (e + e) /\ c = e * s
  /\ r = 2 * (h - j) /\ f = i * s /\ g = 2 * (j * c)

(* What is left of the third point.                                        *)
LeftOver(x, u, q, c) == c = (u - x) * (q * q)

(* With q for the new Z they are those of the secant.                      *)
LEMMA SecantNumbers ==
  ASSUME NEW x \in Int, NEW y \in Int, NEW u \in Int, NEW v \in Int, NEW l \in Int,
         IsSecant(l, x, y, u, v),
         NEW d \in Int, NEW i \in Int, NEW j \in Int, NEW k \in Int, NEW h \in Int,
         OverCommon(x, y, d, i, j), OverCommon(u, v, d, k, h),
         NEW e \in Int, NEW q \in Int, NEW s \in Int, NEW c \in Int,
         NEW r \in Int, NEW f \in Int, NEW g \in Int,
         ChordNumbers(d, i, j, k, h, e, q, s, c, r, f, g)
  PROVE  \E o \in Int : /\ Same(r, o) /\ LineNumbers(x, y, l, q, f, o, g)
                        /\ LeftOver(x, u, q, c)
  <1>1. e = u * (d * d) - x * (d * d) /\ q = (d + d) * e
    BY DEF ChordNumbers, OverCommon
  <1>2. f = x * (q * q)
    BY <1>1 DEF ChordNumbers, OverCommon
  <1>3. c = (u - x) * (q * q)
    BY <1>1 DEF ChordNumbers
  <1>4. g = y * (q * q * q)
    BY <1>1 DEF ChordNumbers, OverCommon
  <1>5. Same(r, l * q)
    <2>1. PICK m \in Nat : m = p
      BY ModulusNumbers
    <2>2. PICK t \in Int : l * (u - x) = (v - y) + m * t
      BY <2>1 DEF Same, IsSecant
    <2>3. PICK b \in Int : b = -(2 * (t * (d * d * d)))
      OBVIOUS
    <2>4. l * q = 2 * (v * (d * d * d) - y * (d * d * d)) + m * (2 * (t * (d * d * d)))
      BY <1>1, <2>2
    <2>5. r = 2 * (v * (d * d * d) - y * (d * d * d))
      BY DEF ChordNumbers, OverCommon
    <2>6. r = l * q + m * b
      BY <2>3, <2>4, <2>5
    <2> QED
      BY <2>1, <2>6 DEF Same
  <1>6. PICK o \in Int : o = l * q
    OBVIOUS
  <1> QED
    BY <1>2, <1>3, <1>4, <1>5, <1>6 DEF LineNumbers, LeftOver

(* The third point of the line of slope l, mirrored.                       *)
IsThird(x, y, u, l, a, b) == a = l * l - x - u /\ b = l * (x - a) - y

(* Twice the denominator, and the new Z.                                   *)
TwiceOver(d, dd) == dd = d + d
NewZ(i, k, d, e, z) == e = k - i /\ z = (d + d) * e

(* What AddFinite is given, and the difference of the x.                   *)
IsCommon(q, i, j, k, h, dd) ==
  Is(q.u1, i) /\ Is(q.s1, j) /\ Is(q.u2, k) /\ Is(q.s2, h) /\ Is(q.z, dd)

Across(q) == fe_sub(q.u2, q.u1)

(* All the numbers of a chord.                                             *)
IsChord(x, y, u, v, l, a, b, d, dd, i, j, k, h, e, z) ==
  /\ IsSecant(l, x, y, u, v) /\ IsThird(x, y, u, l, a, b) /\ NewZ(i, k, d, e, z)
  /\ TwiceOver(d, dd) /\ OverCommon(x, y, d, i, j) /\ OverCommon(u, v, d, k, h)

(* Two points with different x are added by the chord.                     *)
LEMMA ChordedIs ==
  ASSUME NEW x \in Int, NEW y \in Int, NEW u \in Int, NEW v \in Int, NEW l \in Int,
         NEW a \in Int, NEW b \in Int, NEW d \in Int, NEW dd \in Int,
         NEW i \in Int, NEW j \in Int, NEW k \in Int, NEW h \in Int,
         NEW e \in Int, NEW z \in Int,
         IsChord(x, y, u, v, l, a, b, d, dd, i, j, k, h, e, z),
         NEW q, IsCommon(q, i, j, k, h, dd)
  PROVE  IsAt(Chorded(q, Across(q), Square(Twice(Across(q)))), a, b, z)
  <1>0. Is(q.u1, i) /\ Is(q.s1, j) /\ Is(q.u2, k) /\ Is(q.s2, h) /\ Is(q.z, dd)
    BY DEF IsCommon
  <1>1. PICK H : H = Across(q)
    OBVIOUS
  <1>2. e = k - i /\ dd = d + d /\ z = dd * e
    BY DEF IsChord, NewZ, TwiceOver
  <1>3. PICK t \in Int, s \in Int, c \in Int, f \in Int :
          t = e + e /\ s = t * t /\ c = e * s /\ f = i * s
    OBVIOUS
  <1>4. PICK m \in Int, r \in Int, jc \in Int, g \in Int :
          m = h - j /\ r = m + m /\ jc = j * c /\ g = jc + jc
    OBVIOUS
  <1>5. PICK I, J, V, R, Y1, Z :
          /\ I = Square(Twice(H)) /\ J = fe_mul(H, I) /\ V = fe_mul(q.u1, I)
          /\ R = Twice(fe_sub(q.s2, q.s1)) /\ Y1 = Twice(fe_mul(q.s1, J))
          /\ Z = fe_mul(q.z, H)
    OBVIOUS
  <1>6. Is(H, e)
    BY <1>0, <1>2, <1>1, IsOps DEF Across
  <1>7. Is(I, s)
    <2>1. Is(Twice(H), t)
      BY <1>3, <1>6, IsTwiceSquare
    <2> QED
      BY <1>3, <1>5, <2>1, IsTwiceSquare
  <1>8. Is(J, c) /\ Is(V, f)
    BY <1>0, <1>3, <1>5, <1>6, <1>7, IsOps
  <1>9. Is(R, r)
    <2>1. Is(fe_sub(q.s2, q.s1), m)
      BY <1>0, <1>4, IsOps
    <2> QED
      BY <1>4, <1>5, <2>1, IsTwiceSquare
  <1>10. Is(Y1, g)
    <2>1. Is(fe_mul(q.s1, J), jc)
      BY <1>0, <1>4, <1>8, IsOps
    <2> QED
      BY <1>4, <1>5, <2>1, IsTwiceSquare
  <1>11. Is(Z, z)
    BY <1>0, <1>2, <1>5, <1>6, IsOps
  <1>12. PICK o \in Int : /\ Same(r, o) /\ LineNumbers(x, y, l, z, f, o, g)
                          /\ LeftOver(x, u, z, c)
    <2>1. ChordNumbers(d, i, j, k, h, e, z, s, c, r, f, g)
      BY <1>3, <1>4, <1>2 DEF ChordNumbers
    <2> QED
      BY <2>1, SecantNumbers DEF IsChord
  <1>13. Is(R, o)
    BY <1>9, <1>12, IsSame
  <1>14. PICK w \in Int : w = a * (z * z)
    OBVIOUS
  <1>15. Is(fe_sub(fe_sub(Square(R), J), Twice(V)), w)
    <2>1. PICK oo \in Int, n1 \in Int, ff \in Int, n2 \in Int :
            oo = o * o /\ n1 = oo - c /\ ff = f + f /\ n2 = n1 - ff
      OBVIOUS
    <2>2. Is(Square(R), oo) /\ Is(Twice(V), ff)
      BY <1>8, <1>13, <2>1, IsTwiceSquare
    <2>3. Is(fe_sub(Square(R), J), n1)
      BY <1>8, <2>1, <2>2, IsOps
    <2>4. Is(fe_sub(fe_sub(Square(R), J), Twice(V)), n2)
      BY <2>1, <2>2, <2>3, IsOps
    <2>5. n2 = w
      <3>1. o = l * z /\ f = x * (z * z) /\ c = (u - x) * (z * z)
        BY <1>12 DEF LineNumbers, LeftOver
      <3>2. a = l * l - x - u
        BY DEF IsChord, IsThird
      <3>3. n2 = o * o - c - (f + f)
        BY <2>1
      <3>4. n2 = (l * l - x - u) * (z * z)
        BY ONLY <3>1, <3>3, x \in Int, u \in Int, l \in Int, z \in Int, f \in Int,
                c \in Int, o \in Int, n2 \in Int
      <3> QED
        BY <1>14, <3>2, <3>4
    <2> QED
      BY <2>4, <2>5
  <1>16. IsAt(Secant(q, H, R, J, V), a, b, z)
    <2>1. ThirdNumbers(x, y, l, a, b, z, w)
      BY <1>14 DEF ThirdNumbers, IsChord, IsThird
    <2>2. PICK x3 : x3 = fe_sub(fe_sub(Square(R), J), Twice(V))
      OBVIOUS
    <2>3. Is(x3, w)
      BY <1>15, <2>2
    <2>4. IsAt(OnLine(x3, V, R, Y1, Z), a, b, z)
      BY <1>8, <1>10, <1>11, <1>12, <1>13, <2>1, <2>3, OnLineIs
    <2> QED
      BY <1>5, <2>2, <2>4 DEF Secant
  <1>17. Chorded(q, H, Square(Twice(H))) = Secant(q, H, R, J, V)
    BY <1>5 DEF Chorded
  <1> QED
    BY <1>16, <1>17, <1>1

(* Words are equal if what they are is the same.                           *)
LEMMA IsEqual ==
  ASSUME NEW a, NEW b, NEW x \in Int, NEW y \in Int, Is(a, x), Is(b, y)
  PROVE  a = b <=> Same(x, y)
  <1>1. PICK v \in 0 .. p - 1, w \in 0 .. p - 1 : v = Value(a) /\ w = Value(b)
    BY FieldValues DEF Is
  <1>2. v \in Int /\ w \in Int /\ Same(v, x) /\ Same(w, y)
    BY <1>1 DEF Is
  <1>3. ASSUME a = b PROVE Same(x, y)
    BY <1>1, <1>2, <1>3, SameAs
  <1>4. ASSUME Same(x, y) PROVE a = b
    <2>1. Same(v, y)
      BY <1>2, <1>4, SameAs
    <2>2. Same(v, w)
      BY <1>2, <2>1, SameAs
    <2>3. v = w
      BY <2>2, SameReduced
    <2> QED
      BY <1>1, <2>3, AtLeastIs, FieldValues DEF Is
  <1> QED
    BY <1>3, <1>4

(* p is odd, as far as it matters.                                         *)
LEMMA TwiceNotZero ==
  ASSUME NEW d \in Int, ~Same(d, 0)
  PROVE  ~Same(d + d, 0)
  <1> SUFFICES ASSUME Same(d + d, 0) PROVE FALSE
    OBVIOUS
  <1>1. PICK two \in 0 .. p - 1, o \in 0 .. p - 1 : two = 2 /\ o = 0
    BY ModulusWords, ModulusNumbers, Constants
  <1>2. d + d = two * d /\ two \in Int
    BY <1>1
  <1>3. Same(two, o) \/ Same(d, 0)
    BY <1>1, <1>2, SameZero
  <1> QED
    BY <1>1, <1>3, SameReduced

(* A finite point is not at infinity,                                      *)
LEMMA FiniteIs ==
  ASSUME NEW A, NEW x \in Int, NEW y \in Int, Finite(A, x, y)
  PROVE  A.Z \in Field /\ ~fe_is_zero(A.Z)
  BY IsValue DEF Finite, IsAt, Is

(* and stays where it is when its coordinates are taken modulo p.          *)
LEMMA FiniteSame ==
  ASSUME NEW A, NEW x \in Int, NEW y \in Int, NEW u \in Int, NEW v \in Int,
         Finite(A, x, y), Same(x, u), Same(y, v)
  PROVE  Finite(A, u, v)
  <1>1. PICK z \in Int : IsAt(A, x, y, z) /\ ~Same(z, 0)
    BY DEF Finite
  <1>2. PICK zz \in Int, zzz \in Int : zz = z * z /\ zzz = z * z * z
    OBVIOUS
  <1>3. PICK i \in Int, j \in Int, k \in Int, h \in Int :
          i = x * zz /\ j = y * zzz /\ k = u * zz /\ h = v * zzz
    OBVIOUS
  <1>4. Same(i, k) /\ Same(j, h)
    BY <1>3, SameAs, SameOps
  <1>5. Is(A.X, i) /\ Is(A.Y, j) /\ Is(A.Z, z)
    BY <1>1, <1>2, <1>3 DEF IsAt
  <1>6. Is(A.X, k) /\ Is(A.Y, h)
    BY <1>4, <1>5, IsSame
  <1>7. IsAt(A, u, v, z)
    BY <1>2, <1>3, <1>5, <1>6 DEF IsAt
  <1> QED
    BY <1>1, <1>7 DEF Finite

(* Over a common denominator points still differ in what they differ.      *)
LEMMA CommonSame ==
  ASSUME NEW x \in Int, NEW y \in Int, NEW u \in Int, NEW v \in Int,
         NEW d \in Int, NEW i \in Int, NEW j \in Int, NEW k \in Int, NEW h \in Int,
         OverCommon(x, y, d, i, j), OverCommon(u, v, d, k, h), ~Same(d, 0)
  PROVE  /\ Same(i, k) <=> Same(x, u)
         /\ Same(j, h) <=> Same(y, v)
  <1>1. PICK dd \in Int, ddd \in Int : dd = d * d /\ ddd = dd * d
    OBVIOUS
  <1>2. ~Same(dd, 0)
    BY <1>1, SameZero
  <1>3. ~Same(ddd, 0)
    BY <1>1, <1>2, SameZero
  <1>4. i = x * dd /\ k = u * dd /\ j = y * ddd /\ h = v * ddd
    BY <1>1 DEF OverCommon
  <1>5. Same(i, k) <=> Same(x, u)
    BY <1>2, <1>4, SameFactor, SameOps, SameAs
  <1>6. Same(j, h) <=> Same(y, v)
    BY <1>3, <1>4, SameFactor, SameOps, SameAs
  <1> QED
    BY <1>5, <1>6

(* Both points finite: AddFinite takes the chord,                          *)
LEMMA AddedByChord ==
  ASSUME NEW x \in Int, NEW y \in Int, NEW u \in Int, NEW v \in Int, NEW l \in Int,
         IsSecant(l, x, y, u, v), ~Same(x, u),
         NEW A, NEW B, Finite(A, x, y), Finite(B, u, v),
         NEW a \in Int, NEW b \in Int, IsThird(x, y, u, l, a, b)
  PROVE  Finite(j_add(A, B), a, b)
  <1>1. PICK z \in Int : IsAt(A, x, y, z) /\ ~Same(z, 0)
    BY DEF Finite
  <1>2. PICK w \in Int : IsAt(B, u, v, w) /\ ~Same(w, 0)
    BY DEF Finite
  <1>3. PICK d \in Int : CommonNumbers(z, w, d)
    BY DEF CommonNumbers
  <1>4. ~Same(d, 0)
    BY <1>1, <1>2, <1>3, SameZero DEF CommonNumbers
  <1>5. PICK i \in Int, j \in Int : OverCommon(x, y, d, i, j)
    BY DEF OverCommon
  <1>6. PICK k \in Int, h \in Int : OverCommon(u, v, d, k, h)
    BY DEF OverCommon
  <1>7. PICK q : q = Scaled(A, B, Square(A.Z), Square(B.Z))
    OBVIOUS
  <1>8. Is(q.u1, i) /\ Is(q.s1, j) /\ Is(q.u2, k) /\ Is(q.s2, h) /\ Is(q.z, d + d)
    BY <1>1, <1>2, <1>3, <1>5, <1>6, <1>7, ScaledIs
  <1>9. ~Same(i, k)
    BY <1>4, <1>5, <1>6, CommonSame
  <1>10. q.u1 # q.u2
    BY <1>8, <1>9, IsEqual
  <1>11. PICK dd \in Int : TwiceOver(d, dd) /\ Is(q.z, dd)
    <2>1. PICK s \in Int : s = d + d
      OBVIOUS
    <2> QED
      BY <1>8, <2>1 DEF TwiceOver
  <1>12. PICK H : H = fe_sub(q.u2, q.u1)
    OBVIOUS
  <1>13. PICK e \in Int, s \in Int : NewZ(i, k, d, e, s)
    BY DEF NewZ
  <1>14. IsAt(Chorded(q, H, Square(Twice(H))), a, b, s)
    <2>1. IsCommon(q, i, j, k, h, dd)
      BY <1>8, <1>11 DEF IsCommon
    <2>2. IsChord(x, y, u, v, l, a, b, d, dd, i, j, k, h, e, s)
      BY <1>5, <1>6, <1>11, <1>13 DEF IsChord
    <2>3. IsAt(Chorded(q, Across(q), Square(Twice(Across(q)))), a, b, s)
      BY <2>1, <2>2, ChordedIs
    <2> QED
      BY <1>12, <2>3 DEF Across
  <1>15. ~Same(e, 0)
    <2> SUFFICES ASSUME Same(e, 0) PROVE FALSE
      OBVIOUS
    <2>1. PICK m \in Nat : m = p
      BY ModulusNumbers
    <2>2. PICK t \in Int : e = 0 + m * t
      BY <2>1 DEF Same
    <2>3. k = i + m * t
      BY <1>13, <2>2 DEF NewZ
    <2>4. Same(k, i)
      BY <2>1, <2>3 DEF Same
    <2> QED
      BY <1>9, <2>4, SameAs
  <1>16. ~Same(s, 0)
    <2>1. s = dd * e /\ dd = d + d
      BY <1>11, <1>13 DEF NewZ, TwiceOver
    <2>2. ~Same(dd, 0)
      BY <1>4, <2>1, TwiceNotZero
    <2> QED
      BY <1>15, <2>1, <2>2, SameZero
  <1>17. ~fe_is_zero(A.Z) /\ ~fe_is_zero(B.Z)
    BY FiniteIs
  <1>18. j_add(A, B) = Chorded(q, H, Square(Twice(H)))
    BY <1>12, <1>7, <1>10, <1>17 DEF j_add, AddFinite
  <1> QED
    BY <1>16, <1>18, <1>14 DEF Finite

(* or doubles or cancels them.                                             *)
LEMMA AddedOnLine ==
  ASSUME NEW x \in Int, NEW y \in Int, NEW v \in Int,
         NEW A, NEW B, Finite(A, x, y), Finite(B, x, v)
  PROVE  j_add(A, B) = IF Same(y, v) THEN j_double(A) ELSE j_infinity
  <1>1. PICK z \in Int : IsAt(A, x, y, z) /\ ~Same(z, 0)
    BY DEF Finite
  <1>2. PICK w \in Int : IsAt(B, x, v, w) /\ ~Same(w, 0)
    BY DEF Finite
  <1>3. PICK d \in Int : CommonNumbers(z, w, d)
    BY DEF CommonNumbers
  <1>4. ~Same(d, 0)
    BY <1>1, <1>2, <1>3, SameZero DEF CommonNumbers
  <1>5. PICK i \in Int, j \in Int : OverCommon(x, y, d, i, j)
    BY DEF OverCommon
  <1>6. PICK k \in Int, h \in Int : OverCommon(x, v, d, k, h)
    BY DEF OverCommon
  <1>7. PICK q : q = Scaled(A, B, Square(A.Z), Square(B.Z))
    OBVIOUS
  <1>8. Is(q.u1, i) /\ Is(q.s1, j) /\ Is(q.u2, k) /\ Is(q.s2, h)
    BY <1>1, <1>2, <1>3, <1>5, <1>6, <1>7, ScaledIs
  <1>9. Same(i, k) /\ (Same(j, h) <=> Same(y, v))
    BY <1>4, <1>5, <1>6, CommonSame, SameAs
  <1>10. q.u1 = q.u2 /\ (q.s1 = q.s2 <=> Same(y, v))
    BY <1>8, <1>9, IsEqual
  <1>11. ~fe_is_zero(A.Z) /\ ~fe_is_zero(B.Z)
    BY FiniteIs
  <1> QED
    BY <1>7, <1>10, <1>11 DEF j_add, AddFinite, SamePoint

(* Doubling takes the tangent,                                             *)
LEMMA DoubledByTangent ==
  ASSUME NEW x \in Int, NEW y \in Int, NEW l \in Int,
         IsTangent(l, x, y), ~Same(y, 0),
         NEW A, Finite(A, x, y),
         NEW a \in Int, NEW b \in Int, IsThird(x, y, x, l, a, b)
  PROVE  Finite(j_double(A), a, b)
  <1>1. PICK z \in Int : IsAt(A, x, y, z) /\ ~Same(z, 0)
    BY DEF Finite
  <1>2. ~fe_is_zero(A.Z)
    BY FiniteIs
  <1>3. PICK zz \in Int, zzz \in Int, yz \in Int, f \in Int, q \in Int :
          zz = z * z /\ zzz = zz * z /\ yz = y * zzz /\ f = yz * z /\ q = f + f
    OBVIOUS
  <1>4. q = 2 * ((y * (z * z * z)) * z)
    BY <1>3
  <1>5. IsAt(j_double(A), a, b, q)
    <2>1. a = l * l - x - x /\ b = l * (x - a) - y
      BY DEF IsThird
    <2>2. IsAt(j_double(A), a, b, 2 * ((y * (z * z * z)) * z))
      BY <1>1, <1>2, <2>1, DoubledIs
    <2> QED
      BY <1>4, <2>2
  <1>6. ~Same(zz, 0)
    BY <1>1, <1>3, SameZero
  <1>7. ~Same(zzz, 0)
    BY <1>1, <1>3, <1>6, SameZero
  <1>8. ~Same(yz, 0)
    BY <1>3, <1>7, SameZero
  <1>9. ~Same(f, 0)
    BY <1>1, <1>3, <1>8, SameZero
  <1>10. ~Same(q, 0)
    BY <1>3, <1>9, TwiceNotZero
  <1> QED
    BY <1>5, <1>10 DEF Finite

(* and a point of order two goes to infinity.                              *)
LEMMA DoubledFlat ==
  ASSUME NEW x \in Int, NEW y \in Int, Same(y, 0), NEW A, Finite(A, x, y)
  PROVE  fe_is_zero(j_double(A).Z)
  <1>1. PICK z \in Int : IsAt(A, x, y, z) /\ ~Same(z, 0)
    BY DEF Finite
  <1>2. ~fe_is_zero(A.Z)
    BY FiniteIs
  <1>3. PICK zzz \in Int, yz \in Int, yy \in Int, q \in Int, o \in Int :
          zzz = z * z * z /\ yz = y * zzz /\ yy = yz + yz /\ q = yy * z /\ o = 0
    OBVIOUS
  <1>4. Is(A.Y, yz) /\ Is(A.Z, z)
    BY <1>1, <1>3 DEF IsAt
  <1>5. Is(Twice(A.Y), yy)
    BY <1>3, <1>4, IsTwiceSquare
  <1>6. Is(fe_mul(Twice(A.Y), A.Z), q)
    BY <1>3, <1>4, <1>5, IsOps
  <1>7. Same(yz, o * zzz)
    <2>1. Same(y, o) /\ Same(zzz, zzz)
      BY <1>3, SameAs
    <2>2. Same(y * zzz, o * zzz)
      BY <2>1, SameOps
    <2> QED
      BY <1>3, <2>2
  <1>8. Same(q, o)
    <2>1. PICK m \in Nat : m = p
      BY ModulusNumbers
    <2>2. PICK k \in Int : yz = o * zzz + m * k
      BY <1>7, <2>1 DEF Same
    <2>3. yz = m * k
      BY <1>3, <2>2
    <2>4. PICK h \in Int : h = (k + k) * z
      OBVIOUS
    <2>5. q = o + m * h
      BY <1>3, <2>3, <2>4
    <2> QED
      BY <2>1, <2>5 DEF Same
  <1>9. fe_is_zero(fe_mul(Twice(A.Y), A.Z))
    <2>1. PICK w : w = fe_mul(Twice(A.Y), A.Z)
      OBVIOUS
    <2>2. w \in Field /\ Is(w, q)
      BY <1>6, <2>1 DEF Is
    <2> QED
      BY <1>3, <1>8, <2>1, <2>2, IsValue
  <1>10. j_double(A).Z = fe_mul(Twice(A.Y), A.Z)
    BY <1>2 DEF j_double, Doubled, Tangent, OnLine, Point
  <1> QED
    BY <1>9, <1>10

----------------------------------------------------------------------------
(* The reference addition finds the same slope and the same third point    *)

(* The inverse found by search is one.                                     *)
LEMMA InverseOfIs ==
  ASSUME NEW a \in Int, ~Same(a, 0)
  PROVE  InverseOf(a % p) \in Int /\ Same(a * InverseOf(a % p), 1)
  <1>1. PICK c \in 0 .. p - 1 : c = a % p
    BY SameModulo
  <1>2. c \in Int /\ Same(c, a) /\ Same(a, c)
    BY <1>1, SameModulo, ModulusNumbers
  <1>3. c # 0
    BY <1>2
  <1>4. c \in 1 .. p - 1
    BY <1>3, ModulusNumbers
  <1>5. PICK w : w = Limbs(c) /\ w \in Field /\ Value(w) = c
    BY FieldLimbsValue
  <1>6. PICK j \in 0 .. p - 1 : j = Value(fe_inv(w)) /\ (j * c) % p = 1
    BY <1>4, <1>5, FeInvInverts, FieldValues
  <1>7. j # 0
    <2>1. PICK m \in Nat \ {0} : m = p
      BY ModulusNumbers
    <2>2. ASSUME j = 0 PROVE FALSE
      <3>1. 0 * c = 0 /\ 0 % m = 0
        BY <1>2, SmallDivision
      <3> QED
        BY <1>6, <2>1, <2>2, <3>1
    <2> QED
      BY <2>2
  <1>8. j \in 1 .. p - 1 /\ (c * j) % p = 1
    <2>1. j \in Int /\ c * j = j * c
      BY <1>2, ModulusNumbers
    <2> QED
      BY <1>6, <1>7, <2>1, ModulusNumbers
  <1>9. PICK i \in 1 .. p - 1 : i = InverseOf(c) /\ (c * i) % p = 1
    BY <1>8 DEF InverseOf
  <1>10. i \in Int
    BY <1>9, ModulusNumbers
  <1>11. PICK ci \in Int, ai \in Int, o \in Int : ci = c * i /\ ai = a * i /\ o = 1
    BY <1>2, <1>10
  <1>12. Same(ci, o)
    <2>1. ci % p = o /\ Same(ci, ci % p)
      BY <1>9, <1>11, SameModulo
    <2> QED
      BY <2>1
  <1>13. Same(ai, ci)
    <2>1. Same(a, c) /\ Same(i, i)
      BY <1>2, <1>10, SameAs
    <2>2. Same(a * i, c * i)
      BY <1>2, <1>10, <2>1, SameOps
    <2> QED
      BY <1>11, <2>2
  <1>14. Same(ai, o)
    BY <1>12, <1>13, SameAs
  <1> QED
    BY <1>1, <1>9, <1>10, <1>11, <1>14

(* A quotient by it, times the divisor.                                    *)
LEMMA QuotientIs ==
  ASSUME NEW c \in Int, NEW a \in Int, ~Same(a, 0), NEW l,
         l = (c * InverseOf(a % p)) % p
  PROVE  l \in 0 .. p - 1 /\ Same(l * a, c)
  <1>1. PICK i \in Int : i = InverseOf(a % p) /\ Same(a * i, 1)
    BY InverseOfIs
  <1>2. PICK ci \in Int, ai \in Int, o \in Int : ci = c * i /\ ai = a * i /\ o = 1
    OBVIOUS
  <1>3. l \in 0 .. p - 1 /\ Same(l, ci)
    BY <1>1, <1>2, SameModulo
  <1>4. l \in Int
    BY <1>3, ModulusNumbers
  <1>5. Same(l * a, ci * a)
    BY <1>3, <1>4, SameOps, SameAs
  <1>6. Same(c * ai, c * o)
    BY <1>1, <1>2, SameOps, SameAs
  <1>7. ci * a = c * ai /\ c * o = c
    BY <1>2
  <1>8. PICK la \in Int, ca \in Int : la = l * a /\ ca = c * ai
    BY <1>4
  <1>9. Same(la, ca) /\ Same(ca, c)
    BY <1>5, <1>6, <1>7, <1>8
  <1> QED
    BY <1>3, <1>8, <1>9, SameAs

(* The slope between two points that differ in x,                          *)
LEMMA ChordIsSecant ==
  ASSUME NEW x \in 0 .. p - 1, NEW y \in 0 .. p - 1,
         NEW u \in 0 .. p - 1, NEW v \in 0 .. p - 1, x # u
  PROVE  /\ Chord(<<x, y>>, <<u, v>>) \in Int
         /\ IsSecant(Chord(<<x, y>>, <<u, v>>), x, y, u, v)
  <1>1. PICK m \in Nat : m = p
    BY ModulusNumbers
  <1>2. x \in Int /\ y \in Int /\ u \in Int /\ v \in Int
    BY <1>1
  <1>3. PICK a \in Int, c \in Int, e \in Int, f \in Int :
          a = u + m - x /\ c = (v + m) - y /\ e = u - x /\ f = v - y
    BY <1>2
  <1>4. Same(a, e) /\ Same(c, f)
    <2>1. a = e + m * 1 /\ c = f + m * 1 /\ 1 \in Int
      BY <1>2, <1>3
    <2> QED
      BY <1>1, <2>1 DEF Same
  <1>5. ~Same(a, 0)
    <2> SUFFICES ASSUME Same(a, 0) PROVE FALSE
      OBVIOUS
    <2>1. PICK k \in Int : a = 0 + m * k
      BY <1>1 DEF Same
    <2>2. k - 1 \in Int /\ u = x + m * (k - 1)
      BY <1>2, <1>3, <2>1
    <2>3. Same(u, x)
      BY <1>1, <2>2 DEF Same
    <2> QED
      BY <2>3, SameReduced
  <1>6. PICK l : l = (c * InverseOf(a % p)) % p
    OBVIOUS
  <1>7. Chord(<<x, y>>, <<u, v>>) = l
    BY <1>1, <1>3, <1>6 DEF Chord
  <1>8. l \in Int /\ Same(l * a, c)
    BY <1>1, <1>5, <1>6, QuotientIs
  <1>9. PICK la \in Int, le \in Int : la = l * a /\ le = l * e
    BY <1>8
  <1>10. Same(le, f)
    <2>1. Same(l, l) /\ Same(e, a)
      BY <1>4, <1>8, SameAs
    <2>2. Same(l * e, l * a)
      BY <1>8, <2>1, SameOps
    <2>3. Same(le, la) /\ Same(la, c)
      BY <1>8, <1>9, <2>2
    <2> QED
      BY <1>4, <2>3, SameAs
  <1>11. l * (u - x) = le /\ v - y = f
    BY <1>3, <1>9
  <1> QED
    BY <1>7, <1>8, <1>10, <1>11 DEF IsSecant

(* and at one that is not its own opposite.                                *)
LEMMA ChordIsTangent ==
  ASSUME NEW x \in 0 .. p - 1, NEW y \in 0 .. p - 1, y # 0
  PROVE  /\ Chord(<<x, y>>, <<x, y>>) \in Int
         /\ IsTangent(Chord(<<x, y>>, <<x, y>>), x, y)
  <1>1. PICK m \in Nat : m = p
    BY ModulusNumbers
  <1>2. x \in Int /\ y \in Int
    BY <1>1
  <1>3. PICK a \in Int, c \in Int : a = 2 * y /\ c = 3 * x * x
    BY <1>2
  <1>4. ~Same(a, 0)
    <2>1. PICK o \in 0 .. p - 1 : o = 0
      BY ModulusNumbers
    <2>2. ~Same(y, o)
      BY <2>1, SameReduced
    <2>3. a = y + y
      BY <1>2, <1>3
    <2> QED
      BY <1>2, <2>1, <2>2, <2>3, TwiceNotZero
  <1>5. PICK l : l = (c * InverseOf(a % p)) % p
    OBVIOUS
  <1>6. Chord(<<x, y>>, <<x, y>>) = l
    BY <1>3, <1>5 DEF Chord
  <1>7. l \in Int /\ Same(l * a, c)
    BY <1>1, <1>4, <1>5, QuotientIs
  <1>8. l * a = (2 * y) * l /\ c = 3 * (x * x)
    BY <1>2, <1>3, <1>7
  <1> QED
    BY <1>6, <1>7, <1>8 DEF IsTangent

(* The sum, reduced, is the mirrored third point.                          *)
LEMMA PlusIsThird ==
  ASSUME NEW x \in 0 .. p - 1, NEW y \in 0 .. p - 1,
         NEW u \in 0 .. p - 1, NEW v \in 0 .. p - 1,
         ~(x = u /\ (y + v) % p = 0), Chord(<<x, y>>, <<u, v>>) \in Int
  PROVE  \E a \in Int, b \in Int, s \in 0 .. p - 1, t \in 0 .. p - 1 :
           /\ IsThird(x, y, u, Chord(<<x, y>>, <<u, v>>), a, b)
           /\ Plus(<<x, y>>, <<u, v>>) = <<s, t>>
           /\ Same(a, s) /\ Same(b, t)
  <1>1. PICK m \in Nat : m = p
    BY ModulusNumbers
  <1>2. x \in Int /\ y \in Int /\ u \in Int /\ v \in Int
    BY <1>1
  <1>3. PICK l \in Int : l = Chord(<<x, y>>, <<u, v>>)
    OBVIOUS
  <1>4. PICK a \in Int, b \in Int : IsThird(x, y, u, l, a, b)
    BY <1>2 DEF IsThird
  <1>5. PICK c \in Int, s \in 0 .. p - 1 : c = l * l + 2 * m - x - u /\ s = c % p
    BY <1>2, SameModulo
  <1>6. s \in Int
    BY <1>1
  <1>7. Same(c, s)
    BY <1>5, SameModulo
  <1>8. Same(a, c)
    <2>1. -2 \in Int /\ a = c + m * (-2)
      BY <1>2, <1>4, <1>5 DEF IsThird
    <2> QED
      BY <1>1, <2>1 DEF Same
  <1>9. Same(a, s)
    BY <1>6, <1>7, <1>8, SameAs
  <1>10. PICK d \in Int, t \in 0 .. p - 1 : d = l * (x + m - s) + m - y /\ t = d % p
    BY <1>2, <1>6, SameModulo
  <1>11. t \in Int
    BY <1>1
  <1>12. Same(d, t)
    BY <1>10, SameModulo
  <1>13. Same(b, d)
    <2>1. PICK k \in Int : a = s + m * k
      BY <1>1, <1>9 DEF Same
    <2>2. PICK h \in Int : h = -(l * k) - l - 1
      OBVIOUS
    <2>3. b = d + m * h
      BY <1>2, <1>4, <1>6, <1>10, <2>1, <2>2 DEF IsThird
    <2> QED
      BY <1>1, <2>3 DEF Same
  <1>14. Same(b, t)
    BY <1>11, <1>12, <1>13, SameAs
  <1>15. Plus(<<x, y>>, <<u, v>>) = <<s, t>>
    <2>1. <<x, y>> # <<>> /\ <<u, v>> # <<>>
      OBVIOUS
    <2>2. s = (l * l + 2 * p - x - u) % p /\ t = (l * (x + p - s) + p - y) % p
      BY <1>1, <1>5, <1>10
    <2> QED
      BY <1>3, <2>1, <2>2 DEF Plus
  <1> QED
    BY <1>3, <1>4, <1>9, <1>14, <1>15

(* The point A stands for the element Q of the reference group.            *)
Coordinates(Q, x, y) == x \in 0 .. p - 1 /\ y \in 0 .. p - 1 /\ Q = <<x, y>>

Represents(A, Q) ==
  /\ A \in Points(Field)
  /\ \/ Q = <<>> /\ fe_is_zero(A.Z)
     \/ \E x, y : Coordinates(Q, x, y) /\ Finite(A, x, y)

(* A reduced number is its own opposite only if it is 0.                   *)
LEMMA OwnOpposite ==
  ASSUME NEW y \in 0 .. p - 1
  PROVE  y \in Int /\ (Same(y, 0) <=> y = 0) /\ ((y + y) % p = 0 <=> y = 0)
  <1>1. PICK m \in Nat \ {0}, o \in 0 .. p - 1 : m = p /\ o = 0
    BY ModulusNumbers
  <1>2. y \in Int /\ o \in Int
    BY <1>1
  <1>3. Same(y, o) <=> y = o
    BY <1>2, SameReduced, SameAs
  <1>4. ASSUME y # o PROVE (y + y) % p # 0
    <2>1. ~Same(y + y, 0)
      BY <1>1, <1>2, <1>3, <1>4, TwiceNotZero
    <2>2. PICK d \in Int : d = y + y
      BY <1>2
    <2>3. d % p # o % p
      BY <1>1, <1>2, <2>1, <2>2, SameIffModulo
    <2>4. 0 % m = 0
      BY SmallDivision
    <2> QED
      BY <1>1, <2>2, <2>3, <2>4
  <1>5. ASSUME y = 0 PROVE (y + y) % p = 0
    <2>1. 0 % m = 0
      BY SmallDivision
    <2> QED
      BY <1>1, <1>5, <2>1
  <1> QED
    BY <1>1, <1>2, <1>3, <1>4, <1>5

(* Doubling stands for the sum with itself,                                *)
LEMMA DoubleRepresents ==
  ASSUME NEW A, NEW Q, Represents(A, Q)
  PROVE  Represents(j_double(A), Plus(Q, Q))
  <1>1. j_double(A) \in Points(Field) /\ A \in Points(Field)
    BY FieldClosed, DoubleType DEF Represents
  <1>2. CASE Q = <<>>
    <2>1. Plus(Q, Q) = <<>>
      BY <1>2 DEF Plus
    <2>2. fe_is_zero(A.Z)
      <3>1. \A x, y : <<x, y>> # <<>>
        OBVIOUS
      <3> QED
        BY <1>2, <3>1 DEF Represents, Coordinates
    <2>3. fe_is_zero(fe_from_u32(0))
      BY ZeroIsZeros DEF fe_is_zero
    <2>4. j_double(A).Z = fe_from_u32(0)
      BY <2>2 DEF j_double, j_infinity, Point
    <2> QED
      BY <1>1, <2>1, <2>3, <2>4 DEF Represents
  <1>3. CASE Q # <<>>
    <2>1. PICK x \in 0 .. p - 1, y \in 0 .. p - 1 : Q = <<x, y>> /\ Finite(A, x, y)
      BY <1>3 DEF Represents, Coordinates
    <2>2. x \in Int /\ y \in Int
      BY OwnOpposite
    <2>3. CASE y = 0
      <3>1. Plus(Q, Q) = <<>>
        <4>1. (y + y) % p = 0
          BY <2>3, OwnOpposite
        <4> QED
          BY <1>3, <2>1, <4>1 DEF Plus
      <3>2. fe_is_zero(j_double(A).Z)
        BY <2>1, <2>2, <2>3, OwnOpposite, DoubledFlat
      <3> QED
        BY <1>1, <3>1, <3>2 DEF Represents
    <2>4. CASE y # 0
      <3>1. PICK l \in Int : l = Chord(<<x, y>>, <<x, y>>) /\ IsTangent(l, x, y)
        BY <2>4, ChordIsTangent
      <3>2. (y + y) % p # 0 /\ ~Same(y, 0)
        BY <2>4, OwnOpposite
      <3>3. PICK a \in Int, b \in Int, s \in 0 .. p - 1, t \in 0 .. p - 1 :
              /\ IsThird(x, y, x, l, a, b) /\ Plus(<<x, y>>, <<x, y>>) = <<s, t>>
              /\ Same(a, s) /\ Same(b, t)
        BY <3>1, <3>2, PlusIsThird
      <3>4. Finite(j_double(A), a, b)
        BY <2>1, <2>2, <3>1, <3>2, <3>3, DoubledByTangent
      <3>5. s \in Int /\ t \in Int
        BY OwnOpposite
      <3>6. Finite(j_double(A), s, t)
        BY <3>3, <3>4, <3>5, FiniteSame
      <3>7. Coordinates(Plus(Q, Q), s, t)
        BY <2>1, <3>3 DEF Coordinates
      <3> QED
        BY <1>1, <3>6, <3>7 DEF Represents
    <2> QED
      BY <2>3, <2>4
  <1> QED
    BY <1>2, <1>3

(* (x, y) is on the curve of the generator; so is every element.           *)
OnCurve(x, y) == Same(y * y, x * x * x + curve_b)

OfCurve(Q) == Q = <<>> \/ \E x, y : Coordinates(Q, x, y) /\ OnCurve(x, y)

(* Points of the curve with the same x are equal or opposite.              *)
LEMMA SameXOnCurve ==
  ASSUME NEW x \in 0 .. p - 1, NEW y \in 0 .. p - 1, NEW v \in 0 .. p - 1,
         OnCurve(x, y), OnCurve(x, v)
  PROVE  y = v \/ (y + v) % p = 0
  <1>1. PICK m \in Nat \ {0} : m = p
    BY ModulusNumbers
  <1>2. x \in Int /\ y \in Int /\ v \in Int
    BY <1>1
  <1>3. PICK c \in Int : c = x * x * x + curve_b
    <2>1. Gx \in Int /\ Gy \in Int
      BY <1>1, KernelAssumption
    <2>2. curve_b \in Int
      BY <2>1 DEF curve_b
    <2> QED
      BY <1>2, <2>2
  <1>4. PICK k \in Int, h \in Int : y * y = c + m * k /\ v * v = c + m * h
    BY <1>1, <1>3 DEF OnCurve, Same
  <1>5. PICK d \in Int, e \in Int : d = y - v /\ e = y + v
    BY <1>2
  <1>6. k - h \in Int /\ d * e = 0 + m * (k - h)
    BY <1>2, <1>4, <1>5
  <1>7. Same(d * e, 0)
    BY <1>1, <1>6 DEF Same
  <1>8. Same(d, 0) \/ Same(e, 0)
    BY <1>7, SameZero
  <1>9. CASE Same(d, 0)
    <2>1. PICK l \in Int : d = 0 + m * l
      BY <1>1, <1>9 DEF Same
    <2>2. y = v + m * l
      BY <1>2, <1>5, <2>1
    <2>3. Same(y, v)
      BY <1>1, <2>2 DEF Same
    <2> QED
      BY <2>3, SameReduced
  <1>10. CASE Same(e, 0)
    <2>1. PICK o \in Int : o = 0
      OBVIOUS
    <2>2. e % p = o % p
      BY <1>10, <2>1, SameIffModulo
    <2>3. 0 % m = 0
      BY SmallDivision
    <2> QED
      BY <1>1, <1>5, <2>1, <2>2, <2>3
  <1> QED
    BY <1>8, <1>9, <1>10

(* and addition for the sum.                                               *)
THEOREM AddRepresents ==
  ASSUME NEW A, NEW Q, NEW B, NEW R, Represents(A, Q), Represents(B, R),
         OfCurve(Q), OfCurve(R)
  PROVE  Represents(j_add(A, B), Plus(Q, R))
  <1>1. /\ A \in Points(Field) /\ B \in Points(Field)
        /\ j_add(A, B) \in Points(Field) /\ j_double(A) \in Points(Field)
    BY FieldClosed, AddType, DoubleType DEF Represents
  <1>2. \A x, y : <<x, y>> # <<>>
    OBVIOUS
  <1>3. CASE Q = <<>>
    <2>1. fe_is_zero(A.Z)
      BY <1>2, <1>3 DEF Represents, Coordinates
    <2>2. j_add(A, B) = B /\ Plus(Q, R) = R
      BY <1>3, <2>1 DEF j_add, Plus
    <2> QED
      BY <2>2
  <1>4. CASE Q # <<>> /\ R = <<>>
    <2>1. fe_is_zero(B.Z)
      BY <1>2, <1>4 DEF Represents, Coordinates
    <2>2. PICK x \in 0 .. p - 1, y \in 0 .. p - 1 : Finite(A, x, y)
      BY <1>4 DEF Represents, Coordinates
    <2>3. ~fe_is_zero(A.Z)
      BY <2>2, OwnOpposite, FiniteIs
    <2>4. j_add(A, B) = A /\ Plus(Q, R) = Q
      BY <1>4, <2>1, <2>3 DEF j_add, Plus
    <2> QED
      BY <2>4
  <1>5. CASE Q # <<>> /\ R # <<>>
    <2>1. PICK x \in 0 .. p - 1, y \in 0 .. p - 1 :
            Q = <<x, y>> /\ Finite(A, x, y)
      BY <1>5 DEF Represents, Coordinates
    <2>2. PICK u \in 0 .. p - 1, v \in 0 .. p - 1 :
            R = <<u, v>> /\ Finite(B, u, v)
      BY <1>5 DEF Represents, Coordinates
    <2>3. x \in Int /\ y \in Int /\ u \in Int /\ v \in Int
      BY OwnOpposite
    <2>4. OnCurve(x, y) /\ OnCurve(u, v)
      BY <1>5, <2>1, <2>2 DEF OfCurve, Coordinates
    <2>5. CASE x # u
      <3>1. PICK l \in Int : l = Chord(<<x, y>>, <<u, v>>) /\ IsSecant(l, x, y, u, v)
        BY <2>5, ChordIsSecant
      <3>2. PICK a \in Int, b \in Int, s \in 0 .. p - 1, t \in 0 .. p - 1 :
              /\ IsThird(x, y, u, l, a, b) /\ Plus(<<x, y>>, <<u, v>>) = <<s, t>>
              /\ Same(a, s) /\ Same(b, t)
        BY <2>5, <3>1, PlusIsThird
      <3>3. ~Same(x, u)
        BY <2>5, SameReduced
      <3>4. Finite(j_add(A, B), a, b)
        BY <2>1, <2>2, <2>3, <3>1, <3>2, <3>3, AddedByChord
      <3>5. s \in Int /\ t \in Int
        BY OwnOpposite
      <3>6. Finite(j_add(A, B), s, t)
        BY <3>2, <3>4, <3>5, FiniteSame
      <3>7. Coordinates(Plus(Q, R), s, t)
        BY <2>1, <2>2, <3>2 DEF Coordinates
      <3> QED
        BY <1>1, <3>6, <3>7 DEF Represents
    <2>6. CASE x = u
      <3>1. j_add(A, B) = IF Same(y, v) THEN j_double(A) ELSE j_infinity
        BY <2>1, <2>2, <2>3, <2>6, AddedOnLine
      <3>2. y = v \/ (y + v) % p = 0
        BY <2>4, <2>6, SameXOnCurve
      <3>3. CASE y = v
        <4>1. j_add(A, B) = j_double(A)
          BY <2>3, <3>1, <3>3, SameAs
        <4>2. R = Q
          BY <2>1, <2>2, <2>6, <3>3
        <4> QED
          BY <4>1, <4>2, DoubleRepresents
      <3>4. CASE y # v
        <4>1. ~Same(y, v)
          BY <3>4, SameReduced
        <4>2. j_add(A, B) = j_infinity
          BY <3>1, <4>1
        <4>3. Plus(Q, R) = <<>>
          BY <1>5, <2>1, <2>2, <2>6, <3>2, <3>4 DEF Plus
        <4>4. fe_is_zero(j_infinity.Z)
          BY ZeroIsZeros DEF fe_is_zero, j_infinity, Point
        <4> QED
          BY <1>1, <4>2, <4>3, <4>4 DEF Represents
      <3> QED
        BY <3>3, <3>4
    <2> QED
      BY <2>5, <2>6
  <1> QED
    BY <1>3, <1>4, <1>5

(* The coefficients of x^3 + c - (the line)^2 - (the three roots).         *)
Cubic(x, y, u, l, a, c, s, t) ==
  /\ s = 2 * (l * (l * x - y)) - (x * u + x * a + u * a)
  /\ t = c - (y - l * x) * (y - l * x) + x * (u * a)

(* It is linear,                                                           *)
LEMMA CubicIsLinear ==
  ASSUME NEW x \in Int, NEW y \in Int, NEW u \in Int, NEW l \in Int,
         NEW a \in Int, NEW b \in Int, NEW c \in Int, NEW s \in Int, NEW t \in Int,
         IsThird(x, y, u, l, a, b), Cubic(x, y, u, l, a, c, s, t)
  PROVE  /\ s * x + t = x * x * x + c - y * y
         /\ s * u + t = u * u * u + c - (l * (u - x) + y) * (l * (u - x) + y)
         /\ s * a + t = a * a * a + c - b * b
  <1>1. a = l * l - x - u /\ b = l * (x - a) - y
    BY DEF IsThird
  <1>2. /\ s = 2 * (l * (l * x - y)) - (x * u + x * a + u * a)
        /\ t = c - (y - l * x) * (y - l * x) + x * (u * a)
    BY DEF Cubic
  <1>3. s * x + t = x * x * x + c - y * y
    BY <1>1, <1>2
  <1>4. s * u + t = u * u * u + c - (l * (u - x) + y) * (l * (u - x) + y)
    BY <1>1, <1>2
  <1>5. s * a + t = a * a * a + c - b * b
    BY <1>1, <1>2
  <1> QED
    BY <1>3, <1>4, <1>5

(* and 0 at two places of the line or touching at one, so 0 at the third.  *)
LEMMA CubicVanishes ==
  ASSUME NEW x \in Int, NEW y \in Int, NEW u \in Int, NEW v \in Int, NEW l \in Int,
         NEW a \in Int, NEW b \in Int, IsThird(x, y, u, l, a, b),
         OnCurve(x, y), OnCurve(u, v),
         \/ IsSecant(l, x, y, u, v) /\ ~Same(x, u)
         \/ IsTangent(l, x, y) /\ x = u
  PROVE  OnCurve(a, b)
  <1>1. PICK m \in Nat \ {0} : m = p
    BY ModulusNumbers
  <1>2. PICK c \in Int : c = curve_b
    <2>1. Gx \in Int /\ Gy \in Int
      BY <1>1, KernelAssumption
    <2> QED
      BY <2>1 DEF curve_b
  <1>3. PICK s \in Int, t \in Int : Cubic(x, y, u, l, a, c, s, t)
    <2>0. PICK i \in Int, j \in Int : i = l * (l * x - y) /\ j = x * u + x * a + u * a
      OBVIOUS
    <2>1. PICK s \in Int : s = i + i - j
      <3>1. i + i - j \in Int
        OBVIOUS
      <3> QED
        BY ONLY <3>1
    <2>2. PICK t \in Int : t = c - (y - l * x) * (y - l * x) + x * (u * a)
      OBVIOUS
    <2>3. s = 2 * (l * (l * x - y)) - (x * u + x * a + u * a)
      BY <2>0, <2>1
    <2> QED
      BY <2>2, <2>3 DEF Cubic
  <1>4. /\ s * x + t = x * x * x + c - y * y
        /\ s * u + t = u * u * u + c - (l * (u - x) + y) * (l * (u - x) + y)
        /\ s * a + t = a * a * a + c - b * b
    BY <1>3, CubicIsLinear
  <1>5. PICK k \in Int, h \in Int :
          y * y = x * x * x + c + m * k /\ v * v = u * u * u + c + m * h
    BY <1>1, <1>2 DEF OnCurve, Same
  <1>6. PICK g \in Int : s = m * g
    <2>1. CASE IsSecant(l, x, y, u, v) /\ ~Same(x, u)
      <3>1. PICK j \in Int : l * (u - x) = v - y + m * j
        BY <1>1, <2>1 DEF IsSecant, Same
      <3>2. l * (u - x) + y = v + m * j
        BY <3>1
      <3>3. PICK q \in Int : q = -(h + 2 * (v * j) + m * (j * j))
        OBVIOUS
      <3>4. s * u + t = m * q
        <4>1. s * u + t = u * u * u + c - (v + m * j) * (v + m * j)
          BY <1>4, <3>2
        <4>2. (v + m * j) * (v + m * j) = v * v + m * (2 * (v * j) + m * (j * j))
          OBVIOUS
        <4>3. PICK r \in Int, o \in Int : r = 2 * (v * j) + m * (j * j) /\ o = u * u * u
          OBVIOUS
        <4>4. s * u + t = o + c - (o + c + m * h + m * r)
          BY <1>5, <4>1, <4>2, <4>3
        <4>5. q = -(h + r)
          BY <3>3, <4>3
        <4>6. o + c - (o + c + m * h + m * r) = m * (-(h + r))
          OBVIOUS
        <4> QED
          BY <4>4, <4>5, <4>6
      <3>5. s * x + t = m * (-k)
        BY <1>4, <1>5
      <3>6. PICK e \in Int, d \in Int : e = x - u /\ d = -(k + q)
        OBVIOUS
      <3>7. s * e = 0 + m * d
        BY <3>4, <3>5, <3>6
      <3>8. Same(s * e, 0)
        BY <1>1, <3>7 DEF Same
      <3>9. Same(s, 0) \/ Same(e, 0)
        BY <3>8, SameZero
      <3>10. ~Same(e, 0)
        <4> SUFFICES ASSUME Same(e, 0) PROVE FALSE
          OBVIOUS
        <4>1. PICK f \in Int : e = 0 + m * f
          BY <1>1 DEF Same
        <4>2. x = u + m * f
          BY <3>6, <4>1
        <4> QED
          BY <1>1, <2>1, <4>2 DEF Same
      <3>11. PICK g \in Int : s = 0 + m * g
        BY <1>1, <3>9, <3>10 DEF Same
      <3> QED
        BY <3>11
    <2>2. CASE IsTangent(l, x, y) /\ x = u
      <3>1. PICK j \in Int : (2 * y) * l = 3 * (x * x) + m * j
        BY <1>1, <2>2 DEF IsTangent, Same
      <3>2. s = 3 * (x * x) - (2 * y) * l
        <4>1. a = l * l - x - x
          BY <2>2 DEF IsThird
        <4>2. s = 2 * (l * (l * x - y)) - (x * x + x * a + x * a)
          BY <1>3, <2>2 DEF Cubic
        <4> QED
          BY <4>1, <4>2
      <3>3. -j \in Int /\ s = m * (-j)
        BY <3>1, <3>2
      <3> QED
        BY <3>3
    <2> QED
      BY <2>1, <2>2
  <1>7. PICK f \in Int : t = m * f
    <2>1. PICK f \in Int : f = -(k + g * x)
      OBVIOUS
    <2>2. s * x + t = m * (-k)
      BY <1>4, <1>5
    <2>3. t = m * f
      BY <1>6, <2>1, <2>2
    <2> QED
      BY <2>3
  <1>8. PICK e \in Int : e = -(g * a + f)
    OBVIOUS
  <1>9. b * b = (a * a * a + c) + m * e
    <2>1. s * a + t = m * (g * a + f)
      BY <1>6, <1>7
    <2>2. PICK o \in Int, r \in Int : o = a * a * a /\ r = b * b
      OBVIOUS
    <2>3. m * (-e) = o + c - r
      BY <1>4, <1>8, <2>1, <2>2
    <2>4. r = o + c + m * e
      BY <2>3
    <2> QED
      BY <2>2, <2>4
  <1> QED
    BY <1>1, <1>2, <1>9 DEF OnCurve, Same

(* A point of the curve is one, taken modulo p.                            *)
LEMMA OnCurveSame ==
  ASSUME NEW a \in Int, NEW b \in Int, NEW s \in Int, NEW t \in Int,
         OnCurve(a, b), Same(a, s), Same(b, t)
  PROVE  OnCurve(s, t)
  <1>1. PICK c \in Int : c = curve_b
    <2>1. Gx \in Int /\ Gy \in Int
      BY ModulusNumbers, KernelAssumption
    <2> QED
      BY <2>1 DEF curve_b
  <1>2. PICK aa \in Int, ss \in Int, bb \in Int, tt \in Int :
          aa = a * a /\ ss = s * s /\ bb = b * b /\ tt = t * t
    OBVIOUS
  <1>3. Same(aa, ss) /\ Same(bb, tt)
    BY <1>2, SameOps
  <1>4. PICK aaa \in Int, sss \in Int : aaa = aa * a /\ sss = ss * s
    OBVIOUS
  <1>5. Same(aaa, sss)
    BY <1>3, <1>4, SameOps
  <1>6. PICK f \in Int, g \in Int : f = aaa + c /\ g = sss + c
    OBVIOUS
  <1>7. Same(f, g)
    BY <1>5, <1>6, SameOps, SameAs
  <1>8. Same(bb, f)
    BY <1>1, <1>2, <1>4, <1>6 DEF OnCurve
  <1>9. Same(tt, g)
    <2>1. Same(tt, bb)
      BY <1>3, SameAs
    <2>2. Same(tt, f)
      BY <1>8, <2>1, SameAs
    <2> QED
      BY <1>7, <2>2, SameAs
  <1> QED
    BY <1>1, <1>2, <1>4, <1>6, <1>9 DEF OnCurve

(* The sum of two points of the curve is one.                              *)
LEMMA PlusOfCurve ==
  ASSUME NEW Q, NEW R, OfCurve(Q), OfCurve(R)
  PROVE  OfCurve(Plus(Q, R))
  <1>1. CASE Q = <<>> \/ R = <<>>
    BY <1>1 DEF Plus
  <1>2. CASE Q # <<>> /\ R # <<>>
    <2>1. PICK x \in 0 .. p - 1, y \in 0 .. p - 1 : Q = <<x, y>> /\ OnCurve(x, y)
      BY <1>2 DEF OfCurve, Coordinates
    <2>2. PICK u \in 0 .. p - 1, v \in 0 .. p - 1 : R = <<u, v>> /\ OnCurve(u, v)
      BY <1>2 DEF OfCurve, Coordinates
    <2>3. x \in Int /\ y \in Int /\ u \in Int /\ v \in Int
      BY OwnOpposite
    <2>4. CASE x = u /\ (y + v) % p = 0
      <3>1. Plus(Q, R) = <<>>
        BY <1>2, <2>1, <2>2, <2>4 DEF Plus
      <3> QED
        BY <3>1 DEF OfCurve
    <2>5. CASE ~(x = u /\ (y + v) % p = 0)
      <3>1. PICK l \in Int :
              /\ l = Chord(<<x, y>>, <<u, v>>)
              /\ \/ IsSecant(l, x, y, u, v) /\ ~Same(x, u)
                 \/ IsTangent(l, x, y) /\ x = u
        <4>1. CASE x # u
          <5>1. ~Same(x, u)
            BY <4>1, SameReduced
          <5> QED
            BY <4>1, <5>1, ChordIsSecant
        <4>2. CASE x = u
          <5>1. y = v
            BY <2>1, <2>2, <2>5, <4>2, SameXOnCurve
          <5>2. y # 0
            BY <2>5, <4>2, <5>1, OwnOpposite
          <5> QED
            BY <4>2, <5>1, <5>2, ChordIsTangent
        <4> QED
          BY <4>1, <4>2
      <3>2. PICK a \in Int, b \in Int, s \in 0 .. p - 1, t \in 0 .. p - 1 :
              /\ IsThird(x, y, u, l, a, b) /\ Plus(<<x, y>>, <<u, v>>) = <<s, t>>
              /\ Same(a, s) /\ Same(b, t)
        BY <2>5, <3>1, PlusIsThird
      <3>3. OnCurve(a, b)
        BY <2>1, <2>2, <2>3, <3>1, <3>2, CubicVanishes
      <3>4. s \in Int /\ t \in Int
        BY OwnOpposite
      <3>5. OnCurve(s, t)
        BY <3>2, <3>3, <3>4, OnCurveSame
      <3>6. Coordinates(Plus(Q, R), s, t)
        BY <2>1, <2>2, <3>2 DEF Coordinates
      <3> QED
        BY <3>5, <3>6 DEF OfCurve
    <2> QED
      BY <2>4, <2>5
  <1> QED
    BY <1>1, <1>2

----------------------------------------------------------------------------
(* The multiples of the generator                                          *)

(* One bit of the double and add of the reference.                         *)
TwiceAnd(Q, k) ==
  IF k % 2 = 1 THEN Plus(Plus(Q, Q), <<Gx, Gy>>) ELSE Plus(Q, Q)

IsTimes(f, i) ==
  f = [k \in 0 .. i |-> IF k = 0 THEN <<>> ELSE TwiceAnd(f[k \div 2], k)]

(* Half a number is smaller.                                               *)
LEMMA HalfIsSmaller ==
  ASSUME NEW k \in Nat \ {0}
  PROVE  k \div 2 \in Nat /\ k \div 2 < k
  OBVIOUS

(* The multiples can be counted by halves.                                 *)
LEMMA TimesExist ==
  ASSUME NEW N \in Nat
  PROVE  \E f : IsTimes(f, N)
  <1> DEFINE Good == {i \in 0 .. N : \E f : IsTimes(f, i)}
  <1>1. 0 \in Good
    <2>1. PICK f : f = [k \in 0 .. 0 |-> <<>>]
      OBVIOUS
    <2>2. \A k \in 0 .. 0 : k = 0
      OBVIOUS
    <2>3. IsTimes(f, 0)
      BY <2>1, <2>2 DEF IsTimes
    <2> QED
      BY <2>3
  <1>2. ASSUME NEW i \in Good, i < N PROVE i + 1 \in Good
    <2>1. i \in Nat /\ i + 1 \in 0 .. N
      BY <1>2
    <2>2. PICK f : IsTimes(f, i)
      BY <1>2
    <2>3. PICK z \in Nat \ {0} : z = i + 1
      BY <2>1
    <2>4. PICK g : g = [k \in 0 .. z |-> IF k = z THEN TwiceAnd(f[z \div 2], z) ELSE f[k]]
      OBVIOUS
    <2>5. ASSUME NEW k \in 0 .. i PROVE g[k] = f[k]
      BY <2>1, <2>3, <2>4
    <2>6. ASSUME NEW k \in 0 .. z
          PROVE  g[k] = IF k = 0 THEN <<>> ELSE TwiceAnd(g[k \div 2], k)
      <3>1. CASE k = z
        <4>1. z \div 2 \in 0 .. i
          BY <2>1, <2>3, HalfIsSmaller
        <4>2. g[z \div 2] = f[z \div 2] /\ g[z] = TwiceAnd(f[z \div 2], z)
          BY <2>4, <2>5, <4>1
        <4> QED
          BY <3>1, <4>2
      <3>2. CASE k # z
        <4>1. k \in 0 .. i
          BY <2>1, <2>3, <3>2
        <4>2. g[k] = IF k = 0 THEN <<>> ELSE TwiceAnd(f[k \div 2], k)
          BY <2>2, <2>5, <4>1 DEF IsTimes
        <4>3. k # 0 => g[k \div 2] = f[k \div 2]
          <5>1. k # 0 => k \div 2 \in 0 .. i
            BY <2>1, <4>1, HalfIsSmaller
          <5> QED
            BY <2>5, <5>1
        <4> QED
          BY <4>2, <4>3
      <3> QED
        BY <3>1, <3>2
    <2>7. DOMAIN g = 0 .. z /\ g = [k \in 0 .. z |-> g[k]]
      BY <2>4
    <2>8. IsTimes(g, z)
      BY <2>6, <2>7 DEF IsTimes
    <2> QED
      BY <2>1, <2>3, <2>8
  <1>3. N \in Good
    <2>1. Good \in SUBSET Nat
      OBVIOUS
    <2> HIDE DEF Good
    <2> QED
      BY <1>1, <1>2, <2>1, GoodUpTo
  <1> QED
    BY <1>3

(* k times the generator.                                                  *)
Times(k) == IF k % n = 0 THEN <<>> ELSE Multiples[k % n]

(* The multiples below n count by halves, and by adding the generator.     *)
LEMMA TimesAre ==
  /\ Times(0) = <<>>
  /\ \A k \in 1 .. n - 1 : /\ Times(k) = TwiceAnd(Times(k \div 2), k)
                           /\ Times(k) # <<>> /\ Times(k) = Multiples[k]
  /\ \A k \in Nat : Plus(Times(k), <<Gx, Gy>>) = Times(k + 1)
  <1>1. PICK m \in Nat \ {0} : m = n /\ m > 2
    BY OrderWords, FieldAssumption
  <1> DEFINE times == CHOOSE f : IsTimes(f, n - 1)
  <1>2. IsTimes(times, n - 1)
    <2>1. n - 1 \in Nat
      BY <1>1
    <2> QED
      BY <2>1, TimesExist
  <1>3. Multiples = [k \in 1 .. n - 1 |-> times[k]]
    BY DEF Multiples, IsTimes, TwiceAnd
  <1> HIDE DEF times
  <1>4. 0 % m = 0
    BY SmallDivision
  <1>5. Times(0) = <<>>
    BY <1>1, <1>4 DEF Times
  <1>6. ASSUME NEW k \in 0 .. n - 1 PROVE k % n = k /\ Times(k) = times[k]
    <2>1. k \in 0 .. m - 1
      BY <1>1, <1>6
    <2>2. k % n = k
      BY <1>1, <2>1, SmallDivision
    <2>3. 0 \in 0 .. n - 1
      BY <1>1
    <2>4. times[0] = <<>>
      BY <1>2, <2>3 DEF IsTimes
    <2>5. k # 0 => Multiples[k] = times[k]
      BY <1>1, <1>3, <2>1
    <2> QED
      BY <2>2, <2>4, <2>5 DEF Times
  <1>7. ASSUME NEW k \in 1 .. n - 1
        PROVE  /\ Times(k) = TwiceAnd(Times(k \div 2), k)
               /\ Times(k) # <<>> /\ Times(k) = Multiples[k]
    <2>1. k \in 0 .. n - 1 /\ k # 0 /\ k \div 2 \in 0 .. n - 1
      BY <1>1, <1>7, HalfIsSmaller
    <2>2. Times(k) = times[k] /\ Times(k \div 2) = times[k \div 2]
      BY <1>6, <2>1
    <2>3. times[k] = TwiceAnd(times[k \div 2], k)
      BY <1>2, <2>1 DEF IsTimes
    <2>4. Multiples[k] = times[k] /\ Multiples[k] # <<>>
      BY <1>3, GroupAssumption
    <2> QED
      BY <2>2, <2>3, <2>4
  <1>8. ASSUME NEW k \in Nat PROVE Plus(Times(k), <<Gx, Gy>>) = Times(k + 1)
    <2>1. PICK r \in 0 .. m - 1 : r = k % m
      OBVIOUS
    <2>2. (k + 1) % m = IF r = m - 1 THEN 0 ELSE r + 1
      <3>1. PICK q \in Int : k = m * q + r
        <4>1. k \div m \in Nat /\ k = m * (k \div m) + (k % m)
          BY ONLY Divided, k \in Nat, m \in Nat \ {0}
        <4>2. PICK q \in Int : q = k \div m
          BY <4>1
        <4>3. k = m * q + r
          BY <2>1, <4>1, <4>2
        <4> QED
          BY <4>3
      <3>2. CASE r = m - 1
        <4>1. k + 1 = m * (q + 1) + 0
          BY <3>1, <3>2
        <4>2. PICK z \in Nat, h \in Int, o \in 0 .. m - 1 :
                z = k + 1 /\ h = q + 1 /\ o = 0 /\ z = m * h + o
          BY <4>1
        <4>3. z = m * h + o
          BY <4>2
        <4>4. z % m = o
          BY ONLY <4>3, DivisionIs, m \in Nat \ {0}, h \in Int, o \in 0 .. m - 1
        <4> QED
          BY <3>2, <4>2, <4>4
      <3>3. CASE r # m - 1
        <4>1. k + 1 = m * q + (r + 1) /\ r + 1 \in 0 .. m - 1
          BY <3>1, <3>3
        <4>2. PICK z \in Nat, o \in 0 .. m - 1 : z = k + 1 /\ o = r + 1 /\ z = m * q + o
          BY <4>1
        <4>3. z = m * q + o
          BY <4>2
        <4>4. z % m = o
          BY ONLY <4>3, DivisionIs, m \in Nat \ {0}, q \in Int, o \in 0 .. m - 1
        <4> QED
          BY <3>3, <4>2, <4>4
      <3> QED
        BY <3>2, <3>3
    <2>3. CASE r = 0
      <3>1. Plus(Times(k), <<Gx, Gy>>) = <<Gx, Gy>>
        BY <1>1, <2>1, <2>3 DEF Times, Plus
      <3>2. Times(k + 1) = Multiples[1]
        BY <1>1, <2>2, <2>3 DEF Times
      <3>3. Multiples[1] = TwiceAnd(<<>>, 1)
        <4>1. 1 \in 1 .. n - 1 /\ 1 \div 2 = 0
          BY <1>1
        <4> QED
          BY <1>5, <1>7, <4>1
      <3>4. TwiceAnd(<<>>, 1) = <<Gx, Gy>>
        BY DEF TwiceAnd, Plus
      <3> QED
        BY <3>1, <3>2, <3>3, <3>4
    <2>4. CASE r # 0
      <3>1. r \in 1 .. n - 1
        BY <1>1, <2>4
      <3>2. Times(k) = Multiples[r]
        BY <1>1, <2>1, <2>4 DEF Times
      <3>3. Plus(Multiples[r], <<Gx, Gy>>) = IF r = n - 1 THEN <<>> ELSE Multiples[r + 1]
        BY <3>1, GroupAssumption
      <3>4. Times(k + 1) = IF r = n - 1 THEN <<>> ELSE Multiples[r + 1]
        BY <1>1, <2>2 DEF Times
      <3> QED
        BY <3>2, <3>3, <3>4
    <2> QED
      BY <2>3, <2>4
  <1> QED
    BY <1>5, <1>7, <1>8

(* The generator is on its curve and is what g_point stands for,           *)
LEMMA GeneratorStands ==
  Represents(g_point, <<Gx, Gy>>) /\ OfCurve(<<Gx, Gy>>)
  <1>1. Gx \in 0 .. p - 1 /\ Gy \in 0 .. p - 1
    BY KernelAssumption
  <1>2. PICK x \in Int, y \in Int, o \in Int : x = Gx /\ y = Gy /\ o = 1
    BY <1>1, ModulusNumbers
  <1>3. Is(Limbs(Gx), x) /\ Is(Limbs(Gy), y)
    BY <1>1, <1>2, FieldLimbsValue, SameAs DEF Is
  <1>4. Is(fe_from_u32(1), o)
    BY <1>2, OneWords, SameAs DEF Is
  <1>5. IsAt(g_point, x, y, o)
    <2>1. x * (o * o) = x /\ y * (o * o * o) = y
      BY <1>2
    <2> QED
      BY <1>3, <1>4, <2>1 DEF IsAt, g_point, Point
  <1>6. ~Same(o, 0)
    <2>1. PICK a \in 0 .. p - 1, b \in 0 .. p - 1 : a = 1 /\ b = 0
      BY ModulusWords, ModulusNumbers, Constants
    <2> QED
      BY <1>2, <2>1, SameReduced
  <1>7. Finite(g_point, Gx, Gy)
    BY <1>2, <1>5, <1>6 DEF Finite
  <1>8. OnCurve(Gx, Gy)
    <2>1. PICK i \in Int, j \in Int : i = y * y /\ j = x * x * x
      OBVIOUS
    <2>2. j + (i - j) = i /\ Same(i, i)
      BY SameAs
    <2> QED
      BY <1>2, <2>1, <2>2 DEF OnCurve, curve_b
  <1>9. Coordinates(<<Gx, Gy>>, Gx, Gy)
    BY <1>1 DEF Coordinates
  <1> QED
    BY <1>7, <1>8, <1>9, GeneratorType DEF Represents, OfCurve

(* and so are its multiples.                                               *)
LEMMA TimesOfCurve ==
  ASSUME NEW k \in Nat
  PROVE  OfCurve(Times(k))
  <1> DEFINE Good == {i \in 0 .. k : OfCurve(Times(i))}
  <1>1. 0 \in Good
    BY TimesAre DEF OfCurve
  <1>2. ASSUME NEW i \in Good, i < k PROVE i + 1 \in Good
    <2>1. i \in Nat /\ i + 1 \in 0 .. k /\ OfCurve(Times(i))
      BY <1>2
    <2>2. Times(i + 1) = Plus(Times(i), <<Gx, Gy>>)
      BY <2>1, TimesAre
    <2>3. OfCurve(Times(i + 1))
      BY <2>1, <2>2, GeneratorStands, PlusOfCurve
    <2> QED
      BY <2>1, <2>3
  <1>3. k \in Good
    <2>1. Good \in SUBSET Nat
      OBVIOUS
    <2> HIDE DEF Good
    <2> QED
      BY <1>1, <1>2, <2>1, GoodUpTo
  <1> QED
    BY <1>3

(* A step of the walk adds the generator.                                  *)
LEMMA NextStands ==
  ASSUME NEW A, NEW k \in Nat, Represents(A, Times(k))
  PROVE  Represents(j_add(A, g_point), Times(k + 1))
  <1>1. Represents(j_add(A, g_point), Plus(Times(k), <<Gx, Gy>>))
    BY TimesOfCurve, GeneratorStands, AddRepresents
  <1> QED
    BY <1>1, TimesAre

(* One bit of the double and add is one of the reference.                  *)
LEMMA DoubleAndAddStands ==
  ASSUME NEW v, NEW i, NEW h \in 0 .. n - 1, NEW k \in 0 .. n - 1,
         k = 2 * h + BitOf(v, i), NEW A, Represents(A, Times(h))
  PROVE  Represents(DoubleAndAdd(A, v, i), Times(k))
  <1>1. PICK m \in Nat \ {0} : m = n
    BY OrderWords
  <1>2. PICK b \in 0 .. 1 : b = BitOf(v, i) /\ k = 2 * h + b
    BY DEF BitOf
  <1>3. k \in Nat /\ h \in Nat
    BY <1>1
  <1>4. k \div 2 = h /\ k % 2 = b
    BY <1>2, <1>3
  <1>5. Represents(j_double(A), Plus(Times(h), Times(h)))
    BY DoubleRepresents
  <1>6. OfCurve(Plus(Times(h), Times(h)))
    BY <1>3, TimesOfCurve, PlusOfCurve
  <1>7. Represents(j_add(j_double(A), g_point),
                   Plus(Plus(Times(h), Times(h)), <<Gx, Gy>>))
    BY <1>5, <1>6, GeneratorStands, AddRepresents
  <1>8. Represents(DoubleAndAdd(A, v, i), TwiceAnd(Times(h), k))
    BY <1>2, <1>4, <1>5, <1>7 DEF DoubleAndAdd, BitOf, TwiceAnd
  <1>9. CASE k = 0
    <2>1. h = 0 /\ b = 0
      BY <1>2, <1>3, <1>9
    <2>2. TwiceAnd(Times(h), k) = <<>>
      <3>1. Times(h) = <<>> /\ k % 2 # 1
        BY <1>4, <2>1, TimesAre
      <3> QED
        BY <3>1 DEF TwiceAnd, Plus
    <2> QED
      BY <1>8, <1>9, <2>2, TimesAre
  <1>10. CASE k # 0
    <2>1. k \in 1 .. n - 1
      BY <1>1, <1>10
    <2>2. Times(k) = TwiceAnd(Times(h), k)
      BY <1>4, <2>1, TimesAre
    <2> QED
      BY <1>8, <2>2
  <1> QED
    BY <1>9, <1>10

(* scalarmul_jacobian of a scalar below n is that multiple.                *)
THEOREM ScalarmulStands ==
  ASSUME NEW v \in Fe, Value(v) \in 0 .. n - 1
  PROVE  Represents(scalarmul_jacobian(v), Times(Value(v)))
  <1>1. PICK N \in Nat : N = WORD * LIMBS
    BY BitCount
  <1>2. PICK f : IsMultiplying(f, v) /\ scalarmul_jacobian(v) = f[N][j_infinity]
    BY <1>1, MultiplyingExists DEF scalarmul_jacobian, IsMultiplying
  <1>3. /\ \A R \in Points(Fe) : f[0][R] = R
        /\ \A bits \in 1 .. N : \A R \in Points(Fe) :
             f[bits][R] = f[bits - 1][DoubleAndAdd(R, v, bits - 1)]
    BY <1>1, <1>2, MultiplyingLaw
  <1>4. PICK e : ReadsBits(e, v)
    BY BitsExist
  <1>5. /\ e \in [0 .. N -> Nat] /\ e[0] = Value(v) /\ e[N] = 0
        /\ \A i \in 0 .. N - 1 : e[i] = 2 * e[i + 1] + BitOf(v, i)
    BY <1>1, <1>4 DEF ReadsBits
  <1>6. ASSUME NEW i \in 0 .. N PROVE e[i] \in 0 .. n - 1
    <2>1. e[i] <= e[0] /\ e[i] \in Nat
      BY <1>1, <1>4, <1>5, EarlierBits
    <2> QED
      BY <1>5, <2>1, OrderWords
  <1> DEFINE Stands(i) == \A R : Represents(R, Times(e[i])) =>
                                   Represents(f[i][R], Times(e[0]))
             Good == {i \in 0 .. N : Stands(i)}
  <1>7. ASSUME NEW R, NEW Q, Represents(R, Q) PROVE R \in Points(Fe)
    BY <1>7, FieldPointsAreWords DEF Represents
  <1>8. 0 \in Good
    BY <1>3, <1>7
  <1>9. ASSUME NEW i \in Good, i < N PROVE i + 1 \in Good
    <2>1. /\ i + 1 \in 0 .. N /\ i + 1 \in 1 .. N /\ (i + 1) - 1 = i
          /\ i \in 0 .. N - 1 /\ i \in 0 .. N /\ Stands(i)
      BY <1>9
    <2>2. PICK j \in 1 .. N : j = i + 1
      BY <2>1
    <2>3. ASSUME NEW R, Represents(R, Times(e[j])) PROVE Represents(f[j][R], Times(e[0]))
      <3>1. e[i] \in 0 .. n - 1 /\ e[j] \in 0 .. n - 1 /\ e[i] = 2 * e[j] + BitOf(v, i)
        BY <1>5, <1>6, <2>1, <2>2
      <3>2. PICK h \in 0 .. n - 1, k \in 0 .. n - 1 :
              h = e[j] /\ k = e[i] /\ k = 2 * h + BitOf(v, i)
        BY <3>1
      <3>3. Represents(DoubleAndAdd(R, v, i), Times(k))
        BY <2>3, <3>2, DoubleAndAddStands
      <3>4. f[j][R] = f[i][DoubleAndAdd(R, v, i)]
        BY <1>3, <1>7, <2>1, <2>2, <2>3
      <3> QED
        BY <2>1, <3>2, <3>3, <3>4
    <2> QED
      BY <2>1, <2>2, <2>3
  <1>10. N \in Good
    <2>1. Good \in SUBSET Nat
      OBVIOUS
    <2> HIDE DEF Good
    <2> QED
      BY <1>8, <1>9, <2>1, GoodUpTo
  <1>11. Represents(j_infinity, Times(e[N]))
    <2>1. j_infinity \in Points(Field)
      BY FieldClosed, PointType DEF j_infinity, Closed
    <2>2. fe_is_zero(j_infinity.Z)
      BY ZeroIsZeros DEF fe_is_zero, j_infinity, Point
    <2> QED
      BY <1>5, <2>1, <2>2, TimesAre DEF Represents
  <1> QED
    BY <1>2, <1>5, <1>10, <1>11

(* The word 0 has no inverse; fe_inv makes 0 of it, as 0 to the power      *)
(* p - 2: from the first bit of the exponent on, every power is 0.         *)
LEMMA FeInvOfZero ==
  ASSUME NEW a \in Fe, Value(a) = 0
  PROVE  fe_inv(a) \in Field /\ Value(fe_inv(a)) = 0
  <1>1. PICK N \in Nat : N = WORD * LIMBS
    BY BitCount
  <1>2. PICK e : ReadsBits(e, PM2)
    BY BitsExist, ExponentWords
  <1>3. PICK f : IsPowering(f, a) /\ fe_inv(a) = f[N][fe_from_u32(1)]
    BY <1>1, PoweringExists DEF fe_inv, IsPowering
  <1>4. /\ \A r \in Fe : f[0][r] = r
        /\ \A bits \in 1 .. N : \A r \in Fe :
             f[bits][r] = f[bits - 1][SquareAndMultiply(r, a, bits - 1)]
    BY <1>1, <1>3, PoweringLaw
  <1>5. /\ e \in [0 .. N -> Nat] /\ e[0] # 0 /\ e[N] = 0
        /\ \A i \in 0 .. N - 1 : e[i] = 2 * e[i + 1] + BitOf(PM2, i)
    <2>1. p - 2 # 0
      BY ModulusWords, Constants
    <2> QED
      BY <1>1, <1>2, <2>1, ExponentWords DEF ReadsBits
  <1> DEFINE Vanishes(k) == \A r \in Field :
               (e[k] = 0 \/ Value(r) = 0) => f[k][r] \in Field /\ Value(f[k][r]) = 0
             Good == {k \in 0 .. N : Vanishes(k)}
  <1>6. 0 \in Good
    BY <1>4, <1>5 DEF Field
  <1>7. ASSUME NEW k \in Good, k < N PROVE k + 1 \in Good
    <2>1. /\ k + 1 \in 1 .. N /\ (k + 1) - 1 = k /\ k \in 0 .. N - 1
          /\ k + 1 \in 0 .. N /\ Vanishes(k)
      BY <1>7
    <2>2. ASSUME NEW r \in Field, e[k + 1] = 0 \/ Value(r) = 0
          PROVE  f[k + 1][r] \in Field /\ Value(f[k + 1][r]) = 0
      <3>1. PICK s : s = SquareAndMultiply(r, a, k)
        OBVIOUS
      <3>2. r \in Fe /\ f[k + 1][r] = f[k][s]
        BY <1>4, <2>1, <3>1 DEF Field
      <3>3. PICK x \in Nat : x = Value(r) /\ Value(r) = x % p
        BY FieldValues, SmallDivision, ModulusNumbers
      <3>4. PICK m \in Nat \ {0} : m = p
        BY ModulusNumbers
      <3>5. s \in Field /\ Value(s) = (IF Bit(PM2, k) THEN (x * x) * 0 ELSE x * x) % m
        <4>1. /\ s \in Field
              /\ Value(s) = (IF Bit(PM2, k) THEN (x * x) * Value(a) ELSE x * x) % p
          <5>1. Value(r) = x % p /\ r \in Fe /\ a \in Fe /\ x \in Nat
            BY <3>2, <3>3
          <5> QED
            BY ONLY <3>1, <5>1, SquareAndMultiplyIs
        <4> QED
          BY <3>4, <4>1
      <3>6. 0 % m = 0 /\ (x * x) * 0 = 0 /\ 0 * 0 = 0
        BY SmallDivision
      <3>7. e[k] = 0 \/ Value(s) = 0
        <4>1. CASE Bit(PM2, k)
          BY <3>5, <3>6, <4>1
        <4>2. CASE Value(r) = 0
          BY <3>3, <3>5, <3>6, <4>2
        <4>3. CASE ~Bit(PM2, k) /\ e[k + 1] = 0
          BY <1>5, <2>1, <4>3 DEF BitOf
        <4> QED
          BY <2>2, <4>1, <4>2, <4>3
      <3> QED
        BY <2>1, <3>2, <3>5, <3>7
    <2> QED
      BY <2>1, <2>2
  <1>8. N \in Good
    <2>1. Good \in SUBSET Nat
      OBVIOUS
    <2> HIDE DEF Good
    <2> QED
      BY <1>6, <1>7, <2>1, GoodUpTo
  <1> QED
    BY <1>3, <1>5, <1>8, OneWords

(* xy are the words of the pair Q.                                         *)
Writes(xy, Q) == xy \in Field \X Field /\ Q = <<Value(xy[1]), Value(xy[2])>>

(* With the inverse of its Z a point comes out as the pair it stands for.  *)
LEMMA AffineStands ==
  ASSUME NEW A \in Points(Field), NEW x \in 0 .. p - 1, NEW y \in 0 .. p - 1,
         Finite(A, x, y), NEW i, Inverts(i, A.Z)
  PROVE  Writes(ToAffine(A, i), <<x, y>>)
  <1>1. PICK z \in Int : IsAt(A, x, y, z)
    BY DEF Finite
  <1>2. PICK v \in Int, t \in Int : v = Value(i) /\ t = v * z
    BY IsValue DEF Inverts
  <1>3. PICK w \in Int, o \in 0 .. p - 1 : w = Value(A.Z) /\ o = 1 /\ o \in Int
    BY IsValue, ModulusWords, Constants DEF Points
  <1>4. x \in Int /\ y \in Int
    BY ModulusNumbers
  <1>5. Is(i, v) /\ Is(A.Z, z)
    BY <1>1, <1>2, IsValue DEF Inverts, IsAt
  <1>6. Same(t, o)
    <2>1. PICK u \in Int : u = v * w
      OBVIOUS
    <2>2. u % p = o
      BY <1>2, <1>3, <2>1 DEF Inverts
    <2>3. Same(o, u)
      BY <2>1, <2>2, SameModulo
    <2>4. Same(w, z)
      BY <1>3, <1>5 DEF Is
    <2>5. Same(u, t)
      BY <1>2, <2>1, <2>4, SameAs, SameOps
    <2> QED
      BY <1>3, <2>1, <2>3, <2>5, SameAs
  <1>7. PICK tt \in Int, ttt \in Int : tt = t * t /\ ttt = tt * t
    OBVIOUS
  <1>8. Same(tt, o)
    <2>1. Same(t * t, o * o) /\ o * o = o
      BY <1>3, <1>6, SameOps
    <2> QED
      BY <1>7, <2>1
  <1>9. Same(ttt, o)
    <2>1. Same(tt * t, o * o) /\ o * o = o
      BY <1>3, <1>6, <1>8, SameOps
    <2> QED
      BY <1>7, <2>1
  <1>10. PICK a \in Int, b \in Int, c \in Int, d \in Int :
           a = x * (z * z) /\ b = v * v /\ c = y * (z * z * z) /\ d = b * v
    BY <1>4
  <1>11. Is(Square(i), b) /\ Is(fe_mul(Square(i), i), d) /\ Is(A.X, a) /\ Is(A.Y, c)
    <2>1. Is(Square(i), b)
      BY <1>5, <1>10, IsTwiceSquare
    <2>2. Is(fe_mul(Square(i), i), d)
      BY <1>5, <1>10, <2>1, IsOps
    <2> QED
      BY <1>1, <1>10, <2>1, <2>2 DEF IsAt
  <1>12. PICK g, h : g = fe_mul(A.X, Square(i)) /\ h = fe_mul(A.Y, fe_mul(Square(i), i))
    OBVIOUS
  <1>13. Is(g, x)
    <2>1. Is(g, a * b)
      BY <1>11, <1>12, IsOps
    <2>2. a * b = x * tt
      BY <1>2, <1>4, <1>7, <1>10
    <2>3. Same(x * tt, x * o) /\ x * o = x
      BY <1>3, <1>4, <1>8, SameAs, SameOps
    <2>4. PICK k \in Int : k = a * b
      OBVIOUS
    <2> QED
      BY <1>4, <2>1, <2>2, <2>3, <2>4, IsSame
  <1>14. Is(h, y)
    <2>1. Is(h, c * d)
      BY <1>11, <1>12, IsOps
    <2>2. c * d = y * ttt
      BY <1>2, <1>4, <1>7, <1>10
    <2>3. Same(y * ttt, y * o) /\ y * o = y
      BY <1>3, <1>4, <1>9, SameAs, SameOps
    <2>4. PICK k \in Int : k = c * d
      OBVIOUS
    <2> QED
      BY <1>4, <2>1, <2>2, <2>3, <2>4, IsSame
  <1>15. /\ g \in Field /\ h \in Field /\ Value(g) = x /\ Value(h) = y
    BY <1>13, <1>14, FieldValues, SameReduced DEF Is
  <1>16. ToAffine(A, i) = <<g, h>>
    BY <1>12 DEF ToAffine
  <1> QED
    BY <1>15, <1>16 DEF Writes

(* With an inversion of its own too, and at infinity it comes out as zeros. *)
LEMMA AffineWrites ==
  ASSUME NEW A, NEW Q, Represents(A, Q)
  PROVE  Writes(Affine(A), IF Q = <<>> THEN <<0, 0>> ELSE Q)
  <1>1. A \in Points(Field) /\ A.X \in Field /\ A.Y \in Field /\ A.Z \in Field
    BY DEF Represents, Points
  <1>2. A.X \in Fe /\ A.Y \in Fe /\ A.Z \in Fe
    BY <1>1 DEF Field
  <1>3. CASE Q = <<>> /\ fe_is_zero(A.Z)
    <2>1. PICK i : i = fe_inv(A.Z) /\ i \in Field /\ Value(i) = 0
      BY <1>2, <1>3, ZeroWords, FeInvOfZero
    <2>2. PICK m \in Nat \ {0} : m = p
      BY ModulusNumbers
    <2>3. 0 % m = 0 /\ 0 * 0 = 0
      BY SmallDivision
    <2>4. ASSUME NEW a \in Fe, NEW b \in Fe, Value(b) = 0
          PROVE  fe_mul(a, b) \in Field /\ Value(fe_mul(a, b)) = 0
      <3>1. PICK u \in Nat : u = Value(a)
        BY <2>4, ValueType
      <3>2. fe_mul(a, b) \in Field /\ Value(fe_mul(a, b)) = (u * 0) % m
        BY <2>2, <2>4, <3>1, FeMulIs
      <3>3. u * 0 = 0
        BY <3>1
      <3> QED
        BY <2>3, <3>2, <3>3
    <2>5. PICK s : s = Square(i)
      OBVIOUS
    <2>6. s \in Field /\ s \in Fe /\ Value(s) = 0 /\ i \in Fe
      BY <2>1, <2>4, <2>5 DEF Square, Field
    <2>7. fe_mul(s, i) \in Fe /\ Value(fe_mul(s, i)) = 0
      BY <2>1, <2>4, <2>6 DEF Field
    <2>8. /\ fe_mul(A.X, s) \in Field /\ Value(fe_mul(A.X, s)) = 0
          /\ fe_mul(A.Y, fe_mul(s, i)) \in Field /\ Value(fe_mul(A.Y, fe_mul(s, i))) = 0
      BY <1>2, <2>4, <2>6, <2>7
    <2>9. Affine(A) = <<fe_mul(A.X, s), fe_mul(A.Y, fe_mul(s, i))>>
      BY <2>1, <2>5 DEF Affine, ToAffine
    <2> QED
      BY <1>3, <2>8, <2>9 DEF Writes
  <1>4. CASE \E x, y : Coordinates(Q, x, y) /\ Finite(A, x, y)
    <2>1. PICK x, y : Coordinates(Q, x, y) /\ Finite(A, x, y)
      BY <1>4
    <2>2. x \in 0 .. p - 1 /\ y \in 0 .. p - 1 /\ x \in Int /\ y \in Int /\ Q = <<x, y>>
      BY <2>1, ModulusNumbers DEF Coordinates
    <2>3. Value(A.Z) \in 1 .. p - 1
      BY <1>1, <1>2, <2>1, <2>2, FiniteIs, ZeroWords, FieldValues
    <2>4. Inverts(fe_inv(A.Z), A.Z)
      BY <1>2, <2>3, FeInvInverts DEF Inverts
    <2>5. Writes(ToAffine(A, fe_inv(A.Z)), <<x, y>>)
      BY <1>1, <2>1, <2>2, <2>4, AffineStands
    <2> QED
      BY <2>2, <2>5 DEF Affine
  <1> QED
    BY <1>3, <1>4 DEF Represents

(* A number and its remainder modulo n are the same multiple, infinity     *)
(* exactly when that is 0.                                                 *)
LEMMA TimesOfRemainder ==
  ASSUME NEW k \in Nat
  PROVE  /\ k % n \in 0 .. n - 1 /\ Times(k) = Times(k % n)
         /\ Times(k) = <<>> <=> k % n = 0
  <1>1. PICK m \in Nat \ {0} : m = n
    BY OrderWords
  <1>2. PICK i \in 0 .. m - 1 : i = k % m
    BY <1>1
  <1>3. i % m = i
    BY SmallDivision
  <1>4. Times(k) = Times(i)
    BY <1>1, <1>2, <1>3 DEF Times
  <1>5. Times(i) = <<>> <=> i = 0
    <2>1. i # 0 => i \in 1 .. n - 1
      BY <1>1, <1>2
    <2> QED
      BY <2>1, TimesAre
  <1> QED
    BY <1>1, <1>2, <1>4, <1>5

(* The point of a multiple is at infinity exactly when that is.            *)
LEMMA StandsAtInfinity ==
  ASSUME NEW k \in Nat, NEW A, Represents(A, Times(k))
  PROVE  fe_is_zero(A.Z) <=> k % n = 0
  <1>1. ASSUME NEW Q, Represents(A, Q) PROVE fe_is_zero(A.Z) <=> Q = <<>>
    <2>1. ASSUME NEW x, NEW y, Coordinates(Q, x, y), Finite(A, x, y)
          PROVE  ~fe_is_zero(A.Z) /\ Q # <<>>
      <3>1. x \in Int /\ y \in Int /\ Q = <<x, y>>
        BY <2>1, ModulusNumbers DEF Coordinates
      <3> QED
        BY <2>1, <3>1, FiniteIs
    <2> QED
      BY <1>1, <2>1 DEF Represents
  <1> QED
    BY <1>1, TimesOfRemainder

(* No point of the curve is the pair of zeros: b is not 0.                 *)
LEMMA NotTheOrigin ==
  ASSUME NEW k \in 1 .. n - 1
  PROVE  Multiples[k] # <<0, 0>>
  <1>1. k \in Nat /\ Times(k) = Multiples[k] /\ Times(k) # <<>>
    BY OrderWords, TimesAre
  <1>2. PICK x, y : Coordinates(Times(k), x, y) /\ OnCurve(x, y)
    BY <1>1, TimesOfCurve DEF OfCurve
  <1>3. Times(k) = <<x, y>>
    BY <1>2 DEF Coordinates
  <1>4. ASSUME x = 0, y = 0 PROVE FALSE
    <2>1. PICK o \in Int, m \in Nat \ {0} : o = 0 /\ m = p
      BY ModulusNumbers
    <2>2. PICK c \in Int : c = curve_b
      <3>1. Gx \in Int /\ Gy \in Int
        BY KernelAssumption, ModulusNumbers
      <3> QED
        BY <3>1 DEF curve_b
    <2>3. Same(o * o, o * o * o + c) /\ o * o = o /\ o * o * o + c = c
      BY <1>2, <1>4, <2>1, <2>2 DEF OnCurve
    <2>4. Same(o, c)
      BY <2>3
    <2>5. o % p = c % p
      BY <2>1, <2>2, <2>4, SameIffModulo
    <2>6. 0 % m = 0
      BY SmallDivision
    <2> QED
      BY <2>1, <2>2, <2>5, <2>6, GroupAssumption
  <1> QED
    BY <1>1, <1>3, <1>4

(* The point of a key, written out.                                        *)
LEMMA ScalarmulWrites ==
  ASSUME NEW v \in Fe, Value(v) \in 1 .. n - 1
  PROVE  Writes(scalarmul(v), Multiples[Value(v)])
  <1>1. PICK k \in 1 .. n - 1 : k = Value(v)
    OBVIOUS
  <1>2. k \in 0 .. n - 1
    BY OrderWords
  <1>3. Represents(scalarmul_jacobian(v), Times(k))
    BY <1>1, <1>2, ScalarmulStands
  <1>4. Times(k) # <<>> /\ Times(k) = Multiples[k]
    BY TimesAre
  <1>5. Writes(Affine(scalarmul_jacobian(v)), Times(k))
    BY <1>3, <1>4, AffineWrites
  <1> QED
    BY <1>1, <1>4, <1>5 DEF scalarmul

(* From the candidate before to candidate c: only the first adds nothing.  *)
Before(c) == IF c = 0 THEN 0 ELSE c - 1

LEMMA StepStands ==
  ASSUME NEW b \in Nat, NEW c \in Nat, NEW A, Represents(A, Times(b + Before(c)))
  PROVE  Represents(IF c > 0 THEN j_add(A, g_point) ELSE A, Times(b + c))
  <1>1. CASE c = 0
    BY <1>1 DEF Before
  <1>2. CASE c > 0
    <2>1. PICK k \in Nat : k = b + (c - 1)
      BY <1>2
    <2>2. Represents(A, Times(k)) /\ k + 1 = b + c
      BY <1>2, <2>1 DEF Before
    <2>3. Represents(j_add(A, g_point), Times(k + 1))
      BY <2>2, NextStands
    <2> QED
      BY <1>2, <2>2, <2>3
  <1> QED
    BY <1>1, <1>2

----------------------------------------------------------------------------
(* What a thread has emitted, and where it stands                          *)

(* The candidates of a thread.                                             *)
Candidates == IF kernel \in {"derive_test", "ec_test"} THEN 1 ELSE ITERS

(* A candidate with its own key, which opens its point.                    *)
Right(e) ==
  /\ e.it \in 0 .. Candidates - 1 /\ e.key = CandidateKey(e.it)
  /\ IF e.key \in 1 .. n - 1 THEN <<e.x, e.y>> = Multiples[e.key]
     ELSE /\ kernel \notin {"mine", "mine_incremental"}
          /\ e.x = 0 /\ e.y = 0

AllRight(new) == \A e \in new : Right(e)

EmittedIsRight == AllRight(emitted)

(* The running point is that of the candidate before, and the points of    *)
(* the sub-batch are those of its candidates.                              *)
WalkStands ==
  /\ pc = "walk" =>
       /\ Represents(point, Times(Value(base) + Before(it + Len(sub))))
       /\ \A j \in 1 .. Len(sub) :
            Represents(sub[j], Times(Value(base) + (it + j - 1)))
  /\ pc = "raw" => Represents(point, Times(Value(base) + Before(it)))

(* Of the first c candidates every key has been emitted.                   *)
Covered(c) ==
  \A i \in 0 .. c - 1 : CandidateKey(i) \in 1 .. n - 1 => \E e \in emitted : e.it = i

BatchIsWhole ==
  /\ pc # "done" => Covered(it)
  /\ pc = "done" /\ results = <<>> =>
       /\ kernel \notin {"field_test", "scalar_add_mod_n_test"}
       /\ Covered(Candidates)

GroupInv == KernelInv /\ EmittedIsRight /\ WalkStands /\ BatchIsWhole

(* What is right stays right.                                              *)
LEMMA RightGrows ==
  ASSUME EmittedIsRight, UNCHANGED input,
         NEW new, AllRight(new), emitted' = emitted \cup new
  PROVE  EmittedIsRight'
  <1>1. \A e : Right(e) => Right(e)'
    BY DEF input, Right, Candidates, CandidateKey
  <1> QED
    BY <1>1 DEF EmittedIsRight, AllRight

(* No candidate at all is right.                                           *)
LEMMA NothingWrong == AllRight({})
  BY DEF AllRight

(* With the keys of the next candidates more candidates are covered.       *)
LEMMA CoveredGrows ==
  ASSUME NEW c \in Nat, NEW d \in Nat, Covered(c), UNCHANGED input,
         NEW new, emitted' = emitted \cup new,
         \A i \in c .. d - 1 : CandidateKey(i) \in 1 .. n - 1 => \E e \in new : e.it = i
  PROVE  Covered(d)'
  <1>1. \A i : CandidateKey(i)' = CandidateKey(i)
    BY DEF input, CandidateKey
  <1>2. ASSUME NEW i \in 0 .. d - 1, CandidateKey(i) \in 1 .. n - 1
        PROVE  \E e \in emitted' : e.it = i
    <2>1. CASE i \in 0 .. c - 1
      BY <1>2, <2>1 DEF Covered
    <2>2. CASE i \in c .. d - 1
      BY <1>2, <2>2
    <2> QED
      BY <2>1, <2>2
  <1> QED
    BY <1>1, <1>2 DEF Covered

(* What makes a candidate right.                                           *)
LEMMA EmitIsRight ==
  ASSUME NEW i \in 0 .. Candidates - 1, NEW k, Value(k) = CandidateKey(i), NEW xy,
         IF Value(k) \in 1 .. n - 1 THEN Writes(xy, Multiples[Value(k)])
         ELSE /\ kernel \notin {"mine", "mine_incremental"}
              /\ Writes(xy, <<0, 0>>)
  PROVE  Right(Emit(i, k, xy)) /\ Emit(i, k, xy).it = i
  <1>1. PICK e : e = Emit(i, k, xy)
    OBVIOUS
  <1>2. e.it = i /\ e.key = Value(k) /\ e.x = Value(xy[1]) /\ e.y = Value(xy[2])
    BY <1>1 DEF Emit
  <1>3. CASE Value(k) \in 1 .. n - 1
    <2>1. Multiples[Value(k)] = <<e.x, e.y>>
      BY <1>2, <1>3 DEF Writes
    <2> QED
      BY <1>1, <1>2, <1>3, <2>1 DEF Right
  <1>4. CASE Value(k) \notin 1 .. n - 1
    <2>1. <<0, 0>> = <<e.x, e.y>>
      BY <1>2, <1>4 DEF Writes
    <2> QED
      BY <1>1, <1>2, <1>4, <2>1 DEF Right
  <1> QED
    BY <1>3, <1>4

(* The pair of zeros is written as such.                                   *)
LEMMA NoPointWrites == Writes(NoPoint, <<0, 0>>)
  BY NoPointType, ZeroWords DEF Writes, NoPoint

(* The invariant holds at first.                                           *)
LEMMA GroupInitially == Init => GroupInv
  <1> SUFFICES ASSUME Init PROVE GroupInv
    OBVIOUS
  <1>1. EmittedIsRight /\ WalkStands
    BY DEF Init, EmittedIsRight, AllRight, WalkStands
  <1>2. BatchIsWhole
    BY DEF Init, BatchIsWhole, Covered
  <1> QED
    BY <1>1, <1>2, KernelInitially DEF GroupInv

(* A candidate of mine keeps it.                                           *)
LEMMA MineOneStands ==
  ASSUME GroupInv, MineOne
  PROVE  GroupInv'
  <1>0. /\ kernel = "mine" /\ pc # "done" /\ UNCHANGED input
        /\ it' = it + 1 /\ pc' = IF it + 1 < ITERS THEN "next" ELSE "done"
        /\ seed \in Seed /\ counter \in Counter
        /\ it \in 0 .. ITERS - 1 /\ Candidates = ITERS
    BY Batches DEF GroupInv, KernelInv, MineOne, InputIsTaken, WalkIsReduced, Candidates
  <1>1. PICK key \in Fe : key = derive_privkey(seed, counter + it)
    BY <1>0, DigestType
  <1>2. /\ Value(key) = CandidateKey(it)
        /\ scalar_in_range(key) <=> CandidateKey(it) \in 1 .. n - 1
    BY <1>0, <1>1, DigestType, ScalarInRangeIs DEF CandidateKey
  <1>3. PICK new : new = IF scalar_in_range(key) THEN {Emit(it, key, scalarmul(key))} ELSE {}
    OBVIOUS
  <1>4. emitted' = emitted \cup new
    BY <1>1, <1>3 DEF MineOne
  <1>5. scalar_in_range(key) =>
          /\ Right(Emit(it, key, scalarmul(key)))
          /\ Emit(it, key, scalarmul(key)).it = it
    BY <1>0, <1>2, ScalarmulWrites, EmitIsRight
  <1>6. EmittedIsRight'
    <2>1. AllRight(new)
      BY <1>3, <1>5 DEF AllRight
    <2> QED
      BY <1>0, <1>4, <2>1, RightGrows DEF GroupInv
  <1>7. Covered(it)'
    <2>1. PICK c \in Nat, d \in Nat : c = it /\ d = it' /\ c .. d - 1 = {c}
      BY <1>0
    <2>2. Covered(c)
      BY <1>0, <2>1 DEF GroupInv, BatchIsWhole
    <2>3. \A i \in c .. d - 1 : CandidateKey(i) \in 1 .. n - 1 => \E e \in new : e.it = i
      BY <1>2, <1>3, <1>5, <2>1
    <2>4. Covered(d)'
      BY <1>0, <1>4, <2>2, <2>3, CoveredGrows
    <2> QED
      BY <2>1, <2>4 DEF Covered
  <1>8. BatchIsWhole'
    <2>1. it + 1 < ITERS \/ it + 1 = ITERS
      BY <1>0, Batches
    <2>2. kernel' = "mine" /\ Candidates' = ITERS
      BY <1>0 DEF input, Candidates
    <2> QED
      BY <1>0, <1>7, <2>1, <2>2 DEF BatchIsWhole, Covered
  <1>9. WalkStands'
    BY <1>0 DEF WalkStands
  <1> QED
    BY <1>6, <1>8, <1>9, MineOneKeeps DEF GroupInv

(* The base of the walk keeps it.                                          *)
LEMMA StartStands ==
  ASSUME GroupInv, Start
  PROVE  GroupInv'
  <1>0. /\ kernel = "mine_incremental" /\ pc = "start" /\ UNCHANGED input
        /\ UNCHANGED <<it, sub, emitted>>
        /\ seed \in Seed /\ counter \in Counter
        /\ it = 0 /\ sub = <<>>
    BY DEF GroupInv, KernelInv, Start, InputIsTaken, WalkIsReduced
  <1>1. PICK b \in Fe : b = derive_privkey(seed, counter) /\ b = base'
    BY <1>0, FirstDigestType DEF Start
  <1>2. /\ Value(b) = Derive[seed][counter]
        /\ scalar_in_range(b) <=> Value(b) \in 1 .. n - 1
    BY <1>0, <1>1, FirstDigestType, ScalarInRangeIs
  <1>3. /\ scalar_in_range(b) => point' = scalarmul_jacobian(b) /\ pc' = "walk"
        /\ ~scalar_in_range(b) => pc' = "done"
    BY <1>1 DEF Start
  <1>4. WalkStands'
    <2>1. ASSUME scalar_in_range(b) PROVE Represents(point', Times(Value(b)))
      <3>1. Value(b) \in 0 .. n - 1
        BY <1>2, <2>1, OrderWords
      <3> QED
        BY <1>3, <2>1, <3>1, ScalarmulStands
    <2>2. it' + Len(sub') = 0 /\ 1 .. Len(sub') = {} /\ Before(0) = 0
      BY <1>0 DEF Before
    <2>3. Value(b) + 0 = Value(b)
      BY ValueType
    <2> QED
      BY <1>1, <1>3, <2>1, <2>2, <2>3 DEF WalkStands
  <1>5. EmittedIsRight'
    <2>1. emitted' = emitted \cup {}
      BY <1>0
    <2> QED
      BY <1>0, <2>1, NothingWrong, RightGrows DEF GroupInv
  <1>6. BatchIsWhole'
    <2>1. kernel' = "mine_incremental" /\ seed' = seed /\ counter' = counter
      BY <1>0 DEF input
    <2>2. ASSUME ~scalar_in_range(b), NEW i PROVE CandidateKey(i)' = 0
      BY <1>2, <2>1, <2>2 DEF CandidateKey
    <2>3. 0 \notin 1 .. n - 1
      OBVIOUS
    <2>4. 0 .. it' - 1 = {}
      BY <1>0
    <2> QED
      BY <1>3, <2>1, <2>2, <2>3, <2>4 DEF BatchIsWhole, Covered
  <1> QED
    BY <1>4, <1>5, <1>6, StartKeeps DEF GroupInv

(* A step of the walk keeps it.                                            *)
LEMMA WalkStandsOn ==
  ASSUME GroupInv, Walk
  PROVE  GroupInv'
  <1>0. /\ pc = "walk" /\ UNCHANGED input /\ UNCHANGED <<base, it, pc, emitted>>
        /\ sub \in Seq(Points(Field)) /\ it \in Nat /\ base \in Fe
    BY Batches DEF GroupInv, KernelInv, Walk, WalkIsReduced, BaseIsInRange
  <1>1. PICK b \in Nat, l \in Nat, c \in Nat : b = Value(base) /\ l = Len(sub) /\ c = it + l
    BY <1>0, ValueType
  <1>2. /\ Represents(point, Times(b + Before(c)))
        /\ \A j \in 1 .. l : Represents(sub[j], Times(b + (it + j - 1)))
    BY <1>0, <1>1 DEF GroupInv, WalkStands
  <1>3. PICK q : /\ q = IF c > 0 THEN j_add(point, g_point) ELSE point
                 /\ q = point' /\ sub' = Append(sub, q)
    BY <1>1 DEF Walk
  <1>4. Represents(q, Times(b + c))
    BY <1>2, <1>3, StepStands
  <1>5. /\ Len(sub') = l + 1 /\ sub'[l + 1] = q
        /\ \A j \in 1 .. l : sub'[j] = sub[j]
    BY <1>0, <1>1, <1>3
  <1>6. WalkStands'
    <2>1. Before(c + 1) = c /\ it' + Len(sub') = c + 1
      BY <1>0, <1>1, <1>5 DEF Before
    <2>2. ASSUME NEW j \in 1 .. l + 1
          PROVE  Represents(sub'[j], Times(b + (it + j - 1)))
      <3>1. CASE j \in 1 .. l
        BY <1>2, <1>5, <3>1
      <3>2. CASE j = l + 1
        <4>1. it + j - 1 = c
          BY <1>0, <1>1, <3>2
        <4> QED
          BY <1>4, <1>5, <3>2, <4>1
      <3> QED
        BY <3>1, <3>2
    <2> QED
      BY <1>0, <1>1, <1>3, <1>4, <1>5, <2>1, <2>2 DEF WalkStands
  <1>7. EmittedIsRight'
    <2>1. emitted' = emitted \cup {}
      BY <1>0
    <2> QED
      BY <1>0, <2>1, NothingWrong, RightGrows DEF GroupInv
  <1>8. BatchIsWhole'
    <2>1. Covered(it)
      BY <1>0 DEF GroupInv, BatchIsWhole
    <2>2. \A i : CandidateKey(i)' = CandidateKey(i)
      BY <1>0 DEF input, CandidateKey
    <2> QED
      BY <1>0, <2>1, <2>2 DEF BatchIsWhole, Covered
  <1> QED
    BY <1>6, <1>7, <1>8, WalkKeeps DEF GroupInv

(* A finite point of the sub-batch comes out as the multiple it stands for *)
(* by its share of the inversion.                                          *)
LEMMA ShareWrites ==
  ASSUME NEW A, NEW Q, Represents(A, Q), ~fe_is_zero(A.Z),
         NEW i, Inverts(i, BatchZ(A))
  PROVE  Writes(ToAffine(A, i), Q)
  <1>1. A \in Points(Field) /\ Inverts(i, A.Z)
    BY DEF Represents, BatchZ
  <1>2. PICK x, y : Coordinates(Q, x, y) /\ Finite(A, x, y)
    BY DEF Represents
  <1>3. x \in 0 .. p - 1 /\ y \in 0 .. p - 1 /\ Q = <<x, y>>
    BY <1>2 DEF Coordinates
  <1> QED
    BY <1>1, <1>2, <1>3, AffineStands

(* A sub-batch inverted and emitted keeps it.                              *)
LEMMA EmitSubBatchStands ==
  ASSUME GroupInv, EmitSubBatch
  PROVE  GroupInv'
  <1>0. /\ pc = "walk" /\ kernel = "mine_incremental" /\ UNCHANGED input
        /\ UNCHANGED <<base, point>> /\ sub' = <<>>
        /\ sub \in Seq(Points(Field))
        /\ it \in 0 .. ITERS - 1 /\ it' = it + Len(sub)
        /\ base \in Fe /\ Value(base) = Derive[seed][counter]
        /\ Value(base) \in 1 .. n - 1
        /\ pc' = IF it' < ITERS THEN "walk" ELSE "done"
        /\ Candidates = ITERS
    BY Batches DEF GroupInv, KernelInv, EmitSubBatch, WalkIsReduced, BaseIsInRange,
                   InputIsTaken, Candidates
  <1>1. PICK k \in Nat \ {0} : k = Len(sub) /\ k <= ITERS - it /\ DOMAIN sub = 1 .. k
    <2>1. Len(sub) = SubBatch
      BY DEF EmitSubBatch
    <2>2. SubBatch \in Nat \ {0} /\ SubBatch <= ITERS - it
      BY <1>0, Batches DEF SubBatch
    <2> QED
      BY <1>0, <2>1, <2>2
  <1>2. PICK b \in 1 .. n - 1 : b = Value(base) /\ b \in Nat
    BY <1>0, OrderWords
  <1>3. ASSUME NEW j \in 1 .. k
        PROVE  /\ Represents(sub[j], Times(b + (it + j - 1)))
               /\ Inverts(SubInverses[j], BatchZ(sub[j]))
    <2>1. sub # <<>>
      BY <1>1
    <2> QED
      BY <1>0, <1>1, <1>2, <2>1, SubInversesAre DEF GroupInv, WalkStands
  <1> DEFINE Of(j) == Emit(it + j - 1, scalar_add_small(base, it + j - 1),
                           ToAffine(sub[j], SubInverses[j]))
  <1>4. PICK new : new = {Of(j) : j \in {i \in DOMAIN sub : ~fe_is_zero(sub[i].Z)}}
    OBVIOUS
  <1>5. emitted' = emitted \cup new
    BY <1>4 DEF EmitSubBatch
  <1>6. ASSUME NEW j \in 1 .. k
        PROVE  /\ it + j - 1 \in 0 .. ITERS - 1 /\ it + j - 1 \in Nat
               /\ CandidateKey(it + j - 1) = (b + (it + j - 1)) % n
               /\ fe_is_zero(sub[j].Z) <=> (b + (it + j - 1)) % n = 0
               /\ ~fe_is_zero(sub[j].Z) => Right(Of(j)) /\ Of(j).it = it + j - 1
    <2>1. PICK i \in 0 .. ITERS - 1 : i = it + j - 1 /\ i \in 0 .. ITERS /\ i \in Nat
      BY <1>0, <1>1, Batches
    <2>2. PICK s \in Nat : s = b + i
      BY <1>2, <2>1
    <2>3. Represents(sub[j], Times(s))
      BY <1>3, <2>1, <2>2
    <2>4. CandidateKey(i) = s % n
      BY <1>0, <1>2, <2>2 DEF CandidateKey
    <2>5. fe_is_zero(sub[j].Z) <=> s % n = 0
      BY <2>2, <2>3, StandsAtInfinity
    <2>6. ASSUME ~fe_is_zero(sub[j].Z) PROVE Right(Of(j)) /\ Of(j).it = i
      <3>1. PICK key : key = scalar_add_small(base, i)
        OBVIOUS
      <3>2. PICK r \in 0 .. n - 1 : r = s % n /\ Times(s) = Times(r)
        BY TimesOfRemainder
      <3>3. Value(key) = r
        <4>1. b < n
          BY <1>2, OrderWords
        <4> QED
          BY <1>0, <1>2, <2>1, <2>2, <3>1, <3>2, <4>1, ScalarAddSmallIs
      <3>4. r \in 1 .. n - 1
        BY <2>5, <2>6, <3>2, OrderWords
      <3>5. PICK xy : xy = ToAffine(sub[j], SubInverses[j])
        OBVIOUS
      <3>6. Writes(xy, Times(s))
        BY <1>3, <2>3, <2>6, <3>5, ShareWrites
      <3>7. Times(r) = Multiples[r]
        BY <3>4, TimesAre
      <3>8. Right(Emit(i, key, xy)) /\ Emit(i, key, xy).it = i
        BY <1>0, <2>1, <2>4, <3>2, <3>3, <3>4, <3>6, <3>7, EmitIsRight
      <3> QED
        BY <2>1, <3>1, <3>5, <3>8
    <2> QED
      BY <2>1, <2>2, <2>4, <2>5, <2>6
  <1>7. EmittedIsRight'
    <2>1. AllRight(new)
      <3>1. ASSUME NEW e \in new PROVE Right(e)
        <4>1. PICK j \in 1 .. k : e = Of(j) /\ ~fe_is_zero(sub[j].Z)
          BY <1>1, <1>4
        <4> HIDE DEF Of
        <4> QED
          BY <1>6, <4>1
      <3> QED
        BY <3>1 DEF AllRight
    <2> QED
      BY <1>0, <1>5, <2>1, RightGrows DEF GroupInv
  <1>8. Covered(it)'
    <2>1. PICK c \in Nat, d \in Nat : c = it /\ d = it' /\ d = c + k
      <3>1. it \in Nat /\ it' = it + k
        BY <1>0, <1>1
      <3> QED
        BY <3>1
    <2>2. Covered(c)
      BY <1>0, <2>1 DEF GroupInv, BatchIsWhole
    <2>3. ASSUME NEW i \in c .. d - 1, CandidateKey(i) \in 1 .. n - 1
          PROVE  \E e \in new : e.it = i
      <3>1. PICK j \in 1 .. k : i = it + j - 1
        <4>1. i - c + 1 \in 1 .. k /\ i = c + (i - c + 1) - 1
          BY <2>1
        <4> QED
          BY <2>1, <4>1
      <3>2. CandidateKey(i) # 0
        BY <2>3
      <3>3. ~fe_is_zero(sub[j].Z)
        BY <1>6, <3>1, <3>2
      <3>4. Of(j).it = i
        <4> HIDE DEF Of
        <4> QED
          BY <1>6, <3>1, <3>3
      <3>5. Of(j) \in new
        BY <1>1, <1>4, <3>3
      <3> HIDE DEF Of
      <3> QED
        BY <3>4, <3>5
    <2>4. Covered(d)'
      BY <1>0, <1>5, <2>1, <2>2, <2>3, CoveredGrows
    <2> QED
      BY <2>1, <2>4 DEF Covered
  <1>9. BatchIsWhole'
    <2>1. it' < ITERS \/ it' = ITERS
      BY <1>0, <1>1, Batches
    <2>2. kernel' = "mine_incremental" /\ Candidates' = ITERS
      BY <1>0 DEF input, Candidates
    <2> QED
      BY <1>0, <1>8, <2>1, <2>2 DEF BatchIsWhole, Covered
  <1>10. WalkStands'
    <2>1. Represents(point, Times(b + Before(it + k)))
      BY <1>0, <1>1, <1>2 DEF GroupInv, WalkStands
    <2>2. it' + Len(sub') = it + k /\ 1 .. Len(sub') = {}
      BY <1>0, <1>1
    <2>3. pc' # "raw"
      BY <1>0
    <2> QED
      BY <1>0, <1>2, <2>1, <2>2, <2>3 DEF WalkStands
  <1> QED
    BY <1>7, <1>9, <1>10, EmitSubBatchKeeps DEF GroupInv

(* The base given to raw_test keeps it.                                    *)
LEMMA RawStartStands ==
  ASSUME GroupInv, RawStart
  PROVE  GroupInv'
  <1>0. /\ kernel = "mine_incremental_raw_test" /\ pc = "start" /\ pc' = "raw"
        /\ UNCHANGED input /\ UNCHANGED <<it, sub, emitted>>
        /\ seed \in 0 .. n - 1 /\ it = 0
    BY DEF GroupInv, KernelInv, RawStart, InputIsTaken, WalkIsReduced
  <1>1. PICK b \in Fe : b = Limbs(seed) /\ Value(b) = seed /\ b = base'
    <2>1. seed \in Nat /\ seed < Weight[LIMBS]
      BY <1>0, Batches
    <2> QED
      BY <2>1, LimbsValue DEF RawStart
  <1>2. WalkStands'
    <2>1. Represents(point', Times(Value(b)))
      BY <1>0, <1>1, ScalarmulStands DEF RawStart
    <2>2. Value(b) + Before(it') = Value(b)
      BY <1>0, ValueType DEF Before
    <2> QED
      BY <1>0, <1>1, <2>1, <2>2 DEF WalkStands
  <1>3. EmittedIsRight'
    <2>1. emitted' = emitted \cup {}
      BY <1>0
    <2> QED
      BY <1>0, <2>1, NothingWrong, RightGrows DEF GroupInv
  <1>4. BatchIsWhole'
    BY <1>0 DEF BatchIsWhole, Covered
  <1> QED
    BY <1>2, <1>3, <1>4, RawStartKeeps DEF GroupInv

(* A step of raw_test keeps it.                                            *)
LEMMA RawWalkStands ==
  ASSUME GroupInv, RawWalk
  PROVE  GroupInv'
  <1>0. /\ pc = "raw" /\ kernel = "mine_incremental_raw_test" /\ UNCHANGED input
        /\ UNCHANGED <<base, sub>>
        /\ it \in 0 .. ITERS - 1 /\ it \in Nat
        /\ base \in Fe /\ Value(base) = seed /\ seed \in 0 .. n - 1
        /\ it' = it + 1 /\ pc' = IF it' < ITERS THEN "raw" ELSE "done"
        /\ Candidates = ITERS
    BY Batches DEF GroupInv, KernelInv, RawWalk, WalkIsReduced, BaseIsInRange,
                   InputIsTaken, Candidates
  <1>1. PICK b \in 0 .. n - 1, s \in Nat : b = Value(base) /\ b \in Nat /\ s = b + it
    <2>1. Value(base) \in 0 .. n - 1 /\ Value(base) \in Nat
      BY <1>0, OrderWords
    <2> QED
      BY <1>0, <2>1
  <1>2. PICK q : /\ q = IF it > 0 THEN j_add(point, g_point) ELSE point
                 /\ q = point'
    BY DEF RawWalk
  <1>3. Represents(q, Times(s))
    <2>1. Represents(point, Times(b + Before(it)))
      BY <1>0, <1>1 DEF GroupInv, WalkStands
    <2> QED
      BY <1>0, <1>1, <1>2, <2>1, StepStands
  <1>4. CandidateKey(it) = s % n /\ (fe_is_zero(q.Z) <=> s % n = 0)
    BY <1>0, <1>1, <1>3, StandsAtInfinity DEF CandidateKey
  <1>5. PICK e : e = IF fe_is_zero(q.Z) THEN Emit(it, Zeros(LIMBS), NoPoint)
                     ELSE Emit(it, scalar_add_small(base, it), Affine(q))
    OBVIOUS
  <1>6. emitted' = emitted \cup {e}
    BY <1>2, <1>5 DEF RawWalk
  <1>7. Right(e) /\ e.it = it
    <2>1. CASE fe_is_zero(q.Z)
      <3>1. Value(Zeros(LIMBS)) = CandidateKey(it) /\ Value(Zeros(LIMBS)) \notin 1 .. n - 1
        BY <1>4, <2>1, ZeroWords
      <3> QED
        BY <1>0, <1>5, <2>1, <3>1, NoPointWrites, EmitIsRight
    <2>2. CASE ~fe_is_zero(q.Z)
      <3>1. PICK key : key = scalar_add_small(base, it)
        OBVIOUS
      <3>2. PICK r \in 0 .. n - 1 : r = s % n /\ Times(s) = Times(r)
        BY TimesOfRemainder
      <3>3. Value(key) = r
        <4>1. b < n /\ it \in 0 .. ITERS
          BY <1>0, <1>1, Batches
        <4> QED
          BY <1>0, <1>1, <3>1, <3>2, <4>1, ScalarAddSmallIs
      <3>4. r \in 1 .. n - 1
        BY <1>4, <2>2, <3>2, OrderWords
      <3>5. Times(r) = Multiples[r] /\ Times(r) # <<>>
        BY <3>4, TimesAre
      <3>6. Writes(Affine(q), Times(s))
        BY <1>3, <3>2, <3>5, AffineWrites
      <3>7. Right(Emit(it, key, Affine(q))) /\ Emit(it, key, Affine(q)).it = it
        BY <1>0, <1>4, <3>2, <3>3, <3>4, <3>5, <3>6, EmitIsRight
      <3> QED
        BY <1>5, <2>2, <3>1, <3>7
    <2> QED
      BY <2>1, <2>2
  <1>8. EmittedIsRight'
    <2>1. AllRight({e})
      BY <1>7 DEF AllRight
    <2> QED
      BY <1>0, <1>6, <2>1, RightGrows DEF GroupInv
  <1>9. Covered(it)'
    <2>1. PICK c \in Nat, d \in Nat : c = it /\ d = it' /\ c .. d - 1 = {c}
      BY <1>0
    <2>2. Covered(c)
      BY <1>0, <2>1 DEF GroupInv, BatchIsWhole
    <2>3. \A i \in c .. d - 1 : CandidateKey(i) \in 1 .. n - 1 => \E f \in {e} : f.it = i
      BY <1>7, <2>1
    <2>4. Covered(d)'
      BY <1>0, <1>6, <2>2, <2>3, CoveredGrows
    <2> QED
      BY <2>1, <2>4 DEF Covered
  <1>10. BatchIsWhole'
    <2>1. it' < ITERS \/ it' = ITERS
      BY <1>0, Batches
    <2>2. kernel' = "mine_incremental_raw_test" /\ Candidates' = ITERS
      BY <1>0 DEF input, Candidates
    <2> QED
      BY <1>0, <1>9, <2>1, <2>2 DEF BatchIsWhole, Covered
  <1>11. WalkStands'
    <2>1. Before(it') = it
      BY <1>0 DEF Before
    <2>2. pc' # "walk"
      BY <1>0
    <2> QED
      BY <1>0, <1>1, <1>2, <1>3, <2>1, <2>2 DEF WalkStands
  <1> QED
    BY <1>8, <1>10, <1>11, RawWalkKeeps DEF GroupInv

(* A thread of one candidate, right and done, keeps it.                    *)
LEMMA OnlyCandidateStands ==
  ASSUME kernel \in {"derive_test", "ec_test"}, GroupInv, KernelInv',
         UNCHANGED input, pc' = "done",
         NEW e, Right(e), e.it = 0, emitted' = {e}
  PROVE  GroupInv'
  <1>1. Right(e)'
    BY DEF input, Right, Candidates, CandidateKey
  <1>2. EmittedIsRight'
    BY <1>1 DEF EmittedIsRight, AllRight
  <1>3. BatchIsWhole'
    <2>1. /\ kernel' = kernel /\ Candidates' = 1
          /\ kernel \notin {"field_test", "scalar_add_mod_n_test"}
      BY DEF input, Candidates
    <2>2. \A i \in 0 .. 1 - 1 : \E f \in emitted' : f.it = i
      OBVIOUS
    <2> QED
      BY <2>1, <2>2 DEF BatchIsWhole, Covered
  <1>4. WalkStands'
    BY DEF WalkStands
  <1> QED
    BY <1>2, <1>3, <1>4 DEF GroupInv

(* derive_test keeps it.                                                   *)
LEMMA DeriveTestStands ==
  ASSUME GroupInv, DeriveTest
  PROVE  GroupInv'
  <1>0. /\ kernel = "derive_test" /\ pc' = "done" /\ UNCHANGED input
        /\ seed \in Seed /\ counter \in Counter
        /\ emitted' = {DeriveThread(seed, counter)}
        /\ 0 \in 0 .. Candidates - 1
    BY DEF GroupInv, KernelInv, DeriveTest, InputIsTaken, Candidates
  <1>1. PICK key \in Fe : /\ key = derive_privkey(seed, counter)
                          /\ Value(key) = Derive[seed][counter]
    BY <1>0, FirstDigestType
  <1>2. PICK xy : xy = IF scalar_in_range(key) THEN scalarmul(key) ELSE NoPoint
    OBVIOUS
  <1>3. CandidateKey(0) = Value(key)
    BY <1>0, <1>1, FirstDigestType DEF CandidateKey
  <1>4. IF Value(key) \in 1 .. n - 1 THEN Writes(xy, Multiples[Value(key)])
        ELSE Writes(xy, <<0, 0>>)
    BY <1>2, ScalarInRangeIs, ScalarmulWrites, NoPointWrites
  <1>5. Right(Emit(0, key, xy)) /\ Emit(0, key, xy).it = 0
    BY <1>0, <1>3, <1>4, EmitIsRight
  <1>6. emitted' = {Emit(0, key, xy)}
    BY <1>0, <1>1, <1>2 DEF DeriveThread
  <1> QED
    BY <1>0, <1>5, <1>6, DeriveTestKeeps, OnlyCandidateStands DEF GroupInv

(* run_scalarmul keeps it, of the key 0 too.                               *)
LEMMA EcTestStands ==
  ASSUME GroupInv, EcTest
  PROVE  GroupInv'
  <1>0. /\ kernel = "ec_test" /\ pc' = "done" /\ UNCHANGED input
        /\ seed \in 0 .. n - 1
        /\ emitted' = {EcThread(Limbs(seed))}
        /\ 0 \in 0 .. Candidates - 1
    BY DEF GroupInv, KernelInv, EcTest, InputIsTaken, Candidates
  <1>1. PICK key \in Fe : key = Limbs(seed) /\ Value(key) = seed
    <2>1. seed \in Nat /\ seed < Weight[LIMBS]
      BY <1>0, Batches
    <2> QED
      BY <2>1, LimbsValue
  <1>2. CandidateKey(0) = Value(key)
    <2>1. PICK s \in 0 .. n - 1 : s = seed
      BY <1>0
    <2>2. s + 0 = s /\ s % n = s
      BY Batches, SmallDivision
    <2> QED
      BY <1>0, <1>1, <2>1, <2>2 DEF CandidateKey
  <1>3. PICK xy : xy = scalarmul(key)
    OBVIOUS
  <1>4. IF Value(key) \in 1 .. n - 1 THEN Writes(xy, Multiples[Value(key)])
        ELSE Writes(xy, <<0, 0>>)
    <2>1. CASE Value(key) \in 1 .. n - 1
      BY <1>3, <2>1, ScalarmulWrites
    <2>2. CASE Value(key) \notin 1 .. n - 1
      <3>1. Value(key) = 0 /\ Value(key) \in 0 .. n - 1
        BY <1>0, <1>1, <2>2, OrderWords
      <3>2. Represents(scalarmul_jacobian(key), <<>>)
        BY <3>1, ScalarmulStands, TimesAre
      <3> QED
        BY <1>3, <2>2, <3>2, AffineWrites DEF scalarmul
    <2> QED
      BY <2>1, <2>2
  <1>5. Right(Emit(0, key, xy)) /\ Emit(0, key, xy).it = 0
    BY <1>0, <1>2, <1>4, EmitIsRight
  <1>6. emitted' = {Emit(0, key, xy)}
    BY <1>0, <1>1, <1>3 DEF EcThread
  <1> QED
    BY <1>0, <1>5, <1>6, EcTestKeeps, OnlyCandidateStands DEF GroupInv

(* A test of the arithmetic mines nothing and has results.                 *)
LEMMA TestStands ==
  ASSUME GroupInv, KernelInv', UNCHANGED <<input, mining>>, pc' = "done", results' # <<>>
  PROVE  GroupInv'
  <1>1. UNCHANGED input /\ emitted' = emitted \cup {}
    BY DEF mining
  <1>2. EmittedIsRight'
    BY <1>1, NothingWrong, RightGrows DEF GroupInv
  <1> QED
    BY <1>2 DEF GroupInv, WalkStands, BatchIsWhole

(* A step that changes nothing keeps it.                                   *)
LEMMA StutterStands ==
  ASSUME GroupInv, UNCHANGED vars
  PROVE  GroupInv'
  <1>1. EmittedIsRight' /\ WalkStands' /\ BatchIsWhole'
    BY DEF GroupInv, vars, input, mining, EmittedIsRight, AllRight, Right, Candidates,
           CandidateKey, WalkStands, BatchIsWhole, Covered
  <1> QED
    BY <1>1, StutterKeeps DEF GroupInv

(* The inductive invariant that knows the group.                           *)
THEOREM GroupInvariant == Spec => []GroupInv
  <1>1. GroupInv /\ [Next]_vars => GroupInv'
    <2> SUFFICES ASSUME GroupInv, [Next]_vars PROVE GroupInv'
      OBVIOUS
    <2>1. ASSUME FieldTest \/ InverseTest \/ ScalarAddTest PROVE GroupInv'
      <3>1. /\ UNCHANGED <<input, mining>> /\ pc' = "done"
            /\ kernel \notin {"mine", "mine_incremental"}
        BY <2>1 DEF FieldTest, InverseTest, ScalarAddTest
      <3>2. results' # <<>>
        <4>1. \A op, a, out : [op |-> op, a |-> a, out |-> out] # <<>>
          OBVIOUS
        <4> QED
          BY <2>1, <4>1 DEF FieldTest, InverseTest, ScalarAddTest
      <3> QED
        BY <3>1, <3>2, TestKeeps, TestStands DEF GroupInv
    <2>2. ASSUME Done PROVE GroupInv'
      BY <2>2, StutterStands DEF Done
    <2> QED
      BY <2>1, <2>2, MineOneStands, StartStands, WalkStandsOn, EmitSubBatchStands,
         RawStartStands, RawWalkStands, DeriveTestStands, EcTestStands, StutterStands
      DEF Next
  <1> QED
    BY <1>1, GroupInitially, PTL DEF Spec

(* Every candidate emitted is a valid key with the point of that key; only *)
(* the kernels of tests answer with no address.                            *)
THEOREM KeysAlwaysOpenPoints == Spec => []KeysOpenPoints
  <1>1. GroupInv => KeysOpenPoints
    BY DEF GroupInv, EmittedIsRight, AllRight, Right, KeysOpenPoints
  <1> QED
    BY <1>1, GroupInvariant, PTL

(* No valid key of a batch is skipped and every key is that of its         *)
(* candidate, in every kernel and through every special case.              *)
THEOREM NeverSkipped == Spec => []NoCandidateSkipped
  <1>1. GroupInv => NoCandidateSkipped
    <2> SUFFICES ASSUME GroupInv, pc = "done", results = <<>>
                 PROVE  {<<e.it, e.key>> : e \in {f \in emitted : f.x # 0 \/ f.y # 0}} =
                          {<<i, CandidateKey(i)>> :
                             i \in {j \in 0 .. Candidates - 1 :
                                      CandidateKey(j) \in 1 .. n - 1}}
      <3>1. Candidates - 1 = IF kernel \in {"derive_test", "ec_test"} THEN 0 ELSE ITERS - 1
        BY DEF Candidates
      <3> QED
        BY <3>1 DEF NoCandidateSkipped
    <2>1. ASSUME NEW e \in emitted, e.x # 0 \/ e.y # 0
          PROVE  /\ e.it \in 0 .. Candidates - 1 /\ e.key = CandidateKey(e.it)
                 /\ CandidateKey(e.it) \in 1 .. n - 1
      BY <2>1 DEF GroupInv, EmittedIsRight, AllRight, Right
    <2>2. ASSUME NEW i \in 0 .. Candidates - 1, CandidateKey(i) \in 1 .. n - 1
          PROVE  \E e \in emitted : /\ e.it = i /\ e.key = CandidateKey(i)
                                    /\ e.x # 0 \/ e.y # 0
      <3>1. PICK e \in emitted : e.it = i
        BY <2>2 DEF GroupInv, BatchIsWhole, Covered
      <3>2. e.key = CandidateKey(i) /\ <<e.x, e.y>> = Multiples[e.key]
        BY <2>2, <3>1 DEF GroupInv, EmittedIsRight, AllRight, Right
      <3>3. Multiples[e.key] # <<0, 0>>
        BY <2>2, <3>2, NotTheOrigin
      <3> QED
        BY <3>1, <3>2, <3>3
    <2> QED
      BY <2>1, <2>2
  <1> QED
    BY <1>1, GroupInvariant, PTL

=============================================================================
