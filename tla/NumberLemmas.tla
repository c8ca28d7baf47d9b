---------------------------- MODULE NumberLemmas ----------------------------
(***************************************************************************)
(* What the proofs know of numbers.  The library states induction with an  *)
(* operator for a parameter, which no prover here can instantiate; stated  *)
(* of the set of the good cases it needs none.  From it: recursion over    *)
(* the numbers up to a bound, loops in which a number falls, division,     *)
(* powers, folds over the subsets of a finite set, the sums SumFunction    *)
(* computes, and Fermat's theorem.                                         *)
(***************************************************************************)
EXTENDS Integers, FiniteSets, Functions, FiniteSetTheorems,
        WellFoundedInduction, TLAPS

(* A set of naturals with 0 and the successor of each element has them all. *)
LEMMA GoodNaturals ==
  ASSUME NEW Good \in SUBSET Nat, 0 \in Good, \A n \in Good : n + 1 \in Good
  PROVE  Good = Nat
  <1> DEFINE Bad == Nat \ Good
  <1> SUFFICES ASSUME Bad # {} PROVE FALSE
    OBVIOUS
  <1>1. IsWellFoundedOn(OpToRel(<, Nat), Nat)
    BY NatLessThanWellFounded
  <1>2. Bad \subseteq Nat
    OBVIOUS
  <1>3. \E n \in Bad : \A m \in Bad : ~(<<m, n>> \in OpToRel(<, Nat))
    <2> HIDE DEF Bad
    <2> QED
      BY <1>1, <1>2, WFMin
  <1>4. PICK n \in Bad : \A m \in Bad : ~(m < n)
    BY <1>3 DEF OpToRel
  <1>5. n # 0 /\ n - 1 \in Nat /\ n - 1 \notin Bad
    BY <1>4
  <1> QED
    BY <1>5

(* The same up to a bound.                                                 *)
LEMMA GoodUpTo ==
  ASSUME NEW N \in Nat, NEW Good \in SUBSET Nat, 0 \in Good,
         \A i \in Good : i < N => i + 1 \in Good
  PROVE  \A i \in 0 .. N : i \in Good
  <1> DEFINE Fine == {i \in Nat : i <= N => i \in Good}
  <1>1. ASSUME NEW i \in Fine PROVE i + 1 \in Fine
    <2> SUFFICES ASSUME i + 1 <= N PROVE i + 1 \in Good
      OBVIOUS
    <2>1. i \in Good /\ i < N
      OBVIOUS
    <2> QED
      BY <2>1
  <1>2. Fine = Nat
    <2>1. Fine \in SUBSET Nat /\ 0 \in Fine
      OBVIOUS
    <2> HIDE DEF Fine
    <2> QED
      BY <1>1, <2>1, GoodNaturals
  <1> QED
    BY <1>2

----------------------------------------------------------------------------
(* Recursion over the numbers up to N                                      *)

(* f[i] is what the first i steps make of first.                           *)
IsSteps(f, S, first, step, N) ==
  /\ f \in [0 .. N -> S] /\ f[0] = first
  /\ \A i \in 1 .. N : f[i] = step[i][f[i - 1]]

(* Steps that stay in S can be taken one after the other.                  *)
LEMMA StepsExist ==
  ASSUME NEW S, NEW first \in S, NEW N \in Nat, NEW step \in [1 .. N -> [S -> S]]
  PROVE  \E f : IsSteps(f, S, first, step, N)
  <1> USE DEF IsSteps
  <1> DEFINE Good == {n \in Nat : n <= N => \E f : IsSteps(f, S, first, step, n)}
  <1>1. 0 \in Good
    <2>1. IsSteps([i \in 0 .. 0 |-> first], S, first, step, 0)
      OBVIOUS
    <2> QED
      BY <2>1
  <1>2. ASSUME NEW n \in Good PROVE n + 1 \in Good
    <2> SUFFICES ASSUME n + 1 <= N
                 PROVE  \E f : IsSteps(f, S, first, step, n + 1)
      OBVIOUS
    <2>1. PICK f : IsSteps(f, S, first, step, n)
      OBVIOUS
    <2> DEFINE g == [i \in 0 .. n + 1 |-> IF i = n + 1 THEN step[n + 1][f[n]]
                                                       ELSE f[i]]
    <2>2. n \in Nat /\ n + 1 \in 1 .. N /\ f[n] \in S
      BY <2>1
    <2>3. step[n + 1][f[n]] \in S
      BY <2>2
    <2>4. /\ g \in [0 .. n + 1 -> S]
          /\ g[n + 1] = step[n + 1][f[n]] /\ \A i \in 0 .. n : g[i] = f[i]
      BY <2>1, <2>2, <2>3
    <2> HIDE DEF g
    <2>5. g[0] = first
      BY <2>1, <2>2, <2>4
    <2>6. ASSUME NEW i \in 1 .. n + 1 PROVE g[i] = step[i][g[i - 1]]
      <3>1. CASE i = n + 1
        <4>1. i - 1 = n /\ g[n] = f[n]
          BY <2>2, <2>4, <3>1
        <4> QED
          BY <2>4, <3>1, <4>1
      <3>2. CASE i # n + 1
        <4>1. i \in 1 .. n /\ i - 1 \in 0 .. n /\ i \in 0 .. n
          BY <2>2, <3>2
        <4> QED
          BY <2>1, <2>4, <4>1
      <3> QED
        BY <3>1, <3>2
    <2> QED
      BY <2>4, <2>5, <2>6
  <1>3. Good = Nat
    <2>1. Good \in SUBSET Nat
      OBVIOUS
    <2> HIDE DEF Good
    <2> QED
      BY <1>1, <1>2, <2>1, GoodNaturals
  <1> QED
    BY <1>3

(* f is a function of the numbers up to n, whatever its values are.        *)
IsTable(f, n) == f = [i \in 0 .. n |-> f[i]]

(* Two functions that start alike and step alike are the same.             *)
LEMMA SameSteps ==
  ASSUME NEW N \in Nat, NEW f, NEW g,
         IsTable(f, N), IsTable(g, N),
         f[0] = g[0],
         \A i \in 1 .. N : f[i - 1] = g[i - 1] => f[i] = g[i]
  PROVE  f = g
  <1> DEFINE Good == {n \in Nat : n <= N => f[n] = g[n]}
  <1>1. ASSUME NEW n \in Good PROVE n + 1 \in Good
    <2> SUFFICES ASSUME n + 1 <= N PROVE f[n + 1] = g[n + 1]
      OBVIOUS
    <2>1. n \in Nat /\ n <= N /\ (n <= N => f[n] = g[n])
      BY ONLY n \in Good, n + 1 <= N, N \in Nat
    <2>2. n + 1 \in 1 .. N /\ (n + 1) - 1 = n
      BY ONLY <2>1, n + 1 <= N, N \in Nat
    <2>3. f[(n + 1) - 1] = g[(n + 1) - 1]
      BY Zenon, <2>1, <2>2
    <2> QED
      BY Zenon, <2>2, <2>3
  <1>2. Good = Nat
    <2>1. Good \in SUBSET Nat /\ 0 \in Good
      OBVIOUS
    <2> HIDE DEF Good
    <2> QED
      BY <1>1, <2>1, GoodNaturals
  <1>3. \A i \in 0 .. N : f[i] = g[i]
    BY <1>2
  <1> QED
    BY <1>3 DEF IsTable

----------------------------------------------------------------------------
(* Loops that end because a number falls                                   *)

(* f[u] is what the loop leaves of u: it goes on in G, by step.            *)
IsLoop(f, D, G, step) ==
  \A u \in D : f[u] = IF u \in G THEN f[step[u]] ELSE u

(* A loop in which a bounded number falls has a result.                    *)
LEMMA LoopExists ==
  ASSUME NEW D, NEW G \in SUBSET D, NEW step \in [D -> D], NEW N \in Nat,
         NEW m \in [D -> 0 .. N], \A u \in G : m[step[u]] < m[u]
  PROVE  \E f \in [D -> D] : IsLoop(f, D, G, step)
  <1> DEFINE Low(k) == {u \in D : m[u] <= k}
             Works(f, k) == f \in [Low(k) -> D] /\ IsLoop(f, Low(k), G, step)
             Good == {k \in Nat : \E f : Works(f, k)}
  <1>1. 0 \in Good
    <2> DEFINE f == [u \in Low(0) |-> u]
    <2>1. ASSUME NEW u \in Low(0) PROVE u \notin G /\ f[u] = u
      <3>1. m[u] = 0
        OBVIOUS
      <3>2. ASSUME u \in G PROVE FALSE
        <4>1. m[step[u]] \in Nat /\ m[step[u]] < m[u]
          BY <3>2
        <4> QED
          BY <3>1, <4>1
      <3> QED
        BY <3>2
    <2>2. f \in [Low(0) -> D]
      OBVIOUS
    <2>3. Works(f, 0)
      BY <2>1, <2>2 DEF IsLoop
    <2> QED
      BY <2>3
  <1>2. ASSUME NEW k \in Good PROVE k + 1 \in Good
    <2>1. PICK f : Works(f, k)
      OBVIOUS
    <2> DEFINE g == [u \in Low(k + 1) |->
                       IF u \in Low(k) THEN f[u]
                       ELSE IF u \in G THEN f[step[u]] ELSE u]
    <2>2. k \in Nat
      OBVIOUS
    <2>3. ASSUME NEW u \in Low(k + 1), u \in G
          PROVE  step[u] \in Low(k) /\ step[u] \in Low(k + 1)
      <3>1. m[step[u]] < m[u] /\ m[u] <= k + 1 /\ m[step[u]] \in Nat /\ m[u] \in Nat
        BY <2>3
      <3>2. m[step[u]] <= k /\ m[step[u]] <= k + 1
        BY <2>2, <3>1
      <3> QED
        BY <3>2
    <2>4. ASSUME NEW u \in Low(k) PROVE u \in Low(k + 1) /\ g[u] = f[u]
      <3>1. m[u] \in Nat /\ m[u] <= k
        OBVIOUS
      <3>2. m[u] <= k + 1
        BY <2>2, <3>1
      <3> QED
        BY <3>2
    <2>5. ASSUME NEW u \in Low(k + 1)
          PROVE  g[u] = IF u \in G THEN g[step[u]] ELSE u
      <3>1. CASE u \in Low(k)
        <4>1. f[u] = IF u \in G THEN f[step[u]] ELSE u
          BY <2>1, <3>1 DEF IsLoop
        <4>2. CASE u \in G
          BY <2>3, <2>4, <3>1, <4>1, <4>2
        <4>3. CASE u \notin G
          BY <2>4, <3>1, <4>1, <4>3
        <4> QED
          BY <4>2, <4>3
      <3>2. CASE u \notin Low(k)
        <4>1. g[u] = IF u \in G THEN f[step[u]] ELSE u
          BY <3>2
        <4> QED
          BY <2>3, <2>4, <4>1
      <3> QED
        BY <3>1, <3>2
    <2>6. g \in [Low(k + 1) -> D]
      <3>1. ASSUME NEW u \in Low(k + 1)
            PROVE  (IF u \in Low(k) THEN f[u]
                    ELSE IF u \in G THEN f[step[u]] ELSE u) \in D
        BY <2>1, <2>3
      <3> QED
        BY <3>1
    <2>7. Works(g, k + 1)
      <3> HIDE DEF g
      <3> QED
        BY <2>5, <2>6 DEF IsLoop
    <2>8. \E h : Works(h, k + 1)
      <3> HIDE DEF g, Works
      <3> QED
        BY <2>7
    <2> HIDE DEF g, Works
    <2> QED
      BY <2>2, <2>8
  <1>3. N \in Good
    <2>1. Good \in SUBSET Nat
      OBVIOUS
    <2> HIDE DEF Good
    <2> QED
      BY <1>1, <1>2, <2>1, GoodNaturals
  <1>4. Low(N) = D
    OBVIOUS
  <1> QED
    BY <1>3, <1>4

Falls(m, G, step) == \A u \in G : m[step[u]] < m[u]
Keeps(r, G, step) == \A u \in G : r[step[u]] = r[u]
LeadsOut(f, r, D, G) == \A u \in D : f[u] \in D \ G /\ r[f[u]] = r[u]

(* What such a loop leaves, and what every step of it keeps.               *)
LEMMA LoopEnds ==
  ASSUME NEW D, NEW G \in SUBSET D, NEW step \in [D -> D], NEW N \in Nat,
         NEW m \in [D -> 0 .. N], Falls(m, G, step),
         NEW r, Keeps(r, G, step),
         NEW f, IsLoop(f, D, G, step)
  PROVE  LeadsOut(f, r, D, G)
  <1> DEFINE Ends(u) == f[u] \in D \ G /\ r[f[u]] = r[u]
             Good == {k \in Nat : \A u \in D : m[u] <= k => Ends(u)}
  <1>0. \A u \in G : m[step[u]] < m[u]
    BY DEF Falls
  <1>1. 0 \in Good
    <2>1. ASSUME NEW u \in D, m[u] <= 0 PROVE Ends(u)
      <3>1. ASSUME u \in G PROVE FALSE
        <4>1. m[step[u]] \in Nat /\ m[step[u]] < m[u] /\ m[u] \in Nat
          BY <1>0, <3>1
        <4> QED
          BY <2>1, <4>1
      <3>2. f[u] = u
        BY <3>1 DEF IsLoop
      <3> QED
        BY <3>1, <3>2
    <2> QED
      BY <2>1
  <1>2. ASSUME NEW k \in Good PROVE k + 1 \in Good
    <2>1. k \in Nat /\ \A u \in D : m[u] <= k => Ends(u)
      OBVIOUS
    <2>2. ASSUME NEW u \in D, m[u] <= k + 1 PROVE Ends(u)
      <3>1. CASE u \in G
        <4>1. step[u] \in D /\ f[u] = f[step[u]] /\ r[step[u]] = r[u]
          BY <3>1 DEF IsLoop, Keeps
        <4>2. m[step[u]] < m[u] /\ m[step[u]] \in Nat /\ m[u] \in Nat
          BY <1>0, <3>1
        <4>3. m[step[u]] <= k
          BY <2>1, <2>2, <4>2
        <4>4. Ends(step[u])
          BY <2>1, <4>1, <4>3
        <4> QED
          BY <4>1, <4>4
      <3>2. CASE u \notin G
        <4>1. f[u] = u
          BY <3>2 DEF IsLoop
        <4> QED
          BY <3>2, <4>1
      <3> QED
        BY <3>1, <3>2
    <2> QED
      BY <2>1, <2>2
  <1>3. N \in Good
    <2>1. Good \in SUBSET Nat
      OBVIOUS
    <2> HIDE DEF Good
    <2> QED
      BY <1>1, <1>2, <2>1, GoodNaturals
  <1>4. \A u \in D : m[u] <= N
    OBVIOUS
  <1> QED
    BY <1>3, <1>4 DEF LeadsOut

----------------------------------------------------------------------------
(* Division                                                                *)

LEMMA Divided ==
  ASSUME NEW c \in Nat, NEW n \in Nat \ {0}
  PROVE  /\ c \div n \in Nat /\ c % n \in 0 .. n - 1
         /\ c = n * (c \div n) + (c % n)
  OBVIOUS

(* How products are regrouped.                                             *)
LEMMA Associative ==
  ASSUME NEW x \in Int, NEW y \in Int, NEW z \in Int
  PROVE  x * (y * z) = (x * y) * z
  OBVIOUS

(* How products are multiplied out.                                        *)
LEMMA Distributive ==
  ASSUME NEW x \in Int, NEW y \in Int, NEW z \in Int
  PROVE  x * (y + z) = x * y + x * z
  OBVIOUS

(* A product is not below its factor.                                      *)
LEMMA ProductAtLeast ==
  ASSUME NEW n \in Nat, NEW d \in Nat, d > 0
  PROVE  n * d \in Nat /\ n * d >= n
  <1>1. PICK e \in Nat : d = e + 1
    <2>1. d - 1 \in Nat /\ d = (d - 1) + 1
      OBVIOUS
    <2> QED
      BY <2>1
  <1>2. n * d = n * e + n /\ n * e \in Nat
    BY <1>1
  <1> QED
    BY <1>2

(* Quotient and remainder are told by their law.                           *)
LEMMA DivisionIs ==
  ASSUME NEW n \in Nat \ {0}, NEW q \in Int, NEW r \in 0 .. n - 1,
         NEW x, x = n * q + r
  PROVE  x \in Int /\ x \div n = q /\ x % n = r
  <1>1. x \in Int
    OBVIOUS
  <1>2. PICK a \in Int, b \in 0 .. n - 1 : a = x \div n /\ b = x % n /\ x = n * a + b
    BY <1>1
  <1>3. a = q
    <2>1. CASE a < q
      <3>1. PICK d \in Nat : d > 0 /\ q = a + d
        <4>1. q - a \in Nat /\ q - a > 0 /\ q = a + (q - a)
          BY <2>1
        <4> QED
          BY <4>1
      <3>2. n * q = n * a + n * d /\ n * a \in Int
        BY <3>1
      <3>3. n * d \in Nat /\ n * d >= n
        BY <3>1, ProductAtLeast
      <3> QED
        BY <1>2, <3>2, <3>3
    <2>2. CASE q < a
      <3>1. PICK d \in Nat : d > 0 /\ a = q + d
        <4>1. a - q \in Nat /\ a - q > 0 /\ a = q + (a - q)
          BY <2>2
        <4> QED
          BY <4>1
      <3>2. n * a = n * q + n * d /\ n * q \in Int
        BY <3>1
      <3>3. n * d \in Nat /\ n * d >= n
        BY <3>1, ProductAtLeast
      <3> QED
        BY <1>2, <3>2, <3>3
    <2> QED
      BY <2>1, <2>2
  <1>4. n * a = n * q /\ n * q \in Int
    BY <1>3
  <1> QED
    BY <1>1, <1>2, <1>3, <1>4

(* A number below the divisor is its own remainder.                        *)
LEMMA SmallDivision ==
  ASSUME NEW n \in Nat \ {0}, NEW r \in 0 .. n - 1
  PROVE  r \div n = 0 /\ r % n = r
  <1>1. 0 \in Int /\ r = n * 0 + r
    OBVIOUS
  <1> QED
    BY <1>1, DivisionIs

(* A dividend below a product has a quotient below the factor.             *)
LEMMA QuotientBelow ==
  ASSUME NEW c \in Nat, NEW n \in Nat \ {0}, NEW p \in Nat, c < n * p
  PROVE  c \div n < p
  <1> DEFINE q == c \div n
             r == c % n
  <1>1. q \in Nat /\ r \in Nat /\ c = n * q + r
    BY Divided
  <1> HIDE DEF q, r
  <1> SUFFICES ASSUME p <= q PROVE FALSE
    BY <1>1 DEF q
  <1>2. PICK d \in Nat : q = p + d
    BY <1>1
  <1>3. n * q = n * p + n * d /\ n * d \in Nat /\ n * p \in Nat
    BY <1>2
  <1> QED
    BY <1>1, <1>3

(* What x leaves by m * w: what it leaves by m, and the next digit; and to *)
(* divide twice is to divide by the product.                               *)
LEMMA NextDigit ==
  ASSUME NEW x \in Nat, NEW m \in Nat \ {0}, NEW w \in Nat \ {0},
         NEW digit \in Nat, digit = (x \div m) % w
  PROVE  /\ x % (m * w) = (x % m) + m * digit
         /\ x \div (m * w) = (x \div m) \div w
  <1>1. PICK q \in Nat, r \in 0 .. m - 1 : q = x \div m /\ r = x % m /\ x = m * q + r
    BY Divided
  <1>2. PICK a \in Nat : a = q \div w /\ q = w * a + digit /\ digit \in 0 .. w - 1
    BY <1>1, Divided
  <1>3. m * q = m * (w * a) + m * digit /\ m * (w * a) = (m * w) * a
    <2>1. m * (w * a + digit) = m * (w * a) + m * digit
      <3>1. w * a \in Int /\ digit \in Int /\ m \in Int
        BY <1>2
      <3> QED
        BY ONLY <3>1, Distributive
    <2>2. m * (w * a) = (m * w) * a
      <3>1. w \in Int /\ a \in Int /\ m \in Int
        BY <1>2
      <3> QED
        BY ONLY <3>1, Associative
    <2> QED
      BY <1>2, <2>1, <2>2
  <1>4. PICK mw \in Nat \ {0} : mw = m * w
    <2>1. m * w \in Nat /\ m * w >= m
      BY ProductAtLeast
    <2> QED
      BY <2>1
  <1>5. PICK s \in Nat : s = m * digit + r /\ s < mw
    <2>1. PICK e \in Nat : w = digit + 1 + e
      <3>1. w - digit - 1 \in Nat /\ w = digit + 1 + (w - digit - 1)
        BY <1>2
      <3> QED
        BY <3>1
    <2>2. m * w = m * digit + m + m * e /\ m * e \in Nat /\ m * digit \in Nat
      BY ONLY <1>2, <2>1, m \in Nat
    <2>3. m * digit + r < m * w /\ m * digit + r \in Nat
      BY <2>2
    <2> QED
      BY <1>4, <2>3
  <1>6. x = mw * a + s
    <2>1. m * q = mw * a + m * digit
      BY <1>3, <1>4
    <2>2. m * digit \in Int /\ mw * a \in Int
      BY <1>2, <1>4
    <2> QED
      BY ONLY <1>1, <1>5, <2>1, <2>2
  <1>7. x % mw = s /\ x \div mw = a
    <2>1. mw \in Nat \ {0} /\ s \in 0 .. mw - 1 /\ a \in Int
      BY <1>5
    <2> QED
      BY ONLY <1>6, <2>1, DivisionIs
  <1> QED
    <2>1. (x % m) + m * digit = s
      <3>1. m * digit \in Int
        BY <1>2
      <3> QED
        BY ONLY <1>1, <1>5, <3>1
    <2>2. x % (m * w) = s
      BY <1>4, <1>7
    <2>3. x \div (m * w) = (x \div m) \div w
      BY <1>1, <1>2, <1>4, <1>7
    <2> QED
      BY ONLY <1>2, <2>1, <2>2, <2>3

(* To divide twice is to divide by the product.                            *)
LEMMA DividedTwice ==
  ASSUME NEW x \in Nat, NEW m \in Nat \ {0}, NEW w \in Nat \ {0}
  PROVE  x \div (m * w) = (x \div m) \div w
  <1>1. PICK digit \in Nat : digit = (x \div m) % w
    BY Divided
  <1> QED
    BY ONLY <1>1, NextDigit, x \in Nat, m \in Nat \ {0}, w \in Nat \ {0}

(* z is x and h times m.                                                   *)
Exceeds(z, x, m, h) == z = x + m * h

(* A multiple of m added leaves the remainder by m.                        *)
LEMMA SameRemainder ==
  ASSUME NEW x \in Nat, NEW m \in Nat \ {0}, NEW h \in Nat,
         NEW z \in Nat, Exceeds(z, x, m, h)
  PROVE  z % m = x % m
  <1>1. PICK q \in Nat, r \in 0 .. m - 1 : r = x % m /\ x = m * q + r
    BY Divided
  <1>2. PICK k \in Int : k = q + h
    OBVIOUS
  <1>3. m * k = m * q + m * h
    BY ONLY <1>2, Distributive, m \in Nat \ {0}, q \in Nat, h \in Nat
  <1>5. z = m * k + r
    <2>1. PICK i \in Int, j \in Int, l \in Int : i = m * q /\ j = m * h /\ l = m * k
      OBVIOUS
    <2>2. x = i + r /\ l = i + j /\ z = x + j
      BY <1>1, <1>3, <2>1 DEF Exceeds
    <2>3. z = l + r
      BY <2>2
    <2> QED
      BY <2>1, <2>3
  <1>6. z % m = r
    BY ONLY <1>5, DivisionIs, m \in Nat \ {0}, k \in Int, r \in 0 .. m - 1, z \in Nat
  <1> QED
    BY <1>1, <1>6

(* A factor may be reduced before it is multiplied,                        *)
LEMMA RemainderOfProduct ==
  ASSUME NEW x \in Nat, NEW y \in Nat, NEW m \in Nat \ {0}
  PROVE  ((x % m) * y) % m = (x * y) % m
  <1>1. PICK q \in Nat, r \in 0 .. m - 1 : r = x % m /\ x = m * q + r
    BY Divided
  <1>2. PICK u \in Nat, w \in Nat, h \in Nat : u = x * y /\ w = r * y /\ h = q * y
    OBVIOUS
  <1>3. u = w + m * h
    <2>1. (m * q + r) * y = r * y + m * (q * y)
      OBVIOUS
    <2> QED
      BY <1>1, <1>2, <2>1
  <1>4. Exceeds(u, w, m, h)
    BY <1>3 DEF Exceeds
  <1>5. u % m = w % m
    BY <1>4, SameRemainder
  <1> QED
    BY <1>1, <1>2, <1>5

(* and so may both.                                                        *)
LEMMA RemainderOfProducts ==
  ASSUME NEW x \in Nat, NEW y \in Nat, NEW m \in Nat \ {0}
  PROVE  ((x % m) * (y % m)) % m = (x * y) % m
  <1>1. PICK a \in Nat, b \in Nat : a = x % m /\ b = y % m
    OBVIOUS
  <1>2. (a * b) % m = (x * b) % m
    BY <1>1, RemainderOfProduct
  <1>3. (b * x) % m = (y * x) % m
    BY <1>1, RemainderOfProduct
  <1>4. b * x = x * b /\ y * x = x * y
    OBVIOUS
  <1> QED
    BY <1>1, <1>2, <1>3, <1>4

(* g[i] is the i-th power of m.                                            *)
PowerLaw(g, m, N) ==
  /\ g \in [0 .. N -> Nat \ {0}] /\ g[0] = 1
  /\ \A i \in 1 .. N : g[i] = m * g[i - 1]

(* Powers multiply as their exponents add.                                 *)
LEMMA PowersMultiply ==
  ASSUME NEW m \in Nat \ {0}, NEW N \in Nat, NEW g, PowerLaw(g, m, N),
         NEW i \in Nat, NEW k \in Nat, i + k <= N
  PROVE  g[i] \in Nat \ {0} /\ g[k] \in Nat \ {0} /\ g[i + k] = g[i] * g[k]
  <1> DEFINE Good == {j \in 0 .. k : g[i + j] = g[i] * g[j]}
  <1>0. PICK v \in Nat : v = g[i]
    <2>1. i \in 0 .. N
      OBVIOUS
    <2> QED
      BY <2>1 DEF PowerLaw
  <1>1. 0 \in Good
    <2>1. i + 0 = i /\ g[0] = 1
      BY DEF PowerLaw
    <2> QED
      BY <1>0, <2>1
  <1>2. ASSUME NEW j \in Good, j < k PROVE j + 1 \in Good
    <2>1. /\ i + (j + 1) \in 1 .. N /\ (i + (j + 1)) - 1 = i + j
          /\ j + 1 \in 1 .. N /\ (j + 1) - 1 = j /\ j \in 0 .. N
      BY <1>2
    <2>2. g[i + (j + 1)] = m * g[i + j] /\ g[j + 1] = m * g[j]
      BY <2>1 DEF PowerLaw
    <2>3. PICK w \in Nat : w = g[j]
      BY <2>1 DEF PowerLaw
    <2>4. g[i + j] = v * w
      BY <1>0, <2>3
    <2>5. m * (v * w) = v * (m * w)
      BY ONLY m \in Nat \ {0}, v \in Nat, w \in Nat
    <2>6. j + 1 \in 0 .. k
      BY <1>2
    <2> QED
      BY <1>0, <2>2, <2>3, <2>4, <2>5, <2>6
  <1>3. k \in Good
    <2>1. Good \in SUBSET Nat
      OBVIOUS
    <2> HIDE DEF Good
    <2> QED
      BY <1>1, <1>2, <2>1, GoodUpTo
  <1>4. i \in 0 .. N /\ k \in 0 .. N
    OBVIOUS
  <1> QED
    BY <1>3, <1>4 DEF PowerLaw

(* There are powers of every number.                                       *)
LEMMA PowersLaw ==
  ASSUME NEW m \in Nat \ {0}, NEW N \in Nat
  PROVE  \E g : PowerLaw(g, m, N)
  <1> DEFINE S == Nat \ {0}
             step == [i \in 1 .. N |-> [y \in S |-> m * y]]
  <1>1. step \in [1 .. N -> [S -> S]] /\ 1 \in S
    <2>1. ASSUME NEW y \in S PROVE m * y \in S
      BY ProductAtLeast
    <2> QED
      BY <2>1
  <1>2. PICK g : IsSteps(g, S, 1, step, N)
    <2> HIDE DEF S, step
    <2> QED
      BY <1>1, StepsExist
  <1>3. g \in [0 .. N -> S] /\ g[0] = 1 /\ \A i \in 1 .. N : g[i] = step[i][g[i - 1]]
    BY <1>2 DEF IsSteps
  <1>4. ASSUME NEW i \in 1 .. N PROVE g[i] = m * g[i - 1]
    <2>1. i - 1 \in 0 .. N
      OBVIOUS
    <2>2. g[i - 1] \in S
      BY <1>3, <2>1
    <2>3. step[i][g[i - 1]] = m * g[i - 1]
      BY <2>2
    <2> QED
      BY <1>3, <2>3
  <1>5. PowerLaw(g, m, N)
    <2> HIDE DEF step
    <2> QED
      BY <1>3, <1>4 DEF PowerLaw
  <1> QED
    BY <1>5

----------------------------------------------------------------------------
(* Induction over subsets, and sums                                        *)

(* The element of a set that a fold takes first.                           *)
First(s) == CHOOSE x \in s : TRUE

(* Without its first element a set has one fewer.                          *)
LEMMA FirstRemoved ==
  ASSUME NEW S, IsFiniteSet(S), NEW s \in SUBSET S, s # {}
  PROVE  /\ First(s) \in s
         /\ s \ {First(s)} \in SUBSET S
         /\ Cardinality(s) \in Nat /\ Cardinality(s \ {First(s)}) \in Nat
         /\ Cardinality(s \ {First(s)}) = Cardinality(s) - 1
  <1>1. First(s) \in s
    BY DEF First
  <1>2. IsFiniteSet(s) /\ IsFiniteSet(s \ {First(s)})
    BY FS_Subset
  <1> QED
    BY <1>1, <1>2, FS_CardinalityType, FS_RemoveElement

(* A set of subsets with {} and each set that is in it without its first   *)
(* element has them all.                                                   *)
LEMMA GoodSubsets ==
  ASSUME NEW S, IsFiniteSet(S), NEW Good \in SUBSET SUBSET S, {} \in Good,
         \A s \in SUBSET S : s # {} /\ s \ {First(s)} \in Good => s \in Good
  PROVE  Good = SUBSET S
  <1> DEFINE Fine == {n \in Nat : \A s \in SUBSET S : Cardinality(s) = n => s \in Good}
  <1>1. 0 \in Fine
    BY FS_EmptySet, FS_Subset
  <1>2. ASSUME NEW n \in Fine PROVE n + 1 \in Fine
    <2> SUFFICES ASSUME NEW s \in SUBSET S, Cardinality(s) = n + 1
                 PROVE  s \in Good
      OBVIOUS
    <2>1. s # {}
      BY FS_EmptySet
    <2>2. /\ s \ {First(s)} \in SUBSET S
          /\ Cardinality(s \ {First(s)}) = Cardinality(s) - 1
      BY <2>1, FirstRemoved
    <2>3. Cardinality(s \ {First(s)}) = n
      BY <2>2
    <2>4. s \ {First(s)} \in Good
      BY <2>2, <2>3
    <2> QED
      BY <2>1, <2>4
  <1>3. Fine = Nat
    <2> HIDE DEF Fine
    <2>1. Fine \subseteq Nat
      BY DEF Fine
    <2> QED
      BY <1>1, <1>2, <2>1, GoodNaturals
  <1> QED
    BY <1>3, FS_Subset, FS_CardinalityType

----------------------------------------------------------------------------
(* Folds over sets                                                          *)

(* The sets of at most n elements.                                         *)
UpTo(S, n) == {s \in SUBSET S : Cardinality(s) <= n}

(* What a fold over sets makes of first, an element at a time.             *)
IsFold(g, D, first, step) ==
  \A s \in D : g[s] = IF s = {} THEN first ELSE step[First(s)][g[s \ {First(s)}]]

(* The fold has a value at every subset: larger sets are folded later.     *)
LEMMA FoldExists ==
  ASSUME NEW S, IsFiniteSet(S), NEW T, NEW first \in T, NEW step \in [S -> [T -> T]]
  PROVE  \E g \in [SUBSET S -> T] : IsFold(g, SUBSET S, first, step)
  <1> DEFINE Solved(n) == \E g \in [UpTo(S, n) -> T] : IsFold(g, UpTo(S, n), first, step)
             Good == {n \in Nat : Solved(n)}
  <1>1. Solved(0)
    <2>1. UpTo(S, 0) = {{}}
      BY FS_EmptySet, FS_Subset, FS_CardinalityType DEF UpTo
    <2> DEFINE g == [s \in UpTo(S, 0) |-> first]
    <2>2. g \in [UpTo(S, 0) -> T] /\ IsFold(g, UpTo(S, 0), first, step)
      BY <2>1 DEF IsFold
    <2> QED
      BY <2>2
  <1>2. ASSUME NEW n \in Nat, Solved(n) PROVE Solved(n + 1)
    <2>1. PICK g \in [UpTo(S, n) -> T] : IsFold(g, UpTo(S, n), first, step)
      BY <1>2
    <2> DEFINE D == UpTo(S, n + 1)
               h == [s \in D |-> IF s = {} THEN first
                                 ELSE step[First(s)][g[s \ {First(s)}]]]
    <2>2. ASSUME NEW s \in D, s # {}
          PROVE  First(s) \in S /\ s \ {First(s)} \in UpTo(S, n)
      BY <2>2, FirstRemoved DEF UpTo
    <2>3. \A s \in UpTo(S, n) : s \in D /\ h[s] = g[s]
      <3> SUFFICES ASSUME NEW s \in UpTo(S, n) PROVE s \in D /\ h[s] = g[s]
        OBVIOUS
      <3>1. s \in D
        BY FS_CardinalityType, FS_Subset DEF UpTo
      <3> QED
        BY <3>1, <2>1 DEF IsFold
    <2>4. \A s \in D : s # {} => h[s] = step[First(s)][h[s \ {First(s)}]]
      BY <2>2, <2>3
    <2>5. h \in [D -> T]
      <3>1. ASSUME NEW s \in D
            PROVE  (IF s = {} THEN first ELSE step[First(s)][g[s \ {First(s)}]]) \in T
        <4>1. CASE s = {}
          BY <4>1
        <4>2. CASE s # {}
          <5>1. g[s \ {First(s)}] \in T /\ First(s) \in S
            BY <2>2, <4>2
          <5> QED
            BY <4>2, <5>1
        <4> QED
          BY <4>1, <4>2
      <3> QED
        BY <3>1
    <2>6. \A s \in D : s = {} => h[s] = first
      OBVIOUS
    <2> HIDE DEF h
    <2>7. IsFold(h, D, first, step)
      BY <2>4, <2>6 DEF IsFold
    <2> QED
      BY <2>5, <2>7
  <1>3. Good = Nat
    <2> HIDE DEF Solved
    <2>1. Good \subseteq Nat /\ 0 \in Good /\ \A n \in Good : n + 1 \in Good
      BY <1>1, <1>2
    <2> HIDE DEF Good
    <2> QED
      BY <2>1, GoodNaturals
  <1>4. Cardinality(S) \in Nat /\ UpTo(S, Cardinality(S)) = SUBSET S
    BY FS_CardinalityType, FS_Subset DEF UpTo
  <1>5. Solved(Cardinality(S))
    BY <1>3, <1>4
  <1> QED
    BY <1>4, <1>5

(* The order of two steps makes no difference.                             *)
Commutes(S, T, step) ==
  \A x, y \in S : \A z \in T : step[x][step[y][z]] = step[y][step[x][z]]

AnyFirst(g, S, step) ==
  \A s \in SUBSET S : \A x \in s : g[s] = step[x][g[s \ {x}]]

(* Then any element may be the first.                                      *)
LEMMA FoldAnyFirst ==
  ASSUME NEW S, IsFiniteSet(S), NEW T, NEW first \in T, NEW step \in [S -> [T -> T]],
         Commutes(S, T, step),
         NEW g \in [SUBSET S -> T], IsFold(g, SUBSET S, first, step)
  PROVE  AnyFirst(g, S, step)
  <1> DEFINE Any(s) == \A x \in s : g[s] = step[x][g[s \ {x}]]
             Good == {n \in Nat : \A s \in SUBSET S : Cardinality(s) = n => Any(s)}
  <1>1. 0 \in Good
    BY FS_EmptySet, FS_Subset
  <1>2. ASSUME NEW n \in Good PROVE n + 1 \in Good
    <2>0. n \in Nat /\ n + 1 \in Nat
      OBVIOUS
    <2> SUFFICES ASSUME NEW s \in SUBSET S, Cardinality(s) = n + 1, NEW x \in s
                 PROVE  g[s] = step[x][g[s \ {x}]]
      BY <2>0
    <2>1. PICK y : y = First(s) /\ y \in s /\ g[s] = step[y][g[s \ {y}]]
      BY FirstRemoved DEF IsFold
    <2>2. \A z \in s : s \ {z} \in SUBSET S /\ Cardinality(s \ {z}) = n
      <3>1. IsFiniteSet(s) /\ n \in Nat
        BY FS_Subset
      <3>2. ASSUME NEW z \in s PROVE Cardinality(s \ {z}) = Cardinality(s) - 1
        BY <3>1, FS_RemoveElement
      <3> QED
        BY <3>1, <3>2
    <2>3. CASE x = y
      BY <2>1, <2>3
    <2>4. CASE x # y
      <3> DEFINE t == (s \ {y}) \ {x}
      <3>1. t = (s \ {x}) \ {y} /\ t \in SUBSET S
        OBVIOUS
      <3>2. x \in s \ {y} /\ y \in s \ {x}
        BY <2>1, <2>4
      <3>3. Any(s \ {y}) /\ Any(s \ {x})
        BY <2>1, <2>2
      <3>4. g[s \ {y}] = step[x][g[t]]
        BY <3>2, <3>3
      <3>5. g[s \ {x}] = step[y][g[t]]
        BY <3>1, <3>2, <3>3
      <3>6. g[t] \in T /\ x \in S /\ y \in S
        BY <2>1, <3>1
      <3>7. step[y][step[x][g[t]]] = step[x][step[y][g[t]]]
        BY <3>6 DEF Commutes
      <3> QED
        BY <2>1, <3>4, <3>5, <3>7
    <2> QED
      BY <2>3, <2>4
  <1>3. Good = Nat
    <2>1. Good \in SUBSET Nat
      OBVIOUS
    <2> HIDE DEF Good
    <2> QED
      BY <1>1, <1>2, <2>1, GoodNaturals
  <1>4. \A s \in SUBSET S : Cardinality(s) \in Nat
    BY FS_Subset, FS_CardinalityType
  <1> QED
    BY <1>3, <1>4 DEF AnyFirst

----------------------------------------------------------------------------
(* The equation of the sums of f over sets of its domain.                  *)
Sums(f, g, D) ==
  \A s \in D : g[s] = IF s = {} THEN 0 ELSE f[First(s)] + g[s \ {First(s)}]

(* The equation has a solution.                                            *)
LEMMA SumsExist ==
  ASSUME NEW S, IsFiniteSet(S), NEW f \in [S -> Nat]
  PROVE  \E g \in [SUBSET S -> Nat] : Sums(f, g, SUBSET S)
  <1> DEFINE step == [x \in S |-> [y \in Nat |-> f[x] + y]]
  <1>1. step \in [S -> [Nat -> Nat]] /\ 0 \in Nat
    OBVIOUS
  <1>2. PICK g \in [SUBSET S -> Nat] : IsFold(g, SUBSET S, 0, step)
    <2> HIDE DEF step
    <2> QED
      BY <1>1, FoldExists
  <1>3. ASSUME NEW s \in SUBSET S, s # {}
        PROVE  g[s] = f[First(s)] + g[s \ {First(s)}]
    <2>1. First(s) \in S /\ s \ {First(s)} \in SUBSET S
      BY <1>3, FirstRemoved
    <2>2. g[s] = step[First(s)][g[s \ {First(s)}]]
      <3> HIDE DEF step
      <3> QED
        BY <1>2, <1>3 DEF IsFold
    <2>3. PICK x \in S, y \in Nat : x = First(s) /\ y = g[s \ {First(s)}]
      BY <2>1
    <2>4. step[x][y] = f[x] + y
      OBVIOUS
    <2> QED
      BY <2>2, <2>3, <2>4
  <1>4. g[{}] = 0
    <2> HIDE DEF step
    <2> QED
      BY <1>2 DEF IsFold
  <1> QED
    BY <1>3, <1>4 DEF Sums

(* SumFunction is the value of such a solution at the whole domain.        *)
LEMMA SumIsSolution ==
  ASSUME NEW S, IsFiniteSet(S), NEW f \in [S -> Nat]
  PROVE  \E g \in [SUBSET S -> Nat] :
           Sums(f, g, SUBSET S) /\ SumFunction(f) = g[S]
  <1> DEFINE Eq(g) == g = [s \in SUBSET S |->
                             IF s = {} THEN 0
                             ELSE f[First(s)] + g[s \ {First(s)}]]
             it == CHOOSE g : Eq(g)
  <1>1. \E g : Eq(g)
    <2>1. PICK h \in [SUBSET S -> Nat] : Sums(f, h, SUBSET S)
      BY SumsExist
    <2>2. Eq(h)
      BY <2>1 DEF Sums
    <2> QED
      BY <2>2
  <1>2. Eq(it)
    BY <1>1
  <1>3. SumFunction(f) = it[S]
    BY DEF SumFunction, SumFunctionOnSet, FoldFunctionOnSet, MapThenFoldSet, First
  <1> HIDE DEF it
  <1>4. Sums(f, it, SUBSET S)
    BY <1>2 DEF Sums
  <1> DEFINE Good == {s \in SUBSET S : it[s] \in Nat}
  <1>5. {} \in Good
    BY <1>4 DEF Sums
  <1>6. ASSUME NEW s \in SUBSET S, s # {}, s \ {First(s)} \in Good
        PROVE  s \in Good
    <2>0. First(s) \in s
      BY <1>6, FirstRemoved
    <2>1. f[First(s)] \in Nat
      BY <2>0
    <2>2. it[s] = f[First(s)] + it[s \ {First(s)}]
      BY <1>4, <1>6 DEF Sums
    <2> QED
      BY <1>6, <2>1, <2>2
  <1>7. Good = SUBSET S
    <2>1. Good \in SUBSET SUBSET S
      OBVIOUS
    <2> HIDE DEF Good
    <2> QED
      BY <1>5, <1>6, <2>1, GoodSubsets
  <1>8. it \in [SUBSET S -> Nat]
    BY <1>2, <1>7
  <1> QED
    BY <1>3, <1>4, <1>8

(* A sum of zeros is zero.                                                 *)
LEMMA SumOfZeros ==
  ASSUME NEW S, IsFiniteSet(S)
  PROVE  SumFunction([x \in S |-> 0]) = 0
  <1> DEFINE f == [x \in S |-> 0]
  <1>1. PICK g \in [SUBSET S -> Nat] :
          Sums(f, g, SUBSET S) /\ SumFunction(f) = g[S]
    BY SumIsSolution
  <1> DEFINE Good == {s \in SUBSET S : g[s] = 0}
  <1>2. {} \in Good
    BY <1>1 DEF Sums
  <1>3. ASSUME NEW s \in SUBSET S, s # {}, s \ {First(s)} \in Good
        PROVE  s \in Good
    <2>1. First(s) \in S
      BY <1>3, FirstRemoved
    <2> QED
      BY <1>1, <1>3, <2>1 DEF Sums
  <1>4. Good = SUBSET S
    <2>1. Good \in SUBSET SUBSET S
      OBVIOUS
    <2> HIDE DEF Good
    <2> QED
      BY <1>2, <1>3, <2>1, GoodSubsets
  <1>5. g[S] = 0
    BY <1>4
  <1> QED
    BY <1>1, <1>5

(* A change of one summand changes the sum by as much.                     *)
LEMMA SumChanges ==
  ASSUME NEW S, IsFiniteSet(S), NEW f \in [S -> Nat], NEW w \in S, NEW v \in Nat
  PROVE  /\ SumFunction(f) \in Nat
         /\ SumFunction([f EXCEPT ![w] = v]) = SumFunction(f) - f[w] + v
  <1> DEFINE h == [f EXCEPT ![w] = v]
  <1>1. h \in [S -> Nat] /\ \A x \in S : h[x] = IF x = w THEN v ELSE f[x]
    OBVIOUS
  <1> HIDE DEF h
  <1>2. PICK g \in [SUBSET S -> Nat] :
          Sums(f, g, SUBSET S) /\ SumFunction(f) = g[S]
    BY SumIsSolution
  <1>3. PICK k \in [SUBSET S -> Nat] :
          Sums(h, k, SUBSET S) /\ SumFunction(h) = k[S]
    BY <1>1, SumIsSolution
  <1> DEFINE Differ(s) == k[s] = g[s] + IF w \in s THEN v - f[w] ELSE 0
             Good == {s \in SUBSET S : Differ(s)}
  <1>4. {} \in Good
    <2>1. g[{}] = 0 /\ k[{}] = 0
      BY <1>2, <1>3 DEF Sums
    <2> QED
      BY <2>1
  <1>5. ASSUME NEW s \in SUBSET S, s # {}, s \ {First(s)} \in Good
        PROVE  s \in Good
    <2> DEFINE x == First(s)
               t == s \ {x}
    <2>1. x \in s /\ x \in S /\ t \in SUBSET S /\ Differ(t)
      BY <1>5, FirstRemoved
    <2>2. g[s] = f[x] + g[t] /\ k[s] = h[x] + k[t]
      BY <1>2, <1>3, <1>5 DEF Sums
    <2>3. g[t] \in Nat /\ k[t] \in Nat /\ f[x] \in Nat /\ f[w] \in Nat
      BY <2>1
    <2>4. w \in t <=> w \in s /\ x # w
      OBVIOUS
    <2> HIDE DEF x, t
    <2>5. Differ(s)
      BY <1>1, <2>1, <2>2, <2>3, <2>4
    <2> QED
      BY <2>5
  <1>6. Good = SUBSET S
    <2>1. Good \in SUBSET SUBSET S
      OBVIOUS
    <2> HIDE DEF Good
    <2> QED
      BY <1>4, <1>5, <2>1, GoodSubsets
  <1>7. Differ(S)
    BY <1>6
  <1> QED
    BY <1>2, <1>3, <1>7 DEF h


----------------------------------------------------------------------------
(* Multiplication modulo a prime                                           *)

(* No product of numbers below m is divided by m.                          *)
IsPrime(m) == \A x, y \in 1 .. m - 1 : (x * y) % m # 0

TimesModulo(m) == [x \in 1 .. m - 1 |-> [y \in 1 .. m - 1 |-> (x * y) % m]]

(* Modulo a prime the products of such numbers are such numbers.           *)
LEMMA TimesModuloIs ==
  ASSUME NEW m \in Nat \ {0}, IsPrime(m)
  PROVE  /\ TimesModulo(m) \in [1 .. m - 1 -> [1 .. m - 1 -> 1 .. m - 1]]
         /\ Commutes(1 .. m - 1, 1 .. m - 1, TimesModulo(m))
  <1> DEFINE S == 1 .. m - 1
  <1>1. ASSUME NEW x \in S, NEW y \in S PROVE (x * y) % m \in S
    <2>1. PICK z \in Nat : z = x * y
      OBVIOUS
    <2>2. z % m # 0
      BY <2>1 DEF IsPrime
    <2>3. z % m \in 0 .. m - 1
      BY Divided
    <2> QED
      BY <2>1, <2>2, <2>3
  <1>2. TimesModulo(m) \in [S -> [S -> S]]
    BY <1>1 DEF TimesModulo
  <1>3. ASSUME NEW x \in S, NEW y \in S, NEW z \in S
        PROVE  TimesModulo(m)[x][TimesModulo(m)[y][z]]
                 = TimesModulo(m)[y][TimesModulo(m)[x][z]]
    <2>1. PICK yz \in Nat, xz \in Nat : yz = y * z /\ xz = x * z
      OBVIOUS
    <2>2. /\ TimesModulo(m)[y][z] = yz % m /\ yz % m \in S
          /\ TimesModulo(m)[x][z] = xz % m /\ xz % m \in S
      BY <1>1, <2>1 DEF TimesModulo
    <2>3. /\ TimesModulo(m)[x][yz % m] = (x * (yz % m)) % m
          /\ TimesModulo(m)[y][xz % m] = (y * (xz % m)) % m
      BY <2>2 DEF TimesModulo
    <2>4. PICK a \in Nat, b \in Nat : a = yz % m /\ b = xz % m
      BY <2>2
    <2>0. x \in Nat /\ y \in Nat
      OBVIOUS
    <2>5. (a * x) % m = (yz * x) % m
      <3>1. ((yz % m) * x) % m = (yz * x) % m
        BY ONLY <2>0, RemainderOfProduct, m \in Nat \ {0}, yz \in Nat
      <3> QED
        BY <2>4, <3>1
    <2>6. (b * y) % m = (xz * y) % m
      <3>1. ((xz % m) * y) % m = (xz * y) % m
        BY ONLY <2>0, RemainderOfProduct, m \in Nat \ {0}, xz \in Nat
      <3> QED
        BY <2>4, <3>1
    <2>7. a * x = x * a /\ b * y = y * b /\ (y * z) * x = (x * z) * y
      OBVIOUS
    <2> QED
      BY <2>1, <2>2, <2>3, <2>4, <2>5, <2>6, <2>7
  <1> QED
    BY <1>2, <1>3 DEF Commutes

(* What adds nothing to the remainder is divided.                          *)
LEMMA NothingAdded ==
  ASSUME NEW m \in Nat \ {0}, NEW x \in Nat, NEW y \in Nat, (x + y) % m = x % m
  PROVE  y % m = 0
  <1>1. PICK q \in Nat, r \in 0 .. m - 1 : r = x % m /\ x = m * q + r
    BY Divided
  <1>2. PICK z \in Nat : z = x + y
    OBVIOUS
  <1>3. PICK k \in Nat : z = m * k + r
    <2>1. z % m = r
      BY <1>1, <1>2
    <2>2. z \div m \in Nat /\ z = m * (z \div m) + (z % m)
      BY ONLY Divided, z \in Nat, m \in Nat \ {0}
    <2> QED
      BY <2>1, <2>2
  <1>4. PICK d \in Int : d = k - q
    OBVIOUS
  <1>5. m * k = m * q + m * d
    <2>1. q \in Int /\ k = q + d
      BY <1>4
    <2> QED
      BY ONLY <2>1, Distributive, m \in Nat \ {0}, d \in Int
  <1>6. y = m * d + 0
    <2>1. PICK i \in Int, j \in Int, l \in Int : i = m * q /\ j = m * d /\ l = m * k
      OBVIOUS
    <2>2. x = i + r /\ z = l + r /\ l = i + j
      BY <1>1, <1>3, <1>5, <2>1
    <2>3. y = j
      BY <1>2, <2>2
    <2> QED
      BY <2>1, <2>3
  <1>7. 0 \in 0 .. m - 1
    OBVIOUS
  <1> QED
    BY ONLY <1>6, <1>7, DivisionIs, m \in Nat \ {0}, d \in Int, y \in Nat

(* Multiples of b by different numbers below m leave different remainders. *)
LEMMA MultiplesDiffer ==
  ASSUME NEW m \in Nat \ {0}, IsPrime(m), NEW b \in 1 .. m - 1,
         NEW i \in 1 .. m - 1, NEW j \in 1 .. m - 1, i < j
  PROVE  (b * i) % m # (b * j) % m
  <1> SUFFICES ASSUME (b * i) % m = (b * j) % m PROVE FALSE
    OBVIOUS
  <1>1. PICK d \in 1 .. m - 1 : j = i + d
    <2>1. j - i \in 1 .. m - 1 /\ j = i + (j - i)
      OBVIOUS
    <2> QED
      BY <2>1
  <1>2. PICK x \in Nat, y \in Nat : x = b * i /\ y = b * d
    OBVIOUS
  <1>3. b * j = x + y
    <2>1. b \in Int /\ i \in Int /\ d \in Int
      OBVIOUS
    <2> QED
      BY ONLY <1>1, <1>2, <2>1, Distributive
  <1>4. (x + y) % m = x % m
    BY <1>2, <1>3
  <1>5. y % m = 0
    BY <1>4, NothingAdded
  <1> QED
    BY <1>2, <1>5 DEF IsPrime

(* Fermat: the multiples of b are the numbers below m in another order, so *)
(* both have the same product.                                             *)
LEMMA Fermat ==
  ASSUME NEW m \in Nat \ {0}, m > 1, IsPrime(m), NEW b \in 1 .. m - 1,
         NEW g, PowerLaw(g, b, m - 1)
  PROVE  g[m - 1] % m = 1
  <1> DEFINE S == 1 .. m - 1
             step == TimesModulo(m)
             Image(k) == {(b * i) % m : i \in 1 .. k}
  <1>1. step \in [S -> [S -> S]] /\ Commutes(S, S, step)
    BY TimesModuloIs
  <1>2. IsFiniteSet(S) /\ Cardinality(S) = m - 1 /\ 1 \in S
    BY FS_Interval
  <1>3. PICK product \in [SUBSET S -> S] : IsFold(product, SUBSET S, 1, step)
    <2> HIDE DEF S, step
    <2> QED
      BY <1>1, <1>2, FoldExists
  <1>4. ASSUME NEW s \in SUBSET S, NEW x \in s, NEW q, q = product[s \ {x}]
        PROVE  product[s] = (x * q) % m
    <2>1. AnyFirst(product, S, step)
      <3> HIDE DEF S, step
      <3> QED
        BY <1>1, <1>2, <1>3, FoldAnyFirst
    <2>2. product[s] = step[x][q]
      BY <1>4, <2>1 DEF AnyFirst
    <2>3. s \ {x} \in SUBSET S /\ x \in S
      OBVIOUS
    <2>4. q \in S
      BY <1>4, <2>3
    <2>5. TimesModulo(m)[x][q] = (x * q) % m
      BY <2>3, <2>4 DEF TimesModulo
    <2> QED
      BY <2>2, <2>5
  <1>5. product[{}] = 1
    BY <1>3 DEF IsFold
  <1> HIDE DEF step
  <1>6. ASSUME NEW i \in S PROVE (b * i) % m \in S
    BY <1>1 DEF step, TimesModulo
  <1>7. ASSUME NEW k \in 0 .. m - 2
        PROVE  /\ k + 1 \in S /\ (b * (k + 1)) % m \notin Image(k)
               /\ Image(k + 1) = Image(k) \cup {(b * (k + 1)) % m}
    <2>1. k + 1 \in S /\ 1 .. k + 1 = (1 .. k) \cup {k + 1}
      OBVIOUS
    <2>2. ASSUME NEW i \in 1 .. k PROVE (b * i) % m # (b * (k + 1)) % m
      <3>1. i \in S /\ i < k + 1
        OBVIOUS
      <3> QED
        BY <2>1, <3>1, MultiplesDiffer
    <2>3. Image(k + 1) = Image(k) \cup {(b * (k + 1)) % m}
      <3>1. PICK D : D = 1 .. k + 1
        OBVIOUS
      <3>2. PICK E : E = 1 .. k
        OBVIOUS
      <3>3. PICK z : z = k + 1
        OBVIOUS
      <3>4. D = E \cup {z}
        BY <2>1, <3>1, <3>2, <3>3
      <3>5. {(b * i) % m : i \in D} = {(b * i) % m : i \in E} \cup {(b * z) % m}
        BY ONLY <3>4
      <3> QED
        BY <3>1, <3>2, <3>3, <3>5
    <2>4. (b * (k + 1)) % m \notin Image(k)
      <3>1. PICK y : y = (b * (k + 1)) % m
        OBVIOUS
      <3>2. ASSUME NEW i \in 1 .. k PROVE (b * i) % m # y
        BY <2>2, <3>1
      <3>3. y \notin Image(k)
        BY ONLY <3>2
      <3> QED
        BY <3>1, <3>3
    <2> HIDE DEF Image
    <2> QED
      BY <2>1, <2>3, <2>4
  <1>8. Image(0) = {}
    OBVIOUS
  <1> DEFINE Reached(k) ==
               /\ Image(k) \in SUBSET S /\ IsFiniteSet(Image(k)) /\ Cardinality(Image(k)) = k
               /\ product[Image(k)] = ((g[k] % m) * product[1 .. k]) % m
             Good == {k \in 0 .. m - 1 : Reached(k)}
  <1>9. 0 \in Good
    <2>1. 1 .. 0 = {} /\ g[0] = 1
      BY DEF PowerLaw
    <2>2. 1 % m = 1
      BY SmallDivision
    <2>3. (1 * 1) % m = 1
      BY <2>2
    <2>4. ((g[0] % m) * product[1 .. 0]) % m = 1
      BY <1>5, <2>1, <2>2, <2>3
    <2>5. /\ Image(0) \in SUBSET S /\ IsFiniteSet(Image(0))
          /\ Cardinality(Image(0)) = 0
      BY <1>8, FS_EmptySet
    <2>6. product[Image(0)] = ((g[0] % m) * product[1 .. 0]) % m
      BY <1>5, <1>8, <2>4
    <2>7. 0 \in 0 .. m - 1
      OBVIOUS
    <2> HIDE DEF Image
    <2> QED
      BY <2>5, <2>6, <2>7
  <1> HIDE DEF Image
  <1>10. ASSUME NEW k \in Good, k < m - 1 PROVE k + 1 \in Good
    <2>1. k \in 0 .. m - 2 /\ Reached(k) /\ k + 1 \in 0 .. m - 1
      BY <1>10
    <2>2. PICK z \in S, y \in S : z = k + 1 /\ y = (b * z) % m
      BY <1>6, <1>7, <2>1
    <2>3. y \notin Image(k) /\ Image(k + 1) = Image(k) \cup {y}
      BY <1>7, <2>1, <2>2
    <2>4. /\ Image(k + 1) \in SUBSET S /\ IsFiniteSet(Image(k + 1))
          /\ Cardinality(Image(k + 1)) = k + 1
      <3>1. Image(k) \in SUBSET S /\ IsFiniteSet(Image(k)) /\ Cardinality(Image(k)) = k
        BY <2>1
      <3>2. PICK I : I = Image(k)
        OBVIOUS
      <3>3. /\ IsFiniteSet(I \cup {y})
            /\ Cardinality(I \cup {y}) = IF y \in I THEN Cardinality(I) ELSE Cardinality(I) + 1
        BY <3>1, <3>2, FS_AddElement
      <3> QED
        BY <2>3, <3>1, <3>2, <3>3
    <2>5. PICK a \in Nat, q \in S, r \in S :
            a = g[k] % m /\ q = product[1 .. k] /\ r = (a * q) % m /\ r = product[Image(k)]
      <3>1. g[k] \in Nat /\ 1 .. k \in SUBSET S
        BY <2>1 DEF PowerLaw
      <3>2. g[k] % m \in Nat /\ product[1 .. k] \in S /\ product[Image(k)] \in S
        <4>1. Image(k) \in SUBSET S
          BY <2>1
        <4>2. g[k] % m \in Nat
          BY <3>1
        <4> QED
          BY <3>1, <4>1, <4>2
      <3>3. product[Image(k)] = ((g[k] % m) * product[1 .. k]) % m
        BY <2>1
      <3> QED
        BY <3>2, <3>3
    <2>6. product[Image(k + 1)] = (y * r) % m
      <3>1. y \in Image(k + 1) /\ Image(k + 1) \ {y} = Image(k)
        BY <2>3
      <3>2. r = product[Image(k + 1) \ {y}]
        BY <2>5, <3>1
      <3>3. PICK J \in SUBSET S : J = Image(k + 1)
        BY <2>4
      <3>4. y \in J /\ r = product[J \ {y}]
        BY <3>1, <3>2, <3>3
      <3>5. product[J] = (y * r) % m
        BY ONLY <1>4, <3>4, J \in SUBSET S
      <3> QED
        BY <3>3, <3>5
    <2>7. product[1 .. k + 1] = (z * q) % m
      <3>1. /\ 1 .. k + 1 \in SUBSET S /\ z \in 1 .. k + 1
            /\ (1 .. k + 1) \ {z} = 1 .. k
        BY <2>1, <2>2
      <3>2. PICK J \in SUBSET S : J = 1 .. k + 1
        BY <3>1
      <3>3. z \in J /\ q = product[J \ {z}]
        BY <2>5, <3>1, <3>2
      <3>4. product[J] = (z * q) % m
        BY ONLY <1>4, <3>3, J \in SUBSET S
      <3> QED
        BY <3>2, <3>4
    <2>8. g[k + 1] % m = (b * a) % m
      <3>1. PICK v \in Nat : v = g[k]
        BY <2>1 DEF PowerLaw
      <3>2. g[k + 1] = b * v
        <4>1. k + 1 \in 1 .. m - 1 /\ (k + 1) - 1 = k
          BY <2>1
        <4> QED
          BY <3>1, <4>1 DEF PowerLaw
      <3>3. ((v % m) * b) % m = (v * b) % m
        <4>1. b \in Nat
          OBVIOUS
        <4> QED
          BY ONLY <4>1, RemainderOfProduct, v \in Nat, m \in Nat \ {0}
      <3>4. v * b = b * v /\ a * b = b * a
        OBVIOUS
      <3> QED
        BY <2>5, <3>1, <3>2, <3>3, <3>4
    <2>9. (y * r) % m = (((b * a) % m) * ((z * q) % m)) % m
      <3>1. PICK bz \in Nat, aq \in Nat, ba \in Nat, zq \in Nat :
              bz = b * z /\ aq = a * q /\ ba = b * a /\ zq = z * q
        OBVIOUS
      <3>2. ((bz % m) * (aq % m)) % m = (bz * aq) % m
        BY RemainderOfProducts
      <3>3. ((ba % m) * (zq % m)) % m = (ba * zq) % m
        BY RemainderOfProducts
      <3>4. bz * aq = ba * zq
        <4>1. (b * z) * (a * q) = (b * a) * (z * q)
          OBVIOUS
        <4> QED
          BY <3>1, <4>1
      <3> QED
        BY <2>2, <2>5, <3>1, <3>2, <3>3, <3>4
    <2>10. product[Image(k + 1)] = ((g[k + 1] % m) * product[1 .. k + 1]) % m
      BY <2>6, <2>7, <2>8, <2>9
    <2> QED
      BY <2>1, <2>4, <2>10
  <1>11. Reached(m - 1)
    <2>1. Good \in SUBSET Nat /\ m - 1 \in Nat /\ m - 1 \in 0 .. m - 1
      OBVIOUS
    <2>2. m - 1 \in Good
      <3> HIDE DEF Good
      <3> QED
        BY <1>9, <1>10, <2>1, GoodUpTo
    <2> QED
      BY <2>2
  <1>12. Image(m - 1) = S
    BY <1>2, <1>11, FS_Subset
  <1>13. PICK u \in 0 .. m - 1, v \in S : u = g[m - 1] % m /\ v = (u * v) % m
    <2>1. g[m - 1] \in Nat
      BY DEF PowerLaw
    <2>2. g[m - 1] % m \in 0 .. m - 1
      BY <2>1, Divided
    <2>3. product[S] = ((g[m - 1] % m) * product[S]) % m /\ product[S] \in S
      BY <1>11, <1>12
    <2> QED
      BY <2>2, <2>3
  <1>14. CASE u = 0
    <2>1. 0 * v = 0 /\ 0 % m = 0
      BY SmallDivision
    <2> QED
      BY <1>13, <1>14, <2>1
  <1>15. CASE u > 1
    <2>1. PICK d \in S : u = d + 1
      <3>1. u - 1 \in S /\ u = (u - 1) + 1
        BY <1>15
      <3> QED
        BY <3>1
    <2>2. PICK y \in Nat : y = d * v
      OBVIOUS
    <2>3. u * v = v + y
      <3>1. (d + 1) * v = v + d * v
        OBVIOUS
      <3> QED
        BY <2>1, <2>2, <3>1
    <2>4. v % m = v
      BY SmallDivision
    <2>5. (v + y) % m = v % m
      BY <1>13, <2>3, <2>4
    <2>6. y % m = 0
      <3>1. v \in Nat
        OBVIOUS
      <3> QED
        BY ONLY <2>5, <3>1, NothingAdded, m \in Nat \ {0}, y \in Nat
    <2> QED
      BY <2>2, <2>6 DEF IsPrime
  <1> QED
    BY <1>13, <1>14, <1>15

(* And so the power below it inverts.                                      *)
LEMMA FermatInverse ==
  ASSUME NEW m \in Nat, m > 2, IsPrime(m), NEW b \in 1 .. m - 1
  PROVE  \E g : PowerLaw(g, b, m - 2) /\ ((g[m - 2] % m) * b) % m = 1
  <1>1. PICK g : PowerLaw(g, b, m - 1)
    BY PowersLaw
  <1>2. g[m - 1] % m = 1
    BY <1>1, Fermat
  <1>3. PICK v \in Nat : v = g[m - 2] /\ g[m - 1] = b * v
    <2>1. m - 1 \in 1 .. m - 1 /\ (m - 1) - 1 = m - 2 /\ m - 2 \in 0 .. m - 1
      OBVIOUS
    <2> QED
      BY <1>1, <2>1 DEF PowerLaw
  <1>4. ((v % m) * b) % m = 1
    <2>1. ((v % m) * b) % m = (v * b) % m
      <3>1. b \in Nat /\ m \in Nat \ {0}
        OBVIOUS
      <3> QED
        BY ONLY <3>1, RemainderOfProduct, v \in Nat
    <2>2. v * b = b * v
      OBVIOUS
    <2> QED
      BY <1>2, <1>3, <2>1, <2>2
  <1>5. PICK h : h = [i \in 0 .. m - 2 |-> g[i]]
    OBVIOUS
  <1>6. PowerLaw(h, b, m - 2) /\ h[m - 2] = v
    <2>1. ASSUME NEW i \in 0 .. m - 2 PROVE i \in 0 .. m - 1 /\ h[i] = g[i]
      BY <1>5
    <2>2. ASSUME NEW i \in 1 .. m - 2
          PROVE  i \in 1 .. m - 1 /\ i - 1 \in 0 .. m - 2 /\ i \in 0 .. m - 2
      OBVIOUS
    <2>3. ASSUME NEW i \in 1 .. m - 2 PROVE h[i] = b * h[i - 1]
      BY <1>1, <2>1, <2>2 DEF PowerLaw
    <2>4. h[0] = 1 /\ h \in [0 .. m - 2 -> Nat \ {0}]
      <3>1. g[0] = 1 /\ 0 \in 0 .. m - 2
        BY <1>1 DEF PowerLaw
      <3>2. ASSUME NEW i \in 0 .. m - 2 PROVE g[i] \in Nat \ {0}
        BY <1>1, <2>1 DEF PowerLaw
      <3> QED
        BY <1>5, <2>1, <3>1, <3>2
    <2>5. h[m - 2] = v
      BY <1>3, <2>1
    <2> QED
      BY <2>3, <2>4, <2>5 DEF PowerLaw
  <1> QED
    BY <1>3, <1>4, <1>6

=============================================================================
