------------------------ MODULE SaltDerivation_proofs ------------------------
(***************************************************************************)
(* Proofs about a batch of the salt-mining modes, for any widths, inputs,  *)
(* prefix lengths and counters.  What a kernel puts into its buffer piece  *)
(* by piece is the concatenation the host hashes; a counter is known by    *)
(* its bytes; and slot i of the hit buffer keeps the record of the i-th    *)
(* counter claimed (IInv, which TLC also finds in every state of the run). *)
(***************************************************************************)
EXTENDS SaltDerivation, NumberLemmas, SequenceTheorems

----------------------------------------------------------------------------
(* Buffers                                                                 *)

(* s is a buffer of n bytes, whatever a byte is.                           *)
IsBuffer(s, n) == n \in Nat /\ s = [i \in 1 .. n |-> s[i]]

(* The first bytes of buf are those of s.                                  *)
Starts(buf, s) == \A i \in 1 .. Len(s) : buf[i] = s[i]

(* The bytes of s are in buf from offset o on.                             *)
HasAt(buf, o, s) == \A i \in 1 .. Len(s) : buf[o + i] = s[i]

(* Of n bytes only k from offset o on may differ.                          *)
SameBut(new, buf, n, o, k) ==
  \A i \in 1 .. n : i <= o \/ o + k < i => new[i] = buf[i]

LEMMA BufferIsSeq ==
  ASSUME NEW n, NEW s, IsBuffer(s, n)
  PROVE  n \in Nat /\ Len(s) = n /\ DOMAIN s = 1 .. n
  BY DEF IsBuffer

LEMMA BufferOf ==
  ASSUME NEW n, NEW s, IsBuffer(s, n), NEW S, \A i \in 1 .. n : s[i] \in S
  PROVE  s \in Seq(S)
  BY DEF IsBuffer

LEMMA SameBuffer ==
  ASSUME NEW n, NEW s, NEW t, IsBuffer(s, n), IsBuffer(t, n),
         \A i \in 1 .. n : s[i] = t[i]
  PROVE  s = t
  BY DEF IsBuffer

LEMMA ConcatBuffer ==
  ASSUME NEW m, NEW n, NEW s, NEW t, IsBuffer(s, m), IsBuffer(t, n),
         NEW both, both = s \o t
  PROVE  /\ IsBuffer(both, m + n)
         /\ Starts(both, s) /\ HasAt(both, m, t)
  <1> DEFINE S == {s[i] : i \in 1 .. m} \cup {t[i] : i \in 1 .. n}
  <1>1. m \in Nat /\ n \in Nat /\ Len(s) = m /\ Len(t) = n
    BY BufferIsSeq
  <1>2. s \in Seq(S) /\ t \in Seq(S)
    <2>1. (\A i \in 1 .. m : s[i] \in S) /\ (\A i \in 1 .. n : t[i] \in S)
      OBVIOUS
    <2> HIDE DEF S
    <2> QED
      BY <2>1, BufferOf
  <1> HIDE DEF S
  <1>3. /\ s \o t \in Seq(S) /\ Len(s \o t) = m + n
        /\ \A i \in 1 .. m + n : (s \o t)[i] = IF i <= m THEN s[i] ELSE t[i - m]
    BY <1>1, <1>2, ConcatProperties
  <1>4. IsBuffer(both, m + n)
    BY <1>1, <1>3 DEF IsBuffer
  <1>5. \A i \in 1 .. m : both[i] = s[i]
    BY <1>1, <1>3
  <1>6. ASSUME NEW i \in 1 .. n PROVE both[m + i] = t[i]
    <2>1. m + i \in 1 .. m + n /\ ~(m + i <= m) /\ (m + i) - m = i
      BY <1>1
    <2> QED
      BY <1>3, <2>1
  <1> QED
    BY <1>1, <1>4, <1>5, <1>6 DEF Starts, HasAt

LEMMA SliceBuffer ==
  ASSUME NEW n, NEW s, IsBuffer(s, n), NEW o \in Nat, NEW k \in Nat, o + k <= n
  PROVE  /\ IsBuffer(Slice(s, o, k), k)
         /\ \A i \in 1 .. k : Slice(s, o, k)[i] = s[o + i]
  <1>1. n \in Nat /\ Len(s) = n
    BY BufferIsSeq
  <1>2. Slice(s, o, k) = [i \in 1 .. k |-> s[o + i]]
    BY <1>1 DEF Slice
  <1> QED
    BY <1>2 DEF IsBuffer

LEMMA PutBuffer ==
  ASSUME NEW n, NEW buf, IsBuffer(buf, n), NEW o \in Nat,
         NEW k, NEW s, IsBuffer(s, k), o + k <= n,
         NEW new, new = Put(buf, o, s)
  PROVE  IsBuffer(new, n) /\ HasAt(new, o, s) /\ SameBut(new, buf, n, o, k)
  <1>1. n \in Nat /\ k \in Nat /\ DOMAIN buf = 1 .. n /\ Len(s) = k
    BY BufferIsSeq
  <1>2. Put(buf, o, s) = [i \in 1 .. n |-> IF o < i /\ i <= o + k
                                             THEN s[i - o] ELSE buf[i]]
    <2>1. ASSUME NEW i \in 1 .. n
          PROVE  /\ (i - 1 >= o /\ i - 1 < o + k) <=> (o < i /\ i <= o + k)
      BY <1>1
    <2> QED
      BY <1>1, <2>1 DEF Put
  <1>4. /\ DOMAIN new = 1 .. n
        /\ \A i \in 1 .. n : new[i] = IF o < i /\ i <= o + k
                                       THEN s[i - o] ELSE buf[i]
    BY <1>2
  <1>5. IsBuffer(new, n)
    BY <1>1, <1>2, <1>4 DEF IsBuffer
  <1>7. \A i \in 1 .. k : new[o + i] = s[i]
    <2> TAKE i \in 1 .. k
    <2>1. o + i \in 1 .. n /\ o < o + i /\ o + i <= o + k /\ (o + i) - o = i
      BY <1>1
    <2> QED
      BY <1>4, <2>1
  <1>8. SameBut(new, buf, n, o, k)
    BY <1>1, <1>4 DEF SameBut
  <1> QED
    BY <1>1, <1>5, <1>7, <1>8 DEF HasAt

LEMMA PutFirst ==
  ASSUME NEW n, NEW buf, IsBuffer(buf, n), NEW k, NEW s, IsBuffer(s, k), k <= n
  PROVE  IsBuffer(Put(buf, 0, s), n) /\ Starts(Put(buf, 0, s), s)
  <1>1. k \in Nat /\ Len(s) = k /\ n \in Nat /\ 0 \in Nat /\ 0 + k <= n
    BY BufferIsSeq
  <1>2. IsBuffer(Put(buf, 0, s), n)
    BY <1>1, PutBuffer
  <1>3. ASSUME NEW i \in 1 .. k PROVE Put(buf, 0, s)[0 + i] = s[i]
    BY <1>1, BufferIsSeq DEF Put
  <1> QED
    BY <1>1, <1>2, <1>3 DEF Starts

(* What is put behind the bytes a buffer starts with is appended to them.  *)
LEMMA PutNext ==
  ASSUME NEW n, NEW buf, IsBuffer(buf, n),
         NEW m, NEW s, IsBuffer(s, m), Starts(buf, s),
         NEW k, NEW t, IsBuffer(t, k), m + k <= n
  PROVE  /\ IsBuffer(Put(buf, m, t), n)
         /\ IsBuffer(s \o t, m + k)
         /\ Starts(Put(buf, m, t), s \o t)
  <1>1. m \in Nat /\ k \in Nat /\ n \in Nat /\ Len(s) = m /\ Len(t) = k
    BY BufferIsSeq
  <1>2. PICK new : new = Put(buf, m, t)
    OBVIOUS
  <1>3. PICK both : both = s \o t
    OBVIOUS
  <1>4. IsBuffer(new, n) /\ HasAt(new, m, t) /\ SameBut(new, buf, n, m, k)
    BY <1>1, <1>2, PutBuffer
  <1>5. IsBuffer(both, m + k) /\ Starts(both, s) /\ HasAt(both, m, t)
    BY <1>3, ConcatBuffer
  <1>6. Len(both) = m + k
    BY <1>5, BufferIsSeq
  <1>7. ASSUME NEW i \in 1 .. m + k PROVE new[i] = both[i]
    <2>1. CASE i <= m
      BY <1>1, <1>4, <1>5, <2>1 DEF Starts, SameBut
    <2>2. CASE m < i
      <3>1. PICK j \in 1 .. k : j = i - m
        BY <1>1, <2>2
      <3>2. new[m + j] = t[j] /\ both[m + j] = t[j]
        BY <1>1, <1>4, <1>5 DEF HasAt
      <3>3. m + j = i
        BY <1>1, <3>1
      <3> QED
        BY <3>2, <3>3
    <2> QED
      BY <1>1, <2>1, <2>2
  <1> QED
    BY <1>2, <1>3, <1>4, <1>5, <1>6, <1>7 DEF Starts

LEMMA StartsSlice ==
  ASSUME NEW n, NEW buf, IsBuffer(buf, n), NEW m, NEW s, IsBuffer(s, m),
         Starts(buf, s), m <= n
  PROVE  Slice(buf, 0, m) = s
  <1>1. m \in Nat /\ n \in Nat /\ Len(s) = m
    BY BufferIsSeq
  <1>2. PICK t : t = Slice(buf, 0, m)
    OBVIOUS
  <1>3. IsBuffer(t, m) /\ \A i \in 1 .. m : t[i] = buf[0 + i]
    BY <1>1, <1>2, SliceBuffer
  <1>4. \A i \in 1 .. m : t[i] = s[i]
    BY <1>1, <1>3 DEF Starts
  <1> QED
    BY <1>2, <1>3, <1>4, SameBuffer

LEMMA StartsWhole ==
  ASSUME NEW n, NEW buf, IsBuffer(buf, n), NEW s, IsBuffer(s, n), Starts(buf, s)
  PROVE  buf = s
  BY BufferIsSeq, SameBuffer DEF Starts

----------------------------------------------------------------------------
(* The buffers of the kernels                                              *)

LEMMA Widths ==
  /\ ADDR \in Nat \ {0} /\ WORD \in Nat \ {0} /\ CTR \in Nat \ {0}
  /\ Base \in Nat \ {0} /\ ITERS \in Nat \ {0} /\ MAX_HITS \in Nat \ {0}
  /\ ADDR < WORD /\ CTR < WORD
  /\ STRIDE \in Nat /\ WORD + ADDR + 1 <= STRIDE
  /\ MAX_PREFIX \in Nat
  BY DerivationAssumption

LEMMA BytesBuffer ==
  ASSUME NEW name, NEW n \in Nat
  PROVE  IsBuffer(Bytes(name, n), n)
  BY DEF Bytes, IsBuffer

LEMMA UnwrittenBuffer ==
  ASSUME NEW n \in Nat
  PROVE  IsBuffer(Unwritten(n), n)
  BY BytesBuffer DEF Unwritten

LEMMA LiteralBuffer ==
  ASSUME NEW list, NEW n, IsBuffer(list, n)
  PROVE  IsBuffer(Literals(list), n)
  BY BufferIsSeq DEF Literals, IsBuffer

LEMMA OneByte ==
  ASSUME NEW x
  PROVE  IsBuffer(<<x>>, 1)
  BY DEF IsBuffer

LEMMA TwoBytes ==
  ASSUME NEW x, NEW y
  PROVE  IsBuffer(<<x, y>>, 2)
  BY DEF IsBuffer

LEMMA DigestBuffer ==
  ASSUME NEW x
  PROVE  IsBuffer(keccak256(x), WORD) /\ IsBuffer(AddressOf(keccak256(x)), ADDR)
  <1>1. IsBuffer(keccak256(x), WORD)
    BY Widths, BytesBuffer DEF keccak256
  <1>2. AddressOf(keccak256(x)) = Slice(keccak256(x), WORD - ADDR, ADDR)
    BY Widths DEF AddressOf, Slice
  <1> QED
    BY <1>1, <1>2, Widths, SliceBuffer

LEMMA PaddedBuffer ==
  ASSUME NEW a, IsBuffer(a, ADDR)
  PROVE  IsBuffer(Padded(a), WORD)
  <1> DEFINE zero == [i \in 1 .. WORD - ADDR |-> 0]
  <1>1. IsBuffer(zero, WORD - ADDR)
    BY Widths DEF IsBuffer
  <1> HIDE DEF zero
  <1>2. IsBuffer(Literals(zero) \o a, (WORD - ADDR) + ADDR)
    BY <1>1, LiteralBuffer, ConcatBuffer
  <1>3. Literals(zero) \o a = Padded(a) /\ (WORD - ADDR) + ADDR = WORD
    BY Widths DEF Padded, zero
  <1> QED
    BY <1>2, <1>3

----------------------------------------------------------------------------
(* The preimages of the kernels are those of the host                      *)

LEMMA Create2Agrees ==
  ASSUME NEW d, IsBuffer(d, ADDR), NEW s, IsBuffer(s, WORD), NEW h, IsBuffer(h, WORD)
  PROVE  /\ Create2Address(d, s, h) = HostCreate2(d, s, h)
         /\ IsBuffer(Create2Address(d, s, h), ADDR)
  <1> DEFINE n == 1 + ADDR + 2 * WORD
             ff == Literals(<<255>>)
             buf0 == Put(Unwritten(n), 0, ff)
             buf1 == Put(buf0, 1, d)
             buf2 == Put(buf1, 1 + ADDR, s)
             buf == Put(buf2, 1 + ADDR + WORD, h)
  <1>1. IsBuffer(Unwritten(n), n) /\ IsBuffer(ff, 1)
    BY Widths, UnwrittenBuffer, OneByte, LiteralBuffer
  <1>n. /\ n \in Nat /\ 1 <= n /\ 1 + ADDR <= n /\ 1 + ADDR + WORD <= n
        /\ 1 + ADDR + WORD + WORD = n
    BY Widths
  <1> HIDE DEF n, ff
  <1>2. IsBuffer(buf0, n) /\ Starts(buf0, ff)
    BY <1>1, <1>n, PutFirst
  <1> HIDE DEF buf0
  <1>3. /\ IsBuffer(buf1, n) /\ IsBuffer(ff \o d, 1 + ADDR)
        /\ Starts(buf1, ff \o d)
    BY <1>1, <1>2, <1>n, PutNext
  <1> HIDE DEF buf1
  <1>4. /\ IsBuffer(buf2, n) /\ IsBuffer(ff \o d \o s, 1 + ADDR + WORD)
        /\ Starts(buf2, ff \o d \o s)
    BY <1>3, <1>n, PutNext
  <1> HIDE DEF buf2
  <1>5. /\ IsBuffer(buf, n) /\ IsBuffer(ff \o d \o s \o h, 1 + ADDR + WORD + WORD)
        /\ Starts(buf, ff \o d \o s \o h)
    BY <1>4, <1>n, PutNext
  <1>6. buf = ff \o d \o s \o h
    BY <1>5, <1>n, StartsWhole
  <1>7. Create2Address(d, s, h) = AddressOf(keccak256(buf))
    BY DEF Create2Address, buf, buf2, buf1, buf0, ff, n
  <1>8. HostCreate2(d, s, h) = AddressOf(keccak256(ff \o d \o s \o h))
    BY DEF HostCreate2, ff
  <1> QED
    BY <1>6, <1>7, <1>8, DigestBuffer

LEMMA Nonce1Agrees ==
  ASSUME NEW a, IsBuffer(a, ADDR)
  PROVE  Nonce1Address(a) = HostNonce1(a)
  <1> DEFINE n == 3 + ADDR
             head == Literals(<<214, 148>>)
             one == Literals(<<1>>)
             buf0 == Put(Unwritten(n), 0, head)
             buf1 == Put(buf0, 2, a)
             buf == Put(buf1, 2 + ADDR, one)
  <1>1. IsBuffer(Unwritten(n), n) /\ IsBuffer(head, 2) /\ IsBuffer(one, 1)
    BY Widths, UnwrittenBuffer, OneByte, TwoBytes, LiteralBuffer
  <1>n. n \in Nat /\ 2 <= n /\ 2 + ADDR <= n /\ 2 + ADDR + 1 = n
    BY Widths
  <1> HIDE DEF n, head, one
  <1>2. IsBuffer(buf0, n) /\ Starts(buf0, head)
    BY <1>1, <1>n, PutFirst
  <1> HIDE DEF buf0
  <1>3. /\ IsBuffer(buf1, n) /\ IsBuffer(head \o a, 2 + ADDR)
        /\ Starts(buf1, head \o a)
    BY <1>1, <1>2, <1>n, PutNext
  <1> HIDE DEF buf1
  <1>4. /\ IsBuffer(buf, n) /\ IsBuffer(head \o a \o one, 2 + ADDR + 1)
        /\ Starts(buf, head \o a \o one)
    BY <1>1, <1>3, <1>n, PutNext
  <1>5. buf = head \o a \o one
    BY <1>4, <1>n, StartsWhole
  <1>6. Nonce1Address(a) = AddressOf(keccak256(buf))
    BY DEF Nonce1Address, buf, buf1, buf0, head, one, n
  <1>7. HostNonce1(a) = AddressOf(keccak256(head \o a \o one))
    BY DEF HostNonce1, head, one
  <1> QED
    BY <1>5, <1>6, <1>7

----------------------------------------------------------------------------
(* What the kernels find bound                                             *)

grid == <<salts_buf, counters_buf, <<ITERS>> >>

LEMMA BoundTwo ==
  ASSUME NEW a, NEW b, Buffers = <<a, b>> \o grid
  PROVE  /\ buffer(0) = a /\ buffer(1) = b
         /\ buffer(2) = salts_buf /\ buffer(3) = counters_buf /\ buffer(4) = <<ITERS>>
  <1> USE DEF buffer, grid
  <1>0. buffer(0) = a
    OBVIOUS
  <1>1. buffer(1) = b
    OBVIOUS
  <1>2. buffer(2) = salts_buf
    OBVIOUS
  <1>3. buffer(3) = counters_buf
    OBVIOUS
  <1>4. buffer(4) = <<ITERS>>
    OBVIOUS
  <1> QED
    BY <1>0, <1>1, <1>2, <1>3, <1>4

LEMMA BoundSeven ==
  ASSUME NEW a, NEW b, NEW c, NEW d, NEW e, NEW f, NEW g,
         Buffers = <<a, b, c, d, e, f, g>> \o grid
  PROVE  /\ buffer(0) = a /\ buffer(1) = b /\ buffer(2) = c /\ buffer(3) = d
         /\ buffer(4) = e /\ buffer(5) = f /\ buffer(6) = g
         /\ buffer(7) = salts_buf /\ buffer(8) = counters_buf /\ buffer(9) = <<ITERS>>
  <1> USE DEF buffer, grid
  <1>0. buffer(0) = a
    OBVIOUS
  <1>1. buffer(1) = b
    OBVIOUS
  <1>2. buffer(2) = c
    OBVIOUS
  <1>3. buffer(3) = d
    OBVIOUS
  <1>4. buffer(4) = e
    OBVIOUS
  <1>5. buffer(5) = f
    OBVIOUS
  <1>6. buffer(6) = g
    OBVIOUS
  <1>7. buffer(7) = salts_buf
    OBVIOUS
  <1>8. buffer(8) = counters_buf
    OBVIOUS
  <1>9. buffer(9) = <<ITERS>>
    OBVIOUS
  <1> QED
    BY <1>0, <1>1, <1>2, <1>3, <1>4, <1>5, <1>6, <1>7, <1>8, <1>9

LEMMA Bound ==
  /\ mode = "create2" =>
       buffer(0) = Bytes(Deployer, ADDR) /\ buffer(1) = Bytes(InitCodeHash, WORD)
  /\ mode \in {"create3", "createx"} =>
       buffer(0) = Bytes(Factory, ADDR) /\ buffer(1) = Bytes(ProxyHash, WORD)
  /\ mode = "create2tag" =>
       /\ buffer(0) = prefix_buf /\ buffer(1) = <<prefix_len>>
       /\ buffer(2) = Bytes(Deployer, ADDR) /\ buffer(3) = Bytes(Owner, ADDR)
       /\ buffer(4) = Bytes(Permissions, ADDR) /\ buffer(5) = Bytes(Factory, ADDR)
       /\ buffer(6) = Bytes(InitCodeHash, WORD)
  /\ mode \in {"create2", "create3", "createx", "create2tag"} =>
       /\ buffer(Grid) = salts_buf
       /\ buffer(Grid + 1) = counters_buf
       /\ buffer(Grid + 2) = <<ITERS>>
  <1>1. CASE mode = "create2"
    <2>1. Buffers = <<Bytes(Deployer, ADDR), Bytes(InitCodeHash, WORD)>> \o grid
      BY <1>1 DEF Buffers, grid
    <2> QED
      BY <1>1, <2>1, BoundTwo DEF Grid
  <1>2. CASE mode \in {"create3", "createx"}
    <2>1. Buffers = <<Bytes(Factory, ADDR), Bytes(ProxyHash, WORD)>> \o grid
      BY <1>2 DEF Buffers, grid
    <2> QED
      BY <1>2, <2>1, BoundTwo DEF Grid
  <1>3. CASE mode = "create2tag"
    <2>1. Buffers = <<prefix_buf, <<prefix_len>>, Bytes(Deployer, ADDR),
                      Bytes(Owner, ADDR), Bytes(Permissions, ADDR),
                      Bytes(Factory, ADDR), Bytes(InitCodeHash, WORD)>> \o grid
      BY <1>3 DEF Buffers, grid
    <2> QED
      BY <1>3, <2>1, BoundSeven DEF Grid
  <1> QED
    BY <1>1, <1>2, <1>3

(* The tagged kernel takes the prefix the host wrote, no byte more or less. *)
LEMMA TagAgrees ==
  ASSUME mode = "create2tag", prefix_len \in 0 .. MAX_PREFIX,
         NEW tag, IsBuffer(tag, WORD)
  PROVE  verify_create2tag(tag, mine_create2tag(tag))
  <1> DEFINE n == prefix_len
             size == MAX_PREFIX + ADDR + WORD
             prefix == Bytes(Prefix, n)
             deployer == Bytes(Deployer, ADDR)
             owner == Padded(Bytes(Owner, ADDR))
             permissions == Padded(Bytes(Permissions, ADDR))
             sender == Padded(deployer)
             salt == HostUserSalt(tag)
  <1>1. /\ IsBuffer(prefix, n) /\ IsBuffer(deployer, ADDR) /\ IsBuffer(salt, WORD)
        /\ IsBuffer(owner, WORD) /\ IsBuffer(permissions, WORD) /\ IsBuffer(sender, WORD)
    BY Widths, BytesBuffer, PaddedBuffer, DigestBuffer DEF HostUserSalt
  <1>2. PrefixLength = n
    BY Bound, Widths DEF PrefixLength
  <1>3. Slice(prefix_buf, 0, n) = prefix
    <2> DEFINE zeroes == [i \in 1 .. MAX_PREFIX |-> 0]
    <2>1. IsBuffer(zeroes, MAX_PREFIX)
      BY Widths DEF IsBuffer
    <2>2. IsBuffer(Literals(zeroes), MAX_PREFIX)
      BY <2>1, LiteralBuffer
    <2>3. IsBuffer(prefix_buf, MAX_PREFIX) /\ Starts(prefix_buf, prefix)
      BY <1>1, <2>2, PutFirst DEF prefix_buf
    <2> QED
      BY <1>1, <2>3, StartsSlice
  <1> DEFINE pfx == Put(Unwritten(size), 0, prefix)
             dep == Put(pfx, n, deployer)
             buf1 == Put(dep, n + ADDR, tag)
  <1>n. /\ size \in Nat /\ n \in Nat /\ n <= size /\ n + ADDR <= size
        /\ n + ADDR + WORD <= size
    BY Widths
  <1>4. keccak256(Slice(buf1, 0, n + ADDR + WORD)) = salt
    <2> HIDE DEF n, size, prefix, deployer
    <2>1. IsBuffer(pfx, size) /\ Starts(pfx, prefix)
      BY <1>1, <1>n, UnwrittenBuffer, PutFirst
    <2> HIDE DEF pfx
    <2>2. /\ IsBuffer(dep, size) /\ IsBuffer(prefix \o deployer, n + ADDR)
          /\ Starts(dep, prefix \o deployer)
      BY <1>1, <1>n, <2>1, PutNext
    <2> HIDE DEF dep
    <2>3. /\ IsBuffer(buf1, size) /\ IsBuffer(prefix \o deployer \o tag, n + ADDR + WORD)
          /\ Starts(buf1, prefix \o deployer \o tag)
      BY <1>n, <2>2, PutNext
    <2>4. Slice(buf1, 0, n + ADDR + WORD) = prefix \o deployer \o tag
      BY <1>n, <2>3, StartsSlice
    <2> QED
      BY <2>4 DEF HostUserSalt, prefix, deployer, n
  <1> DEFINE full == 4 * WORD
             own == Put(Unwritten(full), 0, owner)
             perm == Put(own, WORD, permissions)
             user == Put(perm, 2 * WORD, salt)
             buf2 == Put(user, 3 * WORD, sender)
  <1>m. /\ full \in Nat /\ WORD <= full /\ WORD + WORD = 2 * WORD
        /\ 2 * WORD <= full /\ 2 * WORD + WORD = 3 * WORD /\ 3 * WORD <= full
        /\ 3 * WORD + WORD = full
    BY Widths
  <1>5. keccak256(buf2) = HostEffectiveSalt(tag)
    <2> HIDE DEF full, owner, permissions, salt, sender, deployer
    <2>1. IsBuffer(own, full) /\ Starts(own, owner)
      BY <1>1, <1>m, UnwrittenBuffer, PutFirst
    <2> HIDE DEF own
    <2>2. /\ IsBuffer(perm, full) /\ IsBuffer(owner \o permissions, 2 * WORD)
          /\ Starts(perm, owner \o permissions)
      BY <1>1, <1>m, <2>1, PutNext
    <2> HIDE DEF perm
    <2>3. /\ IsBuffer(user, full) /\ IsBuffer(owner \o permissions \o salt, 3 * WORD)
          /\ Starts(user, owner \o permissions \o salt)
      BY <1>1, <1>m, <2>2, PutNext
    <2> HIDE DEF user
    <2>4. /\ IsBuffer(buf2, full) /\ IsBuffer(owner \o permissions \o salt \o sender, full)
          /\ Starts(buf2, owner \o permissions \o salt \o sender)
      BY <1>1, <1>m, <2>3, PutNext
    <2>5. buf2 = owner \o permissions \o salt \o sender
      BY <2>4, StartsWhole
    <2> QED
      BY <2>5 DEF HostEffectiveSalt, owner, permissions, salt, sender, deployer
  <1>6. mine_create2tag(tag) =
          Create2Address(Bytes(Factory, ADDR), HostEffectiveSalt(tag),
                         Bytes(InitCodeHash, WORD))
    BY <1>2, <1>3, <1>4, <1>5, Bound DEF mine_create2tag
  <1>7. IsBuffer(HostEffectiveSalt(tag), WORD)
    BY <1>5, DigestBuffer
  <1> QED
    BY <1>6, <1>7, Widths, BytesBuffer, Create2Agrees DEF verify_create2tag

(* Each kernel derives the address its host check expects.                 *)
LEMMA KernelVerified ==
  ASSUME mode \in {"create2", "create3", "createx", "create2tag"},
         prefix_len \in 0 .. MAX_PREFIX, NEW salt, IsBuffer(salt, WORD)
  PROVE  /\ IsBuffer(KernelAddress(salt), ADDR)
         /\ verified([salt |-> salt, address |-> KernelAddress(salt),
                      zeros |-> zeros(KernelAddress(salt))])
  <1>1. /\ IsBuffer(Bytes(Deployer, ADDR), ADDR) /\ IsBuffer(Bytes(Factory, ADDR), ADDR)
        /\ IsBuffer(Bytes(InitCodeHash, WORD), WORD)
        /\ IsBuffer(Bytes(ProxyHash, WORD), WORD)
        /\ IsBuffer(Guarded(salt), WORD)
    BY Widths, BytesBuffer, DigestBuffer DEF Guarded
  <1>2. CASE mode = "create2"
    BY <1>1, <1>2, Bound, Create2Agrees
    DEF KernelAddress, verified, mine_create2, verify_create2
  <1>3. CASE mode = "create3"
    BY <1>1, <1>3, Bound, Create2Agrees, Nonce1Agrees, DigestBuffer
    DEF KernelAddress, verified, mine_create3, verify_create3, HostNonce1
  <1>4. CASE mode = "createx"
    BY <1>1, <1>4, Bound, Create2Agrees, Nonce1Agrees, DigestBuffer
    DEF KernelAddress, verified, mine_createx, verify_createx, HostNonce1, Guarded
  <1>5. CASE mode = "create2tag"
    BY <1>5, TagAgrees, DigestBuffer
    DEF KernelAddress, verified, verify_create2tag, HostCreate2
  <1> QED
    BY <1>2, <1>3, <1>4, <1>5

----------------------------------------------------------------------------
(* The counter as bytes                                                    *)

(* f[i] is what i applications of step make of first.                      *)
IsIterate(f, S, first, step, n) ==
  /\ f \in [0 .. n -> S] /\ f[0] = first
  /\ \A i \in 1 .. n : f[i] = step[f[i - 1]]

LEMMA Iterates ==
  ASSUME NEW S, NEW first \in S, NEW step \in [S -> S], NEW N \in Nat
  PROVE  \E f : IsIterate(f, S, first, step, N)
  <1> USE DEF IsIterate
  <1> DEFINE Is(f, n) == IsIterate(f, S, first, step, n)
             Good == {n \in Nat : \E f : Is(f, n)}
  <1>1. 0 \in Good
    <2>1. Is([i \in 0 .. 0 |-> first], 0)
      OBVIOUS
    <2> QED
      BY <2>1
  <1>2. ASSUME NEW n \in Good PROVE n + 1 \in Good
    <2>1. PICK f : Is(f, n)
      OBVIOUS
    <2> DEFINE g == [i \in 0 .. n + 1 |-> IF i = n + 1 THEN step[f[n]] ELSE f[i]]
    <2>2. /\ n \in Nat /\ g \in [0 .. n + 1 -> S]
          /\ g[n + 1] = step[f[n]] /\ \A i \in 0 .. n : g[i] = f[i]
      BY <2>1
    <2> HIDE DEF g
    <2>3. \A i \in 1 .. n : g[i] = step[g[i - 1]]
      BY <2>1, <2>2
    <2>4. g[n + 1] = step[g[n]]
      BY <2>2
    <2>5. Is(g, n + 1)
      <3>1. g[0] = first
        BY <2>1, <2>2
      <3>2. ASSUME NEW i \in 1 .. n + 1 PROVE g[i] = step[g[i - 1]]
        <4>1. CASE i \in 1 .. n
          BY <2>3, <4>1
        <4>2. CASE i = n + 1
          <5>1. i - 1 = n
            BY <2>2, <4>2
          <5> QED
            BY <2>4, <4>2, <5>1
        <4> QED
          BY <2>2, <4>1, <4>2
      <3> QED
        BY <2>2, <3>1, <3>2
    <2> HIDE DEF Is, IsIterate
    <2> QED
      BY <2>2, <2>5
  <1> HIDE DEF IsIterate
  <1>3. Good = Nat
    <2>1. Good \in SUBSET Nat
      OBVIOUS
    <2> HIDE DEF Good
    <2> QED
      BY <1>1, <1>2, <2>1, GoodNaturals
  <1> QED
    BY <1>3

LEMMA PowerIsFunction ==
  /\ Power \in [0 .. CTR -> Nat \ {0}]
  /\ Power[0] = 1
  /\ \A i \in 1 .. CTR : Power[i] = Base * Power[i - 1]
  <1> DEFINE Powers == Nat \ {0}
             step == [x \in Powers |-> Base * x]
             Eq(g) == g = [i \in 0 .. CTR |-> IF i = 0 THEN 1 ELSE Base * g[i - 1]]
  <1>1. CTR \in Nat /\ Base \in Powers /\ step \in [Powers -> Powers] /\ 1 \in Powers
    BY Widths
  <1>2. PICK f \in [0 .. CTR -> Powers] :
          f[0] = 1 /\ \A i \in 1 .. CTR : f[i] = step[f[i - 1]]
    <2> HIDE DEF Powers, step
    <2>1. PICK f : IsIterate(f, Powers, 1, step, CTR)
      BY <1>1, Iterates
    <2> QED
      BY <2>1 DEF IsIterate
  <1>3. Eq(f)
    <2>1. ASSUME NEW i \in 0 .. CTR, i # 0 PROVE f[i] = Base * f[i - 1]
      <3>1. i \in 1 .. CTR /\ i - 1 \in 0 .. CTR
        BY <1>1, <2>1
      <3>2. f[i] = step[f[i - 1]] /\ f[i - 1] \in Powers
        BY <1>2, <3>1
      <3> QED
        BY <3>2
    <2> HIDE DEF step
    <2> QED
      BY <1>2, <2>1
  <1>4. Eq(Power)
    BY <1>3 DEF Power
  <1>5. \A i \in 0 .. CTR : Power[i] = IF i = 0 THEN 1 ELSE Base * Power[i - 1]
    BY <1>4
  <1> DEFINE Typed == {n \in Nat : n <= CTR => Power[n] \in Powers}
  <1>6. Typed = Nat
    <2>1. Typed \in SUBSET Nat /\ 0 \in Typed
      BY <1>1, <1>5
    <2>2. ASSUME NEW n \in Typed PROVE n + 1 \in Typed
      <3> SUFFICES ASSUME n + 1 <= CTR PROVE Power[n + 1] \in Powers
        OBVIOUS
      <3>1. n + 1 \in 0 .. CTR /\ n + 1 # 0 /\ (n + 1) - 1 = n /\ Power[n] \in Powers
        BY <1>1
      <3>2. Power[n + 1] = Base * Power[n]
        BY <1>5, <3>1
      <3> QED
        BY <1>1, <3>1, <3>2
    <2> HIDE DEF Typed
    <2> QED
      BY <2>1, <2>2, GoodNaturals
  <1>7. DOMAIN Power = 0 .. CTR /\ Power = [i \in 0 .. CTR |-> Power[i]]
    BY <1>4
  <1>8. \A i \in 0 .. CTR : Power[i] \in Powers
    BY <1>6
  <1>9. Power \in [0 .. CTR -> Powers]
    BY <1>7, <1>8
  <1> QED
    BY <1>1, <1>5, <1>9

LEMMA ShiftedIsFunction ==
  \A c \in Nat :
    /\ Shifted[0][c] = c
    /\ \A i \in 1 .. CTR : Shifted[i][c] = Shifted[i - 1][c \div Base]
  <1> DEFINE Shift == [Nat -> Nat]
             step == [g \in Shift |-> [c \in Nat |-> g[c \div Base]]]
             same == [c \in Nat |-> c]
             Eq(g) == g = [i \in 0 .. CTR |->
                            [c \in Nat |-> IF i = 0 THEN c ELSE g[i - 1][c \div Base]]]
  <1>1. CTR \in Nat /\ \A c \in Nat : c \div Base \in Nat
    BY Widths
  <1>2. step \in [Shift -> Shift] /\ same \in Shift
    BY <1>1
  <1>3. PICK f \in [0 .. CTR -> Shift] :
          f[0] = same /\ \A i \in 1 .. CTR : f[i] = step[f[i - 1]]
    <2> HIDE DEF Shift, step, same
    <2>1. PICK f : IsIterate(f, Shift, same, step, CTR)
      BY <1>1, <1>2, Iterates
    <2> QED
      BY <2>1 DEF IsIterate
  <1>4. Eq(f)
    <2>1. ASSUME NEW i \in 0 .. CTR, i # 0
          PROVE  f[i] = [c \in Nat |-> f[i - 1][c \div Base]]
      <3>1. i \in 1 .. CTR /\ i - 1 \in 0 .. CTR
        BY <1>1, <2>1
      <3>2. f[i] = step[f[i - 1]] /\ f[i - 1] \in Shift
        BY <1>3, <3>1
      <3> HIDE DEF Shift
      <3> QED
        BY <3>2
    <2> HIDE DEF step, Shift
    <2>2. ASSUME NEW i \in 0 .. CTR
          PROVE  f[i] = [c \in Nat |-> IF i = 0 THEN c ELSE f[i - 1][c \div Base]]
      <3>1. CASE i = 0
        BY <1>3, <3>1
      <3>2. CASE i # 0
        BY <2>1, <3>2
      <3> QED
        BY <3>1, <3>2
    <2> QED
      BY <1>3, <2>2
  <1>5. Eq(Shifted)
    BY Zenon, <1>4 DEF Shifted
  <1>6. ASSUME NEW i \in 0 .. CTR, NEW c \in Nat
        PROVE  Shifted[i][c] = IF i = 0 THEN c ELSE Shifted[i - 1][c \div Base]
    <2>1. PICK g : g = Shifted /\ Eq(g)
      BY <1>5
    <2>2. g[i] = [b \in Nat |-> IF i = 0 THEN b ELSE g[i - 1][b \div Base]]
      BY <2>1
    <2>3. g[i][c] = IF i = 0 THEN c ELSE g[i - 1][c \div Base]
      BY <2>2
    <2> QED
      BY <2>1, <2>3
  <1>7. ASSUME NEW c \in Nat PROVE Shifted[0][c] = c
    <2>1. 0 \in 0 .. CTR
      BY <1>1
    <2> QED
      BY <1>6, <2>1
  <1>8. ASSUME NEW c \in Nat, NEW i \in 1 .. CTR
        PROVE  Shifted[i][c] = Shifted[i - 1][c \div Base]
    <2>1. i \in 0 .. CTR /\ i # 0
      OBVIOUS
    <2> QED
      BY <1>6, <2>1
  <1> QED
    BY <1>7, <1>8

(* A counter is known by its bytes.                                        *)
LEMMA BytesTellCounter ==
  ASSUME NEW c \in 0 .. CounterSpace - 1, NEW d \in 0 .. CounterSpace - 1,
         \A i \in 0 .. CTR - 1 : Shifted[i][c] % Base = Shifted[i][d] % Base
  PROVE  c = d
  <1> DEFINE Agree(n, b, e) ==
               \A i \in Nat : i < n => Shifted[i][b] % Base = Shifted[i][e] % Base
             Told(n) == \A b, e \in Nat :
                          b < Power[n] /\ e < Power[n] /\ Agree(n, b, e) => b = e
             Good == {n \in Nat : n <= CTR => Told(n)}
  <1>p. /\ CTR \in Nat \ {0} /\ Base \in Nat \ {0}
        /\ Power[0] = 1
        /\ \A n \in Nat : n <= CTR => Power[n] \in Nat \ {0}
        /\ \A n \in Nat : n + 1 <= CTR => Power[n + 1] = Base * Power[n]
    <2>1. ASSUME NEW n \in Nat, n + 1 <= CTR PROVE Power[n + 1] = Base * Power[n]
      <3>1. n + 1 \in 1 .. CTR /\ (n + 1) - 1 = n
        BY <2>1, Widths
      <3> QED
        BY <3>1, PowerIsFunction
    <2> QED
      BY <2>1, Widths, PowerIsFunction
  <1>s. ASSUME NEW b \in Nat, NEW i \in Nat, i + 1 <= CTR
        PROVE  Shifted[i + 1][b] = Shifted[i][b \div Base]
    <2>1. i + 1 \in 1 .. CTR /\ (i + 1) - 1 = i
      BY <1>s, Widths
    <2> QED
      BY <2>1, ShiftedIsFunction
  <1>1. 0 \in Good
    BY <1>p
  <1>2. ASSUME NEW n \in Good PROVE n + 1 \in Good
    <2> SUFFICES ASSUME n + 1 <= CTR, NEW b \in Nat, NEW e \in Nat,
                        b < Power[n + 1], e < Power[n + 1], Agree(n + 1, b, e)
                 PROVE  b = e
      OBVIOUS
    <2>1. n \in Nat /\ n <= CTR /\ Told(n) /\ Power[n] \in Nat
      BY <1>p
    <2>2. PICK x, y \in Nat : x = b \div Base /\ y = e \div Base
      BY <1>p, Divided
    <2>3. x < Power[n] /\ y < Power[n]
      BY <1>p, <2>1, <2>2, QuotientBelow
    <2>4. Agree(n, x, y)
      <3> SUFFICES ASSUME NEW i \in Nat, i < n
                   PROVE  Shifted[i][x] % Base = Shifted[i][y] % Base
        OBVIOUS
      <3>1. i + 1 < n + 1 /\ i + 1 \in Nat /\ i + 1 <= CTR
        BY <1>p, <2>1
      <3>2. Shifted[i + 1][b] % Base = Shifted[i + 1][e] % Base
        BY <3>1
      <3>3. Shifted[i + 1][b] = Shifted[i][x] /\ Shifted[i + 1][e] = Shifted[i][y]
        BY <1>s, <2>2, <3>1
      <3> QED
        BY <3>2, <3>3
    <2>5. x = y
      BY <2>1, <2>3, <2>4
    <2>6. b % Base = e % Base
      <3>1. 0 \in Nat /\ 0 < n + 1
        BY <2>1
      <3>2. Shifted[0][b] % Base = Shifted[0][e] % Base
        BY <3>1
      <3> QED
        BY <3>2, ShiftedIsFunction
    <2>7. b = Base * x + (b % Base) /\ e = Base * y + (e % Base)
      BY <1>p, <2>2, Divided
    <2> QED
      BY <2>5, <2>6, <2>7
  <1>3. Good = Nat
    <2>1. Good \in SUBSET Nat
      OBVIOUS
    <2> HIDE DEF Good
    <2> QED
      BY <1>1, <1>2, <2>1, GoodNaturals
  <1>4. Told(CTR)
    BY <1>3, <1>p
  <1>5. c \in Nat /\ d \in Nat /\ c < Power[CTR] /\ d < Power[CTR] /\ Agree(CTR, c, d)
    BY <1>p DEF CounterSpace
  <1> QED
    BY <1>4, <1>5

----------------------------------------------------------------------------
(* The salts                                                               *)

Running == /\ mode \in {"create2", "create3", "createx", "create2tag"}
           /\ prefix_len \in 0 .. MAX_PREFIX
           /\ gid \in GpuThread

(* Row a of a table of n rows ends where the next one begins, at most.     *)
LEMMA Rows ==
  ASSUME NEW w \in Nat, NEW n \in Nat, NEW a \in Nat, a < n
  PROVE  a * w \in Nat /\ n * w \in Nat /\ a * w + w <= n * w
  <1>1. PICK d \in Nat : n = a + 1 + d
    <2>1. n - a - 1 \in Nat /\ n = a + 1 + (n - a - 1)
      OBVIOUS
    <2> QED
      BY <2>1
  <1>2. n * w = a * w + w + d * w /\ d * w \in Nat /\ a * w \in Nat
    BY <1>1
  <1> QED
    BY <1>2

LEMMA BaseSaltBytes ==
  ASSUME Running, NEW t \in GpuThread
  PROVE  /\ IsBuffer(base_salt(t), WORD)
         /\ \A i \in 1 .. WORD : base_salt(t)[i] = <<BaseSalts[t + 1], i>>
  <1>1. Len(BaseSalts) \in Nat /\ t \in Nat /\ t < Len(BaseSalts)
    BY DerivationAssumption DEF GpuThread
  <1> DEFINE size == Len(BaseSalts) * WORD
             o == t * WORD
  <1>2. o \in Nat /\ size \in Nat /\ o + WORD <= size
    BY <1>1, Rows, Widths
  <1>3. salts_buf = [i \in 1 .. size |-> <<BaseSalts[((i - 1) \div WORD) + 1],
                                          ((i - 1) % WORD) + 1>>]
    BY DEF salts_buf
  <1>4. IsBuffer(salts_buf, size)
    BY <1>2, <1>3 DEF IsBuffer
  <1>5. base_salt(t) = Slice(salts_buf, o, WORD)
    BY Bound DEF base_salt, Running
  <1>6. ASSUME NEW i \in 1 .. WORD PROVE salts_buf[o + i] = <<BaseSalts[t + 1], i>>
    <2>1. o + i \in 1 .. size
      BY <1>2, Widths
    <2>2. PICK c \in Nat, r \in Nat : r = i - 1 /\ c = (o + i) - 1
      BY <1>2, Widths
    <2>3. r < WORD /\ c = t * WORD + r
      BY <1>1, <1>2, <2>2, Widths
    <2>4. c \div WORD = t /\ c % WORD = r
      BY ONLY <1>1, <2>3, Widths, r \in Nat, c \in Nat
    <2> HIDE DEF o, size
    <2>5. salts_buf[o + i] = <<BaseSalts[(c \div WORD) + 1], (c % WORD) + 1>>
      BY <1>3, <2>1, <2>2
    <2> QED
      BY <2>2, <2>4, <2>5
  <1> HIDE DEF o, size
  <1>7. IsBuffer(Slice(salts_buf, o, WORD), WORD)
    BY <1>2, <1>4, SliceBuffer, Widths
  <1>8. ASSUME NEW i \in 1 .. WORD PROVE Slice(salts_buf, o, WORD)[i] = salts_buf[o + i]
    BY <1>2, <1>4, SliceBuffer, Widths
  <1> QED
    BY <1>5, <1>6, <1>7, <1>8

LEMMA SaltBytes ==
  ASSUME Running, NEW t \in GpuThread, NEW c
  PROVE  /\ IsBuffer(SaltOf(t, c), WORD)
         /\ SaltOf(t, c)[1] = <<BaseSalts[t + 1], 1>>
         /\ \A i \in 0 .. CTR - 1 : SaltOf(t, c)[WORD - i] = CounterByte(c, i)
  <1> DEFINE high == Slice(base_salt(t), 0, WORD - CTR)
             low == [i \in 1 .. CTR |-> CounterByte(c, CTR - i)]
             m == WORD - CTR
  <1>1. m \in Nat \ {0} /\ m + CTR = WORD /\ m <= WORD
    BY Widths
  <1>2. IsBuffer(high, m)
    BY <1>1, BaseSaltBytes, SliceBuffer, Widths
  <1>3. high[1] = <<BaseSalts[t + 1], 1>>
    <2>1. 1 \in 1 .. m /\ 1 \in 1 .. WORD
      BY <1>1, Widths
    <2>2. high[1] = base_salt(t)[0 + 1]
      BY <1>1, <2>1, BaseSaltBytes, SliceBuffer, Widths
    <2> QED
      BY <2>1, <2>2, BaseSaltBytes
  <1>4. IsBuffer(low, CTR) /\ Len(low) = CTR
    BY Widths DEF IsBuffer
  <1>5. \A i \in 1 .. CTR : low[i] = CounterByte(c, CTR - i)
    OBVIOUS
  <1>6. PICK salt : salt = high \o low
    OBVIOUS
  <1>7. SaltOf(t, c) = salt
    BY <1>6 DEF SaltOf
  <1> HIDE DEF high, low
  <1>8. IsBuffer(salt, m + CTR) /\ Starts(salt, high) /\ HasAt(salt, m, low)
    BY <1>2, <1>4, <1>6, ConcatBuffer
  <1>9. salt[1] = high[1]
    BY <1>1, <1>2, <1>8, BufferIsSeq DEF Starts
  <1>10. ASSUME NEW i \in 0 .. CTR - 1 PROVE salt[WORD - i] = CounterByte(c, i)
    <2>1. PICK j \in 1 .. CTR : j = CTR - i
      BY Widths
    <2>2. salt[m + j] = low[j]
      BY <1>4, <1>8 DEF HasAt
    <2>3. m + j = WORD - i /\ CTR - j = i
      BY <2>1, Widths
    <2> QED
      BY <1>5, <2>2, <2>3
  <1> QED
    BY <1>1, <1>3, <1>7, <1>8, <1>9, <1>10

(* The base salts differ above the counter, the counters in it.            *)
LEMMA SaltsDiffer ==
  ASSUME Running, NEW t \in GpuThread, NEW u \in GpuThread,
         NEW c \in 0 .. CounterSpace - 1, NEW d \in 0 .. CounterSpace - 1,
         SaltOf(t, c) = SaltOf(u, d)
  PROVE  t = u /\ c = d
  <1>1. BaseSalts[t + 1] = BaseSalts[u + 1]
    <2>1. <<BaseSalts[t + 1], 1>> = <<BaseSalts[u + 1], 1>>
      BY SaltBytes
    <2> QED
      BY <2>1
  <1>2. t = u
    <2>0. Len(BaseSalts) \in Nat /\ DOMAIN BaseSalts = 1 .. Len(BaseSalts)
      BY DerivationAssumption
    <2>1. t + 1 \in DOMAIN BaseSalts /\ u + 1 \in DOMAIN BaseSalts
      BY <2>0 DEF GpuThread
    <2>2. t + 1 = u + 1
      BY <1>1, <2>1, DerivationAssumption
    <2> QED
      BY <2>0, <2>2 DEF GpuThread
  <1>3. ASSUME NEW i \in 0 .. CTR - 1
        PROVE  Shifted[i][c] % Base = Shifted[i][d] % Base
    <2>1. CounterByte(c, i) = CounterByte(d, i)
      BY SaltBytes
    <2> QED
      BY <2>1 DEF CounterByte
  <1> QED
    BY <1>2, <1>3, BytesTellCounter

LEMMA CounterInSpace ==
  ASSUME Running, base \in 0 .. CounterSpace - 1, it \in Nat
  PROVE  CounterSpace \in Nat \ {0} /\ ctr \in 0 .. CounterSpace - 1
  <1>1. CounterSpace \in Nat \ {0}
    BY PowerIsFunction, Widths DEF CounterSpace
  <1>2. base_ctr = base
    <2>1. gid + 1 \in 1 .. Len(BaseSalts)
      BY DerivationAssumption DEF GpuThread, Running
    <2>2. buffer(Grid + 1) = counters_buf
      BY Bound DEF Running
    <2>3. counters_buf[gid + 1] = base
      BY <2>1 DEF counters_buf
    <2> QED
      BY <2>2, <2>3 DEF base_ctr
  <1>3. base + it \in Nat
    BY <1>1
  <1> QED
    BY <1>1, <1>2, <1>3, Divided DEF ctr

----------------------------------------------------------------------------
(* The records                                                             *)

(* Slot i of the buffer holds a salt, its address and the address' count.  *)
HasRecord(buf, i, salt, addr) ==
  /\ HasAt(buf, i * STRIDE, salt)
  /\ HasAt(buf, i * STRIDE + WORD, addr)
  /\ buf[i * STRIDE + WORD + ADDR + 1] = zeros(addr)

HitsSize == MAX_HITS * STRIDE

(* Bytes written further on change nothing here.                           *)
LEMMA StaysAt ==
  ASSUME NEW n \in Nat, NEW buf, NEW new, NEW p \in Nat, NEW k,
         SameBut(new, buf, n, p, k),
         NEW o \in Nat, NEW s, Len(s) \in Nat, o + Len(s) <= p, p <= n,
         HasAt(buf, o, s)
  PROVE  HasAt(new, o, s)
  <1> SUFFICES ASSUME NEW i \in 1 .. Len(s) PROVE new[o + i] = s[i]
    BY DEF HasAt
  <1>1. o + i \in 1 .. n /\ o + i <= p
    OBVIOUS
  <1> QED
    BY <1>1 DEF HasAt, SameBut

LEMMA RecordWritten ==
  ASSUME NEW buf, IsBuffer(buf, HitsSize), NEW i \in Nat, i < MAX_HITS,
         NEW salt, IsBuffer(salt, WORD), NEW addr, IsBuffer(addr, ADDR),
         NEW new, new = WriteRecord(buf, i, salt, addr)
  PROVE  /\ IsBuffer(new, HitsSize) /\ HasRecord(new, i, salt, addr)
         /\ \A b \in 1 .. HitsSize :
              b <= i * STRIDE \/ i * STRIDE + WORD + ADDR + 1 < b => new[b] = buf[b]
  <1> DEFINE o == i * STRIDE
             one == <<zeros(addr)>>
             buf1 == Put(buf, o, salt)
             buf2 == Put(buf1, o + WORD, addr)
  <1>1. /\ o \in Nat /\ HitsSize \in Nat /\ o + WORD + ADDR + 1 <= HitsSize
        /\ o + WORD <= HitsSize /\ o + WORD + ADDR <= HitsSize /\ o + WORD \in Nat
        /\ ADDR \in Nat \ {0} /\ WORD \in Nat \ {0}
    <2>1. i * STRIDE \in Nat /\ HitsSize \in Nat /\ i * STRIDE + STRIDE <= HitsSize
      BY Rows, Widths DEF HitsSize
    <2> QED
      BY <2>1, Widths
  <1>2. IsBuffer(one, 1) /\ Len(one) = 1 /\ one[1] = zeros(addr)
    BY OneByte
  <1>3. Len(salt) = WORD /\ Len(addr) = ADDR
    BY BufferIsSeq
  <1>4. new = Put(buf2, o + WORD + ADDR, one)
    BY Widths DEF WriteRecord, ZerosAt
  <1> HIDE DEF o, one
  <1>5. PICK b1 : b1 = buf1
    OBVIOUS
  <1>6. PICK b2 : b2 = Put(b1, o + WORD, addr) /\ b2 = buf2
    BY <1>5
  <1> HIDE DEF buf1, buf2
  <1>7. /\ IsBuffer(b1, HitsSize) /\ HasAt(b1, o, salt)
        /\ SameBut(b1, buf, HitsSize, o, WORD)
    BY <1>1, <1>5, PutBuffer DEF buf1
  <1>8. /\ IsBuffer(b2, HitsSize) /\ HasAt(b2, o + WORD, addr)
        /\ SameBut(b2, b1, HitsSize, o + WORD, ADDR)
    <2>1. o + WORD \in Nat /\ (o + WORD) + ADDR <= HitsSize
      BY <1>1
    <2> QED
      BY <1>6, <1>7, <2>1, PutBuffer
  <1>9. /\ IsBuffer(new, HitsSize) /\ HasAt(new, o + WORD + ADDR, one)
        /\ SameBut(new, b2, HitsSize, o + WORD + ADDR, 1)
    <2>1. /\ o + WORD + ADDR \in Nat /\ (o + WORD + ADDR) + 1 <= HitsSize
          /\ new = Put(b2, o + WORD + ADDR, one)
      BY <1>1, <1>4, <1>6
    <2> QED
      BY <1>2, <1>8, <2>1, PutBuffer
  <1>10. HasAt(new, o, salt)
    <2>1. HasAt(b2, o, salt)
      BY <1>1, <1>3, <1>7, <1>8, StaysAt
    <2> QED
      BY <1>1, <1>3, <1>9, <2>1, StaysAt
  <1>11. HasAt(new, o + WORD, addr)
    BY <1>1, <1>3, <1>8, <1>9, StaysAt
  <1>12. new[o + WORD + ADDR + 1] = zeros(addr)
    BY <1>2, <1>9 DEF HasAt
  <1>13. ASSUME NEW b \in 1 .. HitsSize, b <= o \/ o + WORD + ADDR + 1 < b
         PROVE  new[b] = buf[b]
    BY <1>1, <1>7, <1>8, <1>9, <1>13 DEF SameBut
  <1> QED
    BY <1>9, <1>10, <1>11, <1>12, <1>13 DEF HasRecord, o

(* A record leaves the other slots alone.                                  *)
LEMMA RecordKept ==
  ASSUME NEW buf, IsBuffer(buf, HitsSize), NEW i \in Nat, i < MAX_HITS,
         NEW salt, IsBuffer(salt, WORD), NEW addr, IsBuffer(addr, ADDR),
         NEW new, new = WriteRecord(buf, i, salt, addr),
         NEW j \in Nat, j < i,
         NEW s, IsBuffer(s, WORD), NEW a, IsBuffer(a, ADDR), HasRecord(buf, j, s, a)
  PROVE  HasRecord(new, j, s, a)
  <1> DEFINE o == j * STRIDE
  <1>1. /\ o \in Nat /\ HitsSize \in Nat /\ i * STRIDE \in Nat
        /\ o + WORD + ADDR + 1 <= i * STRIDE /\ i * STRIDE <= HitsSize
        /\ ADDR \in Nat /\ WORD \in Nat
    <2>1. /\ j * STRIDE \in Nat /\ i * STRIDE \in Nat /\ HitsSize \in Nat
          /\ j * STRIDE + STRIDE <= i * STRIDE
          /\ i * STRIDE + STRIDE <= HitsSize
      BY Rows, Widths DEF HitsSize
    <2> QED
      BY <2>1, Widths
  <1>2. \A b \in 1 .. i * STRIDE : new[b] = buf[b]
    BY <1>1, RecordWritten
  <1>3. Len(s) = WORD /\ Len(a) = ADDR
    BY BufferIsSeq
  <1> HIDE DEF o
  <1>4. \A b \in 1 .. o + WORD + ADDR + 1 : new[b] = buf[b]
    BY <1>1, <1>2
  <1>5. /\ HasAt(buf, o, s) /\ HasAt(buf, o + WORD, a)
        /\ buf[o + WORD + ADDR + 1] = zeros(a)
    BY DEF HasRecord, o
  <1>6. HasAt(new, o, s)
    BY <1>1, <1>3, <1>4, <1>5 DEF HasAt
  <1>7. HasAt(new, o + WORD, a)
    <2> SUFFICES ASSUME NEW b \in 1 .. ADDR PROVE new[o + WORD + b] = a[b]
      BY <1>3 DEF HasAt
    <2>1. o + WORD + b \in 1 .. o + WORD + ADDR + 1
      BY <1>1
    <2>2. buf[o + WORD + b] = a[b]
      BY <1>3, <1>5 DEF HasAt
    <2> QED
      BY <1>4, <2>1, <2>2
  <1>8. new[o + WORD + ADDR + 1] = zeros(a)
    BY <1>1, <1>4, <1>5
  <1> QED
    BY <1>6, <1>7, <1>8 DEF HasRecord, o

(* What the host slices out of the buffer is what the kernel put there.    *)
LEMMA RecordRead ==
  ASSUME NEW buf, IsBuffer(buf, HitsSize), NEW i \in Nat, i < MAX_HITS,
         NEW salt, IsBuffer(salt, WORD), NEW addr, IsBuffer(addr, ADDR),
         HasRecord(buf, i, salt, addr)
  PROVE  /\ Slice(buf, i * STRIDE, WORD) = salt
         /\ Slice(buf, i * STRIDE + WORD, ADDR) = addr
         /\ buf[i * STRIDE + WORD + ADDR + 1] = zeros(addr)
  <1> DEFINE o == i * STRIDE
  <1>1. /\ o \in Nat /\ o + WORD \in Nat /\ HitsSize \in Nat
        /\ o + WORD <= HitsSize /\ (o + WORD) + ADDR <= HitsSize
        /\ ADDR \in Nat /\ WORD \in Nat
    <2>1. i * STRIDE \in Nat /\ HitsSize \in Nat /\ i * STRIDE + STRIDE <= HitsSize
      BY Rows, Widths DEF HitsSize
    <2> QED
      BY <2>1, Widths
  <1>2. Len(salt) = WORD /\ Len(addr) = ADDR
    BY BufferIsSeq
  <1>3. /\ HasAt(buf, o, salt) /\ HasAt(buf, o + WORD, addr)
        /\ buf[o + WORD + ADDR + 1] = zeros(addr)
    BY DEF HasRecord
  <1> HIDE DEF o
  <1>4. Slice(buf, o, WORD) = salt
    <2>1. PICK t : t = Slice(buf, o, WORD)
      OBVIOUS
    <2>2. IsBuffer(t, WORD) /\ \A b \in 1 .. WORD : t[b] = buf[o + b]
      BY <1>1, <2>1, SliceBuffer
    <2>3. \A b \in 1 .. WORD : t[b] = salt[b]
      BY <1>2, <1>3, <2>2 DEF HasAt
    <2> QED
      BY <2>1, <2>2, <2>3, SameBuffer
  <1>5. Slice(buf, o + WORD, ADDR) = addr
    <2>1. PICK t : t = Slice(buf, o + WORD, ADDR)
      OBVIOUS
    <2>2. IsBuffer(t, ADDR) /\ \A b \in 1 .. ADDR : t[b] = buf[o + WORD + b]
      BY <1>1, <2>1, SliceBuffer
    <2>3. \A b \in 1 .. ADDR : t[b] = addr[b]
      BY <1>2, <1>3, <2>2 DEF HasAt
    <2> QED
      BY <2>1, <2>2, <2>3, SameBuffer
  <1> QED
    BY <1>3, <1>4, <1>5 DEF o

----------------------------------------------------------------------------
(* The inductive invariant: slot i has the record of the i-th counter that *)
(* was claimed, as long as there is room.                                  *)

Shape ==
  /\ Running
  /\ base \in 0 .. CounterSpace - 1
  /\ it \in Nat
  /\ claimed \in Seq(0 .. CounterSpace - 1) /\ hit_count = Len(claimed)
  /\ IsBuffer(hits, HitsSize)

RecordsInPlace ==
  \A i \in 1 .. Len(claimed) : i <= MAX_HITS =>
    HasRecord(hits, i - 1, SaltOf(gid, claimed[i]), KernelAddress(SaltOf(gid, claimed[i])))

IInv == Shape /\ RecordsInPlace

LEMMA InitIInv == Init => IInv
  <1> SUFFICES ASSUME Init PROVE IInv
    OBVIOUS
  <1>1. HitsSize \in Nat
    BY Widths DEF HitsSize
  <1>2. IsBuffer(hits, HitsSize)
    BY <1>1, UnwrittenBuffer DEF Init, HitsSize
  <1>3. CounterSpace \in Nat \ {0}
    BY PowerIsFunction, Widths DEF CounterSpace
  <1>4. Running
    <2>1. mode \in {"create2", "create3", "createx", "create2tag"}
      BY DerivationAssumption DEF Init
    <2> QED
      BY <2>1, Widths DEF Init, Running
  <1>5. claimed = <<>> /\ hit_count = 0 /\ base = 0 /\ it = 0
    BY DEF Init
  <1>6. Shape
    BY <1>2, <1>3, <1>4, <1>5 DEF Shape
  <1>7. RecordsInPlace
    BY <1>5 DEF RecordsInPlace
  <1> QED
    BY <1>6, <1>7 DEF IInv

(* What the kernel of a batch derives does not depend on the iteration.    *)
LEMMA SameDerivation ==
  ASSUME UNCHANGED <<mode, prefix_len, gid, base>>, NEW c
  PROVE  /\ Running' = Running
         /\ SaltOf(gid, c)' = SaltOf(gid, c)
         /\ KernelAddress(SaltOf(gid, c))' = KernelAddress(SaltOf(gid, c))
  <1>1. Running' = Running
    BY DEF Running
  <1>2. Grid' = Grid
    BY DEF Grid
  <1>3. Buffers' = Buffers
    BY DEF Buffers, counters_buf, prefix_buf
  <1>4. \A k : buffer(k)' = buffer(k)
    BY <1>3 DEF buffer
  <1>5. SaltOf(gid, c)' = SaltOf(gid, c)
    BY <1>2, <1>4 DEF SaltOf, base_salt
  <1>6. PrefixLength' = PrefixLength
    BY <1>4 DEF PrefixLength
  <1>7. \A s : KernelAddress(s)' = KernelAddress(s)
    BY <1>4, <1>6 DEF KernelAddress, mine_create2, mine_create3, mine_createx, mine_create2tag
  <1> QED
    BY <1>1, <1>5, <1>7

LEMMA NextIInv == IInv /\ [Next]_vars => IInv'
  <1> SUFFICES ASSUME IInv, [Next]_vars PROVE IInv'
    OBVIOUS
  <1> USE DEF IInv
  <1>0. CounterSpace \in Nat \ {0} /\ HitsSize \in Nat
    BY PowerIsFunction, Widths DEF CounterSpace, HitsSize
  <1>1. ASSUME UNCHANGED <<mode, prefix_len, gid, base, hit_count, hits, claimed>>, it' \in Nat
        PROVE  IInv'
    <2>1. Shape'
      BY <1>1 DEF Shape, Running
    <2>2. RecordsInPlace'
      <3> SUFFICES ASSUME NEW i \in 1 .. Len(claimed), i <= MAX_HITS
                   PROVE  HasRecord(hits, i - 1, SaltOf(gid, claimed[i])',
                                    KernelAddress(SaltOf(gid, claimed[i]))')
        BY <1>1 DEF RecordsInPlace, HasRecord
      <3> QED
        BY <1>1, SameDerivation DEF RecordsInPlace
    <2> QED
      BY <2>1, <2>2
  <1>2. CASE TooFewZeros /\ UNCHANGED <<mode, prefix_len, gid>>
    BY <1>1, <1>2 DEF TooFewZeros, Shape
  <1>3. CASE EmitHit /\ UNCHANGED <<mode, prefix_len, gid>>
    <2>1. PICK c \in 0 .. CounterSpace - 1 : c = ctr
      BY CounterInSpace DEF Shape
    <2>2. PICK salt, addr : salt = SaltOf(gid, c) /\ addr = KernelAddress(salt)
      OBVIOUS
    <2>3. /\ hits' = IF hit_count >= MAX_HITS THEN hits
                     ELSE WriteRecord(hits, hit_count, salt, addr)
          /\ claimed' = Append(claimed, c) /\ hit_count' = hit_count + 1
          /\ it' = it + 1 /\ UNCHANGED <<mode, prefix_len, gid, base>>
      BY <1>3, <2>1, <2>2 DEF EmitHit
    <2>4. \A b : IsBuffer(SaltOf(gid, b), WORD)
                 /\ IsBuffer(KernelAddress(SaltOf(gid, b)), ADDR)
      BY SaltBytes, KernelVerified DEF Shape, Running
    <2>5. /\ hit_count \in Nat /\ MAX_HITS \in Nat /\ Len(claimed) = hit_count
          /\ Len(claimed') = hit_count + 1 /\ claimed'[hit_count + 1] = c
          /\ claimed' \in Seq(0 .. CounterSpace - 1)
          /\ \A i \in 1 .. hit_count : claimed'[i] = claimed[i]
      BY <2>3, Widths DEF Shape
    <2>6. IsBuffer(hits', HitsSize)
      <3>1. CASE hit_count >= MAX_HITS
        BY <2>3, <3>1 DEF Shape
      <3>2. CASE hit_count < MAX_HITS
        <4>1. hits' = WriteRecord(hits, hit_count, salt, addr)
          BY <2>3, <2>5, <3>2
        <4> QED
          BY <2>2, <2>4, <2>5, <3>2, <4>1, RecordWritten DEF Shape
      <3> QED
        BY <2>5, <3>1, <3>2
    <2>7. Shape'
      BY <2>3, <2>5, <2>6 DEF Shape, Running
    <2>8. ASSUME NEW i \in 1 .. hit_count + 1, i <= MAX_HITS,
                 NEW s, s = SaltOf(gid, claimed'[i]),
                 NEW a, a = KernelAddress(s)
          PROVE  HasRecord(hits', i - 1, s, a)
      <3>1. CASE i = hit_count + 1
        <4>1. i - 1 = hit_count /\ hit_count < MAX_HITS
          BY <2>5, <2>8, <3>1
        <4>2. s = salt /\ a = addr
          BY <2>2, <2>5, <2>8, <3>1
        <4>3. hits' = WriteRecord(hits, hit_count, salt, addr)
          BY <2>3, <2>5, <4>1
        <4> QED
          BY <2>2, <2>4, <2>5, <4>1, <4>2, <4>3, RecordWritten DEF Shape
      <3>2. CASE i \in 1 .. hit_count
        <4>1. HasRecord(hits, i - 1, s, a)
          BY <2>5, <2>8, <3>2 DEF RecordsInPlace
        <4>2. CASE hit_count >= MAX_HITS
          BY <2>3, <4>1, <4>2
        <4>3. CASE hit_count < MAX_HITS
          <5>1. PICK j \in Nat : j = i - 1 /\ j < hit_count
            BY <2>5, <3>2
          <5>2. hits' = WriteRecord(hits, hit_count, salt, addr)
            BY <2>3, <2>5, <4>3
          <5>3. /\ IsBuffer(salt, WORD) /\ IsBuffer(addr, ADDR)
                /\ IsBuffer(s, WORD) /\ IsBuffer(a, ADDR) /\ IsBuffer(hits, HitsSize)
            BY <2>2, <2>4, <2>8 DEF Shape
          <5>4. HasRecord(hits', j, s, a)
            BY <2>5, <4>1, <4>3, <5>1, <5>2, <5>3, RecordKept
          <5> QED
            BY <5>1, <5>4
        <4> QED
          BY <2>5, <4>2, <4>3
      <3> QED
        BY <2>5, <3>1, <3>2
    <2>9. RecordsInPlace'
      <3> SUFFICES ASSUME NEW i \in 1 .. hit_count + 1, i <= MAX_HITS
                   PROVE  HasRecord(hits', i - 1, SaltOf(gid, claimed[i])',
                                    KernelAddress(SaltOf(gid, claimed[i]))')
        BY <2>5 DEF RecordsInPlace, HasRecord
      <3>1. PICK d : d = claimed'[i]
        OBVIOUS
      <3>2. /\ SaltOf(gid, d)' = SaltOf(gid, d)
            /\ KernelAddress(SaltOf(gid, d))' = KernelAddress(SaltOf(gid, d))
        BY <2>3, SameDerivation
      <3> QED
        BY <2>8, <3>1, <3>2
    <2> QED
      BY <2>7, <2>9
  <1>4. CASE NextBatch /\ UNCHANGED <<mode, prefix_len, gid>>
    <2>1. /\ claimed' = <<>> /\ hit_count' = 0 /\ it' = 0
          /\ base' = (base + ITERS) % CounterSpace
          /\ hits' = Unwritten(HitsSize)
      BY <1>4 DEF NextBatch, HitsSize
    <2>2. base' \in 0 .. CounterSpace - 1
      <3>1. base + ITERS \in Nat
        BY <1>0, Widths DEF Shape
      <3> QED
        BY <1>0, <2>1, <3>1, Divided
    <2>3. IsBuffer(hits', HitsSize)
      BY <1>0, <2>1, UnwrittenBuffer
    <2>4. Shape'
      BY <1>4, <2>1, <2>2, <2>3 DEF Shape, Running
    <2>5. RecordsInPlace'
      BY <2>1 DEF RecordsInPlace
    <2> QED
      BY <2>4, <2>5
  <1>5. CASE UNCHANGED vars
    BY <1>1, <1>5 DEF vars, Shape
  <1> QED
    BY <1>2, <1>3, <1>4, <1>5 DEF Next

(* In every state of a batch the slots the kernel wrote hold what was      *)
(* claimed.                                                                *)
THEOREM Invariance == Spec => []IInv
  <1>1. Init => IInv
    BY InitIInv
  <1>2. IInv /\ [Next]_vars => IInv'
    BY NextIInv
  <1> QED
    BY <1>1, <1>2, PTL DEF Spec

(* The host reads as many records as were claimed and had room, each the   *)
(* salt, address and count of its slot.                                    *)
LEMMA ReadBackIs ==
  ASSUME IInv
  PROVE  /\ Len(ReadBack) = IF Len(claimed) < MAX_HITS THEN Len(claimed) ELSE MAX_HITS
         /\ DOMAIN ReadBack = 1 .. Len(ReadBack)
         /\ \A i \in DOMAIN ReadBack :
              /\ i \in 1 .. Len(claimed)
              /\ ReadBack[i] = [salt |-> SaltOf(gid, claimed[i]),
                                address |-> KernelAddress(SaltOf(gid, claimed[i])),
                                zeros |-> zeros(KernelAddress(SaltOf(gid, claimed[i])))]
  <1> DEFINE count == IF hit_count < MAX_HITS THEN hit_count ELSE MAX_HITS
             read(i) == [salt    |-> Slice(hits, (i - 1) * STRIDE, WORD),
                         address |-> Slice(hits, (i - 1) * STRIDE + WORD, ADDR),
                         zeros   |-> hits[(i - 1) * STRIDE + WORD + ADDR + 1]]
  <1>1. /\ Len(claimed) \in Nat /\ hit_count = Len(claimed) /\ MAX_HITS \in Nat
        /\ IsBuffer(hits, HitsSize)
    BY Widths DEF IInv, Shape
  <1>2. ReadBack = [i \in 1 .. count |-> read(i)]
    BY DEF ReadBack
  <1>3. ASSUME NEW i \in 1 .. count
        PROVE  /\ i \in 1 .. Len(claimed)
               /\ read(i) = [salt |-> SaltOf(gid, claimed[i]),
                             address |-> KernelAddress(SaltOf(gid, claimed[i])),
                             zeros |-> zeros(KernelAddress(SaltOf(gid, claimed[i])))]
    <2>1. i \in 1 .. Len(claimed) /\ i <= MAX_HITS
      BY <1>1
    <2>2. PICK j \in Nat : j = i - 1 /\ j < MAX_HITS
      BY <1>1, <2>1
    <2>3. PICK s, a : s = SaltOf(gid, claimed[i]) /\ a = KernelAddress(s)
      OBVIOUS
    <2>4. IsBuffer(s, WORD) /\ IsBuffer(a, ADDR)
      BY <2>3, SaltBytes, KernelVerified DEF IInv, Shape, Running
    <2>5. HasRecord(hits, j, s, a)
      BY <2>1, <2>2, <2>3 DEF IInv, RecordsInPlace
    <2>6. /\ Slice(hits, j * STRIDE, WORD) = s
          /\ Slice(hits, j * STRIDE + WORD, ADDR) = a
          /\ hits[j * STRIDE + WORD + ADDR + 1] = zeros(a)
      BY <1>1, <2>2, <2>4, <2>5, RecordRead
    <2> QED
      BY <2>1, <2>2, <2>3, <2>6
  <1> HIDE DEF read
  <1>4. count \in Nat /\ Len(ReadBack) = count /\ DOMAIN ReadBack = 1 .. count
    BY <1>1, <1>2
  <1> QED
    BY <1>1, <1>2, <1>3, <1>4

(* The host accepts every record it reads back, in each of the four modes, *)
(* for every prefix length and counter.                                    *)
THEOREM HostAlwaysAgrees == Spec => []KernelAgreesWithHost
  <1>1. ASSUME IInv PROVE KernelAgreesWithHost
    <2> SUFFICES ASSUME NEW i \in DOMAIN ReadBack PROVE verified(ReadBack[i])
      BY DEF KernelAgreesWithHost
    <2>1. PICK s : s = SaltOf(gid, claimed[i])
      OBVIOUS
    <2>2. ReadBack[i] = [salt |-> s, address |-> KernelAddress(s),
                         zeros |-> zeros(KernelAddress(s))]
      BY <1>1, <2>1, ReadBackIs
    <2>3. IsBuffer(s, WORD)
      BY <1>1, <2>1, SaltBytes DEF IInv, Shape, Running
    <2> QED
      BY <1>1, <2>2, <2>3, KernelVerified DEF IInv, Shape, Running
  <1> QED
    BY <1>1, Invariance, PTL

(* The records are read back in the order of their slots, no more than     *)
(* have room, each with its own count.                                     *)
THEOREM HitsAlwaysReadBack == Spec => []HitsReadBack
  <1>1. IInv => HitsReadBack
    BY ReadBackIs DEF HitsReadBack
  <1> QED
    BY <1>1, Invariance, PTL

(* No two candidates of the grid and of its batches have the same salt     *)
(* until the counter wraps.                                                *)
THEOREM CandidatesAlwaysUnique == Spec => []CandidateIsUnique
  <1>1. ASSUME IInv PROVE CandidateIsUnique
    <2> SUFFICES ASSUME NEW t \in GpuThread, NEW c \in 0 .. CounterSpace - 1,
                        SaltOf(t, c) = SaltOf(gid, ctr)
                 PROVE  t = gid /\ c = ctr
      BY DEF CandidateIsUnique
    <2>1. /\ Running /\ gid \in GpuThread /\ ctr \in 0 .. CounterSpace - 1
      BY <1>1, CounterInSpace DEF IInv, Shape, Running
    <2> QED
      BY <2>1, SaltsDiffer
  <1> QED
    BY <1>1, Invariance, PTL

=============================================================================
