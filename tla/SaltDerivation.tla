--------------------------- MODULE SaltDerivation ---------------------------
(***************************************************************************)
(* A batch of the four salt-mining modes as bytes: the buffers the host    *)
(* binds by index, what a thread of the kernel reads of them, how it makes *)
(* a candidate and its address at the offsets it uses, the record it       *)
(* writes, what the host reads back, and the host's re-derivation of the   *)
(* address (dispatch_create2, verify_create2 and their siblings in         *)
(* src/src/gpu/mod.rs).  One GPU thread walks the counters of its batches; *)
(* threads that claim slots of one buffer are in HitBuffer.                *)
(*                                                                         *)
(* A byte is <<source, i>>: byte i of an input, of a base salt or of a     *)
(* digest.  keccak256 is a free constructor: a digest is named by what was *)
(* hashed, so that two are equal only if their preimages are.  Whether an  *)
(* address has enough zeros is open.  Widths are constants (20 bytes of an *)
(* address, 32 of a word, 8 of a counter, 64 of a record).                 *)
(***************************************************************************)
EXTENDS Naturals, Sequences

CONSTANTS
  ADDR, WORD, CTR,  \* bytes of an address, of a word, of the counter
  STRIDE,           \* bytes of a hit record
  Base,             \* values of a counter byte (256)
  ITERS,            \* candidates per thread
  MAX_HITS,         \* records the buffer has room for
  MAX_PREFIX,       \* C2T_MAX_PREFIX
  Mode,             \* the kernels run
  BaseSalts,        \* names of the base salts, one for each GPU thread
  Deployer, Factory, Owner, Permissions, InitCodeHash, Prefix, Literal, Nothing,
                    \* names of the inputs, of literal bytes, of memory not written
  ProxyHash         \* the hash given with --proxy-init-code-hash

ASSUME DerivationAssumption ==
  /\ {ADDR, WORD, CTR, Base, ITERS, MAX_HITS} \subseteq Nat \ {0}
  /\ ADDR < WORD /\ CTR < WORD
  /\ STRIDE \in Nat /\ WORD + ADDR + 1 <= STRIDE
  /\ MAX_PREFIX \in Nat
  /\ Mode \subseteq {"create2", "create3", "createx", "create2tag"}
  /\ BaseSalts \in Seq({BaseSalts[t] : t \in DOMAIN BaseSalts})
  /\ \A t, u \in DOMAIN BaseSalts : BaseSalts[t] = BaseSalts[u] => t = u

VARIABLES
  mode, prefix_len,  \* how the miner was started
  gid,               \* the GPU thread
  base,              \* the driver's base counter
  it,                \* the iteration, ITERS when the kernel is done
  hit_count, hits,   \* the buffers the kernel writes
  claimed            \* history: counters of the batch's hits, in order

vars == <<mode, prefix_len, gid, base, it, hit_count, hits, claimed>>

Power[i \in 0 .. CTR] == IF i = 0 THEN 1 ELSE Base * Power[i - 1]
CounterSpace == Power[CTR]
GpuThread == 0 .. Len(BaseSalts) - 1

----------------------------------------------------------------------------
(* Bytes.  A buffer is a sequence; offsets are the source's, from 0.       *)

Bytes(name, n) == [i \in 1 .. n |-> <<name, i>>]
Literals(list) == [i \in DOMAIN list |-> <<Literal, list[i]>>]

(* for (uint i = 0; i < len; i++) buf[offset + i] = bytes[i];              *)
Put(buf, offset, bytes) ==
  [i \in DOMAIN buf |->
     IF i - 1 >= offset /\ i - 1 < offset + Len(bytes)
       THEN bytes[i - offset] ELSE buf[i]]

Unwritten(n) == Bytes(Nothing, n)

(* n bytes from an offset on.                                              *)
Slice(buf, offset, n) == SubSeq(buf, offset + 1, offset + n)

keccak256(bytes) == Bytes(bytes, WORD)

(* digest[12..32]: the low bytes are the address.                          *)
AddressOf(digest) == SubSeq(digest, WORD - ADDR + 1, WORD)

Padded(addr) == Literals([i \in 1 .. WORD - ADDR |-> 0]) \o addr

----------------------------------------------------------------------------
(* The buffers of a dispatch, in the order set_buffer binds them           *)

salts_buf ==
  [i \in 1 .. Len(BaseSalts) * WORD |->
     <<BaseSalts[((i - 1) \div WORD) + 1], ((i - 1) % WORD) + 1>>]

counters_buf == [t \in 1 .. Len(BaseSalts) |-> base]

prefix_buf ==
  Put(Literals([i \in 1 .. MAX_PREFIX |-> 0]), 0, Bytes(Prefix, prefix_len))

Buffers ==
  LET grid == <<salts_buf, counters_buf, <<ITERS>> >>
  IN  CASE mode = "create2" ->
             << Bytes(Deployer, ADDR), Bytes(InitCodeHash, WORD) >> \o grid
        [] mode \in {"create3", "createx"} ->
             << Bytes(Factory, ADDR), Bytes(ProxyHash, WORD) >> \o grid
        [] mode = "create2tag" ->
             << prefix_buf, <<prefix_len>>, Bytes(Deployer, ADDR),
                Bytes(Owner, ADDR), Bytes(Permissions, ADDR),
                Bytes(Factory, ADDR), Bytes(InitCodeHash, WORD) >> \o grid

(* [[buffer(k)]] of a kernel.                                              *)
buffer(k) == Buffers[k + 1]

(* The first of the three that every kernel takes.                         *)
Grid == IF mode = "create2tag" THEN 7 ELSE 2
base_salt(t) == Slice(buffer(Grid), t * WORD, WORD)
base_ctr == buffer(Grid + 1)[gid + 1]
iters == buffer(Grid + 2)[1]

----------------------------------------------------------------------------
(* The kernels                                                             *)

(* ctr >> (8 * i): a byte is shifted out i times.                          *)
Shifted[i \in 0 .. CTR] ==
  [c \in Nat |-> IF i = 0 THEN c ELSE Shifted[i - 1][c \div Base]]

(* The 8 low bytes are a big-endian counter, base_ctr + it; the bytes      *)
(* above them are those of the thread's base salt.                         *)
LowByteOnly(c, i) == <<Literal, c % Base>>
CounterByte(c, i) == <<Literal, Shifted[i][c] % Base>>

SaltOf(t, c) ==
  Slice(base_salt(t), 0, WORD - CTR)
    \o [i \in 1 .. CTR |-> CounterByte(c, CTR - i)]

ctr == (base_ctr + it) % CounterSpace

(* 0xff, deployer, salt, init code hash at 0, 1, 21 and 53 of 85 bytes.    *)
Create2Address(deployer, salt, hash) ==
  LET buf0 == Put(Unwritten(1 + ADDR + 2 * WORD), 0, Literals(<<255>>))
      buf1 == Put(buf0, 1, deployer)
      buf2 == Put(buf1, 1 + ADDR, salt)
      buf  == Put(buf2, 1 + ADDR + WORD, hash)
  IN  AddressOf(keccak256(buf))

(* The RLP of [proxy, 1]: 0xd6, 0x94, the proxy, 0x01.                     *)
Nonce1Address(proxy) ==
  LET buf0 == Put(Unwritten(3 + ADDR), 0, Literals(<<214, 148>>))
      buf1 == Put(buf0, 2, proxy)
      buf  == Put(buf1, 2 + ADDR, Literals(<<1>>))
  IN  AddressOf(keccak256(buf))

mine_create2(salt) == Create2Address(buffer(0), salt, buffer(1))

mine_create3(salt) == Nonce1Address(Create2Address(buffer(0), salt, buffer(1)))

Guarded(salt) == keccak256(salt)

mine_createx(salt) ==
  Nonce1Address(Create2Address(buffer(0), Guarded(salt), buffer(1)))

(* pfx_len and offsets of the packed first preimage.                       *)
FullPrefix == MAX_PREFIX
PrefixLength == IF buffer(1)[1] < MAX_PREFIX THEN buffer(1)[1] ELSE MAX_PREFIX

mine_create2tag(tag) ==
  LET n    == PrefixLength
      pfx  == Put(Unwritten(MAX_PREFIX + ADDR + WORD), 0, Slice(buffer(0), 0, n))
      dep  == Put(pfx, n, buffer(2))
      buf1 == Put(dep, n + ADDR, tag)
      userSalt == keccak256(Slice(buf1, 0, n + ADDR + WORD))
      own  == Put(Unwritten(4 * WORD), 0, Padded(buffer(3)))
      perm == Put(own, WORD, Padded(buffer(4)))
      user == Put(perm, 2 * WORD, userSalt)
      buf2 == Put(user, 3 * WORD, Padded(buffer(2)))
  IN  Create2Address(buffer(5), keccak256(buf2), buffer(6))

KernelAddress(salt) ==
  CASE mode = "create2" -> mine_create2(salt)
    [] mode = "create3" -> mine_create3(salt)
    [] mode = "createx" -> mine_createx(salt)
    [] mode = "create2tag" -> mine_create2tag(salt)

(* The count of an address, as a byte.                                     *)
zeros(addr) == <<addr, 0>>

OverTheAddress == WORD + ADDR - 1
ZerosAt == WORD + ADDR

WriteRecord(buf, idx, salt, addr) ==
  LET out == idx * STRIDE
  IN  Put(Put(Put(buf, out, salt), out + WORD, addr),
          out + ZerosAt, <<zeros(addr)>>)

----------------------------------------------------------------------------
(* The host: preimages built by extend_from_slice                          *)

HostCreate2(deployer, salt, hash) ==
  AddressOf(keccak256(Literals(<<255>>) \o deployer \o salt \o hash))

HostNonce1(proxy) ==
  AddressOf(keccak256(Literals(<<214, 148>>) \o proxy \o Literals(<<1>>)))

HostUserSalt(tag) ==
  keccak256(Bytes(Prefix, prefix_len) \o Bytes(Deployer, ADDR) \o tag)

HostEffectiveSalt(tag) ==
  keccak256(Padded(Bytes(Owner, ADDR)) \o Padded(Bytes(Permissions, ADDR))
            \o HostUserSalt(tag) \o Padded(Bytes(Deployer, ADDR)))

verify_create2(salt, address) ==
  address = HostCreate2(Bytes(Deployer, ADDR), salt, Bytes(InitCodeHash, WORD))

verify_create3(salt, address) ==
  address = HostNonce1(HostCreate2(Bytes(Factory, ADDR), salt,
                                   Bytes(ProxyHash, WORD)))

verify_createx(salt, address) ==
  address = HostNonce1(HostCreate2(Bytes(Factory, ADDR), keccak256(salt),
                                   Bytes(ProxyHash, WORD)))

verify_create2tag(tag, address) ==
  address = HostCreate2(Bytes(Factory, ADDR), HostEffectiveSalt(tag),
                        Bytes(InitCodeHash, WORD))

verified(hit) ==
  CASE mode = "create2" -> verify_create2(hit.salt, hit.address)
    [] mode = "create3" -> verify_create3(hit.salt, hit.address)
    [] mode = "createx" -> verify_createx(hit.salt, hit.address)
    [] mode = "create2tag" -> verify_create2tag(hit.salt, hit.address)

(* What the dispatch returns of the buffers.                               *)
ReadBack ==
  LET count == IF hit_count < MAX_HITS THEN hit_count ELSE MAX_HITS
  IN  [i \in 1 .. count |->
         LET rec == (i - 1) * STRIDE
         IN  [salt    |-> Slice(hits, rec, WORD),
              address |-> Slice(hits, rec + WORD, ADDR),
              zeros   |-> hits[rec + WORD + ADDR + 1]]]

----------------------------------------------------------------------------
Init ==
  /\ mode \in Mode
  /\ prefix_len \in IF mode = "create2tag" THEN 0 .. MAX_PREFIX ELSE {0}
  /\ gid \in GpuThread
  /\ base = 0 /\ it = 0
  /\ hit_count = 0 /\ hits = Unwritten(MAX_HITS * STRIDE)
  /\ claimed = <<>>

TooFewZeros ==
  /\ it < iters
  /\ it' = it + 1
  /\ UNCHANGED <<base, hit_count, hits, claimed>>

EmitHit ==
  /\ it < iters
  /\ it' = it + 1
  /\ hit_count' = hit_count + 1
  /\ LET salt == SaltOf(gid, ctr)
     IN  hits' = IF hit_count >= MAX_HITS THEN hits
                 ELSE WriteRecord(hits, hit_count, salt, KernelAddress(salt))
  /\ claimed' = Append(claimed, ctr)
  /\ UNCHANGED base

(* The host's next batch: base.wrapping_add(ITERS), and new buffers.       *)
NextBatch ==
  /\ it = iters
  /\ base' = (base + ITERS) % CounterSpace
  /\ it' = 0
  /\ hit_count' = 0 /\ hits' = Unwritten(MAX_HITS * STRIDE)
  /\ claimed' = <<>>

Next ==
  /\ TooFewZeros \/ EmitHit \/ NextBatch
  /\ UNCHANGED <<mode, prefix_len, gid>>

Spec == Init /\ [][Next]_vars

----------------------------------------------------------------------------
(* The host accepts what every kernel emits, for every prefix length and   *)
(* counter, as it reads it back: the fatal exit of the drivers never ends  *)
(* a correct search.                                                       *)
KernelAgreesWithHost == \A i \in DOMAIN ReadBack : verified(ReadBack[i])

(* The host reads the hits in the order of their slots, as many as have    *)
(* room, each with the count of its own address, which no check of the     *)
(* host covers, and nothing of the neighbouring slot or of new memory.     *)
HitsReadBack ==
  /\ Len(ReadBack) = IF Len(claimed) < MAX_HITS THEN Len(claimed) ELSE MAX_HITS
  /\ \A i \in DOMAIN ReadBack :
       /\ ReadBack[i].salt = SaltOf(gid, claimed[i])
       /\ ReadBack[i].zeros = zeros(ReadBack[i].address)

(* The salt names its thread and its counter: no two candidates of the     *)
(* grid and its batches are the same until the counter wraps.              *)
CandidateIsUnique ==
  it < iters =>
    \A t \in GpuThread, c \in 0 .. CounterSpace - 1 :
      SaltOf(t, c) = SaltOf(gid, ctr) => t = gid /\ c = ctr

=============================================================================
