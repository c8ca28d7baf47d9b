------------------------------ MODULE Notation ------------------------------
(***************************************************************************)
(* The compact form of an address (src/src/erc8117.rs) and the two ways    *)
(* its zeros are counted.  An address is the sequence of its nibbles; a    *)
(* text is a sequence of characters, hex digits, subscript digits and the  *)
(* rest, the literal 0x of either form left out.                           *)
(***************************************************************************)
EXTENDS Naturals, Sequences, FiniteSets

LEADING_ZERO_THRESHOLD == 4

Hex(nibble) == <<"hex", nibble>>
Subscript(d) == <<"subscript", d>>
Literal(s) == <<s>>

(* The characters '0' at the start.                                        *)
count_leading_zeros(address) ==
  Cardinality({i \in DOMAIN address : \A j \in 1 .. i : address[j] = 0})

(* cpu.rs: two for every byte of zeros, one more when the first other byte *)
(* is below 0x10.  The kernels count in the same way.                      *)
leading_zero_nibbles(address) ==
  LET bytes == 1 .. Len(address) \div 2
      high(b) == address[2 * b - 1]
      low(b) == address[2 * b]
      rest == {b \in bytes : high(b) # 0 \/ low(b) # 0}
      first == CHOOSE b \in rest : \A c \in rest : b <= c
  IN  IF rest = {} THEN Len(address)
      ELSE 2 * (first - 1) + IF high(first) = 0 THEN 1 ELSE 0

(* A count is at most 40.                                                  *)
Decimal(k) == IF k < 10 THEN <<k>> ELSE <<k \div 10, k % 10>>

LastDigit(k) == <<Subscript(k % 10)>>
to_subscript(k) == [i \in DOMAIN Decimal(k) |-> Subscript(Decimal(k)[i])]

(* Casing is not an issue: the miners hand over lower case.                *)
Digits(nibbles) == [i \in DOMAIN nibbles |-> Hex(nibbles[i])]

format_address(address, mode, truncate) ==
  LET zeros == count_leading_zeros(address)
      remainder == Digits(SubSeq(address, zeros + 1, Len(address)))
      count == IF mode = "Subscript" THEN to_subscript(zeros)
               ELSE <<Literal("(")>> \o Digits(Decimal(zeros)) \o <<Literal(")")>>
      shown == IF ~truncate \/ Len(remainder) <= 8 THEN remainder
               ELSE SubSeq(remainder, 1, 4) \o <<Literal("...")>>
                      \o SubSeq(remainder, Len(remainder) - 3, Len(remainder))
  IN  IF zeros < LEADING_ZERO_THRESHOLD THEN Digits(address)
      ELSE <<Hex(0)>> \o count \o shown

=============================================================================
