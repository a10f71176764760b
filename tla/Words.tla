------------------------------- MODULE Words -------------------------------
(***************************************************************************)
(* The machine words of the simulated MIPS32 processor.                    *)
(*                                                                         *)
(* The C code computes on uint8_t, uint16_t, uint32_t and int32_t.  Their  *)
(* width is a parameter here: a byte has ByteBits bits, a half word two    *)
(* bytes and a word four.  The program has ByteBits = 8; model checking    *)
(* uses 4, which keeps every wrap-around and every sign bit and makes the  *)
(* word 16 bits wide.  A word is an integer in 0 .. WordSize - 1.          *)
(***************************************************************************)
EXTENDS Integers, FiniteSetsExt

CONSTANTS
    ByteBits,       \* bits in a byte
    ByteSize        \* number of values of a byte

ASSUME ByteAssumption ==
    /\ ByteBits \in Nat /\ ByteBits > 2
    /\ ByteSize \in Nat /\ ByteSize > 7
    /\ ByteSize = 2 ^ ByteBits
    /\ ByteSize % 2 = 0         \* follows, but not for the provers

WordBits == 4 * ByteBits
HalfSize == ByteSize * ByteSize
WordSize == HalfSize * HalfSize

Byte == 0 .. ByteSize - 1
Word == 0 .. WordSize - 1

(* What byte n of a number counts for; byte 0 is the least significant. *)
Weight(n) ==
    CASE n = 0 -> 1
      [] n = 1 -> ByteSize
      [] n = 2 -> HalfSize
      [] n = 3 -> ByteSize * HalfSize
      [] n = 4 -> WordSize

(* The values of int32_t. *)
SignSize == WordSize \div 2
INT_MAX == SignSize - 1
INT_MIN == -SignSize

-----------------------------------------------------------------------------
(***************************************************************************)
(* Casts.  (uint32_t)x keeps x modulo 2^32 and (uint8_t)x modulo 2^8; the  *)
(* second branch only makes them total.  (int32_t)x reads the sign bit.    *)
(***************************************************************************)
u8(x) == IF x \in Int THEN x % ByteSize ELSE 0
u32(x) == IF x \in Int THEN x % WordSize ELSE 0

s32(w) == IF w < SignSize THEN w ELSE w - WordSize

(* SIGN_EXTEND of a 16-bit immediate, as the word that holds it. *)
SIGN_EXTEND(imm) == IF imm < HalfSize \div 2 THEN imm ELSE u32(imm - HalfSize)

-----------------------------------------------------------------------------
(***************************************************************************)
(* Bits: a word is identified with the set of the positions of its ones.   *)
(***************************************************************************)
BitPositions == 0 .. WordBits - 1

Bits(w) == {i \in BitPositions : (w \div (2 ^ i)) % 2 = 1}

FromBits(S) == u32(MapThenSumSet(LAMBDA i : 2 ^ i, S))

BitAnd(a, b) == FromBits(Bits(a) \cap Bits(b))
BitOr(a, b)  == FromBits(Bits(a) \cup Bits(b))
BitNor(a, b) == FromBits(BitPositions \ (Bits(a) \cup Bits(b)))
Shl(w, n)    == IF n >= WordBits THEN 0
                ELSE u32((w % (2 ^ (WordBits - n))) * (2 ^ n))
Shr(w, n)    == u32(w \div (2 ^ n))

-----------------------------------------------------------------------------
(***************************************************************************)
(* tools.c: does the signed addition overflow?  The tests are written so   *)
(* that they do not overflow themselves.                                   *)
(***************************************************************************)
(* Mutant: the test for negative numbers leaves out the smallest one. *)
SoverflowOffByOne(a, b) ==
    \/ b > 0 /\ a > INT_MAX - b
    \/ b < 0 /\ a < INT_MIN - b - 1

check_soverflow(a, b) ==
    \/ b > 0 /\ a > INT_MAX - b
    \/ b < 0 /\ a < INT_MIN - b

=============================================================================
