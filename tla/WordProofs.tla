----------------------------- MODULE WordProofs -----------------------------
(***************************************************************************)
(* Facts about words that hold for every width of a byte.                  *)
(***************************************************************************)
EXTENDS Words, TLAPS

LEMMA HalfSizeBound == HalfSize \in Nat /\ HalfSize >= 64
<1>1. ByteSize \in Nat /\ ByteSize >= 8
  BY ByteAssumption
<1>2. \A x \in Nat : x >= 8 => x * x \in Nat /\ x * x >= 64
  BY SMT
<1> QED  BY <1>1, <1>2 DEF HalfSize

LEMMA WordSizeBound == WordSize \in Nat /\ WordSize >= 4096
<1>1. \A x \in Nat : x >= 64 => x * x \in Nat /\ x * x >= 4096
  BY SMT
<1> QED  BY <1>1, HalfSizeBound DEF WordSize

(* A cast yields a word, a byte. *)
LEMMA CastType == \A x : u32(x) \in Word /\ u8(x) \in Byte
<1>1. WordSize \in Nat /\ WordSize > 0 /\ ByteSize \in Nat /\ ByteSize > 0
  BY WordSizeBound, ByteAssumption
<1>2. \A x \in Int : x % WordSize \in 0 .. WordSize - 1
  BY <1>1, SMT
<1>3. \A x \in Int : x % ByteSize \in 0 .. ByteSize - 1
  BY <1>1, SMT
<1> QED  BY <1>1, <1>2, <1>3 DEF u32, u8, Word, Byte

(***************************************************************************)
(* check_soverflow is exact: it reports an overflow if and only if the sum *)
(* of the two int32_t values is not an int32_t value.                      *)
(***************************************************************************)
THEOREM SoverflowExact ==
    \A a, b \in INT_MIN .. INT_MAX :
        check_soverflow(a, b) <=> a + b \notin INT_MIN .. INT_MAX
<1>1. SignSize \in Nat
  BY WordSizeBound, SMT DEF SignSize
<1> QED  BY <1>1, SMT DEF check_soverflow, INT_MIN, INT_MAX

-----------------------------------------------------------------------------
(***************************************************************************)
(* Numbers and their bytes.                                                *)
(***************************************************************************)
LEMMA DivMod ==
    \A q, r, b \in Nat : r < b => (q * b + r) \div b = q /\ (q * b + r) % b = r
BY SMT

LEMMA DivDiv ==
    \A w, x, y \in Nat : x > 0 /\ y > 0 => (w \div x) \div y = w \div (x * y)
BY SMT

LEMMA SizeFacts ==
    /\ ByteSize \in Nat /\ ByteSize > 7
    /\ HalfSize \in Nat /\ HalfSize > 0 /\ HalfSize = ByteSize * ByteSize
    /\ ByteSize * HalfSize \in Nat /\ ByteSize * HalfSize > 0
    /\ WordSize \in Nat /\ WordSize > 0 /\ WordSize = ByteSize * (ByteSize * HalfSize)
<1>1. ByteSize \in Nat /\ ByteSize > 7
  BY ByteAssumption
<1>2. \A x, y \in Nat : x > 0 /\ y > 0 => x * y \in Nat /\ x * y > 0
  BY SMT
<1>3. \A x \in Nat : (x * x) * (x * x) = x * (x * (x * x))
  BY SMT
<1> QED  BY <1>1, <1>2, <1>3, HalfSizeBound, WordSizeBound DEF HalfSize, WordSize

(* What the bytes of a number are, one division at a time. *)
LEMMA ByteByByte ==
    ASSUME NEW w \in Nat
    PROVE  /\ u8(w \div Weight(0)) = w % ByteSize
           /\ u8(w \div Weight(1)) = (w \div ByteSize) % ByteSize
           /\ u8(w \div Weight(2)) = ((w \div ByteSize) \div ByteSize) % ByteSize
           /\ u8(w \div Weight(3)) =
                (((w \div ByteSize) \div ByteSize) \div ByteSize) % ByteSize
<1>1. /\ w \div 1 = w
      /\ w \div ByteSize \in Nat /\ w \div HalfSize \in Nat
      /\ w \div (ByteSize * HalfSize) \in Nat
  BY SizeFacts, SMT
<1>2. w \div HalfSize = (w \div ByteSize) \div ByteSize
  BY SizeFacts, DivDiv
<1>3. w \div (ByteSize * HalfSize) = ((w \div ByteSize) \div ByteSize) \div ByteSize
  <2>1. w \div (HalfSize * ByteSize) = (w \div HalfSize) \div ByteSize
    BY SizeFacts, DivDiv
  <2>2. HalfSize * ByteSize = ByteSize * HalfSize
    BY SizeFacts, SMT
  <2> QED  BY <1>2, <2>1, <2>2
<1> QED  BY <1>1, <1>2, <1>3 DEF u8, Weight

(* A word is the sum of its bytes, each at its weight; a half word too. *)
LEMMA SumOfBytes ==
    ASSUME NEW w \in Word
    PROVE  /\ u8(w \div Weight(3)) * ByteSize * HalfSize + u8(w \div Weight(2)) * HalfSize
                + u8(w \div Weight(1)) * ByteSize + u8(w \div Weight(0)) = w
           /\ u8(w \div Weight(1)) * ByteSize + u8(w \div Weight(0)) = w % HalfSize
<1> DEFINE w1 == w \div ByteSize
           w2 == w1 \div ByteSize
           w3 == w2 \div ByteSize
<1>1. w \in Nat /\ w < WordSize
  BY SizeFacts DEF Word
<1>2. w1 \in Nat /\ w2 \in Nat /\ w3 \in Nat
  BY <1>1, SizeFacts, SMT
<1>3. /\ w = w1 * ByteSize + (w % ByteSize)
      /\ w1 = w2 * ByteSize + (w1 % ByteSize)
      /\ w2 = w3 * ByteSize + (w2 % ByteSize)
  BY <1>1, <1>2, SizeFacts, SMT
<1>4. w3 % ByteSize = w3
  <2>1. w3 = w \div (ByteSize * HalfSize)
    <3>1. w \div HalfSize = w2
      BY <1>1, SizeFacts, DivDiv
    <3>2. w \div (HalfSize * ByteSize) = w3
      BY <1>1, <3>1, SizeFacts, DivDiv
    <3> QED  BY <3>2, SizeFacts, SMT
  <2>2. \A x, y, z \in Nat : y > 0 /\ x < z * y => x \div y < z
    BY SMT
  <2>3. w3 < ByteSize
    BY <1>1, <2>1, <2>2, SizeFacts
  <2> QED  BY <1>2, <2>3, SizeFacts, SMT
<1>5. w % ByteSize \in Nat /\ w1 % ByteSize \in Nat /\ w2 % ByteSize \in Nat
  BY <1>1, <1>2, SizeFacts, SMT
<1>6. w = w3 * ByteSize * HalfSize + (w2 % ByteSize) * HalfSize
            + (w1 % ByteSize) * ByteSize + (w % ByteSize)
  <2>1. \A b, x3, x2, x1, x0 \in Nat :
            ((x3 * b + x2) * b + x1) * b + x0 =
                x3 * b * (b * b) + x2 * (b * b) + x1 * b + x0
    BY SMT
  <2> QED  BY <1>2, <1>3, <1>5, <2>1, SizeFacts
<1>7. (w1 % ByteSize) * ByteSize + (w % ByteSize) = w % HalfSize
  <2> DEFINE r == (w1 % ByteSize) * ByteSize + (w % ByteSize)
  <2>1. w = w2 * HalfSize + r
    <3>1. \A b, x2, x1, x0 \in Nat : (x2 * b + x1) * b + x0 = x2 * (b * b) + (x1 * b + x0)
      BY SMT
    <3> QED  BY <1>2, <1>3, <1>5, <3>1, SizeFacts
  <2>2. r \in Nat /\ r < HalfSize
    <3>1. \A b, x1, x0 \in Nat : x1 < b /\ x0 < b =>
                x1 * b + x0 \in Nat /\ x1 * b + x0 < b * b
      BY SMT
    <3>2. w % ByteSize < ByteSize /\ w1 % ByteSize < ByteSize
      BY <1>1, <1>2, SizeFacts, SMT
    <3> QED  BY <1>5, <3>1, <3>2, SizeFacts
  <2>3. r = w % HalfSize
    <3> HIDE DEF w1, w2, w3, r
    <3>1. (w2 * HalfSize + r) % HalfSize = r
      BY <1>2, <2>2, SizeFacts, DivMod
    <3> QED  BY <2>1, <3>1
  <2> QED  BY <2>3
<1> QED  BY <1>1, <1>4, <1>6, <1>7, ByteByByte

(* The other way round: bytes at their weights are the bytes of their sum. *)
LEMMA BytesOfSum ==
    ASSUME NEW d0 \in Byte, NEW d1 \in Byte, NEW d2 \in Byte, NEW d3 \in Byte, NEW w,
           w = d3 * ByteSize * HalfSize + d2 * HalfSize + d1 * ByteSize + d0
    PROVE  /\ w \in Word
           /\ w % ByteSize = d0
           /\ (w \div ByteSize) % ByteSize = d1
           /\ (w \div HalfSize) % ByteSize = d2
           /\ w \div (ByteSize * HalfSize) = d3
<1> DEFINE B == ByteSize
           w2 == d3 * B + d2
           w1 == w2 * B + d1
<1>1. /\ B \in Nat /\ B > 7 /\ d0 \in Nat /\ d1 \in Nat /\ d2 \in Nat /\ d3 \in Nat
      /\ d0 < B /\ d1 < B /\ d2 < B /\ d3 < B
  BY SizeFacts DEF Byte
<1>2. w2 \in Nat /\ w1 \in Nat
  BY <1>1, SMT
<1>3. w = w1 * B + d0
  <2>1. \A b, x3, x2, x1, x0 \in Nat :
            ((x3 * b + x2) * b + x1) * b + x0 =
                x3 * b * (b * b) + x2 * (b * b) + x1 * b + x0
    BY SMT
  <2> QED  BY <1>1, <2>1, SizeFacts
<1>4. w \in Nat /\ w % B = d0 /\ w \div B = w1
  <2> HIDE DEF w1, w2, B
  <2>1. (w1 * B + d0) \div B = w1 /\ (w1 * B + d0) % B = d0
    BY <1>1, <1>2, DivMod
  <2> QED  BY <1>1, <1>2, <1>3, <2>1
<1>5. w1 % B = d1 /\ w1 \div B = w2
  <2>1. w1 = w2 * B + d1
    OBVIOUS
  <2> HIDE DEF w1, w2, B
  <2> QED  BY <1>1, <1>2, <2>1, DivMod
<1>6. w2 % B = d2 /\ w2 \div B = d3
  BY <1>1, <1>2, DivMod
<1>7. w \div HalfSize = w2
  BY <1>1, <1>4, <1>5, DivDiv DEF HalfSize
<1>8. w \div (B * HalfSize) = d3
  <2>1. w \div (HalfSize * B) = (w \div HalfSize) \div B
    BY <1>1, <1>4, SizeFacts, DivDiv
  <2>2. HalfSize * B = B * HalfSize
    BY <1>1, SizeFacts, SMT
  <2> QED  BY <1>6, <1>7, <2>1, <2>2
<1>9. w < WordSize
  <2>1. \A y, z, b \in Nat : y < z /\ b > 0 => \A r \in Nat : r < b => y * b + r < z * b
    BY SMT
  <2>2. w2 < B * B
    BY <1>1, <2>1
  <2>3. w1 < (B * B) * B
    <3> HIDE DEF w2
    <3> QED  BY <1>1, <1>2, <2>1, <2>2, SizeFacts DEF HalfSize
  <2>4. w1 * B + d0 < ((B * B) * B) * B
    <3>1. (B * B) * B \in Nat
      BY <1>1, SMT
    <3> HIDE DEF w1
    <3> QED  BY <1>1, <1>2, <2>1, <2>3, <3>1
  <2>5. \A x \in Nat : ((x * x) * x) * x = (x * x) * (x * x)
    BY SMT
  <2> QED  BY <1>1, <1>3, <2>4, <2>5 DEF HalfSize, WordSize
<1> QED  BY <1>4, <1>5, <1>6, <1>7, <1>8, <1>9, SizeFacts DEF Word

=============================================================================
