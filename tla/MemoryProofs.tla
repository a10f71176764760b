---------------------------- MODULE MemoryProofs ----------------------------
(***************************************************************************)
(* Facts about addresses and memory accesses that hold for every width of  *)
(* a byte and every size of the memory.                                    *)
(***************************************************************************)
EXTENDS Memory, WordProofs

LEMMA UnitBound == Unit \in Nat /\ Unit >= 512 /\ 8 * Unit <= WordSize
BY WordSizeBound, SMT DEF Unit

(* A conversion to uint32_t never yields more than there was. *)
LEMMA U32Shrinks ==
    ASSUME NEW x \in Nat
    PROVE  u32(x) \in Nat /\ u32(x) <= x /\ (x < WordSize => u32(x) = x)
<1>1. \A y \in Nat : y % WordSize \in Nat /\ y % WordSize <= y
  BY WordSizeBound, SMT
<1>2. \A y \in Nat : y < WordSize => y % WordSize = y
  BY WordSizeBound, SMT
<1> QED  BY <1>1, <1>2 DEF u32

(* A uint32_t may be too small for an eighth of the memory, never too large. *)
LEMMA SegmentSizes ==
    /\ memsz \in Nat
    /\ size_kseg0 \in Nat /\ size_kseg1 \in Nat /\ size_kuseg \in Nat
    /\ 8 * size_kseg0 <= memsz /\ 8 * size_kseg1 <= memsz /\ 2 * size_kuseg <= memsz
    /\ size_kseg0 < WordSize
<1>1. memsz \in Nat
  BY MemszAssumption
<1>2. /\ memsz \div 8 \in Nat /\ memsz \div 2 \in Nat
      /\ 8 * (memsz \div 8) <= memsz /\ 2 * (memsz \div 2) <= memsz
  BY <1>1, SMT
<1>3. \A x \in Nat : x % WordSize < WordSize
  BY WordSizeBound, SMT
<1>4. u32(memsz \div 8) < WordSize
  BY <1>2, <1>3 DEF u32
<1> QED  BY <1>1, <1>2, <1>4, U32Shrinks DEF size_kseg0, size_kseg1, size_kuseg

LEMMA TranslateVaddrType == \A v \in Word : translate_vaddr(v) \in Nat
<1> SUFFICES ASSUME NEW v \in Word PROVE translate_vaddr(v) \in Nat
  OBVIOUS
<1>1. v \in Nat
  BY WordSizeBound DEF Word
<1>2. v % Unit \in Nat
  BY <1>1, UnitBound, SMT
<1>3. v + KSEG0_SIZE + KSEG1_SIZE \in Nat
  BY <1>1, UnitBound, SMT DEF KSEG0_SIZE, KSEG1_SIZE
<1> QED  BY <1>1, <1>2, <1>3 DEF translate_vaddr

(***************************************************************************)
(* mmu_read and mmu_write never leave the buffer: every pointer that the   *)
(* translations compute is NULL or points to a word inside the memsz bytes *)
(* that mmu_init allocated, whatever memsz is.                             *)
(***************************************************************************)
THEOREM TranslationInBounds ==
    \A v \in Word : Translate(v) = NULL \/ Translate(v) \in 0 .. memsz - 4
<1> SUFFICES ASSUME NEW p \in Nat
             PROVE  translate_paddr(p) = NULL \/ translate_paddr(p) \in 0 .. memsz - 4
  BY TranslateVaddrType DEF Translate
<1>1. /\ memsz \in Nat /\ Unit \in Nat /\ Unit >= 512
      /\ size_kseg0 \in Nat /\ size_kseg1 \in Nat /\ size_kuseg \in Nat
      /\ 8 * size_kseg0 <= memsz /\ 8 * size_kseg1 <= memsz /\ 2 * size_kuseg <= memsz
  BY SegmentSizes, UnitBound
<1>2. CASE p >= 6 * Unit
  BY <1>1, <1>2, SMT DEF translate_paddr, KSEG0_SIZE, KSEG1_SIZE, KUSEG_SIZE
<1>3. CASE p >= 2 * Unit /\ p < 6 * Unit
  <2> DEFINE end == Unit + size_kseg0 + size_kseg1 + size_kuseg
  <2>1. KUSEG_PSTART + size_kseg0 + size_kseg1 + size_kuseg = end /\ end \in Nat
    BY <1>1, SMT DEF KSEG0_PSTART, KSEG1_PSTART, KUSEG_PSTART
  <2>2. u32(end) \in Nat /\ u32(end) <= end
    BY <2>1, U32Shrinks
  <2>3. translate_paddr(p) = IF p >= u32(end) THEN NULL ELSE p - Unit - Unit
    BY <1>1, <1>3, <2>1, SMT DEF translate_paddr, KSEG0_SIZE, KSEG1_SIZE, KUSEG_SIZE,
            KSEG0_PSTART, KSEG1_PSTART, KUSEG_PSTART
  <2> QED  BY <1>1, <1>3, <2>2, <2>3, SMT DEF NULL
<1>4. CASE p >= Unit /\ p < 2 * Unit
  <2> DEFINE end == Unit + size_kseg0 + size_kseg1
  <2>1. KSEG0_PSTART + size_kseg0 + size_kseg1 = end /\ end \in Nat
    BY <1>1, SMT DEF KSEG0_PSTART
  <2>2. u32(end) \in Nat /\ u32(end) <= end
    BY <2>1, U32Shrinks
  <2>3. translate_paddr(p) = IF p >= u32(end) THEN NULL ELSE p - Unit
    BY <1>1, <1>4, <2>1, SMT DEF translate_paddr, KSEG0_SIZE, KSEG1_SIZE, KUSEG_SIZE,
            KSEG0_PSTART, KSEG1_PSTART
  <2> QED  BY <1>1, <1>4, <2>2, <2>3, SMT DEF NULL
<1>5. CASE p < Unit
  <2>0. u32(KSEG1_PSTART + size_kseg0) = size_kseg0
    BY <1>1, SegmentSizes, U32Shrinks DEF KSEG1_PSTART
  <2>1. translate_paddr(p) = IF p >= size_kseg0 THEN NULL ELSE p
    BY <1>1, <1>5, <2>0, SMT DEF translate_paddr, KSEG0_SIZE, KSEG1_SIZE, KUSEG_SIZE,
            KSEG0_PSTART, KSEG1_PSTART, KUSEG_PSTART
  <2> QED  BY <1>1, <1>5, <2>1, SMT DEF NULL
<1> QED  BY <1>1, <1>2, <1>3, <1>4, <1>5, SMT

(***************************************************************************)
(* Virtual address 0, at which cpu_init lets every core but core 0 start,  *)
(* is not mapped unless memory is larger than 4/3 of an eighth of the      *)
(* address space.  MEMORY_SIZE, the default, is that eighth: the two       *)
(* translations then yield NULL, and the first fetch of core 1 ends the    *)
(* simulator.                                                              *)
(***************************************************************************)
THEOREM AddressZeroUnmapped ==
    3 * memsz <= 4 * Unit => /\ Translate(0) = NULL
                             /\ \A pmem, dst, size : mmu_read(pmem, 0, dst, size).segv
<1> SUFFICES ASSUME 3 * memsz <= 4 * Unit
             PROVE  /\ Translate(0) = NULL
                    /\ \A pmem, dst, size : mmu_read(pmem, 0, dst, size).segv
  OBVIOUS
<1>1. /\ memsz \in Nat /\ Unit \in Nat /\ Unit >= 512 /\ 8 * Unit <= WordSize
      /\ size_kseg0 \in Nat /\ size_kseg1 \in Nat /\ size_kuseg \in Nat
      /\ 8 * size_kseg0 <= memsz /\ 8 * size_kseg1 <= memsz /\ 2 * size_kuseg <= memsz
  BY SegmentSizes, UnitBound
<1>2. HalfSize \in Nat /\ WordSize \in Nat /\ 2 * HalfSize < WordSize
  <2>1. \A x \in Nat : x >= 64 => 2 * x < x * x
    BY SMT
  <2> QED  BY <2>1, HalfSizeBound, WordSizeBound DEF WordSize
<1>3. translate_vaddr(0) = 2 * Unit
  BY <1>1, <1>2, SMT DEF translate_vaddr, IO_REGISTER_AREA, KSEG2_PSTART, KUSEG_PSTART,
        KSEG1_PSTART, KSEG0_PSTART, KUSEG_SIZE, KSEG0_SIZE, KSEG1_SIZE
<1> DEFINE end == KUSEG_PSTART + size_kseg0 + size_kseg1 + size_kuseg
<1>9. end \in Nat /\ end <= 2 * Unit
  BY <1>1, SMT DEF KSEG0_PSTART, KSEG1_PSTART, KUSEG_PSTART
<1>10. u32(end) \in Nat /\ u32(end) <= 2 * Unit
  BY <1>1, <1>9, U32Shrinks, SMT
<1>4. translate_paddr(2 * Unit) = IF 2 * Unit >= u32(end) THEN NULL ELSE 0
  BY <1>1, SMT DEF translate_paddr, KSEG0_SIZE, KSEG1_SIZE, KUSEG_SIZE,
        KSEG0_PSTART, KSEG1_PSTART, KUSEG_PSTART
<1>5. Translate(0) = NULL
  BY <1>1, <1>3, <1>4, <1>10, SMT DEF Translate
<1>6. 0 < IO_DESCRIPTOR_AREA /\ 0 < IO_REGISTER_AREA
  BY <1>2, SMT DEF IO_DESCRIPTOR_AREA, IO_REGISTER_AREA
<1>7. IO_DESCRIPTOR_AREA \in Int /\ IO_REGISTER_AREA \in Int
  BY <1>2, SMT DEF IO_DESCRIPTOR_AREA, IO_REGISTER_AREA
<1>8. ASSUME NEW pmem, NEW dst, NEW size
      PROVE  mmu_read(pmem, 0, dst, size) = [data |-> dst, segv |-> TRUE]
  BY <1>5, <1>6, <1>7, SMT DEF mmu_read
<1> QED  BY <1>5, <1>8

-----------------------------------------------------------------------------
(***************************************************************************)
(* What a store leaves in the buffer.                                      *)
(***************************************************************************)

(* A memory: some of the bytes of the buffer. *)
IsMemory(m) == m \in [DOMAIN m -> Byte] /\ DOMAIN m \subseteq 0 .. memsz - 1

LEMMA SetBigType ==
    ASSUME NEW m, IsMemory(m), NEW a \in 0 .. memsz - 4, NEW size \in {1, 2, 4}, NEW w
    PROVE  IsMemory(SET_BIG(m, a, size, w))
<1>1. memsz \in Nat
  BY MemszAssumption
<1>2. a .. a + size - 1 \subseteq 0 .. memsz - 1
  BY <1>1, SMT
<1>3. \A x \in DOMAIN m : m[x] \in Byte
  BY DEF IsMemory
<1>4. DOMAIN SET_BIG(m, a, size, w) = DOMAIN m \cup a .. a + size - 1
  BY DEF SET_BIG
<1>5. \A x \in DOMAIN SET_BIG(m, a, size, w) : SET_BIG(m, a, size, w)[x] \in Byte
  BY <1>3, <1>4, CastType DEF SET_BIG
<1>6. SET_BIG(m, a, size, w) \in [DOMAIN SET_BIG(m, a, size, w) -> Byte]
  BY <1>5 DEF SET_BIG
<1> QED  BY <1>2, <1>4, <1>6 DEF IsMemory

LEMMA StoredBytes ==
    ASSUME NEW m, NEW a \in Nat, NEW size \in {1, 2, 4}, NEW w \in Word, NEW b \in 0 .. size - 1
    PROVE  ByteAt(SET_BIG(m, a, size, w), a + b) = u8(w \div Weight(size - 1 - b))
<1>1. DOMAIN SET_BIG(m, a, size, w) = DOMAIN m \cup a .. a + size - 1
  BY DEF SET_BIG
<1>2. a + b \in a .. a + size - 1
  BY SMT
<1>3. a + size - 1 - (a + b) = size - 1 - b
  BY SMT
<1> QED  BY <1>1, <1>2, <1>3 DEF ByteAt, SET_BIG

LEMMA OtherBytes ==
    ASSUME NEW m, NEW a, NEW size, NEW w, NEW x, x \notin a .. a + size - 1
    PROVE  ByteAt(SET_BIG(m, a, size, w), x) = ByteAt(m, x)
<1>1. DOMAIN SET_BIG(m, a, size, w) = DOMAIN m \cup a .. a + size - 1
  BY DEF SET_BIG
<1> QED  BY <1>1 DEF ByteAt, SET_BIG

(* The load that follows a store finds what was stored, cut to its size. *)
LEMMA StoredValue ==
    ASSUME NEW m, NEW a \in Nat, NEW size \in {1, 2, 4}, NEW w \in Word
    PROVE  GET_BIG(SET_BIG(m, a, size, w), a, size) = w % Weight(size)
<1> DEFINE n == SET_BIG(m, a, size, w)
<1>1. w \in Nat /\ w < WordSize
  BY SizeFacts DEF Word
<1>2. \A b \in 0 .. size - 1 : ByteAt(n, a + b) = u8(w \div Weight(size - 1 - b))
  BY StoredBytes
<1>3. /\ a + 0 = a
      /\ 1 - 1 - 0 = 0 /\ 2 - 1 - 0 = 1 /\ 2 - 1 - 1 = 0
      /\ 4 - 1 - 0 = 3 /\ 4 - 1 - 1 = 2 /\ 4 - 1 - 2 = 1 /\ 4 - 1 - 3 = 0
  BY SMT
<1>4. CASE size = 1
  <2>1. ByteAt(n, a) = u8(w \div Weight(0))
    <3>1. ByteAt(n, a + 0) = u8(w \div Weight(1 - 1 - 0))
      BY <1>2, <1>4
    <3> QED  BY <1>3, <3>1
  <2>2. u8(w \div Weight(0)) = w % ByteSize
    BY <1>1, ByteByByte
  <2>3. GET_BIG(n, a, size) = ByteAt(n, a) /\ Weight(size) = ByteSize
    BY <1>4 DEF GET_BIG, MEM_OP_BYTE, MEM_OP_HALF, Weight
  <2> QED  BY <2>1, <2>2, <2>3
<1>5. CASE size = 2
  <2>1. ByteAt(n, a) = u8(w \div Weight(1)) /\ ByteAt(n, a + 1) = u8(w \div Weight(0))
    <3>1. /\ ByteAt(n, a + 0) = u8(w \div Weight(2 - 1 - 0))
          /\ ByteAt(n, a + 1) = u8(w \div Weight(2 - 1 - 1))
      BY <1>2, <1>5
    <3> QED  BY <1>3, <3>1
  <2>2. GET_BIG(n, a, size) = ByteAt(n, a) * ByteSize + ByteAt(n, a + 1)
    BY <1>5 DEF GET_BIG, MEM_OP_BYTE, MEM_OP_HALF
  <2>3. Weight(size) = HalfSize
    BY <1>5 DEF Weight
  <2> QED  BY <2>1, <2>2, <2>3, SumOfBytes
<1>6. CASE size = 4
  <2>1. /\ ByteAt(n, a) = u8(w \div Weight(3)) /\ ByteAt(n, a + 1) = u8(w \div Weight(2))
        /\ ByteAt(n, a + 2) = u8(w \div Weight(1)) /\ ByteAt(n, a + 3) = u8(w \div Weight(0))
    <3>1. /\ ByteAt(n, a + 0) = u8(w \div Weight(4 - 1 - 0))
          /\ ByteAt(n, a + 1) = u8(w \div Weight(4 - 1 - 1))
          /\ ByteAt(n, a + 2) = u8(w \div Weight(4 - 1 - 2))
          /\ ByteAt(n, a + 3) = u8(w \div Weight(4 - 1 - 3))
      BY <1>2, <1>6
    <3> QED  BY <1>3, <3>1
  <2>2. GET_BIG(n, a, size) = ByteAt(n, a) * ByteSize * HalfSize + ByteAt(n, a + 1) * HalfSize
                                + ByteAt(n, a + 2) * ByteSize + ByteAt(n, a + 3)
    BY <1>6 DEF GET_BIG, MEM_OP_BYTE, MEM_OP_HALF
  <2>3. Weight(size) = WordSize /\ w % WordSize = w
    <3>1. w % WordSize = w
      BY <1>1, SizeFacts, SMT
    <3> QED  BY <1>6, <3>1 DEF Weight
  <2> QED  BY <2>1, <2>2, <2>3, SumOfBytes
<1> QED  BY <1>4, <1>5, <1>6

-----------------------------------------------------------------------------
(***************************************************************************)
(* kseg0, where programs live, is mapped byte by byte to the start of the  *)
(* buffer.                                                                 *)
(***************************************************************************)
LEMMA Kseg0Offset ==
    ASSUME NEW v \in Kseg0
    PROVE  /\ v \in Word /\ v < IO_DESCRIPTOR_AREA /\ v < IO_REGISTER_AREA
           /\ Translate(v) = v - KSEG0_VSTART
           /\ Translate(v) \in Nat /\ Translate(v) # NULL
<1>1. /\ size_kseg0 \in Nat
      /\ Unit \in Nat /\ Unit >= 512 /\ 8 * Unit <= WordSize /\ WordSize \in Nat
  BY SegmentSizes, UnitBound, WordSizeBound
<1>2. HalfSize \in Nat /\ 5 * Unit < WordSize - 2 * HalfSize
  <2>1. \A x \in Nat : x >= 64 => 64 * x <= x * x
    BY SMT
  <2>2. 64 * HalfSize <= WordSize
    BY <2>1, HalfSizeBound DEF WordSize
  <2> QED  BY <1>1, <2>2, HalfSizeBound, SMT
<1>3. v \in Nat /\ 4 * Unit <= v /\ v < 4 * Unit + size_kseg0 /\ v < 5 * Unit
  BY <1>1, SMT DEF Kseg0, KSEG0_VSTART, KSEG0_SIZE
<1>4. v % Unit = v - 4 * Unit
  <2>1. (4 * Unit + (v - 4 * Unit)) % Unit = v - 4 * Unit
    BY <1>1, <1>3, DivMod
  <2> QED  BY <1>1, <1>3, <2>1, SMT
<1>5. translate_vaddr(v) = v - 4 * Unit
  BY <1>1, <1>2, <1>3, <1>4, SMT DEF translate_vaddr, IO_REGISTER_AREA, KSEG2_PSTART,
        KUSEG_PSTART, KSEG1_PSTART, KSEG0_PSTART, KUSEG_SIZE
<1>0. u32(KSEG1_PSTART + size_kseg0) = size_kseg0
  BY <1>1, SegmentSizes, U32Shrinks DEF KSEG1_PSTART
<1>6. translate_paddr(v - 4 * Unit) = v - 4 * Unit
  BY <1>0, <1>1, <1>3, SMT DEF translate_paddr, KSEG0_SIZE, KSEG1_SIZE, KUSEG_SIZE,
        KSEG1_PSTART
<1>7. Translate(v) = v - KSEG0_VSTART
  BY <1>5, <1>6 DEF Translate, KSEG0_VSTART
<1>8. Translate(v) \in Nat
  BY <1>1, <1>3, <1>7, SMT DEF KSEG0_VSTART
<1>9. v \in Word /\ v < IO_DESCRIPTOR_AREA /\ v < IO_REGISTER_AREA
  BY <1>1, <1>2, <1>3, SMT DEF Word, IO_DESCRIPTOR_AREA, IO_REGISTER_AREA
<1> QED  BY <1>7, <1>8, <1>9 DEF NULL

LEMMA Kseg0Read ==
    ASSUME NEW m, NEW v \in Kseg0, NEW dst, NEW size
    PROVE  mmu_read(m, v, dst, size) =
                [data |-> u32(GET_BIG(m, v - KSEG0_VSTART, size)), segv |-> FALSE]
<1>1. v \in Int /\ IO_DESCRIPTOR_AREA \in Int /\ IO_REGISTER_AREA \in Int
  BY Kseg0Offset, WordSizeBound, HalfSizeBound
  DEF Word, IO_DESCRIPTOR_AREA, IO_REGISTER_AREA
<1>2. ~(v >= IO_DESCRIPTOR_AREA) /\ ~(v >= IO_REGISTER_AREA)
  BY <1>1, Kseg0Offset, SMT
<1>3. Translate(v) # NULL /\ Translate(v) = v - KSEG0_VSTART
  BY Kseg0Offset
<1> QED  BY <1>2, <1>3 DEF mmu_read

LEMMA Kseg0Write ==
    ASSUME NEW m, NEW v \in Kseg0, NEW src, NEW size
    PROVE  mmu_write(m, v, src, size) =
                [pmem |-> SET_BIG(m, v - KSEG0_VSTART, size, src),
                 exception |-> "None", segv |-> FALSE]
<1>1. v \in Int /\ IO_DESCRIPTOR_AREA \in Int /\ IO_REGISTER_AREA \in Int
  BY Kseg0Offset, WordSizeBound, HalfSizeBound
  DEF Word, IO_DESCRIPTOR_AREA, IO_REGISTER_AREA
<1>2. ~(v >= IO_DESCRIPTOR_AREA) /\ ~(v >= IO_REGISTER_AREA)
  BY <1>1, Kseg0Offset, SMT
<1>3. Translate(v) # NULL /\ Translate(v) = v - KSEG0_VSTART
  BY Kseg0Offset
<1> QED  BY <1>2, <1>3 DEF mmu_write

(* Every byte of the access lies in kseg0. *)
InKseg0(v, size) == v .. v + size - 1 \subseteq Kseg0

(* How the memory n differs from m after the store of src at v. *)
Stored(m, n, v, src, size) ==
    /\ mmu_read(n, v, 0, size).data = src % Weight(size)
    /\ \A b \in 0 .. size - 1 :
            mmu_read(n, v + b, 0, 1).data = (src \div Weight(size - 1 - b)) % ByteSize
    /\ \A x \in Kseg0 \ (v .. v + size - 1) :
            mmu_read(n, x, 0, 1).data = mmu_read(m, x, 0, 1).data

(***************************************************************************)
(* mmu_write followed by mmu_read, in kseg0: a load of the same size finds *)
(* the value, byte loads find its bytes in big-endian order, and no other  *)
(* byte of kseg0 has changed; for every size of memory and every width.    *)
(***************************************************************************)
THEOREM StoreThenLoad ==
    ASSUME NEW m, NEW v \in Word, NEW size \in {1, 2, 4}, NEW src \in Word, InKseg0(v, size)
    PROVE  Stored(m, mmu_write(m, v, src, size).pmem, v, src, size)
<1> DEFINE a == v - KSEG0_VSTART
           n == mmu_write(m, v, src, size).pmem
<1>1. v \in Kseg0 /\ v .. v + size - 1 \subseteq Kseg0
  <2>1. v \in v .. v + size - 1
    BY WordSizeBound DEF Word
  <2> QED  BY <2>1 DEF InKseg0
<1>2. n = SET_BIG(m, a, size, src)
  BY <1>1, Kseg0Write
<1> HIDE DEF n
<1>3. a \in Nat /\ v \in Nat /\ KSEG0_VSTART \in Nat
  BY <1>1, Kseg0Offset, UnitBound DEF Word, KSEG0_VSTART
<1>4. src \in Nat /\ src < WordSize
  BY SizeFacts DEF Word
<1>5. \A k \in 0 .. 3 : Weight(k) \in Nat /\ Weight(k) > 0
  BY SizeFacts DEF Weight
<1>6. mmu_read(n, v, 0, size).data = src % Weight(size)
  <2>1. mmu_read(n, v, 0, size).data = u32(GET_BIG(n, a, size))
    BY <1>1, Kseg0Read
  <2>2. GET_BIG(n, a, size) = src % Weight(size)
    BY <1>2, <1>3, StoredValue
  <2>3. Weight(size) \in Nat /\ Weight(size) > 0
    BY SizeFacts DEF Weight
  <2>4. src % Weight(size) \in Nat /\ src % Weight(size) < WordSize
    <3>1. \A y, z \in Nat : z > 0 => y % z \in Nat /\ y % z <= y
      BY SMT
    <3> QED  BY <1>4, <2>3, <3>1, SizeFacts
  <2>5. \A y \in Nat : y < WordSize => y % WordSize = y
    BY SizeFacts, SMT
  <2> QED  BY <2>1, <2>2, <2>4, <2>5 DEF u32
<1>7. ASSUME NEW b \in 0 .. size - 1
      PROVE  mmu_read(n, v + b, 0, 1).data = (src \div Weight(size - 1 - b)) % ByteSize
  <2>1. v + b \in Kseg0 /\ (v + b) - KSEG0_VSTART = a + b
    BY <1>1, <1>3, SMT
  <2>2. mmu_read(n, v + b, 0, 1).data = u32(ByteAt(n, a + b))
    BY <2>1, Kseg0Read DEF GET_BIG, MEM_OP_BYTE, MEM_OP_HALF
  <2>3. ByteAt(n, a + b) = u8(src \div Weight(size - 1 - b))
    <3>1. ByteAt(SET_BIG(m, a, size, src), a + b) = u8(src \div Weight(size - 1 - b))
      <4>1. a \in Nat
        BY <1>3
      <4>2. \A c \in 0 .. size - 1 :
                ByteAt(SET_BIG(m, a, size, src), a + c) = u8(src \div Weight(size - 1 - c))
        <5> HIDE DEF a
        <5> QED  BY <4>1, StoredBytes
      <4> HIDE DEF a
      <4> QED  BY <4>2
    <3> QED  BY <1>2, <3>1
  <2>4. size - 1 - b \in 0 .. 3
    BY SMT
  <2>5. src \div Weight(size - 1 - b) \in Nat
    BY <1>4, <1>5, <2>4, SMT
  <2>6. \A y \in Nat : y % ByteSize \in Nat /\ (y % ByteSize) % WordSize = y % ByteSize
    <3>1. ByteSize <= WordSize
      <4>1. \A y \in Nat : y <= y * y
        BY SMT
      <4>2. ByteSize <= HalfSize /\ HalfSize <= WordSize
        BY <4>1, SizeFacts DEF HalfSize, WordSize
      <4> QED  BY <4>2, SizeFacts
    <3> QED  BY <3>1, SizeFacts, SMT
  <2> QED  BY <2>2, <2>3, <2>5, <2>6 DEF u8, u32
<1>8. ASSUME NEW x \in Kseg0 \ (v .. v + size - 1)
      PROVE  mmu_read(n, x, 0, 1).data = mmu_read(m, x, 0, 1).data
  <2>1. x \in Nat
    BY Kseg0Offset DEF Word
  <2>2. x - KSEG0_VSTART \notin a .. a + size - 1
    BY <1>3, <2>1, <1>8, SMT
  <2>3. ByteAt(n, x - KSEG0_VSTART) = ByteAt(m, x - KSEG0_VSTART)
    BY <1>2, <2>2, OtherBytes
  <2> QED  BY <2>3, Kseg0Read DEF GET_BIG, MEM_OP_BYTE, MEM_OP_HALF
<1> QED  BY <1>6, <1>7, <1>8 DEF Stored, n

=============================================================================
