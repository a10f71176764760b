------------------------------- MODULE Memory -------------------------------
(***************************************************************************)
(* The memory management unit (mem.c, mem.h): the two address translations *)
(* and the byte, half word and word accesses built on them.                *)
(*                                                                         *)
(* Physical memory is one calloc'ed buffer of memsz bytes.  pmem is the    *)
(* partial function of the bytes that were written; any other byte of the  *)
(* buffer still reads as zero.  A pointer into the buffer is an offset, and*)
(* NULL is the pointer the C code computes for an address it cannot place. *)
(* It is dereferenced without a test, so that an access there ends the     *)
(* simulator with SIGSEGV: results carry a flag segv.                      *)
(***************************************************************************)
EXTENDS Words

CONSTANTS
    memsz,                  \* size of the buffer, in bytes
    DescriptorRead(_, _)    \* what a read of the I/O descriptor area finds

ASSUME MemszAssumption == memsz \in Nat

(* An eighth of the address space, 0x20000000. *)
Unit == WordSize \div 8

KSEG2_SIZE == 2 * Unit
KSEG1_SIZE == Unit
KSEG0_SIZE == Unit
KUSEG_SIZE == 4 * Unit

KSEG0_VSTART == 4 * Unit
KSEG1_VSTART == 5 * Unit

KSEG1_PSTART == 0
KSEG0_PSTART == Unit
KUSEG_PSTART == KSEG1_PSTART + KSEG0_PSTART
KSEG2_PSTART == KUSEG_PSTART + KUSEG_SIZE

(* The two I/O areas are the last two 64K (half word) blocks. *)
IO_REGISTER_AREA == WordSize - HalfSize
IO_DESCRIPTOR_AREA == WordSize - 2 * HalfSize

(* The segment sizes computed by mmu_init, as uint32_t. *)
size_kseg0 == u32(memsz \div 8)
size_kseg1 == u32(memsz \div 8)
size_kuseg == u32(memsz \div 2)

(* The addresses of kseg0, where programs live, that memory has a byte for. *)
Kseg0 ==
    KSEG0_VSTART ..
        KSEG0_VSTART + (IF size_kseg0 < KSEG0_SIZE THEN size_kseg0 ELSE KSEG0_SIZE) - 1

NULL == -1

-----------------------------------------------------------------------------
(***************************************************************************)
(* Virtual to physical.  The code compares virtual addresses with the      *)
(* PHYSICAL segment starts.                                                *)
(***************************************************************************)
translate_vaddr(v) ==
    CASE v > IO_REGISTER_AREA -> v
      [] v > KSEG2_PSTART /\ v <= IO_REGISTER_AREA -> 0
      [] v < KSEG0_PSTART -> v + KSEG0_SIZE + KSEG1_SIZE
      [] OTHER -> v % Unit

(***************************************************************************)
(* Physical to an offset in the buffer.  The ends of the segments are      *)
(* uint32_t and wrap around when the buffer is larger than the address     *)
(* space.                                                                  *)
(***************************************************************************)
(* Mutant: kuseg is not checked against the allocated size. *)
NoKusegCheck(p) ==
    IF p >= KSEG1_SIZE + KSEG0_SIZE THEN p - KSEG1_PSTART - KSEG0_PSTART - KUSEG_PSTART
    ELSE IF p >= KSEG1_PSTART + size_kseg0 THEN NULL ELSE p - KSEG1_PSTART

translate_paddr(p) ==
    CASE p >= KSEG0_SIZE + KSEG1_SIZE + KUSEG_SIZE -> NULL
      [] p >= KSEG1_SIZE + KSEG0_SIZE /\ p < KSEG0_SIZE + KSEG1_SIZE + KUSEG_SIZE ->
            IF p >= u32(KUSEG_PSTART + size_kseg0 + size_kseg1 + size_kuseg)
            THEN NULL
            ELSE p - KSEG1_PSTART - KSEG0_PSTART - KUSEG_PSTART
      [] p >= KSEG1_SIZE /\ p < KSEG1_SIZE + KSEG0_SIZE ->
            IF p >= u32(KSEG0_PSTART + size_kseg0 + size_kseg1)
            THEN NULL
            ELSE p - KSEG1_PSTART - KSEG0_PSTART
      [] OTHER ->
            IF p >= u32(KSEG1_PSTART + size_kseg0) THEN NULL ELSE p - KSEG1_PSTART

Translate(v) == translate_paddr(translate_vaddr(v))

-----------------------------------------------------------------------------
(***************************************************************************)
(* Big-endian accesses to the buffer.  The size of an access is the number *)
(* of its bytes.                                                           *)
(***************************************************************************)
MEM_OP_BYTE == 1
MEM_OP_HALF == 2
MEM_OP_WORD == 4

ByteAt(pmem, a) == IF a \in DOMAIN pmem THEN pmem[a] ELSE 0

GET_BIG(pmem, a, size) ==
    CASE size = MEM_OP_BYTE -> ByteAt(pmem, a)
      [] size = MEM_OP_HALF -> ByteAt(pmem, a) * ByteSize + ByteAt(pmem, a + 1)
      [] OTHER -> ByteAt(pmem, a) * ByteSize * HalfSize
                    + ByteAt(pmem, a + 1) * HalfSize
                    + ByteAt(pmem, a + 2) * ByteSize
                    + ByteAt(pmem, a + 3)

(* Mutant: the least significant byte first. *)
SetLittle(pmem, a, size, w) ==
    [x \in DOMAIN pmem \cup a .. a + size - 1 |->
        IF x \in a .. a + size - 1 THEN u8(w \div Weight(x - a)) ELSE pmem[x]]

SET_BIG(pmem, a, size, w) ==
    [x \in DOMAIN pmem \cup a .. a + size - 1 |->
        IF x \in a .. a + size - 1
        THEN u8(w \div Weight(a + size - 1 - x)) ELSE pmem[x]]

(***************************************************************************)
(* mmu_read: dst is what the destination held before.  A read of the I/O   *)
(* register area leaves it alone, as the loop over the devices stops short *)
(* of the last one and hw_init installs only one (module Bus).             *)
(***************************************************************************)
mmu_read(pmem, v, dst, size) ==
    LET a == Translate(v)
    IN  CASE v >= IO_REGISTER_AREA -> [data |-> dst, segv |-> FALSE]
          [] v >= IO_DESCRIPTOR_AREA /\ v < IO_REGISTER_AREA ->
                [data |-> u32(DescriptorRead(v - IO_DESCRIPTOR_AREA, size)),
                 segv |-> FALSE]
          [] v < IO_DESCRIPTOR_AREA /\ a = NULL -> [data |-> dst, segv |-> TRUE]
          [] OTHER -> [data |-> u32(GET_BIG(pmem, a, size)), segv |-> FALSE]

(***************************************************************************)
(* mmu_write: writing the descriptor area is an address error.             *)
(***************************************************************************)
mmu_write(pmem, v, src, size) ==
    LET a == Translate(v)
    IN  CASE v >= IO_REGISTER_AREA ->
                [pmem |-> pmem, exception |-> "None", segv |-> FALSE]
          [] v >= IO_DESCRIPTOR_AREA /\ v < IO_REGISTER_AREA ->
                [pmem |-> pmem, exception |-> "AddressErrorStore", segv |-> FALSE]
          [] v < IO_DESCRIPTOR_AREA /\ a = NULL ->
                [pmem |-> pmem, exception |-> "None", segv |-> TRUE]
          [] OTHER ->
                [pmem |-> SET_BIG(pmem, a, size, src),
                 exception |-> "None", segv |-> FALSE]

=============================================================================
