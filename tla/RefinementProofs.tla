-------------------------- MODULE RefinementProofs --------------------------
(***************************************************************************)
(* The pipeline implements the instruction set: proof of ImplementsISA,    *)
(* for every program that avoids what the pipeline does not handle, and of *)
(* StoresArePrecise, for every program.                                    *)
(***************************************************************************)
EXTENDS PipelineISA, PipelineProofs

-----------------------------------------------------------------------------
(***************************************************************************)
(* The inductive invariant.  An instruction is fetched, decoded, executed  *)
(* and takes effect in four different ticks; the invariant says for each   *)
(* pipeline register how far its instruction has come, in terms of the     *)
(* state of the abstract machine.                                          *)
(***************************************************************************)
Latches == {"ex_mem", "id_ex", "if_id"}

Running == at \notin {"exit", "segv"}

(* The instructions in flight will not take effect. *)
Stopped == IsaHalted \/ PendingTrap \/ PendingEret

(* ID/EX as ID leaves it. *)
IsDecoded(d) ==
    /\ d.c = Control(d.inst) /\ d.funct = Funct(d.inst) /\ d.shamt = d.inst.shamt
    /\ d.sign_ext_imm = SIGN_EXTEND(d.inst.imm) /\ d.rd = DestRd(d.inst)
    /\ d.inst.op \in {"J", "JAL"} => d.jump_addr = JumpAddr(d.inst, d.next_pc)

(* What EX copies. *)
IsExecuted(x) ==
    /\ x.c_reg_write <=> Control(x.inst).reg_write
    /\ x.c_mem_to_reg <=> Control(x.inst).mem_to_reg
    /\ x.c_mem_read <=> Control(x.inst).mem_read
    /\ x.c_mem_write <=> Control(x.inst).mem_write
    /\ x.reg_dst = IF Control(x.inst).reg_dst THEN DestRd(x.inst) ELSE SourceRt(x.inst)

LatchesDecoded ==
    /\ "id_ex" \in live => IsDecoded(id_ex)
    /\ "ex_mem" \in live => IsExecuted(ex_mem)

(* A bubble changes nothing, wherever it is. *)
Bubbles ==
    /\ "if_id" \notin live => if_id.inst = NOP
    /\ "id_ex" \notin live =>
          /\ id_ex.inst = NOP /\ id_ex.c \in {NoControl, Control(NOP)} /\ id_ex.funct = "SLL"
          /\ id_ex.rs_value = 0 /\ id_ex.rt_value = 0 /\ id_ex.rd = 0
    /\ "ex_mem" \notin live =>
          /\ ex_mem.inst = NOP /\ ex_mem.exception = "None" /\ ex_mem.reg_dst = 0
          /\ ~ex_mem.c_mem_read /\ ~ex_mem.c_mem_write

(* Between IF and EX the PC is behind the instruction in IF/ID, and only a *)
(* load is followed by a bubble.                                           *)
Fetched ==
    at \in {"fwd", "run", "wb", "mem", "ex"} =>
        /\ "if_id" \in live => pc = if_id.next_pc /\ ~if_id.is_branch_delay
        /\ "id_ex" \in live /\ "if_id" \notin live => id_ex.c.mem_read

(* The instructions in flight are those in memory. *)
CodeInFlight ==
    /\ InFlight("ex_mem") => ex_mem.inst = InstructionAt(pmem, Address("ex_mem"))
    /\ InFlight("id_ex") => id_ex.inst = InstructionAt(pmem, Address("id_ex"))
    /\ InFlight("if_id") => if_id.inst = InstructionAt(pmem, Address("if_id"))

(* The exceptions there are. *)
Raised ==
    /\ ex_mem.exception \in {"None", "Syscall", "ArithmeticOverflow"}
    /\ mem_wb.exception \in {"None", "Syscall", "ArithmeticOverflow", "AddressErrorStore"}

(* After WB there is nothing left of the instruction in MEM/WB to be done. *)
WrittenBack ==
    /\ at = "mem" /\ ~g_finished => ~Stopped /\ IsaRegs = regs /\ IsaCp0 = cp0
    /\ g_finished => at # "wb"

(* The operands of the instruction in ID/EX, between ID and EX. *)
LinkOperands(rt_value) ==
    id_ex.rs_value = u32(id_ex.next_pc + 4) /\ id_ex.rt_value = rt_value

OperandsReady ==
    "id_ex" \in live =>
        /\ at \in {"if", "fwd"} /\ id_ex.inst.op = "JAL" => LinkOperands(regs[id_ex.inst.rt])
        /\ at \in {"run", "wb", "mem"} =>
              /\ id_ex.inst.op = "JAL" => LinkOperands(0)
              /\ ReadsRegisters(id_ex.inst) => OperandsAreLatest /\ NoPendingLoad
        /\ at = "ex" /\ ~Stopped /\ id_ex.inst # INSTRUCTION_ERET =>
              /\ id_ex.rs_value = RsValue(id_ex.inst, id_ex.next_pc, IsaRegs, IsaCp0)
              /\ id_ex.rt_value = IF id_ex.inst.op = "JAL" THEN 0
                                  ELSE RtValue(id_ex.inst, IsaRegs)

(* The operands that ISA reads. *)
IsaOperands(i) ==
    [c |-> Control(i), inst |-> i, funct |-> Funct(i), shamt |-> i.shamt,
     rs_value |-> RsValue(i, u32(IsaPc + 4), IsaRegs, IsaCp0),
     rt_value |-> IF i.op = "JAL" THEN 0 ELSE RtValue(i, IsaRegs),
     sign_ext_imm |-> SIGN_EXTEND(i.imm), next_pc |-> u32(IsaPc + 4),
     jump_addr |-> JumpAddr(i, u32(IsaPc + 4))]

(* EX has computed what ISA says, and has set the course for the           *)
(* instruction after the next one.                                         *)
Computed ==
    LET d == IsaOperands(ex_mem.inst)
    IN  /\ ex_mem.exception = AluException(d)
        /\ \E old \in Word : ex_mem.alu_res = AluResult(d, old)
        /\ ex_mem.rt_value = d.rt_value
        /\ IdNpc = IF Redirects(d) THEN RedirectTo(d) ELSE u32(IsaNpc + 4)
        /\ IdBd <=> Redirects(d)

ResultsReady ==
    "ex_mem" \in live /\ at # "ex" /\ ~Stopped /\ ex_mem.inst # INSTRUCTION_ERET
        => Computed

RefinementInv ==
    Running =>
        /\ live \subseteq Latches
        /\ LatchesDecoded /\ Bubbles /\ Fetched /\ CodeInFlight /\ Raised
        /\ WrittenBack /\ OperandsReady /\ ResultsReady

-----------------------------------------------------------------------------
(***************************************************************************)
(* The instance of ISA brings its own copies of the operators that the     *)
(* pipeline is built from.  They are the same.                             *)
(***************************************************************************)
LEMMA SameWords ==
    /\ Abstract!Word = Word /\ Abstract!WordSize = WordSize /\ Abstract!HalfSize = HalfSize
    /\ Abstract!WordBits = WordBits /\ Abstract!SignSize = SignSize
    /\ \A x : Abstract!u32(x) = u32(x) /\ Abstract!u8(x) = u8(x) /\ Abstract!s32(x) = s32(x)
    /\ \A x : Abstract!SIGN_EXTEND(x) = SIGN_EXTEND(x)
    /\ \A a, b : Abstract!check_soverflow(a, b) <=> check_soverflow(a, b)
<1>1. Abstract!WordSize = WordSize /\ Abstract!HalfSize = HalfSize /\ Abstract!WordBits = WordBits
  BY DEF Abstract!WordSize, Abstract!HalfSize, WordSize, HalfSize, Abstract!WordBits, WordBits
<1>2. Abstract!SignSize = SignSize /\ Abstract!Word = Word
  BY <1>1 DEF Abstract!SignSize, SignSize, Abstract!Word, Word
<1>3. Abstract!INT_MAX = INT_MAX /\ Abstract!INT_MIN = INT_MIN
  BY <1>2 DEF Abstract!INT_MAX, INT_MAX, Abstract!INT_MIN, INT_MIN
<1>4. \A x : Abstract!u32(x) = u32(x) /\ Abstract!u8(x) = u8(x) /\ Abstract!s32(x) = s32(x)
  BY <1>1, <1>2 DEF Abstract!u32, u32, Abstract!u8, u8, Abstract!s32, s32
<1>5. \A x : Abstract!SIGN_EXTEND(x) = SIGN_EXTEND(x)
  BY <1>1, <1>4 DEF Abstract!SIGN_EXTEND, SIGN_EXTEND
<1>6. \A a, b : Abstract!check_soverflow(a, b) <=> check_soverflow(a, b)
  BY <1>3 DEF Abstract!check_soverflow, check_soverflow
<1> QED  BY <1>1, <1>2, <1>4, <1>5, <1>6

LEMMA SameBits ==
    /\ \A w : Abstract!Bits(w) = Bits(w)
    /\ \A a, b : /\ Abstract!BitAnd(a, b) = BitAnd(a, b) /\ Abstract!BitOr(a, b) = BitOr(a, b)
                 /\ Abstract!BitNor(a, b) = BitNor(a, b)
                 /\ Abstract!Shl(a, b) = Shl(a, b) /\ Abstract!Shr(a, b) = Shr(a, b)
                 /\ Abstract!SetBit(a, b) = SetBit(a, b)
                 /\ Abstract!ClearBit(a, b) = ClearBit(a, b)
<1>1. Abstract!BitPositions = BitPositions
  BY SameWords DEF Abstract!BitPositions, BitPositions
<1>2. \A w : Abstract!Bits(w) = Bits(w)
  BY <1>1 DEF Abstract!Bits, Bits
<1>3. \A S : Abstract!FromBits(S) = FromBits(S)
  BY SameWords, Zenon
     DEF Abstract!FromBits, FromBits, Abstract!MapThenSumSet, MapThenSumSet,
         Abstract!MapThenFoldSet, MapThenFoldSet
<1>4. \A a, b : /\ Abstract!BitAnd(a, b) = BitAnd(a, b) /\ Abstract!BitOr(a, b) = BitOr(a, b)
                /\ Abstract!BitNor(a, b) = BitNor(a, b)
  BY <1>1, <1>2, <1>3 DEF Abstract!BitAnd, BitAnd, Abstract!BitOr, BitOr, Abstract!BitNor, BitNor
<1>5. \A a, b : Abstract!Shl(a, b) = Shl(a, b) /\ Abstract!Shr(a, b) = Shr(a, b)
  BY SameWords DEF Abstract!Shl, Shl, Abstract!Shr, Shr
<1>6. \A a, b : Abstract!SetBit(a, b) = SetBit(a, b) /\ Abstract!ClearBit(a, b) = ClearBit(a, b)
  BY <1>2, <1>3, <1>4 DEF Abstract!SetBit, SetBit, Abstract!ClearBit, ClearBit
<1> QED  BY <1>2, <1>4, <1>5, <1>6

LEMMA SameMemory ==
    /\ Abstract!KSEG0_VSTART = KSEG0_VSTART /\ Abstract!size_kseg0 = size_kseg0
    /\ Abstract!NULL = NULL /\ Abstract!MEM_OP_WORD = MEM_OP_WORD
    /\ \A m, v, dst, size : Abstract!mmu_read(m, v, dst, size) = mmu_read(m, v, dst, size)
    /\ \A m, v, src, size : Abstract!mmu_write(m, v, src, size) = mmu_write(m, v, src, size)
<1>1. Abstract!Unit = Unit
  BY SameWords DEF Abstract!Unit, Unit
<1>2. /\ Abstract!KSEG0_VSTART = KSEG0_VSTART /\ Abstract!KSEG2_PSTART = KSEG2_PSTART
      /\ Abstract!KSEG0_PSTART = KSEG0_PSTART /\ Abstract!KSEG1_PSTART = KSEG1_PSTART
      /\ Abstract!KUSEG_PSTART = KUSEG_PSTART
      /\ Abstract!KSEG0_SIZE = KSEG0_SIZE /\ Abstract!KSEG1_SIZE = KSEG1_SIZE
      /\ Abstract!KUSEG_SIZE = KUSEG_SIZE
  BY <1>1 DEF Abstract!KSEG0_VSTART, KSEG0_VSTART, Abstract!KSEG2_PSTART, KSEG2_PSTART,
              Abstract!KSEG0_PSTART, KSEG0_PSTART, Abstract!KSEG1_PSTART, KSEG1_PSTART,
              Abstract!KUSEG_PSTART, KUSEG_PSTART, Abstract!KSEG0_SIZE, KSEG0_SIZE,
              Abstract!KSEG1_SIZE, KSEG1_SIZE, Abstract!KUSEG_SIZE, KUSEG_SIZE
<1>3. /\ Abstract!IO_REGISTER_AREA = IO_REGISTER_AREA
      /\ Abstract!IO_DESCRIPTOR_AREA = IO_DESCRIPTOR_AREA
      /\ Abstract!size_kseg0 = size_kseg0 /\ Abstract!size_kseg1 = size_kseg1
      /\ Abstract!size_kuseg = size_kuseg
      /\ Abstract!NULL = NULL /\ Abstract!MEM_OP_WORD = MEM_OP_WORD
      /\ Abstract!MEM_OP_HALF = MEM_OP_HALF /\ Abstract!MEM_OP_BYTE = MEM_OP_BYTE
  BY SameWords DEF Abstract!IO_REGISTER_AREA, IO_REGISTER_AREA, Abstract!IO_DESCRIPTOR_AREA,
                   IO_DESCRIPTOR_AREA, Abstract!size_kseg0, size_kseg0, Abstract!size_kseg1,
                   size_kseg1, Abstract!size_kuseg, size_kuseg, Abstract!NULL, NULL,
                   Abstract!MEM_OP_WORD, MEM_OP_WORD, Abstract!MEM_OP_HALF, MEM_OP_HALF,
                   Abstract!MEM_OP_BYTE, MEM_OP_BYTE
<1>4. \A v : Abstract!translate_vaddr(v) = translate_vaddr(v)
  BY <1>1, <1>2, <1>3 DEF Abstract!translate_vaddr, translate_vaddr
<1>5. \A p : Abstract!translate_paddr(p) = translate_paddr(p)
  BY <1>2, <1>3, SameWords DEF Abstract!translate_paddr, translate_paddr
<1>6. \A v : Abstract!Translate(v) = Translate(v)
  BY <1>4, <1>5 DEF Abstract!Translate, Translate
<1>7. \A m, a : Abstract!ByteAt(m, a) = ByteAt(m, a)
  BY DEF Abstract!ByteAt, ByteAt
<1>8. \A m, a, size : Abstract!GET_BIG(m, a, size) = GET_BIG(m, a, size)
  BY <1>3, <1>7, SameWords DEF Abstract!GET_BIG, GET_BIG
<1>9. \A n : Abstract!Weight(n) = Weight(n)
  BY SameWords DEF Abstract!Weight, Weight
<1>10. \A m, a, size, w : Abstract!SET_BIG(m, a, size, w) = SET_BIG(m, a, size, w)
  BY <1>9, SameWords DEF Abstract!SET_BIG, SET_BIG
<1>11. \A m, v, dst, size : Abstract!mmu_read(m, v, dst, size) = mmu_read(m, v, dst, size)
  BY <1>3, <1>6, <1>8, SameWords DEF Abstract!mmu_read, mmu_read
<1>12. \A m, v, src, size : Abstract!mmu_write(m, v, src, size) = mmu_write(m, v, src, size)
  BY <1>3, <1>6, <1>10 DEF Abstract!mmu_write, mmu_write
<1> QED  BY <1>2, <1>3, <1>11, <1>12

LEMMA SameDecoding ==
    /\ Abstract!Loads = Loads /\ Abstract!Stores = Stores
    /\ Abstract!RegNum = RegNum /\ Abstract!Cp0Num = Cp0Num
    /\ Abstract!INSTRUCTION_ERET = INSTRUCTION_ERET
    /\ \A i : /\ Abstract!IsMTC0(i) <=> IsMTC0(i)
              /\ Abstract!IsJR(i) <=> IsJR(i)
              /\ Abstract!Control(i) = Control(i) /\ Abstract!Funct(i) = Funct(i)
              /\ Abstract!SourceRt(i) = SourceRt(i) /\ Abstract!DestRd(i) = DestRd(i)
    /\ \A i, n, r, c : Abstract!RsValue(i, n, r, c) = RsValue(i, n, r, c)
    /\ \A i, r : Abstract!RtValue(i, r) = RtValue(i, r)
    /\ \A i, n : Abstract!JumpAddr(i, n) = JumpAddr(i, n)
<1>1. /\ Abstract!Loads = Loads /\ Abstract!Stores = Stores
      /\ Abstract!AluImmediates = AluImmediates
      /\ Abstract!RegNum = RegNum /\ Abstract!Cp0Num = Cp0Num
  BY DEF Abstract!Loads, Loads, Abstract!Stores, Stores, Abstract!AluImmediates, AluImmediates,
         Abstract!RegNum, RegNum, Abstract!Cp0Num, Cp0Num
<1>2. Abstract!INSTRUCTION_ERET = INSTRUCTION_ERET
  BY DEF Abstract!INSTRUCTION_ERET, INSTRUCTION_ERET, Abstract!NOP, NOP
<1>3. \A i : /\ Abstract!IsMTC0(i) <=> IsMTC0(i)
             /\ Abstract!IsMFC0(i) <=> IsMFC0(i)
             /\ Abstract!IsJR(i) <=> IsJR(i)
  BY DEF Abstract!IsMTC0, IsMTC0, Abstract!IsMFC0, IsMFC0, Abstract!IsJR, IsJR,
         Abstract!CP0_MTC0, CP0_MTC0, Abstract!CP0_MFC0, CP0_MFC0
<1>4. \A i : Abstract!Control(i) = Control(i)
  BY <1>1, <1>3, Zenon DEF Abstract!Control, Control, Abstract!IsMFC0, IsMFC0, Abstract!IsMTC0,
      IsMTC0, Abstract!IsJR, IsJR, Abstract!CP0_MTC0, CP0_MTC0, Abstract!CP0_MFC0, CP0_MFC0
<1>5. \A i : /\ Abstract!Funct(i) = Funct(i) /\ Abstract!SourceRt(i) = SourceRt(i)
             /\ Abstract!DestRd(i) = DestRd(i)
  BY <1>3 DEF Abstract!Funct, Funct, Abstract!SourceRt, SourceRt, Abstract!DestRd, DestRd,
              Abstract!REG_RA, REG_RA
<1>6. \A i, n, r, c : Abstract!RsValue(i, n, r, c) = RsValue(i, n, r, c)
  BY <1>3, SameWords DEF Abstract!RsValue, RsValue
<1>7. \A i, r : Abstract!RtValue(i, r) = RtValue(i, r)
  BY <1>3 DEF Abstract!RtValue, RtValue
<1>8. \A i, n : Abstract!JumpAddr(i, n) = JumpAddr(i, n)
  BY SameWords DEF Abstract!JumpAddr, JumpAddr, Abstract!Region, Region
<1> QED  BY <1>1, <1>2, <1>3, <1>4, <1>5, <1>6, <1>7, <1>8

LEMMA SameExecution ==
    /\ \A d : /\ Abstract!Redirects(d) <=> Redirects(d)
              /\ Abstract!RedirectTo(d) = RedirectTo(d)
              /\ Abstract!AluException(d) = AluException(d)
    /\ \A d, old : Abstract!AluResult(d, old) = AluResult(d, old)
    /\ \A i, m, a, reg, old :
          Abstract!LoadResult(i, m, a, reg, old) = LoadResult(i, m, a, reg, old)
    /\ \A i, m, a, val, reg :
          Abstract!StoreResult(i, m, a, val, reg) = StoreResult(i, m, a, val, reg)
<1>1. \A d : Abstract!OperandB(d) = OperandB(d)
  BY DEF Abstract!OperandB, OperandB
<1>2. \A d : Abstract!Overflows(d) <=> Overflows(d)
  BY <1>1, SameWords DEF Abstract!Overflows, Overflows
<1>3. \A d : Abstract!AluException(d) = AluException(d)
  BY <1>2 DEF Abstract!AluException, AluException
<1>4. \A f, a, b, n, old : Abstract!RTypeResult(f, a, b, n, old) = RTypeResult(f, a, b, n, old)
  BY SameWords, SameBits DEF Abstract!RTypeResult, RTypeResult
<1>5. \A f, a, b, old : Abstract!ITypeResult(f, a, b, old) = ITypeResult(f, a, b, old)
  BY SameWords, SameBits DEF Abstract!ITypeResult, ITypeResult
<1>6. \A d, old : Abstract!AluResult(d, old) = AluResult(d, old)
  BY <1>1, <1>4, <1>5, SameWords DEF Abstract!AluResult, AluResult
<1>7. \A d : Abstract!Redirects(d) <=> Redirects(d)
  BY DEF Abstract!Redirects, Redirects
<1>8. \A d : Abstract!RedirectTo(d) = RedirectTo(d)
  BY SameDecoding, SameWords, SameBits
     DEF Abstract!RedirectTo, RedirectTo, Abstract!BranchAddr, BranchAddr
<1>9. /\ \A a : Abstract!AlignedAddr(a) = AlignedAddr(a) /\ Abstract!ByteShift(a) = ByteShift(a)
      /\ Abstract!AllOnes = AllOnes
      /\ \A op : Abstract!AccessSize(op) = AccessSize(op)
  BY SameWords DEF Abstract!AlignedAddr, AlignedAddr, Abstract!ByteShift, ByteShift,
      Abstract!AllOnes, AllOnes, Abstract!AccessSize, AccessSize, Abstract!MEM_OP_BYTE,
      MEM_OP_BYTE, Abstract!MEM_OP_HALF, MEM_OP_HALF, Abstract!MEM_OP_WORD, MEM_OP_WORD
<1>10. \A i, m, a, reg, old :
          Abstract!LoadResult(i, m, a, reg, old) = LoadResult(i, m, a, reg, old)
  BY <1>9, SameWords, SameBits, SameMemory DEF Abstract!LoadResult, LoadResult
<1>11. \A i, m, a, val, reg :
          Abstract!StoreResult(i, m, a, val, reg) = StoreResult(i, m, a, val, reg)
  BY <1>9, SameWords, SameBits, SameMemory DEF Abstract!StoreResult, StoreResult
<1> QED  BY <1>3, <1>6, <1>7, <1>8, <1>10, <1>11

(* What the instance means by its operands. *)
LEMMA SameOperands ==
    /\ Abstract!Current = InstructionAt(pmem, IsaPc)
    /\ \A i : /\ Abstract!Operands(i) = IsaOperands(i)
              /\ Abstract!Destination(i) =
                    IF Control(i).reg_dst THEN DestRd(i) ELSE SourceRt(i)
<1>1. Abstract!Current = InstructionAt(pmem, IsaPc)
  BY SameMemory DEF Abstract!Current, InstructionAt
<1>2. \A i : Abstract!Operands(i) = IsaOperands(i)
  BY SameWords, SameDecoding DEF Abstract!Operands, IsaOperands
<1>3. \A i : Abstract!Destination(i) = IF Control(i).reg_dst THEN DestRd(i) ELSE SourceRt(i)
  BY SameDecoding DEF Abstract!Destination
<1> QED  BY <1>1, <1>2, <1>3

-----------------------------------------------------------------------------
(***************************************************************************)
(* Lemmas about addresses and about what an instruction computes.          *)
(***************************************************************************)
LEMMA WrapAround ==
    \A x, w \in Int : w > 0 =>
        /\ 0 <= x /\ x < w => x % w = x
        /\ w <= x /\ x < 2 * w => x % w = x - w
        /\ -w <= x /\ x < 0 => x % w = x + w
BY SMT

LEMMA NextAddress ==
    \A n \in Word : u32(u32(n - 4) + 4) = n /\ u32(u32(n + 4) - 4) = n
<1> SUFFICES ASSUME NEW n \in Word
             PROVE  u32(u32(n - 4) + 4) = n /\ u32(u32(n + 4) - 4) = n
  OBVIOUS
<1>1. WordSize \in Int /\ WordSize > 8 /\ n \in Int /\ 0 <= n /\ n < WordSize
  BY WordSizeBound DEF Word
<1>2. u32(n - 4) = IF n < 4 THEN n - 4 + WordSize ELSE n - 4
  BY <1>1, WrapAround DEF u32
<1>3. u32(n + 4) = IF n + 4 < WordSize THEN n + 4 ELSE n + 4 - WordSize
  BY <1>1, WrapAround DEF u32
<1>4. u32(u32(n - 4) + 4) = n
  <2>1. CASE n < 4
    BY <1>1, <1>2, <2>1, WrapAround DEF u32
  <2>2. CASE ~(n < 4)
    BY <1>1, <1>2, <2>2, WrapAround DEF u32
  <2> QED  BY <2>1, <2>2
<1>5. u32(u32(n + 4) - 4) = n
  <2>1. CASE n + 4 < WordSize
    BY <1>1, <1>3, <2>1, WrapAround DEF u32
  <2>2. CASE ~(n + 4 < WordSize)
    BY <1>1, <1>3, <2>2, WrapAround DEF u32
  <2> QED  BY <2>1, <2>2
<1> QED  BY <1>4, <1>5

(* The ALU and the branch unit look at these fields only. *)
Agree(d, e) ==
    /\ d.c = e.c /\ d.inst = e.inst /\ d.funct = e.funct /\ d.shamt = e.shamt
    /\ d.rs_value = e.rs_value /\ d.rt_value = e.rt_value
    /\ d.sign_ext_imm = e.sign_ext_imm

LEMMA AluAgrees ==
    ASSUME NEW d, NEW e, Agree(d, e)
    PROVE  /\ AluException(d) = AluException(e)
           /\ \A old : AluResult(d, old) = AluResult(e, old)
           /\ Redirects(d) <=> Redirects(e)
BY DEF Agree, AluException, AluResult, Redirects, Overflows, OperandB

LEMMA RedirectAgrees ==
    ASSUME NEW d, NEW e, Agree(d, e), d.next_pc = e.next_pc, d.c = Control(d.inst),
           d.inst.op \in {"J", "JAL"} => d.jump_addr = e.jump_addr
    PROVE  RedirectTo(d) = RedirectTo(e)
<1>1. Control(d.inst).jump /\ ~IsJR(d.inst) => d.inst.op \in {"J", "JAL"}
  BY DEF Control, IsJR
<1> QED  BY <1>1 DEF Agree, RedirectTo

(* Either the ALU computes a result, or it leaves the old one alone. *)
LEMMA AluOld ==
    ASSUME NEW d, NEW old
    PROVE  AluResult(d, NULL) \in {NULL, AluResult(d, old)}
<1>1. \A f, a, b, n : RTypeResult(f, a, b, n, NULL) \in {NULL, RTypeResult(f, a, b, n, old)}
  BY DEF RTypeResult
<1>2. \A f, a, b : ITypeResult(f, a, b, NULL) \in {NULL, ITypeResult(f, a, b, old)}
  BY DEF ITypeResult
<1> QED  BY <1>1, <1>2 DEF AluResult

(* Likewise a load. *)
LEMMA LoadOld ==
    ASSUME NEW i, NEW m, NEW a, NEW reg, NEW old
    PROVE  /\ LoadResult(i, m, a, reg, NULL).data \in {NULL, LoadResult(i, m, a, reg, old).data}
           /\ LoadResult(i, m, a, reg, NULL).segv = LoadResult(i, m, a, reg, old).segv
<1>1. \A v, size :
          /\ mmu_read(m, v, NULL, size).data \in {NULL, mmu_read(m, v, old, size).data}
          /\ mmu_read(m, v, NULL, size).segv = mmu_read(m, v, old, size).segv
  BY DEF mmu_read
<1> QED  BY <1>1 DEF LoadResult

(* Which instructions have which control signals. *)
LEMMA ControlOf ==
    ASSUME NEW i
    PROVE  /\ Control(i).mem_read <=> i.op \in Loads
           /\ Control(i).mem_write <=> i.op \in Stores
           /\ Control(i).mem_to_reg <=> i.op \in Loads
           /\ i.op \in Loads => /\ Control(i).alu_op = 0 /\ Control(i).reg_write
                                /\ ~Control(i).reg_dst /\ SourceRt(i) = i.rt
           /\ i.op \in Stores => Control(i).alu_op = 0 /\ ~Control(i).reg_write
           /\ i.op \in Loads => ~Control(i).jump /\ ~Control(i).beq /\ ~Control(i).bne
           /\ IsMTC0(i) => /\ Control(i).reg_write /\ Control(i).reg_dst
                           /\ i.op \notin Loads \cup Stores
<1>1. /\ Control(i).mem_read <=> i.op \in Loads
      /\ Control(i).mem_write <=> i.op \in Stores
      /\ Control(i).mem_to_reg <=> i.op \in Loads
  BY DEF Control
<1>2. i.op \in Loads => /\ Control(i).alu_op = 0 /\ Control(i).reg_write
                        /\ ~Control(i).reg_dst /\ SourceRt(i) = i.rt
  BY DEF Control, Loads, SourceRt, IsMFC0, IsMTC0, AluImmediates
<1>3. i.op \in Stores => Control(i).alu_op = 0 /\ ~Control(i).reg_write
  BY DEF Control, Stores, Loads, IsMFC0, IsMTC0, AluImmediates
<1>4. i.op \in Loads => ~Control(i).jump /\ ~Control(i).beq /\ ~Control(i).bne
  BY DEF Control, Loads, IsJR
<1>5. IsMTC0(i) => /\ Control(i).reg_write /\ Control(i).reg_dst
                   /\ i.op \notin Loads \cup Stores
  BY DEF Control, IsMTC0, Loads, Stores
<1> QED  BY <1>1, <1>2, <1>3, <1>4, <1>5

-----------------------------------------------------------------------------
(***************************************************************************)
(* The steps of the abstract machine, in terms of the refinement mapping.  *)
(***************************************************************************)
Destination(i) == IF Control(i).reg_dst THEN DestRd(i) ELSE SourceRt(i)

ExitSteps ==
    /\ IsaHalted' /\ IsaPc' = 0 /\ IsaNpc' = 0 /\ ~IsaBd'
    /\ UNCHANGED <<IsaRegs, IsaCp0, pmem>>

RaiseSteps(e) ==
    /\ IsaCp0' = [IsaCp0 EXCEPT ![REG_EPC] = u32(IsaPc + 4),
                                ![REG_CAUSE] = get_cause(e, IsaBd),
                                ![REG_SR] = SetBit(@, SR_EXL)]
    /\ IsaPc' = IF SR_BEV \in Bits(IsaCp0[REG_SR]) THEN IsaCp0[REG_EBASE] ELSE EXCEPTION_VECTOR
    /\ IsaNpc' = u32(IsaPc' + 4) /\ ~IsaBd' /\ ~IsaHalted'
    /\ UNCHANGED <<IsaRegs, pmem>>

EretSteps ==
    /\ IsaCp0' = [IsaCp0 EXCEPT ![REG_SR] = ClearBit(@, SR_EXL)]
    /\ IsaPc' = IsaCp0[REG_EPC]
    /\ IsaNpc' = u32(IsaPc' + 4) /\ ~IsaBd' /\ ~IsaHalted'
    /\ UNCHANGED <<IsaRegs, pmem>>

AdvanceSteps(d) ==
    /\ IsaPc' = IsaNpc
    /\ IsaNpc' = IF Redirects(d) THEN RedirectTo(d) ELSE u32(IsaNpc + 4)
    /\ IsaBd' <=> Redirects(d)
    /\ ~IsaHalted'

WriteSteps(i, value) ==
    /\ IsaRegs' = IF Control(i).reg_write /\ ~IsMTC0(i) /\ Destination(i) # 0
                  THEN [IsaRegs EXCEPT ![Destination(i)] = value] ELSE IsaRegs
    /\ IsaCp0' = IF IsMTC0(i) THEN [IsaCp0 EXCEPT ![Destination(i)] = value] ELSE IsaCp0

LEMMA SameConstants ==
    /\ Abstract!REG_V0 = REG_V0 /\ Abstract!REG_EPC = REG_EPC /\ Abstract!REG_CAUSE = REG_CAUSE
    /\ Abstract!REG_SR = REG_SR /\ Abstract!REG_EBASE = REG_EBASE /\ Abstract!REG_SP = REG_SP
    /\ Abstract!SR_EXL = SR_EXL /\ Abstract!SR_BEV = SR_BEV /\ Abstract!SR_IE = SR_IE
    /\ Abstract!EXCEPTION_VECTOR = EXCEPTION_VECTOR
    /\ \A e, b : Abstract!get_cause(e, b) = get_cause(e, b)
<1>1. Abstract!EXCEPTION_VECTOR = EXCEPTION_VECTOR
  BY SameWords, SameMemory DEF Abstract!EXCEPTION_VECTOR, EXCEPTION_VECTOR
<1>2. \A e, b : Abstract!get_cause(e, b) = get_cause(e, b)
  BY SameWords DEF Abstract!get_cause, get_cause, Abstract!ExcCode, ExcCode
<1> QED  BY <1>1, <1>2
    DEF Abstract!REG_V0, REG_V0, Abstract!REG_EPC, REG_EPC, Abstract!REG_CAUSE, REG_CAUSE,
        Abstract!REG_SR, REG_SR, Abstract!REG_EBASE, REG_EBASE, Abstract!REG_SP, REG_SP,
        Abstract!SR_EXL, SR_EXL, Abstract!SR_BEV, SR_BEV, Abstract!SR_IE, SR_IE

LEMMA SameSteps ==
    ASSUME ~IsaHalted
    PROVE  /\ \A e : RaiseSteps(e) => Abstract!Raise(e)
           /\ \A d : AdvanceSteps(d) => Abstract!Advance(d) /\ IsaHalted' = IsaHalted
           /\ \A i, v : WriteSteps(i, v) => Abstract!WriteResult(i, v)
<1>1. IsaHalted \in BOOLEAN /\ IsaHalted' \in BOOLEAN /\ IsaBd' \in BOOLEAN
  BY DEF IsaHalted, IsaBd, PendingExit
<1>2. \A e : RaiseSteps(e) => Abstract!Raise(e)
  BY <1>1, SameConstants, SameWords, SameBits DEF RaiseSteps, Abstract!Raise
<1>3. \A d : AdvanceSteps(d) => Abstract!Advance(d) /\ IsaHalted' = IsaHalted
  <2>1. \A d : Abstract!Redirects(d) \in BOOLEAN
    BY DEF Abstract!Redirects
  <2>2. \A d : AdvanceSteps(d) => (IsaBd' = Abstract!Redirects(d)) /\ IsaHalted' = IsaHalted
    BY <1>1, <2>1, SameExecution DEF AdvanceSteps
  <2> QED  BY <2>2, SameExecution, SameWords DEF AdvanceSteps, Abstract!Advance
<1>4. \A i, v : WriteSteps(i, v) => Abstract!WriteResult(i, v)
  BY SameDecoding, SameOperands DEF WriteSteps, Abstract!WriteResult, Destination
<1> QED  BY <1>2, <1>3, <1>4

IsaCurrent == InstructionAt(pmem, IsaPc)
IsaD == IsaOperands(IsaCurrent)
IsaStore ==
    StoreResult(IsaCurrent, pmem, AluResult(IsaD, 0), IsaD.rt_value, IsaRegs[IsaCurrent.rt])
IsaLoad(old) ==
    LoadResult(IsaCurrent, pmem, AluResult(IsaD, 0), IsaRegs[IsaCurrent.rt], old)

LEMMA StepIs ==
    ASSUME ~IsaHalted
    PROVE  /\ (\/ Abstract!Exit(IsaD) \/ Abstract!Trap(IsaD) \/ Abstract!Eret(IsaCurrent)
               \/ Abstract!Load(IsaCurrent, IsaD) \/ Abstract!Store(IsaCurrent, IsaD)
               \/ Abstract!Compute(IsaCurrent, IsaD))
              => Abstract!Step
           /\ IsaHalted = FALSE /\ IsaHalted' \in BOOLEAN /\ IsaBd' \in BOOLEAN
<1>1. IsaCurrent = Abstract!Current /\ IsaD = Abstract!Operands(IsaCurrent)
  BY SameOperands DEF IsaCurrent, IsaD
<1>2. IsaHalted = FALSE /\ IsaHalted' \in BOOLEAN /\ IsaBd' \in BOOLEAN
  BY DEF IsaHalted, IsaBd, PendingExit
<1> QED  BY <1>1, <1>2 DEF Abstract!Step

LEMMA ExitIsStep ==
    ASSUME ~IsaHalted, AluException(IsaD) = "Syscall", IsaRegs[REG_V0] = 10, ExitSteps
    PROVE  Abstract!Step
<1>1. Abstract!Exit(IsaD)
  BY StepIs, SameExecution, SameConstants DEF ExitSteps, Abstract!Exit
<1> QED  BY <1>1, StepIs

LEMMA TrapIsStep ==
    ASSUME ~IsaHalted, AluException(IsaD) # "None",
           ~(AluException(IsaD) = "Syscall" /\ IsaRegs[REG_V0] = 10),
           RaiseSteps(AluException(IsaD))
    PROVE  Abstract!Step
<1>1. Abstract!Trap(IsaD)
  BY SameExecution, SameConstants, SameSteps DEF Abstract!Trap
<1> QED  BY <1>1, StepIs

LEMMA EretIsStep ==
    ASSUME ~IsaHalted, IsaCurrent = INSTRUCTION_ERET, EretSteps
    PROVE  Abstract!Step
<1>1. Abstract!Eret(IsaCurrent)
  BY StepIs, SameConstants, SameWords, SameBits, SameDecoding DEF EretSteps, Abstract!Eret
<1> QED  BY <1>1, StepIs

LEMMA LoadIsStep ==
    ASSUME ~IsaHalted, IsaCurrent.op \in Loads, AluException(IsaD) = "None",
           \E old \in Word : ~IsaLoad(old).segv /\ WriteSteps(IsaCurrent, IsaLoad(old).data),
           AdvanceSteps(IsaD), UNCHANGED pmem
    PROVE  Abstract!Step
<1>1. PICK old \in Word : ~IsaLoad(old).segv /\ WriteSteps(IsaCurrent, IsaLoad(old).data)
  OBVIOUS
<1>2. IsaLoad(NULL).data \in {NULL, IsaLoad(old).data} /\ IsaLoad(NULL).segv = IsaLoad(old).segv
  BY LoadOld DEF IsaLoad
<1>3. IsaLoad(old).data \in Abstract!Word
  BY LoadType, SameWords DEF IsaLoad
<1>4. IsaLoad(NULL) = Abstract!LoadResult(IsaCurrent, pmem, Abstract!AluResult(IsaD, 0),
                                          IsaRegs[IsaCurrent.rt], Abstract!NULL)
  BY SameExecution, SameMemory DEF IsaLoad
<1>5. Abstract!WriteResult(IsaCurrent, IsaLoad(old).data)
  BY <1>1, SameSteps
<1>6. Abstract!Advance(IsaD) /\ UNCHANGED <<pmem, IsaHalted>>
  BY SameSteps
<1>7. Abstract!Load(IsaCurrent, IsaD)
  BY <1>1, <1>2, <1>3, <1>4, <1>5, <1>6, SameExecution, SameDecoding, SameMemory
     DEF Abstract!Load
<1> QED  BY <1>7, StepIs

LEMMA StoreIsStep ==
    ASSUME ~IsaHalted, IsaCurrent.op \in Stores, AluException(IsaD) = "None", ~IsaStore.segv,
           IF IsaStore.exception # "None" THEN RaiseSteps(IsaStore.exception)
           ELSE /\ pmem' = IsaStore.pmem
                /\ AdvanceSteps(IsaD) /\ UNCHANGED <<IsaRegs, IsaCp0>>
    PROVE  Abstract!Step
<1>1. IsaStore = Abstract!StoreResult(IsaCurrent, pmem, Abstract!AluResult(IsaD, 0),
                                      IsaD.rt_value, IsaRegs[IsaCurrent.rt])
  BY SameExecution DEF IsaStore
<1>2. IsaStore.exception # "None" => Abstract!Raise(IsaStore.exception)
  BY SameSteps
<1>3. IsaStore.exception = "None" =>
          /\ Abstract!Advance(IsaD) /\ pmem' = IsaStore.pmem
          /\ UNCHANGED <<IsaRegs, IsaCp0, IsaHalted>>
  BY SameSteps
<1>4. Abstract!Store(IsaCurrent, IsaD)
  BY <1>1, <1>2, <1>3, SameExecution, SameDecoding DEF Abstract!Store
<1> QED  BY <1>4, StepIs

LEMMA ComputeIsStep ==
    ASSUME ~IsaHalted, IsaCurrent.op \notin Loads \cup Stores, IsaCurrent # INSTRUCTION_ERET,
           AluException(IsaD) = "None",
           \E v \in Word : (\E old : v = AluResult(IsaD, old)) /\ WriteSteps(IsaCurrent, v),
           AdvanceSteps(IsaD), UNCHANGED pmem
    PROVE  Abstract!Step
<1>1. PICK v \in Word : (\E old : v = AluResult(IsaD, old)) /\ WriteSteps(IsaCurrent, v)
  OBVIOUS
<1>2. AluResult(IsaD, NULL) \in {NULL, v} /\ v \in Abstract!Word
  BY <1>1, AluOld, SameWords
<1>3. AluResult(IsaD, NULL) = Abstract!AluResult(IsaD, Abstract!NULL)
  BY SameExecution, SameMemory
<1>4. Abstract!WriteResult(IsaCurrent, v)
  BY <1>1, SameSteps
<1>5. Abstract!Advance(IsaD) /\ UNCHANGED <<pmem, IsaHalted>>
  BY SameSteps
<1>6. Abstract!Compute(IsaCurrent, IsaD)
  BY <1>2, <1>3, <1>4, <1>5, SameExecution, SameDecoding, SameMemory
     DEF Abstract!Compute
<1> QED  BY <1>6, StepIs

-----------------------------------------------------------------------------
(***************************************************************************)
(* What a step leaves alone.                                               *)
(***************************************************************************)
Stutters == UNCHANGED <<IsaRegs, IsaCp0, pmem, IsaPc, IsaNpc, IsaBd, IsaHalted>>

(* All stages but WB and MEM. *)
SameView == UNCHANGED <<regs, cp0, mem_wb, g_finished, pmem>>

LEMMA InFlightIs ==
    /\ InFlight("ex_mem") <=> "ex_mem" \in live /\ at # "ex"
    /\ InFlight("id_ex") <=> "id_ex" \in live /\ at # "id"
    /\ InFlight("if_id") <=> "if_id" \in live /\ at # "if"
    /\ InFlight("ex_mem")' <=> "ex_mem" \in live' /\ at' # "ex"
    /\ InFlight("id_ex")' <=> "id_ex" \in live' /\ at' # "id"
    /\ InFlight("if_id")' <=> "if_id" \in live' /\ at' # "if"
BY DEF InFlight, Copied

LEMMA AddressIs ==
    /\ Address("if_id") = u32(if_id.next_pc - 4)
    /\ Address("id_ex") = u32(id_ex.next_pc - 4)
    /\ Address("ex_mem") = u32(ex_mem.next_pc - 4)
    /\ Address("if_id")' = u32(if_id'.next_pc - 4)
    /\ Address("id_ex")' = u32(id_ex'.next_pc - 4)
    /\ Address("ex_mem")' = u32(ex_mem'.next_pc - 4)
BY DEF Address, u32

LEMMA ViewKept ==
    ASSUME SameView
    PROVE  /\ UNCHANGED <<IsaRegs, IsaCp0, IsaHalted, Handler>>
           /\ (PendingEret' <=> PendingEret) /\ (PendingTrap' <=> PendingTrap)
           /\ (Stopped' <=> Stopped)
<1>1. /\ PendingEret' = PendingEret /\ PendingExit' = PendingExit
      /\ PendingTrap' = PendingTrap /\ PendingWrite' = PendingWrite
  BY DEF SameView, PendingEret, PendingExit, PendingTrap, PendingException, PendingWrite,
         ExitSyscall
<1>2. UNCHANGED <<IsaHalted, Handler, WbData>>
  BY <1>1 DEF SameView, IsaHalted, Handler, WbData
<1>3. UNCHANGED IsaRegs
  BY <1>1, <1>2 DEF SameView, IsaRegs
<1>4. UNCHANGED IsaCp0
  BY <1>1, <1>2 DEF SameView, IsaCp0
<1> QED  BY <1>1, <1>2, <1>3, <1>4 DEF Stopped

LEMMA CourseKept ==
    ASSUME SameView, ExPc' = ExPc, ExNpc' = ExNpc, ExBd' <=> ExBd
    PROVE  Stutters
<1>1. IsaPc' = IsaPc
  BY ViewKept DEF IsaPc, SameView
<1>2. IsaNpc' = IsaNpc
  BY <1>1, ViewKept DEF IsaNpc
<1>3. IsaBd' = IsaBd
  BY ViewKept DEF IsaBd
<1> QED  BY <1>1, <1>2, <1>3, ViewKept DEF Stutters, SameView

LEMMA ResultsKept ==
    ASSUME Stutters, UNCHANGED ex_mem, IdNpc' = IdNpc, IdBd' <=> IdBd, Stopped' <=> Stopped,
           "ex_mem" \in live' => "ex_mem" \in live, at # "ex", ResultsReady
    PROVE  ResultsReady'
<1>1. IsaOperands(ex_mem.inst)' = IsaOperands(ex_mem.inst)
  BY DEF Stutters, IsaOperands
<1> DEFINE d == IsaOperands(ex_mem.inst)
<1>2. d' = d
  BY <1>1
<1>3. ASSUME Computed PROVE Computed'
  <2>1. /\ ex_mem.exception = AluException(d)
        /\ \E old \in Word : ex_mem.alu_res = AluResult(d, old)
        /\ ex_mem.rt_value = d.rt_value
        /\ IdNpc = IF Redirects(d) THEN RedirectTo(d) ELSE u32(IsaNpc + 4)
        /\ IdBd <=> Redirects(d)
    BY <1>3 DEF Computed
  <2>2. IsaNpc' = IsaNpc
    BY DEF Stutters
  <2> HIDE DEF d
  <2>3. /\ ex_mem'.exception = AluException(d')
        /\ \E old \in Word : ex_mem'.alu_res = AluResult(d', old)
        /\ ex_mem'.rt_value = d'.rt_value
        /\ IdNpc' = IF Redirects(d') THEN RedirectTo(d') ELSE u32(IsaNpc' + 4)
        /\ IdBd' <=> Redirects(d')
    BY <1>2, <2>1, <2>2
  <2> USE DEF d
  <2> QED  BY <2>3 DEF Computed
<1> QED  BY <1>3 DEF ResultsReady

(* Nothing but the step that comes next. *)
LEMMA PointKept ==
    ASSUME UNCHANGED <<core, pmem, g_finished, live>>,
           at' = at \/ {at, at'} \cap {"ex", "id", "if"} = {}
    PROVE  /\ Stutters /\ IdNpc' = IdNpc /\ (IdBd' <=> IdBd) /\ (Stopped' <=> Stopped)
           /\ InFlight("ex_mem")' <=> InFlight("ex_mem")
           /\ InFlight("id_ex")' <=> InFlight("id_ex")
           /\ InFlight("if_id")' <=> InFlight("if_id")
<1>1. SameView /\ UNCHANGED <<pc, if_id, id_ex, ex_mem, mem_wb>>
  BY DEF SameView, core
<1>2. /\ InFlight("ex_mem")' <=> InFlight("ex_mem")
      /\ InFlight("id_ex")' <=> InFlight("id_ex")
      /\ InFlight("if_id")' <=> InFlight("if_id")
  BY InFlightIs
<1>3. IfPc' = IfPc /\ IfNpc' = IfNpc /\ (IfBd' <=> IfBd)
  BY <1>1, <1>2, AddressIs DEF IfPc, IfNpc, IfBd
<1>4. IdPc' = IdPc /\ IdNpc' = IdNpc /\ (IdBd' <=> IdBd)
  BY <1>1, <1>2, <1>3, AddressIs DEF IdPc, IdNpc, IdBd
<1>5. ExPc' = ExPc /\ ExNpc' = ExNpc /\ (ExBd' <=> ExBd)
  BY <1>1, <1>2, <1>4, AddressIs DEF ExPc, ExNpc, ExBd
<1> QED  BY <1>1, <1>2, <1>4, <1>5, CourseKept, ViewKept

LEMMA RunRefines ==
    ASSUME RefinementInv, RunTick \/ RunReturn, UNCHANGED live
    PROVE  Stutters /\ RefinementInv'
<1>1. /\ UNCHANGED <<core, pmem, g_finished, live>> /\ at = "run"
      /\ at' \in {"wb", "segv", "exit"}
  BY DEF RunTick, RunReturn
<1>2. at' = "wb" => ~g_finished
  BY DEF RunTick, RunReturn
<1>3. /\ Stutters /\ IdNpc' = IdNpc /\ (IdBd' <=> IdBd) /\ (Stopped' <=> Stopped)
      /\ InFlight("ex_mem")' <=> InFlight("ex_mem")
      /\ InFlight("id_ex")' <=> InFlight("id_ex")
      /\ InFlight("if_id")' <=> InFlight("if_id")
  BY <1>1, PointKept
<1>4. UNCHANGED <<regs, pc, cp0, if_id, id_ex, ex_mem, mem_wb>>
  BY <1>1 DEF core
<1> SUFFICES ASSUME at' = "wb" PROVE RefinementInv'
  BY <1>1, <1>3 DEF RefinementInv, Running
<1>5. /\ live \subseteq Latches
      /\ LatchesDecoded /\ Bubbles /\ Fetched /\ CodeInFlight /\ Raised
      /\ WrittenBack /\ OperandsReady /\ ResultsReady
  BY <1>1 DEF RefinementInv, Running
<1>6. LatchesDecoded' /\ Bubbles' /\ Fetched' /\ Raised'
  BY <1>1, <1>4, <1>5 DEF LatchesDecoded, IsDecoded, IsExecuted, Bubbles, Fetched, Raised
<1>7. CodeInFlight'
  BY <1>1, <1>3, <1>4, <1>5, AddressIs DEF CodeInFlight, InstructionAt
<1>8. WrittenBack'
  BY <1>1, <1>2 DEF WrittenBack
<1>9. OperandsReady'
  <2>1. OperandsAreLatest' <=> OperandsAreLatest
    BY <1>4 DEF OperandsAreLatest, LatestCp0, LatestGpr, WritesCp0, WritesGpr, WbData
  <2>2. NoPendingLoad' <=> NoPendingLoad
    BY <1>4 DEF NoPendingLoad
  <2> QED  BY <1>1, <1>4, <1>5, <2>1, <2>2 DEF OperandsReady, LinkOperands
<1>10. ResultsReady'
  BY <1>1, <1>3, <1>4, <1>5, ResultsKept
<1> QED  BY <1>1, <1>5, <1>6, <1>7, <1>8, <1>9, <1>10 DEF RefinementInv

-----------------------------------------------------------------------------
(***************************************************************************)
(* ID: the instruction moves on, with the operands read.                   *)
(***************************************************************************)
LEMMA IdRefines ==
    ASSUME TypeOK, HazardInv, RefinementInv, InterpretId, live' = Moves("if_id", "id_ex")
    PROVE  Stutters /\ RefinementInv'
<1>1. /\ at = "id" /\ at' = "if"
      /\ UNCHANGED <<regs, pc, cp0, if_id, ex_mem, mem_wb, pmem, g_finished>>
      /\ id_ex' = Decoded(if_id.inst)
  BY DEF InterpretId, HazardInv, NoEarlyException
<1>2. /\ "ex_mem" \in live' <=> "ex_mem" \in live
      /\ "if_id" \in live' <=> "if_id" \in live
      /\ "id_ex" \in live' <=> "if_id" \in live
      /\ live' \subseteq live \cup Latches
  BY DEF Moves, Latches
<1>3. /\ live \subseteq Latches
      /\ LatchesDecoded /\ Bubbles /\ CodeInFlight /\ Raised /\ WrittenBack /\ ResultsReady
  BY <1>1 DEF RefinementInv, Running
<1>4. /\ id_ex'.inst = if_id.inst /\ id_ex'.next_pc = if_id.next_pc
      /\ id_ex'.is_branch_delay = if_id.is_branch_delay
      /\ id_ex'.c = Control(if_id.inst) /\ id_ex'.funct = Funct(if_id.inst)
      /\ id_ex'.rs_value = RsValue(if_id.inst, if_id.next_pc, regs, cp0)
      /\ id_ex'.rt_value = RtValue(if_id.inst, regs) /\ id_ex'.rd = DestRd(if_id.inst)
  BY <1>1 DEF Decoded
<1>5. /\ InFlight("ex_mem")' <=> InFlight("ex_mem")
      /\ InFlight("id_ex")' <=> InFlight("if_id")
      /\ ~InFlight("if_id")' /\ ~InFlight("id_ex")
  BY <1>1, <1>2, InFlightIs
<1>6. SameView /\ Address("ex_mem")' = Address("ex_mem") /\ Address("id_ex")' = Address("if_id")
  BY <1>1, <1>4, AddressIs DEF SameView
<1>7. IdPc' = IdPc /\ IdNpc' = IdNpc /\ (IdBd' <=> IdBd)
  BY <1>1, <1>4, <1>5, <1>6 DEF IdPc, IdNpc, IdBd, IfPc, IfNpc, IfBd
<1>8. ExPc' = ExPc /\ ExNpc' = ExNpc /\ (ExBd' <=> ExBd)
  BY <1>1, <1>5, <1>6, <1>7 DEF ExPc, ExNpc, ExBd
<1>9. Stutters
  BY <1>6, <1>8, CourseKept
<1>10. LatchesDecoded'
  <2>1. IsDecoded(id_ex')
    BY <1>1 DEF Decoded, IsDecoded
  <2> QED  BY <1>1, <1>2, <1>3, <2>1 DEF LatchesDecoded, IsDecoded, IsExecuted
<1>11. Bubbles'
  <2>1. ASSUME "if_id" \notin live
        PROVE  /\ id_ex'.inst = NOP /\ id_ex'.c = Control(NOP) /\ id_ex'.funct = "SLL"
               /\ id_ex'.rs_value = 0 /\ id_ex'.rt_value = 0 /\ id_ex'.rd = 0
    <3>1. if_id.inst = NOP /\ regs[0] = 0
      BY <1>3, <2>1 DEF Bubbles, HazardInv, ZeroRegister
    <3>2. /\ Funct(NOP) = "SLL" /\ DestRd(NOP) = 0
          /\ RsValue(NOP, if_id.next_pc, regs, cp0) = regs[0] /\ RtValue(NOP, regs) = regs[0]
      BY DEF Funct, DestRd, RsValue, RtValue, NOP, IsMFC0, IsMTC0
    <3> QED  BY <1>4, <3>1, <3>2
  <2> QED  BY <1>1, <1>2, <1>3, <2>1 DEF Bubbles
<1>12. CodeInFlight'
  BY <1>1, <1>3, <1>4, <1>5, <1>6 DEF CodeInFlight, InstructionAt
<1>13. Fetched' /\ Raised' /\ WrittenBack'
  BY <1>1, <1>3 DEF Fetched, Raised, WrittenBack
<1>14. OperandsReady'
  BY <1>1, <1>4 DEF OperandsReady, LinkOperands, RsValue, RtValue, IsMFC0, IsMTC0
<1>15. ResultsReady'
  BY <1>1, <1>2, <1>3, <1>6, <1>7, <1>9, ViewKept, ResultsKept
<1> QED  BY <1>2, <1>3, <1>9, <1>10, <1>11, <1>12, <1>13, <1>14, <1>15 DEF RefinementInv

(***************************************************************************)
(* IF: the instruction at the PC enters, or waits for a load.              *)
(***************************************************************************)
LEMMA IfRefines ==
    ASSUME TypeOK, RefinementInv,
           \/ IfFetch /\ live' = live \cup {"if_id"}
           \/ (IfStall \/ IfSegv) /\ live' = live \ {"if_id"}
    PROVE  Stutters /\ RefinementInv'
<1>1. /\ at = "if" /\ at' \in {"fwd", "segv"} /\ SameView /\ UNCHANGED <<id_ex, ex_mem>>
      /\ "ex_mem" \in live' <=> "ex_mem" \in live
      /\ "id_ex" \in live' <=> "id_ex" \in live
      /\ live' \subseteq live \cup Latches
  BY DEF IfFetch, IfStall, IfSegv, SameView, core, Latches
<1>2. /\ live \subseteq Latches
      /\ LatchesDecoded /\ Bubbles /\ CodeInFlight /\ Raised /\ OperandsReady /\ ResultsReady
  BY <1>1 DEF RefinementInv, Running
<1>3. IF "if_id" \in live' THEN Address("if_id")' = pc /\ pc' = u32(pc + 4)
                                /\ ~if_id'.is_branch_delay
      ELSE pc' = pc
  <2>1. CASE IfFetch /\ live' = live \cup {"if_id"}
    <3>1. pc' = u32(pc + 4) /\ if_id'.next_pc = u32(pc + 4) /\ ~if_id'.is_branch_delay
      BY <2>1 DEF IfFetch
    <3> QED  BY <2>1, <3>1, AddressIs, NextAddress DEF TypeOK
  <2>2. CASE (IfStall \/ IfSegv) /\ live' = live \ {"if_id"}
    BY <2>2 DEF IfStall, IfSegv, core
  <2> QED  BY <2>1, <2>2
<1>4. /\ InFlight("ex_mem")' <=> InFlight("ex_mem")
      /\ InFlight("id_ex")' <=> InFlight("id_ex")
      /\ ~InFlight("if_id") /\ (InFlight("if_id")' <=> "if_id" \in live')
  BY <1>1, InFlightIs
<1>5. Address("ex_mem")' = Address("ex_mem") /\ Address("id_ex")' = Address("id_ex")
  BY <1>1, AddressIs
<1>6. IfPc' = IfPc /\ IfNpc' = IfNpc /\ (IfBd' <=> IfBd)
  BY <1>3, <1>4 DEF IfPc, IfNpc, IfBd
<1>7. IdPc' = IdPc /\ IdNpc' = IdNpc /\ (IdBd' <=> IdBd)
  BY <1>1, <1>4, <1>5, <1>6 DEF IdPc, IdNpc, IdBd
<1>8. ExPc' = ExPc /\ ExNpc' = ExNpc /\ (ExBd' <=> ExBd)
  BY <1>1, <1>4, <1>5, <1>7 DEF ExPc, ExNpc, ExBd
<1>9. Stutters
  BY <1>1, <1>8, CourseKept
<1> SUFFICES ASSUME at' = "fwd" PROVE RefinementInv'
  BY <1>1, <1>9 DEF RefinementInv, Running
<1>10. /\ "if_id" \in live' => /\ if_id'.inst = InstructionAt(pmem, pc) /\ ~if_id'.is_branch_delay
                               /\ pc' = if_id'.next_pc
       /\ "if_id" \notin live' => if_id'.inst = NOP /\ id_ex.c.mem_read
  <2>1. CASE IfFetch /\ live' = live \cup {"if_id"}
    BY <2>1 DEF IfFetch, Fetch, InstructionAt
  <2>2. CASE IfStall /\ live' = live \ {"if_id"}
    <3>1. if_id'.inst = NOP
      BY <2>2 DEF IfStall, TypeOK, IfId
    <3> QED  BY <2>2, <3>1 DEF IfStall, LoadUse
  <2> QED  BY <2>1, <2>2 DEF IfSegv
<1>11. LatchesDecoded' /\ Raised'
  BY <1>1, <1>2 DEF LatchesDecoded, IsDecoded, IsExecuted, Raised, SameView
<1>12. Bubbles' /\ Fetched'
  BY <1>1, <1>2, <1>10 DEF Bubbles, Fetched
<1>13. CodeInFlight'
  BY <1>1, <1>2, <1>3, <1>4, <1>5, <1>10 DEF CodeInFlight, InstructionAt, SameView
<1>14. WrittenBack'
  BY <1>1 DEF WrittenBack
<1>15. OperandsReady'
  BY <1>1, <1>2 DEF OperandsReady, LinkOperands, SameView
<1>16. ResultsReady'
  BY <1>1, <1>2, <1>7, <1>9, ViewKept, ResultsKept
<1> QED  BY <1>1, <1>2, <1>11, <1>12, <1>13, <1>14, <1>15, <1>16 DEF RefinementInv

(***************************************************************************)
(* The forwarding unit.                                                    *)
(***************************************************************************)
LEMMA MuxKeeps ==
    ASSUME NEW r, NEW v,
           ~(ex_mem.c_reg_write /\ ex_mem.reg_dst # 0 /\ ex_mem.reg_dst = r),
           ~(mem_wb.c_reg_write /\ mem_wb.reg_dst # 0 /\ mem_wb.reg_dst = r)
    PROVE  Mux(r, v).value = v
BY DEF Mux

LEMMA FwdRefines ==
    ASSUME TypeOK, HazardInv, RefinementInv, ForwardingUnit, UNCHANGED live,
           HazardInv', NoClash', LinkUndisturbed'
    PROVE  Stutters /\ RefinementInv'
<1>1. /\ at = "fwd" /\ at' = "run"
      /\ UNCHANGED <<regs, pc, cp0, if_id, ex_mem, mem_wb, pmem, g_finished>>
  BY DEF ForwardingUnit
<1>2. id_ex' \in {id_ex, [id_ex EXCEPT !.rs_value = Mux(id_ex.rs, id_ex.rs_value).value,
                                       !.rt_value = Mux(id_ex.rt, id_ex.rt_value).value]}
  BY DEF ForwardingUnit
<1>3. /\ id_ex'.c = id_ex.c /\ id_ex'.inst = id_ex.inst /\ id_ex'.funct = id_ex.funct
      /\ id_ex'.shamt = id_ex.shamt /\ id_ex'.sign_ext_imm = id_ex.sign_ext_imm
      /\ id_ex'.rd = id_ex.rd /\ id_ex'.rs = id_ex.rs /\ id_ex'.rt = id_ex.rt
      /\ id_ex'.next_pc = id_ex.next_pc /\ id_ex'.jump_addr = id_ex.jump_addr
      /\ id_ex'.is_branch_delay = id_ex.is_branch_delay
  BY <1>2 DEF TypeOK, IdEx
<1>4. /\ id_ex'.rs_value \in {id_ex.rs_value, Mux(id_ex.rs, id_ex.rs_value).value}
      /\ id_ex'.rt_value \in {id_ex.rt_value, Mux(id_ex.rt, id_ex.rt_value).value}
  BY <1>2 DEF TypeOK, IdEx
<1>5. /\ live \subseteq Latches
      /\ LatchesDecoded /\ Bubbles /\ Fetched /\ CodeInFlight /\ Raised
      /\ OperandsReady /\ ResultsReady
  BY <1>1 DEF RefinementInv, Running
<1>6. /\ InFlight("ex_mem")' <=> InFlight("ex_mem")
      /\ InFlight("id_ex")' <=> InFlight("id_ex")
      /\ InFlight("if_id")' <=> InFlight("if_id")
  BY <1>1, InFlightIs
<1>7. /\ SameView /\ Address("ex_mem")' = Address("ex_mem")
      /\ Address("id_ex")' = Address("id_ex") /\ Address("if_id")' = Address("if_id")
  BY <1>1, <1>3, AddressIs DEF SameView
<1>8. IdPc' = IdPc /\ IdNpc' = IdNpc /\ (IdBd' <=> IdBd)
  BY <1>1, <1>3, <1>6, <1>7 DEF IdPc, IdNpc, IdBd, IfPc, IfNpc, IfBd
<1>9. ExPc' = ExPc /\ ExNpc' = ExNpc /\ (ExBd' <=> ExBd)
  BY <1>1, <1>6, <1>7, <1>8 DEF ExPc, ExNpc, ExBd
<1>10. Stutters
  BY <1>7, <1>9, CourseKept
<1>11. LatchesDecoded' /\ Raised' /\ Fetched' /\ WrittenBack'
  <2>1. IsDecoded(id_ex) => IsDecoded(id_ex')
    BY <1>3 DEF IsDecoded
  <2> QED  BY <1>1, <1>3, <1>5, <2>1 DEF LatchesDecoded, IsExecuted, Raised, Fetched, WrittenBack
<1>12. Bubbles'
  <2>1. ASSUME "id_ex" \notin live PROVE id_ex'.rs_value = 0 /\ id_ex'.rt_value = 0
    <3>1. id_ex.inst = NOP /\ id_ex.rs_value = 0 /\ id_ex.rt_value = 0
      BY <1>5, <2>1 DEF Bubbles
    <3>2. id_ex.rs = 0 /\ id_ex.rt = 0
      BY <3>1 DEF HazardInv, DecodeConsistent, SourceRs, SourceRt, NOP, IsMFC0, IsMTC0
    <3> QED  BY <1>4, <3>1, <3>2, MuxKeeps
  <2> QED  BY <1>1, <1>3, <1>5, <2>1 DEF Bubbles
<1>13. CodeInFlight'
  BY <1>1, <1>3, <1>5, <1>6, <1>7 DEF CodeInFlight, InstructionAt
<1>14. OperandsReady'
  <2>1. ASSUME "id_ex" \in live, id_ex.inst.op = "JAL" PROVE LinkOperands(0)'
    <3>1. id_ex.rs_value = u32(id_ex.next_pc + 4) /\ id_ex.rt_value = regs[id_ex.inst.rt]
      BY <1>1, <1>5, <2>1 DEF OperandsReady, LinkOperands
    <3>2. /\ id_ex.inst.rt = 0
          /\ \A x \in {ex_mem, mem_wb} :
                x.c_reg_write /\ x.reg_dst # 0 => x.reg_dst \notin {id_ex.rs, id_ex.rt}
      BY <1>1, <1>3, <2>1 DEF LinkUndisturbed
    <3>3. id_ex'.rs_value = id_ex.rs_value /\ id_ex'.rt_value = id_ex.rt_value
      BY <1>4, <3>2, MuxKeeps
    <3> QED  BY <1>3, <3>1, <3>2, <3>3 DEF LinkOperands, HazardInv, ZeroRegister
  <2>2. ReadsRegisters(id_ex.inst)' => OperandsAreLatest' /\ NoPendingLoad'
    BY <1>1 DEF HazardInv, NoClash, OperandsFresh
  <2> QED  BY <1>1, <1>3, <2>1, <2>2 DEF OperandsReady
<1>15. ResultsReady'
  BY <1>1, <1>5, <1>7, <1>8, <1>10, ViewKept, ResultsKept
<1> QED  BY <1>1, <1>5, <1>10, <1>11, <1>12, <1>13, <1>14, <1>15 DEF RefinementInv

(***************************************************************************)
(* EX: the result is computed and the course is set.                       *)
(***************************************************************************)
LEMMA BubbleExecutes ==
    ASSUME TypeOK, HazardInv, Bubbles, "id_ex" \notin live
    PROVE  /\ ~Redirects(id_ex) /\ AluException(id_ex) = "None"
           /\ id_ex.rt = 0 /\ id_ex.rd = 0 /\ id_ex.inst = NOP
           /\ ~id_ex.c.mem_read /\ ~id_ex.c.mem_write
<1>1. /\ id_ex.inst = NOP /\ id_ex.c \in {NoControl, Control(NOP)} /\ id_ex.funct = "SLL"
      /\ id_ex.rs_value = 0 /\ id_ex.rt_value = 0 /\ id_ex.rd = 0
  BY DEF Bubbles
<1>2. id_ex.rt = 0
  BY <1>1 DEF HazardInv, DecodeConsistent, SourceRt, NOP, IsMFC0, IsMTC0
<1>3. /\ ~Control(NOP).jump /\ ~Control(NOP).beq /\ ~Control(NOP).bne
      /\ ~Control(NOP).mem_read /\ ~Control(NOP).mem_write /\ Control(NOP).alu_op = 2
  <2>1. NOP.op = "R" /\ NOP.funct = "SLL"
    BY DEF NOP
  <2>2. ~Control(NOP).mem_read /\ ~Control(NOP).mem_write
    BY <2>1, ControlOf DEF Loads, Stores
  <2>3. ~Control(NOP).jump /\ ~Control(NOP).beq /\ ~Control(NOP).bne
    BY <2>1 DEF Control, IsJR
  <2>4. Control(NOP).alu_op = 2
    BY <2>1 DEF Control, IsMFC0, IsMTC0, AluImmediates
  <2> QED  BY <2>2, <2>3, <2>4
<1>4. /\ ~id_ex.c.jump /\ ~id_ex.c.beq /\ ~id_ex.c.bne
      /\ ~id_ex.c.mem_read /\ ~id_ex.c.mem_write
      /\ id_ex.c.alu_op = 2 \/ (id_ex.c.alu_op = 0 /\ ~id_ex.c.alu_src)
  BY <1>1, <1>3 DEF NoControl
<1>5. id_ex.c.alu_op = 0 => ~Overflows(id_ex)
  <2>1. WordSize \in Int /\ WordSize > 8 /\ SignSize \in Int /\ SignSize > 0
    BY WordSizeBound DEF SignSize
  <2>2. s32(0) = 0
    BY <2>1 DEF s32
  <2> QED  BY <1>1, <1>4, <2>1, <2>2 DEF Overflows, OperandB, check_soverflow, INT_MAX, INT_MIN
<1>6. AluException(id_ex) = "None"
  BY <1>1, <1>4, <1>5 DEF AluException
<1> QED  BY <1>1, <1>2, <1>4, <1>6 DEF Redirects

LEMMA ExRefines ==
    ASSUME TypeOK, HazardInv, RefinementInv, InterpretEx, live' = Moves("id_ex", "ex_mem")
    PROVE  Stutters /\ RefinementInv'
<1>1. /\ at = "ex" /\ at' = "id" /\ UNCHANGED <<regs, cp0, mem_wb, pmem, g_finished>>
      /\ ex_mem' = [ExCopied EXCEPT
                 !.reg_dst = IF id_ex.c.reg_dst THEN id_ex.rd ELSE id_ex.rt,
                 !.alu_res = AluResult(id_ex, @),
                 !.exception = AluException(id_ex)]
      /\ pc' = IF Redirects(id_ex) THEN RedirectTo(id_ex) ELSE pc
      /\ if_id' = IF Redirects(id_ex) THEN [if_id EXCEPT !.is_branch_delay = TRUE] ELSE if_id
      /\ id_ex' = IF id_ex.c.jump /\ IsJR(id_ex.inst)
                  THEN [id_ex EXCEPT !.jump_addr = id_ex.rs_value] ELSE id_ex
  BY DEF InterpretEx, HazardInv, NoEarlyException
<1>2. /\ "ex_mem" \in live' <=> "id_ex" \in live
      /\ "if_id" \in live' <=> "if_id" \in live
      /\ "id_ex" \in live' <=> "id_ex" \in live
      /\ live' \subseteq live \cup Latches
  BY DEF Moves, Latches
<1>3. /\ live \subseteq Latches
      /\ LatchesDecoded /\ Bubbles /\ Fetched /\ CodeInFlight /\ Raised /\ OperandsReady
  BY <1>1 DEF RefinementInv, Running
<1>4. /\ ex_mem'.inst = id_ex.inst /\ ex_mem'.next_pc = id_ex.next_pc
      /\ ex_mem'.is_branch_delay = id_ex.is_branch_delay
      /\ ex_mem'.rt_value = id_ex.rt_value
      /\ ex_mem'.c_reg_write = id_ex.c.reg_write /\ ex_mem'.c_mem_to_reg = id_ex.c.mem_to_reg
      /\ ex_mem'.c_mem_read = id_ex.c.mem_read /\ ex_mem'.c_mem_write = id_ex.c.mem_write
      /\ ex_mem'.reg_dst = IF id_ex.c.reg_dst THEN id_ex.rd ELSE id_ex.rt
      /\ ex_mem'.alu_res = AluResult(id_ex, ex_mem.alu_res)
      /\ ex_mem'.exception = AluException(id_ex)
  BY <1>1 DEF ExCopied, TypeOK, ExMem
<1>5. /\ if_id'.inst = if_id.inst /\ if_id'.next_pc = if_id.next_pc
      /\ if_id'.is_branch_delay = IF Redirects(id_ex) THEN TRUE ELSE if_id.is_branch_delay
  BY <1>1 DEF TypeOK, IfId
<1>6. /\ id_ex'.c = id_ex.c /\ id_ex'.inst = id_ex.inst /\ id_ex'.funct = id_ex.funct
      /\ id_ex'.shamt = id_ex.shamt /\ id_ex'.sign_ext_imm = id_ex.sign_ext_imm
      /\ id_ex'.rd = id_ex.rd /\ id_ex'.next_pc = id_ex.next_pc
      /\ id_ex'.rs_value = id_ex.rs_value /\ id_ex'.rt_value = id_ex.rt_value
      /\ id_ex.inst.op \in {"J", "JAL"} => id_ex'.jump_addr = id_ex.jump_addr
  BY <1>1 DEF TypeOK, IdEx, IsJR
(* Only a live instruction with another one behind it redirects. *)
<1>7. Redirects(id_ex) => "id_ex" \in live /\ "if_id" \in live
  <2>1. "id_ex" \notin live => ~Redirects(id_ex)
    BY <1>3, BubbleExecutes
  <2>2. ASSUME "id_ex" \in live, "if_id" \notin live PROVE ~Redirects(id_ex)
    <3>1. id_ex.c = Control(id_ex.inst) /\ Control(id_ex.inst).mem_read
      BY <1>1, <1>3, <2>2 DEF Fetched, LatchesDecoded, IsDecoded
    <3> QED  BY <3>1, ControlOf DEF Redirects
  <2> QED  BY <2>1, <2>2
<1>8. /\ ~InFlight("ex_mem") /\ ~InFlight("id_ex")'
      /\ InFlight("ex_mem")' <=> "id_ex" \in live
      /\ InFlight("id_ex") <=> "id_ex" \in live
      /\ InFlight("if_id") <=> "if_id" \in live
      /\ InFlight("if_id")' <=> "if_id" \in live
  BY <1>1, <1>2, InFlightIs
<1>9. /\ SameView /\ Address("ex_mem")' = Address("id_ex")
      /\ Address("if_id")' = Address("if_id")
  BY <1>1, <1>4, <1>5, AddressIs DEF SameView
<1>10. ExPc' = ExPc /\ ExNpc' = ExNpc /\ (ExBd' <=> ExBd)
  BY <1>1, <1>4, <1>5, <1>7, <1>8, <1>9
     DEF ExPc, ExNpc, ExBd, IdPc, IdNpc, IdBd, IfPc, IfNpc, IfBd
<1>11. Stutters
  BY <1>9, <1>10, CourseKept
<1>12. LatchesDecoded'
  <2>1. IsDecoded(id_ex) => IsDecoded(id_ex')
    BY <1>6 DEF IsDecoded
  <2>2. ASSUME "id_ex" \in live PROVE IsExecuted(ex_mem')
    <3>1. /\ id_ex.c = Control(id_ex.inst) /\ id_ex.rd = DestRd(id_ex.inst)
          /\ id_ex.rt = SourceRt(id_ex.inst)
      BY <1>3, <2>2 DEF LatchesDecoded, IsDecoded, HazardInv, DecodeConsistent
    <3> QED  BY <1>4, <3>1 DEF IsExecuted
  <2> QED  BY <1>2, <1>3, <2>1, <2>2 DEF LatchesDecoded
<1>13. Bubbles'
  BY <1>2, <1>3, <1>4, <1>5, <1>6, BubbleExecutes DEF Bubbles
<1>14. CodeInFlight'
  BY <1>1, <1>3, <1>4, <1>5, <1>8, <1>9 DEF CodeInFlight, InstructionAt
<1>15. Fetched' /\ Raised' /\ WrittenBack' /\ OperandsReady'
  <2>1. AluException(id_ex) \in {"None", "Syscall", "ArithmeticOverflow"}
    BY DEF AluException
  <2> QED  BY <1>1, <1>3, <1>4, <2>1 DEF Fetched, Raised, WrittenBack, OperandsReady
<1>16. ResultsReady'
  <2> SUFFICES ASSUME "id_ex" \in live, ~Stopped, id_ex.inst # INSTRUCTION_ERET
               PROVE  Computed'
    BY <1>2, <1>4, <1>9, ViewKept DEF ResultsReady
  <2>1. /\ IsaPc' = Address("id_ex") /\ IsaNpc' = IfPc'
        /\ UNCHANGED <<IsaRegs, IsaCp0>> /\ ~Stopped'
    BY <1>8, <1>9, ViewKept DEF Stopped, IsaPc, IsaNpc, ExPc, ExNpc, IdPc
  <2>2. u32(IsaPc' + 4) = id_ex.next_pc
    BY <2>1, AddressIs, NextAddress DEF TypeOK, IdEx
  <2>3. /\ IsDecoded(id_ex)
        /\ id_ex.rs_value = RsValue(id_ex.inst, id_ex.next_pc, IsaRegs, IsaCp0)
        /\ id_ex.rt_value = IF id_ex.inst.op = "JAL" THEN 0 ELSE RtValue(id_ex.inst, IsaRegs)
    BY <1>1, <1>3 DEF LatchesDecoded, OperandsReady
  <2>4. LET e == IsaOperands(ex_mem.inst)'
        IN  /\ Agree(id_ex, e) /\ e.next_pc = id_ex.next_pc /\ e.rt_value = id_ex.rt_value
            /\ id_ex.inst.op \in {"J", "JAL"} => id_ex.jump_addr = e.jump_addr
    BY <1>4, <2>1, <2>2, <2>3 DEF IsaOperands, IsDecoded, Agree
  <2> DEFINE e == IsaOperands(ex_mem.inst)'
  <2>5. /\ Agree(id_ex, e) /\ e.next_pc = id_ex.next_pc /\ e.rt_value = id_ex.rt_value
        /\ id_ex.inst.op \in {"J", "JAL"} => id_ex.jump_addr = e.jump_addr
    BY <2>4
  <2> HIDE DEF e
  <2>6. /\ AluException(id_ex) = AluException(e)
        /\ AluResult(id_ex, ex_mem.alu_res) = AluResult(e, ex_mem.alu_res)
        /\ (Redirects(id_ex) <=> Redirects(e)) /\ RedirectTo(id_ex) = RedirectTo(e)
    BY <2>3, <2>5, AluAgrees, RedirectAgrees DEF IsDecoded
  <2>7. IdNpc' = IF Redirects(e) THEN RedirectTo(e) ELSE u32(IsaNpc' + 4)
    <3>1. CASE "if_id" \in live
      <4>1. pc = if_id.next_pc /\ IsaNpc' = u32(if_id.next_pc - 4) /\ IdNpc' = pc'
        BY <1>1, <1>3, <1>8, <1>9, <2>1, <3>1, AddressIs DEF Fetched, IfPc, IdNpc, IfNpc
      <4>2. u32(IsaNpc' + 4) = pc
        BY <4>1, NextAddress DEF TypeOK, IfId
      <4> QED  BY <1>1, <2>6, <4>1, <4>2
    <3>2. CASE "if_id" \notin live
      BY <1>1, <1>7, <1>8, <2>1, <2>6, <3>2 DEF IfPc, IdNpc, IfNpc
    <3> QED  BY <3>1, <3>2
  <2>8. IdBd' <=> Redirects(e)
    BY <1>1, <1>3, <1>5, <1>7, <1>8, <2>6 DEF IdBd, IfBd, Fetched
  <2>9. /\ ex_mem'.exception = AluException(e)
        /\ \E old \in Word : ex_mem'.alu_res = AluResult(e, old)
        /\ ex_mem'.rt_value = e.rt_value
    BY <1>4, <2>5, <2>6 DEF TypeOK, ExMem
  <2> USE DEF e
  <2> QED  BY <2>7, <2>8, <2>9 DEF Computed
<1> QED  BY <1>2, <1>3, <1>11, <1>12, <1>13, <1>14, <1>15, <1>16 DEF RefinementInv

-----------------------------------------------------------------------------
(***************************************************************************)
(* WB: what is pending in MEM/WB is done.                                  *)
(***************************************************************************)
LEMMA Flushed ==
    ASSUME FlushPipeline, live' = {}, at' = "mem", ~g_finished'
    PROVE  /\ IsaRegs' = regs' /\ IsaCp0' = cp0' /\ ~IsaHalted'
           /\ IsaPc' = pc' /\ IsaNpc' = u32(pc' + 4) /\ ~IsaBd'
           /\ RefinementInv'
<1>1. /\ if_id' = ZeroIfId /\ id_ex' = ZeroIdEx /\ ex_mem' = ZeroExMem /\ mem_wb' = ZeroMemWb
  BY DEF FlushPipeline
<1>2. /\ mem_wb'.inst # INSTRUCTION_ERET /\ mem_wb'.exception = "None"
      /\ ~mem_wb'.c_reg_write
  BY <1>1 DEF ZeroMemWb, NOP, INSTRUCTION_ERET
<1>3. ~PendingEret' /\ ~PendingTrap' /\ ~PendingExit' /\ ~PendingWrite'
  BY <1>2 DEF PendingEret, PendingTrap, PendingExit, PendingException, PendingWrite
<1>4. ~IsaHalted' /\ ~Stopped' /\ IsaRegs' = regs' /\ IsaCp0' = cp0'
  BY <1>3 DEF IsaHalted, Stopped, IsaRegs, IsaCp0
<1>5. ExPc' = pc' /\ ExNpc' = u32(pc' + 4) /\ ~ExBd'
  BY InFlightIs DEF ExPc, ExNpc, ExBd, IdPc, IdNpc, IdBd, IfPc, IfNpc, IfBd
<1>6. IsaPc' = pc' /\ IsaNpc' = u32(pc' + 4) /\ ~IsaBd'
  BY <1>3, <1>4, <1>5 DEF IsaPc, IsaNpc, IsaBd
<1>7. live' \subseteq Latches /\ LatchesDecoded' /\ Fetched' /\ OperandsReady' /\ ResultsReady'
  BY DEF LatchesDecoded, Fetched, OperandsReady, ResultsReady
<1>8. Bubbles' /\ Raised'
  BY <1>1 DEF Bubbles, Raised, ZeroIfId, ZeroIdEx, ZeroExMem, ZeroMemWb
<1>9. CodeInFlight'
  BY InFlightIs DEF CodeInFlight
<1>10. WrittenBack'
  BY <1>4 DEF WrittenBack
<1> QED  BY <1>4, <1>6, <1>7, <1>8, <1>9, <1>10 DEF RefinementInv

LEMMA WbEretRefines ==
    ASSUME TypeOK, RefinementInv, WbEret, live' = {}
    PROVE  Stutters /\ RefinementInv'
<1>1. /\ at = "wb" /\ at' = "mem" /\ PendingEret /\ FlushPipeline
      /\ pc' = cp0[REG_EPC] /\ cp0' = [cp0 EXCEPT ![REG_SR] = ClearBit(@, SR_EXL)]
      /\ UNCHANGED <<regs, pmem, g_finished>>
  BY DEF WbEret, InWb, PendingEret
<1>2. ~g_finished
  BY <1>1 DEF RefinementInv, Running, WrittenBack
<1>3. ~PendingTrap /\ ~PendingExit /\ ~PendingWrite
  BY <1>1 DEF PendingTrap, PendingExit, PendingException, PendingWrite
<1>4. /\ IsaRegs = regs /\ IsaCp0 = cp0' /\ ~IsaHalted
      /\ IsaPc = pc' /\ IsaNpc = u32(pc' + 4) /\ ~IsaBd
  BY <1>1, <1>2, <1>3 DEF IsaRegs, IsaCp0, IsaHalted, IsaPc, IsaNpc, IsaBd
<1>5. /\ IsaHalted \in BOOLEAN /\ IsaHalted' \in BOOLEAN
      /\ IsaBd \in BOOLEAN /\ IsaBd' \in BOOLEAN
  BY DEF IsaHalted, IsaBd, PendingExit
<1> QED  BY <1>1, <1>2, <1>4, <1>5, Flushed DEF Stutters

LEMMA WbExceptionRefines ==
    ASSUME TypeOK, RefinementInv, WbException, live' = {}
    PROVE  Stutters /\ RefinementInv'
<1>1. /\ at = "wb" /\ at' = "mem" /\ PendingTrap /\ FlushPipeline /\ pc' = Handler
      /\ UNCHANGED <<regs, pmem, g_finished>>
  BY DEF WbException, InWb, PendingEret, PendingTrap, PendingException, Handler
<1>2. ~g_finished /\ mem_wb.exception # "AddressErrorLoad"
  BY <1>1 DEF RefinementInv, Running, WrittenBack, Raised
<1>3. ~PendingEret /\ ~PendingExit /\ ~PendingWrite
  BY <1>1 DEF PendingTrap, PendingExit, PendingException, PendingWrite
<1>4. cp0' = [cp0 EXCEPT ![REG_EPC] = mem_wb.next_pc,
                         ![REG_CAUSE] = get_cause(mem_wb.exception, mem_wb.is_branch_delay),
                         ![REG_SR] = SetBit(@, SR_EXL)]
  <2> DEFINE cause == get_cause(mem_wb.exception, mem_wb.is_branch_delay)
             w(x) == SetBit(x, SR_EXL)
             n == mem_wb.next_pc
             g == [cp0 EXCEPT ![REG_EPC] = n, ![REG_CAUSE] = cause, ![REG_SR] = w(@)]
  <2>1. cp0' = [cp0 EXCEPT ![REG_EPC] = n, ![REG_CAUSE] = cause, ![REG_BADVADDR] = @,
                           ![REG_SR] = w(@)]
    BY <1>2 DEF WbException
  <2>2. cp0 \in [Cp0Num -> Word]
    BY DEF TypeOK
  <2> HIDE DEF cause, w, n
  <2>3. DOMAIN g = Cp0Num /\ DOMAIN cp0' = Cp0Num
    BY <2>1, <2>2
  <2>4. \A r \in Cp0Num : cp0'[r] = g[r]
    BY <2>1, <2>2 DEF REG_EPC, REG_CAUSE, REG_SR, REG_BADVADDR, Cp0Num
  <2>5. cp0' = [r \in Cp0Num |-> cp0'[r]] /\ g = [r \in Cp0Num |-> g[r]]
    BY <2>1, <2>3
  <2>6. cp0' = g
    BY <2>4, <2>5
  <2> QED  BY <2>6 DEF cause, w, n
<1>5. /\ IsaRegs = regs /\ IsaCp0 = cp0' /\ ~IsaHalted
      /\ IsaPc = pc' /\ IsaNpc = u32(pc' + 4) /\ ~IsaBd
  BY <1>1, <1>2, <1>3, <1>4 DEF IsaRegs, IsaCp0, IsaHalted, IsaPc, IsaNpc, IsaBd
<1>6. /\ IsaHalted \in BOOLEAN /\ IsaHalted' \in BOOLEAN
      /\ IsaBd \in BOOLEAN /\ IsaBd' \in BOOLEAN
  BY DEF IsaHalted, IsaBd, PendingExit
<1> QED  BY <1>1, <1>2, <1>5, <1>6, Flushed DEF Stutters

LEMMA WbExitRefines ==
    ASSUME TypeOK, RefinementInv, WbExit, UNCHANGED live
    PROVE  Stutters /\ RefinementInv'
<1>1. /\ at = "wb" /\ at' = "mem" /\ PendingExit /\ g_finished' /\ ~PendingEret
      /\ UNCHANGED <<regs, pc, cp0, if_id, id_ex, ex_mem, mem_wb, pmem, live>>
  BY DEF WbExit, InWb, PendingEret, PendingExit, PendingException, ExitSyscall, core
<1>2. ~g_finished
  BY <1>1 DEF RefinementInv, Running, WrittenBack
<1>3. ~PendingTrap /\ ~PendingWrite
  BY <1>1 DEF PendingTrap, PendingExit, PendingException, PendingWrite, ExitSyscall
<1>4. IsaRegs = regs /\ IsaCp0 = cp0 /\ IsaHalted /\ IsaPc = 0 /\ IsaNpc = 0 /\ ~IsaBd
  BY <1>1, <1>2, <1>3 DEF IsaRegs, IsaCp0, IsaHalted, IsaPc, IsaNpc, IsaBd
<1>5. IsaHalted' /\ Stopped' /\ IsaRegs' = regs' /\ IsaCp0' = cp0'
  BY <1>1 DEF IsaRegs, IsaCp0, IsaHalted, Stopped
<1>6. IsaPc' = 0 /\ IsaNpc' = 0 /\ ~IsaBd'
  BY <1>5 DEF IsaPc, IsaNpc, IsaBd
<1>7. /\ IsaHalted \in BOOLEAN /\ IsaHalted' \in BOOLEAN
      /\ IsaBd \in BOOLEAN /\ IsaBd' \in BOOLEAN
  BY DEF IsaHalted, IsaBd, PendingExit
<1>8. Stutters
  BY <1>1, <1>4, <1>5, <1>6, <1>7 DEF Stutters
<1>9. /\ live \subseteq Latches
      /\ LatchesDecoded /\ Bubbles /\ Fetched /\ CodeInFlight /\ Raised /\ OperandsReady
  BY <1>1 DEF RefinementInv, Running
<1>10. LatchesDecoded' /\ Bubbles' /\ Fetched' /\ Raised'
  BY <1>1, <1>9 DEF LatchesDecoded, IsDecoded, IsExecuted, Bubbles, Fetched, Raised
<1>11. CodeInFlight'
  BY <1>1, <1>9, InFlightIs, AddressIs DEF CodeInFlight, InstructionAt
<1>12. OperandsReady'
  <2>1. OperandsAreLatest' <=> OperandsAreLatest
    BY <1>1 DEF OperandsAreLatest, LatestCp0, LatestGpr, WritesCp0, WritesGpr, WbData
  <2>2. NoPendingLoad' <=> NoPendingLoad
    BY <1>1 DEF NoPendingLoad
  <2> QED  BY <1>1, <1>9, <2>1, <2>2 DEF OperandsReady, LinkOperands
<1>13. WrittenBack' /\ ResultsReady'
  BY <1>1, <1>5 DEF WrittenBack, ResultsReady
<1> QED  BY <1>1, <1>8, <1>9, <1>10, <1>11, <1>12, <1>13 DEF RefinementInv

(* Writing a result twice makes no difference. *)
LEMMA CommitLands ==
    ASSUME TypeOK, HazardInv, WbCommit, ~g_finished
    PROVE  /\ regs' = IsaRegs /\ cp0' = IsaCp0 /\ IsaRegs' = regs' /\ IsaCp0' = cp0'
           /\ ~Stopped /\ ~Stopped'
<1>1. /\ mem_wb.inst # INSTRUCTION_ERET /\ mem_wb.exception = "None"
      /\ UNCHANGED <<mem_wb, g_finished>>
  BY DEF WbCommit
<1>2. ~PendingEret /\ ~PendingTrap /\ ~PendingExit /\ (PendingWrite <=> mem_wb.c_reg_write)
  BY <1>1 DEF PendingEret, PendingTrap, PendingExit, PendingException, PendingWrite
<1>3. ~PendingEret' /\ ~PendingTrap' /\ ~PendingExit' /\ (PendingWrite' <=> mem_wb.c_reg_write)
  BY <1>1 DEF PendingEret, PendingTrap, PendingExit, PendingException, PendingWrite
<1>4. ~Stopped /\ ~Stopped' /\ WbData' = WbData
  BY <1>1, <1>2, <1>3 DEF Stopped, IsaHalted, WbData
<1>5. /\ regs \in [RegNum -> Word] /\ cp0 \in [Cp0Num -> Word] /\ regs[0] = 0
  BY DEF TypeOK, HazardInv, ZeroRegister
<1>6. regs' = IsaRegs
  <2>1. mem_wb.reg_dst = 0 => [regs EXCEPT ![mem_wb.reg_dst] = 0] = regs
    BY <1>5
  <2> QED  BY <1>2, <2>1 DEF WbCommit, IsaRegs
<1>7. cp0' = IsaCp0
  BY <1>2 DEF WbCommit, IsaCp0
<1>8. IsaRegs' = regs'
  <2>1. CASE PendingWrite /\ ~IsMTC0(mem_wb.inst) /\ mem_wb.reg_dst # 0
    <3>1. regs' = [regs EXCEPT ![mem_wb.reg_dst] = WbData]
      BY <1>6, <2>1 DEF IsaRegs
    <3>2. [regs' EXCEPT ![mem_wb.reg_dst] = WbData] = regs'
      BY <1>5, <3>1
    <3> QED  BY <1>1, <1>2, <1>3, <1>4, <2>1, <3>2 DEF IsaRegs
  <2>2. CASE ~(PendingWrite /\ ~IsMTC0(mem_wb.inst) /\ mem_wb.reg_dst # 0)
    BY <1>1, <1>2, <1>3, <2>2 DEF IsaRegs
  <2> QED  BY <2>1, <2>2
<1>9. IsaCp0' = cp0'
  <2>1. CASE PendingWrite /\ IsMTC0(mem_wb.inst)
    <3>1. cp0' = [cp0 EXCEPT ![mem_wb.reg_dst] = WbData]
      BY <1>2, <1>7, <2>1 DEF IsaCp0
    <3>2. [cp0' EXCEPT ![mem_wb.reg_dst] = WbData] = cp0'
      BY <1>5, <3>1
    <3> QED  BY <1>1, <1>2, <1>3, <1>4, <2>1, <3>2 DEF IsaCp0
  <2>2. CASE ~(PendingWrite /\ IsMTC0(mem_wb.inst))
    BY <1>1, <1>2, <1>3, <2>2 DEF IsaCp0
  <2> QED  BY <2>1, <2>2
<1> QED  BY <1>4, <1>6, <1>7, <1>8, <1>9

LEMMA WbCommitRefines ==
    ASSUME TypeOK, HazardInv, RefinementInv, WbCommit, UNCHANGED live
    PROVE  Stutters /\ RefinementInv'
<1>1. /\ at = "wb" /\ at' = "mem"
      /\ UNCHANGED <<pc, if_id, id_ex, ex_mem, mem_wb, pmem, g_finished, live>>
  BY DEF WbCommit, InWb
<1>2. ~g_finished
  BY <1>1 DEF RefinementInv, Running, WrittenBack
<1>3. /\ regs' = IsaRegs /\ cp0' = IsaCp0 /\ IsaRegs' = regs' /\ IsaCp0' = cp0'
      /\ ~Stopped /\ ~Stopped'
  BY <1>2, CommitLands
<1>4. /\ InFlight("ex_mem")' <=> InFlight("ex_mem")
      /\ InFlight("id_ex")' <=> InFlight("id_ex")
      /\ InFlight("if_id")' <=> InFlight("if_id")
  BY <1>1, InFlightIs
<1>5. IdPc' = IdPc /\ IdNpc' = IdNpc /\ (IdBd' <=> IdBd)
  BY <1>1, <1>4, AddressIs DEF IdPc, IdNpc, IdBd, IfPc, IfNpc, IfBd
<1>6. ExPc' = ExPc /\ ExNpc' = ExNpc /\ (ExBd' <=> ExBd)
  BY <1>1, <1>4, <1>5, AddressIs DEF ExPc, ExNpc, ExBd
<1>7. Stutters
  <2>1. IsaPc' = IsaPc /\ IsaNpc' = IsaNpc /\ IsaBd' = IsaBd
    BY <1>3, <1>6 DEF Stopped, IsaPc, IsaNpc, IsaBd
  <2>2. IsaHalted' = IsaHalted
    BY <1>3 DEF Stopped, IsaHalted
  <2> QED  BY <1>1, <1>3, <2>1, <2>2 DEF Stutters
<1>8. /\ live \subseteq Latches
      /\ LatchesDecoded /\ Bubbles /\ Fetched /\ CodeInFlight /\ Raised
      /\ OperandsReady /\ ResultsReady
  BY <1>1 DEF RefinementInv, Running
<1>9. LatchesDecoded' /\ Bubbles' /\ Fetched' /\ Raised'
  BY <1>1, <1>8 DEF LatchesDecoded, IsDecoded, IsExecuted, Bubbles, Fetched, Raised
<1>10. CodeInFlight'
  BY <1>1, <1>4, <1>8, AddressIs DEF CodeInFlight, InstructionAt
<1>11. WrittenBack'
  BY <1>1, <1>3 DEF WrittenBack
<1>12. OperandsReady'
  <2>1. \A r : r \in RegNum => LatestGpr(r)' = LatestGpr(r)
    <3> SUFFICES ASSUME NEW r \in RegNum PROVE LatestGpr(r)' = LatestGpr(r)
      OBVIOUS
    <3>1. /\ WritesGpr(ex_mem)' <=> WritesGpr(ex_mem)
          /\ WritesGpr(mem_wb)' <=> WritesGpr(mem_wb)
          /\ WbData' = WbData
      BY <1>1 DEF WritesGpr, WbData
    <3>2. regs'[r] = IF WritesGpr(mem_wb) /\ mem_wb.reg_dst = r THEN WbData ELSE regs[r]
      BY DEF WbCommit, TypeOK, WritesGpr, HazardInv, ZeroRegister
    <3> QED  BY <1>1, <3>1, <3>2 DEF LatestGpr
  <2>2. \A r : r \in Cp0Num \ {0} => LatestCp0(r)' = LatestCp0(r)
    <3> SUFFICES ASSUME NEW r \in Cp0Num \ {0} PROVE LatestCp0(r)' = LatestCp0(r)
      OBVIOUS
    <3>1. /\ WritesCp0(ex_mem)' <=> WritesCp0(ex_mem)
          /\ WritesCp0(mem_wb)' <=> WritesCp0(mem_wb)
          /\ WbData' = WbData
      BY <1>1 DEF WritesCp0, WbData
    <3>2. cp0'[r] = IF WritesCp0(mem_wb) /\ mem_wb.reg_dst = r THEN WbData ELSE cp0[r]
      BY DEF WbCommit, TypeOK, WritesCp0
    <3> QED  BY <1>1, <3>1, <3>2 DEF LatestCp0
  <2>3. /\ IsMFC0(id_ex.inst) => id_ex.rs \in Cp0Num \ {0}
        /\ ~IsMFC0(id_ex.inst) => id_ex.rs \in RegNum
        /\ id_ex.rt \in RegNum
    BY DEF HazardInv, DecodeConsistent, SourceRs, TypeOK, IdEx, Instr, RegNum, Cp0Num, IsMFC0,
           IsMTC0, CP0_MFC0, CP0_MTC0
  <2>4. OperandsAreLatest => OperandsAreLatest'
    BY <1>1, <2>1, <2>2, <2>3 DEF OperandsAreLatest
  <2>5. NoPendingLoad' <=> NoPendingLoad
    BY <1>1 DEF NoPendingLoad
  <2> QED  BY <1>1, <1>8, <2>4, <2>5 DEF OperandsReady, LinkOperands
<1>13. ResultsReady'
  BY <1>1, <1>3, <1>5, <1>7, <1>8, ResultsKept
<1> QED  BY <1>1, <1>7, <1>8, <1>9, <1>10, <1>11, <1>12, <1>13 DEF RefinementInv

-----------------------------------------------------------------------------
(***************************************************************************)
(* MEM: the instruction takes effect.                                      *)
(***************************************************************************)
MemTick == (MemForward \/ MemLoad \/ MemStore \/ MemPass) /\ UNCHANGED live

LoadOutcome ==
    LoadResult(ex_mem.inst, pmem, ex_mem.alu_res, regs[ex_mem.reg_dst], mem_wb.read_data)

StoreOutcome ==
    StoreResult(ex_mem.inst, pmem, ex_mem.alu_res, ex_mem.rt_value, regs[ex_mem.inst.rt])

Passed ==
    /\ mem_wb'.inst = ex_mem.inst /\ mem_wb'.next_pc = ex_mem.next_pc
    /\ mem_wb'.is_branch_delay = ex_mem.is_branch_delay
    /\ mem_wb'.c_reg_write = ex_mem.c_reg_write /\ mem_wb'.reg_dst = ex_mem.reg_dst
    /\ mem_wb'.c_mem_to_reg = ex_mem.c_mem_to_reg /\ mem_wb'.alu_res = ex_mem.alu_res

Accessed ==
    \/ /\ ex_mem.exception # "None" /\ mem_wb'.exception = ex_mem.exception /\ pmem' = pmem
    \/ /\ ex_mem.exception = "None" /\ ex_mem.c_mem_read /\ ~LoadOutcome.segv
       /\ mem_wb'.exception = "None" /\ mem_wb'.read_data = LoadOutcome.data /\ pmem' = pmem
    \/ /\ ex_mem.exception = "None" /\ ~ex_mem.c_mem_read /\ ex_mem.c_mem_write
       /\ ~StoreOutcome.segv
       /\ mem_wb'.exception = StoreOutcome.exception /\ pmem' = StoreOutcome.pmem
    \/ /\ ex_mem.exception = "None" /\ ~ex_mem.c_mem_read /\ ~ex_mem.c_mem_write
       /\ mem_wb'.exception = "None" /\ pmem' = pmem

LEMMA StoreFaults ==
    ASSUME NEW i, NEW m, NEW a, NEW v, NEW reg
    PROVE  LET r == StoreResult(i, m, a, v, reg)
           IN  /\ r.segv => r.pmem = m
               /\ r.exception \in {"None", "AddressErrorStore"}
               /\ r.exception # "None" => r.pmem = m
<1>1. \A x, w, size :
          LET r == mmu_write(m, x, w, size)
          IN  /\ r.segv => r.pmem = m
              /\ r.exception \in {"None", "AddressErrorStore"}
              /\ r.exception # "None" => r.pmem = m
  BY DEF mmu_write
<1> QED  BY <1>1 DEF StoreResult

LEMMA MemShape ==
    ASSUME TypeOK, MemTick
    PROVE  /\ at = "mem"
           /\ UNCHANGED <<regs, pc, cp0, if_id, id_ex, ex_mem, g_finished, live>>
           /\ \/ at' = "segv" /\ UNCHANGED <<mem_wb, pmem>>
              \/ at' = "ex" /\ Passed /\ Accessed
<1>1. /\ at = "mem"
      /\ UNCHANGED <<regs, pc, cp0, if_id, id_ex, ex_mem, g_finished, live>>
  BY DEF MemTick, MemForward, MemLoad, MemStore, MemPass
<1>2. /\ MemCopied \in MemWb
      /\ MemCopied.inst = ex_mem.inst /\ MemCopied.next_pc = ex_mem.next_pc
      /\ MemCopied.is_branch_delay = ex_mem.is_branch_delay
      /\ MemCopied.c_reg_write = ex_mem.c_reg_write /\ MemCopied.reg_dst = ex_mem.reg_dst
      /\ MemCopied.c_mem_to_reg = ex_mem.c_mem_to_reg /\ MemCopied.alu_res = ex_mem.alu_res
      /\ MemCopied.exception = "None"
  BY DEF MemCopied, TypeOK, ExMem, MemWb, Exception
<1>3. CASE MemForward
  <2>1. /\ at' = "ex" /\ pmem' = pmem /\ ex_mem.exception # "None"
        /\ mem_wb' = [MemCopied EXCEPT !.exception = ex_mem.exception,
                                       !.BadVAddr = ex_mem.BadVAddr]
    BY <1>3 DEF MemForward
  <2> HIDE DEF MemCopied
  <2>2. Passed /\ mem_wb'.exception = ex_mem.exception
    BY <1>2, <2>1 DEF Passed, MemWb
  <2> QED  BY <1>1, <2>1, <2>2 DEF Accessed
<1>4. CASE MemLoad
  <2>1. /\ ex_mem.exception = "None" /\ ex_mem.c_mem_read /\ pmem' = pmem
        /\ mem_wb' = IF LoadOutcome.segv THEN mem_wb
                     ELSE [MemCopied EXCEPT !.read_data = LoadOutcome.data]
        /\ at' = IF LoadOutcome.segv THEN "segv" ELSE "ex"
    BY <1>4 DEF MemLoad, LoadOutcome
  <2>2. ~LoadOutcome.segv => /\ Passed /\ mem_wb'.exception = "None"
                        /\ mem_wb'.read_data = LoadOutcome.data
    BY <1>2, <2>1 DEF Passed, MemWb
  <2> QED  BY <1>1, <2>1, <2>2 DEF Accessed
<1>5. CASE MemStore
  <2>1. /\ ex_mem.exception = "None" /\ ~ex_mem.c_mem_read /\ ex_mem.c_mem_write
        /\ pmem' = StoreOutcome.pmem
        /\ mem_wb' = IF StoreOutcome.segv THEN mem_wb
                     ELSE [MemCopied EXCEPT !.exception = StoreOutcome.exception]
        /\ at' = IF StoreOutcome.segv THEN "segv" ELSE "ex"
    BY <1>5 DEF MemStore, StoreOutcome
  <2>2. ~StoreOutcome.segv => Passed /\ mem_wb'.exception = StoreOutcome.exception
    BY <1>2, <2>1 DEF Passed, MemWb
  <2>3. StoreOutcome.segv => StoreOutcome.pmem = pmem
    BY StoreFaults DEF StoreOutcome
  <2> QED  BY <1>1, <2>1, <2>2, <2>3 DEF Accessed
<1>6. CASE MemPass
  BY <1>1, <1>2, <1>6 DEF MemPass, Passed, Accessed
<1> QED  BY <1>3, <1>4, <1>5, <1>6 DEF MemTick

(* What is pending once an instruction has passed MEM. *)
LEMMA MemView ==
    ASSUME Passed, UNCHANGED <<regs, cp0, g_finished>>, ~g_finished
    PROVE  /\ PendingEret' <=> ex_mem.inst = INSTRUCTION_ERET
           /\ PendingExit' <=> /\ ex_mem.inst # INSTRUCTION_ERET
                               /\ mem_wb'.exception = "Syscall" /\ regs[REG_V0] = 10
           /\ PendingTrap' <=> /\ ex_mem.inst # INSTRUCTION_ERET /\ mem_wb'.exception # "None"
                               /\ ~(mem_wb'.exception = "Syscall" /\ regs[REG_V0] = 10)
           /\ PendingWrite' <=> /\ ex_mem.inst # INSTRUCTION_ERET /\ mem_wb'.exception = "None"
                                /\ ex_mem.c_reg_write
           /\ IsaHalted' <=> PendingExit'
           /\ Stopped' <=> ex_mem.inst = INSTRUCTION_ERET \/ mem_wb'.exception # "None"
           /\ WbData' = IF ex_mem.c_mem_to_reg THEN mem_wb'.read_data ELSE ex_mem.alu_res
BY DEF Passed, PendingEret, PendingExit, PendingTrap, PendingException, PendingWrite,
       ExitSyscall, IsaHalted, Stopped, WbData

(* The instruction that passed MEM is not in flight any more. *)
LEMMA MemCourse ==
    ASSUME at = "mem", at' = "ex", UNCHANGED <<pc, if_id, id_ex, ex_mem, live>>
    PROVE  /\ IdPc' = IdPc /\ IdNpc' = IdNpc /\ (IdBd' <=> IdBd)
           /\ ExPc' = IdPc /\ ExNpc' = IdNpc /\ (ExBd' <=> IdBd)
           /\ ~InFlight("ex_mem")' /\ (InFlight("ex_mem") <=> "ex_mem" \in live)
           /\ InFlight("id_ex")' <=> InFlight("id_ex")
           /\ InFlight("if_id")' <=> InFlight("if_id")
<1>1. /\ ~InFlight("ex_mem")' /\ (InFlight("ex_mem") <=> "ex_mem" \in live)
      /\ InFlight("id_ex")' <=> InFlight("id_ex")
      /\ InFlight("if_id")' <=> InFlight("if_id")
  BY InFlightIs
<1>2. IdPc' = IdPc /\ IdNpc' = IdNpc /\ (IdBd' <=> IdBd)
  BY <1>1, AddressIs DEF IdPc, IdNpc, IdBd, IfPc, IfNpc, IfBd
<1> QED  BY <1>1, <1>2 DEF ExPc, ExNpc, ExBd

(* The operands that the forwarding unit chose are those of the machine    *)
(* after the instruction in MEM.                                           *)
LEMMA MemOperands ==
    ASSUME TypeOK, HazardInv, RefinementInv, at = "mem", Passed,
           UNCHANGED <<regs, cp0, id_ex, ex_mem, g_finished, live>>,
           "id_ex" \in live, ~Stopped', id_ex.inst # INSTRUCTION_ERET
    PROVE  /\ id_ex.rs_value = RsValue(id_ex.inst, id_ex.next_pc, IsaRegs', IsaCp0')
           /\ id_ex.rt_value = IF id_ex.inst.op = "JAL" THEN 0 ELSE RtValue(id_ex.inst, IsaRegs')
<1>1. ~g_finished /\ ~g_finished'
  BY DEF Stopped, IsaHalted
<1>2. /\ ex_mem.inst # INSTRUCTION_ERET /\ mem_wb'.exception = "None"
      /\ ~PendingTrap' /\ ~PendingEret'
      /\ PendingWrite' <=> ex_mem.c_reg_write
      /\ WbData' = IF ex_mem.c_mem_to_reg THEN mem_wb'.read_data ELSE ex_mem.alu_res
  BY <1>1, MemView
<1>3. /\ ~Stopped /\ IsaRegs = regs /\ IsaCp0 = cp0 /\ LatchesDecoded /\ Bubbles /\ OperandsReady
  BY <1>1 DEF RefinementInv, Running, WrittenBack
<1>4. PendingWrite <=> mem_wb.c_reg_write
  BY <1>3 DEF Stopped, IsaHalted, PendingWrite, PendingEret, PendingTrap, PendingExit,
              PendingException
<1>5. /\ regs \in [RegNum -> Word] /\ cp0 \in [Cp0Num -> Word] /\ regs[0] = 0
  BY DEF TypeOK, HazardInv, ZeroRegister
<1>6. /\ id_ex.rs = SourceRs(id_ex.inst) /\ id_ex.rt = SourceRt(id_ex.inst)
      /\ id_ex.inst \in Instr
  BY DEF HazardInv, DecodeConsistent, TypeOK, IdEx
<1>7. CASE id_ex.inst.op = "JAL"
  BY <1>3, <1>7 DEF OperandsReady, LinkOperands, RsValue, IsMFC0, IsMTC0
<1>8. CASE id_ex.inst.op # "JAL"
  <2>1. OperandsAreLatest /\ NoPendingLoad
    BY <1>3, <1>8 DEF OperandsReady, ReadsRegisters
  (* Only a load does not write the result of the ALU. *)
  <2>2. /\ ex_mem.c_mem_to_reg /\ ex_mem.reg_dst # 0 =>
              ex_mem.reg_dst \notin {id_ex.rs, id_ex.rt}
        /\ IsMTC0(ex_mem.inst) => ~ex_mem.c_mem_to_reg \/ ex_mem.reg_dst = 0
    <3>1. "ex_mem" \in live => /\ ex_mem.c_mem_to_reg <=> ex_mem.c_mem_read
                               /\ IsMTC0(ex_mem.inst) => ~ex_mem.c_mem_to_reg
      BY <1>3, ControlOf DEF LatchesDecoded, IsExecuted
    <3>2. "ex_mem" \notin live => ex_mem.reg_dst = 0
      BY <1>3 DEF Bubbles
    <3> QED  BY <2>1, <3>1, <3>2 DEF NoPendingLoad
  <2>3. \A r \in RegNum :
            /\ IsaRegs'[r] = IF WritesGpr(ex_mem) /\ ex_mem.reg_dst = r THEN WbData' ELSE regs[r]
            /\ LatestGpr(r) = IF WritesGpr(ex_mem) /\ ex_mem.reg_dst = r THEN ex_mem.alu_res
                              ELSE regs[r]
    <3> SUFFICES ASSUME NEW r \in RegNum
                 PROVE  /\ IsaRegs'[r] = IF WritesGpr(ex_mem) /\ ex_mem.reg_dst = r
                                         THEN WbData' ELSE regs[r]
                        /\ LatestGpr(r) = IF WritesGpr(ex_mem) /\ ex_mem.reg_dst = r
                                          THEN ex_mem.alu_res ELSE regs[r]
      OBVIOUS
    <3>1. IsaRegs' = IF WritesGpr(ex_mem)
                     THEN [regs EXCEPT ![ex_mem.reg_dst] = WbData'] ELSE regs
      BY <1>1, <1>2 DEF IsaRegs, WritesGpr, Passed
    <3>2. WritesGpr(mem_wb) /\ mem_wb.reg_dst = r => regs[r] = WbData
      <4>1. WritesGpr(mem_wb) => [regs EXCEPT ![mem_wb.reg_dst] = WbData] = regs
        BY <1>1, <1>3, <1>4 DEF IsaRegs, WritesGpr
      <4> QED  BY <1>5, <4>1
    <3> QED  BY <1>5, <3>1, <3>2 DEF LatestGpr
  <2>4. \A r \in Cp0Num \ {0} :
            /\ IsaCp0'[r] = IF WritesCp0(ex_mem) /\ ex_mem.reg_dst = r THEN WbData' ELSE cp0[r]
            /\ LatestCp0(r) = IF WritesCp0(ex_mem) /\ ex_mem.reg_dst = r THEN ex_mem.alu_res
                              ELSE cp0[r]
    <3> SUFFICES ASSUME NEW r \in Cp0Num \ {0}
                 PROVE  /\ IsaCp0'[r] = IF WritesCp0(ex_mem) /\ ex_mem.reg_dst = r
                                        THEN WbData' ELSE cp0[r]
                        /\ LatestCp0(r) = IF WritesCp0(ex_mem) /\ ex_mem.reg_dst = r
                                          THEN ex_mem.alu_res ELSE cp0[r]
      OBVIOUS
    <3>1. IsaCp0' = IF ex_mem.c_reg_write /\ IsMTC0(ex_mem.inst)
                    THEN [cp0 EXCEPT ![ex_mem.reg_dst] = WbData'] ELSE cp0
      BY <1>1, <1>2 DEF IsaCp0, Passed
    <3>2. WritesCp0(mem_wb) /\ mem_wb.reg_dst = r => cp0[r] = WbData
      <4>1. WritesCp0(mem_wb) => [cp0 EXCEPT ![mem_wb.reg_dst] = WbData] = cp0
        BY <1>1, <1>3, <1>4 DEF IsaCp0, WritesCp0, Stopped
      <4> QED  BY <1>5, <4>1
    <3> QED  BY <1>5, <3>1, <3>2 DEF LatestCp0, WritesCp0
  <2>5. \A r \in {id_ex.rs, id_ex.rt} : r \in RegNum => LatestGpr(r) = IsaRegs'[r]
    BY <1>2, <2>2, <2>3 DEF WritesGpr
  <2>6. \A r \in Cp0Num \ {0} : LatestCp0(r) = IsaCp0'[r]
    BY <1>2, <2>2, <2>4 DEF WritesCp0
  <2>7. id_ex.rs_value = RsValue(id_ex.inst, id_ex.next_pc, IsaRegs', IsaCp0')
    BY <1>6, <1>8, <2>1, <2>5, <2>6 DEF OperandsAreLatest, RsValue, SourceRs, Instr, RegNum,
       Cp0Num, IsMFC0, IsMTC0, CP0_MFC0, CP0_MTC0
  <2>8. id_ex.rt_value = RtValue(id_ex.inst, IsaRegs')
    <3>1. CASE IsMFC0(id_ex.inst) \/ IsMTC0(id_ex.inst)
      <4>1. id_ex.rt = 0 /\ 0 \in RegNum
        BY <1>6, <3>1 DEF SourceRt, RegNum, IsMFC0, IsMTC0
      <4>2. LatestGpr(0) = 0
        BY <1>5, <2>3, <4>1 DEF WritesGpr
      <4> QED  BY <2>1, <3>1, <4>1, <4>2 DEF OperandsAreLatest, RtValue
    <3>2. CASE ~(IsMFC0(id_ex.inst) \/ IsMTC0(id_ex.inst))
      <4>1. id_ex.rt = id_ex.inst.rt /\ id_ex.rt \in RegNum
        BY <1>6, <1>8, <3>2 DEF SourceRt, Instr
      <4> QED  BY <2>1, <2>5, <3>2, <4>1 DEF OperandsAreLatest, RtValue
    <3> QED  BY <3>1, <3>2
  <2> QED  BY <1>8, <2>7, <2>8
<1> QED  BY <1>7, <1>8

LEMMA MemKeepsInv ==
    ASSUME TypeOK, HazardInv, RefinementInv, MemTick, SparesCode
    PROVE  RefinementInv'
<1>1. /\ at = "mem" /\ UNCHANGED <<regs, pc, cp0, if_id, id_ex, ex_mem, g_finished, live>>
      /\ at' \in {"segv", "ex"}
  BY MemShape
<1> SUFFICES ASSUME at' = "ex" PROVE RefinementInv'
  BY <1>1 DEF RefinementInv, Running
<1>2. Passed /\ Accessed
  BY MemShape
<1>3. /\ live \subseteq Latches
      /\ LatchesDecoded /\ Bubbles /\ Fetched /\ CodeInFlight /\ Raised
  BY <1>1 DEF RefinementInv, Running
<1>4. LatchesDecoded' /\ Bubbles' /\ Fetched' /\ WrittenBack' /\ ResultsReady'
  BY <1>1, <1>3 DEF LatchesDecoded, IsDecoded, IsExecuted, Bubbles, Fetched, WrittenBack,
                    ResultsReady
<1>5. Raised'
  <2>1. StoreOutcome.exception \in {"None", "AddressErrorStore"}
    BY StoreFaults DEF StoreOutcome
  <2> QED  BY <1>1, <1>2, <1>3, <2>1 DEF Raised, Accessed
<1>6. CodeInFlight'
  <2>1. \A l \in live \cap {"id_ex", "if_id"} :
            InstructionAt(pmem', Address(l)) = InstructionAt(pmem, Address(l))
    BY DEF SparesCode
  <2>2. /\ Address("id_ex")' = Address("id_ex") /\ Address("if_id")' = Address("if_id")
        /\ InFlight("id_ex") => "id_ex" \in live
        /\ InFlight("if_id") => "if_id" \in live
    BY <1>1, AddressIs, InFlightIs
  <2>3. InFlight("id_ex")' => id_ex'.inst = InstructionAt(pmem', Address("id_ex")')
    BY <1>1, <1>3, <2>1, <2>2, MemCourse DEF CodeInFlight
  <2>4. InFlight("if_id")' => if_id'.inst = InstructionAt(pmem', Address("if_id")')
    BY <1>1, <1>3, <2>1, <2>2, MemCourse DEF CodeInFlight
  <2>5. ~InFlight("ex_mem")'
    BY <1>1, MemCourse
  <2> QED  BY <2>3, <2>4, <2>5 DEF CodeInFlight, InstructionAt
<1>7. OperandsReady'
  BY <1>1, <1>2, MemOperands DEF OperandsReady
<1> QED  BY <1>1, <1>3, <1>4, <1>5, <1>6, <1>7 DEF RefinementInv

(* The steps of MEM that are not steps of the abstract machine. *)
LEMMA MemStutters ==
    ASSUME TypeOK, RefinementInv, MemTick, SparesCode,
           at' = "segv" \/ g_finished \/ "ex_mem" \notin live
    PROVE  Stutters
<1>1. /\ at = "mem" /\ UNCHANGED <<regs, pc, cp0, if_id, id_ex, ex_mem, g_finished, live>>
      /\ \/ at' = "segv" /\ UNCHANGED <<mem_wb, pmem>>
         \/ at' = "ex" /\ Passed /\ Accessed
  BY MemShape
<1>2. CASE at' = "segv"
  BY <1>1, <1>2, PointKept DEF core
<1>3. CASE g_finished
  <2>1. pmem' = pmem
    BY <1>3 DEF SparesCode
  <2>2. /\ IsaHalted = TRUE /\ IsaRegs = regs /\ IsaCp0 = cp0
        /\ IsaHalted' = TRUE /\ IsaRegs' = regs' /\ IsaCp0' = cp0'
    BY <1>1, <1>3 DEF IsaHalted, IsaRegs, IsaCp0
  <2>3. IsaPc = 0 /\ IsaNpc = 0 /\ IsaBd = FALSE /\ IsaPc' = 0 /\ IsaNpc' = 0 /\ IsaBd' = FALSE
    BY <2>2 DEF IsaPc, IsaNpc, IsaBd
  <2> QED  BY <1>1, <2>1, <2>2, <2>3 DEF Stutters
<1>4. CASE ~g_finished /\ at' = "ex" /\ "ex_mem" \notin live
  <2>1. /\ ex_mem.inst = NOP /\ ex_mem.exception = "None" /\ ex_mem.reg_dst = 0
        /\ ~ex_mem.c_mem_read /\ ~ex_mem.c_mem_write
        /\ ~Stopped /\ IsaRegs = regs /\ IsaCp0 = cp0
    BY <1>1, <1>4 DEF RefinementInv, Running, Bubbles, WrittenBack
  <2>2. Passed /\ mem_wb'.exception = "None" /\ pmem' = pmem
    BY <1>1, <1>4, <2>1 DEF Accessed
  <2>3. NOP # INSTRUCTION_ERET /\ ~IsMTC0(NOP)
    BY DEF NOP, INSTRUCTION_ERET, IsMTC0
  <2>4. ~Stopped' /\ ~PendingEret' /\ ~PendingTrap' /\ ~IsaHalted'
    BY <1>1, <1>4, <2>1, <2>2, <2>3, MemView DEF Stopped
  <2>5. IsaRegs' = regs'
    BY <1>1, <2>1, <2>2 DEF IsaRegs, Passed
  <2>6. IsaCp0' = cp0'
    BY <1>1, <1>4, <2>1, <2>2, <2>3, <2>4 DEF IsaCp0, Passed
  <2>7. ExPc' = ExPc /\ ExNpc' = ExNpc /\ (ExBd' <=> ExBd)
    BY <1>1, <1>4, MemCourse DEF ExPc, ExNpc, ExBd
  <2>8. IsaPc' = IsaPc /\ IsaNpc' = IsaNpc /\ IsaBd' = IsaBd
    BY <2>1, <2>4, <2>7 DEF Stopped, IsaPc, IsaNpc, IsaBd
  <2>9. IsaHalted' = IsaHalted
    BY <2>1, <2>4 DEF Stopped, IsaHalted
  <2> QED  BY <1>1, <2>1, <2>2, <2>5, <2>6, <2>8, <2>9 DEF Stutters
<1> QED  BY <1>1, <1>2, <1>3, <1>4

(* The instruction in EX/MEM passes MEM. *)
Takes ==
    /\ at = "mem" /\ at' = "ex" /\ ~g_finished /\ "ex_mem" \in live
    /\ UNCHANGED <<regs, pc, cp0, if_id, id_ex, ex_mem, g_finished, live>>
    /\ Passed /\ Accessed

(* It is the one whose turn it is. *)
LEMMA TakesCurrent ==
    ASSUME TypeOK, RefinementInv, Takes
    PROVE  /\ IsaRegs = regs /\ IsaCp0 = cp0 /\ ~Stopped /\ ~IsaHalted
           /\ IsaCurrent = ex_mem.inst /\ u32(IsaPc + 4) = ex_mem.next_pc
           /\ IsaNpc = IdPc /\ (IsaBd <=> ex_mem.is_branch_delay)
           /\ IsExecuted(ex_mem)
           /\ ex_mem.inst # INSTRUCTION_ERET => Computed
<1>1. /\ IsaRegs = regs /\ IsaCp0 = cp0 /\ ~Stopped /\ ~IsaHalted
      /\ CodeInFlight /\ IsExecuted(ex_mem)
      /\ ex_mem.inst # INSTRUCTION_ERET => Computed
  BY DEF Takes, RefinementInv, Running, WrittenBack, LatchesDecoded, ResultsReady, Stopped
<1>2. InFlight("ex_mem")
  BY InFlightIs DEF Takes
<1>3. IsaPc = Address("ex_mem") /\ IsaNpc = IdPc /\ (IsaBd <=> ex_mem.is_branch_delay)
  BY <1>1, <1>2 DEF Stopped, IsaPc, IsaNpc, IsaBd, ExPc, ExNpc, ExBd
<1>4. u32(IsaPc + 4) = ex_mem.next_pc
  BY <1>3, AddressIs, NextAddress DEF TypeOK, ExMem
<1>5. IsaCurrent = ex_mem.inst
  BY <1>1, <1>2, <1>3 DEF CodeInFlight, IsaCurrent
<1> QED  BY <1>1, <1>3, <1>4, <1>5

LEMMA TakesRaises ==
    ASSUME TypeOK, RefinementInv, Takes, ex_mem.inst # INSTRUCTION_ERET, pmem' = pmem,
           mem_wb'.exception # "None",
           ~(mem_wb'.exception = "Syscall" /\ regs[REG_V0] = 10)
    PROVE  RaiseSteps(mem_wb'.exception)
<1>1. /\ ~g_finished /\ UNCHANGED <<regs, cp0, g_finished>> /\ Passed
  BY DEF Takes
<1>2. /\ PendingTrap' /\ ~PendingEret' /\ ~PendingWrite' /\ ~IsaHalted' /\ ~g_finished'
  BY <1>1, MemView
<1>3. IsaRegs' = regs
  BY <1>1, <1>2 DEF IsaRegs
<1>4. IsaCp0' = [cp0 EXCEPT ![REG_EPC] = mem_wb'.next_pc,
                    ![REG_CAUSE] = get_cause(mem_wb'.exception, mem_wb'.is_branch_delay),
                    ![REG_SR] = SetBit(@, SR_EXL)]
  BY <1>1, <1>2 DEF IsaCp0
<1>5. IsaPc' = Handler' /\ IsaNpc' = u32(IsaPc' + 4) /\ ~IsaBd'
  BY <1>2 DEF IsaPc, IsaNpc, IsaBd
<1>6. Handler' = IF SR_BEV \in Bits(cp0[REG_SR]) THEN cp0[REG_EBASE] ELSE EXCEPTION_VECTOR
  BY <1>1 DEF Handler
<1>7. get_cause(mem_wb'.exception, mem_wb'.is_branch_delay) = get_cause(mem_wb'.exception, IsaBd)
  BY <1>1, TakesCurrent DEF get_cause, Passed
<1> QED  BY <1>1, <1>2, <1>3, <1>4, <1>5, <1>6, <1>7, TakesCurrent DEF RaiseSteps, Passed

LEMMA TakesAdvances ==
    ASSUME TypeOK, RefinementInv, Takes, ex_mem.inst # INSTRUCTION_ERET,
           mem_wb'.exception = "None"
    PROVE  AdvanceSteps(IsaD) /\ WriteSteps(ex_mem.inst, WbData')
<1>1. /\ ~g_finished /\ UNCHANGED <<regs, cp0, g_finished>> /\ Passed
  BY DEF Takes
<1>2. /\ ~PendingTrap' /\ ~PendingEret' /\ ~IsaHalted' /\ ~g_finished'
      /\ PendingWrite' <=> ex_mem.c_reg_write
  BY <1>1, MemView
<1>3. IsaPc' = IdPc /\ IsaNpc' = IdNpc /\ (IsaBd' <=> IdBd)
  BY <1>2, MemCourse DEF Takes, IsaPc, IsaNpc, IsaBd
<1>4. /\ IdNpc = IF Redirects(IsaD) THEN RedirectTo(IsaD) ELSE u32(IsaNpc + 4)
      /\ IdBd <=> Redirects(IsaD)
  BY TakesCurrent DEF Computed, IsaD
<1>5. AdvanceSteps(IsaD)
  BY <1>2, <1>3, <1>4, TakesCurrent DEF AdvanceSteps
<1>6. /\ ex_mem.c_reg_write <=> Control(ex_mem.inst).reg_write
      /\ ex_mem.reg_dst = Destination(ex_mem.inst)
  BY TakesCurrent DEF IsExecuted, Destination
<1>7. IsaRegs' = IF Control(ex_mem.inst).reg_write /\ ~IsMTC0(ex_mem.inst)
                        /\ Destination(ex_mem.inst) # 0
                 THEN [regs EXCEPT ![Destination(ex_mem.inst)] = WbData'] ELSE regs
  BY <1>1, <1>2, <1>6 DEF IsaRegs, Passed
<1>8. IsaCp0' = IF IsMTC0(ex_mem.inst)
                THEN [cp0 EXCEPT ![Destination(ex_mem.inst)] = WbData'] ELSE cp0
  BY <1>1, <1>2, <1>6, ControlOf DEF IsaCp0, Passed
<1>9. WriteSteps(ex_mem.inst, WbData')
  BY <1>7, <1>8, TakesCurrent DEF WriteSteps
<1> QED  BY <1>5, <1>9

LEMMA MemSteps ==
    ASSUME TypeOK, RefinementInv, Takes
    PROVE  Abstract!Step
<1>1. /\ ~g_finished /\ UNCHANGED <<regs, cp0, ex_mem, g_finished>> /\ Passed /\ Accessed
  BY DEF Takes
<1>2. /\ IsaRegs = regs /\ IsaCp0 = cp0 /\ ~IsaHalted /\ IsaCurrent = ex_mem.inst
      /\ IsExecuted(ex_mem)
  BY TakesCurrent
<1>3. /\ ex_mem.c_mem_read <=> ex_mem.inst.op \in Loads
      /\ ex_mem.c_mem_write <=> ex_mem.inst.op \in Stores
      /\ ex_mem.c_mem_to_reg <=> ex_mem.inst.op \in Loads
      /\ ex_mem.inst.op \in Loads => ex_mem.reg_dst = ex_mem.inst.rt
  BY <1>2, ControlOf DEF IsExecuted
<1>4. Loads \cap Stores = {} /\ INSTRUCTION_ERET.op \notin Loads \cup Stores
  BY DEF Loads, Stores, INSTRUCTION_ERET, NOP
<1>5. CASE ex_mem.inst = INSTRUCTION_ERET
  <2>1. /\ PendingEret' /\ ~PendingTrap' /\ ~PendingWrite' /\ ~IsaHalted' /\ ~g_finished'
    BY <1>1, <1>5, MemView
  <2>2. IsaRegs' = regs /\ IsaCp0' = [cp0 EXCEPT ![REG_SR] = ClearBit(@, SR_EXL)]
    BY <1>1, <2>1 DEF IsaRegs, IsaCp0
  <2>3. IsaPc' = cp0[REG_EPC] /\ IsaNpc' = u32(IsaPc' + 4) /\ ~IsaBd'
    BY <1>1, <2>1 DEF IsaPc, IsaNpc, IsaBd
  <2>4. pmem' = pmem
    BY <1>1, <1>3, <1>4, <1>5 DEF Accessed
  <2> QED  BY <1>2, <1>5, <2>1, <2>2, <2>3, <2>4, EretIsStep DEF EretSteps
<1>6. CASE ex_mem.inst # INSTRUCTION_ERET
  <2>1. /\ ex_mem.exception = AluException(IsaD)
        /\ \E old \in Word : ex_mem.alu_res = AluResult(IsaD, old)
        /\ ex_mem.rt_value = IsaD.rt_value
    BY <1>2, <1>6, TakesCurrent DEF Computed, IsaD
  <2>2. ex_mem.inst.op \in Loads \cup Stores => ex_mem.alu_res = AluResult(IsaD, 0)
    <3>1. IsaD.c = Control(ex_mem.inst)
      BY <1>2 DEF IsaD, IsaOperands
    <3> QED  BY <2>1, <3>1, ControlOf DEF AluResult
  <2>3. CASE ex_mem.exception # "None"
    <3>1. mem_wb'.exception = ex_mem.exception /\ pmem' = pmem
      BY <1>1, <2>3 DEF Accessed
    <3>2. CASE ex_mem.exception = "Syscall" /\ regs[REG_V0] = 10
      <4>1. IsaHalted' /\ ~PendingTrap' /\ ~PendingEret' /\ ~PendingWrite' /\ ~g_finished'
        BY <1>1, <1>6, <3>1, <3>2, MemView
      <4>2. IsaRegs' = regs /\ IsaCp0' = cp0 /\ IsaPc' = 0 /\ IsaNpc' = 0 /\ ~IsaBd'
        BY <1>1, <4>1 DEF IsaRegs, IsaCp0, IsaPc, IsaNpc, IsaBd
      <4> QED  BY <1>2, <2>1, <3>1, <3>2, <4>1, <4>2, ExitIsStep DEF ExitSteps
    <3>3. CASE ~(ex_mem.exception = "Syscall" /\ regs[REG_V0] = 10)
      <4>1. RaiseSteps(AluException(IsaD))
        BY <1>6, <2>1, <2>3, <3>1, <3>3, TakesRaises
      <4> QED  BY <1>2, <2>1, <2>3, <3>3, <4>1, TrapIsStep
    <3> QED  BY <3>2, <3>3
  <2>4. CASE ex_mem.exception = "None" /\ ex_mem.inst.op \in Loads
    <3>1. /\ ~LoadOutcome.segv /\ mem_wb'.exception = "None" /\ pmem' = pmem
          /\ mem_wb'.read_data = LoadOutcome.data
      BY <1>1, <1>3, <2>4 DEF Accessed
    <3>2. LoadOutcome = IsaLoad(mem_wb.read_data) /\ mem_wb.read_data \in Word
      BY <1>2, <1>3, <2>2, <2>4 DEF LoadOutcome, IsaLoad, TypeOK, MemWb
    <3>3. WbData' = LoadOutcome.data
      BY <1>1, <1>3, <2>4, <3>1 DEF WbData, Passed
    <3>4. AdvanceSteps(IsaD) /\ WriteSteps(IsaCurrent, IsaLoad(mem_wb.read_data).data)
      BY <1>2, <1>6, <3>1, <3>2, <3>3, TakesAdvances
    <3> QED  BY <1>2, <2>1, <2>4, <3>1, <3>2, <3>4, LoadIsStep
  <2>5. CASE ex_mem.exception = "None" /\ ex_mem.inst.op \in Stores
    <3>1. /\ ~StoreOutcome.segv /\ pmem' = StoreOutcome.pmem
          /\ mem_wb'.exception = StoreOutcome.exception
      BY <1>1, <1>3, <1>4, <2>5 DEF Accessed
    <3>2. StoreOutcome = IsaStore
      BY <1>2, <2>1, <2>2, <2>5 DEF StoreOutcome, IsaStore
    <3>3. /\ StoreOutcome.exception \in {"None", "AddressErrorStore"}
          /\ StoreOutcome.exception # "None" => StoreOutcome.pmem = pmem
      BY StoreFaults DEF StoreOutcome
    <3>4. CASE StoreOutcome.exception # "None"
      <4>1. RaiseSteps(IsaStore.exception)
        BY <1>6, <3>1, <3>2, <3>3, <3>4, TakesRaises
      <4> QED  BY <1>2, <2>1, <2>5, <3>1, <3>2, <3>4, <4>1, StoreIsStep
    <3>5. CASE StoreOutcome.exception = "None"
      <4>1. AdvanceSteps(IsaD) /\ WriteSteps(ex_mem.inst, WbData')
        BY <1>6, <3>1, <3>5, TakesAdvances
      <4>2. IsaRegs' = IsaRegs /\ IsaCp0' = IsaCp0
        BY <2>5, <4>1, ControlOf DEF WriteSteps
      <4> QED  BY <1>2, <2>1, <2>5, <3>1, <3>2, <3>5, <4>1, <4>2, StoreIsStep
    <3> QED  BY <3>4, <3>5
  <2>6. CASE ex_mem.exception = "None" /\ ex_mem.inst.op \notin Loads \cup Stores
    <3>1. mem_wb'.exception = "None" /\ pmem' = pmem
      BY <1>1, <1>3, <2>6 DEF Accessed
    <3>2. WbData' = ex_mem.alu_res /\ ex_mem.alu_res \in Word
      BY <1>1, <1>3, <2>6 DEF WbData, Passed, TypeOK, ExMem
    <3>3. AdvanceSteps(IsaD) /\ WriteSteps(IsaCurrent, ex_mem.alu_res)
      BY <1>2, <1>6, <3>1, <3>2, TakesAdvances
    <3> QED  BY <1>2, <1>6, <2>1, <2>6, <3>1, <3>2, <3>3, ComputeIsStep
  <2> QED  BY <2>3, <2>4, <2>5, <2>6
<1> QED  BY <1>5, <1>6

-----------------------------------------------------------------------------
(***************************************************************************)
(* Any step, and the initial state.                                        *)
(***************************************************************************)
LEMMA IdleRefines ==
    ASSUME RefinementInv, UNCHANGED hvars
    PROVE  Stutters /\ RefinementInv'
<1>1. UNCHANGED <<regs, pc, cp0, if_id, id_ex, ex_mem, mem_wb, pmem, g_finished, at, live>>
  BY DEF hvars, vars, core
<1>2. /\ Stutters /\ IdNpc' = IdNpc /\ (IdBd' <=> IdBd) /\ (Stopped' <=> Stopped)
      /\ InFlight("ex_mem")' <=> InFlight("ex_mem")
      /\ InFlight("id_ex")' <=> InFlight("id_ex")
      /\ InFlight("if_id")' <=> InFlight("if_id")
  BY <1>1, PointKept DEF core
<1> SUFFICES ASSUME Running PROVE RefinementInv'
  BY <1>1, <1>2 DEF RefinementInv, Running
<1>3. /\ live \subseteq Latches
      /\ LatchesDecoded /\ Bubbles /\ Fetched /\ CodeInFlight /\ Raised
      /\ WrittenBack /\ OperandsReady /\ ResultsReady
  BY DEF RefinementInv
<1>4. LatchesDecoded' /\ Bubbles' /\ Fetched' /\ Raised'
  BY <1>1, <1>3 DEF LatchesDecoded, IsDecoded, IsExecuted, Bubbles, Fetched, Raised
<1>5. CodeInFlight'
  BY <1>1, <1>2, <1>3, AddressIs DEF CodeInFlight, InstructionAt
<1>6. UNCHANGED <<IsaRegs, IsaCp0>>
  BY <1>2 DEF Stutters
<1>7. WrittenBack'
  BY <1>1, <1>2, <1>3, <1>6 DEF WrittenBack
<1>8. OperandsReady'
  <2>1. OperandsAreLatest' <=> OperandsAreLatest
    BY <1>1 DEF OperandsAreLatest, LatestCp0, LatestGpr, WritesCp0, WritesGpr, WbData
  <2>2. NoPendingLoad' <=> NoPendingLoad
    BY <1>1 DEF NoPendingLoad
  <2> QED  BY <1>1, <1>2, <1>3, <1>6, <2>1, <2>2 DEF OperandsReady, LinkOperands
<1>9. ResultsReady'
  <2>1. CASE at = "ex"
    BY <1>1, <2>1 DEF ResultsReady
  <2>2. CASE at # "ex"
    BY <1>1, <1>2, <1>3, <2>2, ResultsKept
  <2> QED  BY <2>1, <2>2
<1> QED  BY <1>1, <1>3, <1>4, <1>5, <1>7, <1>8, <1>9 DEF RefinementInv

LEMMA HNextRefines ==
    ASSUME TypeOK, HazardInv, RefinementInv, [HNext]_hvars, HazardInv',
           NoClash', LinkUndisturbed', [SparesCode]_hvars
    PROVE  (Abstract!Step \/ Stutters) /\ RefinementInv'
<1>1. CASE UNCHANGED hvars
  BY <1>1, IdleRefines
<1>2. CASE (RunTick \/ RunReturn) /\ UNCHANGED live
  BY <1>2, RunRefines
<1>3. CASE Ended /\ UNCHANGED live
  <2>1. UNCHANGED hvars
    BY <1>3 DEF Ended, hvars
  <2> QED  BY <2>1, IdleRefines
<1>4. CASE (WbEret \/ WbException) /\ live' = {}
  BY <1>4, WbEretRefines, WbExceptionRefines
<1>5. CASE (WbExit \/ WbCommit) /\ UNCHANGED live
  BY <1>5, WbExitRefines, WbCommitRefines
<1>6. CASE MemTick
  <2>1. SparesCode
    <3>1. SparesCode \/ UNCHANGED hvars
      OBVIOUS
    <3>2. UNCHANGED hvars => UNCHANGED pmem
      BY DEF hvars, vars
    <3> QED  BY <3>1, <3>2 DEF SparesCode
  <2>2. RefinementInv'
    BY <1>6, <2>1, MemKeepsInv
  <2>3. CASE at' = "segv" \/ g_finished \/ "ex_mem" \notin live
    BY <1>6, <2>1, <2>2, <2>3, MemStutters
  <2>4. CASE ~(at' = "segv" \/ g_finished \/ "ex_mem" \notin live)
    <3>1. Takes
      BY <1>6, <2>4, MemShape DEF Takes
    <3> QED  BY <2>2, <3>1, MemSteps
  <2> QED  BY <2>3, <2>4
<1>7. CASE InterpretEx /\ live' = Moves("id_ex", "ex_mem")
  BY <1>7, ExRefines
<1>8. CASE InterpretId /\ live' = Moves("if_id", "id_ex")
  BY <1>8, IdRefines
<1>9. CASE \/ IfFetch /\ live' = live \cup {"if_id"}
           \/ (IfStall \/ IfSegv) /\ live' = live \ {"if_id"}
  BY <1>9, IfRefines
<1>10. CASE ForwardingUnit /\ UNCHANGED live
  BY <1>10, FwdRefines
<1> QED  BY <1>1, <1>2, <1>3, <1>4, <1>5, <1>6, <1>7, <1>8, <1>9, <1>10 DEF HNext, HTick, MemTick

LEMMA HInitRefines == HInit => Abstract!Init /\ RefinementInv
<1> SUFFICES ASSUME HInit PROVE Abstract!Init /\ RefinementInv
  OBVIOUS
<1>1. /\ pc = Entry /\ live = {} /\ at = "run" /\ g_finished = FALSE
      /\ if_id = ZeroIfId /\ id_ex = ZeroIdEx /\ ex_mem = ZeroExMem /\ mem_wb = ZeroMemWb
  BY DEF HInit, Init
<1>2. /\ mem_wb.inst # INSTRUCTION_ERET /\ mem_wb.exception = "None" /\ ~mem_wb.c_reg_write
  BY <1>1 DEF ZeroMemWb, NOP, INSTRUCTION_ERET
<1>3. ~PendingEret /\ ~PendingTrap /\ ~PendingExit /\ ~PendingWrite
  BY <1>2 DEF PendingEret, PendingTrap, PendingExit, PendingException, PendingWrite
<1>4. IsaHalted = FALSE /\ ~Stopped /\ IsaRegs = regs /\ IsaCp0 = cp0
  BY <1>1, <1>3 DEF IsaHalted, Stopped, IsaRegs, IsaCp0
<1>5. ExPc = pc /\ ExNpc = u32(pc + 4) /\ ~ExBd
  BY <1>1, InFlightIs DEF ExPc, ExNpc, ExBd, IdPc, IdNpc, IdBd, IfPc, IfNpc, IfBd
<1>6. IsaPc = Entry /\ IsaNpc = u32(Entry + 4) /\ IsaBd = FALSE
  BY <1>1, <1>3, <1>4, <1>5 DEF IsaPc, IsaNpc, IsaBd
<1>7. pmem \in [DOMAIN pmem -> Byte]
  BY ImagesAssumption DEF HInit, Init
<1>8. Abstract!Byte = Byte
  BY DEF Abstract!Byte, Byte
<1>9. Abstract!Init
  BY <1>4, <1>6, <1>7, <1>8, SameConstants, SameDecoding, SameMemory, SameWords, SameBits
     DEF Abstract!Init, HInit, Init
<1>10. LatchesDecoded /\ Fetched /\ OperandsReady /\ ResultsReady
  BY <1>1 DEF LatchesDecoded, Fetched, OperandsReady, ResultsReady
<1>11. Bubbles /\ Raised
  BY <1>1 DEF Bubbles, Raised, ZeroIfId, ZeroIdEx, ZeroExMem, ZeroMemWb
<1>12. CodeInFlight /\ WrittenBack
  BY <1>1, InFlightIs DEF CodeInFlight, WrittenBack
<1> QED  BY <1>1, <1>9, <1>10, <1>11, <1>12 DEF RefinementInv

(***************************************************************************)
(* The pipeline implements the instruction set.  For every program image,  *)
(* decoding and size of memory, as long as the program avoids what         *)
(* CleanProgram lists: forwarding, stalls, delay slots, flushes, traps and *)
(* the exit system call of sim.c have the effect that executing one        *)
(* instruction at a time would have.                                       *)
(***************************************************************************)
THEOREM PipelineImplementsISA == HSpec /\ CleanProgram => ImplementsISA
<1>1. HInit => TypeOK /\ HazardInv
  BY InitType, InitHazard DEF HInit
<1>2. [HNext]_hvars => [Next]_vars
  BY DEF HNext, HTick, Next, Tick, hvars
<1>3. TypeOK /\ HazardInv /\ [HNext]_hvars => TypeOK' /\ HazardInv'
  BY <1>2, NextType, NextHazard
<1>4. /\ TypeOK /\ HazardInv /\ RefinementInv /\ [HNext]_hvars
      /\ HazardInv' /\ NoClash' /\ LinkUndisturbed' /\ [SparesCode]_hvars
      => [Abstract!Step]_(Abstract!vars) /\ RefinementInv'
  <2> SUFFICES ASSUME TypeOK, HazardInv, RefinementInv, [HNext]_hvars, HazardInv',
                      NoClash', LinkUndisturbed', [SparesCode]_hvars
               PROVE  [Abstract!Step]_(Abstract!vars) /\ RefinementInv'
    OBVIOUS
  <2>1. Stutters => UNCHANGED Abstract!vars
    BY DEF Stutters, Abstract!vars
  <2> QED  BY <2>1, HNextRefines
<1>5. HInit => Abstract!Init /\ RefinementInv
  BY HInitRefines
<1> QED  BY <1>1, <1>3, <1>4, <1>5, PTL DEF HSpec, CleanProgram, ImplementsISA, Abstract!Spec

-----------------------------------------------------------------------------
(***************************************************************************)
(* Precise exceptions, for every program.  A flush leaves nothing that     *)
(* could store in any pipeline register, a stall puts a NOP where it left  *)
(* one, and the stages hand no store on to a register that holds a bubble. *)
(***************************************************************************)
BubblesDoNotStore ==
    Running =>
        /\ "if_id" \notin live => if_id.inst = NOP
        /\ "id_ex" \notin live => ~id_ex.c.mem_write
        /\ "ex_mem" \notin live => ~ex_mem.c_mem_write

LEMMA NopDoesNotStore == ~Control(NOP).mem_write
<1>1. NOP.op \notin Stores
  BY DEF NOP, Stores
<1> QED  BY <1>1 DEF Control

LEMMA NextBubbles ==
    ASSUME TypeOK, HazardInv, BubblesDoNotStore, [HNext]_hvars
    PROVE  BubblesDoNotStore'
<1> SUFFICES ASSUME Running'
             PROVE  /\ "if_id" \notin live' => if_id'.inst = NOP
                    /\ "id_ex" \notin live' => ~id_ex'.c.mem_write
                    /\ "ex_mem" \notin live' => ~ex_mem'.c_mem_write
  BY DEF BubblesDoNotStore
<1>1. CASE UNCHANGED hvars \/ ((RunTick \/ RunReturn \/ Ended) /\ UNCHANGED live)
  BY <1>1 DEF hvars, vars, core, RunTick, RunReturn, Ended, BubblesDoNotStore, Running
<1>2. CASE (WbEret \/ WbException) /\ live' = {}
  BY <1>2 DEF WbEret, WbException, FlushPipeline, ZeroIfId, ZeroIdEx, ZeroExMem, NoControl
<1>3. CASE (WbExit \/ WbCommit) /\ UNCHANGED live
  BY <1>3 DEF WbExit, WbCommit, InWb, core, BubblesDoNotStore, Running
<1>4. CASE (MemForward \/ MemLoad \/ MemStore \/ MemPass) /\ UNCHANGED live
  BY <1>4 DEF MemForward, MemLoad, MemStore, MemPass, BubblesDoNotStore, Running
<1>5. CASE InterpretEx /\ live' = Moves("id_ex", "ex_mem")
  <2>1. /\ "ex_mem" \in live' <=> "id_ex" \in live
        /\ "id_ex" \in live' <=> "id_ex" \in live
        /\ "if_id" \in live' <=> "if_id" \in live
    BY <1>5 DEF Moves
  <2>2. at = "ex" /\ ex_mem \in ExMem /\ id_ex \in IdEx /\ if_id \in IfId
    BY <1>5 DEF InterpretEx, TypeOK
  <2>3. ex_mem'.c_mem_write = id_ex.c.mem_write /\ id_ex'.c = id_ex.c /\ if_id'.inst = if_id.inst
    BY <1>5, <2>2 DEF InterpretEx, ExCopied, ExMem, IdEx, IfId
  <2> QED  BY <2>1, <2>2, <2>3 DEF BubblesDoNotStore, Running
<1>6. CASE InterpretId /\ live' = Moves("if_id", "id_ex")
  <2>1. /\ "id_ex" \in live' <=> "if_id" \in live
        /\ "ex_mem" \in live' <=> "ex_mem" \in live
        /\ "if_id" \in live' <=> "if_id" \in live
    BY <1>6 DEF Moves
  <2>2. at = "id" /\ UNCHANGED <<if_id, ex_mem>> /\ if_id.exception = "None"
    BY <1>6 DEF InterpretId, HazardInv, NoEarlyException
  <2>3. id_ex'.c = Control(if_id.inst)
    BY <1>6, <2>2 DEF InterpretId, Decoded
  <2> QED  BY <2>1, <2>2, <2>3, NopDoesNotStore DEF BubblesDoNotStore, Running
<1>7. CASE IfFetch /\ live' = live \cup {"if_id"}
  BY <1>7 DEF IfFetch, BubblesDoNotStore, Running
<1>8. CASE (IfStall \/ IfSegv) /\ live' = live \ {"if_id"}
  BY <1>8 DEF IfStall, IfSegv, BubblesDoNotStore, Running, TypeOK, IfId
<1>9. CASE ForwardingUnit /\ UNCHANGED live
  <2>1. id_ex \in IdEx /\ at = "fwd" /\ UNCHANGED <<if_id, ex_mem>>
    BY <1>9 DEF ForwardingUnit, TypeOK
  <2>2. id_ex'.c = id_ex.c
    BY <1>9, <2>1 DEF ForwardingUnit, IdEx
  <2> QED  BY <1>9, <2>1, <2>2 DEF BubblesDoNotStore, Running
<1> QED  BY <1>1, <1>2, <1>3, <1>4, <1>5, <1>6, <1>7, <1>8, <1>9 DEF HNext, HTick

(***************************************************************************)
(* No instruction that an exception or an ERET found in the pipeline       *)
(* stores, and none stores while an older one's exception waits for WB,    *)
(* for every program.                                                      *)
(***************************************************************************)
THEOREM PreciseStores == HSpec => StoresArePrecise
<1> DEFINE Inv == TypeOK /\ HazardInv /\ NothingPending /\ BubblesDoNotStore
<1>1. HInit => Inv
  <2> SUFFICES ASSUME HInit PROVE Inv
    OBVIOUS
  <2>1. TypeOK /\ HazardInv /\ NothingPending
    BY InitType, InitHazard DEF HInit, Init, NothingPending
  <2>2. BubblesDoNotStore
    BY DEF HInit, Init, BubblesDoNotStore, ZeroIfId, ZeroIdEx, ZeroExMem, NoControl
  <2> QED  BY <2>1, <2>2
<1>2. [HNext]_hvars => [Next]_vars
  BY DEF HNext, HTick, Next, Tick, hvars
<1>3. Inv /\ [HNext]_hvars => Inv'
  BY <1>2, NextType, NextHazard, NextNothingPending, NextBubbles
<1>4. Inv /\ [HNext]_hvars =>
        [pmem' # pmem => /\ "ex_mem" \in live
                         /\ g_finished \/ mem_wb.exception = "None"]_hvars
  <2> SUFFICES ASSUME Inv, [HNext]_hvars, pmem' # pmem
               PROVE  "ex_mem" \in live /\ (g_finished \/ mem_wb.exception = "None")
    OBVIOUS
  <2>1. at = "mem"
    BY <1>2, OnlyMemStores
  <2>2. MemStore
    BY <1>2, <2>1 DEF Next, Tick, RunTick, RunReturn, Ended, WbEret, WbExit, WbException,
        WbCommit, InWb, MemForward, MemLoad, MemPass, InterpretEx, InterpretId, IfStall,
        IfFetch, IfSegv, ForwardingUnit, vars
  <2>3. "ex_mem" \in live
    BY <2>1, <2>2 DEF MemStore, BubblesDoNotStore, Running
  <2> QED  BY <2>1, <2>3 DEF NothingPending
<1> QED  BY <1>1, <1>3, <1>4, PTL DEF HSpec, StoresArePrecise

=============================================================================
