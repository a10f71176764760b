--------------------------- MODULE PipelineProofs ---------------------------
(***************************************************************************)
(* Proofs about the pipeline: type correctness, and the invariant that     *)
(* makes forwarding and stalling resolve every data hazard.                *)
(***************************************************************************)
EXTENDS Pipeline, MemoryProofs

-----------------------------------------------------------------------------
(***************************************************************************)
(* The operators yield values of their types.                              *)
(***************************************************************************)
LEMMA SmallWords == 0 \in Word /\ 1 \in Word
BY WordSizeBound DEF Word

LEMMA BitwiseType ==
    \A a, b : /\ BitAnd(a, b) \in Word /\ BitOr(a, b) \in Word /\ BitNor(a, b) \in Word
              /\ Shl(a, b) \in Word /\ Shr(a, b) \in Word
              /\ SetBit(a, b) \in Word /\ ClearBit(a, b) \in Word
BY CastType, SmallWords DEF BitAnd, BitOr, BitNor, Shl, Shr, SetBit, ClearBit, FromBits

LEMMA SignExtendType == \A imm \in 0 .. HalfSize - 1 : SIGN_EXTEND(imm) \in Word
<1>1. HalfSize \in Nat /\ WordSize \in Nat /\ HalfSize <= WordSize
  <2>1. \A x \in Nat : x >= 64 => x <= x * x
    BY SMT
  <2> QED  BY <2>1, HalfSizeBound, WordSizeBound DEF WordSize
<1>2. \A imm \in 0 .. HalfSize - 1 : imm \in Word
  BY <1>1, SMT DEF Word
<1> QED  BY <1>2, CastType DEF SIGN_EXTEND

LEMMA NopType == NOP \in Instr /\ INSTRUCTION_ERET \in Instr
<1>1. 0 \in 0 .. HalfSize - 1 /\ 0 \in 0 .. WordSize - 1 /\ 0 \in RegNum /\ 16 \in RegNum
  BY HalfSizeBound, WordSizeBound DEF RegNum
<1>2. "R" \in Opcodes /\ "CP0" \in Opcodes /\ "SLL" \in Functs /\ "ERET" \in Functs
  BY DEF Opcodes, Functs
<1>3. NOP \in Instr
  BY <1>1, <1>2 DEF NOP, Instr
<1>4. INSTRUCTION_ERET \in Instr
  BY <1>1, <1>2, <1>3 DEF INSTRUCTION_ERET, Instr
<1> QED  BY <1>3, <1>4

LEMMA ControlType == \A i \in Instr : Control(i) \in ControlSignals
BY DEF Control, ControlSignals

LEMMA ZeroTypes ==
    ZeroIfId \in IfId /\ ZeroIdEx \in IdEx /\ ZeroExMem \in ExMem /\ ZeroMemWb \in MemWb
<1>1. NoControl \in ControlSignals
  BY DEF NoControl, ControlSignals
<1> QED  BY <1>1, NopType, SmallWords
         DEF ZeroIfId, ZeroIdEx, ZeroExMem, ZeroMemWb, IfId, IdEx, ExMem, MemWb,
             Exception, Functs, RegNum

LEMMA AluType ==
    ASSUME NEW d \in IdEx, NEW old \in Word
    PROVE  AluResult(d, old) \in Word /\ AluException(d) \in Exception
<1>1. \A f, a, b, n : RTypeResult(f, a, b, n, old) \in Word
  BY CastType, BitwiseType, SmallWords DEF RTypeResult
<1>2. \A f, a, b : ITypeResult(f, a, b, old) \in Word
  BY CastType, BitwiseType, SmallWords DEF ITypeResult
<1>3. AluResult(d, old) \in Word
  BY <1>1, <1>2, CastType DEF AluResult
<1>4. AluException(d) \in Exception
  BY DEF AluException, Exception, ExcCode
<1> QED  BY <1>3, <1>4

LEMMA RedirectType == ASSUME NEW d \in IdEx PROVE RedirectTo(d) \in Word
BY CastType DEF RedirectTo, BranchAddr, IdEx

LEMMA CauseType == \A e, b : get_cause(e, b) \in Word
BY CastType, SmallWords DEF get_cause

LEMMA ReadType ==
    \A m, v, size : \A dst \in Word :
        mmu_read(m, v, dst, size) \in [data : Word, segv : BOOLEAN]
BY CastType DEF mmu_read

LEMMA WriteType ==
    ASSUME NEW m, IsMemory(m), NEW v \in Word, NEW src, NEW size \in {1, 2, 4}
    PROVE  /\ IsMemory(mmu_write(m, v, src, size).pmem)
           /\ mmu_write(m, v, src, size).exception \in Exception
<1>1. Translate(v) = NULL \/ Translate(v) \in 0 .. memsz - 4
  BY TranslationInBounds
<1>2. Translate(v) # NULL => IsMemory(SET_BIG(m, Translate(v), size, src))
  BY <1>1, SetBigType
<1>3. v \in Int /\ IO_REGISTER_AREA \in Int /\ IO_DESCRIPTOR_AREA \in Int
  BY WordSizeBound, HalfSizeBound DEF Word, IO_REGISTER_AREA, IO_DESCRIPTOR_AREA
<1> QED  BY <1>2, <1>3 DEF mmu_write, Exception, ExcCode

LEMMA AlignedType == \A addr \in Word : AlignedAddr(addr) \in Word
BY WordSizeBound, SMT DEF AlignedAddr, Word

LEMMA LoadType ==
    ASSUME NEW i, NEW m, NEW addr, NEW reg, NEW old \in Word
    PROVE  LoadResult(i, m, addr, reg, old) \in [data : Word, segv : BOOLEAN]
BY ReadType, BitwiseType, SmallWords DEF LoadResult

LEMMA StoreType ==
    ASSUME NEW i, NEW m, IsMemory(m), NEW addr \in Word, NEW val, NEW reg
    PROVE  /\ IsMemory(StoreResult(i, m, addr, val, reg).pmem)
           /\ StoreResult(i, m, addr, val, reg).exception \in Exception
<1>1. AccessSize(i.op) \in {1, 2, 4} /\ MEM_OP_WORD \in {1, 2, 4}
  BY DEF AccessSize, MEM_OP_BYTE, MEM_OP_HALF, MEM_OP_WORD
<1> QED  BY <1>1, WriteType, AlignedType DEF StoreResult, Exception

-----------------------------------------------------------------------------
(***************************************************************************)
(* Type correctness.                                                       *)
(***************************************************************************)
LEMMA InitType == Init => TypeOK
<1> SUFFICES ASSUME Init PROVE TypeOK
  OBVIOUS
<1>1. regs \in [RegNum -> Word]
  BY CastType, SmallWords DEF Init
<1>2. cp0 \in [Cp0Num -> Word]
  BY BitwiseType, SmallWords DEF Init
<1>3. pmem \in [DOMAIN pmem -> Byte] /\ DOMAIN pmem \subseteq 0 .. memsz - 1
  BY ImagesAssumption DEF Init
<1> QED  BY <1>1, <1>2, <1>3, EntryAssumption, ZeroTypes DEF Init, TypeOK, Stage

LEMMA WbType == TypeOK /\ (WbEret \/ WbExit \/ WbException \/ WbCommit) => TypeOK'
<1> SUFFICES ASSUME TypeOK, WbEret \/ WbExit \/ WbException \/ WbCommit PROVE TypeOK'
  OBVIOUS
<1>1. mem_wb.alu_res \in Word /\ mem_wb.read_data \in Word /\ mem_wb.next_pc \in Word
      /\ mem_wb.BadVAddr \in Word
  BY DEF TypeOK, MemWb
<1>2. WbData \in Word
  BY <1>1 DEF WbData
<1>3. cp0[REG_EPC] \in Word /\ cp0[REG_EBASE] \in Word /\ cp0[REG_BADVADDR] \in Word
  BY DEF TypeOK, Cp0Num, REG_EPC, REG_EBASE, REG_BADVADDR
<1>4. EXCEPTION_VECTOR \in Word
  BY CastType DEF EXCEPTION_VECTOR
<1>5. CASE WbEret
  BY <1>3, <1>5, BitwiseType, ZeroTypes DEF WbEret, InWb, FlushPipeline, TypeOK, Stage
<1>6. CASE WbExit
  BY <1>6 DEF WbExit, InWb, TypeOK, Stage, core
<1>7. CASE WbException
  <2>1. cp0' \in [Cp0Num -> Word]
    BY <1>1, <1>3, <1>7, BitwiseType, CauseType
       DEF WbException, TypeOK, REG_EPC, REG_CAUSE, REG_SR, REG_BADVADDR, Cp0Num
  <2>2. pc' \in Word
    BY <1>3, <1>4, <1>7 DEF WbException
  <2> QED  BY <1>7, <2>1, <2>2, ZeroTypes DEF WbException, InWb, FlushPipeline, TypeOK, Stage
<1>8. CASE WbCommit
  <2>1. cp0' \in [Cp0Num -> Word] /\ regs' \in [RegNum -> Word]
    BY <1>2, <1>8, SmallWords DEF WbCommit, TypeOK
  <2> QED  BY <1>8, <2>1 DEF WbCommit, InWb, TypeOK, Stage
<1> QED  BY <1>5, <1>6, <1>7, <1>8

LEMMA MemType == TypeOK /\ (MemForward \/ MemLoad \/ MemStore \/ MemPass) => TypeOK'
<1> SUFFICES ASSUME TypeOK, MemForward \/ MemLoad \/ MemStore \/ MemPass PROVE TypeOK'
  OBVIOUS
<1>1. ex_mem \in ExMem /\ mem_wb \in MemWb
  BY DEF TypeOK
<1>2. MemCopied \in MemWb
  BY <1>1 DEF MemCopied, ExMem, MemWb, Exception
<1>3. CASE MemForward
  <2>1. mem_wb' \in MemWb
    BY <1>1, <1>2, <1>3 DEF MemForward, MemWb, ExMem
  <2> QED  BY <1>3, <2>1 DEF MemForward, TypeOK, Stage
<1>4. CASE MemLoad
  <2> DEFINE r == LoadResult(ex_mem.inst, pmem, ex_mem.alu_res,
                             regs[ex_mem.reg_dst], mem_wb.read_data)
  <2>1. r.data \in Word
    BY <1>1, LoadType DEF MemWb
  <2>2. /\ mem_wb' = mem_wb \/ mem_wb' = [MemCopied EXCEPT !.read_data = r.data]
        /\ at' \in Stage
    BY <1>4 DEF MemLoad, Stage
  <2> HIDE DEF r
  <2>3. mem_wb' \in MemWb
    BY <1>1, <1>2, <2>1, <2>2 DEF MemWb
  <2> QED  BY <1>4, <2>2, <2>3 DEF MemLoad, TypeOK
<1>5. CASE MemStore
  <2> DEFINE r == StoreResult(ex_mem.inst, pmem, ex_mem.alu_res, ex_mem.rt_value,
                              regs[ex_mem.inst.rt])
  <2>1. IsMemory(pmem) /\ ex_mem.alu_res \in Word
    BY <1>1 DEF TypeOK, IsMemory, ExMem
  <2>2. IsMemory(r.pmem) /\ r.exception \in Exception
    BY <2>1, StoreType
  <2>3. /\ mem_wb' = mem_wb \/ mem_wb' = [MemCopied EXCEPT !.exception = r.exception]
        /\ pmem' = r.pmem /\ at' \in Stage
    BY <1>5 DEF MemStore, Stage
  <2> HIDE DEF r
  <2>4. mem_wb' \in MemWb
    BY <1>1, <1>2, <2>2, <2>3 DEF MemWb
  <2> QED  BY <1>5, <2>2, <2>3, <2>4 DEF MemStore, TypeOK, IsMemory
<1>6. CASE MemPass
  BY <1>2, <1>6 DEF MemPass, TypeOK, Stage
<1> QED  BY <1>3, <1>4, <1>5, <1>6

LEMMA ExType == TypeOK /\ InterpretEx => TypeOK'
<1> SUFFICES ASSUME TypeOK, InterpretEx PROVE TypeOK'
  OBVIOUS
<1>1. id_ex \in IdEx /\ ex_mem \in ExMem /\ if_id \in IfId /\ pc \in Word
  BY DEF TypeOK
<1>2. id_ex.c \in ControlSignals /\ id_ex.rs_value \in Word /\ id_ex.exception \in Exception
      /\ id_ex.BadVAddr \in Word /\ id_ex.rd \in 0 .. 32 /\ id_ex.rt \in 0 .. 32
  BY <1>1 DEF IdEx, RegNum
<1>3. ExCopied \in ExMem
  <2>1. id_ex.c.mem_read \in BOOLEAN /\ id_ex.c.mem_write \in BOOLEAN
        /\ id_ex.c.reg_write \in BOOLEAN /\ id_ex.c.mem_to_reg \in BOOLEAN
    BY <1>2 DEF ControlSignals
  <2> QED  BY <1>1, <2>1 DEF ExCopied, ExMem, IdEx
<1>4. ExCopied.alu_res \in Word
  BY <1>3 DEF ExMem
<1>5. ex_mem' \in ExMem
  <2>1. CASE id_ex.exception # "None"
    BY <1>2, <1>3, <2>1 DEF InterpretEx, ExMem
  <2>2. CASE id_ex.exception = "None"
    <3>1. AluResult(id_ex, ExCopied.alu_res) \in Word /\ AluException(id_ex) \in Exception
      BY <1>1, <1>4, AluType
    <3> QED  BY <1>2, <1>3, <2>2, <3>1 DEF InterpretEx, ExMem
  <2> QED  BY <2>1, <2>2
<1>6. pc' \in Word
  BY <1>1, RedirectType DEF InterpretEx
<1>7. if_id' \in IfId
  BY <1>1 DEF InterpretEx, IfId
<1>8. id_ex' \in IdEx
  BY <1>1, <1>2 DEF InterpretEx, IdEx
<1> QED  BY <1>5, <1>6, <1>7, <1>8 DEF InterpretEx, TypeOK, Stage

LEMMA DecodedType == ASSUME TypeOK, NEW i \in Instr PROVE Decoded(i) \in IdEx
<1>1. /\ i.rs \in RegNum /\ i.rt \in RegNum /\ i.rd \in RegNum /\ i.shamt \in RegNum
      /\ i.funct \in Functs /\ i.imm \in 0 .. HalfSize - 1
  BY DEF Instr
<1>2. /\ if_id.next_pc \in Word /\ if_id.BadVAddr \in Word
      /\ if_id.is_branch_delay \in BOOLEAN /\ id_ex.jump_addr \in Word
  BY DEF TypeOK, IfId, IdEx
<1>3. RsValue(i, if_id.next_pc, regs, cp0) \in Word
  <2>1. i.rd + 1 \in Cp0Num
    BY <1>1 DEF RegNum, Cp0Num
  <2>2. regs[i.rs] \in Word /\ regs[i.rt] \in Word /\ cp0[i.rd + 1] \in Word
    BY <1>1, <2>1 DEF TypeOK
  <2> QED  BY <2>2, CastType DEF RsValue
<1>4. RtValue(i, regs) \in Word
  BY <1>1, SmallWords DEF RtValue, TypeOK
<1>5. SourceRs(i) \in 0 .. 32 /\ SourceRt(i) \in RegNum /\ DestRd(i) \in 0 .. 32
  BY <1>1 DEF SourceRs, SourceRt, DestRd, RegNum, REG_RA
<1>6. Funct(i) \in Functs
  BY <1>1 DEF Funct, Functs
<1>7. JumpAddr(i, if_id.next_pc) \in Word
  BY CastType DEF JumpAddr
<1>8. SIGN_EXTEND(i.imm) \in Word
  BY <1>1, SignExtendType
<1>9. Control(i) \in ControlSignals
  BY ControlType
<1> QED  BY <1>1, <1>2, <1>3, <1>4, <1>5, <1>6, <1>7, <1>8, <1>9
         DEF Decoded, IdEx, Exception

LEMMA IdType == TypeOK /\ InterpretId => TypeOK'
<1> SUFFICES ASSUME TypeOK, InterpretId PROVE TypeOK'
  OBVIOUS
<1>1. if_id.inst \in Instr /\ if_id.exception \in Exception
  BY DEF TypeOK, IfId
<1>2. id_ex' \in IdEx
  <2>1. CASE if_id.exception = "None"
    BY <1>1, <2>1, DecodedType DEF InterpretId
  <2>2. CASE if_id.exception # "None"
    <3> DEFINE i == if_id.inst
    <3>1. Decoded(NOP) \in IdEx
      BY DecodedType, NopType
    <3>2. id_ex.c \in ControlSignals /\ id_ex.jump_addr \in Word
      BY DEF TypeOK, IdEx
    <3>3. /\ i.rs \in RegNum /\ i.rt \in RegNum /\ i.rd \in RegNum /\ i.shamt \in RegNum
          /\ i.funct \in Functs /\ i.imm \in 0 .. HalfSize - 1
      BY <1>1 DEF Instr
    <3>4. regs[i.rs] \in Word /\ regs[i.rt] \in Word /\ SIGN_EXTEND(i.imm) \in Word
      BY <3>3, SignExtendType DEF TypeOK
    <3>5. i.rs \in 0 .. 32 /\ i.rd \in 0 .. 32
      BY <3>3 DEF RegNum
    <3> QED  BY <1>1, <2>2, <3>1, <3>2, <3>3, <3>4, <3>5 DEF InterpretId, IdEx
  <2> QED  BY <2>1, <2>2
<1> QED  BY <1>2 DEF InterpretId, TypeOK, Stage

LEMMA FetchType == ASSUME TypeOK PROVE Fetch.data \in Word /\ Decode[Fetch.data] \in Instr
<1>1. Fetch.data \in Word
  BY ReadType, SmallWords DEF Fetch
<1> QED  BY <1>1, DecodeAssumption

LEMMA IfType == TypeOK /\ (IfStall \/ IfFetch \/ IfSegv) => TypeOK'
<1> SUFFICES ASSUME TypeOK, IfStall \/ IfFetch \/ IfSegv PROVE TypeOK'
  OBVIOUS
<1>1. CASE IfStall
  <2>1. if_id' \in IfId
    BY <1>1, NopType DEF IfStall, TypeOK, IfId, Exception
  <2> QED  BY <1>1, <2>1 DEF IfStall, TypeOK, Stage
<1>2. CASE IfFetch
  <2>1. if_id' \in IfId
    BY <1>2, FetchType, CastType, SmallWords DEF IfFetch, IfId, Exception
  <2> QED  BY <1>2, <2>1, CastType DEF IfFetch, TypeOK, Stage
<1>3. CASE IfSegv
  BY <1>3 DEF IfSegv, TypeOK, Stage, core
<1> QED  BY <1>1, <1>2, <1>3

LEMMA FwdType == TypeOK /\ ForwardingUnit => TypeOK'
<1> SUFFICES ASSUME TypeOK, ForwardingUnit PROVE TypeOK'
  OBVIOUS
<1>1. id_ex \in IdEx /\ id_ex.rs_value \in Word /\ id_ex.rt_value \in Word
      /\ ex_mem.alu_res \in Word /\ WbData \in Word
  BY DEF TypeOK, IdEx, ExMem, MemWb, WbData
<1>2. \A r : \A value \in Word : Mux(r, value).value \in Word
  BY <1>1 DEF Mux
<1>3. id_ex' \in IdEx
  BY <1>1, <1>2 DEF ForwardingUnit, IdEx
<1> QED  BY <1>3 DEF ForwardingUnit, TypeOK, Stage

LEMMA NextType == TypeOK /\ [Next]_vars => TypeOK'
<1> SUFFICES ASSUME TypeOK, [Next]_vars PROVE TypeOK'
  OBVIOUS
<1>1. CASE RunTick \/ RunReturn
  BY <1>1 DEF RunTick, RunReturn, TypeOK, Stage, core
<1>2. CASE Tick
  BY <1>2, WbType, MemType, ExType, IdType, IfType, FwdType DEF Tick
<1>3. CASE Ended \/ UNCHANGED vars
  BY <1>3 DEF Ended, vars, core, TypeOK
<1> QED  BY <1>1, <1>2, <1>3 DEF Next

(***************************************************************************)
(* Every register, latch field and memory byte stays within its C type in  *)
(* every reachable state, and no byte outside the buffer that mmu_init     *)
(* allocated is ever written, for every program and every memory size.     *)
(***************************************************************************)
THEOREM TypeCorrect == Spec => []TypeOK
<1>1. Init => TypeOK
  BY InitType
<1>2. TypeOK /\ [Next]_vars => TypeOK'
  BY NextType
<1> QED  BY <1>1, <1>2, PTL DEF Spec

-----------------------------------------------------------------------------
(***************************************************************************)
(* Data hazards.  OperandsFresh speaks of one point of a tick; the         *)
(* inductive invariant follows the same facts through the stages.          *)
(***************************************************************************)

(* No stage before EX raises an exception: fetching never does. *)
NoEarlyException == if_id.exception = "None" /\ id_ex.exception = "None"

(* ID/EX names the operands of the instruction in it, and the control      *)
(* signals of a load are those of a load.                                  *)
DecodeConsistent ==
    /\ id_ex.rs = SourceRs(id_ex.inst) /\ id_ex.rt = SourceRt(id_ex.inst)
    /\ id_ex.c.mem_read => /\ ~id_ex.c.reg_dst /\ id_ex.c.reg_write
                           /\ id_ex.inst.op \in Loads
    /\ ex_mem.c_mem_read => ex_mem.c_reg_write /\ ex_mem.inst.op \in Loads

(* Between ID and the forwarding unit the operands are as read. *)
OperandsAsRead ==
    at \in {"if", "fwd"} /\ ReadsRegisters(id_ex.inst) =>
        /\ id_ex.rs_value = IF IsMFC0(id_ex.inst) THEN cp0[id_ex.rs] ELSE regs[id_ex.rs]
        /\ id_ex.rt_value = regs[id_ex.rt]

(* An instruction is kept one tick away from a load whose result it reads. *)
Interlock ==
    /\ at \in {"fwd", "run", "wb", "mem", "ex"} =>
          (id_ex.c.mem_read /\ id_ex.rt # 0
              => id_ex.rt # if_id.inst.rs /\ id_ex.rt # if_id.inst.rt)
    /\ at = "id" =>
          (ex_mem.c_mem_read /\ ex_mem.reg_dst # 0
              => ex_mem.reg_dst # if_id.inst.rs /\ ex_mem.reg_dst # if_id.inst.rt)
    /\ at \in {"if", "fwd"} =>
          (ReadsRegisters(id_ex.inst) /\ ~IsMFC0(id_ex.inst) => NoPendingLoad)

HazardInv ==
    /\ ZeroRegister /\ NoEarlyException /\ DecodeConsistent
    /\ OperandsAsRead /\ Interlock /\ OperandsFresh

LEMMA InitHazard == Init => HazardInv
<1> SUFFICES ASSUME Init PROVE HazardInv
  OBVIOUS
<1>1. /\ regs[0] = 0 /\ at = "run"
      /\ if_id = ZeroIfId /\ id_ex = ZeroIdEx /\ ex_mem = ZeroExMem /\ mem_wb = ZeroMemWb
  BY DEF Init, RegNum, REG_SP
<1>2. ZeroRegister /\ NoEarlyException
  BY <1>1 DEF ZeroRegister, NoEarlyException, ZeroIfId, ZeroIdEx
<1>3. SourceRs(NOP) = 0 /\ SourceRt(NOP) = 0 /\ ~IsMFC0(NOP)
  BY DEF SourceRs, SourceRt, NOP, IsMFC0, IsMTC0
<1>4. DecodeConsistent
  BY <1>1, <1>3 DEF DecodeConsistent, ZeroIdEx, ZeroExMem, NoControl
<1>5. OperandsAsRead /\ Interlock
  BY <1>1 DEF OperandsAsRead, Interlock, ZeroIdEx, NoControl
<1>6. OperandsFresh
  BY <1>1, <1>3 DEF OperandsFresh, OperandsAreLatest, NoPendingLoad, LatestGpr, WritesGpr,
                    ZeroIdEx, ZeroExMem, ZeroMemWb
<1> QED  BY <1>2, <1>4, <1>5, <1>6 DEF HazardInv

LEMMA WbHazard ==
    TypeOK /\ HazardInv /\ (WbEret \/ WbExit \/ WbException \/ WbCommit) => HazardInv'
<1> SUFFICES ASSUME TypeOK, HazardInv, WbEret \/ WbExit \/ WbException \/ WbCommit
             PROVE  HazardInv'
  OBVIOUS
<1>1. at' = "mem" /\ at = "wb"
  BY DEF WbEret, WbExit, WbException, WbCommit, InWb
<1>2. ZeroRegister'
  BY DEF WbEret, WbExit, WbException, WbCommit, core, HazardInv, ZeroRegister, TypeOK, RegNum
<1>3. \/ FlushPipeline
      \/ UNCHANGED <<if_id, id_ex, ex_mem>>
  BY DEF WbEret, WbExit, WbException, WbCommit, core
<1>4. CASE FlushPipeline
  <2>1. SourceRs(NOP) = 0 /\ SourceRt(NOP) = 0
    BY DEF SourceRs, SourceRt, NOP, IsMFC0, IsMTC0
  <2> QED  BY <1>1, <1>2, <1>4, <2>1
           DEF HazardInv, FlushPipeline, NoEarlyException, DecodeConsistent, OperandsAsRead,
               Interlock, OperandsFresh, ZeroIfId, ZeroIdEx, ZeroExMem, NoControl
<1>5. CASE UNCHANGED <<if_id, id_ex, ex_mem>>
  BY <1>1, <1>2, <1>5 DEF HazardInv, NoEarlyException, DecodeConsistent, OperandsAsRead,
                          Interlock, OperandsFresh
<1> QED  BY <1>3, <1>4, <1>5

LEMMA MemHazard ==
    HazardInv /\ (MemForward \/ MemLoad \/ MemStore \/ MemPass) => HazardInv'
<1> SUFFICES ASSUME HazardInv, MemForward \/ MemLoad \/ MemStore \/ MemPass
             PROVE  HazardInv'
  OBVIOUS
<1>1. at = "mem" /\ at' \in {"ex", "segv"} /\ UNCHANGED <<regs, if_id, id_ex, ex_mem>>
  BY DEF MemForward, MemLoad, MemStore, MemPass
<1> QED  BY <1>1 DEF HazardInv, ZeroRegister, NoEarlyException, DecodeConsistent,
                     OperandsAsRead, Interlock, OperandsFresh

LEMMA ExHazard == TypeOK /\ HazardInv /\ InterpretEx => HazardInv'
<1> SUFFICES ASSUME TypeOK, HazardInv, InterpretEx PROVE HazardInv'
  OBVIOUS
<1>1. at = "ex" /\ at' = "id" /\ id_ex.exception = "None" /\ UNCHANGED regs
  BY DEF InterpretEx, HazardInv, NoEarlyException
<1>2. if_id'.inst = if_id.inst /\ if_id'.exception = if_id.exception
  BY <1>1 DEF InterpretEx, TypeOK, IfId
<1>3. /\ id_ex'.inst = id_ex.inst /\ id_ex'.rs = id_ex.rs /\ id_ex'.rt = id_ex.rt
      /\ id_ex'.c = id_ex.c /\ id_ex'.exception = id_ex.exception
  BY <1>1 DEF InterpretEx, TypeOK, IdEx
<1>4. /\ ex_mem'.c_mem_read = id_ex.c.mem_read /\ ex_mem'.c_reg_write = id_ex.c.reg_write
      /\ ex_mem'.inst = id_ex.inst
      /\ ex_mem'.reg_dst = IF id_ex.c.reg_dst THEN id_ex.rd ELSE id_ex.rt
  BY <1>1 DEF InterpretEx, ExCopied, TypeOK, ExMem
<1> QED  BY <1>1, <1>2, <1>3, <1>4
         DEF HazardInv, ZeroRegister, NoEarlyException, DecodeConsistent, OperandsAsRead,
             Interlock, OperandsFresh

LEMMA IdHazard == TypeOK /\ HazardInv /\ InterpretId => HazardInv'
<1> SUFFICES ASSUME TypeOK, HazardInv, InterpretId PROVE HazardInv'
  OBVIOUS
<1> DEFINE i == if_id.inst
<1>1. at = "id" /\ at' = "if" /\ UNCHANGED <<regs, cp0, if_id, ex_mem>>
      /\ id_ex' = Decoded(i)
  BY DEF InterpretId, HazardInv, NoEarlyException
<1>2. /\ id_ex'.inst = i /\ id_ex'.rs = SourceRs(i) /\ id_ex'.rt = SourceRt(i)
      /\ id_ex'.c = Control(i) /\ id_ex'.exception = "None"
      /\ id_ex'.rs_value = RsValue(i, if_id.next_pc, regs, cp0)
      /\ id_ex'.rt_value = RtValue(i, regs)
  BY <1>1 DEF Decoded
<1> HIDE DEF i
<1>3. ZeroRegister' /\ NoEarlyException'
  BY <1>1, <1>2 DEF HazardInv, ZeroRegister, NoEarlyException
<1>4. DecodeConsistent'
  <2>1. Control(i).mem_read => /\ ~Control(i).reg_dst /\ Control(i).reg_write
                               /\ i.op \in Loads
    BY DEF Control, Loads, IsMFC0, IsMTC0
  <2> QED  BY <1>1, <1>2, <2>1 DEF HazardInv, DecodeConsistent
<1>5. OperandsAsRead'
  <2>1. ReadsRegisters(i) =>
            /\ RsValue(i, if_id.next_pc, regs, cp0)
                  = IF IsMFC0(i) THEN cp0[SourceRs(i)] ELSE regs[SourceRs(i)]
            /\ RtValue(i, regs) = regs[SourceRt(i)]
    BY DEF RsValue, RtValue, SourceRs, SourceRt, ReadsRegisters, HazardInv, ZeroRegister,
           IsMFC0, IsMTC0, CP0_MFC0, CP0_MTC0
  <2> QED  BY <1>1, <1>2, <2>1 DEF OperandsAsRead
<1>6. Interlock'
  <2>1. ex_mem.c_mem_read /\ ex_mem.reg_dst # 0
            => ex_mem.reg_dst # i.rs /\ ex_mem.reg_dst # i.rt
    BY <1>1 DEF HazardInv, Interlock, i
  <2>2. ReadsRegisters(i) /\ ~IsMFC0(i) =>
            SourceRs(i) \in {i.rs, i.rt} /\ SourceRt(i) \in {0, i.rt}
    BY DEF ReadsRegisters, SourceRs, SourceRt
  <2>3. ReadsRegisters(i) /\ ~IsMFC0(i) => NoPendingLoad'
    BY <1>1, <1>2, <2>1, <2>2 DEF NoPendingLoad
  <2> QED  BY <1>1, <1>2, <2>3 DEF Interlock
<1>7. OperandsFresh'
  BY <1>1 DEF OperandsFresh
<1> QED  BY <1>3, <1>4, <1>5, <1>6, <1>7 DEF HazardInv

LEMMA IfHazard == TypeOK /\ HazardInv /\ (IfStall \/ IfFetch \/ IfSegv) => HazardInv'
<1> SUFFICES ASSUME TypeOK, HazardInv, IfStall \/ IfFetch \/ IfSegv PROVE HazardInv'
  OBVIOUS
<1>1. at = "if" /\ at' \in {"fwd", "segv"} /\ UNCHANGED <<regs, cp0, id_ex, ex_mem>>
  BY DEF IfStall, IfFetch, IfSegv, core
<1>2. if_id'.exception = "None"
  <2>1. CASE IfStall
    BY <2>1 DEF IfStall, TypeOK, IfId
  <2>2. CASE IfFetch
    BY <2>2 DEF IfFetch
  <2>3. CASE IfSegv
    BY <2>3 DEF IfSegv, core, HazardInv, NoEarlyException
  <2> QED  BY <2>1, <2>2, <2>3
<1>3. ZeroRegister' /\ NoEarlyException' /\ DecodeConsistent'
  BY <1>1, <1>2 DEF HazardInv, ZeroRegister, NoEarlyException, DecodeConsistent
<1>4. OperandsAsRead' /\ OperandsFresh'
  BY <1>1 DEF HazardInv, OperandsAsRead, OperandsFresh
<1>5. at' = "fwd" => (id_ex.c.mem_read /\ id_ex.rt # 0
                         => id_ex.rt # if_id'.inst.rs /\ id_ex.rt # if_id'.inst.rt)
  <2>1. CASE IfStall
    <3>1. if_id'.inst = NOP
      BY <2>1 DEF IfStall, TypeOK, IfId
    <3> QED  BY <3>1 DEF NOP
  <2>2. CASE IfFetch
    BY <2>2 DEF IfFetch, LoadUse
  <2>3. CASE IfSegv
    BY <2>3 DEF IfSegv
  <2> QED  BY <2>1, <2>2, <2>3
<1>6. ReadsRegisters(id_ex.inst) /\ ~IsMFC0(id_ex.inst) => NoPendingLoad
  BY <1>1 DEF HazardInv, Interlock
<1>7. Interlock'
  BY <1>1, <1>5, <1>6 DEF Interlock, NoPendingLoad
<1> QED  BY <1>3, <1>4, <1>7 DEF HazardInv

(* Without a clash, the MUXes select what the older instructions produce. *)
LEMMA MuxSelectsLatest ==
    ASSUME HazardInv, at = "fwd", ReadsRegisters(id_ex.inst),
           ~Clashes(ex_mem), ~Clashes(mem_wb)
    PROVE  LET A == Mux(id_ex.rs, id_ex.rs_value)
               B == Mux(id_ex.rt, id_ex.rt_value)
           IN  /\ ~A.stop
               /\ A.value = IF IsMFC0(id_ex.inst) THEN LatestCp0(id_ex.rs)
                            ELSE LatestGpr(id_ex.rs)
               /\ B.value = LatestGpr(id_ex.rt)
<1>1. /\ id_ex.rs_value = IF IsMFC0(id_ex.inst) THEN cp0[id_ex.rs] ELSE regs[id_ex.rs]
      /\ id_ex.rt_value = regs[id_ex.rt]
  BY DEF HazardInv, OperandsAsRead
<1>2. CASE IsMFC0(id_ex.inst)
  <2>1. id_ex.rt = 0
    BY <1>2 DEF HazardInv, DecodeConsistent, SourceRt, IsMFC0, IsMTC0
  <2>2. \A x \in {ex_mem, mem_wb} :
            x.c_reg_write /\ x.reg_dst # 0 /\ x.reg_dst = id_ex.rs
               => WritesCp0(x) /\ ~Illegal(x.inst, id_ex.inst)
    BY <1>2 DEF Clashes, WritesGpr, WritesCp0, Illegal, IsMTC0, IsMFC0
  <2> QED  BY <1>1, <1>2, <2>1, <2>2 DEF Mux, LatestCp0, LatestGpr, WritesCp0, WritesGpr
<1>3. CASE ~IsMFC0(id_ex.inst)
  <2>1. \A x \in {ex_mem, mem_wb} :
            x.c_reg_write /\ x.reg_dst # 0 /\ x.reg_dst \in {id_ex.rs, id_ex.rt}
               => WritesGpr(x) /\ ~Illegal(x.inst, id_ex.inst)
    BY <1>3 DEF Clashes, WritesGpr, WritesCp0, Illegal
  <2> QED  BY <1>1, <1>3, <2>1 DEF Mux, LatestGpr, WritesGpr
<1> QED  BY <1>2, <1>3

LEMMA FwdHazard == TypeOK /\ HazardInv /\ ForwardingUnit => HazardInv'
<1> SUFFICES ASSUME TypeOK, HazardInv, ForwardingUnit PROVE HazardInv'
  OBVIOUS
<1> DEFINE A == Mux(id_ex.rs, id_ex.rs_value)
           B == Mux(id_ex.rt, id_ex.rt_value)
<1>1. at = "fwd" /\ at' = "run" /\ UNCHANGED <<regs, cp0, if_id, ex_mem, mem_wb>>
  BY DEF ForwardingUnit
<1>2. id_ex' = id_ex \/ id_ex' = [id_ex EXCEPT !.rs_value = A.value, !.rt_value = B.value]
  BY DEF ForwardingUnit
<1>3. id_ex.inst # INSTRUCTION_ERET /\ ~A.stop =>
          id_ex' = [id_ex EXCEPT !.rs_value = A.value, !.rt_value = B.value]
  BY DEF ForwardingUnit
<1> HIDE DEF A, B
<1>4. /\ id_ex'.inst = id_ex.inst /\ id_ex'.rs = id_ex.rs /\ id_ex'.rt = id_ex.rt
      /\ id_ex'.c = id_ex.c /\ id_ex'.exception = id_ex.exception
  BY <1>2 DEF TypeOK, IdEx
<1>5. ZeroRegister' /\ NoEarlyException' /\ DecodeConsistent'
  BY <1>1, <1>4 DEF HazardInv, ZeroRegister, NoEarlyException, DecodeConsistent
<1>6. OperandsAsRead' /\ Interlock'
  BY <1>1, <1>4 DEF HazardInv, OperandsAsRead, Interlock
<1>7. OperandsFresh'
  <2> SUFFICES ASSUME ReadsRegisters(id_ex.inst), ~Clashes(ex_mem), ~Clashes(mem_wb)
               PROVE  OperandsAreLatest' /\ NoPendingLoad'
    BY <1>1, <1>4 DEF OperandsFresh, Clashes, WritesGpr, WritesCp0
  <2>1. /\ ~A.stop
        /\ A.value = IF IsMFC0(id_ex.inst) THEN LatestCp0(id_ex.rs) ELSE LatestGpr(id_ex.rs)
        /\ B.value = LatestGpr(id_ex.rt)
    BY <1>1, MuxSelectsLatest DEF A, B
  <2>2. id_ex'.rs_value = A.value /\ id_ex'.rt_value = B.value
    BY <1>3, <2>1 DEF ReadsRegisters, TypeOK, IdEx
  <2>3. \A r : LatestGpr(r)' = LatestGpr(r) /\ LatestCp0(r)' = LatestCp0(r)
    BY <1>1 DEF LatestGpr, LatestCp0, WritesGpr, WritesCp0, WbData
  <2>4. OperandsAreLatest'
    BY <1>1, <1>4, <2>1, <2>2, <2>3
       DEF OperandsAreLatest, LatestGpr, LatestCp0, WritesGpr, WritesCp0, WbData
  <2>5. NoPendingLoad
    <3>1. CASE IsMFC0(id_ex.inst)
      <4>1. id_ex.rt = 0
        BY <3>1 DEF HazardInv, DecodeConsistent, SourceRt, IsMFC0, IsMTC0
      <4>2. ex_mem.c_mem_read /\ ex_mem.reg_dst # 0 => WritesGpr(ex_mem)
        BY DEF HazardInv, DecodeConsistent, WritesGpr, IsMTC0, Loads
      <4> QED  BY <3>1, <4>1, <4>2 DEF NoPendingLoad, Clashes
    <3>2. CASE ~IsMFC0(id_ex.inst)
      BY <1>1, <3>2 DEF HazardInv, Interlock
    <3> QED  BY <3>1, <3>2
  <2> QED  BY <1>1, <1>4, <2>4, <2>5 DEF NoPendingLoad
<1> QED  BY <1>5, <1>6, <1>7 DEF HazardInv

LEMMA NextHazard == TypeOK /\ HazardInv /\ [Next]_vars => HazardInv'
<1> SUFFICES ASSUME TypeOK, HazardInv, [Next]_vars PROVE HazardInv'
  OBVIOUS
<1>1. CASE RunTick \/ RunReturn
  <2>1. at = "run" /\ at' \in {"wb", "exit", "segv"} /\ UNCHANGED <<regs, if_id, id_ex, ex_mem>>
    BY <1>1 DEF RunTick, RunReturn, core
  <2> QED  BY <2>1 DEF HazardInv, ZeroRegister, NoEarlyException, DecodeConsistent,
                       OperandsAsRead, Interlock, OperandsFresh
<1>2. CASE Tick
  BY <1>2, WbHazard, MemHazard, ExHazard, IdHazard, IfHazard, FwdHazard DEF Tick
<1>3. CASE Ended \/ UNCHANGED vars
  BY <1>3 DEF Ended, vars, core, HazardInv, ZeroRegister, NoEarlyException, DecodeConsistent,
              OperandsAsRead, Interlock, OperandsFresh, OperandsAreLatest, NoPendingLoad,
              LatestGpr, LatestCp0, WritesGpr, WritesCp0, WbData, Clashes
<1> QED  BY <1>1, <1>2, <1>3 DEF Next

(***************************************************************************)
(* Forwarding and stalling resolve every data hazard: whenever a tick is   *)
(* over, the instruction about to execute holds the values that the older  *)
(* instructions produce, and no result that is still to be loaded is among *)
(* them, for every program that avoids CP0 number clashes.                 *)
(***************************************************************************)
THEOREM HazardsResolved == Spec => []OperandsFresh
<1>1. Init => TypeOK /\ HazardInv
  BY InitType, InitHazard
<1>2. (TypeOK /\ HazardInv) /\ [Next]_vars => (TypeOK /\ HazardInv)'
  BY NextType, NextHazard
<1>3. TypeOK /\ HazardInv => OperandsFresh
  BY DEF HazardInv
<1> QED  BY <1>1, <1>2, <1>3, PTL DEF Spec

(***************************************************************************)
(* $zero is zero in every reachable state.                                 *)
(***************************************************************************)
THEOREM ZeroStaysZero == Spec => []ZeroRegister
<1>1. Init => TypeOK /\ HazardInv
  BY InitType, InitHazard
<1>2. (TypeOK /\ HazardInv) /\ [Next]_vars => (TypeOK /\ HazardInv)'
  BY NextType, NextHazard
<1>3. TypeOK /\ HazardInv => ZeroRegister
  BY DEF HazardInv
<1> QED  BY <1>1, <1>2, <1>3, PTL DEF Spec

-----------------------------------------------------------------------------
(***************************************************************************)
(* Precise exceptions.  WB deals with the exception in MEM/WB before MEM   *)
(* lets the next instruction store.                                        *)
(***************************************************************************)
NothingPending == at = "mem" /\ ~g_finished => mem_wb.exception = "None"

LEMMA NextNothingPending == NothingPending /\ [Next]_vars => NothingPending'
<1> SUFFICES ASSUME NothingPending, [Next]_vars, at' = "mem", ~g_finished'
             PROVE  mem_wb'.exception = "None"
  BY DEF NothingPending
<1>1. CASE WbEret \/ WbException
  BY <1>1 DEF WbEret, WbException, FlushPipeline, ZeroMemWb
<1>2. CASE WbExit
  BY <1>2 DEF WbExit
<1>3. CASE WbCommit
  BY <1>3 DEF WbCommit
<1>4. CASE Ended \/ UNCHANGED vars
  BY <1>4 DEF Ended, vars, core, NothingPending
<1>5. CASE RunTick \/ RunReturn
  BY <1>5 DEF RunTick, RunReturn
<1>6. CASE MemForward \/ MemLoad \/ MemStore \/ MemPass
  BY <1>6 DEF MemForward, MemLoad, MemStore, MemPass
<1>7. CASE InterpretEx \/ InterpretId \/ IfStall \/ IfFetch \/ IfSegv \/ ForwardingUnit
  BY <1>7 DEF InterpretEx, InterpretId, IfStall, IfFetch, IfSegv, ForwardingUnit
<1> QED  BY <1>1, <1>2, <1>3, <1>4, <1>5, <1>6, <1>7 DEF Next, Tick

LEMMA OnlyMemStores == [Next]_vars /\ pmem' # pmem => at = "mem"
BY DEF Next, Tick, RunTick, RunReturn, Ended, WbEret, WbExit, WbException, WbCommit,
       MemForward, MemLoad, MemStore, MemPass, InterpretEx, InterpretId, IfStall, IfFetch,
       IfSegv, ForwardingUnit, vars

-----------------------------------------------------------------------------
(***************************************************************************)
(* Overflow.                                                               *)
(***************************************************************************)
LEMMA SignedType == \A w \in Word : s32(w) \in INT_MIN .. INT_MAX
<1>1. WordSize \in Nat /\ 2 * SignSize = WordSize
  <2>1. PICK h \in Nat : ByteSize = 2 * h
    BY ByteAssumption, SMT
  <2>2. HalfSize \in Nat /\ WordSize = 2 * (h * ByteSize * HalfSize)
    BY <2>1, HalfSizeBound, SMT DEF HalfSize, WordSize
  <2>3. h * ByteSize * HalfSize \in Nat
    BY <2>1, <2>2, ByteAssumption, SMT
  <2>4. \A x \in Nat : (2 * x) \div 2 = x
    BY SMT
  <2> QED  BY <2>2, <2>3, <2>4, WordSizeBound DEF SignSize
<1>2. SignSize \in Nat
  BY <1>1, SMT DEF SignSize
<1> QED  BY <1>1, <1>2, SMT DEF s32, INT_MIN, INT_MAX, Word

LEMMA OnlyExExecutes == [Next]_vars /\ at = "ex" => InterpretEx \/ UNCHANGED vars
BY DEF Next, Tick, RunTick, RunReturn, Ended, WbEret, WbExit, WbException, WbCommit, InWb,
       MemForward, MemLoad, MemStore, MemPass, InterpretId, IfStall, IfFetch,
       IfSegv, ForwardingUnit, vars

(***************************************************************************)
(* EX raises an overflow exactly when the sum of its operands has no place *)
(* in an int32_t, for every program and every word width: interpret_ex_alu *)
(* calls check_soverflow with operands of the full signed range.           *)
(***************************************************************************)
THEOREM ExactOverflows == Spec => OverflowsAreExact
<1> DEFINE Exact == at = "ex" /\ id_ex.exception = "None" /\ ChecksOverflow(id_ex) =>
        (ex_mem'.exception = "ArithmeticOverflow" <=>
            s32(id_ex.rs_value) + s32(OperandB(id_ex)) \notin INT_MIN .. INT_MAX)
<1>1. Init => TypeOK
  BY InitType
<1>2. TypeOK /\ [Next]_vars => TypeOK'
  BY NextType
<1>3. TypeOK /\ [Next]_vars => [Exact]_vars
  <2> SUFFICES ASSUME TypeOK, [Next]_vars, ~UNCHANGED vars, at = "ex",
                      id_ex.exception = "None", ChecksOverflow(id_ex)
               PROVE  ex_mem'.exception = "ArithmeticOverflow" <=>
                        s32(id_ex.rs_value) + s32(OperandB(id_ex)) \notin INT_MIN .. INT_MAX
    OBVIOUS
  <2>1. InterpretEx
    BY OnlyExExecutes
  <2>2. id_ex.rs_value \in Word /\ OperandB(id_ex) \in Word
    BY DEF TypeOK, IdEx, OperandB
  <2>3. Overflows(id_ex) <=>
            s32(id_ex.rs_value) + s32(OperandB(id_ex)) \notin INT_MIN .. INT_MAX
    BY <2>2, SignedType, SoverflowExact DEF Overflows
  <2>4. AluException(id_ex) = "ArithmeticOverflow" <=> Overflows(id_ex)
    BY DEF AluException, ChecksOverflow
  <2>5. ExCopied \in [DOMAIN ExCopied -> {ExCopied[f] : f \in DOMAIN ExCopied}]
        /\ "exception" \in DOMAIN ExCopied
    BY DEF TypeOK, ExMem, ExCopied
  <2>6. ex_mem'.exception = AluException(id_ex)
    BY <2>1, <2>5 DEF InterpretEx
  <2> QED  BY <2>3, <2>4, <2>6
<1> QED  BY <1>1, <1>2, <1>3, PTL DEF Spec, OverflowsAreExact

=============================================================================
