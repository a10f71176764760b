------------------------------ MODULE Pipeline ------------------------------
(***************************************************************************)
(* The five-stage pipeline of one core and the loop that clocks it (sim.c, *)
(* cpu.h).  A tick runs the stages in the order WB, MEM, EX, ID, IF, then  *)
(* the forwarding unit; each is one step here, and the variable at says    *)
(* which one is next.  The program image and the data are in pmem.         *)
(***************************************************************************)
EXTENDS Instructions

CONSTANTS
    Images,     \* the initial memory contents that elf_dump may leave
    Entry       \* the entry point elf_dump stores in the PC

VARIABLES
    regs,       \* general purpose registers
    pc,         \* REG_PC
    cp0,        \* coprocessor 0 registers
    if_id, id_ex, ex_mem, mem_wb,   \* the pipeline registers
    pmem,       \* the bytes written to physical memory
    g_finished, \* the program asked to exit
    at          \* what the simulator does next

core == <<regs, pc, cp0, if_id, id_ex, ex_mem, mem_wb>>
vars == <<core, pmem, g_finished, at>>

Stage == {"run", "wb", "mem", "ex", "id", "if", "fwd", "exit", "segv"}

ASSUME EntryAssumption == Entry \in Word

ASSUME ImagesAssumption ==
    \A m \in Images : m \in [DOMAIN m -> Byte] /\ DOMAIN m \subseteq 0 .. memsz - 1

-----------------------------------------------------------------------------
(***************************************************************************)
(* The pipeline registers and their cleared (bzero'ed) contents.           *)
(***************************************************************************)
IfId == [inst : Instr, next_pc : Word, exception : Exception,
         BadVAddr : Word, is_branch_delay : BOOLEAN]

IdEx == [c : ControlSignals, shamt : RegNum, funct : Functs, next_pc : Word,
         rs_value : Word, rt_value : Word, jump_addr : Word,
         sign_ext_imm : Word, rs : 0 .. 32, rt : RegNum, rd : 0 .. 32,
         inst : Instr, is_branch_delay : BOOLEAN, exception : Exception,
         BadVAddr : Word]

ExMem == [c_reg_write : BOOLEAN, c_mem_read : BOOLEAN, c_mem_write : BOOLEAN,
          c_mem_to_reg : BOOLEAN, alu_res : Word, rt_value : Word,
          reg_dst : 0 .. 32, next_pc : Word, is_branch_delay : BOOLEAN,
          inst : Instr, exception : Exception, BadVAddr : Word]

MemWb == [c_reg_write : BOOLEAN, c_mem_to_reg : BOOLEAN, alu_res : Word,
          read_data : Word, reg_dst : 0 .. 32, next_pc : Word, inst : Instr,
          is_branch_delay : BOOLEAN, exception : Exception, BadVAddr : Word]

ZeroIfId == [inst |-> NOP, next_pc |-> 0, exception |-> "None", BadVAddr |-> 0,
             is_branch_delay |-> FALSE]

ZeroIdEx == [c |-> NoControl, shamt |-> 0, funct |-> "SLL", next_pc |-> 0,
             rs_value |-> 0, rt_value |-> 0, jump_addr |-> 0,
             sign_ext_imm |-> 0, rs |-> 0, rt |-> 0, rd |-> 0, inst |-> NOP,
             is_branch_delay |-> FALSE, exception |-> "None", BadVAddr |-> 0]

ZeroExMem == [c_reg_write |-> FALSE, c_mem_read |-> FALSE,
              c_mem_write |-> FALSE, c_mem_to_reg |-> FALSE, alu_res |-> 0,
              rt_value |-> 0, reg_dst |-> 0, next_pc |-> 0,
              is_branch_delay |-> FALSE, inst |-> NOP, exception |-> "None",
              BadVAddr |-> 0]

ZeroMemWb == [c_reg_write |-> FALSE, c_mem_to_reg |-> FALSE, alu_res |-> 0,
              read_data |-> 0, reg_dst |-> 0, next_pc |-> 0, inst |-> NOP,
              is_branch_delay |-> FALSE, exception |-> "None", BadVAddr |-> 0]

(***************************************************************************)
(* hw_init and cpu_init: everything is calloc'ed; SR(IE) is set and the    *)
(* stack pointer points to the last word of kseg0.  elf_dump has stored    *)
(* the image and the entry point.                                          *)
(***************************************************************************)
Init ==
    /\ regs = [r \in RegNum |->
                 IF r = REG_SP THEN u32(KSEG0_VSTART + size_kseg0 - 4) ELSE 0]
    /\ pc = Entry
    /\ cp0 = [r \in Cp0Num |-> IF r = REG_SR THEN SetBit(0, SR_IE) ELSE 0]
    /\ if_id = ZeroIfId /\ id_ex = ZeroIdEx
    /\ ex_mem = ZeroExMem /\ mem_wb = ZeroMemWb
    /\ pmem \in Images
    /\ g_finished = FALSE
    /\ at = "run"

-----------------------------------------------------------------------------
(***************************************************************************)
(* The loop of run(): it stops once the program has exited; otherwise it   *)
(* reads the word at the PC, for the debugger and the log, and ticks.      *)
(***************************************************************************)
Fetch == mmu_read(pmem, pc, 0, MEM_OP_WORD)

RunTick ==
    /\ at = "run" /\ ~g_finished
    /\ at' = IF Fetch.segv THEN "segv" ELSE "wb"
    /\ UNCHANGED <<core, pmem, g_finished>>

RunReturn ==
    /\ at = "run" /\ g_finished
    /\ at' = "exit"
    /\ UNCHANGED <<core, pmem, g_finished>>

(* The process is gone: it returned from run() or was killed by SIGSEGV. *)
Ended ==
    /\ at \in {"exit", "segv"}
    /\ UNCHANGED vars

-----------------------------------------------------------------------------
(***************************************************************************)
(* interpret_wb                                                            *)
(***************************************************************************)
(* Mutants: EX/MEM, or ID/EX, survives an exception. *)
FlushKeepsExMem ==
    /\ if_id' = ZeroIfId /\ id_ex' = ZeroIdEx /\ mem_wb' = ZeroMemWb
    /\ UNCHANGED ex_mem

FlushKeepsIdEx ==
    /\ if_id' = ZeroIfId /\ ex_mem' = ZeroExMem /\ mem_wb' = ZeroMemWb
    /\ UNCHANGED id_ex

FlushPipeline ==
    /\ if_id' = ZeroIfId /\ id_ex' = ZeroIdEx
    /\ ex_mem' = ZeroExMem /\ mem_wb' = ZeroMemWb

InWb == at = "wb" /\ at' = "mem"

WbEret ==
    /\ InWb
    /\ mem_wb.inst = INSTRUCTION_ERET
    /\ FlushPipeline
    /\ pc' = cp0[REG_EPC]
    /\ cp0' = [cp0 EXCEPT ![REG_SR] = ClearBit(@, SR_EXL)]
    /\ UNCHANGED <<regs, pmem, g_finished>>

ExitSyscall == mem_wb.exception = "Syscall" /\ regs[REG_V0] = 10

(* The rest of the tick still runs. *)
WbExit ==
    /\ InWb
    /\ mem_wb.inst # INSTRUCTION_ERET
    /\ ExitSyscall
    /\ g_finished' = TRUE
    /\ UNCHANGED <<core, pmem>>

(* handle_exception: the saved EPC is next_pc, the address after the victim. *)
WbException ==
    /\ InWb
    /\ mem_wb.inst # INSTRUCTION_ERET
    /\ mem_wb.exception # "None" /\ ~ExitSyscall
    /\ FlushPipeline
    /\ cp0' = [cp0 EXCEPT
                 ![REG_EPC] = mem_wb.next_pc,
                 ![REG_CAUSE] = get_cause(mem_wb.exception, mem_wb.is_branch_delay),
                 ![REG_BADVADDR] = IF mem_wb.exception = "AddressErrorLoad"
                                   THEN mem_wb.BadVAddr ELSE @,
                 ![REG_SR] = SetBit(@, SR_EXL)]
    /\ pc' = IF SR_BEV \in Bits(cp0[REG_SR]) THEN cp0[REG_EBASE] ELSE EXCEPTION_VECTOR
    /\ UNCHANGED <<regs, pmem, g_finished>>

(* The mem_to_reg MUX *)
WbData == IF mem_wb.c_mem_to_reg THEN mem_wb.read_data ELSE mem_wb.alu_res

(* Mutant: $0 is written like any other register. *)
WbCommitToZero ==
    /\ InWb
    /\ mem_wb.inst # INSTRUCTION_ERET
    /\ mem_wb.exception = "None"
    /\ regs' = IF mem_wb.c_reg_write THEN [regs EXCEPT ![mem_wb.reg_dst] = WbData] ELSE regs
    /\ UNCHANGED <<pc, cp0, if_id, id_ex, ex_mem, mem_wb, pmem, g_finished>>

WbCommit ==
    /\ InWb
    /\ mem_wb.inst # INSTRUCTION_ERET
    /\ mem_wb.exception = "None"
    /\ cp0' = IF mem_wb.c_reg_write /\ IsMTC0(mem_wb.inst)
              THEN [cp0 EXCEPT ![mem_wb.reg_dst] = WbData] ELSE cp0
    /\ regs' = IF mem_wb.c_reg_write /\ ~IsMTC0(mem_wb.inst)
               THEN [regs EXCEPT ![mem_wb.reg_dst] =
                                    IF mem_wb.reg_dst = 0 THEN 0 ELSE WbData]
               ELSE regs
    /\ UNCHANGED <<pc, if_id, id_ex, ex_mem, mem_wb, pmem, g_finished>>

-----------------------------------------------------------------------------
(***************************************************************************)
(* interpret_mem.  An access through a NULL pointer kills the simulator.   *)
(***************************************************************************)
MemCopied ==
    [mem_wb EXCEPT !.c_reg_write = ex_mem.c_reg_write,
                   !.reg_dst = ex_mem.reg_dst,
                   !.c_mem_to_reg = ex_mem.c_mem_to_reg,
                   !.alu_res = ex_mem.alu_res,
                   !.inst = ex_mem.inst,
                   !.next_pc = ex_mem.next_pc,
                   !.exception = "None",
                   !.is_branch_delay = ex_mem.is_branch_delay]

MemForward ==
    /\ at = "mem" /\ at' = "ex"
    /\ ex_mem.exception # "None"
    /\ mem_wb' = [MemCopied EXCEPT !.exception = ex_mem.exception,
                                   !.BadVAddr = ex_mem.BadVAddr]
    /\ UNCHANGED <<regs, pc, cp0, if_id, id_ex, ex_mem, pmem, g_finished>>

MemLoad ==
    /\ at = "mem"
    /\ ex_mem.exception = "None" /\ ex_mem.c_mem_read
    /\ LET r == LoadResult(ex_mem.inst, pmem, ex_mem.alu_res,
                           regs[ex_mem.reg_dst], mem_wb.read_data)
       IN  /\ mem_wb' = IF r.segv THEN mem_wb ELSE [MemCopied EXCEPT !.read_data = r.data]
           /\ at' = IF r.segv THEN "segv" ELSE "ex"
    /\ UNCHANGED <<regs, pc, cp0, if_id, id_ex, ex_mem, pmem, g_finished>>

MemStore ==
    /\ at = "mem"
    /\ ex_mem.exception = "None" /\ ~ex_mem.c_mem_read /\ ex_mem.c_mem_write
    /\ LET r == StoreResult(ex_mem.inst, pmem, ex_mem.alu_res, ex_mem.rt_value,
                            regs[ex_mem.inst.rt])
       IN  /\ mem_wb' = IF r.segv THEN mem_wb ELSE [MemCopied EXCEPT !.exception = r.exception]
           /\ pmem' = r.pmem
           /\ at' = IF r.segv THEN "segv" ELSE "ex"
    /\ UNCHANGED <<regs, pc, cp0, if_id, id_ex, ex_mem, g_finished>>

MemPass ==
    /\ at = "mem" /\ at' = "ex"
    /\ ex_mem.exception = "None" /\ ~ex_mem.c_mem_read /\ ~ex_mem.c_mem_write
    /\ mem_wb' = MemCopied
    /\ UNCHANGED <<regs, pc, cp0, if_id, id_ex, ex_mem, pmem, g_finished>>

-----------------------------------------------------------------------------
(***************************************************************************)
(* interpret_ex.  A taken branch sets the PC behind IF's back and marks    *)
(* the instruction in IF/ID as its delay slot.                             *)
(***************************************************************************)
ExCopied ==
    [ex_mem EXCEPT !.c_mem_read = id_ex.c.mem_read,
                   !.c_mem_write = id_ex.c.mem_write,
                   !.rt_value = id_ex.rt_value,
                   !.c_reg_write = id_ex.c.reg_write,
                   !.c_mem_to_reg = id_ex.c.mem_to_reg,
                   !.inst = id_ex.inst,
                   !.next_pc = id_ex.next_pc,
                   !.is_branch_delay = id_ex.is_branch_delay]

(* Mutant: a taken branch throws its delay slot away. *)
NoDelaySlot ==
    /\ at = "ex" /\ at' = "id"
    /\ ex_mem' = [ExCopied EXCEPT
          !.reg_dst = IF id_ex.c.reg_dst THEN id_ex.rd ELSE id_ex.rt,
          !.alu_res = AluResult(id_ex, @),
          !.exception = AluException(id_ex)]
    /\ pc' = IF Redirects(id_ex) THEN RedirectTo(id_ex) ELSE pc
    /\ if_id' = IF Redirects(id_ex) THEN ZeroIfId ELSE if_id
    /\ UNCHANGED <<regs, cp0, id_ex, mem_wb, pmem, g_finished>>

InterpretEx ==
    /\ at = "ex" /\ at' = "id"
    /\ IF id_ex.exception # "None"
       THEN /\ ex_mem' = [ExCopied EXCEPT !.exception = id_ex.exception,
                                          !.BadVAddr = id_ex.BadVAddr]
            /\ UNCHANGED <<pc, if_id, id_ex>>
       ELSE /\ ex_mem' = [ExCopied EXCEPT
                 !.reg_dst = IF id_ex.c.reg_dst THEN id_ex.rd ELSE id_ex.rt,
                 !.alu_res = AluResult(id_ex, @),
                 !.exception = AluException(id_ex)]
            /\ pc' = IF Redirects(id_ex) THEN RedirectTo(id_ex) ELSE pc
            /\ if_id' = IF Redirects(id_ex)
                        THEN [if_id EXCEPT !.is_branch_delay = TRUE] ELSE if_id
            /\ id_ex' = IF id_ex.c.jump /\ IsJR(id_ex.inst)
                        THEN [id_ex EXCEPT !.jump_addr = id_ex.rs_value] ELSE id_ex
    /\ UNCHANGED <<regs, cp0, mem_wb, pmem, g_finished>>

-----------------------------------------------------------------------------
(***************************************************************************)
(* interpret_id with its control unit.                                     *)
(***************************************************************************)
Decoded(i) ==
    [c |-> Control(i),
     shamt |-> i.shamt,
     funct |-> Funct(i),
     next_pc |-> if_id.next_pc,
     rs_value |-> RsValue(i, if_id.next_pc, regs, cp0),
     rt_value |-> RtValue(i, regs),
     jump_addr |-> IF i.op \in {"J", "JAL"} THEN JumpAddr(i, if_id.next_pc)
                   ELSE id_ex.jump_addr,
     sign_ext_imm |-> SIGN_EXTEND(i.imm),
     rs |-> SourceRs(i), rt |-> SourceRt(i), rd |-> DestRd(i),
     inst |-> i,
     is_branch_delay |-> if_id.is_branch_delay,
     exception |-> "None",
     BadVAddr |-> if_id.BadVAddr]

(* The control signals of a faulted fetch stay those of its predecessor. *)
InterpretId ==
    /\ at = "id" /\ at' = "if"
    /\ LET i == if_id.inst
       IN  id_ex' = IF if_id.exception = "None" THEN Decoded(i)
                    ELSE [Decoded(NOP) EXCEPT
                            !.c = id_ex.c, !.jump_addr = id_ex.jump_addr,
                            !.shamt = i.shamt, !.funct = i.funct,
                            !.rs_value = regs[i.rs], !.rt_value = regs[i.rt],
                            !.sign_ext_imm = SIGN_EXTEND(i.imm),
                            !.rs = i.rs, !.rt = i.rt, !.rd = i.rd, !.inst = i,
                            !.exception = if_id.exception]
    /\ UNCHANGED <<regs, pc, cp0, if_id, ex_mem, mem_wb, pmem, g_finished>>

-----------------------------------------------------------------------------
(***************************************************************************)
(* interpret_if.  An instruction that reads what the load in ID/EX will    *)
(* write is held back for a tick: a NOP takes its place.  mmu_read returns *)
(* EXC_None for every address.                                             *)
(***************************************************************************)
(* Mutants: rt is forgotten; every instruction counts as a load. *)
LoadUseRsOnly(i) == id_ex.c.mem_read /\ id_ex.rt = i.rs
AnyUse(i) == id_ex.rt \in {i.rs, i.rt}

LoadUse(i) == id_ex.c.mem_read /\ id_ex.rt \in {i.rs, i.rt}

(* Mutant: the PC moves on although the instruction was not taken. *)
IfSkip ==
    /\ at = "if" /\ ~Fetch.segv
    /\ LoadUse(Decode[Fetch.data])
    /\ if_id' = [if_id EXCEPT !.exception = "None", !.inst = NOP]
    /\ pc' = u32(pc + 4)
    /\ at' = "fwd"
    /\ UNCHANGED <<regs, cp0, id_ex, ex_mem, mem_wb, pmem, g_finished>>

IfStall ==
    /\ at = "if" /\ ~Fetch.segv
    /\ LoadUse(Decode[Fetch.data])
    /\ if_id' = [if_id EXCEPT !.exception = "None", !.inst = NOP]
    /\ at' = "fwd"
    /\ UNCHANGED <<regs, pc, cp0, id_ex, ex_mem, mem_wb, pmem, g_finished>>

IfFetch ==
    /\ at = "if" /\ ~Fetch.segv
    /\ ~LoadUse(Decode[Fetch.data])
    /\ pc' = u32(pc + 4)
    /\ if_id' = [inst |-> Decode[Fetch.data], next_pc |-> u32(pc + 4),
                 exception |-> "None", BadVAddr |-> 0, is_branch_delay |-> FALSE]
    /\ at' = "fwd"
    /\ UNCHANGED <<regs, cp0, id_ex, ex_mem, mem_wb, pmem, g_finished>>

IfSegv ==
    /\ at = "if" /\ Fetch.segv
    /\ at' = "segv"
    /\ UNCHANGED <<core, pmem, g_finished>>

-----------------------------------------------------------------------------
(***************************************************************************)
(* forwarding_unit.  The A MUX replaces rs_value, the B MUX rt_value, by   *)
(* the result of the youngest older instruction whose destination has the  *)
(* number of the operand.  MTC0 writes a CP0 register and MFC0 reads one,  *)
(* so equal numbers may name different registers: in the two cases the     *)
(* code calls illegal it leaves the whole unit.                            *)
(***************************************************************************)
Illegal(producer, consumer) ==
    \/ IsMTC0(producer) /\ consumer.op # "CP0"
    \/ producer.op # "CP0" /\ IsMFC0(consumer)

(* Mutant: the older result wins. *)
OldestMux(r, value) ==
    CASE mem_wb.c_reg_write /\ mem_wb.reg_dst # 0 /\ mem_wb.reg_dst = r ->
            [stop |-> FALSE, value |-> WbData]
      [] /\ ~(mem_wb.c_reg_write /\ mem_wb.reg_dst # 0 /\ mem_wb.reg_dst = r)
         /\ ex_mem.c_reg_write /\ ex_mem.reg_dst # 0 /\ ex_mem.reg_dst = r ->
            [stop |-> FALSE, value |-> ex_mem.alu_res]
      [] OTHER -> [stop |-> FALSE, value |-> value]

(* What a MUX selects for register number r: an operand and whether to stop. *)
Mux(r, value) ==
    CASE ex_mem.c_reg_write /\ ex_mem.reg_dst # 0 /\ ex_mem.reg_dst = r ->
            IF Illegal(ex_mem.inst, id_ex.inst)
            THEN [stop |-> TRUE, value |-> value]
            ELSE [stop |-> FALSE, value |-> ex_mem.alu_res]
      [] /\ ~(ex_mem.c_reg_write /\ ex_mem.reg_dst # 0 /\ ex_mem.reg_dst = r)
         /\ mem_wb.c_reg_write /\ mem_wb.reg_dst # 0 /\ mem_wb.reg_dst = r ->
            IF Illegal(mem_wb.inst, id_ex.inst)
            THEN [stop |-> TRUE, value |-> value]
            ELSE [stop |-> FALSE, value |-> WbData]
      [] OTHER -> [stop |-> FALSE, value |-> value]

ForwardingUnit ==
    /\ at = "fwd" /\ at' = "run"
    /\ LET A == Mux(id_ex.rs, id_ex.rs_value)
           B == Mux(id_ex.rt, id_ex.rt_value)
       IN  id_ex' = CASE id_ex.inst = INSTRUCTION_ERET -> id_ex
                      [] id_ex.inst # INSTRUCTION_ERET /\ A.stop -> id_ex
                      [] OTHER -> [id_ex EXCEPT !.rs_value = A.value,
                                                !.rt_value = B.value]
    /\ UNCHANGED <<regs, pc, cp0, if_id, ex_mem, mem_wb, pmem, g_finished>>

-----------------------------------------------------------------------------
Tick ==
    \/ WbEret \/ WbExit \/ WbException \/ WbCommit
    \/ MemForward \/ MemLoad \/ MemStore \/ MemPass
    \/ InterpretEx
    \/ InterpretId
    \/ IfStall \/ IfFetch \/ IfSegv
    \/ ForwardingUnit

Next == RunTick \/ RunReturn \/ Tick \/ Ended

Spec == Init /\ [][Next]_vars

(* The loop is a single thread that nothing blocks. *)
FairSpec == Spec /\ WF_vars(Next)

-----------------------------------------------------------------------------
(***************************************************************************)
(* The values of the state, as the C types bound them.  pmem is a partial  *)
(* function from offsets to bytes.                                         *)
(***************************************************************************)
TypeOK ==
    /\ regs \in [RegNum -> Word]
    /\ pc \in Word
    /\ cp0 \in [Cp0Num -> Word]
    /\ if_id \in IfId /\ id_ex \in IdEx
    /\ ex_mem \in ExMem /\ mem_wb \in MemWb
    /\ pmem \in [DOMAIN pmem -> Byte] /\ DOMAIN pmem \subseteq 0 .. memsz - 1
    /\ g_finished \in BOOLEAN
    /\ at \in Stage

(* The instruction in the pipeline register x will write this register file. *)
WritesGpr(x) == x.c_reg_write /\ x.reg_dst # 0 /\ ~IsMTC0(x.inst)
WritesCp0(x) == x.c_reg_write /\ x.reg_dst # 0 /\ IsMTC0(x.inst)

(* What a register holds once the older instructions in flight are done. *)
LatestGpr(r) ==
    CASE WritesGpr(ex_mem) /\ ex_mem.reg_dst = r -> ex_mem.alu_res
      [] /\ ~(WritesGpr(ex_mem) /\ ex_mem.reg_dst = r)
         /\ WritesGpr(mem_wb) /\ mem_wb.reg_dst = r -> WbData
      [] OTHER -> regs[r]

LatestCp0(r) ==
    CASE WritesCp0(ex_mem) /\ ex_mem.reg_dst = r -> ex_mem.alu_res
      [] /\ ~(WritesCp0(ex_mem) /\ ex_mem.reg_dst = r)
         /\ WritesCp0(mem_wb) /\ mem_wb.reg_dst = r -> WbData
      [] OTHER -> cp0[r]

(***************************************************************************)
(* The older instruction in x writes a register of the other file that has *)
(* the number of an operand of the instruction in ID/EX.                   *)
(***************************************************************************)
Clashes(x) ==
    IF IsMFC0(id_ex.inst)
    THEN WritesGpr(x) /\ x.reg_dst = id_ex.rs
    ELSE WritesCp0(x) /\ x.reg_dst \in {id_ex.rs, id_ex.rt}

ReadsRegisters(i) == i # INSTRUCTION_ERET /\ i.op # "JAL"

OperandsAreLatest ==
    /\ id_ex.rs_value = IF IsMFC0(id_ex.inst) THEN LatestCp0(id_ex.rs)
                        ELSE LatestGpr(id_ex.rs)
    /\ id_ex.rt_value = LatestGpr(id_ex.rt)

(* The value of a load in EX/MEM is not known yet. *)
NoPendingLoad ==
    ex_mem.c_mem_read /\ ex_mem.reg_dst # 0 => ex_mem.reg_dst \notin {id_ex.rs, id_ex.rt}

(***************************************************************************)
(* Data hazards.  When a tick is over, the operands of the instruction     *)
(* about to execute are those that the instructions before it produce,     *)
(* whatever mixture of forwarding and stalls brought them there, unless    *)
(* the number of a CP0 register in flight clashes with an operand.         *)
(***************************************************************************)
OperandsFresh ==
    at = "run" /\ ReadsRegisters(id_ex.inst) /\ ~Clashes(ex_mem) /\ ~Clashes(mem_wb)
        => OperandsAreLatest /\ NoPendingLoad

(* $zero reads as zero whatever an instruction wrote to it. *)
ZeroRegister == regs[0] = 0

(***************************************************************************)
(* Overflow.  Over both ends of the signed range and for every operation   *)
(* that the ALU checks, address computations, ADDI and (unlike a real      *)
(* MIPS) branches: EX traps exactly when the sum is not an int32_t.        *)
(***************************************************************************)
ChecksOverflow(d) == d.c.alu_op = 0 \/ (d.c.alu_op = 3 /\ d.inst.op = "ADDI")

OverflowsAreExact ==
    [][at = "ex" /\ id_ex.exception = "None" /\ ChecksOverflow(id_ex) =>
        (ex_mem'.exception = "ArithmeticOverflow" <=>
            s32(id_ex.rs_value) + s32(OperandB(id_ex)) \notin INT_MIN .. INT_MAX)]_vars

(***************************************************************************)
(* Unaligned accesses, byte by byte.  Byte 0 of a word is its most         *)
(* significant one, which is at its lowest address.  LWL fills a register  *)
(* from the left with the bytes from the address to the end of the word,   *)
(* LWR from the right with those down to the start of the word, and SWR    *)
(* stores from the right; all other bytes stay as they are.                *)
(***************************************************************************)
ByteOf(w, k) == (w \div Weight(3 - k)) % ByteSize
LoadByte(v) == mmu_read(pmem, v, 0, MEM_OP_BYTE).data

MergesBytes(op, v, reg) ==
    LET k0 == v % 4
        word == AlignedAddr(v)
    IN  CASE op = "LWL" ->
                \A k \in 0 .. 3 : ByteOf(mem_wb'.read_data, k) =
                    IF k0 + k <= 3 THEN LoadByte(v + k) ELSE ByteOf(reg, k)
          [] op = "LWR" ->
                \A k \in 0 .. 3 : ByteOf(mem_wb'.read_data, 3 - k) =
                    IF k <= k0 THEN LoadByte(v - k) ELSE ByteOf(reg, 3 - k)
          [] op = "SWR" ->
                \A k \in 0 .. 3 : LoadByte(word + k)' =
                    IF k <= k0 THEN ByteOf(reg, 3 - k0 + k) ELSE LoadByte(word + k)
          [] OTHER -> TRUE

UnalignedMergesBytes ==
    [][at = "mem" /\ ex_mem.exception = "None"
            /\ ex_mem.alu_res \in Kseg0
        => MergesBytes(ex_mem.inst.op, ex_mem.alu_res, regs[ex_mem.inst.rt])]_vars

-----------------------------------------------------------------------------
(***************************************************************************)
(* What the comments in the code say, and the code does not do.            *)
(***************************************************************************)

(* forwarding_unit: register numbers that clash with CP0 register numbers  *)
(* do not lead to forwarding to the wrong register.                        *)
ForwardsToTheRightRegister ==
    at = "run" /\ ReadsRegisters(id_ex.inst) => OperandsAreLatest

(* interpret_id_control: JAL stores the address after the branch delay. *)
LinkIsNextAddress ==
    ex_mem.inst.op = "JAL" => ex_mem.alu_res = u32(ex_mem.next_pc + 4)

=============================================================================
