---------------------------- MODULE Instructions ----------------------------
(***************************************************************************)
(* What one instruction does (mips32.h, exception.c and the control unit,  *)
(* ALU and memory cases of sim.c), as pure operators.  The pipeline and    *)
(* the sequential machine it implements are both built from them.          *)
(*                                                                         *)
(* An instruction is the record of the fields that the GET_ macros extract *)
(* from its word.  Fields that no stage reads for an opcode are zero.      *)
(***************************************************************************)
EXTENDS Memory

CONSTANT Decode     \* the instruction each word encodes

Loads == {"LW", "LBU", "LHU", "LWL", "LWR"}
Stores == {"SW", "SB", "SH", "SWL", "SWR", "SC"}
AluImmediates == {"ADDI", "ADDIU", "SLTI", "SLTIU", "ANDI", "ORI"}
Opcodes == Loads \cup Stores \cup AluImmediates
            \cup {"R", "J", "JAL", "BEQ", "BNE", "LUI", "LL", "CP0", "UNKNOWN"}

Functs == {"JR", "SYSCALL", "ADD", "ADDU", "SUB", "SUBU", "AND", "OR", "NOR",
           "SLT", "SLTU", "SLL", "SRL", "ERET", "UNKNOWN"}

RegNum == 0 .. 31
REG_V0 == 2
REG_V1 == 3
REG_SP == 29
REG_RA == 31

Instr == [op : Opcodes, rs : RegNum, rt : RegNum, rd : RegNum, shamt : RegNum,
          funct : Functs, imm : 0 .. HalfSize - 1, target : 0 .. WordSize - 1]

(* The word 0 is sll $0, $0, 0. *)
NOP == [op |-> "R", rs |-> 0, rt |-> 0, rd |-> 0, shamt |-> 0,
        funct |-> "SLL", imm |-> 0, target |-> 0]

(* The coprocessor functions, encoded in the rs field. *)
CP0_MFC0 == 0
CP0_MTC0 == 4
INSTRUCTION_ERET == [NOP EXCEPT !.op = "CP0", !.rs = 16, !.funct = "ERET"]

IsMFC0(i) == i.op = "CP0" /\ i.rs = CP0_MFC0
IsMTC0(i) == i.op = "CP0" /\ i.rs = CP0_MTC0
IsJR(i)   == i.op = "R" /\ i.funct = "JR"

ASSUME DecodeAssumption == Decode \in [Word -> Instr] /\ Decode[0] = NOP

-----------------------------------------------------------------------------
(***************************************************************************)
(* Coprocessor 0.  Its registers are numbered from 1 (cp0.h).              *)
(***************************************************************************)
Cp0Num == 0 .. 40
REG_BADVADDR == 10
REG_SR == 13
REG_EPC == 15
REG_CAUSE == 17
REG_EBASE == 20

SR_IE == 0
SR_EXL == 1
SR_BEV == 3 * ByteBits - 2      \* bit 22
SetBit(w, i) == BitOr(w, 2 ^ i)
ClearBit(w, i) == FromBits(Bits(w) \ {i})

(* 0x80000080 *)
EXCEPTION_VECTOR == u32(KSEG0_VSTART + ByteSize \div 2)

ExcCode ==
    [Interrupt |-> 0, AddressErrorLoad |-> 4, AddressErrorStore |-> 5,
     BusErrorInstructionFetch |-> 6, BusErrorLoadStore |-> 7, Syscall |-> 8,
     Breakpoint |-> 9, Reserved |-> 10, CpUnavailable |-> 11,
     ArithmeticOverflow |-> 12, Trap |-> 13, FloatingPoint |-> 15]

Exception == {"None"} \cup DOMAIN ExcCode

(* The BD bit is the sign bit; the code is put in unshifted. *)
get_cause(exception, in_branch_delay) ==
    IF exception = "None" THEN 0
    ELSE u32(ExcCode[exception] + IF in_branch_delay THEN SignSize ELSE 0)

-----------------------------------------------------------------------------
(***************************************************************************)
(* The control signals set by interpret_id_control.                        *)
(***************************************************************************)
ControlSignals ==
    [reg_dst : BOOLEAN, alu_op : {0, 2, 3}, alu_src : BOOLEAN, beq : BOOLEAN,
     bne : BOOLEAN, mem_read : BOOLEAN, mem_write : BOOLEAN,
     reg_write : BOOLEAN, mem_to_reg : BOOLEAN, jump : BOOLEAN]

NoControl ==
    [reg_dst |-> FALSE, alu_op |-> 0, alu_src |-> FALSE, beq |-> FALSE,
     bne |-> FALSE, mem_read |-> FALSE, mem_write |-> FALSE,
     reg_write |-> FALSE, mem_to_reg |-> FALSE, jump |-> FALSE]

Control(i) ==
    [reg_dst    |-> \/ i.op = "R" /\ i.funct # "JR"
                    \/ IsMFC0(i) \/ IsMTC0(i),
     alu_op     |-> CASE i.op = "R" /\ i.funct # "JR" -> 2
                      [] IsMFC0(i) \/ IsMTC0(i) -> 2
                      [] i.op \in AluImmediates \cup {"LUI", "LL"} -> 3
                      [] OTHER -> 0,
     alu_src    |-> i.op \in Loads \cup Stores \cup AluImmediates \cup {"LUI", "LL"},
     beq        |-> i.op = "BEQ",
     bne        |-> i.op = "BNE",
     mem_read   |-> i.op \in Loads,
     mem_write  |-> i.op \in Stores,
     reg_write  |-> \/ i.op \in Loads \cup AluImmediates \cup {"LUI", "LL", "JAL"}
                    \/ i.op = "R" /\ i.funct # "JR"
                    \/ IsMFC0(i) \/ IsMTC0(i),
     mem_to_reg |-> i.op \in Loads,
     jump       |-> IsJR(i) \/ i.op \in {"J", "JAL"}]

-----------------------------------------------------------------------------
(***************************************************************************)
(* The operands of an instruction as ID leaves them: which registers it    *)
(* names and what it read from the register files r and c.  MFC0 and MTC0  *)
(* become an ADD with $0; JAL puts its link address in rs_value and names  *)
(* $ra in rt.                                                              *)
(***************************************************************************)
SourceRs(i) == CASE IsMFC0(i) -> i.rd + 1 [] IsMTC0(i) -> i.rt [] OTHER -> i.rs
SourceRt(i) ==
    CASE IsMFC0(i) \/ IsMTC0(i) -> 0 [] i.op = "JAL" -> REG_RA [] OTHER -> i.rt
DestRd(i) == CASE IsMFC0(i) -> i.rt [] IsMTC0(i) -> i.rd + 1 [] OTHER -> i.rd

RsValue(i, next_pc, r, c) ==
    CASE IsMFC0(i) -> c[i.rd + 1]
      [] IsMTC0(i) -> r[i.rt]
      [] i.op = "JAL" -> u32(next_pc + 4)
      [] OTHER -> r[i.rs]

RtValue(i, r) == IF IsMFC0(i) \/ IsMTC0(i) THEN 0 ELSE r[i.rt]

Funct(i) == IF IsMFC0(i) \/ IsMTC0(i) THEN "ADD" ELSE i.funct

(* (next_pc & 0xF0000000) | (address << 2) *)
Region == WordSize \div 16
JumpAddr(i, next_pc) ==
    u32((next_pc \div Region) * Region + ((i.target * 4) % Region))

BranchAddr(next_pc, sign_ext_imm) == u32(next_pc + Shl(sign_ext_imm, 2))

-----------------------------------------------------------------------------
(***************************************************************************)
(* The ALU (interpret_ex_alu) on the contents d of the ID/EX register.     *)
(* Where the code assigns no result, the old one stays.                    *)
(***************************************************************************)
OperandB(d) == IF d.c.alu_src THEN d.sign_ext_imm ELSE d.rt_value

Overflows(d) == check_soverflow(s32(d.rs_value), s32(OperandB(d)))

(* Mutant: the difference is not brought back to 32 bits. *)
SubuTooWide(funct, a, b, shamt, old) == IF funct = "SUBU" THEN a - b ELSE u32(a + b)

RTypeResult(funct, a, b, shamt, old) ==
    CASE funct \in {"ADD", "ADDU", "SUB"} -> u32(a + b)
      [] funct = "SUBU" -> u32(a - b)
      [] funct = "AND" -> BitAnd(a, b)
      [] funct = "OR" -> BitOr(a, b)
      [] funct = "NOR" -> BitNor(a, b)
      [] funct = "SLT" -> IF s32(a) < s32(b) THEN 1 ELSE 0
      [] funct = "SLTU" -> IF a < b THEN 1 ELSE 0
      [] funct = "SLL" -> Shl(b, shamt)
      [] funct = "SRL" -> Shr(b, shamt)
      [] OTHER -> old

ITypeResult(op, a, b, old) ==
    CASE op \in {"ADDI", "ADDIU"} -> u32(a + b)
      [] op = "SLTI" -> IF s32(a) < s32(b) THEN 1 ELSE 0
      [] op = "SLTIU" -> IF a < b THEN 1 ELSE 0
      [] op = "ANDI" -> BitAnd(a, b % HalfSize)
      [] op = "ORI" -> BitOr(a, b % HalfSize)
      [] op = "LUI" -> Shl(b, 2 * ByteBits)
      [] OTHER -> old

AluResult(d, old) ==
    CASE d.c.alu_op = 0 -> u32(d.rs_value + OperandB(d))
      [] d.c.alu_op = 2 ->
            RTypeResult(d.funct, d.rs_value, OperandB(d), d.shamt, old)
      [] OTHER -> ITypeResult(d.inst.op, d.rs_value, OperandB(d), old)

AluException(d) ==
    CASE d.c.alu_op = 0 /\ Overflows(d) -> "ArithmeticOverflow"
      [] d.c.alu_op = 2 /\ d.funct = "SYSCALL" -> "Syscall"
      [] d.c.alu_op = 3 /\ d.inst.op = "ADDI" /\ Overflows(d) -> "ArithmeticOverflow"
      [] OTHER -> "None"

(* Does the instruction in ID/EX redirect the PC, and where to? *)
Redirects(d) ==
    \/ d.c.jump
    \/ d.c.beq /\ d.rs_value = d.rt_value
    \/ d.c.bne /\ d.rs_value # d.rt_value

RedirectTo(d) ==
    CASE IsJR(d.inst) -> d.rs_value
      [] d.c.jump /\ ~IsJR(d.inst) -> d.jump_addr
      [] OTHER -> BranchAddr(d.next_pc, d.sign_ext_imm)

-----------------------------------------------------------------------------
(***************************************************************************)
(* The memory accesses of interpret_mem, for the instruction i with the    *)
(* effective address addr.  LWL, LWR, SWL and SWR work on the aligned word *)
(* and on the current value reg of the register they merge with; old is    *)
(* the previous content of MEM_WB.read_data.                               *)
(***************************************************************************)
AccessSize(op) ==
    CASE op \in {"LBU", "SB"} -> MEM_OP_BYTE
      [] op \in {"LHU", "SH"} -> MEM_OP_HALF
      [] OTHER -> MEM_OP_WORD

AlignedAddr(addr) == addr - (addr % 4)
ByteShift(addr) == (addr % 4) * ByteBits
AllOnes == WordSize - 1

(* Mutant: LWR keeps a byte too many of the register. *)
LwrKeepsTooMuch(i, pmem, addr, reg, old) ==
    LET word == mmu_read(pmem, AlignedAddr(addr), 0, MEM_OP_WORD)
    IN  IF i.op # "LWR" THEN mmu_read(pmem, addr, old, AccessSize(i.op))
        ELSE [word EXCEPT !.data =
                BitOr(BitAnd(reg, Shl(AllOnes, ByteShift(addr))),
                      Shr(@, 3 * ByteBits - ByteShift(addr)))]

LoadResult(i, pmem, addr, reg, old) ==
    LET word == mmu_read(pmem, AlignedAddr(addr), 0, MEM_OP_WORD)
    IN  CASE i.op = "LWL" ->
                [word EXCEPT !.data =
                    BitOr(BitAnd(reg, Shr(AllOnes, WordBits - ByteShift(addr))),
                          Shl(@, ByteShift(addr)))]
          [] i.op = "LWR" ->
                [word EXCEPT !.data =
                    BitOr(BitAnd(reg, Shl(AllOnes, ByteBits + ByteShift(addr))),
                          Shr(@, 3 * ByteBits - ByteShift(addr)))]
          [] OTHER -> mmu_read(pmem, addr, old, AccessSize(i.op))

(* SWL shifts the merged word right once more, as LWR does; SC has no case. *)
StoreResult(i, pmem, addr, rt_value, reg) ==
    LET word == mmu_read(pmem, AlignedAddr(addr), 0, MEM_OP_WORD)
        swl == Shr(BitOr(BitAnd(word.data, Shl(AllOnes, WordBits - ByteShift(addr))),
                         Shr(reg, ByteShift(addr))),
                   3 * ByteBits - ByteShift(addr))
        swr == BitOr(BitAnd(word.data, Shr(AllOnes, ByteBits + ByteShift(addr))),
                     Shl(reg, 3 * ByteBits - ByteShift(addr)))
    IN  CASE i.op = "SC" -> [pmem |-> pmem, exception |-> "None", segv |-> FALSE]
          [] i.op = "SWL" -> mmu_write(pmem, AlignedAddr(addr), swl, MEM_OP_WORD)
          [] i.op = "SWR" -> mmu_write(pmem, AlignedAddr(addr), swr, MEM_OP_WORD)
          [] OTHER -> mmu_write(pmem, addr, rt_value, AccessSize(i.op))

=============================================================================
