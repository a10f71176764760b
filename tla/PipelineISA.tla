---------------------------- MODULE PipelineISA ----------------------------
(***************************************************************************)
(* The pipeline implements the instruction set.                            *)
(*                                                                         *)
(* An instruction takes effect when it passes MEM: its store is done then, *)
(* its register result, its exception or its ERET is pending in MEM/WB and *)
(* is applied by the refinement mapping.  The history variable live tells  *)
(* the pipeline registers that hold an instruction of the program from     *)
(* those that hold a bubble (a stall or what a flush left).                *)
(***************************************************************************)
EXTENDS Pipeline

VARIABLE live

Moves(from, to) == (live \ {to}) \cup (IF from \in live THEN {to} ELSE {})

HTick ==
    \/ (WbEret \/ WbException) /\ live' = {}
    \/ InterpretEx /\ live' = Moves("id_ex", "ex_mem")
    \/ InterpretId /\ live' = Moves("if_id", "id_ex")
    \/ IfFetch /\ live' = live \cup {"if_id"}
    \/ (IfStall \/ IfSegv) /\ live' = live \ {"if_id"}
    \/ /\ \/ WbExit \/ WbCommit
          \/ MemForward \/ MemLoad \/ MemStore \/ MemPass
          \/ ForwardingUnit
       /\ UNCHANGED live

hvars == <<vars, live>>

HInit == Init /\ live = {}
HNext == HTick \/ ((RunTick \/ RunReturn \/ Ended) /\ UNCHANGED live)
HSpec == HInit /\ [][HNext]_hvars
HFairSpec == HSpec /\ WF_hvars(HNext)

-----------------------------------------------------------------------------
(***************************************************************************)
(* The pipeline registers that hold an instruction which has not passed    *)
(* MEM.  One that a stage has already copied in this tick does not count.  *)
(***************************************************************************)
Copied ==
    CASE at = "ex" -> {"ex_mem"}
      [] at = "id" -> {"id_ex"}
      [] at = "if" -> {"if_id"}
      [] OTHER     -> {}

InFlight(l) == l \in live \ Copied

Address(l) ==
    CASE l = "if_id"  -> u32(if_id.next_pc - 4)
      [] l = "id_ex"  -> u32(id_ex.next_pc - 4)
      [] l = "ex_mem" -> u32(ex_mem.next_pc - 4)

(***************************************************************************)
(* The course of the program as the pipeline holds it, up to IF/ID, up to  *)
(* ID/EX and up to EX/MEM: the address of the oldest instruction there, of *)
(* the one after it, and whether the oldest one is in a delay slot.  The   *)
(* instruction to be fetched is the one at the PC.                         *)
(***************************************************************************)
IfPc == IF InFlight("if_id") THEN Address("if_id") ELSE pc
IdPc == IF InFlight("id_ex") THEN Address("id_ex") ELSE IfPc
ExPc == IF InFlight("ex_mem") THEN Address("ex_mem") ELSE IdPc

IfNpc == IF InFlight("if_id") THEN pc ELSE u32(pc + 4)
IdNpc == IF InFlight("id_ex") THEN IfPc ELSE IfNpc
ExNpc == IF InFlight("ex_mem") THEN IdPc ELSE IdNpc

IfBd == InFlight("if_id") /\ if_id.is_branch_delay
IdBd == IF InFlight("id_ex") THEN id_ex.is_branch_delay ELSE IfBd
ExBd == IF InFlight("ex_mem") THEN ex_mem.is_branch_delay ELSE IdBd

PendingEret == mem_wb.inst = INSTRUCTION_ERET
PendingException == ~PendingEret /\ mem_wb.exception # "None"
PendingExit == PendingException /\ ExitSyscall
PendingTrap == PendingException /\ ~ExitSyscall
PendingWrite == ~PendingEret /\ mem_wb.exception = "None" /\ mem_wb.c_reg_write

Handler == IF SR_BEV \in Bits(cp0[REG_SR]) THEN cp0[REG_EBASE] ELSE EXCEPTION_VECTOR

IsaHalted == g_finished \/ PendingExit

IsaRegs ==
    IF ~g_finished /\ PendingWrite /\ ~IsMTC0(mem_wb.inst) /\ mem_wb.reg_dst # 0
    THEN [regs EXCEPT ![mem_wb.reg_dst] = WbData] ELSE regs

IsaCp0 ==
    CASE g_finished -> cp0
      [] ~g_finished /\ PendingTrap ->
            [cp0 EXCEPT ![REG_EPC] = mem_wb.next_pc,
                        ![REG_CAUSE] = get_cause(mem_wb.exception, mem_wb.is_branch_delay),
                        ![REG_SR] = SetBit(@, SR_EXL)]
      [] ~g_finished /\ PendingEret -> [cp0 EXCEPT ![REG_SR] = ClearBit(@, SR_EXL)]
      [] ~g_finished /\ PendingWrite /\ IsMTC0(mem_wb.inst) ->
            [cp0 EXCEPT ![mem_wb.reg_dst] = WbData]
      [] OTHER -> cp0

IsaPc ==
    CASE IsaHalted -> 0
      [] ~IsaHalted /\ PendingTrap -> Handler
      [] ~IsaHalted /\ PendingEret -> cp0[REG_EPC]
      [] OTHER -> ExPc

IsaNpc ==
    CASE IsaHalted -> 0
      [] ~IsaHalted /\ (PendingTrap \/ PendingEret) -> u32(IsaPc + 4)
      [] OTHER -> ExNpc

IsaBd == ~IsaHalted /\ ~PendingTrap /\ ~PendingEret /\ ExBd

Abstract == INSTANCE ISA WITH regs <- IsaRegs, cp0 <- IsaCp0, pc <- IsaPc,
                              npc <- IsaNpc, bd <- IsaBd, halted <- IsaHalted

(***************************************************************************)
(* Every program runs on the pipeline as the instruction set says: each    *)
(* step of a stage is one instruction taking effect, or nothing.           *)
(***************************************************************************)
ImplementsISA == Abstract!Spec

(***************************************************************************)
(* Precise exceptions: no instruction that was in the pipeline when an     *)
(* exception was taken or an ERET returned stores after that, wherever in  *)
(* the pipeline it was, and none stores while an older one's exception     *)
(* waits for WB.  A store is thus always that of an instruction fetched    *)
(* since the last flush.  Only in the tick in which the program exits may  *)
(* the exception of the exit system call still be there.                   *)
(***************************************************************************)
StoresArePrecise ==
    [][pmem' # pmem =>
        /\ "ex_mem" \in live
        /\ g_finished \/ mem_wb.exception = "None"]_hvars

(***************************************************************************)
(* The pipeline never stalls for good: until the process ends, there is    *)
(* always another instruction that reaches MEM.                            *)
(***************************************************************************)
KeepsRetiring ==
    at = "run" ~> (at = "mem" /\ "ex_mem" \in live) \/ at \in {"exit", "segv"}

(***************************************************************************)
(* What the docs and a comment in handle_exception say, and the code does  *)
(* not do: an exception leaves the address of its victim, the instruction  *)
(* that was next in the course of the program, in EPC.                     *)
(***************************************************************************)
VictimInEpc ==
    [][~PendingTrap /\ PendingTrap' => IsaCp0'[REG_EPC] = IsaPc]_hvars

-----------------------------------------------------------------------------
(***************************************************************************)
(* What a program must avoid for the pipeline to do what ISA says, for     *)
(* every program.  The first two are what the runs clash and link are      *)
(* about: a CP0 register number that clashes with an operand's, and a JAL  *)
(* that follows a write to a register with one of the numbers it carries   *)
(* (its fields rs and rt are bits of its target).  The third is about what *)
(* no pipeline without a way to refetch can do: a store into an            *)
(* instruction that has already been fetched.  The exit system call only   *)
(* ends the tick, so the instruction behind it must not store either.      *)
(***************************************************************************)
NoClash ==
    at = "run" /\ ReadsRegisters(id_ex.inst) => ~Clashes(ex_mem) /\ ~Clashes(mem_wb)

LinkUndisturbed ==
    at = "run" /\ id_ex.inst.op = "JAL" =>
        /\ id_ex.inst.rt = 0
        /\ \A x \in {ex_mem, mem_wb} :
                x.c_reg_write /\ x.reg_dst # 0 => x.reg_dst \notin {id_ex.rs, id_ex.rt}

InstructionAt(m, a) == Decode[mmu_read(m, a, 0, MEM_OP_WORD).data]

SparesCode ==
    pmem' # pmem =>
        /\ ~g_finished
        /\ \A l \in live \cap {"id_ex", "if_id"} :
                InstructionAt(pmem', Address(l)) = InstructionAt(pmem, Address(l))

CleanProgram == []NoClash /\ []LinkUndisturbed /\ [][SparesCode]_hvars

=============================================================================
