-------------------------------- MODULE ISA --------------------------------
(***************************************************************************)
(* The instruction set as a programmer sees it: one instruction at a time, *)
(* with the delay slot the only trace of a pipeline.  This is what the     *)
(* pipeline promises; it has no pipeline registers, no forwarding and no   *)
(* stalls.  pc is the address of the next instruction and npc that of the  *)
(* one after it.                                                           *)
(***************************************************************************)
EXTENDS Instructions

CONSTANT Entry

VARIABLES regs, cp0, pmem, pc, npc,
    bd,         \* the instruction at pc is the delay slot of a taken branch
    halted      \* the program has exited

vars == <<regs, cp0, pmem, pc, npc, bd, halted>>

Init ==
    /\ regs = [r \in RegNum |->
                 IF r = REG_SP THEN u32(KSEG0_VSTART + size_kseg0 - 4) ELSE 0]
    /\ cp0 = [r \in Cp0Num |-> IF r = REG_SR THEN SetBit(0, SR_IE) ELSE 0]
    /\ pmem \in [DOMAIN pmem -> Byte]
    /\ pc = Entry /\ npc = u32(Entry + 4)
    /\ bd = FALSE
    /\ halted = FALSE

Current == Decode[mmu_read(pmem, pc, 0, MEM_OP_WORD).data]

(* The instruction with its operands read from the registers.  JAL stores  *)
(* the address after its delay slot, to which it adds nothing.             *)
Operands(i) ==
    [c |-> Control(i), inst |-> i, funct |-> Funct(i), shamt |-> i.shamt,
     rs_value |-> RsValue(i, u32(pc + 4), regs, cp0),
     rt_value |-> IF i.op = "JAL" THEN 0 ELSE RtValue(i, regs),
     sign_ext_imm |-> SIGN_EXTEND(i.imm), next_pc |-> u32(pc + 4),
     jump_addr |-> JumpAddr(i, u32(pc + 4))]

(* The register that receives the result. *)
Destination(i) == IF Control(i).reg_dst THEN DestRd(i) ELSE SourceRt(i)

(***************************************************************************)
(* The next instruction is the delay slot, then the target.                *)
(***************************************************************************)
Advance(d) ==
    /\ pc' = npc
    /\ npc' = IF Redirects(d) THEN RedirectTo(d) ELSE u32(npc + 4)
    /\ bd' = Redirects(d)

WriteResult(i, value) ==
    /\ regs' = IF Control(i).reg_write /\ ~IsMTC0(i) /\ Destination(i) # 0
               THEN [regs EXCEPT ![Destination(i)] = value] ELSE regs
    /\ cp0' = IF IsMTC0(i) THEN [cp0 EXCEPT ![Destination(i)] = value] ELSE cp0

(* No exception handler runs: the program ends. *)
Exit(d) ==
    /\ AluException(d) = "Syscall" /\ regs[REG_V0] = 10
    /\ halted' = TRUE
    /\ pc' = 0 /\ npc' = 0 /\ bd' = FALSE
    /\ UNCHANGED <<regs, cp0, pmem>>

(* An exception is precise: the victim has no effect.  EPC is what the     *)
(* code makes it, the address after the victim's, also in a delay slot.    *)
Raise(exception) ==
    /\ cp0' = [cp0 EXCEPT ![REG_EPC] = u32(pc + 4),
                          ![REG_CAUSE] = get_cause(exception, bd),
                          ![REG_SR] = SetBit(@, SR_EXL)]
    /\ pc' = IF SR_BEV \in Bits(cp0[REG_SR]) THEN cp0[REG_EBASE] ELSE EXCEPTION_VECTOR
    /\ npc' = u32(pc' + 4)
    /\ bd' = FALSE
    /\ UNCHANGED <<regs, pmem, halted>>

Trap(d) ==
    /\ AluException(d) # "None"
    /\ ~(AluException(d) = "Syscall" /\ regs[REG_V0] = 10)
    /\ Raise(AluException(d))

Eret(i) ==
    /\ i = INSTRUCTION_ERET
    /\ pc' = cp0[REG_EPC] /\ npc' = u32(pc' + 4) /\ bd' = FALSE
    /\ cp0' = [cp0 EXCEPT ![REG_SR] = ClearBit(@, SR_EXL)]
    /\ UNCHANGED <<regs, pmem, halted>>

Load(i, d) ==
    /\ i.op \in Loads /\ AluException(d) = "None"
    /\ LET r == LoadResult(i, pmem, AluResult(d, 0), regs[i.rt], NULL)
       IN  /\ ~r.segv
           /\ IF r.data = NULL THEN \E v \in Word : WriteResult(i, v)
              ELSE WriteResult(i, r.data)
    /\ Advance(d)
    /\ UNCHANGED <<pmem, halted>>

Store(i, d) ==
    /\ i.op \in Stores /\ AluException(d) = "None"
    /\ LET r == StoreResult(i, pmem, AluResult(d, 0), d.rt_value, regs[i.rt])
       IN  /\ ~r.segv
           /\ IF r.exception # "None" THEN Raise(r.exception)
              ELSE /\ pmem' = r.pmem
                   /\ Advance(d)
                   /\ UNCHANGED <<regs, cp0, halted>>

(* Instructions without a case in the ALU produce an unpredictable result. *)
Compute(i, d) ==
    /\ i.op \notin Loads \cup Stores /\ i # INSTRUCTION_ERET
    /\ AluException(d) = "None"
    /\ IF AluResult(d, NULL) = NULL THEN \E v \in Word : WriteResult(i, v)
       ELSE WriteResult(i, AluResult(d, NULL))
    /\ Advance(d)
    /\ UNCHANGED <<pmem, halted>>

Step ==
    /\ ~halted
    /\ LET i == Current
           d == Operands(i)
       IN  Exit(d) \/ Trap(d) \/ Eret(i) \/ Load(i, d) \/ Store(i, d) \/ Compute(i, d)

Spec == Init /\ [][Step]_vars

=============================================================================
