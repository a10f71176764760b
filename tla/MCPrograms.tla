----------------------------- MODULE MCPrograms -----------------------------
(***************************************************************************)
(* The programs on which the pipeline is model checked.  A program is an   *)
(* exception handler, a body of a few freely chosen instructions and an    *)
(* epilogue that exits.                                                    *)
(***************************************************************************)
EXTENDS PipelineISA, Assembly

CONSTANTS
    Body,       \* the instructions a body is made of
    Mixes,      \* the ranges of Body that bodies draw on, and their lengths
    SkipMixes   \* the same, for the handler that skips the victim

-----------------------------------------------------------------------------
(***************************************************************************)
(* Layout, in words from the start of kseg0: two unused words, the handler *)
(* at EXCEPTION_VECTOR, and the program from Entry on.  One handler counts *)
(* in $k1 and returns; the other is that of the test eret.S: it adds 4 to  *)
(* EPC and returns at once.                                                *)
(***************************************************************************)
EPC == REG_EPC - 1
CountingHandler == <<I("ADDI", k1, k1, 1), INSTRUCTION_ERET, NOP, NOP>>
SkippingHandler ==
    <<C(CP0_MFC0, k0, EPC), I("ADDIU", k0, k0, 4), C(CP0_MTC0, k0, EPC), INSTRUCTION_ERET>>
Epilogue == <<I("ADDI", v0, 0, 10), SYSCALL, NOP, NOP>>

(* The address, in words, of slot n of the body. *)
Slot(n) == 2 + Len(CountingHandler) + n - 1
MCEntry == KSEG0_VSTART + 4 * Slot(1)

Table == Body \o CountingHandler \o SkippingHandler \o Epilogue
MCDecode == DecodeBy(Table)

(* A NOP is the word 0. *)
CountingPrelude == <<0, 0>> \o [k \in 1 .. 4 |-> Len(Body) + k]
SkippingPrelude == <<0, 0>> \o [k \in 1 .. 4 |-> Len(Body) + 4 + k]
EpilogueWords == [k \in DOMAIN Epilogue |-> Len(Body) + 8 + k]

(***************************************************************************)
(* A JAL that runs less than three instructions after a write to $ra takes *)
(* the old $ra into its link address.  Left out are the bodies in which a  *)
(* JAL could follow itself so closely.                                     *)
(***************************************************************************)
LinkSafe(body) ==
    \A n \in DOMAIN body : Body[body[n]].op = "JAL" =>
        /\ Body[body[n]].target # Slot(n)
        /\ \A m \in DOMAIN body \ {n} :
                Body[body[m]].op \notin {"J", "JAL", "BEQ", "BNE"}

Mix(from, to, slots) == [1 .. slots -> from .. to]

Bodies(mixes) == {body \in UNION mixes : LinkSafe(body)}

(* What the second handler skips behind a body is a NOP. *)
MCImages ==
    {Image(CountingPrelude \o body \o EpilogueWords) : body \in Bodies(Mixes)}
    \cup {Image(SkippingPrelude \o body \o <<0>> \o EpilogueWords) :
            body \in Bodies(SkipMixes)}

(***************************************************************************)
(* Bodies.                                                                 *)
(***************************************************************************)
HazardBody ==
    <<I("ADDI", t0, t0, 1), R("ADDU", t1, t0, t0), R("SUBU", t0, t1, t0),
     I("LW", t0, sp, 0), I("LW", t1, sp, 0), I("SW", t0, sp, 0),
     I("SB", t1, sp, 3), R("SLT", 0, t0, t1)>>

(* Branches and jumps, also in delay slots and back to earlier slots. *)
ControlBody ==
    <<I("ADDI", t0, 0, 1), I("LW", t0, sp, 0), I("BEQ", t0, 0, 1),
      I("BNE", t0, 0, -3), J("J", Slot(4)), J("JAL", Slot(3)),
      R("JR", 0, ra, 0), R("SUBU", t1, ra, t0)>>

(* Exceptions of each stage, in a row and in delay slots, and the CP0 moves. *)
SR == REG_SR - 1
CAUSE == REG_CAUSE - 1
ExceptionBody ==
    <<SYSCALL, I("LUI", t0, 0, 128), I("ADDI", t0, t0, -1), I("BEQ", t0, t0, 1),
      J("J", Slot(4)), I("LUI", t1, 0, 254), I("SW", t0, t1, 0),
      I("SW", t0, sp, 0), C(CP0_MFC0, t0, CAUSE), C(CP0_MTC0, t1, SR),
      I("LUI", t0, 0, 127)>>

(* Unaligned accesses at every offset to the word that $sp points to. *)
UnalignedBody ==
    <<I("SW", sp, sp, 0), I("ADDI", t0, 0, -19), I("LW", t0, sp, 0),
      I("LWL", t0, sp, 0), I("LWL", t0, sp, 1), I("LWL", t0, sp, 2), I("LWL", t0, sp, 3),
      I("LWR", t0, sp, 0), I("LWR", t0, sp, 1), I("LWR", t0, sp, 2), I("LWR", t0, sp, 3),
      I("SWR", t0, sp, 0), I("SWR", t0, sp, 1), I("SWR", t0, sp, 2), I("SWR", t0, sp, 3),
      I("SWL", t0, sp, 1)>>

DataBody == HazardBody \o UnalignedBody

(* Short programs, one for each disagreement between the code and its docs. *)
ClashBody == <<R("NOR", REG_SR, 0, 0), C(CP0_MTC0, t0, SR), R("ADDU", t1, REG_SR, REG_SR)>>
LinkBody == <<I("ADDI", ra, ra, 1), J("JAL", Slot(1))>>

(* A system call in the delay slot of a branch over the third instruction. *)
EpcBody == <<I("BEQ", 0, 0, 2), SYSCALL, I("ADDI", t0, t0, 1)>>

-----------------------------------------------------------------------------
(* Every body of four (three) instructions. *)
DataMixes == {Mix(1, 8, 4), Mix(9, 24, 3)}
ControlMixes == {Mix(1, 8, 4)}
ExceptionMixes == {Mix(1, 11, 4)}
ExceptionSkipMixes == {Mix(1, 11, 3)}
ClashMixes == {Mix(1, 3, 3)}
LinkMixes == {Mix(1, 2, 2)}
EpcMixes == {{<<1, 2, 3>>}}

=============================================================================
