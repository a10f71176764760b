------------------------------- MODULE Cores -------------------------------
(***************************************************************************)
(* Several cores on one memory (tick in sim.c, cpu_init in cpu.c).  In     *)
(* each tick, every core runs its five stages and its forwarding unit      *)
(* before the next core runs its own.  The variables of module Pipeline    *)
(* are those of the core whose turn it is; the other cores are parked.     *)
(***************************************************************************)
EXTENDS PipelineISA

CONSTANT num_cores

ASSUME CoresAssumption == num_cores \in Nat \ {0}

VARIABLES
    i,          \* the loop index of tick; num_cores between two ticks
    parked,     \* the cores whose turn it is not
    exited      \* history: the cores that executed the exit system call

CoreNum == 0 .. num_cores - 1

(* Between two ticks it is the turn of core 0, whose PC run() looks at. *)
Turn == i % num_cores

Window == [regs |-> regs, pc |-> pc, cp0 |-> cp0, if_id |-> if_id, id_ex |-> id_ex,
           ex_mem |-> ex_mem, mem_wb |-> mem_wb, live |-> live]

(* A core as calloc leaves it. *)
Blank == [regs |-> [r \in RegNum |-> 0], pc |-> 0, cp0 |-> [r \in Cp0Num |-> 0],
          if_id |-> ZeroIfId, id_ex |-> ZeroIdEx, ex_mem |-> ZeroExMem,
          mem_wb |-> ZeroMemWb, live |-> {}]

(* cpu_init and hw_init set up core 0 only. *)
CInit ==
    /\ HInit
    /\ i = num_cores
    /\ parked = [c \in CoreNum |-> Blank]
    /\ exited = {}

-----------------------------------------------------------------------------
StartTick ==
    /\ RunTick /\ i = num_cores
    /\ i' = 0
    /\ UNCHANGED <<live, parked, exited>>

Return ==
    /\ RunReturn /\ i = num_cores
    /\ UNCHANGED <<live, i, parked, exited>>

(* A stage of core i. *)
RunStage ==
    /\ HTick
    /\ exited' = IF WbExit THEN exited \cup {i} ELSE exited
    /\ UNCHANGED <<i, parked>>

(* Mutant: ID/EX is shared by the cores. *)
ResumeSharing(c) ==
    /\ regs' = c.regs /\ pc' = c.pc /\ cp0' = c.cp0
    /\ if_id' = c.if_id /\ id_ex' = id_ex /\ ex_mem' = c.ex_mem /\ mem_wb' = c.mem_wb
    /\ live' = c.live

Resume(c) ==
    /\ regs' = c.regs /\ pc' = c.pc /\ cp0' = c.cp0
    /\ if_id' = c.if_id /\ id_ex' = c.id_ex /\ ex_mem' = c.ex_mem /\ mem_wb' = c.mem_wb
    /\ live' = c.live

(* Mutant: the loop ends before the last core. *)
SkipLastCore ==
    /\ at = "run" /\ i < num_cores
    /\ i' = num_cores
    /\ UNCHANGED <<vars, live, parked, exited>>

(* The end of the loop body of tick. *)
NextCore ==
    /\ at = "run" /\ i < num_cores
    /\ i' = i + 1
    /\ at' = IF i' < num_cores THEN "wb" ELSE "run"
    /\ parked' = [parked EXCEPT ![i] = Window]
    /\ Resume(parked'[i' % num_cores])
    /\ UNCHANGED <<pmem, g_finished, exited>>

CEnded == Ended /\ UNCHANGED <<live, i, parked, exited>>

CNext == StartTick \/ Return \/ RunStage \/ NextCore \/ CEnded

cvars == <<vars, live, i, parked, exited>>

CSpec == CInit /\ [][CNext]_cvars

(* The loops are a single thread that nothing blocks. *)
CFairSpec == CSpec /\ WF_cvars(CNext)

-----------------------------------------------------------------------------
(* Core c, wherever it is, and what it looks like to a programmer. *)
Core(c) == IF c = Turn THEN Window ELSE parked[c]

View(c) == INSTANCE PipelineISA WITH
    regs <- Core(c).regs, pc <- Core(c).pc, cp0 <- Core(c).cp0,
    if_id <- Core(c).if_id, id_ex <- Core(c).id_ex,
    ex_mem <- Core(c).ex_mem, mem_wb <- Core(c).mem_wb, live <- Core(c).live,
    g_finished <- c \in exited,
    at <- IF c = Turn THEN at ELSE "run"

Shared == INSTANCE SharedISA WITH
    Cores <- CoreNum,
    machine <- [c \in CoreNum |->
        [regs |-> View(c)!IsaRegs, cp0 |-> View(c)!IsaCp0, pc |-> View(c)!IsaPc,
         npc |-> View(c)!IsaNpc, bd |-> View(c)!IsaBd, halted |-> View(c)!IsaHalted]]

(***************************************************************************)
(* The cores are sequentially consistent: their pipelines, interleaved     *)
(* stage by stage, do what the cores would do if one instruction of one    *)
(* core were executed at a time.  In particular no core disturbs another   *)
(* but through memory, also when one of them traps or ends the program.    *)
(***************************************************************************)
ImplementsSharedISA == Shared!Spec

(* No core is starved: until the process ends, every core has another      *)
(* instruction that reaches MEM.                                           *)
CoresKeepRetiring ==
    \A c \in CoreNum :
        i = num_cores ~> \/ i = c /\ at = "mem" /\ "ex_mem" \in live
                         \/ at \in {"exit", "segv"}

=============================================================================
