----------------------------- MODULE SharedISA -----------------------------
(***************************************************************************)
(* Several cores as a programmer sees them: each executes the instruction  *)
(* set, one instruction of one core at a time, on one memory.  This is     *)
(* sequential consistency.  Only core 0 is set up to run a program; the    *)
(* others start with everything zero.                                      *)
(***************************************************************************)
EXTENDS Instructions

CONSTANTS Entry, Cores

VARIABLES
    machine,    \* the state of every core, as in module ISA
    pmem

M(c) == INSTANCE ISA WITH regs <- machine[c].regs, cp0 <- machine[c].cp0,
                          pc <- machine[c].pc, npc <- machine[c].npc,
                          bd <- machine[c].bd, halted <- machine[c].halted

Blank == [regs |-> [r \in RegNum |-> 0], cp0 |-> [r \in Cp0Num |-> 0],
          pc |-> 0, npc |-> 4, bd |-> FALSE, halted |-> FALSE]

Init ==
    /\ M(0)!Init
    /\ \A c \in Cores \ {0} : machine[c] = Blank

Step(c) ==
    /\ M(c)!Step
    /\ \A d \in Cores \ {c} : machine'[d] = machine[d]

Next == \E c \in Cores : Step(c)

Spec == Init /\ [][Next]_<<machine, pmem>>

=============================================================================
