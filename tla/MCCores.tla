------------------------------ MODULE MCCores ------------------------------
(***************************************************************************)
(* Two cores.  Memory is larger than 4/3 of kseg0's window, so that virtual*)
(* address 0, where core 1 starts, is mapped: to the first word of kseg0.  *)
(***************************************************************************)
EXTENDS Cores, Assembly

(* Two words that both cores use, and their contents at the start. *)
X == 64
Y == 68

CoreBody ==
    <<I("SW", 0, 0, X), I("LW", t0, 0, X), I("SW", t0, 0, Y), I("LW", t0, 0, Y),
      I("ADDI", v0, 0, 10), SYSCALL>>

BodySlots == 2

(***************************************************************************)
(* Layout, in words: the jump of core 1 to its program, the handler, the   *)
(* program of core 0, which then exits or waits, and that of core 1, which *)
(* then waits.  Core 0 lets two instructions pass, so that both bodies     *)
(* start together; stalls and traps then shift them against each other.    *)
(***************************************************************************)
Core0Start == 6
Core1Start == 12
Fixed ==
    <<J("J", Core1Start), NOP, I("ADDI", k1, k1, 1), INSTRUCTION_ERET,
      I("ADDI", v0, 0, 10), SYSCALL, J("J", Core1Start + BodySlots),
      J("J", Core0Start + BodySlots)>>

Table == CoreBody \o Fixed
MCDecode == DecodeBy(Table)

F(k) == Len(CoreBody) + k

Exit == <<F(5), F(6)>>
Wait == <<F(8), 0>>

Program(body0, end0, body1) ==
    <<F(1), F(2), F(3), F(4)>> \o <<0, 0>> \o body0 \o end0 \o <<0, 0>>
        \o body1 \o <<F(7), 0>> \o <<1, 1>>

(* Only the body of core 1 may end the program early. *)
Bodies0 == [1 .. BodySlots -> DOMAIN CoreBody \ {5}]
Bodies1 == [1 .. BodySlots -> DOMAIN CoreBody]

(* The bodies after which both cores may wait: loads and traps. *)
Waiting0 == [1 .. BodySlots -> {2, 6}]
Waiting1 == [1 .. BodySlots -> {2, 5, 6}]

MCImages == {Image(Program(body0, Exit, body1)) : body0 \in Bodies0, body1 \in Bodies1}
    \cup {Image(Program(body0, Wait, body1)) : body0 \in Waiting0, body1 \in Waiting1}
MCEntry == KSEG0_VSTART + 4 * 4

=============================================================================
