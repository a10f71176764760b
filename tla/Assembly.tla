------------------------------ MODULE Assembly ------------------------------
(***************************************************************************)
(* How the programs for model checking are written down and put in memory. *)
(***************************************************************************)
EXTENDS Instructions, SequencesExt

R(f, rd_, rs_, rt_) == [NOP EXCEPT !.funct = f, !.rd = rd_, !.rs = rs_, !.rt = rt_]
I(o, rt_, rs_, n) == [NOP EXCEPT !.op = o, !.rt = rt_, !.rs = rs_, !.imm = n % HalfSize]
J(o, word) == [NOP EXCEPT !.op = o, !.target = word]
C(f, rt_, rd_) == [NOP EXCEPT !.op = "CP0", !.rs = f, !.rt = rt_, !.rd = rd_]

t0 == 8
t1 == 9
sp == REG_SP
ra == REG_RA
v0 == REG_V0
k0 == 26
k1 == 27

SYSCALL == R("SYSCALL", 0, 0, 0)
UNKNOWN == [NOP EXCEPT !.op = "UNKNOWN"]

-----------------------------------------------------------------------------
(* An instruction is encoded as its position in a table. *)
DecodeBy(table) == [w \in Word |-> CASE w = 0 -> NOP
                                      [] w \in DOMAIN table -> table[w]
                                      [] OTHER -> UNKNOWN]

(* The bytes of a sequence of words, big-endian; zero bytes are not stored. *)
Image(words) ==
    LET bytes == [a \in 0 .. 4 * Len(words) - 1 |->
                    (words[(a \div 4) + 1] \div Weight(3 - (a % 4))) % ByteSize]
    IN  [a \in {b \in DOMAIN bytes : bytes[b] # 0} |-> bytes[a]]

(* The descriptor area holds the shutdown device and is otherwise empty. *)
MCDescriptorRead(offset, size) == IF offset = 0 THEN 3 ELSE 0

=============================================================================
