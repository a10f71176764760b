----------------------------- MODULE MCStartup -----------------------------
(***************************************************************************)
(* The command lines and the ELF files for which the start is checked.     *)
(***************************************************************************)
EXTENDS Startup

MCMemorySize == 64

(* The NaN of module CommandLine. *)
NotANumber == -1

Short(o, a) == [form |-> "short", name |-> o, arg |-> a, word |-> "-o"]
Long(o, a) == [form |-> "long", name |-> o, arg |-> a, word |-> "--option"]
Operand(path) == [form |-> "operand", name |-> "", arg |-> <<>>, word |-> path]
DashDash == [form |-> "end", name |-> "", arg |-> <<>>, word |-> "--"]

(* Every option, also with an argument missing or that is no number. *)
Tokens ==
    {Short("c", <<2>>), Long("cores", <<0>>), Short("m", <<32>>), Long("memory", <<NotANumber>>),
     Short("p", <<"a">>), Short("d", <<>>), Short("l", <<>>), Short("c", <<>>),
     Long("help", <<>>), Long("debug", <<>>), Long("log", <<"f">>),
     DashDash, Operand("b")}

(* Repeated options, and numbers of cores that an int cannot hold. *)
Repeated ==
    {Short("c", <<2>>), Long("cores", <<3>>), Short("c", <<WordSize + 1>>),
     Short("c", <<WordSize>>), Short("c", <<INT_MAX>>), Short("c", <<INT_MAX + 1>>),
     Short("m", <<32>>), Long("memory", <<48>>), Short("p", <<"b">>), Long("program", <<"c">>),
     Operand("b")}

(* Only the last argument can lack the word that it requires. *)
MCArguments ==
    {args \in UNION {[1 .. n -> Tokens] : n \in 0 .. 2} :
        Len(args) = 2 => args[1] # Short("c", <<>>)}
    \cup [1 .. 3 -> Repeated]

-----------------------------------------------------------------------------
(***************************************************************************)
(* Segments of up to four bytes at the start of kseg0, across the end of   *)
(* the buffer (that of kseg0 is in the middle of it) and at unmapped       *)
(* addresses; with more bytes in the file than in memory and the other way *)
(* round, with none, and beyond the end of the file.                       *)
(***************************************************************************)
K0 == 4 * (WordSize \div 8)

Segment(type, vaddr, filesz, size, offset) ==
    [p_type |-> type, p_vaddr |-> vaddr, p_filesz |-> filesz, p_memsz |-> size,
     p_offset |-> offset]

ProgramHeader(n) ==
    CASE n = 1  -> Segment(PT_LOAD, K0, 0, 3, 52)
      [] n = 2  -> Segment(PT_LOAD, K0, 2, 0, 52)
      [] n = 3  -> Segment(PT_LOAD, K0, 2, 3, 52)
      [] n = 4  -> Segment(PT_LOAD, K0, 4, 3, 52)
      [] n = 5  -> Segment(PT_LOAD, K0 + 2, 0, 0, 52)
      [] n = 6  -> Segment(PT_LOAD, K0 + 2, 2, 3, 54)
      [] n = 7  -> Segment(PT_LOAD, K0 + 2, 4, 0, 54)
      [] n = 8  -> Segment(PT_LOAD, K0 + 1, 2, 4, 0)
      [] n = 9  -> Segment(PT_LOAD, K0 + 1, 2, 4, 125)
      [] n = 10 -> Segment(PT_LOAD, K0 + 1, 2, 4, 200)
      [] n = 11 -> Segment(PT_LOAD, K0, 1, MCMemorySize + 1, 52)
      [] n = 12 -> Segment(PT_LOAD, 0, 1, 1, 52)
      [] n = 13 -> Segment(PT_LOAD, 0, 1, 0, 52)
      [] n = 14 -> Segment("PT_NOTE", K0, 1, 1, 0)
      [] n = 15 -> Segment("PT_DYNAMIC", K0, 1, 1, 0)

(***************************************************************************)
(* The files.  Up to 10 one thing is wrong with each (too short, not a big *)
(* endian MIPS program, a stream that cannot seek) or the table is empty;  *)
(* then every pair of program headers.  All of these may be found at "a";  *)
(* at "b", the last two, of which the first fits; nothing is at "c".  The  *)
(* table is at the end of the file, with entries of 36 bytes.              *)
(***************************************************************************)
HeaderNumber(n, o) ==
    CASE n <= 10           -> IF o = 64 THEN 4 ELSE 14
      [] n \in 11 .. 235   -> 1 + (IF o = 64 THEN (n - 11) \div 15 ELSE (n - 11) % 15)
      [] n = 236           -> IF o = 64 THEN 3 ELSE 6
      [] n = 237           -> IF o = 64 THEN 11 ELSE 12

ElfFile(n) ==
    [path |-> IF n <= 235 THEN "a" ELSE "b",
     length |-> CASE n = 1 -> 0 [] n = 2 -> 17 [] n = 3 -> 30 [] n = 4 -> 120 [] OTHER -> 126,
     magic |-> n # 5, class32 |-> TRUE, msb |-> n # 6,
     e_type |-> IF n = 7 THEN 3 ELSE ET_EXEC,
     e_machine |-> IF n = 8 THEN 3 ELSE EM_MIPS,
     seekable |-> n # 9,
     e_phnum |-> IF n = 10 THEN 0 ELSE 2,
     e_entry |-> K0 + 8, e_phoff |-> 64, e_phentsize |-> 36,
     byte |-> [o \in 0 .. 125 |-> 1 + (o % (ByteSize - 1))],
     phdr |-> [o \in 0 .. 125 |-> IF o \in {64, 100} THEN ProgramHeader(HeaderNumber(n, o))
                                  ELSE Segment("PT_NULL", 0, 0, 0, 0)]]

MCFiles == [n \in 1 .. 237 |-> ElfFile(n)]

=============================================================================
