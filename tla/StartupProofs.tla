--------------------------- MODULE StartupProofs ---------------------------
(***************************************************************************)
(* Proofs about the way from the command line to the first tick: for every *)
(* command line, every set of files and every size of memory.              *)
(***************************************************************************)
EXTENDS Startup, WordProofs

-----------------------------------------------------------------------------
(***************************************************************************)
(* The options that getopt_long recognises, by their names.                *)
(***************************************************************************)
LEMMA OptionNames ==
    ASSUME NEW a, CL!IsOption(a), CL!getopt_long(a) # "?"
    PROVE  /\ a.name \in {"c", "cores"} <=> CL!getopt_long(a) = "c" /\ a.arg # <<>>
           /\ a.name \in {"m", "memory"} <=> CL!getopt_long(a) = "m"
           /\ a.name \in {"p", "program"} <=> CL!getopt_long(a) = "p"
           /\ a.name \in {"d"} <=> CL!getopt_long(a) = "d"
           /\ a.name \in {"log"} <=> CL!getopt_long(a) = "l"
           /\ CL!getopt_long(a) \in {"m", "p"} => a.arg # <<>>
<1>1. CASE a.form = "long"
  <2>1. /\ a.name \in DOMAIN CL!long_options
        /\ CL!long_options[a.name].required <=> a.arg # <<>>
        /\ CL!getopt_long(a) = CL!long_options[a.name].val
    BY <1>1 DEF CL!getopt_long
  <2>2. DOMAIN CL!long_options = {"cores", "debug", "help", "memory", "program", "log"}
    BY DEF CL!long_options
  <2> QED  BY <2>1, <2>2 DEF CL!long_options
<1>2. CASE a.form # "long"
  <2>1. /\ a.name \in DOMAIN CL!optstring
        /\ CL!optstring[a.name].required <=> a.arg # <<>>
        /\ CL!getopt_long(a) = CL!optstring[a.name].val
    BY <1>2 DEF CL!getopt_long
  <2>2. DOMAIN CL!optstring = {"c", "d", "h", "m", "p"}
    BY DEF CL!optstring
  <2> QED  BY <2>1, <2>2 DEF CL!optstring
<1> QED  BY <1>1, <1>2

(* What strtoul makes of the arguments of --cores and --memory. *)
LEMMA NumbersRead ==
    ASSUME argv \in Arguments, NEW k \in 1 .. Len(argv),
           argv[k].name \in {"c", "cores", "m", "memory"}, argv[k].arg # <<>>,
           argv[k].arg[1] # CL!NaN
    PROVE  argv[k].arg[1] \in Nat
BY ArgumentsAssumption

-----------------------------------------------------------------------------
(***************************************************************************)
(* Type correctness needs to know that the command line stays what it was, *)
(* that a file is open while it is read, and that nothing is written to    *)
(* memory before it is allocated.                                          *)
(***************************************************************************)
Fresh == {"args", "log", "simulate", "open", "ident", "type", "header", "table"}
Opened == {"ident", "type", "header", "table", "segment", "close", "run"}

Fields == {"program", "debug", "cores", "memsz", "logging"}

TypeInv ==
    /\ TypeOK
    /\ argv \in Arguments
    /\ DOMAIN simulator = Fields
    /\ at \in Opened => fd \in DOMAIN Files
    /\ at \in Fresh => DOMAIN pmem = {}

LEMMA PlacedType ==
    ASSUME mem_size \in Nat, NEW v \in Word
    PROVE  M!Translate(v) \in Int
<1>1. /\ WordSize \in Nat /\ M!WordSize = WordSize /\ M!HalfSize = HalfSize /\ HalfSize \in Nat
      /\ M!Unit \in Nat /\ M!Unit > 0 /\ v \in Nat
  <2>1. M!WordSize = WordSize /\ M!HalfSize = HalfSize
    BY DEF M!WordSize, M!HalfSize, WordSize, HalfSize
  <2> QED  BY <2>1, WordSizeBound, HalfSizeBound, SMT DEF M!Unit, Word
<1>2. M!translate_vaddr(v) \in Int
  <2>1. v % M!Unit \in Int /\ v + M!KSEG0_SIZE + M!KSEG1_SIZE \in Int
    BY <1>1, SMT DEF M!KSEG0_SIZE, M!KSEG1_SIZE
  <2> QED  BY <1>1, <2>1 DEF M!translate_vaddr
<1>3. ASSUME NEW p \in Int PROVE M!translate_paddr(p) \in Int
  BY <1>1, SMT DEF M!translate_paddr, M!NULL, M!KSEG1_PSTART, M!KSEG0_PSTART, M!KUSEG_PSTART
<1> QED  BY <1>2, <1>3 DEF M!Translate

LEMMA FileType ==
    ASSUME fd \in DOMAIN Files
    PROVE  /\ file.length \in Nat /\ file.e_entry \in Word
           /\ file.e_phoff \in Nat /\ file.e_phentsize \in Nat /\ file.e_phnum \in Nat
           /\ \A o \in 0 .. file.length - 1 : file.byte[o] \in Byte
           /\ \A o \in 0 .. file.length - PHeaderLength :
                /\ file.phdr[o].p_vaddr \in Word /\ file.phdr[o].p_vaddr \in Nat
                /\ file.phdr[o].p_offset \in Nat
                /\ file.phdr[o].p_filesz \in Nat /\ file.phdr[o].p_memsz \in Nat
BY FilesAssumption, SizeFacts DEF file, Word

LEMMA EntryType ==
    ASSUME TypeInv, InEntry
    PROVE  /\ phdr.p_vaddr \in Word /\ phdr.p_vaddr \in Nat /\ phdr.p_offset \in Nat
           /\ phdr.p_filesz \in Nat /\ phdr.p_memsz \in Nat
           /\ Available(phdr) \in Nat
           /\ phdr.p_offset + Available(phdr) <= file.length \/ Available(phdr) = 0
           /\ Placed(phdr) \in Int
<1>1. fd \in DOMAIN Files /\ pos \in Nat /\ pos + PHeaderLength <= file.length
  BY DEF TypeInv, TypeOK, LoaderTypeOK, Opened, InEntry, InLoop
<1>2. file.length \in Nat
  BY <1>1, FileType
<1>3. pos \in 0 .. file.length - PHeaderLength
  BY <1>1, <1>2 DEF PHeaderLength
<1>4. /\ phdr.p_vaddr \in Word /\ phdr.p_vaddr \in Nat /\ phdr.p_offset \in Nat
      /\ phdr.p_filesz \in Nat /\ phdr.p_memsz \in Nat
  BY <1>1, <1>3, FileType DEF phdr
<1>5. /\ Available(phdr) \in Nat
      /\ phdr.p_offset + Available(phdr) <= file.length \/ Available(phdr) = 0
  BY <1>2, <1>4 DEF Available
<1>6. Placed(phdr) \in Int
  BY <1>4, PlacedType DEF Placed, TypeInv, TypeOK, LoaderTypeOK
<1> QED  BY <1>4, <1>5, <1>6

(* What copy_segment writes are bytes of the file, or 0. *)
LEMMA CopiedType ==
    ASSUME TypeInv, InEntry
    PROVE  LET m == Copied(phdr, Placed(phdr))
           IN  m \in [DOMAIN m -> Byte] /\ DOMAIN m \subseteq Int
<1> DEFINE h == phdr
           a == Placed(h)
           read == a .. a + Available(h) - 1
           cleared == (a .. a + h.p_memsz - 1) \ read
           m == Copied(h, a)
           D == DOMAIN pmem \cup read \cup cleared
<1>1. /\ h.p_offset \in Nat /\ Available(h) \in Nat /\ a \in Int
      /\ h.p_offset + Available(h) <= file.length \/ Available(h) = 0
  BY EntryType
<1>2. file.length \in Nat /\ \A o \in 0 .. file.length - 1 : file.byte[o] \in Byte
  BY FileType DEF TypeInv, Opened, InEntry, InLoop
<1>3. DOMAIN m = D
  BY DEF Copied
<1>4. \A x \in DOMAIN pmem : pmem[x] \in Byte
  BY DEF TypeInv, TypeOK, LoaderTypeOK
<1>5. ASSUME NEW x \in read PROVE file.byte[h.p_offset + (x - a)] \in Byte
  <2> HIDE DEF h, a
  <2>1. h.p_offset + (x - a) \in 0 .. file.length - 1
    BY <1>1, <1>2
  <2> QED  BY <1>2, <2>1
<1>6. 0 \in Byte
  BY ByteAssumption DEF Byte
<1>7. ASSUME NEW x \in D PROVE m[x] \in Byte
  <2>1. m[x] = CASE x \in read -> file.byte[h.p_offset + (x - a)]
                 [] x \in cleared -> 0
                 [] OTHER -> pmem[x]
    BY DEF Copied
  <2>2. x \in read \/ x \in cleared \/ x \in DOMAIN pmem
    OBVIOUS
  <2>3. ~(x \in read /\ x \in cleared)
    OBVIOUS
  <2> HIDE DEF read, cleared, m, h, a
  <2> QED  BY <1>4, <1>5, <1>6, <2>1, <2>2, <2>3
<1>8. m \in [DOMAIN m -> Byte]
  <2>1. m = [x \in D |-> CASE x \in read -> file.byte[h.p_offset + (x - a)]
                           [] x \in cleared -> 0
                           [] OTHER -> pmem[x]]
    BY DEF Copied
  <2> HIDE DEF D, read, cleared, h, a, m
  <2> QED  BY <1>3, <1>7, <2>1
<1>9. D \subseteq Int
  <2>1. read \subseteq Int /\ cleared \subseteq Int
    OBVIOUS
  <2>2. DOMAIN pmem \subseteq Int
    BY DEF TypeInv, TypeOK, LoaderTypeOK
  <2> HIDE DEF read, cleared
  <2> QED  BY <2>1, <2>2
<1> QED  BY <1>3, <1>8, <1>9

LEMMA MainType ==
    ASSUME TypeInv, Main
    PROVE  TypeInv'
<1>1. /\ UNCHANGED <<loader, num_cores>> /\ argv' = argv /\ Len(argv) \in Nat
      /\ optind \in 1 .. Len(argv) + 1 /\ argv \in Arguments /\ DOMAIN simulator = Fields
  BY ArgumentsAssumption DEF Main, CL!main, CL!OptDebug, CL!OptCores, CL!OptProgram,
        CL!OptMemory, CL!OptHelp, CL!OptLog, CL!Option, CL!OptionsEnd, CL!OpenLog,
        TypeInv, TypeOK
<1>2. LoaderTypeOK'
  BY <1>1 DEF loader, LoaderTypeOK, TypeInv, TypeOK
<1>3. SUFFICES /\ optind' \in 1 .. Len(argv) + 1
               /\ DOMAIN simulator' = Fields
               /\ simulator'.debug \in BOOLEAN /\ simulator'.logging \in BOOLEAN
               /\ simulator'.cores \in Nat /\ simulator'.memsz \in Nat
               /\ at' \in {"args", "log", "simulate", "exit", "segv"}
  <2>1. DOMAIN pmem' = {}
    BY <1>1 DEF Main, CL!main, CL!OptDebug, CL!OptCores, CL!OptProgram, CL!OptMemory,
        CL!OptHelp, CL!OptLog, CL!Option, CL!OptionsEnd, CL!OpenLog, TypeInv, Fresh, loader
  <2> QED  BY <1>1, <1>2, <2>1 DEF TypeInv, TypeOK, Opened
<1>4. /\ simulator.debug \in BOOLEAN /\ simulator.logging \in BOOLEAN
      /\ simulator.cores \in Nat /\ simulator.memsz \in Nat
  BY DEF TypeInv, TypeOK
<1>5. ASSUME NEW c, CL!Option(c)
      PROVE  /\ at = "args" /\ optind \in 1 .. Len(argv) /\ optind' \in 1 .. Len(argv) + 1
             /\ CL!IsOption(argv[optind]) /\ CL!getopt_long(argv[optind]) = c
  BY <1>1, <1>5 DEF CL!Option
<1>6. ASSUME NEW c \in {"c", "m"}, NEW field \in {"cores", "memsz"}, CL!Option(c),
             CL!parse_size_t(field)
      PROVE  /\ DOMAIN simulator' = Fields
             /\ simulator'.debug \in BOOLEAN /\ simulator'.logging \in BOOLEAN
             /\ simulator'.cores \in Nat /\ simulator'.memsz \in Nat
             /\ at' \in {"args", "exit", "segv"}
  <2>1. at' \in {"args", "exit", "segv"}
    BY <1>5, <1>6 DEF CL!parse_size_t
  <2>2. CASE simulator' = simulator
    BY <1>1, <1>4, <2>1, <2>2
  <2>3. CASE simulator' # simulator
    <3>1. /\ simulator' = [simulator EXCEPT ![field] = argv[optind].arg[1]]
          /\ argv[optind].arg # <<>> /\ argv[optind].arg[1] # CL!NaN
      BY <1>6, <2>3 DEF CL!parse_size_t, CL!optarg
    <3>2. argv[optind].name \in {"c", "cores", "m", "memory"}
      BY <1>5, <1>6, <3>1, OptionNames
    <3>3. argv[optind].arg[1] \in Nat
      BY <1>1, <1>5, <1>6, <3>1, <3>2, NumbersRead
    <3> QED  BY <1>1, <1>4, <2>1, <3>1, <3>3 DEF Fields
  <2> QED  BY <2>2, <2>3
<1>7. CASE CL!OptDebug
  BY <1>1, <1>4, <1>5, <1>7 DEF CL!OptDebug, Fields
<1>8. CASE CL!OptCores
  BY <1>5, <1>6, <1>8 DEF CL!OptCores
<1>9. CASE CL!OptProgram
  BY <1>1, <1>4, <1>5, <1>9 DEF CL!OptProgram, Fields
<1>10. CASE CL!OptMemory
  BY <1>5, <1>6, <1>10 DEF CL!OptMemory
<1>11. CASE CL!OptHelp
  BY <1>1, <1>4, <1>5, <1>11 DEF CL!OptHelp
<1>12. CASE CL!OptLog
  BY <1>1, <1>4, <1>5, <1>12 DEF CL!OptLog, Fields
<1>13. CASE CL!OptionsEnd
  <2>1. optind' \in 1 .. Len(argv) + 1
    BY <1>1, <1>13 DEF CL!OptionsEnd, CL!OperandIndex
  <2>2. at' \in {"exit", "log", "simulate"}
    BY <1>13 DEF CL!OptionsEnd
  <2>3. \E program : simulator' = [simulator EXCEPT !.program = program]
    BY <1>13 DEF CL!OptionsEnd
  <2> QED  BY <1>1, <1>4, <2>1, <2>2, <2>3 DEF Fields
<1>14. CASE CL!OpenLog
  BY <1>1, <1>4, <1>14 DEF CL!OpenLog, Fields
<1> QED  BY <1>7, <1>8, <1>9, <1>10, <1>11, <1>12, <1>13, <1>14 DEF Main, CL!main

LEMMA LoadType ==
    ASSUME TypeInv, Load
    PROVE  TypeInv'
<1> DEFINE Results == {0, ELF_ERROR_IO_ERROR, ELF_ERROR_NOT_ELF, ELF_ERROR_NOT_SUPPORTED}
           IsBuffer(m) == m \in [DOMAIN m -> Byte] /\ DOMAIN m \subseteq Int
<1>1. argv' = argv /\ optind' = optind /\ simulator' = simulator /\ num_cores' = num_cores
  BY DEF Load, main_vars
<1>2. /\ mem_size \in Nat /\ pos \in Nat /\ i \in Nat /\ retval \in Results /\ entry \in Word
      /\ IsBuffer(pmem)
  BY DEF TypeInv, TypeOK, LoaderTypeOK
<1>3. SUFFICES /\ mem_size' = mem_size
               /\ pos' \in Nat /\ i' \in Nat /\ retval' \in Results /\ entry' \in Word
               /\ IsBuffer(pmem')
               /\ at' \in Opened \cup {"exit", "segv"}
               /\ at' \in Opened => fd' \in DOMAIN Files
               /\ at' \in Fresh => DOMAIN pmem' = {}
  BY <1>1, <1>2 DEF TypeInv, TypeOK, LoaderTypeOK, Opened, Fresh
<1>4. ASSUME NEW r \in Results, NEW next, Return(r, next)
      PROVE  retval' \in Results /\ at' \in {next, "exit"}
  BY <1>4 DEF Return
<1>5. ASSUME at \in Opened
      PROVE  /\ fd \in DOMAIN Files /\ file.e_entry \in Word /\ file.e_phoff \in Nat
             /\ file.e_phentsize \in Nat /\ file.e_phnum \in Nat /\ file.length \in Nat
  BY <1>5, FileType DEF TypeInv
<1>6. ASSUME NEW r \in Results, NextEntry(r), InLoop
      PROVE  /\ retval' \in Results /\ at' \in {"segment", "exit"}
             /\ i' \in Nat /\ pos' \in Nat
  BY <1>2, <1>4, <1>5, <1>6 DEF NextEntry, InLoop, Opened, Fresh, TypeInv
<1>7. CASE OpenFails
  BY <1>2, <1>7 DEF OpenFails, Return, Opened, Fresh, TypeInv, ELF_ERROR_IO_ERROR
<1>8. CASE Open(simulator.program[1])
  BY <1>2, <1>8 DEF Open, Return, Opened, Fresh, TypeInv
<1>9. CASE read_elf_ident
  <2>1. at \in Opened
    BY <1>9 DEF read_elf_ident, Opened, Fresh, TypeInv
  <2>2. \E r \in Results : Return(r, "type")
    BY <1>9, <1>5, <2>1 DEF read_elf_ident, IdentLength
  <2> QED  BY <1>2, <1>4, <1>5, <1>9, <2>1, <2>2 DEF read_elf_ident, Opened, Fresh, TypeInv
<1>10. CASE read_type_and_machine
  <2>1. at \in Opened
    BY <1>10 DEF read_type_and_machine, Opened, Fresh, TypeInv
  <2>2. \E r \in Results : Return(r, "header")
    BY <1>10, <1>5, <2>1 DEF read_type_and_machine, TypeEnd, IdentLength
  <2> QED  BY <1>2, <1>4, <1>5, <1>10, <2>1, <2>2 DEF read_type_and_machine, Opened, Fresh, TypeInv
<1>11. CASE read_ehdr
  <2>1. at \in Opened
    BY <1>11 DEF read_ehdr, Opened, Fresh, TypeInv
  <2>2. \E r \in Results : Return(r, "table")
    BY <1>11 DEF read_ehdr
  <2>3. entry' \in Word
    BY <1>2, <1>5, <1>11, <2>1 DEF read_ehdr
  <2> QED  BY <1>2, <1>4, <1>5, <1>11, <2>1, <2>2, <2>3 DEF read_ehdr, Opened, Fresh, TypeInv
<1>12. CASE SeekTable
  <2>1. at \in Opened
    BY <1>12 DEF SeekTable, Opened, Fresh, TypeInv
  <2>2. \E r \in Results : Return(r, "segment")
    BY <1>12 DEF SeekTable
  <2>3. pos' \in Nat /\ i' \in Nat
    BY <1>2, <1>5, <1>12, <2>1 DEF SeekTable
  <2> QED  BY <1>2, <1>4, <1>5, <1>12, <2>1, <2>2, <2>3 DEF SeekTable, Opened, Fresh, TypeInv
<1>13. CASE HeaderUnreadable
  BY <1>2, <1>5, <1>6, <1>13 DEF HeaderUnreadable, InLoop, Opened, Fresh, TypeInv
<1>14. CASE SkipEntry
  <2>1. \E r \in Results : NextEntry(r)
    BY <1>14 DEF SkipEntry
  <2> QED  BY <1>2, <1>5, <1>6, <1>14, <2>1 DEF SkipEntry, InEntry, InLoop, Opened, Fresh, TypeInv
<1>15. ASSUME InEntry, pmem' = Copied(phdr, Placed(phdr)) PROVE IsBuffer(pmem')
  BY <1>15, CopiedType
<1>16. \A h : ReadResult(h) \in Results
  BY DEF ReadResult
<1>17. CASE copy_segment
  <2>1. InEntry /\ pmem' = Copied(phdr, Placed(phdr)) /\ NextEntry(ReadResult(phdr))
            /\ UNCHANGED <<mem_size, fd, entry>>
    BY <1>17 DEF copy_segment
  <2> HIDE DEF IsBuffer, Results
  <2> QED  BY <1>2, <1>5, <1>6, <1>15, <1>16, <2>1 DEF InEntry, InLoop, Opened, Fresh, TypeInv
<1>18. CASE CopyToNull
  BY <1>2, <1>5, <1>6, <1>18 DEF CopyToNull, InEntry, InLoop, Opened, Fresh, TypeInv
<1>19. CASE CopyOutside
  <2>1. /\ InEntry /\ pmem' = Copied(phdr, Placed(phdr)) /\ UNCHANGED <<mem_size, fd, entry>>
        /\ (at' = "segv" /\ UNCHANGED <<pos, i, retval>>) \/ NextEntry(ReadResult(phdr))
    BY <1>19 DEF CopyOutside
  <2> HIDE DEF IsBuffer, Results
  <2> QED  BY <1>2, <1>5, <1>6, <1>15, <1>16, <2>1 DEF InEntry, InLoop, Opened, Fresh, TypeInv
<1>20. CASE SegmentsCopied
  BY <1>2, <1>5, <1>20 DEF SegmentsCopied, loader, Opened, Fresh, TypeInv
<1>21. CASE elf_close
  <2>1. \E r \in Results : Return(r, "run")
    BY <1>21 DEF elf_close
  <2> QED  BY <1>2, <1>4, <1>5, <1>21, <2>1 DEF elf_close, Opened, Fresh, TypeInv
<1> QED  BY <1>7, <1>8, <1>9, <1>10, <1>11, <1>12, <1>13, <1>14, <1>17, <1>18, <1>19, <1>20,
           <1>21 DEF Load, elf_dump

(* What cpu_init makes of the number of cores: an int. *)
LEMMA CoresPassed ==
    ASSUME simulator.cores \in Nat
    PROVE  /\ n_cores \in Int
           /\ simulator.cores <= INT_MAX => n_cores = simulator.cores
<1> DEFINE c == simulator.cores
<1>1. WordSize \in Nat /\ WordSize > 0 /\ SignSize \in Nat /\ SignSize < WordSize
  BY WordSizeBound, SMT DEF SignSize
<1>2. c \in Nat
  OBVIOUS
<1> HIDE DEF c
<1>3. u32(c) \in 0 .. WordSize - 1 /\ (c < WordSize => u32(c) = c)
  BY <1>1, <1>2, SMT DEF u32
<1>4. c <= INT_MAX => c < SignSize
  BY <1>1, <1>2 DEF INT_MAX
<1>5. s32(u32(c)) \in Int /\ (c <= INT_MAX => s32(u32(c)) = c)
  BY <1>1, <1>2, <1>3, <1>4 DEF s32
<1> QED  BY <1>5 DEF n_cores, c

LEMMA TypeInvInit == Init => TypeInv
<1> SUFFICES ASSUME Init PROVE TypeInv
  OBVIOUS
<1>1. 0 \in Word
  BY WordSizeBound DEF Word
<1>2. argv \in Arguments /\ Len(argv) \in Nat
  BY ArgumentsAssumption DEF Init, CL!Init
<1> QED  BY <1>1, <1>2, ArgumentsAssumption
         DEF Init, CL!Init, TypeInv, TypeOK, LoaderTypeOK, Fields, Opened, Fresh

LEMMA TypeInvStep == TypeInv /\ [Next]_vars => TypeInv'
<1> SUFFICES ASSUME TypeInv, [Next]_vars PROVE TypeInv'
  OBVIOUS
<1>1. CASE Main
  BY <1>1, MainType
<1>2. CASE hw_init
  <2>1. num_cores' \in Nat
    BY <1>2, CoresPassed DEF hw_init, TypeInv, TypeOK
  <2> QED  BY <1>2, <2>1 DEF hw_init, main_vars, TypeInv, TypeOK, LoaderTypeOK, Opened, Fresh
<1>3. CASE AllocationFails
  BY <1>3 DEF AllocationFails, loader, main_vars, TypeInv, TypeOK, LoaderTypeOK, Opened, Fresh
<1>4. CASE Load
  BY <1>4, LoadType
<1>5. CASE Ended \/ UNCHANGED vars
  BY <1>5 DEF Ended, vars, loader, main_vars, TypeInv, TypeOK, LoaderTypeOK, Opened, Fresh
<1> QED  BY <1>1, <1>2, <1>3, <1>4, <1>5 DEF Next

-----------------------------------------------------------------------------
(***************************************************************************)
(* What main has made of the first n - 1 arguments.  The invariant says so *)
(* for n = optind while getopt_long returns options; when the options end, *)
(* these are the leading ones.                                             *)
(***************************************************************************)
Before(n, names) == {k \in 1 .. n - 1 : argv[k].name \in names}

LastBefore(n, names, k) ==
    k \in Before(n, names) /\ \A j \in Before(n, names) : j <= k

SoFar(n, names, default, value) ==
    IF Before(n, names) = {} THEN value = default
    ELSE \E k \in DOMAIN argv : LastBefore(n, names, k) /\ value = argv[k].arg[1]

ProgramSoFar(n, program) ==
    IF Before(n, {"p", "program"}) = {} THEN program = <<>>
    ELSE \E k \in DOMAIN argv : LastBefore(n, {"p", "program"}, k) /\ program = argv[k].arg

ReadUpTo(n) ==
    /\ \A k \in 1 .. n - 1 : CL!IsOption(argv[k])
    /\ SoFar(n, {"c", "cores"}, 1, simulator.cores)
    /\ SoFar(n, {"m", "memory"}, MEMORY_SIZE, simulator.memsz)
    /\ ProgramSoFar(n, simulator.program)
    /\ simulator.debug <=> Before(n, {"d"}) # {}
    /\ simulator.logging => Before(n, {"log"}) # {}

Asked ==
    /\ ProgramAskedFor(simulator.program)
    /\ AskedFor({"c", "cores"}, 1, simulator.cores)
    /\ AskedFor({"m", "memory"}, MEMORY_SIZE, simulator.memsz)
    /\ simulator.debug <=> Given({"d"}) # {}
    /\ simulator.logging => Given({"log"}) # {}

AskedInv ==
    /\ at = "args" => ReadUpTo(optind)
    /\ at \in {"log", "simulate", "open"} \cup Opened => Asked
    /\ at = "log" => simulator.logging
    /\ at \in {"open"} \cup Opened =>
            /\ mem_size = simulator.memsz
            /\ simulator.cores <= INT_MAX => num_cores = simulator.cores

LEMMA BeforeNext ==
    ASSUME NEW n \in Nat, n >= 1, NEW names
    PROVE  /\ argv[n].name \notin names => Before(n + 1, names) = Before(n, names)
           /\ argv[n].name \in names => /\ Before(n + 1, names) = Before(n, names) \cup {n}
                                        /\ Before(n + 1, names) # {}
                                        /\ LastBefore(n + 1, names, n)
<1>1. 1 .. (n + 1) - 1 = (1 .. n - 1) \cup {n}
  OBVIOUS
<1>2. Before(n + 1, names) = {k \in (1 .. n - 1) \cup {n} : argv[k].name \in names}
  BY <1>1 DEF Before
<1>3. argv[n].name \notin names => Before(n + 1, names) = Before(n, names)
  BY <1>2 DEF Before
<1>4. argv[n].name \in names => Before(n + 1, names) = Before(n, names) \cup {n}
  BY <1>2 DEF Before
<1>5. \A j \in Before(n, names) : j <= n
  BY DEF Before
<1> QED  BY <1>3, <1>4, <1>5 DEF LastBefore

LEMMA SoFarNext ==
    ASSUME NEW n \in Nat, n >= 1, n \in DOMAIN argv, NEW names, NEW default, NEW value,
           SoFar(n, names, default, value)
    PROVE  /\ argv[n].name \notin names => SoFar(n + 1, names, default, value)
           /\ argv[n].name \in names => SoFar(n + 1, names, default, argv[n].arg[1])
<1>1. CASE argv[n].name \notin names
  <2>1. Before(n + 1, names) = Before(n, names)
    BY <1>1, BeforeNext
  <2> QED  BY <1>1, <2>1 DEF SoFar, LastBefore
<1>2. CASE argv[n].name \in names
  BY <1>2, BeforeNext DEF SoFar
<1> QED  BY <1>1, <1>2

LEMMA ProgramNext ==
    ASSUME NEW n \in Nat, n >= 1, n \in DOMAIN argv, NEW program, ProgramSoFar(n, program)
    PROVE  /\ argv[n].name \notin {"p", "program"} => ProgramSoFar(n + 1, program)
           /\ argv[n].name \in {"p", "program"} => ProgramSoFar(n + 1, argv[n].arg)
<1> DEFINE names == {"p", "program"}
<1>1. CASE argv[n].name \notin names
  <2>1. Before(n + 1, names) = Before(n, names)
    BY <1>1, BeforeNext
  <2> QED  BY <1>1, <2>1 DEF ProgramSoFar, LastBefore
<1>2. CASE argv[n].name \in names
  BY <1>2, BeforeNext DEF ProgramSoFar
<1> QED  BY <1>1, <1>2

(* Every option adds to what was read what getopt_long returned for it. *)
LEMMA OptionRead ==
    ASSUME TypeInv, ReadUpTo(optind), NEW c, CL!Option(c), c # "?",
           c = "c" => argv[optind].arg # <<>>,
           NEW cores, NEW memory, NEW program, NEW debug \in BOOLEAN, NEW logging \in BOOLEAN,
           cores = IF c = "c" THEN argv[optind].arg[1] ELSE simulator.cores,
           memory = IF c = "m" THEN argv[optind].arg[1] ELSE simulator.memsz,
           program = IF c = "p" THEN argv[optind].arg ELSE simulator.program,
           debug <=> (c = "d" \/ simulator.debug),
           logging <=> (c = "l" \/ simulator.logging)
    PROVE  /\ \A k \in 1 .. (optind + 1) - 1 : CL!IsOption(argv[k])
           /\ SoFar(optind + 1, {"c", "cores"}, 1, cores)
           /\ SoFar(optind + 1, {"m", "memory"}, MEMORY_SIZE, memory)
           /\ ProgramSoFar(optind + 1, program)
           /\ debug <=> Before(optind + 1, {"d"}) # {}
           /\ logging => Before(optind + 1, {"log"}) # {}
<1> DEFINE n == optind
<1>1. /\ n \in Nat /\ n >= 1 /\ n \in DOMAIN argv
      /\ CL!IsOption(argv[n]) /\ CL!getopt_long(argv[n]) = c
  BY ArgumentsAssumption DEF TypeInv, TypeOK, CL!Option
<1>2. /\ argv[n].name \in {"c", "cores"} <=> c = "c"
      /\ argv[n].name \in {"m", "memory"} <=> c = "m"
      /\ argv[n].name \in {"p", "program"} <=> c = "p"
      /\ argv[n].name \in {"d"} <=> c = "d"
      /\ argv[n].name \in {"log"} <=> c = "l"
  BY <1>1, OptionNames
<1>3. \A k \in 1 .. (n + 1) - 1 : CL!IsOption(argv[k])
  BY <1>1 DEF ReadUpTo
<1>4. SoFar(n + 1, {"c", "cores"}, 1, cores)
  <2>1. SoFar(n, {"c", "cores"}, 1, simulator.cores)
    BY DEF ReadUpTo
  <2> QED  BY <1>1, <1>2, <2>1, SoFarNext
<1>5. SoFar(n + 1, {"m", "memory"}, MEMORY_SIZE, memory)
  <2>1. SoFar(n, {"m", "memory"}, MEMORY_SIZE, simulator.memsz)
    BY DEF ReadUpTo
  <2> QED  BY <1>1, <1>2, <2>1, SoFarNext
<1>6. ProgramSoFar(n + 1, program)
  <2>1. ProgramSoFar(n, simulator.program)
    BY DEF ReadUpTo
  <2> QED  BY <1>1, <1>2, <2>1, ProgramNext
<1>7. /\ debug <=> Before(n + 1, {"d"}) # {}
      /\ logging => Before(n + 1, {"log"}) # {}
  BY <1>1, <1>2, BeforeNext DEF ReadUpTo, TypeInv, TypeOK
<1> QED  BY <1>3, <1>4, <1>5, <1>6, <1>7

(* Where the options end, the leading ones and the operands are known. *)
LEMMA OptionsKnown ==
    ASSUME TypeInv, ReadUpTo(optind), CL!OptionsEnd
    PROVE  /\ Leading = 1 .. optind - 1
           /\ \A names : Given(names) = Before(optind, names)
           /\ Operands = CL!OperandIndex .. Len(argv)
           /\ CL!OperandIndex \in 1 .. Len(argv) + 2
<1> DEFINE n == optind
           len == Len(argv)
<1>1. /\ len \in Nat /\ DOMAIN argv = 1 .. len /\ n \in 1 .. len + 1
      /\ n <= len => ~CL!IsOption(argv[n])
      /\ \A k \in 1 .. n - 1 : CL!IsOption(argv[k])
  BY ArgumentsAssumption DEF TypeInv, TypeOK, CL!OptionsEnd, ReadUpTo
<1>2. Leading = 1 .. n - 1
  <2> HIDE DEF n, len
  <2>1. ASSUME NEW k \in 1 .. n - 1 PROVE k \in Leading
    <3>1. k \in DOMAIN argv /\ \A j \in 1 .. k : j \in 1 .. n - 1
      BY <1>1
    <3> QED  BY <1>1, <3>1 DEF Leading
  <2>2. ASSUME NEW k \in Leading PROVE k \in 1 .. n - 1
    <3>1. k \in 1 .. len /\ \A j \in 1 .. k : CL!IsOption(argv[j])
      BY <1>1 DEF Leading
    <3>2. ~(n \in 1 .. k)
      BY <1>1, <3>1
    <3> QED  BY <1>1, <3>1, <3>2
  <2> QED  BY <2>1, <2>2
<1>3. \A names : Given(names) = Before(n, names)
  BY <1>2 DEF Given, Before
<1>4. CL!OperandIndex \in 1 .. len + 2
  BY <1>1 DEF CL!OperandIndex
<1>5. Operands = CL!OperandIndex .. len
  <2>1. \A k \in n .. len : EndOfOptions(k) <=> k = n /\ argv[n].form = "end"
    <3> HIDE DEF n, len
    <3>1. ASSUME NEW k \in n .. len
          PROVE  (\A j \in 1 .. k - 1 : j \in 1 .. n - 1) <=> k = n
      <4>1. CASE k = n
        BY <1>1, <4>1
      <4>2. CASE k # n
        <5>1. n \in 1 .. k - 1 /\ n \notin 1 .. n - 1
          BY <1>1, <4>2
        <5> QED  BY <4>2, <5>1
      <4> QED  BY <4>1, <4>2
    <3> QED  BY <1>2, <3>1 DEF EndOfOptions, n
  <2>2. DOMAIN argv \ Leading = n .. len
    BY <1>1, <1>2
  <2>3. Operands = {k \in n .. len : ~(k = n /\ argv[n].form = "end")}
    BY <2>1, <2>2 DEF Operands
  <2>4. CASE n <= len /\ argv[n].form = "end"
    <3>1. CL!OperandIndex = n + 1
      BY <2>4 DEF CL!OperandIndex
    <3> HIDE DEF n, len
    <3> QED  BY <1>1, <2>3, <2>4, <3>1
  <2>5. CASE ~(n <= len /\ argv[n].form = "end")
    <3>1. CL!OperandIndex = n
      BY <2>5 DEF CL!OperandIndex
    <3> HIDE DEF n, len
    <3> QED  BY <1>1, <2>3, <2>5, <3>1
  <2> QED  BY <2>4, <2>5
<1> QED  BY <1>2, <1>3, <1>4, <1>5

(* What was read so far is what was asked for, once the options have ended. *)
LEMMA OptionsAsked ==
    ASSUME TypeInv, ReadUpTo(optind), CL!OptionsEnd, NEW program, program # <<>>,
           program = IF CL!OperandIndex <= Len(argv) THEN <<argv[CL!OperandIndex].word>>
                     ELSE simulator.program
    PROVE  /\ ProgramAskedFor(program)
           /\ AskedFor({"c", "cores"}, 1, simulator.cores)
           /\ AskedFor({"m", "memory"}, MEMORY_SIZE, simulator.memsz)
           /\ simulator.debug <=> Given({"d"}) # {}
           /\ simulator.logging => Given({"log"}) # {}
<1>1. /\ \A names : Given(names) = Before(optind, names)
      /\ Operands = CL!OperandIndex .. Len(argv)
      /\ CL!OperandIndex \in 1 .. Len(argv) + 2
  BY OptionsKnown
<1>2. Len(argv) \in Nat /\ DOMAIN argv = 1 .. Len(argv)
  BY ArgumentsAssumption DEF TypeInv
<1>3. \A names, k : LastGiven(names, k) <=> LastBefore(optind, names, k)
  BY <1>1 DEF LastGiven, LastBefore
<1>4. ASSUME NEW names, NEW default, NEW value, SoFar(optind, names, default, value)
      PROVE  AskedFor(names, default, value)
  BY <1>1, <1>3, <1>4 DEF SoFar, AskedFor
<1>5. ProgramAskedFor(program)
  <2>1. CASE CL!OperandIndex <= Len(argv)
    <3> DEFINE k == CL!OperandIndex
    <3>1. /\ k \in DOMAIN argv /\ k \in Operands /\ (\A j \in Operands : k <= j)
          /\ program = <<argv[k].word>>
      BY <1>1, <1>2, <2>1
    <3> HIDE DEF k
    <3> QED  BY <3>1 DEF ProgramAskedFor
  <2>2. CASE ~(CL!OperandIndex <= Len(argv))
    <3>1. Operands = {}
      BY <1>1, <1>2, <2>2
    <3>2. ProgramSoFar(optind, program)
      BY <2>2 DEF ReadUpTo
    <3>3. PICK k \in DOMAIN argv : LastBefore(optind, {"p", "program"}, k) /\ program = argv[k].arg
      BY <3>2 DEF ProgramSoFar
    <3> QED  BY <1>3, <3>1, <3>3 DEF ProgramAskedFor
  <2> QED  BY <2>1, <2>2
<1> QED  BY <1>1, <1>4, <1>5 DEF ReadUpTo

LEMMA AskedInvInit == Init => AskedInv
<1> SUFFICES ASSUME Init PROVE AskedInv
  OBVIOUS
<1>1. optind = 1 /\ \A names : Before(optind, names) = {}
  BY DEF Init, CL!Init, Before
<1> QED  BY <1>1 DEF Init, CL!Init, AskedInv, ReadUpTo, SoFar, ProgramSoFar, Opened

(* The arguments do not change, so neither does what they ask for. *)
LEMMA SameArguments ==
    ASSUME argv' = argv
    PROVE  /\ \A program : ProgramAskedFor(program)' <=> ProgramAskedFor(program)
           /\ \A names, default, value :
                    AskedFor(names, default, value)' <=> AskedFor(names, default, value)
           /\ \A names : Given(names)' = Given(names)
           /\ \A n, program : ProgramSoFar(n, program)' <=> ProgramSoFar(n, program)
           /\ \A n, names, default, value :
                    SoFar(n, names, default, value)' <=> SoFar(n, names, default, value)
           /\ \A n, names : Before(n, names)' = Before(n, names)
<1>1. Leading' = Leading /\ DOMAIN argv' = DOMAIN argv
  BY DEF Leading
<1>2. \A names : Given(names)' = Given(names)
  BY <1>1 DEF Given
<1>3. \A n, names : Before(n, names)' = Before(n, names)
  BY DEF Before
<1>4. Operands' = Operands
  BY <1>1 DEF Operands, EndOfOptions
<1>5. \A program : ProgramAskedFor(program)' <=> ProgramAskedFor(program)
  BY <1>1, <1>2, <1>4 DEF ProgramAskedFor, LastGiven
<1>6. \A names, default, value :
        AskedFor(names, default, value)' <=> AskedFor(names, default, value)
  BY <1>1, <1>2 DEF AskedFor, LastGiven
<1>7. \A n, program : ProgramSoFar(n, program)' <=> ProgramSoFar(n, program)
  BY <1>1, <1>3 DEF ProgramSoFar, LastBefore
<1>8. \A n, names, default, value :
        SoFar(n, names, default, value)' <=> SoFar(n, names, default, value)
  BY <1>1, <1>3 DEF SoFar, LastBefore
<1> QED  BY <1>2, <1>3, <1>5, <1>6, <1>7, <1>8

(* The steps of main. *)
LEMMA MainAsked ==
    ASSUME TypeInv, AskedInv, Main
    PROVE  AskedInv'
<1>1. argv' = argv
  BY DEF Main, CL!main, CL!OptDebug, CL!OptCores, CL!OptProgram,
        CL!OptMemory, CL!OptHelp, CL!OptLog, CL!Option, CL!OptionsEnd, CL!OpenLog
<1>2. /\ \A program : ProgramAskedFor(program)' <=> ProgramAskedFor(program)
      /\ \A names, default, value :
                AskedFor(names, default, value)' <=> AskedFor(names, default, value)
      /\ \A names : Given(names)' = Given(names)
      /\ \A n, program : ProgramSoFar(n, program)' <=> ProgramSoFar(n, program)
      /\ \A n, names, default, value :
                SoFar(n, names, default, value)' <=> SoFar(n, names, default, value)
      /\ \A n, names : Before(n, names)' = Before(n, names)
  BY <1>1, SameArguments
<1>3. /\ DOMAIN simulator = Fields
      /\ simulator.debug \in BOOLEAN /\ simulator.logging \in BOOLEAN
  BY DEF TypeInv, TypeOK
<1>4. ASSUME NEW c, CL!Option(c), c # "?",
             c = "c" => argv[optind].arg # <<>>,
             simulator'.cores = IF c = "c" THEN argv[optind].arg[1] ELSE simulator.cores,
             simulator'.memsz = IF c = "m" THEN argv[optind].arg[1] ELSE simulator.memsz,
             simulator'.program = IF c = "p" THEN argv[optind].arg ELSE simulator.program,
             simulator'.debug <=> (c = "d" \/ simulator.debug),
             simulator'.logging <=> (c = "l" \/ simulator.logging),
             simulator'.debug \in BOOLEAN, simulator'.logging \in BOOLEAN,
             at' \in {"args", "exit", "segv"}
      PROVE  AskedInv'
  <2>1. ReadUpTo(optind) /\ optind' = optind + 1
    BY <1>4 DEF AskedInv, CL!Option
  <2>2. simulator'.debug \in BOOLEAN /\ simulator'.logging \in BOOLEAN
    BY <1>3, <1>4
  <2>3. /\ \A k \in 1 .. (optind + 1) - 1 : CL!IsOption(argv[k])
        /\ SoFar(optind + 1, {"c", "cores"}, 1, simulator'.cores)
        /\ SoFar(optind + 1, {"m", "memory"}, MEMORY_SIZE, simulator'.memsz)
        /\ ProgramSoFar(optind + 1, simulator'.program)
        /\ simulator'.debug <=> Before(optind + 1, {"d"}) # {}
        /\ simulator'.logging => Before(optind + 1, {"log"}) # {}
    <3> DEFINE cores == simulator'.cores
               memory == simulator'.memsz
               program == simulator'.program
               debug == simulator'.debug
               logging == simulator'.logging
    <3>1. /\ CL!Option(c) /\ c # "?" /\ (c = "c" => argv[optind].arg # <<>>)
          /\ cores = IF c = "c" THEN argv[optind].arg[1] ELSE simulator.cores
          /\ memory = IF c = "m" THEN argv[optind].arg[1] ELSE simulator.memsz
          /\ program = IF c = "p" THEN argv[optind].arg ELSE simulator.program
          /\ debug <=> (c = "d" \/ simulator.debug)
          /\ logging <=> (c = "l" \/ simulator.logging)
          /\ debug \in BOOLEAN /\ logging \in BOOLEAN
      BY <1>4, <2>2
    <3> HIDE DEF cores, memory, program, debug, logging
    <3>2. /\ \A k \in 1 .. (optind + 1) - 1 : CL!IsOption(argv[k])
          /\ SoFar(optind + 1, {"c", "cores"}, 1, cores)
          /\ SoFar(optind + 1, {"m", "memory"}, MEMORY_SIZE, memory)
          /\ ProgramSoFar(optind + 1, program)
          /\ debug <=> Before(optind + 1, {"d"}) # {}
          /\ logging => Before(optind + 1, {"log"}) # {}
      BY <2>1, <3>1, OptionRead
    <3> QED  BY <3>2 DEF cores, memory, program, debug, logging
  <2>4. \A n : n = optind + 1 => ReadUpTo(n)'
    BY <1>1, <1>2, <2>3 DEF ReadUpTo, CL!IsOption
  <2>5. ReadUpTo(optind)'
    BY <2>1, <2>4 DEF ReadUpTo, SoFar, ProgramSoFar, LastBefore, Before
  <2> QED  BY <1>4, <2>5 DEF AskedInv, Opened
<1>5. ASSUME at' \in {"exit", "segv"} PROVE AskedInv'
  BY <1>5 DEF AskedInv, Opened
<1>6. ASSUME NEW c \in {"c", "m"}, NEW field, CL!Option(c), CL!parse_size_t(field),
             field = IF c = "c" THEN "cores" ELSE "memsz"
      PROVE  AskedInv'
  <2>1. CASE CL!optarg = <<>> \/ CL!optarg[1] = CL!NaN
    BY <1>5, <1>6, <2>1 DEF CL!parse_size_t
  <2>2. CASE ~(CL!optarg = <<>> \/ CL!optarg[1] = CL!NaN)
    <3>1. /\ simulator' = [simulator EXCEPT ![field] = argv[optind].arg[1]]
          /\ argv[optind].arg # <<>> /\ at' = "args"
      BY <1>6, <2>2 DEF CL!parse_size_t, CL!optarg, CL!Option
    <3> QED  BY <1>3, <1>4, <1>6, <3>1 DEF Fields
  <2> QED  BY <2>1, <2>2
<1>7. CASE CL!OptDebug
  <2>1. CL!Option("d") /\ simulator' = [simulator EXCEPT !.debug = TRUE] /\ at' = "args"
    BY <1>7 DEF CL!OptDebug, CL!Option
  <2> QED  BY <1>3, <1>4, <2>1 DEF Fields
<1>8. CASE CL!OptCores
  BY <1>6, <1>8 DEF CL!OptCores
<1>9. CASE CL!OptProgram
  <2>1. /\ CL!Option("p") /\ at' = "args"
        /\ simulator' = [simulator EXCEPT !.program = argv[optind].arg]
    BY <1>9 DEF CL!OptProgram, CL!Option, CL!optarg
  <2> QED  BY <1>3, <1>4, <2>1 DEF Fields
<1>10. CASE CL!OptMemory
  BY <1>6, <1>10 DEF CL!OptMemory
<1>11. CASE CL!OptHelp
  BY <1>5, <1>11 DEF CL!OptHelp
<1>12. CASE CL!OptLog
  <2>1. CL!Option("l") /\ simulator' = [simulator EXCEPT !.logging = TRUE] /\ at' = "args"
    BY <1>12 DEF CL!OptLog, CL!Option
  <2> QED  BY <1>3, <1>4, <2>1 DEF Fields
<1>13. CASE CL!OptionsEnd
  <2> DEFINE program == IF CL!OperandIndex <= Len(argv) THEN <<argv[CL!OperandIndex].word>>
                        ELSE simulator.program
  <2>1. CASE program = <<>>
    <3>1. at' = "exit"
      BY <1>13, <2>1 DEF CL!OptionsEnd
    <3> QED  BY <1>5, <3>1
  <2>2. CASE program # <<>>
    <3>1. /\ simulator' = [simulator EXCEPT !.program = program]
          /\ at' = IF simulator.logging THEN "log" ELSE "simulate"
      BY <1>3, <1>13, <2>2 DEF CL!OptionsEnd
    <3>2. ReadUpTo(optind)
      BY <1>13 DEF AskedInv, CL!OptionsEnd
    <3> HIDE DEF program
    <3>3. /\ ProgramAskedFor(program)
          /\ AskedFor({"c", "cores"}, 1, simulator.cores)
          /\ AskedFor({"m", "memory"}, MEMORY_SIZE, simulator.memsz)
          /\ simulator.debug <=> Given({"d"}) # {}
          /\ simulator.logging => Given({"log"}) # {}
      BY <1>13, <2>2, <3>2, OptionsAsked DEF program
    <3>4. /\ simulator'.program = program /\ simulator'.cores = simulator.cores
          /\ simulator'.memsz = simulator.memsz /\ simulator'.debug = simulator.debug
          /\ simulator'.logging = simulator.logging
      BY <1>3, <3>1 DEF Fields
    <3>5. Asked'
      BY <1>2, <3>3, <3>4 DEF Asked
    <3> QED  BY <1>3, <3>1, <3>4, <3>5 DEF AskedInv, Opened
  <2> QED  BY <2>1, <2>2
<1>14. CASE CL!OpenLog
  <2>1. PICK opened \in BOOLEAN : simulator' = [simulator EXCEPT !.logging = opened]
    BY <1>14 DEF CL!OpenLog
  <2>2. at' = "simulate" /\ Asked /\ simulator.logging
    BY <1>14 DEF CL!OpenLog, AskedInv
  <2>3. /\ simulator'.program = simulator.program /\ simulator'.cores = simulator.cores
        /\ simulator'.memsz = simulator.memsz /\ simulator'.debug = simulator.debug
    BY <1>3, <2>1 DEF Fields
  <2>4. Asked'
    BY <1>2, <2>2, <2>3 DEF Asked
  <2> QED  BY <2>2, <2>4 DEF AskedInv, Opened
<1> QED  BY <1>7, <1>8, <1>9, <1>10, <1>11, <1>12, <1>13, <1>14 DEF Main, CL!main

LEMMA AskedInvStep == TypeInv /\ AskedInv /\ [Next]_vars => AskedInv'
<1> SUFFICES ASSUME TypeInv, AskedInv, [Next]_vars PROVE AskedInv'
  OBVIOUS
<1>1. ASSUME UNCHANGED main_vars PROVE Asked' <=> Asked
  <2>1. argv' = argv /\ simulator' = simulator
    BY <1>1 DEF main_vars
  <2> QED  BY <2>1, SameArguments DEF Asked
<1>2. CASE Main
  BY <1>2, MainAsked
<1>3. CASE hw_init
  <2>1. simulator.cores <= INT_MAX => num_cores' = simulator.cores
    BY <1>3, CoresPassed DEF hw_init, TypeInv, TypeOK
  <2> QED  BY <1>1, <1>3, <2>1 DEF hw_init, AskedInv, main_vars, Opened, INT_MAX, SignSize, WordSize,
        HalfSize
<1>4. CASE AllocationFails
  BY <1>4 DEF AllocationFails, AskedInv, Opened
<1>5. CASE Load
  <2>1. /\ UNCHANGED <<main_vars, num_cores>> /\ mem_size' = mem_size
        /\ at \in {"open"} \cup Opened
        /\ at' \in Opened \cup {"exit", "segv"}
    BY <1>5 DEF Load, elf_dump, OpenFails, Open, read_elf_ident, read_type_and_machine,
        read_ehdr, SeekTable, HeaderUnreadable, SkipEntry, copy_segment, CopyToNull,
        CopyOutside, SegmentsCopied, elf_close, InEntry, InLoop, NextEntry, Return, loader,
        Opened
  <2> QED  BY <1>1, <2>1 DEF AskedInv, main_vars, Opened
<1>6. CASE Ended \/ UNCHANGED vars
  <2>1. UNCHANGED <<main_vars, num_cores>> /\ at' = at /\ mem_size' = mem_size
    BY <1>6 DEF Ended, vars, loader
  <2>2. argv' = argv /\ simulator' = simulator /\ optind' = optind
    BY <2>1 DEF main_vars
  <2>3. \A n : ReadUpTo(n)' <=> ReadUpTo(n)
    BY <2>2, SameArguments DEF ReadUpTo
  <2>4. ReadUpTo(optind)' <=> ReadUpTo(optind)
    BY <2>2, <2>3 DEF ReadUpTo, SoFar, ProgramSoFar, LastBefore, Before
  <2> QED  BY <1>1, <2>1, <2>2, <2>4 DEF AskedInv
<1> QED  BY <1>2, <1>3, <1>4, <1>5, <1>6 DEF Next

(***************************************************************************)
(* A program is only loaded, and only run, on the machine that the command *)
(* line asks for: the last of several values, the first operand before     *)
(* --program, and the defaults where nothing was said; with the number of  *)
(* cores that was asked for, if an int can hold it.                        *)
(***************************************************************************)
THEOREM StartedAsAsked == Spec => []StartsAsAsked
<1>1. AskedInv => StartsAsAsked
  BY DEF AskedInv, StartsAsAsked, Asked, Opened
<1> QED  BY <1>1, TypeInvInit, TypeInvStep, AskedInvInit, AskedInvStep, PTL DEF Spec

-----------------------------------------------------------------------------
(***************************************************************************)
(* The facts of module MemoryProofs, for the memory that hw_init allocates.*)
(***************************************************************************)
MP == INSTANCE MemoryProofs WITH memsz <- mem_size, DescriptorRead <- NoDescriptors

V == M!KSEG0_VSTART

(* Every address of kseg0 reads as the byte of the buffer it stands for. *)
LEMMA Kseg0Bytes ==
    ASSUME mem_size \in Nat
    PROVE  \A v \in M!Kseg0 :
            /\ v \in Nat /\ V \in Nat
            /\ M!Translate(v) = v - V /\ M!Translate(v) # M!NULL
            /\ v - V \in 0 .. mem_size - 1
            /\ \A m : m \in [DOMAIN m -> Byte] =>
                    M!mmu_read(m, v, 0, M!MEM_OP_BYTE).data = M!ByteAt(m, v - V)
<1> TAKE v \in M!Kseg0
<1>1. /\ M!HalfSize = HalfSize /\ M!WordSize = WordSize
      /\ MP!HalfSize = HalfSize /\ MP!WordSize = WordSize
  BY DEF M!HalfSize, M!WordSize, HalfSize, WordSize, MP!HalfSize, MP!WordSize
<1>2. MP!ByteAssumption /\ MP!MemszAssumption
  BY ByteAssumption DEF MP!ByteAssumption, MP!MemszAssumption
<1>3. MP!Unit = M!Unit /\ MP!KSEG0_VSTART = V /\ MP!KSEG0_SIZE = M!KSEG0_SIZE
      /\ MP!size_kseg0 = M!size_kseg0 /\ MP!size_kseg1 = M!size_kseg1
      /\ MP!size_kuseg = M!size_kuseg /\ MP!NULL = M!NULL
  BY <1>1 DEF MP!Unit, M!Unit, MP!KSEG0_VSTART, M!KSEG0_VSTART, V, MP!KSEG0_SIZE,
     M!KSEG0_SIZE, MP!size_kseg0, M!size_kseg0, MP!size_kseg1, M!size_kseg1,
     MP!size_kuseg, M!size_kuseg, MP!u32, M!u32, MP!NULL, M!NULL
<1>4. v \in MP!Kseg0
  BY <1>3 DEF MP!Kseg0, M!Kseg0, V
<1>5. MP!Translate(v) = M!Translate(v)
  BY <1>1, <1>3 DEF MP!Translate, M!Translate, MP!translate_paddr, M!translate_paddr,
    MP!translate_vaddr, M!translate_vaddr, MP!IO_REGISTER_AREA, M!IO_REGISTER_AREA,
    MP!KSEG2_PSTART, M!KSEG2_PSTART, MP!KSEG0_PSTART, M!KSEG0_PSTART,
    MP!KSEG1_PSTART, M!KSEG1_PSTART, MP!KUSEG_PSTART, M!KUSEG_PSTART,
    MP!KSEG1_SIZE, M!KSEG1_SIZE, MP!KUSEG_SIZE, M!KUSEG_SIZE, MP!u32, M!u32
<1>6. /\ v \in MP!Word /\ v < MP!IO_DESCRIPTOR_AREA /\ v < MP!IO_REGISTER_AREA
      /\ MP!Translate(v) = v - MP!KSEG0_VSTART
      /\ MP!Translate(v) \in Nat /\ MP!Translate(v) # MP!NULL
  BY <1>2, <1>4, MP!Kseg0Offset DEF MP!Kseg0Offset
<1>7. MP!Translate(v) = MP!NULL \/ MP!Translate(v) \in 0 .. mem_size - 4
  BY <1>2, <1>6, MP!TranslationInBounds DEF MP!TranslationInBounds
<1>8. v \in Nat /\ V \in Nat
  <2>1. M!Unit \in Nat
    BY <1>1, WordSizeBound, SMT DEF M!Unit
  <2>2. V \in Nat
    BY <2>1 DEF V, M!KSEG0_VSTART
  <2> QED  BY <1>1, <1>6, <2>2, WordSizeBound DEF MP!Word
<1>9. /\ M!Translate(v) = v - V /\ M!Translate(v) # M!NULL
      /\ v - V \in 0 .. mem_size - 1
  <2>1. /\ M!Translate(v) = v - V /\ M!Translate(v) # M!NULL
        /\ M!Translate(v) \in 0 .. mem_size - 4
    BY <1>3, <1>5, <1>6, <1>7
  <2> QED  BY <1>8, <2>1
<1>10. ASSUME NEW m, m \in [DOMAIN m -> Byte]
       PROVE  M!mmu_read(m, v, 0, M!MEM_OP_BYTE).data = M!ByteAt(m, v - V)
  <2>1. M!IO_DESCRIPTOR_AREA \in Int /\ M!IO_REGISTER_AREA \in Int
        /\ v < M!IO_DESCRIPTOR_AREA /\ v < M!IO_REGISTER_AREA
    BY <1>1, <1>6, WordSizeBound, HalfSizeBound
    DEF MP!IO_DESCRIPTOR_AREA, MP!IO_REGISTER_AREA, M!IO_DESCRIPTOR_AREA, M!IO_REGISTER_AREA
  <2>2. ~(v >= M!IO_DESCRIPTOR_AREA) /\ ~(v >= M!IO_REGISTER_AREA)
    BY <1>8, <2>1, SMT
  <2>3. M!mmu_read(m, v, 0, M!MEM_OP_BYTE).data = M!u32(M!GET_BIG(m, v - V, M!MEM_OP_BYTE))
    BY <1>9, <2>2 DEF M!mmu_read
  <2>4. M!GET_BIG(m, v - V, M!MEM_OP_BYTE) = M!ByteAt(m, v - V)
    BY DEF M!GET_BIG, M!MEM_OP_BYTE, M!MEM_OP_HALF
  <2>5. M!ByteAt(m, v - V) \in Byte
    BY <1>10, ByteAssumption DEF M!ByteAt, Byte
  <2>6. ASSUME NEW x \in Byte PROVE M!u32(x) = x
    <3>1. x \in Nat /\ x < WordSize
      <4>1. HalfSize >= ByteSize
        <5>1. \A s \in Nat : s > 7 => s * s >= s
          BY SMT
        <5> QED  BY <5>1, SizeFacts
      <4>2. WordSize >= HalfSize
        <5>1. \A s \in Nat : s >= 64 => s * s >= s
          BY SMT
        <5> QED  BY <5>1, HalfSizeBound DEF WordSize
      <4> QED  BY <4>1, <4>2, SizeFacts DEF Byte
    <3>2. x % WordSize = x
      BY <3>1, SizeFacts, SMT
    <3> QED  BY <1>1, <3>1, <3>2 DEF M!u32
  <2> QED  BY <2>3, <2>4, <2>5, <2>6
<1> QED  BY <1>8, <1>9, <1>10

-----------------------------------------------------------------------------
(***************************************************************************)
(* What the loop of copy_all_segments has done after i entries.  Only a    *)
(* segment that was read in full lets the loop go on, and the header of    *)
(* entry i is found behind those of the entries before it.                 *)
(***************************************************************************)
Linkable == \A k \in Loadable : Extent(k) \subseteq M!Kseg0

LinkedUpTo(n) ==
    \A v \in M!Kseg0 : LinkedByte(n, v, M!ByteAt(pmem, v - V))

Copying == {"segment", "close", "run"}

LoopInv(n) ==
    /\ n <= file.e_phnum
    /\ at # "segment" => n = file.e_phnum
    /\ pos = file.e_phoff + n * file.e_phentsize
    /\ Linkable => LinkedUpTo(n) /\ DOMAIN pmem \subseteq 0 .. mem_size - 1

LinkInv ==
    /\ at \in {"table"} \cup Copying => entry = file.e_entry
    /\ at \in Copying => LoopInv(i)

(* One more entry adds the bytes of its segment, if it is loadable. *)
LEMMA LinkedNext ==
    ASSUME NEW n \in Nat, NEW v, NEW b, NEW c, LinkedByte(n, v, b),
           c = IF n \in Loadable /\ v \in Extent(n) THEN SegmentByte(n, v) ELSE b
    PROVE  LinkedByte(n + 1, v, c)
<1>1. \A k \in Loadable : k \in Int
  BY DEF Loadable
<1>2. \A k \in Loadable : k < n + 1 <=> k < n \/ k = n
  BY <1>1
<1>3. CASE n \in Loadable /\ v \in Extent(n)
  <2>1. \A j \in Loadable : ~(n < j /\ j < n + 1)
    BY <1>1
  <2>2. LastCovering(n + 1, v, n)
    BY <1>3, <2>1 DEF LastCovering
  <2> QED  BY <1>2, <1>3, <2>2 DEF LinkedByte
<1>4. CASE ~(n \in Loadable /\ v \in Extent(n))
  <2>1. \A k \in Loadable : k < n + 1 /\ v \in Extent(k) <=> k < n /\ v \in Extent(k)
    BY <1>2, <1>4
  <2>2. \A k : LastCovering(n, v, k) => LastCovering(n + 1, v, k)
    BY <2>1 DEF LastCovering
  <2> QED  BY <1>4, <2>1, <2>2 DEF LinkedByte
<1> QED  BY <1>3, <1>4

(* In the loop, the header that is read is that of entry i. *)
LEMMA EntryHeader ==
    ASSUME TypeInv, LinkInv, InEntry
    PROVE  /\ phdr = Header(i) /\ i \in 0 .. file.e_phnum - 1
           /\ i \in Loadable <=> phdr.p_type = PT_LOAD
           /\ file.e_phnum \in Nat /\ file.e_phoff \in Nat /\ file.e_phentsize \in Nat
<1>1. /\ file.e_phnum \in Nat /\ file.e_phoff \in Nat /\ file.e_phentsize \in Nat
      /\ i \in Nat /\ i < file.e_phnum /\ pos = file.e_phoff + i * file.e_phentsize
  BY FileType DEF TypeInv, TypeOK, LoaderTypeOK, LinkInv, LoopInv, InEntry, InLoop, Opened, Copying
<1>2. phdr = Header(i)
  BY <1>1 DEF phdr, Header
<1>3. i \in 0 .. file.e_phnum - 1
  BY <1>1
<1> QED  BY <1>1, <1>2, <1>3 DEF Loadable

(* A segment and its place in the buffer, o bytes below it. *)
LEMMA Shifted ==
    ASSUME NEW w \in Nat, NEW o \in Nat, NEW p \in Nat, NEW f \in Nat, NEW s \in Nat
    PROVE  LET a == p - o
               read == a .. a + f - 1
               cleared == (a .. a + s - 1) \ read
               extent == p .. p + (IF f < s THEN s ELSE f) - 1
           IN  /\ w \in extent <=> w - o \in read \/ w - o \in cleared
               /\ w - o \in read <=> w \in extent /\ w < p + f
<1>1. \A n \in Nat : w - o \in (p - o) .. (p - o) + n - 1 <=> w \in p .. p + n - 1
  OBVIOUS
<1>2. w \in p .. p + (IF f < s THEN s ELSE f) - 1 <=>
        w \in p .. p + f - 1 \/ w \in p .. p + s - 1
  OBVIOUS
<1>3. w \in p .. p + f - 1 <=> w \in p .. p + (IF f < s THEN s ELSE f) - 1 /\ w < p + f
  OBVIOUS
<1> QED  BY <1>1, <1>2, <1>3, Zenon

(* The buffer after copy_segment has read a segment that lies in kseg0. *)
LEMMA SegmentInPlace ==
    ASSUME TypeInv, LinkInv, InEntry, phdr.p_type = PT_LOAD, Linkable, ReadResult(phdr) = 0,
           NEW v \in M!Kseg0
    PROVE  M!ByteAt(Copied(phdr, Placed(phdr)), v - V) =
                IF i \in Loadable /\ v \in Extent(i) THEN SegmentByte(i, v)
                ELSE M!ByteAt(pmem, v - V)
<1> DEFINE h == phdr
           a == h.p_vaddr - V
           x == v - V
           read == a .. a + h.p_filesz - 1
           cleared == (a .. a + h.p_memsz - 1) \ read
           m == Copied(h, a)
<1>1. /\ h = Header(i) /\ i \in Loadable
      /\ h.p_vaddr \in Nat /\ h.p_offset \in Nat /\ h.p_filesz \in Nat /\ h.p_memsz \in Nat
      /\ mem_size \in Nat
  BY EntryHeader, EntryType DEF TypeInv, TypeOK, LoaderTypeOK
<1>2. h.p_filesz > 0 /\ Available(h) = h.p_filesz
  BY <1>1 DEF ReadResult, ELF_ERROR_IO_ERROR
<1>3. Extent(i) = h.p_vaddr .. h.p_vaddr
                        + (IF h.p_filesz < h.p_memsz THEN h.p_memsz ELSE h.p_filesz) - 1
  BY <1>1 DEF Extent
<1>4. h.p_vaddr \in M!Kseg0
  <2>1. h.p_vaddr \in Extent(i)
    <3> HIDE DEF h
    <3> QED  BY <1>1, <1>2, <1>3
  <2> QED  BY <1>1, <2>1 DEF Linkable
<1>5. Placed(h) = a
  BY <1>1, <1>4, Kseg0Bytes DEF Placed
<1>6. v \in Nat /\ V \in Nat /\ x \in 0 .. mem_size - 1
  BY <1>1, Kseg0Bytes
<1>7. /\ v \in Extent(i) <=> x \in read \/ x \in cleared
      /\ x \in read <=> v \in Extent(i) /\ v < h.p_vaddr + h.p_filesz
  <2> DEFINE p == h.p_vaddr
             f == h.p_filesz
             s == h.p_memsz
  <2>1. p \in Nat /\ f \in Nat /\ s \in Nat
    BY <1>1
  <2> HIDE DEF p, f, s
  <2>2. /\ v \in p .. p + (IF f < s THEN s ELSE f) - 1 <=>
                \/ v - V \in (p - V) .. (p - V) + f - 1
                \/ v - V \in ((p - V) .. (p - V) + s - 1) \ ((p - V) .. (p - V) + f - 1)
        /\ v - V \in (p - V) .. (p - V) + f - 1 <=>
                v \in p .. p + (IF f < s THEN s ELSE f) - 1 /\ v < p + f
    BY <1>6, <2>1, Shifted, Zenon
  <2> QED  BY <1>3, <2>2, Zenon DEF p, f, s
<1>9. x - a = v - h.p_vaddr
  <2> HIDE DEF h
  <2> QED  BY <1>1, <1>6
<1>10. m = [y \in DOMAIN pmem \cup read \cup cleared |->
                CASE y \in read -> file.byte[h.p_offset + (y - a)]
                  [] y \in cleared -> 0
                  [] OTHER -> pmem[y]]
  BY <1>2 DEF Copied
<1>11. ~(x \in read /\ x \in cleared)
  OBVIOUS
<1>12. M!ByteAt(m, x) = CASE x \in read -> file.byte[h.p_offset + (x - a)]
                          [] x \in cleared -> 0
                          [] OTHER -> M!ByteAt(pmem, x)
  <2> HIDE DEF read, cleared, h, a, x, m
  <2> QED  BY <1>6, <1>10, <1>11 DEF M!ByteAt
<1>13. CASE x \in read
  <2>1. M!ByteAt(m, x) = file.byte[h.p_offset + (v - h.p_vaddr)]
    <3> HIDE DEF read, cleared, h, a, x, m
    <3> QED  BY <1>9, <1>11, <1>12, <1>13
  <2>2. SegmentByte(i, v) = file.byte[h.p_offset + (v - h.p_vaddr)]
    <3> HIDE DEF read, cleared, h, a, x, m
    <3> QED  BY <1>1, <1>7, <1>13 DEF SegmentByte
  <2> HIDE DEF read, cleared, m, x, a
  <2> QED  BY <1>1, <1>5, <1>7, <1>13, <2>1, <2>2 DEF x, m
<1>14. CASE x \in cleared
  <2>1. M!ByteAt(m, x) = 0
    <3> HIDE DEF read, cleared, h, a, x, m
    <3> QED  BY <1>11, <1>12, <1>14
  <2>2. SegmentByte(i, v) = 0
    <3> HIDE DEF read, cleared, h, a, x, m
    <3> QED  BY <1>1, <1>7, <1>11, <1>14 DEF SegmentByte
  <2> HIDE DEF read, cleared, m, x, a
  <2> QED  BY <1>1, <1>5, <1>7, <1>14, <2>1, <2>2 DEF x, m
<1>15. CASE x \notin read /\ x \notin cleared
  <2>1. M!ByteAt(m, x) = M!ByteAt(pmem, x)
    <3> HIDE DEF read, cleared, h, a, x, m
    <3> QED  BY <1>12, <1>15
  <2> HIDE DEF read, cleared, m, x, a
  <2> QED  BY <1>5, <1>7, <1>15, <2>1 DEF x, m
<1> QED  BY <1>13, <1>14, <1>15

(* Then nothing was written outside the buffer. *)
LEMMA SegmentInBuffer ==
    ASSUME TypeInv, LinkInv, InEntry, phdr.p_type = PT_LOAD, Linkable, ReadResult(phdr) = 0
    PROVE  DOMAIN Copied(phdr, Placed(phdr)) \subseteq 0 .. mem_size - 1
<1> DEFINE h == phdr
           a == Placed(h)
           p == h.p_vaddr
           f == h.p_filesz
           s == h.p_memsz
           read == a .. a + f - 1
           cleared == (a .. a + s - 1) \ read
<1>1. /\ h = Header(i) /\ i \in Loadable /\ mem_size \in Nat
      /\ p \in Nat /\ f \in Nat /\ s \in Nat
  BY EntryHeader, EntryType DEF TypeInv, TypeOK, LoaderTypeOK
<1>2. f > 0 /\ Available(h) = f
  BY <1>1 DEF ReadResult, ELF_ERROR_IO_ERROR
<1>3. p .. p + (IF f < s THEN s ELSE f) - 1 \subseteq M!Kseg0
  BY <1>1 DEF Extent, Linkable
<1>4. DOMAIN Copied(h, a) = DOMAIN pmem \cup read \cup cleared
  BY <1>2 DEF Copied
<1>5. DOMAIN pmem \subseteq 0 .. mem_size - 1
  BY DEF LinkInv, LoopInv, InEntry, InLoop, Copying
<1>6. \A v \in M!Kseg0 : v \in Nat /\ V \in Nat /\ v - V \in 0 .. mem_size - 1
                            /\ M!Translate(v) = v - V
  BY <1>1, Kseg0Bytes
<1> HIDE DEF h, p, f, s
<1>7. p \in M!Kseg0
  BY <1>1, <1>2, <1>3
<1>8. a = p - V /\ V \in Nat
  BY <1>6, <1>7 DEF Placed, p
<1> HIDE DEF a
<1>9. ASSUME NEW x \in read \cup cleared PROVE x \in 0 .. mem_size - 1
  <2>1. x + V \in p .. p + (IF f < s THEN s ELSE f) - 1
    BY <1>1, <1>8
  <2>2. x + V \in M!Kseg0
    BY <1>3, <2>1
  <2>3. (x + V) - V \in 0 .. mem_size - 1
    BY <1>6, <2>2
  <2>4. (x + V) - V = x
    BY <1>1, <1>8
  <2> QED  BY <2>3, <2>4
<1> QED  BY <1>4, <1>5, <1>9 DEF h, a

(* What depends on the file and the size of memory only. *)
LEMMA SameFile ==
    ASSUME fd' = fd, mem_size' = mem_size
    PROVE  /\ file' = file /\ (Linkable' <=> Linkable) /\ M!Kseg0' = M!Kseg0
           /\ \A n, v, b : LinkedByte(n, v, b)' <=> LinkedByte(n, v, b)
           /\ \A m, x : M!ByteAt(m, x)' = M!ByteAt(m, x)
<1>1. file' = file
  BY DEF file
<1>2. Loadable' = Loadable /\ \A k : Extent(k)' = Extent(k)
  BY <1>1 DEF Loadable, Extent, Header
<1>3. M!Kseg0' = M!Kseg0
  BY DEF M!Kseg0, M!size_kseg0
<1>4. Linkable' <=> Linkable
  BY <1>2, <1>3 DEF Linkable
<1>5. \A n, v, b : LinkedByte(n, v, b)' <=> LinkedByte(n, v, b)
  BY <1>1, <1>2 DEF LinkedByte, LastCovering, SegmentByte, Header
<1> QED  BY <1>1, <1>3, <1>4, <1>5 DEF M!ByteAt

(* Going on to the next entry, with this one copied or skipped. *)
LEMMA EntryDone ==
    ASSUME TypeInv, LinkInv, InEntry, NextEntry(0), UNCHANGED <<mem_size, fd, entry>>,
           Linkable => \A v \in M!Kseg0 :
                M!ByteAt(pmem', v - V) =
                    IF i \in Loadable /\ v \in Extent(i) THEN SegmentByte(i, v)
                    ELSE M!ByteAt(pmem, v - V),
           Linkable => DOMAIN pmem' \subseteq 0 .. mem_size - 1
    PROVE  LinkInv'
<1>1. /\ file' = file /\ (Linkable' <=> Linkable) /\ M!Kseg0' = M!Kseg0
      /\ \A n, v, b : LinkedByte(n, v, b)' <=> LinkedByte(n, v, b)
      /\ \A m, x : M!ByteAt(m, x)' = M!ByteAt(m, x)
  BY SameFile
<1>2. /\ i \in 0 .. file.e_phnum - 1
      /\ file.e_phnum \in Nat /\ file.e_phoff \in Nat /\ file.e_phentsize \in Nat
  BY EntryHeader
<1>3. at = "segment" /\ LoopInv(i) /\ entry = file.e_entry
  BY DEF LinkInv, InEntry, InLoop, Copying
<1>4. i' = i + 1 /\ pos' = pos + file.e_phentsize /\ at' = "segment"
  BY DEF NextEntry, Return
<1>5. pos' = file.e_phoff + (i + 1) * file.e_phentsize
  <2>1. \A o, n, e \in Nat : (o + n * e) + e = o + (n + 1) * e
    BY SMT
  <2>2. i \in Nat /\ pos = file.e_phoff + i * file.e_phentsize
    BY <1>2, <1>3 DEF LoopInv
  <2> QED  BY <1>2, <1>4, <2>1, <2>2, Zenon
<1>6. ASSUME Linkable
      PROVE  \A v \in M!Kseg0 : LinkedByte(i + 1, v, M!ByteAt(pmem', v - V))
  <2> TAKE v \in M!Kseg0
  <2> DEFINE b == M!ByteAt(pmem, v - V)
             c == M!ByteAt(pmem', v - V)
  <2>1. LinkedByte(i, v, b)
    BY <1>3, <1>6 DEF LoopInv, LinkedUpTo
  <2>2. c = IF i \in Loadable /\ v \in Extent(i) THEN SegmentByte(i, v) ELSE b
    BY <1>6
  <2>3. i \in Nat
    BY <1>2
  <2> HIDE DEF b, c
  <2>4. LinkedByte(i + 1, v, c)
    BY <2>1, <2>2, <2>3, LinkedNext
  <2> QED  BY <2>4 DEF c
<1>7. V' = V
  BY DEF V, M!KSEG0_VSTART, M!Unit, M!WordSize, M!HalfSize
<1>8. Linkable' => \A v \in M!Kseg0' : LinkedByte(i', v, M!ByteAt(pmem', v - V))
  BY <1>1, <1>4, <1>6
<1>9. Linkable' => LinkedUpTo(i)'
  <2>1. \A n : (\A v \in M!Kseg0 : LinkedByte(n, v, M!ByteAt(pmem', v - V))) => LinkedUpTo(n)'
    BY <1>1, <1>7 DEF LinkedUpTo, M!ByteAt
  <2>2. \A n : n = i' => (LinkedUpTo(n)' <=> LinkedUpTo(i)')
    BY DEF LinkedUpTo, LinkedByte, LastCovering
  <2> QED  BY <1>1, <1>8, <2>1, <2>2
<1>10. Linkable' => DOMAIN pmem' \subseteq 0 .. mem_size' - 1
  BY <1>1
<1>11. i' <= file'.e_phnum
  BY <1>1, <1>2, <1>4
<1> QED  BY <1>1, <1>3, <1>4, <1>5, <1>9, <1>10, <1>11 DEF LinkInv, LoopInv, Copying

LEMMA LinkInvInit == Init => LinkInv
BY DEF Init, CL!Init, LinkInv, Copying

LEMMA LinkInvStep == TypeInv /\ LinkInv /\ [Next]_vars => LinkInv'
<1> SUFFICES ASSUME TypeInv, LinkInv, [Next]_vars PROVE LinkInv'
  OBVIOUS
<1>1. ASSUME at' \notin {"table"} \cup Copying PROVE LinkInv'
  BY <1>1 DEF LinkInv
<1>2. ASSUME UNCHANGED <<loader, at>> \/ (at = "segment" /\ i >= file.e_phnum
                /\ at' = "close" /\ UNCHANGED loader)
                \/ (at = "close" /\ at' = "run" /\ UNCHANGED <<mem_size, fd, pos, i, entry, pmem>>)
      PROVE  LinkInv'
  <2>1. UNCHANGED <<mem_size, fd, pos, i, entry, pmem>>
    BY <1>2 DEF loader
  <2>2. /\ file' = file /\ (Linkable' <=> Linkable) /\ M!Kseg0' = M!Kseg0
        /\ \A n, v, b : LinkedByte(n, v, b)' <=> LinkedByte(n, v, b)
        /\ \A m, x : M!ByteAt(m, x)' = M!ByteAt(m, x)
    BY <2>1, SameFile
  <2>3. V' = V
    BY DEF V, M!KSEG0_VSTART, M!Unit, M!WordSize, M!HalfSize
  <2>4. \A n : LinkedUpTo(n)' <=> LinkedUpTo(n)
    BY <2>1, <2>2, <2>3 DEF LinkedUpTo, M!ByteAt
  <2>5. LinkedUpTo(i)' <=> LinkedUpTo(i)
    BY <2>1, <2>4 DEF LinkedUpTo, LinkedByte, LastCovering
  <2>6. at = "segment" => i \in Nat /\ file.e_phnum \in Nat
    BY FileType DEF TypeInv, TypeOK, LoaderTypeOK, Opened
  <2> QED  BY <1>2, <2>1, <2>2, <2>5, <2>6 DEF LinkInv, LoopInv, Copying
<1>3. CASE Main
  <2>1. at' \in {"args", "log", "simulate", "exit", "segv"}
    BY <1>3 DEF Main, CL!main, CL!OptDebug, CL!OptCores, CL!OptProgram, CL!OptMemory,
        CL!OptHelp, CL!OptLog, CL!Option, CL!OptionsEnd, CL!OpenLog, CL!parse_size_t
  <2> QED  BY <1>1, <2>1 DEF Copying
<1>4. CASE hw_init \/ AllocationFails
  BY <1>1, <1>4 DEF hw_init, AllocationFails, Copying
<1>5. CASE Ended \/ UNCHANGED vars
  BY <1>2, <1>5 DEF Ended, vars
<1>6. ASSUME NEW r, NEW next, Return(r, next) PROVE (at' = next /\ r = 0) \/ at' = "exit"
  BY <1>6 DEF Return
<1>7. CASE OpenFails \/ Open(simulator.program[1]) \/ read_elf_ident \/ read_type_and_machine \/ HeaderUnreadable
  <2>1. at' \in {"ident", "type", "header", "exit"}
    BY <1>6, <1>7 DEF OpenFails, Open, read_elf_ident, read_type_and_machine, HeaderUnreadable,
        NextEntry, Return, ELF_ERROR_IO_ERROR
  <2> QED  BY <1>1, <2>1 DEF Copying
<1>8. CASE read_ehdr
  <2>1. CASE file.length < HeaderEnd
    BY <1>1, <1>8, <2>1 DEF read_ehdr, Return, ELF_ERROR_IO_ERROR, Copying
  <2>2. CASE ~(file.length < HeaderEnd)
    BY <1>8, <2>2 DEF read_ehdr, Return, LinkInv, Copying, file
  <2> QED  BY <2>1, <2>2
<1>9. CASE SeekTable
  <2>1. CASE ~file.seekable
    BY <1>1, <1>9, <2>1 DEF SeekTable, Return, ELF_ERROR_IO_ERROR, Copying
  <2>2. CASE file.seekable
    <3>1. /\ pos' = file.e_phoff /\ i' = 0 /\ at' = "segment"
          /\ UNCHANGED <<mem_size, fd, entry, pmem>> /\ entry = file.e_entry
          /\ DOMAIN pmem = {}
      BY <1>9, <2>2 DEF SeekTable, Return, LinkInv, TypeInv, Fresh
    <3>2. file.e_phoff \in Nat /\ file.e_phentsize \in Nat /\ file.e_phnum \in Nat
      BY <1>9, FileType DEF SeekTable, TypeInv, Opened
    <3>3. file' = file
      BY <3>1 DEF file
    <3>4. pos' = file.e_phoff + 0 * file.e_phentsize /\ 0 <= file.e_phnum
      BY <3>1, <3>2
    <3>5. \A x : M!ByteAt(pmem, x) = 0
      BY <3>1 DEF M!ByteAt
    <3>6. \A k \in Loadable' : ~(k < 0)
      BY DEF Loadable
    <3>7. \A v, n : n = 0 => LinkedByte(n, v, 0)'
      BY <3>6 DEF LinkedByte
    <3>8. \A n : n = 0 => LinkedUpTo(n)'
      BY <3>1, <3>5, <3>7 DEF LinkedUpTo, M!ByteAt
    <3>9. LinkedUpTo(i)'
      BY <3>1, <3>8 DEF LinkedUpTo, LinkedByte, LastCovering
    <3>10. DOMAIN pmem' \subseteq 0 .. mem_size' - 1
      BY <3>1
    <3> QED  BY <3>1, <3>3, <3>4, <3>9, <3>10 DEF LinkInv, LoopInv, Copying
  <2> QED  BY <2>1, <2>2
<1>10. CASE SkipEntry
  <2>1. CASE phdr.p_type \in Skipped
    <3>1. i \notin Loadable /\ pmem' = pmem
      BY <1>10, EntryHeader DEF SkipEntry
    <3>2. Linkable => DOMAIN pmem' \subseteq 0 .. mem_size - 1
      BY <1>10, <3>1 DEF SkipEntry, InEntry, InLoop, LinkInv, LoopInv, Copying
    <3> QED  BY <1>10, <2>1, <3>1, <3>2, EntryDone DEF SkipEntry
  <2>2. CASE phdr.p_type \notin Skipped
    BY <1>1, <1>10, <2>2 DEF SkipEntry, NextEntry, Return, ELF_ERROR_NOT_SUPPORTED, Copying
  <2> QED  BY <2>1, <2>2
<1>11. ASSUME InEntry, phdr.p_type = PT_LOAD, pmem' = Copied(phdr, Placed(phdr)),
              NextEntry(ReadResult(phdr)), UNCHANGED <<mem_size, fd, entry>>
       PROVE  LinkInv'
  <2>1. CASE ReadResult(phdr) # 0
    BY <1>1, <1>11, <2>1 DEF NextEntry, Return, Copying
  <2>2. CASE ReadResult(phdr) = 0
    <3>1. Linkable => \A v \in M!Kseg0 :
                M!ByteAt(pmem', v - V) =
                    IF i \in Loadable /\ v \in Extent(i) THEN SegmentByte(i, v)
                    ELSE M!ByteAt(pmem, v - V)
      BY <1>11, <2>2, SegmentInPlace
    <3>2. Linkable => DOMAIN pmem' \subseteq 0 .. mem_size - 1
      BY <1>11, <2>2, SegmentInBuffer
    <3> QED  BY <1>11, <2>2, <3>1, <3>2, EntryDone
  <2> QED  BY <2>1, <2>2
<1>12. CASE copy_segment
  BY <1>11, <1>12 DEF copy_segment
<1>13. CASE CopyToNull
  BY <1>1, <1>13 DEF CopyToNull, NextEntry, Return, ELF_ERROR_IO_ERROR, Copying
<1>14. CASE CopyOutside
  BY <1>1, <1>11, <1>14 DEF CopyOutside, Copying
<1>15. CASE SegmentsCopied
  BY <1>2, <1>15 DEF SegmentsCopied
<1>16. CASE elf_close
  BY <1>1, <1>2, <1>16 DEF elf_close, Return, ELF_ERROR_IO_ERROR, Copying
<1> QED  BY <1>3, <1>4, <1>5, <1>7, <1>8, <1>9, <1>10, <1>12, <1>13, <1>14, <1>15, <1>16
         DEF Next, Load, elf_dump

(***************************************************************************)
(* When the program starts, everything it was linked with is where its     *)
(* loads and fetches will look for it: for every file whose segments lie   *)
(* in kseg0, however they overlap and whatever their order, and for every  *)
(* size of memory; and copy_segment has written nothing outside the buffer.*)
(***************************************************************************)
THEOREM ProgramLoadedAsLinked == Spec => []LoadedAsLinked
<1>1. TypeInv /\ LinkInv => LoadedAsLinked
  <2> SUFFICES ASSUME TypeInv, LinkInv, at = "run", Linkable
               PROVE  /\ entry = file.e_entry
                      /\ DOMAIN pmem \subseteq 0 .. mem_size - 1
                      /\ \A v \in M!Kseg0 : LinkedByte(file.e_phnum, v,
                                M!mmu_read(pmem, v, 0, M!MEM_OP_BYTE).data)
    BY DEF LoadedAsLinked, Linkable
  <2>1. /\ entry = file.e_entry /\ LinkedUpTo(file.e_phnum)
        /\ DOMAIN pmem \subseteq 0 .. mem_size - 1
    BY DEF LinkInv, LoopInv, Copying
  <2>2. \A v \in M!Kseg0 :
            M!mmu_read(pmem, v, 0, M!MEM_OP_BYTE).data = M!ByteAt(pmem, v - V)
    BY Kseg0Bytes DEF TypeInv, TypeOK, LoaderTypeOK
  <2> QED  BY <2>1, <2>2 DEF LinkedUpTo
<1> QED  BY <1>1, TypeInvInit, TypeInvStep, LinkInvInit, LinkInvStep, PTL DEF Spec

=============================================================================
