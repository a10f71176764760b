------------------------------ MODULE Startup ------------------------------
(***************************************************************************)
(* From the command line to the first tick: main, then simulate, which     *)
(* sets up the hardware (hw_init), loads the program (elf_dump) and enters *)
(* run.                                                                    *)
(***************************************************************************)
EXTENDS ElfLoader, Sequences

CONSTANTS
    Arguments,      \* the command lines
    MEMORY_SIZE     \* the default memory size

VARIABLES
    argv, optind, simulator,    \* of main
    num_cores                   \* of the cpu structure

CL == INSTANCE CommandLine

(* Command lines are sequences, and strtoul yields a number or nothing. *)
ASSUME ArgumentsAssumption ==
    /\ MEMORY_SIZE \in Nat
    /\ \A args \in Arguments :
        /\ Len(args) \in Nat /\ DOMAIN args = 1 .. Len(args)
        /\ \A k \in DOMAIN args :
            args[k].name \in {"c", "cores", "m", "memory"} /\ args[k].arg # <<>> =>
                args[k].arg[1] \in Nat \cup {CL!NaN}

main_vars == <<argv, optind, simulator>>
vars == <<loader, main_vars, num_cores, at>>

Init ==
    /\ CL!Init
    /\ mem_size = 0 /\ pmem = [a \in {} |-> 0]
    /\ fd = 0 /\ pos = 0 /\ i = 0 /\ retval = 0
    /\ entry = 0
    /\ num_cores = 0

Main == CL!main /\ UNCHANGED <<loader, num_cores>>

-----------------------------------------------------------------------------
(* cpu_init takes the number of cores, a size_t, as an int. *)
n_cores == s32(u32(simulator.cores))

(***************************************************************************)
(* hw_init.  cpu_init and hw_init set registers of core 0 also when there  *)
(* are no cores: undefined, it may go unnoticed.                           *)
(***************************************************************************)
hw_init ==
    /\ at = "simulate"
    /\ n_cores >= 0
    /\ mem_size' = simulator.memsz
    /\ num_cores' = n_cores
    /\ at' \in IF n_cores = 0 THEN {"open", "segv"} ELSE {"open"}
    /\ UNCHANGED <<fd, pos, i, retval, entry, pmem, main_vars>>

(* A structure could not be allocated, for one a negative number of cores. *)
AllocationFails ==
    /\ at = "simulate"
    /\ at' = "exit"
    /\ UNCHANGED <<loader, main_vars, num_cores>>

Load == elf_dump(simulator.program[1]) /\ UNCHANGED <<main_vars, num_cores>>

Ended ==
    /\ at \in {"run", "exit", "segv"}
    /\ UNCHANGED vars

Next == Main \/ hw_init \/ AllocationFails \/ Load \/ Ended

Spec == Init /\ [][Next]_vars

-----------------------------------------------------------------------------
TypeOK ==
    /\ LoaderTypeOK
    /\ optind \in 1 .. Len(argv) + 1
    /\ simulator.debug \in BOOLEAN /\ simulator.logging \in BOOLEAN
    /\ simulator.cores \in Nat /\ simulator.memsz \in Nat /\ num_cores \in Nat
    /\ at \in {"args", "log", "simulate", "open", "ident", "type", "header", "table",
               "segment", "close", "run", "exit", "segv"}

(***************************************************************************)
(* What the user asked for, read off the whole command line: the options   *)
(* are the arguments before the first operand or "--"; the last of several *)
(* values counts, and an operand counts more than --program.               *)
(***************************************************************************)
Leading == {k \in DOMAIN argv : \A j \in 1 .. k : CL!IsOption(argv[j])}

Given(names) == {k \in Leading : argv[k].name \in names}

LastGiven(names, k) == k \in Given(names) /\ \A j \in Given(names) : j <= k

AskedFor(names, default, value) ==
    IF Given(names) = {} THEN value = default
    ELSE \E k \in DOMAIN argv : LastGiven(names, k) /\ value = argv[k].arg[1]

(* The arguments after the options; "--" is not one if it ends them. *)
EndOfOptions(k) == argv[k].form = "end" /\ \A j \in 1 .. k - 1 : j \in Leading

Operands == {k \in DOMAIN argv \ Leading : ~EndOfOptions(k)}

ProgramAskedFor(program) ==
    \E k \in DOMAIN argv :
        IF Operands = {} THEN LastGiven({"p", "program"}, k) /\ program = argv[k].arg
        ELSE /\ k \in Operands /\ \A j \in Operands : k <= j
             /\ program = <<argv[k].word>>

(***************************************************************************)
(* A program is only loaded on the machine that the command line asks for: *)
(* the last of several --cores and of several --memory counts, and the     *)
(* machine has the number of cores asked for.  cpu_init takes it as an     *)
(* int, so that this is only true of a number that an int can hold.        *)
(***************************************************************************)
StartsAsAsked ==
    at \in {"open", "run"} =>
        /\ ProgramAskedFor(simulator.program)
        /\ AskedFor({"c", "cores"}, 1, simulator.cores)
        /\ simulator.cores <= INT_MAX => num_cores = simulator.cores
        /\ AskedFor({"m", "memory"}, MEMORY_SIZE, mem_size)
        /\ simulator.debug <=> Given({"d"}) # {}
        /\ simulator.logging => Given({"log"}) # {}

=============================================================================
