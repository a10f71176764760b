---------------------------- MODULE CommandLine ----------------------------
(***************************************************************************)
(* main(): the command line becomes the simulator structure.               *)
(*                                                                         *)
(* An argument is an option, short or long, with its argument (a sequence, *)
(* empty when there is none), an operand, or the end of the options "--";  *)
(* its word is what it is as a path.  A number is what strtoul makes of    *)
(* it, NaN when it makes nothing of it.                                    *)
(***************************************************************************)
EXTENDS Integers, Sequences

CONSTANTS
    Arguments,      \* the command lines
    MEMORY_SIZE     \* the default memory size

VARIABLES
    argv, optind,
    simulator,
    at              \* "args", "log", "simulate", or how the process ended

main_vars == <<argv, optind, simulator>>

NaN == -1

-----------------------------------------------------------------------------
(***************************************************************************)
(* getopt_long (external) on the two tables of main.  --debug is mapped to *)
(* 'c' and -l is missing.                                                  *)
(***************************************************************************)
long_options ==
    [cores   |-> [required |-> TRUE,  val |-> "c"],
     debug   |-> [required |-> FALSE, val |-> "c"],
     help    |-> [required |-> FALSE, val |-> "h"],
     memory  |-> [required |-> TRUE,  val |-> "m"],
     program |-> [required |-> TRUE,  val |-> "p"],
     log     |-> [required |-> TRUE,  val |-> "l"]]

optstring ==
    [c |-> [required |-> TRUE,  val |-> "c"],
     d |-> [required |-> FALSE, val |-> "d"],
     h |-> [required |-> FALSE, val |-> "h"],
     m |-> [required |-> TRUE,  val |-> "m"],
     p |-> [required |-> TRUE,  val |-> "p"]]

IsOption(a) == a.form \in {"short", "long"}

(* An unknown option, or one with a missing or superfluous argument, is '?'. *)
getopt_long(a) ==
    LET table == IF a.form = "long" THEN long_options ELSE optstring
    IN  IF a.name \in DOMAIN table /\ (table[a.name].required <=> a.arg # <<>>)
        THEN table[a.name].val ELSE "?"

Init ==
    /\ argv \in Arguments
    /\ optind = 1
    /\ simulator = [program |-> <<>>, debug |-> FALSE, cores |-> 1,
                    memsz |-> MEMORY_SIZE, logging |-> FALSE]
    /\ at = "args"

-----------------------------------------------------------------------------
Option(c) ==
    /\ at = "args" /\ optind <= Len(argv)
    /\ IsOption(argv[optind])
    /\ getopt_long(argv[optind]) = c
    /\ optind' = optind + 1
    /\ UNCHANGED argv

optarg == argv[optind].arg

(***************************************************************************)
(* parse_size_t.  Without an argument strtoul reads through NULL; what is  *)
(* no number ends the process.                                             *)
(***************************************************************************)
parse_size_t(field) ==
    /\ at' = CASE optarg = <<>> -> "segv"
               [] optarg # <<>> /\ optarg[1] = NaN -> "exit"
               [] OTHER -> at
    /\ simulator' = IF optarg = <<>> \/ optarg[1] = NaN THEN simulator
                    ELSE [simulator EXCEPT ![field] = optarg[1]]

OptDebug ==
    /\ Option("d")
    /\ simulator' = [simulator EXCEPT !.debug = TRUE]
    /\ UNCHANGED at

(* Mutant: a number that was given before is kept. *)
FirstCoresCount ==
    /\ Option("c")
    /\ IF simulator.cores = 1 THEN parse_size_t("cores") ELSE UNCHANGED <<simulator, at>>

OptCores == Option("c") /\ parse_size_t("cores")

OptProgram ==
    /\ Option("p")
    /\ simulator' = [simulator EXCEPT !.program = optarg]
    /\ UNCHANGED at

OptMemory == Option("m") /\ parse_size_t("memsz")

(* Help and usage are printed, and the process exits. *)
OptHelp == (Option("h") \/ Option("?")) /\ at' = "exit" /\ UNCHANGED simulator

OptLog ==
    /\ Option("l")
    /\ simulator' = [simulator EXCEPT !.logging = TRUE]
    /\ UNCHANGED at

(* The options end before the first operand ("+") or after "--". *)
OperandIndex ==
    IF optind <= Len(argv) /\ argv[optind].form = "end" THEN optind + 1 ELSE optind

(* The first operand is the program; without a program main returns. *)
OptionsEnd ==
    /\ at = "args"
    /\ optind <= Len(argv) => ~IsOption(argv[optind])
    /\ optind' = OperandIndex
    /\ LET program == IF OperandIndex <= Len(argv) THEN <<argv[OperandIndex].word>>
                      ELSE simulator.program
       IN  /\ simulator' = [simulator EXCEPT !.program = program]
           /\ at' = CASE program = <<>> -> "exit"
                      [] program # <<>> /\ simulator.logging -> "log"
                      [] OTHER -> "simulate"
    /\ UNCHANGED argv

(* Without its file, logging is switched off again. *)
OpenLog ==
    /\ at = "log"
    /\ \E opened \in BOOLEAN : simulator' = [simulator EXCEPT !.logging = opened]
    /\ at' = "simulate"
    /\ UNCHANGED <<argv, optind>>

main ==
    \/ OptDebug \/ OptCores \/ OptProgram \/ OptMemory \/ OptHelp \/ OptLog
    \/ OptionsEnd \/ OpenLog

=============================================================================
