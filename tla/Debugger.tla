------------------------------ MODULE Debugger ------------------------------
(***************************************************************************)
(* The loop of run() in debugging mode (sim.c) and its command prompt      *)
(* (debug.c).  What a tick does to the machine is in module Pipeline; here *)
(* it may let the program exit or kill the simulator.                      *)
(*                                                                         *)
(* Standard input is a sequence of characters with an end: a file or a     *)
(* pipe, or what the user types before closing a terminal.                 *)
(***************************************************************************)
EXTENDS Integers, Sequences, FiniteSetsExt

CONSTANT
    Inputs          \* what standard input may hold

(* Standard input is a sequence of characters. *)
ASSUME InputsAssumption ==
    \A s \in Inputs : Len(s) \in Nat /\ DOMAIN s = 1 .. Len(s)

VARIABLES
    stdin,
    pos,            \* the next character to be read
    seekable,       \* standard input is a regular file
    debug,          \* simulator->debug
    finished,       \* simulator->finished
    g_finished,     \* the program exited
    c,              \* the first character of the command buffer
    at              \* "run", "prompt", "tick", or how the process ended

vars == <<stdin, pos, seekable, debug, finished, g_finished, c, at>>

NUL == "NUL"
NewLine == "nl"
HexDigits == {"0", "8", "c", "d"}

(* Commands after which the prompt is shown again. *)
Printing == {"h", "r", "i", "p", "0", "v", "s", "t", "d"}
Staying == Printing \cup {"m", "c"}

Init ==
    /\ stdin \in Inputs /\ pos = 1
    /\ seekable \in BOOLEAN
    /\ debug \in BOOLEAN
    /\ finished = FALSE /\ g_finished = FALSE
    /\ c = NUL
    /\ at = "run"

-----------------------------------------------------------------------------
(***************************************************************************)
(* run().  The word at the PC is read before the prompt; debug() starts    *)
(* with an empty buffer.                                                   *)
(***************************************************************************)
RunPrompt ==
    /\ at = "run" /\ ~g_finished /\ ~finished
    /\ debug
    /\ at' = "prompt"
    /\ c' = NUL
    /\ UNCHANGED <<stdin, pos, seekable, debug, finished, g_finished>>

RunOn ==
    /\ at = "run" /\ ~g_finished /\ ~finished
    /\ ~debug
    /\ at' = "tick"
    /\ UNCHANGED <<stdin, pos, seekable, debug, finished, g_finished, c>>

RunSegv ==
    /\ at = "run" /\ ~g_finished /\ ~finished
    /\ at' = "segv"
    /\ UNCHANGED <<stdin, pos, seekable, debug, finished, g_finished, c>>

(* Mutant: only the program can end the loop. *)
IgnoresQuit ==
    /\ at = "run" /\ g_finished
    /\ at' = "exit"
    /\ UNCHANGED <<stdin, pos, seekable, debug, finished, g_finished, c>>

RunReturn ==
    /\ at = "run" /\ (g_finished \/ finished)
    /\ at' = "exit"
    /\ UNCHANGED <<stdin, pos, seekable, debug, finished, g_finished, c>>

Tick ==
    /\ at = "tick"
    /\ \/ at' = "run" /\ g_finished' \in {g_finished, TRUE}
       \/ at' = "segv" /\ UNCHANGED g_finished
    /\ UNCHANGED <<stdin, pos, seekable, debug, finished, c>>

-----------------------------------------------------------------------------
(***************************************************************************)
(* debug().  fgets reads at most two characters, up to and including a     *)
(* line end; at the end of the input it leaves the buffer as it is.        *)
(***************************************************************************)
AtEnd == pos > Len(stdin)

(* Mutant: room for one character only. *)
FgetsOne == IF AtEnd THEN 0 ELSE 1

fgets ==
    CASE AtEnd -> 0
      [] ~AtEnd /\ (stdin[pos] = NewLine \/ pos = Len(stdin)) -> 1
      [] OTHER -> 2

Command == IF fgets = 0 THEN c ELSE stdin[pos]

ReadCommand ==
    /\ at = "prompt"
    /\ c' = Command
    /\ UNCHANGED <<stdin, seekable, g_finished>>

ShowState ==
    /\ ReadCommand
    /\ Command \in Printing
    /\ pos' = pos + fgets
    /\ UNCHANGED <<debug, finished, at>>

(* 'm': scanf("%X") skips line ends and takes the digits that follow. *)
NumberStart ==
    Min({k \in pos + fgets .. Len(stdin) + 1 : k <= Len(stdin) => stdin[k] # NewLine})

NumberEnd ==
    Min({k \in NumberStart .. Len(stdin) + 1 : k <= Len(stdin) => stdin[k] \notin HexDigits})

(* fseek to the end throws the rest of a file away, and fails on a pipe. *)
PrintMemory ==
    /\ ReadCommand
    /\ Command = "m"
    /\ pos' = IF seekable THEN Len(stdin) + 1 ELSE NumberEnd
    /\ UNCHANGED <<debug, finished, at>>

(* The address that was given is not mapped. *)
PrintMemorySegv ==
    /\ ReadCommand
    /\ Command = "m" /\ NumberEnd > NumberStart
    /\ pos' = NumberEnd
    /\ at' = "segv"
    /\ UNCHANGED <<debug, finished>>

(* The prompt is shown again. *)
Continue ==
    /\ ReadCommand
    /\ Command = "c"
    /\ pos' = pos + fgets
    /\ debug' = FALSE
    /\ UNCHANGED <<finished, at>>

(* Mutant: the prompt is shown again after 'q'. *)
QuitStays ==
    /\ ReadCommand
    /\ Command = "q"
    /\ pos' = pos + fgets
    /\ finished' = TRUE
    /\ UNCHANGED <<debug, at>>

(* The tick of the instruction at the prompt still follows. *)
Quit ==
    /\ ReadCommand
    /\ Command = "q"
    /\ pos' = pos + fgets
    /\ finished' = TRUE
    /\ at' = "tick"
    /\ UNCHANGED debug

Step ==
    /\ ReadCommand
    /\ Command \notin Staying \cup {"q"}
    /\ pos' = pos + fgets
    /\ at' = "tick"
    /\ UNCHANGED <<debug, finished>>

Ended ==
    /\ at \in {"exit", "segv"}
    /\ UNCHANGED vars

Next ==
    \/ RunPrompt \/ RunOn \/ RunSegv \/ RunReturn \/ Tick
    \/ ShowState \/ PrintMemory \/ PrintMemorySegv \/ Continue \/ Quit \/ Step
    \/ Ended

Spec == Init /\ [][Next]_vars

(* One thread; reads return, as the input has an end. *)
FairSpec == Spec /\ WF_vars(Next)

-----------------------------------------------------------------------------
TypeOK ==
    /\ pos \in 1 .. Len(stdin) + 1
    /\ debug \in BOOLEAN /\ finished \in BOOLEAN /\ g_finished \in BOOLEAN
    /\ at \in {"run", "prompt", "tick", "exit", "segv"}

AtLineStart == pos = 1 \/ stdin[pos - 1] = NewLine

(* The prompt is left by an empty line, or because the input has ended. *)
StepIsAskedFor ==
    at = "prompt" /\ at' = "tick" /\ ~finished' =>
        AtEnd \/ (AtLineStart /\ stdin[pos] = NewLine)

(* Every line is empty or a command of one letter that asks for no more. *)
OneLetterLines ==
    \A k \in DOMAIN stdin : stdin[k] # NewLine =>
        /\ stdin[k] \in (Staying \cup {"q"}) \ {"m"}
        /\ k = Len(stdin) \/ stdin[k + 1] = NewLine

(***************************************************************************)
(* The prompt stays in step with the lines: as long as the user gives      *)
(* commands of one letter, only an empty line lets an instruction run,     *)
(* and no part of a line is taken for a command of its own.                *)
(***************************************************************************)
StaysInStep == [][OneLetterLines => StepIsAskedFor]_vars

(***************************************************************************)
(* The prompt ends, with one exception: when the input ends after a        *)
(* command that stays, fgets leaves it in the buffer and it is repeated    *)
(* for ever.                                                               *)
(***************************************************************************)
PromptEnds == at = "prompt" ~> at # "prompt" \/ (AtEnd /\ c \in Staying)

(* Whatever comes after it in the input, quit ends the simulation. *)
QuitEnds == finished ~> at \in {"exit", "segv"}

-----------------------------------------------------------------------------
(* The help text of debug.c lists the commands that print and, for itself, *)
(* "'\n' - Step": printing lets no instruction run.                        *)
PrintingDoesNotStep == [][StepIsAskedFor]_vars

=============================================================================
