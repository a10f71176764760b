--------------------------- MODULE DebuggerProofs ---------------------------
(***************************************************************************)
(* Proofs about the debugger's prompt: for every input, of every length.   *)
(***************************************************************************)
EXTENDS Debugger, WellFoundedInduction, TLAPS

(* A set of natural numbers that is not empty has a least element. *)
LEMMA MinExists ==
    ASSUME NEW S \in SUBSET Nat, S # {}
    PROVE  Min(S) \in S /\ \A y \in S : Min(S) <= y
<1>1. PICK x \in S : \A y \in S : ~(<<y, x>> \in OpToRel(<, Nat))
  BY NatLessThanWellFounded, WFMin
<1>2. \A y \in S : x <= y
  <2> TAKE y \in S
  <2>1. x \in Nat /\ y \in Nat
    OBVIOUS
  <2>2. OpToRel(<, Nat) = {ss \in Nat \X Nat : ss[1] < ss[2]}
    BY DEF OpToRel
  <2>3. ~(y < x)
    BY <1>1, <2>1, <2>2
  <2> QED  BY <2>1, <2>3
<1> QED  BY <1>2 DEF Min

-----------------------------------------------------------------------------
TypeInv == TypeOK /\ stdin \in Inputs

(* fgets and scanf stop at the end of the input at the latest. *)
LEMMA ReadsStop ==
    ASSUME TypeInv
    PROVE  /\ Len(stdin) \in Nat /\ pos \in Nat /\ pos >= 1 /\ pos <= Len(stdin) + 1
           /\ fgets \in {0, 1, 2}
           /\ AtEnd <=> fgets = 0
           /\ pos + fgets \in 1 .. Len(stdin) + 1
           /\ NumberEnd \in 1 .. Len(stdin) + 1
<1> DEFINE len == Len(stdin)
<1>1. len \in Nat /\ pos \in Nat /\ pos >= 1 /\ pos <= len + 1
  BY InputsAssumption DEF TypeInv, TypeOK
<1>2. fgets \in {0, 1, 2} /\ (AtEnd <=> fgets = 0) /\ pos + fgets \in 1 .. len + 1
  <2>1. CASE AtEnd
    BY <1>1, <2>1 DEF fgets, AtEnd
  <2>2. CASE ~AtEnd /\ (stdin[pos] = NewLine \/ pos = len)
    <3>1. fgets = 1
      BY <2>2 DEF fgets
    <3> QED  BY <1>1, <2>2, <3>1 DEF AtEnd
  <2>3. CASE ~AtEnd /\ ~(stdin[pos] = NewLine \/ pos = len)
    <3>1. fgets = 2
      BY <2>3 DEF fgets
    <3> QED  BY <1>1, <2>3, <3>1 DEF AtEnd
  <2> QED  BY <2>1, <2>2, <2>3
<1>3. NumberStart \in 1 .. len + 1
  <2> DEFINE S == {k \in pos + fgets .. len + 1 : k <= len => stdin[k] # NewLine}
  <2>1. S \in SUBSET Nat /\ len + 1 \in S
    BY <1>1, <1>2
  <2>2. Min(S) \in S
    BY <2>1, MinExists
  <2> QED  BY <1>1, <1>2, <2>2 DEF NumberStart
<1>4. NumberEnd \in 1 .. len + 1
  <2> DEFINE S == {k \in NumberStart .. len + 1 : k <= len => stdin[k] \notin HexDigits}
  <2>1. S \in SUBSET Nat /\ len + 1 \in S
    BY <1>1, <1>3
  <2>2. Min(S) \in S
    BY <2>1, MinExists
  <2> QED  BY <1>1, <1>3, <2>2 DEF NumberEnd
<1> QED  BY <1>1, <1>2, <1>4

LEMMA TypeInvInit == Init => TypeInv
<1> SUFFICES ASSUME Init PROVE TypeInv
  OBVIOUS
<1>1. stdin \in Inputs /\ Len(stdin) \in Nat /\ pos = 1
  BY InputsAssumption DEF Init
<1>2. pos \in 1 .. Len(stdin) + 1
  BY <1>1
<1>3. debug \in BOOLEAN /\ finished \in BOOLEAN /\ g_finished \in BOOLEAN /\ at = "run"
  BY DEF Init
<1> QED  BY <1>1, <1>2, <1>3 DEF TypeInv, TypeOK

LEMMA TypeInvStep == TypeInv /\ [Next]_vars => TypeInv'
<1> SUFFICES ASSUME TypeInv, [Next]_vars PROVE TypeInv'
  OBVIOUS
<1>1. /\ Len(stdin) \in Nat
      /\ pos + fgets \in 1 .. Len(stdin) + 1
      /\ NumberEnd \in 1 .. Len(stdin) + 1
      /\ Len(stdin) + 1 \in 1 .. Len(stdin) + 1
  BY ReadsStop
<1>2. CASE RunPrompt \/ RunOn \/ RunSegv \/ RunReturn \/ Tick
  BY <1>2 DEF RunPrompt, RunOn, RunSegv, RunReturn, Tick, TypeInv, TypeOK
<1>3. CASE ShowState \/ PrintMemory \/ PrintMemorySegv \/ Continue \/ Quit \/ Step
  BY <1>1, <1>3 DEF ShowState, PrintMemory, PrintMemorySegv, Continue, Quit, Step, ReadCommand,
        TypeInv, TypeOK
<1>4. CASE Ended \/ UNCHANGED vars
  BY <1>4 DEF Ended, vars, TypeInv, TypeOK
<1> QED  BY <1>2, <1>3, <1>4 DEF Next

-----------------------------------------------------------------------------
(***************************************************************************)
(* Why the prompt stays in step: with commands of one letter, every read   *)
(* starts at the start of a line, or the input has ended; and 'm', whose   *)
(* scanf would read on, is never in the buffer.                            *)
(***************************************************************************)
InStep == AtLineStart \/ AtEnd

LineInv == OneLetterLines => InStep /\ c # "m"

(* A read of at most two characters consumes a whole line. *)
LEMMA LineRead ==
    ASSUME TypeInv, LineInv, OneLetterLines
    PROVE  LET n == pos + fgets
           IN  n = 1 \/ stdin[n - 1] = NewLine \/ n > Len(stdin)
<1> DEFINE len == Len(stdin)
<1>1. len \in Nat /\ pos \in Nat /\ pos >= 1 /\ pos <= len + 1 /\ DOMAIN stdin = 1 .. len
  BY ReadsStop, InputsAssumption DEF TypeInv
<1>2. CASE AtEnd
  BY <1>1, <1>2, ReadsStop DEF AtEnd
<1>3. CASE ~AtEnd
  <2>1. pos \in DOMAIN stdin
    BY <1>1, <1>3 DEF AtEnd
  <2>2. CASE stdin[pos] = NewLine
    <3>1. fgets = 1
      BY <1>3, <2>2 DEF fgets
    <3>2. (pos + 1) - 1 = pos
      BY <1>1
    <3> QED  BY <2>2, <3>1, <3>2
  <2>3. CASE stdin[pos] # NewLine /\ pos = len
    <3>1. fgets = 1
      BY <1>3, <2>3 DEF fgets
    <3> QED  BY <1>1, <2>3, <3>1
  <2>4. CASE stdin[pos] # NewLine /\ pos # len
    <3>1. fgets = 2
      BY <1>3, <2>4 DEF fgets
    <3>2. stdin[pos + 1] = NewLine
      BY <2>1, <2>4 DEF OneLetterLines
    <3>3. (pos + 2) - 1 = pos + 1
      BY <1>1
    <3> QED  BY <3>1, <3>2, <3>3
  <2> QED  BY <2>2, <2>3, <2>4
<1> QED  BY <1>2, <1>3

LEMMA CommandKnown ==
    ASSUME TypeInv, LineInv, OneLetterLines
    PROVE  /\ Command # "m"
           /\ Command \notin Staying \cup {"q"} => AtEnd \/ (AtLineStart /\ stdin[pos] = NewLine)
<1>1. Len(stdin) \in Nat /\ pos \in Nat /\ pos >= 1 /\ DOMAIN stdin = 1 .. Len(stdin)
  BY ReadsStop, InputsAssumption DEF TypeInv
<1>2. CASE AtEnd
  <2>1. Command = c
    BY <1>2, ReadsStop DEF Command
  <2> QED  BY <1>2, <2>1 DEF LineInv
<1>3. CASE ~AtEnd
  <2>1. Command = stdin[pos] /\ pos \in DOMAIN stdin /\ AtLineStart
    BY <1>1, <1>3, ReadsStop DEF Command, AtEnd, LineInv, InStep
  <2> QED  BY <2>1 DEF OneLetterLines, NewLine
<1> QED  BY <1>2, <1>3

LEMMA LineInvInit == Init => LineInv
BY DEF Init, LineInv, InStep, AtLineStart, NUL

LEMMA LineInvStep == TypeInv /\ LineInv /\ [Next]_vars => LineInv'
<1> SUFFICES ASSUME TypeInv, LineInv, [Next]_vars, OneLetterLines' PROVE InStep' /\ (c # "m")'
  BY DEF LineInv
<1>1. stdin' = stdin
  BY DEF Next, RunPrompt, RunOn, RunSegv, RunReturn, Tick, ShowState, PrintMemory,
        PrintMemorySegv, Continue, Quit, Step, ReadCommand, Ended, vars
<1>2. OneLetterLines
  BY <1>1 DEF OneLetterLines
<1>3. ASSUME ReadCommand, pos' = pos + fgets PROVE InStep' /\ (c # "m")'
  <2>1. pos' = 1 \/ stdin[pos' - 1] = NewLine \/ pos' > Len(stdin)
    BY <1>2, <1>3, LineRead
  <2>2. c' # "m"
    BY <1>2, <1>3, CommandKnown DEF ReadCommand
  <2> QED  BY <1>1, <2>1, <2>2 DEF InStep, AtLineStart, AtEnd
<1>4. ASSUME pos' = pos, c' \in {c, NUL} PROVE InStep' /\ (c # "m")'
  BY <1>1, <1>2, <1>4 DEF LineInv, InStep, AtLineStart, AtEnd, NUL
<1>5. CASE RunPrompt \/ RunOn \/ RunSegv \/ RunReturn \/ Tick
  BY <1>4, <1>5 DEF RunPrompt, RunOn, RunSegv, RunReturn, Tick
<1>6. CASE PrintMemory \/ PrintMemorySegv
  BY <1>2, <1>6, CommandKnown DEF PrintMemory, PrintMemorySegv
<1>7. CASE ShowState \/ Continue \/ Quit \/ Step
  BY <1>3, <1>7 DEF ShowState, Continue, Quit, Step
<1>8. CASE Ended \/ UNCHANGED vars
  BY <1>4, <1>8 DEF Ended, vars
<1> QED  BY <1>5, <1>6, <1>7, <1>8 DEF Next

(***************************************************************************)
(* The prompt stays in step with the lines: as long as the user gives      *)
(* commands of one letter, only an empty line, or the end of the input,    *)
(* lets an instruction run.                                                *)
(***************************************************************************)
THEOREM PromptStaysInStep == Spec => StaysInStep
<1>1. TypeInv /\ LineInv /\ [Next]_vars => [OneLetterLines => StepIsAskedFor]_vars
  <2> SUFFICES ASSUME TypeInv, LineInv, Next, OneLetterLines,
                      at = "prompt", at' = "tick", ~finished'
               PROVE  AtEnd \/ (AtLineStart /\ stdin[pos] = NewLine)
    BY DEF StepIsAskedFor
  <2>1. Step
    BY DEF Next, RunPrompt, RunOn, RunSegv, RunReturn, Tick, ShowState, PrintMemory,
        PrintMemorySegv, Continue, Quit, Ended, vars
  <2> QED  BY <2>1, CommandKnown DEF Step
<1>2. Spec => [](TypeInv /\ LineInv)
  BY TypeInvInit, TypeInvStep, LineInvInit, LineInvStep, PTL DEF Spec
<1> QED  BY <1>1, <1>2, PTL DEF Spec, StaysInStep

=============================================================================
