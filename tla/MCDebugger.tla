----------------------------- MODULE MCDebugger -----------------------------
(***************************************************************************)
(* The inputs for which the debugger is checked.                           *)
(***************************************************************************)
EXTENDS Debugger

(* Printing, memory, continue and quit, digits, an unknown command. *)
Characters == {"v", "0", "m", "c", "q", "x", NewLine}

AnyInputs == UNION {[1 .. n -> Characters] : n \in 0 .. 5}

(* Lines as the help text describes them. *)
DocumentedLines == {<<NewLine>>, <<"r", NewLine>>, <<"v", "0", NewLine>>, <<"c", NewLine>>}

DocumentedInputs == {a \o b : a, b \in DocumentedLines}

=============================================================================
