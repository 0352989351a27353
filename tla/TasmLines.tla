------------------------------ MODULE TasmLines ------------------------------
(***************************************************************************)
(* The syntax tree of src/include/tasm/tasm_ast.h, which the parser builds *)
(* and the translator walks.  It is flat here: the lines in the order      *)
(* every pass visits them, each with the procedure it is in.               *)
(***************************************************************************)
EXTENDS Integers, Sequences

CONSTANTS
  Ids,       \* identifiers, of labels and of procedures
  Top,       \* in place of a procedure's name: outside all of them
  NoName,    \* an instruction without a symbolic operand
  NoValue    \* @data without a literal: a null pointer

Kind == {"inst", "jump", "call", "label", "proc", "data"}

(* A jump or call of kind "jump" or "call" has a name for its operand; one *)
(* with a number is an "inst".                                             *)
Instructions == {"inst", "jump", "call"}

(* What the parser yields: a procedure's lines follow its header. *)
Parsed(lines) ==
  \A i \in 1 .. Len(lines) :
    LET l == lines[i] IN
    /\ l.kind \in {"jump", "call", "label", "proc"} => l.name \in Ids
    /\ l.kind \in {"proc", "data"} => l.in = Top
    /\ l.in # Top => /\ i > 1
                     /\ \/ lines[i - 1].kind = "proc" /\ lines[i - 1].name = l.in
                        \/ lines[i - 1].in = l.in
=============================================================================
