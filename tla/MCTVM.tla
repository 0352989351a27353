-------------------------------- MODULE MCTVM --------------------------------
(***************************************************************************)
(* Small instances of the interpreter for TLC: sets of programs, and a     *)
(* float order for words.                                                  *)
(***************************************************************************)
EXTENDS TVMCallStack, TLC

CONSTANTS f0, f1, f2, f3

MCFrameId == {f0, f1, f2, f3}
FrameSymmetry == Permutations(MCFrameId)

Num(n) == [type |-> "NUMBER", lo |-> n, hi |-> 0]
I(op, n) == [op |-> op, arg |-> Num(n)]
Plain(ops) == {[op |-> op, arg |-> Blank] : op \in ops}

(* Every program of 1 to n instructions of the set is. *)
Codes(is, n) == UNION {[1 .. k -> is] : k \in 1 .. n}
NoData(codes) == {[code |-> c, data |-> <<>>, refs |-> <<>>] : c \in codes}

(* Calls, returns, jumps and variables, with targets inside and outside. *)
ControlInstrs ==
  {I("PUSH", 1), I("JZ", 4), I("JNZ", 1), I("CALL", 0), I("CALL", 3), I("STORE", 0),
   I("LOAD", 0)} \union Plain({"RET", "HALT"})
ControlCodes == Codes(ControlInstrs, 5)

(* Three constants, in bytes of one bit: a string of one character and its  *)
(* terminator, a word, and a character, which is the last byte of the table. *)
WithData(codes) ==
  {[code |-> c, data |-> <<1, 0, 1, 1, 0, 1>>, refs |-> <<0, 2, 5>>] : c \in codes}

(* Everything that moves values, and the opcodes that tear them. *)
DataInstrs ==
  {I("PUSH", 1), I("CLN", 0), I("CLN", 1), I("SWAP", 1), I("ALOADC", 0), I("ALOADC", 2),
   I("LOADC", 1), I("STORE", 0), I("LOAD", 0), I("GSTORE", 0), I("GLOAD", 0)}
    \union Plain({"DUP", "POP", "PUTS"})

(* Short programs over every opcode here, operands inside and outside. *)
AllInstrs ==
  {I(op, n) : op \in {"PUSH", "CALL", "JMP"}, n \in {0, 2, 3}}
    \union {I("JZ", 3), I("JNZ", 3), I("LOAD", 0), I("STORE", 0), I("STORE", 2), I("GLOAD", 0),
            I("GSTORE", 0), I("LOADC", 0), I("LOADC", 2), I("LOADC", 3), I("ALOADC", 2),
            I("CLN", 0), I("CLN", 1), I("SWAP", 1)}
    \union Plain(BinaryOps \union UnaryOps \union
                 {"NOP", "DUP", "POP", "PUTS", "PUTC", "RET", "HALT", "unknown"})
AllPrograms ==
  WithData(UNION {[1 .. k -> AllInstrs] : k \in 1 .. 2}
             \union {<<I("PUSH", m), I("PUSH", n), i>> : m, n \in Word, i \in AllInstrs})

(* Programs of calls and forward jumps. *)
CallPrograms ==
  NoData(Codes({I("PUSH", 1), I("JZ", 3), I("JMP", 3), I("CALL", 0), I("CALL", 1), I("CALL", 2)}
                 \union Plain({"RET"}), 4))
TerminationPrograms == AllPrograms \union CallPrograms

(* A sign-magnitude reading of words as floats: the upper half is negative, *)
(* each half's last word is a NaN, and 0 and W/2 are the two zeros.         *)
FloatOf(w) == IF 2 * w < W THEN w ELSE (W \div 2) - w
IsNaN(w) == 2 * (w + 1) \in {W, 2 * W}
MCFLess(a, b) == ~IsNaN(a) /\ ~IsNaN(b) /\ FloatOf(a) < FloatOf(b)
MCFEqual(a, b) == ~IsNaN(a) /\ ~IsNaN(b) /\ FloatOf(a) = FloatOf(b)
=============================================================================
