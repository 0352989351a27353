----------------------------- MODULE MCTVMClaims -----------------------------
(***************************************************************************)
(* What the repository's examples and enumerations say of the interpreter  *)
(* and the code does not do.                                               *)
(***************************************************************************)
EXTENDS MCTVM

CONSTANTS f4, f5, f6

ClaimFrameId == MCFrameId \union {f4, f5, f6}

(* examples/fac.tasm as the assembler lays it out (its procedure change,   *)
(* which nothing calls, included).                                         *)
FacCode ==
  <<I("JMP", 19),
    I("STORE", 0), I("LOAD", 0), I("PUSH", 1), I("LE", 0), I("JZ", 8), I("PUSH", 1), I("RET", 0),
    I("POP", 0), I("LOAD", 0), I("DEC", 0), I("CALL", 1), I("LOAD", 0), I("MULT", 0), I("RET", 0),
    I("STORE", 0), I("LOAD", 0), I("INC", 0), I("RET", 0),
    I("PUSH", 5), I("CALL", 1), I("HALT", 0)>>
FacProgram == NoData({FacCode})

(* The comment over the procedure (fac.tasm:3-9) says it returns a times   *)
(* factorial(a - 1) down to 1: the program must stop with 120, its only    *)
(* result.  The conditional jump at fac.tasm:16 pops the comparison and    *)
(* the "pop" at its target (fac.tasm:20) finds an empty stack.             *)
FacReturnsFactorial ==
  status # "running" => status = "stopped" /\ sp = 1 /\ Top.lo = 120

(* Every pair of floats compared with OP_LTF. *)
LtfPrograms ==
  NoData({<<I("PUSH", a), I("PUSH", b), I("LTF", 0), I("HALT", 0)>> : a, b \in Word})

(* The enumeration under "comparison" (tvm.h:78-89) has both OP_LTF and    *)
(* OP_LEF, as it has OP_LT and OP_LE: "less than" holds of no number and   *)
(* itself.  OP_LTF compares with <= (tvm.h:713).                           *)
LtfIsStrict ==
  status = "stopped" =>
    (Top.lo = 1 => FLess(program.code[1].arg.lo, program.code[2].arg.lo))
=============================================================================
