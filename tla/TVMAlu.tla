------------------------------- MODULE TVMAlu -------------------------------
(***************************************************************************)
(* The arithmetic of the tile virtual machine (src/include/tvm/tvm.h, the  *)
(* cases OP_ADD to OP_RSHFT of tvm_exec_opcode): what a unary or a binary  *)
(* opcode leaves in the low 32 bits of its result slot.                    *)
(*                                                                         *)
(* Integers are exact modulo W (2^32 in the code).  An operation yields    *)
(* the SET of results the build can produce: one result where C and the    *)
(* compiler define it, every word where the operation is undefined (a      *)
(* shift by a count outside 0 .. Bits-1) or is IEEE arithmetic, whose      *)
(* rounding no property here depends on.                                   *)
(***************************************************************************)
EXTENDS Integers

CONSTANTS
  Bits,          \* Width of a machine word: 32 in the code.
  W,             \* Number of words: 2^Bits.
  FLess(_, _),   \* "<" of two words read as IEEE floats (the hardware's).
  FEqual(_, _)   \* "==" of two words read as IEEE floats.

ASSUME WAssumption == Bits \in Nat \ {0} /\ W \in Nat /\ W > 1
ASSUME WidthAssumption == W = 2^Bits

Word == 0 .. (W - 1)

(* word_t read as int32_t, and back: two's complement. *)
Signed(w) == IF 2 * w < W THEN w ELSE w - W
ToWord(n) == n % W

Bool(b) == IF b THEN 1 ELSE 0

(* C's integer division truncates towards zero; TLA+'s rounds down. *)
Truncated(x, y) ==
  LET Magnitude(n) == IF n < 0 THEN -n ELSE n
      q == Magnitude(x) \div Magnitude(y)
  IN  IF (x < 0) # (y < 0) THEN -q ELSE q

(* INT32_MIN / -1 has no 32-bit result: the division instruction traps. *)
DivisionTraps(a, b) == Signed(b) = -1 /\ 2 * Signed(a) = -W

Bit(w, i) == (w \div 2^i) % 2

FLessEq(a, b) == FLess(a, b) \/ FEqual(a, b)

-----------------------------------------------------------------------------

DivideOps  == {"DIV", "MOD"}
FloatOps   == {"ADDF", "SUBF", "MULTF", "DIVF"}
CompareOps == {"GT", "LT", "EQ", "GE", "LE", "GTF", "LTF", "EQF", "GEF", "LEF"}
LogicOps   == {"AND", "OR"}
BitOps     == {"BAND", "BOR", "LSHFT", "RSHFT"}

BinaryOps == {"ADD", "SUB", "MULT"} \union DivideOps \union FloatOps
               \union CompareOps \union LogicOps \union BitOps

UnaryOps == {"INC", "DEC", "INCF", "DECF", "NOT", "BNOT",
             "CI2F", "CI2U", "CF2I", "CF2U", "CU2I", "CU2F"}

(* The comparisons and connectives, as truth values.  OP_LTF compares with *)
(* "<=", exactly as OP_LEF does.                                           *)
Holds(op, a, b) ==
  CASE op = "GT"  -> Signed(a) > Signed(b)
    [] op = "LT"  -> Signed(a) < Signed(b)
    [] op = "EQ"  -> a = b
    [] op = "GE"  -> Signed(a) >= Signed(b)
    [] op = "LE"  -> Signed(a) <= Signed(b)
    [] op = "GTF" -> FLess(b, a)
    [] op = "LTF" -> FLessEq(a, b)
    [] op = "EQF" -> FEqual(a, b)
    [] op = "GEF" -> FLessEq(b, a)
    [] op = "LEF" -> FLessEq(a, b)
    [] op = "AND" -> a # 0 /\ b # 0
    [] op = "OR"  -> a # 0 \/ b # 0

(* The words stack[sp-2] can hold after binary opcode op on a = stack[sp-2] *)
(* and b = stack[sp-1].  Division by zero and a division that traps never   *)
(* get here.                                                                *)
Binary(op, a, b) ==
  {w \in Word :
     CASE op = "ADD"  -> w = ToWord(a + b)
       [] op = "SUB"  -> w = ToWord(a - b)
       [] op = "MULT" -> w = ToWord(a * b)
       [] op = "DIV"  -> w = ToWord(Truncated(Signed(a), Signed(b)))
       [] op = "MOD"  -> w = ToWord(Signed(a) - Signed(b) * Truncated(Signed(a), Signed(b)))
       [] op \in CompareOps \union LogicOps -> w = Bool(Holds(op, a, b))
       [] op = "BAND" -> \A i \in 0 .. Bits - 1 : Bit(w, i) = Bit(a, i) * Bit(b, i)
       [] op = "BOR"  -> \A i \in 0 .. Bits - 1 : Bit(w, i) = Bool(Bit(a, i) + Bit(b, i) > 0)
       [] op = "LSHFT" /\ b < Bits -> w = ToWord(a * 2^b)
       [] op = "RSHFT" /\ b < Bits -> w = ToWord(Signed(a) \div 2^b)
       [] OTHER -> TRUE}

(* The words stack[sp-1] can hold after unary opcode op on a = stack[sp-1]. *)
(* Casting between int32_t and uint32_t keeps the bits.                     *)
Unary(op, a) ==
  {w \in Word :
     CASE op = "INC"  -> w = ToWord(a + 1)
       [] op = "DEC"  -> w = ToWord(a - 1)
       [] op = "NOT"  -> w = Bool(a = 0)
       [] op = "BNOT" -> w = W - 1 - a
       [] op \in {"CI2U", "CU2I"} -> w = a
       [] OTHER -> TRUE}
=============================================================================
