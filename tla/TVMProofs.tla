------------------------------ MODULE TVMProofs ------------------------------
(***************************************************************************)
(* Machine-checked safety of the interpreter of module TVM, for every      *)
(* program, every stack depth and every number of variables; and the       *)
(* refinement: its frame list and its return stack implement the nesting   *)
(* of activations of module CallStack, for every depth of calls.           *)
(***************************************************************************)
EXTENDS TVMCallStack, LeastNumber, TLAPS

(* Reduction modulo W stays in a word. *)
LEMMA ModWord == \A n \in Nat : n % W \in Word /\ n \div W \in Nat
  BY WAssumption DEF Word

LEMMA WordNat == Word \subseteq Nat /\ 0 \in Word /\ Word # {}
  BY WAssumption DEF Word

LEMMA HighWord == High \subseteq Word /\ 0 \in High
  BY WordNat DEF High

LEMMA BlankType == Blank \in Object /\ NoVars \in [Vars -> Object]
  BY WordNat, HighWord DEF Blank, Object, ObjType, NoVars

(* The fetched instruction is one of the program's, or the zero behind it. *)
LEMMA InstType ==
  ASSUME TypeOK
  PROVE  /\ size \in Nat
         /\ Inst \in Instr /\ arg \in Word /\ arg \in Nat
         /\ Inst.arg \in Object
         /\ \A k \in 1 .. size : program.code[k] \in Instr
<1>1. program.code \in Seq(Instr) /\ size \in Nat
  BY DEF TypeOK, Program, size
<1>2. \A k \in 1 .. size : program.code[k] \in Instr
  BY <1>1 DEF size
<1>3. Inst \in Instr
  <2>1. NopInstr \in Instr
    BY BlankType DEF NopInstr, Instr, OpType
  <2>2. ip < size => program.code[ip + 1] \in Instr
    BY <1>1, <1>2 DEF TypeOK
  <2> QED
    BY <2>1, <2>2 DEF Inst
<1> QED
  BY <1>1, <1>2, <1>3, WordNat DEF Instr, Object, arg

(* What an opcode returns is an exception or EXCEPT_OK. *)
LEMMA FaultType == Fault \in Exception \union {"OK"}
  BY DEF Fault, Exception, FirstOf, Need, Room, Check, Target

(* What is known of the stacks and the operand once an opcode's checks have *)
(* all passed.                                                              *)
LEMMA Checked ==
  ASSUME TypeOK, Fault = "OK"
  PROVE  /\ Inst.op \in {"PUSH", "DUP", "CLN", "LOADC", "ALOADC", "LOAD", "GLOAD"}
              => sp < StackCap
         /\ Inst.op \in {"POP", "PUTC", "PUTS", "STORE", "GSTORE", "JZ", "JNZ", "DUP"}
              => sp >= 1
         /\ Inst.op \in UnaryOps => sp >= 1
         /\ Inst.op \in BinaryOps => sp >= 2
         /\ Inst.op = "SWAP" => sp >= 2
         /\ Inst.op \in {"CLN", "SWAP"} => arg < sp
         /\ Inst.op \in {"LOADC", "ALOADC"} => arg < Len(program.refs)
         /\ Inst.op \in {"LOAD", "STORE", "GLOAD", "GSTORE"} => arg < MaxVar
         /\ Inst.op \in {"JMP", "JZ", "JNZ", "CALL"} => arg < size
         /\ Inst.op = "CALL" => rsp < RetCap
         /\ Inst.op = "RET" => rsp >= 1
<1>1. sp \in Nat /\ rsp \in Nat /\ arg \in Nat /\ size \in Nat /\ StackCap \in Nat
        /\ RetCap \in Nat /\ MaxVar \in Nat /\ Len(program.refs) \in Nat
  BY InstType, SizeAssumption DEF TypeOK, Program
<1> USE <1>1 DEF Fault, FirstOf, Need, Room, Check, Target
<1>2. Inst.op \in {"PUSH", "DUP", "CLN", "LOADC", "ALOADC", "LOAD", "GLOAD"} => sp < StackCap
  BY DEF UnaryOps, BinaryOps, RoomlessOps, DivideOps, FloatOps, CompareOps, LogicOps, BitOps
<1>3. Inst.op \in {"POP", "PUTC", "PUTS", "STORE", "GSTORE", "JZ", "JNZ", "DUP"} => sp >= 1
  BY DEF UnaryOps, BinaryOps, RoomlessOps, DivideOps, FloatOps, CompareOps, LogicOps, BitOps
<1>4. Inst.op \in UnaryOps => sp >= 1
  BY DEF UnaryOps
<1>5. Inst.op \in BinaryOps => sp >= 2
  BY DEF UnaryOps, BinaryOps, RoomlessOps, DivideOps, FloatOps, CompareOps, LogicOps, BitOps
<1>6. Inst.op \in {"CLN", "SWAP"} => arg < sp /\ (Inst.op = "SWAP" => sp >= 2)
  BY DEF UnaryOps, BinaryOps, RoomlessOps, DivideOps, FloatOps, CompareOps, LogicOps, BitOps
<1>7. Inst.op \in {"LOADC", "ALOADC"} => arg < Len(program.refs)
  BY DEF UnaryOps, BinaryOps, RoomlessOps, DivideOps, FloatOps, CompareOps, LogicOps, BitOps
<1>8. Inst.op \in {"LOAD", "STORE", "GLOAD", "GSTORE"} => arg < MaxVar
  BY DEF UnaryOps, BinaryOps, RoomlessOps, DivideOps, FloatOps, CompareOps, LogicOps, BitOps
<1>9. Inst.op \in {"JMP", "JZ", "JNZ", "CALL"} => arg < size
  BY DEF UnaryOps, BinaryOps, RoomlessOps, DivideOps, FloatOps, CompareOps, LogicOps, BitOps
<1>10. (Inst.op = "CALL" => rsp < RetCap) /\ (Inst.op = "RET" => rsp >= 1)
  BY DEF UnaryOps, BinaryOps, RoomlessOps, DivideOps, FloatOps, CompareOps, LogicOps, BitOps
<1> QED
  BY <1>2, <1>3, <1>4, <1>5, <1>6, <1>7, <1>8, <1>9, <1>10

-----------------------------------------------------------------------------
(* Every opcode keeps every variable in its domain.                        *)

LEMMA InitType == Init => TypeOK
<1> SUFFICES ASSUME Init PROVE TypeOK
  OBVIOUS
<1>1. program \in Program /\ size \in Nat
  BY ProgramsAssumption DEF Init, Program, size
<1>2. stack \in [Slots -> Object] /\ sp \in 0 .. StackCap
  BY BlankType, SizeAssumption DEF Init
<1>3. return_stack \in [0 .. RetCap - 1 -> Nat] /\ rsp \in 0 .. RetCap
  BY SizeAssumption DEF Init
<1>4. /\ prev \in [FrameId -> FrameId \union {Junk}]
      /\ next \in [FrameId -> FrameId \union {Junk}]
      /\ local_vars \in [FrameId -> [Vars -> Object]]
      /\ global_vars \in [Vars -> Object]
      /\ frame \in FrameId /\ live \subseteq FrameId
  BY BlankType DEF Init
<1>5. ip \in 0 .. size + 1
  BY <1>1 DEF Init
<1>6. halted \in BOOLEAN
  BY DEF Init
<1> QED
  BY <1>1, <1>2, <1>3, <1>4, <1>5, <1>6 DEF Init, TypeOK

(* A slot below the capacity, and the slots the checks put in reach. *)
LEMMA StackTypes ==
  ASSUME TypeOK
  PROVE  /\ \A s \in 0 .. sp - 1 : s \in Slots /\ stack[s] \in Object
         /\ sp < StackCap => sp \in Slots
         /\ sp \in Nat /\ StackCap \in Nat
  BY SizeAssumption DEF TypeOK, Slots

(* Writing a word, or both halves of an address, into a slot leaves an     *)
(* object there.                                                           *)
LEMMA WriteWord ==
  ASSUME TypeOK, NEW s \in Slots, NEW l \in Word
  PROVE  [stack EXCEPT ![s].lo = l] \in [Slots -> Object]
  BY DEF TypeOK, Object

LEMMA WriteAddress ==
  ASSUME TypeOK, NEW s \in Slots, NEW l \in Word, NEW h \in High
  PROVE  [stack EXCEPT ![s].lo = l, ![s].hi = h] \in [Slots -> Object]
  BY DEF TypeOK, Object

LEMMA TrapType ==
  ASSUME TypeOK, Trap
  PROVE  TypeOK'
<1>1. Fault \in Exception
  BY FaultType DEF Trap
<1> QED
  BY <1>1 DEF Trap, Raise, TypeOK, operands, returns, frames, size

LEMMA CrashType ==
  ASSUME TypeOK, Crash
  PROVE  TypeOK'
  BY DEF Crash, TypeOK, operands, returns, frames, size

LEMMA StopType ==
  ASSUME TypeOK, Stop
  PROVE  TypeOK'
  BY DEF Stop, TypeOK, operands, returns, size

(* An opcode that advances keeps the types if what it writes is typed. *)
LEMMA AdvanceType ==
  ASSUME TypeOK, Looping, Advance,
         stack' \in [Slots -> Object], sp' \in 0 .. StackCap,
         local_vars' \in [FrameId -> [Vars -> Object]],
         global_vars' \in [Vars -> Object],
         UNCHANGED <<frame, live, prev, next>>
  PROVE  TypeOK'
<1>1. ip + 1 \in 0 .. size + 1
  BY InstType DEF TypeOK, Looping
<1>2. UNCHANGED size
  BY DEF Advance, size
<1> QED
  BY <1>1, <1>2 DEF Advance, TypeOK, returns

LEMMA AddressType == \A r \in Nat : AddrLo(r) \in Word /\ AddrHi(r) \in High
<1> TAKE r \in Nat
<1>1. AddrLo(r) \in Word /\ (DataHi + (DataLo + r) \div W) % W \in Word
  BY ModWord, WordNat, HighWord, DataAssumption DEF AddrLo
<1> QED
  BY <1>1 DEF AddrHi, High

(* The operands of a program, and the offsets of its constants. *)
LEMMA RefType ==
  ASSUME TypeOK, arg < Len(program.refs)
  PROVE  program.refs[arg + 1] \in Nat
<1>1. program.refs \in Seq(Nat) /\ arg \in Nat
  BY InstType DEF TypeOK, Program
<1> QED
  BY <1>1

LEMMA PushStepType ==
  ASSUME TypeOK, Looping, Advance, sp < StackCap, NEW o \in Object, Push(o),
         UNCHANGED <<frames, global_vars>>
  PROVE  TypeOK'
<1>1. stack' \in [Slots -> Object] /\ sp' \in 0 .. StackCap
  <2>1. [stack EXCEPT ![sp] = o] \in [Slots -> Object]
    BY DEF TypeOK
  <2> QED
    BY <2>1, StackTypes DEF Push, TypeOK
<1> QED
  BY <1>1, AdvanceType DEF TypeOK, frames

LEMMA PopStepType ==
  ASSUME TypeOK, Looping, Advance, sp >= 1, Pop,
         local_vars' \in [FrameId -> [Vars -> Object]],
         global_vars' \in [Vars -> Object],
         UNCHANGED <<frame, live, prev, next>>
  PROVE  TypeOK'
<1>1. stack' \in [Slots -> Object] /\ sp' \in 0 .. StackCap
  BY StackTypes DEF Pop, TypeOK
<1> QED
  BY <1>1, AdvanceType

(* An opcode that leaves the stack pointer alone, or moves it by one. *)
LEMMA RewriteStepType ==
  ASSUME TypeOK, Looping, Advance, stack' \in [Slots -> Object], sp' \in 0 .. StackCap,
         UNCHANGED <<frames, global_vars>>
  PROVE  TypeOK'
  BY AdvanceType DEF TypeOK, frames

LEMMA GotoType ==
  ASSUME TypeOK, NEW a \in 0 .. size + 1, Goto(a),
         stack' \in [Slots -> Object], sp' \in 0 .. StackCap,
         return_stack' \in [0 .. RetCap - 1 -> Nat], rsp' \in 0 .. RetCap,
         frame' \in FrameId, live' \subseteq FrameId,
         prev' \in [FrameId -> FrameId \union {Junk}],
         next' \in [FrameId -> FrameId \union {Junk}],
         local_vars' \in [FrameId -> [Vars -> Object]],
         UNCHANGED global_vars
  PROVE  TypeOK'
<1>1. UNCHANGED size
  BY DEF Goto, size
<1> QED
  BY <1>1 DEF Goto, TypeOK

(* The opcodes other than OP_CALL and OP_RET, whose types rest on the      *)
(* frame chain.                                                            *)
LEMMA OpcodeType ==
  ASSUME TypeOK, OpcodeStep, ~Call, ~Ret
  PROVE  TypeOK'
<1>1. CASE Nop
  BY <1>1, RewriteStepType DEF Nop, Exec, TypeOK, operands
<1>2. CASE Halt
  <2>1. ip + 1 \in 0 .. size + 1
    BY <1>2, InstType DEF Halt, Exec, TypeOK, Looping
  <2>2. UNCHANGED size
    BY <1>2 DEF Halt, size
  <2> QED
    BY <1>2, <2>1, <2>2 DEF Halt, TypeOK, operands, returns, frames
<1>3. CASE PushOperand
  BY <1>3, Checked, InstType, PushStepType DEF PushOperand, Exec
<1>4. CASE PopOperand
  BY <1>4, Checked, PopStepType DEF PopOperand, Exec, TypeOK, frames
<1>5. CASE BinaryOp
  <2>1. sp >= 2 /\ sp - 2 \in Slots /\ sp - 1 \in 0 .. StackCap /\ Looping
    BY <1>5, Checked, SizeAssumption DEF BinaryOp, Exec, TypeOK, Slots
  <2>2. CASE Crash
    BY <2>2, CrashType
  <2>3. CASE Advance /\ sp' = sp - 1 /\ UNCHANGED <<frames, global_vars>>
               /\ \E w \in Binary(Inst.op, Second.lo, Top.lo) :
                    stack' = [stack EXCEPT ![sp - 2].lo = w]
    <3>1. stack' \in [Slots -> Object]
      BY <2>1, <2>3, WriteWord DEF Binary
    <3> QED
      BY <2>1, <2>3, <3>1, RewriteStepType
  <2> QED
    BY <1>5, <2>2, <2>3 DEF BinaryOp
<1>6. CASE UnaryOp
  <2>1. sp >= 1 /\ sp - 1 \in Slots
    BY <1>6, Checked, SizeAssumption DEF UnaryOp, Exec, TypeOK, Slots
  <2>2. stack' \in [Slots -> Object]
    BY <1>6, <2>1, WriteWord DEF UnaryOp, Unary
  <2> QED
    BY <1>6, <2>2, RewriteStepType DEF UnaryOp, Exec, TypeOK
<1>7. CASE Dup
  <2>1. sp >= 1 /\ sp < StackCap /\ sp \in Slots /\ sp - 1 \in Slots /\ sp + 1 \in 0 .. StackCap
    BY <1>7, Checked, SizeAssumption DEF Dup, Exec, TypeOK, Slots
  <2>2. Top.lo \in Word
    BY <2>1 DEF TypeOK, Top, Object
  <2>3. stack' \in [Slots -> Object]
    BY <1>7, <2>1, <2>2, WriteWord DEF Dup
  <2> QED
    BY <1>7, <2>1, <2>3, RewriteStepType DEF Dup, Exec
<1>8. CASE Cln
  <2>1. sp < StackCap /\ stack[sp - arg - 1] \in Object
    BY <1>8, Checked, StackTypes, InstType DEF Cln, Exec
  <2> QED
    BY <1>8, <2>1, PushStepType DEF Cln, Exec
<1>9. CASE Swap
  <2>1. sp - 1 \in 0 .. sp - 1 /\ sp - arg - 1 \in 0 .. sp - 1
    BY <1>9, Checked, StackTypes, InstType DEF Swap, Exec
  <2>2. stack' \in [Slots -> Object]
    BY <1>9, <2>1, StackTypes DEF Swap, Top, TypeOK
  <2> QED
    BY <1>9, <2>2, RewriteStepType DEF Swap, Exec, TypeOK
<1>10. CASE LoadC
  <2>1. sp \in Slots /\ sp + 1 \in 0 .. StackCap
    BY <1>10, Checked, StackTypes DEF LoadC, Exec
  <2>2. stack' \in [Slots -> Object]
    BY <1>10, <2>1, WriteWord DEF LoadC, WordAt
  <2> QED
    BY <1>10, <2>1, <2>2, RewriteStepType DEF LoadC, Exec
<1>11. CASE ALoadC
  <2>1. sp \in Slots /\ sp + 1 \in 0 .. StackCap /\ arg < Len(program.refs)
    BY <1>11, Checked, StackTypes DEF ALoadC, Exec
  <2>2. stack' \in [Slots -> Object]
    <3> DEFINE r == program.refs[arg + 1]
    <3>1. AddrLo(r) \in Word /\ AddrHi(r) \in High
      BY <2>1, RefType, AddressType
    <3>2. stack' = [stack EXCEPT ![sp].lo = AddrLo(r), ![sp].hi = AddrHi(r)]
      BY <1>11 DEF ALoadC
    <3> QED
      BY <2>1, <3>1, <3>2, WriteAddress
  <2> QED
    BY <1>11, <2>1, <2>2, RewriteStepType DEF ALoadC, Exec
<1>12. CASE Puts
  BY <1>12, Checked, PopStepType, CrashType DEF Puts, Exec, TypeOK, frames
<1>13. CASE Load
  <2>1. sp < StackCap /\ local_vars[frame][arg] \in Object
    BY <1>13, Checked, InstType, SizeAssumption DEF Load, Exec, TypeOK, Vars
  <2> QED
    BY <1>13, <2>1, PushStepType DEF Load, Exec
<1>14. CASE Store
  <2>1. sp >= 1 /\ arg \in Vars /\ Top \in Object
    BY <1>14, Checked, StackTypes, InstType, SizeAssumption DEF Store, Exec, Vars, Top
  <2>2. local_vars' \in [FrameId -> [Vars -> Object]]
    BY <1>14, <2>1 DEF Store, TypeOK
  <2> QED
    BY <1>14, <2>1, <2>2, PopStepType DEF Store, Exec, TypeOK
<1>15. CASE GLoad
  <2>1. sp < StackCap /\ global_vars[arg] \in Object
    BY <1>15, Checked, InstType, SizeAssumption DEF GLoad, Exec, TypeOK, Vars
  <2> QED
    BY <1>15, <2>1, PushStepType DEF GLoad, Exec
<1>16. CASE GStore
  <2>1. sp >= 1 /\ arg \in Vars /\ Top \in Object
    BY <1>16, Checked, StackTypes, InstType, SizeAssumption DEF GStore, Exec, Vars, Top
  <2>2. global_vars' \in [Vars -> Object]
    BY <1>16, <2>1 DEF GStore, TypeOK
  <2> QED
    BY <1>16, <2>1, <2>2, PopStepType DEF GStore, Exec, TypeOK, frames
<1>17. CASE Jump
  <2>1. arg \in 0 .. size + 1
    BY <1>17, Checked, InstType DEF Jump, Exec
  <2> QED
    BY <1>17, <2>1, GotoType DEF Jump, TypeOK, operands, returns, frames
<1>18. CASE Branch
  <2>1. arg \in 0 .. size + 1 /\ ip + 1 \in 0 .. size + 1 /\ sp - 1 \in 0 .. StackCap
    BY <1>18, Checked, InstType, StackTypes DEF Branch, Exec, Looping, TypeOK
  <2> DEFINE a == IF (Top.lo = 0) = (Inst.op = "JZ") THEN arg ELSE ip + 1
  <2>2. a \in 0 .. size + 1 /\ Goto(a)
    BY <1>18, <2>1 DEF Branch
  <2> HIDE DEF a
  <2> QED
    BY <1>18, <2>1, <2>2, GotoType DEF Branch, Pop, TypeOK, returns, frames
<1> QED
  BY <1>1, <1>2, <1>3, <1>4, <1>5, <1>6, <1>7, <1>8, <1>9, <1>10, <1>11, <1>12, <1>13,
     <1>14, <1>15, <1>16, <1>17, <1>18 DEF OpcodeStep

-----------------------------------------------------------------------------
(* The frame list and the return stack.                                    *)

(* TypeOK alone is not inductive: OP_RET goes where the return stack says  *)
(* and to the frame prev points to, and only the other two parts say that  *)
(* both were written by an OP_CALL.                                        *)
IInv == TypeOK /\ FrameChain /\ ReturnsBehindCalls

LEMMA InitInv == Init => IInv
<1> SUFFICES ASSUME Init PROVE IInv
  OBVIOUS
<1>1. TypeOK
  BY InitType
<1>2. FrameChain
  <2> DEFINE c == [i \in 0 .. rsp |-> frame]
  <2>1. rsp = 0 /\ status = "running" /\ frame \in FrameId /\ live = {frame}
    BY DEF Init
  <2>2. c \in [0 .. rsp -> FrameId] /\ IsChain(c)
    BY <2>1 DEF IsChain
  <2> QED
    BY <2>2 DEF FrameChain
<1>3. ReturnsBehindCalls
  BY DEF Init, ReturnsBehindCalls
<1> QED
  BY <1>1, <1>2, <1>3 DEF IInv

(* The steps that neither call nor return. *)
LEMMA ChainKept ==
  ASSUME FrameChain, status = "running", status' # "stopped",
         UNCHANGED <<rsp, frame, live, prev, next>>
  PROVE  FrameChain'
<1>1. PICK c \in [0 .. rsp -> FrameId] : IsChain(c)
  BY DEF FrameChain
<1>2. IsChain(c)'
  BY <1>1 DEF IsChain
<1> QED
  BY <1>1, <1>2 DEF FrameChain

LEMMA ReturnsKept ==
  ASSUME ReturnsBehindCalls, UNCHANGED <<program, returns>>
  PROVE  ReturnsBehindCalls'
  BY DEF ReturnsBehindCalls, returns, size

LEMMA KeptSteps ==
  ASSUME TypeOK, Trap \/ (OpcodeStep /\ ~Call /\ ~Ret)
  PROVE  /\ status = "running" /\ status' # "stopped"
         /\ UNCHANGED <<program, returns, frame, live, prev, next>>
<1>1. CASE Trap
  BY <1>1, FaultType DEF Trap, Raise, Looping, returns, frames, Exception
<1>2. CASE Nop \/ Halt \/ PushOperand \/ PopOperand \/ Load \/ Store \/ GLoad \/ GStore
  BY <1>2 DEF Nop, Halt, PushOperand, PopOperand, Load, Store, GLoad, GStore, Exec, Looping,
              Advance, frames
<1>3. CASE UnaryOp \/ Dup \/ Cln \/ Swap \/ LoadC \/ ALoadC \/ Jump \/ Branch
  BY <1>3 DEF UnaryOp, Dup, Cln, Swap, LoadC, ALoadC, Jump, Branch, Exec, Looping,
              Advance, Goto, frames
<1>4. CASE BinaryOp \/ Puts
  BY <1>4 DEF BinaryOp, Puts, Exec, Looping, Advance, Crash, frames
<1> QED
  BY <1>1, <1>2, <1>3, <1>4 DEF OpcodeStep

(* An instruction that is not OP_NOP is one of the program's. *)
LEMMA InCode ==
  ASSUME TypeOK, Looping, Inst.op # "NOP"
  PROVE  ip \in Nat /\ ip + 1 \in 1 .. size /\ program.code[ip + 1] = Inst
  BY InstType DEF TypeOK, Looping, Inst, NopInstr

LEMMA CallInv ==
  ASSUME IInv, Call
  PROVE  IInv'
<1> USE DEF IInv
<1>1. /\ rsp \in 0 .. RetCap - 1 /\ arg \in 0 .. size + 1
      /\ ip \in Nat /\ ip + 1 \in 1 .. size /\ program.code[ip + 1] = Inst /\ Inst.op = "CALL"
      /\ status = "running" /\ UNCHANGED <<program, size, status>>
  <2>1. TypeOK /\ Looping /\ Inst.op = "CALL" /\ Fault = "OK" /\ Goto(arg)
    BY DEF Call, Exec
  <2>2. rsp \in 0 .. RetCap - 1 /\ arg \in 0 .. size + 1
    BY <2>1, Checked, InstType, SizeAssumption DEF TypeOK
  <2>3. ip \in Nat /\ ip + 1 \in 1 .. size /\ program.code[ip + 1] = Inst
    BY <2>1, InCode
  <2>4. status = "running" /\ UNCHANGED <<program, size, status>>
    BY <2>1 DEF Goto, Looping, size
  <2> QED
    BY <2>1, <2>2, <2>3, <2>4
<1>2. PICK f \in FrameId \ live : NextFrame(f)
  BY DEF Call
<1>3. PICK c \in [0 .. rsp -> FrameId] : IsChain(c)
  BY DEF FrameChain
<1>4. rsp' = rsp + 1 /\ return_stack' = [return_stack EXCEPT ![rsp] = ip + 1]
  BY DEF Call, ReturnAddress
<1>5. TypeOK'
  <2>1. return_stack' \in [0 .. RetCap - 1 -> Nat] /\ rsp' \in 0 .. RetCap
    BY <1>1, <1>4, SizeAssumption DEF TypeOK
  <2>2. /\ frame' \in FrameId /\ live' \subseteq FrameId
        /\ prev' \in [FrameId -> FrameId \union {Junk}]
        /\ next' \in [FrameId -> FrameId \union {Junk}]
        /\ local_vars' \in [FrameId -> [Vars -> Object]]
    BY <1>2, BlankType DEF NextFrame, TypeOK
  <2>3. Goto(arg) /\ UNCHANGED <<operands, global_vars>>
    BY DEF Call
  <2>4. stack' \in [Slots -> Object] /\ sp' \in 0 .. StackCap
    BY <2>3 DEF operands, TypeOK
  <2> QED
    BY <1>1, <2>1, <2>2, <2>3, <2>4, GotoType
<1>6. FrameChain'
  <2> DEFINE d == [i \in 0 .. rsp' |-> IF i = rsp + 1 THEN f ELSE c[i]]
  <2>1. d \in [0 .. rsp' -> FrameId] /\ rsp \in Nat
    BY <1>1, <1>3, <1>4 DEF TypeOK
  <2>2. live = {c[i] : i \in 0 .. rsp} /\ c[rsp] = frame /\ \A i \in 0 .. rsp : c[i] # f
    BY <1>1, <1>2, <1>3, <2>1 DEF IsChain
  <2>3. d[rsp'] = frame'
    BY <1>2, <1>4, <2>1 DEF NextFrame
  <2>4. \A i, j \in 0 .. rsp' : d[i] = d[j] => i = j
    BY <1>3, <1>4, <2>1, <2>2 DEF IsChain
  <2>5. \A i \in 0 .. rsp' - 1 : next'[d[i]] = d[i + 1] /\ prev'[d[i + 1]] = d[i]
    <3> SUFFICES ASSUME NEW i \in 0 .. rsp' - 1
                 PROVE  next'[d[i]] = d[i + 1] /\ prev'[d[i + 1]] = d[i]
      OBVIOUS
    <3>0. i \in 0 .. rsp
      BY <1>4, <2>1
    <3>1. CASE i = rsp
      <4>1. d[i] = frame /\ d[i + 1] = f /\ frame # f /\ frame \in FrameId
        BY <3>1, <1>4, <2>1, <2>2 DEF TypeOK
      <4> QED
        BY <4>1, <1>2 DEF NextFrame, TypeOK
    <3>2. CASE i # rsp
      <4>1. i \in 0 .. rsp - 1 /\ i + 1 \in 0 .. rsp /\ d[i] = c[i] /\ d[i + 1] = c[i + 1]
        BY <3>0, <3>2, <1>4, <2>1
      <4>2. next[c[i]] = c[i + 1] /\ prev[c[i + 1]] = c[i] /\ c[i] # c[rsp]
        BY <3>2, <4>1, <1>3, <2>1 DEF IsChain
      <4>3. c[i] \in FrameId /\ c[i + 1] \in FrameId /\ c[i] # frame /\ c[i] # f /\ c[i + 1] # f
        BY <4>1, <4>2, <2>1, <2>2, <1>3
      <4> QED
        BY <4>1, <4>2, <4>3, <1>2 DEF NextFrame, TypeOK
    <3> QED
      BY <3>1, <3>2
  <2>6. live' = {d[i] : i \in 0 .. rsp'}
    <3>1. live' = live \union {f}
      BY <1>2 DEF NextFrame
    <3>2. {d[i] : i \in 0 .. rsp'} = {c[i] : i \in 0 .. rsp} \union {f}
      <4>1. \A i \in 0 .. rsp : i \in 0 .. rsp' /\ d[i] = c[i]
        BY <1>4, <2>1
      <4>2. rsp + 1 \in 0 .. rsp' /\ d[rsp + 1] = f
        BY <1>4, <2>1
      <4>3. \A i \in 0 .. rsp' : i \in 0 .. rsp \/ i = rsp + 1
        BY <1>4, <2>1
      <4> HIDE DEF d
      <4> QED
        BY <4>1, <4>2, <4>3
    <3> QED
      BY <3>1, <3>2, <2>2
  <2>7. status' # "stopped"
    BY <1>1
  <2> HIDE DEF d
  <2>8. live' = {d[i] : i \in 0 .. rsp'} \ (IF status' = "stopped" THEN {frame'} ELSE {})
    BY <2>6, <2>7
  <2> QED
    BY <2>1, <2>3, <2>4, <2>5, <2>8, Zenon DEF FrameChain, IsChain
<1>7. ReturnsBehindCalls'
  BY <1>1, <1>4 DEF ReturnsBehindCalls, TypeOK
<1> QED
  BY <1>5, <1>6, <1>7

LEMMA RetInv ==
  ASSUME IInv, Ret
  PROVE  IInv'
<1> USE DEF IInv
<1>1. /\ rsp \in 1 .. RetCap /\ rsp \in Nat
      /\ status = "running" /\ UNCHANGED <<program, size, status, return_stack>>
      /\ rsp' = rsp - 1
  BY Checked, SizeAssumption DEF Ret, Exec, Looping, TypeOK, Goto, size
<1>2. PICK c \in [0 .. rsp -> FrameId] : IsChain(c)
  BY DEF FrameChain
<1>3. /\ c[rsp] = frame /\ c[rsp - 1] \in FrameId
      /\ prev[frame] = c[rsp - 1] /\ next[c[rsp - 1]] = frame
      /\ live = {c[i] : i \in 0 .. rsp}
  BY <1>1, <1>2 DEF IsChain
<1>4. /\ frame' = c[rsp - 1] /\ live' = live \ {c[rsp]}
      /\ UNCHANGED <<prev, next, local_vars>>
  BY <1>3 DEF Ret, PrevFrame
<1>5. TypeOK'
  <2>1. return_stack[rsp - 1] \in 0 .. size + 1
    BY <1>1, InstType DEF ReturnsBehindCalls
  <2>2. Goto(return_stack[rsp - 1]) /\ UNCHANGED <<operands, global_vars>>
    BY DEF Ret
  <2>3. /\ stack' \in [Slots -> Object] /\ sp' \in 0 .. StackCap
        /\ return_stack' \in [0 .. RetCap - 1 -> Nat] /\ rsp' \in 0 .. RetCap
    BY <1>1, <2>2, SizeAssumption DEF operands, TypeOK
  <2>4. /\ frame' \in FrameId /\ live' \subseteq FrameId
        /\ prev' \in [FrameId -> FrameId \union {Junk}]
        /\ next' \in [FrameId -> FrameId \union {Junk}]
        /\ local_vars' \in [FrameId -> [Vars -> Object]]
    BY <1>3, <1>4 DEF TypeOK
  <2> QED
    BY <2>1, <2>2, <2>3, <2>4, GotoType
<1>6. FrameChain'
  <2> DEFINE d == [i \in 0 .. rsp - 1 |-> c[i]]
  <2>1. /\ \A i \in 0 .. rsp - 1 : i \in 0 .. rsp /\ d[i] = c[i]
        /\ \A i \in 0 .. rsp : i \in 0 .. rsp - 1 \/ i = rsp
        /\ rsp - 1 \in 0 .. rsp - 1
    BY <1>1
  <2>2. d \in [0 .. rsp' -> FrameId]
    BY <1>1, <1>2
  <2> HIDE DEF d
  <2>3. d[rsp'] = frame'
    BY <1>1, <1>4, <2>1
  <2>4. \A i, j \in 0 .. rsp' : d[i] = d[j] => i = j
    BY <1>1, <1>2, <2>1 DEF IsChain
  <2>5. \A i \in 0 .. rsp' - 1 : next'[d[i]] = d[i + 1] /\ prev'[d[i + 1]] = d[i]
    <3> SUFFICES ASSUME NEW i \in 0 .. rsp' - 1
                 PROVE  next'[d[i]] = d[i + 1] /\ prev'[d[i + 1]] = d[i]
      OBVIOUS
    <3>1. i \in 0 .. rsp - 1 /\ i + 1 \in 0 .. rsp - 1
      BY <1>1
    <3> QED
      BY <3>1, <1>2, <1>4, <2>1 DEF IsChain
  <2>6. live' = {d[i] : i \in 0 .. rsp'}
    <3>1. \A i \in 0 .. rsp - 1 : c[i] # c[rsp]
      BY <1>1, <1>2 DEF IsChain
    <3> QED
      BY <3>1, <1>1, <1>3, <1>4, <2>1
  <2>7. status' # "stopped"
    BY <1>1
  <2> QED
    BY <2>2, <2>3, <2>4, <2>5, <2>6, <2>7 DEF FrameChain, IsChain
<1>7. ReturnsBehindCalls'
  BY <1>1 DEF ReturnsBehindCalls
<1> QED
  BY <1>5, <1>6, <1>7

LEMMA StopInv ==
  ASSUME IInv, Stop
  PROVE  IInv'
<1> USE DEF IInv
<1>1. TypeOK'
  BY StopType
<1>2. PICK c \in [0 .. rsp -> FrameId] : IsChain(c)
  BY DEF FrameChain
<1>3. IsChain(c)'
  BY <1>2 DEF IsChain, Stop, returns
<1>4. FrameChain'
  BY <1>2, <1>3 DEF FrameChain, Stop, returns
<1>5. ReturnsBehindCalls'
  BY ReturnsKept DEF Stop
<1> QED
  BY <1>1, <1>4, <1>5

LEMMA StepInv == IInv /\ [Next]_vars => IInv'
<1> SUFFICES ASSUME IInv, [Next]_vars PROVE IInv'
  OBVIOUS
<1>1. CASE Call
  BY <1>1, CallInv
<1>2. CASE Ret
  BY <1>2, RetInv
<1>3. CASE Stop
  BY <1>3, StopInv
<1>4. CASE Trap \/ (OpcodeStep /\ ~Call /\ ~Ret)
  <2>1. TypeOK'
    BY <1>4, TrapType, OpcodeType DEF IInv
  <2>2. FrameChain' /\ ReturnsBehindCalls'
    BY <1>4, KeptSteps, ChainKept, ReturnsKept DEF IInv, returns
  <2> QED
    BY <2>1, <2>2 DEF IInv
<1>5. CASE UNCHANGED vars
  <2>1. TypeOK'
    BY <1>5 DEF vars, IInv, TypeOK, operands, returns, frames, size
  <2>2. FrameChain'
    <3>1. PICK c \in [0 .. rsp -> FrameId] : IsChain(c)
      BY DEF IInv, FrameChain
    <3>2. IsChain(c)'
      BY <3>1, <1>5 DEF IsChain, vars, returns, frames
    <3> QED
      BY <3>1, <3>2, <1>5 DEF FrameChain, vars, returns
  <2>3. ReturnsBehindCalls'
    BY <1>5, ReturnsKept DEF vars, IInv
  <2> QED
    BY <2>1, <2>2, <2>3 DEF IInv
<1> QED
  BY <1>1, <1>2, <1>3, <1>4, <1>5 DEF Next

-----------------------------------------------------------------------------
(* Whole values.                                                           *)

(* The values of the program, as a set that no step changes: stating the   *)
(* invariant with a set keeps the proof of each step first-order.          *)
NamedObjects == {o \in Object : Named(o)}

WholeValues ==
  /\ \A s \in 0 .. sp - 1 : stack[s] \in NamedObjects
  /\ \A f \in live, v \in Vars : local_vars[f][v] \in NamedObjects
  /\ \A v \in Vars : global_vars[v] \in NamedObjects

LEMMA NamedKept ==
  ASSUME UNCHANGED program
  PROVE  UNCHANGED <<NamedObjects, OnlyMoves>>
  BY DEF NamedObjects, Named, OnlyMoves, size

LEMMA NamedTyped ==
  ASSUME TypeOK
  PROVE  /\ Looping /\ Inst.op # "NOP" => Inst.arg \in NamedObjects
         /\ Blank \in NamedObjects
         /\ \A k \in 1 .. Len(program.refs), o \in Object :
              o.lo = AddrLo(program.refs[k]) /\ o.hi = AddrHi(program.refs[k])
                => o \in NamedObjects
  BY InstType, InCode, BlankType DEF NamedObjects, Named, Blank

(* What such a program fetches. *)
LEMMA OnlyMovesFetched ==
  ASSUME TypeOK, OnlyMoves, Looping
  PROVE  Inst.op \in MoveOps
  BY InstType, InCode DEF OnlyMoves, MoveOps

LEMMA WholeInit == Init /\ OnlyMoves => WholeValues
  <1> SUFFICES ASSUME Init PROVE WholeValues
    OBVIOUS
  <1>1. Blank \in NamedObjects
    BY InitType, NamedTyped
  <1> QED
    BY <1>1 DEF Init, WholeValues, NoVars

LEMMA WholePush ==
  ASSUME TypeOK, WholeValues, NEW o \in NamedObjects, Push(o), sp < StackCap,
         UNCHANGED <<program, frames, global_vars>>
  PROVE  WholeValues'
<1>1. \A s \in 0 .. sp' - 1 : stack'[s] \in NamedObjects
  BY StackTypes DEF Push, WholeValues, TypeOK
<1> QED
  BY <1>1, NamedKept DEF WholeValues, frames

LEMMA WholePop ==
  ASSUME TypeOK, WholeValues, Pop, sp >= 1, UNCHANGED <<program, frames, global_vars>>
  PROVE  WholeValues'
<1>1. \A s \in 0 .. sp' - 1 : stack'[s] \in NamedObjects
  BY StackTypes DEF Pop, WholeValues
<1> QED
  BY <1>1, NamedKept DEF WholeValues, frames

LEMMA ProgramKept == Next => UNCHANGED program
  BY DEF Next, Trap, Stop, Raise, OpcodeStep, Nop, Halt, PushOperand, PopOperand, BinaryOp,
         UnaryOp, Dup, Cln, Swap, LoadC, ALoadC, Puts, Load, Store, GLoad, GStore, Jump,
         Branch, Call, Ret, Advance, Goto, Crash

LEMMA WholeStep ==
  ASSUME IInv, OnlyMoves, WholeValues, Next
  PROVE  WholeValues'
<1> USE DEF IInv
<1>0. UNCHANGED program
  BY ProgramKept
<1> USE NamedKept, <1>0
<1>1. CASE Trap \/ Nop \/ Halt \/ Jump
  BY <1>1 DEF Trap, Raise, Nop, Halt, Jump, WholeValues, operands, frames
<1>2. CASE PushOperand
  BY <1>2, Checked, NamedTyped, WholePush DEF PushOperand, Exec
<1>3. CASE PopOperand \/ Branch
  BY <1>3, Checked, WholePop DEF PopOperand, Branch, Exec
<1>4. CASE BinaryOp \/ UnaryOp \/ Dup \/ LoadC
  BY <1>4, OnlyMovesFetched
     DEF BinaryOp, UnaryOp, Dup, LoadC, Exec, MoveOps, BinaryOps, UnaryOps, DivideOps,
         FloatOps, CompareOps, LogicOps, BitOps
<1>5. CASE Cln
  <2>1. stack[sp - arg - 1] \in NamedObjects /\ sp < StackCap
    BY <1>5, Checked, StackTypes, InstType DEF Cln, Exec, WholeValues
  <2> QED
    BY <1>5, <2>1, WholePush DEF Cln
<1>6. CASE Swap
  <2>1. sp - 1 \in 0 .. sp - 1 /\ sp - arg - 1 \in 0 .. sp - 1
    BY <1>6, Checked, StackTypes, InstType DEF Swap, Exec
  <2>2. \A s \in 0 .. sp - 1 : stack'[s] \in NamedObjects
    BY <1>6, <2>1, StackTypes DEF Swap, Top, WholeValues, TypeOK
  <2> QED
    BY <1>6, <2>2 DEF Swap, WholeValues, frames
<1>7. CASE ALoadC
  <2> DEFINE r == program.refs[arg + 1]
             o == [stack[sp] EXCEPT !.lo = AddrLo(r), !.hi = AddrHi(r)]
  <2>1. sp \in Slots /\ sp < StackCap /\ arg < Len(program.refs) /\ arg \in Nat
          /\ Len(program.refs) \in Nat
    <3>1. sp < StackCap /\ arg < Len(program.refs)
      BY <1>7, Checked DEF ALoadC, Exec
    <3>2. program.refs \in Seq(Nat)
      BY DEF TypeOK, Program
    <3> QED
      BY <3>1, <3>2, StackTypes, InstType
  <2>2. r \in Nat /\ AddrLo(r) \in Word /\ AddrHi(r) \in High
    BY <2>1, RefType, AddressType
  <2>3. stack[sp] \in Object
    BY <2>1 DEF TypeOK
  <2>4. o \in Object /\ o.lo = AddrLo(r) /\ o.hi = AddrHi(r)
    BY <2>2, <2>3 DEF Object
  <2>5. Push(o)
    BY <1>7, <2>1, <2>3 DEF ALoadC, Push, TypeOK
  <2>6. o \in NamedObjects
    <3> HIDE DEF o
    <3>1. arg + 1 \in 1 .. Len(program.refs)
      BY <2>1
    <3> QED
      BY <3>1, <2>4, NamedTyped
  <2> HIDE DEF o
  <2> QED
    BY <1>7, <2>1, <2>5, <2>6, WholePush DEF ALoadC
<1>8. CASE Puts
  BY <1>8, Checked, WholePop DEF Puts, Exec, Crash, WholeValues, operands, frames
<1>9. CASE Load
  <2>1. local_vars[frame][arg] \in NamedObjects /\ sp < StackCap
    <3>1. arg \in Vars /\ sp < StackCap
      BY <1>9, Checked, InstType, SizeAssumption DEF Load, Exec, Vars
    <3>2. frame \in live
      BY <1>9 DEF FrameChain, IsChain, Load, Exec, Looping, TypeOK
    <3> QED
      BY <3>1, <3>2 DEF WholeValues
  <2> QED
    BY <1>9, <2>1, WholePush DEF Load
<1>10. CASE Store
  <2>1. arg \in Vars /\ Top \in NamedObjects /\ sp >= 1
    BY <1>10, Checked, StackTypes, InstType, SizeAssumption DEF Store, Exec, Vars, Top, WholeValues
  <2>2. \A f \in live', v \in Vars : local_vars'[f][v] \in NamedObjects
    BY <1>10, <2>1 DEF Store, WholeValues, TypeOK
  <2>3. \A s \in 0 .. sp' - 1 : stack'[s] \in NamedObjects
    BY <1>10, StackTypes DEF Store, Pop, WholeValues
  <2> QED
    BY <1>10, <2>2, <2>3 DEF Store, WholeValues
<1>11. CASE GLoad
  <2>1. global_vars[arg] \in NamedObjects /\ sp < StackCap
    BY <1>11, Checked, InstType, SizeAssumption DEF GLoad, Exec, Vars, WholeValues
  <2> QED
    BY <1>11, <2>1, WholePush DEF GLoad
<1>12. CASE GStore
  <2>1. arg \in Vars /\ Top \in NamedObjects /\ sp >= 1
    BY <1>12, Checked, StackTypes, InstType, SizeAssumption DEF GStore, Exec, Vars, Top, WholeValues
  <2>2. \A v \in Vars : global_vars'[v] \in NamedObjects
    BY <1>12, <2>1 DEF GStore, WholeValues, TypeOK
  <2>3. \A s \in 0 .. sp' - 1 : stack'[s] \in NamedObjects
    BY <1>12, StackTypes DEF GStore, Pop, WholeValues
  <2> QED
    BY <1>12, <2>2, <2>3 DEF GStore, WholeValues, frames
<1>13. CASE Call
  <2>1. PICK f \in FrameId : NextFrame(f)
    BY <1>13 DEF Call
  <2>2. \A g \in live', v \in Vars : local_vars'[g][v] \in NamedObjects
    BY <2>1, NamedTyped DEF NextFrame, WholeValues, TypeOK, NoVars
  <2> QED
    BY <1>13, <2>2 DEF Call, WholeValues, operands
<1>14. CASE Ret
  BY <1>14 DEF Ret, PrevFrame, WholeValues, operands
<1>15. CASE Stop
  BY <1>15 DEF Stop, WholeValues, operands
<1> QED
  BY <1>1, <1>2, <1>3, <1>4, <1>5, <1>6, <1>7, <1>8, <1>9, <1>10, <1>11, <1>12, <1>13,
     <1>14, <1>15 DEF Next, OpcodeStep

-----------------------------------------------------------------------------
(* The results.                                                            *)

(* The inductive invariant holds in every reachable state. *)
THEOREM Invariance == Spec => []IInv
  BY InitInv, StepInv, PTL DEF Spec

(* No program drives a stack pointer out of its array, the instruction     *)
(* pointer out of the code, or a variable access out of a frame.           *)
THEOREM TypeCorrect == Spec => []TypeOK
<1>1. IInv => TypeOK
  BY DEF IInv
<1> QED
  BY <1>1, Invariance, PTL

(* For every program, OP_CALL and OP_RET keep the frame list linked, in    *)
(* step with the return stack and free of leaked or dangling frames.       *)
THEOREM FramesCorrect == Spec => []FrameChain
<1>1. IInv => FrameChain
  BY DEF IInv
<1> QED
  BY <1>1, Invariance, PTL

(* For every program, OP_RET only ever goes behind an OP_CALL. *)
THEOREM ReturnsCorrect == Spec => []ReturnsBehindCalls
<1>1. IInv => ReturnsBehindCalls
  BY DEF IInv
<1> QED
  BY <1>1, Invariance, PTL

(* A program that only moves values never sees a torn one, so an address   *)
(* it takes from the constant table is intact wherever it ends up.         *)
THEOREM ValuesWhole == Spec => []NoTornValues
<1> DEFINE Inv == IInv /\ (OnlyMoves => WholeValues)
<1>1. Init => Inv
  BY InitInv, WholeInit
<1>2. Inv /\ [Next]_vars => Inv'
  <2> SUFFICES ASSUME Inv, [Next]_vars PROVE Inv'
    OBVIOUS
  <2>1. CASE Next
    BY <2>1, StepInv, WholeStep, ProgramKept, NamedKept
  <2>2. CASE UNCHANGED vars
    BY <2>2, StepInv, NamedKept DEF vars, WholeValues, operands, frames
  <2> QED
    BY <2>1, <2>2
<1>3. Inv => NoTornValues
  BY DEF NoTornValues, WholeValues, NamedObjects
<1> QED
  BY <1>1, <1>2, <1>3, PTL DEF Spec

-----------------------------------------------------------------------------
(* Walking the frame list back.                                            *)

(* The frames found from fr by n steps through the pointers pv. *)
Walk(n, fr, pv) ==
  CHOOSE f : f = [i \in 0 .. n |-> IF i = n THEN fr ELSE pv[f[i + 1]]]

IsWalk(g, n, fr, pv) == g = [i \in 0 .. n |-> IF i = n THEN fr ELSE pv[g[i + 1]]]

LEMMA WalkUnique ==
  ASSUME NEW n \in Nat, NEW fr, NEW pv, NEW g, NEW h,
         IsWalk(g, n, fr, pv), IsWalk(h, n, fr, pv)
  PROVE  g = h
<1> DEFINE T == {k \in 0 .. n : g[n - k] # h[n - k]}
<1>1. T = {}
  <2> SUFFICES ASSUME T # {} PROVE FALSE
    OBVIOUS
  <2>1. PICK k \in T : \A j \in T : k <= j
    <3>1. T \subseteq Nat
      OBVIOUS
    <3> HIDE DEF T
    <3> QED
      BY <3>1, LeastNat
  <2>2. k \in 0 .. n /\ g[n - k] # h[n - k]
    BY <2>1
  <2>3. CASE k = 0
    BY <2>2, <2>3 DEF IsWalk
  <2>4. CASE k # 0
    <3>1. k - 1 \in 0 .. n /\ k - 1 \notin T /\ n - (k - 1) = (n - k) + 1
      BY <2>1, <2>2, <2>4
    <3>2. g[(n - k) + 1] = h[(n - k) + 1]
      BY <3>1
    <3>3. n - k \in 0 .. n /\ n - k # n
      BY <2>2, <2>4
    <3>4. g[n - k] = pv[g[(n - k) + 1]] /\ h[n - k] = pv[h[(n - k) + 1]]
      BY <3>3 DEF IsWalk
    <3> QED
      BY <2>2, <3>2, <3>4
  <2> QED
    BY <2>3, <2>4
<1>2. \A i \in 0 .. n : g[i] = h[i]
  <2> SUFFICES ASSUME NEW i \in 0 .. n PROVE g[i] = h[i]
    OBVIOUS
  <2>1. n - i \in 0 .. n /\ n - (n - i) = i
    OBVIOUS
  <2> QED
    BY <1>1, <2>1
<1>3. g = [i \in 0 .. n |-> g[i]] /\ h = [i \in 0 .. n |-> h[i]]
  BY DEF IsWalk
<1> QED
  BY <1>2, <1>3

LEMMA WalkFound ==
  ASSUME NEW n \in Nat, NEW fr, NEW pv, NEW g, IsWalk(g, n, fr, pv)
  PROVE  Walk(n, fr, pv) = g
<1>1. IsWalk(Walk(n, fr, pv), n, fr, pv)
  BY DEF Walk, IsWalk
<1> QED
  BY <1>1, WalkUnique

LEMMA FrameOfWalks == FrameOf = Walk(rsp, frame, prev) /\ FrameOf' = Walk(rsp', frame', prev')
  BY DEF FrameOf, Walk

LEMMA ChainWalks ==
  ASSUME NEW n \in Nat, NEW S, NEW c \in [0 .. n -> S], NEW fr, NEW pv, c[n] = fr,
         \A i \in 0 .. n - 1 : pv[c[i + 1]] = c[i]
  PROVE  IsWalk(c, n, fr, pv)
<1>1. \A i \in 0 .. n : c[i] = IF i = n THEN fr ELSE pv[c[i + 1]]
  OBVIOUS
<1> QED
  BY <1>1 DEF IsWalk

(* So the frames are those of the chain that FrameChain promises. *)
LEMMA FramesAreChain ==
  ASSUME TypeOK, NEW c \in [0 .. rsp -> FrameId], IsChain(c)
  PROVE  FrameOf = c
<1>1. rsp \in Nat
  BY DEF TypeOK
<1>2. IsWalk(c, rsp, frame, prev)
  BY <1>1, ChainWalks DEF IsChain
<1> QED
  BY <1>1, <1>2, WalkFound, FrameOfWalks

-----------------------------------------------------------------------------
(* Activations.                                                            *)

(* The activations of n calls with return addresses r, frames c and their  *)
(* variables l.                                                            *)
Acts(n, r, c, l) ==
  [i \in 1 .. n + 1 |-> [back |-> IF i = 1 THEN 0 ELSE r[i - 2], locals |-> l[c[i - 1]]]]

LEMMA ActivationsAre ==
  /\ Activations = Acts(rsp, return_stack, FrameOf, local_vars)
  /\ Activations' = Acts(rsp', return_stack', FrameOf', local_vars')
  BY DEF Activations, Acts

LEMMA ActsLen ==
  ASSUME NEW n \in Nat, NEW r, NEW c, NEW l
  PROVE  Len(Acts(n, r, c, l)) = n + 1
<1>1. n + 1 \in Nat
  OBVIOUS
<1> QED
  BY <1>1 DEF Acts

LEMMA ActsSeq ==
  ASSUME NEW n \in Nat, NEW r, NEW c, NEW l
  PROVE  \E S : Acts(n, r, c, l) \in Seq(S)
<1> DEFINE A == Acts(n, r, c, l)
           S == {A[i] : i \in 1 .. n + 1}
<1>1. A = [i \in 1 .. n + 1 |-> A[i]]
  BY DEF Acts
<1>2. \A i \in 1 .. n + 1 : A[i] \in S
  OBVIOUS
<1> HIDE DEF A, S
<1>3. n + 1 \in Nat
  OBVIOUS
<1>4. A \in [1 .. n + 1 -> S]
  BY <1>1, <1>2
<1>5. A \in Seq(S)
  BY <1>3, <1>4
<1> QED
  BY <1>5 DEF A

(* Nothing the activations are made of has changed. *)
LEMMA SameActivations ==
  ASSUME UNCHANGED <<rsp, return_stack, frame, prev, local_vars>>
  PROVE  UNCHANGED Activations
<1>1. FrameOf' = FrameOf
  BY FrameOfWalks
<1> QED
  BY <1>1, ActivationsAre

-----------------------------------------------------------------------------
(* The steps.                                                              *)

LEMMA InitMaps == Init => Abstract!Init
<1> SUFFICES ASSUME Init PROVE Abstract!Init
  OBVIOUS
<1>1. TypeOK
  BY InitType
<1>2. rsp = 0 /\ ip = 0 /\ frame \in FrameId /\ local_vars[frame] = NoVars
  BY DEF Init
<1>3. FrameOf[0] = frame
  <2> DEFINE c == [i \in 0 .. rsp |-> frame]
  <2>1. c \in [0 .. rsp -> FrameId] /\ IsChain(c)
    BY DEF Init, IsChain
  <2>2. FrameOf = c
    <3> HIDE DEF c
    <3> QED
      BY <1>1, <2>1, FramesAreChain
  <2> QED
    BY <1>2, <2>2
<1>4. Activations = <<Abstract!Fresh(0)>>
  <2>1. Activations = [i \in 1 .. 1 |-> [back |-> 0, locals |-> NoVars]]
    BY <1>2, <1>3, ActivationsAre DEF Acts
  <2> QED
    BY <2>1 DEF Abstract!Fresh, NoVars
<1> QED
  BY <1>2, <1>4 DEF Abstract!Init

LEMMA StoreMaps ==
  ASSUME IInv, Store
  PROVE  Abstract!Assign
<1> USE DEF IInv
<1>1. PICK c \in [0 .. rsp -> FrameId] : IsChain(c)
  BY DEF FrameChain
<1>2. /\ local_vars' = [local_vars EXCEPT ![frame][arg] = Top]
      /\ UNCHANGED <<rsp, return_stack, frame, prev>> /\ ip' = ip + 1
  BY DEF Store, Advance, returns
<1>3. arg \in Vars /\ Top \in Object /\ rsp \in Nat /\ frame \in FrameId
  BY Checked, StackTypes, InstType, SizeAssumption DEF Store, Exec, Vars, Top, TypeOK
<1>4. FrameOf = c /\ FrameOf' = c
  BY <1>1, <1>2, FramesAreChain, FrameOfWalks
<1>5. c[rsp] = frame /\ \A i \in 0 .. rsp - 1 : c[i] # frame
  BY <1>1, <1>3 DEF IsChain
<1> DEFINE A == Activations
<1>6. Len(A) = rsp + 1
  BY <1>3, ActivationsAre, ActsLen
<1>7. Activations' = [A EXCEPT ![rsp + 1].locals[arg] = Top]
  <2> DEFINE B == [A EXCEPT ![rsp + 1].locals[arg] = Top]
  <2>1. A = [i \in 1 .. rsp + 1 |->
               [back |-> IF i = 1 THEN 0 ELSE return_stack[i - 2], locals |-> local_vars[c[i - 1]]]]
    BY <1>4, ActivationsAre DEF Acts
  <2>2. Activations' = [i \in 1 .. rsp + 1 |->
               [back |-> IF i = 1 THEN 0 ELSE return_stack[i - 2], locals |-> local_vars'[c[i - 1]]]]
    BY <1>2, <1>4, ActivationsAre DEF Acts
  <2> HIDE DEF A
  <2>3. B = [i \in 1 .. rsp + 1 |-> B[i]]
    BY <2>1
  <2>4. \A i \in 1 .. rsp : B[i] = A[i] /\ local_vars'[c[i - 1]] = local_vars[c[i - 1]]
    <3> SUFFICES ASSUME NEW i \in 1 .. rsp
                 PROVE  B[i] = A[i] /\ local_vars'[c[i - 1]] = local_vars[c[i - 1]]
      OBVIOUS
    <3>1. i - 1 \in 0 .. rsp - 1 /\ i # rsp + 1 /\ i \in 1 .. rsp + 1 /\ c[i - 1] \in FrameId
      BY <1>3
    <3>2. c[i - 1] # frame
      BY <1>5, <3>1
    <3>3. local_vars'[c[i - 1]] = local_vars[c[i - 1]]
      BY <1>2, <3>1, <3>2 DEF TypeOK
    <3>4. B[i] = A[i]
      BY <2>1, <3>1
    <3> QED
      BY <3>3, <3>4
  <2>5. B[rsp + 1] = [back |-> IF rsp + 1 = 1 THEN 0 ELSE return_stack[rsp + 1 - 2], locals |-> local_vars'[c[rsp]]]
    <3>1. rsp + 1 \in 1 .. rsp + 1 /\ (rsp + 1) - 1 = rsp
      BY <1>3
    <3>2. A[rsp + 1] = [back |-> IF rsp + 1 = 1 THEN 0 ELSE return_stack[rsp + 1 - 2], locals |-> local_vars[frame]]
      BY <2>1, <3>1, <1>5
    <3>3. B[rsp + 1] = [A[rsp + 1] EXCEPT !.locals[arg] = Top]
      BY <2>1, <3>1
    <3>4. local_vars'[c[rsp]] = [local_vars[frame] EXCEPT ![arg] = Top]
      BY <1>2, <1>3, <1>5 DEF TypeOK
    <3> QED
      BY <3>2, <3>3, <3>4
  <2> HIDE DEF B
  <2>6. \A i \in 1 .. rsp + 1 : B[i] = Activations'[i]
    <3> SUFFICES ASSUME NEW i \in 1 .. rsp + 1 PROVE B[i] = Activations'[i]
      OBVIOUS
    <3>1. CASE i \in 1 .. rsp
      BY <3>1, <2>1, <2>2, <2>4
    <3>2. CASE i = rsp + 1
      <4>1. i - 1 = rsp
        BY <1>3, <3>2
      <4> QED
        BY <2>2, <2>5, <3>2, <4>1
    <3> QED
      BY <1>3, <3>1, <3>2
  <2>7. Activations' = [i \in 1 .. rsp + 1 |-> Activations'[i]]
    BY <2>2
  <2>8. Activations' = B
    BY <2>3, <2>6, <2>7
  <2> QED
    BY <2>8 DEF B
<1> HIDE DEF A
<1> QED
  BY <1>2, <1>3, <1>6, <1>7 DEF Abstract!Assign, A

(* A call appends the activation of the new frame. *)
SamePrefix(n, r, q, c, d, l, m) ==
  /\ \A i \in 0 .. n - 1 : q[i] = r[i]
  /\ \A i \in 0 .. n : d[i] = c[i] /\ m[d[i]] = l[c[i]]

LEMMA ActsGrow ==
  ASSUME NEW n \in Nat, NEW r, NEW q, NEW c, NEW d, NEW l, NEW m,
         SamePrefix(n, r, q, c, d, l, m)
  PROVE  Acts(n + 1, q, d, m) = Append(Acts(n, r, c, l), [back |-> q[n], locals |-> m[d[n + 1]]])
<1> USE DEF SamePrefix
<1> DEFINE A == Acts(n, r, c, l)
           e == [back |-> q[n], locals |-> m[d[n + 1]]]
           B == Acts(n + 1, q, d, m)
<1>1. PICK S : A \in Seq(S)
  BY ActsSeq
<1>2. Len(A) = n + 1
  BY ActsLen
<1>3. \A i \in 1 .. n + 1 : B[i] = A[i]
  <2> SUFFICES ASSUME NEW i \in 1 .. n + 1 PROVE B[i] = A[i]
    OBVIOUS
  <2>1. i \in 1 .. (n + 1) + 1 /\ i - 1 \in 0 .. n /\ (i # 1 => i - 2 \in 0 .. n - 1)
    OBVIOUS
  <2>2. B[i] = [back |-> IF i = 1 THEN 0 ELSE q[i - 2], locals |-> m[d[i - 1]]]
    BY <2>1 DEF Acts
  <2>3. A[i] = [back |-> IF i = 1 THEN 0 ELSE r[i - 2], locals |-> l[c[i - 1]]]
    BY DEF Acts
  <2> QED
    BY <2>1, <2>2, <2>3
<1>4. B[n + 2] = e
  <2>1. n + 2 \in 1 .. (n + 1) + 1 /\ n + 2 # 1 /\ (n + 2) - 2 = n /\ (n + 2) - 1 = n + 1
    OBVIOUS
  <2>2. B[n + 2] = [back |-> q[(n + 2) - 2], locals |-> m[d[(n + 2) - 1]]]
    BY <2>1 DEF Acts
  <2> QED
    BY <2>1, <2>2
<1>5. B = [i \in 1 .. n + 2 |-> B[i]]
  <2>1. (n + 1) + 1 = n + 2
    OBVIOUS
  <2> QED
    BY <2>1 DEF Acts
<1> HIDE DEF A, B, e
<1>6. Append(A, e) = [i \in 1 .. n + 2 |-> IF i = n + 2 THEN e ELSE A[i]]
  <2> DEFINE T == S \union {e}
  <2>1. A \in Seq(T) /\ e \in T
    BY <1>1
  <2> HIDE DEF T
  <2>2. /\ Append(A, e) \in Seq(T) /\ Len(Append(A, e)) = n + 2
        /\ \A i \in 1 .. n + 1 : Append(A, e)[i] = A[i]
        /\ Append(A, e)[n + 2] = e
    BY <1>2, <2>1
  <2>3. Append(A, e) = [i \in 1 .. n + 2 |-> Append(A, e)[i]]
    <3> DEFINE B2 == Append(A, e)
    <3>1. B2 \in Seq(T) /\ Len(B2) = n + 2
      BY <2>2
    <3> HIDE DEF B2
    <3>2. B2 \in [1 .. n + 2 -> T]
      BY <3>1
    <3>3. B2 = [i \in 1 .. n + 2 |-> B2[i]]
      BY <3>2
    <3> QED
      BY <3>3 DEF B2
  <2>4. \A i \in 1 .. n + 2 : i = n + 2 \/ i \in 1 .. n + 1
    OBVIOUS
  <2> QED
    BY <2>2, <2>3, <2>4
<1>7. \A i \in 1 .. n + 2 : B[i] = IF i = n + 2 THEN e ELSE A[i]
  BY <1>3, <1>4
<1> QED
  BY <1>5, <1>6, <1>7 DEF A, B, e

(* A return drops the last one. *)
LEMMA ActsShrink ==
  ASSUME NEW n \in Nat \ {0}, NEW r, NEW c, NEW d, NEW l,
         \A i \in 0 .. n - 1 : d[i] = c[i]
  PROVE  Acts(n - 1, r, d, l) = SubSeq(Acts(n, r, c, l), 1, n)
<1> DEFINE A == Acts(n, r, c, l)
           B == Acts(n - 1, r, d, l)
<1>1. PICK S : A \in Seq(S)
  BY ActsSeq
<1>2. Len(A) = n + 1
  BY ActsLen
<1>3. \A i \in 1 .. n : B[i] = A[i]
  <2> SUFFICES ASSUME NEW i \in 1 .. n PROVE B[i] = A[i]
    OBVIOUS
  <2>1. i \in 1 .. (n - 1) + 1 /\ i \in 1 .. n + 1 /\ i - 1 \in 0 .. n - 1
    OBVIOUS
  <2>2. B[i] = [back |-> IF i = 1 THEN 0 ELSE r[i - 2], locals |-> l[d[i - 1]]]
    BY <2>1 DEF Acts
  <2>3. A[i] = [back |-> IF i = 1 THEN 0 ELSE r[i - 2], locals |-> l[c[i - 1]]]
    BY <2>1 DEF Acts
  <2> QED
    BY <2>1, <2>2, <2>3
<1>4. B = [i \in 1 .. n |-> B[i]]
  <2>1. (n - 1) + 1 = n
    OBVIOUS
  <2> QED
    BY <2>1 DEF Acts
<1> HIDE DEF A, B
<1>5. SubSeq(A, 1, n) = [i \in 1 .. n |-> A[i]]
  <2>1. SubSeq(A, 1, n) = [i \in 1 .. (1 + n) - 1 |-> A[(i + 1) - 1]]
    BY <1>1, <1>2
  <2>2. (1 + n) - 1 = n /\ \A i \in 1 .. n : (i + 1) - 1 = i
    OBVIOUS
  <2> QED
    BY <2>1, <2>2
<1> QED
  BY <1>3, <1>4, <1>5 DEF A, B

LEMMA CallMaps ==
  ASSUME IInv, Call
  PROVE  Abstract!Call
<1> USE DEF IInv
<1>1. rsp \in 0 .. RetCap - 1 /\ rsp \in Nat /\ ip' = arg /\ arg \in Nat
  BY Checked, InstType, SizeAssumption DEF Call, Exec, Goto, TypeOK
<1>2. rsp' = rsp + 1 /\ return_stack' = [return_stack EXCEPT ![rsp] = ip + 1]
  BY DEF Call, ReturnAddress
<1>3. PICK f \in FrameId \ live : NextFrame(f)
  BY DEF Call
<1>4. PICK c \in [0 .. rsp -> FrameId] : IsChain(c)
  BY DEF FrameChain
<1>5. status = "running" /\ \A i \in 0 .. rsp : c[i] \in FrameId /\ c[i] # f
  BY <1>3, <1>4 DEF IsChain, Call, Exec, Looping
<1>6. PICK d \in [0 .. rsp + 1 -> FrameId] : d[rsp + 1] = f /\ \A i \in 0 .. rsp : d[i] = c[i]
  <2> DEFINE d == [i \in 0 .. rsp + 1 |-> IF i = rsp + 1 THEN f ELSE c[i]]
  <2>1. d \in [0 .. rsp + 1 -> FrameId] /\ d[rsp + 1] = f /\ \A i \in 0 .. rsp : d[i] = c[i]
    BY <1>1, <1>4
  <2> QED
    BY <2>1
<1>7. FrameOf = c
  BY <1>4, FramesAreChain
<1>8. FrameOf' = d
  <2>1. \A i \in 0 .. (rsp + 1) - 1 : prev'[d[i + 1]] = d[i]
    <3> SUFFICES ASSUME NEW i \in 0 .. rsp PROVE prev'[d[i + 1]] = d[i]
      BY <1>1
    <3>1. prev' = [prev EXCEPT ![f] = frame]
      BY <1>3 DEF NextFrame
    <3>2. CASE i = rsp
      <4>1. d[i + 1] = f /\ d[i] = frame
        BY <1>1, <1>4, <1>6, <3>2 DEF IsChain
      <4> QED
        BY <3>1, <4>1 DEF TypeOK
    <3>3. CASE i # rsp
      <4>1. i \in 0 .. rsp - 1 /\ i + 1 \in 0 .. rsp
        BY <1>1, <3>3
      <4>2. prev[c[i + 1]] = c[i] /\ d[i + 1] = c[i + 1] /\ d[i] = c[i] /\ c[i + 1] # f
        BY <4>1, <1>4, <1>5, <1>6 DEF IsChain
      <4> QED
        BY <3>1, <4>1, <4>2, <1>5 DEF TypeOK
    <3> QED
      BY <3>2, <3>3
  <2>2. rsp + 1 \in Nat /\ d[rsp + 1] = frame'
    BY <1>1, <1>3, <1>6 DEF NextFrame
  <2>3. IsWalk(d, rsp + 1, frame', prev')
    BY <1>6, <2>1, <2>2, ChainWalks
  <2>4. Walk(rsp + 1, frame', prev') = d
    BY <2>2, <2>3, WalkFound
  <2> QED
    BY <1>2, <2>4, FrameOfWalks
<1>9. local_vars' = [local_vars EXCEPT ![f] = NoVars]
  BY <1>3 DEF NextFrame
<1>10. Activations' = Append(Activations, [back |-> return_stack'[rsp], locals |-> local_vars'[d[rsp + 1]]])
  <2>1. \A i \in 0 .. rsp - 1 : return_stack'[i] = return_stack[i]
    BY <1>1, <1>2 DEF TypeOK
  <2>2. \A i \in 0 .. rsp : d[i] = c[i] /\ local_vars'[d[i]] = local_vars[c[i]]
    BY <1>5, <1>6, <1>9 DEF TypeOK
  <2>3. SamePrefix(rsp, return_stack, return_stack', c, d, local_vars, local_vars')
    BY <2>1, <2>2 DEF SamePrefix
  <2>4. Acts(rsp + 1, return_stack', d, local_vars')
          = Append(Acts(rsp, return_stack, c, local_vars),
                   [back |-> return_stack'[rsp], locals |-> local_vars'[d[rsp + 1]]])
    BY <1>1, <2>3, ActsGrow
  <2> QED
    BY <1>2, <1>7, <1>8, <2>4, ActivationsAre
<1>11. return_stack'[rsp] = ip + 1 /\ local_vars'[d[rsp + 1]] = NoVars
  BY <1>1, <1>2, <1>3, <1>6, <1>9 DEF TypeOK
<1>12. Len(Activations) = rsp + 1
  BY <1>1, ActivationsAre, ActsLen
<1> QED
  BY <1>1, <1>10, <1>11, <1>12, SizeAssumption DEF Abstract!Call, Abstract!Fresh, NoVars

LEMMA RetMaps ==
  ASSUME IInv, Ret
  PROVE  Abstract!Return
<1> USE DEF IInv
<1>1. /\ rsp \in Nat \ {0} /\ rsp' = rsp - 1 /\ ip' = return_stack[rsp - 1]
      /\ UNCHANGED <<return_stack, prev, local_vars>> /\ frame' = prev[frame]
  BY Checked DEF Ret, Exec, Goto, PrevFrame, TypeOK
<1>2. PICK c \in [0 .. rsp -> FrameId] : IsChain(c)
  BY DEF FrameChain
<1> DEFINE d == [i \in 0 .. rsp - 1 |-> c[i]]
<1>3. d \in [0 .. rsp - 1 -> FrameId] /\ \A i \in 0 .. rsp - 1 : d[i] = c[i]
  BY <1>1, <1>2
<1> HIDE DEF d
<1>4. FrameOf = c
  BY <1>2, FramesAreChain
<1>5. FrameOf' = d
  <2>1. rsp - 1 \in Nat /\ rsp - 1 \in 0 .. rsp - 1
    BY <1>1
  <2>2. d[rsp - 1] = frame'
    BY <1>1, <1>2, <1>3, <2>1 DEF IsChain
  <2>3. \A i \in 0 .. (rsp - 1) - 1 : prev[d[i + 1]] = d[i]
    <3> SUFFICES ASSUME NEW i \in 0 .. (rsp - 1) - 1 PROVE prev[d[i + 1]] = d[i]
      OBVIOUS
    <3>1. i \in 0 .. rsp - 1 /\ i + 1 \in 0 .. rsp - 1
      BY <1>1
    <3> QED
      BY <3>1, <1>2, <1>3 DEF IsChain
  <2>4. IsWalk(d, rsp - 1, frame', prev)
    BY <1>3, <2>1, <2>2, <2>3, ChainWalks
  <2>5. Walk(rsp - 1, frame', prev) = d
    BY <2>1, <2>4, WalkFound
  <2> QED
    BY <1>1, <2>5, FrameOfWalks
<1>6. Activations' = SubSeq(Activations, 1, rsp)
  <2>1. Acts(rsp - 1, return_stack, d, local_vars) = SubSeq(Acts(rsp, return_stack, c, local_vars), 1, rsp)
    BY <1>1, <1>3, ActsShrink
  <2> QED
    BY <1>1, <1>4, <1>5, <2>1, ActivationsAre
<1>7. Len(Activations) = rsp + 1
  BY <1>1, ActivationsAre, ActsLen
<1>8. Activations[rsp + 1].back = return_stack[rsp - 1]
  <2>1. rsp + 1 \in 1 .. rsp + 1 /\ rsp + 1 # 1 /\ (rsp + 1) - 2 = rsp - 1
    BY <1>1
  <2>2. Activations[rsp + 1] = [back |-> return_stack[(rsp + 1) - 2], locals |-> local_vars[c[(rsp + 1) - 1]]]
    BY <1>4, <2>1, ActivationsAre DEF Acts
  <2> QED
    BY <2>1, <2>2
<1>9. Len(Activations) > 1 /\ Len(Activations) - 1 = rsp
  BY <1>1, <1>7
<1> QED
  BY <1>1, <1>6, <1>7, <1>8, <1>9 DEF Abstract!Return

(* Every other step leaves the activations alone. *)
LEMMA OthersMap ==
  ASSUME IInv, Trap \/ Stop \/ (OpcodeStep /\ ~Call /\ ~Ret /\ ~Store)
  PROVE  Abstract!Compute
<1> USE DEF IInv
<1>1. UNCHANGED <<rsp, return_stack, frame, prev>>
  BY KeptSteps DEF Stop, returns
<1>2. UNCHANGED local_vars
  <2>1. CASE Trap \/ Stop \/ Nop \/ Halt \/ PushOperand \/ PopOperand \/ Load \/ GLoad \/ GStore
    BY <2>1 DEF Trap, Raise, Stop, Nop, Halt, PushOperand, PopOperand, Load, GLoad, GStore, frames
  <2>2. CASE BinaryOp \/ UnaryOp \/ Dup \/ Cln \/ Swap \/ LoadC \/ ALoadC \/ Jump \/ Branch \/ Puts
    BY <2>2 DEF BinaryOp, UnaryOp, Dup, Cln, Swap, LoadC, ALoadC, Jump, Branch, Puts, Crash, frames
  <2> QED
    BY <2>1, <2>2 DEF OpcodeStep
<1>3. UNCHANGED Activations
  BY <1>1, <1>2, SameActivations
<1>4. TypeOK'
  BY StepInv DEF Next
<1>5. ip' \in Nat
  BY <1>4 DEF TypeOK
<1> QED
  BY <1>3, <1>5 DEF Abstract!Compute

LEMMA StepCalls == IInv /\ [Next]_vars => [Abstract!Next]_<<ip, Activations>>
<1> SUFFICES ASSUME IInv, [Next]_vars PROVE [Abstract!Next]_<<ip, Activations>>
  OBVIOUS
<1>1. CASE Call
  BY <1>1, CallMaps DEF Abstract!Next
<1>2. CASE Ret
  BY <1>2, RetMaps DEF Abstract!Next
<1>3. CASE Store
  BY <1>3, StoreMaps DEF Abstract!Next
<1>4. CASE Trap \/ Stop \/ (OpcodeStep /\ ~Call /\ ~Ret /\ ~Store)
  BY <1>4, OthersMap DEF Abstract!Next
<1>5. CASE UNCHANGED vars
  BY <1>5, SameActivations DEF vars, returns, frames
<1> QED
  BY <1>1, <1>2, <1>3, <1>4, <1>5 DEF Next

(* For every program and every depth of calls, OP_CALL, OP_RET and OP_STORE *)
(* implement nested activations: a return finds the caller's variables as   *)
(* they were and goes behind the call, and no opcode but the running        *)
(* activation's OP_STORE changes a variable (tvm.h:628-644,845-860).        *)
THEOREM CallsNestCorrect == Spec => CallsNest
<1>1. Init => Abstract!Init
  BY InitMaps
<1>2. IInv /\ [Next]_vars => [Abstract!Next]_<<ip, Activations>>
  BY StepCalls
<1> QED
  BY <1>1, <1>2, Invariance, PTL DEF Spec, CallsNest, Abstract!Spec, Abstract!vars
=============================================================================
