--------------------------------- MODULE TVM ---------------------------------
(***************************************************************************)
(* The interpreter of the tile virtual machine: tvm_init, tvm_exec_opcode, *)
(* the frame list and tvm_run of src/include/tvm/tvm.h.  The opcodes of    *)
(* the garbage-collected heap are in TVMHeap, OP_NATIVE in TVMNative.      *)
(*                                                                         *)
(* One step is one iteration of tvm_run's loop.  The program is any member *)
(* of Programs and stays in the variable program, as in vm->program.       *)
(***************************************************************************)
EXTENDS TVMAlu, Sequences, FiniteSets

CONSTANTS
  StackCap,   \* TVM_STACK_CAPACITY
  RetCap,     \* RETURN_STACK_CAPACITY
  MaxVar,     \* TVM_MAX_LOCAL_VAR, which also bounds the global variables
  FrameId,    \* addresses malloc may return for a frame
  Junk,       \* a pointer nobody has written yet
  Programs,   \* the programs to run
  DataLo,     \* low and high half of the address of const_table.data
  DataHi,
  WordBytes,  \* bytes in a word: 4
  PtrBytes,   \* sizeof(void*): 4 or 8
  ByteValues  \* values of a byte: 256

Exception == {"STACK_UNDERFLOW", "STACK_OVERFLOW", "RETURN_STACK_UNDERFLOW",
  "RETURN_STACK_OVERFLOW", "INVALID_INSTRUCTION", "INVALID_INSTRUCTION_ACCESS",
  "INVALID_LOCAL_VAR_ACCESS", "INVALID_GLOBAL_VAR_ACCESS", "INVALID_CONSTANT_ACCESS",
  "INVALID_CONSTANT_ADDRESS_ACCESS", "INVALID_STACK_ACCESS", "DIVISION_BY_ZERO",
  "INVALID_BYTE_SIZE", "INVALID_ARRAY_INDEX", "INVALID_PRIMITIVE_SIZE",
  "INVALID_NATIVE_FUNCTION_ACCESS"}

(* object_t: a tag and a union as long as a pointer, of which most opcodes  *)
(* touch only the low word (ui32, i32, f32).  ui64, in spite of its name a  *)
(* uintptr_t, has a second word only where pointers have two.               *)
OneWord == PtrBytes = WordBytes
High == IF OneWord THEN {0} ELSE Word
ObjType == {"NO_OPERAND", "DATA_ADDRESS", "VM_ADDRESS", "NUMBER", "CHARACTER"}
Object == [type : ObjType, lo : Word, hi : High]
Blank == [type |-> "NO_OPERAND", lo |-> 0, hi |-> 0]   \* zeroed memory

(* Opcodes other modules model. *)
HeapOps   == {"HALLOC", "DEREF", "DEREFB", "HSET", "HSETOF"}
NativeOps == {"NATIVE"}

(* optype_t; "unknown" is a type byte that is none of them. *)
OpType ==
  {"NOP", "PUSH", "POP", "DUP", "CLN", "SWAP", "JMP", "JZ", "JNZ", "CALL", "RET", "LOADC",
   "ALOADC", "LOAD", "STORE", "GLOAD", "GSTORE", "PUTS", "PUTC", "HALT", "unknown"}
    \union BinaryOps \union UnaryOps \union HeapOps \union NativeOps

(* opcode_t.  program.code is zero after its last instruction: OP_NOP. *)
Instr == [op : OpType, arg : Object]
NopInstr == [op |-> "NOP", arg |-> Blank]

(* A loaded program: its code and its constant table, the bytes of all      *)
(* constants and the offset at which each starts.                           *)
Program == [code : Seq(Instr), data : Seq(0 .. ByteValues - 1), refs : Seq(Nat)]

ASSUME SizeAssumption == StackCap \in Nat /\ RetCap \in Nat /\ MaxVar \in Nat \ {0}
ASSUME FrameAssumption == Junk \notin FrameId /\ FrameId # {}
ASSUME ProgramsAssumption == Programs \subseteq Program
(* tvm_frame_init does not check malloc: memory for every frame is assumed. *)
ASSUME MemoryAssumption == IsFiniteSet(FrameId) /\ Cardinality(FrameId) > RetCap
ASSUME DataAssumption == DataLo \in Word /\ DataHi \in High
ASSUME PointerAssumption == PtrBytes \in {WordBytes, 2 * WordBytes}
ASSUME ByteAssumption ==
  ByteValues \in Nat \ {0, 1} /\ WordBytes \in Nat \ {0} /\ W = ByteValues^WordBytes

VARIABLES
  program,                 \* vm->program
  stack, sp,               \* the operand stack; slots from sp up are stale
  return_stack, rsp,
  frame,                   \* the current frame
  live,                    \* frames malloc'ed and not yet freed
  prev, next, local_vars,  \* the fields of each frame
  global_vars,             \* vm->gframe->global_vars
  ip, halted,
  status                   \* "running" in tvm_run's loop, "stopped" after it,
                           \* "crashed" on a signal, or the exception the
                           \* process exited with

operands == <<stack, sp>>
frames   == <<frame, live, prev, next, local_vars>>
returns  == <<return_stack, rsp>>
vars == <<program, operands, returns, frames, global_vars, ip, halted, status>>

Slots == 0 .. StackCap - 1
Vars  == 0 .. MaxVar - 1
NoVars == [v \in Vars |-> Blank]

size == Len(program.code)

-----------------------------------------------------------------------------
(* Fetching and checking an instruction.                                   *)

(* The loop runs while ip <= size, so it also fetches the zero behind the  *)
(* last instruction.                                                       *)
Looping == status = "running" /\ ~halted /\ ip <= size

Inst == IF ip < size THEN program.code[ip + 1] ELSE NopInstr
arg  == Inst.arg.lo
Top  == stack[sp - 1]
Second == stack[sp - 2]

Need(n)        == IF sp < n THEN "STACK_UNDERFLOW" ELSE "OK"
Room_OffByOne  == IF sp > StackCap THEN "STACK_OVERFLOW" ELSE "OK"   \* faulty
Room           == IF sp >= StackCap THEN "STACK_OVERFLOW" ELSE "OK"
Check(ok, e)   == IF ok THEN "OK" ELSE e
FirstOf(e, e2) == IF e # "OK" THEN e ELSE e2

Target == Check(arg < size, "INVALID_INSTRUCTION_ACCESS")

(* Binary opcodes shrink the stack but most still ask for a free slot. *)
RoomlessOps == {"BAND", "BOR", "LSHFT", "RSHFT"}

(* What tvm_exec_opcode returns for the fetched instruction: the first of  *)
(* its checks that fails, in the order the code makes them.                *)
Fault ==
  LET op == Inst.op IN
  CASE op \in {"NOP", "HALT"}          -> "OK"
    [] op = "PUSH"                     -> Room
    [] op \in {"POP", "PUTS", "PUTC"} \union UnaryOps -> Need(1)
    [] op \in RoomlessOps              -> Need(2)
    [] op \in DivideOps                ->
         FirstOf(FirstOf(Need(2), Room), Check(Top.lo # 0, "DIVISION_BY_ZERO"))
    [] op \in BinaryOps \ (RoomlessOps \union DivideOps) -> FirstOf(Need(2), Room)
    [] op = "DUP"                      -> FirstOf(Need(1), Room)
    [] op = "CLN"                      -> FirstOf(Check(arg < sp, "INVALID_STACK_ACCESS"), Room)
    [] op = "SWAP"                     -> FirstOf(Check(arg < sp, "INVALID_STACK_ACCESS"), Need(2))
    [] op = "JMP"                      -> Target
    [] op \in {"JZ", "JNZ"}            -> FirstOf(Need(1), Target)
    [] op = "CALL"                     -> FirstOf(Check(rsp < RetCap, "RETURN_STACK_OVERFLOW"), Target)
    [] op = "RET"                      -> Check(rsp >= 1, "RETURN_STACK_UNDERFLOW")
    [] op = "LOADC"                    ->
         FirstOf(Room, Check(arg < Len(program.refs), "INVALID_CONSTANT_ACCESS"))
    [] op = "ALOADC"                   ->
         FirstOf(Room, Check(arg < Len(program.refs), "INVALID_CONSTANT_ADDRESS_ACCESS"))
    [] op = "LOAD"                     -> FirstOf(Room, Check(arg < MaxVar, "INVALID_LOCAL_VAR_ACCESS"))
    [] op = "STORE"                    -> FirstOf(Need(1), Check(arg < MaxVar, "INVALID_LOCAL_VAR_ACCESS"))
    [] op = "GLOAD"                    -> FirstOf(Room, Check(arg < MaxVar, "INVALID_GLOBAL_VAR_ACCESS"))
    [] op = "GSTORE"                   -> FirstOf(Need(1), Check(arg < MaxVar, "INVALID_GLOBAL_VAR_ACCESS"))
    [] OTHER                           -> "INVALID_INSTRUCTION"

(* The handler of the opcodes in ops runs: no check of theirs failed. *)
Exec(ops) == Looping /\ Inst.op \in ops /\ Fault = "OK"

(* tvm_run prints the exception and exits: nothing else changes any more. *)
Raise(e) ==
  /\ status' = e
  /\ UNCHANGED <<program, operands, returns, frames, global_vars, ip, halted>>

Trap ==
  /\ Looping
  /\ Inst.op \notin HeapOps \union NativeOps
  /\ Fault # "OK"
  /\ Raise(Fault)

Crash ==
  /\ status' = "crashed"
  /\ UNCHANGED <<program, operands, returns, frames, global_vars, ip, halted>>

(* What an opcode that neither branches nor calls leaves alone. *)
Advance == ip' = ip + 1 /\ UNCHANGED <<program, returns, halted, status>>

-----------------------------------------------------------------------------
(* The operand stack.                                                      *)

Push_Word(o) == stack' = [stack EXCEPT ![sp].lo = o.lo] /\ sp' = sp + 1   \* faulty
Push(o) == stack' = [stack EXCEPT ![sp] = o] /\ sp' = sp + 1
Pop     == sp' = sp - 1 /\ UNCHANGED stack

Nop == Exec({"NOP"}) /\ Advance /\ UNCHANGED <<operands, frames, global_vars>>

Halt ==
  /\ Exec({"HALT"})
  /\ halted' = TRUE
  /\ ip' = ip + 1
  /\ UNCHANGED <<program, operands, returns, frames, global_vars, status>>

PushOperand ==
  Exec({"PUSH"}) /\ Push(Inst.arg) /\ Advance /\ UNCHANGED <<frames, global_vars>>

(* Arithmetic writes the low word of the slot; its tag and high word stay. *)
BinaryOp ==
  /\ Exec(BinaryOps)
  /\ \/ /\ Inst.op \in DivideOps
        /\ DivisionTraps(Second.lo, Top.lo)
        /\ Crash
     \/ /\ ~(Inst.op \in DivideOps /\ DivisionTraps(Second.lo, Top.lo))
        /\ \E w \in Binary(Inst.op, Second.lo, Top.lo) :
             stack' = [stack EXCEPT ![sp - 2].lo = w]
        /\ sp' = sp - 1
        /\ Advance
        /\ UNCHANGED <<frames, global_vars>>

UnaryOp ==
  /\ Exec(UnaryOps)
  /\ \E w \in Unary(Inst.op, Top.lo) : stack' = [stack EXCEPT ![sp - 1].lo = w]
  /\ Advance
  /\ UNCHANGED <<sp, frames, global_vars>>

(* OP_DUP copies the low word only, over whatever the slot held before. *)
Dup ==
  /\ Exec({"DUP"})
  /\ stack' = [stack EXCEPT ![sp].lo = Top.lo]
  /\ sp' = sp + 1
  /\ Advance
  /\ UNCHANGED <<frames, global_vars>>

Cln ==
  /\ Exec({"CLN"})
  /\ Push(stack[sp - arg - 1])
  /\ Advance
  /\ UNCHANGED <<frames, global_vars>>

Swap ==
  /\ Exec({"SWAP"})
  /\ stack' = [stack EXCEPT ![sp - 1] = stack[sp - arg - 1], ![sp - arg - 1] = Top]
  /\ Advance
  /\ UNCHANGED <<sp, frames, global_vars>>

-----------------------------------------------------------------------------
(* Constants and output.                                                   *)

(* The words a 32-bit read at offset r of the constant table can yield.    *)
(* It reads WordBytes bytes whatever the size of the constant: into the    *)
(* next constant, or past the table, where the bytes are anybody's.        *)
WordAt(r) ==
  {w \in Word : \A i \in 0 .. WordBytes - 1 :
     r + i < Len(program.data)
       => (w \div ByteValues^i) % ByteValues = program.data[r + i + 1]}

LoadC ==
  /\ Exec({"LOADC"})
  /\ \E w \in WordAt(program.refs[arg + 1]) : stack' = [stack EXCEPT ![sp].lo = w]
  /\ sp' = sp + 1
  /\ Advance
  /\ UNCHANGED <<frames, global_vars>>

(* &const_table.data[r] in the words of an object. *)
AddrLo(r) == (DataLo + r) % W
AddrHi(r) == IF OneWord THEN 0 ELSE (DataHi + (DataLo + r) \div W) % W

(* Writes the whole address but not the tag. *)
ALoadC ==
  /\ Exec({"ALOADC"})
  /\ LET r == program.refs[arg + 1] IN
       stack' = [stack EXCEPT ![sp].lo = AddrLo(r), ![sp].hi = AddrHi(r)]
  /\ sp' = sp + 1
  /\ Advance
  /\ UNCHANGED <<frames, global_vars>>

(* o is the address of a byte of the table with a 0 byte at it or after it. *)
IsString(o) ==
  \E r \in 0 .. Len(program.data) - 1 :
    /\ o.lo = AddrLo(r) /\ o.hi = AddrHi(r)
    /\ \E z \in r + 1 .. Len(program.data) : program.data[z] = 0

(* fputs of anything but a string is undefined: it may print whatever is   *)
(* there, or fault.                                                        *)
Puts ==
  /\ Exec({"PUTS"})
  /\ \/ Pop /\ Advance /\ UNCHANGED <<frames, global_vars>>
     \/ ~IsString(Top) /\ Crash

PopOperand ==
  Exec({"POP", "PUTC"}) /\ Pop /\ Advance /\ UNCHANGED <<frames, global_vars>>

-----------------------------------------------------------------------------
(* Variables.                                                              *)

Load ==
  /\ Exec({"LOAD"})
  /\ Push(local_vars[frame][arg])
  /\ Advance
  /\ UNCHANGED <<frames, global_vars>>

Store ==
  /\ Exec({"STORE"})
  /\ local_vars' = [local_vars EXCEPT ![frame][arg] = Top]
  /\ Pop
  /\ Advance
  /\ UNCHANGED <<frame, live, prev, next, global_vars>>

GLoad ==
  /\ Exec({"GLOAD"})
  /\ Push(global_vars[arg])
  /\ Advance
  /\ UNCHANGED <<frames, global_vars>>

GStore ==
  /\ Exec({"GSTORE"})
  /\ global_vars' = [global_vars EXCEPT ![arg] = Top]
  /\ Pop
  /\ Advance
  /\ UNCHANGED frames

-----------------------------------------------------------------------------
(* Branches, calls and the frame list.                                     *)

Goto(a) == ip' = a /\ UNCHANGED <<program, halted, status>>

Jump ==
  Exec({"JMP"}) /\ Goto(arg) /\ UNCHANGED <<operands, returns, frames, global_vars>>

(* Both conditional jumps pop the word they test. *)
Branch ==
  /\ Exec({"JZ", "JNZ"})
  /\ Pop
  /\ Goto(IF (Top.lo = 0) = (Inst.op = "JZ") THEN arg ELSE ip + 1)
  /\ UNCHANGED <<returns, frames, global_vars>>

ReturnAddress_Call == ip   \* faulty: returns to the call itself
ReturnAddress == ip + 1

(* tvm_frame_next: link a fresh frame behind the current one.  malloc may  *)
(* reuse any free address; only the local variables are cleared.           *)
NextFrame_Dirty(f) ==   \* faulty: forgets to clear the variables
  /\ frame' = f
  /\ live' = live \union {f}
  /\ next' = [next EXCEPT ![frame] = f, ![f] = Junk]
  /\ prev' = [prev EXCEPT ![f] = frame]
  /\ UNCHANGED local_vars
NextFrame(f) ==
  /\ frame' = f
  /\ live' = live \union {f}
  /\ next' = [next EXCEPT ![frame] = f, ![f] = Junk]
  /\ prev' = [prev EXCEPT ![f] = frame]
  /\ local_vars' = [local_vars EXCEPT ![f] = NoVars]

(* tvm_frame_prev: step back, then free what the caller's next points to. *)
PrevFrame_FreesBehind ==   \* faulty: frees before stepping back
  /\ frame' = prev[frame]
  /\ live' = live \ {next[frame]}
  /\ UNCHANGED <<prev, next, local_vars>>
PrevFrame ==
  /\ frame' = prev[frame]
  /\ live' = live \ {next[prev[frame]]}
  /\ UNCHANGED <<prev, next, local_vars>>

Call ==
  /\ Exec({"CALL"})
  /\ return_stack' = [return_stack EXCEPT ![rsp] = ReturnAddress]
  /\ rsp' = rsp + 1
  /\ Goto(arg)
  /\ \E f \in FrameId \ live : NextFrame(f)
  /\ UNCHANGED <<operands, global_vars>>

Ret ==
  /\ Exec({"RET"})
  /\ rsp' = rsp - 1
  /\ Goto(return_stack[rsp - 1])
  /\ PrevFrame
  /\ UNCHANGED <<return_stack, operands, global_vars>>

-----------------------------------------------------------------------------
(* tvm_run leaves its loop: it frees the current frame only. *)
Stop ==
  /\ status = "running" /\ ~Looping
  /\ status' = "stopped"
  /\ live' = live \ {frame}
  /\ UNCHANGED <<program, operands, returns, frame, prev, next, local_vars,
                 global_vars, ip, halted>>

Init ==
  /\ program \in Programs
  /\ stack = [s \in Slots |-> Blank] /\ sp = 0
  /\ return_stack = [s \in 0 .. RetCap - 1 |-> 0] /\ rsp = 0
  /\ frame \in FrameId /\ live = {frame}
  /\ prev = [f \in FrameId |-> Junk] /\ next = [f \in FrameId |-> Junk]
  /\ local_vars = [f \in FrameId |-> NoVars]
  /\ global_vars = NoVars
  /\ ip = 0 /\ halted = FALSE
  /\ status = "running"

OpcodeStep ==
  \/ Nop \/ Halt
  \/ PushOperand \/ PopOperand \/ BinaryOp \/ UnaryOp \/ Dup \/ Cln \/ Swap
  \/ LoadC \/ ALoadC \/ Puts
  \/ Load \/ Store \/ GLoad \/ GStore
  \/ Jump \/ Branch \/ Call \/ Ret

Next == Trap \/ OpcodeStep \/ Stop

Spec == Init /\ [][Next]_vars

(* The interpreter is one thread that takes a step whenever it can. *)
FairSpec == Spec /\ WF_vars(Next)

-----------------------------------------------------------------------------
(* Properties.                                                             *)

(* Every variable stays in its domain.  In particular the operand and the  *)
(* return stack never pass their arrays and ip never leaves the code by    *)
(* more than the zero behind it (tvm.h:1072 allows ip = size).             *)
TypeOK ==
  /\ program \in Program
  /\ stack \in [Slots -> Object] /\ sp \in 0 .. StackCap
  /\ return_stack \in [0 .. RetCap - 1 -> Nat] /\ rsp \in 0 .. RetCap
  /\ frame \in FrameId /\ live \subseteq FrameId
  /\ prev \in [FrameId -> FrameId \union {Junk}]
  /\ next \in [FrameId -> FrameId \union {Junk}]
  /\ local_vars \in [FrameId -> [Vars -> Object]]
  /\ global_vars \in [Vars -> Object]
  /\ ip \in 0 .. size + 1 /\ halted \in BOOLEAN
  /\ status \in Exception \union {"running", "stopped", "crashed"}

(* c lists the frames of the active calls, oldest first. *)
IsChain(c) ==
  /\ c[rsp] = frame
  /\ \A i, j \in 0 .. rsp : c[i] = c[j] => i = j
  /\ \A i \in 0 .. rsp - 1 : next[c[i]] = c[i + 1] /\ prev[c[i + 1]] = c[i]
  /\ live = {c[i] : i \in 0 .. rsp} \ (IF status = "stopped" THEN {frame} ELSE {})

(* The frame list and the return stack never disagree: there is one frame  *)
(* for each active call and one for the main program, linked both ways, no *)
(* other frame is allocated, and so OP_RET never follows an unwritten      *)
(* pointer and frees its own frame exactly once (tvm.h:628-644,1039-1050). *)
FrameChain == \E c \in [0 .. rsp -> FrameId] : IsChain(c)

(* Every active call will return to the instruction behind an OP_CALL,     *)
(* whatever jumps the program has made since (tvm.h:633,641).              *)
ReturnsBehindCalls ==
  \A i \in 0 .. rsp - 1 :
    return_stack[i] \in 1 .. size /\ program.code[return_stack[i]].op = "CALL"

(* The opcodes that move whole objects: no arithmetic, and neither OP_DUP  *)
(* nor OP_LOADC, which write the low word of a slot and keep the rest.     *)
MoveOps == {"NOP", "PUSH", "POP", "CLN", "SWAP", "ALOADC", "LOAD", "STORE", "GLOAD",
            "GSTORE", "JMP", "JZ", "JNZ", "CALL", "RET", "PUTS", "PUTC", "HALT"}

OnlyMoves == \A k \in 1 .. size : program.code[k].op \in MoveOps

(* A 64-bit value the program can have named: an operand, the address of a *)
(* constant, or a variable never stored to.                                *)
Named(o) ==
  \/ o.lo = 0 /\ o.hi = 0
  \/ \E k \in 1 .. size : program.code[k].arg.lo = o.lo /\ program.code[k].arg.hi = o.hi
  \/ \E k \in 1 .. Len(program.refs) :
       o.lo = AddrLo(program.refs[k]) /\ o.hi = AddrHi(program.refs[k])

(* In a program that only moves values, a value never has the low word of  *)
(* one and the high word of another: an address survives any path through  *)
(* the stack, the variables and the calls, even over slots that held other *)
(* values before (tvm.h:521-541, 837-876; compare tvm.h:517).              *)
NoTornValues ==
  OnlyMoves =>
    /\ \A s \in 0 .. sp - 1 : Named(stack[s])
    /\ \A f \in live, v \in Vars : Named(local_vars[f][v])
    /\ \A v \in Vars : Named(global_vars[v])

(* A program whose jumps all go forward; its calls may go anywhere. *)
LoopFree ==
  \A k \in 1 .. size :
    program.code[k].op \in {"JMP", "JZ", "JNZ"} => program.code[k].arg.lo >= k

(* Without a backward jump there is no endless run, not even by recursion: *)
(* each activation only moves forward and OP_CALL stops at a full return   *)
(* stack (tvm.h:628-644, 1072).                                            *)
Termination == LoopFree ~> status # "running"
=============================================================================
