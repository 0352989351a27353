------------------------------ MODULE TVMNative ------------------------------
(***************************************************************************)
(* OP_NATIVE of src/include/tvm/tvm.h: a call of a C function declared in  *)
(* the program's first module.  With it every opcode has its step, and     *)
(* ProcessSpec is the whole interpreter.                                   *)
(*                                                                         *)
(* The function called is external: it may return any word, and it is      *)
(* taken to leave the interpreter's memory alone.  TVMMain shows where the *)
(* functions come from.                                                    *)
(***************************************************************************)
EXTENDS TVMHeap

CONSTANTS
  Functions,  \* modules[0].cfuns, as prepared: sequence of NativeFunction
  MaxCfuns,   \* TVM_METADATA_MAX_CFUN_CAPACITY: 512
  VargsCap    \* the local array of argument pointers: 64

(* acount and void are in the program's record; fits says that the result  *)
(* is not longer than the unsigned long there is for it (a u64 is, where   *)
(* that has 32 bits), prepared that ffi_prep_cif succeeded, found that     *)
(* dlsym will find the symbol.                                             *)
NativeFunction ==
  [acount : Nat, void : BOOLEAN, fits : BOOLEAN, prepared : BOOLEAN, found : BOOLEAN]

ASSUME FunctionsAssumption == Functions \in Seq(NativeFunction) /\ Len(Functions) <= MaxCfuns

(* The argument counts record i can have, which the code reads before it   *)
(* checks i: records behind the last are zero, and there are MaxCfuns.     *)
ACount(i) ==
  IF i < Len(Functions) THEN {Functions[i + 1].acount}
  ELSE IF i < MaxCfuns THEN {0} ELSE Word

Declared(i) == i < Len(Functions)

NativeFaults_NoRoom ==   \* faulty: no check of the room for the result
  (IF \E n \in ACount(arg) : sp < n THEN {"STACK_UNDERFLOW"} ELSE {})
  \union (IF Declared(arg) THEN {} ELSE {"INVALID_NATIVE_FUNCTION_ACCESS"})
NativeFaults ==
  (IF \E n \in ACount(arg) : sp < n THEN {"STACK_UNDERFLOW"} ELSE {})
  \union
  (IF \E n \in ACount(arg) : n <= sp
     THEN IF sp >= StackCap THEN {"STACK_OVERFLOW"}
          ELSE IF Declared(arg) THEN {} ELSE {"INVALID_NATIVE_FUNCTION_ACCESS"}
     ELSE {})

NativeTrap ==
  /\ Looping /\ Inst.op \in NativeOps
  /\ \/ \E e \in NativeFaults : Raise(e)
     \/ arg >= MaxCfuns /\ Crash
  /\ UNCHANGED heap

(* tci_native_call: a function that was not prepared is not called, and    *)
(* leaves the 0 the result was initialised with.                           *)
Results(f) == IF f.prepared THEN Word ELSE {0}

(* The result is one word, over whatever the popped slot held. *)
Return(f, w) ==
  stack' = [stack EXCEPT ![sp - f.acount].lo = w] /\ sp' = sp - f.acount + 1

(* Local memory of the handler that is overwritten: its array of argument  *)
(* pointers, or its result by the call.                                    *)
Overruns(f) == f.acount > VargsCap \/ (f.prepared /\ f.found /\ ~f.void /\ ~f.fits)

(* A symbol that is missing unloads every module and is then called.       *)
NativeCall ==
  /\ Looping /\ Inst.op \in NativeOps /\ NativeFaults = {} /\ Declared(arg)
  /\ LET f == Functions[arg + 1] IN
     \/ Overruns(f) /\ Spoil
     \/ /\ f.acount <= VargsCap /\ f.prepared /\ ~f.found
        /\ Crash /\ UNCHANGED heap
     \/ /\ ~Overruns(f) /\ (f.prepared => f.found)
        /\ IF f.void THEN sp' = sp - f.acount /\ UNCHANGED stack
           ELSE \E w \in Results(f) : Return(f, w)
        /\ Advance
        /\ UNCHANGED <<frames, global_vars, heap>>

ProcessNext ==
  /\ ~corrupt
  /\ HeapStep \/ HeapStop \/ NativeTrap \/ NativeCall
     \/ ((Trap \/ OpcodeStep) /\ UNCHANGED heap)

ProcessSpec == HeapInit /\ [][ProcessNext]_<<vars, heap>>

-----------------------------------------------------------------------------
(* Properties.                                                             *)

Blocks == INSTANCE BlockStore WITH Id <- Buffer, Sizes <- 0 .. BufferRoom, Primitive <- WriteSizes, store <- bytes

(* Seen through the buffers, the process only makes blocks and writes      *)
(* whole elements inside one block, whatever the array of headers, the     *)
(* stack and the native functions do (tvm.h:877-972; an overrun is where   *)
(* the model ends, see WritesStayInside).                                  *)
ImplementsBlockStore == Blocks!Spec

(* How the process can be spoilt.  OP_HSET's one check, made on a product  *)
(* that wraps, is enough through a fresh address of a block whose size is  *)
(* a multiple of the element's: then the write that it lets pass also ends *)
(* inside (tvm.h:915-938).  The build for i386, where an offset of words   *)
(* is scaled twice, has this only for bytes and for the first word         *)
(* (tvm.h:936).  OP_HSETOF has no such help, and OP_NATIVE fills its array *)
(* of argument pointers, and may have its result filled, unchecked         *)
(* (tvm.h:996-1008).                                                       *)
WritesStayInside ==
  corrupt =>
    \/ Inst.op = "HSETOF"
    \/ Inst.op = "NATIVE" /\ (Functions[arg + 1].acount > VargsCap \/ ~Functions[arg + 1].fits)
    \/ Inst.op = "HSET" /\ ~FreshAddress
    \/ Inst.op = "HSET" /\ \E i \in TargetHeaders : mem[i].size % ElementSize # 0
    \/ Inst.op = "HSET" /\ Arch = "i386" /\ ElementSize = WordBytes /\ Offset # 0
=============================================================================
