---------------------------- MODULE TVMCallStack ----------------------------
(***************************************************************************)
(* The interpreter's frame list and return stack implement the nesting of  *)
(* activations that CallStack states.                                      *)
(***************************************************************************)
EXTENDS TVM

(* The frame of the i-th active call, found as OP_RET finds it: by the     *)
(* prev pointers from the current frame.                                   *)
FrameOf ==
  LET f[i \in 0 .. rsp] == IF i = rsp THEN frame ELSE prev[f[i + 1]] IN f

Activations ==
  [i \in 1 .. rsp + 1 |->
     [back   |-> IF i = 1 THEN 0 ELSE return_stack[i - 2],
      locals |-> local_vars[FrameOf[i - 1]]]]

Abstract == INSTANCE CallStack WITH
  Address <- Nat, Depth <- RetCap, Variable <- Vars, Value <- Object,
  Cleared <- Blank, pc <- ip, acts <- Activations

(* Calls nest: the steps of the interpreter, seen through the frame list   *)
(* and the return stack, are calls, returns, assignments to the running    *)
(* activation's variables, or steps that touch neither (tvm.h:628-644,     *)
(* 845-860, 1039-1050).                                                    *)
CallsNest == Abstract!Spec
=============================================================================
