------------------------------ MODULE CallStack ------------------------------
(***************************************************************************)
(* What a program may rely on when it calls a procedure, whatever the      *)
(* interpreter does to keep frames and return addresses: activations nest. *)
(* A call starts an activation with cleared variables; a return drops it,  *)
(* goes to the address behind the call and finds the caller's variables as *)
(* they were; nothing but the running activation's own stores changes any  *)
(* variable.                                                               *)
(***************************************************************************)
EXTENDS Integers, Sequences

CONSTANTS
  Address,  \* instruction addresses
  Depth,    \* number of nested calls that are promised
  Variable, \* the local variables of an activation
  Value,    \* what a variable may hold
  Cleared   \* what it holds at first

VARIABLES
  pc,       \* the running activation's next instruction
  acts      \* activations, the running one last: [back, locals]

vars == <<pc, acts>>

Fresh(back) == [back |-> back, locals |-> [v \in Variable |-> Cleared]]

Init == pc = 0 /\ acts = <<Fresh(0)>>

(* Compute, or branch within the program. *)
Compute == pc' \in Address /\ UNCHANGED acts

Assign ==
  /\ pc' = pc + 1
  /\ \E v \in Variable, o \in Value : acts' = [acts EXCEPT ![Len(acts)].locals[v] = o]

Call ==
  /\ Len(acts) <= Depth
  /\ pc' \in Address
  /\ acts' = Append(acts, Fresh(pc + 1))

Return ==
  /\ Len(acts) > 1
  /\ pc' = acts[Len(acts)].back
  /\ acts' = SubSeq(acts, 1, Len(acts) - 1)

Next == Compute \/ Assign \/ Call \/ Return

Spec == Init /\ [][Next]_vars
=============================================================================
