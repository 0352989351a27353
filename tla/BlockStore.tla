------------------------------ MODULE BlockStore ------------------------------
(***************************************************************************)
(* What the heap promises a program that stays inside its blocks: a store  *)
(* of blocks of bytes, each with a size it keeps, in which one operation   *)
(* makes a block and another writes consecutive bytes of one block.        *)
(***************************************************************************)
EXTENDS Integers

CONSTANTS Id, Byte, Unset, Sizes, Primitive

VARIABLE store   \* the contents of every block there is

New ==
  \E id \in Id \ DOMAIN store, n \in Sizes :
    store' = [i \in DOMAIN store \union {id} |->
                IF i \in DOMAIN store THEN store[i] ELSE [k \in 0 .. n - 1 |-> Unset]]

(* The block id after the bytes x were written at offset. *)
Written(id, offset, x) ==
  [k \in DOMAIN store[id] |-> IF k - offset \in DOMAIN x THEN x[k - offset] ELSE store[id][k]]

(* An element of a primitive size, all of it inside the block. *)
Set ==
  \E id \in DOMAIN store, n \in Primitive :
    \E offset \in {k \in DOMAIN store[id] : k + n - 1 \in DOMAIN store[id]},
       x \in [0 .. n - 1 -> Byte] :
      store' = [store EXCEPT ![id] = Written(id, offset, x)]

Init == store = [i \in {} |-> Unset]
(* Writing what is there already is a stuttering step. *)
Next == store' # store /\ (New \/ Set)
Spec == Init /\ [][Next]_store
=============================================================================
