------------------------------- MODULE MCTGC --------------------------------
(* Small instances of the heap for TLC. *)
EXTENDS TGC, TLC

CONSTANTS v0, v1, v2, v3, v4, a0, a1

MCBuffer == {v0, v1, v2}
MCBuffer5 == {v0, v1, v2, v3, v4}
MCBase == {a0, a1}
HeapSymmetry == Permutations(Buffer) \union Permutations(Base)
=============================================================================
