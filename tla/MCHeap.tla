------------------------------- MODULE MCHeap --------------------------------
(***************************************************************************)
(* Small instances of the whole interpreter for TLC, built for x86_64 and  *)
(* for i386: programs that allocate, set and read blocks and call native   *)
(* functions; for x86_64 also the programs of MCTVM that call, return and  *)
(* move values.                                                            *)
(***************************************************************************)
EXTENDS MCTVM, TVMNative

CONSTANTS v0, v1, v2, a0, a1

MCBuffer == {v0, v1, v2}
MCBase == {a0, a1}
OneFrame == {f0}   \* for programs that do not call

(* Words of 4 bits, bytes of 2, so 256 addresses: the constants from 17 up, *)
(* two arrays of up to 4 headers, and three buffers, the first across the   *)
(* end of a word.                                                           *)
MCHeaderAt == [b \in MCBase |-> IF b = a0 THEN 32 ELSE 112]
MCBufferAt == [v \in MCBuffer |-> IF v = v0 THEN 206 ELSE IF v = v1 THEN 216 ELSE 224]

O(op) == [op |-> op, arg |-> Blank]

Alloc(n, pointers, x) == <<I("PUSH", n), I("PUSH", pointers), O("HALLOC"), I("STORE", x)>>
SetAt(op, value, x, k, n) == <<value, I("LOAD", x), I("PUSH", k), I("PUSH", n), O(op)>>
GetAt(x, n) == <<I("LOAD", x), O("DEREF"), I("DEREFB", n), O("POP")>>
GetFrom(x, k, n) == <<I("LOAD", x), O("DEREF"), I("PUSH", k), O("ADD"), I("DEREFB", n), O("POP")>>

Sets ==
  {SetAt("HSET", v, x, k, n) :
     v \in {I("PUSH", 9), I("LOAD", 0)}, x \in {0, 1}, k \in {0, 1, 8}, n \in {1, 2, 4}}
  \union {SetAt("HSETOF", I("PUSH", 9), 0, k, n) : k \in {1, 3}, n \in {2, 3}}
Gets == {GetAt(0, 1), GetAt(0, 2), GetFrom(0, 2, 1), GetAt(1, 3)}

(* Each function once, an index behind the last and one behind the table,   *)
(* over full, half full and empty stacks.                                   *)
MCFunctions ==
  <<[acount |-> 2, void |-> FALSE, fits |-> TRUE, prepared |-> TRUE, found |-> TRUE],
    [acount |-> 0, void |-> FALSE, fits |-> TRUE, prepared |-> FALSE, found |-> TRUE],
    [acount |-> 1, void |-> TRUE, fits |-> TRUE, prepared |-> TRUE, found |-> TRUE],
    [acount |-> 0, void |-> TRUE, fits |-> TRUE, prepared |-> TRUE, found |-> FALSE],
    [acount |-> 3, void |-> FALSE, fits |-> TRUE, prepared |-> TRUE, found |-> TRUE]>>
Pushes(n) == [k \in 1 .. n |-> I("PUSH", k)]
NativePrograms ==
  {Pushes(n) \o <<I("NATIVE", f)>> \o rest :
     n \in 0 .. 4, f \in {0, 1, 2, 3, 4, 5, 7}, rest \in {<<>>, <<I("NATIVE", 1), O("HALT")>>}}

(* Every heap opcode on a stack that is too small, and memory that is not   *)
(* the program's.                                                           *)
StrayPrograms ==
  {Pushes(n) \o <<[op |-> op, arg |-> Num(1)]>> : n \in 0 .. 4, op \in HeapOps}
  \union {<<I("ALOADC", 0), I("DEREFB", n)>> : n \in {1, 4}}

HeapPrograms ==
  {Alloc(n, p, 0) \o f \o g : n \in {4, 5}, p \in {0, 1}, f \in Sets, g \in Gets \union {Alloc(4, 0, 1)}}
  \union {Alloc(4, 0, 0) \o Alloc(4, 0, 1) \o f \o g \o h : f, g, h \in
            {SetAt("HSET", I("LOAD", 1), 0, 0, 4), SetAt("HSET", I("PUSH", 9), 1, 1, 2),
             GetAt(1, 1), Alloc(4, 0, 1)}}
  \union {Alloc(4, 0, 0) \o SetAt("HSET", I("LOAD", 0), 0, 0, 4) \o GetAt(0, 4) \o GetAt(0, 2)}

(* The values moved by four instructions, of those that tear or keep them. *)
Moves == {I("PUSH", 1), I("CLN", 1), I("SWAP", 1), I("ALOADC", 0), I("STORE", 0), I("LOAD", 0),
          I("GSTORE", 0), O("DUP")}

(* Shorter codes first: the union is then nearly sorted as TLC wants it. *)
MCPrograms ==
  WithData(Codes(DataInstrs, 3) \union [1 .. 4 -> Moves] \union NativePrograms \union StrayPrograms
             \union ControlCodes \union HeapPrograms)

-----------------------------------------------------------------------------
(* The build for i386: words of 8 bits, bytes of 2, and so 256 addresses,   *)
(* one word each.  A block of 20 has a place for the second word where the  *)
(* scaled offset leads, one of 8 has not; a product of 64 wraps.            *)
I386Buffer == {v0, v1}
I386HeaderAt == [b \in MCBase |-> IF b = a0 THEN 16 ELSE 112]
I386BufferAt == [v \in I386Buffer |-> IF v = v0 THEN 208 ELSE 228]
I386Functions ==
  <<[acount |-> 1, void |-> FALSE, fits |-> FALSE, prepared |-> TRUE, found |-> TRUE],
    [acount |-> 1, void |-> FALSE, fits |-> FALSE, prepared |-> FALSE, found |-> TRUE]>>

I386Sets ==
  {SetAt(op, I("PUSH", 9), 0, k, n) :
     op \in {"HSET", "HSETOF"}, k \in {0, 1, 2, 4, 6, 7, 8, 64, 65}, n \in {1, 4, 8}}
I386Gets == {GetAt(0, 1), GetAt(0, 4), GetAt(0, 8), GetFrom(0, 4, 1), GetFrom(0, 16, 4)}
I386Programs ==
  WithData(
    {Alloc(n, p, 0) \o f \o g : n \in {8, 20}, p \in {0, 1}, f \in I386Sets, g \in I386Gets}
    \union {Alloc(8, 0, 0) \o Alloc(8, 0, 1) \o f \o g : f \in I386Sets, g \in I386Gets}
    \union {<<I("PUSH", 1), I("NATIVE", f), I("ALOADC", 0), O("PUTS")>> : f \in 0 .. 1})
=============================================================================
