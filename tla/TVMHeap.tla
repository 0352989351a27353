------------------------------- MODULE TVMHeap -------------------------------
(***************************************************************************)
(* The opcodes of the garbage-collected heap (OP_HALLOC, OP_DEREF,         *)
(* OP_DEREFB, OP_HSET and OP_HSETOF of src/include/tvm/tvm.h) on the heap  *)
(* of TGC, with the addresses they compute and the bytes they read and     *)
(* write.                                                                  *)
(*                                                                         *)
(* The code has a part for each compiler target (#ifdef __x86_64__,        *)
(* #elif defined(__i386__)); which one is built is the parameter Arch.     *)
(*                                                                         *)
(* An access outside what the program owns ends the model: it may fault,   *)
(* and a write that does not leaves the process corrupt.                   *)
(***************************************************************************)
EXTENDS TVM

CONSTANTS
  Arch,        \* "x86_64", "i386", or "neither": a compiler with neither macro
  HeaderBytes, \* sizeof(gc_block): 40, or 32 where a uint64_t is aligned to 4
  Buffer, Base, Nowhere, ArrayMin, MaxPointers, MaxBlocks,   \* as in TGC
  BufferAt,    \* the address of each buffer
  HeaderAt,    \* the address of the first header of each array
  BufferRoom,  \* bound: size of a block
  Unset        \* a byte of a buffer nobody has written yet

VARIABLES base, cap, len, mem, count, bufs, held, handles, cursor, doomed, corrupt,   \* as in TGC
          bytes   \* the contents of the buffers

G == INSTANCE TGC WITH Sizes <- Word

heap == <<base, cap, len, mem, count, bufs, held, handles, cursor, doomed, corrupt, bytes>>

Byte == 0 .. ByteValues - 1
Space == IF OneWord THEN W ELSE W * W   \* the number of addresses

ASSUME ArchAssumption ==
  \/ Arch = "x86_64" /\ ~OneWord
  \/ Arch = "i386" /\ OneWord
  \/ Arch = "neither"

ASSUME HeapAssumption ==
  /\ Junk \notin Buffer /\ Nowhere \notin Buffer /\ IsFiniteSet(Buffer)
  /\ Nowhere \notin Base /\ Base # {}
  /\ ArrayMin \in Nat \ {0} /\ MaxPointers \in Nat /\ MaxBlocks \in Nat /\ BufferRoom \in Nat
(* Buffers and arrays are in the address space; value is a header's first  *)
(* field.                                                                  *)
ASSUME AddressAssumption ==
  /\ HeaderBytes \in {8 * WordBytes, 10 * WordBytes}
  /\ BufferAt \in [Buffer -> 0 .. Space - 1]
  /\ HeaderAt \in [Base -> 0 .. Space - 1]
  /\ \A b \in Base : HeaderAt[b] + MaxBlocks * HeaderBytes < Space
  /\ Unset \notin Byte

(* The sizes OP_DEREFB reads: 1, 4, and 8 under __x86_64__; and those      *)
(* OP_HSET and OP_HSETOF write, whose cases all are under one of the two   *)
(* targets.                                                                *)
ReadSizes == {1, WordBytes} \union (IF Arch = "x86_64" THEN {PtrBytes} ELSE {})
WriteSizes == IF Arch = "neither" THEN {} ELSE ReadSizes

(* They divide 2^32.  The laws of exponents are there because the provers  *)
(* lack them.                                                              *)
ASSUME SizesAssumption ==
  /\ \A n \in {1, WordBytes, PtrBytes} : W % n = 0
  /\ ByteValues^1 = ByteValues /\ ByteValues <= W /\ ByteValues^PtrBytes = Space

-----------------------------------------------------------------------------
(* Memory.                                                                 *)

(* ui64 of an object, as a number and as a pointer. *)
AddressOf(o) == o.lo + W * o.hi

(* tgc_create_block's result and what OP_HSET takes for a gc_block*. *)
HeaderAddress(b, i) == HeaderAt[b] + i * HeaderBytes

ByteOf(x, i) == (x \div ByteValues^i) % ByteValues

(* What the byte at address a is known to hold: a byte of a buffer, of the *)
(* constant table, or of the value field of a header.                      *)
Known(a) ==
  {bytes[v][a - BufferAt[v]] : v \in {b \in bufs : a - BufferAt[b] \in DOMAIN bytes[b]}}
  \union {program.data[k] : k \in {j \in 1 .. Len(program.data) : (DataLo + W * DataHi + j - 1) % Space = a}}
  \union {ByteOf(BufferAt[mem[i].value], a - HeaderAddress(base, i)) :
            i \in {j \in 0 .. len - 1 : /\ mem[j].value # Junk
                                        /\ a - HeaderAddress(base, j) \in 0 .. PtrBytes - 1}}

InArray(a) == base # Nowhere /\ a - HeaderAt[base] \in 0 .. cap * HeaderBytes - 1

(* A read of n bytes at a yields anything where memory holds nothing known, *)
(* and may fault where it holds nothing at all.                             *)
Read(a, n) ==
  LET at == [i \in 0 .. n - 1 |-> Known(a + i) \ {Unset}] IN
  {x \in 0 .. ByteValues^n - 1 : \A i \in 0 .. n - 1 : at[i] = {} \/ ByteOf(x, i) \in at[i]}
Faults(a, n) == \E i \in 0 .. n - 1 : Known(a + i) = {} /\ ~InArray(a + i)

(* Conversion of n bytes to ui64.  OP_DEREF reads a uintptr_t, OP_DEREFB a *)
(* char or an int32_t, which are signed.                                   *)
Extended(x, n) ==
  IF Inst.op = "DEREF" \/ 2 * x < ByteValues^n THEN x ELSE Space - ByteValues^n + x

-----------------------------------------------------------------------------
(* Checks.                                                                 *)

HeapFault ==
  LET op == Inst.op IN
  CASE op = "HALLOC" -> Need(2)
    [] op = "DEREF"  -> Need(1)
    [] op = "DEREFB" -> FirstOf(Need(1), Check(arg \in ReadSizes, "INVALID_BYTE_SIZE"))
    [] op \in {"HSET", "HSETOF"} -> Need(4)

HeapExec(ops) == Looping /\ Inst.op \in ops /\ HeapFault = "OK"

HeapTrap ==
  Looping /\ Inst.op \in HeapOps /\ HeapFault # "OK" /\ Raise(HeapFault) /\ UNCHANGED heap

-----------------------------------------------------------------------------
(* Handlers.                                                               *)

(* The buffer of a new block holds nothing known. *)
HAlloc ==
  /\ HeapExec({"HALLOC"})
  /\ Second.lo <= BufferRoom
  /\ G!CreateBlock(Second.lo, Top.lo)
  /\ bytes' = [v \in bufs' |-> IF v \in bufs THEN bytes[v] ELSE [i \in 0 .. Second.lo - 1 |-> Unset]]
  /\ LET a == HeaderAddress(base', G!NewIndex([len |-> len'])) IN
       stack' = [stack EXCEPT ![sp - 2] = [type |-> "DATA_ADDRESS", lo |-> a % W, hi |-> a \div W]]
  /\ sp' = sp - 1
  /\ Advance
  /\ UNCHANGED <<frames, global_vars>>

(* OP_DEREF reads a pointer, OP_DEREFB as many bytes as its operand says.  *)
(* The tag of the object stays.                                            *)
Deref ==
  /\ HeapExec({"DEREF", "DEREFB"})
  /\ LET a == AddressOf(Top)
         n == IF Inst.op = "DEREF" THEN PtrBytes ELSE arg
     IN \/ /\ \E x \in Read(a, n) :
                stack' = [stack EXCEPT ![sp - 1].lo = Extended(x, n) % W,
                                       ![sp - 1].hi = Extended(x, n) \div W]
           /\ Advance
           /\ UNCHANGED <<sp, frames, global_vars>>
        \/ Faults(a, n) /\ Crash
  /\ UNCHANGED heap

(* The operands of OP_HSET and OP_HSETOF. *)
ElementSize == Top.lo
Offset_Unscaled == Second.lo   \* faulty: forgets the size of an element
Offset == IF Inst.op = "HSET" THEN (Second.lo * ElementSize) % W ELSE Second.lo
Value == AddressOf(stack[sp - 4])

(* The headers the address operand reaches: one, or none if it is stale,   *)
(* or anything else, or of a header tgc_create_block reserved and nobody   *)
(* wrote.                                                                  *)
TargetHeaders == {i \in 0 .. len - 1 : /\ mem[i].value # Junk
                                       /\ AddressOf(stack[sp - 3]) = HeaderAddress(base, i)}

(* Where the element goes, counted from the beginning of the buffer.  The  *)
(* offset is in bytes; the build for i386 adds it to a pointer to words    *)
(* for an element of a word, so that it counts words (tvm.h:936).          *)
Place ==
  IF Arch = "i386" /\ ElementSize = WordBytes THEN (WordBytes * Offset) % W ELSE Offset

Write_Pointer(v) ==   \* faulty: stores all of ui64 whatever the size
  bytes' = [bytes EXCEPT ![v] = [i \in DOMAIN @ |->
              IF i \in Place .. Place + PtrBytes - 1 THEN ByteOf(Value, i - Place) ELSE @[i]]]
Write(v) ==
  bytes' = [bytes EXCEPT ![v] = [i \in DOMAIN @ |->
              IF i \in Place .. Place + ElementSize - 1 THEN ByteOf(Value, i - Place) ELSE @[i]]]

InBlock_AtEnd(i) == Offset <= mem[i].size   \* faulty: lets the index behind the last pass
InBlock(i) == Offset < mem[i].size

Spoil == corrupt' = TRUE /\ UNCHANGED <<vars, base, cap, len, mem, count, bufs, held, handles,
                                        cursor, doomed, bytes>>

(* The write the checks let pass.  They look at the offset and not at where *)
(* the write ends: the last element may reach over the end of the buffer,   *)
(* and on i386 a word may lie behind it altogether.                         *)
SetElement(i) ==
  IF Place + ElementSize <= mem[i].size
    THEN /\ Write(mem[i].value)
         /\ sp' = sp - 4
         /\ Advance
         /\ UNCHANGED <<stack, frames, global_vars, base, cap, len, mem, count, bufs, held,
                        handles, cursor, doomed, corrupt>>
    ELSE Spoil

HSet ==
  /\ HeapExec({"HSET", "HSETOF"})
  /\ \E i \in TargetHeaders :
       \/ ~InBlock(i) /\ Raise("INVALID_ARRAY_INDEX") /\ UNCHANGED heap
       \/ /\ InBlock(i) /\ ElementSize \notin WriteSizes
          /\ Raise("INVALID_PRIMITIVE_SIZE") /\ UNCHANGED heap
       \/ InBlock(i) /\ ElementSize \in WriteSizes /\ SetElement(i)

(* addr->size and addr->value of something that is no header. *)
HSetWild ==
  /\ HeapExec({"HSET", "HSETOF"})
  /\ TargetHeaders = {}
  /\ \/ Raise("INVALID_ARRAY_INDEX") /\ UNCHANGED heap
     \/ ElementSize \notin WriteSizes /\ Raise("INVALID_PRIMITIVE_SIZE") /\ UNCHANGED heap
     \/ ElementSize \in WriteSizes /\ Spoil
     \/ Crash /\ UNCHANGED heap

(* Leaving tvm_run's loop frees the array of headers, but no buffer. *)
HeapStop ==
  /\ Stop
  /\ base' = Nowhere /\ cap' = 0 /\ len' = 0 /\ mem' = [i \in {} |-> G!Unwritten]
  /\ UNCHANGED <<count, bufs, held, handles, cursor, doomed, corrupt, bytes>>

HeapInit == Init /\ G!Init /\ bytes = [v \in {} |-> Unset]

HeapStep == HeapTrap \/ HAlloc \/ Deref \/ HSet \/ HSetWild

-----------------------------------------------------------------------------
(* Properties.                                                             *)

(* Every variable of the whole interpreter stays in its domain: the        *)
(* operand stack never passes its array, also when a heap opcode or a      *)
(* native call takes several operands at once (tvm.h:877-1011).            *)
HeapTypeOK ==
  /\ TypeOK /\ G!TypeOK
  /\ DOMAIN bytes = bufs
  /\ \A v \in bufs : \A i \in DOMAIN bytes[v] : bytes[v][i] \in Byte \union {Unset}

(* An address OP_HALLOC returned reaches, until the array of headers moves, *)
(* the header of the block it was returned for, and the size every later    *)
(* OP_HSET checks against is the one malloc was asked for, through any      *)
(* allocations, jumps and native calls between (tvm.h:877-884, 920).        *)
HeadersDescribeBuffers ==
  \A h \in handles : h.base = base =>
    /\ mem[h.index].value = h.value /\ mem[h.index].size = h.size
    /\ DOMAIN bytes[h.value] = 0 .. h.size - 1

(* The address operand is one OP_HALLOC returned and the array is where it was. *)
FreshAddress ==
  \E h \in handles : h.base = base /\ AddressOf(stack[sp - 3]) = HeaderAddress(h.base, h.index)
=============================================================================
