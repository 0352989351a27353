------------------------------ MODULE TGCProofs ------------------------------
(***************************************************************************)
(* Machine-checked safety of the heap of module TGC, for any buffers, any  *)
(* places of the array, any sizes and bounds.                              *)
(***************************************************************************)
EXTENDS TGC, TLAPS

-----------------------------------------------------------------------------
(* stb_ds arrays.                                                          *)

Memories == UNION {[0 .. c - 1 -> Block] : c \in Nat}
Arrays == [base : Base \union {Nowhere}, cap : Nat, len : Nat, mem : Memories]

(* Memory m of c slots, grown from the array a: what it had is where it    *)
(* was, and the rest nobody wrote.                                         *)
Grows(m, c, a) == \A i \in 0 .. c - 1 : m[i] = IF i < a.cap THEN a.mem[i] ELSE Unwritten

(* An array whose header says what its memory is. *)
Sound(a) == a \in Arrays /\ a.len <= a.cap /\ a.mem \in [0 .. a.cap - 1 -> Block]

LEMMA BlockTypes == Unwritten \in Block /\ Junk \notin Buffer
  BY BufferAssumption DEF Unwritten, Block

(* stbds_arrgrowf never allocates less than it is asked for. *)
LEMMA GrownEnough ==
  ASSUME NEW n \in Nat, NEW c \in Nat
  PROVE  Grown(n, c) \in Nat /\ Grown(n, c) >= n /\ Grown(n, c) >= c
  BY BoundAssumption DEF Grown

(* The array with room for n more holds the same headers, has that room and *)
(* is somewhere.                                                           *)
LEMMA ReserveRoom ==
  ASSUME NEW a, Sound(a), NEW n \in Nat, NEW b \in Reserve(a, n)
  PROVE  /\ Sound(b)
         /\ b.base \in Base /\ b.len = a.len /\ b.len + n <= b.cap
         /\ a.cap <= b.cap /\ Grows(b.mem, b.cap, a)
<1>0. a.cap \in Nat /\ a.len \in Nat /\ a.base \in Base \union {Nowhere}
  BY DEF Sound, Arrays
<1>1. CASE a.base # Nowhere /\ a.len + n <= a.cap
  BY <1>0, <1>1 DEF Reserve, Grows
<1>2. CASE ~(a.base # Nowhere /\ a.len + n <= a.cap)
  <2> DEFINE c == Grown(a.len + n, a.cap)
             m == [i \in 0 .. c - 1 |-> IF i < a.cap THEN a.mem[i] ELSE Unwritten]
  <2>1. PICK x \in Base : b = [a EXCEPT !.base = x, !.cap = c, !.mem = m]
    BY <1>2 DEF Reserve
  <2>2. c \in Nat /\ c >= a.len + n /\ c >= a.cap
    <3>1. a.len + n \in Nat
      BY <1>0
    <3> QED
      BY <1>0, <3>1, GrownEnough
  <2> HIDE DEF c
  <2>3. m \in [0 .. c - 1 -> Block]
    BY <1>0, <2>2, BlockTypes DEF Sound
  <2>4. Grows(m, c, a)
    BY <1>0, <2>2 DEF Grows
  <2> HIDE DEF m
  <2>5. m \in Memories
    BY <2>2, <2>3 DEF Memories
  <2>6. b \in Arrays /\ b.base = x /\ b.cap = c /\ b.len = a.len /\ b.mem = m
    BY <2>1, <2>2, <2>5 DEF Sound, Arrays
  <2> QED
    BY <1>0, <2>2, <2>3, <2>4, <2>6 DEF Sound
<1> QED
  BY <1>1, <1>2

(* arrput behind the last header, into a slot that is there. *)
LEMMA PutLast ==
  ASSUME NEW a, Sound(a), a.len < a.cap, NEW block \in Block
  PROVE  /\ Sound(Put(a, block))
         /\ Put(a, block).base = a.base /\ Put(a, block).len = a.len + 1
         /\ Put(a, block).cap = a.cap /\ Put(a, block).mem[a.len] = block
         /\ \A i \in 0 .. a.cap - 1 : i # a.len => Put(a, block).mem[i] = a.mem[i]
<1> DEFINE m == [a.mem EXCEPT ![a.len] = block]
           b == Put(a, block)
<1>0. a.cap \in Nat /\ a.len \in 0 .. a.cap - 1
  BY DEF Sound, Arrays
<1>1. m \in [0 .. a.cap - 1 -> Block] /\ m[a.len] = block
        /\ \A i \in 0 .. a.cap - 1 : i # a.len => m[i] = a.mem[i]
  BY <1>0 DEF Sound
<1>2. m \in Memories
  BY <1>0, <1>1 DEF Memories
<1> HIDE DEF m
<1>3. b = [a EXCEPT !.mem = m, !.len = a.len + 1]
  BY DEF Put, m
<1>4. b \in Arrays /\ b.base = a.base /\ b.cap = a.cap /\ b.len = a.len + 1 /\ b.mem = m
  <2>1. a \in Arrays /\ a.len + 1 \in Nat
    BY <1>0 DEF Sound
  <2> HIDE DEF b
  <2> QED
    BY <1>2, <1>3, <2>1 DEF Arrays
<1> QED
  BY <1>0, <1>1, <1>4 DEF Sound

-----------------------------------------------------------------------------
(* tgc_create_block, seen from outside: which headers there are after it.  *)

Kept(m, n) == \A i \in 0 .. n - 1 : m[i] = mem[i]

LEMMA CreateEffect ==
  ASSUME TypeOK, NEW size \in Nat, NEW pointers \in Nat, CreateBlock(size, pointers)
  PROVE  /\ base' \in Base /\ cap' \in Nat /\ len' \in 0 .. cap' /\ mem' \in [0 .. cap' - 1 -> Block]
         /\ len' = len + 1 + pointers /\ Kept(mem', len)
         /\ \A i \in 0 .. cap' - 1 :
              i = len \/ mem'[i] = Unwritten \/ (i < cap /\ mem'[i] = mem[i])
         /\ \E v \in Buffer \ bufs :
              /\ mem'[len].value = v /\ mem'[len].size = size
              /\ bufs' = bufs \union {v}
              /\ held' = held \union {[base |-> base', index |-> count]}
              /\ handles' = handles \union
                   {[base |-> base', index |-> count, value |-> v, size |-> size]}
<1>0. len \in Nat /\ cap \in Nat /\ len <= cap
  BY DEF TypeOK
<1>1. PICK v \in Buffer \ bufs, a1 \in Reserve(Array, 1) :
        LET block == [value |-> v, size |-> size, marked |-> FALSE]
            a2 == Put(a1, block)
        IN  \E a3 \in (IF pointers = 0 THEN {a2} ELSE Reserve(a2, pointers)) :
              LET a == [a3 EXCEPT !.len = a3.len + pointers] IN
              /\ SetArray(a)
              /\ bufs' = bufs \union {v}
              /\ held' = held \union {[base |-> a.base, index |-> NewIndex(a)]}
              /\ handles' = handles \union
                   {[base |-> a.base, index |-> NewIndex(a), value |-> v, size |-> size]}
  BY DEF CreateBlock
<1> DEFINE block == [value |-> v, size |-> size, marked |-> FALSE]
           a2 == Put(a1, block)
<1>2. Sound(Array) /\ Array.len = len /\ Array.mem = mem /\ Array.cap = cap
  BY DEF Sound, Array, Arrays, Memories, TypeOK
<1>3. block \in Block /\ block.value = v /\ block.size = size
  BY <1>0, <1>1 DEF Block
<1>4. /\ Sound(a1) /\ a1.base \in Base /\ a1.len = len /\ a1.len + 1 <= a1.cap
      /\ a1.cap \in Nat /\ cap <= a1.cap /\ Grows(a1.mem, a1.cap, Array)
  BY <1>1, <1>2, ReserveRoom DEF Sound, Arrays
<1>5. a1.len < a1.cap
  BY <1>4 DEF Sound, Arrays
<1> HIDE DEF block
<1>6. /\ Sound(a2) /\ a2.base \in Base /\ a2.len = len + 1 /\ a2.mem[len] = block
      /\ a2.cap = a1.cap /\ \A i \in 0 .. a1.cap - 1 : i # len => a2.mem[i] = a1.mem[i]
  BY <1>3, <1>4, <1>5, PutLast
<1> HIDE DEF a2
<1>7. PICK a3 \in (IF pointers = 0 THEN {a2} ELSE Reserve(a2, pointers)) :
        LET a == [a3 EXCEPT !.len = a3.len + pointers] IN
        /\ SetArray(a)
        /\ bufs' = bufs \union {v}
        /\ held' = held \union {[base |-> a.base, index |-> NewIndex(a)]}
        /\ handles' = handles \union
             {[base |-> a.base, index |-> NewIndex(a), value |-> v, size |-> size]}
  BY <1>1 DEF a2, block
<1>8. /\ Sound(a3) /\ a3.base \in Base /\ a3.len = len + 1 /\ a3.len + pointers <= a3.cap
      /\ a2.cap <= a3.cap /\ Grows(a3.mem, a3.cap, a2)
  <2>1. CASE pointers = 0
    BY <1>6, <1>7, <2>1 DEF Sound, Arrays, Grows
  <2>2. CASE pointers # 0
    <3>1. a3 \in Reserve(a2, pointers)
      BY <1>7, <2>2
    <3>2. /\ Sound(a3) /\ a3.base \in Base /\ a3.len = a2.len /\ a3.len + pointers <= a3.cap
          /\ a2.cap <= a3.cap /\ Grows(a3.mem, a3.cap, a2)
      BY <1>0, <1>6, <3>1, ReserveRoom
    <3> QED
      BY <1>0, <1>6, <3>2
  <2> QED
    BY <2>1, <2>2
<1> DEFINE a == [a3 EXCEPT !.len = a3.len + pointers]
<1>9. a.base = a3.base /\ a.cap = a3.cap /\ a.len = len + 1 + pointers /\ a.mem = a3.mem
  BY <1>0, <1>8 DEF Sound, Arrays
<1>10. base' = a3.base /\ cap' = a3.cap /\ len' = len + 1 + pointers /\ mem' = a3.mem
  BY <1>7, <1>9 DEF SetArray
<1>11. a3.cap \in Nat /\ a3.mem \in [0 .. a3.cap - 1 -> Block]
  BY <1>8 DEF Sound, Arrays
<1>12. len' \in 0 .. cap'
  BY <1>0, <1>8, <1>10, <1>11
<1>13. Kept(mem', len) /\ mem'[len] = block
         /\ \A i \in 0 .. cap' - 1 :
              i = len \/ mem'[i] = Unwritten \/ (i < cap /\ mem'[i] = mem[i])
  <2>1. \A i \in 0 .. a3.cap - 1 : a3.mem[i] = IF i < a1.cap THEN a2.mem[i] ELSE Unwritten
    BY <1>6, <1>8 DEF Grows
  <2>2. \A i \in 0 .. a1.cap - 1 : a1.mem[i] = IF i < cap THEN mem[i] ELSE Unwritten
    BY <1>2, <1>4 DEF Grows
  <2>3. a1.cap \in Nat /\ a3.cap \in Nat /\ len < a1.cap /\ cap <= a1.cap /\ a1.cap <= a3.cap
    BY <1>4, <1>5, <1>6, <1>8, <1>11
  <2>4. \A i \in 0 .. a3.cap - 1 :
          i = len \/ a3.mem[i] = Unwritten \/ (i < cap /\ a3.mem[i] = mem[i])
    BY <1>0, <1>6, <2>1, <2>2, <2>3
  <2>5. a3.mem[len] = block
    BY <1>0, <1>6, <2>1, <2>3
  <2>6. \A i \in 0 .. len - 1 : a3.mem[i] = mem[i]
    BY <1>0, <1>6, <2>1, <2>2, <2>3
  <2> QED
    BY <1>10, <2>4, <2>5, <2>6 DEF Kept
<1>14. /\ bufs' = bufs \union {v}
       /\ held' = held \union {[base |-> base', index |-> count]}
       /\ handles' = handles \union
            {[base |-> base', index |-> count, value |-> v, size |-> size]}
  BY <1>7, <1>9, <1>10 DEF NewIndex
<1> QED
  BY <1>1, <1>3, <1>8, <1>10, <1>11, <1>12, <1>13, <1>14 DEF block

-----------------------------------------------------------------------------
(* The invariant.                                                          *)

(* HandlesDesignate speaks of the handles into the place where the array   *)
(* is.  That is not inductive: realloc may put the array back where it was *)
(* before.  What is kept is that the header at the index of any handle,    *)
(* wherever the array is, is the block of the handle.                      *)
HandlesStand ==
  \A h \in handles :
    h.index < len /\ mem[h.index].value = h.value /\ mem[h.index].size = h.size

IInv == TypeOK /\ CountIsLength /\ HandlesStand

LEMMA InitInv == Init => IInv
<1> SUFFICES ASSUME Init PROVE IInv
  OBVIOUS
<1>1. mem \in [0 .. cap - 1 -> Block] /\ len \in 0 .. cap /\ cap \in Nat
  BY DEF Init
<1>2. TypeOK
  BY <1>1 DEF Init, TypeOK
<1>3. CountIsLength /\ HandlesStand
  BY DEF Init, CountIsLength, HandlesStand
<1> QED
  BY <1>2, <1>3 DEF IInv

LEMMA CreateInv ==
  ASSUME IInv, NEW size \in Sizes, NEW pointers \in 0 .. MaxPointers,
         CreateBlock(size, pointers)
  PROVE  IInv'
<1> USE DEF IInv
<1>0. pointers \in Nat /\ size \in Nat /\ len \in Nat /\ count = len
  BY BoundAssumption, SizesAssumption DEF TypeOK, CountIsLength
<1>1. PICK v \in Buffer :
        /\ mem'[len].value = v /\ mem'[len].size = size
        /\ bufs' = bufs \union {v}
        /\ held' = held \union {[base |-> base', index |-> count]}
        /\ handles' = handles \union
             {[base |-> base', index |-> count, value |-> v, size |-> size]}
  BY <1>0, CreateEffect
<1>2. /\ base' \in Base /\ cap' \in Nat /\ len' \in 0 .. cap' /\ mem' \in [0 .. cap' - 1 -> Block]
      /\ len' = len + 1 + pointers /\ Kept(mem', len)
  BY <1>0, CreateEffect
<1>3. count' = count + pointers + 1 /\ UNCHANGED <<cursor, doomed, corrupt>>
  <2>1. count' = count + Headers(pointers) /\ UNCHANGED <<cursor, doomed, corrupt>>
    BY Zenon DEF CreateBlock
  <2> QED
    BY <1>0, <2>1 DEF Headers
<1>4. TypeOK'
  <2>1. held' \subseteq Address /\ handles' \subseteq Handle /\ bufs' \subseteq Buffer
    BY <1>0, <1>1, <1>2 DEF TypeOK, Address, Handle
  <2>2. count' \in Nat
    BY <1>0, <1>3
  <2> QED
    BY <1>2, <1>3, <2>1, <2>2 DEF TypeOK
<1>5. CountIsLength'
  BY <1>0, <1>2, <1>3 DEF CountIsLength
<1>6. HandlesStand'
  <2> SUFFICES ASSUME NEW h \in handles'
               PROVE  h.index < len' /\ mem'[h.index].value = h.value /\ mem'[h.index].size = h.size
    BY DEF HandlesStand
  <2>1. CASE h \in handles
    <3>1. h.index \in 0 .. len - 1 /\ mem[h.index].value = h.value /\ mem[h.index].size = h.size
      BY <1>0, <2>1 DEF HandlesStand, TypeOK, Handle
    <3>2. mem'[h.index] = mem[h.index]
      BY <1>2, <3>1 DEF Kept
    <3> QED
      BY <1>0, <1>2, <3>1, <3>2
  <2>2. CASE h = [base |-> base', index |-> count, value |-> v, size |-> size]
    <3>1. h.index = len /\ h.value = v /\ h.size = size
      BY <1>0, <2>2
    <3>2. mem'[h.index].value = h.value /\ mem'[h.index].size = h.size
      BY <1>1, <3>1, Zenon
    <3> QED
      BY <1>0, <1>2, <3>1, <3>2
  <2> QED
    BY <1>1, <2>1, <2>2
<1> QED
  BY <1>4, <1>5, <1>6

LEMMA MarkInv ==
  ASSUME IInv, NEW p \in held, Mark(p)
  PROVE  IInv'
<1> USE DEF IInv
<1>1. /\ \/ mem' = [mem EXCEPT ![p.index].marked = TRUE]
         \/ mem' = mem
      /\ UNCHANGED <<base, cap, len, count, bufs, held, handles, cursor, doomed>>
  BY DEF Mark
<1>2. corrupt' \in BOOLEAN
  BY DEF Mark
<1>3. mem' \in [0 .. cap - 1 -> Block]
  <2>1. CASE mem' = mem
    BY <2>1 DEF TypeOK
  <2>2. CASE mem' = [mem EXCEPT ![p.index].marked = TRUE]
    <3>1. \A b \in Block : [b EXCEPT !.marked = TRUE] \in Block
      BY DEF Block
    <3>2. mem \in [0 .. cap - 1 -> Block]
      BY DEF TypeOK
    <3> QED
      BY <2>2, <3>1, <3>2
  <2> QED
    BY <1>1, <2>1, <2>2
<1>4. \A i \in 0 .. cap - 1 : mem'[i].value = mem[i].value /\ mem'[i].size = mem[i].size
  BY <1>1 DEF TypeOK, Block
<1>5. TypeOK'
  BY <1>1, <1>2, <1>3 DEF TypeOK
<1>6. HandlesStand'
  <2> SUFFICES ASSUME NEW h \in handles
               PROVE  h.index < len /\ mem'[h.index].value = h.value /\ mem'[h.index].size = h.size
    BY <1>1 DEF HandlesStand
  <2>1. h.index \in 0 .. cap - 1
    BY DEF HandlesStand, TypeOK, Handle
  <2> QED
    BY <1>4, <2>1 DEF HandlesStand
<1> QED
  BY <1>1, <1>5, <1>6 DEF CountIsLength

(* The sweep's cursor is at a header. *)
LEMMA SweepAt ==
  ASSUME TypeOK, SweepStep
  PROVE  cursor \in 0 .. len - 1 /\ len \in Nat \ {0} /\ cap \in Nat /\ len <= cap
         /\ cursor' = cursor + 1 /\ UNCHANGED <<base, cap, held, doomed>>
  BY DEF SweepStep, TypeOK, None

LEMMA KeepInv ==
  ASSUME IInv, SweepStep, SweepKeep
  PROVE  IInv'
<1> USE DEF IInv
<1>1. mem' = [mem EXCEPT ![cursor].marked = FALSE]
        /\ UNCHANGED <<base, cap, held, doomed, len, count, bufs, handles, corrupt>>
  BY SweepAt DEF SweepKeep
<1>2. mem' \in [0 .. cap - 1 -> Block]
  BY <1>1 DEF TypeOK, Block
<1>3. \A i \in 0 .. cap - 1 : mem'[i].value = mem[i].value /\ mem'[i].size = mem[i].size
  BY <1>1 DEF TypeOK, Block
<1>4. TypeOK'
  BY <1>1, <1>2, SweepAt DEF TypeOK
<1>5. HandlesStand'
  <2> SUFFICES ASSUME NEW h \in handles
               PROVE  h.index < len /\ mem'[h.index].value = h.value /\ mem'[h.index].size = h.size
    BY <1>1 DEF HandlesStand
  <2>1. h.index \in 0 .. cap - 1
    BY DEF HandlesStand, TypeOK, Handle
  <2> QED
    BY <1>3, <2>1 DEF HandlesStand
<1> QED
  BY <1>1, <1>4, <1>5 DEF CountIsLength

(* arrdel: what is before the deleted header stays, what is behind it moves *)
(* down by one.                                                            *)
LEMMA DelEffect ==
  ASSUME TypeOK, NEW k \in 0 .. len - 1
  PROVE  /\ Del(mem, k) \in [0 .. cap - 1 -> Block]
         /\ \A i \in 0 .. k - 1 : Del(mem, k)[i] = mem[i]
         /\ \A i \in k + 1 .. len - 1 : Del(mem, k)[i - 1] = mem[i]
<1>1. DOMAIN mem = 0 .. cap - 1 /\ mem \in [0 .. cap - 1 -> Block] /\ len \in Nat /\ cap \in Nat
        /\ len <= cap
  BY DEF TypeOK
<1>2. \A j \in k .. len - 2 : j + 1 \in 0 .. cap - 1
  BY <1>1
<1>3. Del(mem, k) \in [0 .. cap - 1 -> Block]
  BY <1>1, <1>2 DEF Del
<1>4. \A i \in 0 .. k - 1 : Del(mem, k)[i] = mem[i]
  BY <1>1 DEF Del
<1>5. \A i \in k + 1 .. len - 1 : Del(mem, k)[i - 1] = mem[i]
  <2> SUFFICES ASSUME NEW i \in k + 1 .. len - 1
               PROVE  Del(mem, k)[i - 1] = mem[i]
    OBVIOUS
  <2>1. i - 1 \in k .. len - 2 /\ i - 1 \in 0 .. cap - 1 /\ (i - 1) + 1 = i
    BY <1>1
  <2> QED
    BY <1>1, <2>1 DEF Del
<1> QED
  BY <1>3, <1>4, <1>5

LEMMA DeleteInv ==
  ASSUME IInv, SweepStep, SweepDelete
  PROVE  IInv'
<1> USE DEF IInv
<1>0. cursor \in 0 .. len - 1 /\ len \in Nat \ {0} /\ cap \in Nat /\ len <= cap /\ count = len
  BY SweepAt DEF CountIsLength
<1>1. /\ mem' = Del(mem, cursor) /\ len' = len - 1 /\ count' = count - 1
      /\ handles' = {h \in handles : h.index < cursor}
      /\ UNCHANGED <<base, cap, held, doomed>> /\ cursor' = cursor + 1
  BY SweepAt DEF SweepDelete
<1>2. bufs' \subseteq Buffer /\ corrupt' \in BOOLEAN
  BY DEF SweepDelete, Free, TypeOK
<1>3. mem' \in [0 .. cap - 1 -> Block] /\ Kept(mem', cursor)
  BY <1>0, <1>1, DelEffect DEF Kept
<1>4. TypeOK'
  <2>1. len' \in 0 .. cap' /\ count' \in Nat /\ cursor' \in Nat
    BY <1>0, <1>1
  <2> QED
    BY <1>1, <1>2, <1>3, <2>1 DEF TypeOK
<1>5. CountIsLength'
  BY <1>0, <1>1 DEF CountIsLength
<1>6. HandlesStand'
  <2> SUFFICES ASSUME NEW h \in handles, h.index < cursor
               PROVE  h.index < len' /\ mem'[h.index].value = h.value /\ mem'[h.index].size = h.size
    BY <1>1 DEF HandlesStand
  <2>1. h.index \in 0 .. cursor - 1
    BY <1>0 DEF TypeOK, Handle
  <2>2. mem'[h.index] = mem[h.index]
    BY <1>3, <2>1 DEF Kept
  <2> QED
    BY <1>0, <1>1, <2>1, <2>2 DEF HandlesStand
<1> QED
  BY <1>4, <1>5, <1>6

LEMMA StepInv == IInv /\ [Next]_vars => IInv'
<1> SUFFICES ASSUME IInv, [Next]_vars PROVE IInv'
  OBVIOUS
<1>1. ASSUME NEW size \in Sizes, NEW pointers \in 0 .. MaxPointers, CreateBlock(size, pointers)
      PROVE  IInv'
  BY <1>1, CreateInv
<1>2. ASSUME NEW p \in held, Mark(p)
      PROVE  IInv'
  BY <1>2, MarkInv
<1>3. CASE SweepBegin
  <2>1. doomed' \subseteq Buffer
    BY <1>3 DEF SweepBegin, IInv, TypeOK, Block
  <2>2. cursor' \in Nat \union {None}
    BY <1>3 DEF SweepBegin
  <2> QED
    BY <1>3, <2>1, <2>2 DEF SweepBegin, array, IInv, TypeOK, CountIsLength, HandlesStand
<1>4. CASE SweepStep
  BY <1>4, KeepInv, DeleteInv DEF SweepStep
<1>5. CASE SweepEnd
  BY <1>5 DEF SweepEnd, array, IInv, TypeOK, CountIsLength, HandlesStand
<1>6. CASE UNCHANGED vars
  BY <1>6 DEF vars, array, IInv, TypeOK, CountIsLength, HandlesStand
<1> QED
  BY <1>1, <1>2, <1>3, <1>4, <1>5, <1>6 DEF Next

LEMMA Invariance == Spec => []IInv
  BY InitInv, StepInv, PTL DEF Spec

(* Every variable stays in its domain (tgc.h).                             *)
THEOREM TypeCorrect == Spec => []TypeOK
<1>1. IInv => TypeOK
  BY DEF IInv
<1> QED
  BY <1>1, Invariance, PTL

(* The counter that tgc_create_block computes addresses from is the        *)
(* array's length at every moment, also in the middle of a sweep           *)
(* (tgc.h:51-58, 92).                                                      *)
THEOREM CountCorrect == Spec => []CountIsLength
<1>1. IInv => CountIsLength
  BY DEF IInv
<1> QED
  BY <1>1, Invariance, PTL

(* An address tgc_create_block returned reaches its block until a sweep    *)
(* shifts it, as long as the array is where it was (tgc.h:50-69, 87-97).   *)
THEOREM HandlesCorrect == Spec => []HandlesDesignate
<1>1. IInv => HandlesDesignate
  BY DEF IInv, HandlesStand, HandlesDesignate
<1> QED
  BY <1>1, Invariance, PTL

-----------------------------------------------------------------------------
(* What a step never does.                                                 *)

MarkedStep ==
  \A i \in 0 .. len - 1 : mem[i].marked /\ mem[i].value # Junk =>
    \E j \in 0 .. len' - 1 : mem'[j].value = mem[i].value

LEMMA SameValues ==
  ASSUME len' >= len, len \in Nat, len' \in Nat,
         \A i \in 0 .. len - 1 : mem'[i].value = mem[i].value
  PROVE  MarkedStep
<1> SUFFICES ASSUME NEW i \in 0 .. len - 1
             PROVE  \E j \in 0 .. len' - 1 : mem'[j].value = mem[i].value
  BY DEF MarkedStep
<1>1. i \in 0 .. len' - 1
  OBVIOUS
<1> QED
  BY <1>1

LEMMA StepKeepsMarked == IInv /\ [Next]_vars => MarkedStep
<1> SUFFICES ASSUME IInv, [Next]_vars PROVE MarkedStep
  OBVIOUS
<1> USE DEF IInv
<1>0. len \in Nat /\ cap \in Nat /\ len <= cap /\ mem \in [0 .. cap - 1 -> Block]
  BY DEF TypeOK
<1>1. ASSUME NEW size \in Sizes, NEW pointers \in 0 .. MaxPointers, CreateBlock(size, pointers)
      PROVE  MarkedStep
  <2>0. size \in Nat /\ pointers \in Nat
    BY SizesAssumption, BoundAssumption
  <2>1. len' = len + 1 + pointers /\ Kept(mem', len) /\ pointers \in Nat
    BY <1>1, <2>0, CreateEffect
  <2> QED
    BY <1>0, <2>1, SameValues DEF Kept
<1>2. ASSUME NEW p \in held, Mark(p)
      PROVE  MarkedStep
  <2>1. len' = len /\ (mem' = mem \/ mem' = [mem EXCEPT ![p.index].marked = TRUE])
    BY <1>2 DEF Mark
  <2>2. \A i \in 0 .. len - 1 : mem'[i].value = mem[i].value
    BY <1>0, <2>1 DEF Block
  <2> QED
    BY <1>0, <2>1, <2>2, SameValues
<1>3. CASE SweepStep /\ SweepKeep
  <2>1. len' = len /\ \A i \in 0 .. len - 1 : mem'[i].value = mem[i].value
    BY <1>0, <1>3 DEF SweepKeep, Block
  <2> QED
    BY <1>0, <2>1, SameValues
<1>4. CASE SweepStep /\ SweepDelete
  <2> SUFFICES ASSUME NEW i \in 0 .. len - 1, mem[i].marked
               PROVE  \E j \in 0 .. len' - 1 : mem'[j].value = mem[i].value
    BY DEF MarkedStep
  <2>1. cursor \in 0 .. len - 1 /\ ~mem[cursor].marked /\ mem' = Del(mem, cursor) /\ len' = len - 1
    BY <1>4, SweepAt DEF SweepDelete, SeemsUnmarked
  <2>2. CASE i < cursor
    <3>1. i \in 0 .. cursor - 1 /\ i \in 0 .. len' - 1
      BY <1>0, <2>1, <2>2
    <3> QED
      BY <2>1, <3>1, DelEffect
  <2>3. CASE i > cursor
    <3>1. i \in cursor + 1 .. len - 1 /\ i - 1 \in 0 .. len' - 1
      BY <1>0, <2>1, <2>3
    <3> QED
      BY <2>1, <3>1, DelEffect
  <2> QED
    BY <1>0, <2>1, <2>2, <2>3
<1>5. CASE SweepBegin \/ SweepEnd \/ UNCHANGED vars
  <2>1. len' = len /\ mem' = mem
    BY <1>5 DEF SweepBegin, SweepEnd, vars, array
  <2> QED
    BY <1>0, <2>1, SameValues
<1> QED
  BY <1>1, <1>2, <1>3, <1>4, <1>5 DEF Next, SweepStep

(* A sweep never drops the header of a marked block (tgc.h:87-97).         *)
THEOREM MarkedCorrect == Spec => MarkedStay
<1>1. IInv /\ [Next]_vars => [MarkedStep]_vars
  BY StepKeepsMarked
<1> QED
  BY <1>1, Invariance, PTL DEF Spec, MarkedStay, MarkedStep
=============================================================================
