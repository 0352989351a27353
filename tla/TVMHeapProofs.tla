---------------------------- MODULE TVMHeapProofs ----------------------------
(***************************************************************************)
(* Machine-checked safety of the whole interpreter: the opcodes of TVM     *)
(* with those of the heap and OP_NATIVE, for every program, every set of   *)
(* native functions and any memory.                                        *)
(***************************************************************************)
EXTENDS TVMNative, TVMProofs

(* What is proved of the heap alone holds of the interpreter's. *)
H == INSTANCE TGCProofs WITH Sizes <- Word

LEMMA SameHeap ==
  ASSUME NEW n, NEW pointers
  PROVE  (G!CreateBlock(n, pointers) => H!CreateBlock(n, pointers)) /\ (G!TypeOK <=> H!TypeOK)
<1>1. (G!TypeOK <=> H!TypeOK)
  BY DEF G!TypeOK, H!TypeOK, G!Address, G!Handle, G!Block, G!None, H!Address, H!Handle, H!Block, H!None
<1>2. G!CreateBlock(n, pointers) => H!CreateBlock(n, pointers)
  BY Zenon DEF G!CreateBlock, H!CreateBlock,
     G!Idle, G!None, G!Reserve, G!Array, G!Put, G!SetArray, G!NewIndex, G!Headers, G!Grown, G!Unwritten,
     H!Idle, H!None, H!Reserve, H!Array, H!Put, H!SetArray, H!NewIndex, H!Headers, H!Grown, H!Unwritten
<1> QED
  BY <1>1, <1>2

LEMMA HAllocEffect ==
  ASSUME G!TypeOK, NEW n \in Nat, NEW pointers \in Nat, G!CreateBlock(n, pointers)
  PROVE  /\ base' \in Base /\ cap' \in Nat /\ len' \in 0 .. cap' /\ mem' \in [0 .. cap' - 1 -> G!Block]
         /\ len' = len + 1 + pointers /\ len' <= MaxBlocks /\ count' = count + 1 + pointers
         /\ \A i \in 0 .. len - 1 : mem'[i] = mem[i]
         /\ \A i \in 0 .. cap' - 1 :
              i = len \/ mem'[i].value = Junk \/ (i < cap /\ mem'[i] = mem[i])
         /\ UNCHANGED <<cursor, doomed, corrupt>>
         /\ \E v \in Buffer \ bufs :
              /\ mem'[len].value = v /\ mem'[len].size = n
              /\ bufs' = bufs \union {v}
              /\ held' = held \union {[base |-> base', index |-> count]}
              /\ handles' = handles \union
                   {[base |-> base', index |-> count, value |-> v, size |-> n]}
<1>1. H!TypeOK /\ H!CreateBlock(n, pointers)
  BY SameHeap
<1>2. H!IsFiniteSet(Buffer)
  BY HeapAssumption DEF H!IsFiniteSet, IsFiniteSet
<1>3. /\ base' \in Base /\ cap' \in Nat /\ len' \in 0 .. cap' /\ mem' \in [0 .. cap' - 1 -> H!Block]
      /\ len' = len + 1 + pointers /\ H!Kept(mem', len)
      /\ \A i \in 0 .. cap' - 1 :
           i = len \/ mem'[i] = H!Unwritten \/ (i < cap /\ mem'[i] = mem[i])
  BY <1>1, <1>2, HeapAssumption, WordNat, H!CreateEffect
<1>4. \E v \in Buffer \ bufs :
        /\ mem'[len].value = v /\ mem'[len].size = n
        /\ bufs' = bufs \union {v}
        /\ held' = held \union {[base |-> base', index |-> count]}
        /\ handles' = handles \union
             {[base |-> base', index |-> count, value |-> v, size |-> n]}
  BY <1>1, <1>2, HeapAssumption, WordNat, H!CreateEffect
<1>5. len + 1 + pointers <= MaxBlocks /\ count' = count + G!Headers(pointers)
        /\ UNCHANGED <<cursor, doomed, corrupt>>
  BY Zenon DEF G!CreateBlock
<1>6. count' = count + 1 + pointers
  BY <1>5 DEF G!Headers, G!TypeOK
<1>7. H!Block = G!Block /\ H!Unwritten.value = Junk
  BY DEF H!Block, G!Block, H!Unwritten
<1>8. /\ \A i \in 0 .. len - 1 : mem'[i] = mem[i]
      /\ \A i \in 0 .. cap' - 1 :
           i = len \/ mem'[i].value = Junk \/ (i < cap /\ mem'[i] = mem[i])
  BY <1>3, <1>7 DEF H!Kept
<1> QED
  BY <1>3, <1>4, <1>5, <1>6, <1>7, <1>8

-----------------------------------------------------------------------------
(* Words, bytes and addresses.                                             *)

LEMMA Sizes ==
  /\ ByteValues \in Nat \ {0} /\ WordBytes \in Nat \ {0} /\ W \in Nat \ {0, 1}
  /\ PtrBytes \in Nat \ {0} /\ HeaderBytes \in Nat
  /\ WriteSizes \subseteq ReadSizes /\ ReadSizes \subseteq {1, WordBytes, PtrBytes}
<1>1. ByteValues \in Nat \ {0} /\ WordBytes \in Nat \ {0} /\ W \in Nat \ {0, 1}
  BY ByteAssumption, WAssumption
<1>2. PtrBytes \in Nat \ {0} /\ HeaderBytes \in Nat
  BY <1>1, PointerAssumption, AddressAssumption
<1> QED
  BY <1>1, <1>2 DEF WriteSizes, ReadSizes

LEMMA ByteType == \A x, i \in Nat : ByteOf(x, i) \in Byte
  BY Sizes DEF ByteOf, Byte

LEMMA SpaceType == Space \in Nat /\ W <= Space /\ Space = IF OneWord THEN W ELSE W * W
<1>1. W * W \in Nat /\ W <= W * W
  BY Sizes
<1> QED
  BY <1>1, Sizes DEF Space

(* The words of an address. *)
LEMMA Halves ==
  ASSUME NEW a \in 0 .. Space - 1
  PROVE  a % W \in Word /\ a \div W \in High
<1>1. a \in Nat /\ W \in Nat /\ W > 0 /\ a < Space /\ W * W \in Nat
  BY Sizes, SpaceType
<1>2. a % W \in Word
  BY <1>1 DEF Word
<1> DEFINE q == a \div W
<1>3. q \in Nat /\ W * q <= a
  BY <1>1
<1> HIDE DEF q
<1>4. CASE OneWord
  <2>1. W * q < W
    BY <1>1, <1>3, <1>4, SpaceType
  <2>2. q >= 1 => W * q >= W
    BY <1>1, <1>3
  <2>3. q = 0
    BY <1>1, <1>3, <2>1, <2>2
  <2> QED
    BY <1>2, <1>4, <2>3 DEF High, q
<1>5. CASE ~OneWord
  <2>1. q >= W => W * q >= W * W
    BY <1>1, <1>3
  <2>2. q < W
    BY <1>1, <1>3, <1>5, <2>1, SpaceType
  <2> QED
    BY <1>1, <1>2, <1>3, <1>5, <2>2 DEF High, Word, q
<1> QED
  BY <1>4, <1>5

LEMMA AddressOfType ==
  ASSUME NEW o \in Object
  PROVE  AddressOf(o) \in Nat
<1>1. o.lo \in Nat /\ o.hi \in Nat /\ W \in Nat
  BY Sizes, WordNat, HighWord DEF Object
<1> QED
  BY <1>1 DEF AddressOf

(* The address of a header the array has room for. *)
LEMMA HeaderAddressType ==
  ASSUME NEW b \in Base, NEW i \in Nat, i <= MaxBlocks
  PROVE  HeaderAddress(b, i) \in 0 .. Space - 1
<1>1. HeaderAt[b] \in Nat /\ HeaderAt[b] + MaxBlocks * HeaderBytes < Space
  BY AddressAssumption, SpaceType
<1>2. MaxBlocks \in Nat /\ HeaderBytes \in Nat
  BY HeapAssumption, Sizes
<1>3. i * HeaderBytes \in Nat /\ MaxBlocks * HeaderBytes \in Nat
        /\ i * HeaderBytes <= MaxBlocks * HeaderBytes
  BY <1>2
<1> QED
  BY <1>1, <1>2, <1>3, SpaceType DEF HeaderAddress

(* What OP_DEREF and OP_DEREFB make of the bytes they read fits an object. *)
LEMMA ExtendType ==
  ASSUME NEW n \in {1, WordBytes, PtrBytes}, NEW x \in 0 .. ByteValues^n - 1
  PROVE  Extended(x, n) \in 0 .. Space - 1
<1>1. ByteValues^n \in Int /\ ByteValues^n <= Space
  <2>1. CASE n = 1
    BY <2>1, SizesAssumption, SpaceType, Sizes
  <2>2. CASE n = WordBytes
    BY <2>2, ByteAssumption, SpaceType, Sizes
  <2>3. CASE n = PtrBytes
    BY <2>3, SizesAssumption, SpaceType
  <2> QED
    BY <2>1, <2>2, <2>3
<1> DEFINE p == ByteValues^n
           s == Space
<1>2. p \in Int /\ s \in Int /\ p <= s /\ x \in 0 .. p - 1
  BY <1>1, SpaceType
<1>3. Extended(x, n) = IF Inst.op = "DEREF" \/ 2 * x < p THEN x ELSE s - p + x
  BY DEF Extended
<1> HIDE DEF p, s
<1>4. Extended(x, n) \in 0 .. s - 1
  BY <1>2, <1>3
<1> QED
  BY <1>4 DEF s

(* A product of the size of an element, wrapped, is still a multiple of    *)
(* it, and so are sizes that hold whole elements: one that begins inside   *)
(* ends inside.                                                            *)
LEMMA WholeElements ==
  ASSUME NEW e \in WriteSizes, NEW k \in Nat, NEW n \in Nat, n % e = 0, (k * e) % W < n
  PROVE  ((k * e) % W) + e <= n
<1>1. e \in Nat /\ e > 0 /\ W \in Nat /\ W > 0 /\ W % e = 0
  BY Sizes, SizesAssumption
<1>2. PICK w \in Nat : W = e * w
  BY <1>1
<1>3. PICK m \in Nat : n = e * m
  BY <1>1
<1>4. k * e \in Nat
  BY <1>1
<1>5. PICK q \in Nat : k * e = W * q + ((k * e) % W)
  <2>1. \A x \in Nat : x \div W \in Nat /\ x = W * (x \div W) + (x % W)
    BY <1>1
  <2> QED
    BY <1>4, <2>1
<1> DEFINE r == (k * e) % W
<1>6. r \in Nat /\ k * e = W * q + r /\ r < n
  BY <1>1, <1>4, <1>5
<1> HIDE DEF r
<1>7. r = e * (k - w * q)
  <2>1. W * q = e * (w * q)
    BY <1>1, <1>2, <1>5
  <2>2. w * q \in Nat
    BY <1>2, <1>5
  <2>3. k * e = e * (w * q) + r
    BY <1>6, <2>1
  <2> QED
    BY <1>1, <1>6, <2>2, <2>3
<1> DEFINE t == k - w * q
<1>8. t \in Int /\ r = e * t
  BY <1>2, <1>5, <1>7
<1> HIDE DEF t
<1>9. t + 1 <= m
  <2> SUFFICES ASSUME t >= m PROVE FALSE
    BY <1>3, <1>8
  <2>1. e * t >= e * m
    BY <1>1, <1>3, <1>8
  <2> QED
    BY <1>3, <1>6, <1>8, <2>1
<1>10. e * (t + 1) <= e * m
  BY <1>1, <1>3, <1>8, <1>9
<1> QED
  BY <1>1, <1>3, <1>6, <1>8, <1>10 DEF r

-----------------------------------------------------------------------------
(* The invariant.                                                          *)

(* A header that was written is the one of a buffer, of the size it says.  *)
HeadersOwn ==
  \A i \in 0 .. cap - 1 : mem[i].value # Junk =>
    mem[i].value \in bufs /\ DOMAIN bytes[mem[i].value] = 0 .. mem[i].size - 1

(* HeadersDescribeBuffers speaks of the addresses into the place where the *)
(* array is, and realloc may put it back where it was: what is kept is     *)
(* that every address has the index of its block, wherever the array is,   *)
(* until the array is freed at the end.                                    *)
HandlesStand ==
  IF status = "stopped" THEN base = Nowhere
  ELSE /\ count = len
       /\ \A h \in handles :
            h.index < len /\ mem[h.index].value = h.value /\ mem[h.index].size = h.size

PInv == IInv /\ HeapTypeOK /\ HeadersOwn /\ HandlesStand /\ WritesStayInside

LEMMA PInit == HeapInit => PInv
<1> SUFFICES ASSUME HeapInit PROVE PInv
  OBVIOUS
<1>1. IInv
  BY InitInv DEF HeapInit
<1>2. G!Init /\ bytes = [v \in {} |-> Unset]
  BY DEF HeapInit
<1>3. G!TypeOK
  <2>1. /\ base = Nowhere /\ cap = 0 /\ len = 0 /\ mem = [i \in {} |-> G!Unwritten] /\ count = 0
        /\ bufs = {} /\ held = {} /\ handles = {} /\ cursor = G!None /\ doomed = {} /\ corrupt = FALSE
    BY <1>2, Zenon DEF G!Init
  <2>2. mem \in [0 .. cap - 1 -> G!Block] /\ len \in 0 .. cap
    BY <2>1
  <2> QED
    BY <2>1, <2>2 DEF G!TypeOK
<1>4. HeapTypeOK
  BY <1>1, <1>2, <1>3 DEF HeapTypeOK, IInv, G!Init
<1>5. HeadersOwn /\ HandlesStand /\ WritesStayInside
  BY <1>1, <1>2 DEF G!Init, HeadersOwn, HandlesStand, WritesStayInside, HeapInit, Init
<1> QED
  BY <1>1, <1>4, <1>5 DEF PInv

(* What the opcodes of this part do to the interpreter's own variables.    *)
LEMMA StackStep ==
  ASSUME IInv, Looping, Advance, stack' \in [Slots -> Object], sp' \in 0 .. StackCap,
         UNCHANGED <<frames, global_vars>>
  PROVE  IInv' /\ status' # "stopped"
<1>1. TypeOK'
  BY RewriteStepType DEF IInv
<1>2. status = "running" /\ status' = "running" /\ UNCHANGED <<program, rsp, return_stack, frame, live, prev, next>>
  BY DEF Looping, Advance, returns, frames
<1>3. FrameChain' /\ ReturnsBehindCalls'
  BY <1>2, ChainKept, ReturnsKept DEF IInv, returns
<1> QED
  BY <1>1, <1>2, <1>3 DEF IInv

LEMMA EndStep ==
  ASSUME IInv, Looping, Crash \/ \E e \in Exception : Raise(e)
  PROVE  IInv' /\ status' # "stopped"
<1>1. /\ status' \in Exception \union {"crashed"}
      /\ UNCHANGED <<program, operands, returns, frames, global_vars, ip, halted>>
  BY DEF Crash, Raise
<1>2. TypeOK'
  BY <1>1 DEF IInv, TypeOK, operands, returns, frames, size
<1>3. status = "running" /\ status' # "stopped" /\ UNCHANGED <<program, rsp, return_stack, frame, live, prev, next>>
  BY <1>1 DEF Looping, returns, frames, Exception
<1>4. FrameChain' /\ ReturnsBehindCalls'
  BY <1>3, ChainKept, ReturnsKept DEF IInv, returns
<1> QED
  BY <1>2, <1>3, <1>4 DEF IInv

LEMMA FrozenStep ==
  ASSUME IInv, UNCHANGED vars
  PROVE  IInv'
  BY StepInv

(* Steps that leave the heap alone.                                        *)
LEMMA HeapKept ==
  ASSUME PInv, ~corrupt, IInv', status # "stopped", status' # "stopped", UNCHANGED heap
  PROVE  PInv'
<1>1. UNCHANGED <<base, cap, len, mem, count, bufs, held, handles, cursor, doomed, corrupt, bytes>>
  BY DEF heap
<1>2. G!TypeOK'
  BY <1>1 DEF PInv, HeapTypeOK, G!TypeOK
<1>3. HeapTypeOK' /\ HeadersOwn' /\ HandlesStand'
  BY <1>1, <1>2 DEF PInv, IInv, HeapTypeOK, HeadersOwn, HandlesStand
<1>4. WritesStayInside'
  BY <1>1 DEF WritesStayInside
<1> QED
  BY <1>3, <1>4 DEF PInv

-----------------------------------------------------------------------------
(* OP_HALLOC.                                                              *)

LEMMA OperandTypes ==
  ASSUME TypeOK
  PROVE  \A k \in 1 .. 4 : sp >= k =>
           /\ sp - k \in Slots /\ stack[sp - k] \in Object
           /\ stack[sp - k].lo \in Word /\ stack[sp - k].lo \in Nat
<1> SUFFICES ASSUME NEW k \in 1 .. 4, sp >= k
             PROVE  /\ sp - k \in Slots /\ stack[sp - k] \in Object
                    /\ stack[sp - k].lo \in Word /\ stack[sp - k].lo \in Nat
  OBVIOUS
<1>1. sp - k \in 0 .. sp - 1
  BY DEF TypeOK
<1>2. sp - k \in Slots /\ stack[sp - k] \in Object
  BY <1>1, StackTypes
<1> QED
  BY <1>2, WordNat DEF Object

(* The checks of the heap opcodes. *)
LEMMA HeapChecked ==
  ASSUME TypeOK, HeapFault = "OK"
  PROVE  /\ Inst.op = "HALLOC" => sp >= 2
         /\ Inst.op = "DEREF" => sp >= 1
         /\ Inst.op = "DEREFB" => sp >= 1 /\ arg \in ReadSizes
         /\ Inst.op \in {"HSET", "HSETOF"} => sp >= 4
<1>1. sp \in Nat
  BY DEF TypeOK
<1> QED
  BY <1>1 DEF HeapFault, Need, FirstOf, Check

LEMMA HAllocInv ==
  ASSUME PInv, ~corrupt, HAlloc
  PROVE  PInv'
<1> USE DEF PInv, IInv, HeapTypeOK
<1>1. Looping /\ Inst.op = "HALLOC" /\ HeapFault = "OK" /\ status = "running"
  BY DEF HAlloc, HeapExec, Looping
<1>2. sp >= 2 /\ Second.lo \in Nat /\ Top.lo \in Nat /\ sp - 2 \in Slots /\ sp - 1 \in 0 .. StackCap
  <2>1. sp >= 2
    BY <1>1, HeapChecked
  <2>2. 1 \in 1 .. 4 /\ 2 \in 1 .. 4 /\ sp >= 1
    BY <2>1 DEF TypeOK
  <2>3. stack[sp - 2].lo \in Nat /\ sp - 2 \in Slots /\ stack[sp - 1].lo \in Nat
    BY <2>1, <2>2, OperandTypes
  <2>4. sp - 1 \in 0 .. StackCap
    BY <2>2, SizeAssumption DEF TypeOK
  <2> QED
    BY <2>1, <2>3, <2>4 DEF Second, Top
<1> DEFINE n == Second.lo
           p == Top.lo
<1>3. G!CreateBlock(n, p) /\ bytes' = [v \in bufs' |-> IF v \in bufs THEN bytes[v] ELSE [i \in 0 .. n - 1 |-> Unset]]
  BY DEF HAlloc
<1>4. n \in Nat /\ p \in Nat
  BY <1>2
<1> HIDE DEF n, p
<1>5. /\ base' \in Base /\ cap' \in Nat /\ len' \in 0 .. cap' /\ mem' \in [0 .. cap' - 1 -> G!Block]
      /\ len' = len + 1 + p /\ len' <= MaxBlocks /\ count' = count + 1 + p
      /\ \A i \in 0 .. len - 1 : mem'[i] = mem[i]
      /\ \A i \in 0 .. cap' - 1 :
           i = len \/ mem'[i].value = Junk \/ (i < cap /\ mem'[i] = mem[i])
      /\ UNCHANGED <<cursor, doomed, corrupt>>
  BY <1>3, <1>4, HAllocEffect
<1>6. PICK v \in Buffer \ bufs :
        /\ mem'[len].value = v /\ mem'[len].size = n
        /\ bufs' = bufs \union {v}
        /\ held' = held \union {[base |-> base', index |-> count]}
        /\ handles' = handles \union {[base |-> base', index |-> count, value |-> v, size |-> n]}
  BY <1>3, <1>4, HAllocEffect
<1>7. count = len /\ len \in Nat /\ cap \in Nat /\ len <= cap /\ count <= MaxBlocks
  BY <1>1, <1>4, <1>5, HeapAssumption DEF HandlesStand, G!TypeOK
<1>8. IInv' /\ status' # "stopped"
  <2> DEFINE a == HeaderAddress(base', count)
             o == [type |-> "DATA_ADDRESS", lo |-> a % W, hi |-> a \div W]
  <2>1. a \in 0 .. Space - 1
    BY <1>5, <1>7, HeaderAddressType
  <2>2. o \in Object
    <3>1. a % W \in Word /\ a \div W \in High
      BY <2>1, Halves
    <3> QED
      BY <3>1 DEF Object, ObjType
  <2>3. stack' = [stack EXCEPT ![sp - 2] = o]
    BY DEF HAlloc, G!NewIndex
  <2> HIDE DEF o
  <2>4. stack' \in [Slots -> Object]
    BY <1>2, <2>2, <2>3 DEF TypeOK
  <2>5. sp' = sp - 1 /\ Advance /\ UNCHANGED <<frames, global_vars>>
    BY DEF HAlloc
  <2> QED
    BY <1>1, <1>2, <2>4, <2>5, StackStep
<1>9. G!TypeOK'
  <2>1. held' \subseteq G!Address /\ handles' \subseteq G!Handle /\ bufs' \subseteq Buffer
    BY <1>4, <1>5, <1>6, <1>7 DEF G!TypeOK, G!Address, G!Handle
  <2>2. count' \in Nat
    BY <1>4, <1>5, <1>7
  <2> QED
    BY <1>5, <2>1, <2>2 DEF G!TypeOK
<1>10. /\ DOMAIN bytes' = bufs'
       /\ \A u \in bufs : bytes'[u] = bytes[u]
       /\ bytes'[v] = [i \in 0 .. n - 1 |-> Unset]
  BY <1>3, <1>6
<1>11. HeapTypeOK'
  <2>1. \A u \in bufs' : \A i \in DOMAIN bytes'[u] : bytes'[u][i] \in Byte \union {Unset}
    <3> SUFFICES ASSUME NEW u \in bufs', NEW i \in DOMAIN bytes'[u]
                 PROVE  bytes'[u][i] \in Byte \union {Unset}
      OBVIOUS
    <3>1. CASE u \in bufs
      BY <1>10, <3>1
    <3>2. CASE u = v
      BY <1>10, <3>2
    <3> QED
      BY <1>6, <3>1, <3>2
  <2> QED
    BY <1>8, <1>9, <1>10, <2>1
<1>12. HeadersOwn'
  <2> SUFFICES ASSUME NEW i \in 0 .. cap' - 1, mem'[i].value # Junk
               PROVE  mem'[i].value \in bufs' /\ DOMAIN bytes'[mem'[i].value] = 0 .. mem'[i].size - 1
    BY DEF HeadersOwn
  <2>1. CASE i = len
    BY <1>6, <1>10, <2>1
  <2>2. CASE i < cap /\ mem'[i] = mem[i]
    <3>1. i \in 0 .. cap - 1
      BY <1>5, <1>7, <2>2
    <3> QED
      BY <1>6, <1>10, <2>2, <3>1 DEF HeadersOwn
  <2> QED
    BY <1>5, <2>1, <2>2
<1>13. HandlesStand'
  <2>1. count' = len'
    BY <1>4, <1>5, <1>7
  <2> SUFFICES ASSUME NEW h \in handles'
               PROVE  h.index < len' /\ mem'[h.index].value = h.value /\ mem'[h.index].size = h.size
    BY <1>8, <2>1 DEF HandlesStand
  <2>2. CASE h \in handles
    <3>1. h.index \in 0 .. len - 1 /\ mem[h.index].value = h.value /\ mem[h.index].size = h.size
      BY <1>1, <1>7, <2>2 DEF HandlesStand, G!TypeOK, G!Handle
    <3>2. mem'[h.index] = mem[h.index]
      BY <1>5, <3>1
    <3> QED
      BY <1>4, <1>5, <1>7, <3>1, <3>2
  <2>3. CASE h = [base |-> base', index |-> count, value |-> v, size |-> n]
    <3>1. h.index = len /\ h.value = v /\ h.size = n
      BY <1>7, <2>3
    <3>2. mem'[h.index].value = h.value /\ mem'[h.index].size = h.size
      BY <1>6, <3>1, Zenon
    <3> QED
      BY <1>4, <1>5, <1>7, <3>1, <3>2
  <2> QED
    BY <1>6, <2>2, <2>3
<1>14. WritesStayInside'
  BY <1>5 DEF WritesStayInside
<1> QED
  BY <1>8, <1>11, <1>12, <1>13, <1>14

-----------------------------------------------------------------------------
(* OP_DEREF and OP_DEREFB.                                                 *)

LEMMA DerefInv ==
  ASSUME PInv, ~corrupt, Deref
  PROVE  PInv'
<1> USE DEF PInv, IInv
<1> DEFINE a == AddressOf(Top)
           n == IF Inst.op = "DEREF" THEN PtrBytes ELSE arg
<1>1. Looping /\ status # "stopped" /\ UNCHANGED heap
  BY DEF Deref, HeapExec, Looping
<1>2. sp >= 1 /\ n \in {1, WordBytes, PtrBytes} /\ sp - 1 \in Slots
  <2>1. Inst.op \in {"DEREF", "DEREFB"} /\ HeapFault = "OK"
    BY DEF Deref, HeapExec
  <2>2. sp >= 1 /\ n \in {1, WordBytes, PtrBytes}
    BY <2>1, HeapChecked, Sizes
  <2> QED
    BY <2>2, OperandTypes
<1>3. CASE /\ \E x \in Read(a, n) :
                 stack' = [stack EXCEPT ![sp - 1].lo = Extended(x, n) % W,
                                        ![sp - 1].hi = Extended(x, n) \div W]
           /\ Advance
           /\ UNCHANGED <<sp, frames, global_vars>>
  <2> HIDE DEF a, n
  <2>1. PICK x \in 0 .. ByteValues^n - 1 :
          stack' = [stack EXCEPT ![sp - 1].lo = Extended(x, n) % W,
                                 ![sp - 1].hi = Extended(x, n) \div W]
    BY <1>3 DEF Read
  <2>2. Extended(x, n) \in 0 .. Space - 1
    BY <1>2, ExtendType
  <2>3. Extended(x, n) % W \in Word /\ Extended(x, n) \div W \in High
    BY <2>2, Halves
  <2>4. stack' \in [Slots -> Object]
    BY <1>2, <2>1, <2>3, WriteAddress
  <2>5. sp' \in 0 .. StackCap
    BY <1>3 DEF TypeOK
  <2>6. IInv' /\ status' # "stopped"
    BY <1>1, <1>3, <2>4, <2>5, StackStep
  <2> QED
    BY <1>1, <2>6, HeapKept
<1>4. CASE Crash
  BY <1>1, <1>4, EndStep, HeapKept
<1> QED
  BY <1>3, <1>4, Zenon DEF Deref

-----------------------------------------------------------------------------
(* OP_HSET and OP_HSETOF.                                                  *)

LEMMA SetOperands ==
  ASSUME PInv, HeapExec({"HSET", "HSETOF"})
  PROVE  /\ Looping /\ status = "running" /\ Inst.op \in {"HSET", "HSETOF"}
         /\ sp - 4 \in 0 .. StackCap
         /\ ElementSize \in Nat /\ Offset \in Nat /\ Place \in Nat /\ Value \in Nat
         /\ Inst.op = "HSET" => Second.lo \in Nat /\ Offset = (Second.lo * ElementSize) % W
<1> USE DEF PInv, IInv
<1>1. Looping /\ status = "running" /\ Inst.op \in {"HSET", "HSETOF"} /\ HeapFault = "OK"
  BY DEF HeapExec, Looping
<1>2. sp >= 4 /\ sp \in Nat /\ sp <= StackCap /\ StackCap \in Nat
  BY <1>1, HeapChecked, SizeAssumption DEF TypeOK
<1>3. 1 \in 1 .. 4 /\ 2 \in 1 .. 4 /\ 4 \in 1 .. 4 /\ sp >= 1 /\ sp >= 2
  BY <1>2
<1>4. stack[sp - 1].lo \in Nat /\ stack[sp - 2].lo \in Nat /\ stack[sp - 4] \in Object
  BY <1>2, <1>3, OperandTypes
<1>5. ElementSize \in Nat /\ Second.lo \in Nat /\ Value \in Nat
  BY <1>4, AddressOfType DEF ElementSize, Top, Second, Value
<1>6. Offset \in Nat /\ (Inst.op = "HSET" => Offset = (Second.lo * ElementSize) % W)
  <2>1. Second.lo * ElementSize \in Nat
    BY <1>5
  <2>2. (Second.lo * ElementSize) % W \in Nat
    BY <2>1, Sizes
  <2> QED
    BY <1>5, <2>2 DEF Offset
<1>7. Place \in Nat
  <2>1. WordBytes * Offset \in Nat
    BY <1>6, Sizes
  <2>2. (WordBytes * Offset) % W \in Nat
    BY <2>1, Sizes
  <2> QED
    BY <1>6, <2>2 DEF Place
<1> QED
  BY <1>1, <1>2, <1>5, <1>6, <1>7

(* A header the address operand reaches is one of a buffer. *)
LEMMA TargetOwns ==
  ASSUME PInv, NEW i \in TargetHeaders
  PROVE  /\ mem[i].value \in bufs /\ mem[i].size \in Nat
         /\ DOMAIN bytes[mem[i].value] = 0 .. mem[i].size - 1
<1>1. i \in 0 .. cap - 1 /\ mem[i].value # Junk /\ mem[i] \in G!Block
  BY DEF TargetHeaders, PInv, HeapTypeOK, G!TypeOK
<1> QED
  BY <1>1 DEF PInv, HeadersOwn, G!Block

(* The write that stays inside the block. *)
LEMMA WriteInv ==
  ASSUME PInv, ~corrupt, HeapExec({"HSET", "HSETOF"}), NEW i \in TargetHeaders,
         SetElement(i), Place + ElementSize <= mem[i].size
  PROVE  PInv'
<1> USE DEF PInv
<1> DEFINE v == mem[i].value
           d == [k \in DOMAIN bytes[v] |->
                   IF k \in Place .. Place + ElementSize - 1 THEN ByteOf(Value, k - Place)
                                                                ELSE bytes[v][k]]
<1>1. /\ bytes' = [bytes EXCEPT ![v] = d]
      /\ sp' = sp - 4 /\ Advance
      /\ UNCHANGED <<stack, frames, global_vars, base, cap, len, mem, count, bufs, held,
                     handles, cursor, doomed, corrupt>>
  BY DEF SetElement, Write
<1>2. v \in bufs /\ DOMAIN bytes = bufs
  BY TargetOwns DEF HeapTypeOK
<1>3. /\ Looping /\ status = "running" /\ sp - 4 \in 0 .. StackCap
      /\ Place \in Nat /\ Value \in Nat
  BY SetOperands
<1>4. \A k \in DOMAIN bytes[v] : d[k] \in Byte \union {Unset}
  <2> SUFFICES ASSUME NEW k \in DOMAIN bytes[v] PROVE d[k] \in Byte \union {Unset}
    OBVIOUS
  <2>1. CASE k \in Place .. Place + ElementSize - 1
    <3>1. k - Place \in Nat
      BY <1>3, <2>1
    <3>2. ByteOf(Value, k - Place) \in Byte
      BY <1>3, <3>1, ByteType
    <3> QED
      BY <2>1, <3>2
  <2>2. CASE k \notin Place .. Place + ElementSize - 1
    BY <1>2, <2>2 DEF HeapTypeOK
  <2> QED
    BY <2>1, <2>2
<1>5. DOMAIN d = DOMAIN bytes[v]
  OBVIOUS
<1> HIDE DEF d
<1>6. /\ DOMAIN bytes' = bufs /\ \A u \in bufs : DOMAIN bytes'[u] = DOMAIN bytes[u]
      /\ bytes'[v] = d /\ \A u \in bufs : u # v => bytes'[u] = bytes[u]
  BY <1>1, <1>2, <1>5
<1> HIDE DEF v
<1>7. IInv' /\ status' # "stopped"
  <2>1. stack' \in [Slots -> Object]
    BY <1>1 DEF IInv, TypeOK
  <2> QED
    BY <1>1, <1>3, <2>1, StackStep
<1>8. G!TypeOK'
  BY <1>1 DEF HeapTypeOK, G!TypeOK
<1>9. \A u \in bufs : \A k \in DOMAIN bytes'[u] : bytes'[u][k] \in Byte \union {Unset}
  <2> SUFFICES ASSUME NEW u \in bufs, NEW k \in DOMAIN bytes'[u]
               PROVE  bytes'[u][k] \in Byte \union {Unset}
    OBVIOUS
  <2>1. CASE u = v
    BY <1>4, <1>6, <2>1
  <2>2. CASE u # v
    BY <1>6, <2>2 DEF HeapTypeOK
  <2> QED
    BY <2>1, <2>2
<1>10. HeapTypeOK'
  BY <1>1, <1>6, <1>7, <1>8, <1>9 DEF HeapTypeOK, IInv
<1>11. HeadersOwn'
  BY <1>1, <1>6 DEF HeadersOwn
<1>12. HandlesStand'
  BY <1>1, <1>3, <1>7 DEF HandlesStand
<1>13. WritesStayInside'
  BY <1>1 DEF WritesStayInside
<1> QED
  BY <1>7, <1>10, <1>11, <1>12, <1>13

(* A step after which nothing is known but that the process is spoilt. *)
LEMMA SpoilInv ==
  ASSUME PInv, Spoil,
         \/ Inst.op = "HSETOF"
         \/ Inst.op = "NATIVE" /\ (Functions[arg + 1].acount > VargsCap \/ ~Functions[arg + 1].fits)
         \/ Inst.op = "HSET" /\ ~FreshAddress
         \/ Inst.op = "HSET" /\ \E i \in TargetHeaders : mem[i].size % ElementSize # 0
         \/ Inst.op = "HSET" /\ Arch = "i386" /\ ElementSize = WordBytes /\ Offset # 0
  PROVE  PInv'
<1> USE DEF PInv
<1>1. corrupt' = TRUE /\ UNCHANGED <<vars, base, cap, len, mem, count, bufs, held, handles,
                                     cursor, doomed, bytes>>
  BY DEF Spoil
<1>2. IInv'
  BY <1>1, FrozenStep
<1>3. UNCHANGED <<program, stack, sp, ip, status>>
  BY <1>1 DEF vars, operands
<1>4. G!TypeOK'
  BY <1>1 DEF HeapTypeOK, G!TypeOK
<1>5. HeapTypeOK' /\ HeadersOwn' /\ HandlesStand'
  BY <1>1, <1>2, <1>3, <1>4 DEF IInv, HeapTypeOK, HeadersOwn, HandlesStand
<1>6. UNCHANGED <<Inst, arg, FreshAddress, TargetHeaders, ElementSize, Offset>>
  BY <1>1, <1>3 DEF Inst, arg, size, FreshAddress, TargetHeaders, ElementSize, Offset, Top, Second
<1>7. WritesStayInside'
  BY <1>1, <1>6 DEF WritesStayInside
<1> QED
  BY <1>2, <1>5, <1>7

(* A fresh address reaches a header. *)
LEMMA FreshReaches ==
  ASSUME PInv, status # "stopped", FreshAddress
  PROVE  TargetHeaders # {}
<1>1. PICK h \in handles : h.base = base /\ AddressOf(stack[sp - 3]) = HeaderAddress(h.base, h.index)
  BY DEF FreshAddress
<1>2. h \in G!Handle /\ h.index < len /\ mem[h.index].value = h.value
  BY DEF PInv, HandlesStand, HeapTypeOK, G!TypeOK
<1>3. h.index \in 0 .. len - 1 /\ h.value # Junk
  BY <1>2, HeapAssumption DEF G!Handle, PInv, HeapTypeOK, G!TypeOK
<1> QED
  BY <1>1, <1>2, <1>3 DEF TargetHeaders

LEMMA HSetInv ==
  ASSUME PInv, ~corrupt, HSet
  PROVE  PInv'
<1>1. HeapExec({"HSET", "HSETOF"})
  BY DEF HSet
<1>2. /\ Looping /\ status # "stopped" /\ Inst.op \in {"HSET", "HSETOF"}
      /\ ElementSize \in Nat /\ Offset \in Nat /\ Place \in Nat
      /\ Inst.op = "HSET" => Second.lo \in Nat /\ Offset = (Second.lo * ElementSize) % W
  BY <1>1, SetOperands
<1>3. PICK i \in TargetHeaders :
        \/ ~InBlock(i) /\ Raise("INVALID_ARRAY_INDEX") /\ UNCHANGED heap
        \/ /\ InBlock(i) /\ ElementSize \notin WriteSizes
           /\ Raise("INVALID_PRIMITIVE_SIZE") /\ UNCHANGED heap
        \/ InBlock(i) /\ ElementSize \in WriteSizes /\ SetElement(i)
  BY Zenon DEF HSet
<1>4. CASE (Raise("INVALID_ARRAY_INDEX") \/ Raise("INVALID_PRIMITIVE_SIZE")) /\ UNCHANGED heap
  <2>1. \E e \in Exception : Raise(e)
    BY <1>4 DEF Exception
  <2>2. IInv' /\ status' # "stopped"
    BY <1>2, <2>1, EndStep DEF PInv
  <2> QED
    BY <1>2, <1>4, <2>2, HeapKept
<1>5. CASE InBlock(i) /\ ElementSize \in WriteSizes /\ SetElement(i)
  <2>1. CASE Place + ElementSize <= mem[i].size
    BY <1>1, <1>5, <2>1, WriteInv
  <2>2. CASE ~(Place + ElementSize <= mem[i].size)
    <3>1. Spoil
      BY <1>5, <2>2 DEF SetElement
    <3>2. CASE Arch = "i386" /\ ElementSize = WordBytes /\ Offset # 0
      BY <1>2, <3>1, <3>2, SpoilInv
    <3>3. CASE ~(Arch = "i386" /\ ElementSize = WordBytes /\ Offset # 0)
      <4>1. mem[i].size \in Nat /\ Offset < mem[i].size
        BY <1>5, TargetOwns DEF InBlock
      <4>2. Place = Offset
        BY <1>2, <3>3, Sizes DEF Place
      <4>3. Inst.op = "HSET" => mem[i].size % ElementSize # 0
        BY <1>2, <1>5, <2>2, <4>1, <4>2, WholeElements
      <4> QED
        BY <1>2, <3>1, <4>3, SpoilInv
    <3> QED
      BY <3>2, <3>3
  <2> QED
    BY <2>1, <2>2
<1> QED
  BY <1>3, <1>4, <1>5

LEMMA HSetWildInv ==
  ASSUME PInv, ~corrupt, HSetWild
  PROVE  PInv'
<1>1. HeapExec({"HSET", "HSETOF"}) /\ TargetHeaders = {}
  BY DEF HSetWild
<1>2. Looping /\ status # "stopped" /\ Inst.op \in {"HSET", "HSETOF"}
  BY <1>1, SetOperands
<1>3. CASE /\ Raise("INVALID_ARRAY_INDEX") \/ Raise("INVALID_PRIMITIVE_SIZE") \/ Crash
           /\ UNCHANGED heap
  <2>1. Crash \/ \E e \in Exception : Raise(e)
    BY <1>3 DEF Exception
  <2>2. IInv' /\ status' # "stopped"
    BY <1>2, <2>1, EndStep DEF PInv
  <2> QED
    BY <1>2, <1>3, <2>2, HeapKept
<1>4. CASE Spoil
  <2>1. ~FreshAddress
    BY <1>1, <1>2, FreshReaches
  <2> QED
    BY <1>2, <1>4, <2>1, SpoilInv
<1> QED
  BY <1>3, <1>4 DEF HSetWild

LEMMA HeapTrapInv ==
  ASSUME PInv, ~corrupt, HeapTrap
  PROVE  PInv'
<1>1. Looping /\ status # "stopped" /\ Raise(HeapFault) /\ UNCHANGED heap
        /\ Inst.op \in HeapOps /\ HeapFault # "OK"
  BY DEF HeapTrap, Looping
<1>2. HeapFault \in Exception
  BY <1>1 DEF HeapFault, Need, FirstOf, Check, HeapOps, Exception
<1>3. IInv' /\ status' # "stopped"
  BY <1>1, <1>2, EndStep DEF PInv
<1> QED
  BY <1>1, <1>3, HeapKept

-----------------------------------------------------------------------------
(* OP_NATIVE, the other opcodes and the end of the run.                    *)

LEMMA NativeTrapInv ==
  ASSUME PInv, ~corrupt, NativeTrap
  PROVE  PInv'
<1>1. Looping /\ status # "stopped" /\ UNCHANGED heap
  BY DEF NativeTrap, Looping
<1>2. NativeFaults \subseteq Exception
  BY DEF NativeFaults, Exception
<1>3. Crash \/ \E e \in Exception : Raise(e)
  BY <1>2, Zenon DEF NativeTrap
<1>4. IInv' /\ status' # "stopped"
  BY <1>1, <1>3, EndStep DEF PInv
<1> QED
  BY <1>1, <1>4, HeapKept

(* A declared function takes its arguments from the stack, and there is    *)
(* room for its result.                                                    *)
LEMMA NativeChecked ==
  ASSUME TypeOK, NativeFaults = {}, Declared(arg)
  PROVE  /\ Functions[arg + 1] \in NativeFunction
         /\ Functions[arg + 1].acount \in 0 .. sp
         /\ sp < StackCap
<1>1. arg \in Nat /\ sp \in Nat /\ StackCap \in Nat
  BY InstType, SizeAssumption DEF TypeOK
<1> DEFINE f == Functions[arg + 1]
<1>2. f \in NativeFunction /\ f.acount \in Nat
  <2>1. arg + 1 \in 1 .. Len(Functions)
    BY <1>1, FunctionsAssumption DEF Declared
  <2>2. f \in NativeFunction
    BY <2>1, FunctionsAssumption
  <2> QED
    BY <2>2 DEF NativeFunction
<1>3. ACount(arg) = {f.acount}
  BY DEF ACount, Declared
<1> HIDE DEF f
<1>4. ~(sp < f.acount)
  BY <1>3 DEF NativeFaults
<1>5. sp < StackCap
  BY <1>1, <1>2, <1>3, <1>4 DEF NativeFaults
<1> QED
  BY <1>1, <1>2, <1>4, <1>5 DEF f

LEMMA NativeCallInv ==
  ASSUME PInv, ~corrupt, NativeCall
  PROVE  PInv'
<1> USE DEF PInv
<1> DEFINE f == Functions[arg + 1]
           n == f.acount
<1>1. Looping /\ status # "stopped" /\ Inst.op = "NATIVE" /\ NativeFaults = {} /\ Declared(arg)
  BY DEF NativeCall, Looping, NativeOps
<1>2. n \in 0 .. sp /\ sp < StackCap /\ sp \in Nat /\ StackCap \in Nat
  BY <1>1, NativeChecked, SizeAssumption DEF IInv, TypeOK
<1>3. CASE Overruns(f) /\ Spoil
  BY <1>1, <1>3, SpoilInv DEF Overruns
<1>4. CASE Crash /\ UNCHANGED heap
  <2>1. IInv' /\ status' # "stopped"
    BY <1>1, <1>4, EndStep
  <2> QED
    BY <1>1, <1>4, <2>1, HeapKept
<1>5. CASE /\ IF f.void THEN sp' = sp - n /\ UNCHANGED stack
              ELSE \E w \in Results(f) : Return(f, w)
           /\ Advance
           /\ UNCHANGED <<frames, global_vars, heap>>
  <2>1. sp' \in 0 .. StackCap /\ stack' \in [Slots -> Object]
    <3>1. CASE f.void
      BY <1>2, <1>5, <3>1 DEF IInv, TypeOK
    <3>2. CASE ~f.void
      <4>1. PICK w \in Results(f) : Return(f, w)
        BY <1>5, <3>2
      <4>2. w \in Word
        BY <4>1, WordNat DEF Results
      <4> HIDE DEF f
      <4>3. stack' = [stack EXCEPT ![sp - n].lo = w] /\ sp' = sp - n + 1
        BY <4>1 DEF Return
      <4> HIDE DEF n
      <4>4. sp - n \in Slots /\ sp - n + 1 \in 0 .. StackCap
        BY <1>2 DEF Slots
      <4> QED
        BY <4>2, <4>3, <4>4, WriteWord DEF IInv
    <3> QED
      BY <3>1, <3>2
  <2>2. IInv' /\ status' # "stopped"
    BY <1>1, <1>5, <2>1, StackStep
  <2> QED
    BY <1>1, <1>5, <2>2, HeapKept
<1> QED
  BY <1>3, <1>4, <1>5, Zenon DEF NativeCall

LEMMA HeapStopInv ==
  ASSUME PInv, ~corrupt, HeapStop
  PROVE  PInv'
<1> USE DEF PInv
<1>1. /\ Stop /\ status' = "stopped"
      /\ base' = Nowhere /\ cap' = 0 /\ len' = 0 /\ mem' = [i \in {} |-> G!Unwritten]
      /\ UNCHANGED <<count, bufs, held, handles, cursor, doomed, corrupt, bytes>>
  BY DEF HeapStop, Stop
<1>2. IInv'
  BY <1>1, StopInv
<1>3. G!TypeOK'
  <2>1. mem' \in [0 .. cap' - 1 -> G!Block] /\ len' \in 0 .. cap' /\ cap' \in Nat
    BY <1>1
  <2>2. base' \in Base \union {Nowhere}
    BY <1>1
  <2> QED
    BY <1>1, <2>1, <2>2 DEF HeapTypeOK, G!TypeOK
<1>4. HeapTypeOK' /\ HeadersOwn'
  BY <1>1, <1>2, <1>3 DEF HeapTypeOK, HeadersOwn, IInv
<1>5. HandlesStand' /\ WritesStayInside'
  BY <1>1 DEF HandlesStand, WritesStayInside
<1> QED
  BY <1>2, <1>4, <1>5

LEMMA OpcodeInv ==
  ASSUME PInv, ~corrupt, Trap \/ OpcodeStep, UNCHANGED heap
  PROVE  PInv'
<1>1. status # "stopped" /\ status' # "stopped"
  <2>1. Looping
    BY DEF Trap, OpcodeStep, Nop, Halt, PushOperand, PopOperand, BinaryOp, UnaryOp, Dup, Cln,
           Swap, LoadC, ALoadC, Puts, Load, Store, GLoad, GStore, Jump, Branch, Call, Ret, Exec
  <2>2. CASE Trap
    BY <2>1, <2>2, FaultType DEF Trap, Raise, Looping, Exception
  <2>3. CASE OpcodeStep
    <3>1. status' \in {status, "crashed"}
      BY <2>3 DEF OpcodeStep, Nop, Halt, PushOperand, PopOperand, BinaryOp, UnaryOp, Dup, Cln,
           Swap, LoadC, ALoadC, Puts, Load, Store, GLoad, GStore, Jump, Branch, Call, Ret,
           Advance, Goto, Crash
    <3> QED
      BY <2>1, <3>1 DEF Looping
  <2> QED
    BY <2>1, <2>2, <2>3 DEF Looping
<1>2. IInv'
  BY StepInv DEF PInv, Next
<1> QED
  BY <1>1, <1>2, HeapKept

LEMMA PStep == PInv /\ [ProcessNext]_<<vars, heap>> => PInv'
<1> SUFFICES ASSUME PInv, [ProcessNext]_<<vars, heap>> PROVE PInv'
  OBVIOUS
<1>1. CASE ProcessNext
  BY <1>1, HeapTrapInv, HAllocInv, DerefInv, HSetInv, HSetWildInv, HeapStopInv, NativeTrapInv,
     NativeCallInv, OpcodeInv DEF ProcessNext, HeapStep
<1>2. CASE UNCHANGED <<vars, heap>>
  <2>1. UNCHANGED <<base, cap, len, mem, count, bufs, held, handles, cursor, doomed, corrupt, bytes>>
    BY <1>2 DEF heap
  <2>2. IInv' /\ UNCHANGED <<program, stack, sp, ip, status>>
    BY <1>2, FrozenStep DEF PInv, vars, operands
  <2>3. G!TypeOK'
    BY <2>1 DEF PInv, HeapTypeOK, G!TypeOK
  <2>4. HeapTypeOK' /\ HeadersOwn' /\ HandlesStand'
    BY <2>1, <2>2, <2>3 DEF PInv, IInv, HeapTypeOK, HeadersOwn, HandlesStand
  <2>5. UNCHANGED <<Inst, arg, FreshAddress, TargetHeaders, ElementSize, Offset>>
    BY <2>1, <2>2 DEF Inst, arg, size, FreshAddress, TargetHeaders, ElementSize, Offset, Top, Second
  <2>6. WritesStayInside'
    BY <2>1, <2>5 DEF PInv, WritesStayInside
  <2> QED
    BY <2>2, <2>4, <2>6 DEF PInv
<1> QED
  BY <1>1, <1>2

LEMMA ProcessInvariance == ProcessSpec => []PInv
  BY PInit, PStep, PTL DEF ProcessSpec

-----------------------------------------------------------------------------
(* Seen through the buffers, a step makes a block, writes an element       *)
(* inside one, or leaves every byte alone.                                 *)

LEMMA HAllocMaps ==
  ASSUME PInv, HAlloc
  PROVE  Blocks!New
<1> USE DEF PInv, IInv, HeapTypeOK
<1>1. sp >= 2 /\ Inst.op = "HALLOC"
  BY HeapChecked DEF HAlloc, HeapExec
<1>2. Second.lo \in Word /\ Second.lo \in Nat /\ Top.lo \in Nat
  <2>1. 1 \in 1 .. 4 /\ 2 \in 1 .. 4 /\ sp >= 1
    BY <1>1 DEF TypeOK
  <2> QED
    BY <1>1, <2>1, OperandTypes DEF Second, Top
<1> DEFINE n == Second.lo
           p == Top.lo
<1>3. /\ G!CreateBlock(n, p)
      /\ bytes' = [v \in bufs' |-> IF v \in bufs THEN bytes[v] ELSE [i \in 0 .. n - 1 |-> Unset]]
  BY DEF HAlloc
<1>4. n \in 0 .. BufferRoom /\ n \in Nat /\ p \in Nat
  BY <1>2, HeapAssumption DEF HAlloc
<1> HIDE DEF n, p
<1>5. PICK v \in Buffer \ bufs : bufs' = bufs \union {v}
  BY <1>3, <1>4, HAllocEffect
<1>6. /\ v \in Buffer \ DOMAIN bytes
      /\ bytes' = [i \in DOMAIN bytes \union {v} |->
                     IF i \in DOMAIN bytes THEN bytes[i] ELSE [k \in 0 .. n - 1 |-> Unset]]
  BY <1>3, <1>5
<1> QED
  BY <1>4, <1>6, Zenon DEF Blocks!New

LEMMA WriteMaps ==
  ASSUME PInv, HeapExec({"HSET", "HSETOF"}), NEW i \in TargetHeaders,
         ElementSize \in WriteSizes, SetElement(i),
         Place + ElementSize <= mem[i].size
  PROVE  Blocks!Set
<1> DEFINE v == mem[i].value
           n == ElementSize
           x == [k \in 0 .. n - 1 |-> ByteOf(Value, k)]
<1>1. /\ v \in bufs /\ DOMAIN bytes = bufs /\ mem[i].size \in Nat
      /\ DOMAIN bytes[v] = 0 .. mem[i].size - 1
  BY TargetOwns DEF PInv, HeapTypeOK
<1>2. n \in Nat \ {0} /\ Place \in Nat /\ Value \in Nat
  BY SetOperands, Sizes
<1>3. x \in [0 .. n - 1 -> Byte]
  BY <1>2, ByteType
<1>4. Place \in DOMAIN bytes[v] /\ Place + n - 1 \in DOMAIN bytes[v]
  BY <1>1, <1>2
<1>5. bytes' = [bytes EXCEPT ![v] = Blocks!Written(v, Place, x)]
  <2>1. bytes' = [bytes EXCEPT ![v] = [k \in DOMAIN bytes[v] |->
                    IF k \in Place .. Place + n - 1 THEN ByteOf(Value, k - Place)
                                                       ELSE bytes[v][k]]]
    BY DEF SetElement, Write
  <2>2. \A k \in DOMAIN bytes[v] :
          /\ k - Place \in DOMAIN x <=> k \in Place .. Place + n - 1
          /\ k - Place \in DOMAIN x => x[k - Place] = ByteOf(Value, k - Place)
    BY <1>1, <1>2
  <2> HIDE DEF x, v, n
  <2>3. Blocks!Written(v, Place, x) =
          [k \in DOMAIN bytes[v] |->
             IF k \in Place .. Place + n - 1 THEN ByteOf(Value, k - Place) ELSE bytes[v][k]]
    BY <2>2 DEF Blocks!Written
  <2> QED
    BY <2>1, <2>3
<1> HIDE DEF x, v
<1>6. \E offset \in {k \in DOMAIN bytes[v] : k + n - 1 \in DOMAIN bytes[v]},
         y \in [0 .. n - 1 -> Byte] :
        bytes' = [bytes EXCEPT ![v] = Blocks!Written(v, offset, y)]
  BY <1>3, <1>4, <1>5
<1> QED
  BY <1>1, <1>6 DEF Blocks!Set

LEMMA StepMaps == PInv /\ [ProcessNext]_<<vars, heap>> => [Blocks!Next]_bytes
<1> SUFFICES ASSUME PInv, [ProcessNext]_<<vars, heap>> PROVE [Blocks!Next]_bytes
  OBVIOUS
<1>1. CASE HAlloc
  BY <1>1, HAllocMaps DEF Blocks!Next
<1>2. CASE HSet
  <2>1. HeapExec({"HSET", "HSETOF"})
    BY <1>2 DEF HSet
  <2>2. PICK i \in TargetHeaders :
          UNCHANGED heap \/ (InBlock(i) /\ ElementSize \in WriteSizes /\ SetElement(i))
    BY <1>2, Zenon DEF HSet
  <2>3. CASE UNCHANGED heap \/ Spoil
    BY <2>3 DEF heap, Spoil
  <2>4. CASE /\ InBlock(i) /\ ElementSize \in WriteSizes /\ SetElement(i)
             /\ Place + ElementSize <= mem[i].size
    BY <2>1, <2>4, WriteMaps DEF Blocks!Next
  <2> QED
    BY <2>2, <2>3, <2>4 DEF SetElement
<1>3. CASE Spoil \/ UNCHANGED heap \/ HeapStop
  BY <1>3 DEF Spoil, heap, HeapStop
<1>4. CASE HeapTrap \/ Deref \/ NativeTrap \/ UNCHANGED <<vars, heap>>
           \/ ((Trap \/ OpcodeStep) /\ UNCHANGED heap)
  BY <1>3, <1>4 DEF HeapTrap, Deref, NativeTrap
<1>5. CASE HSetWild
  BY <1>3, <1>5 DEF HSetWild
<1>6. CASE NativeCall
  <2>1. Spoil \/ UNCHANGED heap
    BY <1>6, Zenon DEF NativeCall
  <2> QED
    BY <1>3, <2>1
<1> QED
  BY <1>1, <1>2, <1>3, <1>4, <1>5, <1>6 DEF ProcessNext, HeapStep

-----------------------------------------------------------------------------
(* The results.                                                            *)

(* No program, whatever native functions it calls and whatever it reads    *)
(* through its addresses, drives the whole interpreter out of its arrays:  *)
(* operand and return stacks, frames, variables, the array of headers.     *)
THEOREM ProcessTypeCorrect == ProcessSpec => []HeapTypeOK
<1>1. PInv => HeapTypeOK
  BY DEF PInv
<1> QED
  BY <1>1, ProcessInvariance, PTL

(* The heap opcodes and native calls leave the frame list and the return   *)
(* stack as sound as the other opcodes do.                                 *)
THEOREM ProcessFramesCorrect == ProcessSpec => [](FrameChain /\ ReturnsBehindCalls)
<1>1. PInv => FrameChain /\ ReturnsBehindCalls
  BY DEF PInv, IInv
<1> QED
  BY <1>1, ProcessInvariance, PTL

(* An address OP_HALLOC returned reaches its block's header as long as the *)
(* array of headers is where it was, and the header says what was          *)
(* allocated.                                                              *)
THEOREM HeadersCorrect == ProcessSpec => []HeadersDescribeBuffers
<1>1. PInv => HeadersDescribeBuffers
  <2> SUFFICES ASSUME PInv, NEW h \in handles, h.base = base
               PROVE  /\ mem[h.index].value = h.value /\ mem[h.index].size = h.size
                      /\ DOMAIN bytes[h.value] = 0 .. h.size - 1
    BY DEF HeadersDescribeBuffers
  <2>1. h \in G!Handle /\ cap \in Nat /\ len \in 0 .. cap
    BY DEF PInv, HeapTypeOK, G!TypeOK
  <2>2. status # "stopped"
    BY <2>1, HeapAssumption DEF PInv, HandlesStand, G!Handle
  <2>3. h.index < len /\ mem[h.index].value = h.value /\ mem[h.index].size = h.size
    BY <2>2 DEF PInv, HandlesStand
  <2>4. h.index \in 0 .. cap - 1 /\ h.value # Junk
    BY <2>1, <2>3, HeapAssumption DEF G!Handle
  <2> QED
    BY <2>3, <2>4 DEF PInv, HeadersOwn
<1> QED
  BY <1>1, ProcessInvariance, PTL

(* What spoils the process: OP_HSETOF, a native call with more arguments   *)
(* than its array takes or a result longer than its variable, OP_HSET      *)
(* through an address that is stale or of a block that does not hold whole *)
(* elements, and in the build for i386 OP_HSET of a word that is not the   *)
(* block's first (tvm.h:936).  For x86_64 it is never OP_HSET through a    *)
(* fresh address of a block of whole elements, though its product wraps.   *)
THEOREM WritesCorrect == ProcessSpec => []WritesStayInside
<1>1. PInv => WritesStayInside
  BY DEF PInv
<1> QED
  BY <1>1, ProcessInvariance, PTL

(* The heap of the interpreter is a store of blocks: every behaviour of    *)
(* the process, seen through its buffers, makes blocks and writes whole    *)
(* elements of a primitive size inside one of them, and does nothing else. *)
THEOREM BlocksCorrect == ProcessSpec => ImplementsBlockStore
<1>1. HeapInit => Blocks!Init
  BY DEF HeapInit, Blocks!Init
<1> QED
  BY <1>1, StepMaps, ProcessInvariance, PTL DEF ProcessSpec, ImplementsBlockStore, Blocks!Spec
=============================================================================
