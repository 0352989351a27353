--------------------------------- MODULE TGC ---------------------------------
(***************************************************************************)
(* The garbage-collected heap of src/include/tvm/tgc.h: a growable array   *)
(* of block headers (stb_ds) and the buffers they own.  The virtual        *)
(* machine keeps the ADDRESSES of headers; held has every one it was ever  *)
(* given, handles those that no sweep has shifted away yet, with the block *)
(* each was given out for.                                                 *)
(*                                                                         *)
(* A sweep takes one step for each iteration of its loop.  The children of *)
(* a block are not modelled: nothing ever writes gc_block.pointers.        *)
(***************************************************************************)
EXTENDS Integers, FiniteSets

CONSTANTS
  Buffer,      \* addresses malloc may return for a value
  Base,        \* addresses realloc may return for the array
  Nowhere,     \* the null pointer
  Junk,        \* a pointer nobody has written yet
  Sizes,       \* sizes of the blocks the program asks for
  ArrayMin,    \* the least capacity stb_ds allocates: 4
  MaxPointers, \* bound: pointer_count of a block
  MaxBlocks    \* bound: headers in the array

ASSUME BufferAssumption == Junk \notin Buffer /\ Nowhere \notin Buffer /\ IsFiniteSet(Buffer)
ASSUME BaseAssumption == Nowhere \notin Base /\ Base # {}
ASSUME SizesAssumption == Sizes \subseteq Nat
ASSUME BoundAssumption ==
  ArrayMin \in Nat \ {0} /\ MaxPointers \in Nat /\ MaxBlocks \in Nat

VARIABLES
  base,     \* where __heap is
  cap,      \* its capacity
  len,      \* arrlen(__heap)
  mem,      \* the headers in its memory, also those from len up
  count,    \* __heap_block_count
  bufs,     \* buffers malloc'ed and not yet freed
  held,     \* addresses of headers the program may hold
  handles,  \* those that should still stand for their block
  cursor,   \* the loop counter of a running sweep, or None
  doomed,   \* the buffers a running sweep has to free
  corrupt   \* a wild or double free has happened

None == -1

array == <<base, cap, len, mem>>
vars == <<array, count, bufs, held, handles, cursor, doomed, corrupt>>

(* gc_block, without pointer_count and pointers, which nothing reads. *)
Block == [value : Buffer \union {Junk}, size : Nat, marked : BOOLEAN]
Unwritten == [value |-> Junk, size |-> 0, marked |-> FALSE]

(* value and size are what the header held when the address was given out. *)
Address == [base : Base, index : Nat]
Handle == [base : Base, index : Nat, value : Buffer, size : Nat]

-----------------------------------------------------------------------------
(* stb_ds arrays.                                                          *)

(* stbds_arrgrowf: the capacity for at least n elements. *)
Grown_Late(n, c) == IF c = 0 THEN ArrayMin ELSE IF n <= 2 * c THEN c ELSE 2 * c   \* faulty
Grown(n, c) == IF n <= c THEN c
               ELSE IF n < 2 * c THEN 2 * c
               ELSE IF n < ArrayMin THEN ArrayMin ELSE n

(* The array a with room for n more: realloc may move it or leave it. *)
Reserve(a, n) ==
  IF a.base # Nowhere /\ a.len + n <= a.cap THEN {a}
  ELSE LET c == Grown(a.len + n, a.cap) IN
       {[a EXCEPT !.base = b, !.cap = c,
                  !.mem = [i \in 0 .. c - 1 |-> IF i < a.cap THEN a.mem[i] ELSE Unwritten]] :
          b \in Base}

Put(a, block) == [a EXCEPT !.mem[a.len] = block, !.len = a.len + 1]

Array == [base |-> base, cap |-> cap, len |-> len, mem |-> mem]

SetArray(a) == base' = a.base /\ cap' = a.cap /\ len' = a.len /\ mem' = a.mem

(* arrdel(mem, i): the headers behind i move down; the last stays behind. *)
Del(m, i) == [j \in DOMAIN m |-> IF j \in i .. len - 2 THEN m[j + 1] ELSE m[j]]

-----------------------------------------------------------------------------
(* Handlers.                                                               *)

Idle == cursor = None /\ ~corrupt

(* The address tgc_create_block returns: it counts headers itself. *)
NewIndex_Last(a) == a.len - 1   \* faulty: the last header, also of uninitialised ones
NewIndex(a) == count

(* The headers a block takes: its own and one for each pointer. *)
Headers_One(pointers) == 1   \* faulty: forgets the pointers
Headers(pointers) == pointers + 1

(* tgc_create_block: put the block, then room for its pointers behind it. *)
CreateBlock(size, pointers) ==
  /\ Idle
  /\ len + 1 + pointers <= MaxBlocks
  /\ \E v \in Buffer \ bufs, a1 \in Reserve(Array, 1) :
       LET block == [value |-> v, size |-> size, marked |-> FALSE]
           a2 == Put(a1, block)
       IN  \E a3 \in (IF pointers = 0 THEN {a2} ELSE Reserve(a2, pointers)) :
             LET a == [a3 EXCEPT !.len = a3.len + pointers] IN
             /\ SetArray(a)
             /\ bufs' = bufs \union {v}
             /\ held' = held \union {[base |-> a.base, index |-> NewIndex(a)]}
             /\ handles' = handles \union
                  {[base |-> a.base, index |-> NewIndex(a), value |-> v, size |-> size]}
  /\ count' = count + Headers(pointers)
  /\ UNCHANGED <<cursor, doomed, corrupt>>

(* tgc_mark of the header at address p.  Through the address of an array   *)
(* that has moved it writes to freed memory, and a header nobody wrote has *)
(* a wild list of children.                                                *)
Mark(p) ==
  /\ Idle
  /\ IF p.base = base
       THEN /\ mem' = [mem EXCEPT ![p.index].marked = TRUE]
            /\ corrupt' \in {FALSE, mem[p.index].value = Junk}
       ELSE corrupt' = TRUE /\ UNCHANGED mem
  /\ UNCHANGED <<base, cap, len, count, bufs, held, handles, cursor, doomed>>

(* tgc_sweep starts; doomed is what it has to free. *)
SweepBegin ==
  /\ Idle
  /\ cursor' = 0
  /\ doomed' = {mem[i].value : i \in {j \in 0 .. len - 1 : ~mem[j].marked}} \ {Junk}
  /\ UNCHANGED <<array, count, bufs, held, handles, corrupt>>

(* if (value) free(value): an unwritten value may be null or anything, and *)
(* freeing what is not allocated corrupts the allocator.                   *)
Free(value) ==
  \/ value \in bufs /\ bufs' = bufs \ {value} /\ UNCHANGED corrupt
  \/ value \notin bufs /\ corrupt' = TRUE /\ UNCHANGED bufs
  \/ value = Junk /\ UNCHANGED <<bufs, corrupt>>

(* The mark of a header nobody wrote can be anything. *)
SeemsMarked(block) == block.marked \/ block.value = Junk
SeemsUnmarked_Inverted(block) == block.marked   \* faulty
SeemsUnmarked(block) == ~block.marked

SweepKeep ==
  /\ SeemsMarked(mem[cursor])
  /\ mem' = [mem EXCEPT ![cursor].marked = FALSE]
  /\ UNCHANGED <<len, count, bufs, handles, corrupt>>

(* The header is deleted first, so what is freed is the buffer of the one  *)
(* that took its place, and the loop then steps over that one.  Addresses  *)
(* at or behind the deleted header no longer stand for their blocks.       *)
SweepDelete ==
  /\ SeemsUnmarked(mem[cursor])
  /\ mem' = Del(mem, cursor)
  /\ len' = len - 1
  /\ count' = count - 1
  /\ Free(mem'[cursor].value)
  /\ handles' = {h \in handles : h.index < cursor}

SweepStep ==
  /\ cursor # None /\ ~corrupt
  /\ cursor < len
  /\ SweepKeep \/ SweepDelete
  /\ cursor' = cursor + 1
  /\ UNCHANGED <<base, cap, held, doomed>>

SweepEnd ==
  /\ cursor # None /\ ~corrupt
  /\ cursor >= len
  /\ cursor' = None
  /\ doomed' = {}
  /\ UNCHANGED <<array, count, bufs, held, handles, corrupt>>

Init ==
  /\ base = Nowhere /\ cap = 0 /\ len = 0 /\ mem = [i \in {} |-> Unwritten]
  /\ count = 0
  /\ bufs = {} /\ held = {} /\ handles = {}
  /\ cursor = None /\ doomed = {}
  /\ corrupt = FALSE

Next ==
  \/ \E size \in Sizes, pointers \in 0 .. MaxPointers : CreateBlock(size, pointers)
  \/ \E p \in held : Mark(p)
  \/ SweepBegin \/ SweepStep \/ SweepEnd

Spec == Init /\ [][Next]_vars

-----------------------------------------------------------------------------
(* Properties.                                                             *)

TypeOK ==
  /\ base \in Base \union {Nowhere} /\ cap \in Nat /\ len \in 0 .. cap
  /\ mem \in [0 .. cap - 1 -> Block]
  /\ count \in Nat
  /\ bufs \subseteq Buffer /\ held \subseteq Address /\ handles \subseteq Handle
  /\ cursor \in Nat \union {None} /\ doomed \subseteq Buffer
  /\ corrupt \in BOOLEAN

(* The counter tgc_create_block computes addresses from always agrees with *)
(* the array's own length, also in the middle of a sweep (tgc.h:51-58, 92). *)
CountIsLength == count = len

(* As long as the array has not moved and no sweep has shifted its header, *)
(* an address handed out reaches the block it was handed out for, whatever *)
(* blocks, marks and sweeps came after it (tgc.h:50-69, 87-97).            *)
HandlesDesignate ==
  \A h \in handles : h.base = base =>
    h.index < len /\ mem[h.index].value = h.value /\ mem[h.index].size = h.size

(* A sweep never drops the header of a marked block, neither one it finds  *)
(* marked nor one it skips (tgc.h:87-97).                                  *)
MarkedStay ==
  [][\A i \in 0 .. len - 1 : mem[i].marked /\ mem[i].value # Junk =>
       \E j \in 0 .. len' - 1 : mem'[j].value = mem[i].value]_vars

(* Claim of tvm.h:1066, "Sweep phase: Free unmarked blocks": when a sweep  *)
(* ends, the buffers of the blocks it found unmarked are free.             *)
SweepFreesUnmarked == [][SweepEnd => doomed \intersect bufs = {}]_vars

(* Claim of tgc.h:65, "10 is default": the array holds ten headers before  *)
(* it has to move, so until then no address handed out goes stale.         *)
FirstTenStay == len <= 10 => \A h \in handles : h.base = base
=============================================================================
