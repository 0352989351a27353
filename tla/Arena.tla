-------------------------------- MODULE Arena --------------------------------
(***************************************************************************)
(* The arena allocator (src/include/common/arena.h): each arena is a       *)
(* doubly linked list of regions, and its handle designates the region     *)
(* that serves requests.  A full region is left behind for a new one.      *)
(*                                                                         *)
(* arena_alloc takes the handle by reference and moves it; a caller that   *)
(* passes a copy (tci_prepare_function, arena_realloc) gets the new region *)
(* but leaves the handle where it was.                                     *)
(***************************************************************************)
EXTENDS Integers, Sequences

CONSTANTS
  Arenas,    \* the arenas of the process
  Capacity,  \* arena_init's size, of each
  Requests   \* the sizes that are asked for

ASSUME CapacityAssumption == Capacity \in [Arenas -> Nat]
ASSUME RequestsAssumption == Requests \subseteq Nat

VARIABLES
  regions,   \* every region malloc gave out; the address of one is its index
  handle,    \* the region each arena's handle points to
  blocks     \* every block arena_alloc gave out; live until reset or freed

arenaVars == <<regions, handle, blocks>>

Null == 0
Region(a, used, prev) ==
  [arena |-> a, size |-> used, prev |-> prev, next |-> Null, frees |-> 0]
Block(r, from, n) == [region |-> r, from |-> from, to |-> from + n, live |-> TRUE]

-----------------------------------------------------------------------------

Fits_Before(r, n) == regions[r].size <= Capacity[regions[r].arena]   \* faulty: without n
Fits(r, n) == regions[r].size + n <= Capacity[regions[r].arena]

Bump_Forgotten(r, n) == UNCHANGED regions   \* faulty: the region's size stays
Bump(r, n) == regions' = [regions EXCEPT ![r].size = @ + n]

TakeHere(r, n) ==
  /\ Bump(r, n)
  /\ blocks' = Append(blocks, Block(r, regions[r].size, n))

(* arena_grow: the new region is behind r, and whatever was behind r is    *)
(* no longer.                                                              *)
TakeBehind(r, n) ==
  LET new == Len(regions) + 1 IN
  /\ regions' = Append([regions EXCEPT ![r].next = new], Region(regions[r].arena, n, r))
  /\ blocks' = Append(blocks, Block(new, 0, n))

(* arena_alloc gives out nothing for a size of 0. *)
Alloc(a, n) ==
  LET r == handle[a] IN
  IF n = 0 THEN UNCHANGED arenaVars
  ELSE IF Fits(r, n) THEN TakeHere(r, n) /\ UNCHANGED handle
  ELSE TakeBehind(r, n) /\ handle' = [handle EXCEPT ![a] = Len(regions) + 1]

AllocByCopy(a, n) ==
  LET r == handle[a] IN
  /\ UNCHANGED handle
  /\ IF n = 0 THEN UNCHANGED <<regions, blocks>>
     ELSE IF Fits(r, n) THEN TakeHere(r, n) ELSE TakeBehind(r, n)

Kill(S) == blocks' = [i \in DOMAIN blocks |->
                        [blocks[i] EXCEPT !.live = @ /\ blocks[i].region \notin S]]

Reset(a) ==
  /\ regions' = [regions EXCEPT ![handle[a]].size = 0]
  /\ Kill({handle[a]})
  /\ UNCHANGED handle

(* arena_destroy: back to the head, then forward freeing all. *)
Leftmost[r \in DOMAIN regions] == IF regions[r].prev = Null THEN r ELSE Leftmost[regions[r].prev]
Rightward[r \in {Null} \union DOMAIN regions] ==
  IF r = Null THEN {} ELSE {r} \union Rightward[regions[r].next]

FreeAll(S) ==
  /\ regions' = [r \in DOMAIN regions |-> [regions[r] EXCEPT !.frees = IF r \in S THEN @ + 1 ELSE @]]
  /\ Kill(S)
  /\ UNCHANGED handle
Destroy_FromHandle(a) == FreeAll(Rightward[handle[a]])   \* faulty: does not go back first
Destroy(a) == FreeAll(Rightward[Leftmost[handle[a]]])

-----------------------------------------------------------------------------
(* What its users promise: no call on an arena that was destroyed.         *)

InUse(a) == regions[handle[a]].frees = 0

ArenaInit ==
  /\ regions \in Seq({Region(a, 0, Null) : a \in Arenas})
  /\ handle \in [Arenas -> DOMAIN regions]
  /\ \A a \in Arenas : regions[handle[a]].arena = a
  /\ \A r \in DOMAIN regions : handle[regions[r].arena] = r
  /\ blocks = <<>>

ArenaNext ==
  \E a \in Arenas :
    /\ InUse(a)
    /\ \/ \E n \in Requests : Alloc(a, n) \/ AllocByCopy(a, n)
       \/ Reset(a)
       \/ Destroy(a)

ArenaSpec == ArenaInit /\ [][ArenaNext]_arenaVars

-----------------------------------------------------------------------------
(* Properties.                                                             *)

(* Two blocks in use share no byte, however many regions there are and     *)
(* whether the handle was passed by reference or by copy                   *)
(* (arena.h:55-82).                                                        *)
BlocksDisjoint ==
  \A i, j \in DOMAIN blocks :
    i # j /\ blocks[i].live /\ blocks[j].live /\ blocks[i].region = blocks[j].region
      => blocks[i].to <= blocks[j].from \/ blocks[j].to <= blocks[i].from

Overruns(b) == b.to > Capacity[regions[b.region].arena]

(* A block that reaches past its region is alone larger than a region:     *)
(* growing does not make a region as large as the request (arena.h:59-66). *)
OnlyLargeBlocksOverrun ==
  \A i \in DOMAIN blocks :
    blocks[i].live /\ Overruns(blocks[i])
      => blocks[i].to - blocks[i].from > Capacity[regions[blocks[i].region].arena]

(* No region is freed twice, and what a destroyed arena leaks is exactly   *)
(* the regions another one took the place of behind the same region        *)
(* (arena.h:78, 88-101).                                                   *)
Displaced(r) ==
  \E s \in DOMAIN regions : s > r /\ regions[s].prev = regions[r].prev /\ regions[r].prev # Null
OnlyDisplacedRegionsLeak ==
  \A r \in DOMAIN regions :
    LET destroyed == regions[handle[regions[r].arena]].frees > 0 IN
    regions[r].frees = IF destroyed /\ ~Displaced(r) THEN 1 ELSE 0
=============================================================================
