----------------------------- MODULE ArenaProofs -----------------------------
(***************************************************************************)
(* For arenas of any number and capacity and requests of any size: blocks  *)
(* in use are disjoint, only a request larger than a region overruns one,  *)
(* and only regions another took the place of are leaked.                  *)
(***************************************************************************)
EXTENDS Arena, LeastNumber

RegionType == [arena : Arenas, size : Nat, prev : Nat, next : Nat, frees : Nat]
BlockType == [region : Nat, from : Nat, to : Nat, live : BOOLEAN]

ArenaTypeOK ==
  /\ regions \in Seq(RegionType)
  /\ handle \in [Arenas -> DOMAIN regions]
  /\ blocks \in Seq(BlockType)

(* The strengthening: a block in use ends where its region's size says, or *)
(* before, so that the next one begins behind it.                          *)
BlocksBelowSize ==
  \A i \in DOMAIN blocks :
    /\ blocks[i].region \in DOMAIN regions
    /\ blocks[i].live => blocks[i].to <= regions[blocks[i].region].size

IInv == ArenaTypeOK /\ BlocksBelowSize /\ BlocksDisjoint /\ OnlyLargeBlocksOverrun

(* Sequences with one element replaced, or with all of them. *)
LEMMA SeqUpdate ==
  ASSUME NEW T, NEW s \in Seq(T), NEW i \in DOMAIN s, NEW e \in T
  PROVE  /\ [s EXCEPT ![i] = e] \in Seq(T)
         /\ Len([s EXCEPT ![i] = e]) = Len(s)
         /\ DOMAIN [s EXCEPT ![i] = e] = DOMAIN s
         /\ \A k \in DOMAIN s : [s EXCEPT ![i] = e][k] = IF k = i THEN e ELSE s[k]
  OBVIOUS

LEMMA SeqMap ==
  ASSUME NEW T, NEW s \in Seq(T), NEW f, f \in [DOMAIN s -> T]
  PROVE  f \in Seq(T) /\ Len(f) = Len(s)
  OBVIOUS

(* The types of the fields. *)
LEMMA Fields ==
  ASSUME ArenaTypeOK
  PROVE  /\ \A r \in DOMAIN regions :
              /\ regions[r].arena \in Arenas /\ regions[r].size \in Nat /\ regions[r].prev \in Nat
              /\ regions[r].next \in Nat /\ regions[r].frees \in Nat
              /\ Capacity[regions[r].arena] \in Nat
              /\ regions[r] = [arena |-> regions[r].arena, size |-> regions[r].size,
                               prev |-> regions[r].prev, next |-> regions[r].next,
                               frees |-> regions[r].frees]
         /\ \A i \in DOMAIN blocks :
              /\ blocks[i].region \in Nat /\ blocks[i].from \in Nat /\ blocks[i].to \in Nat
              /\ blocks[i].live \in BOOLEAN
<1>1. /\ \A r \in DOMAIN regions : regions[r] \in RegionType
      /\ \A i \in DOMAIN blocks : blocks[i] \in BlockType
  BY DEF ArenaTypeOK
<1> QED BY <1>1, CapacityAssumption DEF RegionType, BlockType

(* The arenas begin without blocks. *)
LEMMA InitEstablishes == ArenaInit => IInv
<1> SUFFICES ASSUME ArenaInit PROVE IInv
  OBVIOUS
<1>1. regions \in Seq(RegionType)
  <2>1. {Region(a, 0, Null) : a \in Arenas} \subseteq RegionType
    BY DEF Region, Null, RegionType
  <2> QED BY <2>1 DEF ArenaInit
<1>2. blocks = <<>> /\ DOMAIN blocks = {}
  BY DEF ArenaInit
<1> QED
  BY <1>1, <1>2 DEF ArenaInit, IInv, ArenaTypeOK, BlocksBelowSize, BlocksDisjoint, OnlyLargeBlocksOverrun

(* A request the region has room for: the block begins at its size.        *)
LEMMA TakeHereKeeps ==
  ASSUME IInv, NEW r \in DOMAIN regions, NEW n \in Nat, Fits(r, n), TakeHere(r, n),
         UNCHANGED handle
  PROVE  IInv'
<1> DEFINE b == Block(r, regions[r].size, n)
           e == [regions[r] EXCEPT !.size = @ + n]
<1>0. /\ \A s \in DOMAIN regions : regions[s].size \in Nat /\ Capacity[regions[s].arena] \in Nat
      /\ \A i \in DOMAIN blocks : blocks[i].from \in Nat /\ blocks[i].to \in Nat
  BY Fields DEF IInv
<1>1. /\ regions \in Seq(RegionType) /\ blocks \in Seq(BlockType)
      /\ \A s \in DOMAIN regions : regions[s] \in RegionType
      /\ \A i \in DOMAIN blocks : blocks[i] \in BlockType
  BY DEF IInv, ArenaTypeOK
<1>a. regions' = [regions EXCEPT ![r] = e]
  BY DEF TakeHere, Bump
<1>b. e \in RegionType /\ e.arena = regions[r].arena /\ e.size = regions[r].size + n
  <2>1. regions[r] \in RegionType /\ regions[r].size + n \in Nat
    BY <1>0, <1>1
  <2> QED BY <2>1 DEF RegionType
<1> HIDE DEF e
<1>2. /\ DOMAIN regions' = DOMAIN regions
      /\ \A s \in DOMAIN regions : /\ regions'[s].arena = regions[s].arena
                                   /\ regions'[s].size = IF s = r THEN regions[s].size + n ELSE regions[s].size
      /\ regions' \in Seq(RegionType)
  BY <1>1, <1>a, <1>b, SeqUpdate
<1>3. b \in BlockType
  BY <1>0, <1>1 DEF Block, BlockType
<1>4. /\ DOMAIN blocks' = 1 .. Len(blocks) + 1 /\ DOMAIN blocks = 1 .. Len(blocks)
      /\ \A i \in DOMAIN blocks : blocks'[i] = blocks[i]
      /\ blocks'[Len(blocks) + 1] = b
      /\ blocks' \in Seq(BlockType)
  BY <1>1, <1>3 DEF TakeHere
<1>5. b.region = r /\ b.from = regions[r].size /\ b.to = regions[r].size + n
  BY DEF Block
<1> HIDE DEF b
<1>6. ArenaTypeOK'
  BY <1>2, <1>4 DEF IInv, ArenaTypeOK
<1>7. BlocksBelowSize'
  <2>1. \A i \in DOMAIN blocks :
          /\ blocks'[i].region \in DOMAIN regions'
          /\ blocks'[i].live => blocks'[i].to <= regions'[blocks'[i].region].size
    <3> SUFFICES ASSUME NEW i \in DOMAIN blocks
                 PROVE  /\ blocks[i].region \in DOMAIN regions
                        /\ blocks[i].live => blocks[i].to <= regions'[blocks[i].region].size
      BY <1>2, <1>4
    <3>1. /\ blocks[i].region \in DOMAIN regions
          /\ blocks[i].live => blocks[i].to <= regions[blocks[i].region].size
      BY DEF IInv, BlocksBelowSize
    <3>2. regions'[blocks[i].region].size >= regions[blocks[i].region].size
      BY <1>0, <1>2, <3>1
    <3>3. /\ blocks[i].to \in Nat /\ regions[blocks[i].region].size \in Nat
          /\ regions'[blocks[i].region].size \in Nat
      BY <1>0, <1>2, <3>1
    <3> QED BY <3>1, <3>2, <3>3
  <2>2. b.region \in DOMAIN regions' /\ b.to <= regions'[b.region].size
    BY <1>0, <1>2, <1>5
  <2> QED BY <1>4, <2>1, <2>2 DEF BlocksBelowSize
<1>8. BlocksDisjoint'
  <2>1. \A i \in DOMAIN blocks :
          blocks[i].live /\ blocks[i].region = b.region => blocks[i].to <= b.from
    BY <1>5 DEF IInv, BlocksBelowSize
  <2> QED BY <1>4, <2>1 DEF IInv, BlocksDisjoint
<1>9. OnlyLargeBlocksOverrun'
  <2>1. \A i \in DOMAIN blocks : Overruns(blocks[i])' <=> Overruns(blocks[i])
    BY <1>1, <1>2, <1>4 DEF IInv, Overruns, BlocksBelowSize
  <2>2. ~(b.to > Capacity[regions[r].arena])
    BY <1>0, <1>5 DEF Fits
  <2> QED
    BY <1>1, <1>2, <1>4, <1>5, <2>1, <2>2 DEF IInv, OnlyLargeBlocksOverrun, Overruns, BlocksBelowSize
<1> QED BY <1>6, <1>7, <1>8, <1>9 DEF IInv

(* A request that opens a region: no block is there yet, whether or not    *)
(* the handle moves.                                                       *)
LEMMA TakeBehindKeeps ==
  ASSUME IInv, NEW r \in DOMAIN regions, NEW n \in Nat, TakeBehind(r, n),
         NEW a \in Arenas,
         handle' = handle \/ handle' = [handle EXCEPT ![a] = Len(regions) + 1]
  PROVE  IInv'
<1> DEFINE new == Len(regions) + 1
           b == Block(new, 0, n)
           e == [regions[r] EXCEPT !.next = new]
           fresh == Region(regions[r].arena, n, r)
           linked == [regions EXCEPT ![r] = e]
<1>0. /\ \A s \in DOMAIN regions : /\ regions[s].size \in Nat /\ Capacity[regions[s].arena] \in Nat
                                   /\ regions[s].arena \in Arenas
      /\ \A i \in DOMAIN blocks : blocks[i].from \in Nat /\ blocks[i].to \in Nat
  BY Fields DEF IInv
<1>1. /\ regions \in Seq(RegionType) /\ blocks \in Seq(BlockType)
      /\ \A s \in DOMAIN regions : regions[s] \in RegionType
      /\ \A i \in DOMAIN blocks : blocks[i] \in BlockType
      /\ DOMAIN regions = 1 .. Len(regions) /\ Len(regions) \in Nat
  BY DEF IInv, ArenaTypeOK
<1>2. fresh \in RegionType /\ fresh.arena = regions[r].arena /\ fresh.size = n
  BY <1>0, <1>1 DEF Region, RegionType, Null
<1>a. e \in RegionType /\ e.arena = regions[r].arena /\ e.size = regions[r].size
  <2>1. regions[r] \in RegionType /\ new \in Nat
    BY <1>1
  <2> HIDE DEF new
  <2> QED BY <2>1 DEF RegionType
<1>b. regions' = Append(linked, fresh)
  BY DEF TakeBehind
<1> HIDE DEF e, fresh
<1>3. /\ linked \in Seq(RegionType) /\ Len(linked) = Len(regions) /\ DOMAIN linked = DOMAIN regions
      /\ \A s \in DOMAIN regions :
           linked[s].arena = regions[s].arena /\ linked[s].size = regions[s].size
  BY <1>1, <1>a, SeqUpdate
<1> HIDE DEF linked
<1>4. /\ DOMAIN regions' = 1 .. new
      /\ \A s \in DOMAIN regions : /\ regions'[s].arena = regions[s].arena
                                   /\ regions'[s].size = regions[s].size
      /\ regions'[new].arena \in Arenas /\ regions'[new].size = n
      /\ regions' \in Seq(RegionType)
  <2>1. /\ \A s \in DOMAIN linked : regions'[s] = linked[s]
        /\ regions'[Len(linked) + 1] = fresh
        /\ regions' \in Seq(RegionType) /\ DOMAIN regions' = 1 .. Len(linked) + 1
    BY <1>2, <1>3, <1>b
  <2> QED BY <1>0, <1>1, <1>2, <1>3, <2>1
<1>5. b \in BlockType
  BY <1>1 DEF Block, BlockType
<1>6. /\ DOMAIN blocks' = 1 .. Len(blocks) + 1 /\ DOMAIN blocks = 1 .. Len(blocks)
      /\ \A i \in DOMAIN blocks : blocks'[i] = blocks[i]
      /\ blocks'[Len(blocks) + 1] = b
      /\ blocks' \in Seq(BlockType)
  BY <1>1, <1>5 DEF TakeBehind
<1>7. b.region = new /\ b.from = 0 /\ b.to = n
  BY DEF Block
<1>8. \A i \in DOMAIN blocks : blocks[i].region \in DOMAIN regions /\ blocks[i].region # new
  BY <1>1 DEF IInv, BlocksBelowSize
<1> HIDE DEF b, new
<1>9. ArenaTypeOK'
  <2>1. DOMAIN regions \subseteq DOMAIN regions' /\ new \in DOMAIN regions'
    BY <1>1, <1>4 DEF new
  <2> QED BY <1>4, <1>6, <2>1 DEF IInv, ArenaTypeOK, new
<1>10. BlocksBelowSize'
  <2>1. \A i \in DOMAIN blocks :
          /\ blocks'[i].region \in DOMAIN regions'
          /\ blocks'[i].live => blocks'[i].to <= regions'[blocks'[i].region].size
    <3> SUFFICES ASSUME NEW i \in DOMAIN blocks
                 PROVE  /\ blocks[i].region \in DOMAIN regions'
                        /\ blocks[i].live => blocks[i].to <= regions'[blocks[i].region].size
      BY <1>6
    <3>1. /\ blocks[i].region \in DOMAIN regions
          /\ blocks[i].live => blocks[i].to <= regions[blocks[i].region].size
      BY DEF IInv, BlocksBelowSize
    <3> QED BY <1>1, <1>4, <3>1 DEF new
  <2>2. b.region \in DOMAIN regions' /\ b.to <= regions'[b.region].size
    BY <1>1, <1>4, <1>7 DEF new
  <2> QED BY <1>6, <2>1, <2>2 DEF BlocksBelowSize
<1>11. BlocksDisjoint'
  <2>1. \A i \in DOMAIN blocks : blocks'[i].region # b.region
    BY <1>6, <1>7, <1>8
  <2> QED BY <1>6, <2>1 DEF IInv, BlocksDisjoint
<1>12. OnlyLargeBlocksOverrun'
  <2>1. \A i \in DOMAIN blocks : regions'[blocks'[i].region].arena = regions[blocks[i].region].arena
    BY <1>4, <1>6, <1>8
  <2>2. ASSUME NEW i \in DOMAIN blocks, blocks'[i].live, Overruns(blocks[i])'
        PROVE  blocks'[i].to - blocks'[i].from > Capacity[regions'[blocks'[i].region].arena]
    BY <1>6, <2>1, <2>2 DEF IInv, OnlyLargeBlocksOverrun, Overruns
  <2>3. ASSUME b.to > Capacity[regions'[b.region].arena]
        PROVE  b.to - b.from > Capacity[regions'[b.region].arena]
    BY <1>7, <2>3
  <2> QED
    BY <1>6, <2>2, <2>3 DEF OnlyLargeBlocksOverrun, Overruns
<1> QED BY <1>9, <1>10, <1>11, <1>12 DEF IInv

(* Blocks that die, with sizes that stay but where all of them died: this  *)
(* is what both reset and destroy do.                                      *)
LEMMA KillKeeps ==
  ASSUME IInv, NEW S, Kill(S), UNCHANGED handle,
         regions' \in Seq(RegionType), DOMAIN regions' = DOMAIN regions,
         \A s \in DOMAIN regions : /\ regions'[s].arena = regions[s].arena
                                   /\ s \notin S => regions'[s].size = regions[s].size
  PROVE  IInv'
<1> USE CapacityAssumption
<1>1. /\ blocks \in Seq(BlockType)
      /\ \A i \in DOMAIN blocks : blocks[i] \in BlockType
  BY DEF IInv, ArenaTypeOK
<1>2. /\ DOMAIN blocks' = DOMAIN blocks
      /\ \A i \in DOMAIN blocks :
           /\ blocks'[i].region = blocks[i].region /\ blocks'[i].from = blocks[i].from
           /\ blocks'[i].to = blocks[i].to
           /\ blocks'[i].live => blocks[i].live /\ blocks[i].region \notin S
           /\ blocks'[i] \in BlockType
  BY <1>1 DEF Kill, BlockType
<1>3. blocks' \in Seq(BlockType)
  <2>1. DOMAIN blocks = 1 .. Len(blocks) /\ Len(blocks) \in Nat
    BY <1>1
  <2>2. blocks' = [i \in 1 .. Len(blocks) |-> [blocks[i] EXCEPT !.live = @ /\ blocks[i].region \notin S]]
    BY <2>1 DEF Kill
  <2>3. blocks' \in [1 .. Len(blocks) -> BlockType]
    BY <1>2, <2>1, <2>2
  <2> QED BY <2>1, <2>3
<1>4. ArenaTypeOK'
  BY <1>3 DEF IInv, ArenaTypeOK
<1>5. BlocksBelowSize'
  BY <1>1, <1>2 DEF IInv, BlocksBelowSize
<1>6. BlocksDisjoint'
  BY <1>2 DEF IInv, BlocksDisjoint
<1>7. OnlyLargeBlocksOverrun'
  BY <1>2 DEF IInv, OnlyLargeBlocksOverrun, Overruns, BlocksBelowSize
<1> QED BY <1>4, <1>5, <1>6, <1>7 DEF IInv

(* Every call of a client that keeps its promise. *)
LEMMA StepKeeps == IInv /\ [ArenaNext]_arenaVars => IInv'
<1> SUFFICES ASSUME IInv, [ArenaNext]_arenaVars PROVE IInv'
  OBVIOUS
<1>1. ASSUME UNCHANGED arenaVars PROVE IInv'
  BY <1>1 DEF arenaVars, IInv, ArenaTypeOK, BlocksBelowSize, BlocksDisjoint,
              OnlyLargeBlocksOverrun, Overruns
<1>2. ASSUME NEW a \in Arenas, NEW n \in Requests, Alloc(a, n) \/ AllocByCopy(a, n)
      PROVE  IInv'
  <2>1. n \in Nat /\ handle[a] \in DOMAIN regions
    BY <1>2, RequestsAssumption DEF IInv, ArenaTypeOK
  <2>2. CASE UNCHANGED arenaVars
    BY <1>1, <2>2
  <2>3. CASE Fits(handle[a], n) /\ TakeHere(handle[a], n) /\ UNCHANGED handle
    BY <2>1, <2>3, TakeHereKeeps
  <2>4. CASE /\ TakeBehind(handle[a], n)
             /\ handle' = handle \/ handle' = [handle EXCEPT ![a] = Len(regions) + 1]
    BY <2>1, <2>4, TakeBehindKeeps
  <2> QED BY <1>2, <2>2, <2>3, <2>4 DEF Alloc, AllocByCopy, arenaVars
<1>3. ASSUME NEW a \in Arenas, Reset(a) PROVE IInv'
  <2> DEFINE e == [regions[handle[a]] EXCEPT !.size = 0]
  <2>1. /\ regions \in Seq(RegionType) /\ handle[a] \in DOMAIN regions
        /\ \A s \in DOMAIN regions : regions[s] \in RegionType
    BY DEF IInv, ArenaTypeOK
  <2>a. e \in RegionType /\ e.arena = regions[handle[a]].arena
    BY <2>1 DEF RegionType
  <2>b. regions' = [regions EXCEPT ![handle[a]] = e]
    BY <1>3 DEF Reset
  <2> HIDE DEF e
  <2>2. /\ regions' \in Seq(RegionType) /\ DOMAIN regions' = DOMAIN regions
        /\ \A s \in DOMAIN regions : /\ regions'[s].arena = regions[s].arena
                                     /\ s \notin {handle[a]} => regions'[s].size = regions[s].size
    BY <2>1, <2>a, <2>b, SeqUpdate
  <2> QED BY <1>3, <2>2, KillKeeps DEF Reset
<1>4. ASSUME NEW a \in Arenas, Destroy(a) PROVE IInv'
  <2> DEFINE S == Rightward[Leftmost[handle[a]]]
  <2>1. FreeAll(S)
    BY <1>4 DEF Destroy
  <2> HIDE DEF S
  <2>2. /\ regions \in Seq(RegionType) /\ DOMAIN regions = 1 .. Len(regions) /\ Len(regions) \in Nat
        /\ \A s \in DOMAIN regions : regions[s] \in RegionType
    BY DEF IInv, ArenaTypeOK
  <2>3. /\ DOMAIN regions' = DOMAIN regions
        /\ \A s \in DOMAIN regions : /\ regions'[s].arena = regions[s].arena
                                     /\ regions'[s].size = regions[s].size
                                     /\ regions'[s] \in RegionType
    <3>1. DOMAIN regions' = DOMAIN regions
      BY <2>1 DEF FreeAll
    <3>2. ASSUME NEW s \in DOMAIN regions
          PROVE  /\ regions'[s].arena = regions[s].arena /\ regions'[s].size = regions[s].size
                 /\ regions'[s] \in RegionType
      <4>1. regions[s] \in RegionType /\ regions[s].frees + 1 \in Nat
        BY <2>2 DEF RegionType
      <4>2. regions'[s] = [regions[s] EXCEPT !.frees = IF s \in S THEN regions[s].frees + 1
                                                                ELSE regions[s].frees]
        BY <2>1 DEF FreeAll
      <4> QED BY <4>1, <4>2 DEF RegionType
    <3> QED BY <3>1, <3>2
  <2>4. regions' \in Seq(RegionType)
    <3>1. regions' \in [DOMAIN regions -> RegionType]
      BY <2>1, <2>3 DEF FreeAll
    <3> QED BY <3>1, <2>2, SeqMap
  <2> QED BY <2>1, <2>3, <2>4, KillKeeps DEF FreeAll
<1> QED BY <1>1, <1>2, <1>3, <1>4 DEF ArenaNext

(* Two blocks in use never share a byte (arena.h:55-82), for any number of *)
(* arenas, any capacities and any sizes asked for.                         *)
THEOREM AllocationsAreDisjoint == ArenaSpec => []BlocksDisjoint
<1>1. IInv => BlocksDisjoint
  BY DEF IInv
<1> QED BY <1>1, InitEstablishes, StepKeeps, PTL DEF ArenaSpec

(* Memory behind a region is only ever given out to a request larger than  *)
(* a whole region (arena.h:59-66).                                         *)
THEOREM OnlyLargeRequestsOverrun == ArenaSpec => []OnlyLargeBlocksOverrun
<1>1. IInv => OnlyLargeBlocksOverrun
  BY DEF IInv
<1> QED BY <1>1, InitEstablishes, StepKeeps, PTL DEF ArenaSpec

-----------------------------------------------------------------------------
(* What a destroyed arena leaks.  The regions are followed by links, so    *)
(* the strengthening says what the links are, for the list R of regions    *)
(* and the handles H.                                                      *)

Gone(R, r) == \E s \in DOMAIN R : s > r /\ R[s].prev = R[r].prev /\ R[r].prev # Null

(* Backward to an older region of the arena; forward to the youngest of    *)
(* those behind this one.                                                  *)
Linked(R) ==
  \A r \in DOMAIN R :
    /\ R[r].prev # Null =>
         R[r].prev \in DOMAIN R /\ R[r].prev < r /\ R[R[r].prev].arena = R[r].arena
    /\ R[r].next # Null => R[r].next \in DOMAIN R /\ R[R[r].next].prev = r
    /\ \A s \in DOMAIN R : R[s].prev = r => R[r].next # Null /\ s <= R[r].next

(* The first region of an arena. *)
FirstOf(R, h, a) ==
  /\ h \in DOMAIN R /\ R[h].prev = Null /\ R[h].arena = a
  /\ \A s \in DOMAIN R : R[s].arena = a => h <= s /\ (s # h => R[s].prev # Null)
Headed(R) == \A r \in DOMAIN R : \E h \in DOMAIN R : FirstOf(R, h, R[r].arena)

(* The handle only moves forward: regions are put behind where it is, and  *)
(* nothing takes the place of a region it is at or was at.                 *)
Handled(R, H) ==
  /\ \A a \in Arenas : H[a] \in DOMAIN R /\ R[H[a]].arena = a /\ ~Gone(R, H[a])
  /\ \A s \in DOMAIN R : R[s].prev # Null => R[s].prev <= H[R[s].arena] /\ ~Gone(R, R[s].prev)

(* Of two regions of an arena that kept their places, the older one leads  *)
(* to the younger.                                                         *)
InOrder(R) ==
  \A r, u \in DOMAIN R :
    R[r].arena = R[u].arena /\ ~Gone(R, r) /\ ~Gone(R, u) /\ r < u
      => R[r].next # Null /\ R[r].next <= u

Chained(R, H) == Linked(R) /\ Headed(R) /\ Handled(R, H) /\ InOrder(R)

(* Regions whose links and arenas are the same. *)
LEMMA SameLinks ==
  ASSUME NEW R, NEW Q, NEW H, Chained(R, H), DOMAIN Q = DOMAIN R,
         \A r \in DOMAIN R : /\ Q[r].arena = R[r].arena
                             /\ Q[r].prev = R[r].prev /\ Q[r].next = R[r].next
  PROVE  /\ Chained(Q, H)
         /\ \A r \in DOMAIN R : Gone(Q, r) <=> Gone(R, r)
<1>1. \A r \in DOMAIN R : Gone(Q, r) <=> Gone(R, r)
  BY DEF Gone
<1>2. Linked(Q)
  BY DEF Chained, Linked
<1>3. Headed(Q)
  <2> SUFFICES ASSUME NEW r \in DOMAIN R PROVE \E h \in DOMAIN R : FirstOf(Q, h, R[r].arena)
    BY DEF Headed
  <2>1. PICK h \in DOMAIN R : FirstOf(R, h, R[r].arena)
    BY DEF Chained, Headed
  <2> QED BY <2>1 DEF FirstOf
<1>4. Handled(Q, H)
  BY <1>1 DEF Chained, Linked, Handled
<1>5. InOrder(Q)
  BY <1>1 DEF Chained, InOrder
<1> QED BY <1>1, <1>2, <1>3, <1>4, <1>5 DEF Chained

(* A region put behind where the handle is, whether or not the handle      *)
(* moves to it.  Only a region in the same place goes, and that one was    *)
(* made by a copy of the handle: nothing is behind it.                     *)
Behind(R, Q, h, n) ==
  /\ DOMAIN R = 1 .. n - 1 /\ DOMAIN Q = 1 .. n
  /\ \A r \in DOMAIN R : /\ R[r].prev \in Nat /\ R[r].next \in Nat /\ R[r].arena \in Arenas
                         /\ Q[r].arena = R[r].arena /\ Q[r].prev = R[r].prev
                         /\ Q[r].next = IF r = h THEN n ELSE R[r].next
  /\ Q[n].arena = R[h].arena /\ Q[n].prev = h /\ Q[n].next = Null

Displaces(R, Q, h) == \A r \in DOMAIN R : Gone(Q, r) <=> Gone(R, r) \/ R[r].prev = h

Moved(R, H, G, a, n) ==
  H \in [Arenas -> DOMAIN R] /\ (G = H \/ G = [H EXCEPT ![a] = n])

LEMMA GrownLinks ==
  ASSUME NEW R, NEW Q, NEW H, NEW G, NEW a \in Arenas, NEW n \in Nat,
         Chained(R, H), Behind(R, Q, H[a], n), Moved(R, H, G, a, n)
  PROVE  Chained(Q, G) /\ Displaces(R, Q, H[a])
<1> DEFINE h == H[a]
<1> USE DEF Moved
<1>1. /\ h \in DOMAIN R /\ h \in Nat \ {0} /\ h < n /\ R[h].arena = a /\ ~Gone(R, h)
      /\ DOMAIN R \subseteq DOMAIN Q /\ n \in DOMAIN Q /\ n \notin DOMAIN R
      /\ \A r \in DOMAIN Q : r = n \/ r \in DOMAIN R
      /\ \A r \in DOMAIN R : r \in Nat /\ r < n
  BY DEF Behind, Chained, Handled
<1>2. \A r \in DOMAIN R : Gone(Q, r) <=> Gone(R, r) \/ R[r].prev = h
  BY <1>1 DEF Gone, Behind, Null
<1>3. ~Gone(Q, n)
  BY <1>1 DEF Gone, Behind
(* Where the new region is put no other one is behind, unless the handle   *)
(* was passed by copy; what is behind h is behind nothing itself.          *)
<1>4. \A r \in DOMAIN R : R[r].prev = h =>
        /\ r > h /\ R[r].arena = a
        /\ \A s \in DOMAIN R : R[s].prev # r
  <2> SUFFICES ASSUME NEW r \in DOMAIN R, R[r].prev = h
               PROVE  r > h /\ R[r].arena = a /\ \A s \in DOMAIN R : R[s].prev # r
    OBVIOUS
  <2>1. r > h /\ R[r].arena = a
    BY <1>1 DEF Chained, Linked, Null
  <2>2. ASSUME NEW s \in DOMAIN R, R[s].prev = r PROVE FALSE
    <3>1. R[s].prev # Null /\ R[s].arena = a
      BY <1>1, <2>1, <2>2 DEF Chained, Linked, Null
    <3>2. r <= h
      BY <3>1, <2>2 DEF Chained, Handled
    <3> QED BY <3>2, <2>1, <1>1
  <2> QED BY <2>1, <2>2
<1>5. Linked(Q)
  <2> SUFFICES ASSUME NEW r \in DOMAIN Q
               PROVE  /\ Q[r].prev # Null =>
                           Q[r].prev \in DOMAIN Q /\ Q[r].prev < r /\ Q[Q[r].prev].arena = Q[r].arena
                      /\ Q[r].next # Null => Q[r].next \in DOMAIN Q /\ Q[Q[r].next].prev = r
                      /\ \A s \in DOMAIN Q : Q[s].prev = r => Q[r].next # Null /\ s <= Q[r].next
    BY DEF Linked
  <2>1. CASE r = n
    <3>1. \A s \in DOMAIN Q : Q[s].prev # r
      <4>1. ASSUME NEW s \in DOMAIN R PROVE R[s].prev # n
        BY <1>1 DEF Chained, Linked, Null
      <4> QED BY <1>1, <2>1, <4>1 DEF Behind
    <3> QED BY <1>1, <2>1, <3>1 DEF Behind
  <2>2. CASE r \in DOMAIN R /\ r # h
    <3>1. /\ \A s \in DOMAIN R : Q[s].arena = R[s].arena /\ Q[s].prev = R[s].prev
          /\ Q[r].next = R[r].next /\ Q[n].prev = h
      BY <2>2 DEF Behind
    <3>2. /\ R[r].prev # Null =>
               R[r].prev \in DOMAIN R /\ R[r].prev < r /\ R[R[r].prev].arena = R[r].arena
          /\ R[r].next # Null => R[r].next \in DOMAIN R /\ R[R[r].next].prev = r
          /\ \A s \in DOMAIN R : R[s].prev = r => R[r].next # Null /\ s <= R[r].next
      BY <2>2 DEF Chained, Linked
    <3> QED BY <1>1, <2>2, <3>1, <3>2
  <2>3. CASE r = h
    <3>1. Q[h].next = n /\ Q[h].prev = R[h].prev /\ Q[n].prev = h
      BY <1>1 DEF Behind
    <3>2. R[h].prev # Null =>
            R[h].prev \in DOMAIN R /\ R[h].prev < h /\ R[R[h].prev].arena = R[h].arena
      BY <1>1 DEF Chained, Linked
    <3>3. \A s \in DOMAIN Q : s <= n
      BY <1>1
    <3>4. n # Null
      BY <1>1 DEF Null
    <3>5. Q[R[h].prev].arena = R[R[h].prev].arena \/ R[h].prev = Null
      BY <3>2 DEF Behind
    <3>6. Q[h].arena = R[h].arena
      BY <1>1 DEF Behind
    <3>7. /\ Q[h].prev # Null => Q[h].prev \in DOMAIN Q /\ Q[h].prev < h /\ Q[Q[h].prev].arena = Q[h].arena
          /\ Q[h].next # Null => Q[h].next \in DOMAIN Q /\ Q[Q[h].next].prev = h
      BY <1>1, <3>1, <3>2, <3>5, <3>6
    <3>8. \A s \in DOMAIN Q : Q[s].prev = h => Q[h].next # Null /\ s <= Q[h].next
      BY <3>1, <3>3, <3>4
    <3> QED BY <2>3, <3>7, <3>8
  <2> QED BY <1>1, <2>1, <2>2, <2>3
<1>6. Headed(Q)
  <2>1. \A r \in DOMAIN R : \E k \in DOMAIN Q : FirstOf(Q, k, Q[r].arena)
    <3> SUFFICES ASSUME NEW r \in DOMAIN R PROVE \E k \in DOMAIN Q : FirstOf(Q, k, Q[r].arena)
      OBVIOUS
    <3>1. PICK k \in DOMAIN R : FirstOf(R, k, R[r].arena)
      BY DEF Chained, Headed
    <3>2. /\ k \in DOMAIN Q /\ Q[k].prev = Null /\ Q[k].arena = R[r].arena
          /\ \A s \in DOMAIN R : Q[s].arena = R[r].arena => k <= s /\ (s # k => Q[s].prev # Null)
      <4>1. \A s \in DOMAIN R : Q[s].arena = R[s].arena /\ Q[s].prev = R[s].prev
        BY DEF Behind
      <4> QED BY <1>1, <3>1, <4>1 DEF FirstOf
    <3>3. k <= n /\ Q[n].prev # Null
      BY <1>1 DEF Behind, Null
    <3>4. FirstOf(Q, k, R[r].arena)
      BY <1>1, <3>2, <3>3 DEF FirstOf
    <3> QED BY <1>1, <3>2, <3>4 DEF Behind
  <2> QED BY <1>1, <2>1 DEF Headed, Behind
<1>7. Handled(Q, G)
  <2>1. ASSUME NEW b \in Arenas PROVE G[b] \in DOMAIN Q /\ Q[G[b]].arena = b /\ ~Gone(Q, G[b])
    <3>1. H[b] \in DOMAIN R /\ R[H[b]].arena = b /\ ~Gone(R, H[b])
      BY DEF Chained, Handled
    <3>2. ~(R[H[b]].prev = h)
      BY <1>1, <1>4, <3>1
    <3> QED BY <1>1, <1>2, <1>3, <3>1, <3>2 DEF Behind
  <2>2. ASSUME NEW s \in DOMAIN Q, Q[s].prev # Null
        PROVE  Q[s].prev <= G[Q[s].arena] /\ ~Gone(Q, Q[s].prev)
    <3>1. \A b \in Arenas : H[b] <= G[b] /\ H[b] \in Nat /\ G[b] \in Nat
      BY <1>1
    <3>2. CASE s = n
      <4>1. h <= G[a]
        BY <3>1
      <4>2. R[h].prev # h
        BY <1>4, <1>1
      <4> QED BY <1>1, <1>2, <3>2, <4>1, <4>2 DEF Behind
    <3>3. CASE s \in DOMAIN R
      <4>1. R[s].prev <= H[R[s].arena] /\ ~Gone(R, R[s].prev) /\ R[s].prev \in DOMAIN R
        BY <2>2, <3>3 DEF Behind, Chained, Linked, Handled
      <4>2. R[R[s].prev].prev # h
        BY <1>4, <3>3, <4>1
      <4>3. R[s].prev <= G[R[s].arena]
        BY <3>1, <3>3, <4>1, <1>1 DEF Behind
      <4> QED BY <1>2, <3>3, <4>1, <4>2, <4>3 DEF Behind
    <3> QED BY <1>1, <3>2, <3>3
  <2> QED BY <2>1, <2>2 DEF Handled
<1>8. InOrder(Q)
  <2> SUFFICES ASSUME NEW r \in DOMAIN Q, NEW u \in DOMAIN Q, Q[r].arena = Q[u].arena,
                      ~Gone(Q, r), ~Gone(Q, u), r < u
               PROVE  Q[r].next # Null /\ Q[r].next <= u
    BY DEF InOrder
  <2>1. r \in DOMAIN R /\ ~Gone(R, r) /\ R[r].prev # h
    BY <1>1, <1>2
  <2>2. \A v \in DOMAIN R : R[v].arena = R[r].arena /\ ~Gone(R, v) /\ r < v
                              => R[r].next # Null /\ R[r].next <= v
    BY <2>1 DEF Chained, InOrder
  (* A region of this arena that kept its place is not younger than h. *)
  <2>3. ASSUME NEW v \in DOMAIN R, R[v].arena = a, ~Gone(R, v), R[v].prev # h, h < v PROVE FALSE
    <3>1. R[h].next # Null /\ R[h].next <= v
      BY <1>1, <2>3 DEF Chained, InOrder
    <3> DEFINE c == R[h].next
    <3>2. c \in DOMAIN R /\ R[c].prev = h /\ R[c].arena = a
      BY <1>1, <1>4, <3>1 DEF Chained, Linked
    <3>3. ~Gone(R, c)
      <4>1. \A s \in DOMAIN R : R[s].prev = h => s <= c
        BY <1>1 DEF Chained, Linked
      <4> QED BY <1>1, <3>2, <4>1 DEF Gone
    <3>4. c < v
      BY <1>1, <2>3, <3>1, <3>2
    <3>5. R[c].next # Null /\ R[c].next \in DOMAIN R /\ R[R[c].next].prev = c
      BY <2>3, <3>2, <3>3, <3>4 DEF Chained, InOrder, Linked
    <3> QED BY <1>4, <3>2, <3>5
  <2>4. CASE u \in DOMAIN R
    <3>1. R[u].prev # h /\ ~Gone(R, u)
      BY <1>2, <2>4
    <3>2. r # h
      BY <1>1, <2>3, <2>4, <3>1 DEF Behind
    <3> QED BY <2>1, <2>2, <2>4, <3>1, <3>2 DEF Behind
  <2>5. CASE u = n
    <3>1. R[r].arena = a
      BY <1>1, <2>1, <2>5 DEF Behind
    <3>2. r <= h
      BY <1>1, <2>1, <2>3, <3>1
    <3>3. CASE r = h
      BY <1>1, <2>5, <3>3 DEF Behind, Null
    <3>4. CASE r < h
      BY <1>1, <2>1, <2>2, <2>5, <3>1, <3>4 DEF Behind
    <3> QED BY <1>1, <2>1, <3>2, <3>3, <3>4
  <2> QED BY <1>1, <2>4, <2>5
<1> QED BY <1>2, <1>5, <1>6, <1>7, <1>8 DEF Chained, Displaces

(* Going back from any region ends at the first one of its arena.          *)
LEMMA LeftmostIsFirst ==
  ASSUME IInv, Chained(regions, handle), NEW r \in DOMAIN regions
  PROVE  FirstOf(regions, Leftmost[r], regions[r].arena)
<1> DEFINE HeadFrom(s) == CHOOSE h \in DOMAIN regions : FirstOf(regions, h, regions[s].arena)
           G == [s \in DOMAIN regions |-> HeadFrom(s)]
<1>1. \A s \in DOMAIN regions :
        /\ s \in Nat /\ regions[s].prev \in Nat
        /\ regions[s].prev # Null => /\ regions[s].prev \in DOMAIN regions /\ regions[s].prev < s
                                     /\ regions[regions[s].prev].arena = regions[s].arena
  <2>1. \A s \in DOMAIN regions : s \in Nat
    BY DEF IInv, ArenaTypeOK
  <2>2. \A s \in DOMAIN regions : regions[s].prev \in Nat
    BY Fields DEF IInv
  <2> QED BY <2>1, <2>2 DEF Chained, Linked
<1>2. \A s \in DOMAIN regions : FirstOf(regions, G[s], regions[s].arena)
  BY DEF Chained, Headed
<1>3. \A s \in DOMAIN regions : regions[s].prev = Null =>
        G[s] = s /\ FirstOf(regions, s, regions[s].arena)
  <2> SUFFICES ASSUME NEW s \in DOMAIN regions, regions[s].prev = Null
               PROVE  G[s] = s /\ FirstOf(regions, s, regions[s].arena)
    OBVIOUS
  <2> HIDE DEF G
  <2>1. G[s] = s
    BY <1>2 DEF FirstOf
  <2> QED BY <1>2, <2>1
<1>4. G = [s \in DOMAIN regions |-> IF regions[s].prev = Null THEN s ELSE G[regions[s].prev]]
  <2>1. ASSUME NEW s \in DOMAIN regions
        PROVE  G[s] = IF regions[s].prev = Null THEN s ELSE G[regions[s].prev]
    <3>1. CASE regions[s].prev = Null
      BY <1>3, <3>1
    <3>2. CASE regions[s].prev # Null
      BY <1>1, <3>2
    <3> QED BY <3>1, <3>2
  <2>2. G = [s \in DOMAIN regions |-> G[s]]
    OBVIOUS
  <2> HIDE DEF G
  <2> QED BY <2>1, <2>2
<1> HIDE DEF G
<1>5. Leftmost = [s \in DOMAIN regions |->
                    IF regions[s].prev = Null THEN s ELSE Leftmost[regions[s].prev]]
  BY <1>4, Zenon DEF Leftmost
<1> DEFINE Wrong == {s \in DOMAIN regions : ~FirstOf(regions, Leftmost[s], regions[s].arena)}
<1>6. ASSUME r \in Wrong PROVE FALSE
  <2>1. Wrong \subseteq Nat /\ Wrong # {}
    BY <1>1, <1>6
  <2> HIDE DEF Wrong
  <2>2. PICK s \in Wrong : \A t \in Wrong : s <= t
    BY <2>1, LeastNat
  <2>3. s \in DOMAIN regions /\ ~FirstOf(regions, Leftmost[s], regions[s].arena)
    BY DEF Wrong
  <2>4. Leftmost[s] = IF regions[s].prev = Null THEN s ELSE Leftmost[regions[s].prev]
    BY <1>5, <2>3
  <2>5. regions[s].prev # Null
    BY <1>3, <2>3, <2>4
  <2>6. regions[s].prev \in Wrong
    BY <1>1, <2>3, <2>4, <2>5 DEF Wrong
  <2> QED BY <1>1, <2>2, <2>3, <2>5, <2>6
<1> QED BY <1>6

(* Going forward from a region that kept its place meets all younger ones  *)
(* of its arena that did.                                                  *)
Rest(r) == {s \in DOMAIN regions : regions[s].arena = regions[r].arena /\ ~Displaced(s) /\ s >= r}

LEMMA RestSteps ==
  ASSUME IInv, Chained(regions, handle), NEW r \in DOMAIN regions, ~Displaced(r)
  PROVE  LET n == regions[r].next IN
         /\ n # Null => n \in DOMAIN regions /\ ~Displaced(n) /\ n > r
         /\ Rest(r) = {r} \union (IF n = Null THEN {} ELSE Rest(n))
<1> DEFINE n == regions[r].next
<1>1. \A s \in DOMAIN regions : s \in Nat \ {0} /\ regions[s].prev \in Nat /\ regions[s].next \in Nat
  <2>1. \A s \in DOMAIN regions : s \in Nat \ {0}
    BY DEF IInv, ArenaTypeOK
  <2> QED BY <2>1, Fields DEF IInv
<1>2. \A s \in DOMAIN regions : Gone(regions, s) <=> Displaced(s)
  BY DEF Gone, Displaced
<1>3. /\ n # Null => n \in DOMAIN regions /\ regions[n].prev = r
      /\ \A s \in DOMAIN regions : regions[s].prev = r => n # Null /\ s <= n
  BY DEF Chained, Linked
<1>4. ASSUME n # Null
      PROVE  n \in DOMAIN regions /\ ~Displaced(n) /\ n > r /\ regions[n].arena = regions[r].arena
  <2>1. n \in DOMAIN regions /\ regions[n].prev = r
    BY <1>3, <1>4
  <2>2. regions[n].prev # Null
    BY <1>1, <2>1 DEF Null
  <2>3. n > r /\ regions[n].arena = regions[r].arena
    BY <1>1, <2>1, <2>2 DEF Chained, Linked
  <2>4. ~Displaced(n)
    BY <1>1, <1>3, <2>1 DEF Displaced
  <2> QED BY <2>1, <2>3, <2>4
<1>5. \A s \in Rest(r) : s # r => n # Null /\ n <= s
  BY <1>1, <1>2 DEF Rest, Chained, InOrder
<1>6. r \in Rest(r)
  BY <1>1 DEF Rest
<1>7. CASE n = Null
  BY <1>5, <1>6, <1>7
<1>8. CASE n # Null
  <2>1. \A s \in Rest(r) : s = r \/ s \in Rest(n)
    BY <1>4, <1>5, <1>8 DEF Rest
  <2>2. \A s \in Rest(n) : s \in Rest(r)
    BY <1>1, <1>4, <1>8 DEF Rest
  <2> QED BY <1>4, <1>6, <1>8, <2>1, <2>2
<1> QED BY <1>4, <1>7, <1>8

LEMMA RightwardIsRest ==
  ASSUME IInv, Chained(regions, handle), NEW r \in DOMAIN regions, ~Displaced(r)
  PROVE  Rightward[r] = Rest(r)
<1> DEFINE G == [s \in {Null} \union DOMAIN regions |->
                   IF s = Null THEN {} ELSE IF Displaced(s) THEN {s} ELSE Rest(s)]
<1>1. \A s \in DOMAIN regions : s \in Nat /\ s # Null /\ s <= Len(regions)
  BY DEF IInv, ArenaTypeOK, Null
<1>2. \A s \in DOMAIN regions : Displaced(s) => regions[s].next = Null
  <2> SUFFICES ASSUME NEW s \in DOMAIN regions, Displaced(s), regions[s].next # Null PROVE FALSE
    OBVIOUS
  <2>1. regions[s].next \in DOMAIN regions /\ regions[regions[s].next].prev = s
    BY DEF Chained, Linked
  <2>2. ~Gone(regions, s)
    BY <1>1, <2>1 DEF Chained, Handled
  <2> QED BY <2>2 DEF Gone, Displaced
<1>3. \A s \in DOMAIN regions : ~Displaced(s) =>
        /\ regions[s].next # Null =>
             regions[s].next \in DOMAIN regions /\ ~Displaced(regions[s].next) /\ regions[s].next > s
        /\ Rest(s) = {s} \union (IF regions[s].next = Null THEN {} ELSE Rest(regions[s].next))
  BY RestSteps
<1>4. G = [s \in {Null} \union DOMAIN regions |->
             IF s = Null THEN {} ELSE {s} \union G[regions[s].next]]
  <2> SUFFICES ASSUME NEW s \in DOMAIN regions PROVE G[s] = {s} \union G[regions[s].next]
    BY <1>1
  <2>1. CASE Displaced(s)
    BY <1>1, <1>2, <2>1
  <2>2. CASE ~Displaced(s)
    BY <1>1, <1>3, <2>2
  <2> QED BY <2>1, <2>2
<1> HIDE DEF G
<1>5. Rightward = [s \in {Null} \union DOMAIN regions |->
                     IF s = Null THEN {} ELSE {s} \union Rightward[regions[s].next]]
  BY <1>4, Zenon DEF Rightward
<1>6. /\ Rightward[Null] = {}
      /\ \A s \in DOMAIN regions : Rightward[s] = {s} \union Rightward[regions[s].next]
  BY <1>1, <1>5
<1> DEFINE Wrong == {s \in DOMAIN regions : ~Displaced(s) /\ Rightward[s] # Rest(s)}
           Left == {Len(regions) - s : s \in Wrong}
<1>7. ASSUME r \in Wrong PROVE FALSE
  <2>1. Left \subseteq Nat /\ Left # {}
    <3>1. Len(regions) \in Nat
      BY DEF IInv, ArenaTypeOK
    <3> QED BY <1>1, <1>7, <3>1
  <2> HIDE DEF Left
  <2>2. PICK k \in Left : \A j \in Left : k <= j
    BY <2>1, LeastNat
  <2>3. PICK s \in Wrong : k = Len(regions) - s
    BY DEF Left
  <2>4. s \in DOMAIN regions /\ ~Displaced(s) /\ Rightward[s] # Rest(s)
    BY DEF Wrong
  <2> DEFINE n == regions[s].next
  <2>5. n # Null /\ n \in DOMAIN regions /\ ~Displaced(n) /\ n > s /\ Rightward[n] # Rest(n)
    <3>1. /\ n # Null => n \in DOMAIN regions /\ ~Displaced(n) /\ n > s
          /\ Rest(s) = {s} \union (IF n = Null THEN {} ELSE Rest(n))
      BY <1>3, <2>4
    <3>2. Rightward[Null] = {} /\ Rightward[s] = {s} \union Rightward[n]
      BY <1>6, <2>4
    <3>3. n # Null
      BY <2>4, <3>1, <3>2
    <3>4. Rest(s) = {s} \union Rest(n)
      BY <3>1, <3>3
    <3>5. Rightward[n] # Rest(n)
      BY <2>4, <3>2, <3>4
    <3> QED BY <3>1, <3>3, <3>5
  <2>6. n \in Wrong
    BY <2>5 DEF Wrong
  <2>7. Len(regions) - n \in Left
    BY <2>6 DEF Left
  <2>8. Len(regions) - n < k
    <3>1. Len(regions) \in Nat /\ s \in Nat /\ n \in Nat
      BY <1>1, <2>4, <2>5 DEF IInv, ArenaTypeOK
    <3> QED BY <2>3, <2>5, <3>1
  <2>9. k \in Nat /\ Len(regions) - n \in Nat
    BY <2>1, <2>7
  <2> QED BY <2>2, <2>7, <2>8, <2>9
<1> QED BY <1>7

LeakInv == Chained(regions, handle) /\ OnlyDisplacedRegionsLeak

(* Each arena begins with its first region. *)
LEMMA InitChained == ArenaInit => LeakInv
<1> SUFFICES ASSUME ArenaInit PROVE LeakInv
  OBVIOUS
<1>1. \A r \in DOMAIN regions :
        /\ regions[r].arena \in Arenas /\ regions[r].prev = 0 /\ regions[r].next = 0
        /\ regions[r].frees = 0 /\ handle[regions[r].arena] = r /\ r \in Nat \ {0}
  <2> SUFFICES ASSUME NEW r \in DOMAIN regions
               PROVE  /\ regions[r].arena \in Arenas /\ regions[r].prev = 0 /\ regions[r].next = 0
                      /\ regions[r].frees = 0 /\ handle[regions[r].arena] = r /\ r \in Nat \ {0}
    OBVIOUS
  <2>1. regions[r] \in {Region(a, 0, Null) : a \in Arenas} /\ r \in Nat \ {0}
    BY DEF ArenaInit
  <2>2. PICK a \in Arenas : regions[r] = Region(a, 0, Null)
    BY <2>1
  <2> QED BY <2>1, <2>2 DEF ArenaInit, Region, Null
<1>2. \A a \in Arenas : handle[a] \in DOMAIN regions /\ regions[handle[a]].arena = a
  BY DEF ArenaInit
<1>3. \A r \in DOMAIN regions : ~Gone(regions, r) /\ ~Displaced(r)
  BY <1>1 DEF Gone, Displaced, Null
<1>4. Linked(regions)
  BY <1>1 DEF Linked, Null
<1>5. \A r, s \in DOMAIN regions : regions[r].arena = regions[s].arena => r = s
  BY <1>1
<1>6. Headed(regions)
  <2>1. \A r \in DOMAIN regions : FirstOf(regions, r, regions[r].arena)
    BY <1>1, <1>5 DEF FirstOf, Null
  <2> QED BY <2>1 DEF Headed
<1>7. Handled(regions, handle)
  BY <1>1, <1>2, <1>3 DEF Handled, Null
<1>8. InOrder(regions)
  BY <1>1, <1>5 DEF InOrder
<1>9. OnlyDisplacedRegionsLeak
  BY <1>1, <1>2 DEF OnlyDisplacedRegionsLeak
<1> QED BY <1>4, <1>6, <1>7, <1>8, <1>9 DEF LeakInv, Chained

(* Whatever changes neither links nor frees. *)
LEMMA SizesOnly ==
  ASSUME IInv, LeakInv, UNCHANGED handle, DOMAIN regions' = DOMAIN regions,
         \A r \in DOMAIN regions :
           /\ regions'[r].arena = regions[r].arena /\ regions'[r].frees = regions[r].frees
           /\ regions'[r].prev = regions[r].prev /\ regions'[r].next = regions[r].next
  PROVE  LeakInv'
<1>1. Chained(regions', handle)
  <2>1. Chained(regions, handle)
    BY DEF LeakInv
  <2> QED BY <2>1, SameLinks
<1>2. \A r \in DOMAIN regions : Displaced(r)' <=> Displaced(r)
  BY DEF Displaced
<1>3. \A r \in DOMAIN regions : handle[regions[r].arena] \in DOMAIN regions
  BY Fields DEF IInv, LeakInv, Chained, Handled
<1> QED BY <1>1, <1>2, <1>3 DEF LeakInv, OnlyDisplacedRegionsLeak

(* A new region, in an arena that was not destroyed. *)
LEMMA TakeBehindLeaks ==
  ASSUME IInv, LeakInv, NEW a \in Arenas, InUse(a), NEW n \in Nat, TakeBehind(handle[a], n),
         handle' = handle \/ handle' = [handle EXCEPT ![a] = Len(regions) + 1]
  PROVE  LeakInv'
<1> DEFINE h == handle[a]
           new == Len(regions) + 1
           e == [regions[h] EXCEPT !.next = new]
           fresh == Region(regions[h].arena, n, h)
           linked == [regions EXCEPT ![h] = e]
<1>1. /\ regions \in Seq(RegionType) /\ h \in DOMAIN regions /\ regions[h] \in RegionType
      /\ handle \in [Arenas -> DOMAIN regions]
      /\ DOMAIN regions = 1 .. Len(regions) /\ Len(regions) \in Nat /\ regions[h].arena = a
  BY DEF IInv, ArenaTypeOK, LeakInv, Chained, Handled
<1>2. /\ fresh.arena = a /\ fresh.prev = h /\ fresh.next = Null /\ fresh.frees = 0
      /\ fresh \in RegionType
  BY <1>1 DEF Region, RegionType, Null
<1>3. /\ e \in RegionType /\ e.arena = regions[h].arena /\ e.prev = regions[h].prev
      /\ e.next = new /\ e.frees = regions[h].frees
  <2>1. regions[h] \in RegionType /\ new \in Nat
    BY <1>1
  <2> HIDE DEF new, h
  <2> QED BY <2>1 DEF RegionType
<1>4. regions' = Append(linked, fresh)
  BY DEF TakeBehind
<1> HIDE DEF e, fresh
<1>5. /\ linked \in Seq(RegionType) /\ Len(linked) = Len(regions) /\ DOMAIN linked = DOMAIN regions
      /\ \A s \in DOMAIN regions : linked[s] = IF s = h THEN e ELSE regions[s]
  BY <1>1, <1>3, SeqUpdate
<1> HIDE DEF linked
<1>6. /\ DOMAIN regions' = 1 .. new
      /\ \A s \in DOMAIN regions : regions'[s] = IF s = h THEN e ELSE regions[s]
      /\ regions'[new] = fresh
  <2>1. /\ \A s \in DOMAIN linked : regions'[s] = linked[s]
        /\ regions'[Len(linked) + 1] = fresh
        /\ DOMAIN regions' = 1 .. Len(linked) + 1
    BY <1>2, <1>4, <1>5
  <2> QED BY <1>5, <2>1
<1>7. new \in Nat /\ new - 1 = Len(regions) /\ new \notin DOMAIN regions
  BY <1>1
<1> HIDE DEF new
<1>8. \A s \in DOMAIN regions :
        /\ regions[s].prev \in Nat /\ regions[s].next \in Nat /\ regions[s].arena \in Arenas
        /\ regions'[s].arena = regions[s].arena /\ regions'[s].prev = regions[s].prev
        /\ regions'[s].next = IF s = h THEN new ELSE regions[s].next
        /\ regions'[s].frees = regions[s].frees
  BY <1>3, <1>6, Fields DEF IInv
<1>9. Behind(regions, regions', h, new)
  BY <1>1, <1>2, <1>6, <1>7, <1>8 DEF Behind
<1>10. PICK G : G = handle'
  OBVIOUS
<1>11. G = handle \/ G = [handle EXCEPT ![a] = new]
  BY <1>10 DEF new
<1>12. /\ Chained(regions', handle')
       /\ \A r \in DOMAIN regions :
            Gone(regions', r) <=> Gone(regions, r) \/ regions[r].prev = h
  <2>1. Chained(regions, handle)
    BY DEF LeakInv
  <2>2. PICK Q : Q = regions'
    OBVIOUS
  <2>3. Behind(regions, Q, handle[a], new)
    BY <1>9, <2>2
  <2>4. Chained(Q, G) /\ Displaces(regions, Q, handle[a])
    <3>1. Moved(regions, handle, G, a, new) /\ new \in Nat
      BY <1>1, <1>7, <1>11 DEF Moved
    <3> HIDE DEF h
    <3>2. a \in Arenas
      OBVIOUS
    <3>3. Chained(Q, G)
      BY <2>1, <2>3, <3>1, <3>2, GrownLinks, Zenon
    <3>4. Displaces(regions, Q, handle[a])
      BY <2>1, <2>3, <3>1, <3>2, GrownLinks, Zenon
    <3> QED BY <3>3, <3>4
  <2> QED BY <1>10, <2>2, <2>4 DEF Displaces
<1>13. OnlyDisplacedRegionsLeak'
  <2>1. /\ handle'[a] \in {h, new}
        /\ \A b \in Arenas : b # a => handle'[b] = handle[b]
    BY <1>1, <1>10, <1>11
  <2>2. regions[h].frees = 0 /\ regions'[h].frees = 0 /\ regions'[new].frees = 0
    BY <1>1, <1>2, <1>6, <1>8 DEF InUse
  <2>3. regions'[handle'[a]].frees = 0
    BY <2>1, <2>2
  <2>4. \A r \in DOMAIN regions' : r = new \/ r \in DOMAIN regions
    BY <1>1, <1>6 DEF new
  <2> SUFFICES ASSUME NEW r \in DOMAIN regions'
               PROVE  regions'[r].frees =
                        IF regions'[handle'[regions'[r].arena]].frees > 0 /\ ~Displaced(r)' THEN 1 ELSE 0
    BY DEF OnlyDisplacedRegionsLeak
  <2>5. CASE r = new
    BY <1>2, <1>6, <2>2, <2>3, <2>5
  <2>6. CASE r \in DOMAIN regions /\ regions[r].arena = a
    <3>1. regions[r].frees = 0
      BY <2>2, <2>6 DEF LeakInv, OnlyDisplacedRegionsLeak
    <3> QED BY <1>8, <2>3, <2>6, <3>1
  <2>7. CASE r \in DOMAIN regions /\ regions[r].arena # a
    <3> DEFINE b == regions[r].arena
    <3>1. b \in Arenas /\ b # a /\ regions'[r].arena = b /\ handle'[b] = handle[b]
          /\ handle[b] \in DOMAIN regions /\ regions'[r].frees = regions[r].frees
      BY <1>1, <1>8, <2>1, <2>7
    <3>2. regions'[handle'[b]].frees = regions[handle[b]].frees
      BY <1>8, <3>1
    <3>3. regions[r].prev # h
      <4>1. h # Null
        BY <1>1 DEF Null
      <4> QED BY <1>1, <2>7, <4>1 DEF LeakInv, Chained, Linked
    <3>4. Displaced(r)' <=> Displaced(r)
      BY <1>12, <2>7, <3>3 DEF Gone, Displaced
    <3>5. regions[r].frees = IF regions[handle[b]].frees > 0 /\ ~Displaced(r) THEN 1 ELSE 0
      BY <2>7 DEF LeakInv, OnlyDisplacedRegionsLeak
    <3> QED BY <3>1, <3>2, <3>4, <3>5
  <2> QED BY <2>4, <2>5, <2>6, <2>7
<1> QED BY <1>12, <1>13 DEF LeakInv

(* Destruction frees, of the arena that is in use, every region that kept  *)
(* its place, and no other region of the process.                          *)
InPlace(a) == {r \in DOMAIN regions : regions[r].arena = a /\ ~Displaced(r)}

LEMMA DestroyFrees ==
  ASSUME IInv, Chained(regions, handle), NEW a \in Arenas, Destroy(a)
  PROVE  FreeAll(InPlace(a)) /\ handle[a] \in InPlace(a)
<1> DEFINE h == handle[a]
           first == Leftmost[h]
           S == Rightward[first]
<1>1. h \in DOMAIN regions /\ regions[h].arena = a /\ ~Displaced(h)
  <2>1. ~Gone(regions, h) /\ h \in DOMAIN regions /\ regions[h].arena = a
    BY DEF Chained, Handled
  <2> QED BY <2>1 DEF Gone, Displaced
<1>2. FirstOf(regions, first, a)
  BY <1>1, LeftmostIsFirst
<1>3. FreeAll(S)
  BY DEF Destroy
<1> HIDE DEF first
<1>4. S = Rest(first)
  <2>1. first \in DOMAIN regions /\ ~Displaced(first)
    BY <1>2 DEF FirstOf, Displaced
  <2> QED BY <2>1, RightwardIsRest
<1> HIDE DEF S
<1>5. S = InPlace(a)
  <2>1. \A r \in DOMAIN regions : r \in Nat
    BY DEF IInv, ArenaTypeOK
  <2>2. \A r \in DOMAIN regions : r \in S <=> regions[r].arena = a /\ ~Displaced(r)
    BY <1>2, <1>4, <2>1 DEF Rest, FirstOf
  <2> QED BY <1>4, <2>2 DEF Rest, InPlace
<1> QED BY <1>1, <1>3, <1>5 DEF InPlace

LEMMA DestroyLeaks ==
  ASSUME IInv, LeakInv, NEW a \in Arenas, InUse(a), Destroy(a)
  PROVE  LeakInv'
<1> DEFINE h == handle[a]
           S == InPlace(a)
<1>1. h \in DOMAIN regions /\ regions[h].arena = a /\ ~Displaced(h)
  BY DestroyFrees DEF InPlace, LeakInv
<1>2. FreeAll(S)
  BY DestroyFrees DEF LeakInv
<1>3. \A r \in DOMAIN regions : r \in S <=> regions[r].arena = a /\ ~Displaced(r)
  BY DEF InPlace
<1> HIDE DEF S
<1>4. /\ DOMAIN regions' = DOMAIN regions /\ handle' = handle
      /\ \A r \in DOMAIN regions :
           /\ regions[r].frees \in Nat /\ regions[r].arena \in Arenas
           /\ regions'[r].arena = regions[r].arena
           /\ regions'[r].prev = regions[r].prev /\ regions'[r].next = regions[r].next
           /\ regions'[r].frees = IF r \in S THEN regions[r].frees + 1 ELSE regions[r].frees
  <2>1. DOMAIN regions' = DOMAIN regions /\ handle' = handle
    BY <1>2 DEF FreeAll
  <2>2. ASSUME NEW r \in DOMAIN regions
        PROVE  /\ regions[r].frees \in Nat /\ regions[r].arena \in Arenas
               /\ regions'[r].arena = regions[r].arena
               /\ regions'[r].prev = regions[r].prev /\ regions'[r].next = regions[r].next
               /\ regions'[r].frees = IF r \in S THEN regions[r].frees + 1 ELSE regions[r].frees
    <3>1. regions[r] \in RegionType
      BY DEF IInv, ArenaTypeOK
    <3>2. regions'[r] = [regions[r] EXCEPT !.frees = IF r \in S THEN regions[r].frees + 1
                                                            ELSE regions[r].frees]
      BY <1>2 DEF FreeAll
    <3> QED BY <3>1, <3>2 DEF RegionType
  <2> QED BY <2>1, <2>2
<1>5. Chained(regions', handle)
  <2>1. Chained(regions, handle)
    BY DEF LeakInv
  <2> QED BY <1>4, <2>1, SameLinks
<1>6. OnlyDisplacedRegionsLeak'
  <2> SUFFICES ASSUME NEW r \in DOMAIN regions
               PROVE  regions'[r].frees =
                        IF regions'[handle[regions[r].arena]].frees > 0 /\ ~Displaced(r) THEN 1 ELSE 0
    BY <1>4 DEF OnlyDisplacedRegionsLeak, Displaced
  <2>1. regions[r].frees =
          IF regions[handle[regions[r].arena]].frees > 0 /\ ~Displaced(r) THEN 1 ELSE 0
    BY DEF LeakInv, OnlyDisplacedRegionsLeak
  <2>2. CASE regions[r].arena = a
    <3>1. regions[h].frees = 0 /\ regions'[h].frees = 1
      BY <1>1, <1>3, <1>4 DEF InUse
    <3>2. regions[r].frees = 0
      BY <2>1, <2>2, <3>1
    <3> QED BY <1>3, <1>4, <2>2, <3>1, <3>2
  <2>3. CASE regions[r].arena # a
    <3> DEFINE k == handle[regions[r].arena]
    <3>1. k \in DOMAIN regions /\ regions[k].arena # a
      BY <1>4, <2>3 DEF LeakInv, Chained, Handled
    <3>2. regions'[k].frees = regions[k].frees /\ regions'[r].frees = regions[r].frees
      BY <1>3, <1>4, <2>3, <3>1
    <3> QED BY <2>1, <3>2
  <2> QED BY <2>2, <2>3
<1> QED BY <1>4, <1>5, <1>6 DEF LeakInv

(* Every call of a client that keeps its promise. *)
LEMMA StepKeepsChain == IInv /\ LeakInv /\ [ArenaNext]_arenaVars => LeakInv'
<1> SUFFICES ASSUME IInv, LeakInv, [ArenaNext]_arenaVars PROVE LeakInv'
  OBVIOUS
<1>1. ASSUME UNCHANGED <<regions, handle>> PROVE LeakInv'
  BY <1>1, SizesOnly
<1>2. ASSUME NEW a \in Arenas, NEW r, r = handle[a], NEW n \in Nat, Bump(r, n) \/ Reset(a),
             UNCHANGED handle
      PROVE  LeakInv'
  <2>1. /\ regions \in Seq(RegionType) /\ r \in DOMAIN regions /\ regions[r] \in RegionType
        /\ regions[r].size + n \in Nat
    <3>1. regions \in Seq(RegionType) /\ r \in DOMAIN regions /\ regions[r] \in RegionType
      BY <1>2 DEF IInv, ArenaTypeOK
    <3> QED BY <3>1 DEF RegionType
  <2>2. PICK m \in Nat : regions' = [regions EXCEPT ![r].size = m]
    BY <1>2, <2>1 DEF Bump, Reset
  <2> DEFINE e == [regions[r] EXCEPT !.size = m]
  <2>3. /\ e \in RegionType /\ e.arena = regions[r].arena /\ e.frees = regions[r].frees
        /\ e.prev = regions[r].prev /\ e.next = regions[r].next
    BY <2>1 DEF RegionType
  <2>4. regions' = [regions EXCEPT ![r] = e]
    BY <2>2
  <2> HIDE DEF e
  <2>5. /\ DOMAIN regions' = DOMAIN regions
        /\ \A s \in DOMAIN regions : regions'[s] = IF s = r THEN e ELSE regions[s]
    BY <2>1, <2>3, <2>4, SeqUpdate
  <2> QED BY <1>2, <2>3, <2>5, SizesOnly
<1>3. ASSUME NEW a \in Arenas, InUse(a), NEW n \in Requests, Alloc(a, n) \/ AllocByCopy(a, n)
      PROVE  LeakInv'
  <2>1. n \in Nat
    BY RequestsAssumption
  <2>2. CASE UNCHANGED <<regions, handle>>
    BY <1>1, <2>2
  <2>3. CASE TakeHere(handle[a], n) /\ UNCHANGED handle
    BY <1>2, <2>1, <2>3 DEF TakeHere
  <2>4. CASE /\ TakeBehind(handle[a], n)
             /\ handle' = handle \/ handle' = [handle EXCEPT ![a] = Len(regions) + 1]
    BY <1>3, <2>1, <2>4, TakeBehindLeaks
  <2> QED BY <1>3, <2>2, <2>3, <2>4 DEF Alloc, AllocByCopy, arenaVars
<1>4. ASSUME NEW a \in Arenas, Reset(a) PROVE LeakInv'
  BY <1>2, <1>4 DEF Reset
<1>5. ASSUME NEW a \in Arenas, InUse(a), Destroy(a) PROVE LeakInv'
  BY <1>5, DestroyLeaks
<1> QED BY <1>1, <1>3, <1>4, <1>5 DEF ArenaNext, arenaVars

(* An arena stays in use while another is asked for memory or destroyed,   *)
(* and while it is asked itself.                                           *)
LEMMA AllocKeepsUse ==
  ASSUME IInv, NEW a \in Arenas, InUse(a), NEW n, Alloc(a, n) \/ AllocByCopy(a, n),
         NEW b \in Arenas, InUse(b)
  PROVE  InUse(b)'
<1> DEFINE h == handle[a]
<1>1. /\ regions \in Seq(RegionType) /\ h \in DOMAIN regions /\ handle[b] \in DOMAIN regions
      /\ handle \in [Arenas -> DOMAIN regions]
      /\ DOMAIN regions = 1 .. Len(regions) /\ Len(regions) \in Nat
      /\ \A r \in DOMAIN regions : regions[r] \in RegionType
  BY DEF IInv, ArenaTypeOK
<1>2. CASE UNCHANGED <<regions, handle>>
  BY <1>2 DEF InUse
<1>3. CASE TakeHere(h, n) /\ UNCHANGED handle
  <2>1. regions' = [regions EXCEPT ![h].size = @ + n]
    BY <1>3 DEF TakeHere, Bump
  <2>2. regions'[handle[b]].frees = regions[handle[b]].frees
    BY <1>1, <2>1 DEF RegionType
  <2> QED BY <1>3, <2>2 DEF InUse
<1>4. CASE /\ TakeBehind(h, n)
           /\ handle' = handle \/ handle' = [handle EXCEPT ![a] = Len(regions) + 1]
  <2> DEFINE new == Len(regions) + 1
             linked == [regions EXCEPT ![h].next = new]
             fresh == Region(regions[h].arena, n, h)
  <2>1. regions' = Append(linked, fresh) /\ fresh.frees = 0
    BY <1>4 DEF TakeBehind, Region
  <2>2. /\ DOMAIN linked = DOMAIN regions /\ linked \in Seq(RegionType)
        /\ \A r \in DOMAIN regions : linked[r].frees = regions[r].frees
    <3> DEFINE e == [regions[h] EXCEPT !.next = new]
    <3>1. regions[h] \in RegionType /\ new \in Nat
      BY <1>1
    <3> HIDE DEF new
    <3>2. e \in RegionType /\ e.frees = regions[h].frees
      BY <3>1 DEF RegionType
    <3>3. linked = [regions EXCEPT ![h] = e]
      OBVIOUS
    <3> HIDE DEF e, linked
    <3> QED BY <1>1, <3>2, <3>3, SeqUpdate
  <2> HIDE DEF linked, fresh
  <2>3. Len(linked) = Len(regions)
    BY <1>1, <2>2
  <2>4. /\ \A r \in DOMAIN regions : regions'[r] = linked[r]
        /\ regions'[new] = fresh
    BY <1>1, <2>1, <2>2, <2>3
  <2>5. handle'[b] = handle[b] \/ handle'[b] = new
    BY <1>1, <1>4
  <2> HIDE DEF new
  <2>6. regions'[handle'[b]].frees = 0
    BY <1>1, <2>1, <2>2, <2>4, <2>5 DEF InUse
  <2> QED BY <2>6 DEF InUse
<1> QED BY <1>2, <1>3, <1>4 DEF Alloc, AllocByCopy, arenaVars

LEMMA DestroyKeepsUse ==
  ASSUME IInv, Chained(regions, handle), NEW a \in Arenas, Destroy(a),
         NEW b \in Arenas, b # a, InUse(b)
  PROVE  InUse(b)'
<1>1. handle[b] \in DOMAIN regions /\ regions[handle[b]].arena = b
  BY DEF Chained, Handled
<1>2. handle[b] \notin InPlace(a)
  BY <1>1 DEF InPlace
<1>3. FreeAll(InPlace(a))
  BY DestroyFrees
<1>4. regions'[handle[b]].frees = regions[handle[b]].frees
  <2>1. regions[handle[b]] \in RegionType
    BY <1>1 DEF IInv, ArenaTypeOK
  <2>2. regions'[handle[b]] = [regions[handle[b]] EXCEPT !.frees = regions[handle[b]].frees]
    BY <1>1, <1>2, <1>3 DEF FreeAll
  <2> QED BY <2>1, <2>2 DEF RegionType
<1> QED BY <1>3, <1>4 DEF FreeAll, InUse

(* No region is freed twice, and a destroyed arena leaks those regions,    *)
(* and only those, whose place behind an older one was given to another:   *)
(* for any mix of calls that pass the handle by reference and by copy      *)
(* (arena.h:55-101).                                                       *)
THEOREM LeaksAreDisplaced == ArenaSpec => []OnlyDisplacedRegionsLeak
<1>1. LeakInv => OnlyDisplacedRegionsLeak
  BY DEF LeakInv
<1> QED BY <1>1, InitEstablishes, StepKeeps, InitChained, StepKeepsChain, PTL DEF ArenaSpec
=============================================================================
