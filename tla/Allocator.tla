----------------------------- MODULE Allocator -----------------------------
(***************************************************************************)
(* AllocatorWrapper (alloc/alloc_wrapper.cpp): every thread has one, and   *)
(* TLSSocket takes its two record buffers from it.  Memory is mapped in    *)
(* arenas of Blocks blocks; an arena's array says for every block whether  *)
(* a segment begins there, how long it is, where the one before begins and *)
(* whether it is occupied.  Addresses are counted in blocks.               *)
(*                                                                         *)
(* The entries of blocks inside a segment keep what they held before: the  *)
(* code never resets them.  mmap does not fail.                            *)
(***************************************************************************)
EXTENDS Integers, SequencesExt

CONSTANTS
    Blocks,   \* BLOCKS_IN_ARENA
    Keep,     \* so many arenas stay mapped (3)
    Sizes,    \* sizes that are asked for; larger ones than Blocks are custom
    Bases     \* bound: addresses that mmap may return

ASSUME AllocatorAssumption ==
    /\ Blocks \in 1 .. 127     \* length and back have 7 bits
    /\ Keep \in Nat \ {0}
    /\ Sizes \subseteq Nat \ {0}
    /\ Bases \subseteq Nat

VARIABLES
    arenas,    \* arenas_, in the order of the list
    custom,    \* custom_arenas_: base -> blocks
    segments,  \* segment_info_: base -> the array
    held       \* what the callers hold

vars == <<arenas, custom, segments, held>>

Positions == 0 .. Blocks - 1
Extent(h) == h.at .. h.at + h.size - 1
MappedBy(as, cu) ==
    UNION ({as[i] .. as[i] + Blocks - 1 : i \in DOMAIN as}
             \union {b .. b + cu[b] - 1 : b \in DOMAIN cu})
mapped == MappedBy(arenas, custom)

\* mmap gives n blocks that are not mapped.
Mmap(n) == {b \in Bases : (b .. b + n - 1) \intersect mapped = {}}
-----------------------------------------------------------------------------
(* The array of an arena.                                                  *)
Segment(length, back, occupied, interior) ==
    [length |-> length, back |-> back, occupied |-> occupied,
     interior |-> interior]

Fresh == [i \in Positions |-> IF i = 0 THEN Segment(Blocks, 0, FALSE, FALSE)
                              ELSE Segment(0, 0, FALSE, TRUE)]

\* The positions that the loop of bmalloc visits.
Heads(arr) ==
    LET visited[i \in Positions] ==
            i = 0 \/ \E j \in 0 .. i - 1 : visited[j] /\ j + arr[j].length = i
    IN {i \in Positions : visited[i]}

\* Broken form: a segment that is occupied is taken again.
FitsOccupied(arr, n) ==
    {i \in Heads(arr) : ~arr[i].interior /\ arr[i].length >= n}

\* Where n blocks may be taken.
Fits(arr, n) ==
    {i \in Heads(arr) : ~arr[i].interior /\ ~arr[i].occupied /\ arr[i].length >= n}

\* Broken form: the segment after the rest keeps its back position.
CarveKeepsBack(arr, i, n) ==
    LET len == arr[i].length
    IN [j \in Positions |->
          IF j = i THEN [arr[j] EXCEPT !.length = n, !.occupied = TRUE]
          ELSE IF len > n /\ j = i + n THEN Segment(len - n, i, FALSE, FALSE)
          ELSE arr[j]]

\* The first n blocks of the segment at i become an allocation, the rest a
\* segment of its own.
Carve(arr, i, n) ==
    LET len == arr[i].length
    IN [j \in Positions |->
          IF j = i THEN [arr[j] EXCEPT !.length = n, !.occupied = TRUE]
          ELSE IF len > n /\ j = i + n THEN Segment(len - n, i, FALSE, FALSE)
          ELSE IF j = i + len THEN [arr[j] EXCEPT !.back = IF len > n THEN i + n ELSE i]
          ELSE arr[j]]

\* The segment at i grows over the one behind it, at j.
Absorb(arr, i, j) ==
    [arr EXCEPT ![i].length = @ + arr[j].length, ![j].interior = TRUE]

\* The segment behind the one at i learns where i is.
PointBack(arr, i) ==
    LET next == i + arr[i].length
    IN IF next < Blocks THEN [arr EXCEPT ![next].back = i] ELSE arr

\* Broken form: a segment is not joined with the one before it.
MergeForwardOnly(arr, i) ==
    LET next == i + arr[i].length
        joined == IF next < Blocks /\ ~arr[next].occupied
                  THEN Absorb(arr, i, next) ELSE arr
    IN PointBack([joined EXCEPT ![i].occupied = FALSE], i)

\* The segment at i is free: it is joined with free neighbours on both sides.
Merge(arr, i) ==
    LET next == i + arr[i].length
        joined == IF next < Blocks /\ ~arr[next].occupied
                  THEN Absorb(arr, i, next) ELSE arr
        back == arr[i].back
    IN IF i # 0 /\ ~joined[back].occupied
       THEN PointBack(Absorb(joined, back, i), back)
       ELSE PointBack([joined EXCEPT ![i].occupied = FALSE], i)
-----------------------------------------------------------------------------
(* bmalloc and bfree.                                                      *)
Hand(p, n) == held' = held \union {[at |-> p, size |-> n]}

\* More than an arena: a mapping of its own.
MallocCustom(n) ==
    /\ n > Blocks
    /\ \E b \in Mmap(n) :
          /\ custom' = [c \in DOMAIN custom \union {b} |->
                           IF c = b THEN n ELSE custom[c]]
          /\ Hand(b, n)
    /\ UNCHANGED <<arenas, segments>>

\* The first arena of the list with a segment that fits, and in it the last
\* such segment.
MallocArena(n) ==
    /\ n <= Blocks
    /\ \E k \in DOMAIN arenas :
          LET arr == segments[arenas[k]]
              i == Max(Fits(arr, n))
          IN /\ Fits(arr, n) # {}
             /\ \A l \in 1 .. k - 1 : Fits(segments[arenas[l]], n) = {}
             /\ segments' = [segments EXCEPT ![arenas[k]] = Carve(arr, i, n)]
             /\ Hand(arenas[k] + i, n)
    /\ UNCHANGED <<arenas, custom>>

\* add_arena inserts before the first arena with a higher address.
Insert(b) ==
    LET lower == {k \in DOMAIN arenas : \A l \in 1 .. k : arenas[l] <= b}
        at == Cardinality(lower)
    IN SubSeq(arenas, 1, at) \o <<b>> \o SubSeq(arenas, at + 1, Len(arenas))

MallocNew(n) ==
    /\ n <= Blocks
    /\ \A k \in DOMAIN arenas : Fits(segments[arenas[k]], n) = {}
    /\ \E b \in Mmap(Blocks) :
          /\ arenas' = Insert(b)
          /\ segments' = [c \in DOMAIN segments \union {b} |->
                             IF c = b THEN Carve(Fresh, 0, n) ELSE segments[c]]
          /\ Hand(b, n)
    /\ UNCHANGED custom

FreeCustom(h) ==
    /\ h.at \in DOMAIN custom
    /\ custom' = [c \in DOMAIN custom \ {h.at} |-> custom[c]]
    /\ held' = held \ {h}
    /\ UNCHANGED <<arenas, segments>>

\* Broken form: one arena more than Keep may stay.
SpareLate == Len(arenas) > Keep + 1

\* An arena that is free again is unmapped when there are more than Keep.
Spare == Len(arenas) > Keep

Unmap(k) ==
    /\ arenas' = RemoveAt(arenas, k)
    /\ segments' = [c \in DOMAIN segments \ {arenas[k]} |-> segments[c]]

\* The arena is the last one of the list that is not above the address.
FreeArena(h) ==
    /\ h.at \notin DOMAIN custom
    /\ \E k \in DOMAIN arenas :
          /\ arenas[k] <= h.at
          /\ \A l \in k + 1 .. Len(arenas) : arenas[l] > h.at
          /\ LET b == arenas[k]
                 arr == Merge(segments[b], h.at - b)
             IN IF ~arr[0].occupied /\ arr[0].length = Blocks /\ Spare
                THEN Unmap(k)
                ELSE /\ segments' = [segments EXCEPT ![b] = arr]
                     /\ UNCHANGED arenas
    /\ held' = held \ {h}
    /\ UNCHANGED custom

Init ==   \* the constructor adds an arena
    \E b \in Bases :
        /\ arenas = <<b>>
        /\ custom = [c \in {} |-> 0]
        /\ segments = [c \in {b} |-> Fresh]
        /\ held = {}

Next ==
    \/ \E n \in Sizes : MallocCustom(n) \/ MallocArena(n) \/ MallocNew(n)
    \/ \E h \in held : FreeCustom(h) \/ FreeArena(h)

Spec == Init /\ [][Next]_vars
-----------------------------------------------------------------------------
\* Types of the allocator's tables.
TypeOK ==
    /\ arenas \in Seq(Bases) /\ DOMAIN segments = {arenas[k] : k \in DOMAIN arenas}
    /\ custom \in [DOMAIN custom -> Sizes] /\ DOMAIN custom \subseteq Bases
    /\ \A b \in DOMAIN segments :
          segments[b] \in [Positions -> [length : 0 .. Blocks, back : Positions,
                                         occupied : BOOLEAN, interior : BOOLEAN]]
    /\ held \subseteq [at : Nat, size : Sizes]

\* The segments of an arena tile it: from position 0, each begins where the one
\* before ends and points back to it, the last one ends with the arena, and none
\* of them is marked as the interior of another.
Tiled ==
    \A b \in DOMAIN segments :
        LET arr == segments[b]
            heads == Heads(arr)
        IN /\ \A i \in heads : /\ ~arr[i].interior /\ arr[i].length > 0
                               /\ i + arr[i].length \in heads \union {Blocks}
           /\ \A i \in heads : LET next == i + arr[i].length IN
                               next # Blocks => arr[next].back = i

\* "the following block (if any) will be occupied by induction"
\* (alloc_wrapper.cpp:47): no two free segments are neighbours.
Coalesced ==
    \A b \in DOMAIN segments :
        LET arr == segments[b] IN
        \A i \in Heads(arr) :
            LET next == i + arr[i].length IN
            next < Blocks => arr[i].occupied \/ arr[next].occupied

\* What is in use is what the callers hold, at its address and with its size.
HeldIsOccupied ==
    held = {[at |-> b, size |-> custom[b]] : b \in DOMAIN custom}
           \union UNION {{[at |-> b + i, size |-> segments[b][i].length] :
                            i \in {j \in Heads(segments[b]) : segments[b][j].occupied}} :
                         b \in DOMAIN segments}

\* With more than Keep arenas, every one is in use.
InUse ==
    Len(arenas) > Keep =>
        \A k \in DOMAIN arenas : \E h \in held :
            Extent(h) \subseteq arenas[k] .. arenas[k] + Blocks - 1

\* The tables (of their types) account for what balloc handed out: nothing leaks,
\* nothing is handed out twice, and bfree gives back what nobody holds.
Accounted == TypeOK /\ HeldIsOccupied /\ InUse

\* A new arena is mapped only when no arena has the blocks side by side: what
\* was freed in pieces can be allocated as a whole.
MapsWhenFull ==
    [][Len(arenas') > Len(arenas) =>
         \A new \in held' \ held, k \in DOMAIN arenas :
         \A p \in arenas[k] .. arenas[k] + Blocks - new.size :
             \E h \in held : Extent(h) \intersect (p .. p + new.size - 1) # {}]_vars

\* The allocator keeps the promise of Extents.
Implements == INSTANCE Extents
KeepsPromise == Implements!Spec
=============================================================================
