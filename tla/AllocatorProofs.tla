-------------------------- MODULE AllocatorProofs --------------------------
(* The allocator keeps its promises for every size of an arena, any number *)
(* of arenas and any sequence of calls: the invariants of Allocator hold,  *)
(* an arena is mapped only when no other has room, and Extents is          *)
(* implemented.                                                            *)
(*                                                                         *)
(* An array is sound when there is a set H of positions that its segments  *)
(* tile, with their back positions right and one of two neighbours in use. *)
(* The set is what the loop of bmalloc visits (HeadsAre), so it need not   *)
(* be computed: for each change of an array the proof says what H becomes. *)
(* A segment that grows over its neighbour leaves exactly one back         *)
(* position wrong, and PointBack mends it; that is why Backs has an        *)
(* exception.  The state then needs that mappings do not overlap, that the *)
(* list of arenas is in order of address (bfree finds the arena with it),  *)
(* and that with more than Keep arenas each is in use.                     *)
EXTENDS Allocator, DataFacts

-----------------------------------------------------------------------------
(* The array of an arena: what a tiling is.                                 *)

\* What the entries of an array may be.
Entries == [length : 0 .. Blocks, back : Positions, occupied : BOOLEAN, interior : BOOLEAN]
Arrays == [Positions -> Entries]

\* H are the positions at which the segments of an arena begin.
Tiles(arr, H) ==
    /\ H \subseteq Positions /\ 0 \in H
    /\ \A i \in H :
          /\ arr[i].length > 0 /\ ~arr[i].interior
          /\ i + arr[i].length \in H \union {Blocks}
          /\ \A j \in H : i < j => i + arr[i].length <= j

\* Each segment knows where the one before begins, but for the one after x.
Backs(arr, H, x) ==
    \A i \in H : i # x /\ i + arr[i].length # Blocks => arr[i + arr[i].length].back = i

\* Of two neighbours one is occupied.
Dense(arr, H) ==
    \A i \in H : i + arr[i].length < Blocks =>
                    arr[i].occupied \/ arr[i + arr[i].length].occupied

\* Numbers, for the provers.
LEMMA EntryType ==
    ASSUME NEW arr \in Arrays, NEW i \in Positions
    PROVE  /\ arr[i].length \in 0 .. Blocks /\ arr[i].length \in Nat
           /\ arr[i].back \in Positions /\ arr[i].occupied \in BOOLEAN
           /\ i \in Nat /\ Blocks \in Nat \ {0} /\ i < Blocks
<1>1. arr[i] \in Entries
  BY DEF Arrays
<1>2. Blocks \in Nat \ {0} /\ i \in Nat /\ i < Blocks
  BY AllocatorAssumption DEF Positions
<1>3. arr[i].length \in 0 .. Blocks /\ arr[i].back \in Positions /\ arr[i].occupied \in BOOLEAN
  BY <1>1 DEF Entries
<1>4. QED
  BY <1>2, <1>3

\* Segments end with their arena at the latest.
LEMMA SegmentEnds ==
    ASSUME NEW arr \in Arrays, NEW H, Tiles(arr, H), NEW i \in H
    PROVE  /\ i \in Positions /\ i \in Nat /\ arr[i].length \in Nat \ {0}
           /\ i + arr[i].length <= Blocks
           /\ i + arr[i].length # Blocks => i + arr[i].length \in H
<1>1. i \in Positions /\ H \subseteq Positions
  BY DEF Tiles
<1>2. i \in Nat /\ arr[i].length \in Nat /\ Blocks \in Nat
  BY <1>1, EntryType
<1>3. arr[i].length > 0 /\ i + arr[i].length \in H \union {Blocks}
  BY DEF Tiles
<1>4. \A j \in H : j < Blocks
  BY <1>1, AllocatorAssumption DEF Positions
<1>5. QED
  BY <1>1, <1>2, <1>3, <1>4

\* Before a segment other than the first one there is one that ends where it
\* begins, and only one.
LEMMA Before ==
    ASSUME NEW arr \in Arrays, NEW H, Tiles(arr, H), NEW i \in H, i # 0
    PROVE  \E p \in H : p < i /\ p + arr[p].length = i
<1> DEFINE S == {j \in H : j < i}
<1>1. H \subseteq Positions /\ 0 \in H /\ i \in Nat /\ \A j \in H : j \in Nat
  BY AllocatorAssumption DEF Tiles, Positions
<1>2. S # {} /\ S \subseteq 0 .. i
  <2>1. 0 \in S
    BY <1>1
  <2>2. \A j \in S : j \in 0 .. i
    BY <1>1
  <2> HIDE DEF S
  <2>3. QED
    BY <2>1, <2>2
<1>3. PICK p \in S : \A j \in S : j <= p
  <2> HIDE DEF S
  <2>1. QED
    BY <1>1, <1>2, Greatest
<1>4. p \in H /\ p < i /\ p \in Nat
  BY <1>1
<1>5. p + arr[p].length <= i
  BY <1>4 DEF Tiles
<1>6. arr[p].length \in Nat \ {0} /\ (p + arr[p].length # Blocks => p + arr[p].length \in H)
  BY <1>4, SegmentEnds
<1>7. i < Blocks /\ Blocks \in Nat
  BY <1>1, AllocatorAssumption DEF Positions
<1>8. ~(p + arr[p].length < i)
  <2>1. SUFFICES ASSUME p + arr[p].length < i PROVE FALSE
    OBVIOUS
  <2>2. p + arr[p].length \in H
    BY <1>1, <1>4, <1>6, <1>7, <2>1
  <2>3. p + arr[p].length \in S
    BY <2>1, <2>2
  <2>4. QED
    BY <1>3, <1>4, <1>6, <2>3
<1>9. QED
  BY <1>1, <1>4, <1>5, <1>6, <1>8

\* The loop of bmalloc visits these positions.
LEMMA HeadsAre ==
    ASSUME NEW arr \in Arrays, NEW H, Tiles(arr, H)
    PROVE  Heads(arr) = H
<1> DEFINE Walks(v) ==
             v = [i \in Positions |->
                    i = 0 \/ \E j \in 0 .. i - 1 : v[j] /\ j + arr[j].length = i]
           walk == CHOOSE v : Walks(v)
           is == [i \in Positions |-> i \in H]
<1>1. H \subseteq Positions /\ 0 \in H /\ Positions \subseteq Nat
  BY DEF Tiles, Positions
<1>2. \A i \in Positions : \A j \in 0 .. i - 1 : j \in Positions /\ j \in Nat /\ j < i
  BY AllocatorAssumption DEF Positions
<1>3. \A i \in Positions : i \in H <=> (i = 0 \/ \E j \in 0 .. i - 1 : j \in H /\ j + arr[j].length = i)
  <2> SUFFICES ASSUME NEW i \in Positions
               PROVE  i \in H <=> (i = 0 \/ \E j \in 0 .. i - 1 : j \in H /\ j + arr[j].length = i)
    OBVIOUS
  <2>1. ASSUME i \in H, i # 0
        PROVE  \E j \in 0 .. i - 1 : j \in H /\ j + arr[j].length = i
    <3>1. PICK p \in H : p < i /\ p + arr[p].length = i
      BY <2>1, Before
    <3>2. p \in Nat /\ i \in Nat
      BY <1>1
    <3>3. QED
      BY <3>1, <3>2
  <2>2. ASSUME NEW j \in 0 .. i - 1, j \in H, j + arr[j].length = i
        PROVE  i \in H
    <3>1. i # Blocks
      BY AllocatorAssumption DEF Positions
    <3>2. QED
      BY <2>2, <3>1, SegmentEnds
  <2>3. QED
    BY <1>1, <2>1, <2>2
<1>4. Walks(is)
  <2>1. \A i \in Positions : \A j \in 0 .. i - 1 : is[j] <=> j \in H
    BY <1>2
  <2>2. ASSUME NEW i \in Positions
        PROVE  (i \in H) = (i = 0 \/ \E j \in 0 .. i - 1 : is[j] /\ j + arr[j].length = i)
    <3>1. i \in H <=> (i = 0 \/ \E j \in 0 .. i - 1 : is[j] /\ j + arr[j].length = i)
      <4> HIDE DEF is
      <4>1. QED
        BY <1>3, <2>1
    <3> HIDE DEF is
    <3>2. QED
      BY <3>1
  <2>3. is = [i \in Positions |->
                i = 0 \/ \E j \in 0 .. i - 1 : is[j] /\ j + arr[j].length = i]
    BY <2>2
  <2> HIDE DEF is
  <2>4. QED
    BY <2>3
<1>5. Walks(walk)
  BY <1>4
<1> HIDE DEF walk
<1>6. \A i \in Positions : walk[i] <=> i \in H
  <2> DEFINE S == {n \in Nat : \A i \in Positions : i < n => (walk[i] <=> i \in H)}
  <2>1. 0 \in S
    BY <1>1
  <2>2. ASSUME NEW n \in S PROVE n + 1 \in S
    <3>1. n \in Nat /\ \A j \in Positions : j < n => (walk[j] <=> j \in H)
      OBVIOUS
    <3>2. SUFFICES ASSUME NEW i \in Positions, i < n + 1 PROVE walk[i] <=> i \in H
      BY <3>1
    <3>3. walk[i] <=> (i = 0 \/ \E j \in 0 .. i - 1 : walk[j] /\ j + arr[j].length = i)
      BY <1>5
    <3>4. \A j \in 0 .. i - 1 : walk[j] <=> j \in H
      <4>1. \A j \in 0 .. i - 1 : j \in Positions /\ j < n
        BY <1>1, <1>2, <3>1, <3>2
      <4>2. QED
        BY <3>1, <4>1
    <3>5. QED
      BY <1>3, <3>3, <3>4
  <2>3. S = Nat
    <3>1. S \subseteq Nat
      OBVIOUS
    <3> HIDE DEF S
    <3>2. QED
      BY <2>1, <2>2, <3>1, Induction
  <2>4. QED
    <3> SUFFICES ASSUME NEW i \in Positions PROVE walk[i] <=> i \in H
      OBVIOUS
    <3>1. i \in Nat /\ i + 1 \in Nat /\ i < i + 1
      BY <1>1
    <3>2. i + 1 \in S
      <4> HIDE DEF S
      <4>1. QED
        BY <2>3, <3>1
    <3>3. QED
      BY <3>1, <3>2
<1>7. Heads(arr) = {i \in Positions : walk[i]}
  BY DEF Heads, walk
<1>8. QED
  BY <1>1, <1>6, <1>7

-----------------------------------------------------------------------------
(* Joining segments.                                                        *)

\* What the array's operations do, entry by entry.
LEMMA AbsorbIs ==
    ASSUME NEW arr \in Arrays, NEW i \in Positions, NEW j \in Positions, i # j,
           arr[i].length + arr[j].length <= Blocks
    PROVE  LET new == Absorb(arr, i, j) IN
           /\ new \in Arrays
           /\ new[i].length = arr[i].length + arr[j].length
           /\ new[i].interior = arr[i].interior
           /\ \A k \in Positions :
                 /\ k # i => new[k].length = arr[k].length
                 /\ k # j => new[k].interior = arr[k].interior
                 /\ new[k].back = arr[k].back /\ new[k].occupied = arr[k].occupied
<1> DEFINE a == [arr[i] EXCEPT !.length = @ + arr[j].length]
           b == [arr[j] EXCEPT !.interior = TRUE]
           new == Absorb(arr, i, j)
<1>1. arr[i] \in Entries /\ arr[j] \in Entries
  BY DEF Arrays
<1>2. arr[i].length + arr[j].length \in 0 .. Blocks
  BY EntryType
<1>3. /\ a \in Entries /\ a.length = arr[i].length + arr[j].length
      /\ a.back = arr[i].back /\ a.occupied = arr[i].occupied /\ a.interior = arr[i].interior
  BY <1>1, <1>2 DEF Entries
<1>4. /\ b \in Entries /\ b.length = arr[j].length
      /\ b.back = arr[j].back /\ b.occupied = arr[j].occupied
  BY <1>1 DEF Entries
<1>5. new = [k \in Positions |-> IF k = i THEN a ELSE IF k = j THEN b ELSE arr[k]]
  BY DEF Absorb, Arrays
<1> HIDE DEF a, b, new
<1>6. new \in Arrays
  BY <1>3, <1>4, <1>5 DEF Arrays
<1>7. QED
  BY <1>3, <1>4, <1>5, <1>6 DEF new

\* One field of one entry.
SetBack(arr, p, i) == [arr EXCEPT ![p].back = i]
SetFree(arr, i) == [arr EXCEPT ![i].occupied = FALSE]

\* Its back position changes and nothing else.
LEMMA SetBackIs ==
    ASSUME NEW arr \in Arrays, NEW i \in Positions, NEW at \in Positions
    PROVE  /\ SetBack(arr, at, i) \in Arrays /\ SetBack(arr, at, i)[at].back = i
           /\ \A k \in Positions :
                 /\ k # at => SetBack(arr, at, i)[k].back = arr[k].back
                 /\ SetBack(arr, at, i)[k].length = arr[k].length
                 /\ SetBack(arr, at, i)[k].interior = arr[k].interior
                 /\ SetBack(arr, at, i)[k].occupied = arr[k].occupied
<1> DEFINE b == [arr[at] EXCEPT !.back = i]
           got == SetBack(arr, at, i)
<1>1. arr[at] \in Entries
  BY DEF Arrays
<1>2. /\ b \in Entries /\ b.back = i /\ b.length = arr[at].length
      /\ b.interior = arr[at].interior /\ b.occupied = arr[at].occupied
  BY <1>1 DEF Entries
<1>3. got = [k \in Positions |-> IF k = at THEN b ELSE arr[k]]
  BY DEF Arrays, SetBack
<1> HIDE DEF b, got
<1>4. got \in Arrays
  BY <1>2, <1>3 DEF Arrays
<1>5. QED
  BY <1>2, <1>3, <1>4 DEF got

\* It becomes free and nothing else changes.
LEMMA SetFreeIs ==
    ASSUME NEW arr \in Arrays, NEW i \in Positions
    PROVE  /\ SetFree(arr, i) \in Arrays /\ ~SetFree(arr, i)[i].occupied
           /\ \A k \in Positions :
                 /\ k # i => SetFree(arr, i)[k].occupied = arr[k].occupied
                 /\ SetFree(arr, i)[k].length = arr[k].length
                 /\ SetFree(arr, i)[k].interior = arr[k].interior
                 /\ SetFree(arr, i)[k].back = arr[k].back
<1> DEFINE b == [arr[i] EXCEPT !.occupied = FALSE]
           got == SetFree(arr, i)
<1>1. arr[i] \in Entries
  BY DEF Arrays
<1>2. /\ b \in Entries /\ ~b.occupied /\ b.length = arr[i].length
      /\ b.interior = arr[i].interior /\ b.back = arr[i].back
  BY <1>1 DEF Entries
<1>3. got = [k \in Positions |-> IF k = i THEN b ELSE arr[k]]
  BY DEF Arrays, SetFree
<1> HIDE DEF b, got
<1>4. got \in Arrays
  BY <1>2, <1>3 DEF Arrays
<1>5. QED
  BY <1>2, <1>3, <1>4 DEF got

\* A segment that grows over its neighbour leaves a tiling; only the segment
\* after both may now have a wrong back position.
LEMMA AbsorbTiles ==
    ASSUME NEW arr \in Arrays, NEW H, Tiles(arr, H),
           NEW i \in H, NEW j \in H, j = i + arr[i].length,
           NEW x, Backs(arr, H, x), x = i \/ x = j \/ x \notin H
    PROVE  LET new == Absorb(arr, i, j)
               rest == H \ {j}
           IN /\ new \in Arrays /\ Tiles(new, rest) /\ Backs(new, rest, i)
              /\ new[i].length = arr[i].length + arr[j].length
              /\ \A k \in Positions : /\ new[k].occupied = arr[k].occupied
                                      /\ k # i => new[k].length = arr[k].length
<1> DEFINE new == Absorb(arr, i, j)
           rest == H \ {j}
<1>1. /\ \A k \in H : /\ k \in Positions /\ k \in Nat /\ arr[k].length \in Nat \ {0}
                      /\ k + arr[k].length <= Blocks
                      /\ k + arr[k].length # Blocks => k + arr[k].length \in H
      /\ Blocks \in Nat
  BY SegmentEnds, AllocatorAssumption
<1>2. /\ H \subseteq Positions /\ 0 \in H
      /\ \A k \in H : ~arr[k].interior /\ \A l \in H : k < l => k + arr[k].length <= l
  BY DEF Tiles
<1>3. i # j /\ arr[i].length + arr[j].length <= Blocks
  BY <1>1
<1>4. /\ new \in Arrays /\ new[i].length = arr[i].length + arr[j].length
      /\ new[i].interior = arr[i].interior
      /\ \A k \in Positions :
            /\ k # i => new[k].length = arr[k].length
            /\ k # j => new[k].interior = arr[k].interior
            /\ new[k].back = arr[k].back /\ new[k].occupied = arr[k].occupied
  BY <1>1, <1>3, AbsorbIs
<1> HIDE DEF new
<1>5. Tiles(new, rest)
  <2>1. rest \subseteq Positions /\ 0 \in rest
    <3>1. i \in Nat /\ arr[i].length \in Nat \ {0}
      BY <1>1
    <3>2. j # 0
      BY <3>1
    <3>3. QED
      BY <1>2, <3>2
  <2>2. ASSUME NEW k \in rest
        PROVE  /\ new[k].length > 0 /\ ~new[k].interior
               /\ k + new[k].length \in rest \union {Blocks}
               /\ \A l \in rest : k < l => k + new[k].length <= l
    <3>1. k \in H /\ k # j /\ k \in Positions /\ ~new[k].interior
      BY <1>2, <1>4
    <3>2. CASE k = i
      <4>1. k + new[k].length = j + arr[j].length
        BY <1>1, <1>4, <3>2
      <4>2. new[k].length > 0
        BY <1>1, <1>4, <3>2
      <4>3. j + arr[j].length \in rest \union {Blocks}
        BY <1>1
      <4>4. ASSUME NEW l \in rest, k < l PROVE j + arr[j].length <= l
        <5>1. j <= l /\ l # j /\ l \in Nat /\ j \in Nat
          BY <1>1, <1>2, <3>2, <4>4
        <5>2. j < l
          BY <5>1
        <5>3. QED
          BY <1>2, <5>2
      <4>5. QED
        BY <3>1, <4>1, <4>2, <4>3, <4>4
    <3>3. CASE k # i
      <4>1. new[k].length = arr[k].length
        BY <1>4, <3>1, <3>3
      <4>2. k + arr[k].length # j
        <5>1. \A m, n \in Nat : m = n \/ m < n \/ n < m
          OBVIOUS
        <5>2. k < i \/ i < k
          BY <1>1, <3>1, <3>3, <5>1
        <5>3. CASE k < i
          BY <1>1, <1>2, <3>1, <5>3
        <5>4. CASE i < k
          BY <1>1, <1>2, <3>1, <5>4
        <5>5. QED
          BY <5>2, <5>3, <5>4
      <4>3. QED
        BY <1>1, <1>2, <3>1, <4>1, <4>2
    <3>4. QED
      BY <3>2, <3>3
  <2> HIDE DEF rest
  <2>3. QED
    BY <2>1, <2>2 DEF Tiles
<1>6. Backs(new, rest, i)
  <2>1. SUFFICES ASSUME NEW k \in rest, k # i, k + new[k].length # Blocks
                 PROVE  new[k + new[k].length].back = k
    BY DEF Backs
  <2>2. k \in H /\ k \in Positions /\ new[k].length = arr[k].length /\ k # x
    BY <1>1, <1>4, <2>1
  <2>3. k + arr[k].length \in Positions
    BY <1>1, <1>2, <2>1, <2>2
  <2>4. arr[k + arr[k].length].back = k
    BY <2>1, <2>2 DEF Backs
  <2>5. QED
    BY <1>4, <2>2, <2>3, <2>4
<1>7. QED
  BY <1>4, <1>5, <1>6 DEF new

\* A tiling looks at lengths, the interior marks and the set only.
LEMMA TilesSame ==
    ASSUME NEW arr, NEW H, Tiles(arr, H), NEW new,
           \A k \in Positions : new[k].length = arr[k].length /\ new[k].interior = arr[k].interior
    PROVE  Tiles(new, H)
<1>1. \A k \in H : new[k].length = arr[k].length /\ new[k].interior = arr[k].interior
  BY DEF Tiles
<1>2. QED
  BY <1>1 DEF Tiles

\* The segment after the one at i learns where i is.
LEMMA PointBackIs ==
    ASSUME NEW arr \in Arrays, NEW H, Tiles(arr, H), NEW i \in H, Backs(arr, H, i)
    PROVE  LET new == PointBack(arr, i)
           IN /\ new \in Arrays /\ Tiles(new, H) /\ Backs(new, H, Blocks)
              /\ \A k \in Positions : /\ new[k].occupied = arr[k].occupied
                                      /\ new[k].length = arr[k].length
<1> DEFINE p == i + arr[i].length
           new == PointBack(arr, i)
<1>1. /\ \A k \in H : /\ k \in Positions /\ k \in Nat /\ arr[k].length \in Nat \ {0}
                      /\ k + arr[k].length <= Blocks
                      /\ k + arr[k].length # Blocks => k + arr[k].length \in H
      /\ Blocks \in Nat
  BY SegmentEnds, AllocatorAssumption
<1>2. CASE p = Blocks
  <2>1. new = arr
    BY <1>1, <1>2 DEF PointBack
  <2>2. Backs(arr, H, Blocks)
    BY <1>2 DEF Backs
  <2>3. QED
    BY <2>1, <2>2
<1>3. CASE p # Blocks
  <2>1. p \in Positions /\ p < Blocks
    BY <1>1, <1>3
  <2>2. new = SetBack(arr, p, i) /\ i \in Positions
    BY <1>1, <2>1 DEF PointBack, SetBack
  <2>3. /\ new \in Arrays /\ new[p].back = i
        /\ \A k \in Positions :
              /\ k # p => new[k].back = arr[k].back
              /\ new[k].length = arr[k].length /\ new[k].interior = arr[k].interior
              /\ new[k].occupied = arr[k].occupied
    <3> HIDE DEF p, new
    <3>1. p \in Positions /\ i \in Positions
      BY <2>1, <2>2
    <3> DEFINE got == SetBack(arr, p, i)
    <3>2. /\ got \in Arrays /\ got[p].back = i
          /\ \A k \in Positions :
                /\ k # p => got[k].back = arr[k].back
                /\ got[k].length = arr[k].length /\ got[k].interior = arr[k].interior
                /\ got[k].occupied = arr[k].occupied
      BY <3>1, SetBackIs
    <3> HIDE DEF got
    <3>3. new = got
      BY <2>2 DEF got
    <3>4. QED
      BY <3>2, <3>3
  <2>4. Tiles(new, H)
    BY <2>3, TilesSame
  <2>5. Backs(new, H, Blocks)
    <3>1. SUFFICES ASSUME NEW k \in H, k + new[k].length # Blocks
                   PROVE  new[k + new[k].length].back = k
      BY DEF Backs
    <3>2. k \in Positions /\ new[k].length = arr[k].length /\ k + arr[k].length \in Positions
      BY <1>1, <2>3, <3>1
    <3>3. CASE k = i
      BY <2>3, <3>2, <3>3
    <3>4. CASE k # i
      <4>1. arr[k + arr[k].length].back = k
        BY <3>1, <3>2, <3>4 DEF Backs
      <4>2. k + arr[k].length # p
        <5>1. k < i \/ i < k
          BY <1>1, <3>4
        <5>2. \A l \in H : \A m \in H : l < m => l + arr[l].length <= m
          BY DEF Tiles
        <5>3. QED
          BY <1>1, <5>1, <5>2
      <4>3. QED
        BY <2>3, <3>2, <4>1, <4>2
    <3>5. QED
      BY <3>3, <3>4
  <2> HIDE DEF new
  <2>6. QED
    BY <2>3, <2>4, <2>5 DEF new
<1>4. QED
  BY <1>2, <1>3

-----------------------------------------------------------------------------
(* bfree in an array.                                                       *)

\* An array that is as the allocator keeps it.
Sound(arr, H) ==
    arr \in Arrays /\ Tiles(arr, H) /\ Backs(arr, H, Blocks) /\ Dense(arr, H)

\* What is occupied has become free at i, and at no other place.
Frees(arr, H, new, R, i) ==
    \A j \in Positions :
        /\ j \in R /\ new[j].occupied <=> j \in H /\ j # i /\ arr[j].occupied
        /\ j \in R /\ new[j].occupied => new[j].length = arr[j].length

\* The first part of Merge: the segment behind, if it is free.
JoinedNext(arr, i) ==
    LET next == i + arr[i].length
    IN IF next < Blocks /\ ~arr[next].occupied THEN Absorb(arr, i, next) ELSE arr

\* Behind the segment at i there is now one in use, or none; the back position
\* after it may be wrong.
LEMMA JoinedNextIs ==
    ASSUME NEW arr, NEW H, Sound(arr, H), NEW i \in H
    PROVE  LET new == JoinedNext(arr, i)
               end == i + new[i].length
           IN \E R \in SUBSET H :
                 /\ new \in Arrays /\ Tiles(new, R) /\ Backs(new, R, i) /\ i \in R
                 /\ \A k \in Positions : new[k].occupied = arr[k].occupied
                 /\ \A k \in Positions : k # i => new[k].length = arr[k].length
                 /\ \A k \in H \ R : ~arr[k].occupied /\ k > i
                 /\ arr[i].occupied => (end < Blocks => arr[end].occupied)
<1> DEFINE next == i + arr[i].length
           new == JoinedNext(arr, i)
<1>1. arr \in Arrays /\ Tiles(arr, H) /\ Backs(arr, H, Blocks) /\ Dense(arr, H)
  BY DEF Sound
<1>2. /\ \A k \in H : /\ k \in Positions /\ k \in Nat /\ arr[k].length \in Nat \ {0}
                      /\ k + arr[k].length <= Blocks
                      /\ k + arr[k].length # Blocks => k + arr[k].length \in H
      /\ Blocks \in Nat
  BY <1>1, SegmentEnds, AllocatorAssumption
<1>3. Backs(arr, H, i)
  BY <1>1, <1>2 DEF Backs
<1>4. CASE next < Blocks /\ ~arr[next].occupied
  <2>1. new = Absorb(arr, i, next) /\ next \in H /\ next > i
    BY <1>2, <1>4 DEF JoinedNext
  <2> DEFINE R == H \ {next}
             end == i + new[i].length
  <2>2. /\ new \in Arrays /\ Tiles(new, R) /\ Backs(new, R, i)
        /\ new[i].length = arr[i].length + arr[next].length
        /\ \A k \in Positions : /\ new[k].occupied = arr[k].occupied
                                /\ k # i => new[k].length = arr[k].length
    <3> HIDE DEF new
    <3>1. QED
      BY <1>1, <1>3, <2>1, AbsorbTiles
  <2> HIDE DEF new
  <2>3. end = next + arr[next].length
    BY <1>2, <2>1, <2>2
  <2>4. end < Blocks => arr[end].occupied
    BY <1>1, <1>4, <2>1, <2>3 DEF Dense
  <2>5. i \in R
    BY <1>2, <2>1
  <2>6. QED
    BY <1>4, <2>1, <2>2, <2>4, <2>5 DEF new
<1>5. CASE ~(next < Blocks /\ ~arr[next].occupied)
  <2>1. new = arr
    BY <1>5 DEF JoinedNext
  <2>2. next < Blocks => arr[next].occupied
    BY <1>5
  <2>3. QED
    BY <1>1, <1>3, <2>1, <2>2
<1>6. QED
  BY <1>4, <1>5

\* bfree keeps the array sound and frees the one segment.
LEMMA MergeIs ==
    ASSUME NEW arr, NEW H, Sound(arr, H), NEW i \in H, arr[i].occupied
    PROVE  \E R : Sound(Merge(arr, i), R) /\ Frees(arr, H, Merge(arr, i), R, i)
<1> DEFINE joined == JoinedNext(arr, i)
           back == arr[i].back
           new == Merge(arr, i)
           end == i + joined[i].length
<1>1. arr \in Arrays /\ Tiles(arr, H) /\ Backs(arr, H, Blocks) /\ Dense(arr, H)
  BY DEF Sound
<1>2. /\ \A k \in H : /\ k \in Positions /\ k \in Nat /\ arr[k].length \in Nat \ {0}
                      /\ k + arr[k].length <= Blocks
                      /\ k + arr[k].length # Blocks => k + arr[k].length \in H
      /\ Blocks \in Nat
  BY <1>1, SegmentEnds, AllocatorAssumption
<1>3. PICK S \in SUBSET H :
         /\ joined \in Arrays /\ Tiles(joined, S) /\ Backs(joined, S, i) /\ i \in S
         /\ \A k \in Positions : joined[k].occupied = arr[k].occupied
         /\ \A k \in Positions : k # i => joined[k].length = arr[k].length
         /\ \A k \in H \ S : ~arr[k].occupied /\ k > i
         /\ end < Blocks => arr[end].occupied
  BY JoinedNextIs
<1>4. new = IF i # 0 /\ ~joined[back].occupied
            THEN PointBack(Absorb(joined, back, i), back)
            ELSE PointBack(SetFree(joined, i), i)
  BY DEF Merge, JoinedNext, SetFree
<1>5. \A k \in H : k + arr[k].length = i => k = back
  BY <1>1, <1>2 DEF Backs
<1>6. i # 0 => back \in S /\ back < i /\ back + arr[back].length = i
  <2>1. SUFFICES ASSUME i # 0 PROVE back \in S /\ back < i /\ back + arr[back].length = i
    OBVIOUS
  <2>2. PICK p \in H : p < i /\ p + arr[p].length = i
    BY <1>1, <2>1, Before
  <2>3. p = back
    BY <1>5, <2>2
  <2>4. p \in Nat /\ i \in Nat
    BY <1>2
  <2>5. p \in S
    BY <1>3, <2>2, <2>4
  <2>6. QED
    BY <2>2, <2>3, <2>5
<1> HIDE DEF joined, back, new
<1>7. CASE i # 0 /\ ~joined[back].occupied
  <2> DEFINE got == Absorb(joined, back, i)
             R == S \ {i}
  <2>1. back \in S /\ back \in Positions /\ i = back + joined[back].length /\ back # i
    BY <1>2, <1>3, <1>6, <1>7
  <2>2. /\ got \in Arrays /\ Tiles(got, R) /\ Backs(got, R, back)
        /\ got[back].length = joined[back].length + joined[i].length
        /\ \A k \in Positions : /\ got[k].occupied = joined[k].occupied
                                /\ k # back => got[k].length = joined[k].length
    BY <1>3, <2>1, AbsorbTiles
  <2> HIDE DEF got
  <2>3. new = PointBack(got, back) /\ back \in R
    BY <1>4, <1>7, <2>1 DEF got
  <2>4. /\ new \in Arrays /\ Tiles(new, R) /\ Backs(new, R, Blocks)
        /\ \A k \in Positions : new[k].occupied = got[k].occupied /\ new[k].length = got[k].length
    BY <2>2, <2>3, PointBackIs
  <2>5. \A k \in Positions : /\ new[k].occupied = arr[k].occupied
                             /\ k # back /\ k # i => new[k].length = arr[k].length
    BY <1>3, <2>2, <2>4
  <2>6. R \subseteq H /\ H \subseteq Positions
    BY <1>2
  <2>7. Dense(new, R)
    <3>1. SUFFICES ASSUME NEW k \in R, k + new[k].length < Blocks
                   PROVE  new[k].occupied \/ new[k + new[k].length].occupied
      BY DEF Dense
    <3>2. k + new[k].length \in Positions
      <4>1. k + new[k].length \in R
        BY <2>4, <3>1, SegmentEnds
      <4>2. QED
        BY <2>6, <4>1
    <3>3. CASE k = back
      <4>1. joined[i].length \in Nat /\ joined[back].length \in Nat
        BY <1>3, <2>1, SegmentEnds
      <4>2. k + new[k].length = end
        BY <1>2, <2>1, <2>2, <2>4, <2>6, <3>3, <4>1
      <4>3. QED
        BY <1>3, <2>5, <3>1, <3>2, <4>2
    <3>4. CASE k # back
      <4>1. k \in H /\ k \in Positions /\ k # i /\ new[k].length = arr[k].length
        BY <2>5, <2>6, <3>4
      <4>2. arr[k].occupied \/ arr[k + arr[k].length].occupied
        BY <1>1, <3>1, <4>1 DEF Dense
      <4>3. QED
        BY <2>5, <3>2, <4>1, <4>2
    <3>5. QED
      BY <3>3, <3>4
  <2>8. Frees(arr, H, new, R, i)
    <3>1. SUFFICES ASSUME NEW j \in Positions
                   PROVE  /\ j \in R /\ new[j].occupied <=> j \in H /\ j # i /\ arr[j].occupied
                          /\ j \in R /\ new[j].occupied => new[j].length = arr[j].length
      BY DEF Frees
    <3>2. new[j].occupied = arr[j].occupied
      BY <2>5
    <3>3. j \in H /\ j \notin S => ~arr[j].occupied
      BY <1>3
    <3>4. ~arr[back].occupied
      BY <1>3, <1>7, <2>1
    <3>5. j \in R /\ new[j].occupied => new[j].length = arr[j].length
      BY <2>5, <3>2, <3>4
    <3>6. QED
      BY <2>6, <3>2, <3>3, <3>5
  <2>9. QED
    BY <2>4, <2>7, <2>8 DEF Sound, new
<1>8. CASE ~(i # 0 /\ ~joined[back].occupied)
  <2> DEFINE got == SetFree(joined, i)
  <2>1. i \in Positions
    BY <1>2
  <2>2. /\ got \in Arrays /\ ~got[i].occupied
        /\ \A k \in Positions :
              /\ k # i => got[k].occupied = joined[k].occupied
              /\ got[k].length = joined[k].length /\ got[k].interior = joined[k].interior
              /\ got[k].back = joined[k].back
    BY <1>3, <2>1, SetFreeIs
  <2> HIDE DEF got
  <2>3. new = PointBack(got, i)
    BY <1>4, <1>8 DEF got
  <2>4. Tiles(got, S)
    BY <1>3, <2>2, TilesSame
  <2>5. Backs(got, S, i)
    <3>1. SUFFICES ASSUME NEW k \in S, k # i, k + got[k].length # Blocks
                   PROVE  got[k + got[k].length].back = k
      BY DEF Backs
    <3>2. k \in Positions /\ k + got[k].length \in Positions
      <4>1. k \in Positions /\ k + got[k].length \in S
        BY <1>2, <2>2, <2>4, <3>1, SegmentEnds
      <4>2. QED
        BY <1>2, <4>1
    <3>3. joined[k + joined[k].length].back = k
      BY <1>3, <2>2, <3>1, <3>2 DEF Backs
    <3>4. QED
      BY <2>2, <3>2, <3>3
  <2>6. /\ new \in Arrays /\ Tiles(new, S) /\ Backs(new, S, Blocks)
        /\ \A k \in Positions : new[k].occupied = got[k].occupied /\ new[k].length = got[k].length
    BY <1>3, <2>2, <2>3, <2>4, <2>5, PointBackIs
  <2>7. /\ ~new[i].occupied /\ new[i].length = joined[i].length
        /\ \A k \in Positions : k # i => /\ new[k].occupied = arr[k].occupied
                                         /\ new[k].length = arr[k].length
    BY <1>3, <2>1, <2>2, <2>6
  <2>8. S \subseteq H /\ H \subseteq Positions
    BY <1>2
  <2>9. Dense(new, S)
    <3>1. SUFFICES ASSUME NEW k \in S, k + new[k].length < Blocks
                   PROVE  new[k].occupied \/ new[k + new[k].length].occupied
      BY DEF Dense
    <3>2. k + new[k].length \in Positions
      <4>1. k + new[k].length \in S
        BY <2>6, <3>1, SegmentEnds
      <4>2. QED
        BY <2>8, <4>1
    <3>3. CASE k = i
      <4>1. k + new[k].length = end /\ end # i
        <5>1. new[i].length \in Nat \ {0} /\ i \in Nat
          BY <1>3, <2>6, SegmentEnds
        <5>2. QED
          BY <2>7, <3>3, <5>1
      <4>2. QED
        BY <1>3, <2>7, <3>1, <3>2, <4>1
    <3>4. CASE k # i
      <4>1. k \in H /\ k \in Positions /\ new[k].length = arr[k].length
        BY <2>7, <2>8, <3>4
      <4>2. arr[k].occupied \/ arr[k + arr[k].length].occupied
        BY <1>1, <3>1, <4>1 DEF Dense
      <4>3. CASE k + arr[k].length = i
        <5>1. k = back /\ i # 0 /\ joined[k].occupied
          BY <1>2, <1>5, <1>8, <4>1, <4>3
        <5>2. QED
          BY <1>3, <2>7, <3>4, <4>1, <5>1
      <4>4. CASE k + arr[k].length # i
        BY <2>7, <3>2, <3>4, <4>1, <4>2, <4>4
      <4>5. QED
        BY <4>3, <4>4
    <3>5. QED
      BY <3>3, <3>4
  <2>10. Frees(arr, H, new, S, i)
    <3>1. SUFFICES ASSUME NEW j \in Positions
                   PROVE  /\ j \in S /\ new[j].occupied <=> j \in H /\ j # i /\ arr[j].occupied
                          /\ j \in S /\ new[j].occupied => new[j].length = arr[j].length
      BY DEF Frees
    <3>2. j \in H /\ j \notin S => ~arr[j].occupied
      BY <1>3
    <3>3. QED
      BY <2>7, <2>8, <3>2
  <2>11. QED
    BY <2>6, <2>9, <2>10 DEF Sound, new
<1>9. QED
  BY <1>7, <1>8

-----------------------------------------------------------------------------
(* bmalloc in an array.                                                     *)

\* The segment of length n at i is occupied from now on.
Takes(arr, H, new, R, i, n) ==
    \A j \in Positions :
        /\ j \in R /\ new[j].occupied <=> j = i \/ (j \in H /\ arr[j].occupied)
        /\ j \in R /\ new[j].occupied => new[j].length = IF j = i THEN n ELSE arr[j].length

\* What Carve does, entry by entry.
LEMMA CarveEntries ==
    ASSUME NEW arr \in Arrays, NEW i \in Positions, NEW n \in Nat \ {0},
           n <= arr[i].length, i + arr[i].length <= Blocks
    PROVE  LET len == arr[i].length
               end == i + len
               new == Carve(arr, i, n)
           IN /\ new \in Arrays
              /\ new[i].length = n /\ new[i].occupied
              /\ new[i].interior = arr[i].interior /\ new[i].back = arr[i].back
              /\ len > n => /\ i + n \in Positions
                            /\ new[i + n].length = len - n /\ ~new[i + n].occupied
                            /\ ~new[i + n].interior /\ new[i + n].back = i
              /\ \A k \in Positions : k # i /\ (len > n => k # i + n) =>
                    /\ new[k].length = arr[k].length /\ new[k].interior = arr[k].interior
                    /\ new[k].occupied = arr[k].occupied
                    /\ new[k].back = IF k = end THEN IF len > n THEN i + n ELSE i
                                     ELSE arr[k].back
<1> DEFINE len == arr[i].length
           end == i + len
           a == [arr[i] EXCEPT !.length = n, !.occupied = TRUE]
           r == Segment(len - n, i, FALSE, FALSE)
           m == IF len > n THEN i + n ELSE i
           e == [arr[end] EXCEPT !.back = m]
           new == Carve(arr, i, n)
<1>1. /\ len \in 0 .. Blocks /\ len \in Nat /\ i \in Nat /\ n \in Nat \ {0}
      /\ Blocks \in Nat \ {0} /\ i < Blocks /\ n <= len /\ end <= Blocks
  BY EntryType
<1>2. arr[i] \in Entries
  BY DEF Arrays
<1>3. n \in 0 .. Blocks /\ len - n \in 0 .. Blocks /\ i \in Positions
  BY <1>1
<1>4. m \in Positions /\ (len > n => i + n \in Positions)
  BY <1>1 DEF Positions
<1> HIDE DEF m, len
<1>5. /\ a \in Entries /\ a.length = n /\ a.occupied = TRUE
      /\ a.interior = arr[i].interior /\ a.back = arr[i].back
  BY <1>2, <1>3 DEF Entries
<1>6. len > n => /\ r \in Entries /\ r.length = len - n /\ r.occupied = FALSE
                 /\ r.interior = FALSE /\ r.back = i
  BY <1>3 DEF Entries, Segment
<1>7. end \in Positions =>
        /\ e \in Entries /\ e.length = arr[end].length
        /\ e.interior = arr[end].interior /\ e.occupied = arr[end].occupied /\ e.back = m
  <2>1. SUFFICES ASSUME end \in Positions
                 PROVE  /\ e \in Entries /\ e.length = arr[end].length
                        /\ e.interior = arr[end].interior /\ e.occupied = arr[end].occupied
                        /\ e.back = m
    OBVIOUS
  <2>2. arr[end] \in Entries
    BY <2>1 DEF Arrays
  <2> HIDE DEF end
  <2>3. QED
    BY <1>4, <2>2 DEF Entries
<1>8. new = [j \in Positions |-> IF j = i THEN a
                                 ELSE IF len > n /\ j = i + n THEN r
                                 ELSE IF j = end THEN e
                                 ELSE arr[j]]
  BY DEF Carve, len, m
<1> HIDE DEF a, r, e, new
<1>9. new \in Arrays
  <2>1. ASSUME NEW j \in Positions PROVE new[j] \in Entries
    <3>1. arr[j] \in Entries
      BY DEF Arrays
    <3>2. QED
      BY <1>5, <1>6, <1>7, <1>8, <3>1
  <2>2. new = [j \in Positions |-> new[j]]
    BY <1>8
  <2>3. QED
    BY <2>1, <2>2 DEF Arrays
<1>10. /\ new[i].length = n /\ new[i].occupied
       /\ new[i].interior = arr[i].interior /\ new[i].back = arr[i].back
  BY <1>5, <1>8
<1>11. len > n => /\ i + n \in Positions
                  /\ new[i + n].length = len - n /\ ~new[i + n].occupied
                  /\ ~new[i + n].interior /\ new[i + n].back = i
  <2>1. SUFFICES ASSUME len > n
                 PROVE  /\ i + n \in Positions
                        /\ new[i + n].length = len - n /\ ~new[i + n].occupied
                        /\ ~new[i + n].interior /\ new[i + n].back = i
    OBVIOUS
  <2>2. new[i + n] = r
    BY <1>1, <1>4, <1>8, <2>1
  <2>3. QED
    BY <1>4, <1>6, <2>1, <2>2
<1>12. ASSUME NEW k \in Positions, k # i, len > n => k # i + n
       PROVE  /\ new[k].length = arr[k].length /\ new[k].interior = arr[k].interior
              /\ new[k].occupied = arr[k].occupied
              /\ new[k].back = IF k = end THEN m ELSE arr[k].back
  <2>1. CASE k = end
    <3>1. new[k] = e
      BY <1>8, <1>12, <2>1
    <3>2. QED
      BY <1>7, <2>1, <3>1
  <2>2. CASE k # end
    <3>1. new[k] = arr[k]
      BY <1>8, <1>12, <2>2
    <3>2. QED
      BY <2>2, <3>1
  <2>3. QED
    BY <2>1, <2>2
<1>13. QED
  BY <1>9, <1>10, <1>11, <1>12 DEF new, m, len

\* bmalloc keeps the array sound and takes the n blocks at i.
LEMMA CarveIs ==
    ASSUME NEW arr, NEW H, Sound(arr, H), NEW i \in H, ~arr[i].occupied,
           NEW n \in Nat \ {0}, n <= arr[i].length
    PROVE  \E R : Sound(Carve(arr, i, n), R) /\ Takes(arr, H, Carve(arr, i, n), R, i, n)
<1> DEFINE len == arr[i].length
           end == i + len
           rest == i + n
           new == Carve(arr, i, n)
           R == IF len > n THEN H \union {rest} ELSE H
<1>1. arr \in Arrays /\ Tiles(arr, H) /\ Backs(arr, H, Blocks) /\ Dense(arr, H)
  BY DEF Sound
<1>2. /\ \A k \in H : /\ k \in Positions /\ k \in Nat /\ arr[k].length \in Nat \ {0}
                      /\ k + arr[k].length <= Blocks
                      /\ k + arr[k].length # Blocks => k + arr[k].length \in H
      /\ Blocks \in Nat
  BY <1>1, SegmentEnds, AllocatorAssumption
<1>3. /\ H \subseteq Positions /\ 0 \in H
      /\ \A k \in H : ~arr[k].interior /\ \A l \in H : k < l => k + arr[k].length <= l
  BY <1>1 DEF Tiles
<1>4. /\ i \in Nat /\ len \in Nat \ {0} /\ rest \in Nat /\ end \in Nat /\ i < rest
      /\ n <= len /\ rest <= end /\ end <= Blocks /\ i \in Positions
      /\ len > n <=> rest < end
  BY <1>2
<1>5. /\ new \in Arrays
      /\ new[i].length = n /\ new[i].occupied
      /\ new[i].interior = arr[i].interior /\ new[i].back = arr[i].back
      /\ len > n => /\ rest \in Positions
                    /\ new[rest].length = len - n /\ ~new[rest].occupied
                    /\ ~new[rest].interior /\ new[rest].back = i
      /\ \A k \in Positions : k # i /\ (len > n => k # rest) =>
            /\ new[k].length = arr[k].length /\ new[k].interior = arr[k].interior
            /\ new[k].occupied = arr[k].occupied
            /\ new[k].back = IF k = end THEN IF len > n THEN rest ELSE i ELSE arr[k].back
  BY <1>1, <1>4, CarveEntries
<1> HIDE DEF new
<1>6. \A k \in H : k <= i \/ end <= k
  BY <1>2, <1>3, <1>4
<1>7. len > n => rest \notin H
  BY <1>2, <1>4, <1>6
<1>8. \A k \in H : k # i => /\ new[k].length = arr[k].length /\ ~new[k].interior
                            /\ new[k].occupied = arr[k].occupied
  BY <1>3, <1>5, <1>7
<1>9. \A k \in H : k # i => k + arr[k].length <= i \/ end <= k
  BY <1>2, <1>3, <1>4, <1>6
<1>10. len > n => rest + new[rest].length = end
  BY <1>4, <1>5
<1>11. len = n => i + new[i].length = end
  BY <1>4, <1>5
<1>12. len > n => i + new[i].length = rest
  BY <1>4, <1>5
<1>13. len > n \/ len = n
  BY <1>4
<1>14. end \in H \union {Blocks}
  BY <1>2
<1>15. Tiles(new, R)
  <2>1. R \subseteq Positions /\ 0 \in R
    BY <1>3, <1>5
  <2>2. ASSUME NEW k \in R
        PROVE  /\ new[k].length > 0 /\ ~new[k].interior
               /\ k + new[k].length \in R \union {Blocks}
               /\ \A l \in R : k < l => k + new[k].length <= l
    <3>1. CASE k = i
      <4>1. new[k].length > 0 /\ ~new[k].interior
        BY <1>3, <1>5, <3>1
      <4>2. k + new[k].length \in R \union {Blocks}
        BY <1>11, <1>12, <1>13, <1>14, <3>1
      <4>3. ASSUME NEW l \in R, k < l PROVE k + new[k].length <= l
        <5>1. l = rest \/ end <= l
          BY <1>2, <1>4, <1>6, <3>1, <4>3
        <5>2. l \in Nat
          BY <1>2, <1>4
        <5>3. QED
          BY <1>4, <1>11, <1>12, <1>13, <3>1, <5>1, <5>2
      <4>4. QED
        BY <4>1, <4>2, <4>3
    <3>2. CASE k # i /\ k \in H
      <4>1. new[k].length = arr[k].length /\ ~new[k].interior /\ arr[k].length > 0
        BY <1>2, <1>8, <3>2
      <4>2. k + arr[k].length \in R \union {Blocks}
        BY <1>2, <3>2
      <4>3. ASSUME NEW l \in R, k < l PROVE k + arr[k].length <= l
        <5>1. CASE l \in H
          BY <1>3, <3>2, <4>3, <5>1
        <5>2. CASE l = rest
          <6>1. k + arr[k].length <= i
            BY <1>2, <1>4, <1>9, <3>2, <4>3, <5>2
          <6>2. QED
            BY <1>2, <1>4, <3>2, <5>2, <6>1
        <5>3. QED
          BY <5>1, <5>2
      <4>4. QED
        BY <4>1, <4>2, <4>3
    <3>3. CASE len > n /\ k = rest
      <4>1. new[k].length > 0 /\ ~new[k].interior
        BY <1>4, <1>5, <3>3
      <4>2. k + new[k].length \in R \union {Blocks}
        BY <1>10, <1>14, <3>3
      <4>3. ASSUME NEW l \in R, k < l PROVE k + new[k].length <= l
        <5>1. l \in H
          BY <1>4, <3>3, <4>3
        <5>2. QED
          BY <1>2, <1>4, <1>6, <1>10, <3>3, <4>3, <5>1
      <4>4. QED
        BY <4>1, <4>2, <4>3
    <3>4. QED
      BY <3>1, <3>2, <3>3
  <2> HIDE DEF R
  <2>3. QED
    BY <2>1, <2>2 DEF Tiles
<1>16. Backs(new, R, Blocks)
  <2>1. SUFFICES ASSUME NEW k \in R, k + new[k].length # Blocks
                 PROVE  new[k + new[k].length].back = k
    BY DEF Backs
  <2>2. CASE k = i /\ len > n
    BY <1>5, <1>12, <2>2
  <2>3. CASE k = i /\ len = n
    <3>1. k + new[k].length = end /\ end \in H /\ end # i
      BY <1>4, <1>11, <1>14, <2>1, <2>3
    <3>2. QED
      BY <1>3, <1>4, <1>5, <2>3, <3>1
  <2>4. CASE len > n /\ k = rest
    <3>1. k + new[k].length = end /\ end \in H /\ end # i /\ end # rest
      BY <1>4, <1>10, <1>14, <2>1, <2>4
    <3>2. QED
      BY <1>3, <1>5, <2>4, <3>1
  <2>5. CASE k # i /\ k \in H
    <3> DEFINE p == k + arr[k].length
    <3>1. k + new[k].length = p /\ p \in H /\ p # Blocks
      BY <1>2, <1>8, <2>1, <2>5
    <3>2. arr[p].back = k
      BY <1>1, <1>2, <2>5, <3>1 DEF Backs
    <3>3. p # end
      BY <1>2, <1>4, <1>9, <2>5
    <3>4. CASE p = i
      BY <1>5, <3>1, <3>2, <3>4
    <3>5. CASE p # i
      <4>1. p \in Positions /\ (len > n => p # rest)
        BY <1>3, <1>7, <3>1
      <4> HIDE DEF p
      <4>2. QED
        BY <1>5, <3>1, <3>2, <3>3, <3>5, <4>1
    <3>6. QED
      BY <3>4, <3>5
  <2>6. QED
    BY <1>13, <2>2, <2>3, <2>4, <2>5
<1>17. Dense(new, R)
  <2>1. SUFFICES ASSUME NEW k \in R, k + new[k].length < Blocks
                 PROVE  new[k].occupied \/ new[k + new[k].length].occupied
    BY DEF Dense
  <2>2. CASE k = i
    BY <1>5, <2>2
  <2>3. CASE len > n /\ k = rest
    <3>1. k + new[k].length = end /\ end \in H /\ end # i /\ end < Blocks
      BY <1>4, <1>10, <1>14, <2>1, <2>3
    <3>2. arr[end].occupied
      BY <1>1, <3>1 DEF Dense
    <3>3. QED
      BY <1>8, <3>1, <3>2
  <2>4. CASE k # i /\ k \in H
    <3> DEFINE p == k + arr[k].length
    <3>1. k + new[k].length = p /\ p \in H /\ p < Blocks /\ new[k].occupied = arr[k].occupied
      <4>1. new[k].length = arr[k].length /\ new[k].occupied = arr[k].occupied
        BY <1>8, <2>4
      <4>2. p < Blocks
        BY <2>1, <4>1
      <4>3. p # Blocks
        BY <1>2, <4>2
      <4>4. QED
        BY <1>2, <2>4, <4>1, <4>2, <4>3
    <3>2. arr[k].occupied \/ arr[p].occupied
      BY <1>1, <2>4, <3>1 DEF Dense
    <3>3. p = i \/ new[p].occupied = arr[p].occupied
      BY <1>8, <3>1
    <3> HIDE DEF p
    <3>4. QED
      BY <1>5, <3>1, <3>2, <3>3
  <2>5. QED
    BY <2>2, <2>3, <2>4
<1>18. Takes(arr, H, new, R, i, n)
  <2>1. SUFFICES ASSUME NEW j \in Positions
                 PROVE  /\ j \in R /\ new[j].occupied <=> j = i \/ (j \in H /\ arr[j].occupied)
                        /\ j \in R /\ new[j].occupied =>
                              new[j].length = IF j = i THEN n ELSE arr[j].length
    BY DEF Takes
  <2>2. CASE j = i
    BY <1>5, <2>2
  <2>3. CASE len > n /\ j = rest
    BY <1>4, <1>5, <1>7, <2>3
  <2>4. CASE j # i /\ j \in H
    BY <1>8, <2>4
  <2>5. QED
    BY <2>2, <2>3, <2>4
<1> HIDE DEF R
<1>19. QED
  BY <1>5, <1>15, <1>16, <1>17, <1>18 DEF Sound, new

-----------------------------------------------------------------------------
(* Sound arrays, with the set H left out.                                   *)

\* An arena's array as the allocator keeps it.
SoundArray(arr) == Sound(arr, Heads(arr))

\* What the array of the arena at b says is held.
InArena(b, arr, h) ==
    \E i \in Heads(arr) : arr[i].occupied /\ h = [at |-> b + i, size |-> arr[i].length]

\* The array has a segment in use.
Used(arr) == \E i \in Heads(arr) : arr[i].occupied

\* Whatever the tiling is, the loop of bmalloc visits it.
LEMMA SoundIs ==
    ASSUME NEW arr, NEW H, Sound(arr, H)
    PROVE  SoundArray(arr) /\ Heads(arr) = H
<1>1. Heads(arr) = H
  BY HeadsAre DEF Sound
<1>2. QED
  BY <1>1 DEF SoundArray

\* The segments of a sound array, as numbers.
LEMMA HeadType ==
    ASSUME NEW arr, SoundArray(arr), NEW i \in Heads(arr)
    PROVE  /\ arr \in Arrays
           /\ i \in Positions /\ i \in Nat /\ arr[i].length \in Nat \ {0}
           /\ i + arr[i].length <= Blocks /\ Blocks \in Nat \ {0}
           /\ i + arr[i].length # Blocks => i + arr[i].length \in Heads(arr)
           /\ ~arr[i].interior
           /\ \A j \in Heads(arr) : i < j => i + arr[i].length <= j
           /\ 0 \in Heads(arr)
<1>1. arr \in Arrays /\ Tiles(arr, Heads(arr))
  BY DEF SoundArray, Sound
<1>2. Blocks \in Nat \ {0}
  BY AllocatorAssumption
<1>3. /\ ~arr[i].interior /\ 0 \in Heads(arr)
      /\ \A j \in Heads(arr) : i < j => i + arr[i].length <= j
  BY <1>1 DEF Tiles
<1>4. QED
  BY <1>1, <1>2, <1>3, SegmentEnds

\* bmalloc in an arena: one allocation more.
LEMMA TakeIs ==
    ASSUME NEW arr, SoundArray(arr), NEW n \in Nat \ {0}, NEW i \in Fits(arr, n)
    PROVE  LET new == Carve(arr, i, n)
           IN /\ SoundArray(new) /\ i \in Positions
              /\ \A b \in Nat : \A h :
                    InArena(b, new, h) <=> InArena(b, arr, h) \/ h = [at |-> b + i, size |-> n]
              /\ Used(new)
<1> DEFINE H == Heads(arr)
           new == Carve(arr, i, n)
<1>1. i \in H /\ ~arr[i].occupied /\ n <= arr[i].length /\ Sound(arr, H)
  <2>1. i \in H /\ ~arr[i].occupied /\ arr[i].length >= n
    BY DEF Fits
  <2>2. arr[i].length \in Nat
    BY <2>1, HeadType
  <2>3. QED
    BY <2>1, <2>2 DEF SoundArray
<1>2. H \subseteq Positions
  BY <1>1 DEF Sound, Tiles
<1> HIDE DEF H
<1>3. PICK R : Sound(new, R) /\ Takes(arr, H, new, R, i, n)
  BY <1>1, CarveIs
<1>4. SoundArray(new) /\ Heads(new) = R
  BY <1>3, SoundIs
<1>5. R \subseteq Positions
  BY <1>3 DEF Sound, Tiles
<1>6. /\ \A j \in Positions :
             /\ j \in R /\ new[j].occupied <=> j = i \/ (j \in H /\ arr[j].occupied)
             /\ j \in R /\ new[j].occupied => new[j].length = IF j = i THEN n ELSE arr[j].length
  BY <1>3 DEF Takes
<1> HIDE DEF new
<1>7. ASSUME NEW b \in Nat, NEW h
      PROVE  InArena(b, new, h) <=> InArena(b, arr, h) \/ h = [at |-> b + i, size |-> n]
  <2>1. ASSUME InArena(b, new, h)
        PROVE  InArena(b, arr, h) \/ h = [at |-> b + i, size |-> n]
    <3>1. PICK j \in R : new[j].occupied /\ h = [at |-> b + j, size |-> new[j].length]
      BY <1>4, <2>1 DEF InArena
    <3>2. CASE j = i
      BY <1>2, <1>5, <1>6, <3>1, <3>2
    <3>3. CASE j # i
      <4>1. j \in H /\ arr[j].occupied /\ new[j].length = arr[j].length
        BY <1>5, <1>6, <3>1, <3>3
      <4>2. QED
        BY <3>1, <4>1 DEF InArena, H
    <3>4. QED
      BY <3>2, <3>3
  <2>2. ASSUME InArena(b, arr, h) PROVE InArena(b, new, h)
    <3>1. PICK j \in H : arr[j].occupied /\ h = [at |-> b + j, size |-> arr[j].length]
      BY <2>2 DEF InArena, H
    <3>2. j # i /\ j \in Positions
      BY <1>1, <1>2, <3>1
    <3>3. j \in R /\ new[j].occupied /\ new[j].length = arr[j].length
      BY <1>6, <3>1, <3>2
    <3>4. QED
      BY <1>4, <3>1, <3>3 DEF InArena
  <2>3. ASSUME h = [at |-> b + i, size |-> n] PROVE InArena(b, new, h)
    <3>1. i \in R /\ new[i].occupied /\ new[i].length = n
      BY <1>1, <1>2, <1>6
    <3>2. QED
      BY <1>4, <2>3, <3>1 DEF InArena
  <2>4. QED
    BY <2>1, <2>2, <2>3
<1>8. Used(new)
  <2>1. i \in R /\ new[i].occupied
    BY <1>1, <1>2, <1>6
  <2>2. QED
    BY <1>4, <2>1 DEF Used
<1>9. QED
  BY <1>1, <1>2, <1>4, <1>7, <1>8 DEF new

\* bfree in an arena: one allocation less.
LEMMA ReleaseIs ==
    ASSUME NEW arr, SoundArray(arr), NEW i \in Heads(arr), arr[i].occupied
    PROVE  LET new == Merge(arr, i)
           IN /\ SoundArray(new)
              /\ \A b \in Nat : \A h :
                    InArena(b, new, h) <=>
                       InArena(b, arr, h) /\ h # [at |-> b + i, size |-> arr[i].length]
<1> DEFINE H == Heads(arr)
           new == Merge(arr, i)
<1>1. i \in H /\ Sound(arr, H)
  BY DEF SoundArray
<1>2. H \subseteq Positions /\ Positions \subseteq Nat
  BY <1>1 DEF Sound, Tiles, Positions
<1> HIDE DEF H
<1>3. PICK R : Sound(new, R) /\ Frees(arr, H, new, R, i)
  BY <1>1, MergeIs
<1>4. SoundArray(new) /\ Heads(new) = R
  BY <1>3, SoundIs
<1>5. R \subseteq Positions
  BY <1>3 DEF Sound, Tiles
<1>6. \A j \in Positions :
          /\ j \in R /\ new[j].occupied <=> j \in H /\ j # i /\ arr[j].occupied
          /\ j \in R /\ new[j].occupied => new[j].length = arr[j].length
  BY <1>3 DEF Frees
<1> HIDE DEF new
<1>7. ASSUME NEW b \in Nat, NEW h
      PROVE  InArena(b, new, h) <=>
                InArena(b, arr, h) /\ h # [at |-> b + i, size |-> arr[i].length]
  <2>1. ASSUME NEW j \in R, new[j].occupied, h = [at |-> b + j, size |-> new[j].length]
        PROVE  InArena(b, arr, h) /\ h # [at |-> b + i, size |-> arr[i].length]
    <3>1. j \in H /\ j # i /\ arr[j].occupied /\ new[j].length = arr[j].length
      BY <1>5, <1>6, <2>1
    <3>2. i \in Nat /\ j \in Nat
      BY <1>1, <1>2, <3>1
    <3>3. b + j # b + i
      BY <3>1, <3>2
    <3>4. h.at = b + j
      BY <2>1
    <3>5. QED
      BY <2>1, <3>1, <3>3, <3>4 DEF InArena, H
  <2>2. ASSUME NEW j \in H, arr[j].occupied, h = [at |-> b + j, size |-> arr[j].length],
               h # [at |-> b + i, size |-> arr[i].length]
        PROVE  InArena(b, new, h)
    <3>1. j # i /\ j \in Positions
      BY <1>2, <2>2
    <3>2. j \in R /\ new[j].occupied /\ new[j].length = arr[j].length
      BY <1>6, <2>2, <3>1
    <3>3. QED
      BY <1>4, <2>2, <3>2 DEF InArena
  <2>3. QED
    <3>1. InArena(b, new, h) =>
             \E j \in R : new[j].occupied /\ h = [at |-> b + j, size |-> new[j].length]
      BY <1>4 DEF InArena
    <3>2. InArena(b, arr, h) =>
             \E j \in H : arr[j].occupied /\ h = [at |-> b + j, size |-> arr[j].length]
      BY DEF InArena, H
    <3>3. QED
      BY <2>1, <2>2, <3>1, <3>2
<1>8. QED
  BY <1>4, <1>7 DEF new

\* A mapping that is new is one free segment.
LEMMA FreshIs ==
    /\ SoundArray(Fresh)
    /\ \A b, h : ~InArena(b, Fresh, h)
    /\ \A n \in 1 .. Blocks : 0 \in Fits(Fresh, n)
<1> DEFINE whole == Segment(Blocks, 0, FALSE, FALSE)
           inner == Segment(0, 0, FALSE, TRUE)
           arr == Fresh
<1>1. Blocks \in Nat \ {0} /\ 0 \in Positions
  BY AllocatorAssumption DEF Positions
<1>2. 0 \in 0 .. Blocks /\ Blocks \in 0 .. Blocks
  BY <1>1
<1>3. /\ whole \in Entries /\ whole.length = Blocks /\ whole.back = 0
      /\ whole.occupied = FALSE /\ whole.interior = FALSE
  BY <1>1, <1>2 DEF Entries, Segment
<1>4. inner \in Entries
  BY <1>1, <1>2 DEF Entries, Segment
<1>5. arr = [i \in Positions |-> IF i = 0 THEN whole ELSE inner]
  BY DEF Fresh
<1> HIDE DEF whole, inner, arr
<1>6. arr \in Arrays /\ arr[0] = whole
  BY <1>1, <1>3, <1>4, <1>5 DEF Arrays
<1>7. arr[0].length = Blocks /\ ~arr[0].occupied /\ ~arr[0].interior
  BY <1>3, <1>6
<1>8. Tiles(arr, {0})
  <2>1. 0 + arr[0].length = Blocks /\ arr[0].length > 0
    BY <1>1, <1>7
  <2>2. QED
    BY <1>1, <1>7, <2>1 DEF Tiles
<1>9. Backs(arr, {0}, Blocks) /\ Dense(arr, {0})
  <2>1. 0 + arr[0].length = Blocks
    BY <1>1, <1>7
  <2>2. QED
    BY <1>1, <2>1 DEF Backs, Dense
<1>10. SoundArray(arr) /\ Heads(arr) = {0}
  BY <1>6, <1>8, <1>9, SoundIs DEF Sound
<1>11. \A b, h : ~InArena(b, arr, h)
  BY <1>7, <1>10 DEF InArena
<1>12. \A n \in 1 .. Blocks : 0 \in Fits(arr, n)
  BY <1>1, <1>7, <1>10 DEF Fits
<1>13. QED
  BY <1>10, <1>11, <1>12 DEF arr

\* bfree tells from the first segment whether the whole arena is free.
LEMMA EmptyIs ==
    ASSUME NEW arr, SoundArray(arr)
    PROVE  ~arr[0].occupied /\ arr[0].length = Blocks <=> ~Used(arr)
<1> DEFINE H == Heads(arr)
<1>1. Sound(arr, H) /\ 0 \in H
  BY DEF SoundArray, Sound, Tiles
<1>2. \A k \in H : /\ k \in Nat /\ arr[k].length \in Nat \ {0}
                   /\ k + arr[k].length <= Blocks /\ Blocks \in Nat \ {0}
                   /\ k + arr[k].length # Blocks => k + arr[k].length \in H
                   /\ \A j \in H : k < j => k + arr[k].length <= j
  BY HeadType
<1>3. ASSUME arr[0].length = Blocks, NEW i \in H PROVE i = 0
  <2>1. SUFFICES ASSUME 0 < i PROVE FALSE
    BY <1>2
  <2>2. 0 + arr[0].length <= i
    BY <1>1, <1>2, <2>1
  <2>3. i + arr[i].length <= Blocks /\ arr[i].length > 0
    BY <1>2
  <2>4. QED
    BY <1>2, <1>3, <2>2, <2>3
<1>4. ASSUME ~Used(arr) PROVE ~arr[0].occupied /\ arr[0].length = Blocks
  <2>1. \A i \in H : ~arr[i].occupied
    BY <1>4 DEF Used
  <2>2. SUFFICES ASSUME arr[0].length # Blocks PROVE FALSE
    BY <1>1, <2>1
  <2>3. 0 + arr[0].length \in H /\ 0 + arr[0].length < Blocks
    BY <1>1, <1>2, <2>2
  <2>4. QED
    BY <1>1, <2>1, <2>3 DEF Sound, Dense
<1>5. QED
  BY <1>3, <1>4 DEF Used

\* Where nothing fits, every n blocks in a row meet a segment in use.
LEMMA FullIs ==
    ASSUME NEW arr, SoundArray(arr), NEW n \in 1 .. Blocks, Fits(arr, n) = {},
           NEW q \in 0 .. Blocks - n
    PROVE  \E i \in Heads(arr) : /\ arr[i].occupied
                                 /\ i < q + n /\ q < i + arr[i].length
<1> DEFINE H == Heads(arr)
           S == {i \in H : i <= q}
<1>1. Sound(arr, H) /\ 0 \in H
  BY DEF SoundArray, Sound, Tiles
<1>2. \A k \in H : /\ k \in Nat /\ arr[k].length \in Nat \ {0}
                   /\ k + arr[k].length <= Blocks /\ ~arr[k].interior
                   /\ k + arr[k].length # Blocks => k + arr[k].length \in H
  BY HeadType
<1>3. n \in Nat \ {0} /\ q \in Nat /\ q + n <= Blocks /\ Blocks \in Nat \ {0}
  BY AllocatorAssumption
<1>4. \A k \in H : arr[k].occupied \/ arr[k].length < n
  <2>1. \A k \in H : ~(~arr[k].interior /\ ~arr[k].occupied /\ arr[k].length >= n)
    BY DEF Fits
  <2>2. QED
    BY <1>2, <1>3, <2>1
<1> HIDE DEF H
<1>5. PICK i \in S : \A j \in S : j <= i
  <2>1. S \subseteq 0 .. q /\ 0 \in S
    BY <1>1, <1>2, <1>3
  <2> HIDE DEF S
  <2>2. QED
    BY <1>3, <2>1, Greatest
<1>6. i \in H /\ i <= q
  OBVIOUS
<1> DEFINE next == i + arr[i].length
<1>7. q < next
  <2>1. SUFFICES ASSUME next <= q PROVE FALSE
    BY <1>2, <1>3, <1>6
  <2>2. next \in H
    BY <1>2, <1>3, <1>6, <2>1
  <2>3. next \in S
    BY <2>1, <2>2
  <2>4. QED
    BY <1>2, <1>5, <1>6, <2>3
<1>8. CASE arr[i].occupied
  <2>1. i < q + n
    BY <1>2, <1>3, <1>6
  <2>2. QED
    BY <1>6, <1>7, <1>8, <2>1 DEF H
<1>9. CASE ~arr[i].occupied
  <2>1. next < q + n /\ next < Blocks /\ next \in H
    BY <1>2, <1>3, <1>4, <1>6, <1>9
  <2>2. arr[next].occupied
    BY <1>1, <1>6, <1>9, <2>1 DEF Sound, Dense
  <2>3. q < next + arr[next].length
    <3>1. arr[next].length \in Nat /\ next \in Nat
      BY <1>2, <2>1
    <3>2. QED
      BY <1>3, <1>7, <3>1
  <2>4. QED
    BY <2>1, <2>2, <2>3 DEF H
<1>10. QED
  BY <1>8, <1>9

\* bmalloc takes the last segment that fits.
LEMMA MaxIs ==
    ASSUME NEW arr, SoundArray(arr), NEW n, Fits(arr, n) # {}
    PROVE  Max(Fits(arr, n)) \in Fits(arr, n)
<1> DEFINE S == Fits(arr, n)
<1>1. S \subseteq 0 .. Blocks /\ Blocks \in Nat
  <2>1. Positions \subseteq 0 .. Blocks /\ Blocks \in Nat
    BY AllocatorAssumption DEF Positions
  <2>2. S \subseteq Positions
    BY DEF Fits, Heads
  <2>3. QED
    BY <2>1, <2>2
<1> HIDE DEF S
<1>2. \E x \in S : \A y \in S : y <= x
  BY <1>1, Greatest DEF S
<1>3. \E x \in S : \A y \in S : x >= y
  BY <1>1, <1>2
<1>4. Max(S) \in S
  BY <1>3 DEF Max
<1>5. QED
  BY <1>4 DEF S

-----------------------------------------------------------------------------
(* Addresses, and the list of arenas.                                       *)

\* Two runs of blocks do not overlap.
Apart(a, m, b, n) == a + m <= b \/ b + n <= a

LEMMA ApartIs ==
    ASSUME NEW a \in Nat, NEW m \in Nat \ {0}, NEW b \in Nat, NEW n \in Nat \ {0}
    PROVE  Apart(a, m, b, n) <=> (a .. a + m - 1) \intersect (b .. b + n - 1) = {}
<1>1. ASSUME Apart(a, m, b, n), NEW x \in (a .. a + m - 1) \intersect (b .. b + n - 1)
      PROVE  FALSE
  <2>1. x \in Int /\ a <= x /\ x <= a + m - 1 /\ b <= x /\ x <= b + n - 1
    OBVIOUS
  <2>2. QED
    BY <1>1, <2>1 DEF Apart
<1>2. ASSUME ~Apart(a, m, b, n)
      PROVE  a \in b .. b + n - 1 \/ b \in a .. a + m - 1
  BY <1>2 DEF Apart
<1>3. a \in a .. a + m - 1 /\ b \in b .. b + n - 1
  OBVIOUS
<1>4. QED
  BY <1>1, <1>2, <1>3

\* The arenas of the list, and that they lie one after the other.
Listed(as) == {as[k] : k \in DOMAIN as}
InOrder(as) == \A k, l \in DOMAIN as : k < l => as[k] + Blocks <= as[l]

\* The list of arenas, as numbers.
LEMMA ListType ==
    ASSUME arenas \in Seq(Bases)
    PROVE  /\ DOMAIN arenas = 1 .. Len(arenas) /\ Len(arenas) \in Nat
           /\ \A k \in DOMAIN arenas : arenas[k] \in Bases /\ arenas[k] \in Nat /\ k \in Nat
           /\ Blocks \in Nat \ {0} /\ Bases \subseteq Nat
<1>1. DOMAIN arenas = 1 .. Len(arenas) /\ Len(arenas) \in Nat
  BY LenProperties
<1>2. \A k \in DOMAIN arenas : arenas[k] \in Bases
  BY <1>1, ElementOfSeq
<1>3. Blocks \in Nat \ {0} /\ Bases \subseteq Nat
  BY AllocatorAssumption
<1>4. \A k \in DOMAIN arenas : k \in Nat
  BY <1>1
<1>5. \A k \in DOMAIN arenas : arenas[k] \in Nat
  BY <1>2, <1>3
<1>6. QED
  BY <1>1, <1>2, <1>3, <1>4, <1>5

\* add_arena keeps the list in order.
LEMMA InsertIs ==
    ASSUME arenas \in Seq(Bases), InOrder(arenas), NEW b \in Bases,
           \A k \in DOMAIN arenas : Apart(b, Blocks, arenas[k], Blocks)
    PROVE  LET new == Insert(b)
           IN /\ new \in Seq(Bases) /\ Len(new) = Len(arenas) + 1
              /\ Listed(new) = Listed(arenas) \union {b}
              /\ InOrder(new)
<1> DEFINE lower == {k \in DOMAIN arenas : \A l \in 1 .. k : arenas[l] <= b}
           new == Insert(b)
<1>1. /\ DOMAIN arenas = 1 .. Len(arenas) /\ Len(arenas) \in Nat /\ Blocks \in Nat \ {0}
      /\ b \in Nat /\ \A k \in DOMAIN arenas : arenas[k] \in Bases /\ arenas[k] \in Nat
  BY ListType
<1>2. \E m \in 0 .. Len(arenas) : lower = 1 .. m
  <2> DEFINE S == lower \union {0}
  <2>1. S \subseteq 0 .. Len(arenas) /\ S # {}
    BY <1>1
  <2>2. PICK m \in S : \A j \in S : j <= m
    <3> HIDE DEF S
    <3>1. QED
      BY <1>1, <2>1, Greatest
  <2>3. m \in 0 .. Len(arenas) /\ \A l \in 1 .. m : arenas[l] <= b
    BY <1>1
  <2>4. ASSUME NEW k \in lower PROVE k \in 1 .. m
    <3>1. k \in S /\ k \in 1 .. Len(arenas)
      BY <1>1
    <3>2. QED
      BY <2>2, <2>3, <3>1
  <2>5. ASSUME NEW k \in 1 .. m PROVE k \in lower
    <3>1. k \in DOMAIN arenas /\ \A l \in 1 .. k : l \in 1 .. m
      BY <1>1, <2>3
    <3>2. QED
      BY <2>3, <3>1
  <2> HIDE DEF lower, S
  <2>6. lower = 1 .. m
    BY <2>4, <2>5
  <2>7. QED
    BY <2>3, <2>6
<1>3. PICK m \in 0 .. Len(arenas) : lower = 1 .. m
  BY <1>2
<1>4. Cardinality(lower) = m
  <2>1. m \in Nat /\ 1 \in Int
    BY <1>1
  <2>2. Cardinality(1 .. m) = m
    BY <2>1, FS_Interval
  <2> HIDE DEF lower
  <2>3. QED
    BY <1>3, <2>2
<1>5. \A k \in 1 .. m : arenas[k] <= b
  <2>1. \A k \in lower : k \in 1 .. k /\ arenas[k] <= b
    BY <1>1
  <2> HIDE DEF lower
  <2>2. QED
    BY <1>3, <2>1
<1>6. m < Len(arenas) => arenas[m + 1] > b
  <2>1. SUFFICES ASSUME m < Len(arenas), ~(arenas[m + 1] > b) PROVE FALSE
    OBVIOUS
  <2>2. m + 1 \in DOMAIN arenas /\ m \in Nat
    BY <1>1, <2>1
  <2>3. \A l \in 1 .. m + 1 : arenas[l] <= b
    <3>1. \A l \in 1 .. m + 1 : l \in 1 .. m \/ l = m + 1
      BY <2>2
    <3>2. arenas[m + 1] <= b
      BY <1>1, <2>1, <2>2
    <3>3. QED
      BY <1>5, <3>1, <3>2
  <2>4. m + 1 \in lower
    BY <2>2, <2>3
  <2>5. m + 1 \notin 1 .. m
    BY <2>2
  <2> HIDE DEF lower
  <2>6. QED
    BY <1>3, <2>4, <2>5
<1>7. new = SubSeq(arenas, 1, m) \o <<b>> \o SubSeq(arenas, m + 1, Len(arenas))
  BY <1>4 DEF Insert
<1> HIDE DEF lower, new
<1>8. /\ new \in Seq(Bases) /\ Len(new) = Len(arenas) + 1
      /\ \A k \in 1 .. Len(arenas) + 1 :
            new[k] = IF k <= m THEN arenas[k] ELSE IF k = m + 1 THEN b ELSE arenas[k - 1]
  <2> DEFINE A == SubSeq(arenas, 1, m)
             C == SubSeq(arenas, m + 1, Len(arenas))
             B == A \o <<b>>
  <2>1. m \in Nat /\ m <= Len(arenas)
    BY <1>1
  <2>2. A \in Seq(Bases) /\ Len(A) = m /\ \A k \in 1 .. m : A[k] = arenas[k]
    BY <1>1, <2>1
  <2>3. C \in Seq(Bases) /\ Len(C) = Len(arenas) - m /\ \A k \in 1 .. Len(arenas) - m : C[k] = arenas[m + k]
    <3>1. \A k \in m + 1 .. Len(arenas) : arenas[k] \in Bases
      BY <1>1, <2>1
    <3>2. m + 1 \in Int /\ Len(arenas) \in Int
      BY <1>1, <2>1
    <3>3. /\ C \in Seq(Bases) /\ Len(C) = IF m + 1 <= Len(arenas) THEN Len(arenas) - (m + 1) + 1 ELSE 0
          /\ \A k \in 1 .. Len(arenas) - (m + 1) + 1 : C[k] = arenas[m + 1 + k - 1]
      BY <3>1, <3>2, SubSeqProperties
    <3> HIDE DEF C
    <3>4. Len(C) = Len(arenas) - m /\ Len(arenas) - (m + 1) + 1 = Len(arenas) - m
      <4>1. \A x, y \in Nat : x <= y => (IF x + 1 <= y THEN y - (x + 1) + 1 ELSE 0) = y - x
        OBVIOUS
      <4>2. \A x, y \in Nat : y - (x + 1) + 1 = y - x
        OBVIOUS
      <4>3. (IF m + 1 <= Len(arenas) THEN Len(arenas) - (m + 1) + 1 ELSE 0) = Len(arenas) - m
        BY <1>1, <2>1, <4>1
      <4>4. Len(C) = Len(arenas) - m
        BY <3>3, <4>3
      <4>5. QED
        BY <1>1, <2>1, <4>2, <4>4
    <3>5. \A k \in 1 .. Len(arenas) - m : m + 1 + k - 1 = m + k
      BY <1>1, <2>1
    <3>6. QED
      BY <3>3, <3>4, <3>5
  <2> HIDE DEF A, C
  <2>4. <<b>> \in Seq(Bases) /\ Len(<<b>>) = 1 /\ <<b>>[1] = b
    OBVIOUS
  <2>5. B \in Seq(Bases) /\ Len(B) = m + 1 /\ B[m + 1] = b /\ \A k \in 1 .. m : B[k] = arenas[k]
    <3>1. /\ B \in Seq(Bases) /\ Len(B) = Len(A) + Len(<<b>>)
          /\ \A k \in 1 .. Len(A) + Len(<<b>>) :
                B[k] = IF k <= Len(A) THEN A[k] ELSE <<b>>[k - Len(A)]
      BY <2>2, <2>4, ConcatProperties
    <3> HIDE DEF B
    <3>2. QED
      BY <2>1, <2>2, <2>4, <3>1
  <2>6. new = B \o C
    BY <1>7 DEF A, C
  <2> HIDE DEF B
  <2>7. /\ new \in Seq(Bases) /\ Len(new) = Len(B) + Len(C)
        /\ \A k \in 1 .. Len(B) + Len(C) :
              new[k] = IF k <= Len(B) THEN B[k] ELSE C[k - Len(B)]
    BY <2>3, <2>5, <2>6, ConcatProperties
  <2>8. ASSUME NEW k \in 1 .. Len(arenas) + 1
        PROVE  new[k] = IF k <= m THEN arenas[k] ELSE IF k = m + 1 THEN b ELSE arenas[k - 1]
    <3>1. CASE k <= m + 1
      <4>1. new[k] = B[k]
        <5>1. Len(B) = m + 1 /\ Len(C) = Len(arenas) - m
          BY <2>3, <2>5
        <5>2. Len(B) + Len(C) = Len(arenas) + 1
          BY <1>1, <2>1, <5>1
        <5>3. k \in 1 .. Len(B) + Len(C) /\ k <= Len(B)
          BY <3>1, <5>1, <5>2
        <5>4. QED
          BY <2>7, <5>3
      <4>2. k \in 1 .. m \/ k = m + 1
        BY <1>1, <2>1, <3>1
      <4>3. QED
        BY <2>1, <2>5, <4>1, <4>2
    <3>2. CASE k > m + 1
      <4>1. new[k] = C[k - (m + 1)]
        BY <1>1, <2>1, <2>3, <2>5, <2>7, <3>2
      <4>2. k - (m + 1) \in 1 .. Len(arenas) - m /\ m + (k - (m + 1)) = k - 1
        BY <1>1, <2>1, <3>2
      <4>3. QED
        BY <2>1, <2>3, <3>2, <4>1, <4>2
    <3>3. QED
      BY <1>1, <2>1, <3>1, <3>2
  <2>9. QED
    BY <1>1, <2>1, <2>3, <2>5, <2>7, <2>8
<1>9. DOMAIN new = 1 .. Len(arenas) + 1 /\ m \in Nat /\ m <= Len(arenas)
  BY <1>1, <1>8
<1>10. Listed(new) = Listed(arenas) \union {b}
  <2>1. ASSUME NEW k \in DOMAIN new PROVE new[k] \in Listed(arenas) \union {b}
    <3>1. CASE k <= m
      <4>1. k \in DOMAIN arenas /\ new[k] = arenas[k]
        BY <1>1, <1>8, <1>9, <3>1
      <4>2. QED
        BY <4>1 DEF Listed
    <3>2. CASE k = m + 1
      BY <1>1, <1>8, <1>9, <3>2
    <3>3. CASE k > m + 1
      <4>1. k - 1 \in DOMAIN arenas /\ new[k] = arenas[k - 1]
        BY <1>1, <1>8, <1>9, <3>3
      <4>2. QED
        BY <4>1 DEF Listed
    <3>4. QED
      BY <1>9, <3>1, <3>2, <3>3
  <2>2. ASSUME NEW k \in DOMAIN arenas PROVE arenas[k] \in Listed(new)
    <3>1. CASE k <= m
      <4>1. k \in DOMAIN new /\ new[k] = arenas[k]
        BY <1>1, <1>8, <1>9, <3>1
      <4>2. QED
        BY <4>1 DEF Listed
    <3>2. CASE k > m
      <4>1. k + 1 \in DOMAIN new /\ new[k + 1] = arenas[k]
        <5>1. k + 1 \in 1 .. Len(arenas) + 1 /\ ~(k + 1 <= m) /\ k + 1 # m + 1 /\ (k + 1) - 1 = k
          BY <1>1, <1>9, <3>2
        <5>2. QED
          BY <1>8, <1>9, <5>1
      <4>2. QED
        BY <4>1 DEF Listed
    <3>3. QED
      BY <1>1, <1>9, <3>1, <3>2
  <2>3. b \in Listed(new)
    <3>1. m + 1 \in DOMAIN new /\ new[m + 1] = b
      BY <1>1, <1>8, <1>9
    <3>2. QED
      BY <3>1 DEF Listed
  <2>4. \A x \in Listed(new) : \E k \in DOMAIN new : x = new[k]
    BY DEF Listed
  <2>5. \A x \in Listed(arenas) : \E k \in DOMAIN arenas : x = arenas[k]
    BY DEF Listed
  <2>6. QED
    BY <2>1, <2>2, <2>3, <2>4, <2>5
<1>11. \A k \in DOMAIN arenas : IF k <= m THEN arenas[k] + Blocks <= b
                                ELSE b + Blocks <= arenas[k]
  <2>1. SUFFICES ASSUME NEW k \in DOMAIN arenas
                 PROVE  IF k <= m THEN arenas[k] + Blocks <= b
                        ELSE b + Blocks <= arenas[k]
    OBVIOUS
  <2>2. CASE k <= m
    <3>1. arenas[k] <= b
      BY <1>1, <1>5, <1>9, <2>2
    <3>2. QED
      BY <1>1, <2>2, <3>1 DEF Apart
  <2>3. CASE ~(k <= m)
    <3>1. m < Len(arenas) /\ m + 1 \in DOMAIN arenas /\ (m + 1 = k \/ m + 1 < k)
      BY <1>1, <1>9, <2>3
    <3>2. arenas[m + 1] > b /\ arenas[m + 1] <= arenas[k]
      BY <1>1, <1>6, <3>1 DEF InOrder
    <3>3. ~(arenas[k] + Blocks <= b)
      BY <1>1, <3>1, <3>2
    <3>4. QED
      BY <2>3, <3>3 DEF Apart
  <2>4. QED
    BY <2>2, <2>3
<1>12. InOrder(new)
  <2>1. SUFFICES ASSUME NEW k \in DOMAIN new, NEW l \in DOMAIN new, k < l
                 PROVE  new[k] + Blocks <= new[l]
    BY DEF InOrder
  <2>2. k \in Nat /\ l \in Nat /\ k \in 1 .. Len(arenas) + 1 /\ l \in 1 .. Len(arenas) + 1
    BY <1>1, <1>9
  <2>3. CASE l <= m
    <3>1. k \in DOMAIN arenas /\ l \in DOMAIN arenas /\ new[k] = arenas[k] /\ new[l] = arenas[l]
      BY <1>1, <1>8, <1>9, <2>1, <2>2, <2>3
    <3>2. QED
      BY <2>1, <3>1 DEF InOrder
  <2>4. CASE l = m + 1
    <3>1. k \in DOMAIN arenas /\ k <= m /\ new[k] = arenas[k] /\ new[l] = b
      BY <1>1, <1>8, <1>9, <2>1, <2>2, <2>4
    <3>2. QED
      BY <1>11, <3>1
  <2>5. CASE l > m + 1
    <3>1. l - 1 \in DOMAIN arenas /\ new[l] = arenas[l - 1] /\ ~(l - 1 <= m)
      BY <1>1, <1>8, <1>9, <2>2, <2>5
    <3>2. CASE k <= m
      <4>1. k \in DOMAIN arenas /\ new[k] = arenas[k] /\ k < l - 1
        BY <1>1, <1>8, <1>9, <2>2, <2>5, <3>2
      <4>2. QED
        BY <3>1, <4>1 DEF InOrder
    <3>3. CASE k = m + 1
      <4>1. new[k] = b
        BY <1>1, <1>8, <1>9, <2>2, <3>3
      <4>2. QED
        BY <1>11, <3>1, <4>1
    <3>4. CASE k > m + 1
      <4>1. k - 1 \in DOMAIN arenas /\ new[k] = arenas[k - 1] /\ k - 1 < l - 1
        BY <1>1, <1>8, <1>9, <2>1, <2>2, <3>4
      <4>2. QED
        BY <3>1, <4>1 DEF InOrder
    <3>5. QED
      BY <1>9, <2>2, <3>2, <3>3, <3>4
  <2>6. QED
    BY <1>9, <2>2, <2>3, <2>4, <2>5
<1>13. QED
  BY <1>8, <1>10, <1>12 DEF new

\* An arena that goes away leaves the others in order.
LEMMA RemoveIs ==
    ASSUME arenas \in Seq(Bases), InOrder(arenas), NEW j \in DOMAIN arenas
    PROVE  LET new == RemoveAt(arenas, j)
           IN /\ new \in Seq(Bases) /\ Len(new) = Len(arenas) - 1
              /\ Listed(new) = Listed(arenas) \ {arenas[j]}
              /\ InOrder(new)
<1> DEFINE new == RemoveAt(arenas, j)
           A == SubSeq(arenas, 1, j - 1)
           C == SubSeq(arenas, j + 1, Len(arenas))
           was(k) == IF k < j THEN k ELSE k + 1
<1>1. /\ DOMAIN arenas = 1 .. Len(arenas) /\ Len(arenas) \in Nat /\ Blocks \in Nat \ {0}
      /\ j \in Nat /\ 1 <= j /\ j <= Len(arenas)
      /\ \A k \in DOMAIN arenas : arenas[k] \in Bases /\ arenas[k] \in Nat
  BY ListType
<1>2. new = A \o C
  BY DEF RemoveAt
<1>3. A \in Seq(Bases) /\ Len(A) = j - 1 /\ \A k \in 1 .. j - 1 : A[k] = arenas[k]
  BY <1>1
<1>4. /\ C \in Seq(Bases) /\ Len(C) = Len(arenas) - j
      /\ \A k \in 1 .. Len(arenas) - j : C[k] = arenas[j + k]
  BY <1>1
<1> HIDE DEF new, A, C
<1>5. /\ new \in Seq(Bases) /\ Len(new) = Len(arenas) - 1
      /\ \A k \in 1 .. Len(arenas) - 1 :
            new[k] = IF k <= j - 1 THEN A[k] ELSE C[k - (j - 1)]
  <2>1. /\ new \in Seq(Bases) /\ Len(new) = Len(A) + Len(C)
        /\ \A k \in 1 .. Len(A) + Len(C) :
              new[k] = IF k <= Len(A) THEN A[k] ELSE C[k - Len(A)]
    BY <1>2, <1>3, <1>4, ConcatProperties
  <2>2. Len(A) + Len(C) = Len(arenas) - 1
    BY <1>1, <1>3, <1>4
  <2>3. QED
    BY <1>3, <2>1, <2>2
<1>6. DOMAIN new = 1 .. Len(arenas) - 1
  BY <1>5, LenProperties
<1>7. ASSUME NEW k \in DOMAIN new PROVE was(k) \in DOMAIN arenas /\ new[k] = arenas[was(k)]
  <2>1. CASE k < j
    BY <1>1, <1>3, <1>5, <1>6, <2>1
  <2>2. CASE ~(k < j)
    <3>1. new[k] = C[k - (j - 1)]
      <4>1. k \in 1 .. Len(arenas) - 1 /\ ~(k <= j - 1)
        BY <1>1, <1>6, <2>2
      <4>2. QED
        BY <1>5, <4>1
    <3>2. k - (j - 1) \in 1 .. Len(arenas) - j /\ j + (k - (j - 1)) = k + 1
      BY <1>1, <1>6, <2>2
    <3>3. k + 1 \in DOMAIN arenas
      BY <1>1, <1>6, <2>2
    <3>4. QED
      BY <1>4, <2>2, <3>1, <3>2, <3>3
  <2>3. QED
    BY <2>1, <2>2
<1>8. \A k \in DOMAIN new : was(k) # j
  BY <1>1, <1>6
<1>9. \A k \in DOMAIN new, l \in DOMAIN new : k < l => was(k) < was(l)
  BY <1>1, <1>6
<1>10. ASSUME NEW l \in DOMAIN arenas, l # j PROVE \E k \in DOMAIN new : l = was(k)
  <2>1. CASE l < j
    <3>1. l \in DOMAIN new /\ was(l) = l
      BY <1>1, <1>6, <2>1
    <3>2. QED
      BY <3>1
  <2>2. CASE l > j
    <3>1. l - 1 \in DOMAIN new /\ ~(l - 1 < j) /\ (l - 1) + 1 = l
      BY <1>1, <1>6, <2>2
    <3>2. was(l - 1) = l
      BY <3>1
    <3>3. QED
      BY <3>1, <3>2
  <2>3. QED
    BY <1>1, <1>10, <2>1, <2>2
<1> HIDE DEF was
<1>11. InOrder(new)
  BY <1>7, <1>9 DEF InOrder
<1>12. \A k, l \in DOMAIN arenas : k # l => arenas[k] # arenas[l]
  <2>1. \A k, l \in DOMAIN arenas : k < l => arenas[k] < arenas[l]
    BY <1>1 DEF InOrder
  <2>2. \A k, l \in DOMAIN arenas : k = l \/ k < l \/ l < k
    BY <1>1
  <2>3. QED
    BY <1>1, <2>1, <2>2
<1>13. Listed(new) = Listed(arenas) \ {arenas[j]}
  <2>1. \A k \in DOMAIN new : new[k] \in Listed(arenas) /\ new[k] # arenas[j]
    BY <1>7, <1>8, <1>12 DEF Listed
  <2>2. \A l \in DOMAIN arenas : l # j => \E k \in DOMAIN new : arenas[l] = new[k]
    BY <1>7, <1>10
  <2>3. QED
    BY <2>1, <2>2 DEF Listed
<1>14. QED
  BY <1>5, <1>11, <1>13 DEF new

-----------------------------------------------------------------------------
(* The inductive invariant.                                                 *)

\* What is held: mappings of their own, and segments in use of the arenas.
IsCustom(h) == \E c \in DOMAIN custom : h = [at |-> c, size |-> custom[c]]
IsOwned(h) == IsCustom(h) \/ \E b \in DOMAIN segments : InArena(b, segments[b], h)

\* The tables fit to each other ...
Tables ==
    /\ arenas \in Seq(Bases) /\ InOrder(arenas)
    /\ DOMAIN segments = Listed(arenas)
    /\ segments \in [DOMAIN segments -> Arrays]
    /\ custom \in [DOMAIN custom -> Sizes] /\ DOMAIN custom \subseteq Bases
\* ... the array of every arena is sound ...
Arranged == \A b \in DOMAIN segments : SoundArray(segments[b])
\* ... no mapping overlaps another ...
Separate ==
    /\ \A c, d \in DOMAIN custom : c # d => Apart(c, custom[c], d, custom[d])
    /\ \A c \in DOMAIN custom, b \in DOMAIN segments : Apart(c, custom[c], b, Blocks)
\* ... and an arena that is free is unmapped when there are more than Keep.
Busy == Len(arenas) > Keep => \A b \in DOMAIN segments : Used(segments[b])

HeldTyped == held \subseteq [at : Nat, size : Sizes]

\* What each step of the allocator preserves.
IInv == Tables /\ Arranged /\ Separate /\ Busy /\ HeldTyped /\ HeldIsOccupied

\* What the callers hold, one allocation at a time.
LEMMA HeldIs == HeldIsOccupied <=> \A h : h \in held <=> IsOwned(h)
<1> DEFINE C == {[at |-> b, size |-> custom[b]] : b \in DOMAIN custom}
           used(b) == {j \in Heads(segments[b]) : segments[b][j].occupied}
           S(b) == {[at |-> b + i, size |-> segments[b][i].length] : i \in used(b)}
           T == UNION {S(b) : b \in DOMAIN segments}
<1>1. HeldIsOccupied <=> held = C \union T
  BY DEF HeldIsOccupied
<1>2. \A h : h \in C <=> IsCustom(h)
  BY DEF IsCustom
<1>3. \A b, h : h \in S(b) <=> InArena(b, segments[b], h)
  <2> TAKE b, h
  <2>1. h \in S(b) <=> \E i \in used(b) : h = [at |-> b + i, size |-> segments[b][i].length]
    OBVIOUS
  <2>2. \A i : i \in used(b) <=> i \in Heads(segments[b]) /\ segments[b][i].occupied
    OBVIOUS
  <2> HIDE DEF S, used
  <2>3. QED
    BY <2>1, <2>2 DEF InArena
<1> HIDE DEF S, C
<1>4. \A h : h \in T <=> \E b \in DOMAIN segments : InArena(b, segments[b], h)
  BY <1>3
<1> HIDE DEF T
<1>5. \A h : h \in C \union T <=> IsOwned(h)
  BY <1>2, <1>4 DEF IsOwned
<1>6. QED
  BY <1>1, <1>5

\* The arenas and the mappings, as numbers.
LEMMA Numbers ==
    ASSUME IInv
    PROVE  /\ Blocks \in Nat \ {0}
           /\ \A b \in DOMAIN segments : b \in Bases /\ b \in Nat /\ SoundArray(segments[b])
           /\ \A c \in DOMAIN custom : c \in Bases /\ c \in Nat /\ custom[c] \in Sizes
                                       /\ custom[c] \in Nat \ {0}
           /\ \A b, c \in DOMAIN segments : b # c => Apart(b, Blocks, c, Blocks)
<1>1. arenas \in Seq(Bases) /\ InOrder(arenas) /\ DOMAIN segments = Listed(arenas)
  BY DEF IInv, Tables
<1>2. /\ DOMAIN arenas = 1 .. Len(arenas) /\ Len(arenas) \in Nat
      /\ \A k \in DOMAIN arenas : arenas[k] \in Bases /\ arenas[k] \in Nat /\ k \in Nat
      /\ Blocks \in Nat \ {0} /\ Bases \subseteq Nat
  BY <1>1, ListType
<1>3. \A b \in DOMAIN segments : \E k \in DOMAIN arenas : b = arenas[k]
  BY <1>1 DEF Listed
<1>4. \A b \in DOMAIN segments : b \in Bases /\ b \in Nat /\ SoundArray(segments[b])
  BY <1>2, <1>3 DEF IInv, Arranged
<1>5. \A c \in DOMAIN custom : c \in Bases /\ custom[c] \in Sizes
  BY DEF IInv, Tables
<1>6. \A c \in DOMAIN custom : c \in Nat /\ custom[c] \in Nat \ {0}
  BY <1>2, <1>5, AllocatorAssumption
<1>7. ASSUME NEW b \in DOMAIN segments, NEW c \in DOMAIN segments, b # c
      PROVE  Apart(b, Blocks, c, Blocks)
  <2>1. PICK k, l \in DOMAIN arenas : b = arenas[k] /\ c = arenas[l]
    BY <1>3
  <2>2. k < l \/ l < k
    BY <1>2, <1>7, <2>1
  <2>3. QED
    BY <1>1, <2>1, <2>2 DEF InOrder, Apart
<1>8. QED
  BY <1>2, <1>4, <1>5, <1>6, <1>7

\* What an arena holds lies in it.
LEMMA InArenaIs ==
    ASSUME NEW b \in Nat, NEW arr, SoundArray(arr), NEW h, InArena(b, arr, h)
    PROVE  /\ h.at \in Nat /\ h.size \in Nat \ {0}
           /\ b <= h.at /\ h.at + h.size <= b + Blocks
           /\ h.at - b \in Heads(arr) /\ arr[h.at - b].occupied
           /\ h = [at |-> b + (h.at - b), size |-> arr[h.at - b].length]
<1>1. PICK i \in Heads(arr) : arr[i].occupied /\ h = [at |-> b + i, size |-> arr[i].length]
  BY DEF InArena
<1>2. i \in Nat /\ arr[i].length \in Nat \ {0} /\ i + arr[i].length <= Blocks /\ Blocks \in Nat
  BY HeadType
<1>3. h.at = b + i /\ h.size = arr[i].length
  BY <1>1
<1>4. h.at - b = i /\ h.at \in Nat
  BY <1>2, <1>3
<1>5. b <= h.at /\ h.at + h.size <= b + Blocks
  BY <1>2, <1>3
<1>6. QED
  BY <1>1, <1>2, <1>3, <1>4, <1>5

\* Mapped memory is made of the arenas and the mappings of their own.
LEMMA MappedIs ==
    \A p : p \in mapped <=> \/ \E b \in Listed(arenas) : p \in b .. b + Blocks - 1
                            \/ \E c \in DOMAIN custom : p \in c .. c + custom[c] - 1
<1> DEFINE A == {arenas[i] .. arenas[i] + Blocks - 1 : i \in DOMAIN arenas}
           B == {b .. b + custom[b] - 1 : b \in DOMAIN custom}
<1>1. mapped = UNION (A \union B)
  BY DEF mapped, MappedBy
<1>2. \A p : (\E X \in A : p \in X) <=> \E b \in Listed(arenas) : p \in b .. b + Blocks - 1
  BY DEF Listed
<1>3. \A p : (\E X \in B : p \in X) <=> \E c \in DOMAIN custom : p \in c .. c + custom[c] - 1
  OBVIOUS
<1> HIDE DEF A, B
<1>4. QED
  BY <1>1, <1>2, <1>3

\* What mmap gives lies apart from all that is mapped.
LEMMA MmapIs ==
    ASSUME IInv, NEW n \in Nat \ {0}, NEW b \in Mmap(n)
    PROVE  /\ b \in Bases /\ b \in Nat
           /\ \A a \in DOMAIN segments : a # b /\ Apart(b, n, a, Blocks)
           /\ \A c \in DOMAIN custom : c # b /\ Apart(b, n, c, custom[c])
<1>1. b \in Bases /\ (b .. b + n - 1) \intersect mapped = {}
  BY DEF Mmap
<1>2. b \in Nat
  BY <1>1, AllocatorAssumption
<1>3. DOMAIN segments = Listed(arenas)
  BY DEF IInv, Tables
<1>4. ASSUME NEW a \in DOMAIN segments PROVE a # b /\ Apart(b, n, a, Blocks)
  <2>1. a \in Nat /\ Blocks \in Nat \ {0}
    BY Numbers
  <2>2. \A p \in a .. a + Blocks - 1 : p \in mapped
    BY <1>3, MappedIs
  <2>3. (b .. b + n - 1) \intersect (a .. a + Blocks - 1) = {}
    BY <1>1, <2>2
  <2>4. Apart(b, n, a, Blocks)
    BY <1>2, <2>1, <2>3, ApartIs
  <2>5. QED
    BY <1>2, <2>1, <2>4 DEF Apart
<1>5. ASSUME NEW c \in DOMAIN custom PROVE c # b /\ Apart(b, n, c, custom[c])
  <2>1. c \in Nat /\ custom[c] \in Nat \ {0}
    BY Numbers
  <2>2. \A p \in c .. c + custom[c] - 1 : p \in mapped
    BY MappedIs
  <2>3. (b .. b + n - 1) \intersect (c .. c + custom[c] - 1) = {}
    BY <1>1, <2>2
  <2>4. Apart(b, n, c, custom[c])
    BY <1>2, <2>1, <2>3, ApartIs
  <2>5. QED
    BY <1>2, <2>1, <2>4 DEF Apart
<1>6. QED
  BY <1>1, <1>2, <1>4, <1>5

\* What is held at an address that no mapping of its own begins at is held in
\* the arena that bfree finds: the last of the list that is not above it.
LEMMA FoundIs ==
    ASSUME IInv, NEW h \in held, h.at \notin DOMAIN custom,
           NEW k \in DOMAIN arenas, arenas[k] <= h.at,
           \A l \in k + 1 .. Len(arenas) : arenas[l] > h.at
    PROVE  arenas[k] \in DOMAIN segments /\ InArena(arenas[k], segments[arenas[k]], h)
<1>1. IsOwned(h)
  BY HeldIs DEF IInv
<1>2. ~IsCustom(h)
  BY DEF IsCustom
<1>3. PICK b \in DOMAIN segments : InArena(b, segments[b], h)
  BY <1>1, <1>2 DEF IsOwned
<1>4. arenas \in Seq(Bases) /\ InOrder(arenas) /\ DOMAIN segments = Listed(arenas)
  BY DEF IInv, Tables
<1>5. PICK l \in DOMAIN arenas : b = arenas[l]
  BY <1>4 DEF Listed
<1>6. /\ DOMAIN arenas = 1 .. Len(arenas) /\ Len(arenas) \in Nat
      /\ arenas[k] \in Nat /\ k \in Nat /\ b \in Nat /\ l \in Nat
      /\ Blocks \in Nat \ {0}
  BY <1>4, <1>5, ListType
<1>7. SoundArray(segments[b])
  BY DEF IInv, Arranged
<1>8. h.at \in Nat /\ h.size \in Nat \ {0} /\ b <= h.at /\ h.at + h.size <= b + Blocks
  BY <1>3, <1>6, <1>7, InArenaIs
<1>9. ~(l > k)
  BY <1>5, <1>6, <1>8
<1>10. ~(l < k)
  <2>1. SUFFICES ASSUME l < k PROVE FALSE
    OBVIOUS
  <2>2. b + Blocks <= arenas[k]
    BY <1>4, <1>5, <2>1 DEF InOrder
  <2>3. QED
    BY <1>6, <1>8, <2>2
<1>11. l = k
  BY <1>6, <1>9, <1>10
<1>12. QED
  BY <1>3, <1>5, <1>11

-----------------------------------------------------------------------------
(* bmalloc and the constructor preserve it.                                 *)

\* The same after a step.
LEMMA HeldIsNext ==
    ASSUME \A h : h \in held' <=> \/ \E c \in DOMAIN custom' : h = [at |-> c, size |-> custom'[c]]
                                  \/ \E b \in DOMAIN segments' : InArena(b, segments'[b], h)
    PROVE  HeldIsOccupied'
<1>1. (HeldIsOccupied <=> \A h : h \in held <=> IsOwned(h))'
  BY HeldIs, PTL
<1>2. HeldIsOccupied' <=> \A h : h \in held' <=> IsOwned(h)'
  BY <1>1
<1>3. \A h : h \in held' <=> IsOwned(h)'
  BY DEF IsOwned, IsCustom
<1>4. QED
  BY <1>2, <1>3

\* Initially there is one arena, and nothing is held.
LEMMA InitIInv == Init => IInv
<1> SUFFICES ASSUME Init PROVE IInv
  OBVIOUS
<1>1. PICK b \in Bases : /\ arenas = <<b>> /\ custom = [c \in {} |-> 0]
                         /\ segments = [c \in {b} |-> Fresh] /\ held = {}
  BY DEF Init
<1>2. /\ DOMAIN segments = {b} /\ segments[b] = Fresh /\ DOMAIN custom = {}
      /\ Len(arenas) = 1 /\ DOMAIN arenas = {1} /\ arenas[1] = b /\ arenas \in Seq(Bases)
  BY <1>1
<1>3. Tables
  <2>1. Fresh \in Arrays
    BY FreshIs DEF SoundArray, Sound
  <2>2. InOrder(arenas)
    BY <1>2 DEF InOrder
  <2>3. Listed(arenas) = {b}
    BY <1>2 DEF Listed
  <2>4. segments \in [DOMAIN segments -> Arrays]
    BY <1>1, <2>1
  <2>5. custom \in [DOMAIN custom -> Sizes] /\ DOMAIN custom \subseteq Bases
    BY <1>1
  <2>6. QED
    BY <1>2, <2>2, <2>3, <2>4, <2>5 DEF Tables
<1>4. Arranged
  BY <1>2, FreshIs DEF Arranged
<1>5. Separate /\ HeldTyped
  BY <1>1, <1>2 DEF Separate, HeldTyped
<1>6. Busy
  <2>1. ~(Len(arenas) > Keep)
    BY <1>2, AllocatorAssumption
  <2>2. QED
    BY <2>1 DEF Busy
<1>7. HeldIsOccupied
  <2>1. \A h : ~IsOwned(h)
    BY <1>2, FreshIs DEF IsOwned, IsCustom
  <2>2. QED
    BY <1>1, <2>1, HeldIs
<1>8. QED
  BY <1>3, <1>4, <1>5, <1>6, <1>7 DEF IInv

\* A large allocation is a mapping of its own, apart from the others.
LEMMA MallocCustomKeeps ==
    ASSUME IInv, NEW n \in Sizes, MallocCustom(n)
    PROVE  IInv'
<1>1. PICK b \in Mmap(n) :
         /\ custom' = [c \in DOMAIN custom \union {b} |-> IF c = b THEN n ELSE custom[c]]
         /\ held' = held \union {[at |-> b, size |-> n]}
         /\ arenas' = arenas /\ segments' = segments
  BY DEF MallocCustom, Hand
<1>2. n \in Nat \ {0}
  BY AllocatorAssumption
<1>3. /\ b \in Bases /\ b \in Nat
      /\ \A a \in DOMAIN segments : Apart(b, n, a, Blocks)
      /\ \A c \in DOMAIN custom : c # b /\ Apart(b, n, c, custom[c])
  BY <1>2, MmapIs
<1>4. /\ DOMAIN custom' = DOMAIN custom \union {b} /\ custom'[b] = n
      /\ \A c \in DOMAIN custom : custom'[c] = custom[c]
  BY <1>1, <1>3
<1>5. Tables'
  <2>1. custom' \in [DOMAIN custom' -> Sizes] /\ DOMAIN custom' \subseteq Bases
    <3>1. \A c \in DOMAIN custom : custom[c] \in Sizes /\ c \in Bases
      BY Numbers
    <3>2. custom' = [c \in DOMAIN custom' |-> custom'[c]]
      BY <1>1
    <3>3. \A c \in DOMAIN custom' : custom'[c] \in Sizes /\ c \in Bases
      BY <1>3, <1>4, <3>1
    <3>4. QED
      BY <3>2, <3>3
  <2>2. QED
    BY <1>1, <2>1 DEF IInv, Tables
<1>6. Arranged' /\ Busy'
  BY <1>1 DEF IInv, Arranged, Busy
<1>7. Separate'
  <2>1. ASSUME NEW c \in DOMAIN custom', NEW d \in DOMAIN custom', c # d
        PROVE  Apart(c, custom'[c], d, custom'[d])
    <3>1. CASE c = b
      <4>1. d \in DOMAIN custom
        BY <1>4, <2>1, <3>1
      <4>2. QED
        BY <1>3, <1>4, <3>1, <4>1
    <3>2. CASE d = b
      <4>1. c \in DOMAIN custom
        BY <1>4, <2>1, <3>2
      <4>2. Apart(b, n, c, custom[c])
        BY <1>3, <4>1
      <4>3. QED
        BY <1>4, <3>2, <4>1, <4>2 DEF Apart
    <3>3. CASE c # b /\ d # b
      <4>1. c \in DOMAIN custom /\ d \in DOMAIN custom
        BY <1>4, <3>3
      <4>2. QED
        BY <1>4, <2>1, <4>1 DEF IInv, Separate
    <3>4. QED
      BY <3>1, <3>2, <3>3
  <2>2. ASSUME NEW c \in DOMAIN custom', NEW a \in DOMAIN segments
        PROVE  Apart(c, custom'[c], a, Blocks)
    BY <1>3, <1>4 DEF IInv, Separate
  <2>3. QED
    BY <1>1, <2>1, <2>2 DEF Separate
<1>8. HeldTyped'
  <2>1. [at |-> b, size |-> n] \in [at : Nat, size : Sizes]
    BY <1>3
  <2>2. QED
    BY <1>1, <2>1 DEF IInv, HeldTyped
<1>9. HeldIsOccupied'
  <2>1. \A h : h \in held <=> IsOwned(h)
    BY HeldIs DEF IInv
  <2>2. \A h : (\E c \in DOMAIN custom' : h = [at |-> c, size |-> custom'[c]])
               <=> IsCustom(h) \/ h = [at |-> b, size |-> n]
    BY <1>4 DEF IsCustom
  <2>3. QED
    BY <1>1, <2>1, <2>2, HeldIsNext DEF IsOwned
<1>10. QED
  BY <1>5, <1>6, <1>7, <1>8, <1>9 DEF IInv

\* What bmalloc takes from an arena of the list.
LEMMA MallocArenaIs ==
    ASSUME IInv, NEW n \in Sizes, MallocArena(n)
    PROVE  \E b \in DOMAIN segments : \E i \in Fits(segments[b], n) :
              /\ i \in Nat /\ n \in Nat \ {0}
              /\ segments' = [segments EXCEPT ![b] = Carve(segments[b], i, n)]
              /\ held' = held \union {[at |-> b + i, size |-> n]}
              /\ arenas' = arenas /\ custom' = custom
<1>1. PICK k \in DOMAIN arenas :
         /\ Fits(segments[arenas[k]], n) # {}
         /\ segments' = [segments EXCEPT ![arenas[k]] =
                            Carve(segments[arenas[k]], Max(Fits(segments[arenas[k]], n)), n)]
         /\ held' = held \union {[at |-> arenas[k] + Max(Fits(segments[arenas[k]], n)), size |-> n]}
         /\ arenas' = arenas /\ custom' = custom
  BY DEF MallocArena, Hand
<1> DEFINE b == arenas[k]
           i == Max(Fits(segments[b], n))
<1>2. b \in DOMAIN segments
  BY DEF IInv, Tables, Listed
<1>3. n \in Nat \ {0} /\ SoundArray(segments[b])
  BY <1>2, AllocatorAssumption DEF IInv, Arranged
<1>4. i \in Fits(segments[b], n)
  BY <1>1, <1>3, MaxIs
<1>5. i \in Nat
  <2> HIDE DEF i
  <2>1. i \in Positions
    BY <1>4 DEF Fits, Heads
  <2>2. QED
    BY <2>1 DEF Positions
<1> HIDE DEF i
<1>6. /\ segments' = [segments EXCEPT ![b] = Carve(segments[b], i, n)]
      /\ held' = held \union {[at |-> b + i, size |-> n]}
      /\ arenas' = arenas /\ custom' = custom
  BY <1>1 DEF i
<1>7. QED
  BY <1>2, <1>3, <1>4, <1>5, <1>6

\* It is taken out of what was free.
LEMMA MallocArenaKeeps ==
    ASSUME IInv, NEW n \in Sizes, MallocArena(n)
    PROVE  IInv'
<1>0. PICK b \in DOMAIN segments : \E i \in Fits(segments[b], n) :
         /\ i \in Nat /\ n \in Nat \ {0}
         /\ segments' = [segments EXCEPT ![b] = Carve(segments[b], i, n)]
         /\ held' = held \union {[at |-> b + i, size |-> n]}
         /\ arenas' = arenas /\ custom' = custom
  BY MallocArenaIs
<1>1. PICK i \in Fits(segments[b], n) :
         /\ i \in Nat /\ n \in Nat \ {0}
         /\ segments' = [segments EXCEPT ![b] = Carve(segments[b], i, n)]
         /\ held' = held \union {[at |-> b + i, size |-> n]}
         /\ arenas' = arenas /\ custom' = custom
  BY <1>0
<1> DEFINE new == Carve(segments[b], i, n)
<1>2. /\ \A a \in DOMAIN segments : a \in Nat /\ SoundArray(segments[a])
      /\ segments \in [DOMAIN segments -> Arrays]
  BY Numbers DEF IInv, Tables
<1>3. /\ SoundArray(new) /\ Used(new)
      /\ \A h : InArena(b, new, h) <=>
                   InArena(b, segments[b], h) \/ h = [at |-> b + i, size |-> n]
  BY <1>1, <1>2, TakeIs
<1> HIDE DEF new
<1>4. /\ DOMAIN segments' = DOMAIN segments /\ segments'[b] = new
      /\ \A a \in DOMAIN segments : a # b => segments'[a] = segments[a]
  BY <1>1, <1>2 DEF new
<1>5. Tables'
  <2>1. new \in Arrays
    BY <1>3 DEF SoundArray, Sound
  <2>2. segments' \in [DOMAIN segments' -> Arrays]
    BY <1>1, <1>2, <1>4, <2>1 DEF new
  <2>3. QED
    BY <1>1, <1>4, <2>2 DEF IInv, Tables
<1>6. Arranged'
  BY <1>2, <1>3, <1>4 DEF Arranged
<1>7. Separate'
  BY <1>1, <1>4 DEF IInv, Separate
<1>8. Busy'
  BY <1>1, <1>3, <1>4 DEF IInv, Busy
<1>9. HeldTyped'
  <2>1. [at |-> b + i, size |-> n] \in [at : Nat, size : Sizes]
    <3>1. b + i \in Nat
      BY <1>1, <1>2
    <3>2. QED
      BY <3>1
  <2>2. QED
    BY <1>1, <2>1 DEF IInv, HeldTyped
<1>10. HeldIsOccupied'
  <2>1. \A h : h \in held <=> IsOwned(h)
    BY HeldIs DEF IInv
  <2>2. \A h : (\E a \in DOMAIN segments' : InArena(a, segments'[a], h))
               <=> \/ \E a \in DOMAIN segments : InArena(a, segments[a], h)
                   \/ h = [at |-> b + i, size |-> n]
    BY <1>3, <1>4
  <2>3. \A h : (\E c \in DOMAIN custom' : h = [at |-> c, size |-> custom'[c]]) <=> IsCustom(h)
    BY <1>1 DEF IsCustom
  <2>4. QED
    BY <1>1, <2>1, <2>2, <2>3, HeldIsNext DEF IsOwned
<1>11. QED
  BY <1>5, <1>6, <1>7, <1>8, <1>9, <1>10 DEF IInv

\* A new arena is mapped only when all the others are in use.
LEMMA MallocNewKeeps ==
    ASSUME IInv, NEW n \in Sizes, MallocNew(n)
    PROVE  IInv'
<1>1. PICK b \in Mmap(Blocks) :
         /\ arenas' = Insert(b)
         /\ segments' = [c \in DOMAIN segments \union {b} |->
                            IF c = b THEN Carve(Fresh, 0, n) ELSE segments[c]]
         /\ held' = held \union {[at |-> b, size |-> n]}
         /\ custom' = custom
  BY DEF MallocNew, Hand
<1>2. /\ n \in Nat \ {0} /\ n <= Blocks
      /\ \A k \in DOMAIN arenas : Fits(segments[arenas[k]], n) = {}
      /\ Blocks \in Nat \ {0}
  BY AllocatorAssumption DEF MallocNew
<1>3. /\ b \in Bases /\ b \in Nat
      /\ \A a \in DOMAIN segments : a # b /\ Apart(b, Blocks, a, Blocks)
      /\ \A c \in DOMAIN custom : c # b /\ Apart(b, Blocks, c, custom[c])
  BY <1>2, MmapIs
<1>4. /\ arenas \in Seq(Bases) /\ InOrder(arenas) /\ DOMAIN segments = Listed(arenas)
      /\ segments \in [DOMAIN segments -> Arrays]
      /\ \A a \in DOMAIN segments : SoundArray(segments[a])
  BY DEF IInv, Tables, Arranged
<1>5. /\ arenas' \in Seq(Bases) /\ Listed(arenas') = Listed(arenas) \union {b}
      /\ InOrder(arenas')
  <2>1. \A k \in DOMAIN arenas : Apart(b, Blocks, arenas[k], Blocks)
    BY <1>3, <1>4 DEF Listed
  <2>2. QED
    BY <1>1, <1>3, <1>4, <2>1, InsertIs
<1> DEFINE new == Carve(Fresh, 0, n)
<1>6. /\ SoundArray(new) /\ Used(new)
      /\ \A h : InArena(b, new, h) <=> h = [at |-> b, size |-> n]
  <2>1. SoundArray(Fresh) /\ 0 \in Fits(Fresh, n) /\ \A h : ~InArena(b, Fresh, h)
    BY <1>2, FreshIs
  <2>2. /\ SoundArray(new) /\ Used(new)
        /\ \A h : InArena(b, new, h) <=> InArena(b, Fresh, h) \/ h = [at |-> b + 0, size |-> n]
    BY <1>2, <1>3, <2>1, TakeIs
  <2>3. b + 0 = b
    BY <1>3
  <2> HIDE DEF new
  <2>4. QED
    BY <2>1, <2>2, <2>3
<1> HIDE DEF new
<1>7. /\ DOMAIN segments' = DOMAIN segments \union {b} /\ segments'[b] = new
      /\ \A a \in DOMAIN segments : segments'[a] = segments[a]
  BY <1>1, <1>3 DEF new
<1>8. Tables'
  <2>1. new \in Arrays
    BY <1>6 DEF SoundArray, Sound
  <2>2. segments' \in [DOMAIN segments' -> Arrays]
    <3>1. \A a \in DOMAIN segments' : segments'[a] \in Arrays
      BY <1>4, <1>7, <2>1
    <3>2. segments' = [a \in DOMAIN segments' |-> segments'[a]]
      BY <1>1
    <3>3. QED
      BY <3>1, <3>2
  <2>3. DOMAIN segments' = Listed(arenas)'
    BY <1>4, <1>5, <1>7 DEF Listed
  <2>4. InOrder(arenas)'
    BY <1>5 DEF InOrder
  <2>5. QED
    BY <1>1, <1>5, <2>2, <2>3, <2>4 DEF IInv, Tables
<1>9. Arranged'
  BY <1>4, <1>6, <1>7 DEF Arranged
<1>10. Separate'
  <2>1. \A c \in DOMAIN custom : c \in Nat /\ custom[c] \in Nat
    BY Numbers
  <2>2. \A c \in DOMAIN custom : Apart(c, custom[c], b, Blocks)
    BY <1>3 DEF Apart
  <2>3. QED
    BY <1>1, <1>7, <2>2 DEF IInv, Separate
<1>11. \A a \in DOMAIN segments : Used(segments[a])
  <2>1. SUFFICES ASSUME NEW a \in DOMAIN segments, ~Used(segments[a]) PROVE FALSE
    OBVIOUS
  <2>2. PICK k \in DOMAIN arenas : a = arenas[k]
    BY <1>4 DEF Listed
  <2>3. ~segments[a][0].occupied /\ segments[a][0].length = Blocks
    BY <1>4, <2>1, EmptyIs
  <2>4. 0 \in Heads(segments[a]) /\ ~segments[a][0].interior
    <3>1. Tiles(segments[a], Heads(segments[a]))
      BY <1>4 DEF SoundArray, Sound
    <3>2. QED
      BY <3>1 DEF Tiles
  <2>5. 0 \in Fits(segments[a], n)
    BY <1>2, <2>3, <2>4 DEF Fits
  <2>6. QED
    BY <1>2, <2>2, <2>5
<1>12. Busy'
  BY <1>6, <1>7, <1>11 DEF Busy
<1>13. HeldTyped'
  <2>1. [at |-> b, size |-> n] \in [at : Nat, size : Sizes]
    BY <1>3
  <2>2. QED
    BY <1>1, <2>1 DEF IInv, HeldTyped
<1>14. HeldIsOccupied'
  <2>1. \A h : h \in held <=> IsOwned(h)
    BY HeldIs DEF IInv
  <2>2. \A h : (\E a \in DOMAIN segments' : InArena(a, segments'[a], h))
               <=> \/ \E a \in DOMAIN segments : InArena(a, segments[a], h)
                   \/ h = [at |-> b, size |-> n]
    BY <1>6, <1>7
  <2>3. \A h : (\E c \in DOMAIN custom' : h = [at |-> c, size |-> custom'[c]]) <=> IsCustom(h)
    BY <1>1 DEF IsCustom
  <2>4. QED
    BY <1>1, <2>1, <2>2, <2>3, HeldIsNext DEF IsOwned
<1>15. QED
  BY <1>8, <1>9, <1>10, <1>12, <1>13, <1>14 DEF IInv

-----------------------------------------------------------------------------
(* bfree preserves it.                                                      *)

\* What is held at the address of a mapping of its own is that mapping.
LEMMA CustomIs ==
    ASSUME IInv, NEW h \in held, h.at \in DOMAIN custom
    PROVE  h = [at |-> h.at, size |-> custom[h.at]]
<1>1. IsOwned(h)
  BY HeldIs DEF IInv
<1>2. CASE IsCustom(h)
  <2>1. PICK c \in DOMAIN custom : h = [at |-> c, size |-> custom[c]]
    BY <1>2 DEF IsCustom
  <2>2. h.at = c
    BY <2>1
  <2>3. QED
    BY <2>1, <2>2
<1>3. ASSUME NEW b \in DOMAIN segments, InArena(b, segments[b], h) PROVE FALSE
  <2>1. b \in Nat /\ SoundArray(segments[b]) /\ Blocks \in Nat
    BY Numbers
  <2>2. h.at \in Nat /\ h.size \in Nat \ {0} /\ b <= h.at /\ h.at + h.size <= b + Blocks
    BY <1>3, <2>1, InArenaIs
  <2>3. Apart(h.at, custom[h.at], b, Blocks) /\ custom[h.at] \in Nat \ {0}
    BY Numbers DEF IInv, Separate
  <2>4. QED
    BY <2>1, <2>2, <2>3 DEF Apart
<1>4. QED
  BY <1>1, <1>2, <1>3 DEF IsOwned

\* bfree of a mapping of its own.
LEMMA FreeCustomKeeps ==
    ASSUME IInv, NEW h \in held, FreeCustom(h)
    PROVE  IInv'
<1>1. /\ h.at \in DOMAIN custom
      /\ custom' = [c \in DOMAIN custom \ {h.at} |-> custom[c]]
      /\ held' = held \ {h} /\ arenas' = arenas /\ segments' = segments
  BY DEF FreeCustom
<1>2. /\ DOMAIN custom' = DOMAIN custom \ {h.at}
      /\ \A c \in DOMAIN custom' : c \in DOMAIN custom /\ custom'[c] = custom[c]
  BY <1>1
<1>3. Tables'
  <2>1. custom' \in [DOMAIN custom' -> Sizes] /\ DOMAIN custom' \subseteq Bases
    <3>1. \A c \in DOMAIN custom : custom[c] \in Sizes /\ c \in Bases
      BY Numbers
    <3>2. custom' = [c \in DOMAIN custom' |-> custom'[c]]
      BY <1>1
    <3>3. QED
      BY <1>2, <3>1, <3>2
  <2>2. QED
    BY <1>1, <2>1 DEF IInv, Tables
<1>4. Arranged' /\ Busy'
  BY <1>1 DEF IInv, Arranged, Busy
<1>5. Separate'
  BY <1>1, <1>2 DEF IInv, Separate
<1>6. HeldTyped'
  BY <1>1 DEF IInv, HeldTyped
<1>7. HeldIsOccupied'
  <2>1. \A g : g \in held <=> IsOwned(g)
    BY HeldIs DEF IInv
  <2>2. h = [at |-> h.at, size |-> custom[h.at]]
    BY <1>1, CustomIs
  <2>3. \A c \in DOMAIN custom : [at |-> c, size |-> custom[c]] = h <=> c = h.at
    <3> TAKE c \in DOMAIN custom
    <3>1. [at |-> c, size |-> custom[c]].at = c
      OBVIOUS
    <3>2. QED
      BY <2>2, <3>1
  <2>4. \A g : (\E c \in DOMAIN custom' : g = [at |-> c, size |-> custom'[c]])
               <=> IsCustom(g) /\ g # h
    BY <1>2, <2>3 DEF IsCustom
  <2>5. ASSUME NEW b \in DOMAIN segments PROVE ~InArena(b, segments[b], h)
    <3>1. b \in Nat /\ SoundArray(segments[b]) /\ Blocks \in Nat
      BY Numbers
    <3>2. Apart(h.at, custom[h.at], b, Blocks) /\ custom[h.at] \in Nat \ {0}
      BY <1>1, Numbers DEF IInv, Separate
    <3>3. SUFFICES ASSUME InArena(b, segments[b], h) PROVE FALSE
      OBVIOUS
    <3>4. h.at \in Nat /\ h.size \in Nat \ {0} /\ b <= h.at /\ h.at + h.size <= b + Blocks
      BY <3>1, <3>3, InArenaIs
    <3>5. QED
      BY <3>1, <3>2, <3>4 DEF Apart
  <2>6. QED
    BY <1>1, <2>1, <2>4, <2>5, HeldIsNext DEF IsOwned
<1>8. QED
  BY <1>3, <1>4, <1>5, <1>6, <1>7 DEF IInv

\* What bfree does to an arena.
LEMMA FreeArenaIs ==
    ASSUME IInv, NEW h \in held, FreeArena(h)
    PROVE  \E k \in DOMAIN arenas :
              LET b == arenas[k]
                  i == h.at - b
                  new == Merge(segments[b], i)
              IN /\ b \in DOMAIN segments /\ b \in Nat
                 /\ InArena(b, segments[b], h)
                 /\ SoundArray(new)
                 /\ \A g : InArena(b, new, g) <=> InArena(b, segments[b], g) /\ g # h
                 /\ IF ~Used(new) /\ Spare
                    THEN Unmap(k)
                    ELSE segments' = [segments EXCEPT ![b] = new] /\ arenas' = arenas
                 /\ held' = held \ {h} /\ custom' = custom
<1>1. PICK k \in DOMAIN arenas :
         /\ arenas[k] <= h.at
         /\ \A l \in k + 1 .. Len(arenas) : arenas[l] > h.at
         /\ LET arr == Merge(segments[arenas[k]], h.at - arenas[k])
            IN IF ~arr[0].occupied /\ arr[0].length = Blocks /\ Spare
               THEN Unmap(k)
               ELSE segments' = [segments EXCEPT ![arenas[k]] = arr] /\ arenas' = arenas
         /\ h.at \notin DOMAIN custom
         /\ held' = held \ {h} /\ custom' = custom
  BY DEF FreeArena
<1> DEFINE b == arenas[k]
           i == h.at - b
           new == Merge(segments[b], i)
<1>2. b \in DOMAIN segments /\ InArena(b, segments[b], h)
  BY <1>1, FoundIs
<1>3. b \in Nat /\ SoundArray(segments[b])
  BY <1>2, Numbers
<1>4. /\ i \in Heads(segments[b]) /\ segments[b][i].occupied
      /\ h = [at |-> b + i, size |-> segments[b][i].length]
  BY <1>2, <1>3, InArenaIs
<1>5. /\ SoundArray(new)
      /\ \A g : InArena(b, new, g) <=> InArena(b, segments[b], g) /\ g # h
  <2> HIDE DEF i
  <2>1. /\ SoundArray(new)
        /\ \A g : InArena(b, new, g) <=>
                     /\ InArena(b, segments[b], g)
                     /\ g # [at |-> b + i, size |-> segments[b][i].length]
    BY <1>3, <1>4, ReleaseIs
  <2> HIDE DEF new
  <2>2. QED
    BY <1>4, <2>1
<1>6. ~new[0].occupied /\ new[0].length = Blocks <=> ~Used(new)
  BY <1>5, EmptyIs
<1>7. IF ~new[0].occupied /\ new[0].length = Blocks /\ Spare
      THEN Unmap(k)
      ELSE segments' = [segments EXCEPT ![b] = new] /\ arenas' = arenas
  BY <1>1
<1> HIDE DEF new
<1>8. IF ~Used(new) /\ Spare
      THEN Unmap(k)
      ELSE segments' = [segments EXCEPT ![b] = new] /\ arenas' = arenas
  BY <1>6, <1>7
<1>9. QED
  BY <1>1, <1>2, <1>3, <1>5, <1>8 DEF new

\* bfree in an arena, which may be unmapped then.
LEMMA FreeArenaKeeps ==
    ASSUME IInv, NEW h \in held, FreeArena(h)
    PROVE  IInv'
<1> DEFINE New(k) == Merge(segments[arenas[k]], h.at - arenas[k])
<1>1. PICK k \in DOMAIN arenas :
         /\ arenas[k] \in DOMAIN segments /\ arenas[k] \in Nat
         /\ InArena(arenas[k], segments[arenas[k]], h)
         /\ SoundArray(New(k))
         /\ \A g : InArena(arenas[k], New(k), g) <=> InArena(arenas[k], segments[arenas[k]], g) /\ g # h
         /\ IF ~Used(New(k)) /\ Spare
            THEN Unmap(k)
            ELSE segments' = [segments EXCEPT ![arenas[k]] = New(k)] /\ arenas' = arenas
         /\ held' = held \ {h} /\ custom' = custom
  BY FreeArenaIs
<1> DEFINE b == arenas[k]
           new == New(k)
<1>2. /\ arenas \in Seq(Bases) /\ InOrder(arenas) /\ DOMAIN segments = Listed(arenas)
      /\ segments \in [DOMAIN segments -> Arrays] /\ Len(arenas) \in Nat
      /\ \A a \in DOMAIN segments : SoundArray(segments[a]) /\ a \in Nat
      /\ \A a, c \in DOMAIN segments : a # c => Apart(a, Blocks, c, Blocks)
      /\ Blocks \in Nat \ {0} /\ Keep \in Nat
  BY Numbers, LenProperties, AllocatorAssumption DEF IInv, Tables
<1> HIDE DEF new, New
<1>3. HeldTyped'
  BY <1>1 DEF IInv, HeldTyped
\* Only the arena at b holds h.
<1>4. ASSUME NEW a \in DOMAIN segments, a # b PROVE ~InArena(a, segments[a], h)
  <2>1. SUFFICES ASSUME InArena(a, segments[a], h) PROVE FALSE
    OBVIOUS
  <2>2. h.at \in Nat /\ h.size \in Nat \ {0} /\ a <= h.at /\ h.at + h.size <= a + Blocks
    BY <1>2, <2>1, InArenaIs
  <2>3. b <= h.at /\ h.at + h.size <= b + Blocks
    BY <1>1, <1>2, InArenaIs
  <2>4. Apart(a, Blocks, b, Blocks)
    BY <1>1, <1>2, <1>4
  <2>5. QED
    BY <1>1, <1>2, <2>2, <2>3, <2>4 DEF Apart
<1>5. ~IsCustom(h)
  <2>1. SUFFICES ASSUME NEW c \in DOMAIN custom, h = [at |-> c, size |-> custom[c]] PROVE FALSE
    BY DEF IsCustom
  <2>2. c = h.at
    BY <2>1
  <2>3. QED
    BY <2>1, <2>2 DEF FreeArena
<1>6. \A g : g \in held <=> IsOwned(g)
  BY HeldIs DEF IInv
<1>7. \A g : (\E c \in DOMAIN custom' : g = [at |-> c, size |-> custom'[c]]) <=> IsCustom(g) /\ g # h
  <2>1. \A g : (\E c \in DOMAIN custom' : g = [at |-> c, size |-> custom'[c]]) <=> IsCustom(g)
    BY <1>1 DEF IsCustom
  <2>2. QED
    BY <1>5, <2>1
<1>8. CASE ~Used(new) /\ Spare
  <2>1. /\ arenas' = RemoveAt(arenas, k)
        /\ segments' = [c \in DOMAIN segments \ {b} |-> segments[c]]
    BY <1>1, <1>8 DEF Unmap, new
  <2>2. /\ arenas' \in Seq(Bases) /\ Len(arenas') = Len(arenas) - 1
        /\ Listed(arenas') = Listed(arenas) \ {b} /\ InOrder(arenas')
    BY <1>2, <2>1, RemoveIs
  <2>3. /\ DOMAIN segments' = DOMAIN segments \ {b}
        /\ \A a \in DOMAIN segments' : a \in DOMAIN segments /\ segments'[a] = segments[a]
    BY <2>1
  <2>4. Tables'
    <3>1. segments' \in [DOMAIN segments' -> Arrays]
      <4>1. segments' = [a \in DOMAIN segments' |-> segments'[a]]
        BY <2>1
      <4>2. \A a \in DOMAIN segments' : segments'[a] \in Arrays
        BY <1>2, <2>3
      <4>3. QED
        BY <4>1, <4>2
    <3>2. DOMAIN segments' = Listed(arenas)' /\ InOrder(arenas)'
      BY <1>2, <2>2, <2>3 DEF Listed, InOrder
    <3>3. QED
      BY <1>1, <2>2, <3>1, <3>2 DEF IInv, Tables
  <2>5. Arranged' /\ Separate'
    BY <1>1, <2>3 DEF IInv, Arranged, Separate
  <2>6. Busy'
    <3>1. Len(arenas') > Keep => Len(arenas) > Keep
      BY <1>2, <2>2
    <3>2. QED
      BY <2>3, <3>1 DEF IInv, Busy
  <2>7. HeldIsOccupied'
    <3>1. \A g : ~InArena(b, new, g)
      BY <1>8 DEF Used, InArena
    <3>2. \A g : InArena(b, segments[b], g) => g = h
      BY <1>1, <3>1 DEF new
    <3>3. \A g : (\E a \in DOMAIN segments' : InArena(a, segments'[a], g))
                 <=> (\E a \in DOMAIN segments : InArena(a, segments[a], g)) /\ g # h
      BY <1>1, <1>4, <2>3, <3>2
    <3>4. QED
      BY <1>1, <1>6, <1>7, <3>3, HeldIsNext DEF IsOwned
  <2>8. QED
    BY <1>3, <2>4, <2>5, <2>6, <2>7 DEF IInv
<1>9. CASE ~(~Used(new) /\ Spare)
  <2>1. segments' = [segments EXCEPT ![b] = new] /\ arenas' = arenas
    BY <1>1, <1>9 DEF new
  <2>2. /\ DOMAIN segments' = DOMAIN segments /\ segments'[b] = new
        /\ \A a \in DOMAIN segments : a # b => segments'[a] = segments[a]
    BY <1>1, <1>2, <2>1
  <2>3. SoundArray(new)
    BY <1>1 DEF new
  <2>4. Tables'
    <3>1. new \in Arrays
      BY <2>3 DEF SoundArray, Sound
    <3>2. segments' \in [DOMAIN segments' -> Arrays]
      BY <1>2, <2>1, <2>2, <3>1
    <3>3. QED
      BY <1>1, <2>1, <2>2, <3>2 DEF IInv, Tables
  <2>5. Arranged' /\ Separate'
    BY <1>1, <1>2, <2>2, <2>3 DEF IInv, Arranged, Separate
  <2>6. Busy'
    <3>1. Len(arenas) > Keep => Used(new)
      BY <1>9 DEF Spare
    <3>2. QED
      BY <1>1, <2>1, <2>2, <3>1 DEF IInv, Busy
  <2>7. HeldIsOccupied'
    <3>1. \A g : InArena(b, new, g) <=> InArena(b, segments[b], g) /\ g # h
      BY <1>1 DEF new
    <3>2. \A g : (\E a \in DOMAIN segments' : InArena(a, segments'[a], g))
                 <=> (\E a \in DOMAIN segments : InArena(a, segments[a], g)) /\ g # h
      BY <1>1, <1>4, <2>2, <3>1
    <3>3. QED
      BY <1>1, <1>6, <1>7, <3>2, HeldIsNext DEF IsOwned
  <2>8. QED
    BY <1>3, <2>4, <2>5, <2>6, <2>7 DEF IInv
<1>10. QED
  BY <1>8, <1>9

\* Every call of the allocator preserves the invariant.
THEOREM Invariant == Spec => []IInv
<1>1. Init => IInv
  BY InitIInv
<1>2. IInv /\ [Next]_vars => IInv'
  <2> SUFFICES ASSUME IInv, [Next]_vars PROVE IInv'
    OBVIOUS
  <2>1. ASSUME NEW n \in Sizes, MallocCustom(n) PROVE IInv'
    BY <2>1, MallocCustomKeeps
  <2>2. ASSUME NEW n \in Sizes, MallocArena(n) PROVE IInv'
    BY <2>2, MallocArenaKeeps
  <2>3. ASSUME NEW n \in Sizes, MallocNew(n) PROVE IInv'
    BY <2>3, MallocNewKeeps
  <2>4. ASSUME NEW h \in held, FreeCustom(h) PROVE IInv'
    BY <2>4, FreeCustomKeeps
  <2>5. ASSUME NEW h \in held, FreeArena(h) PROVE IInv'
    BY <2>5, FreeArenaKeeps
  <2>6. CASE UNCHANGED vars
    BY <2>6 DEF vars, IInv, Tables, Arranged, Separate, Busy, HeldTyped, HeldIsOccupied
  <2>7. QED
    BY <2>1, <2>2, <2>3, <2>4, <2>5, <2>6 DEF Next
<1>3. QED
  BY <1>1, <1>2, PTL DEF Spec

-----------------------------------------------------------------------------
(* The theorems.                                                            *)

\* The segments of every arena tile it, and know where the one before begins.
THEOREM TiledHolds == Spec => []Tiled
<1>1. IInv => Tiled
  <2> SUFFICES ASSUME IInv, NEW b \in DOMAIN segments
               PROVE  LET arr == segments[b]
                          heads == Heads(arr)
                      IN /\ \A i \in heads : /\ ~arr[i].interior /\ arr[i].length > 0
                                             /\ i + arr[i].length \in heads \union {Blocks}
                         /\ \A i \in heads : LET next == i + arr[i].length IN
                                             next # Blocks => arr[next].back = i
    BY DEF Tiled
  <2>1. SoundArray(segments[b])
    BY DEF IInv, Arranged
  <2>2. Tiles(segments[b], Heads(segments[b])) /\ Backs(segments[b], Heads(segments[b]), Blocks)
    BY <2>1 DEF SoundArray, Sound
  <2>3. \A i \in Heads(segments[b]) : i # Blocks
    BY <2>1, HeadType
  <2>4. QED
    BY <2>2, <2>3 DEF Tiles, Backs
<1>2. QED
  BY <1>1, Invariant, PTL

\* No two free segments are neighbours.
THEOREM CoalescedHolds == Spec => []Coalesced
<1>1. IInv => Coalesced
  <2> SUFFICES ASSUME IInv, NEW b \in DOMAIN segments, NEW i \in Heads(segments[b]),
                      i + segments[b][i].length < Blocks
               PROVE  \/ segments[b][i].occupied
                      \/ segments[b][i + segments[b][i].length].occupied
    BY DEF Coalesced
  <2>1. QED
    BY DEF IInv, Arranged, SoundArray, Sound, Dense
<1>2. QED
  BY <1>1, Invariant, PTL

\* What is held lies in mapped memory ...
LEMMA HeldLies ==
    IInv => \A h \in held : /\ h.at \in Nat /\ h.size \in Nat \ {0}
                            /\ Extent(h) \subseteq mapped
<1> SUFFICES ASSUME IInv, NEW h \in held
             PROVE  h.at \in Nat /\ h.size \in Nat \ {0} /\ Extent(h) \subseteq mapped
  OBVIOUS
<1>1. IsOwned(h)
  BY HeldIs DEF IInv
<1>2. h.at \in Nat /\ h.size \in Nat \ {0}
  <2>1. h \in [at : Nat, size : Sizes]
    BY DEF IInv, HeldTyped
  <2>2. QED
    BY <2>1, AllocatorAssumption
<1>3. ASSUME NEW c \in DOMAIN custom, h = [at |-> c, size |-> custom[c]]
      PROVE  Extent(h) \subseteq mapped
  <2>1. Extent(h) = c .. c + custom[c] - 1
    BY <1>3 DEF Extent
  <2>2. QED
    BY <2>1, MappedIs
<1>4. ASSUME NEW b \in DOMAIN segments, InArena(b, segments[b], h)
      PROVE  Extent(h) \subseteq mapped
  <2>1. b \in Nat /\ SoundArray(segments[b]) /\ Blocks \in Nat
    BY Numbers
  <2>2. b <= h.at /\ h.at + h.size <= b + Blocks
    BY <1>4, <2>1, InArenaIs
  <2>3. \A p \in h.at .. h.at + h.size - 1 : p \in b .. b + Blocks - 1
    BY <1>2, <2>1, <2>2
  <2>4. b \in Listed(arenas)
    BY DEF IInv, Tables
  <2>5. QED
    BY <2>3, <2>4, MappedIs DEF Extent
<1>5. QED
  BY <1>1, <1>2, <1>3, <1>4 DEF IsOwned, IsCustom

\* ... and apart from all else that is held.
LEMMA HeldApart ==
    IInv => \A g, h \in held : g # h => Apart(g.at, g.size, h.at, h.size)
<1> SUFFICES ASSUME IInv, NEW g \in held, NEW h \in held, g # h
             PROVE  Apart(g.at, g.size, h.at, h.size)
  OBVIOUS
<1>1. IsOwned(g) /\ IsOwned(h)
  BY HeldIs DEF IInv
<1>2. /\ g.at \in Nat /\ g.size \in Nat \ {0} /\ h.at \in Nat /\ h.size \in Nat \ {0}
      /\ Blocks \in Nat
  BY HeldLies, Numbers
<1>3. ASSUME NEW x \in held, NEW y \in held, IsCustom(x),
             NEW b \in DOMAIN segments, InArena(b, segments[b], y)
      PROVE  Apart(x.at, x.size, y.at, y.size)
  <2>1. PICK c \in DOMAIN custom : x = [at |-> c, size |-> custom[c]]
    BY <1>3 DEF IsCustom
  <2>2. x.at = c /\ x.size = custom[c]
    BY <2>1
  <2>3. Apart(x.at, x.size, b, Blocks)
    BY <2>2 DEF IInv, Separate
  <2>4. b \in Nat /\ SoundArray(segments[b]) /\ Blocks \in Nat
    BY Numbers
  <2>5. b <= y.at /\ y.at + y.size <= b + Blocks
    BY <1>3, <2>4, InArenaIs
  <2>6. x.at \in Nat /\ x.size \in Nat /\ y.at \in Nat /\ y.size \in Nat
    BY HeldLies
  <2>7. QED
    BY <2>3, <2>4, <2>5, <2>6 DEF Apart
<1>4. CASE IsCustom(g) /\ IsCustom(h)
  <2>1. PICK c \in DOMAIN custom : g = [at |-> c, size |-> custom[c]]
    BY <1>4 DEF IsCustom
  <2>2. PICK d \in DOMAIN custom : h = [at |-> d, size |-> custom[d]]
    BY <1>4 DEF IsCustom
  <2>3. c # d
    BY <2>1, <2>2
  <2>4. Apart(c, custom[c], d, custom[d])
    BY <2>3 DEF IInv, Separate
  <2>5. g.at = c /\ g.size = custom[c] /\ h.at = d /\ h.size = custom[d]
    BY <2>1, <2>2
  <2>6. QED
    BY <2>4, <2>5
<1>5. ASSUME NEW a \in DOMAIN segments, InArena(a, segments[a], g),
             NEW b \in DOMAIN segments, InArena(b, segments[b], h)
      PROVE  Apart(g.at, g.size, h.at, h.size)
  <2>1. a \in Nat /\ SoundArray(segments[a]) /\ b \in Nat /\ SoundArray(segments[b])
    BY Numbers
  <2>2. a <= g.at /\ g.at + g.size <= a + Blocks /\ b <= h.at /\ h.at + h.size <= b + Blocks
    BY <1>5, <2>1, InArenaIs
  <2>3. CASE a # b
    <3>1. Apart(a, Blocks, b, Blocks)
      BY <2>3, Numbers
    <3>2. QED
      BY <1>2, <2>1, <2>2, <3>1 DEF Apart
  <2>4. CASE a = b
    <3>1. PICK i \in Heads(segments[a]) : g = [at |-> a + i, size |-> segments[a][i].length]
      BY <1>5 DEF InArena
    <3>2. PICK j \in Heads(segments[a]) : h = [at |-> a + j, size |-> segments[a][j].length]
      BY <1>5, <2>4 DEF InArena
    <3>3. i # j
      BY <3>1, <3>2
    <3>4. /\ i \in Nat /\ segments[a][i].length \in Nat /\ (i < j => i + segments[a][i].length <= j)
          /\ j \in Nat /\ segments[a][j].length \in Nat /\ (j < i => j + segments[a][j].length <= i)
      BY <2>1, HeadType
    <3>5. /\ g.at = a + i /\ g.size = segments[a][i].length
          /\ h.at = a + j /\ h.size = segments[a][j].length
      BY <3>1, <3>2
    <3>6. QED
      BY <2>1, <3>3, <3>4, <3>5 DEF Apart
  <2>5. QED
    BY <2>3, <2>4
<1>6. QED
  <2>1. Apart(h.at, h.size, g.at, g.size) => Apart(g.at, g.size, h.at, h.size)
    BY DEF Apart
  <2>2. QED
    BY <1>1, <1>3, <1>4, <1>5, <2>1 DEF IsOwned

\* The tables account for what was handed out.
THEOREM AccountedHolds == Spec => []Accounted
<1>1. IInv => Accounted
  <2> SUFFICES ASSUME IInv PROVE Accounted
    OBVIOUS
  <2>1. TypeOK
    <3>1. \A b \in DOMAIN segments : segments[b] \in Arrays
      BY DEF IInv, Tables
    <3>2. QED
      BY <3>1 DEF IInv, Tables, HeldTyped, Listed, TypeOK, Arrays, Entries
  <2>2. InUse
    <3>1. SUFFICES ASSUME Len(arenas) > Keep, NEW k \in DOMAIN arenas
                   PROVE  \E h \in held :
                             Extent(h) \subseteq arenas[k] .. arenas[k] + Blocks - 1
      BY DEF InUse
    <3> DEFINE b == arenas[k]
    <3>2. b \in DOMAIN segments
      BY DEF IInv, Tables, Listed
    <3>3. Used(segments[b])
      BY <3>1, <3>2 DEF IInv, Busy
    <3>4. PICK i \in Heads(segments[b]) : segments[b][i].occupied
      BY <3>3 DEF Used
    <3> DEFINE h == [at |-> b + i, size |-> segments[b][i].length]
    <3>5. InArena(b, segments[b], h)
      BY <3>4 DEF InArena
    <3>6. h \in held
      BY <3>2, <3>5, HeldIs DEF IsOwned, IInv
    <3>7. b \in Nat /\ SoundArray(segments[b]) /\ Blocks \in Nat
      BY <3>2, Numbers
    <3> HIDE DEF h
    <3>8. h.at \in Nat /\ h.size \in Nat /\ b <= h.at /\ h.at + h.size <= b + Blocks
      BY <3>5, <3>7, InArenaIs
    <3>9. Extent(h) \subseteq b .. b + Blocks - 1
      BY <3>7, <3>8 DEF Extent
    <3>10. QED
      BY <3>6, <3>9
  <2>3. QED
    BY <2>1, <2>2 DEF IInv, Accounted
<1>2. QED
  BY <1>1, Invariant, PTL

\* Only a new arena makes the list longer.
LEMMA OnlyNew ==
    ASSUME IInv, Next, Len(arenas') > Len(arenas)
    PROVE  \E n \in Sizes : MallocNew(n)
<1>1. arenas \in Seq(Bases) /\ InOrder(arenas) /\ Len(arenas) \in Nat
  BY LenProperties DEF IInv, Tables
<1>2. arenas' # arenas
  BY <1>1
<1>3. ASSUME NEW h \in held, FreeArena(h) PROVE FALSE
  <2>1. PICK k \in DOMAIN arenas : arenas' = RemoveAt(arenas, k)
    BY <1>2, <1>3 DEF FreeArena, Unmap
  <2>2. Len(arenas') = Len(arenas) - 1
    BY <1>1, <2>1, RemoveIs
  <2>3. QED
    BY <1>1, <2>2
<1>4. QED
  BY <1>2, <1>3 DEF Next, MallocCustom, MallocArena, FreeCustom

\* An arena is mapped only when no other has the blocks side by side.
THEOREM MapsWhenFullHolds == Spec => MapsWhenFull
<1> DEFINE Full ==
             \A new \in held' \ held, k \in DOMAIN arenas :
             \A p \in arenas[k] .. arenas[k] + Blocks - new.size :
                \E h \in held : Extent(h) \intersect (p .. p + new.size - 1) # {}
<1>1. IInv /\ [Next]_vars => [Len(arenas') > Len(arenas) => Full]_vars
  <2> SUFFICES ASSUME IInv, Next, Len(arenas') > Len(arenas),
                      NEW new \in held' \ held, NEW k \in DOMAIN arenas,
                      NEW p \in arenas[k] .. arenas[k] + Blocks - new.size
               PROVE  \E h \in held : Extent(h) \intersect (p .. p + new.size - 1) # {}
    OBVIOUS
  <2>1. PICK n \in Sizes : MallocNew(n)
    BY OnlyNew
  <2>2. /\ n <= Blocks /\ Fits(segments[arenas[k]], n) = {}
        /\ \E b : held' = held \union {[at |-> b, size |-> n]}
    BY <2>1 DEF MallocNew, Hand
  <2>3. new.size = n
    BY <2>2
  <2> DEFINE a == arenas[k]
             arr == segments[a]
             q == p - a
  <2>4. a \in DOMAIN segments
    BY DEF IInv, Tables, Listed
  <2>5. a \in Nat /\ SoundArray(arr) /\ Blocks \in Nat
    BY <2>4, Numbers
  <2>6. n \in Nat \ {0} /\ n \in 1 .. Blocks
    BY <2>2, <2>5, AllocatorAssumption
  <2>7. p \in Nat /\ q \in 0 .. Blocks - n /\ p = a + q /\ q \in Nat
    BY <2>3, <2>5, <2>6
  <2> HIDE DEF q
  <2>8. PICK i \in Heads(arr) : arr[i].occupied /\ i < q + n /\ q < i + arr[i].length
    BY <2>2, <2>5, <2>6, <2>7, FullIs
  <2>9. i \in Nat /\ arr[i].length \in Nat \ {0}
    BY <2>5, HeadType
  <2> DEFINE h == [at |-> a + i, size |-> arr[i].length]
  <2>10. InArena(a, arr, h)
    BY <2>8 DEF InArena
  <2>11. h \in held
    BY <2>4, <2>10, HeldIs DEF IsOwned, IInv
  <2>12. Extent(h) = a + i .. a + i + arr[i].length - 1
    BY DEF Extent
  <2> HIDE DEF h, arr, a
  <2>13. CASE i <= q
    <3>1. p \in a + i .. a + i + arr[i].length - 1 /\ p \in p .. p + n - 1
      <4>1. a + i <= p /\ p <= a + i + arr[i].length - 1 /\ p <= p + n - 1
        BY <2>5, <2>6, <2>7, <2>8, <2>9, <2>13
      <4>2. p \in Int /\ a + i \in Int /\ p + n - 1 \in Int
        BY <2>5, <2>6, <2>7, <2>9
      <4>3. QED
        BY <2>9, <4>1, <4>2
    <3>2. QED
      BY <2>3, <2>11, <2>12, <3>1
  <2>14. CASE ~(i <= q)
    <3>1. a + i \in a + i .. a + i + arr[i].length - 1 /\ a + i \in p .. p + n - 1
      BY <2>5, <2>6, <2>7, <2>8, <2>9, <2>14
    <3>2. QED
      BY <2>3, <2>11, <2>12, <3>1
  <2>15. QED
    BY <2>13, <2>14
<1>2. QED
  BY <1>1, Invariant, PTL DEF Spec, MapsWhenFull

\* What is handed out was not held before.
LEMMA HandsNew ==
    ASSUME IInv, NEW n \in Sizes, MallocCustom(n) \/ MallocArena(n) \/ MallocNew(n)
    PROVE  \E p : /\ held' = held \union {[at |-> p, size |-> n]}
                  /\ [at |-> p, size |-> n] \notin held
                  /\ p \in Nat /\ n \in Nat \ {0}
<1>1. n \in Nat \ {0} /\ Blocks \in Nat \ {0}
  BY AllocatorAssumption
<1>2. ASSUME NEW m \in Nat \ {0}, NEW b \in Mmap(m)
      PROVE  b \in Nat /\ [at |-> b, size |-> n] \notin held
  <2>1. b \in Nat /\ b \notin mapped
    <3>1. b \in Nat /\ (b .. b + m - 1) \intersect mapped = {}
      BY AllocatorAssumption DEF Mmap
    <3>2. b \in b .. b + m - 1
      BY <3>1
    <3>3. QED
      BY <3>1, <3>2
  <2>2. ASSUME [at |-> b, size |-> n] \in held PROVE FALSE
    <3>1. Extent([at |-> b, size |-> n]) \subseteq mapped
      BY <2>2, HeldLies
    <3>2. b \in Extent([at |-> b, size |-> n])
      BY <1>1, <2>1 DEF Extent
    <3>3. QED
      BY <2>1, <3>1, <3>2
  <2>3. QED
    BY <2>1, <2>2
<1>3. CASE MallocCustom(n)
  <2>1. PICK b \in Mmap(n) : held' = held \union {[at |-> b, size |-> n]}
    BY <1>3 DEF MallocCustom, Hand
  <2>2. QED
    BY <1>1, <1>2, <2>1
<1>4. CASE MallocNew(n)
  <2>1. PICK b \in Mmap(Blocks) : held' = held \union {[at |-> b, size |-> n]}
    BY <1>4 DEF MallocNew, Hand
  <2>2. QED
    BY <1>1, <1>2, <2>1
<1>5. CASE MallocArena(n)
  <2>0. PICK b \in DOMAIN segments : \E i \in Fits(segments[b], n) :
           i \in Nat /\ held' = held \union {[at |-> b + i, size |-> n]}
    BY <1>5, MallocArenaIs
  <2>1. PICK i \in Fits(segments[b], n) :
           i \in Nat /\ held' = held \union {[at |-> b + i, size |-> n]}
    BY <2>0
  <2> DEFINE h == [at |-> b + i, size |-> n]
  <2>2. /\ b \in Nat /\ SoundArray(segments[b]) /\ i \in Heads(segments[b])
        /\ ~segments[b][i].occupied
    BY Numbers DEF Fits
  <2>3. /\ h.at = b + i /\ h.size = n /\ b + i \in Nat /\ (b + i) - b = i
        /\ i < Blocks
    <3>1. i < Blocks
      BY <2>1, <2>2, HeadType
    <3>2. QED
      BY <2>1, <2>2, <3>1
  <2>4. ASSUME h \in held PROVE FALSE
    <3>1. CASE IsCustom(h)
      <4>1. PICK c \in DOMAIN custom : h = [at |-> c, size |-> custom[c]]
        BY <3>1 DEF IsCustom
      <4>2. c = b + i
        BY <2>3, <4>1
      <4>3. Apart(c, custom[c], b, Blocks) /\ custom[c] \in Nat \ {0}
        BY Numbers DEF IInv, Separate
      <4>4. QED
        BY <1>1, <2>1, <2>2, <2>3, <4>2, <4>3 DEF Apart
    <3>2. ASSUME NEW a \in DOMAIN segments, InArena(a, segments[a], h) PROVE FALSE
      <4>1. a \in Nat /\ SoundArray(segments[a])
        BY Numbers
      <4> HIDE DEF h
      <4>2. /\ a <= h.at /\ h.at + h.size <= a + Blocks
            /\ segments[a][h.at - a].occupied
        BY <3>2, <4>1, InArenaIs
      <4>3. CASE a = b
        BY <2>2, <2>3, <4>2, <4>3
      <4>4. CASE a # b
        <5>1. Apart(a, Blocks, b, Blocks)
          BY <4>4, Numbers
        <5>2. QED
          BY <1>1, <2>1, <2>2, <2>3, <4>1, <4>2, <5>1 DEF Apart
      <4>5. QED
        BY <4>3, <4>4
    <3>3. IsOwned(h)
      BY <2>4, HeldIs DEF IInv
    <3>4. QED
      BY <3>1, <3>2, <3>3 DEF IsOwned
  <2>5. QED
    BY <1>1, <2>1, <2>3, <2>4
<1>6. QED
  BY <1>3, <1>4, <1>5

\* How mapped memory changes.
LEMMA MappedNext ==
    ASSUME IInv, Next
    PROVE  /\ (\E n \in Sizes : MallocCustom(n) \/ MallocArena(n) \/ MallocNew(n))
                 => mapped \subseteq mapped'
           /\ (\E h \in held : FreeCustom(h) \/ FreeArena(h)) => mapped' \subseteq mapped
<1>1. (\A p : p \in mapped <=> \/ \E b \in Listed(arenas) : p \in b .. b + Blocks - 1
                               \/ \E c \in DOMAIN custom : p \in c .. c + custom[c] - 1)'
  BY MappedIs, PTL
<1>2. \A p : p \in mapped' <=> \/ \E b \in Listed(arenas') : p \in b .. b + Blocks - 1
                               \/ \E c \in DOMAIN custom' : p \in c .. c + custom'[c] - 1
  BY <1>1 DEF Listed
<1>3. ASSUME Listed(arenas) \subseteq Listed(arenas'), DOMAIN custom \subseteq DOMAIN custom',
             \A c \in DOMAIN custom : custom'[c] = custom[c]
      PROVE  mapped \subseteq mapped'
  BY <1>2, <1>3, MappedIs
<1>4. ASSUME Listed(arenas') \subseteq Listed(arenas), DOMAIN custom' \subseteq DOMAIN custom,
             \A c \in DOMAIN custom' : custom'[c] = custom[c]
      PROVE  mapped' \subseteq mapped
  BY <1>2, <1>4, MappedIs
<1>5. arenas \in Seq(Bases) /\ InOrder(arenas)
  BY DEF IInv, Tables
<1>6. ASSUME NEW n \in Sizes, MallocCustom(n) PROVE mapped \subseteq mapped'
  <2>1. PICK b \in Mmap(n) :
           /\ custom' = [c \in DOMAIN custom \union {b} |-> IF c = b THEN n ELSE custom[c]]
           /\ arenas' = arenas
    BY <1>6 DEF MallocCustom
  <2>2. n \in Nat \ {0}
    BY AllocatorAssumption
  <2>3. \A c \in DOMAIN custom : c # b
    BY <2>2, MmapIs
  <2>4. QED
    BY <1>3, <2>1, <2>3
<1>7. ASSUME NEW n \in Sizes, MallocArena(n) PROVE mapped \subseteq mapped'
  BY <1>3, <1>7 DEF MallocArena
<1>8. ASSUME NEW n \in Sizes, MallocNew(n) PROVE mapped \subseteq mapped'
  <2>1. PICK b \in Mmap(Blocks) : arenas' = Insert(b) /\ custom' = custom
    BY <1>8 DEF MallocNew
  <2>2. Blocks \in Nat \ {0} /\ DOMAIN segments = Listed(arenas)
    BY Numbers DEF IInv, Tables
  <2>3. b \in Bases /\ \A a \in DOMAIN segments : Apart(b, Blocks, a, Blocks)
    BY <2>2, MmapIs
  <2>4. \A k \in DOMAIN arenas : Apart(b, Blocks, arenas[k], Blocks)
    BY <2>2, <2>3 DEF Listed
  <2>5. Listed(arenas') = Listed(arenas) \union {b}
    BY <1>5, <2>1, <2>3, <2>4, InsertIs
  <2>6. QED
    BY <1>3, <2>1, <2>5
<1>9. ASSUME NEW h \in held, FreeCustom(h) PROVE mapped' \subseteq mapped
  BY <1>4, <1>9 DEF FreeCustom
<1>10. ASSUME NEW h \in held, FreeArena(h) PROVE mapped' \subseteq mapped
  <2>1. custom' = custom
    BY <1>10 DEF FreeArena
  <2>2. arenas' = arenas \/ \E k \in DOMAIN arenas : arenas' = RemoveAt(arenas, k)
    BY <1>10 DEF FreeArena, Unmap
  <2>3. Listed(arenas') \subseteq Listed(arenas)
    BY <1>5, <2>2, RemoveIs
  <2>4. QED
    BY <1>4, <2>1, <2>3
<1>11. QED
  BY <1>6, <1>7, <1>8, <1>9, <1>10

\* The allocator implements Extents.
THEOREM KeepsPromiseHolds == Spec => KeepsPromise
<1>1. Init => Implements!Init
  <2> SUFFICES ASSUME Init PROVE Implements!Init
    OBVIOUS
  <2>1. held = {}
    BY DEF Init
  <2>2. IInv
    BY InitIInv
  <2>3. mapped \subseteq Int
    <3>1. DOMAIN segments = Listed(arenas)
      BY <2>2 DEF IInv, Tables
    <3>2. QED
      BY <2>2, <3>1, MappedIs, Numbers
  <2>4. QED
    BY <2>1, <2>3 DEF Implements!Init
<1>2. IInv /\ IInv' /\ [Next]_vars => [Implements!Next]_<<held, mapped>>
  <2> SUFFICES ASSUME IInv, IInv', [Next]_vars
               PROVE  Implements!Next \/ UNCHANGED <<held, mapped>>
    OBVIOUS
  <2>1. \A h \in held' : h.at \in Nat /\ h.size \in Nat \ {0} /\ Extent(h) \subseteq mapped'
    <3>1. (IInv => \A h \in held : /\ h.at \in Nat /\ h.size \in Nat \ {0}
                                   /\ Extent(h) \subseteq mapped)'
      BY HeldLies, PTL
    <3>2. QED
      BY <3>1 DEF Extent
  <2>2. \A g, h \in held' : g # h => Apart(g.at, g.size, h.at, h.size)
    <3>1. (IInv => \A g, h \in held : g # h => Apart(g.at, g.size, h.at, h.size))'
      BY HeldApart, PTL
    <3>2. QED
      BY <3>1 DEF Apart
  <2>3. \A h : Implements!Extent(h) = Extent(h)
    BY DEF Implements!Extent, Extent
  <2>4. ASSUME NEW n \in Sizes, MallocCustom(n) \/ MallocArena(n) \/ MallocNew(n), Next
        PROVE  Implements!Alloc(n)
    <3>1. PICK p : /\ held' = held \union {[at |-> p, size |-> n]}
                   /\ [at |-> p, size |-> n] \notin held
                   /\ p \in Nat /\ n \in Nat \ {0}
      BY <2>4, HandsNew
    <3> DEFINE new == [at |-> p, size |-> n]
    <3>2. new \in held' /\ new.at = p /\ new.size = n /\ new \notin held
      BY <3>1
    <3>3. Extent(new) \subseteq mapped'
      BY <2>1, <3>2
    <3>4. p \in mapped'
      <4>1. p \in Extent(new)
        BY <3>1 DEF Extent
      <4>2. QED
        BY <3>3, <4>1
    <3>5. ASSUME NEW h \in held PROVE Extent(h) \intersect Extent(new) = {}
      <4>1. h \in held' /\ h # new
        BY <3>1, <3>2
      <4>2. Apart(h.at, h.size, new.at, new.size)
        BY <2>2, <3>2, <4>1
      <4>3. h.at \in Nat /\ h.size \in Nat \ {0} /\ new.at \in Nat /\ new.size \in Nat \ {0}
        BY <2>1, <3>2, <4>1
      <4> HIDE DEF new
      <4>4. QED
        BY <4>2, <4>3, ApartIs DEF Extent
    <3>6. mapped \subseteq mapped'
      BY <2>4, MappedNext
    <3> HIDE DEF new
    <3>7. /\ held' = held \union {new}
          /\ Implements!Extent(new) \subseteq mapped'
          /\ \A h \in held : Implements!Extent(h) \intersect Implements!Extent(new) = {}
      BY <2>3, <3>1, <3>3, <3>5 DEF new
    <3>8. QED
      BY <3>4, <3>6, <3>7 DEF Implements!Alloc, new
  <2>5. ASSUME NEW h \in held, FreeCustom(h) \/ FreeArena(h), Next
        PROVE  Implements!Free(h)
    <3>1. held' = held \ {h}
      BY <2>5 DEF FreeCustom, FreeArena
    <3>2. mapped' \subseteq mapped
      BY <2>5, MappedNext
    <3>3. QED
      BY <2>1, <2>3, <3>1, <3>2 DEF Implements!Free
  <2>6. CASE UNCHANGED vars
    BY <2>6 DEF vars, mapped, MappedBy
  <2>7. QED
    BY <2>4, <2>5, <2>6 DEF Next, Implements!Next
<1>3. QED
  BY <1>1, <1>2, Invariant, PTL DEF Spec, KeepsPromise, Implements!Spec
=============================================================================
