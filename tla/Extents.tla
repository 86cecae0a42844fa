------------------------------ MODULE Extents ------------------------------
(* What an allocator of blocks promises: an allocation lies in mapped memory *)
(* and overlaps no other one, and mapped memory goes away only under none.   *)
EXTENDS Integers

CONSTANT Sizes   \* of the allocations, in blocks

VARIABLES held,     \* live allocations
          mapped    \* mapped block addresses

Extent(h) == h.at .. h.at + h.size - 1

Init == held = {} /\ mapped \subseteq Int

Alloc(n) ==
    /\ \E p \in mapped' :
          LET new == [at |-> p, size |-> n] IN
          /\ held' = held \union {new}
          /\ Extent(new) \subseteq mapped'
          /\ \A h \in held : Extent(h) \intersect Extent(new) = {}
    /\ mapped \subseteq mapped'

Free(h) ==
    /\ held' = held \ {h}
    /\ mapped' \subseteq mapped
    /\ \A g \in held' : Extent(g) \subseteq mapped'

Next == \/ \E n \in Sizes : Alloc(n)
        \/ \E h \in held : Free(h)
Spec == Init /\ [][Next]_<<held, mapped>>
=============================================================================
