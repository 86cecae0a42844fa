------------------------------ MODULE IdBlocks ------------------------------
(***************************************************************************)
(* How object, procedure and timer ids are drawn.  Every ThreadData, and   *)
(* the AsyncHandler for the root events, takes ids one by one from a       *)
(* private block and fetches the next block number from an atomic counter  *)
(* of IdBlocks that all of them share.  The three kinds of id have a       *)
(* counter and a block each and run the same code: this module is one kind.*)
(***************************************************************************)
EXTENDS Integers

CONSTANTS
    Allocators,  \* the ThreadData objects and the AsyncHandler
    BlockSize,   \* ids in a block (1000 in the code)
    MaxBlocks    \* bound of the model: blocks fetched in all

ASSUME BlockSizeAssumption == BlockSize \in Nat \ {0}
ASSUME MaxBlocksAssumption == MaxBlocks \in Nat

VARIABLES
    block,   \* proc_block_, obj_block_ or timer_block_
    init,    \* p_init: the allocator has fetched a first block
    base,    \* proc_id_base
    curr,    \* proc_id_curr, the next id the allocator returns
    issued   \* history: every id returned so far

vars == <<block, init, base, curr, issued>>

Init ==
    /\ block = 0
    /\ init = [a \in Allocators |-> FALSE]
    /\ base = [a \in Allocators |-> 0]
    /\ curr = [a \in Allocators |-> 0]
    /\ issued = {}

\* Broken form: the end of the block is never looked at.
ExhaustedOnce(a) == ~init[a]

\* Broken form: one id past the end of the block.
ExhaustedLate(a) == ~init[a] \/ curr[a] > base[a] + BlockSize

\* The condition under which get_proc_id fetches a block first.
Exhausted(a) == ~init[a] \/ curr[a] = base[a] + BlockSize

\* Broken form: the number of the block before the one drawn.
FetchBlockBefore(a) ==
    /\ Exhausted(a)
    /\ block < MaxBlocks
    /\ block' = block + 1
    /\ init' = [init EXCEPT ![a] = TRUE]
    /\ base' = [base EXCEPT ![a] = BlockSize * (block - 1)]
    /\ curr' = [curr EXCEPT ![a] = BlockSize * (block - 1)]
    /\ UNCHANGED issued

\* The atomic increment, the one step that touches shared state.
FetchBlock(a) ==
    /\ Exhausted(a)
    /\ block < MaxBlocks
    /\ block' = block + 1
    /\ init' = [init EXCEPT ![a] = TRUE]
    /\ base' = [base EXCEPT ![a] = BlockSize * block]
    /\ curr' = [curr EXCEPT ![a] = BlockSize * block]
    /\ UNCHANGED issued

\* return proc_id_curr++
ReturnId(a) ==
    /\ ~Exhausted(a)
    /\ curr' = [curr EXCEPT ![a] = @ + 1]
    /\ issued' = issued \union {curr[a]}
    /\ UNCHANGED <<block, init, base>>

Next == \E a \in Allocators : FetchBlock(a) \/ ReturnId(a)

Spec == Init /\ [][Next]_vars
-----------------------------------------------------------------------------
\* Types of the five variables.
TypeOK ==
    /\ block \in Nat
    /\ init \in [Allocators -> BOOLEAN]
    /\ base \in [Allocators -> Nat]
    /\ curr \in [Allocators -> Nat]
    /\ issued \in SUBSET Nat

\* Strengthening: an allocator's block was handed out to it alone, and no id
\* from curr[a] to the end of its block was returned by anyone.  (What
\* get_proc_id keeps between two calls.)
BlockOwned ==
    /\ \A i \in issued : \E b \in 0 .. block - 1 :
          i \in BlockSize * b .. BlockSize * b + BlockSize - 1
    /\ \A a \in Allocators : init[a] =>
          /\ \E b \in 0 .. block - 1 : base[a] = BlockSize * b
          /\ curr[a] \in base[a] .. base[a] + BlockSize
          /\ \A i \in issued : ~(i \in curr[a] .. base[a] + BlockSize - 1)
          /\ \A o \in Allocators \ {a} : init[o] => base[o] # base[a]

\* Ids are unique across threads and for the whole run (get_proc_id and its
\* siblings): every id that is returned was never returned before, by any
\* allocator.  proc_to_dat, obj_info and timers are keyed by them.
FreshId ==
    [][block' = block =>
          \E id \in issued' \ issued : issued' = issued \union {id}]_vars
=============================================================================
