---------------------------- MODULE MCAllocator ----------------------------
(* The allocator with arenas of a few blocks and addresses that leave gaps.  *)
EXTENDS Allocator
=============================================================================
