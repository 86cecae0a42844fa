---------------------------- MODULE Connections ----------------------------
(***************************************************************************)
(* What an acceptor promises about its connections: a connection is        *)
(* accepted once, its task completes once, and only then is the connection *)
(* released, which takes its objects with it.                              *)
(***************************************************************************)
CONSTANT Conns

VARIABLE state   \* "none", "open", "finished" or "closed"

Init == state = [c \in Conns |-> "none"]

Move(c, from, to) ==
    /\ state[c] = from
    /\ state' = [state EXCEPT ![c] = to]

Accept(c) == Move(c, "none", "open")
Finish(c) == Move(c, "open", "finished")
Release(c) == Move(c, "finished", "closed")

Next == \E c \in Conns : Accept(c) \/ Finish(c) \/ Release(c)

Safety == Init /\ [][Next]_state
Spec == Safety /\ \A c \in Conns : WF_state(Release(c))
=============================================================================
