---------------------------- MODULE MCThreadData ----------------------------
(* ThreadData on small instances: one root, three more objects.            *)
EXTENDS ThreadData
=============================================================================
