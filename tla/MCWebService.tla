---------------------------- MODULE MCWebService ----------------------------
(* One connection of the last of two services; a page with a handler, two *)
(* names of one file, and a name that leads out of the base directory.      *)
EXTENDS WebService
MCServices == <<"http", "https">>
MCIndex == [d \in {"/"} |-> "/index.html"]
MCCanonical == [p \in {"/index.html", "/out"} |-> p]
Symmetry == Permutations(Fields)
=============================================================================
