---------------------------- MODULE HttpManager ----------------------------
(***************************************************************************)
(* HTTPManager::handle_request (common/http_manager.t.cpp): a request for  *)
(* an endpoint with a handler, for a file below the base directory, or for *)
(* neither.  The query part of the target has been cut off.                *)
(***************************************************************************)
EXTENDS VisitStats

CONSTANTS
    Handlers,   \* handlers_: endpoints that landing_accept.cpp adds
    Verbs,      \* request methods; add_endpoint's default is the one of them, Get
    Get,
    Targets,    \* targets that peers ask for
    Index,      \* directories: each one's index.html
    Canonical,  \* paths that exist: each one's canonical path
    BelowBase   \* canonical paths that begin with base_path_

ASSUME HttpManagerAssumption ==
    /\ Handlers \subseteq Endpoints /\ Get \in Verbs
    /\ DOMAIN Index \subseteq Targets
    /\ BelowBase \subseteq Endpoints

VARIABLE answered  \* history: the responses but for "not found", by service
managerVars == <<visitVars, answered>>
-----------------------------------------------------------------------------
\* assure_path: the canonical path, or an exception (the empty set).
AssurePath(target) ==
    LET path == IF target \in DOMAIN Index THEN Index[target] ELSE target
    IN {Canonical[p] : p \in {path} \intersect DOMAIN Canonical} \intersect BelowBase

Answered(s) == answered' = [answered EXCEPT ![s] = @ + 1]

\* A handler's endpoint; UseHandler is TRUE if the handler is called, and FALSE
\* if there is none for the verb (405).
HandlerRequest(s, target, verb, useHandler) ==
    /\ target \in Handlers
    /\ AddAccess(s, target)
    /\ useHandler = (verb = Get)
    /\ Answered(s)

\* A file, unless it cannot be read by now.
FileRequest(s, target) ==
    /\ target \notin Handlers
    /\ \E path \in AssurePath(target) : AddAccess(s, path)
    /\ Answered(s)

\* Neither, or a file that has gone or cannot be read (404).
NotFound(target) ==
    /\ target \notin Handlers
    /\ UNCHANGED managerVars
-----------------------------------------------------------------------------
\* The visits of a service are its responses: what was answered is counted,
\* once, whenever the clock was set, and a page that was not found is not.
Counted ==
    \A i \in DOMAIN visits : Total(i) = answered[visits[i].service]
=============================================================================
