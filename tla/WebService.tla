----------------------------- MODULE WebService -----------------------------
(***************************************************************************)
(* A landing page's service as its peers see it: one connection's stream   *)
(* of requests (HttpStream), what answers them (HttpManager), the client   *)
(* that the handlers ask (S40Client), and the visits that all of them      *)
(* count (VisitStats) and main's thread reports.                           *)
(*                                                                         *)
(* One thread constructs the root events, each with an HTTPManager that    *)
(* registers its service, and only then serves connections.                *)
(***************************************************************************)
EXTENDS HttpStream, HttpManager, S40Client

CONSTANT Services  \* services in the order of their construction
ASSUME ServicesAssumption == Services \in Seq(STRING) \ {<<>>}

serviceVars == <<vars, managerVars, s40Vars>>
Registered == Len(visits) = Len(Services)
Here == Last(Services)  \* the one that the connection is of
-----------------------------------------------------------------------------
Registration ==
    /\ ~Registered
    /\ RegisterBegin \/ RegisterEnd(Services[Len(visits) + 1])
    /\ UNCHANGED <<vars, answered, s40Vars>>

\* Every handler of LandingAccept answers with one of the client's values.
Handler == GetInstance

\* AioLandingHTTP::on_yield for a request: handle_request and write_http.
Respond ==
    /\ WriteHttp
    /\ ~crashed
    /\ \E target \in Targets :
          \/ \E verb \in Verbs, useHandler \in BOOLEAN :
                /\ HandlerRequest(Here, target, verb, useHandler)
                /\ IF useHandler THEN Handler ELSE UNCHANGED s40Vars
          \/ FileRequest(Here, target) /\ UNCHANGED s40Vars
          \/ NotFound(target) /\ UNCHANGED s40Vars

Stream ==
    /\ Registered /\ ~crashed
    /\ ReadHttp \/ ReadYield \/ WriteYield \/ YieldFails
    /\ UNCHANGED <<managerVars, s40Vars>>
Visits == Report /\ UNCHANGED <<vars, answered, s40Vars>>
Client == ~crashed /\ S40Next /\ UNCHANGED <<vars, managerVars>>

ServiceInit ==
    /\ Init /\ VisitInit /\ S40Init
    /\ answered = [s \in ToSet(Services) |-> 0]
ServiceNext == Registration \/ Stream \/ Respond \/ Visits \/ Client
ServiceSpec == ServiceInit /\ [][ServiceNext]_serviceVars
-----------------------------------------------------------------------------
\* Types of all variables, those of the stream and of the client included.
ServiceTypeOK ==
    /\ TypeOK /\ S40TypeOK
    /\ \A i \in DOMAIN visits :
          /\ visits[i].service = Services[i]
          /\ \A e \in Endpoints : visits[i].lists[e] \in Seq([bin : Nat, count : Nat \ {0}])
    /\ access \in {"free", "report"} /\ upto <= Len(visits)
    /\ Len(report) <= Len(Services)
    /\ {registering, raced, crashed} \subseteq BOOLEAN
    /\ answered \in [ToSet(Services) -> Nat]
=============================================================================
