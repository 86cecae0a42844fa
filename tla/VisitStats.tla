----------------------------- MODULE VisitStats -----------------------------
(***************************************************************************)
(* The visits of each service (logging/visit_stats.cpp), which handlers    *)
(* count on the server's threads and main's thread writes out whenever it  *)
(* logs.  Both hold the mutex access; a service that registers does not.   *)
(*                                                                         *)
(* An unordered_map's missing entry is an empty list here.  The clock is   *)
(* the system's and may be set back.  The report of a service is one step: *)
(* nothing can change what it writes as long as the mutex is held.         *)
(***************************************************************************)
EXTENDS Integers, Sequences, SequencesExt, FiniteSetsExt

CONSTANTS
    Endpoints,  \* targets with a handler, and canonical paths of files
    Times,      \* what the clock may show
    Delta       \* length of a time bin (240)

ASSUME VisitAssumption ==
    IsFiniteSet(Endpoints) /\ Times \subseteq Nat /\ Delta \in Nat \ {0}

VARIABLES
    visits,       \* visits_: the services in the order of their registration
    access,       \* the mutex: "free", or held by the "report"
    report,       \* what the report has written
    upto,         \* services that it writes
    registering,  \* register_service is under way
    raced,        \* the report under way met a registration and both went on
    crashed       \* ... or the process crashed

visitVars == <<visits, access, report, upto, registering, raced, crashed>>

Service(s) == [service |-> s, lists |-> [e \in Endpoints |-> <<>>]]
-----------------------------------------------------------------------------
\* A data race on visits_: the process crashes, or goes on with a report that
\* may hold anything.
Race ==
    \/ crashed' = TRUE /\ UNCHANGED raced
    \/ raced' = TRUE /\ UNCHANGED crashed

RegisterBegin ==
    /\ ~crashed /\ ~registering
    /\ registering' = TRUE
    /\ IF access = "report" THEN Race ELSE UNCHANGED <<raced, crashed>>
    /\ UNCHANGED <<visits, access, report, upto>>
RegisterEnd(s) ==
    /\ ~crashed /\ registering
    /\ registering' = FALSE
    /\ visits' = Append(visits, Service(s))
    /\ UNCHANGED <<access, report, upto, raced, crashed>>

\* One more access in the list of an endpoint.
Bin(t) == (t \div Delta) * Delta
\* Broken form: a new bin replaces the list.
OneMoreReplaces(list, bin) ==
    IF list # <<>> /\ Last(list).bin = bin
    THEN [list EXCEPT ![Len(list)].count = @ + 1]
    ELSE <<[bin |-> bin, count |-> 1]>>
OneMore(list, bin) ==
    IF list # <<>> /\ Last(list).bin = bin
    THEN [list EXCEPT ![Len(list)].count = @ + 1]
    ELSE Append(list, [bin |-> bin, count |-> 1])

\* Broken form: does not wait for the mutex.
AddAccessUnlocked(s, e) ==
    /\ ~crashed
    /\ \E t \in Times :
          visits' = [i \in DOMAIN visits |->
                        IF visits[i].service # s THEN visits[i]
                        ELSE [visits[i] EXCEPT !.lists[e] = OneMore(@, Bin(t))]]
    /\ UNCHANGED <<access, report, upto, registering, raced, crashed>>
AddAccess(s, e) ==
    /\ ~crashed /\ access = "free"
    /\ \E t \in Times :
          visits' = [i \in DOMAIN visits |->
                        IF visits[i].service # s THEN visits[i]
                        ELSE [visits[i] EXCEPT !.lists[e] = OneMore(@, Bin(t))]]
    /\ UNCHANGED <<access, report, upto, registering, raced, crashed>>

\* get_pretty_stats.
ReportBegin ==
    /\ ~crashed /\ access = "free"
    /\ access' = "report" /\ report' = <<>> /\ upto' = Len(visits)
    /\ IF registering THEN Race ELSE UNCHANGED <<raced, crashed>>
    /\ UNCHANGED <<visits, registering>>
ReportService ==
    /\ ~crashed /\ access = "report" /\ Len(report) < upto
    /\ report' = Append(report, visits[Len(report) + 1])
    /\ UNCHANGED <<visits, access, upto, registering, raced, crashed>>
ReportEnd ==
    /\ ~crashed /\ access = "report" /\ Len(report) = upto
    /\ access' = "free" /\ report' = <<>> /\ upto' = 0 /\ raced' = FALSE
    /\ UNCHANGED <<visits, registering, crashed>>

VisitInit ==
    /\ visits = <<>> /\ access = "free" /\ report = <<>> /\ upto = 0
    /\ registering = FALSE /\ raced = FALSE /\ crashed = FALSE
Report == ReportBegin \/ ReportService \/ ReportEnd
-----------------------------------------------------------------------------
\* Accesses counted for a service.
Total(i) ==
    LET lists == visits[i].lists
        sum(list) == FoldSeq(LAMBDA b, acc : b.count + acc, 0, list)
    IN MapThenSumSet(LAMBDA e : sum(lists[e]), Endpoints)

\* The report under way shows every service as it is at one moment, although
\* handlers count accesses while it is written.
Snapshot ==
    access = "report" /\ ~raced =>
        \A i \in DOMAIN report : report[i] = visits[i]
=============================================================================
