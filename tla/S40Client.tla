----------------------------- MODULE S40Client -----------------------------
(***************************************************************************)
(* The thermostat's client (aio_landing/s40_client.cpp).  The first        *)
(* handler that needs it makes it, and it starts a thread that polls the   *)
(* thermostat for ever: it connects, asks for the data, retrieves messages *)
(* until one has a field, and publishes all fields at once.                *)
(*                                                                         *)
(* A message gives any of the fields and may be cut short by an exception, *)
(* which is swallowed: what it gave is kept, and the next one is awaited.  *)
(* A value is the number of the cycle that it comes from; 0 is the default.*)
(***************************************************************************)
EXTENDS Integers

CONSTANTS
    Fields,       \* temperature, humidity, fan, mode, setpoint
    MaxRetrieves, \* retrievals of a cycle (60)
    MaxCycles     \* bound: cycles of loop()

ASSUME S40Assumption == MaxRetrieves \in Nat /\ MaxCycles \in Nat

VARIABLES
    poll,       \* loop(): "off" (no client yet), "fetch", "fetched", "sleep"
    cycle,      \* how often it has been round
    tries,      \* i of the retrievals
    result,     \* fetch_data's result
    valid,      \* and its valid
    values,     \* temperature_ ... mode_
    data_valid  \* data_valid_

s40Vars == <<poll, cycle, tries, result, valid, values, data_valid>>

Defaults == [f \in Fields |-> 0]
-----------------------------------------------------------------------------
FetchData ==
    /\ cycle < MaxCycles
    /\ poll' = "fetch" /\ cycle' = cycle + 1
    /\ tries' = 0 /\ result' = Defaults /\ valid' = FALSE
    /\ UNCHANGED <<values, data_valid>>

\* getInstance, in a handler that then returns one of the values.
GetInstance == IF poll = "off" THEN FetchData ELSE UNCHANGED s40Vars

\* An answer of the thermostat: fields that it has up to the exception, if any.
Retrieve ==
    /\ poll = "fetch" /\ tries < MaxRetrieves
    /\ \E given \in SUBSET Fields :
          /\ result' = [f \in Fields |-> IF f \in given THEN cycle ELSE result[f]]
          /\ valid' = (valid \/ given # {})
    /\ \/ tries' = tries + 1 /\ UNCHANGED poll
       \/ valid' /\ tries' = 0 /\ poll' = "fetched"
    /\ UNCHANGED <<cycle, values, data_valid>>

\* Any exchange fails, or there have been enough.
GiveUp ==
    /\ poll = "fetch"
    /\ poll' = "fetched" /\ tries' = 0
    /\ UNCHANGED <<cycle, result, valid, values, data_valid>>

\* Broken form: fields that did not come keep their values.
PublishGiven ==
    /\ poll = "fetched"
    /\ poll' = "sleep"
    /\ IF valid THEN /\ values' = [f \in Fields |->
                                      IF result[f] # 0 THEN result[f] ELSE values[f]]
                     /\ data_valid' = TRUE
       ELSE UNCHANGED <<values, data_valid>>
    /\ result' = Defaults /\ valid' = FALSE
    /\ UNCHANGED <<cycle, tries>>
Publish ==
    /\ poll = "fetched"
    /\ poll' = "sleep"
    /\ IF valid THEN values' = result /\ data_valid' = TRUE
       ELSE UNCHANGED <<values, data_valid>>
    /\ result' = Defaults /\ valid' = FALSE
    /\ UNCHANGED <<cycle, tries>>

Refresh == poll = "sleep" /\ FetchData

S40Init ==
    /\ poll = "off" /\ cycle = 0 /\ tries = 0
    /\ result = Defaults /\ valid = FALSE
    /\ values = Defaults /\ data_valid = FALSE
S40Next == Retrieve \/ GiveUp \/ Publish \/ Refresh
S40Spec == S40Init /\ [][(GetInstance /\ poll = "off") \/ S40Next]_s40Vars
-----------------------------------------------------------------------------
\* Types of the variables.
S40TypeOK ==
    /\ poll \in {"off", "fetch", "fetched", "sleep"}
    /\ cycle \in 0 .. MaxCycles /\ tries \in 0 .. MaxRetrieves
    /\ result \in [Fields -> Nat] /\ values \in [Fields -> Nat]
    /\ valid \in BOOLEAN /\ data_valid \in BOOLEAN

\* What is shown comes from one cycle, a finished one: never from two, though
\* cycles fail and messages come in parts; and it is all default only as long as
\* no cycle has succeeded.
OneCycle ==
    \E c \in 0 .. cycle :
        /\ \A f \in Fields : values[f] \in {0, c}
        /\ data_valid <=> c # 0
        /\ data_valid => \E f \in Fields : values[f] = c
        /\ poll \in {"fetch", "fetched"} => c # cycle
=============================================================================
