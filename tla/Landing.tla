------------------------------ MODULE Landing ------------------------------
(***************************************************************************)
(* The landing page's acceptor (aio_landing/landing_accept.cpp) and its    *)
(* connections.  Every connection is a chain of three objects that the     *)
(* dispatcher runs: the server S (landing_server.cpp), under it the HTTP   *)
(* object H (readwrite_http.cpp), under it the socket B                    *)
(* (readwrite_bytes.cpp).  S keeps an idle timer.                          *)
(*                                                                         *)
(* The queue and the ring are those of ThreadData, with the turns of these *)
(* classes.  Fewer than 256 messages are ever queued here, so a batch ends *)
(* when the queue is empty.  Data reach an object as long as it lives      *)
(* (ThreadData's ProcsOwned), and calls find their object                  *)
(* (CallTargetAlive).                                                      *)
(***************************************************************************)
EXTENDS Integers, Sequences, FiniteSets

CONSTANTS
    MaxConn,    \* bound: connections ever accepted
    MaxReq,     \* bound: requests completed on one connection
    Families,   \* listening sockets: op 0 is IPv4, op 1 is IPv6
    Timeouts    \* may the idle timer fire?

ASSUME LandingAssumption ==
    /\ MaxConn \in Nat /\ MaxReq \in Nat /\ Timeouts \in BOOLEAN
    /\ IsFiniteSet(Families)

Conns == 1 .. MaxConn   \* connection c is local task c - 1 of the acceptor
None == 0

VARIABLES
    q,         \* the thread's queue
    ring,      \* operations in flight
    slots,     \* acceptor: sub_events[AioLandingHTTP]
    indices,   \* acceptor: indices, from task to slot
    accepted,  \* acceptor: connections so far (local_proc_id)
    objs,      \* live objects of every connection
    srv,       \* S: op_read_ and timer_, and requests so far (for MaxReq)
    http,      \* H: read_op_ and whether parser_ is set
    timers,    \* timers armed so far: at reap, how many had been armed
    finished,  \* history: completions S sent (2 stands for more)
    hit,       \* history: connections whose timer another one's cancel removed
    crashed    \* an exception ended the process

vars == <<q, ring, slots, indices, accepted, objs, srv, http, timers, finished,
          hit, crashed>>

Msg(kind, to, c, ok) == [kind |-> kind, to |-> to, c |-> c, ok |-> ok]
Call(to, fun, c) == Msg(fun, to, c, TRUE)
Done(to, c, ok) == Msg("done", to, c, ok)
Op(op, c, n) == [op |-> op, c |-> c, n |-> n]
Elems(s) == {s[i] : i \in DOMAIN s}

Handles(kind, to) ==
    /\ ~crashed
    /\ q # <<>> /\ Head(q).kind = kind /\ Head(q).to = to
Push(ms) == q' = Tail(q) \o ms
-----------------------------------------------------------------------------
(* The acceptor.                                                            *)

\* Event::construct takes the first free slot of the vector, or a new one.
Free == {i \in DOMAIN slots : slots[i] = None}
SlotFirst == 1   \* Broken form: the first slot, free or not
Slot == IF Free = {} THEN Len(slots) + 1
        ELSE CHOOSE i \in Free : \A j \in Free : i <= j

\* Broken form: an accept that failed is not armed again.
AcceptedArmsOnSuccess ==
    /\ Handles("accept", "A")
    /\ IF Head(q).ok /\ accepted < MaxConn
       THEN LET c == accepted + 1 IN
            /\ accepted' = c
            /\ slots' = [i \in DOMAIN slots \union {Slot} |->
                            IF i = Slot THEN c ELSE slots[i]]
            /\ indices' = [t \in DOMAIN indices \union {c} |->
                              IF t = c THEN Slot ELSE indices[t]]
            /\ Push(<<Call("S", "construct", c), Call("S", "start", c)>>)
            /\ ring' = ring \union {Op("accept", Head(q).c, 0)}
       ELSE /\ Push(<<>>)
            /\ UNCHANGED <<ring, accepted, slots, indices>>
    /\ UNCHANGED <<objs, srv, http, timers, finished, hit, crashed>>

\* on_yield of an accept: a connection is made and started, and the listening
\* socket is armed again at once, also after an error.  (Past MaxConn, the bound,
\* an accept counts as an error.)
Accepted ==
    /\ Handles("accept", "A")
    /\ ring' = ring \union {Op("accept", Head(q).c, 0)}
    /\ IF Head(q).ok /\ accepted < MaxConn
       THEN LET c == accepted + 1 IN
            /\ accepted' = c
            /\ slots' = [i \in DOMAIN slots \union {Slot} |->
                            IF i = Slot THEN c ELSE slots[i]]
            /\ indices' = [t \in DOMAIN indices \union {c} |->
                              IF t = c THEN Slot ELSE indices[t]]
            /\ Push(<<Call("S", "construct", c), Call("S", "start", c)>>)
       ELSE /\ Push(<<>>)
            /\ UNCHANGED <<accepted, slots, indices>>
    /\ UNCHANGED <<objs, srv, http, timers, finished, hit, crashed>>

\* Broken form: d() leaves the slot as it is.
ReleasedKeepsSlot ==
    /\ Handles("done", "A")
    /\ LET c == Head(q).c IN Push(<<Call("S", "delete", c)>>)
    /\ UNCHANGED <<ring, slots, indices, accepted, objs, srv, http, timers,
                   finished, hit, crashed>>

\* on_yield of a completion: indices[task] is 0, the first slot, for a task it
\* does not know, and d() throws on a slot that is empty.
Released ==
    /\ Handles("done", "A")
    /\ LET c == Head(q).c
           slot == IF c \in DOMAIN indices THEN indices[c] ELSE 1
       IN IF slots[slot] = None
          THEN /\ crashed' = TRUE
               /\ UNCHANGED <<q, slots, indices>>
          ELSE /\ slots' = [slots EXCEPT ![slot] = None]
               /\ indices' = [t \in DOMAIN indices \ {c} |-> indices[t]]
               /\ Push(<<Call("S", "delete", slots[slot])>>)
               /\ UNCHANGED crashed
    /\ UNCHANGED <<ring, accepted, objs, srv, http, timers, finished, hit>>
-----------------------------------------------------------------------------
(* Construction and deletion go down the chain.                            *)
Below(to) == CASE to = "S" -> {"H"} [] to = "H" -> {"B"} [] to = "B" -> {}
Down(kind, to, c) ==
    IF Below(to) = {} THEN <<>> ELSE <<Call(CHOOSE b \in Below(to) : TRUE, kind, c)>>

Construct(to) ==
    /\ Handles("construct", to)
    /\ LET c == Head(q).c IN
       /\ objs' = [objs EXCEPT ![c] = @ \union {to}]
       /\ Push(Down("construct", to, c))
    /\ UNCHANGED <<ring, slots, indices, accepted, srv, http, timers, finished,
                   hit, crashed>>

\* Broken form: the children are not deleted.
DeleteOnlySelf(to) ==
    /\ Handles("delete", to)
    /\ Push(<<>>)
    /\ objs' = [objs EXCEPT ![Head(q).c] = @ \ {to}]
    /\ UNCHANGED <<ring, slots, indices, accepted, srv, http, timers, finished,
                   hit, crashed>>

Delete(to) ==
    /\ Handles("delete", to)
    /\ LET c == Head(q).c IN
       /\ Push(IF to \in objs[c] THEN Down("delete", to, c) ELSE <<>>)
       /\ objs' = [objs EXCEPT ![c] = @ \ {to}]
    /\ UNCHANGED <<ring, slots, indices, accepted, srv, http, timers, finished,
                   hit, crashed>>

\* Data for an object that is gone.
Dropped(kind, to) ==
    /\ Handles(kind, to)
    /\ to \notin objs[Head(q).c]
    /\ Push(<<>>)
    /\ UNCHANGED <<ring, slots, indices, accepted, objs, srv, http, timers,
                   finished, hit, crashed>>
-----------------------------------------------------------------------------
(* The socket B.                                                            *)
SocketCall(fun, op) ==
    /\ Handles(fun, "B")
    /\ ring' = ring \union {Op(op, Head(q).c, 0)}
    /\ Push(<<>>)
    /\ UNCHANGED <<slots, indices, accepted, objs, srv, http, timers, finished,
                   hit, crashed>>

\* Broken form: a send that was cut short is reported and goes on as well.
SocketDataBoth(op) ==
    /\ Handles(op, "B")
    /\ "B" \in objs[Head(q).c]
    /\ LET c == Head(q).c IN
       /\ Push(<<Done("H", c, Head(q).ok)>>)
       /\ ring' = ring \union IF op = "send" /\ Head(q).ok
                              THEN {Op("send", c, 0)} ELSE {}
    /\ UNCHANGED <<slots, indices, accepted, objs, srv, http, timers, finished,
                   hit, crashed>>

\* on_yield: a failure or what was read goes up; a send that was cut short goes
\* on with the rest.
SocketData(op) ==
    /\ Handles(op, "B")
    /\ "B" \in objs[Head(q).c]
    /\ LET c == Head(q).c IN
       \/ /\ Push(<<Done("H", c, Head(q).ok)>>)
          /\ UNCHANGED ring
       \/ /\ op = "send" /\ Head(q).ok
          /\ Push(<<>>)
          /\ ring' = ring \union {Op("send", c, 0)}
    /\ UNCHANGED <<slots, indices, accepted, objs, srv, http, timers, finished,
                   hit, crashed>>
-----------------------------------------------------------------------------
(* The HTTP object H.                                                      *)

HttpCall(fun) ==
    /\ Handles(fun, "H")
    /\ LET c == Head(q).c IN
       /\ http' = [http EXCEPT ![c] =
                     [reading |-> fun = "read",
                      parser |-> IF fun = "read" THEN TRUE ELSE @.parser]]
       /\ Push(<<Call("B", fun, c)>>)
    /\ UNCHANGED <<ring, slots, indices, accepted, objs, srv, timers, finished,
                   hit, crashed>>

\* on_yield: a failure goes up, a request that is not complete needs another
\* read, a complete one (or one the parser rejects) and a response that is
\* sent are answered.
HttpData ==
    /\ Handles("done", "H")
    /\ "H" \in objs[Head(q).c]
    /\ LET c == Head(q).c IN
       \/ /\ Head(q).ok /\ http[c].reading => srv[c].served < MaxReq
          /\ Push(<<Done("S", c, Head(q).ok)>>)
       \/ /\ Head(q).ok /\ http[c].reading
          /\ Push(<<Call("B", "read", c)>>)
    /\ UNCHANGED <<ring, slots, indices, accepted, objs, srv, http, timers,
                   finished, hit, crashed>>
-----------------------------------------------------------------------------
(* The server S and its timer.                                             *)
\* process_uring deletes the IoUringAttached of an operation that has ended.
Freed(ended) ==
    [n \in DOMAIN timers |->
        IF n \in {o.n : o \in ended} THEN Len(timers) ELSE timers[n]]

Arm(c, ops) == ops \union {Op("timer", c, Len(timers) + 1)}

\* timeout_remove finds the operation by the address kept in the timers table.
\* A timer the kernel still has is removed or has just expired; the address of
\* one that was reaped is free, and the operation of a timer armed since may
\* have it.
Cancelled(n) ==
    LET own == {o \in ring : o.n = n}
        others == {o \in ring : o.op = "timer" /\ o.n > timers[n]}
    IN IF own # {}
       THEN {ring \ own}
              \union IF Timeouts
                     THEN {(ring \ own)
                              \union {[o EXCEPT !.op = "expired"] : o \in own}}
                     ELSE {}
       ELSE {ring} \union {ring \ {o} : o \in others}

\* Broken form: the first request is read without a timer.
StartNoTimer ==
    /\ Handles("start", "S")
    /\ LET c == Head(q).c IN
       /\ srv' = [srv EXCEPT ![c] = [reading |-> TRUE, timer |-> Len(timers) + 1,
                                     served |-> 0]]
       /\ Push(<<Call("H", "read", c)>>)
       /\ timers' = Append(timers, None)
    /\ UNCHANGED <<ring, slots, indices, accepted, objs, http, finished, hit,
                   crashed>>

\* Broken form: the timer is armed but has no entry in the table.
StartForgetsTable ==
    /\ Handles("start", "S")
    /\ LET c == Head(q).c IN
       /\ srv' = [srv EXCEPT ![c] = [reading |-> TRUE, timer |-> Len(timers) + 1,
                                     served |-> 0]]
       /\ Push(<<Call("H", "read", c)>>)
       /\ ring' = Arm(c, ring)
    /\ UNCHANGED <<slots, indices, accepted, objs, http, timers, finished, hit,
                   crashed>>

Start ==
    /\ Handles("start", "S")
    /\ LET c == Head(q).c IN
       /\ srv' = [srv EXCEPT ![c] = [reading |-> TRUE, timer |-> Len(timers) + 1,
                                     served |-> 0]]
       /\ Push(<<Call("H", "read", c)>>)
       /\ ring' = Arm(c, ring)
       /\ timers' = Append(timers, None)
    /\ UNCHANGED <<slots, indices, accepted, objs, http, finished, hit, crashed>>

\* The task of S completes: its result goes to the acceptor.
Complete(c) ==
    /\ Push(<<Done("A", c, FALSE)>>)
    /\ finished' = [finished EXCEPT ![c] = IF @ = 2 THEN 2 ELSE @ + 1]

ServerFails ==
    /\ Handles("done", "S") \/ Handles("timeout", "S")
    /\ ~Head(q).ok
    /\ "S" \in objs[Head(q).c]
    /\ Complete(Head(q).c)
    /\ UNCHANGED <<ring, slots, indices, accepted, objs, srv, http, timers, hit,
                   crashed>>

\* A request has been read: the timer is cancelled, the parser is moved out of
\* H by direct_access and the response is written.
RequestRead ==
    /\ Handles("done", "S")
    /\ LET c == Head(q).c IN
       /\ Head(q).ok /\ "S" \in objs[c] /\ srv[c].reading
       /\ ring' \in Cancelled(srv[c].timer)
       /\ timers' = Freed({o \in ring : /\ o.n # srv[c].timer
                                     /\ \A p \in ring' : p.n # o.n})
       /\ hit' = hit \union {o.c : o \in {p \in ring \ ring' :
                       p.n # srv[c].timer /\ p.op = "timer"}}
       /\ srv' = [srv EXCEPT ![c].reading = FALSE, ![c].served = @ + 1]
       /\ http' = [http EXCEPT ![c].parser = FALSE]
       /\ Push(<<Call("H", "write", c)>>)
    /\ UNCHANGED <<slots, indices, accepted, objs, finished, crashed>>

\* Broken form: the next request is read without a timer.
ResponseSentNoTimer ==
    /\ Handles("done", "S")
    /\ LET c == Head(q).c IN
       /\ Head(q).ok /\ "S" \in objs[c] /\ ~srv[c].reading
       /\ srv' = [srv EXCEPT ![c].reading = TRUE]
       /\ Push(<<Call("H", "read", c)>>)
    /\ UNCHANGED <<ring, slots, indices, accepted, objs, http, timers, finished,
                   hit, crashed>>

\* Broken form: the new timer is armed, but S goes on with the old one's number.
ResponseSentOldTimer ==
    /\ Handles("done", "S")
    /\ LET c == Head(q).c IN
       /\ Head(q).ok /\ "S" \in objs[c] /\ ~srv[c].reading
       /\ srv' = [srv EXCEPT ![c].reading = TRUE]
       /\ ring' = Arm(c, ring)
       /\ timers' = Append(timers, None)
       /\ Push(<<Call("H", "read", c)>>)
    /\ UNCHANGED <<slots, indices, accepted, objs, http, finished, hit, crashed>>

\* The response has been sent: a new timer, and the next request is read.
ResponseSent ==
    /\ Handles("done", "S")
    /\ LET c == Head(q).c IN
       /\ Head(q).ok /\ "S" \in objs[c] /\ ~srv[c].reading
       /\ srv' = [srv EXCEPT ![c].reading = TRUE, ![c].timer = Len(timers) + 1]
       /\ ring' = Arm(c, ring)
       /\ timers' = Append(timers, None)
       /\ Push(<<Call("H", "read", c)>>)
    /\ UNCHANGED <<slots, indices, accepted, objs, http, finished, hit, crashed>>
-----------------------------------------------------------------------------
(* process_uring: any of the operations may have completed, in any order,  *)
(* and those that expired have.                                            *)
Orders(S) == {s \in [1 .. Cardinality(S) -> S] : Elems(s) = S}
Receiver(o) == IF o.op = "accept" THEN "A"
               ELSE IF o.op \in {"timer", "expired"} THEN "S" ELSE "B"
Completion(o, ok) ==
    IF o.n = 0 THEN Msg(o.op, Receiver(o), o.c, ok)
    ELSE Msg("timeout", "S", o.c, FALSE)

Reap(arrived) ==
    /\ ~crashed
    /\ q = <<>>
    /\ {o \in ring : o.op = "expired"} \subseteq arrived
    /\ Timeouts \/ \A o \in arrived : o.n = 0
    /\ \E s \in Orders(arrived) : \E ok \in [DOMAIN s -> BOOLEAN] :
          /\ \A i \in DOMAIN s : s[i].n # 0 => ~ok[i]
          /\ q' = [i \in DOMAIN s |-> Completion(s[i], ok[i])]
    /\ ring' = ring \ arrived
    /\ timers' = Freed(arrived)
    /\ UNCHANGED <<slots, indices, accepted, objs, srv, http, finished, hit,
                   crashed>>

Init ==   \* after LandingAccept::init has armed the listening sockets
    /\ q = <<>>
    /\ ring = {Op("accept", f, 0) : f \in Families}
    /\ slots = <<>> /\ indices = <<>> /\ accepted = 0
    /\ objs = [c \in Conns |-> {}]
    /\ srv = [c \in Conns |-> [reading |-> FALSE, timer |-> 0, served |-> 0]]
    /\ http = [c \in Conns |-> [reading |-> FALSE, parser |-> FALSE]]
    /\ timers = <<>>
    /\ finished = [c \in Conns |-> 0]
    /\ hit = {}
    /\ crashed = FALSE

Handle ==
    \/ Accepted \/ Released \/ HttpData
    \/ Start \/ ServerFails \/ RequestRead \/ ResponseSent
    \/ \E to \in {"S", "H", "B"} : Construct(to) \/ Delete(to)
    \/ \E fun \in {"read", "write"} : HttpCall(fun)
    \/ SocketCall("read", "recv") \/ SocketCall("write", "send")
    \/ \E op \in {"recv", "send"} : SocketData(op) \/ Dropped(op, "B")
    \/ Dropped("done", "H") \/ Dropped("done", "S") \/ Dropped("timeout", "S")

Next == Handle \/ \E arrived \in SUBSET ring : Reap(arrived)
Spec == Init /\ [][Next]_vars

\* run() handles what is queued, and whenever the queue is empty it reaps
\* everything that has completed.  The kernel completes every timer; nothing
\* makes a peer send, read or close.
LoopSpec == Spec /\ WF_vars(Handle)
FairSpec ==
    /\ LoopSpec
    /\ \A n \in 1 .. MaxConn * (MaxReq + 1) :
          SF_vars(\E arrived \in SUBSET ring :
                     /\ \E o \in arrived : o.n = n
                     /\ Reap(arrived))
-----------------------------------------------------------------------------
\* Types and bounds of the tables.
TypeOK ==
    /\ \A o \in ring : /\ o.op \in {"accept", "recv", "send", "timer", "expired"}
                       /\ o.op \in {"timer", "expired"} <=> o.n \in DOMAIN timers
    /\ slots \in Seq({None} \union Conns) /\ Len(slots) <= MaxConn
    /\ indices \in [DOMAIN indices -> DOMAIN slots]
    /\ accepted \in 0 .. MaxConn /\ DOMAIN indices \subseteq 1 .. accepted
    /\ objs \in [Conns -> SUBSET {"S", "H", "B"}]
    /\ srv \in [Conns -> [reading : BOOLEAN, timer : 0 .. Len(timers),
                          served : 0 .. MaxReq]]
    /\ http \in [Conns -> [reading : BOOLEAN, parser : BOOLEAN]]
    /\ timers \in Seq(0 .. Len(timers)) /\ finished \in [Conns -> 0 .. 2]
    /\ hit \subseteq Conns /\ crashed \in BOOLEAN

\* One thing at a time: the calls, the answers and the operations that carry a
\* connection's request through S, H and B are never more than one, so no two
\* of them use read_op_, the parser or a buffer at once, timeouts included.
OneAtATime ==
    \A c \in Conns :
        LET queued == {i \in DOMAIN q :
                          /\ q[i].c = c /\ q[i].to # "A"
                          /\ q[i].kind \notin {"construct", "delete", "timeout"}}
            inFlight == {o \in ring : o.c = c /\ o.op \in {"recv", "send"}}
        IN Cardinality(queued) + Cardinality(inFlight) <= 1

\* on_yield of S takes the parser out of H without a check (direct_access,
\* value() and operator* of the unique_ptr): when S hears that a request is
\* complete, H is alive and its parser is set.
ParserReady ==
    q # <<>> /\ Head(q).kind = "done" /\ Head(q).to = "S" /\ Head(q).ok =>
        LET c == Head(q).c IN
        "S" \in objs[c] /\ srv[c].reading => "H" \in objs[c] /\ http[c].parser

\* A connection's objects (on_yield of S, H and B) take turns: what one leaves in
\* the shared parser and buffers is there for the next, and nobody else's.
OneTurn == OneAtATime /\ ParserReady

\* LandingAccept re-arms immediately: every listening socket has one accept in
\* flight or one result in the queue, whatever connections do.
AcceptArmed ==
    \A f \in Families :
        Cardinality({o \in ring : o.op = "accept" /\ o.c = f})
          + Cardinality({i \in DOMAIN q : q[i].kind = "accept" /\ q[i].c = f}) = 1

\* A connection that waits for a request is covered by its idle timer: it is
\* pending, or its Timeout is queued, or S has completed already, or another
\* connection's cancellation hit its timer (timers keeps a freed address).
TimerCovers ==
    \A c \in Conns :
        "S" \in objs[c] /\ srv[c].reading =>
            \/ \E o \in ring : o.n = srv[c].timer
            \/ \E i \in DOMAIN q : q[i].kind = "timeout" /\ q[i].c = c
            \/ finished[c] > 0
            \/ c \in hit

\* timers keeps the address of an operation that process_uring has freed, so a
\* cancellation may hit the timer of another connection that was given the same
\* address (process_queued_timers).  Only a connection whose task has completed
\* already, in the batch that brought its own Timeout, or whose own timer was hit
\* in this way, ever cancels so late.
LateCancel ==
    [][hit' # hit => LET c == Head(q).c IN finished[c] > 0 \/ c \in hit]_vars

\* The constructor closure of construct() captures its parent by reference and
\* writes the parent's slot when construct_call runs it: the parent is still
\* alive then.
ParentAlive ==
    \A c \in Conns :
        /\ Head(q) = Call("H", "construct", c) => "S" \in objs[c]
        /\ Head(q) = Call("B", "construct", c) => "H" \in objs[c]

\* Between two batches a connection that the acceptor holds has its three
\* objects and any other has none: no path through completion, timeout and
\* deletion leaves part of a connection behind, or makes a part of one that
\* has gone.
AllOrNothing ==
    /\ q = <<>> /\ ~crashed =>
          \A c \in Conns : objs[c] = IF c \in Elems(slots) THEN {"S", "H", "B"}
                                     ELSE {}
    /\ q # <<>> => ParentAlive

\* The acceptor's two tables agree: the task of a connection that has not been
\* released leads to the slot with that connection, and every slot in use is
\* some task's.
SlotsOwned ==
    /\ \A c \in DOMAIN indices : slots[indices[c]] = c
    /\ \A i \in DOMAIN slots : slots[i] # None => slots[i] \in DOMAIN indices

\* "@returns If task complete, pair<failure, ret_code>, if need to continue,
\* nullopt" (event.h:42): the task of a connection completes at most once.
CompletesOnce == \A c \in Conns : finished[c] <= 1

\* The acceptor trusts every completion it hears (indices[task], d()).  Only a
\* task that completes twice can make its tables disagree or end the process.
NeedsTwice == CompletesOnce => SlotsOwned /\ ~crashed

\* What the acceptor promises: accepted, finished once, released, in this order
\* and without end in between.
Promise == INSTANCE Connections WITH
    state <- [c \in Conns |->
        IF c > accepted THEN "none"
        ELSE IF c \notin Elems(slots) THEN "closed"
        ELSE IF finished[c] > 0 THEN "finished" ELSE "open"]
KeepsPromise == Promise!Spec

\* A connection does not stay for ever: its objects go, or it comes to send a
\* response (no timer runs then), also when the peer is silent or sends its
\* request byte by byte.  Nothing is said once another connection's
\* cancellation hit its timer.
Sending(c) == Op("send", c, 0) \in ring
IdleReclaimed ==
    \A c \in Conns : "S" \in objs[c] ~>
        "S" \notin objs[c] \/ Sending(c) \/ c \in hit \/ crashed
=============================================================================
