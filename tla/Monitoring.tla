----------------------------- MODULE Monitoring -----------------------------
(***************************************************************************)
(* One connection of the bandwidth monitor                                 *)
(* (bandwidth_monitor/monitoring_server.cpp).  The server S has an HTTP    *)
(* object H over a socket B, as the landing page has.  After an upgrade it *)
(* makes a clock T (bandwidth_data_timer.cpp) and a frame writer W         *)
(* (websocket_socket.cpp), sends the logs in chunks, a marker, and then a  *)
(* live record whenever the clock has ticked and the last record has gone. *)
(* All three share S's IoUringData (i_s), which is how W finds H's socket. *)
(*                                                                         *)
(* Queue, ring and timers as in Landing, with one connection, so that no   *)
(* other one's cancellation can hit its timer.  The acceptor               *)
(* (bandwidth_accept.cpp) does not erase the task from indices_, as the    *)
(* landing page's does: a second completion finds the same slot again,     *)
(* which is empty.                                                         *)
(***************************************************************************)
EXTENDS Integers, Sequences, FiniteSets

CONSTANTS
    MaxReq,    \* bound: HTTP requests
    MaxLogs,   \* bound: chunks of logs
    MaxLive    \* bound: live records

ASSUME MonitoringAssumption ==
    MaxReq \in Nat /\ MaxLogs \in Nat /\ MaxLive \in Nat

Objects == {"S", "H", "B", "T", "W"}
Stages == {"Read", "Write", "WebsocketInit", "WebsocketLogs", "WebsocketLive"}

VARIABLES
    q,         \* the thread's queue
    ring,      \* operations in flight
    held,      \* the acceptor's slot holds the connection
    objs,      \* live objects
    children,  \* obj_info[...].children of S and W
    stage,     \* S: current_op_
    http,      \* H: read_op_, and whether parser_ is set
    frame,     \* W: w_buf_ is set
    pace,      \* S: the live stage's flags and task numbers
    timer,     \* S: timer_, numbered from 1
    count,     \* requests, log chunks and live records so far (the bounds)
    finished,  \* history: completions S sent (2 stands for more)
    crashed    \* an exception ended the process

vars == <<q, ring, held, objs, children, stage, http, frame, pace, timer,
          count, finished, crashed>>
server == <<stage, pace, timer, count>>

\* by is the object to be answered, task the task an answer is about.  Live
\* record k has the tasks 2k - 1 (clock) and 2k (frame); all others are Other.
Other == -1
Msg(kind, to, by, task, ok) ==
    [kind |-> kind, to |-> to, by |-> by, task |-> task, ok |-> ok]
Call(fun, to, by, task) == Msg(fun, to, by, task, TRUE)
Done(to, task, ok) == Msg("done", to, "none", task, ok)
Op(op, by, n) == [op |-> op, by |-> by, n |-> n]
Elems(s) == {s[i] : i \in DOMAIN s}
Orders(S) == {s \in [1 .. Cardinality(S) -> S] : Elems(s) = S}

Handles(kind, to) ==
    /\ ~crashed
    /\ q # <<>> /\ Head(q).kind = kind /\ Head(q).to = to
Hears(kind, to) == Handles(kind, to) /\ to \in objs
Push(ms) == q' = Tail(q) \o ms
-----------------------------------------------------------------------------
(* The acceptor, constructions and deletions.                              *)

\* BandwidthMonitorAccept::on_yield: indices_ keeps the task, and d() throws when
\* the slot is empty.
Released ==
    /\ Handles("done", "A")
    /\ IF held
       THEN Push(<<Call("delete", "S", "A", Other)>>) /\ UNCHANGED crashed
       ELSE crashed' = TRUE /\ UNCHANGED q
    /\ held' = FALSE
    /\ UNCHANGED <<ring, objs, children, server, http, frame, finished>>

\* The closure writes a slot of the parent, which may be gone: then anything
\* may happen.
Construct(to) ==
    /\ Handles("construct", to)
    /\ crashed' \in IF Head(q).by \in objs \union {"A"} THEN {FALSE} ELSE BOOLEAN
    /\ objs' = objs \union {to}
    /\ Push(CASE to = "S" -> <<Call("construct", "H", "S", Other)>>
              [] to = "H" -> <<Call("construct", "B", "H", Other)>>
              [] OTHER -> <<>>)
    /\ children' = [children EXCEPT ![to] = CASE to = "S" -> {"H"}
                                              [] to = "H" -> {"B"}
                                              [] OTHER -> {}]
    /\ UNCHANGED <<ring, held, server, http, frame, finished>>

\* Broken form: the children go at once, with their children.
DeleteAtOnce(to) ==
    LET below == children[to] \union UNION {children[c] : c \in children[to]}
    IN /\ Handles("delete", to)
       /\ Push(<<>>)
       /\ objs' = objs \ ({to} \union below)
       /\ children' = [o \in Objects |-> IF o \in {to} \union below THEN {}
                                        ELSE children[o]]
       /\ UNCHANGED <<ring, held, server, http, frame, finished, crashed>>

\* In any order, and the socket twice: W has called it too.
Delete(to) ==
    /\ Handles("delete", to)
    /\ \E s \in Orders(children[to]) :
          Push([i \in DOMAIN s |-> Call("delete", s[i], to, Other)])
    /\ objs' = objs \ {to}
    /\ children' = [children EXCEPT ![to] = {}]
    /\ UNCHANGED <<ring, held, server, http, frame, finished, crashed>>

Dropped(kind, to) ==
    /\ Handles(kind, to) /\ to \notin objs
    /\ Push(<<>>)
    /\ UNCHANGED <<ring, held, objs, children, server, http, frame, finished,
                   crashed>>
-----------------------------------------------------------------------------
(* B, H, T and W.                                                          *)
SocketCall(fun, op) ==
    /\ Handles(fun, "B")
    /\ ring' = ring \union {Op(op, Head(q).by, 0)}
    /\ Push(<<>>)
    /\ UNCHANGED <<held, objs, children, server, http, frame, finished, crashed>>

\* As in Landing; the answer goes to the object that made the call.  At the
\* bound MaxLive a peer does not take a whole record any more.
SocketData(op) ==
    /\ Hears(op, "B")
    /\ \/ /\ Head(q).ok /\ Head(q).by = "W" /\ stage = "WebsocketLive" =>
                count.live < MaxLive
          /\ Push(<<Done(Head(q).by, Other, Head(q).ok)>>)
          /\ UNCHANGED ring
       \/ /\ op = "send" /\ Head(q).ok
          /\ Push(<<>>)
          /\ ring' = ring \union {Op("send", Head(q).by, 0)}
    /\ UNCHANGED <<held, objs, children, server, http, frame, finished, crashed>>

HttpCall(fun) ==
    /\ Handles(fun, "H")
    /\ http' = [reading |-> fun = "read", parser |-> fun = "read" \/ http.parser]
    /\ Push(<<Call(fun, "B", "H", Other)>>)
    /\ UNCHANGED <<ring, held, objs, children, server, frame, finished, crashed>>

\* As in Landing, with the bound MaxReq.
HttpData ==
    /\ Hears("done", "H")
    /\ \/ /\ Head(q).ok /\ http.reading => count.requests < MaxReq
          /\ Push(<<Done("S", Other, Head(q).ok)>>)
       \/ /\ Head(q).ok /\ http.reading
          /\ Push(<<Call("read", "B", "H", Other)>>)
    /\ UNCHANGED <<ring, held, objs, children, server, http, frame, finished,
                   crashed>>

\* prepare_timer arms the clock; whatever its read gives, on_yield says it ticked.
ClockCall ==
    /\ Handles("tick", "T")
    /\ ring' = ring \union {Op("clock", "T", Head(q).task)}
    /\ Push(<<>>)
    /\ UNCHANGED <<held, objs, children, server, http, frame, finished, crashed>>

ClockData ==
    /\ Hears("clock", "T")
    /\ Push(<<Done("S", Head(q).task, TRUE)>>)
    /\ UNCHANGED <<ring, held, objs, children, server, http, frame, finished,
                   crashed>>

\* write_frame: a new buffer, and the socket is called.
FrameCall ==
    /\ Handles("frame", "W")
    /\ frame' = [buffer |-> TRUE, task |-> Head(q).task]
    /\ Push(<<Call("write", "B", "W", Other)>>)
    /\ children' = [children EXCEPT !["W"] = @ \union {"B"}]
    /\ UNCHANGED <<ring, held, objs, server, http, finished, crashed>>

FrameData ==
    /\ Hears("done", "W")
    /\ frame' = IF Head(q).ok THEN [frame EXCEPT !.buffer = FALSE] ELSE frame
    /\ Push(<<Done("S", frame.task, Head(q).ok)>>)
    /\ UNCHANGED <<ring, held, objs, children, server, http, finished, crashed>>
-----------------------------------------------------------------------------
(* S.                                                                       *)
Start ==
    /\ Handles("start", "S")
    /\ stage' = "Read" /\ timer' = 1
    /\ ring' = ring \union {Op("timer", "S", 1)}
    /\ Push(<<Call("read", "H", "S", Other)>>)
    /\ UNCHANGED <<held, objs, children, http, frame, pace, count, finished,
                   crashed>>

Complete ==
    /\ Push(<<Done("A", Other, FALSE)>>)
    /\ finished' = IF finished = 2 THEN 2 ELSE finished + 1

ServerFails ==
    /\ Hears("done", "S") \/ Hears("timeout", "S")
    /\ ~Head(q).ok
    /\ Complete
    /\ UNCHANGED <<ring, held, objs, children, server, http, frame, crashed>>

\* What cancel_timer may make of the ring: the timer is removed, or it has just
\* expired; one that was reaped before is not there.
Cancelled ==
    LET own == {o \in ring : o.op = "timer" /\ o.n = timer}
    IN {ring \ own,
        (ring \ own) \union {[o EXCEPT !.op = "expired"] : o \in own}}

\* Broken form: an upgrade does not wait for its response to be sent.
RequestReadNoWait ==
    /\ Hears("done", "S") /\ Head(q).ok /\ stage = "Read"
    /\ ring' \in Cancelled
    /\ http' = [http EXCEPT !.parser = FALSE]
    /\ count' = [count EXCEPT !.requests = @ + 1]
    /\ \/ Complete /\ UNCHANGED stage
       \/ /\ stage' \in {"WebsocketLogs", "Write"}
          /\ Push(<<Call("write", "H", "S", Other)>>)
          /\ UNCHANGED finished
    /\ UNCHANGED <<held, objs, children, frame, pace, timer, crashed>>

\* A request: it is refused, it is an upgrade, or it is answered; an upgrade
\* without a key makes at() throw.
RequestRead ==
    /\ Hears("done", "S") /\ Head(q).ok /\ stage = "Read"
    /\ ring' \in Cancelled
    /\ http' = [http EXCEPT !.parser = FALSE]
    /\ count' = [count EXCEPT !.requests = @ + 1]
    /\ \/ Complete /\ UNCHANGED <<stage, crashed>>
       \/ /\ stage' \in {"WebsocketInit", "Write"}
          /\ Push(<<Call("write", "H", "S", Other)>>)
          /\ UNCHANGED <<finished, crashed>>
       \/ crashed' = TRUE /\ stage' = "WebsocketInit" /\ UNCHANGED <<q, finished>>
    /\ UNCHANGED <<held, objs, children, frame, pace, timer>>

ResponseSent ==
    /\ Hears("done", "S") /\ Head(q).ok /\ stage = "Write"
    /\ stage' = "Read" /\ timer' = timer + 1
    /\ ring' = ring \union {Op("timer", "S", timer + 1)}
    /\ Push(<<Call("read", "H", "S", Other)>>)
    /\ UNCHANGED <<held, objs, children, http, frame, pace, count, finished,
                   crashed>>

\* stage_websocket_logs: a chunk, or the marker when none is left.  first are
\* the messages that the turn queues before it.
SendLogs(first) ==
    /\ Push(first \o <<Call("frame", "W", "S", Other)>>)
    /\ \/ /\ count.logs < MaxLogs
          /\ stage' = "WebsocketLogs"
          /\ count' = [count EXCEPT !.logs = @ + 1]
       \/ /\ stage' = "WebsocketLive"
          /\ UNCHANGED count

\* Broken form: the upgraded connection has no timer.
UpgradedNoTimer ==
    /\ Hears("done", "S") /\ Head(q).ok /\ stage = "WebsocketInit"
    /\ children' = [children EXCEPT !["S"] = @ \union {"T", "W"}]
    /\ SendLogs(<<Call("construct", "T", "S", Other),
                  Call("construct", "W", "S", Other)>>)
    /\ UNCHANGED <<ring, timer, held, objs, http, frame, pace, finished, crashed>>

\* The upgrade has been sent: 20 minutes, T and W, and on with the logs.
Upgraded ==
    /\ Hears("done", "S") /\ Head(q).ok /\ stage = "WebsocketInit"
    /\ timer' = timer + 1
    /\ ring' = ring \union {Op("timer", "S", timer + 1)}
    /\ children' = [children EXCEPT !["S"] = @ \union {"T", "W"}]
    /\ SendLogs(<<Call("construct", "T", "S", Other),
                  Call("construct", "W", "S", Other)>>)
    /\ UNCHANGED <<held, objs, http, frame, pace, finished, crashed>>

LogsSent ==
    /\ Hears("done", "S") /\ Head(q).ok /\ stage = "WebsocketLogs"
    /\ SendLogs(<<>>)
    /\ UNCHANGED <<ring, held, objs, children, http, frame, pace, timer,
                   finished, crashed>>

\* Broken form: either of the two is enough for the next record.
MayGoEither(p) == p.wrote \/ p.ticked \/ p.tick = 0
\* Broken form: the first record is not sent of itself.
MayGoNeverFirst(p) == p.wrote /\ p.ticked
MayGo(p) == (p.wrote /\ p.ticked) \/ p.tick = 0

\* stage_websocket_live.
LiveStep ==
    /\ Hears("done", "S") /\ Head(q).ok /\ stage = "WebsocketLive"
    /\ LET task == Head(q).task
           now == [pace EXCEPT !.wrote = @ \/ task = pace.frame,
                               !.ticked = @ \/ (task = pace.tick /\ task # pace.frame)]
           k == count.live + 1
       IN IF MayGo(now)
          THEN /\ Push(<<Call("tick", "T", "S", 2 * k - 1),
                         Call("frame", "W", "S", 2 * k)>>)
               /\ pace' = [tick |-> 2 * k - 1, frame |-> 2 * k,
                           ticked |-> FALSE, wrote |-> FALSE]
               /\ count' = [count EXCEPT !.live = k]
          ELSE /\ Push(<<>>)
               /\ pace' = now
               /\ UNCHANGED count
    /\ UNCHANGED <<ring, held, objs, children, stage, http, frame, timer,
                   finished, crashed>>
-----------------------------------------------------------------------------
Receiver(o) == CASE o.op \in {"timer", "expired"} -> "S"
                 [] o.op = "clock" -> "T"
                 [] OTHER -> "B"
Completion(o, ok) ==
    CASE Receiver(o) = "S" -> Msg("timeout", "S", "none", Other, FALSE)
      [] o.op = "clock" -> Msg("clock", "T", "none", o.n, TRUE)
      [] OTHER -> Msg(o.op, "B", o.by, Other, ok)

Reap(arrived) ==
    /\ ~crashed
    /\ q = <<>>
    /\ {o \in ring : o.op = "expired"} \subseteq arrived
    /\ \E s \in Orders(arrived) : \E ok \in [DOMAIN s -> BOOLEAN] :
          /\ \A i \in DOMAIN s : Receiver(s[i]) # "B" => ~ok[i]
          /\ q' = [i \in DOMAIN s |-> Completion(s[i], ok[i])]
    /\ ring' = ring \ arrived
    /\ UNCHANGED <<held, objs, children, server, http, frame, finished, crashed>>

Init ==   \* after BandwidthMonitorAccept::on_yield has accepted
    /\ q = <<Call("construct", "S", "A", Other), Call("start", "S", "A", Other)>>
    /\ ring = {} /\ held = TRUE /\ objs = {}
    /\ children = [o \in Objects |-> {}]
    /\ stage = "Read" /\ timer = 0
    /\ http = [reading |-> FALSE, parser |-> FALSE]
    /\ frame = [buffer |-> FALSE, task |-> Other]
    /\ pace = [tick |-> 0, frame |-> 0, ticked |-> FALSE, wrote |-> FALSE]
    /\ count = [requests |-> 0, logs |-> 0, live |-> 0]
    /\ finished = 0 /\ crashed = FALSE

Handle ==
    \/ Released \/ HttpData \/ ClockCall \/ ClockData \/ FrameCall \/ FrameData
    \/ Start \/ ServerFails \/ RequestRead \/ ResponseSent \/ Upgraded
    \/ LogsSent \/ LiveStep
    \/ \E to \in Objects : Construct(to) \/ Delete(to)
    \/ \E fun \in {"read", "write"} : HttpCall(fun)
    \/ SocketCall("read", "recv") \/ SocketCall("write", "send")
    \/ \E op \in {"recv", "send"} : SocketData(op) \/ Dropped(op, "B")
    \/ \E to \in {"S", "H", "W"} : Dropped("done", to)
    \/ Dropped("timeout", "S") \/ Dropped("clock", "T")

Next == Handle \/ \E arrived \in SUBSET ring : Reap(arrived)
Spec == Init /\ [][Next]_vars

\* The loop handles what is queued and comes back to the ring; the kernel
\* completes every timer.  Nothing makes the peer do anything.
FairSpec ==
    /\ Spec /\ WF_vars(Handle)
    /\ \A n \in 1 .. MaxReq + 2 :
          SF_vars(\E arrived \in SUBSET ring :
                     /\ \E o \in arrived : Receiver(o) = "S" /\ o.n = n
                     /\ Reap(arrived))
-----------------------------------------------------------------------------
\* Types and bounds.
TypeOK ==
    /\ \A o \in ring : o.op \in {"recv", "send", "clock", "timer", "expired"}
    /\ objs \subseteq Objects /\ children \in [Objects -> SUBSET Objects]
    /\ stage \in Stages /\ held \in BOOLEAN /\ crashed \in BOOLEAN
    /\ http \in [reading : BOOLEAN, parser : BOOLEAN]
    /\ frame \in [buffer : BOOLEAN, task : {Other} \union 1 .. 2 * MaxLive]
    /\ pace \in [tick : 0 .. 2 * MaxLive, frame : 0 .. 2 * MaxLive,
                 ticked : BOOLEAN, wrote : BOOLEAN]
    /\ timer \in 0 .. MaxReq + 2
    /\ count \in [requests : 0 .. MaxReq, logs : 0 .. MaxLogs, live : 0 .. MaxLive]
    /\ finished \in 0 .. 2

\* w_buf_ is one buffer: a frame is written only when the last one has gone, so
\* no frame is cut off and no buffer is lost.
OneFrame ==
    q # <<>> /\ Head(q).kind = "frame" => ~frame.buffer

\* The socket is shared by H and W: calls, answers and operations for it are
\* never more than one, so bytes of frames and of HTTP do not mix; and when the
\* frames begin H is done, so no answer of it is taken for a frame's or a tick.
OneAtATime ==
    LET queued == {i \in DOMAIN q :
            \/ q[i].kind \in {"read", "write", "frame", "recv", "send"}
            \/ q[i].kind = "done" /\ q[i].to \in {"H", "W"}
            \/ q[i].kind = "done" /\ q[i].to = "S" /\ q[i].task # pace.tick}
        inFlight == {o \in ring : o.op \in {"recv", "send"}}
    IN /\ Cardinality(queued) + Cardinality(inFlight) <= 1
       /\ stage \in {"WebsocketLogs", "WebsocketLive"} =>
             /\ \A i \in DOMAIN q : q[i].to = "H" => q[i].kind = "delete"
             /\ \A o \in ring : o.by # "H"

\* What H and the frame writer (monitoring_server.cpp, websocket_socket.cpp) do on
\* their one socket, and with the one buffer of frames, they do in turn.
OneTurn == OneAtATime /\ OneFrame

\* The live stage does not wait for something that is not under way: between two
\* batches a connection that has not finished waits for its socket, and in the
\* live stage for exactly the clock and the frame that the flags do not have.
NeverStuck ==
    q = <<>> /\ held /\ finished = 0 =>
        IF stage # "WebsocketLive" \/ pace.tick = 0
        THEN \E o \in ring : o.op \in {"recv", "send"}
        ELSE /\ pace.wrote <=> ~\E o \in ring : o.op = "send"
             /\ pace.ticked <=> ~\E o \in ring : o.op = "clock" /\ o.n = pace.tick
             /\ ~(pace.wrote /\ pace.ticked)

\* Every wait but that for a response to be sent is covered by the timer, the
\* whole of the stream by the one of 20 minutes.
TimerCovers ==
    "S" \in objs /\ timer # 0 /\ stage \notin {"Write", "WebsocketInit"} =>
        \/ \E o \in ring : o.op \in {"timer", "expired"} /\ o.n = timer
        \/ \E i \in DOMAIN q : q[i].kind = "timeout"
        \/ finished > 0

\* function_call does not look whether its target is there: a call is handled
\* before the target's deletion, the calls of the shared socket included.
CallTargetThere ==
    q # <<>> /\ Head(q).kind \in {"start", "read", "write", "tick", "frame"} =>
        Head(q).to \in objs

\* A connection is there as a whole or not at all between two batches, T and W
\* included, although the socket has two parents (Delete, construct_call), and no
\* call comes to an object of it that has gone.
AllOrNothing ==
    /\ q = <<>> /\ ~crashed =>
          objs = IF ~held THEN {}
                 ELSE IF stage \in {"WebsocketLogs", "WebsocketLive"} THEN Objects
                 ELSE {"S", "H", "B"}
    /\ CallTargetThere

\* A connection does not stay for ever: it goes, or it comes to send a response.
Sending == Op("send", "H", 0) \in ring
Reclaimed == "S" \in objs ~> "S" \notin objs \/ Sending \/ crashed
=============================================================================
