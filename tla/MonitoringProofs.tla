------------------------- MODULE MonitoringProofs -------------------------
(***************************************************************************)
(* Monitoring's invariants, for every MaxReq, MaxLogs and MaxLive.         *)
(*                                                                         *)
(* What is checked is not inductive by itself.  The inductive invariant    *)
(* IInv follows two tokens.  The socket's is a call, an answer or an       *)
(* operation of B, H or W, or the answer to S that came of it; there is    *)
(* never more than one, Fits says what the state is like by who has it,    *)
(* and pace.wrote that S has taken it in the live stage.  The clock's is   *)
(* the call of T, its operation or its answer; pace.ticked says that S has *)
(* taken it.  A record goes when both have been taken, so the tasks of the *)
(* last one are in no message when they are numbered anew.                 *)
(*                                                                         *)
(* Row orders the queue: no deletion is ahead of a call of the object that *)
(* it deletes, and no call of T or W ahead of their constructions.  Setup  *)
(* lists the five queues before the first read, where objects are called   *)
(* that are still to be made; Run holds from then on.                      *)
(***************************************************************************)
EXTENDS Monitoring, DataFacts

\* The messages queued, and those behind the head.
X == Elems(q)
Rest == Elems(Tail(q))

Upgrading == stage \in {"WebsocketLogs", "WebsocketLive"}

\* The task of a frame that is under way.
Due == IF pace.tick = 0 THEN Other ELSE pace.frame

\* A message that carries the token of the socket, or that of the clock, whose
\* task is t.
Token(m, t) ==
    \/ m.kind \in {"read", "write", "frame", "recv", "send"}
    \/ m.kind = "done" /\ m.to \in {"H", "W"}
    \/ m.kind = "done" /\ m.to = "S" /\ m.task # t
Clock(m, t) ==
    \/ m.kind \in {"tick", "clock"}
    \/ m.kind = "done" /\ m.to = "S" /\ m.task = t
OnSocket(o) == o.op \in {"recv", "send"}

\* Calls that S makes, calls of the socket, and the deletions that must not be
\* ahead of them.
FromS(m) ==
    m.to # "B" /\ m.kind \in {"read", "write", "frame", "tick", "construct"}
ToB(m) == m.to = "B" /\ m.kind \in {"read", "write"}
Ends(m, above) == m.kind = "delete" /\ m.to \in above

\* Two messages, the first ahead of the second.
Pair(m, n, t) ==
    /\ ~(Token(m, t) /\ Token(n, t))
    /\ ~(Clock(m, t) /\ Clock(n, t))
    /\ ~(Ends(m, {"H", "T", "W"}) /\ FromS(n))
    /\ ~(Ends(m, {"B"}) /\ ToB(n))
    /\ ~(m.kind \in {"frame", "tick"} /\ n.kind = "construct")
Row(Q, t) == \A i, j \in 1 .. Len(Q) : i < j => Pair(Q[i], Q[j], t)

\* Every message after the connection is set up, and what one of a kind is like.
Message ==
    [kind : {"read", "write", "frame", "tick", "recv", "send", "clock",
             "timeout", "done", "construct", "delete"},
     to : Objects \union {"A"}, by : Objects \union {"A", "none"},
     task : Int, ok : BOOLEAN]

Shape(m) ==
    /\ m.kind \in {"read", "recv"} /\ m.to = "B" => m.by = "H"
    /\ m.kind \in {"write", "send"} /\ m.to = "B" => m.by \in {"H", "W"}
    /\ m.kind \in {"read", "write"} => m.to \in {"H", "B"}
    /\ m.kind \in {"recv", "send"} => m.to = "B"
    /\ m.kind = "frame" => m.to = "W" /\ m.task = Due
    /\ m.kind \in {"tick", "clock"} =>
          m.to = "T" /\ m.task = pace.tick /\ pace.tick # 0
    /\ m.kind = "done" => m.to \in {"A", "S", "H", "W"}
    /\ m.kind = "done" /\ m.to = "S" =>
          m.task \in {Due, pace.tick} /\ (m.task = pace.tick => pace.tick # 0 /\ m.ok)
    /\ m.kind = "timeout" => m.to = "S" /\ ~m.ok
    /\ m.kind = "construct" => m.to \in {"T", "W"} /\ m.by = "S"
    /\ m.kind = "delete" => m.to \in Objects

\* What goes with a token, by who has it: H or its call of the socket, W or its
\* call of the socket, or S.
HasH(m) == m.to = "H" \/ (m.to = "B" /\ m.by = "H")
Fits(m) ==
    /\ HasH(m) => ~Upgrading
    /\ m.to # "S" /\ ~HasH(m) => Upgrading
    /\ m.to = "H" /\ m.kind = "read" => stage = "Read"
    /\ m.to = "H" /\ m.kind = "write" => stage # "Read"
    /\ HasH(m) /\ ~FromS(m) => (http.reading <=> stage = "Read")
    /\ m.to # "S" /\ ~HasH(m) /\ m.kind # "frame" => frame.task = Due
    /\ m.kind = "frame" \/ (m.to = "S" /\ m.ok) => ~frame.buffer
    /\ m.kind = "done" /\ m.ok /\ m.to # "H" /\ stage = "WebsocketLive" =>
          count.live < MaxLive
    /\ m.kind = "done" /\ m.ok /\ m.to = "S" /\ stage = "Read" =>
          count.requests < MaxReq

Messages ==
    /\ q \in Seq(Message)
    /\ \A m \in X : Shape(m) /\ (Token(m, pace.tick) => Fits(m))
    /\ Row(q, pace.tick)

\* The operations in flight; one on the socket is the token.
OpFits(o) ==
    /\ o = Op(o.op, o.by, o.n)
    /\ o.op \in {"recv", "send", "clock", "timer", "expired"}
    /\ OnSocket(o) /\ o.by = "H" => ~Upgrading /\ (http.reading <=> stage = "Read")
    /\ OnSocket(o) /\ o.by # "H" =>
          o.by = "W" /\ o.op = "send" /\ Upgrading /\ frame.task = Due
    /\ OnSocket(o) => o.n = 0
    /\ o.op = "clock" => o.by = "T" /\ o.n = pace.tick /\ pace.tick # 0
    /\ o.op \in {"timer", "expired"} => o.by = "S" /\ o.n \in Nat
Ring == IsFiniteSet(ring) /\ \A o \in ring : OpFits(o)

Once ==
    /\ \A o \in ring : OnSocket(o) =>
          /\ \A m \in X : ~Token(m, pace.tick)
          /\ \A p \in ring : OnSocket(p) => p = o
    /\ \A o \in ring : o.op = "clock" => \A m \in X : ~Clock(m, pace.tick)

\* The variables by themselves.
Data ==
    /\ stage \in Stages /\ held \in BOOLEAN /\ crashed \in BOOLEAN
    /\ http \in [reading : BOOLEAN, parser : BOOLEAN]
    /\ frame \in [buffer : BOOLEAN, task : {Other} \union 1 .. 2 * MaxLive]
    /\ pace \in [tick : Nat, frame : Nat, ticked : BOOLEAN, wrote : BOOLEAN]
    /\ count \in [requests : 0 .. MaxReq, logs : 0 .. MaxLogs, live : 0 .. MaxLive]
    /\ finished \in 0 .. 2 /\ timer \in Nat \ {0}
    /\ timer <= count.requests + IF stage \in {"Write", "WebsocketInit"} THEN 0 ELSE 1
    /\ objs \subseteq Objects /\ children \in [Objects -> SUBSET Objects]

\* The live stage's flags: what they say, of the tokens and of the bounds.
Paced ==
    /\ pace.tick = 0 => /\ pace.frame = 0 /\ ~pace.wrote /\ ~pace.ticked
                        /\ count.live = 0
    /\ pace.tick # 0 => /\ stage = "WebsocketLive" /\ count.live > 0
                        /\ pace.tick = 2 * count.live - 1
                        /\ pace.frame = 2 * count.live
    /\ ~(pace.wrote /\ pace.ticked)
    /\ frame.buffer => Upgrading
    /\ pace.wrote => ~frame.buffer /\ count.live < MaxLive
Quiet ==
    /\ pace.wrote => /\ \A m \in X : ~Token(m, pace.tick)
                     /\ \A o \in ring : ~OnSocket(o)
    /\ pace.ticked => /\ \A m \in X : ~Clock(m, pace.tick)
                      /\ \A o \in ring : o.op # "clock"

\* The objects, those queued to be made or deleted, and who is whose child.
Queued(kind, to) == \E m \in X : m.kind = kind /\ m.to = to
There(to) == to \in objs \/ Queued("construct", to)
Family ==
    /\ children["S"] \subseteq {"H", "T", "W"}
    /\ children["H"] \subseteq {"B"} /\ children["W"] \subseteq {"B"}
    /\ children["T"] = {} /\ children["B"] = {}
    /\ children["W"] # {} => Upgrading
    /\ "H" \in objs => children["H"] = {"B"}
    /\ "S" \in objs =>
          /\ {"H", "B"} \subseteq objs
          /\ children["S"] = IF Upgrading THEN {"H", "T", "W"} ELSE {"H"}
Living ==
    /\ "S" \in objs => \A x \in {"H", "T", "W", "B"} : ~Queued("delete", x)
    /\ held => "S" \in objs /\ ~Queued("delete", "S")
    /\ ~held /\ "S" \in objs => Queued("delete", "S")
    /\ "S" \notin objs => \A x \in {"H", "T", "W"} : There(x) => Queued("delete", x)
    /\ "B" \in objs /\ "H" \notin objs => Queued("delete", "B")
    /\ "B" \notin objs \/ Queued("delete", "B") => "H" \notin objs \/ Upgrading
    /\ \A x \in {"T", "W"} : There(x) => Upgrading
    /\ "S" \in objs /\ Upgrading => There("T") /\ There("W")

\* Calls find their objects.
Calls ==
    /\ \A m \in X : FromS(m) => {"H", "B"} \subseteq objs /\ ~Queued("delete", "B")
    /\ \A m \in X : ToB(m) => "B" \in objs
    /\ \A m \in X : m.kind \in {"frame", "tick"} => There("T") /\ There("W")
    /\ \A m \in X : m.kind = "construct" => pace.tick = 0 /\ Queued("frame", "W")

\* A connection that has not finished waits for its socket, or for its clock.
Alive ==
    finished = 0 =>
        /\ held /\ ~Queued("done", "A")
        /\ \/ \E m \in X : Token(m, pace.tick)
           \/ \E o \in ring : OnSocket(o)
           \/ pace.wrote
        /\ pace.tick # 0 /\ ~pace.ticked =>
              \/ \E m \in X : Clock(m, pace.tick)
              \/ \E o \in ring : o.op = "clock"

\* What TimerCovers says.
Covered ==
    "S" \in objs /\ stage \notin {"Write", "WebsocketInit"} =>
        \/ \E o \in ring : o.op \in {"timer", "expired"} /\ o.n = timer
        \/ Queued("timeout", "S")
        \/ finished > 0

Run == /\ Messages /\ Ring /\ Once /\ Data /\ Paced /\ Quiet
       /\ Family /\ Living /\ Calls /\ Alive /\ Covered

\* Before the connection reads for the first time: the queue is one of five.
Fresh ==
    /\ held /\ stage = "Read" /\ ~crashed /\ finished = 0
    /\ frame = [buffer |-> FALSE, task |-> Other]
    /\ pace = [tick |-> 0, frame |-> 0, ticked |-> FALSE, wrote |-> FALSE]
    /\ count = [requests |-> 0, logs |-> 0, live |-> 0]
    /\ http \in [reading : BOOLEAN, parser : BOOLEAN]
Begun(up, read, Q) ==
    /\ objs = up
    /\ children = [o \in Objects |-> IF o \notin up THEN {}
                                     ELSE IF o = "S" THEN {"H"} ELSE {"B"}]
    /\ timer = IF read THEN 1 ELSE 0
    /\ ring = IF read THEN {Op("timer", "S", 1)} ELSE {}
    /\ q = Q
Setup ==
    /\ Fresh
    /\ \/ Begun({}, FALSE, <<Call("construct", "S", "A", Other),
                             Call("start", "S", "A", Other)>>)
       \/ Begun({"S"}, FALSE, <<Call("start", "S", "A", Other),
                                Call("construct", "H", "S", Other)>>)
       \/ Begun({"S"}, TRUE, <<Call("construct", "H", "S", Other),
                               Call("read", "H", "S", Other)>>)
       \/ Begun({"S", "H"}, TRUE, <<Call("read", "H", "S", Other),
                                    Call("construct", "B", "H", Other)>>)
       \/ /\ Begun({"S", "H"}, TRUE, <<Call("construct", "B", "H", Other),
                                       Call("read", "B", "H", Other)>>)
          /\ http.reading

IInv == Setup \/ Run
-----------------------------------------------------------------------------
(* The queue.                                                               *)

\* What a sequence holds when its head is taken.
LEMMA TailElems ==
    ASSUME NEW Q \in Seq(Message), Q # <<>>, NEW t, Row(Q, t)
    PROVE  /\ Head(Q) \in Message /\ Head(Q) \in Elems(Q)
           /\ Tail(Q) \in Seq(Message)
           /\ Elems(Q) = {Head(Q)} \union Elems(Tail(Q))
           /\ \A m \in Elems(Tail(Q)) : Pair(Head(Q), m, t)
           /\ Row(Tail(Q), t)
<1>1. /\ Len(Q) \in Nat \ {0} /\ Len(Tail(Q)) = Len(Q) - 1 /\ Head(Q) = Q[1]
      /\ \A i \in 1 .. Len(Q) - 1 : Tail(Q)[i] = Q[i + 1]
      /\ DOMAIN Q = 1 .. Len(Q) /\ DOMAIN Tail(Q) = 1 .. Len(Q) - 1
      /\ Tail(Q) \in Seq(Message) /\ Q[1] \in Message
  OBVIOUS
<1>2. \A i \in 1 .. Len(Q) : i # 1 => i - 1 \in 1 .. Len(Q) - 1 /\ Tail(Q)[i - 1] = Q[i]
  BY <1>1
<1>3. Elems(Q) = {Head(Q)} \union Elems(Tail(Q))
  <2>1. ASSUME NEW e \in Elems(Q)
        PROVE  e = Head(Q) \/ e \in Elems(Tail(Q))
    <3>1. PICK i \in 1 .. Len(Q) : e = Q[i]
      BY <1>1 DEF Elems
    <3>2. CASE i # 1
      <4>1. i - 1 \in DOMAIN Tail(Q) /\ Tail(Q)[i - 1] = e
        BY <1>1, <1>2, <3>1, <3>2
      <4>2. QED
        BY <4>1 DEF Elems
    <3>3. QED
      BY <1>1, <3>1, <3>2
  <2>2. ASSUME NEW e \in Elems(Tail(Q))
        PROVE  e \in Elems(Q)
    BY <1>1 DEF Elems
  <2>3. Head(Q) \in Elems(Q)
    BY <1>1 DEF Elems
  <2>4. QED
    BY <2>1, <2>2, <2>3
<1>4. \A m \in Elems(Tail(Q)) : Pair(Head(Q), m, t)
  <2>1. TAKE m \in Elems(Tail(Q))
  <2>2. PICK i \in 1 .. Len(Q) - 1 : m = Q[i + 1]
    BY <1>1 DEF Elems
  <2>3. 1 \in 1 .. Len(Q) /\ i + 1 \in 1 .. Len(Q) /\ 1 < i + 1
    BY <1>1
  <2>4. QED
    BY <1>1, <2>2, <2>3 DEF Row
<1>5. Row(Tail(Q), t)
  <2>1. SUFFICES ASSUME NEW i \in 1 .. Len(Q) - 1, NEW j \in 1 .. Len(Q) - 1, i < j
                 PROVE  Pair(Tail(Q)[i], Tail(Q)[j], t)
    BY <1>1 DEF Row
  <2>2. i + 1 \in 1 .. Len(Q) /\ j + 1 \in 1 .. Len(Q) /\ i + 1 < j + 1
    BY <1>1, <2>1
  <2>3. QED
    BY <1>1, <2>2 DEF Row
<1>6. QED
  BY <1>1, <1>3, <1>4, <1>5

\* What a sequence holds when messages are appended.
LEMMA ConcatElems ==
    ASSUME NEW Q \in Seq(Message), NEW W \in Seq(Message), NEW t,
           Row(Q, t), Row(W, t),
           \A m \in Elems(Q), n \in Elems(W) : Pair(m, n, t)
    PROVE  /\ Q \o W \in Seq(Message)
           /\ Elems(Q \o W) = Elems(Q) \union Elems(W)
           /\ Row(Q \o W, t)
<1>1. /\ Len(Q) \in Nat /\ Len(W) \in Nat /\ Len(Q \o W) = Len(Q) + Len(W)
      /\ \A i \in 1 .. Len(Q) : (Q \o W)[i] = Q[i]
      /\ \A i \in 1 .. Len(W) : (Q \o W)[Len(Q) + i] = W[i]
      /\ DOMAIN Q = 1 .. Len(Q) /\ DOMAIN W = 1 .. Len(W)
      /\ DOMAIN (Q \o W) = 1 .. Len(Q \o W) /\ Q \o W \in Seq(Message)
  OBVIOUS
<1>2. ASSUME NEW i \in 1 .. Len(Q \o W)
      PROVE  \/ i \in 1 .. Len(Q) /\ (Q \o W)[i] = Q[i]
             \/ i - Len(Q) \in 1 .. Len(W) /\ (Q \o W)[i] = W[i - Len(Q)]
  <2>1. CASE i <= Len(Q)
    BY <1>1, <2>1
  <2>2. CASE i > Len(Q)
    <3>1. i - Len(Q) \in 1 .. Len(W) /\ Len(Q) + (i - Len(Q)) = i
      BY <1>1, <2>2
    <3>2. QED
      BY <1>1, <3>1
  <2>3. QED
    BY <1>1, <2>1, <2>2
<1>3. Elems(Q \o W) = Elems(Q) \union Elems(W)
  <2>1. ASSUME NEW e \in Elems(Q \o W)
        PROVE  e \in Elems(Q) \union Elems(W)
    BY <1>1, <1>2 DEF Elems
  <2>2. ASSUME NEW e \in Elems(Q)
        PROVE  e \in Elems(Q \o W)
    <3>1. PICK i \in 1 .. Len(Q) : e = Q[i]
      BY <1>1 DEF Elems
    <3>2. i \in 1 .. Len(Q \o W) /\ (Q \o W)[i] = e
      BY <1>1, <3>1
    <3>3. QED
      BY <1>1, <3>2 DEF Elems
  <2>3. ASSUME NEW e \in Elems(W)
        PROVE  e \in Elems(Q \o W)
    <3>1. PICK i \in 1 .. Len(W) : e = W[i]
      BY <1>1 DEF Elems
    <3>2. Len(Q) + i \in 1 .. Len(Q \o W) /\ (Q \o W)[Len(Q) + i] = e
      BY <1>1, <3>1
    <3>3. QED
      BY <1>1, <3>2 DEF Elems
  <2>4. QED
    BY <2>1, <2>2, <2>3
<1>4. Row(Q \o W, t)
  <2>1. SUFFICES ASSUME NEW i \in 1 .. Len(Q \o W), NEW j \in 1 .. Len(Q \o W), i < j
                 PROVE  Pair((Q \o W)[i], (Q \o W)[j], t)
    BY DEF Row
  <2>2. CASE i \in 1 .. Len(Q) /\ j \in 1 .. Len(Q)
    BY <1>1, <2>1, <2>2 DEF Row
  <2>3. CASE i \in 1 .. Len(Q) /\ j \notin 1 .. Len(Q)
    <3>1. Q[i] \in Elems(Q) /\ W[j - Len(Q)] \in Elems(W)
      BY <1>1, <1>2, <2>3 DEF Elems
    <3>2. QED
      BY <1>1, <1>2, <2>3, <3>1
  <2>4. CASE i \notin 1 .. Len(Q)
    <3>1. j \notin 1 .. Len(Q)
      BY <1>1, <2>1, <2>4
    <3>2. /\ i - Len(Q) \in 1 .. Len(W) /\ (Q \o W)[i] = W[i - Len(Q)]
          /\ j - Len(Q) \in 1 .. Len(W) /\ (Q \o W)[j] = W[j - Len(Q)]
      BY <1>2, <2>4, <3>1
    <3>3. i - Len(Q) < j - Len(Q)
      BY <1>1, <2>1
    <3>4. QED
      BY <3>2, <3>3 DEF Row
  <2>5. QED
    BY <2>2, <2>3, <2>4
<1>5. QED
  BY <1>1, <1>3, <1>4

\* The messages of a turn.
LEMMA Turns ==
    ASSUME NEW t
    PROVE  /\ <<>> \in Seq(Message) /\ Elems(<<>>) = {} /\ Row(<<>>, t)
           /\ \A m \in Message : /\ <<m>> \in Seq(Message) /\ Elems(<<m>>) = {m}
                                 /\ Row(<<m>>, t)
           /\ \A m, n \in Message : /\ <<m, n>> \in Seq(Message)
                                    /\ Elems(<<m, n>>) = {m, n}
                                    /\ Pair(m, n, t) => Row(<<m, n>>, t)
<1>1. /\ <<>> \in Seq(Message) /\ Elems(<<>>) = {} /\ Row(<<>>, t)
  BY DEF Elems, Row
<1>2. ASSUME NEW m \in Message
      PROVE  <<m>> \in Seq(Message) /\ Elems(<<m>>) = {m} /\ Row(<<m>>, t)
  BY DEF Elems, Row
<1>3. ASSUME NEW m \in Message, NEW n \in Message
      PROVE  /\ <<m, n>> \in Seq(Message) /\ Elems(<<m, n>>) = {m, n}
             /\ Pair(m, n, t) => Row(<<m, n>>, t)
  <2>1. DOMAIN <<m, n>> = {1, 2} /\ Len(<<m, n>>) = 2 /\ 1 .. 2 = {1, 2}
    OBVIOUS
  <2>2. <<m, n>> \in Seq(Message) /\ Elems(<<m, n>>) = {m, n}
    BY <2>1 DEF Elems
  <2>3. QED
    BY <2>1, <2>2 DEF Row
<1>4. QED
  BY <1>1, <1>2, <1>3

\* Taking the head.
LEMMA Taken ==
    ASSUME Messages, q # <<>>
    PROVE  /\ Head(q) \in X /\ X = Rest \union {Head(q)}
           /\ Tail(q) \in Seq(Message) /\ Row(Tail(q), pace.tick)
           /\ \A m \in X : /\ m \in Message /\ Shape(m)
                           /\ Token(m, pace.tick) => Fits(m)
           /\ \A m \in Rest : Pair(Head(q), m, pace.tick)
<1>1. /\ Head(q) \in Elems(q) /\ Elems(q) = {Head(q)} \union Rest
      /\ \A m \in Rest : Pair(Head(q), m, pace.tick)
      /\ Tail(q) \in Seq(Message) /\ Row(Tail(q), pace.tick)
  BY TailElems DEF Messages, Rest
<1>2. \A m \in Elems(q) : m \in Message
  BY DEF Elems, Messages
<1>3. QED
  BY <1>1, <1>2 DEF Messages, X

\* What a turn sends comes behind the rest.
LEMMA Pushed ==
    ASSUME q \in Seq(Message), q # <<>>, NEW t, Row(Tail(q), t),
           NEW ms \in Seq(Message), Row(ms, t), Push(ms),
           \A m \in Rest, n \in Elems(ms) : Pair(m, n, t)
    PROVE  q' \in Seq(Message) /\ X' = Rest \union Elems(ms) /\ Row(q', t)
<1>1. Tail(q) \in Seq(Message)
  OBVIOUS
<1>2. q' = Tail(q) \o ms
  BY DEF Push
<1>3. \A m \in Elems(Tail(q)), n \in Elems(ms) : Pair(m, n, t)
  BY DEF Rest
<1>4. /\ Tail(q) \o ms \in Seq(Message) /\ Row(Tail(q) \o ms, t)
      /\ Elems(Tail(q) \o ms) = Elems(Tail(q)) \union Elems(ms)
  BY <1>1, <1>3, ConcatElems
<1>5. QED
  BY <1>2, <1>4 DEF X, Rest
-----------------------------------------------------------------------------
(* Turns that pass a token on.                                              *)

\* A token is not the clock's, and no call of S's to its clock; behind the token
\* there is no other, and no construction.
LEMMA TokenAhead ==
    ASSUME Messages, Calls, q # <<>>, Token(Head(q), pace.tick)
    PROVE  /\ \A m \in Rest : ~Token(m, pace.tick) /\ m.kind # "construct"
           /\ \A m \in X : m.kind # "construct"
           /\ ~Clock(Head(q), pace.tick)
           /\ Head(q).kind \notin {"construct", "delete", "timeout", "tick"}
<1> DEFINE h == Head(q)
<1>1. /\ h \in X /\ X = Rest \union {h}
      /\ \A m \in Rest : Pair(h, m, pace.tick)
  BY Taken
<1>2. ~Clock(h, pace.tick) /\ h.kind \notin {"construct", "delete", "timeout", "tick"}
  BY DEF Token, Clock
<1> HIDE DEF h
<1>3. \A m \in Rest : ~Token(m, pace.tick)
  BY <1>1 DEF Pair, h
<1>4. ASSUME NEW m \in Rest, m.kind = "construct"
      PROVE  FALSE
  <2>1. PICK f \in X : f.kind = "frame"
    BY <1>1, <1>4 DEF Calls, Queued
  <2>2. f = h
    BY <1>1, <1>3, <2>1 DEF Token
  <2>3. QED
    BY <1>1, <1>4, <2>1, <2>2 DEF Pair
<1>5. QED
  BY <1>1, <1>2, <1>3, <1>4 DEF h

\* What the turns of H, W and B have in common: the token at the head goes on, as
\* a message or as an operation, or is dropped when the connection has finished.
TokenMoves(ms, new) ==
    /\ q # <<>> /\ Token(Head(q), pace.tick) /\ Push(ms) /\ ring' = ring \union new
    /\ \A m \in Elems(ms) :
          /\ Token(m, pace.tick) /\ ~FromS(m)
          /\ ToB(m) => "B" \in objs /\ ~Queued("delete", "B")
          /\ Shape(m)' /\ Fits(m)'
    /\ \A o \in new : OnSocket(o) /\ OpFits(o)' /\ \A p \in new : p = o
    /\ new # {} => Elems(ms) = {}
    /\ new = {} /\ Elems(ms) = {} => finished # 0
    /\ http' \in [reading : BOOLEAN, parser : BOOLEAN]
    /\ frame' \in [buffer : BOOLEAN, task : {Other} \union 1 .. 2 * MaxLive]
    /\ frame'.buffer => Upgrading
    /\ children' \in [Objects -> SUBSET Objects] /\ Family'
    /\ UNCHANGED <<held, objs, stage, pace, timer, count, finished, crashed>>

LEMMA TokenMovesKeeps ==
    ASSUME Run, NEW ms \in Seq(Message), Row(ms, pace.tick), NEW new, IsFiniteSet(new),
           TokenMoves(ms, new)
    PROVE  Run'
<1> DEFINE h == Head(q)
<1>1. /\ q # <<>> /\ Token(h, pace.tick) /\ Push(ms) /\ ring' = ring \union new
      /\ \A m \in Elems(ms) :
          /\ Token(m, pace.tick) /\ ~FromS(m)
          /\ ToB(m) => "B" \in objs /\ ~Queued("delete", "B")
          /\ Shape(m)' /\ Fits(m)'
      /\ \A o \in new : OnSocket(o) /\ OpFits(o)' /\ \A p \in new : p = o
      /\ new # {} => Elems(ms) = {}
      /\ new = {} /\ Elems(ms) = {} => finished # 0
      /\ http' \in [reading : BOOLEAN, parser : BOOLEAN]
      /\ frame' \in [buffer : BOOLEAN, task : {Other} \union 1 .. 2 * MaxLive]
      /\ frame'.buffer => Upgrading
      /\ children' \in [Objects -> SUBSET Objects] /\ Family'
      /\ UNCHANGED <<held, objs, stage, pace, timer, count, finished, crashed>>
  BY DEF TokenMoves
<1>2. /\ Messages /\ Ring /\ Once /\ Data /\ Paced /\ Quiet
      /\ Family /\ Living /\ Calls /\ Alive /\ Covered
  BY DEF Run
<1>3. /\ h \in X /\ X = Rest \union {h} /\ q \in Seq(Message)
      /\ Row(Tail(q), pace.tick)
      /\ \A m \in X : m \in Message /\ Shape(m)
  BY <1>1, <1>2, Taken DEF Messages
<1>4. /\ \A m \in Rest : ~Token(m, pace.tick) /\ m.kind # "construct"
      /\ \A m \in X : m.kind # "construct"
      /\ ~Clock(h, pace.tick)
      /\ h.kind \notin {"construct", "delete", "timeout", "tick"}
  BY <1>1, <1>2, TokenAhead
<1> HIDE DEF h
<1>5. \A m \in Elems(ms) : /\ ~Clock(m, pace.tick) /\ (m.kind # "done" \/ m.to # "A")
                           /\ m.kind \notin {"construct", "delete", "timeout", "tick", "frame"}
  <2>1. TAKE m \in Elems(ms)
  <2>2. Token(m, pace.tick) /\ ~FromS(m) /\ Shape(m)'
    BY <1>1
  <2>3. m.kind # "frame"
    BY <2>2 DEF FromS, Shape
  <2>4. QED
    BY <2>2, <2>3 DEF Token, Clock
<1>6. /\ q' \in Seq(Message) /\ X' = Rest \union Elems(ms) /\ Row(q', pace.tick)
  <2>1. ASSUME NEW m \in Rest, NEW n \in Elems(ms)
        PROVE  Pair(m, n, pace.tick)
    <3>1. ToB(n) => ~Ends(m, {"B"})
      BY <1>1, <1>3 DEF Queued, Ends
    <3>2. QED
      BY <1>1, <1>4, <1>5, <3>1 DEF Pair
  <2>2. QED
    BY <1>1, <1>3, <2>1, Pushed
<1>7. Messages'
  <2>1. ASSUME NEW m \in X'
        PROVE  Shape(m)' /\ (Token(m, pace.tick) => Fits(m)')
    <3>1. CASE m \in Rest
      <4>1. Shape(m)
        BY <1>3, <3>1
      <4>2. Shape(m)'
        BY <1>1, <4>1 DEF Shape, Due
      <4>3. QED
        BY <1>4, <3>1, <4>2
    <3>2. CASE m \in Elems(ms)
      BY <1>1, <3>2
    <3>3. QED
      BY <1>6, <3>1, <3>2
  <2>2. \A m \in X' : Shape(m)' /\ (Token(m, pace.tick)' => Fits(m)')
    BY <1>1, <2>1 DEF Token
  <2>3. QED
    BY <1>1, <1>6, <2>2 DEF Messages
<1>8. \A o \in ring : ~OnSocket(o)
  BY <1>1, <1>2, <1>3 DEF Once
<1>9. Ring'
  <2>1. IsFiniteSet(ring')
    BY <1>1, <1>2, FS_Union DEF Ring
  <2>2. ASSUME NEW o \in ring
        PROVE  OpFits(o)'
    <3>1. OpFits(o) /\ ~OnSocket(o)
      BY <1>2, <1>8 DEF Ring
    <3>2. QED
      BY <1>1, <3>1 DEF OpFits, OnSocket
  <2>3. QED
    BY <1>1, <2>1, <2>2 DEF Ring
<1>10. Once'
  <2>1. ASSUME NEW o \in ring', OnSocket(o)
        PROVE  (\A m \in X' : ~Token(m, pace.tick)) /\ \A p \in ring' : OnSocket(p) => p = o
    BY <1>1, <1>4, <1>6, <1>8, <2>1
  <2>2. ASSUME NEW o \in ring', o.op = "clock"
        PROVE  \A m \in X' : ~Clock(m, pace.tick)
    <3>1. o \in ring
      BY <1>1, <2>2 DEF OnSocket
    <3>2. QED
      BY <1>2, <1>3, <1>5, <1>6, <2>2, <3>1 DEF Once
  <2>3. QED
    BY <1>1, <2>1, <2>2 DEF Once
<1>11. Data'
  BY <1>1, <1>2 DEF Data
<1>12. ~pace.wrote
  BY <1>1, <1>2, <1>3 DEF Quiet
<1>13. Paced'
  BY <1>1, <1>2, <1>12 DEF Paced, Upgrading
<1>14. Quiet'
  <2>1. pace.ticked => /\ \A m \in X' : ~Clock(m, pace.tick)
                       /\ \A o \in ring' : o.op # "clock"
    BY <1>1, <1>2, <1>3, <1>5, <1>6 DEF Quiet, OnSocket
  <2>2. QED
    BY <1>1, <1>12, <2>1 DEF Quiet
<1>15. \A k \in {"construct", "delete", "timeout"} : \A x : Queued(k, x)' <=> Queued(k, x)
  BY <1>3, <1>4, <1>5, <1>6 DEF Queued
<1>16. \A x : There(x)' <=> There(x)
  BY <1>1, <1>15 DEF There
<1>17. Living'
  BY <1>1, <1>2, <1>15, <1>16 DEF Living, Upgrading
<1>18. Calls'
  <2>1. ASSUME NEW m \in X'
        PROVE  /\ FromS(m) => {"H", "B"} \subseteq objs /\ ~Queued("delete", "B")
               /\ ToB(m) => "B" \in objs
               /\ m.kind \in {"frame", "tick"} => There("T") /\ There("W")
               /\ m.kind # "construct"
    BY <1>1, <1>2, <1>3, <1>4, <1>5, <1>6 DEF Calls
  <2>2. QED
    BY <1>1, <1>15, <1>16, <2>1 DEF Calls
<1>19. Alive'
  <2>1. Queued("done", "A")' => Queued("done", "A")
    BY <1>3, <1>5, <1>6 DEF Queued
  <2>2. finished = 0 => \/ \E m \in X' : Token(m, pace.tick)
                        \/ \E o \in ring' : OnSocket(o)
    BY <1>1, <1>6
  <2>3. (\E m \in X : Clock(m, pace.tick)) => \E m \in X' : Clock(m, pace.tick)
    BY <1>3, <1>4, <1>6
  <2>4. QED
    BY <1>1, <1>2, <2>1, <2>2, <2>3 DEF Alive
<1>20. Covered'
  BY <1>1, <1>2, <1>15 DEF Covered
<1>21. QED
  BY <1>1, <1>7, <1>9, <1>10, <1>11, <1>13, <1>14, <1>17, <1>18, <1>19, <1>20 DEF Run

\* The same of the clock's token; S may note that the clock has ticked.
ClockMoves(ms, new) ==
    /\ q # <<>> /\ Clock(Head(q), pace.tick)
    /\ Push(ms) /\ ring' = ring \union new
    /\ \A m \in Elems(ms) : Clock(m, pace.tick) /\ m.kind # "tick" /\ Shape(m)
    /\ \A o \in new : o.op = "clock" /\ OpFits(o)
    /\ new # {} => Elems(ms) = {}
    /\ new = {} /\ Elems(ms) = {} => finished # 0 \/ pace'.ticked
    /\ \/ UNCHANGED pace
       \/ /\ pace' = [pace EXCEPT !.ticked = TRUE] /\ ~pace.wrote
          /\ new = {} /\ Elems(ms) = {}
    /\ UNCHANGED <<held, objs, children, http, frame, stage, timer, count,
                   finished, crashed>>

LEMMA ClockMovesKeeps ==
    ASSUME Run, NEW ms \in Seq(Message), Row(ms, pace.tick), NEW new, IsFiniteSet(new),
           ClockMoves(ms, new)
    PROVE  Run'
<1> DEFINE h == Head(q)
<1>1. /\ q # <<>> /\ Clock(h, pace.tick)
      /\ Push(ms) /\ ring' = ring \union new
      /\ \A m \in Elems(ms) : Clock(m, pace.tick) /\ m.kind # "tick" /\ Shape(m)
      /\ \A o \in new : o.op = "clock" /\ OpFits(o)
      /\ new # {} => Elems(ms) = {}
      /\ new = {} /\ Elems(ms) = {} => finished # 0 \/ pace'.ticked
      /\ UNCHANGED <<held, objs, children, http, frame, stage, timer, count,
                     finished, crashed>>
  BY DEF ClockMoves
<1>2. /\ Messages /\ Ring /\ Once /\ Data /\ Paced /\ Quiet
      /\ Family /\ Living /\ Calls /\ Alive /\ Covered
  BY DEF Run
<1>3. /\ h \in X /\ X = Rest \union {h} /\ q \in Seq(Message)
      /\ Row(Tail(q), pace.tick)
      /\ \A m \in X : /\ m \in Message /\ Shape(m)
                      /\ Token(m, pace.tick) => Fits(m)
      /\ \A m \in Rest : Pair(h, m, pace.tick)
  BY <1>1, <1>2, Taken DEF Messages
<1>3a. /\ pace'.tick = pace.tick /\ pace'.frame = pace.frame /\ pace'.wrote = pace.wrote
       /\ pace' \in [tick : Nat, frame : Nat, ticked : BOOLEAN, wrote : BOOLEAN]
       /\ \/ pace'.ticked = pace.ticked
          \/ pace'.ticked /\ ~pace.wrote /\ new = {} /\ Elems(ms) = {}
  BY <1>2 DEF ClockMoves, Data
<1> HIDE DEF h
<1>4. /\ Clock(h, pace.tick) /\ ~Token(h, pace.tick)
      /\ h.kind \notin {"construct", "delete", "timeout", "frame"}
      /\ \A m \in Rest : ~Clock(m, pace.tick)
  BY <1>1, <1>3a, <1>3 DEF Clock, Token, Pair
<1>5. \A m \in Elems(ms) :
         /\ ~Token(m, pace.tick) /\ (m.kind # "done" \/ m.to # "A")
         /\ ~FromS(m) /\ ~ToB(m)
         /\ m.kind \notin {"construct", "delete", "timeout", "tick", "frame"}
  BY <1>1 DEF Token, Clock, FromS, ToB
<1>6. /\ q' \in Seq(Message) /\ X' = Rest \union Elems(ms) /\ Row(q', pace.tick)
  <2>1. ASSUME NEW m \in Rest, NEW n \in Elems(ms)
        PROVE  Pair(m, n, pace.tick)
    BY <1>4, <1>5 DEF Pair
  <2>2. QED
    BY <1>1, <1>3a, <1>3, <2>1, Pushed
<1>7. Messages'
  <2>1. ASSUME NEW m \in X'
        PROVE  Shape(m) /\ (Token(m, pace.tick) => Fits(m))
    BY <1>1, <1>3, <1>5, <1>6
  <2>2. \A m \in X' : Shape(m)' /\ (Token(m, pace.tick)' => Fits(m)')
    BY <1>1, <1>3a, <2>1 DEF Shape, Fits, Due, Upgrading, Token
  <2>3. QED
    BY <1>1, <1>3a, <1>6, <2>2 DEF Messages
<1>8. \A o \in ring : o.op # "clock"
  BY <1>2, <1>3, <1>4 DEF Once
<1>9. Ring'
  <2>1. IsFiniteSet(ring')
    BY <1>1, <1>3a, <1>2, FS_Union DEF Ring
  <2>2. \A o \in ring' : OpFits(o)
    BY <1>1, <1>3a, <1>2 DEF Ring
  <2>3. \A o \in ring' : OpFits(o)'
    BY <1>1, <1>3a, <2>2 DEF OpFits, Upgrading, Due
  <2>4. QED
    BY <1>1, <1>3a, <2>1, <2>3 DEF Ring
<1>10. Once'
  <2>1. ASSUME NEW o \in ring', OnSocket(o)
        PROVE  (\A m \in X' : ~Token(m, pace.tick)) /\ \A p \in ring' : OnSocket(p) => p = o
    BY <1>1, <1>3a, <1>2, <1>3, <1>5, <1>6, <2>1 DEF Once, OnSocket
  <2>2. ASSUME NEW o \in ring', o.op = "clock"
        PROVE  \A m \in X' : ~Clock(m, pace.tick)
    BY <1>1, <1>3a, <1>4, <1>6, <1>8, <2>2
  <2>3. QED
    BY <1>1, <1>3a, <2>1, <2>2 DEF Once
<1>11. ~pace.ticked
  BY <1>2, <1>3, <1>4 DEF Quiet
<1>12. \/ ~pace'.ticked /\ (new = {} /\ Elems(ms) = {} => finished # 0)
       \/ pace'.ticked /\ ~pace.wrote /\ new = {} /\ Elems(ms) = {}
  <2>1. CASE pace'.ticked
    BY <1>3a, <1>11, <2>1
  <2>2. CASE ~pace'.ticked
    BY <1>1, <2>2
  <2>3. QED
    BY <2>1, <2>2
<1>12a. Data' /\ Paced' /\ Family'
  <2>1. Data'
    BY <1>1, <1>3a, <1>2 DEF Data
  <2>2. ~(pace'.wrote /\ pace'.ticked)
    BY <1>3a, <1>12
  <2>0. pace.tick # 0
    BY <1>3, <1>4 DEF Clock, Shape
  <2>3. Paced'
    BY <1>1, <1>2, <1>3a, <2>0, <2>2 DEF Paced, Upgrading
  <2>4. Family'
    BY <1>1, <1>2 DEF Family, Upgrading
  <2>5. QED
    BY <2>1, <2>3, <2>4
<1>13. Quiet'
  <2>1. pace.wrote => /\ \A m \in X' : ~Token(m, pace.tick)
                      /\ \A o \in ring' : ~OnSocket(o)
    BY <1>1, <1>3a, <1>2, <1>3, <1>5, <1>6 DEF Quiet, OnSocket
  <2>2. new = {} /\ Elems(ms) = {} => /\ \A m \in X' : ~Clock(m, pace.tick)
                                     /\ \A o \in ring' : o.op # "clock"
    BY <1>1, <1>4, <1>6, <1>8
  <2>3. pace'.ticked => new = {} /\ Elems(ms) = {}
    BY <1>12
  <2>4. QED
    BY <1>3a, <2>1, <2>2, <2>3 DEF Quiet
<1>14. /\ \A k \in {"construct", "delete", "timeout"} : \A x : Queued(k, x)' <=> Queued(k, x)
       /\ Queued("frame", "W") => Queued("frame", "W")'
       /\ Queued("done", "A")' => Queued("done", "A")
  BY <1>3, <1>4, <1>5, <1>6 DEF Queued
<1>15. \A x : There(x)' <=> There(x)
  BY <1>1, <1>3a, <1>14 DEF There
<1>16. Living'
  BY <1>1, <1>3a, <1>2, <1>14, <1>15 DEF Living, Upgrading
<1>17. Calls'
  <2>1. ASSUME NEW m \in X'
        PROVE  /\ FromS(m) => {"H", "B"} \subseteq objs /\ ~Queued("delete", "B")
               /\ ToB(m) => "B" \in objs
               /\ m.kind \in {"frame", "tick"} => There("T") /\ There("W")
               /\ m.kind = "construct" => pace.tick = 0 /\ Queued("frame", "W")
    BY <1>1, <1>3a, <1>2, <1>3, <1>5, <1>6 DEF Calls
  <2>2. QED
    BY <1>1, <1>3a, <1>14, <1>15, <2>1 DEF Calls
<1>18. Alive'
  <2>1. finished = 0 /\ ~pace'.ticked => \/ \E m \in X' : Clock(m, pace.tick)
                                         \/ \E o \in ring' : o.op = "clock"
    BY <1>1, <1>6, <1>12
  <2>2. (\E m \in X : Token(m, pace.tick)) => \E m \in X' : Token(m, pace.tick)
    BY <1>3, <1>4, <1>6
  <2>3. (\E o \in ring : OnSocket(o)) => \E o \in ring' : OnSocket(o)
    BY <1>1
  <2>4. QED
    BY <1>1, <1>3a, <1>2, <1>14, <2>1, <2>2, <2>3 DEF Alive
<1>19. Covered'
  BY <1>1, <1>3a, <1>2, <1>14 DEF Covered
<1>20. QED
  BY <1>1, <1>3a, <1>7, <1>9, <1>10, <1>12a, <1>13, <1>16, <1>17, <1>18, <1>19 DEF Run
-----------------------------------------------------------------------------
(* B, H, T and W.                                                           *)

\* What most of them leave alone.
LEMMA Unchanged ==
    ASSUME Run, UNCHANGED <<objs, children, http, frame, stage>>
    PROVE  /\ http' \in [reading : BOOLEAN, parser : BOOLEAN]
           /\ frame' \in [buffer : BOOLEAN, task : {Other} \union 1 .. 2 * MaxLive]
           /\ frame'.buffer => Upgrading
           /\ children' \in [Objects -> SUBSET Objects] /\ Family'
BY DEF Run, Data, Paced, Family, Upgrading

\* The task of a frame is not that of a tick, and before the live stage none.
LEMMA DueIs ==
    ASSUME Data, Paced
    PROVE  /\ Due \in {Other} \union 1 .. 2 * MaxLive /\ Due \in Int
           /\ Due # pace.tick /\ Other # pace.tick
           /\ pace.tick = 0 => Due = Other
           /\ ~Upgrading => pace.tick = 0
<1>1. /\ pace.tick \in Nat /\ pace.frame \in Nat
      /\ count.live \in 0 .. MaxLive /\ MaxLive \in Nat
  BY MonitoringAssumption DEF Data
<1>2. CASE pace.tick = 0
  BY <1>1, <1>2 DEF Due, Other
<1>3. CASE pace.tick # 0
  BY <1>1, <1>3 DEF Due, Other, Paced, Upgrading
<1>4. QED
  BY <1>2, <1>3

\* A turn that sends the token on in one message.
LEMMA PassesOn ==
    ASSUME Run, q # <<>>, Token(Head(q), pace.tick), NEW n \in Message, Push(<<n>>),
           Token(n, pace.tick), ~FromS(n),
           ToB(n) => "B" \in objs /\ ~Queued("delete", "B"),
           Shape(n)', Fits(n)',
           http' \in [reading : BOOLEAN, parser : BOOLEAN],
           frame' \in [buffer : BOOLEAN, task : {Other} \union 1 .. 2 * MaxLive],
           frame'.buffer => Upgrading,
           children' \in [Objects -> SUBSET Objects], Family',
           UNCHANGED <<ring, held, objs, stage, pace, timer, count, finished, crashed>>
    PROVE  Run'
<1>1. /\ <<n>> \in Seq(Message) /\ Row(<<n>>, pace.tick) /\ Elems(<<n>>) = {n}
      /\ IsFiniteSet({})
  BY Turns, FS_EmptySet
<1>2. TokenMoves(<<n>>, {})
  BY <1>1 DEF TokenMoves
<1>3. QED
  BY <1>1, <1>2, TokenMovesKeeps

\* A turn that arms the socket.
LEMMA Arms ==
    ASSUME Run, q # <<>>, Token(Head(q), pace.tick), Push(<<>>), NEW o, OnSocket(o), OpFits(o)',
           ring' = ring \union {o},
           UNCHANGED <<held, objs, children, stage, pace, timer, count, http, frame,
                       finished, crashed>>
    PROVE  Run'
<1>1. /\ <<>> \in Seq(Message) /\ Row(<<>>, pace.tick) /\ Elems(<<>>) = {}
      /\ IsFiniteSet({o})
  BY Turns, FS_Singleton
<1>2. /\ http' \in [reading : BOOLEAN, parser : BOOLEAN]
      /\ frame' \in [buffer : BOOLEAN, task : {Other} \union 1 .. 2 * MaxLive]
      /\ frame'.buffer => Upgrading
      /\ children' \in [Objects -> SUBSET Objects] /\ Family'
  BY Unchanged
<1>3. TokenMoves(<<>>, {o})
  BY <1>1, <1>2 DEF TokenMoves
<1>4. QED
  BY <1>1, <1>3, TokenMovesKeeps

\* prepare_read and prepare_write arm the socket, for the object that called.
LEMMA SocketCallKeeps ==
    ASSUME Run, NEW fun, NEW op, SocketCall(fun, op),
           <<fun, op>> \in {<<"read", "recv">>, <<"write", "send">>}
    PROVE  Run'
<1> DEFINE h == Head(q)
<1>0. PICK o : o = Op(op, h.by, 0)
  OBVIOUS
<1>1. /\ q # <<>> /\ h.kind = fun /\ h.to = "B"
      /\ ring' = ring \union {o} /\ Push(<<>>)
      /\ UNCHANGED <<held, objs, children, stage, pace, timer, count, http, frame,
                     finished, crashed>>
  BY <1>0 DEF SocketCall, Handles, server
<1>2. h \in X /\ Shape(h) /\ (Token(h, pace.tick) => Fits(h))
  BY <1>1, Taken DEF Run
<1>3. o.op = op /\ o.by = h.by /\ o.n = 0 /\ o = Op(o.op, o.by, o.n)
  BY <1>0 DEF Op
<1> HIDE DEF h
<1>4. /\ Token(h, pace.tick) /\ fun \in {"read", "write"} /\ op \in {"recv", "send"}
      /\ fun = "read" => op = "recv"
      /\ fun = "write" => op = "send"
  BY <1>1 DEF Token
<1>5. OnSocket(o) /\ OpFits(o)'
  <2>1. HasH(h) => h.by = "H"
    BY <1>1 DEF HasH
  <2>2. h.by = "H" => HasH(h)
    BY <1>1 DEF HasH
  <2>3. ~FromS(h) /\ h.kind # "frame" /\ h.to # "S"
    BY <1>1, <1>4 DEF FromS
  <2>4. h.by \in {"H", "W"} /\ (h.by = "W" => op = "send")
    BY <1>1, <1>2, <1>4 DEF Shape
  <2>5. QED
    BY <1>1, <1>2, <1>3, <1>4, <2>1, <2>2, <2>3, <2>4
       DEF OpFits, OnSocket, Fits, Upgrading, Due
<1>6. QED
  BY <1>0, <1>1, <1>4, <1>5, Arms DEF h

\* An answer of the socket: the object that called hears of it, or the rest of a
\* response is sent.
LEMMA SocketDataKeeps ==
    ASSUME Run, NEW op \in {"recv", "send"}, SocketData(op)
    PROVE  Run'
<1> DEFINE h == Head(q)
<1>1. /\ q # <<>> /\ h.kind = op /\ h.to = "B"
      /\ UNCHANGED <<held, objs, children, stage, pace, timer, count, http, frame,
                     finished, crashed>>
      /\ \/ /\ h.ok /\ h.by = "W" /\ stage = "WebsocketLive" => count.live < MaxLive
            /\ Push(<<Done(h.by, Other, h.ok)>>) /\ UNCHANGED ring
         \/ /\ op = "send" /\ Push(<<>>)
            /\ ring' = ring \union {Op("send", h.by, 0)}
  BY DEF SocketData, Hears, Handles, server
<1>2. h \in X /\ h \in Message /\ Shape(h) /\ (Token(h, pace.tick) => Fits(h))
  BY <1>1, Taken DEF Run
<1>3. Token(h, pace.tick) /\ h.by \in {"H", "W"} /\ (op = "recv" => h.by = "H")
  BY <1>1, <1>2 DEF Token, Shape
<1>4. /\ h.by = "H" => ~Upgrading /\ (http.reading <=> stage = "Read")
      /\ h.by = "W" => Upgrading /\ frame.task = Due
  BY <1>1, <1>2, <1>3 DEF Fits, HasH, FromS
<1>5. CASE /\ h.ok /\ h.by = "W" /\ stage = "WebsocketLive" => count.live < MaxLive
           /\ Push(<<Done(h.by, Other, h.ok)>>) /\ UNCHANGED ring
  <2>1. PICK n : n = Done(h.by, Other, h.ok)
    OBVIOUS
  <2>2. /\ n.kind = "done" /\ n.to = h.by /\ n.by = "none" /\ n.task = Other
        /\ n.ok = h.ok /\ n \in Message
    BY <1>2, <1>3, <2>1 DEF Done, Msg, Message, Other, Objects
  <2> HIDE DEF h
  <2>3. /\ Token(n, pace.tick) /\ ~FromS(n) /\ ~ToB(n)
    BY <1>3, <2>2 DEF Token, FromS, ToB
  <2>4. Shape(n)'
    BY <1>3, <2>2 DEF Shape
  <2>5. Fits(n)'
    BY <1>1, <1>3, <1>4, <1>5, <2>2 DEF Fits, HasH, FromS, Upgrading, Due
  <2>6. /\ http' \in [reading : BOOLEAN, parser : BOOLEAN]
        /\ frame' \in [buffer : BOOLEAN, task : {Other} \union 1 .. 2 * MaxLive]
        /\ frame'.buffer => Upgrading
        /\ children' \in [Objects -> SUBSET Objects] /\ Family'
    BY <1>1, Unchanged
  <2>7. Push(<<n>>)
    BY <1>5, <2>1
  <2>8. QED
    BY <1>1, <1>3, <1>5, <2>2, <2>3, <2>4, <2>5, <2>6, <2>7, PassesOn DEF h
<1>6. CASE /\ op = "send" /\ Push(<<>>)
           /\ ring' = ring \union {Op("send", h.by, 0)}
  <2>1. PICK o : o = Op("send", h.by, 0)
    OBVIOUS
  <2>2. o.op = "send" /\ o.by = h.by /\ o.n = 0 /\ o = Op(o.op, o.by, o.n)
    BY <2>1 DEF Op
  <2> HIDE DEF h
  <2>3. OnSocket(o) /\ OpFits(o)'
    BY <1>1, <1>3, <1>4, <2>2 DEF OpFits, OnSocket, Upgrading, Due
  <2>4. QED
    BY <1>1, <1>3, <1>6, <2>1, <2>3, Arms DEF h
<1>7. QED
  BY <1>1, <1>5, <1>6

\* HttpRequestResponse calls its socket.
LEMMA HttpCallKeeps ==
    ASSUME Run, NEW fun \in {"read", "write"}, HttpCall(fun)
    PROVE  Run'
<1> DEFINE h == Head(q)
<1>1. /\ q # <<>> /\ h.kind = fun /\ h.to = "H" /\ Push(<<Call(fun, "B", "H", Other)>>)
      /\ http' = [reading |-> fun = "read", parser |-> fun = "read" \/ http.parser]
      /\ UNCHANGED <<ring, held, objs, children, stage, pace, timer, count, frame,
                     finished, crashed>>
  BY DEF HttpCall, Handles, server
<1>2. h \in X /\ Shape(h) /\ (Token(h, pace.tick) => Fits(h))
  BY <1>1, Taken DEF Run
<1>3. Token(h, pace.tick) /\ FromS(h)
  BY <1>1 DEF Token, FromS
<1>4. ~Upgrading /\ (fun = "read" <=> stage = "Read")
  BY <1>1, <1>2, <1>3 DEF Fits, HasH
<1>5. PICK n : n = Call(fun, "B", "H", Other)
  OBVIOUS
<1>6. /\ n.kind = fun /\ n.to = "B" /\ n.by = "H" /\ n.task = Other
      /\ n.ok = TRUE /\ n \in Message
  BY <1>5 DEF Call, Msg, Message, Other, Objects
<1> HIDE DEF h
<1>7. /\ Token(n, pace.tick) /\ ~FromS(n) /\ ToB(n)
  BY <1>6 DEF Token, FromS, ToB
<1>8. "B" \in objs /\ ~Queued("delete", "B")
  BY <1>2, <1>3 DEF Run, Calls
<1>9. Shape(n)'
  BY <1>6 DEF Shape
<1>10. Fits(n)'
  BY <1>1, <1>4, <1>6, <1>7 DEF Fits, HasH, Upgrading
<1>11. /\ http' \in [reading : BOOLEAN, parser : BOOLEAN]
       /\ frame' \in [buffer : BOOLEAN, task : {Other} \union 1 .. 2 * MaxLive]
       /\ frame'.buffer => Upgrading
       /\ children' \in [Objects -> SUBSET Objects] /\ Family'
  BY <1>1 DEF Run, Data, Paced, Family, Upgrading
<1>12. Push(<<n>>)
  BY <1>1, <1>5
<1>13. QED
  BY <1>1, <1>3, <1>6, <1>7, <1>8, <1>9, <1>10, <1>11, <1>12, PassesOn DEF h

\* HttpRequestResponse hears of its socket: S is told, or it reads on.
LEMMA HttpDataKeeps ==
    ASSUME Run, HttpData
    PROVE  Run'
<1> DEFINE h == Head(q)
<1>1. /\ q # <<>> /\ h.kind = "done" /\ h.to = "H" /\ "H" \in objs
      /\ UNCHANGED <<ring, held, objs, children, stage, pace, timer, count, http, frame,
                     finished, crashed>>
      /\ \/ /\ h.ok /\ http.reading => count.requests < MaxReq
            /\ Push(<<Done("S", Other, h.ok)>>)
         \/ /\ h.ok /\ http.reading /\ Push(<<Call("read", "B", "H", Other)>>)
  BY DEF HttpData, Hears, Handles, server
<1>2. h \in X /\ h \in Message /\ Shape(h) /\ (Token(h, pace.tick) => Fits(h))
  BY <1>1, Taken DEF Run
<1>3. Token(h, pace.tick)
  BY <1>1 DEF Token
<1>4. ~Upgrading /\ (http.reading <=> stage = "Read")
  BY <1>1, <1>2, <1>3 DEF Fits, HasH, FromS
<1>5. /\ http' \in [reading : BOOLEAN, parser : BOOLEAN]
      /\ frame' \in [buffer : BOOLEAN, task : {Other} \union 1 .. 2 * MaxLive]
      /\ frame'.buffer => Upgrading
      /\ children' \in [Objects -> SUBSET Objects] /\ Family'
  BY <1>1, Unchanged
<1>6. CASE /\ h.ok /\ http.reading => count.requests < MaxReq
           /\ Push(<<Done("S", Other, h.ok)>>)
  <2>1. PICK n : n = Done("S", Other, h.ok)
    OBVIOUS
  <2>2. /\ n.kind = "done" /\ n.to = "S" /\ n.by = "none" /\ n.task = Other
        /\ n.ok = h.ok /\ n \in Message
    BY <1>2, <2>1 DEF Done, Msg, Message, Other, Objects
  <2> HIDE DEF h
  <2>3. Due = Other /\ Other # pace.tick
    BY <1>4, DueIs DEF Run
  <2>4. /\ Token(n, pace.tick) /\ ~FromS(n) /\ ~ToB(n)
    BY <2>2, <2>3 DEF Token, FromS, ToB
  <2>5. Shape(n)'
    BY <1>1, <2>2, <2>3 DEF Shape, Due
  <2>6. ~frame.buffer /\ stage # "WebsocketLive"
    BY <1>4 DEF Run, Paced, Upgrading
  <2>7. Fits(n)'
    BY <1>1, <1>4, <1>6, <2>2, <2>6 DEF Fits, HasH, FromS, Upgrading
  <2>8. Push(<<n>>)
    BY <1>6, <2>1
  <2>9. QED
    BY <1>1, <1>3, <1>5, <2>2, <2>4, <2>5, <2>7, <2>8, PassesOn DEF h
<1>7. CASE /\ h.ok /\ http.reading /\ Push(<<Call("read", "B", "H", Other)>>)
  <2>1. PICK n : n = Call("read", "B", "H", Other)
    OBVIOUS
  <2>2. /\ n.kind = "read" /\ n.to = "B" /\ n.by = "H" /\ n.task = Other
        /\ n.ok = TRUE /\ n \in Message
    BY <2>1 DEF Call, Msg, Message, Other, Objects
  <2> HIDE DEF h
  <2>3. /\ Token(n, pace.tick) /\ ~FromS(n) /\ ToB(n)
    BY <2>2 DEF Token, FromS, ToB
  <2>4. "B" \in objs /\ ~Queued("delete", "B")
    BY <1>1, <1>4 DEF Run, Living
  <2>5. Shape(n)'
    BY <2>2 DEF Shape
  <2>6. Fits(n)'
    BY <1>1, <1>4, <2>2, <2>3 DEF Fits, HasH, Upgrading
  <2>7. Push(<<n>>)
    BY <1>7, <2>1
  <2>8. QED
    BY <1>1, <1>3, <1>5, <2>2, <2>3, <2>4, <2>5, <2>6, <2>7, PassesOn DEF h
<1>8. QED
  BY <1>1, <1>6, <1>7

\* write_frame: the buffer is filled, and W becomes the socket's second parent.
LEMMA FrameCallKeeps ==
    ASSUME Run, FrameCall
    PROVE  Run'
<1> DEFINE h == Head(q)
<1>1. /\ q # <<>> /\ h.kind = "frame" /\ h.to = "W"
      /\ Push(<<Call("write", "B", "W", Other)>>)
      /\ frame' = [buffer |-> TRUE, task |-> h.task]
      /\ children' = [children EXCEPT !["W"] = @ \union {"B"}]
      /\ UNCHANGED <<ring, held, objs, stage, pace, timer, count, http,
                     finished, crashed>>
  BY DEF FrameCall, Handles, server
<1>2. h \in X /\ Shape(h) /\ (Token(h, pace.tick) => Fits(h))
  BY <1>1, Taken DEF Run
<1>3. Token(h, pace.tick) /\ FromS(h) /\ h.task = Due
  BY <1>1, <1>2 DEF Token, FromS, Shape
<1>4. Upgrading
  BY <1>1, <1>2, <1>3 DEF Fits, HasH
<1>5. PICK n : n = Call("write", "B", "W", Other)
  OBVIOUS
<1>6. /\ n.kind = "write" /\ n.to = "B" /\ n.by = "W" /\ n.task = Other
      /\ n.ok = TRUE /\ n \in Message
  BY <1>5 DEF Call, Msg, Message, Other, Objects
<1> HIDE DEF h
<1>7. /\ Token(n, pace.tick) /\ ~FromS(n) /\ ToB(n)
  BY <1>6 DEF Token, FromS, ToB
<1>8. "B" \in objs /\ ~Queued("delete", "B")
  BY <1>2, <1>3 DEF Run, Calls
<1>9. Shape(n)'
  BY <1>6 DEF Shape
<1>10. Due' = Due /\ frame'.task = Due
  BY <1>1, <1>3 DEF Due
<1>11. Fits(n)'
  BY <1>1, <1>4, <1>6, <1>10 DEF Fits, HasH, Upgrading
<1>12. /\ http' \in [reading : BOOLEAN, parser : BOOLEAN]
       /\ frame' \in [buffer : BOOLEAN, task : {Other} \union 1 .. 2 * MaxLive]
  BY <1>1, <1>3, DueIs DEF Run, Data
<1>13. children' \in [Objects -> SUBSET Objects] /\ Family'
  BY <1>1, <1>4 DEF Run, Data, Family, Upgrading, Objects
<1>14. Push(<<n>>)
  BY <1>1, <1>5
<1>15. QED
  BY <1>1, <1>3, <1>4, <1>6, <1>7, <1>8, <1>9, <1>11, <1>12, <1>13, <1>14, PassesOn DEF h

\* The frame has gone, or could not: S is told with the frame's task.
LEMMA FrameDataKeeps ==
    ASSUME Run, FrameData
    PROVE  Run'
<1> DEFINE h == Head(q)
<1>1. /\ q # <<>> /\ h.kind = "done" /\ h.to = "W"
      /\ frame' = IF h.ok THEN [frame EXCEPT !.buffer = FALSE] ELSE frame
      /\ Push(<<Done("S", frame.task, h.ok)>>)
      /\ UNCHANGED <<ring, held, objs, children, stage, pace, timer, count, http,
                     finished, crashed>>
  BY DEF FrameData, Hears, Handles, server
<1>2. h \in X /\ h \in Message /\ Shape(h) /\ (Token(h, pace.tick) => Fits(h))
  BY <1>1, Taken DEF Run
<1>3. Token(h, pace.tick)
  BY <1>1 DEF Token
<1>4. /\ Upgrading /\ frame.task = Due
      /\ h.ok /\ stage = "WebsocketLive" => count.live < MaxLive
  BY <1>1, <1>2, <1>3 DEF Fits, HasH, FromS
<1>5. PICK n : n = Done("S", frame.task, h.ok)
  OBVIOUS
<1>6. Due \in Int /\ Due # pace.tick
  BY DueIs DEF Run
<1>7. /\ n.kind = "done" /\ n.to = "S" /\ n.by = "none" /\ n.task = Due
      /\ n.ok = h.ok /\ n \in Message
  BY <1>2, <1>4, <1>5, <1>6 DEF Done, Msg, Message, Objects
<1> HIDE DEF h
<1>8. /\ Token(n, pace.tick) /\ ~FromS(n) /\ ~ToB(n)
  BY <1>6, <1>7 DEF Token, FromS, ToB
<1>9. Shape(n)'
  <2>1. Due' = Due
    BY <1>1 DEF Due
  <2>2. QED
    BY <1>1, <1>6, <1>7, <2>1 DEF Shape
<1>10. /\ frame' \in [buffer : BOOLEAN, task : {Other} \union 1 .. 2 * MaxLive]
       /\ h.ok => ~frame'.buffer
  BY <1>1 DEF Run, Data
<1>11. Fits(n)'
  BY <1>1, <1>4, <1>7, <1>10 DEF Fits, HasH, Upgrading
<1>12. http' \in [reading : BOOLEAN, parser : BOOLEAN]
  BY <1>1 DEF Run, Data
<1>13. children' \in [Objects -> SUBSET Objects] /\ Family'
  BY <1>1 DEF Run, Data, Family, Upgrading
<1>14. Push(<<n>>)
  BY <1>1, <1>5
<1>15. QED
  BY <1>1, <1>3, <1>4, <1>7, <1>8, <1>9, <1>10, <1>11, <1>12, <1>13, <1>14, PassesOn DEF h

\* prepare_timer arms the clock.
LEMMA ClockCallKeeps ==
    ASSUME Run, ClockCall
    PROVE  Run'
<1> DEFINE h == Head(q)
<1>0. PICK o : o = Op("clock", "T", h.task)
  OBVIOUS
<1>1. /\ q # <<>> /\ h.kind = "tick" /\ h.to = "T"
      /\ ring' = ring \union {o} /\ Push(<<>>)
      /\ UNCHANGED <<held, objs, children, stage, pace, timer, count, http, frame,
                     finished, crashed>>
  BY <1>0 DEF ClockCall, Handles, server
<1>2. h \in X /\ Shape(h)
  BY <1>1, Taken DEF Run
<1>3. o.op = "clock" /\ o.by = "T" /\ o.n = h.task /\ o = Op(o.op, o.by, o.n)
  BY <1>0 DEF Op
<1> HIDE DEF h
<1>4. OpFits(o)
  BY <1>1, <1>2, <1>3 DEF OpFits, OnSocket, Shape
<1>5. /\ <<>> \in Seq(Message) /\ Row(<<>>, pace.tick) /\ Elems(<<>>) = {}
      /\ IsFiniteSet({o})
  BY Turns, FS_Singleton
<1>6. ClockMoves(<<>>, {o})
  BY <1>1, <1>3, <1>4, <1>5 DEF ClockMoves, Clock, h
<1>7. QED
  BY <1>5, <1>6, ClockMovesKeeps

\* The clock has ticked: S is told with the clock's task.
LEMMA ClockDataKeeps ==
    ASSUME Run, ClockData
    PROVE  Run'
<1> DEFINE h == Head(q)
<1>0. PICK n : n = Done("S", h.task, TRUE)
  OBVIOUS
<1>1. /\ q # <<>> /\ h.kind = "clock" /\ h.to = "T" /\ Push(<<n>>)
      /\ UNCHANGED <<ring, held, objs, children, stage, pace, timer, count, http, frame,
                     finished, crashed>>
  BY <1>0 DEF ClockData, Hears, Handles, server
<1>2. h \in X /\ Shape(h) /\ h \in Message
  BY <1>1, Taken DEF Run
<1>3. /\ n.kind = "done" /\ n.to = "S" /\ n.by = "none" /\ n.task = h.task
      /\ n.ok = TRUE /\ n \in Message
  BY <1>0, <1>2 DEF Done, Msg, Message, Objects
<1> HIDE DEF h
<1>4. Shape(n) /\ Clock(n, pace.tick)
  BY <1>1, <1>2, <1>3 DEF Shape, Clock
<1>5. /\ <<n>> \in Seq(Message) /\ Row(<<n>>, pace.tick) /\ Elems(<<n>>) = {n}
      /\ IsFiniteSet({})
  BY <1>3, Turns, FS_EmptySet
<1>6. ClockMoves(<<n>>, {})
  BY <1>1, <1>3, <1>4, <1>5 DEF ClockMoves, Clock, h
<1>7. QED
  BY <1>5, <1>6, ClockMovesKeeps

\* A completion for an object that has gone: only when the connection has finished.
LEMMA DroppedKeeps ==
    ASSUME Run, NEW kind, NEW to, Dropped(kind, to),
           \/ kind \in {"recv", "send"} /\ to = "B"
           \/ kind = "done" /\ to \in {"S", "H", "W"}
           \/ kind = "clock" /\ to = "T"
    PROVE  Run'
<1> DEFINE h == Head(q)
<1>1. /\ q # <<>> /\ h.kind = kind /\ h.to = to /\ to \notin objs /\ Push(<<>>)
      /\ UNCHANGED <<ring, held, objs, children, stage, pace, timer, count, http, frame,
                     finished, crashed>>
  BY DEF Dropped, Handles, server
<1>2. h \in X /\ Shape(h) /\ (Token(h, pace.tick) => Fits(h))
  BY <1>1, Taken DEF Run
<1> HIDE DEF h
<1>3. Token(h, pace.tick) \/ Clock(h, pace.tick)
  BY <1>1 DEF Token, Clock
<1>4. finished # 0
  <2>1. SUFFICES ASSUME finished = 0 PROVE FALSE
    OBVIOUS
  <2>2. "S" \in objs /\ {"H", "B"} \subseteq objs
    BY <2>1 DEF Run, Alive, Living, Family
  <2>3. Upgrading => There("T") /\ There("W")
    BY <2>2 DEF Run, Living
  <2>4. CASE to = "W"
    <3>1. Token(h, pace.tick) /\ Upgrading
      BY <1>1, <1>2, <2>4 DEF Token, Fits, HasH
    <3>2. \A m \in X : m.kind # "construct"
      BY <1>1, <3>1, TokenAhead DEF Run, h
    <3>3. QED
      BY <1>1, <2>3, <2>4, <3>1, <3>2 DEF There, Queued
  <2>5. CASE to = "T"
    <3>1. pace.tick # 0
      BY <1>1, <1>2, <2>5 DEF Shape
    <3>2. Upgrading /\ \A m \in X : m.kind # "construct"
      BY <3>1 DEF Run, Paced, Upgrading, Calls
    <3>3. QED
      BY <1>1, <2>3, <2>5, <3>2 DEF There, Queued
  <2>6. QED
    BY <1>1, <2>2, <2>4, <2>5
<1>5. /\ <<>> \in Seq(Message) /\ Row(<<>>, pace.tick) /\ Elems(<<>>) = {}
      /\ IsFiniteSet({}) /\ ring = ring \union {}
  BY Turns, FS_EmptySet
<1>6. CASE Token(h, pace.tick)
  <2>1. /\ http' \in [reading : BOOLEAN, parser : BOOLEAN]
        /\ frame' \in [buffer : BOOLEAN, task : {Other} \union 1 .. 2 * MaxLive]
        /\ frame'.buffer => Upgrading
        /\ children' \in [Objects -> SUBSET Objects] /\ Family'
    BY <1>1, Unchanged
  <2>2. TokenMoves(<<>>, {})
    BY <1>1, <1>4, <1>5, <1>6, <2>1 DEF TokenMoves, h
  <2>3. QED
    BY <1>5, <2>2, TokenMovesKeeps
<1>7. CASE Clock(h, pace.tick)
  <2>1. ClockMoves(<<>>, {})
    BY <1>1, <1>4, <1>5, <1>7 DEF ClockMoves, h
  <2>2. QED
    BY <1>5, <2>1, ClockMovesKeeps
<1>8. QED
  BY <1>3, <1>6, <1>7
-----------------------------------------------------------------------------
(* The end of a connection.                                                 *)

\* What the turns have in common that take a timeout, a failure or a completion:
\* the connection has finished, and nothing else changes but that the acceptor
\* may let go of it.
EndMoves(ms) ==
    /\ q # <<>> /\ Push(ms)
    /\ \/ Head(q).kind = "timeout"
       \/ Head(q).kind = "done" /\ Head(q).to = "A"
       \/ Head(q).kind = "done" /\ Head(q).to = "S" /\ ~Head(q).ok
    /\ \A m \in Elems(ms) : \/ m.kind = "done" /\ m.to = "A"
                            \/ m.kind = "delete" /\ m.to = "S"
    /\ finished' \in 1 .. 2
    /\ \/ held' = held /\ \A m \in Elems(ms) : m.kind # "delete"
       \/ held /\ held' = FALSE /\ \E m \in Elems(ms) : m.kind = "delete"
    /\ UNCHANGED <<ring, objs, children, http, frame, stage, pace, timer, count, crashed>>

LEMMA EndMovesKeeps ==
    ASSUME Run, NEW ms \in Seq(Message), Row(ms, pace.tick), EndMoves(ms)
    PROVE  Run'
<1> DEFINE h == Head(q)
<1>1. /\ q # <<>> /\ Push(ms)
      /\ \/ h.kind = "timeout"
         \/ h.kind = "done" /\ h.to = "A"
         \/ h.kind = "done" /\ h.to = "S" /\ ~h.ok
      /\ \A m \in Elems(ms) : \/ m.kind = "done" /\ m.to = "A"
                              \/ m.kind = "delete" /\ m.to = "S"
      /\ finished' \in 1 .. 2
      /\ \/ held' = held /\ \A m \in Elems(ms) : m.kind # "delete"
         \/ held /\ held' = FALSE /\ \E m \in Elems(ms) : m.kind = "delete"
      /\ UNCHANGED <<ring, objs, children, http, frame, stage, pace, timer, count, crashed>>
  BY DEF EndMoves
<1>2. /\ Messages /\ Ring /\ Once /\ Data /\ Paced /\ Quiet
      /\ Family /\ Living /\ Calls
  BY DEF Run
<1>3. /\ h \in X /\ X = Rest \union {h} /\ q \in Seq(Message)
      /\ Row(Tail(q), pace.tick)
      /\ \A m \in X : /\ m \in Message /\ Shape(m)
                      /\ Token(m, pace.tick) => Fits(m)
  BY <1>1, <1>2, Taken DEF Messages
<1>4. Token(h, pace.tick) => \A m \in X : m.kind # "construct"
  BY <1>1, <1>2, TokenAhead
<1> HIDE DEF h
<1>5. h.kind \notin {"construct", "delete", "frame", "tick"} /\ ~FromS(h) /\ ~ToB(h)
  BY <1>1 DEF FromS, ToB
<1>6. \A m \in Elems(ms) :
         /\ ~Token(m, pace.tick) /\ ~Clock(m, pace.tick) /\ ~FromS(m) /\ ~ToB(m)
         /\ m.kind \notin {"construct", "tick", "frame"}
         /\ Shape(m)
  BY <1>1 DEF Token, Clock, FromS, ToB, Shape, Objects
<1>7. /\ q' \in Seq(Message) /\ X' = Rest \union Elems(ms) /\ Row(q', pace.tick)
  <2>1. ASSUME NEW m \in Rest, NEW n \in Elems(ms)
        PROVE  Pair(m, n, pace.tick)
    BY <1>6 DEF Pair
  <2>2. QED
    BY <1>1, <1>3, <2>1, Pushed
<1>8. Messages'
  <2>1. ASSUME NEW m \in X'
        PROVE  Shape(m) /\ (Token(m, pace.tick) => Fits(m))
    BY <1>3, <1>6, <1>7
  <2>2. \A m \in X' : Shape(m)' /\ (Token(m, pace.tick)' => Fits(m)')
    BY <1>1, <2>1 DEF Shape, Fits, Due, Upgrading, Token
  <2>3. QED
    BY <1>1, <1>7, <2>2 DEF Messages
<1>9. Ring'
  BY <1>1, <1>2 DEF Ring, OpFits, Upgrading, Due
<1>10. \A m \in X' : \/ m \in X
                     \/ /\ ~Token(m, pace.tick) /\ ~Clock(m, pace.tick)
                        /\ ~FromS(m) /\ ~ToB(m)
                        /\ m.kind \notin {"construct", "tick", "frame"}
  BY <1>3, <1>6, <1>7
<1>11. Once' /\ Quiet'
  <2>1. ASSUME NEW o \in ring, OnSocket(o)
        PROVE  (\A m \in X' : ~Token(m, pace.tick)) /\ \A p \in ring : OnSocket(p) => p = o
    BY <1>2, <1>10, <2>1 DEF Once
  <2>2. ASSUME NEW o \in ring, o.op = "clock"
        PROVE  \A m \in X' : ~Clock(m, pace.tick)
    BY <1>2, <1>10, <2>2 DEF Once
  <2>3. Once'
    BY <1>1, <2>1, <2>2 DEF Once
  <2>4. Quiet'
    BY <1>1, <1>2, <1>10 DEF Quiet
  <2>5. QED
    BY <2>3, <2>4
<1>12. Data' /\ Paced' /\ Family'
  <2>1. held' \in BOOLEAN
    <3>1. held \in BOOLEAN
      BY <1>2 DEF Data
    <3>2. held' = held \/ held' = FALSE
      BY <1>1
    <3>3. QED
      BY <3>1, <3>2
  <2>2. Data'
    BY <1>1, <1>2, <2>1 DEF Data
  <2>3. Paced' /\ Family'
    BY <1>1, <1>2 DEF Paced, Family, Upgrading
  <2>4. QED
    BY <2>2, <2>3
<1>13. /\ \A x : Queued("construct", x)' <=> Queued("construct", x)
       /\ \A x : x # "S" => (Queued("delete", x)' <=> Queued("delete", x))
       /\ Queued("delete", "S")' <=> Queued("delete", "S") \/ held' # held
       /\ Queued("frame", "W") => Queued("frame", "W")'
  <2>1. \A x : Queued("construct", x)' <=> Queued("construct", x)
    BY <1>3, <1>5, <1>6, <1>7 DEF Queued
  <2>2. \A x : x # "S" => (Queued("delete", x)' <=> Queued("delete", x))
    BY <1>1, <1>3, <1>5, <1>7 DEF Queued
  <2>3. Queued("delete", "S")' <=> Queued("delete", "S") \/ held' # held
    BY <1>1, <1>3, <1>5, <1>7 DEF Queued
  <2>4. Queued("frame", "W") => Queued("frame", "W")'
    BY <1>3, <1>5, <1>7 DEF Queued
  <2>5. QED
    BY <2>1, <2>2, <2>3, <2>4
<1>14. \A x : There(x)' <=> There(x)
  BY <1>1, <1>13 DEF There
<1>15. Living'
  BY <1>1, <1>2, <1>13, <1>14 DEF Living, Upgrading
<1>16. Calls'
  <2>1. ASSUME NEW m \in X'
        PROVE  /\ FromS(m) => {"H", "B"} \subseteq objs /\ ~Queued("delete", "B")
               /\ ToB(m) => "B" \in objs
               /\ m.kind \in {"frame", "tick"} => There("T") /\ There("W")
               /\ m.kind = "construct" => pace.tick = 0 /\ Queued("frame", "W")
    BY <1>2, <1>10 DEF Calls
  <2>2. QED
    BY <1>1, <1>13, <1>14, <2>1 DEF Calls
<1>17. Alive' /\ Covered'
  BY <1>1 DEF Alive, Covered
<1>18. QED
  BY <1>8, <1>9, <1>11, <1>12, <1>15, <1>16, <1>17 DEF Run

\* The timer has expired, or an operation has failed: the task completes.
LEMMA ServerFailsKeeps ==
    ASSUME Run, ServerFails
    PROVE  Run'
<1>0. PICK n : n = Done("A", Other, FALSE)
  OBVIOUS
<1>1. /\ q # <<>> /\ ~Head(q).ok /\ Push(<<n>>)
      /\ finished' = IF finished = 2 THEN 2 ELSE finished + 1
      /\ Head(q).kind \in {"done", "timeout"} /\ Head(q).to = "S"
      /\ UNCHANGED <<ring, held, objs, children, stage, pace, timer, count, http, frame,
                     crashed>>
  BY <1>0 DEF ServerFails, Complete, Hears, Handles, server
<1>2. n.kind = "done" /\ n.to = "A" /\ n \in Message
  BY <1>0 DEF Done, Msg, Message, Objects, Other
<1>3. <<n>> \in Seq(Message) /\ Row(<<n>>, pace.tick) /\ Elems(<<n>>) = {n}
  BY <1>2, Turns
<1>4. finished' \in 1 .. 2
  BY <1>1 DEF Run, Data
<1>5. EndMoves(<<n>>)
  BY <1>1, <1>2, <1>3, <1>4 DEF EndMoves
<1>6. QED
  BY <1>3, <1>5, EndMovesKeeps

\* A timeout that comes when S has gone.
LEMMA LateTimeoutKeeps ==
    ASSUME Run, Dropped("timeout", "S")
    PROVE  Run'
<1>1. /\ q # <<>> /\ Push(<<>>) /\ Head(q).kind = "timeout" /\ "S" \notin objs
      /\ UNCHANGED <<ring, held, objs, children, stage, pace, timer, count, http, frame,
                     finished, crashed>>
  BY DEF Dropped, Handles, server
<1>2. finished' \in 1 .. 2
  BY <1>1 DEF Run, Data, Alive, Living
<1>3. <<>> \in Seq(Message) /\ Row(<<>>, pace.tick) /\ Elems(<<>>) = {}
  BY Turns
<1>4. EndMoves(<<>>)
  BY <1>1, <1>2, <1>3 DEF EndMoves
<1>5. QED
  BY <1>3, <1>4, EndMovesKeeps

\* The acceptor lets go of the connection, or throws because it has.
LEMMA ReleasedKeeps ==
    ASSUME Run, Released
    PROVE  Run'
<1>0. PICK n : n = Call("delete", "S", "A", Other)
  OBVIOUS
<1>1. /\ q # <<>> /\ Head(q).kind = "done" /\ Head(q).to = "A" /\ held' = FALSE
      /\ IF held THEN Push(<<n>>) /\ UNCHANGED crashed
                 ELSE crashed' = TRUE /\ UNCHANGED q
      /\ UNCHANGED <<ring, objs, children, stage, pace, timer, count, http, frame,
                     finished>>
  BY <1>0 DEF Released, Handles, server
<1>2. CASE held
  <2>1. n.kind = "delete" /\ n.to = "S" /\ n \in Message
    BY <1>0 DEF Call, Msg, Message, Objects, Other
  <2>2. <<n>> \in Seq(Message) /\ Row(<<n>>, pace.tick) /\ Elems(<<n>>) = {n}
    BY <2>1, Turns
  <2>3. Head(q) \in X
    BY <1>1, Taken DEF Run
  <2>4. finished' \in 1 .. 2
    BY <1>1, <2>3 DEF Run, Data, Alive, Queued
  <2>5. EndMoves(<<n>>)
    BY <1>1, <1>2, <2>1, <2>2, <2>4 DEF EndMoves
  <2>6. QED
    BY <2>2, <2>5, EndMovesKeeps
<1>3. CASE ~held
  <2>1. UNCHANGED <<q, ring, held, objs, children, stage, pace, timer, count, http,
                    frame, finished>> /\ crashed' = TRUE
    BY <1>1, <1>3 DEF Run, Data
  <2>2. X' = X
    BY <2>1 DEF X
  <2>3. Messages'
    BY <2>1, <2>2 DEF Run, Messages, Shape, Fits, Due, Upgrading
  <2>4. Ring' /\ Once' /\ Quiet'
    BY <2>1, <2>2 DEF Run, Ring, OpFits, Due, Upgrading, Once, Quiet
  <2>5. Data' /\ Paced' /\ Family'
    BY <2>1 DEF Run, Data, Paced, Family, Upgrading
  <2>6. \A k, x : Queued(k, x)' <=> Queued(k, x)
    BY <2>2 DEF Queued
  <2>7. \A x : There(x)' <=> There(x)
    BY <2>1, <2>6 DEF There
  <2>8. Living' /\ Calls' /\ Alive' /\ Covered'
    BY <2>1, <2>2, <2>6, <2>7 DEF Run, Living, Calls, Alive, Covered, Upgrading
  <2>9. QED
    BY <2>3, <2>4, <2>5, <2>8 DEF Run
<1>4. QED
  BY <1>2, <1>3

\* T and W are made; what their parent's slot is then worth is not looked at.
LEMMA ConstructKeeps ==
    ASSUME Run, NEW to, Construct(to)
    PROVE  Run'
<1> DEFINE h == Head(q)
<1>1. /\ q # <<>> /\ h.kind = "construct" /\ h.to = to
  BY DEF Construct, Handles
<1>2. /\ Messages /\ Ring /\ Once /\ Data /\ Paced /\ Quiet
      /\ Family /\ Living /\ Calls /\ Alive /\ Covered
  BY DEF Run
<1>3. /\ h \in X /\ X = Rest \union {h} /\ q \in Seq(Message)
      /\ Row(Tail(q), pace.tick)
      /\ \A m \in X : /\ m \in Message /\ Shape(m)
                      /\ Token(m, pace.tick) => Fits(m)
  BY <1>1, <1>2, Taken DEF Messages
<1>4. to \in {"T", "W"}
  BY <1>1, <1>3 DEF Shape
<1>5. /\ Push(<<>>) /\ objs' = objs \union {to}
      /\ children' = [children EXCEPT ![to] = {}] /\ crashed' \in BOOLEAN
      /\ UNCHANGED <<ring, held, stage, pace, timer, count, http, frame, finished>>
  BY <1>4 DEF Construct, server
<1> HIDE DEF h
<1>6. ~Token(h, pace.tick) /\ ~Clock(h, pace.tick)
  BY <1>1 DEF Token, Clock
<1>7. /\ q' \in Seq(Message) /\ X' = Rest /\ Row(q', pace.tick)
  <2>1. <<>> \in Seq(Message) /\ Row(<<>>, pace.tick) /\ Elems(<<>>) = {}
    BY Turns
  <2>2. /\ q' \in Seq(Message) /\ X' = Rest \union Elems(<<>>) /\ Row(q', pace.tick)
    BY <1>1, <1>3, <1>5, <2>1, Pushed
  <2>3. QED
    BY <2>1, <2>2
<1>8. Messages'
  <2>1. \A m \in X' : Shape(m) /\ (Token(m, pace.tick) => Fits(m))
    BY <1>3, <1>7
  <2>2. \A m \in X' : Shape(m)' /\ (Token(m, pace.tick)' => Fits(m)')
    BY <1>5, <2>1 DEF Shape, Fits, Due, Upgrading, Token
  <2>3. QED
    BY <1>5, <1>7, <2>2 DEF Messages
<1>9. Ring' /\ Once' /\ Quiet'
  <2>1. Ring'
    BY <1>2, <1>5 DEF Ring, OpFits, Upgrading, Due
  <2>2. Once' /\ Quiet'
    BY <1>2, <1>3, <1>5, <1>7 DEF Once, Quiet
  <2>3. QED
    BY <2>1, <2>2
<1>10. Data' /\ Paced'
  BY <1>2, <1>4, <1>5 DEF Data, Paced, Upgrading, Objects
<1>11. Family'
  BY <1>2, <1>4, <1>5 DEF Family, Data, Upgrading, Objects
<1>12. /\ \A k, x : k # "construct" => (Queued(k, x)' <=> Queued(k, x))
       /\ \A x : Queued("construct", x) <=> Queued("construct", x)' \/ x = to
  BY <1>1, <1>3, <1>7 DEF Queued
<1>13. \A x : There(x)' <=> There(x)
  BY <1>5, <1>12 DEF There
<1>14. Living'
  BY <1>2, <1>4, <1>5, <1>12, <1>13 DEF Living, Upgrading
<1>15. Calls'
  <2>1. \A m \in X' : m \in X
    BY <1>3, <1>7
  <2>2. {"H", "B"} \subseteq objs => {"H", "B"} \subseteq objs'
    BY <1>5
  <2>3. QED
    BY <1>2, <1>5, <1>12, <1>13, <2>1, <2>2 DEF Calls
<1>16. Alive'
  <2>1. \A m \in X : Token(m, pace.tick) \/ Clock(m, pace.tick) => m \in X'
    BY <1>3, <1>6, <1>7
  <2>2. QED
    BY <1>2, <1>5, <1>12, <2>1 DEF Alive
<1>17. Covered'
  BY <1>2, <1>4, <1>5, <1>12 DEF Covered
<1>18. QED
  BY <1>8, <1>9, <1>10, <1>11, <1>14, <1>15, <1>16, <1>17 DEF Run

\* The deletions a deletion queues: one for every child, in any order.
LEMMA Deletions ==
    ASSUME NEW to \in Objects, NEW S \in SUBSET Objects, NEW s \in Orders(S), NEW t,
           NEW ms, ms = [i \in DOMAIN s |-> Call("delete", s[i], to, Other)]
    PROVE  /\ ms \in Seq(Message) /\ Row(ms, t)
           /\ \A m \in Elems(ms) : m.kind = "delete" /\ m.to \in S
           /\ \A x \in S : \E m \in Elems(ms) : m.kind = "delete" /\ m.to = x
<1>1. IsFiniteSet(S) /\ Cardinality(S) \in Nat
  <2>1. IsFiniteSet(Objects)
    <3>0. IsFiniteSet({"S"})
      BY FS_Singleton
    <3>1. IsFiniteSet({"S"} \union {"H"})
      BY <3>0, FS_AddElement
    <3>2. IsFiniteSet(({"S"} \union {"H"}) \union {"B"})
      BY <3>1, FS_AddElement
    <3>3. IsFiniteSet((({"S"} \union {"H"}) \union {"B"}) \union {"T"})
      BY <3>2, FS_AddElement
    <3>4. IsFiniteSet(((({"S"} \union {"H"}) \union {"B"}) \union {"T"}) \union {"W"})
      BY <3>3, FS_AddElement
    <3>5. Objects = ((({"S"} \union {"H"}) \union {"B"}) \union {"T"}) \union {"W"}
      BY DEF Objects
    <3>6. QED
      BY <3>4, <3>5
  <2>2. QED
    BY <2>1, FS_Subset, FS_CardinalityType
<1> DEFINE k == Cardinality(S)
<1>2. s \in [1 .. k -> S] /\ DOMAIN s = 1 .. k /\ \A x \in S : \E i \in 1 .. k : s[i] = x
  BY DEF Orders, Elems
<1>3. k \in Nat
  BY <1>1
<1> HIDE DEF k
<1>4. \A i \in 1 .. k : /\ ms[i].kind = "delete" /\ ms[i].to = s[i] /\ ms[i] \in Message
                        /\ s[i] \in S
  <2>1. \A i \in 1 .. k : ms[i] = Call("delete", s[i], to, Other) /\ s[i] \in S
    BY <1>2
  <2>2. ASSUME NEW x \in Objects
        PROVE  LET m == Call("delete", x, to, Other)
               IN m.kind = "delete" /\ m.to = x /\ m \in Message
    BY DEF Call, Msg, Message, Other, Objects
  <2>3. QED
    BY <2>1, <2>2
<1>5. ms \in [1 .. k -> Message]
  BY <1>2, <1>4
<1>6. ms \in Seq(Message) /\ Len(ms) = k /\ DOMAIN ms = 1 .. k
  BY <1>3, <1>5, BuiltSeq
<1>7. Row(ms, t)
  BY <1>4, <1>6 DEF Row, Pair, Token, Clock, FromS, ToB
<1>8. QED
  BY <1>2, <1>4, <1>6, <1>7 DEF Elems

\* An object is deleted.  S goes first, when the acceptor has let go; then no call of
\* S's is behind a deletion of T, W or H, and no call of theirs behind that of B.
LEMMA DeleteKeeps ==
    ASSUME Run, NEW to \in Objects, Delete(to)
    PROVE  Run'
<1> DEFINE h == Head(q)
<1>1. /\ q # <<>> /\ h.kind = "delete" /\ h.to = to
      /\ \E s \in Orders(children[to]) :
            Push([i \in DOMAIN s |-> Call("delete", s[i], to, Other)])
      /\ objs' = objs \ {to} /\ children' = [children EXCEPT ![to] = {}]
      /\ UNCHANGED <<ring, held, stage, pace, timer, count, http, frame, finished, crashed>>
  BY DEF Delete, Handles, server
<1>2. /\ Messages /\ Ring /\ Once /\ Data /\ Paced /\ Quiet
      /\ Family /\ Living /\ Calls /\ Alive /\ Covered
  BY DEF Run
<1>3. /\ h \in X /\ X = Rest \union {h} /\ q \in Seq(Message)
      /\ Row(Tail(q), pace.tick)
      /\ \A m \in X : /\ m \in Message /\ Shape(m)
                      /\ Token(m, pace.tick) => Fits(m)
      /\ \A m \in Rest : Pair(h, m, pace.tick)
  BY <1>1, <1>2, Taken DEF Messages
<1>4. PICK ms \in Seq(Message) :
         /\ Push(ms) /\ Row(ms, pace.tick)
         /\ \A m \in Elems(ms) : m.kind = "delete" /\ m.to \in children[to]
         /\ \A x \in children[to] : \E m \in Elems(ms) : m.kind = "delete" /\ m.to = x
  <2>1. PICK s \in Orders(children[to]) :
           Push([i \in DOMAIN s |-> Call("delete", s[i], to, Other)])
    BY <1>1
  <2>2. PICK ms : ms = [i \in DOMAIN s |-> Call("delete", s[i], to, Other)]
    OBVIOUS
  <2>3. children[to] \in SUBSET Objects
    BY <1>2 DEF Data
  <2>4. /\ ms \in Seq(Message) /\ Row(ms, pace.tick)
        /\ \A m \in Elems(ms) : m.kind = "delete" /\ m.to \in children[to]
        /\ \A x \in children[to] : \E m \in Elems(ms) : m.kind = "delete" /\ m.to = x
    BY <2>2, <2>3, Deletions
  <2>5. QED
    BY <2>1, <2>2, <2>4
<1> HIDE DEF h
<1>5. children[to] \subseteq Objects
  BY <1>2 DEF Data
<1>6. \A m \in Elems(ms) :
         /\ ~Token(m, pace.tick) /\ ~Clock(m, pace.tick) /\ ~FromS(m) /\ ~ToB(m)
         /\ m.kind \notin {"construct", "tick", "frame"}
         /\ Shape(m)
  BY <1>4, <1>5 DEF Token, Clock, FromS, ToB, Shape
<1>7. /\ q' \in Seq(Message) /\ X' = Rest \union Elems(ms) /\ Row(q', pace.tick)
  <2>1. ASSUME NEW m \in Rest, NEW n \in Elems(ms)
        PROVE  Pair(m, n, pace.tick)
    BY <1>6 DEF Pair
  <2>2. QED
    BY <1>1, <1>3, <1>4, <2>1, Pushed
<1>8. Messages'
  <2>1. ASSUME NEW m \in X'
        PROVE  Shape(m) /\ (Token(m, pace.tick) => Fits(m))
    BY <1>3, <1>6, <1>7
  <2>2. \A m \in X' : Shape(m)' /\ (Token(m, pace.tick)' => Fits(m)')
    BY <1>1, <2>1 DEF Shape, Fits, Due, Upgrading, Token
  <2>3. QED
    BY <1>1, <1>7, <2>2 DEF Messages
<1>9. Ring'
  BY <1>1, <1>2 DEF Ring, OpFits, Upgrading, Due
<1>10. \A m \in X' : \/ m \in Rest /\ m \in X
                     \/ /\ ~Token(m, pace.tick) /\ ~Clock(m, pace.tick)
                        /\ ~FromS(m) /\ ~ToB(m)
                        /\ m.kind \notin {"construct", "tick", "frame"}
  BY <1>3, <1>6, <1>7
<1>11. Once' /\ Quiet'
  <2>1. ASSUME NEW o \in ring, OnSocket(o)
        PROVE  (\A m \in X' : ~Token(m, pace.tick)) /\ \A p \in ring : OnSocket(p) => p = o
    BY <1>2, <1>10, <2>1 DEF Once
  <2>2. ASSUME NEW o \in ring, o.op = "clock"
        PROVE  \A m \in X' : ~Clock(m, pace.tick)
    BY <1>2, <1>10, <2>2 DEF Once
  <2>3. Once'
    BY <1>1, <2>1, <2>2 DEF Once
  <2>4. Quiet'
    BY <1>1, <1>2, <1>10 DEF Quiet
  <2>5. QED
    BY <2>3, <2>4
<1>12. Queued("delete", to)
  BY <1>1, <1>3 DEF Queued
<1>13. ~held /\ (to # "S" => "S" \notin objs)
  BY <1>2, <1>12 DEF Living, Objects
<1>14. Data' /\ Paced'
  <2>1. objs' \subseteq Objects /\ children' \in [Objects -> SUBSET Objects]
    BY <1>1, <1>2 DEF Data
  <2>2. Data'
    BY <1>1, <1>2, <2>1 DEF Data
  <2>3. Paced'
    BY <1>1, <1>2 DEF Paced, Upgrading
  <2>4. QED
    BY <2>2, <2>3
<1>15. Family'
  BY <1>1, <1>2, <1>13 DEF Family, Data, Upgrading, Objects
<1>16. /\ \A x : Queued("construct", x)' <=> Queued("construct", x)
       /\ \A x : x # to /\ Queued("delete", x) => Queued("delete", x)'
       /\ \A x \in children[to] : Queued("delete", x)'
       /\ \A x : Queued("delete", x)' => Queued("delete", x) \/ x \in children[to]
       /\ Queued("frame", "W") => Queued("frame", "W")'
  <2>1. \A x : Queued("construct", x)' <=> Queued("construct", x)
    BY <1>1, <1>3, <1>6, <1>7 DEF Queued
  <2>2. \A x : x # to /\ Queued("delete", x) => Queued("delete", x)'
    BY <1>1, <1>3, <1>7 DEF Queued
  <2>3. \A x \in children[to] : Queued("delete", x)'
    BY <1>4, <1>7 DEF Queued
  <2>4. \A x : Queued("delete", x)' => Queued("delete", x) \/ x \in children[to]
    BY <1>3, <1>4, <1>7 DEF Queued
  <2>5. Queued("frame", "W") => Queued("frame", "W")'
    BY <1>1, <1>3, <1>7 DEF Queued
  <2>6. QED
    BY <2>1, <2>2, <2>3, <2>4, <2>5
<1>17. \A x : There(x)' => There(x)
  BY <1>1, <1>16 DEF There
<1>18. /\ to \in {"H", "T", "W"} => \A m \in Rest : ~FromS(m)
       /\ to = "B" => \A m \in X : ~FromS(m) /\ ~ToB(m)
  <2>1. to \in {"H", "T", "W"} => \A m \in Rest : ~FromS(m)
    BY <1>1, <1>3 DEF Pair, Ends
  <2>2. to = "B" => \A m \in Rest : ~ToB(m)
    BY <1>1, <1>3 DEF Pair, Ends
  <2>3. to = "B" => \A m \in X : ~FromS(m)
    BY <1>2, <1>12 DEF Calls
  <2>4. ~ToB(h)
    BY <1>1 DEF ToB
  <2>5. QED
    BY <1>3, <2>1, <2>2, <2>3, <2>4
<1>19. Living'
  <2>1. to \in {"T", "W"} => ~There(to)'
    <3>1. to \in {"T", "W"} => ~Queued("construct", to)
      BY <1>1, <1>3, <1>18 DEF Queued, FromS
    <3>2. QED
      BY <1>1, <1>16, <3>1 DEF There
  <2>2. "S" \notin objs' /\ ~held'
    BY <1>1, <1>13
  <2>3. ASSUME NEW x \in {"H", "T", "W"}, There(x)'
        PROVE  Queued("delete", x)'
    <3>1. CASE "S" \in objs
      <4>1. to = "S" /\ children["S"] = IF Upgrading THEN {"H", "T", "W"} ELSE {"H"}
        BY <1>2, <1>13, <3>1 DEF Family
      <4>2. x # "H" => Upgrading
        BY <1>2, <1>17, <2>3 DEF Living
      <4>3. QED
        BY <1>16, <4>1, <4>2
    <3>2. CASE "S" \notin objs
      <4>1. Queued("delete", x)
        BY <1>2, <1>17, <2>3, <3>2 DEF Living
      <4>2. x # to
        <5>1. ~Queued("construct", "H")
          BY <1>3 DEF Queued, Shape
        <5>2. to = "H" => ~There("H")'
          BY <1>1, <1>16, <5>1 DEF There
        <5>3. QED
          BY <2>1, <2>3, <5>2
      <4>3. QED
        BY <1>16, <4>1, <4>2
    <3>3. QED
      BY <3>1, <3>2
  <2>4. "B" \in objs' /\ "H" \notin objs' => Queued("delete", "B")'
    <3>1. SUFFICES ASSUME "B" \in objs', "H" \notin objs' PROVE Queued("delete", "B")'
      OBVIOUS
    <3>2. to # "B" /\ "B" \in objs
      BY <1>1, <3>1
    <3>3. CASE "H" \in objs
      BY <1>1, <1>2, <1>16, <3>1, <3>3 DEF Family
    <3>4. CASE "H" \notin objs
      BY <1>2, <1>16, <3>2, <3>4 DEF Living
    <3>5. QED
      BY <3>3, <3>4
  <2>5. "B" \notin objs' \/ Queued("delete", "B")' => "H" \notin objs' \/ Upgrading
    <3>1. SUFFICES ASSUME "B" \notin objs' \/ Queued("delete", "B")', "H" \in objs'
                   PROVE  Upgrading
      OBVIOUS
    <3>2. to # "H" /\ "H" \in objs
      BY <1>1, <3>1
    <3>3. CASE "B" \in children[to]
      <4>1. to = "W"
        BY <1>2, <3>2, <3>3 DEF Family, Objects
      <4>2. QED
        BY <1>2, <3>3, <4>1 DEF Family
    <3>4. CASE "B" \notin children[to]
      BY <1>1, <1>2, <1>12, <1>16, <3>1, <3>2, <3>4 DEF Living
    <3>5. QED
      BY <3>3, <3>4
  <2>6. \A x \in {"T", "W"} : There(x)' => Upgrading
    BY <1>2, <1>17 DEF Living
  <2>7. Upgrading' <=> Upgrading
    BY <1>1 DEF Upgrading
  <2>8. QED
    BY <2>2, <2>3, <2>4, <2>5, <2>6, <2>7 DEF Living
<1>20. Calls'
  <2>1. ASSUME NEW m \in X', FromS(m)
        PROVE  /\ to = "S" /\ m \in X /\ {"H", "B"} \subseteq objs'
               /\ ~Queued("delete", "B")'
    <3>1. m \in Rest /\ m \in X
      BY <1>10, <2>1
    <3>2. to = "S"
      BY <1>18, <2>1, <3>1 DEF Objects
    <3>3. {"H", "B"} \subseteq objs /\ ~Queued("delete", "B")
      BY <1>2, <2>1, <3>1 DEF Calls
    <3>4. "B" \notin children["S"]
      BY <1>2 DEF Family
    <3>5. QED
      BY <1>1, <1>16, <3>1, <3>2, <3>3, <3>4
  <2>2. \A m \in X' : ToB(m) => "B" \in objs'
    BY <1>1, <1>2, <1>10, <1>18 DEF Calls
  <2>3. ASSUME NEW m \in X', m.kind \in {"frame", "tick"}
        PROVE  There("T")' /\ There("W")'
    <3>1. m \in X
      BY <1>10, <2>3
    <3>2. FromS(m)
      BY <1>3, <2>3, <3>1 DEF Shape, FromS
    <3>3. to = "S" /\ There("T") /\ There("W")
      BY <1>2, <2>1, <2>3, <3>1, <3>2 DEF Calls
    <3>4. QED
      BY <1>1, <1>16, <3>3 DEF There
  <2>4. ASSUME NEW m \in X', m.kind = "construct"
        PROVE  pace.tick = 0 /\ Queued("frame", "W")'
    BY <1>2, <1>10, <1>16, <2>4 DEF Calls
  <2>5. QED
    BY <1>1, <2>1, <2>2, <2>3, <2>4 DEF Calls
<1>21. Alive' /\ Covered'
  BY <1>1, <1>2, <1>13 DEF Alive, Covered
<1>22. QED
  BY <1>8, <1>9, <1>11, <1>14, <1>15, <1>19, <1>20, <1>21 DEF Run
-----------------------------------------------------------------------------
(* The stages.                                                              *)

\* What the turns of S have in common that take the token: the flags may note that
\* the frame has gone; S sends the token on, or the connection has finished.
ServerMoves(ms) ==
    /\ q # <<>> /\ Head(q).kind = "done" /\ Head(q).to = "S"
    /\ Token(Head(q), pace.tick) /\ "S" \in objs /\ Push(ms)
    /\ \A m \in Elems(ms) :
          /\ (FromS(m) /\ m.kind # "tick") \/ (m.kind = "done" /\ m.to = "A")
          /\ Shape(m)' /\ (Token(m, pace.tick) => Fits(m)')
          /\ m.kind = "frame" => Upgrading'
          /\ m.kind = "construct" => pace.tick = 0 /\ Upgrading'
                                     /\ \E f \in Elems(ms) : f.kind = "frame"
    /\ Upgrading => Upgrading'
    /\ Upgrading' /\ ~Upgrading => \A x \in {"T", "W"} :
          \E m \in Elems(ms) : m.kind = "construct" /\ m.to = x
    /\ Ring' /\ \A o \in ring' : ~OnSocket(o)
    /\ \A o : o.op = "clock" => (o \in ring <=> o \in ring')
    /\ Data' /\ Paced' /\ Family' /\ Covered'
    /\ pace'.tick = pace.tick /\ pace'.frame = pace.frame
    /\ pace'.ticked = pace.ticked
    /\ pace'.wrote => \A m \in Elems(ms) : ~Token(m, pace.tick)
    /\ \/ finished' \in 1 .. 2
       \/ /\ finished' = finished /\ \A m \in Elems(ms) : m.to # "A"
          /\ pace'.wrote \/ \E m \in Elems(ms) : Token(m, pace.tick)
    /\ UNCHANGED <<held, objs>>

LEMMA ServerMovesKeeps ==
    ASSUME Run, NEW ms \in Seq(Message), Row(ms, pace.tick), ServerMoves(ms)
    PROVE  Run'
<1> DEFINE h == Head(q)
<1>1. /\ q # <<>> /\ h.kind = "done" /\ h.to = "S"
      /\ Token(h, pace.tick) /\ "S" \in objs /\ Push(ms)
      /\ \A m \in Elems(ms) :
            /\ (FromS(m) /\ m.kind # "tick") \/ (m.kind = "done" /\ m.to = "A")
            /\ Shape(m)' /\ (Token(m, pace.tick) => Fits(m)')
            /\ m.kind = "frame" => Upgrading'
            /\ m.kind = "construct" => pace.tick = 0 /\ Upgrading'
                                       /\ \E f \in Elems(ms) : f.kind = "frame"
      /\ Upgrading => Upgrading'
      /\ Upgrading' /\ ~Upgrading => \A x \in {"T", "W"} :
            \E m \in Elems(ms) : m.kind = "construct" /\ m.to = x
      /\ Ring' /\ \A o \in ring' : ~OnSocket(o)
      /\ \A o : o.op = "clock" => (o \in ring <=> o \in ring')
      /\ Data' /\ Paced' /\ Family' /\ Covered'
      /\ pace'.tick = pace.tick /\ pace'.frame = pace.frame
      /\ pace'.ticked = pace.ticked
      /\ pace'.wrote => \A m \in Elems(ms) : ~Token(m, pace.tick)
      /\ \/ finished' \in 1 .. 2
         \/ /\ finished' = finished /\ \A m \in Elems(ms) : m.to # "A"
            /\ pace'.wrote \/ \E m \in Elems(ms) : Token(m, pace.tick)
      /\ UNCHANGED <<held, objs>>
  BY DEF ServerMoves
<1>2. /\ Messages /\ Once /\ Data /\ Paced /\ Quiet
      /\ Family /\ Living /\ Calls /\ Alive
  BY DEF Run
<1>3. /\ h \in X /\ X = Rest \union {h} /\ q \in Seq(Message)
      /\ Row(Tail(q), pace.tick)
      /\ \A m \in X : m \in Message /\ Shape(m)
  BY <1>1, <1>2, Taken DEF Messages
<1>4. /\ \A m \in Rest : ~Token(m, pace.tick)
      /\ \A m \in X : m.kind # "construct"
      /\ ~Clock(h, pace.tick)
  BY <1>1, <1>2, TokenAhead
<1> HIDE DEF h
<1>5. \A m \in Elems(ms) :
         /\ ~Clock(m, pace.tick) /\ ~ToB(m)
         /\ m.kind \notin {"delete", "timeout", "tick"}
         /\ m.kind = "frame" => m.to = "W"
  <2>1. TAKE m \in Elems(ms)
  <2>2. CASE FromS(m) /\ m.kind # "tick"
    <3>1. Shape(m)'
      BY <1>1
    <3>2. QED
      BY <2>2, <3>1 DEF Clock, ToB, FromS, Shape
  <2>3. CASE m.kind = "done" /\ m.to = "A"
    BY <2>3 DEF Clock, ToB
  <2>4. QED
    BY <1>1, <2>2, <2>3
<1>6. \A m \in Rest : m.kind \notin {"read", "write", "frame", "recv", "send", "construct"}
                      /\ ~ToB(m) /\ (m.kind = "tick" => pace.tick # 0)
                      /\ ~Ends(m, {"H", "T", "W"})
  <2>1. TAKE m \in Rest
  <2>2. ~Ends(m, {"H", "T", "W"})
    BY <1>1, <1>2, <1>3 DEF Living, Queued, Ends
  <2>3. QED
    BY <1>3, <1>4, <2>2 DEF Token, ToB, Shape
<1>7. /\ q' \in Seq(Message) /\ X' = Rest \union Elems(ms) /\ Row(q', pace.tick)
  <2>1. ASSUME NEW m \in Rest, NEW n \in Elems(ms)
        PROVE  Pair(m, n, pace.tick)
    BY <1>1, <1>4, <1>5, <1>6 DEF Pair
  <2>2. QED
    BY <1>1, <1>3, <2>1, Pushed
<1>8. Due' = Due
  BY <1>1 DEF Due
<1>9. Messages'
  <2>1. ASSUME NEW m \in X'
        PROVE  Shape(m)' /\ (Token(m, pace.tick) => Fits(m)')
    <3>1. CASE m \in Rest
      <4>1. Shape(m)
        BY <1>3, <3>1
      <4>2. Shape(m)'
        BY <1>1, <1>8, <4>1 DEF Shape
      <4>3. QED
        BY <1>4, <3>1, <4>2
    <3>2. CASE m \in Elems(ms)
      BY <1>1, <3>2
    <3>3. QED
      BY <1>7, <3>1, <3>2
  <2>2. \A m \in X' : Shape(m)' /\ (Token(m, pace.tick)' => Fits(m)')
    BY <1>1, <2>1 DEF Token
  <2>3. QED
    BY <1>1, <1>7, <2>2 DEF Messages
<1>10. Once'
  <2>1. ASSUME NEW o \in ring', o.op = "clock"
        PROVE  \A m \in X' : ~Clock(m, pace.tick)
    <3>1. o \in ring
      BY <1>1, <2>1
    <3>2. QED
      BY <1>2, <1>3, <1>5, <1>7, <2>1, <3>1 DEF Once
  <2>2. QED
    BY <1>1, <2>1 DEF Once
<1>11. Quiet'
  <2>1. pace'.wrote => \A m \in X' : ~Token(m, pace.tick)
    BY <1>1, <1>4, <1>7
  <2>2. pace.ticked => \A m \in X' : ~Clock(m, pace.tick)
    BY <1>2, <1>3, <1>5, <1>7 DEF Quiet
  <2>3. pace.ticked => \A o \in ring' : o.op # "clock"
    BY <1>1, <1>2 DEF Quiet
  <2>4. QED
    BY <1>1, <2>1, <2>2, <2>3 DEF Quiet
<1>12. /\ \A x : Queued("delete", x)' <=> Queued("delete", x)
       /\ \A x : ~Queued("construct", x)
       /\ \A m \in Elems(ms) : m.kind = "construct" => Queued("construct", m.to)'
       /\ \A m \in Elems(ms) : m.kind = "frame" => Queued("frame", "W")'
       /\ \A x : Queued("construct", x)' =>
             Upgrading' /\ \E m \in Elems(ms) : m.kind = "construct" /\ m.to = x
  <2>1. \A x : Queued("delete", x)' <=> Queued("delete", x)
    BY <1>1, <1>3, <1>5, <1>7 DEF Queued
  <2>2. \A x : ~Queued("construct", x)
    BY <1>4 DEF Queued
  <2>3. \A m \in Elems(ms) : m.kind = "construct" => Queued("construct", m.to)'
    BY <1>7 DEF Queued
  <2>4. \A m \in Elems(ms) : m.kind = "frame" => Queued("frame", "W")'
    BY <1>5, <1>7 DEF Queued
  <2>5. \A x : Queued("construct", x)' =>
             Upgrading' /\ \E m \in Elems(ms) : m.kind = "construct" /\ m.to = x
    BY <1>1, <1>6, <1>7 DEF Queued
  <2>6. QED
    BY <2>1, <2>2, <2>3, <2>4, <2>5
<1>13. Living'
  <2>1. \A x \in {"T", "W"} : There(x)' => Upgrading'
    BY <1>1, <1>2, <1>12 DEF There, Living
  <2>2. Upgrading' => There("T")' /\ There("W")'
    <3>1. CASE Upgrading
      BY <1>1, <1>2, <1>12, <3>1 DEF There, Living
    <3>2. CASE Upgrading' /\ ~Upgrading
      BY <1>1, <1>12, <3>2 DEF There
    <3>3. QED
      BY <3>1, <3>2
  <2>3. QED
    BY <1>1, <1>2, <1>12, <2>1, <2>2 DEF Living, Family
<1>14. Upgrading' => There("T")' /\ There("W")'
  BY <1>1, <1>13 DEF Living
<1>15. Calls'
  <2>1. {"H", "B"} \subseteq objs' /\ ~Queued("delete", "B")'
    BY <1>1, <1>2, <1>12 DEF Family, Living
  <2>2. ASSUME NEW m \in X', m.kind \in {"frame", "tick"}
        PROVE  There("T")' /\ There("W")'
    <3>1. CASE m \in Rest
      <4>1. pace.tick # 0
        BY <1>6, <2>2, <3>1
      <4>2. QED
        BY <1>1, <1>2, <1>14, <4>1 DEF Paced, Upgrading
    <3>2. CASE m \in Elems(ms)
      BY <1>1, <1>5, <1>14, <2>2, <3>2
    <3>3. QED
      BY <1>7, <3>1, <3>2
  <2>3. ASSUME NEW m \in X', m.kind = "construct"
        PROVE  pace.tick = 0 /\ Queued("frame", "W")'
    BY <1>1, <1>6, <1>7, <1>12, <2>3
  <2>4. QED
    BY <1>1, <2>1, <2>2, <2>3 DEF Calls
<1>16. Alive'
  <2>1. SUFFICES ASSUME finished' = 0 PROVE Alive'
    BY DEF Alive
  <2>2. /\ finished = 0 /\ \A m \in Elems(ms) : m.to # "A"
        /\ pace'.wrote \/ \E m \in Elems(ms) : Token(m, pace.tick)
    BY <1>1, <2>1
  <2>3. Queued("done", "A")' => Queued("done", "A")
    BY <1>3, <1>7, <2>2 DEF Queued
  <2>4. pace'.wrote \/ \E m \in X' : Token(m, pace.tick)
    BY <1>7, <2>2
  <2>5. (\E m \in X : Clock(m, pace.tick)) => \E m \in X' : Clock(m, pace.tick)
    BY <1>3, <1>4, <1>7
  <2>6. (\E o \in ring : o.op = "clock") => \E o \in ring' : o.op = "clock"
    BY <1>1
  <2>7. QED
    BY <1>1, <1>2, <2>2, <2>3, <2>4, <2>5, <2>6 DEF Alive
<1>17. QED
  BY <1>1, <1>9, <1>10, <1>11, <1>13, <1>15, <1>16 DEF Run

\* Before the live stage an answer to S has the token of the socket.
LEMMA Heard ==
    ASSUME Run, Hears("done", "S"), Head(q).ok, stage # "WebsocketLive"
    PROVE  /\ q # <<>> /\ Head(q).kind = "done" /\ Head(q).to = "S" /\ "S" \in objs
           /\ Token(Head(q), pace.tick) /\ pace.tick = 0 /\ Due = Other
           /\ \A o \in ring : ~OnSocket(o)
           /\ ~frame.buffer /\ ~pace.wrote
           /\ stage = "Read" => count.requests < MaxReq
<1> DEFINE h == Head(q)
<1>1. q # <<>> /\ h.kind = "done" /\ h.to = "S" /\ "S" \in objs /\ h.ok
  BY DEF Hears, Handles
<1>2. h \in X /\ Shape(h) /\ (Token(h, pace.tick) => Fits(h))
  BY <1>1, Taken DEF Run
<1>3. pace.tick = 0 /\ Due = Other /\ ~pace.wrote
  BY DueIs DEF Run, Paced
<1> HIDE DEF h
<1>4. Token(h, pace.tick)
  BY <1>1, <1>2, <1>3 DEF Token, Shape
<1>5. \A o \in ring : ~OnSocket(o)
  BY <1>2, <1>4 DEF Run, Once
<1>6. ~frame.buffer /\ (stage = "Read" => count.requests < MaxReq)
  BY <1>1, <1>2, <1>4 DEF Fits
<1>7. QED
  BY <1>1, <1>3, <1>4, <1>5, <1>6 DEF h

\* cancel_timer does nothing to other operations.
LEMMA CancelledOps ==
    ASSUME Ring, NEW R \in Cancelled
    PROVE  /\ IsFiniteSet(R)
           /\ \A o \in R : o \in ring \/ /\ o = Op(o.op, o.by, o.n) /\ o.op = "expired"
                                         /\ o.by = "S" /\ o.n \in Nat
           /\ \A o : o.op \notin {"timer", "expired"} => (o \in ring <=> o \in R)
<1> DEFINE own == {o \in ring : o.op = "timer" /\ o.n = timer}
           late == {[o EXCEPT !.op = "expired"] : o \in own}
<1>1. R = ring \ own \/ R = (ring \ own) \union late
  BY DEF Cancelled
<1>2. IsFiniteSet(own) /\ IsFiniteSet(ring \ own)
  BY FS_Subset DEF Ring
<1>4. \A o \in own : o \in ring /\ o.op = "timer" /\ o.n = timer
  OBVIOUS
<1>5. \A o \in late : /\ o = Op(o.op, o.by, o.n) /\ o.op = "expired"
                      /\ o.by = "S" /\ o.n \in Nat /\ o.n = timer
  <2>1. TAKE o \in late
  <2>2. PICK p \in own : o = [p EXCEPT !.op = "expired"]
    OBVIOUS
  <2>3. p = Op(p.op, p.by, p.n) /\ p.by = "S" /\ p.n \in Nat
    BY <1>4 DEF Ring, OpFits
  <2>4. PICK n : n = p.n
    OBVIOUS
  <2>5. p = [op |-> "timer", by |-> "S", n |-> n]
    BY <1>4, <2>3, <2>4 DEF Op
  <2>6. o = [op |-> "expired", by |-> "S", n |-> n] /\ n = timer
    BY <1>4, <2>2, <2>4, <2>5
  <2>7. QED
    BY <2>3, <2>4, <2>6 DEF Op
<1> HIDE DEF own, late
<1>3. IsFiniteSet(late)
  <2>1. \A x, y \in late : x = y
    BY <1>5 DEF Op
  <2>2. QED
    BY <2>1, AtMostOne
<1>6. IsFiniteSet(R)
  BY <1>1, <1>2, <1>3, FS_Union
<1>7. QED
  BY <1>1, <1>4, <1>5, <1>6

\* The ring after a timer has been cancelled, when no operation of the socket is
\* in flight.
LEMMA CancelKeepsRing ==
    ASSUME Run, \A o \in ring : ~OnSocket(o), ring' \in Cancelled, UNCHANGED pace
    PROVE  /\ Ring' /\ \A o \in ring' : ~OnSocket(o)
           /\ \A o : o.op = "clock" => (o \in ring <=> o \in ring')
<1>1. PICK R : R = ring'
  OBVIOUS
<1>2. Ring /\ R \in Cancelled
  BY <1>1 DEF Run
<1>3. /\ IsFiniteSet(R)
      /\ \A o \in R : o \in ring \/ /\ o = Op(o.op, o.by, o.n) /\ o.op = "expired"
                                    /\ o.by = "S" /\ o.n \in Nat
      /\ \A o : o.op \notin {"timer", "expired"} => (o \in ring <=> o \in R)
  BY <1>2, CancelledOps
<1>4. \A o \in R : ~OnSocket(o)
  BY <1>3 DEF OnSocket
<1>5. ASSUME NEW o \in R
      PROVE  OpFits(o)'
  <2>1. CASE o \in ring
    BY <1>2, <1>4, <2>1 DEF Ring, OpFits, OnSocket
  <2>2. CASE o \notin ring
    BY <1>3, <2>2 DEF OpFits, OnSocket
  <2>3. QED
    BY <2>1, <2>2
<1>6. Ring'
  BY <1>1, <1>3, <1>5 DEF Ring
<1>7. QED
  BY <1>1, <1>3, <1>4, <1>6

\* A request is refused, answered, or makes at() throw.
LEMMA RequestReadKeeps ==
    ASSUME Run, RequestRead
    PROVE  Run'
<1>1. /\ Hears("done", "S") /\ Head(q).ok /\ stage = "Read"
      /\ ring' \in Cancelled
      /\ http' = [http EXCEPT !.parser = FALSE]
      /\ count' = [count EXCEPT !.requests = @ + 1]
      /\ UNCHANGED <<held, objs, children, frame, pace, timer>>
      /\ \/ Complete /\ UNCHANGED <<stage, crashed>>
         \/ /\ stage' \in {"WebsocketInit", "Write"}
            /\ Push(<<Call("write", "H", "S", Other)>>)
            /\ UNCHANGED <<finished, crashed>>
         \/ crashed' = TRUE /\ stage' = "WebsocketInit" /\ UNCHANGED <<q, finished>>
  BY DEF RequestRead
<1>2. /\ q # <<>> /\ Head(q).kind = "done" /\ Head(q).to = "S" /\ "S" \in objs
      /\ Token(Head(q), pace.tick) /\ pace.tick = 0 /\ Due = Other
      /\ \A o \in ring : ~OnSocket(o)
      /\ ~frame.buffer /\ ~pace.wrote
      /\ count.requests < MaxReq
  BY <1>1, Heard
<1>3. /\ Ring' /\ \A o \in ring' : ~OnSocket(o)
      /\ \A o : o.op = "clock" => (o \in ring <=> o \in ring')
  BY <1>1, <1>2, CancelKeepsRing
<1>4. Data /\ Paced /\ Family
  BY DEF Run
<1>5. /\ ~Upgrading /\ ~Upgrading'
      /\ stage' \in {"Read", "WebsocketInit", "Write"}
      /\ finished' \in 0 .. 2 /\ crashed' \in BOOLEAN
      /\ stage' = "Read" => finished' \in 1 .. 2
  <2>1. stage' \in {"Read", "WebsocketInit", "Write"}
    BY <1>1
  <2>2. ~Upgrading /\ ~Upgrading'
    BY <1>1, <2>1 DEF Upgrading
  <2>3. finished' \in 0 .. 2 /\ (stage' = "Read" => finished' \in 1 .. 2)
    BY <1>1, <1>4 DEF Complete, Data
  <2>4. crashed' \in BOOLEAN
    BY <1>1, <1>4 DEF Data
  <2>5. QED
    BY <2>1, <2>2, <2>3, <2>4
<1>6. Data'
  <2>1. count.requests \in Nat /\ MaxReq \in Nat /\ timer <= count.requests + 1
    BY <1>1, <1>4, MonitoringAssumption DEF Data
  <2>2. /\ count' \in [requests : 0 .. MaxReq, logs : 0 .. MaxLogs, live : 0 .. MaxLive]
        /\ count'.requests = count.requests + 1
    BY <1>1, <1>2, <1>4, <2>1 DEF Data
  <2>3. http' \in [reading : BOOLEAN, parser : BOOLEAN]
    BY <1>1, <1>4 DEF Data
  <2>4. timer' <= count'.requests + IF stage' \in {"Write", "WebsocketInit"} THEN 0 ELSE 1
    BY <1>1, <1>4, <2>1, <2>2 DEF Data
  <2>5. stage' \in Stages
    BY <1>5 DEF Stages
  <2>6. QED
    BY <1>1, <1>4, <1>5, <2>2, <2>3, <2>4, <2>5 DEF Data
<1>7. Paced'
  <2>1. count'.live = count.live
    BY <1>1, <1>4 DEF Data
  <2>2. QED
    BY <1>1, <1>2, <1>4, <2>1 DEF Paced
<1>8. Family'
  BY <1>1, <1>4, <1>5 DEF Family
<1>9. Covered'
  BY <1>5 DEF Covered
<1>10. CASE Complete /\ UNCHANGED <<stage, crashed>>
  <2>1. PICK n : n = Done("A", Other, FALSE)
    OBVIOUS
  <2>2. /\ n.kind = "done" /\ n.to = "A" /\ n \in Message
    BY <2>1 DEF Done, Msg, Message, Other, Objects
  <2>3. <<n>> \in Seq(Message) /\ Row(<<n>>, pace.tick) /\ Elems(<<n>>) = {n}
    BY <2>2, Turns
  <2>4. Push(<<n>>) /\ finished' \in 1 .. 2
    BY <1>4, <1>10, <2>1 DEF Complete, Data
  <2>5. Shape(n)' /\ ~Token(n, pace.tick)
    BY <2>2 DEF Shape, Token
  <2>6. ServerMoves(<<n>>)
    BY <1>1, <1>2, <1>3, <1>5, <1>6, <1>7, <1>8, <1>9, <2>2, <2>3, <2>4, <2>5 DEF ServerMoves
  <2>7. QED
    BY <2>3, <2>6, ServerMovesKeeps
<1>11. CASE /\ stage' \in {"WebsocketInit", "Write"}
            /\ Push(<<Call("write", "H", "S", Other)>>)
            /\ UNCHANGED <<finished, crashed>>
  <2>1. PICK n : n = Call("write", "H", "S", Other)
    OBVIOUS
  <2>2. /\ n.kind = "write" /\ n.to = "H" /\ n \in Message /\ n.ok = TRUE
    BY <2>1 DEF Call, Msg, Message, Other, Objects
  <2>3. <<n>> \in Seq(Message) /\ Row(<<n>>, pace.tick) /\ Elems(<<n>>) = {n}
    BY <2>2, Turns
  <2>4. Push(<<n>>)
    BY <1>11, <2>1
  <2>5. Shape(n)' /\ Fits(n)' /\ FromS(n) /\ Token(n, pace.tick)
    BY <1>5, <1>11, <2>2 DEF Shape, Fits, HasH, FromS, Token
  <2>6. ServerMoves(<<n>>)
    BY <1>1, <1>2, <1>3, <1>5, <1>6, <1>7, <1>8, <1>9, <1>11, <2>2, <2>3, <2>4, <2>5
       DEF ServerMoves
  <2>7. QED
    BY <2>3, <2>6, ServerMovesKeeps
<1>12. CASE crashed' = TRUE /\ stage' = "WebsocketInit" /\ UNCHANGED <<q, finished>>
  <2>1. /\ Messages /\ Once /\ Quiet /\ Living /\ Calls /\ Alive
    BY DEF Run
  <2>2. Head(q) \in X /\ \A m \in X : Token(m, pace.tick) => m = Head(q)
    <3>1. X = Rest \union {Head(q)} /\ Head(q) \in X
      BY <1>2, <2>1, Taken
    <3>2. \A m \in Rest : ~Token(m, pace.tick)
      BY <1>2, <2>1, TokenAhead
    <3>3. QED
      BY <3>1, <3>2
  <2>3. X' = X /\ \A k, x : Queued(k, x)' <=> Queued(k, x)
    BY <1>12 DEF X, Queued
  <2>4. \A x : There(x)' <=> There(x)
    BY <1>1, <2>3 DEF There
  <2>5. Messages'
    <3>1. ASSUME NEW m \in X
          PROVE  Shape(m)' /\ (Token(m, pace.tick)' => Fits(m)')
      <4>1. Shape(m)'
        BY <1>1, <2>1 DEF Messages, Shape, Due
      <4>2. Token(m, pace.tick)' => m = Head(q)
        BY <1>1, <2>2 DEF Token
      <4>3. m = Head(q) => Fits(m)'
        BY <1>1, <1>2, <1>12 DEF Fits, HasH
      <4>4. QED
        BY <4>1, <4>2, <4>3
    <3>2. QED
      BY <1>1, <1>12, <2>1, <2>3, <3>1 DEF Messages
  <2>6. Once' /\ Quiet'
    BY <1>1, <1>2, <1>3, <2>1, <2>3 DEF Once, Quiet, OnSocket
  <2>7. Living'
    BY <1>1, <1>5, <2>1, <2>3, <2>4 DEF Living
  <2>8. Calls'
    BY <1>1, <2>1, <2>3, <2>4 DEF Calls
  <2>9. Alive'
    BY <1>1, <1>2, <1>12, <2>1, <2>2, <2>3 DEF Alive
  <2>10. QED
    BY <1>3, <1>6, <1>7, <1>8, <1>9, <2>5, <2>6, <2>7, <2>8, <2>9 DEF Run
<1>13. QED
  BY <1>1, <1>10, <1>11, <1>12

\* What is behind the head stays.
LEMMA Stays ==
    ASSUME q \in Seq(Message), q # <<>>, NEW ms \in Seq(Message), Push(ms)
    PROVE  \A m \in Rest : m \in X'
<1>1. Tail(q) \in Seq(Message) /\ q' = Tail(q) \o ms
  BY DEF Push
<1>2. PICK Q \in Seq(Message) : Q = Tail(q)
  BY <1>1
<1>3. /\ DOMAIN Q = 1 .. Len(Q) /\ DOMAIN (Q \o ms) = 1 .. Len(Q) + Len(ms)
      /\ Len(Q) \in Nat /\ Len(ms) \in Nat
      /\ \A i \in 1 .. Len(Q) : (Q \o ms)[i] = Q[i]
  OBVIOUS
<1>4. ASSUME NEW m \in Elems(Q)
      PROVE  m \in Elems(Q \o ms)
  <2>1. PICK i \in 1 .. Len(Q) : m = Q[i]
    BY <1>3 DEF Elems
  <2>2. i \in 1 .. Len(Q) + Len(ms) /\ (Q \o ms)[i] = m
    BY <1>3, <2>1
  <2>3. QED
    BY <1>3, <2>2 DEF Elems
<1>5. QED
  BY <1>1, <1>2, <1>4 DEF X, Rest

\* A timer is added.
LEMMA ArmKeepsRing ==
    ASSUME Run, \A o \in ring : ~OnSocket(o), UNCHANGED pace,
           ring' = ring \union {Op("timer", "S", timer + 1)}
    PROVE  /\ Ring' /\ \A o \in ring' : ~OnSocket(o)
           /\ \A o : o.op = "clock" => (o \in ring <=> o \in ring')
           /\ \E o \in ring' : o.op \in {"timer", "expired"} /\ o.n = timer + 1
           /\ timer + 1 \in Nat \ {0}
<1>1. PICK a : a = Op("timer", "S", timer + 1)
  OBVIOUS
<1>2. Ring /\ timer + 1 \in Nat \ {0}
  BY DEF Run, Data
<1>3. /\ a.op = "timer" /\ a.by = "S" /\ a.n = timer + 1 /\ a = Op(a.op, a.by, a.n)
      /\ ring' = ring \union {a}
  BY <1>1 DEF Op
<1>4. ~OnSocket(a) /\ OpFits(a)'
  BY <1>2, <1>3 DEF OnSocket, OpFits
<1>5. ASSUME NEW o \in ring
      PROVE  OpFits(o)'
  BY <1>2 DEF Ring, OpFits, OnSocket
<1>6. IsFiniteSet(ring')
  BY <1>2, <1>3, FS_AddElement DEF Ring
<1>7. Ring'
  BY <1>3, <1>4, <1>5, <1>6 DEF Ring
<1>8. QED
  BY <1>2, <1>3, <1>4, <1>7

\* The response has been sent: the next request is read.
LEMMA ResponseSentKeeps ==
    ASSUME Run, ResponseSent
    PROVE  Run'
<1>1. /\ Hears("done", "S") /\ Head(q).ok /\ stage = "Write"
      /\ stage' = "Read" /\ timer' = timer + 1
      /\ ring' = ring \union {Op("timer", "S", timer + 1)}
      /\ Push(<<Call("read", "H", "S", Other)>>)
      /\ UNCHANGED <<held, objs, children, http, frame, pace, count, finished, crashed>>
  BY DEF ResponseSent
<1>2. /\ q # <<>> /\ Head(q).kind = "done" /\ Head(q).to = "S" /\ "S" \in objs
      /\ Token(Head(q), pace.tick) /\ pace.tick = 0 /\ Due = Other
      /\ \A o \in ring : ~OnSocket(o)
      /\ ~frame.buffer /\ ~pace.wrote
  BY <1>1, Heard
<1>3. /\ Ring' /\ \A o \in ring' : ~OnSocket(o)
      /\ \A o : o.op = "clock" => (o \in ring <=> o \in ring')
      /\ \E o \in ring' : o.op \in {"timer", "expired"} /\ o.n = timer + 1
      /\ timer + 1 \in Nat \ {0}
  BY <1>1, <1>2, ArmKeepsRing
<1>4. /\ Data /\ Paced /\ Family /\ ~Upgrading /\ ~Upgrading'
  BY <1>1 DEF Run, Upgrading
<1>5. Data'
  <2>1. count.requests \in Nat /\ timer <= count.requests /\ timer \in Nat
    BY <1>1, <1>4 DEF Data
  <2>2. timer' <= count'.requests + 1
    BY <1>1, <2>1
  <2>3. QED
    BY <1>1, <1>3, <1>4, <2>2 DEF Data, Stages
<1>6. Paced' /\ Family'
  BY <1>1, <1>2, <1>4 DEF Paced, Family
<1>7. Covered'
  BY <1>1, <1>3 DEF Covered
<1>8. PICK n : n = Call("read", "H", "S", Other)
  OBVIOUS
<1>9. n.kind = "read" /\ n.to = "H" /\ n \in Message /\ n.ok = TRUE
  BY <1>8 DEF Call, Msg, Message, Other, Objects
<1>10. <<n>> \in Seq(Message) /\ Row(<<n>>, pace.tick) /\ Elems(<<n>>) = {n}
  BY <1>9, Turns
<1>11. Push(<<n>>)
  BY <1>1, <1>8
<1>12. Shape(n)' /\ Fits(n)' /\ FromS(n) /\ Token(n, pace.tick)
  BY <1>1, <1>4, <1>9 DEF Shape, Fits, HasH, FromS, Token
<1>13. ServerMoves(<<n>>)
  BY <1>1, <1>2, <1>3, <1>4, <1>5, <1>6, <1>7, <1>9, <1>10, <1>11, <1>12 DEF ServerMoves
<1>14. QED
  BY <1>10, <1>13, ServerMovesKeeps

\* A chunk of the logs goes, or the marker; T and W are made before the first.
LEMMA SendLogsKeeps ==
    ASSUME Run, Hears("done", "S"), Head(q).ok,
           stage \in {"WebsocketInit", "WebsocketLogs"},
           NEW first \in Seq(Message), SendLogs(first), Row(first, pace.tick),
           \A m \in Elems(first) : m.kind = "construct" /\ m.to \in {"T", "W"} /\ m.by = "S",
           stage = "WebsocketInit" =>
               \A x \in {"T", "W"} : \E m \in Elems(first) : m.to = x,
           Ring', \A o \in ring' : ~OnSocket(o),
           \A o : o.op = "clock" => (o \in ring <=> o \in ring'),
           Covered', Family', children' \in [Objects -> SUBSET Objects],
           timer' \in Nat \ {0}, timer' <= count.requests + 1,
           UNCHANGED <<held, objs, http, frame, pace, finished, crashed>>
    PROVE  Run'
<1>1. /\ Push(first \o <<Call("frame", "W", "S", Other)>>)
      /\ stage' \in {"WebsocketLogs", "WebsocketLive"}
      /\ \/ count' = count
         \/ count.logs < MaxLogs /\ count' = [count EXCEPT !.logs = @ + 1]
  BY DEF SendLogs
<1>2. /\ q # <<>> /\ Head(q).kind = "done" /\ Head(q).to = "S" /\ "S" \in objs
      /\ Token(Head(q), pace.tick) /\ pace.tick = 0 /\ Due = Other
      /\ ~frame.buffer /\ ~pace.wrote
  BY Heard
<1>3. Data /\ Paced /\ Upgrading'
  BY <1>1 DEF Run, Upgrading
<1>4. Due' = Other
  BY <1>2 DEF Due
<1>5. PICK n : n = Call("frame", "W", "S", Other)
  OBVIOUS
<1>6. n.kind = "frame" /\ n.to = "W" /\ n.task = Other /\ n \in Message /\ n.ok = TRUE
  BY <1>5 DEF Call, Msg, Message, Other, Objects
<1>7. <<n>> \in Seq(Message) /\ Row(<<n>>, pace.tick) /\ Elems(<<n>>) = {n}
  BY <1>6, Turns
<1>8. PICK ms : ms = first \o <<n>>
  OBVIOUS
<1>9. /\ ms \in Seq(Message) /\ Row(ms, pace.tick) /\ Elems(ms) = Elems(first) \union {n}
  <2>1. \A m \in Elems(first) : Pair(m, n, pace.tick)
    BY DEF Pair, Token, Clock, Ends
  <2>2. PICK W \in Seq(Message) : W = <<n>>
    BY <1>7
  <2>3. \A m \in Elems(first), w \in Elems(W) : Pair(m, w, pace.tick)
    BY <1>7, <2>1, <2>2
  <2>4. /\ first \o W \in Seq(Message) /\ Row(first \o W, pace.tick)
        /\ Elems(first \o W) = Elems(first) \union Elems(W)
    BY <1>7, <2>2, <2>3, ConcatElems
  <2>5. QED
    BY <1>7, <1>8, <2>2, <2>4
<1>10. Push(ms)
  BY <1>1, <1>5, <1>8
<1>11. Data' /\ Paced'
  <2>1. /\ count' \in [requests : 0 .. MaxReq, logs : 0 .. MaxLogs, live : 0 .. MaxLive]
        /\ count'.requests = count.requests /\ count'.live = count.live
    <3>1. CASE count' = count
      BY <1>3, <3>1 DEF Data
    <3>2. CASE count.logs < MaxLogs /\ count' = [count EXCEPT !.logs = @ + 1]
      <4>1. count.logs + 1 \in 0 .. MaxLogs
        BY <1>3, <3>2, MonitoringAssumption DEF Data
      <4>2. QED
        BY <1>3, <3>2, <4>1 DEF Data
    <3>3. QED
      BY <1>1, <3>1, <3>2
  <2>2. Data'
    BY <1>1, <1>3, <2>1 DEF Data, Stages
  <2>3. Paced'
    BY <1>2, <1>3, <2>1 DEF Paced
  <2>4. QED
    BY <2>2, <2>3
<1>12. Shape(n)' /\ Fits(n)' /\ FromS(n) /\ Token(n, pace.tick)
  BY <1>2, <1>3, <1>4, <1>6 DEF Shape, Fits, HasH, FromS, Token
<1>13. ASSUME NEW m \in Elems(first)
       PROVE  Shape(m)' /\ FromS(m) /\ ~Token(m, pace.tick) /\ m.kind = "construct" /\ m.to # "A"
  BY <1>13 DEF Shape, FromS, Token
<1>14. \A m \in Elems(ms) : m.to # "A" /\ FromS(m) /\ m.kind # "tick" /\ Shape(m)'
                            /\ (Token(m, pace.tick) => Fits(m)')
  BY <1>6, <1>9, <1>12, <1>13
<1>15. Upgrading' /\ ~Upgrading => \A x \in {"T", "W"} :
          \E m \in Elems(ms) : m.kind = "construct" /\ m.to = x
  BY <1>9 DEF Upgrading
<1>16. ServerMoves(ms)
  BY <1>2, <1>3, <1>6, <1>9, <1>10, <1>11, <1>12, <1>14, <1>15 DEF ServerMoves
<1>17. QED
  BY <1>9, <1>16, ServerMovesKeeps

\* The upgrade has been sent.
LEMMA UpgradedKeeps ==
    ASSUME Run, Upgraded
    PROVE  Run'
<1>1. /\ Hears("done", "S") /\ Head(q).ok /\ stage = "WebsocketInit"
      /\ timer' = timer + 1
      /\ ring' = ring \union {Op("timer", "S", timer + 1)}
      /\ children' = [children EXCEPT !["S"] = @ \union {"T", "W"}]
      /\ SendLogs(<<Call("construct", "T", "S", Other),
                    Call("construct", "W", "S", Other)>>)
      /\ UNCHANGED <<held, objs, http, frame, pace, finished, crashed>>
  BY DEF Upgraded
<1>2. "S" \in objs /\ \A o \in ring : ~OnSocket(o)
  BY <1>1, Heard
<1>3. /\ Ring' /\ \A o \in ring' : ~OnSocket(o)
      /\ \A o : o.op = "clock" => (o \in ring <=> o \in ring')
      /\ \E o \in ring' : o.op \in {"timer", "expired"} /\ o.n = timer + 1
      /\ timer + 1 \in Nat \ {0}
  BY <1>1, <1>2, ArmKeepsRing
<1>4. Covered'
  BY <1>1, <1>3 DEF Covered
<1>5. stage' \in {"WebsocketLogs", "WebsocketLive"}
  BY <1>1 DEF SendLogs
<1>6. Data /\ Family
  BY DEF Run
<1>7. children' \in [Objects -> SUBSET Objects] /\ Family'
  BY <1>1, <1>2, <1>5, <1>6 DEF Family, Data, Upgrading, Objects
<1>8. timer' <= count.requests + 1
  BY <1>1, <1>6 DEF Data
<1>9. PICK m, n : /\ m = Call("construct", "T", "S", Other)
                  /\ n = Call("construct", "W", "S", Other)
  OBVIOUS
<1>10. /\ m \in Message /\ m.kind = "construct" /\ m.to = "T" /\ m.by = "S"
       /\ n \in Message /\ n.kind = "construct" /\ n.to = "W" /\ n.by = "S"
  BY <1>9 DEF Call, Msg, Message, Other, Objects
<1>11. Pair(m, n, pace.tick)
  BY <1>10 DEF Pair, Token, Clock, Ends
<1>12. /\ <<m, n>> \in Seq(Message) /\ Row(<<m, n>>, pace.tick) /\ Elems(<<m, n>>) = {m, n}
  BY <1>10, <1>11, Turns
<1>13. SendLogs(<<m, n>>)
  BY <1>1, <1>9
<1>14. /\ \A c \in Elems(<<m, n>>) : c.kind = "construct" /\ c.to \in {"T", "W"} /\ c.by = "S"
       /\ \A x \in {"T", "W"} : \E c \in Elems(<<m, n>>) : c.to = x
  BY <1>10, <1>12
<1>15. PICK first \in Seq(Message) : first = <<m, n>>
  BY <1>12
<1>16. QED
  BY <1>1, <1>3, <1>4, <1>7, <1>8, <1>12, <1>13, <1>14, <1>15, SendLogsKeeps

\* A chunk of the logs has been sent.
LEMMA LogsSentKeeps ==
    ASSUME Run, LogsSent
    PROVE  Run'
<1>1. /\ Hears("done", "S") /\ Head(q).ok /\ stage = "WebsocketLogs"
      /\ SendLogs(<<>>)
      /\ UNCHANGED <<ring, held, objs, children, http, frame, pace, timer,
                     finished, crashed>>
  BY DEF LogsSent
<1>2. /\ q # <<>> /\ Head(q).kind = "done" /\ "S" \in objs /\ \A o \in ring : ~OnSocket(o)
      /\ pace.tick = 0
  BY <1>1, Heard
<1>3. Data /\ Ring /\ Family /\ Covered /\ Messages
  BY DEF Run
<1>4. stage' \in {"WebsocketLogs", "WebsocketLive"}
  BY <1>1 DEF SendLogs
<1>5. Ring' /\ \A o \in ring' : ~OnSocket(o)
  BY <1>1, <1>2, <1>3 DEF Ring, OpFits, OnSocket
<1>6. Family'
  BY <1>1, <1>3, <1>4 DEF Family, Upgrading
<1>7. /\ <<>> \in Seq(Message) /\ Row(<<>>, pace.tick) /\ Elems(<<>>) = {}
  BY Turns
<1>8. Queued("timeout", "S") => Queued("timeout", "S")'
  <2>1. PICK ms : ms = <<>> \o <<Call("frame", "W", "S", Other)>>
    OBVIOUS
  <2>2. Call("frame", "W", "S", Other) \in Message
    BY DEF Call, Msg, Message, Other, Objects
  <2>3. ms \in Seq(Message) /\ Push(ms)
    BY <1>1, <2>1, <2>2 DEF SendLogs
  <2>4. \A m \in Rest : m \in X'
    BY <1>2, <1>3, <2>3, Stays DEF Messages
  <2>5. X = Rest \union {Head(q)}
    BY <1>2, <1>3, Taken
  <2>6. QED
    BY <1>2, <2>4, <2>5 DEF Queued
<1>9. Covered'
  BY <1>1, <1>3, <1>8 DEF Covered
<1>10. timer \in Nat \ {0} /\ timer <= count.requests + 1
  BY <1>1, <1>3 DEF Data
<1>11. PICK first \in Seq(Message) : first = <<>>
  BY <1>7
<1>12. QED
  BY <1>1, <1>3, <1>5, <1>6, <1>7, <1>9, <1>10, <1>11, SendLogsKeeps DEF Data

\* An answer to S in the live stage: the clock's, or the frame's.
LEMMA LiveHeard ==
    ASSUME Run, LiveStep
    PROVE  /\ q # <<>> /\ Head(q).kind = "done" /\ Head(q).to = "S" /\ "S" \in objs
           /\ Upgrading /\ Head(q).ok /\ Head(q) \in X
           /\ \/ Head(q).task = Due /\ Head(q).task # pace.tick /\ Token(Head(q), pace.tick)
              \/ /\ Head(q).task = pace.tick /\ pace.tick # 0 /\ pace.frame # pace.tick
                 /\ Clock(Head(q), pace.tick)
           /\ Token(Head(q), pace.tick) => ~frame.buffer /\ count.live < MaxLive
<1> DEFINE h == Head(q)
<1>1. /\ q # <<>> /\ h.kind = "done" /\ h.to = "S" /\ "S" \in objs /\ h.ok
      /\ stage = "WebsocketLive"
  BY DEF LiveStep, Hears, Handles
<1>2. h \in X /\ Shape(h) /\ (Token(h, pace.tick) => Fits(h))
  BY <1>1, Taken DEF Run
<1>3. pace.tick # 0 => pace.frame # pace.tick
  BY MonitoringAssumption DEF Run, Data, Paced
<1> HIDE DEF h
<1>4. Token(h, pace.tick) => ~frame.buffer /\ count.live < MaxLive
  BY <1>1, <1>2 DEF Fits
<1>5. \/ h.task = Due /\ h.task # pace.tick /\ Token(h, pace.tick)
      \/ h.task = pace.tick /\ pace.tick # 0 /\ Clock(h, pace.tick)
  BY <1>1, <1>2 DEF Shape, Token, Clock
<1>6. QED
  BY <1>1, <1>2, <1>3, <1>4, <1>5 DEF h, Upgrading

\* What the flags become.
LEMMA LiveFlags ==
    ASSUME Run, LiveStep
    PROVE  /\ UNCHANGED <<ring, held, objs, children, stage, http, frame, timer,
                          finished, crashed>>
           /\ \/ /\ Push(<<Call("tick", "T", "S", 2 * (count.live + 1) - 1),
                           Call("frame", "W", "S", 2 * (count.live + 1))>>)
                 /\ pace' = [tick |-> 2 * (count.live + 1) - 1,
                             frame |-> 2 * (count.live + 1),
                             ticked |-> FALSE, wrote |-> FALSE]
                 /\ count' = [count EXCEPT !.live = count.live + 1]
                 /\ \/ pace.tick = 0
                    \/ Token(Head(q), pace.tick) /\ pace.ticked
                    \/ Clock(Head(q), pace.tick) /\ pace.wrote
              \/ /\ Push(<<>>) /\ UNCHANGED count /\ pace.tick # 0
                 /\ Token(Head(q), pace.tick) /\ ~pace.ticked
                 /\ pace' = [pace EXCEPT !.wrote = TRUE]
              \/ /\ Push(<<>>) /\ UNCHANGED count /\ pace.tick # 0
                 /\ Clock(Head(q), pace.tick) /\ ~pace.wrote
                 /\ pace' = [pace EXCEPT !.ticked = TRUE]
<1> DEFINE h == Head(q)
           k == count.live + 1
<1>1. PICK now :
         /\ now = [pace EXCEPT
                     !.wrote = @ \/ h.task = pace.frame,
                     !.ticked = @ \/ (h.task = pace.tick /\ h.task # pace.frame)]
         /\ IF MayGo(now)
            THEN /\ Push(<<Call("tick", "T", "S", 2 * k - 1),
                           Call("frame", "W", "S", 2 * k)>>)
                 /\ pace' = [tick |-> 2 * k - 1, frame |-> 2 * k,
                             ticked |-> FALSE, wrote |-> FALSE]
                 /\ count' = [count EXCEPT !.live = k]
            ELSE /\ Push(<<>>)
                 /\ pace' = now
                 /\ UNCHANGED count
  BY DEF LiveStep
<1>2. UNCHANGED <<ring, held, objs, children, stage, http, frame, timer,
                  finished, crashed>>
  BY DEF LiveStep
<1>3. /\ \/ h.task = Due /\ h.task # pace.tick /\ Token(h, pace.tick)
         \/ /\ h.task = pace.tick /\ pace.tick # 0 /\ pace.frame # pace.tick
            /\ Clock(h, pace.tick)
      /\ pace.tick # 0 => Due = pace.frame
      /\ pace \in [tick : Nat, frame : Nat, ticked : BOOLEAN, wrote : BOOLEAN]
  BY LiveHeard DEF Run, Data, Due
<1> HIDE DEF h, k
<1>4. now.tick = pace.tick
  BY <1>1, <1>3
<1>5. CASE pace.tick = 0
  <2>1. MayGo(now)
    BY <1>4, <1>5 DEF MayGo
  <2>2. QED
    BY <1>1, <1>2, <1>5, <2>1 DEF k
<1>6. CASE pace.tick # 0 /\ Token(h, pace.tick) /\ h.task # pace.tick
  <2>1. now = [pace EXCEPT !.wrote = TRUE]
    BY <1>1, <1>3, <1>6
  <2>2. now.wrote = TRUE /\ now.ticked = pace.ticked
    BY <1>3, <2>1
  <2>3. CASE pace.ticked
    <3>1. MayGo(now)
      BY <2>2, <2>3 DEF MayGo
    <3>2. QED
      BY <1>1, <1>2, <1>6, <2>3, <3>1 DEF k, h
  <2>4. CASE ~pace.ticked
    <3>1. ~MayGo(now)
      BY <1>4, <1>6, <2>2, <2>4 DEF MayGo
    <3>2. QED
      BY <1>1, <1>2, <1>6, <2>1, <2>4, <3>1 DEF h
  <2>5. QED
    BY <2>3, <2>4
<1>7. CASE pace.tick # 0 /\ Clock(h, pace.tick) /\ h.task = pace.tick
  <2>1. now = [pace EXCEPT !.ticked = TRUE]
    BY <1>1, <1>3, <1>7
  <2>2. now.ticked = TRUE /\ now.wrote = pace.wrote
    BY <1>3, <2>1
  <2>3. CASE pace.wrote
    <3>1. MayGo(now)
      BY <2>2, <2>3 DEF MayGo
    <3>2. QED
      BY <1>1, <1>2, <1>7, <2>3, <3>1 DEF k, h
  <2>4. CASE ~pace.wrote
    <3>1. ~MayGo(now)
      BY <1>4, <1>7, <2>2, <2>4 DEF MayGo
    <3>2. QED
      BY <1>1, <1>2, <1>7, <2>1, <2>4, <3>1 DEF h
  <2>5. QED
    BY <2>3, <2>4
<1>8. QED
  BY <1>3, <1>5, <1>6, <1>7

\* When the next record goes, nothing of the last one is left.
LEMMA GoClear ==
    ASSUME Run, LiveStep,
           \/ pace.tick = 0
           \/ Token(Head(q), pace.tick) /\ pace.ticked
           \/ Clock(Head(q), pace.tick) /\ pace.wrote
    PROVE  /\ \A m \in Rest : ~Token(m, pace.tick) /\ ~Clock(m, pace.tick)
                              /\ m.kind # "construct"
           /\ \A o \in ring : ~OnSocket(o) /\ o.op # "clock"
           /\ ~frame.buffer /\ count.live < MaxLive
<1> DEFINE h == Head(q)
<1>1. /\ q # <<>> /\ h.kind = "done" /\ h.to = "S" /\ h \in X
      /\ \/ h.task = Due /\ h.task # pace.tick /\ Token(h, pace.tick)
         \/ /\ h.task = pace.tick /\ pace.tick # 0 /\ Clock(h, pace.tick)
      /\ Token(h, pace.tick) => ~frame.buffer /\ count.live < MaxLive
  BY LiveHeard
<1>2. /\ Messages /\ Ring /\ Once /\ Paced /\ Quiet /\ Calls
  BY DEF Run
<1>3. /\ X = Rest \union {h} /\ \A m \in X : Shape(m)
      /\ \A m \in Rest : Pair(h, m, pace.tick)
  BY <1>1, <1>2, Taken
<1>4. Token(h, pace.tick) => \A m \in Rest : ~Token(m, pace.tick) /\ m.kind # "construct"
  BY <1>1, <1>2, TokenAhead
<1>5. pace.tick = 0 \/ (Token(h, pace.tick) /\ pace.ticked) \/ (Clock(h, pace.tick) /\ pace.wrote)
  OBVIOUS
<1> HIDE DEF h
<1>6. CASE pace.tick = 0
  <2>1. Token(h, pace.tick)
    BY <1>1, <1>6
  <2>2. \A m \in Rest : ~Clock(m, pace.tick)
    BY <1>3, <1>6 DEF Shape, Clock
  <2>3. \A o \in ring : ~OnSocket(o) /\ o.op # "clock"
    BY <1>1, <1>2, <1>6, <2>1 DEF Once, Ring, OpFits
  <2>4. QED
    BY <1>1, <1>4, <2>1, <2>2, <2>3
<1>7. CASE Token(h, pace.tick) /\ pace.ticked
  <2>1. \A m \in Rest : ~Clock(m, pace.tick)
    BY <1>2, <1>3, <1>7 DEF Quiet
  <2>2. \A o \in ring : ~OnSocket(o) /\ o.op # "clock"
    BY <1>1, <1>2, <1>7 DEF Once, Quiet
  <2>3. QED
    BY <1>1, <1>4, <1>7, <2>1, <2>2
<1>8. CASE Clock(h, pace.tick) /\ pace.wrote
  <2>1. \A m \in Rest : ~Clock(m, pace.tick) /\ ~Token(m, pace.tick)
    BY <1>2, <1>3, <1>8 DEF Quiet, Pair
  <2>2. \A o \in ring : ~OnSocket(o) /\ o.op # "clock"
    BY <1>1, <1>2, <1>8 DEF Once, Quiet
  <2>3. pace.tick # 0
    BY <1>2, <1>8 DEF Paced
  <2>4. \A m \in Rest : m.kind # "construct"
    BY <1>2, <1>3, <2>3 DEF Calls
  <2>5. QED
    BY <1>2, <1>8, <2>1, <2>2, <2>4 DEF Paced
<1>9. QED
  BY <1>5, <1>6, <1>7, <1>8 DEF h

\* The next record goes: the clock is armed and a frame is written.
LEMMA LiveGoKeeps ==
    ASSUME Run, LiveStep, NEW k, k = count.live + 1,
           Push(<<Call("tick", "T", "S", 2 * k - 1), Call("frame", "W", "S", 2 * k)>>),
           pace' = [tick |-> 2 * k - 1, frame |-> 2 * k,
                    ticked |-> FALSE, wrote |-> FALSE],
           count' = [count EXCEPT !.live = k],
           UNCHANGED <<ring, held, objs, children, stage, http, frame, timer,
                       finished, crashed>>,
           \/ pace.tick = 0
           \/ Token(Head(q), pace.tick) /\ pace.ticked
           \/ Clock(Head(q), pace.tick) /\ pace.wrote
    PROVE  Run'
<1> DEFINE h == Head(q)
<1>1. /\ q # <<>> /\ h.kind = "done" /\ h.to = "S" /\ "S" \in objs
      /\ Upgrading /\ stage = "WebsocketLive"
  BY LiveHeard DEF LiveStep
<1>2. /\ Messages /\ Ring /\ Once /\ Data /\ Paced /\ Quiet
      /\ Family /\ Living /\ Calls /\ Alive /\ Covered
  BY DEF Run
<1>3. /\ X = Rest \union {h} /\ q \in Seq(Message) /\ Row(Tail(q), pace.tick)
      /\ \A m \in X : m \in Message /\ Shape(m)
  BY <1>1, <1>2, Taken DEF Messages
<1>4. /\ \A m \in Rest : ~Token(m, pace.tick) /\ ~Clock(m, pace.tick)
                         /\ m.kind # "construct"
      /\ \A o \in ring : ~OnSocket(o) /\ o.op # "clock"
      /\ ~frame.buffer /\ count.live < MaxLive
  BY GoClear
<1> HIDE DEF h
<1>5. k \in 1 .. MaxLive /\ MaxLive \in Nat /\ count.live \in Nat
  BY <1>2, <1>4, MonitoringAssumption DEF Data
<1>6. /\ pace'.tick = 2 * k - 1 /\ pace'.frame = 2 * k /\ ~pace'.ticked /\ ~pace'.wrote
      /\ pace'.tick \in Nat \ {0} /\ pace'.frame \in Nat /\ Due' = 2 * k
      /\ pace' \in [tick : Nat, frame : Nat, ticked : BOOLEAN, wrote : BOOLEAN]
  BY <1>5 DEF Due
<1>7. PICK t \in Nat \ {0} : t = 2 * k - 1
  BY <1>5
<1>8. PICK a, f : a = Call("tick", "T", "S", t) /\ f = Call("frame", "W", "S", 2 * k)
  OBVIOUS
<1>9. /\ a.kind = "tick" /\ a.to = "T" /\ a.by = "S" /\ a.task = t /\ a \in Message
      /\ f.kind = "frame" /\ f.to = "W" /\ f.by = "S" /\ f.task = 2 * k /\ f \in Message
      /\ f.ok = TRUE
  BY <1>5, <1>8 DEF Call, Msg, Message, Objects
<1>10. \A m \in Rest : /\ m.kind \in {"timeout", "delete"} \/ (m.kind = "done" /\ m.to = "A")
                       /\ ~Token(m, t) /\ ~Clock(m, t) /\ Shape(m)'
                       /\ ~Ends(m, {"H", "T", "W"})
  <2>1. TAKE m \in Rest
  <2>2. /\ m.kind \in {"read", "write", "frame", "tick", "recv", "send", "clock",
                       "timeout", "done", "construct", "delete"}
        /\ Shape(m)
    BY <1>3 DEF Message
  <2>3. m.kind \in {"timeout", "delete"} \/ (m.kind = "done" /\ m.to = "A")
    BY <1>4, <2>2 DEF Token, Clock, Shape
  <2>4. ~Token(m, t) /\ ~Clock(m, t)
    BY <2>3 DEF Token, Clock
  <2>5. Shape(m)'
    BY <2>2, <2>3 DEF Shape
  <2>6. ~Ends(m, {"H", "T", "W"})
    BY <1>1, <1>2, <1>3 DEF Living, Queued, Ends
  <2>7. QED
    BY <2>3, <2>4, <2>5, <2>6
<1>11. Row(Tail(q), t)
  <2>1. ASSUME NEW i \in 1 .. Len(Tail(q)), NEW j \in 1 .. Len(Tail(q)), i < j
        PROVE  Pair(Tail(q)[i], Tail(q)[j], t)
    <3>1. Tail(q)[i] \in Rest /\ Tail(q)[j] \in Rest
      <4>1. Tail(q) \in Seq(Message)
        BY <1>1, <1>3
      <4>2. DOMAIN Tail(q) = 1 .. Len(Tail(q))
        BY <4>1
      <4>3. QED
        BY <2>1, <4>2 DEF Rest, Elems
    <3>2. QED
      BY <1>10, <3>1 DEF Pair, FromS, ToB
  <2>2. QED
    BY <2>1 DEF Row
<1>12. PICK ms \in Seq(Message) : ms = <<a, f>> /\ Row(ms, t) /\ Elems(ms) = {a, f}
  <2>1. Pair(a, f, t)
    BY <1>9 DEF Pair, Token, Clock, Ends
  <2>2. QED
    BY <1>9, <2>1, Turns
<1>13. Push(ms)
  BY <1>7, <1>8, <1>12
<1>14. q' \in Seq(Message) /\ X' = Rest \union {a, f} /\ Row(q', t)
  <2>1. ASSUME NEW m \in Rest, NEW n \in Elems(ms)
        PROVE  Pair(m, n, t)
    BY <1>9, <1>10, <1>12 DEF Pair, ToB
  <2>2. q' \in Seq(Message) /\ X' = Rest \union Elems(ms) /\ Row(q', t)
    BY <1>1, <1>3, <1>11, <1>12, <1>13, <2>1, Pushed
  <2>3. QED
    BY <1>12, <2>2
<1>15. /\ ~Token(a, t) /\ Clock(a, t) /\ Token(f, t) /\ ~Clock(f, t)
       /\ Shape(a)' /\ Shape(f)' /\ Fits(f)'
  <2>1. ~Token(a, t) /\ Clock(a, t) /\ Token(f, t) /\ ~Clock(f, t)
    BY <1>9 DEF Token, Clock
  <2>2. Shape(a)' /\ Shape(f)'
    BY <1>6, <1>7, <1>9 DEF Shape
  <2>3. Fits(f)'
    BY <1>1, <1>4, <1>9 DEF Fits, HasH, FromS, Upgrading
  <2>4. QED
    BY <2>1, <2>2, <2>3
<1>16. t = pace'.tick
  BY <1>6, <1>7
<1>17. Messages'
  <2>1. \A m \in X' : Shape(m)' /\ (Token(m, t) => Fits(m)')
    BY <1>10, <1>14, <1>15
  <2>2. \A m \in X' : Shape(m)' /\ (Token(m, pace.tick)' => Fits(m)')
    BY <1>16, <2>1 DEF Token
  <2>3. QED
    BY <1>14, <1>16, <2>2 DEF Messages
<1>18. Ring'
  BY <1>2, <1>4 DEF Ring, OpFits
<1>19. Once' /\ Quiet'
  BY <1>4, <1>6 DEF Once, Quiet
<1>20. Data' /\ Paced'
  <2>1. /\ count' \in [requests : 0 .. MaxReq, logs : 0 .. MaxLogs, live : 0 .. MaxLive]
        /\ count'.requests = count.requests /\ count'.live = k
    <3>1. k \in 0 .. MaxLive
      BY <1>5
    <3>2. count \in [requests : 0 .. MaxReq, logs : 0 .. MaxLogs, live : 0 .. MaxLive]
      BY <1>2 DEF Data
    <3>3. count' = [count EXCEPT !.live = k]
      OBVIOUS
    <3>4. QED
      BY <3>1, <3>2, <3>3
  <2>2. Data'
    BY <1>2, <1>6, <2>1 DEF Data
  <2>3. Paced'
    BY <1>1, <1>4, <1>5, <1>6, <2>1 DEF Paced
  <2>4. QED
    BY <2>2, <2>3
<1>21. Family'
  BY <1>2 DEF Family, Upgrading
<1>22. /\ \A x : Queued("delete", x)' <=> Queued("delete", x)
       /\ \A x : Queued("construct", x)' <=> Queued("construct", x)
       /\ Queued("timeout", "S")' <=> Queued("timeout", "S")
       /\ Queued("done", "A")' <=> Queued("done", "A")
  BY <1>1, <1>3, <1>9, <1>14 DEF Queued
<1>23. \A x : There(x)' <=> There(x)
  BY <1>22 DEF There
<1>24. Living'
  BY <1>2, <1>22, <1>23 DEF Living, Upgrading
<1>25. Calls'
  <2>1. {"H", "B"} \subseteq objs' /\ ~Queued("delete", "B")' /\ There("T")' /\ There("W")'
    BY <1>1, <1>2, <1>22, <1>23 DEF Family, Living
  <2>2. \A m \in X' : m.kind # "construct"
    BY <1>4, <1>9, <1>14
  <2>3. QED
    BY <2>1, <2>2 DEF Calls
<1>26. Alive'
  <2>1. /\ \E m \in X' : Token(m, pace'.tick)
        /\ \E m \in X' : Clock(m, pace'.tick)
    BY <1>14, <1>15, <1>16
  <2>2. QED
    BY <1>2, <1>22, <2>1 DEF Alive, Token, Clock
<1>27. Covered'
  BY <1>2, <1>22 DEF Covered
<1>28. QED
  BY <1>17, <1>18, <1>19, <1>20, <1>21, <1>24, <1>25, <1>26, <1>27 DEF Run

\* stage_websocket_live.
LEMMA LiveStepKeeps ==
    ASSUME Run, LiveStep
    PROVE  Run'
<1>1. /\ q # <<>> /\ Head(q).kind = "done" /\ Head(q).to = "S" /\ "S" \in objs
      /\ Upgrading
      /\ Token(Head(q), pace.tick) => ~frame.buffer /\ count.live < MaxLive
  BY LiveHeard
<1>2. UNCHANGED <<ring, held, objs, children, stage, http, frame, timer, finished, crashed>>
  BY LiveFlags
<1>3. /\ <<>> \in Seq(Message) /\ Row(<<>>, pace.tick) /\ Elems(<<>>) = {}
      /\ IsFiniteSet({})
  BY Turns, FS_EmptySet
<1>4. CASE /\ Push(<<Call("tick", "T", "S", 2 * (count.live + 1) - 1),
                     Call("frame", "W", "S", 2 * (count.live + 1))>>)
           /\ pace' = [tick |-> 2 * (count.live + 1) - 1,
                       frame |-> 2 * (count.live + 1),
                       ticked |-> FALSE, wrote |-> FALSE]
           /\ count' = [count EXCEPT !.live = count.live + 1]
           /\ \/ pace.tick = 0
              \/ Token(Head(q), pace.tick) /\ pace.ticked
              \/ Clock(Head(q), pace.tick) /\ pace.wrote
  <2>1. PICK k : k = count.live + 1
    OBVIOUS
  <2>2. QED
    BY <1>2, <1>4, <2>1, LiveGoKeeps
<1>5. CASE /\ Push(<<>>) /\ UNCHANGED count /\ pace.tick # 0
           /\ Token(Head(q), pace.tick) /\ ~pace.ticked
           /\ pace' = [pace EXCEPT !.wrote = TRUE]
  <2>1. /\ Messages /\ Ring /\ Once /\ Data /\ Paced /\ Family /\ Covered
    BY DEF Run
  <2>2. /\ pace' \in [tick : Nat, frame : Nat, ticked : BOOLEAN, wrote : BOOLEAN]
        /\ pace'.tick = pace.tick /\ pace'.frame = pace.frame
        /\ pace'.ticked = pace.ticked /\ pace'.wrote = TRUE
    BY <1>5, <2>1 DEF Data
  <2>3. Head(q) \in X /\ X = Rest \union {Head(q)} /\ q \in Seq(Message)
    BY <1>1, <2>1, Taken DEF Messages
  <2>4. \A o \in ring' : ~OnSocket(o)
    BY <1>2, <1>5, <2>1, <2>3 DEF Once
  <2>5. Ring'
    BY <1>2, <1>5, <2>1, <2>2, <2>4 DEF Ring, OpFits, OnSocket
  <2>6. Data' /\ Paced' /\ Family'
    <3>1. Data'
      BY <1>2, <1>5, <2>1, <2>2 DEF Data
    <3>2. Paced'
      BY <1>1, <1>2, <1>5, <2>1, <2>2 DEF Paced, Upgrading
    <3>3. Family'
      BY <1>2, <2>1 DEF Family, Upgrading
    <3>4. QED
      BY <3>1, <3>2, <3>3
  <2>7. Covered'
    <3>1. PICK ms \in Seq(Message) : ms = <<>>
      BY <1>3
    <3>2. \A m \in Rest : m \in X'
      BY <1>1, <1>5, <2>3, <3>1, Stays
    <3>3. Queued("timeout", "S") => Queued("timeout", "S")'
      BY <1>1, <2>3, <3>2 DEF Queued
    <3>4. QED
      BY <1>2, <2>1, <3>3 DEF Covered
  <2>8. Upgrading' <=> Upgrading
    BY <1>2 DEF Upgrading
  <2>9. ServerMoves(<<>>)
    BY <1>1, <1>2, <1>3, <1>5, <2>2, <2>4, <2>5, <2>6, <2>7, <2>8 DEF ServerMoves
  <2>10. QED
    BY <1>3, <2>9, ServerMovesKeeps
<1>6. CASE /\ Push(<<>>) /\ UNCHANGED count /\ pace.tick # 0
           /\ Clock(Head(q), pace.tick) /\ ~pace.wrote
           /\ pace' = [pace EXCEPT !.ticked = TRUE]
  <2>1. pace'.ticked
    BY <1>6 DEF Run, Data
  <2>2. ClockMoves(<<>>, {})
    BY <1>1, <1>2, <1>3, <1>6, <2>1 DEF ClockMoves
  <2>3. QED
    BY <1>3, <2>2, ClockMovesKeeps
<1>7. QED
  BY <1>4, <1>5, <1>6, LiveFlags
-----------------------------------------------------------------------------
(* The ring.                                                                *)

\* What an operation completes as.
LEMMA CompletionIs ==
    ASSUME Run, NEW o \in ring, NEW ok \in BOOLEAN, NEW m, m = Completion(o, ok)
    PROVE  /\ m \in Message /\ Shape(m) /\ (Token(m, pace.tick) => Fits(m))
           /\ Token(m, pace.tick) <=> OnSocket(o)
           /\ Clock(m, pace.tick) <=> o.op = "clock"
           /\ m.kind = "timeout" <=> o.op \in {"timer", "expired"}
           /\ m.kind \in {"recv", "send", "clock", "timeout"}
           /\ m.kind = "timeout" => m.to = "S"
<1>1. OpFits(o)
  BY DEF Run, Ring
<1>2. CASE o.op \in {"timer", "expired"}
  <2>1. /\ m.kind = "timeout" /\ m.to = "S" /\ m.by = "none" /\ m.task = Other
        /\ m.ok = FALSE /\ m \in Message
    BY <1>2 DEF Completion, Receiver, Msg, Message, Other, Objects
  <2>2. QED
    BY <1>2, <2>1 DEF Shape, Token, Clock, OnSocket
<1>3. CASE o.op = "clock"
  <2>0. o.n = pace.tick /\ pace.tick # 0 /\ pace.tick \in Nat
    BY <1>1, <1>3 DEF OpFits, Run, Data
  <2>1. /\ m.kind = "clock" /\ m.to = "T" /\ m.by = "none" /\ m.task = pace.tick
        /\ m.ok = TRUE /\ m \in Message
    BY <1>3, <2>0 DEF Completion, Receiver, Msg, Message, Other, Objects
  <2>2. QED
    BY <1>3, <2>0, <2>1 DEF Shape, Token, Clock, OnSocket
<1>4. CASE o.op \in {"recv", "send"}
  <2>0. /\ o.by \in {"H", "W"} /\ (o.op = "recv" => o.by = "H")
        /\ o.by = "H" => ~Upgrading /\ (http.reading <=> stage = "Read")
        /\ o.by = "W" => Upgrading /\ frame.task = Due
    BY <1>1, <1>4 DEF OpFits, OnSocket
  <2>1. /\ m.kind = o.op /\ m.to = "B" /\ m.by = o.by /\ m.task = Other
        /\ m.ok = ok /\ m \in Message
    BY <1>4, <2>0 DEF Completion, Receiver, Msg, Message, Other, Objects
  <2>2. Shape(m)
    BY <1>4, <2>0, <2>1 DEF Shape
  <2>3. Fits(m)
    BY <1>4, <2>0, <2>1 DEF Fits, HasH, FromS
  <2>4. QED
    BY <1>4, <2>1, <2>2, <2>3 DEF Token, Clock, OnSocket
<1>5. QED
  BY <1>1, <1>2, <1>3, <1>4 DEF OpFits

\* The queue after a reap.
LEMMA Reaps ==
    ASSUME Run, NEW arrived \in SUBSET ring, Reap(arrived)
    PROVE  /\ X = {} /\ Messages'
           /\ \A m \in X' : \E o \in arrived : \E ok \in BOOLEAN :
                 m = Completion(o, ok)
           /\ \A o \in arrived : \E ok \in BOOLEAN : Completion(o, ok) \in X'
<1>1. /\ q = <<>>
      /\ UNCHANGED <<held, objs, children, stage, pace, timer, count, http, frame,
                     finished, crashed>>
  BY DEF Reap, server
<1>2. PICK s \in Orders(arrived) : \E ok \in [DOMAIN s -> BOOLEAN] :
          q' = [i \in DOMAIN s |-> Completion(s[i], ok[i])]
  BY DEF Reap
<1>3. PICK ok \in [DOMAIN s -> BOOLEAN] :
          q' = [i \in DOMAIN s |-> Completion(s[i], ok[i])]
  BY <1>2
<1>4. IsFiniteSet(arrived)
  BY FS_Subset DEF Run, Ring
<1> DEFINE k == Cardinality(arrived)
<1>4a. /\ s \in [1 .. Cardinality(arrived) -> arrived]
       /\ \A o \in arrived : \E i \in DOMAIN s : s[i] = o
  BY DEF Orders, Elems
<1>5. /\ k \in Nat /\ s \in [1 .. k -> arrived] /\ DOMAIN s = 1 .. k
      /\ \A o \in arrived : \E i \in DOMAIN s : s[i] = o
      /\ \A i, j \in DOMAIN s : i # j => s[i] # s[j]
  BY <1>4, <1>4a, ListedOnce
<1> HIDE DEF k
<1>6. \A i \in 1 .. k : /\ s[i] \in arrived /\ s[i] \in ring /\ ok[i] \in BOOLEAN
                        /\ q'[i] = Completion(s[i], ok[i])
  BY <1>3, <1>5
<1>7. \A i \in 1 .. k : /\ q'[i] \in Message /\ Shape(q'[i])
                        /\ Token(q'[i], pace.tick) => Fits(q'[i])
                        /\ Token(q'[i], pace.tick) <=> OnSocket(s[i])
                        /\ Clock(q'[i], pace.tick) <=> s[i].op = "clock"
                        /\ q'[i].kind \in {"recv", "send", "clock", "timeout"}
  BY <1>6, CompletionIs
<1>8. q' \in [1 .. k -> Message]
  BY <1>3, <1>5, <1>7
<1>9. q' \in Seq(Message) /\ Len(q') = k /\ DOMAIN q' = 1 .. k
  BY <1>5, <1>8, BuiltSeq
<1>10. X' = {q'[i] : i \in 1 .. k}
  BY <1>9 DEF X, Elems
<1>11. Row(q', pace.tick)
  <2>1. ASSUME NEW i \in 1 .. k, NEW j \in 1 .. k, i < j
        PROVE  Pair(q'[i], q'[j], pace.tick)
    <3>1. s[i] # s[j] /\ s[i] \in ring /\ s[j] \in ring
      BY <1>5, <1>6, <2>1
    <3>2. ~(OnSocket(s[i]) /\ OnSocket(s[j]))
      BY <3>1 DEF Run, Once
    <3>3. ~(s[i].op = "clock" /\ s[j].op = "clock")
      BY <3>1 DEF Run, Ring, OpFits
    <3>4. QED
      BY <1>7, <3>2, <3>3 DEF Pair, Ends
  <2>2. QED
    BY <1>9, <2>1 DEF Row
<1>12. \A m \in X' : Shape(m) /\ (Token(m, pace.tick) => Fits(m))
  BY <1>7, <1>10
<1>13. \A m \in X' : Shape(m)' /\ (Token(m, pace.tick)' => Fits(m)')
  BY <1>1, <1>12 DEF Shape, Fits, Due, Upgrading, Token
<1>14. Messages'
  BY <1>1, <1>9, <1>11, <1>13 DEF Messages
<1>15. X = {}
  BY <1>1 DEF X, Elems
<1>16. \A m \in X' : \E o \in arrived : \E b \in BOOLEAN : m = Completion(o, b)
  BY <1>6, <1>10
<1>17. \A o \in arrived : \E b \in BOOLEAN : Completion(o, b) \in X'
  BY <1>5, <1>6, <1>10
<1>18. QED
  BY <1>14, <1>15, <1>16, <1>17

\* Whatever has completed is queued, in any order.
LEMMA ReapKeeps ==
    ASSUME Run, NEW arrived \in SUBSET ring, Reap(arrived)
    PROVE  Run'
<1>1. /\ ring' = ring \ arrived
      /\ UNCHANGED <<held, objs, children, stage, pace, timer, count, http, frame,
                     finished, crashed>>
  BY DEF Reap, server
<1>2. X = {} /\ Messages'
  BY Reaps
<1>3. \A m \in X' : \E o \in arrived :
         /\ Token(m, pace.tick) <=> OnSocket(o)
         /\ Clock(m, pace.tick) <=> o.op = "clock"
         /\ m.kind \in {"recv", "send", "clock", "timeout"}
  <2>1. TAKE m \in X'
  <2>2. PICK o \in arrived : \E ok \in BOOLEAN : m = Completion(o, ok)
    BY Reaps
  <2>3. o \in ring
    OBVIOUS
  <2>4. QED
    BY <2>2, <2>3, CompletionIs
<1>4. \A o \in arrived : \E m \in X' :
         /\ Token(m, pace.tick) <=> OnSocket(o)
         /\ Clock(m, pace.tick) <=> o.op = "clock"
         /\ m.kind = "timeout" <=> o.op \in {"timer", "expired"}
         /\ m.kind = "timeout" => m.to = "S"
  <2>1. TAKE o \in arrived
  <2>2. PICK ok \in BOOLEAN : Completion(o, ok) \in X'
    BY Reaps
  <2>3. o \in ring
    OBVIOUS
  <2>4. QED
    BY <2>2, <2>3, CompletionIs
<1>5. /\ Ring /\ Once /\ Data /\ Paced /\ Quiet
      /\ Family /\ Living /\ Calls /\ Alive /\ Covered
  BY DEF Run
<1>6. /\ \A m \in X' : m.kind \in {"recv", "send", "clock", "timeout"}
      /\ \A o \in ring' : o \in ring /\ o \notin arrived
  BY <1>1, <1>3
<1>7. Ring'
  <2>1. IsFiniteSet(ring')
    BY <1>1, <1>5, FS_Subset DEF Ring
  <2>2. \A o \in ring' : OpFits(o)'
    BY <1>1, <1>5, <1>6 DEF Ring, OpFits, Upgrading, Due
  <2>3. QED
    BY <2>1, <2>2 DEF Ring
<1>8. Once'
  <2>1. ASSUME NEW o \in ring', OnSocket(o)
        PROVE  (\A m \in X' : ~Token(m, pace.tick)) /\ \A p \in ring' : OnSocket(p) => p = o
    BY <1>3, <1>5, <1>6, <2>1 DEF Once
  <2>2. ASSUME NEW o \in ring', o.op = "clock"
        PROVE  \A m \in X' : ~Clock(m, pace.tick)
    <3>1. \A p \in ring : p.op = "clock" => p = o
      BY <1>5, <1>6, <2>2 DEF Ring, OpFits
    <3>2. QED
      BY <1>3, <1>6, <3>1
  <2>3. QED
    BY <1>1, <2>1, <2>2 DEF Once
<1>9. Data' /\ Paced' /\ Family'
  BY <1>1, <1>5 DEF Data, Paced, Family, Upgrading
<1>10. Quiet'
  BY <1>1, <1>3, <1>5, <1>6 DEF Quiet
<1>11. \A k \in {"construct", "delete", "done"} : \A x : ~Queued(k, x)' /\ ~Queued(k, x)
  BY <1>2, <1>6 DEF Queued
<1>12. \A x : There(x)' <=> There(x)
  BY <1>1, <1>11 DEF There
<1>13. Living'
  BY <1>1, <1>5, <1>11, <1>12 DEF Living, Upgrading
<1>14. Calls'
  BY <1>6 DEF Calls, FromS, ToB
<1>15. Alive'
  <2>1. SUFFICES ASSUME finished = 0
                 PROVE  Alive'
    BY <1>1 DEF Alive
  <2>2. (\E o \in ring : OnSocket(o)) \/ pace.wrote
    BY <1>2, <1>5, <2>1 DEF Alive
  <2>3. \/ \E m \in X' : Token(m, pace.tick)
        \/ \E o \in ring' : OnSocket(o)
        \/ pace.wrote
    BY <1>1, <1>4, <2>2
  <2>4. pace.tick # 0 /\ ~pace.ticked => \E o \in ring : o.op = "clock"
    BY <1>2, <1>5, <2>1 DEF Alive
  <2>5. pace.tick # 0 /\ ~pace.ticked =>
            \/ \E m \in X' : Clock(m, pace.tick)
            \/ \E o \in ring' : o.op = "clock"
    BY <1>1, <1>4, <2>4
  <2>6. QED
    BY <1>1, <1>5, <1>11, <2>1, <2>3, <2>5 DEF Alive
<1>16. Covered'
  <2>1. SUFFICES ASSUME "S" \in objs, stage \notin {"Write", "WebsocketInit"}, finished = 0
                 PROVE  \/ \E o \in ring' : o.op \in {"timer", "expired"} /\ o.n = timer
                        \/ Queued("timeout", "S")'
    BY <1>1, <1>5 DEF Covered, Data
  <2>2. PICK o \in ring : o.op \in {"timer", "expired"} /\ o.n = timer
    BY <1>2, <1>5, <2>1 DEF Covered, Queued
  <2>3. CASE o \in arrived
    BY <1>4, <2>2, <2>3 DEF Queued
  <2>4. CASE o \notin arrived
    BY <1>1, <2>2, <2>4
  <2>5. QED
    BY <2>3, <2>4
<1>17. QED
  BY <1>2, <1>7, <1>8, <1>9, <1>10, <1>13, <1>14, <1>15, <1>16 DEF Run
-----------------------------------------------------------------------------
(* The beginning.                                                           *)

\* A queue of two, when its head is taken.
LEMMA Shift ==
    ASSUME NEW S, NEW a \in S, NEW b \in S, NEW c \in S
    PROVE  /\ <<a, b>> # <<>> /\ Head(<<a, b>>) = a
           /\ Tail(<<a, b>>) \o <<c>> = <<b, c>>
           /\ Tail(<<a, b>>) \o <<>> = <<b>>
<1>1. <<a, b>> # <<>> /\ Head(<<a, b>>) = a /\ Tail(<<a, b>>) = <<b>>
  OBVIOUS
<1>2. <<b>> \in Seq(S) /\ Len(<<b>>) = 1 /\ <<b>>[1] = b
  OBVIOUS
<1>3. <<c>> \in Seq(S) /\ Len(<<c>>) = 1 /\ <<c>>[1] = c
  OBVIOUS
<1>4. ASSUME NEW B \in Seq(S), Len(B) = 1, B[1] = b, NEW C \in Seq(S), Len(C) = 1, C[1] = c
      PROVE  B \o C = <<b, c>> /\ B \o <<>> = B
  <2>1. /\ B \o C \in Seq(S) /\ Len(B \o C) = Len(B) + Len(C)
        /\ \A i \in 1 .. Len(B) : (B \o C)[i] = B[i]
        /\ \A i \in 1 .. Len(C) : (B \o C)[Len(B) + i] = C[i]
    OBVIOUS
  <2>2. PICK Q \in Seq(S) : /\ Q = B \o C /\ Len(Q) = Len(B) + Len(C)
                            /\ \A i \in 1 .. Len(B) : Q[i] = B[i]
                            /\ \A i \in 1 .. Len(C) : Q[Len(B) + i] = C[i]
    BY <2>1
  <2>3. 1 \in 1 .. Len(B) /\ 1 \in 1 .. Len(C) /\ Len(B) + 1 = 2
    BY <1>4
  <2>4. Q[1] = b /\ Q[2] = c /\ Len(Q) = 2
    BY <1>4, <2>2, <2>3
  <2>5. Q = <<b, c>>
    BY <2>4
  <2>6. B \o <<>> = B
    OBVIOUS
  <2>7. QED
    BY <2>2, <2>5, <2>6
<1>5. QED
  BY <1>1, <1>2, <1>3, <1>4

\* What may happen to a construction, a start, or the first call of H.
LEMMA Beginnings ==
    ASSUME Next, q # <<>>,
           \/ Head(q).kind \in {"construct", "start"}
           \/ Head(q).kind = "read" /\ Head(q).to = "H"
    PROVE  \/ Head(q).kind = "construct" /\ Construct(Head(q).to)
           \/ Head(q).kind = "start" /\ Start
           \/ Head(q).kind = "read" /\ HttpCall("read")
<1>1. ~\E arrived \in SUBSET ring : Reap(arrived)
  BY DEF Reap
<1>2. Handle
  BY <1>1 DEF Next
<1> DEFINE kind == Head(q).kind
           to == Head(q).to
<1>3. /\ Released => kind = "done"
      /\ HttpData => kind = "done"
      /\ ClockCall => kind = "tick"
      /\ ClockData => kind = "clock"
      /\ FrameCall => kind = "frame"
      /\ FrameData => kind = "done"
      /\ Start => kind = "start"
      /\ ServerFails => kind = "done" \/ kind = "timeout"
      /\ RequestRead => kind = "done"
      /\ ResponseSent => kind = "done"
      /\ Upgraded => kind = "done"
      /\ LogsSent => kind = "done"
      /\ LiveStep => kind = "done"
  BY DEF Released, HttpData, ClockCall, ClockData, FrameCall, FrameData, Start,
         ServerFails, RequestRead, ResponseSent, Upgraded, LogsSent, LiveStep,
         Hears, Handles
<1>4. \A t : /\ Construct(t) => kind = "construct" /\ to = t
             /\ Delete(t) => kind = "delete"
  BY DEF Construct, Delete, Handles
<1>5. \A f : HttpCall(f) => kind = f
  BY DEF HttpCall, Handles
<1>6. \A f, o : SocketCall(f, o) => kind = f /\ to = "B"
  BY DEF SocketCall, Handles
<1>7. /\ \A o : SocketData(o) => kind = o
      /\ \A k, t : Dropped(k, t) => kind = k
  BY DEF SocketData, Dropped, Hears, Handles
<1>8. /\ kind \in {"construct", "start"} \/ (kind = "read" /\ to = "H")
  OBVIOUS
<1> HIDE DEF kind, to
<1>9. \/ Start
      \/ \E t \in Objects : Construct(t)
      \/ \E fun \in {"read", "write"} : HttpCall(fun)
  BY <1>2, <1>3, <1>4, <1>6, <1>7, <1>8 DEF Handle
<1>10. QED
  BY <1>3, <1>4, <1>5, <1>8, <1>9 DEF kind, to

\* The first read is queued: the connection is set up.
LEMMA FirstRead ==
    ASSUME Fresh', http'.reading,
           objs' = {"S", "H", "B"},
           children' = [o \in Objects |-> IF o = "S" THEN {"H"}
                                          ELSE IF o = "H" THEN {"B"} ELSE {}],
           timer' = 1, ring' = {Op("timer", "S", 1)},
           q' = <<Call("read", "B", "H", Other)>>
    PROVE  Run'
<1>1. /\ held' = TRUE /\ stage' = "Read" /\ crashed' = FALSE /\ finished' = 0
      /\ frame' = [buffer |-> FALSE, task |-> Other]
      /\ pace' = [tick |-> 0, frame |-> 0, ticked |-> FALSE, wrote |-> FALSE]
      /\ count' = [requests |-> 0, logs |-> 0, live |-> 0]
      /\ http' \in [reading : BOOLEAN, parser : BOOLEAN]
      /\ http'.reading = TRUE
  BY DEF Fresh
<1>2. PICK m : m = Call("read", "B", "H", Other)
  OBVIOUS
<1>3. /\ m.kind = "read" /\ m.to = "B" /\ m.by = "H" /\ m \in Message
  BY <1>2 DEF Call, Msg, Message, Other, Objects
<1>4. PICK o : o = Op("timer", "S", 1)
  OBVIOUS
<1>5. o.op = "timer" /\ o.by = "S" /\ o.n = 1 /\ o = Op(o.op, o.by, o.n)
  BY <1>4 DEF Op
<1>6. q' = <<m>> /\ ring' = {o}
  BY <1>2, <1>4
<1>7. /\ pace'.tick = 0 /\ pace'.frame = 0 /\ ~pace'.ticked /\ ~pace'.wrote
      /\ ~frame'.buffer /\ frame'.task = Other
      /\ count'.requests = 0 /\ count'.live = 0 /\ Due' = Other /\ ~Upgrading'
  BY <1>1 DEF Due, Upgrading
<1>8. /\ <<m>> \in Seq(Message) /\ Elems(<<m>>) = {m} /\ Row(<<m>>, 0)
  BY <1>3, Turns
<1>9. X' = {m} /\ q' \in Seq(Message) /\ Row(q', pace'.tick)
  BY <1>6, <1>7, <1>8 DEF X
<1>10. Token(m, 0) /\ ~Clock(m, 0) /\ ~FromS(m) /\ ToB(m) /\ HasH(m)
  BY <1>3 DEF Token, Clock, FromS, ToB, HasH
<1>11. Messages'
  <2>1. Shape(m)'
    BY <1>3 DEF Shape
  <2>2. Fits(m)'
    BY <1>1, <1>3, <1>7, <1>10 DEF Fits
  <2>3. QED
    BY <1>9, <2>1, <2>2 DEF Messages
<1>12. Ring'
  <2>1. IsFiniteSet(ring')
    BY <1>6, FS_Singleton
  <2>2. OpFits(o)'
    BY <1>5 DEF OpFits, OnSocket
  <2>3. QED
    BY <1>6, <2>1, <2>2 DEF Ring
<1>13. Once' /\ Quiet'
  BY <1>5, <1>6, <1>7 DEF Once, Quiet, OnSocket
<1>14. Data'
  <2>1. pace' \in [tick : Nat, frame : Nat, ticked : BOOLEAN, wrote : BOOLEAN]
    BY <1>1
  <2>2. count' \in [requests : 0 .. MaxReq, logs : 0 .. MaxLogs, live : 0 .. MaxLive]
    BY <1>1, MonitoringAssumption
  <2>3. frame' \in [buffer : BOOLEAN, task : {Other} \union 1 .. 2 * MaxLive]
    BY <1>1
  <2>4. objs' \subseteq Objects
    BY DEF Objects
  <2>5. children' \in [Objects -> SUBSET Objects]
    BY DEF Objects
  <2>6. timer' \in Nat \ {0}
        /\ timer' <= count'.requests + IF stage' \in {"Write", "WebsocketInit"} THEN 0 ELSE 1
    BY <1>1, <1>7
  <2>7. stage' \in Stages /\ finished' \in 0 .. 2
    BY <1>1 DEF Stages
  <2>8. held' \in BOOLEAN /\ crashed' \in BOOLEAN
    BY <1>1
  <2>9. QED
    BY <1>1, <2>1, <2>2, <2>3, <2>4, <2>5, <2>6, <2>7, <2>8 DEF Data
<1>15. Paced'
  BY <1>7 DEF Paced
<1>16. Family'
  BY <1>7 DEF Family, Objects
<1>17. \A k, x : Queued(k, x)' <=> k = "read" /\ x = "B"
  BY <1>3, <1>9 DEF Queued
<1>18. Living'
  <2>1. \A x : There(x)' <=> x \in {"S", "H", "B"}
    BY <1>17 DEF There
  <2>2. QED
    BY <1>1, <1>7, <1>17, <2>1 DEF Living
<1>19. Calls'
  BY <1>3, <1>9, <1>10 DEF Calls
<1>20. Alive'
  BY <1>1, <1>7, <1>9, <1>10, <1>17 DEF Alive, Token
<1>21. Covered'
  BY <1>5, <1>6 DEF Covered
<1>22. QED
  BY <1>11, <1>12, <1>13, <1>14, <1>15, <1>16, <1>18, <1>19, <1>20, <1>21 DEF Run

\* Each of the five queues is followed by the next.
LEMMA SetupKeeps ==
    ASSUME Setup, Next
    PROVE  IInv'
<1>1. Fresh
  BY DEF Setup
<1> DEFINE cS == Call("construct", "S", "A", Other)
           st == Call("start", "S", "A", Other)
           cH == Call("construct", "H", "S", Other)
           rH == Call("read", "H", "S", Other)
           cB == Call("construct", "B", "H", Other)
           rB == Call("read", "B", "H", Other)
<1>2. /\ cS.kind = "construct" /\ cS.to = "S" /\ cS.by = "A"
      /\ st.kind = "start" /\ st.to = "S"
      /\ cH.kind = "construct" /\ cH.to = "H" /\ cH.by = "S"
      /\ rH.kind = "read" /\ rH.to = "H"
      /\ cB.kind = "construct" /\ cB.to = "B" /\ cB.by = "H"
  BY DEF Call, Msg
<1>3. ASSUME NEW a, NEW b, q = <<a, b>>
      PROVE  /\ q # <<>> /\ Head(q) = a
             /\ \A c : Push(<<c>>) => q' = <<b, c>>
             /\ Push(<<>>) => q' = <<b>>
  <2>1. ASSUME NEW c
        PROVE  /\ q # <<>> /\ Head(q) = a
               /\ Push(<<c>>) => q' = <<b, c>>
               /\ Push(<<>>) => q' = <<b>>
    <3>1. PICK S : S = {a, b, c}
      OBVIOUS
    <3>2. a \in S /\ b \in S /\ c \in S
      BY <3>1
    <3>3. QED
      BY <1>3, <3>2, Shift DEF Push
  <2>2. QED
    BY <2>1
<1>4. CASE Begun({}, FALSE, <<cS, st>>)
  <2>1. q = <<cS, st>> /\ objs = {} /\ timer = 0 /\ ring = {}
        /\ children = [o \in Objects |-> {}]
    BY <1>4 DEF Begun
  <2>2. q # <<>> /\ Head(q) = cS /\ \A c : Push(<<c>>) => q' = <<st, c>>
    BY <1>3, <2>1
  <2>3. Construct("S")
    BY <1>2, <2>2, Beginnings
  <2>4. /\ crashed' = FALSE /\ objs' = {"S"} /\ Push(<<cH>>)
        /\ children' = [children EXCEPT !["S"] = {"H"}]
        /\ UNCHANGED <<ring, held, stage, pace, timer, count, http, frame, finished>>
    BY <1>2, <2>1, <2>2, <2>3 DEF Construct, server
  <2>5. q' = <<st, cH>>
    BY <2>2, <2>4
  <2>6. Fresh'
    BY <1>1, <2>4 DEF Fresh
  <2>7. children' = [o \in Objects |-> IF o \notin {"S"} THEN {}
                                       ELSE IF o = "S" THEN {"H"} ELSE {"B"}]
    BY <2>1, <2>4 DEF Objects
  <2>8. Begun({"S"}, FALSE, <<st, cH>>)'
    BY <2>1, <2>4, <2>5, <2>7 DEF Begun
  <2>9. QED
    BY <2>6, <2>8 DEF IInv, Setup
<1>5. CASE Begun({"S"}, FALSE, <<st, cH>>)
  <2>1. q = <<st, cH>> /\ objs = {"S"} /\ timer = 0 /\ ring = {}
        /\ children = [o \in Objects |-> IF o \notin {"S"} THEN {}
                                         ELSE IF o = "S" THEN {"H"} ELSE {"B"}]
    BY <1>5 DEF Begun
  <2>2. q # <<>> /\ Head(q) = st /\ \A c : Push(<<c>>) => q' = <<cH, c>>
    BY <1>3, <2>1
  <2>3. Start
    BY <1>2, <2>2, Beginnings
  <2>4. /\ stage' = "Read" /\ timer' = 1 /\ ring' = ring \union {Op("timer", "S", 1)}
        /\ Push(<<rH>>)
        /\ UNCHANGED <<held, objs, children, http, frame, pace, count, finished, crashed>>
    BY <2>3 DEF Start
  <2>5. q' = <<cH, rH>> /\ ring' = {Op("timer", "S", 1)}
    BY <2>1, <2>2, <2>4
  <2>6. Fresh'
    BY <1>1, <2>4 DEF Fresh
  <2>7. Begun({"S"}, TRUE, <<cH, rH>>)'
    BY <2>1, <2>4, <2>5 DEF Begun
  <2>8. QED
    BY <2>6, <2>7 DEF IInv, Setup
<1>6. CASE Begun({"S"}, TRUE, <<cH, rH>>)
  <2>1. q = <<cH, rH>> /\ objs = {"S"} /\ timer = 1 /\ ring = {Op("timer", "S", 1)}
        /\ children = [o \in Objects |-> IF o \notin {"S"} THEN {}
                                         ELSE IF o = "S" THEN {"H"} ELSE {"B"}]
    BY <1>6 DEF Begun
  <2>2. q # <<>> /\ Head(q) = cH /\ \A c : Push(<<c>>) => q' = <<rH, c>>
    BY <1>3, <2>1
  <2>3. Construct("H")
    BY <1>2, <2>2, Beginnings
  <2>4. /\ crashed' = FALSE /\ objs' = {"S", "H"} /\ Push(<<cB>>)
        /\ children' = [children EXCEPT !["H"] = {"B"}]
        /\ UNCHANGED <<ring, held, stage, pace, timer, count, http, frame, finished>>
    BY <1>2, <2>1, <2>2, <2>3 DEF Construct, server
  <2>5. q' = <<rH, cB>>
    BY <2>2, <2>4
  <2>6. Fresh'
    BY <1>1, <2>4 DEF Fresh
  <2>7. children' = [o \in Objects |-> IF o \notin {"S", "H"} THEN {}
                                       ELSE IF o = "S" THEN {"H"} ELSE {"B"}]
    BY <2>1, <2>4 DEF Objects
  <2>8. Begun({"S", "H"}, TRUE, <<rH, cB>>)'
    BY <2>1, <2>4, <2>5, <2>7 DEF Begun
  <2>9. QED
    BY <2>6, <2>8 DEF IInv, Setup
<1>7. CASE Begun({"S", "H"}, TRUE, <<rH, cB>>)
  <2>1. q = <<rH, cB>> /\ objs = {"S", "H"} /\ timer = 1 /\ ring = {Op("timer", "S", 1)}
        /\ children = [o \in Objects |-> IF o \notin {"S", "H"} THEN {}
                                         ELSE IF o = "S" THEN {"H"} ELSE {"B"}]
    BY <1>7 DEF Begun
  <2>2. q # <<>> /\ Head(q) = rH /\ \A c : Push(<<c>>) => q' = <<cB, c>>
    BY <1>3, <2>1
  <2>3. HttpCall("read")
    BY <1>2, <2>2, Beginnings
  <2>4. /\ http' = [reading |-> "read" = "read", parser |-> "read" = "read" \/ http.parser]
        /\ Push(<<rB>>)
        /\ UNCHANGED <<ring, held, objs, children, stage, pace, timer, count, frame,
                       finished, crashed>>
    BY <2>3 DEF HttpCall, server
  <2>5. q' = <<cB, rB>>
    BY <2>2, <2>4
  <2>6. http' = [reading |-> TRUE, parser |-> TRUE]
    BY <2>4
  <2>7. Fresh' /\ http'.reading
    BY <1>1, <2>4, <2>6 DEF Fresh
  <2>8. Begun({"S", "H"}, TRUE, <<cB, rB>>)'
    BY <2>1, <2>4, <2>5 DEF Begun
  <2>9. QED
    BY <2>7, <2>8 DEF IInv, Setup
<1>8. CASE Begun({"S", "H"}, TRUE, <<cB, rB>>) /\ http.reading
  <2>1. q = <<cB, rB>> /\ objs = {"S", "H"} /\ timer = 1 /\ ring = {Op("timer", "S", 1)}
        /\ children = [o \in Objects |-> IF o \notin {"S", "H"} THEN {}
                                         ELSE IF o = "S" THEN {"H"} ELSE {"B"}]
    BY <1>8 DEF Begun
  <2>2. q # <<>> /\ Head(q) = cB /\ (Push(<<>>) => q' = <<rB>>)
    BY <1>3, <2>1
  <2>3. Construct("B")
    BY <1>2, <2>2, Beginnings
  <2>4. /\ crashed' = FALSE /\ objs' = {"S", "H", "B"} /\ Push(<<>>)
        /\ children' = [children EXCEPT !["B"] = {}]
        /\ UNCHANGED <<ring, held, stage, pace, timer, count, http, frame, finished>>
    BY <1>2, <2>1, <2>2, <2>3 DEF Construct, server
  <2>5. q' = <<rB>>
    BY <2>2, <2>4
  <2>6. Fresh' /\ http'.reading
    BY <1>1, <1>8, <2>4 DEF Fresh
  <2>7. children' = [o \in Objects |-> IF o = "S" THEN {"H"}
                                       ELSE IF o = "H" THEN {"B"} ELSE {}]
    BY <2>1, <2>4 DEF Objects
  <2>8. Run'
    BY <2>1, <2>4, <2>5, <2>6, <2>7, FirstRead
  <2>9. QED
    BY <2>8 DEF IInv
<1>9. QED
  BY <1>4, <1>5, <1>6, <1>7, <1>8 DEF Setup
-----------------------------------------------------------------------------
(* The invariant.                                                           *)
LEMMA InitIInv ==
    ASSUME Init
    PROVE  IInv
<1>1. Fresh
  BY DEF Init, Fresh
<1>2. children = [o \in Objects |-> IF o \notin {} THEN {}
                                    ELSE IF o = "S" THEN {"H"} ELSE {"B"}]
  BY DEF Init
<1>3. Begun({}, FALSE, <<Call("construct", "S", "A", Other),
                         Call("start", "S", "A", Other)>>)
  BY <1>2 DEF Init, Begun
<1>4. QED
  BY <1>1, <1>3 DEF IInv, Setup

LEMMA HandleKeeps ==
    ASSUME Run, Handle
    PROVE  Run'
<1>1. CASE Released
  BY <1>1, ReleasedKeeps
<1>2. CASE HttpData
  BY <1>2, HttpDataKeeps
<1>3. CASE ClockCall
  BY <1>3, ClockCallKeeps
<1>4. CASE ClockData
  BY <1>4, ClockDataKeeps
<1>5. CASE FrameCall
  BY <1>5, FrameCallKeeps
<1>6. CASE FrameData
  BY <1>6, FrameDataKeeps
<1>7. CASE Start
  \* S is started once, before anything else.
  <2>1. q # <<>> /\ Head(q).kind = "start"
    BY <1>7 DEF Start, Handles
  <2>2. Head(q) \in Message
    BY <2>1, Taken DEF Run
  <2>3. QED
    BY <2>1, <2>2 DEF Message
<1>8. CASE ServerFails
  BY <1>8, ServerFailsKeeps
<1>9. CASE RequestRead
  BY <1>9, RequestReadKeeps
<1>10. CASE ResponseSent
  BY <1>10, ResponseSentKeeps
<1>11. CASE Upgraded
  BY <1>11, UpgradedKeeps
<1>12. CASE LogsSent
  BY <1>12, LogsSentKeeps
<1>13. CASE LiveStep
  BY <1>13, LiveStepKeeps
<1>14. ASSUME NEW to \in Objects, Construct(to)
       PROVE  Run'
  BY <1>14, ConstructKeeps
<1>15. ASSUME NEW to \in Objects, Delete(to)
       PROVE  Run'
  BY <1>15, DeleteKeeps
<1>16. ASSUME NEW fun \in {"read", "write"}, HttpCall(fun)
       PROVE  Run'
  BY <1>16, HttpCallKeeps
<1>17. CASE SocketCall("read", "recv")
  BY <1>17, SocketCallKeeps
<1>18. CASE SocketCall("write", "send")
  BY <1>18, SocketCallKeeps
<1>19. ASSUME NEW op \in {"recv", "send"}, SocketData(op)
       PROVE  Run'
  BY <1>19, SocketDataKeeps
<1>20. ASSUME NEW op \in {"recv", "send"}, Dropped(op, "B")
       PROVE  Run'
  BY <1>20, DroppedKeeps
<1>21. ASSUME NEW to \in {"S", "H", "W"}, Dropped("done", to)
       PROVE  Run'
  BY <1>21, DroppedKeeps
<1>22. CASE Dropped("timeout", "S")
  BY <1>22, LateTimeoutKeeps
<1>23. CASE Dropped("clock", "T")
  BY <1>23, DroppedKeeps
<1>24. QED
  BY <1>1, <1>2, <1>3, <1>4, <1>5, <1>6, <1>7, <1>8, <1>9, <1>10, <1>11, <1>12, <1>13,
     <1>14, <1>15, <1>16, <1>17, <1>18, <1>19, <1>20, <1>21, <1>22, <1>23 DEF Handle

LEMMA StutterKeeps ==
    ASSUME Run, UNCHANGED vars
    PROVE  Run'
<1>1. /\ Messages /\ Ring /\ Once /\ Data /\ Paced /\ Quiet
      /\ Family /\ Living /\ Calls /\ Alive /\ Covered
  BY DEF Run
<1>2. UNCHANGED <<q, ring, held, objs, children, stage, http, frame, pace, timer,
                  count, finished, crashed>>
  BY DEF vars
<1>3. X' = X
  BY <1>2 DEF X
<1>4. /\ \A m : Shape(m)' <=> Shape(m)
      /\ \A m : Fits(m)' <=> Fits(m)
      /\ \A o : OpFits(o)' <=> OpFits(o)
  BY <1>2 DEF Shape, Fits, OpFits, Upgrading, Due
<1>5. /\ \A k, x : Queued(k, x)' <=> Queued(k, x)
      /\ \A x : There(x)' <=> There(x)
      /\ Upgrading' <=> Upgrading
  BY <1>2, <1>3 DEF Queued, There, Upgrading
<1>6. Messages'
  BY <1>1, <1>2, <1>3, <1>4 DEF Messages
<1>7. Ring' /\ Once' /\ Quiet'
  BY <1>1, <1>2, <1>3, <1>4 DEF Ring, Once, Quiet
<1>8. Data' /\ Paced' /\ Family'
  BY <1>1, <1>2, <1>5 DEF Data, Paced, Family
<1>9. Living' /\ Calls'
  BY <1>1, <1>2, <1>3, <1>5 DEF Living, Calls
<1>10. Alive' /\ Covered'
  BY <1>1, <1>2, <1>3, <1>5 DEF Alive, Covered
<1>11. QED
  BY <1>6, <1>7, <1>8, <1>9, <1>10 DEF Run

LEMMA NextIInv ==
    ASSUME IInv, [Next]_vars
    PROVE  IInv'
<1>1. CASE Setup /\ Next
  BY <1>1, SetupKeeps
<1>2. CASE Setup /\ UNCHANGED vars
  BY <1>2 DEF IInv, Setup, Fresh, Begun, vars
<1>3. CASE Run /\ Handle
  BY <1>3, HandleKeeps DEF IInv
<1>4. ASSUME Run, NEW arrived \in SUBSET ring, Reap(arrived)
      PROVE  IInv'
  BY <1>4, ReapKeeps DEF IInv
<1>5. CASE Run /\ UNCHANGED vars
  BY <1>5, StutterKeeps DEF IInv
<1>6. QED
  BY <1>1, <1>2, <1>3, <1>4, <1>5 DEF IInv, Next

\* IInv is inductive, for every number of requests, of chunks and of live records.
THEOREM Invariant == Spec => []IInv
<1>1. Init => IInv
  BY InitIInv
<1>2. IInv /\ [Next]_vars => IInv'
  BY NextIInv
<1>3. QED
  BY <1>1, <1>2, PTL DEF Spec
-----------------------------------------------------------------------------
(* What it gives.                                                           *)

\* The types and bounds of monitoring_server.cpp's state: tasks are numbered as
\* records go, and there is one timer for every request and one for the stream.
THEOREM Types == Spec => []TypeOK
<1>1. ASSUME Setup
      PROVE  TypeOK
  <2>1. Fresh /\ MaxReq \in Nat /\ MaxLogs \in Nat /\ MaxLive \in Nat
    BY <1>1, MonitoringAssumption DEF Setup
  <2>2. /\ objs \subseteq Objects /\ children \in [Objects -> SUBSET Objects]
        /\ timer \in {0, 1} /\ \A o \in ring : o = Op("timer", "S", 1)
    BY <1>1 DEF Setup, Begun, Objects
  <2>3. \A o \in ring : o.op = "timer"
    BY <2>2 DEF Op
  <2>4. /\ pace \in [tick : 0 .. 2 * MaxLive, frame : 0 .. 2 * MaxLive,
                     ticked : BOOLEAN, wrote : BOOLEAN]
        /\ count \in [requests : 0 .. MaxReq, logs : 0 .. MaxLogs, live : 0 .. MaxLive]
    BY <2>1 DEF Fresh
  <2>5. /\ frame \in [buffer : BOOLEAN, task : {Other} \union 1 .. 2 * MaxLive]
        /\ http \in [reading : BOOLEAN, parser : BOOLEAN]
        /\ stage \in Stages /\ held \in BOOLEAN /\ crashed \in BOOLEAN
        /\ finished \in 0 .. 2
    <3>1. frame \in [buffer : BOOLEAN, task : {Other} \union 1 .. 2 * MaxLive]
      BY <2>1 DEF Fresh
    <3>2. http \in [reading : BOOLEAN, parser : BOOLEAN]
      BY <2>1 DEF Fresh
    <3>3. stage \in Stages /\ finished \in 0 .. 2
      BY <2>1 DEF Fresh, Stages
    <3>4. held = TRUE /\ crashed = FALSE
      BY <2>1 DEF Fresh
    <3>5. QED
      BY <3>1, <3>2, <3>3, <3>4
  <2>6. timer \in 0 .. MaxReq + 2
    BY <2>1, <2>2
  <2>7. QED
    BY <2>2, <2>3, <2>4, <2>5, <2>6 DEF TypeOK
<1>2. ASSUME Run
      PROVE  TypeOK
  <2>1. Data /\ Paced /\ Ring /\ MaxReq \in Nat /\ MaxLogs \in Nat /\ MaxLive \in Nat
    BY <1>2, MonitoringAssumption DEF Run
  <2>2. \A o \in ring : o.op \in {"recv", "send", "clock", "timer", "expired"}
    BY <2>1 DEF Ring, OpFits
  <2>3. pace.tick \in 0 .. 2 * MaxLive /\ pace.frame \in 0 .. 2 * MaxLive
    <3>1. count.live \in 0 .. MaxLive
      BY <2>1 DEF Data
    <3>2. QED
      BY <2>1, <3>1 DEF Paced
  <2>4. pace \in [tick : 0 .. 2 * MaxLive, frame : 0 .. 2 * MaxLive,
                  ticked : BOOLEAN, wrote : BOOLEAN]
    BY <2>1, <2>3 DEF Data
  <2>5. timer \in 0 .. MaxReq + 2
    BY <2>1 DEF Data
  <2>6. QED
    BY <2>1, <2>2, <2>4, <2>5 DEF Data, TypeOK
<1>3. IInv => TypeOK
  BY <1>1, <1>2 DEF IInv
<1>4. QED
  BY <1>3, Invariant, PTL

\* The calls, answers and operations of the shared socket are never two, no frame
\* overwrites the buffer of another, and H is silent when the frames begin.
THEOREM OneTurnHolds == Spec => []OneTurn
<1> DEFINE queued == {i \in DOMAIN q :
              \/ q[i].kind \in {"read", "write", "frame", "recv", "send"}
              \/ q[i].kind = "done" /\ q[i].to \in {"H", "W"}
              \/ q[i].kind = "done" /\ q[i].to = "S" /\ q[i].task # pace.tick}
           inFlight == {o \in ring : o.op \in {"recv", "send"}}
<1>1. ASSUME Setup
      PROVE  OneTurn
  <2>1. PICK a, b : /\ q = <<a, b>> /\ a.kind # "frame" /\ b.kind # "frame"
                    /\ a.kind \in {"construct", "start"} \/ b.kind \in {"construct", "start"}
    BY <1>1 DEF Setup, Begun, Call, Msg
  <2>2. \A o \in ring : o = Op("timer", "S", 1)
    BY <1>1 DEF Setup, Begun
  <2>3. inFlight = {}
    BY <2>2 DEF Op
  <2>4. DOMAIN q = {1, 2} /\ q[1] = a /\ q[2] = b /\ q # <<>> /\ Head(q) = a
    BY <2>1
  <2>5. \A i, j \in queued : i = j
    BY <2>1, <2>4
  <2>6. Cardinality(queued) \in {0, 1} /\ Cardinality(inFlight) = 0
    BY <2>3, <2>5, AtMostOne, FS_EmptySet
  <2>7. stage = "Read"
    BY <1>1 DEF Setup, Fresh
  <2>8. Cardinality(queued) + Cardinality(inFlight) <= 1
    <3> HIDE DEF queued, inFlight
    <3>1. QED
      BY <2>6
  <2>9. OneAtATime
    BY <2>7, <2>8 DEF OneAtATime
  <2>10. OneFrame
    BY <2>1, <2>4 DEF OneFrame
  <2>11. QED
    BY <2>9, <2>10 DEF OneTurn
<1>2. ASSUME Run
      PROVE  OneTurn
  <2>1. Messages /\ Ring /\ Once
    BY <1>2 DEF Run
  <2>2. /\ q \in Seq(Message) /\ DOMAIN q = 1 .. Len(q) /\ Len(q) \in Nat
        /\ \A i \in DOMAIN q : q[i] \in Message /\ q[i] \in X /\ Shape(q[i])
                               /\ (Token(q[i], pace.tick) => Fits(q[i]))
    BY <2>1 DEF Messages, X, Elems
  <2>3. \A i \in queued : i \in DOMAIN q /\ Token(q[i], pace.tick)
    BY DEF Token
  <2>4. \A o \in inFlight : o \in ring /\ OnSocket(o)
    BY DEF OnSocket
  <2>5. \A i, j \in queued : i = j
    <3>1. SUFFICES ASSUME NEW i \in queued, NEW j \in queued, i < j
                   PROVE  FALSE
      BY <2>2
    <3>2. Pair(q[i], q[j], pace.tick)
      BY <2>1, <2>2, <3>1 DEF Messages, Row
    <3>3. QED
      BY <2>3, <3>2 DEF Pair
  <2>6. \A o, p \in inFlight : o = p
    BY <2>1, <2>4 DEF Once
  <2>7. queued = {} \/ inFlight = {}
    BY <2>1, <2>2, <2>3, <2>4 DEF Once
  <2>8. /\ Cardinality(queued) = IF queued = {} THEN 0 ELSE 1
        /\ Cardinality(inFlight) = IF inFlight = {} THEN 0 ELSE 1
    BY <2>5, <2>6, AtMostOne
  <2>9. Cardinality(queued) + Cardinality(inFlight) <= 1
    <3> HIDE DEF queued, inFlight
    <3>1. QED
      BY <2>7, <2>8
  <2>10. ASSUME Upgrading
         PROVE  /\ \A i \in DOMAIN q : q[i].to = "H" => q[i].kind = "delete"
                /\ \A o \in ring : o.by # "H"
    <3>1. ASSUME NEW m \in Message, Shape(m), Token(m, pace.tick) => Fits(m), m.to = "H"
          PROVE  m.kind = "delete"
      <4>1. ~Token(m, pace.tick)
        BY <2>10, <3>1 DEF Fits, HasH
      <4>2. QED
        BY <3>1, <4>1 DEF Token, Shape, Message
    <3>2. \A o \in ring : o.by # "H"
      BY <2>1, <2>10 DEF Ring, OpFits, OnSocket
    <3>3. QED
      BY <2>2, <3>1, <3>2
  <2>11. OneAtATime
    BY <2>9, <2>10 DEF OneAtATime, Upgrading
  <2>12. OneFrame
    <3>1. SUFFICES ASSUME q # <<>>, Head(q).kind = "frame"
                   PROVE  ~frame.buffer
      BY DEF OneFrame
    <3>2. Fits(Head(q))
      BY <2>1, <3>1, Taken DEF Token
    <3>3. QED
      BY <3>1, <3>2 DEF Fits
  <2>13. QED
    BY <2>11, <2>12 DEF OneTurn
<1>3. IInv => OneTurn
  BY <1>1, <1>2 DEF IInv
<1>4. QED
  BY <1>3, Invariant, PTL

\* Setup has something queued.
LEMMA SetupBusy ==
    ASSUME Setup
    PROVE  q # <<>>
BY DEF Setup, Begun

\* stage_websocket_live never waits for a clock or a frame that is not under way,
\* and what it waits for is exactly what its flags do not have.
THEOREM NeverStuckHolds == Spec => []NeverStuck
<1>1. ASSUME Run, q = <<>>, held, finished = 0
      PROVE  NeverStuck
  <2>1. /\ Ring /\ Paced /\ Quiet /\ Alive
    BY <1>1 DEF Run
  <2>2. X = {}
    BY <1>1 DEF X, Elems
  <2>3. (\E o \in ring : OnSocket(o)) \/ pace.wrote
    BY <1>1, <2>1, <2>2 DEF Alive
  <2>4. CASE stage # "WebsocketLive" \/ pace.tick = 0
    <3>1. ~pace.wrote
      BY <2>1, <2>4 DEF Paced
    <3>2. QED
      BY <2>3, <2>4, <3>1 DEF NeverStuck, OnSocket
  <2>5. CASE stage = "WebsocketLive" /\ pace.tick # 0
    <3>1. \A o \in ring : OnSocket(o) => o.op = "send"
      BY <2>1, <2>5 DEF Ring, OpFits, Upgrading
    <3>2. pace.wrote <=> ~\E o \in ring : o.op = "send"
      BY <2>1, <2>3, <3>1 DEF Quiet, OnSocket
    <3>3. pace.ticked <=> ~\E o \in ring : o.op = "clock" /\ o.n = pace.tick
      <4>1. ~pace.ticked => \E o \in ring : o.op = "clock"
        BY <1>1, <2>1, <2>2, <2>5 DEF Alive
      <4>2. QED
        BY <2>1, <4>1 DEF Quiet, Ring, OpFits
    <3>4. QED
      BY <2>1, <2>5, <3>2, <3>3 DEF NeverStuck, Paced
  <2>6. QED
    BY <2>4, <2>5
<1>2. IInv => NeverStuck
  BY <1>1, SetupBusy DEF IInv, NeverStuck
<1>3. QED
  BY <1>2, Invariant, PTL

\* The timer that S set last is there, or its timeout is queued, in every stage that
\* waits for the peer but those that send a response.
THEOREM TimerCoversHolds == Spec => []TimerCovers
<1>1. ASSUME Setup
      PROVE  TimerCovers
  <2>1. timer # 0 => timer = 1 /\ ring = {Op("timer", "S", 1)}
    BY <1>1 DEF Setup, Begun
  <2>2. timer # 0 => \E o \in ring : o.op \in {"timer", "expired"} /\ o.n = timer
    <3>1. PICK o : o = Op("timer", "S", 1)
      OBVIOUS
    <3>2. o.op = "timer" /\ o.n = 1
      BY <3>1 DEF Op
    <3>3. QED
      BY <2>1, <3>1, <3>2
  <2>3. QED
    BY <2>2 DEF TimerCovers
<1>2. ASSUME Run
      PROVE  TimerCovers
  BY <1>2 DEF Run, Covered, Queued, X, Elems, TimerCovers
<1>3. IInv => TimerCovers
  BY <1>1, <1>2 DEF IInv
<1>4. QED
  BY <1>3, Invariant, PTL

\* Between two batches a connection is there as a whole or not at all, and no call
\* comes to an object that is not there.
THEOREM AllOrNothingHolds == Spec => []AllOrNothing
<1>1. ASSUME Setup
      PROVE  AllOrNothing
  <2>1. PICK a, b : /\ q = <<a, b>>
                    /\ \/ a.kind = "construct"
                       \/ a.kind = "start" /\ a.to = "S" /\ "S" \in objs
                       \/ a.kind = "read" /\ a.to = "H" /\ "H" \in objs
    BY <1>1 DEF Setup, Begun, Call, Msg
  <2>2. Head(q) = a
    BY <2>1
  <2>3. CallTargetThere
    BY <2>1, <2>2 DEF CallTargetThere
  <2>4. QED
    BY <1>1, <2>3, SetupBusy DEF AllOrNothing
<1>2. ASSUME Run
      PROVE  AllOrNothing
  <2>1. /\ Messages /\ Family /\ Living /\ Calls /\ Data
    BY <1>2 DEF Run
  <2>2. ASSUME q = <<>>
        PROVE  objs = IF ~held THEN {}
                      ELSE IF stage \in {"WebsocketLogs", "WebsocketLive"} THEN Objects
                      ELSE {"S", "H", "B"}
    <3>1. \A k, x : ~Queued(k, x)
      BY <2>2 DEF Queued, X, Elems
    <3>2. CASE ~held
      BY <2>1, <3>1, <3>2 DEF Living, There, Data, Objects
    <3>3. CASE held
      <4>1. {"S", "H", "B"} \subseteq objs /\ objs \subseteq Objects
        BY <2>1, <3>3 DEF Living, Family, Data
      <4>2. Upgrading => "T" \in objs /\ "W" \in objs
        BY <2>1, <3>1, <4>1 DEF Living, There
      <4>3. ~Upgrading => "T" \notin objs /\ "W" \notin objs
        BY <2>1 DEF Living, There
      <4>4. QED
        BY <3>3, <4>1, <4>2, <4>3 DEF Upgrading, Objects
    <3>4. QED
      BY <3>2, <3>3
  <2>3. ASSUME q # <<>>, Head(q).kind \in {"start", "read", "write", "tick", "frame"}
        PROVE  Head(q).to \in objs
    <3> DEFINE h == Head(q)
    <3>1. /\ h \in X /\ X = Rest \union {h} /\ h \in Message /\ Shape(h)
          /\ \A m \in Rest : Pair(h, m, pace.tick)
      BY <2>1, <2>3, Taken
    <3>2. h.kind \in {"start", "read", "write", "tick", "frame"}
      BY <2>3
    <3> HIDE DEF h
    <3>3. CASE h.kind \in {"read", "write"}
      <4>1. h.to \in {"H", "B"}
        BY <3>1, <3>3 DEF Shape
      <4>2. QED
        BY <2>1, <3>1, <3>3, <4>1 DEF Calls, FromS, ToB, h
    <3>4. CASE h.kind = "tick"
      <4>1. h.to = "T" /\ pace.tick # 0 /\ There("T")
        BY <2>1, <3>1, <3>4 DEF Shape, Calls
      <4>2. ~Queued("construct", "T")
        BY <2>1, <4>1 DEF Calls, Queued
      <4>3. QED
        BY <4>1, <4>2 DEF There, h
    <3>5. CASE h.kind = "frame"
      <4>1. h.to = "W" /\ There("W")
        BY <2>1, <3>1, <3>5 DEF Shape, Calls
      <4>2. ~Queued("construct", "W")
        BY <3>1, <3>5 DEF Pair, Queued
      <4>3. QED
        BY <4>1, <4>2 DEF There, h
    <3>6. h.kind # "start"
      BY <3>1 DEF Message
    <3>7. QED
      BY <3>2, <3>3, <3>4, <3>5, <3>6 DEF h
  <2>4. QED
    BY <2>2, <2>3 DEF AllOrNothing, CallTargetThere
<1>3. IInv => AllOrNothing
  BY <1>1, <1>2 DEF IInv
<1>4. QED
  BY <1>3, Invariant, PTL
=============================================================================
