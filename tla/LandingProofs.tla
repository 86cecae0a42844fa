-------------------------- MODULE LandingProofs --------------------------
(***************************************************************************)
(* The acceptor and its connections, for every number of connections,      *)
(* requests and listening sockets, with timeouts and without.              *)
(*                                                                         *)
(* The difficulty is what the queue may hold at once.  Two things are said *)
(* of any two messages in it, the first ahead of the second.  Apart: what  *)
(* the connection's own objects never have queued together, above all two  *)
(* tokens (a token is what carries the one request of a connection through *)
(* S, H and B).  And waves: the queue is first in, first out, and after a  *)
(* reap a turn's messages are one wave after the message it took, so a     *)
(* message is never more than one wave behind another.  Waves are what     *)
(* rules out that the second completion of a task, which is three waves    *)
(* away from the failed operation, meets a connection that was accepted    *)
(* into the same slot, or its half of an object chain.                     *)
(*                                                                         *)
(* Apart from the messages IInv says, connection by connection, which      *)
(* objects are alive given the constructions and deletions queued (Life)   *)
(* and what is still to come for a task that has completed (Ends): with    *)
(* timeouts a task can complete twice, and the second completion then      *)
(* releases slot 0, whoever is there.  The connection whose index still    *)
(* leads to a slot that is not its own is an orphan (Orphans).             *)
(*                                                                         *)
(* There is one lemma per turn (...Keeps); Invariant puts them together,   *)
(* and the properties of the runs follow from IInv.                        *)
(*                                                                         *)
(* Sound says that there are no orphans before some task has completed     *)
(* twice.  Up to there the acceptor does what Connections promises, with   *)
(* timeouts and without; without them it does so for ever.                 *)
(***************************************************************************)
EXTENDS Landing, DataFacts

\* The messages queued.
X == Elems(q)

\* How deep an object is in the chain.
Lvl(to) == IF to = "S" THEN 1 ELSE IF to = "H" THEN 2 ELSE 3
\* A message that carries a connection's request.
Token(m) == m.to # "A" /\ m.kind \notin {"construct", "delete", "timeout"}

\* Who gets which message.
Route(m) ==
    CASE m.kind = "accept" -> m.to = "A"
      [] m.kind = "done" -> m.to \in {"A", "S", "H"}
      [] m.kind \in {"construct", "delete"} -> m.to \in {"S", "H", "B"}
      [] m.kind \in {"start", "timeout"} -> m.to = "S"
      [] m.kind \in {"read", "write"} -> m.to \in {"H", "B"}
      [] m.kind \in {"recv", "send"} -> m.to = "B"
      [] OTHER -> FALSE

\* Every message, and what one of a kind is like.
Message ==
    [kind : {"accept", "done", "construct", "delete", "start", "timeout",
             "read", "write", "recv", "send"},
     to : {"A", "S", "H", "B"}, c : Families \union Conns, ok : BOOLEAN]

Shape(m) ==
    /\ Route(m)
    /\ m.kind = "accept" => m.c \in Families
    /\ m.kind # "accept" => m.c \in 1 .. accepted
    /\ m.kind \in {"construct", "delete"} => m.ok
    /\ m.kind = "timeout" => ~m.ok
    /\ m.kind = "done" /\ m.to = "A" => ~m.ok

\* Two messages, the first ahead of the second.
Apart(m, n) ==
    m.c = n.c =>
        /\ (m.kind = "accept" <=> n.kind = "accept") =>
           /\ m.kind # "accept"
           /\ ~(Token(m) /\ Token(n))
           /\ ~(m.to = "A" /\ n.to = "A")
           /\ ~(m.kind = "done" /\ m.to = "S" /\ n.to = "A")
           /\ m.kind = n.kind => m.kind \notin {"construct", "delete", "timeout"}
           /\ m.kind = "construct" =>
                 /\ Token(n) => n.to = m.to /\ n.kind \in {"start", "read"}
                 /\ n.kind = "delete" => m.to = "B" /\ n.to = "S"
           /\ n.kind = "construct" =>
                 /\ Token(m) => n.to \in Below(m.to) /\ m.kind \in {"start", "read"}
                 /\ m.kind # "delete"

\* Tasks that completed twice, and tasks whose index leads to a slot that is not
\* theirs.
Twice == {c \in Conns : finished[c] = 2}
Orphans == {c \in DOMAIN indices : slots[indices[c]] # c}

\* The first and the last wave after a reap that m can belong to (9: any).  A
\* completion is of wave 0, H hears of it in 1, S in 2 and the acceptor in 3, or
\* in 1 when it was a timeout; L and O stand for Twice and Orphans.
Lo(m, L, O) ==
    IF m.kind = "start" THEN 1
    ELSE IF m.kind = "construct" THEN Lvl(m.to)
    ELSE IF m.kind = "done"
         THEN IF m.to = "H" THEN 1
              ELSE IF m.to = "S" THEN 2
              ELSE IF m.c \in L \union O THEN 3 ELSE 1
    ELSE IF m.kind = "delete" /\ m.to = "S" /\ m.c \in O THEN 4 ELSE 0
Hi(m) ==
    IF m.kind \in {"read", "write", "delete"} THEN 9
    ELSE IF m.kind = "start" THEN 1
    ELSE IF m.kind = "construct" THEN Lvl(m.to)
    ELSE IF m.kind = "done"
         THEN IF m.to = "H" THEN 1 ELSE IF m.to = "S" THEN 2 ELSE 3
    ELSE 0

\* The first of two messages is of the wave of the second or of the one before.
Rel(m, n, L, O) ==
    Apart(m, n) /\ Lo(m, L, O) <= Hi(n) /\ Lo(n, L, O) <= Hi(m) + 1

Row(Q, L, O) == \A i, j \in 1 .. Len(Q) : i < j => Rel(Q[i], Q[j], L, O)

\* The queue.
Messages ==
    /\ q \in Seq(Message)
    /\ \A m \in X : Shape(m)
    /\ Row(q, Twice, Orphans)

\* The operations in flight.
Ring ==
    /\ IsFiniteSet(ring)
    /\ \A o \in ring :
          /\ o = Op(o.op, o.c, o.n)
          /\ o.op \in {"accept", "recv", "send", "timer", "expired"}
          /\ o.n \in 0 .. Len(timers)
          /\ o.n = 0 <=> o.op \in {"accept", "recv", "send"}
          /\ o.op = "accept" => o.c \in Families
          /\ o.op # "accept" => o.c \in 1 .. accepted

\* A listening socket is armed, or its accept is queued.
Armed ==
    \A f \in Families :
        Op("accept", f, 0) \in ring <=> ~\E m \in X : m.kind = "accept" /\ m.c = f

\* A connection has one operation in flight, and no token beside it.
InFlight(c) == \E o \in ring : o.c = c /\ o.op \in {"recv", "send"}
Alone ==
    \A o \in ring : o.op \in {"recv", "send"} =>
        /\ \A p \in ring : p.op \in {"recv", "send"} /\ p.c = o.c => p = o
        /\ \A m \in X : m.c = o.c => ~Token(m) /\ m.kind # "construct"

\* The acceptor's tables: a slot's connection has that slot for index.
Tables ==
    /\ slots \in Seq({None} \union Conns) /\ Len(slots) <= accepted
    /\ accepted > 0 => Len(slots) > 0
    /\ accepted \in 0 .. MaxConn
    /\ indices \in [DOMAIN indices -> DOMAIN slots]
    /\ DOMAIN indices \subseteq 1 .. accepted
    /\ \A i \in DOMAIN slots : slots[i] # None =>
          slots[i] \in DOMAIN indices /\ indices[slots[i]] = i

\* Types of the objects' state.
Records ==
    /\ objs \in [Conns -> SUBSET {"S", "H", "B"}]
    /\ srv \in [Conns -> [reading : BOOLEAN, timer : 0 .. Len(timers),
                          served : 0 .. MaxReq]]
    /\ http \in [Conns -> [reading : BOOLEAN, parser : BOOLEAN]]
    /\ timers \in Seq(0 .. Len(timers)) /\ finished \in [Conns -> 0 .. 2]
    /\ hit \subseteq Conns /\ crashed \in BOOLEAN
    /\ \A c \in Conns : srv[c].reading => srv[c].timer > 0

\* Connections to come are blank.
New ==
    \A c \in Conns : c > accepted =>
        objs[c] = {} /\ finished[c] = 0 /\ ~srv[c].reading /\ srv[c].timer = 0

\* What the token says of the flags in S and H: they agree that a request is
\* read or a response written, and while it is read the parser is there.
Flags ==
    /\ \A m \in X :
          /\ m.kind \in {"start", "construct"} /\ m.to = "S" =>
                ~srv[m.c].reading /\ srv[m.c].timer = 0
          /\ m.kind \in {"read", "write"} /\ m.to = "H" =>
                srv[m.c].reading = (m.kind = "read")
          /\ Token(m) /\ (m.to = "B" \/ m.kind = "done") =>
                /\ http[m.c].reading = srv[m.c].reading
                /\ http[m.c].reading => http[m.c].parser
          /\ m.kind = "done" /\ m.to = "S" /\ m.ok /\ srv[m.c].reading =>
                srv[m.c].served < MaxReq
    /\ \A o \in ring : o.op \in {"recv", "send"} =>
          /\ http[o.c].reading = srv[o.c].reading
          /\ http[o.c].reading => http[o.c].parser

\* A timer is that of one connection, which reads; one that has expired belongs
\* to a connection that writes, and a timer and its Timeout are never both there.
Timers ==
    /\ \A o \in ring : o.n # 0 =>
          /\ srv[o.c].timer = o.n
          /\ \A p \in ring : p.n = o.n => p = o
          /\ o.op = "timer" => srv[o.c].reading
          /\ o.op = "expired" =>
                /\ ~srv[o.c].reading
                /\ \A m \in X : m.c = o.c =>
                      m.kind \notin {"recv", "send"}
                      /\ ~(m.kind = "done" /\ m.to \in {"H", "S"})
          /\ \A m \in X : m.c = o.c => m.kind # "timeout"
    /\ \A c, d \in Conns : srv[c].timer = srv[d].timer /\ c # d => srv[c].timer = 0

\* A connection's objects, by what is queued for them.
Con(to, c) == Call(to, "construct", c) \in X
Del(to, c) == Call(to, "delete", c) \in X
Held(c) == c \in Elems(slots)
LifeOf(c) ==
    /\ Con("S", c) => Held(c) /\ objs[c] = {}
    /\ Con("H", c) => Held(c) /\ objs[c] = {"S"}
    /\ Con("B", c) => (Held(c) \/ Del("S", c)) /\ objs[c] = {"S", "H"}
    /\ Del("S", c) => ~Held(c) /\ (Con("B", c) \/ objs[c] = {"S", "H", "B"})
    /\ Del("H", c) => ~Held(c) /\ objs[c] = {"H", "B"}
    /\ Del("B", c) => ~Held(c) /\ objs[c] = {"B"}
    /\ (\A m \in X : m.c = c => m.kind \notin {"construct", "delete"}) =>
          objs[c] = IF Held(c) THEN {"S", "H", "B"} ELSE {}
Life == \A c \in Conns : LifeOf(c)

\* A completion, and a Timeout, of connection c is queued.
Told(c) == \E m \in X : m.kind = "done" /\ m.to = "A" /\ m.c = c
TimedOut(c) == \E m \in X : m.kind = "timeout" /\ m.c = c
\* TimerCovers, of the messages queued.
Covered(c) ==
    "S" \in objs[c] /\ srv[c].reading =>
        \/ \E o \in ring : o.n = srv[c].timer
        \/ TimedOut(c)
        \/ finished[c] > 0
        \/ c \in hit
Coverage == \A c \in Conns : Covered(c)

\* What the acceptor knows of a connection, by how often its task completed.
EndsOf(c) ==
    /\ c <= accepted /\ finished[c] = 0 => c \in DOMAIN indices
    /\ Told(c) => finished[c] > 0
    /\ Told(c) /\ finished[c] = 1 => c \in DOMAIN indices
    /\ Told(c) /\ c \in Orphans => slots[indices[c]] = None
    /\ finished[c] > 0 /\ "S" \in objs[c] => Told(c) \/ Del("S", c)
    /\ TimedOut(c) /\ "S" \in objs[c] => finished[c] = 0
    /\ Con("S", c) \/ Con("H", c) => finished[c] = 0
Ends == \A c \in Conns : EndsOf(c)

\* What timeouts alone can do.
NoTimeouts ==
    ~Timeouts =>
        /\ \A m \in X : m.kind # "timeout"
        /\ \A o \in ring : o.op # "expired"
        /\ \A c \in Conns : finished[c] > 0 =>
              /\ finished[c] = 1
              /\ ~InFlight(c)
              /\ \A m \in X : m.c = c => ~Token(m)
        /\ Orphans = {} /\ ~crashed

\* The inductive invariant.
IInv ==
    /\ Messages /\ Ring /\ Armed /\ Alone /\ Tables /\ Records /\ New /\ Flags
    /\ Timers /\ Coverage /\ Life /\ Ends /\ NoTimeouts
-----------------------------------------------------------------------------
(* The queue.                                                               *)

\* What a sequence holds when its head is taken.
LEMMA TailElems ==
    ASSUME NEW Q \in Seq(Message), Q # <<>>, NEW L, NEW O, Row(Q, L, O)
    PROVE  /\ Head(Q) \in Message /\ Head(Q) \in Elems(Q)
           /\ Tail(Q) \in Seq(Message)
           /\ Elems(Q) = {Head(Q)} \union Elems(Tail(Q))
           /\ \A t \in Elems(Tail(Q)) : Rel(Head(Q), t, L, O)
           /\ Row(Tail(Q), L, O)
<1>1. /\ Len(Q) \in Nat \ {0} /\ Len(Tail(Q)) = Len(Q) - 1 /\ Head(Q) = Q[1]
      /\ \A i \in 1 .. Len(Q) - 1 : Tail(Q)[i] = Q[i + 1]
      /\ DOMAIN Q = 1 .. Len(Q) /\ DOMAIN Tail(Q) = 1 .. Len(Q) - 1
      /\ Tail(Q) \in Seq(Message) /\ Q[1] \in Message
  OBVIOUS
<1>2. \A i \in 1 .. Len(Q) : i # 1 => i - 1 \in 1 .. Len(Q) - 1 /\ Tail(Q)[i - 1] = Q[i]
  BY <1>1
<1>3. Elems(Q) = {Head(Q)} \union Elems(Tail(Q))
  <2>1. ASSUME NEW e \in Elems(Q)
        PROVE  e = Head(Q) \/ e \in Elems(Tail(Q))
    <3>1. PICK i \in 1 .. Len(Q) : e = Q[i]
      BY <1>1 DEF Elems
    <3>2. CASE i # 1
      <4>1. i - 1 \in DOMAIN Tail(Q) /\ Tail(Q)[i - 1] = e
        BY <1>1, <1>2, <3>1, <3>2
      <4>2. QED
        BY <4>1 DEF Elems
    <3>3. QED
      BY <1>1, <3>1, <3>2
  <2>2. ASSUME NEW e \in Elems(Tail(Q))
        PROVE  e \in Elems(Q)
    BY <1>1 DEF Elems
  <2>3. Head(Q) \in Elems(Q)
    BY <1>1 DEF Elems
  <2>4. QED
    BY <2>1, <2>2, <2>3
<1>4. \A t \in Elems(Tail(Q)) : Rel(Head(Q), t, L, O)
  <2>1. TAKE t \in Elems(Tail(Q))
  <2>2. PICK i \in 1 .. Len(Q) - 1 : t = Q[i + 1]
    BY <1>1 DEF Elems
  <2>3. 1 \in 1 .. Len(Q) /\ i + 1 \in 1 .. Len(Q) /\ 1 < i + 1
    BY <1>1
  <2>4. QED
    BY <1>1, <2>2, <2>3 DEF Row
<1>5. Row(Tail(Q), L, O)
  <2>1. SUFFICES ASSUME NEW i \in 1 .. Len(Q) - 1, NEW j \in 1 .. Len(Q) - 1, i < j
                 PROVE  Rel(Tail(Q)[i], Tail(Q)[j], L, O)
    BY <1>1 DEF Row
  <2>2. i + 1 \in 1 .. Len(Q) /\ j + 1 \in 1 .. Len(Q) /\ i + 1 < j + 1
    BY <1>1, <2>1
  <2>3. QED
    BY <1>1, <2>2 DEF Row
<1>6. QED
  BY <1>1, <1>3, <1>4, <1>5

\* What a sequence holds when messages are appended.
LEMMA ConcatElems ==
    ASSUME NEW Q \in Seq(Message), NEW W \in Seq(Message), NEW L, NEW O,
           Row(Q, L, O), Row(W, L, O),
           \A t \in Elems(Q), m \in Elems(W) : Rel(t, m, L, O)
    PROVE  /\ Q \o W \in Seq(Message)
           /\ Elems(Q \o W) = Elems(Q) \union Elems(W)
           /\ Row(Q \o W, L, O)
<1>1. /\ Len(Q) \in Nat /\ Len(W) \in Nat /\ Len(Q \o W) = Len(Q) + Len(W)
      /\ \A i \in 1 .. Len(Q) : (Q \o W)[i] = Q[i]
      /\ \A i \in 1 .. Len(W) : (Q \o W)[Len(Q) + i] = W[i]
      /\ DOMAIN Q = 1 .. Len(Q) /\ DOMAIN W = 1 .. Len(W)
      /\ DOMAIN (Q \o W) = 1 .. Len(Q \o W) /\ Q \o W \in Seq(Message)
  OBVIOUS
<1>2. ASSUME NEW i \in 1 .. Len(Q \o W)
      PROVE  \/ i \in 1 .. Len(Q) /\ (Q \o W)[i] = Q[i]
             \/ i - Len(Q) \in 1 .. Len(W) /\ (Q \o W)[i] = W[i - Len(Q)]
  <2>1. CASE i <= Len(Q)
    BY <1>1, <2>1
  <2>2. CASE i > Len(Q)
    <3>1. i - Len(Q) \in 1 .. Len(W) /\ Len(Q) + (i - Len(Q)) = i
      BY <1>1, <2>2
    <3>2. QED
      BY <1>1, <3>1
  <2>3. QED
    BY <1>1, <2>1, <2>2
<1>3. Elems(Q \o W) = Elems(Q) \union Elems(W)
  <2>1. ASSUME NEW e \in Elems(Q \o W)
        PROVE  e \in Elems(Q) \union Elems(W)
    BY <1>1, <1>2 DEF Elems
  <2>2. ASSUME NEW e \in Elems(Q)
        PROVE  e \in Elems(Q \o W)
    <3>1. PICK i \in 1 .. Len(Q) : e = Q[i]
      BY <1>1 DEF Elems
    <3>2. i \in 1 .. Len(Q \o W) /\ (Q \o W)[i] = e
      BY <1>1, <3>1
    <3>3. QED
      BY <1>1, <3>2 DEF Elems
  <2>3. ASSUME NEW e \in Elems(W)
        PROVE  e \in Elems(Q \o W)
    <3>1. PICK i \in 1 .. Len(W) : e = W[i]
      BY <1>1 DEF Elems
    <3>2. Len(Q) + i \in 1 .. Len(Q \o W) /\ (Q \o W)[Len(Q) + i] = e
      BY <1>1, <3>1
    <3>3. QED
      BY <1>1, <3>2 DEF Elems
  <2>4. QED
    BY <2>1, <2>2, <2>3
<1>4. Row(Q \o W, L, O)
  <2>1. SUFFICES ASSUME NEW i \in 1 .. Len(Q \o W), NEW j \in 1 .. Len(Q \o W), i < j
                 PROVE  Rel((Q \o W)[i], (Q \o W)[j], L, O)
    BY DEF Row
  <2>2. CASE i \in 1 .. Len(Q) /\ j \in 1 .. Len(Q)
    BY <1>1, <2>1, <2>2 DEF Row
  <2>3. CASE i \in 1 .. Len(Q) /\ j \notin 1 .. Len(Q)
    <3>1. Q[i] \in Elems(Q) /\ W[j - Len(Q)] \in Elems(W)
      BY <1>1, <1>2, <2>3 DEF Elems
    <3>2. QED
      BY <1>1, <1>2, <2>3, <3>1
  <2>4. CASE i \notin 1 .. Len(Q)
    <3>1. j \notin 1 .. Len(Q)
      BY <1>1, <2>1, <2>4
    <3>2. /\ i - Len(Q) \in 1 .. Len(W) /\ (Q \o W)[i] = W[i - Len(Q)]
          /\ j - Len(Q) \in 1 .. Len(W) /\ (Q \o W)[j] = W[j - Len(Q)]
      BY <1>2, <2>4, <3>1
    <3>3. i - Len(Q) < j - Len(Q)
      BY <1>1, <2>1
    <3>4. QED
      BY <3>2, <3>3 DEF Row
  <2>5. QED
    BY <2>2, <2>3, <2>4
<1>5. QED
  BY <1>1, <1>3, <1>4

\* The messages of a turn.
LEMMA Turns ==
    ASSUME NEW L, NEW O
    PROVE  /\ <<>> \in Seq(Message) /\ Elems(<<>>) = {} /\ Row(<<>>, L, O)
           /\ \A m \in Message : /\ <<m>> \in Seq(Message) /\ Elems(<<m>>) = {m}
                                 /\ Row(<<m>>, L, O)
           /\ \A m, n \in Message : /\ <<m, n>> \in Seq(Message)
                                    /\ Elems(<<m, n>>) = {m, n}
                                    /\ Rel(m, n, L, O) => Row(<<m, n>>, L, O)
<1>1. /\ <<>> \in Seq(Message) /\ Elems(<<>>) = {} /\ Row(<<>>, L, O)
  BY DEF Elems, Row
<1>2. ASSUME NEW m \in Message
      PROVE  <<m>> \in Seq(Message) /\ Elems(<<m>>) = {m} /\ Row(<<m>>, L, O)
  BY DEF Elems, Row
<1>3. ASSUME NEW m \in Message, NEW n \in Message
      PROVE  /\ <<m, n>> \in Seq(Message) /\ Elems(<<m, n>>) = {m, n}
             /\ Rel(m, n, L, O) => Row(<<m, n>>, L, O)
  <2>1. DOMAIN <<m, n>> = {1, 2} /\ Len(<<m, n>>) = 2 /\ 1 .. 2 = {1, 2}
    OBVIOUS
  <2>2. <<m, n>> \in Seq(Message) /\ Elems(<<m, n>>) = {m, n}
    BY <2>1 DEF Elems
  <2>3. QED
    BY <2>1, <2>2 DEF Row
<1>4. QED
  BY <1>1, <1>2, <1>3

\* A message is not apart from itself: the queue holds no message twice.
LEMMA NotTwice ==
    ASSUME NEW m \in Message, Shape(m)
    PROVE  ~Apart(m, m)
BY DEF Apart, Shape, Route, Token, Message

Rest == Elems(Tail(q))

\* Taking the head: the rest is everything else, behind it.
LEMMA Taken ==
    ASSUME Messages, q # <<>>
    PROVE  /\ Head(q) \in X /\ Head(q) \in Message /\ Shape(Head(q))
           /\ Rest = X \ {Head(q)} /\ Head(q) \notin Rest
           /\ \A t \in X : t \in Message /\ Shape(t)
           /\ \A t \in Rest : Rel(Head(q), t, Twice, Orphans)
<1>1. /\ Head(q) \in Message /\ Head(q) \in Elems(q)
      /\ Elems(q) = {Head(q)} \union Rest
      /\ \A t \in Rest : Rel(Head(q), t, Twice, Orphans)
  BY TailElems DEF Messages, Rest
<1>2. \A t \in Elems(q) : t \in Message
  BY DEF Elems, Messages
<1>3. Head(q) \notin Rest
  BY <1>1, NotTwice DEF Messages, X, Rel
<1>4. QED
  BY <1>1, <1>2, <1>3 DEF Messages, X

\* A turn that sends at most one message.
LEMMA Pushed ==
    ASSUME Messages, q # <<>>, NEW L, NEW O, Row(Tail(q), L, O)
    PROVE  /\ Push(<<>>) => q' \in Seq(Message) /\ X' = Rest /\ Row(q', L, O)
           /\ \A m \in Message :
                 Push(<<m>>) /\ (\A t \in Rest : Rel(t, m, L, O)) =>
                    /\ q' \in Seq(Message) /\ X' = Rest \union {m}
                    /\ Row(q', L, O)
<1>1. Tail(q) \in Seq(Message)
  BY TailElems DEF Messages
<1>2. ASSUME Push(<<>>)
      PROVE  q' \in Seq(Message) /\ X' = Rest /\ Row(q', L, O)
  <2>1. q' = Tail(q) \o <<>>
    BY <1>2 DEF Push
  <2>2. QED
    BY <1>1, <2>1, Turns, ConcatElems DEF X, Rest
<1>3. ASSUME NEW m \in Message, Push(<<m>>), \A t \in Rest : Rel(t, m, L, O)
      PROVE  /\ q' \in Seq(Message) /\ X' = Rest \union {m} /\ Row(q', L, O)
  <2>1. q' = Tail(q) \o <<m>>
    BY <1>3 DEF Push
  <2>2. /\ <<m>> \in Seq(Message) /\ Elems(<<m>>) = {m} /\ Row(<<m>>, L, O)
    BY Turns
  <2>3. \A t \in Elems(Tail(q)), n \in Elems(<<m>>) : Rel(t, n, L, O)
    BY <1>3, <2>2 DEF Rest
  <2>4. QED
    BY <1>1, <2>1, <2>2, <2>3, ConcatElems DEF X, Rest
<1>4. QED
  BY <1>2, <1>3
-----------------------------------------------------------------------------
(* What a turn leaves alone.                                                *)

\* A new message takes its place behind the rest when it is at most one wave
\* after the head.
LEMMA Behind ==
    ASSUME NEW h, NEW t, NEW m, NEW L, NEW O, Rel(h, t, L, O), Apart(t, m),
           Lo(m, L, O) <= Lo(h, L, O) + 1, Hi(m) > Hi(h) \/ Hi(m) = 9
    PROVE  Rel(t, m, L, O)
<1>1. /\ Lo(m, L, O) \in 0 .. 4 /\ Lo(h, L, O) \in 0 .. 4 /\ Lo(t, L, O) \in 0 .. 4
      /\ Hi(m) \in 0 .. 9 /\ Hi(h) \in 0 .. 9 /\ Hi(t) \in 0 .. 9
  BY DEF Lo, Hi, Lvl
<1>2. Lo(h, L, O) <= Hi(t) /\ Lo(t, L, O) <= Hi(h) + 1
  BY DEF Rel
<1>3. Lo(m, L, O) <= Hi(t) + 1 /\ Lo(t, L, O) <= Hi(m)
  BY <1>1, <1>2
<1>4. QED
  BY <1>3 DEF Rel

\* While a token of a connection is at the head no other is queued.
LEMMA TokenHead ==
    ASSUME Messages, q # <<>>, Token(Head(q))
    PROVE  /\ Head(q).kind # "accept"
           /\ \A t \in Rest : t.c = Head(q).c /\ t.kind # "accept" =>
                 /\ ~Token(t)
                 /\ t.kind = "construct" =>
                       t.to \in Below(Head(q).to) /\ Head(q).kind \in {"start", "read"}
                 /\ Head(q).kind = "done" /\ Head(q).to = "S" => t.to # "A"
<1>1. Head(q).kind # "accept"
  BY Taken DEF Shape, Route, Token, Message
<1>2. ASSUME NEW t \in Rest, t.c = Head(q).c, t.kind # "accept"
      PROVE  /\ ~Token(t)
             /\ t.kind = "construct" =>
                   t.to \in Below(Head(q).to) /\ Head(q).kind \in {"start", "read"}
             /\ Head(q).kind = "done" /\ Head(q).to = "S" => t.to # "A"
  <2>1. Apart(Head(q), t)
    BY Taken DEF Rel
  <2>2. QED
    BY <1>1, <1>2, <2>1 DEF Apart
<1>3. QED
  BY <1>1, <1>2

\* A turn that takes the head and sends nothing.
LEMMA Swallows ==
    ASSUME Messages, q # <<>>, Push(<<>>), UNCHANGED <<accepted, finished, slots, indices>>
    PROVE  Messages' /\ X' = Rest
<1>1. Twice' = Twice /\ Orphans' = Orphans
  BY DEF Twice, Orphans
<1>2. Row(Tail(q), Twice, Orphans)
  BY TailElems DEF Messages
<1>3. q' \in Seq(Message) /\ X' = Rest /\ Row(q', Twice, Orphans)
  BY <1>2, Pushed
<1>4. \A t \in X' : Shape(t)'
  BY <1>3, Taken DEF Shape
<1>5. QED
  BY <1>1, <1>3, <1>4 DEF Messages

\* A turn that takes a token and passes it on.
LEMMA PassesOn ==
    ASSUME Messages, q # <<>>, Token(Head(q)),
           NEW m \in Message, Shape(m), Token(m), m.c = Head(q).c, Push(<<m>>),
           Lo(m, Twice, Orphans) <= Lo(Head(q), Twice, Orphans) + 1,
           Hi(m) > Hi(Head(q)) \/ Hi(m) = 9,
           Head(q).kind \in {"start", "read"} =>
              m.kind = "read" /\ Below(Head(q).to) \subseteq {m.to},
           UNCHANGED <<accepted, finished, slots, indices>>
    PROVE  Messages' /\ X' = Rest \union {m}
<1>1. Twice' = Twice /\ Orphans' = Orphans
  BY DEF Twice, Orphans
<1>2. Row(Tail(q), Twice, Orphans)
  BY TailElems DEF Messages
<1>3. \A t \in Rest : Rel(t, m, Twice, Orphans)
  <2>1. SUFFICES ASSUME NEW t \in Rest PROVE Rel(t, m, Twice, Orphans)
    OBVIOUS
  <2>2. m.kind # "accept" /\ Head(q).kind # "accept" /\ t \in Message /\ Shape(t)
    BY Taken, TokenHead DEF Token, Shape, Route, Message
  <2>3. Apart(t, m)
    BY <2>2, TokenHead DEF Apart, Token
  <2>4. Rel(Head(q), t, Twice, Orphans)
    BY Taken
  <2>5. QED
    BY <2>3, <2>4, Behind
<1>4. q' \in Seq(Message) /\ X' = Rest \union {m} /\ Row(q', Twice, Orphans)
  BY <1>2, <1>3, Pushed
<1>5. \A t \in X' : Shape(t)'
  BY <1>4, Taken DEF Shape
<1>6. QED
  BY <1>1, <1>4, <1>5 DEF Messages

\* Parts of the invariant that a turn does not touch.
Lasting(m) == m.kind \in {"construct", "delete"} \/ (m.kind = "done" /\ m.to = "A")

\* No construction and no deletion is queued or taken.
LEMMA LifeKept ==
    ASSUME Life, \A m \in X \union X' :
                    m.kind \in {"construct", "delete"} => (m \in X <=> m \in X'),
           UNCHANGED <<objs, slots>>
    PROVE  Life'
<1>1. ASSUME NEW kind \in {"construct", "delete"}, NEW to, NEW c
      PROVE  Call(to, kind, c) \in X' <=> Call(to, kind, c) \in X
  <2>1. Call(to, kind, c).kind = kind
    BY DEF Call, Msg
  <2>2. QED
    BY <2>1
<1>2. \A to, c : (Con(to, c)' <=> Con(to, c)) /\ (Del(to, c)' <=> Del(to, c))
  BY <1>1 DEF Con, Del
<1>3. ASSUME NEW c, \A m \in X' : m.c = c => m.kind \notin {"construct", "delete"},
             NEW m \in X, m.c = c
      PROVE  m.kind \notin {"construct", "delete"}
  <2>1. CASE m.kind \in {"construct", "delete"}
    BY <1>3, <2>1
  <2>2. QED
    BY <2>1
<1>4. \A c : Held(c)' <=> Held(c)
  BY DEF Held
<1>5. QED
  BY <1>2, <1>3, <1>4 DEF Life, LifeOf

\* Nothing that Ends speaks of is queued or taken.
LEMMA EndsKept ==
    ASSUME Ends, \A m \in X \union X' : Lasting(m) => (m \in X <=> m \in X'),
           \A m \in X' : m.kind = "timeout" => m \in X,
           UNCHANGED <<objs, slots, indices, accepted, finished>>
    PROVE  Ends'
<1>1. \A c : Told(c)' <=> Told(c)
  BY DEF Told, Lasting
<1>2. \A to, c : (Con(to, c)' <=> Con(to, c)) /\ (Del(to, c)' <=> Del(to, c))
  <2>1. \A to, c : /\ Lasting(Call(to, "construct", c))
                   /\ Lasting(Call(to, "delete", c))
    BY DEF Call, Msg, Lasting
  <2>2. QED
    BY <2>1 DEF Con, Del
<1>3. \A c : TimedOut(c)' => TimedOut(c)
  BY DEF TimedOut
<1>4. Orphans' = Orphans
  BY DEF Orphans
<1>5. QED
  BY <1>1, <1>2, <1>3, <1>4 DEF Ends, EndsOf

\* No accept is queued, taken or armed.
LEMMA ArmedKept ==
    ASSUME Armed, \A m \in X \union X' : m.kind = "accept" => (m \in X <=> m \in X'),
           \A o \in ring \union ring' : o.op = "accept" => (o \in ring <=> o \in ring')
    PROVE  Armed'
BY DEF Armed, Op

\* The acceptor is not involved.
LEMMA TablesKept ==
    ASSUME Tables, UNCHANGED <<slots, indices, accepted>>
    PROVE  Tables'
BY DEF Tables
\* What is known when a message is taken from the queue.
LEMMA HeadFacts ==
    ASSUME IInv, NEW kind, NEW to, Handles(kind, to)
    PROVE  /\ q # <<>> /\ Head(q).kind = kind /\ Head(q).to = to /\ ~crashed
           /\ Head(q) \in X /\ Head(q) \in Message /\ Shape(Head(q))
           /\ Rest = X \ {Head(q)}
           /\ \A t \in X : t \in Message /\ Shape(t)
           /\ kind # "accept" => Head(q).c \in 1 .. accepted /\ Head(q).c \in Conns
           /\ Token(Head(q)) => \A t \in Rest :
                 t.c = Head(q).c /\ t.kind # "accept" => ~Token(t)
<1>1. /\ q # <<>> /\ Head(q).kind = kind /\ Head(q).to = to /\ ~crashed
  BY DEF Handles
<1>2. Messages
  BY DEF IInv
<1>3. /\ Head(q) \in X /\ Head(q) \in Message /\ Shape(Head(q))
      /\ Rest = X \ {Head(q)}
      /\ \A t \in X : t \in Message /\ Shape(t)
  BY <1>1, <1>2, Taken
<1>4. ASSUME kind # "accept"
      PROVE  Head(q).c \in 1 .. accepted /\ Head(q).c \in Conns
  <2>1. Head(q).c \in 1 .. accepted
    BY <1>1, <1>3, <1>4 DEF Shape
  <2>2. QED
    BY <2>1, LandingAssumption DEF IInv, Tables, Conns
<1>5. QED
  BY <1>1, <1>2, <1>3, <1>4, TokenHead
-----------------------------------------------------------------------------
(* The turns of the socket and of the HTTP object.                          *)

\* H hands a request to B.
LEMMA HttpCallKeeps ==
    ASSUME IInv, NEW fun \in {"read", "write"}, HttpCall(fun)
    PROVE  IInv'
<1> DEFINE h == Head(q)
           c == h.c
           m == Call("B", fun, c)
<1>1. /\ Handles(fun, "H") /\ Push(<<m>>)
      /\ http' = [http EXCEPT ![c] =
                     [reading |-> fun = "read",
                      parser |-> IF fun = "read" THEN TRUE ELSE @.parser]]
      /\ UNCHANGED <<ring, slots, indices, accepted, objs, srv, timers, finished,
                   hit, crashed>>
  BY DEF HttpCall
<1>2. /\ q # <<>> /\ h.kind = fun /\ h.to = "H" /\ Token(h)
      /\ h \in X /\ h \in Message /\ Shape(h) /\ Rest = X \ {h}
      /\ \A t \in X : t \in Message /\ Shape(t)
      /\ c \in 1 .. accepted /\ c \in Conns
      /\ \A t \in Rest : t.c = c /\ t.kind # "accept" => ~Token(t)
  BY <1>1, HeadFacts DEF Token
<1>3. m \in Message /\ Shape(m) /\ Token(m)
  BY <1>1, <1>2 DEF Message, Shape, Route, Call, Msg, Token
<1>4. Messages' /\ X' = Rest \union {m}
  <2>1. Lo(m, Twice, Orphans) = 0 /\ Hi(m) = 9 /\ Lo(h, Twice, Orphans) = 0
    BY <1>2 DEF Lo, Hi, Call, Msg
  <2>2. Below(h.to) = {"B"} /\ m.to = "B" /\ m.c = c /\ m.kind = fun
    BY <1>2 DEF Below, Call, Msg
  <2> HIDE DEF m
  <2>3. QED
    BY <1>1, <1>2, <1>3, <2>1, <2>2, PassesOn DEF IInv
<1> HIDE DEF m
<1>5. /\ \A n \in X \union X' : Lasting(n) => (n \in X <=> n \in X')
      /\ \A n \in X \union X' : n.kind \in {"accept", "timeout"} => (n \in X <=> n \in X')
  BY <1>1, <1>2, <1>4 DEF Lasting, m, Call, Msg
<1>6. Ring' /\ Tables' /\ New'
  BY <1>1, TablesKept DEF IInv, Ring, New
<1>7. Armed' /\ Life' /\ Ends'
  BY <1>1, <1>5, ArmedKept, LifeKept, EndsKept DEF IInv, Lasting
<1>8. Alone'
  BY <1>1, <1>2, <1>4 DEF IInv, Alone, m, Call, Msg
<1>9. Records'
  BY <1>1, <1>2 DEF IInv, Records
<1>10. Flags'
  BY <1>1, <1>2, <1>4
     DEF IInv, Flags, m, Call, Msg, Records, Token, Alone, Conns, Shape, Route, Ring
<1>11. Timers'
  BY <1>1, <1>2, <1>4 DEF IInv, Timers, m, Call, Msg
<1>12. Coverage'
  BY <1>1, <1>5 DEF IInv, Coverage, Covered, TimedOut
<1>13. NoTimeouts'
  BY <1>1, <1>2, <1>4 DEF IInv, NoTimeouts, m, Call, Msg, InFlight, Orphans
<1>14. QED
  BY <1>4, <1>6, <1>7, <1>8, <1>9, <1>10, <1>11, <1>12, <1>13 DEF IInv

\* B arms an operation.
LEMMA SocketArms ==
    ASSUME IInv, NEW fun \in {"read", "write", "recv", "send"},
           NEW op \in {"recv", "send"},
           Handles(fun, "B"), Push(<<>>), ring' = ring \union {Op(op, Head(q).c, 0)},
           UNCHANGED <<slots, indices, accepted, objs, srv, http, timers, finished,
                       hit, crashed>>
    PROVE  IInv'
<1> DEFINE h == Head(q)
           c == h.c
           o == Op(op, c, 0)
<1>2. /\ q # <<>> /\ h.kind = fun /\ h.to = "B" /\ Token(h)
      /\ h \in X /\ h \in Message /\ Shape(h) /\ Rest = X \ {h}
      /\ \A t \in X : t \in Message /\ Shape(t)
      /\ c \in 1 .. accepted /\ c \in Conns
      /\ \A t \in Rest : t.c = c /\ t.kind # "accept" => ~Token(t)
  BY HeadFacts DEF Token
<1>3. Messages' /\ X' = Rest
  BY <1>2, Swallows DEF IInv
<1>4. \A t \in Rest : t.c = c /\ t.kind # "accept" => t.kind # "construct"
  BY <1>2, TokenHead DEF IInv, Below
<1>5. /\ \A n \in X \union X' : Lasting(n) => (n \in X <=> n \in X')
      /\ \A n \in X \union X' : n.kind \in {"accept", "timeout"} => (n \in X <=> n \in X')
  BY <1>2, <1>3 DEF Lasting
<1>6. Ring' /\ Tables' /\ New'
  <2>1. IsFiniteSet(ring')
    BY FS_AddElement DEF IInv, Ring
  <2>2. QED
    BY <1>2, <2>1, TablesKept DEF IInv, Ring, New, Op, Records
<1>7. Armed' /\ Life' /\ Ends'
  BY <1>5, ArmedKept, LifeKept, EndsKept DEF IInv, Lasting, Op
<1>8. Alone'
  BY <1>2, <1>3, <1>4 DEF IInv, Alone, Op, Shape, Route, Token
<1>9. Records'
  BY DEF IInv, Records
<1>10. Flags'
  BY <1>2, <1>3 DEF IInv, Flags, Op
<1>11. Timers'
  BY <1>2, <1>3 DEF IInv, Timers, Op
<1>12. Coverage'
  BY <1>5 DEF IInv, Coverage, Covered, TimedOut
<1>13. NoTimeouts'
  BY <1>2, <1>3 DEF IInv, NoTimeouts, Op, InFlight, Orphans
<1>14. QED
  BY <1>3, <1>6, <1>7, <1>8, <1>9, <1>10, <1>11, <1>12, <1>13 DEF IInv

\* B has heard of its operation.
LEMMA SocketDataKeeps ==
    ASSUME IInv, NEW op \in {"recv", "send"}, SocketData(op)
    PROVE  IInv'
<1> DEFINE h == Head(q)
           c == h.c
           m == Done("H", c, h.ok)
<1>1. /\ Handles(op, "B")
      /\ UNCHANGED <<slots, indices, accepted, objs, srv, http, timers, finished,
                     hit, crashed>>
      /\ \/ Push(<<m>>) /\ UNCHANGED ring
         \/ op = "send" /\ Push(<<>>) /\ ring' = ring \union {Op("send", c, 0)}
  BY DEF SocketData
<1>2. /\ q # <<>> /\ h.kind = op /\ h.to = "B" /\ Token(h)
      /\ h \in X /\ h \in Message /\ Shape(h) /\ Rest = X \ {h}
      /\ \A t \in X : t \in Message /\ Shape(t)
      /\ c \in 1 .. accepted /\ c \in Conns
      /\ \A t \in Rest : t.c = c /\ t.kind # "accept" => ~Token(t)
  BY <1>1, HeadFacts DEF Token
<1>3. CASE op = "send" /\ Push(<<>>) /\ ring' = ring \union {Op("send", c, 0)}
  BY <1>1, <1>3, SocketArms
<1>4. CASE Push(<<m>>) /\ UNCHANGED ring
  <2>1. m \in Message /\ Shape(m) /\ Token(m)
    BY <1>2 DEF Message, Shape, Route, Done, Msg, Token
  <2>2. Messages' /\ X' = Rest \union {m}
    <3>1. /\ Lo(m, Twice, Orphans) = 1 /\ Lo(h, Twice, Orphans) = 0
          /\ Hi(m) = 1 /\ Hi(h) = 0
      BY <1>2 DEF Lo, Hi, Done, Msg
    <3>2. m.c = c
      BY DEF Done, Msg
    <3> HIDE DEF m
    <3>3. QED
      BY <1>1, <1>2, <1>4, <2>1, <3>1, <3>2, PassesOn DEF IInv
  <2> HIDE DEF m
  <2>3. /\ \A n \in X \union X' : Lasting(n) => (n \in X <=> n \in X')
        /\ \A n \in X \union X' : n.kind \in {"accept", "timeout"} => (n \in X <=> n \in X')
    BY <1>2, <2>2 DEF Lasting, m, Done, Msg
  <2>4. Ring' /\ Tables' /\ New' /\ Records'
    BY <1>1, <1>4, TablesKept DEF IInv, Ring, New, Records
  <2>5. Armed' /\ Life' /\ Ends'
    BY <1>1, <1>4, <2>3, ArmedKept, LifeKept, EndsKept DEF IInv, Lasting
  <2>6. Alone'
    BY <1>1, <1>2, <1>4, <2>2 DEF IInv, Alone, m, Done, Msg
  <2>7. Flags'
    BY <1>1, <1>2, <1>4, <2>2 DEF IInv, Flags, m, Done, Msg, Token
  <2>8. Timers'
    BY <1>1, <1>2, <1>4, <2>2 DEF IInv, Timers, m, Done, Msg
  <2>9. Coverage'
    BY <1>1, <1>4, <2>3 DEF IInv, Coverage, Covered, TimedOut
  <2>10. NoTimeouts'
    BY <1>1, <1>2, <1>4, <2>2 DEF IInv, NoTimeouts, m, Done, Msg, InFlight, Orphans
  <2>11. QED
    BY <2>2, <2>4, <2>5, <2>6, <2>7, <2>8, <2>9, <2>10 DEF IInv
<1>5. QED
  BY <1>1, <1>3, <1>4

\* H has heard of its call.
LEMMA HttpDataKeeps ==
    ASSUME IInv, HttpData
    PROVE  IInv'
<1> DEFINE h == Head(q)
           c == h.c
<1>1. PICK m : /\ \/ /\ h.ok /\ http[c].reading => srv[c].served < MaxReq
                     /\ m = Done("S", c, h.ok)
                  \/ /\ h.ok /\ http[c].reading
                     /\ m = Call("B", "read", c)
               /\ Push(<<m>>)
  BY DEF HttpData
<1>2. /\ Handles("done", "H")
      /\ UNCHANGED <<ring, slots, indices, accepted, objs, srv, http, timers,
                     finished, hit, crashed>>
  BY DEF HttpData
<1>3. /\ q # <<>> /\ h.kind = "done" /\ h.to = "H" /\ Token(h)
      /\ h \in X /\ h \in Message /\ Shape(h) /\ Rest = X \ {h}
      /\ \A t \in X : t \in Message /\ Shape(t)
      /\ c \in 1 .. accepted /\ c \in Conns
      /\ \A t \in Rest : t.c = c /\ t.kind # "accept" => ~Token(t)
  BY <1>2, HeadFacts DEF Token
<1>4. m \in Message /\ Shape(m) /\ Token(m)
  <2>1. CASE m = Done("S", c, h.ok)
    BY <1>3, <2>1 DEF Message, Shape, Route, Done, Msg, Token
  <2>2. CASE m = Call("B", "read", c)
    BY <1>3, <2>2 DEF Message, Shape, Route, Call, Msg, Token
  <2>3. QED
    BY <1>1, <2>1, <2>2
<1>5. Messages' /\ X' = Rest \union {m}
  <2>1. /\ Lo(m, Twice, Orphans) <= Lo(h, Twice, Orphans) + 1
        /\ Hi(m) > Hi(h) \/ Hi(m) = 9
    BY <1>1, <1>3 DEF Lo, Hi, Call, Done, Msg
  <2>2. m.c = c
    BY <1>1 DEF Call, Done, Msg
  <2>3. QED
    BY <1>1, <1>2, <1>3, <1>4, <2>1, <2>2, PassesOn DEF IInv
<1>6. /\ \A n \in X \union X' : Lasting(n) => (n \in X <=> n \in X')
      /\ \A n \in X \union X' : n.kind \in {"accept", "timeout"} => (n \in X <=> n \in X')
  BY <1>1, <1>3, <1>5 DEF Lasting, Call, Done, Msg
<1>7. Ring' /\ Tables' /\ New' /\ Records'
  BY <1>2, TablesKept DEF IInv, Ring, New, Records
<1>8. Armed' /\ Life' /\ Ends'
  BY <1>2, <1>6, ArmedKept, LifeKept, EndsKept DEF IInv, Lasting
<1>9. Alone'
  BY <1>1, <1>2, <1>3, <1>5 DEF IInv, Alone, Call, Done, Msg
<1>10. Flags'
  BY <1>1, <1>2, <1>3, <1>5 DEF IInv, Flags, Call, Done, Msg, Token
<1>11. Timers'
  BY <1>1, <1>2, <1>3, <1>5 DEF IInv, Timers, Call, Done, Msg
<1>12. Coverage'
  BY <1>2, <1>6 DEF IInv, Coverage, Covered, TimedOut
<1>13. NoTimeouts'
  BY <1>1, <1>2, <1>3, <1>5 DEF IInv, NoTimeouts, Call, Done, Msg, InFlight, Orphans
<1>14. QED
  BY <1>5, <1>7, <1>8, <1>9, <1>10, <1>11, <1>12, <1>13 DEF IInv

\* Data for an object that has gone.
LEMMA DroppedKeeps ==
    ASSUME IInv, NEW kind \in {"recv", "send", "done", "timeout"},
           NEW to \in {"B", "H", "S"}, Dropped(kind, to), kind = "timeout" => to = "S"
    PROVE  IInv'
<1> DEFINE h == Head(q)
           c == h.c
<1>1. /\ Handles(kind, to) /\ Push(<<>>) /\ to \notin objs[c]
      /\ UNCHANGED <<ring, slots, indices, accepted, objs, srv, http, timers,
                     finished, hit, crashed>>
  BY DEF Dropped
<1>2. /\ q # <<>> /\ h.kind = kind /\ h.to = to
      /\ h \in X /\ h \in Message /\ Shape(h) /\ Rest = X \ {h}
      /\ \A t \in X : t \in Message /\ Shape(t)
  BY <1>1, HeadFacts
<1>3. Messages' /\ X' = Rest
  BY <1>1, <1>2, Swallows DEF IInv
<1>4. /\ \A n \in X \union X' : Lasting(n) => (n \in X <=> n \in X')
      /\ \A n \in X \union X' : n.kind = "accept" => (n \in X <=> n \in X')
  BY <1>2, <1>3 DEF Lasting
<1>5. Ring' /\ Tables' /\ New' /\ Records'
  BY <1>1, TablesKept DEF IInv, Ring, New, Records
<1>6. Armed' /\ Life' /\ Ends'
  BY <1>1, <1>2, <1>3, <1>4, ArmedKept, LifeKept, EndsKept DEF IInv, Lasting
<1>7. Alone' /\ Flags' /\ Timers'
  BY <1>1, <1>2, <1>3 DEF IInv, Alone, Flags, Timers
<1>8. Coverage'
  BY <1>1, <1>2, <1>3 DEF IInv, Coverage, Covered, TimedOut
<1>9. NoTimeouts'
  BY <1>1, <1>2, <1>3 DEF IInv, NoTimeouts, InFlight, Orphans
<1>10. QED
  BY <1>3, <1>5, <1>6, <1>7, <1>8, <1>9 DEF IInv
-----------------------------------------------------------------------------
(* The turns of the server.                                                 *)

\* A timer is armed and a request is read: the first turn of S, and the turn
\* after a response.
LEMMA Arms ==
    ASSUME IInv, NEW kind \in {"start", "done"}, Handles(kind, "S"),
           NEW n \in 0 .. MaxReq,
           kind = "done" => ~srv[Head(q).c].reading,
           Push(<<Call("H", "read", Head(q).c)>>),
           srv' = [srv EXCEPT ![Head(q).c] =
                      [reading |-> TRUE, timer |-> Len(timers) + 1, served |-> n]],
           ring' = Arm(Head(q).c, ring),
           timers' = Append(timers, None),
           UNCHANGED <<slots, indices, accepted, objs, http, finished, hit, crashed>>
    PROVE  IInv'
<1> DEFINE h == Head(q)
           c == h.c
           m == Call("H", "read", c)
           k == Len(timers) + 1
           o == Op("timer", c, k)
<1>1. /\ q # <<>> /\ h.kind = kind /\ h.to = "S" /\ Token(h)
      /\ h \in X /\ h \in Message /\ Shape(h) /\ Rest = X \ {h}
      /\ \A t \in X : t \in Message /\ Shape(t)
      /\ c \in 1 .. accepted /\ c \in Conns
      /\ \A t \in Rest : t.c = c /\ t.kind # "accept" => ~Token(t)
  BY HeadFacts DEF Token
<1>2. m \in Message /\ Shape(m) /\ Token(m)
  BY <1>1 DEF Message, Shape, Route, Call, Msg, Token
<1>3. Messages' /\ X' = Rest \union {m}
  <2>1. Lo(m, Twice, Orphans) = 0 /\ Hi(m) = 9 /\ Lo(h, Twice, Orphans) \in 0 .. 4
    BY <1>1 DEF Lo, Hi, Call, Msg
  <2>2. Below(h.to) = {"H"} /\ m.to = "H" /\ m.c = c /\ m.kind = "read"
    BY <1>1 DEF Below, Call, Msg
  <2>3. Lo(m, Twice, Orphans) <= Lo(h, Twice, Orphans) + 1
    BY <2>1
  <2>4. UNCHANGED <<accepted, finished, slots, indices>> /\ Push(<<m>>)
    OBVIOUS
  <2> HIDE DEF m
  <2>5. QED
    BY <1>1, <1>2, <2>1, <2>2, <2>3, <2>4, PassesOn DEF IInv
<1>4. \A t \in Rest : t.c = c => t.kind # "timeout" /\ ~(t.kind = "construct" /\ t.to = "S")
  <2>1. ASSUME NEW t \in Rest, t.kind = "timeout"
        PROVE  FALSE
    <3>1. Rel(h, t, Twice, Orphans)
      BY <1>1, Taken DEF IInv
    <3>2. Lo(h, Twice, Orphans) > 0 /\ Hi(t) = 0
      BY <1>1, <2>1 DEF Lo, Hi
    <3>3. Lo(h, Twice, Orphans) \in 0 .. 4
      BY <1>1 DEF Lo
    <3>4. QED
      BY <3>1, <3>2, <3>3 DEF Rel
  <2>2. \A t \in Rest : t.c = c /\ t.kind = "construct" => t.to # "S"
    BY <1>1, TokenHead DEF IInv, Below
  <2>3. QED
    BY <2>1, <2>2
<1> HIDE DEF m
<1>5. /\ k \in Nat /\ k > 0 /\ Len(timers') = k /\ timers' \in Seq(0 .. k)
      /\ Len(timers) \in Nat /\ Len(timers) < k
      /\ 0 .. Len(timers) \subseteq 0 .. k /\ k \in 0 .. k
  <2>1. timers \in Seq(0 .. Len(timers)) /\ Len(timers) \in Nat
    BY DEF IInv, Records
  <2>2. 0 .. Len(timers) \subseteq 0 .. k
    BY <2>1
  <2>3. timers \in Seq(0 .. k)
    BY <2>1, <2>2
  <2>4. None \in 0 .. k
    BY <2>1 DEF None
  <2>5. QED
    BY <2>1, <2>2, <2>3, <2>4
<1>6. /\ ring' = ring \union {o}
      /\ srv' = [srv EXCEPT ![c] = [reading |-> TRUE, timer |-> k, served |-> n]]
      /\ srv \in [Conns -> [reading : BOOLEAN, timer : 0 .. Len(timers),
                            served : 0 .. MaxReq]]
      /\ srv'[c] = [reading |-> TRUE, timer |-> k, served |-> n]
      /\ \A d \in Conns : d # c => srv'[d] = srv[d]
  BY <1>1 DEF Arm, IInv, Records
<1> HIDE DEF k
<1>7. /\ \A p \in X \union X' : Lasting(p) => (p \in X <=> p \in X')
      /\ \A p \in X \union X' : p.kind \in {"accept", "timeout"} => (p \in X <=> p \in X')
  BY <1>1, <1>3 DEF Lasting, m, Call, Msg
<1>8. Ring' /\ Tables' /\ New'
  <2>1. IsFiniteSet(ring')
    <3>1. IsFiniteSet(ring)
      BY DEF IInv, Ring
    <3> HIDE DEF o
    <3>2. IsFiniteSet(ring \union {o})
      BY <3>1, FS_AddElement
    <3>3. QED
      BY <1>6, <3>2
  <2>2. \A p \in ring :
          /\ p.n \in 0 .. k
          /\ p = Op(p.op, p.c, p.n)
          /\ p.op \in {"accept", "recv", "send", "timer", "expired"}
          /\ p.n = 0 <=> p.op \in {"accept", "recv", "send"}
          /\ p.op = "accept" => p.c \in Families
          /\ p.op # "accept" => p.c \in 1 .. accepted
    BY <1>5 DEF IInv, Ring
  <2>3. Ring'
    BY <1>1, <1>5, <1>6, <2>1, <2>2 DEF Ring, Op
  <2>4. New'
    <3>1. \A d \in Conns : d > accepted => d # c
      BY <1>1 DEF IInv, Tables, Conns
    <3>2. QED
      BY <1>6, <3>1 DEF IInv, New
  <2>5. QED
    BY <2>3, <2>4, TablesKept DEF IInv
<1>9. Armed' /\ Life' /\ Ends'
  BY <1>6, <1>7, ArmedKept, LifeKept, EndsKept DEF IInv, Lasting, Op
<1>10. Alone'
  BY <1>1, <1>3, <1>6 DEF IInv, Alone, Op, m, Call, Msg
<1>11. Records'
  <2>1. srv' \in [Conns -> [reading : BOOLEAN, timer : 0 .. k, served : 0 .. MaxReq]]
    BY <1>1, <1>5, <1>6
  <2>2. \A d \in Conns : srv'[d].reading => srv'[d].timer > 0
    BY <1>5, <1>6 DEF IInv, Records
  <2>3. QED
    BY <1>5, <2>1, <2>2 DEF IInv, Records
<1>12. Flags'
  <2>1. \A p \in X' : p.c = c /\ p.kind # "accept" => p = m \/ (p \in Rest /\ ~Token(p))
    BY <1>1, <1>3
  <2>2. \A p \in ring' : p.op \in {"recv", "send"} => p \in ring /\ p.c # c
    BY <1>1, <1>6 DEF IInv, Alone, Op
  <2>3. \A p \in X' : p.kind # "accept" => p.c \in Conns
    BY <1>1, <1>3, LandingAssumption DEF IInv, Tables, Shape, Conns, m, Call, Msg
  <2>4. ASSUME NEW p \in X', p.kind # "accept", p.c # c
        PROVE  p \in X /\ srv'[p.c] = srv[p.c]
    BY <1>1, <1>3, <1>6, <2>3, <2>4 DEF m, Call, Msg
  <2>5. ASSUME NEW p \in X', p.kind # "accept", p.c = c, p # m
        PROVE  /\ p.kind \in {"construct", "delete", "timeout"} \/ p.to = "A"
               /\ p.kind = "construct" => p.to # "S"
    BY <1>3, <1>4, <2>1, <2>5 DEF Token
  <2>6. \A p \in X' : p.kind = "accept" => p.to = "A"
    BY <1>1, <1>3 DEF Shape, Route, m, Call, Msg
  <2>7. \A p \in ring' : p.op \in {"recv", "send"} => srv'[p.c] = srv[p.c]
    BY <1>1, <1>6, <2>2, LandingAssumption DEF IInv, Ring, Tables, Conns
  <2>8. \A p \in X' :
          /\ p.kind \in {"start", "construct"} /\ p.to = "S" =>
                ~srv'[p.c].reading /\ srv'[p.c].timer = 0
          /\ p.kind \in {"read", "write"} /\ p.to = "H" =>
                srv'[p.c].reading = (p.kind = "read")
          /\ Token(p) /\ (p.to = "B" \/ p.kind = "done") =>
                /\ http[p.c].reading = srv'[p.c].reading
                /\ http[p.c].reading => http[p.c].parser
          /\ p.kind = "done" /\ p.to = "S" /\ p.ok /\ srv'[p.c].reading =>
                srv'[p.c].served < MaxReq
    <3>1. TAKE p \in X'
    <3>2. CASE p = m
      <4>1. p.kind = "read" /\ p.to = "H" /\ p.c = c
        BY <3>2 DEF m, Call, Msg
      <4>2. srv'[p.c].reading = TRUE
        BY <1>6, <4>1
      <4>3. QED
        BY <4>1, <4>2
    <3>3. CASE p.kind = "accept"
      BY <2>6, <3>3 DEF Token
    <3>4. CASE p # m /\ p.kind # "accept" /\ p.c = c
      BY <2>5, <3>4 DEF Token
    <3>5. CASE p.kind # "accept" /\ p.c # c
      BY <2>4, <3>5 DEF IInv, Flags
    <3>6. QED
      BY <3>2, <3>3, <3>4, <3>5
  <2>9. \A p \in ring' : p.op \in {"recv", "send"} =>
           /\ http[p.c].reading = srv'[p.c].reading
           /\ http[p.c].reading => http[p.c].parser
    <3>1. TAKE p \in ring'
    <3>2. SUFFICES ASSUME p.op \in {"recv", "send"}
                   PROVE  /\ http[p.c].reading = srv'[p.c].reading
                          /\ http[p.c].reading => http[p.c].parser
      OBVIOUS
    <3>3. p \in ring /\ srv'[p.c] = srv[p.c]
      BY <2>2, <2>7, <3>2
    <3>4. QED
      BY <3>2, <3>3 DEF IInv, Flags
  <2>10. QED
    BY <2>8, <2>9 DEF Flags
<1>13. Timers'
  <2>1. \A p \in ring : p.n \in 0 .. Len(timers) /\ (p.n # 0 => p.c \in Conns)
    BY LandingAssumption DEF IInv, Ring, Tables, Conns
  <2>2. \A p \in ring : p.n # 0 => p.c # c
    <3>1. CASE kind = "start"
      BY <1>1, <3>1 DEF IInv, Timers, Flags
    <3>2. CASE kind = "done"
      BY <1>1, <3>2 DEF IInv, Timers, Ring
    <3>3. QED
      BY <3>1, <3>2
  <2>3. \A d \in Conns : srv[d].timer # k
    BY <1>5, <1>6
  <2>4. \A d, e \in Conns : srv'[d].timer = srv'[e].timer /\ d # e => srv'[d].timer = 0
    BY <1>6, <2>3 DEF IInv, Timers
  <2>5. \A p \in ring' : p.n # 0 =>
            /\ srv'[p.c].timer = p.n
            /\ \A r \in ring' : r.n = p.n => r = p
    BY <1>5, <1>6, <2>1, <2>2, <2>3 DEF IInv, Timers, Op
  <2>6. \A p \in ring' : p.n # 0 =>
            /\ p.op = "timer" => srv'[p.c].reading
            /\ \A t \in X' : t.c = p.c => t.kind # "timeout"
    BY <1>1, <1>3, <1>4, <1>6, <2>1, <2>2 DEF IInv, Timers, Op, m, Call, Msg
  <2>7. \A p \in ring' : p.n # 0 /\ p.op = "expired" =>
            /\ ~srv'[p.c].reading
            /\ \A t \in X' : t.c = p.c => /\ t.kind \notin {"recv", "send"}
                                          /\ ~(t.kind = "done" /\ t.to \in {"H", "S"})
    BY <1>1, <1>3, <1>6, <2>1, <2>2 DEF IInv, Timers, Op, m, Call, Msg
  <2>8. QED
    BY <2>4, <2>5, <2>6, <2>7 DEF Timers
<1>14. Coverage'
  <2>1. o \in ring' /\ o.n = srv'[c].timer
    BY <1>6 DEF Op
  <2>2. ASSUME NEW d \in Conns, d # c
        PROVE  Covered(d)'
    BY <1>6, <1>7, <2>2 DEF IInv, Coverage, Covered, TimedOut
  <2>3. ASSUME NEW d \in Conns, d = c
        PROVE  Covered(d)'
    BY <2>1, <2>3 DEF Covered
  <2>4. QED
    BY <2>2, <2>3 DEF Coverage
<1>15. NoTimeouts'
  BY <1>1, <1>3, <1>6 DEF IInv, NoTimeouts, m, Call, Msg, InFlight, Orphans, Op
<1>16. QED
  BY <1>3, <1>8, <1>9, <1>10, <1>11, <1>12, <1>13, <1>14, <1>15 DEF IInv

\* on_start of S: the first timer.
LEMMA StartKeeps ==
    ASSUME IInv, Start
    PROVE  IInv'
<1>1. 0 \in 0 .. MaxReq
  BY LandingAssumption
<1>2. QED
  BY <1>1, Arms DEF Start

\* on_yield of S after a response: a new timer.
LEMMA ResponseSentKeeps ==
    ASSUME IInv, ResponseSent
    PROVE  IInv'
<1> DEFINE c == Head(q).c
<1>1. c \in Conns /\ Handles("done", "S")
  BY HeadFacts DEF ResponseSent
<1>2. /\ srv[c].served \in 0 .. MaxReq
      /\ [srv EXCEPT ![c].reading = TRUE, ![c].timer = Len(timers) + 1] =
           [srv EXCEPT ![c] = [reading |-> TRUE, timer |-> Len(timers) + 1,
                               served |-> srv[c].served]]
  BY <1>1 DEF IInv, Records
<1>3. QED
  BY <1>1, <1>2, Arms DEF ResponseSent
-----------------------------------------------------------------------------
(* A request has been read: the timer is cancelled.                         *)

\* process_uring's bookkeeping changes addresses, never how many there are.
LEMMA FreedIs ==
    ASSUME timers \in Seq(0 .. Len(timers)), NEW ended
    PROVE  Freed(ended) \in Seq(0 .. Len(timers)) /\ Len(Freed(ended)) = Len(timers)
<1> DEFINE k == Len(timers)
<1>1. k \in Nat /\ DOMAIN timers = 1 .. k /\ \A n \in 1 .. k : timers[n] \in 0 .. k
  OBVIOUS
<1>2. k \in 0 .. k
  BY <1>1
<1>3. Freed(ended) = [n \in 1 .. k |->
          IF n \in {o.n : o \in ended} THEN k ELSE timers[n]]
  BY <1>1 DEF Freed
<1> HIDE DEF k
<1>4. Freed(ended) \in [1 .. k -> 0 .. k]
  BY <1>1, <1>2, <1>3
<1>5. Freed(ended) \in Seq(0 .. k) /\ Len(Freed(ended)) = k
  BY <1>1, <1>4
<1>6. QED
  BY <1>5 DEF k

\* What a cancellation leaves in the ring.
LEMMA CancelledIs ==
    ASSUME Ring, Timers, NEW n, n # 0, NEW R \in Cancelled(n)
    PROVE  /\ IsFiniteSet(R)
           /\ \A o \in R : \/ o \in ring /\ o.n # n
                           \/ /\ Timeouts
                              /\ \E p \in ring : p.n = n /\ o = Op("expired", p.c, n)
           /\ \A o \in ring : o.n = 0 => o \in R
<1> DEFINE own == {o \in ring : o.n = n}
<1>1. CASE own = {}
  <2>1. R = ring \/ \E o \in ring : o.op = "timer" /\ R = ring \ {o}
    BY <1>1 DEF Cancelled
  <2>2. IsFiniteSet(R)
    BY <2>1, FS_RemoveElement DEF Ring
  <2>3. \A o \in R : o \in ring /\ o.n # n
    BY <1>1, <2>1
  <2>4. \A o \in ring : o.n = 0 => o \in R
    BY <2>1 DEF Ring
  <2>5. QED
    BY <2>2, <2>3, <2>4
<1>2. CASE own # {}
  <2>1. PICK p \in ring : p.n = n
    BY <1>2
  <2>2. own = {p} /\ p = Op(p.op, p.c, n)
    BY <2>1 DEF Timers, Ring
  <2>3. [p EXCEPT !.op = "expired"] = Op("expired", p.c, n)
    BY <2>2 DEF Op
  <2>4. \/ R = ring \ {p}
        \/ Timeouts /\ R = (ring \ {p}) \union {Op("expired", p.c, n)}
    <3>1. {[o EXCEPT !.op = "expired"] : o \in own} = {Op("expired", p.c, n)}
      BY <2>2, <2>3
    <3>2. R \in {ring \ own} \union
                  IF Timeouts
                  THEN {(ring \ own) \union {[o EXCEPT !.op = "expired"] : o \in own}}
                  ELSE {}
      BY <1>2 DEF Cancelled
    <3> HIDE DEF own
    <3>3. QED
      BY <2>2, <3>1, <3>2
  <2>5. IsFiniteSet(R)
    <3>1. IsFiniteSet(ring \ {p})
      BY FS_RemoveElement DEF Ring
    <3>2. QED
      BY <2>4, <3>1, FS_AddElement
  <2>6. \A o \in ring : o.n = n => o = p
    BY <2>2
  <2>7. QED
    BY <2>1, <2>4, <2>5, <2>6 DEF Op
<1>3. QED
  BY <1>1, <1>2

\* What RequestRead does to the record of its connection.
LEMMA RequestCounted ==
    ASSUME NEW T, NEW M, NEW table \in [Conns -> [reading : BOOLEAN, timer : T, served : M]],
           NEW c \in Conns
    PROVE  [table EXCEPT ![c].reading = FALSE, ![c].served = @ + 1][c]
              = [reading |-> FALSE, timer |-> table[c].timer, served |-> table[c].served + 1]
OBVIOUS

\* on_yield of S after a request: its timer, or another's, is cancelled.
LEMMA RequestReadKeeps ==
    ASSUME IInv, RequestRead
    PROVE  IInv'
<1> DEFINE h == Head(q)
           c == h.c
           n == srv[c].timer
           m == Call("H", "write", c)
<1>1. /\ Handles("done", "S") /\ h.ok /\ "S" \in objs[c] /\ srv[c].reading
      /\ ring' \in Cancelled(n)
      /\ timers' = Freed({o \in ring : o.n # n /\ \A p \in ring' : p.n # o.n})
      /\ hit' = hit \union {o.c : o \in {p \in ring \ ring' : p.n # n /\ p.op = "timer"}}
      /\ srv' = [srv EXCEPT ![c].reading = FALSE, ![c].served = @ + 1]
      /\ http' = [http EXCEPT ![c].parser = FALSE]
      /\ Push(<<m>>)
      /\ UNCHANGED <<slots, indices, accepted, objs, finished, crashed>>
  BY DEF RequestRead
<1>2. /\ q # <<>> /\ h.kind = "done" /\ h.to = "S" /\ Token(h)
      /\ h \in X /\ h \in Message /\ Shape(h) /\ Rest = X \ {h}
      /\ \A t \in X : t \in Message /\ Shape(t)
      /\ c \in 1 .. accepted /\ c \in Conns
      /\ \A t \in Rest : t.c = c /\ t.kind # "accept" => ~Token(t)
  BY <1>1, HeadFacts DEF Token
<1>3. m \in Message /\ Shape(m) /\ Token(m)
  BY <1>2 DEF Message, Shape, Route, Call, Msg, Token
<1>4. Messages' /\ X' = Rest \union {m}
  <2>1. Lo(m, Twice, Orphans) <= Lo(h, Twice, Orphans) + 1 /\ Hi(m) = 9
    BY <1>2 DEF Lo, Hi, Call, Msg
  <2>2. m.c = c
    BY DEF Call, Msg
  <2> HIDE DEF m
  <2>3. QED
    BY <1>1, <1>2, <1>3, <2>1, <2>2, PassesOn DEF IInv
<1> HIDE DEF m
<1>5. /\ \A p \in X \union X' : Lasting(p) => (p \in X <=> p \in X')
      /\ \A p \in X \union X' : p.kind \in {"accept", "timeout"} => (p \in X <=> p \in X')
  BY <1>2, <1>4 DEF Lasting, m, Call, Msg
<1>6. /\ timers' \in Seq(0 .. Len(timers)) /\ Len(timers') = Len(timers)
      /\ Len(timers) \in Nat
  BY <1>1, FreedIs DEF IInv, Records
<1>7. /\ srv \in [Conns -> [reading : BOOLEAN, timer : 0 .. Len(timers),
                            served : 0 .. MaxReq]]
      /\ http \in [Conns -> [reading : BOOLEAN, parser : BOOLEAN]]
      /\ n \in 0 .. Len(timers) /\ n > 0 /\ n # 0
      /\ srv[c].served \in 0 .. MaxReq /\ srv[c].served < MaxReq
      /\ http[c].reading \in BOOLEAN
  <2>1. srv[c].served < MaxReq
    BY <1>1, <1>2 DEF IInv, Flags
  <2>2. /\ srv \in [Conns -> [reading : BOOLEAN, timer : 0 .. Len(timers),
                               served : 0 .. MaxReq]]
        /\ http \in [Conns -> [reading : BOOLEAN, parser : BOOLEAN]] /\ n > 0
    BY <1>1, <1>2 DEF IInv, Records
  <2> HIDE DEF n
  <2>3. http[c].reading \in BOOLEAN /\ srv[c].served \in 0 .. MaxReq
    BY <1>2, <2>2
  <2>4. n \in 0 .. Len(timers) /\ n # 0
    BY <1>2, <2>2 DEF n
  <2>5. QED
    BY <2>1, <2>2, <2>3, <2>4
<1>8. /\ srv'[c] = [reading |-> FALSE, timer |-> n, served |-> srv[c].served + 1]
      /\ \A d \in Conns : d # c => srv'[d] = srv[d] /\ http'[d] = http[d]
      /\ \A d \in Conns : srv'[d].timer = srv[d].timer
      /\ ~srv'[c].reading
  <2>1. srv[c].timer = n /\ DOMAIN srv = Conns /\ DOMAIN http = Conns
    BY <1>7
  <2> HIDE DEF n
  <2>2. [srv EXCEPT ![c].reading = FALSE, ![c].served = @ + 1][c]
           = [reading |-> FALSE, timer |-> srv[c].timer, served |-> srv[c].served + 1]
    BY <1>2, <1>7, RequestCounted
  <2>3. srv'[c] = [reading |-> FALSE, timer |-> n, served |-> srv[c].served + 1]
    BY <1>1, <2>1, <2>2
  <2>4. \A d \in Conns : d # c => srv'[d] = srv[d] /\ http'[d] = http[d]
    BY <1>1, <2>1
  <2>5. srv'[c].timer = n /\ ~srv'[c].reading
    BY <2>3
  <2>6. \A d \in Conns : srv'[d].timer = srv[d].timer
    BY <2>1, <2>4, <2>5
  <2>7. QED
    BY <2>3, <2>4, <2>5, <2>6
<1> HIDE DEF n
<1>9. /\ IsFiniteSet(ring')
      /\ \A o \in ring' : \/ o \in ring /\ o.n # n
                          \/ Timeouts /\ o = Op("expired", c, n) /\ \E p \in ring : p.n = n
      /\ \A o \in ring : o.n = 0 => o \in ring'
  <2>1. /\ IsFiniteSet(ring')
        /\ \A o \in ring' : \/ o \in ring /\ o.n # n
                            \/ /\ Timeouts
                               /\ \E p \in ring : p.n = n /\ o = Op("expired", p.c, n)
        /\ \A o \in ring : o.n = 0 => o \in ring'
    BY <1>1, <1>7, CancelledIs DEF IInv
  <2>2. ASSUME NEW p \in ring, p.n = n
        PROVE  p.c = c
    <3>1. p.c \in Conns /\ srv[p.c].timer = n
      BY <1>7, <2>2, LandingAssumption DEF IInv, Ring, Timers, Tables, Conns
    <3>2. QED
      BY <1>2, <1>7, <3>1 DEF IInv, Timers, n
  <2>3. QED
    BY <2>1, <2>2
<1>10. \A o \in ring \union ring' : o.op \in {"accept", "recv", "send"} =>
          (o \in ring <=> o \in ring')
  BY <1>9 DEF IInv, Ring, Op
<1>11. Ring' /\ Tables' /\ New'
  <2>1. Ring'
    <3>1. SUFFICES ASSUME NEW o \in ring'
                   PROVE  /\ o = Op(o.op, o.c, o.n)
                          /\ o.op \in {"accept", "recv", "send", "timer", "expired"}
                          /\ o.n \in 0 .. Len(timers)
                          /\ o.n = 0 <=> o.op \in {"accept", "recv", "send"}
                          /\ o.op = "accept" => o.c \in Families
                          /\ o.op # "accept" => o.c \in 1 .. accepted
      BY <1>1, <1>6, <1>9 DEF Ring
    <3>2. CASE o \in ring
      BY <3>2 DEF IInv, Ring
    <3>3. CASE o = Op("expired", c, n)
      BY <1>2, <1>7, <3>3 DEF Op
    <3>4. QED
      BY <1>9, <3>2, <3>3
  <2>2. \A d \in Conns : d > accepted => d # c
    BY <1>2 DEF IInv, Tables, Conns
  <2>3. New'
    BY <1>1, <1>8, <2>2 DEF IInv, New
  <2>4. QED
    BY <1>1, <2>1, <2>3, TablesKept DEF IInv
<1>12. Armed' /\ Life' /\ Ends'
  BY <1>1, <1>5, <1>10, ArmedKept, LifeKept, EndsKept DEF IInv, Lasting
<1>13. Alone'
  BY <1>2, <1>4, <1>10 DEF IInv, Alone, m, Call, Msg
<1>14. Records'
  <2>1. srv' \in [Conns -> [reading : BOOLEAN, timer : 0 .. Len(timers),
                            served : 0 .. MaxReq]]
    <3>1. srv[c].served + 1 \in 0 .. MaxReq
      BY <1>7, LandingAssumption
    <3>2. srv'[c] \in [reading : BOOLEAN, timer : 0 .. Len(timers), served : 0 .. MaxReq]
      BY <1>7, <1>8, <3>1
    <3>3. DOMAIN srv' = Conns /\ srv' = [d \in Conns |-> srv'[d]]
      BY <1>1, <1>7
    <3>4. QED
      BY <1>7, <1>8, <3>2, <3>3
  <2>2. http' \in [Conns -> [reading : BOOLEAN, parser : BOOLEAN]]
    <3>1. [http[c] EXCEPT !.parser = FALSE] \in [reading : BOOLEAN, parser : BOOLEAN]
      BY <1>2, <1>7
    <3>2. http' = [http EXCEPT ![c] = [http[c] EXCEPT !.parser = FALSE]]
      BY <1>1
    <3>3. QED
      BY <1>2, <1>7, <3>1, <3>2
  <2>3. hit' \subseteq Conns
    BY <1>1, LandingAssumption DEF IInv, Records, Ring, Tables, Conns
  <2>4. \A d \in Conns : srv'[d].reading => srv'[d].timer > 0
    BY <1>8 DEF IInv, Records
  <2>5. QED
    BY <1>1, <1>6, <2>1, <2>2, <2>3, <2>4 DEF IInv, Records
<1>15. Flags'
  <2>1. \A p \in ring' : p.op \in {"recv", "send"} =>
            p \in ring /\ p.c # c /\ p.c \in Conns
    BY <1>2, <1>10, LandingAssumption DEF IInv, Alone, Ring, Tables, Conns
  <2>2. \A p \in X' : p.kind = "accept" => p.to = "A"
    BY <1>2, <1>4 DEF Shape, Route, m, Call, Msg
  <2>3. ASSUME NEW p \in X', p.kind # "accept", p.c # c
        PROVE  p \in X /\ p.c \in Conns
    BY <1>2, <1>4, <2>3, LandingAssumption DEF IInv, Shape, Tables, Conns, m, Call, Msg
  <2>4. ASSUME NEW p \in X', p.kind # "accept", p.c = c, p # m
        PROVE  /\ p.kind \in {"construct", "delete", "timeout"} \/ p.to = "A"
               /\ p.kind = "construct" => p.to # "S"
    <3>1. p \in Rest /\ p \in X
      BY <1>2, <1>4, <2>4
    <3>2. p.kind # "construct"
      BY <1>2, <2>4, <3>1, TokenHead DEF IInv
    <3>3. QED
      BY <1>2, <2>4, <3>1, <3>2 DEF Token
  <2>5. \A p \in X' :
          /\ p.kind \in {"start", "construct"} /\ p.to = "S" =>
                ~srv'[p.c].reading /\ srv'[p.c].timer = 0
          /\ p.kind \in {"read", "write"} /\ p.to = "H" =>
                srv'[p.c].reading = (p.kind = "read")
          /\ Token(p) /\ (p.to = "B" \/ p.kind = "done") =>
                /\ http'[p.c].reading = srv'[p.c].reading
                /\ http'[p.c].reading => http'[p.c].parser
          /\ p.kind = "done" /\ p.to = "S" /\ p.ok /\ srv'[p.c].reading =>
                srv'[p.c].served < MaxReq
    <3>1. TAKE p \in X'
    <3>2. CASE p = m
      <4>1. p.kind = "write" /\ p.to = "H" /\ p.c = c
        BY <3>2 DEF m, Call, Msg
      <4>2. srv'[p.c].reading = FALSE
        BY <1>8, <4>1
      <4>3. QED
        BY <4>1, <4>2
    <3>3. CASE p.kind = "accept"
      BY <2>2, <3>3 DEF Token
    <3>4. CASE p # m /\ p.kind # "accept" /\ p.c = c
      BY <2>4, <3>4 DEF Token
    <3>5. CASE p.kind # "accept" /\ p.c # c
      BY <1>8, <2>3, <3>5 DEF IInv, Flags
    <3>6. QED
      BY <3>2, <3>3, <3>4, <3>5
  <2>6. QED
    BY <1>8, <2>1, <2>5 DEF IInv, Flags
<1>16. Timers'
  <2>1. \A p \in ring : p.n # 0 => p.c \in Conns /\ srv[p.c].timer = p.n
    BY LandingAssumption DEF IInv, Ring, Timers, Tables, Conns
  <2>2. \A p \in ring' : p.n # 0 => p.c \in Conns /\ srv'[p.c].timer = p.n
    BY <1>2, <1>8, <1>9, <2>1 DEF Op, n
  <2>3. \A d, e \in Conns : srv'[d].timer = srv'[e].timer /\ d # e => srv'[d].timer = 0
    BY <1>8 DEF IInv, Timers
  <2>4. \A p, r \in ring' : p.n # 0 /\ r.n = p.n => r = p
    <3>1. \A p \in ring' : p.n = n => p = Op("expired", c, n)
      BY <1>9
    <3>2. \A p \in ring' : p.n # n => p \in ring
      BY <1>9 DEF Op
    <3>3. QED
      BY <3>1, <3>2 DEF IInv, Timers
  <2>5. ASSUME NEW p \in ring', p.n # 0
        PROVE  /\ p.op = "timer" => srv'[p.c].reading
               /\ p.op = "expired" =>
                    /\ ~srv'[p.c].reading
                    /\ \A t \in X' : t.c = p.c =>
                          /\ t.kind \notin {"recv", "send"}
                          /\ ~(t.kind = "done" /\ t.to \in {"H", "S"})
               /\ \A t \in X' : t.c = p.c => t.kind # "timeout"
    <3>1. CASE p \in ring /\ p.n # n
      <4>1. p.c # c /\ p.c \in Conns
        BY <2>1, <2>5, <3>1 DEF n
      <4>2. QED
        BY <1>2, <1>4, <1>8, <2>5, <3>1, <4>1 DEF IInv, Timers, m, Call, Msg
    <3>2. CASE p = Op("expired", c, n) /\ \E r \in ring : r.n = n
      <4>1. p.op = "expired" /\ p.c = c
        BY <3>2 DEF Op
      <4>2. PICK r \in ring : r.n = n
        BY <3>2
      <4>3. r.c = c
        BY <1>2, <1>7, <2>1, <4>2 DEF IInv, Timers, n
      <4>4. \A t \in X : t.c = c => t.kind # "timeout"
        BY <1>7, <4>2, <4>3 DEF IInv, Timers
      <4>5. \A t \in X' : t.c = c =>
                /\ t.kind \notin {"recv", "send", "timeout"}
                /\ ~(t.kind = "done" /\ t.to \in {"H", "S"})
        BY <1>2, <1>4, <4>4 DEF m, Call, Msg, Token, Shape, Route
      <4>6. QED
        BY <1>8, <4>1, <4>5
    <3>3. QED
      BY <1>9, <3>1, <3>2
  <2>6. QED
    BY <2>2, <2>3, <2>4, <2>5 DEF Timers
<1>17. Coverage'
  <2>1. ASSUME NEW d \in Conns, d = c
        PROVE  Covered(d)'
    BY <1>8, <2>1 DEF Covered
  <2>2. ASSUME NEW d \in Conns, d # c
        PROVE  Covered(d)'
    <3>1. ASSUME srv[d].reading, NEW o \in ring, o.n = srv[d].timer, o \notin ring'
          PROVE  d \in hit'
      <4>1. o.n # 0
        BY <3>1 DEF IInv, Records
      <4>2. o.c \in Conns /\ srv[o.c].timer = o.n
        BY <4>1, LandingAssumption DEF IInv, Ring, Timers, Tables, Conns
      <4>3. o.c = d
        BY <3>1, <4>1, <4>2 DEF IInv, Timers
      <4>4. o.op = "timer"
        BY <3>1, <4>1, <4>3 DEF IInv, Ring, Timers
      <4>5. o.n # n
        BY <1>2, <2>2, <3>1, <4>1 DEF IInv, Timers, n
      <4>6. QED
        BY <1>1, <3>1, <4>3, <4>4, <4>5 DEF n
    <3>2. Covered(d)
      BY DEF IInv, Coverage
    <3>3. TimedOut(d) => TimedOut(d)'
      BY <1>5 DEF TimedOut
    <3>4. /\ srv'[d] = srv[d] /\ hit \subseteq hit'
      BY <1>1, <1>8, <2>2
    <3>5. QED
      BY <1>1, <3>1, <3>2, <3>3, <3>4 DEF Covered
  <2>3. QED
    BY <2>1, <2>2 DEF Coverage
<1>18. NoTimeouts'
  <2>1. ~Timeouts => \A p \in ring' : p \in ring
    BY <1>9
  <2>2. QED
    BY <1>1, <1>2, <1>4, <2>1 DEF IInv, NoTimeouts, m, Call, Msg, InFlight, Orphans
<1>19. QED
  BY <1>4, <1>11, <1>12, <1>13, <1>14, <1>15, <1>16, <1>17, <1>18 DEF IInv
-----------------------------------------------------------------------------
(* Completion.                                                              *)

\* What the messages say about a connection's objects: one is to be constructed
\* or deleted next, or all of them are there, or none is.
LEMMA LifeCases ==
    ASSUME Life, \A m \in X : m \in Message /\ Shape(m), NEW c \in Conns
    PROVE  \/ Con("S", c) \/ Con("H", c) \/ Con("B", c)
           \/ Del("S", c) \/ Del("H", c) \/ Del("B", c)
           \/ objs[c] = IF Held(c) THEN {"S", "H", "B"} ELSE {}
<1>1. ASSUME NEW m \in X, m.c = c, m.kind \in {"construct", "delete"}
      PROVE  /\ m.kind = "construct" => Con(m.to, c)
             /\ m.kind = "delete" => Del(m.to, c)
             /\ m.to \in {"S", "H", "B"}
  <2>1. m = [kind |-> m.kind, to |-> m.to, c |-> c, ok |-> TRUE]
    BY <1>1 DEF Message, Shape
  <2>2. m.to \in {"S", "H", "B"}
    BY <1>1 DEF Shape, Route
  <2>3. QED
    BY <1>1, <2>1, <2>2 DEF Con, Del, Call, Msg
<1>2. QED
  BY <1>1 DEF Life, LifeOf

\* The acceptor's tables lead to a connection that a slot holds.
LEMMA HeldKnown ==
    ASSUME Tables, NEW c \in Conns
    PROVE  Held(c) <=> c \in DOMAIN indices /\ c \notin Orphans
<1>1. c # None
  BY DEF Conns, None
<1>2. ASSUME Held(c)
      PROVE  c \in DOMAIN indices /\ c \notin Orphans
  BY <1>1, <1>2 DEF Tables, Held, Elems, Orphans
<1>3. ASSUME c \in DOMAIN indices, c \notin Orphans
      PROVE  Held(c)
  BY <1>3 DEF Tables, Held, Elems, Orphans
<1>4. QED
  BY <1>2, <1>3

\* Waves that nobody changes keep the order of a sequence.
LEMMA RowSame ==
    ASSUME NEW Q, NEW L, NEW O, NEW L2, NEW O2, Row(Q, L, O),
           \A i \in 1 .. Len(Q) : Lo(Q[i], L2, O2) = Lo(Q[i], L, O)
    PROVE  Row(Q, L2, O2)
BY DEF Row, Rel

\* S completes, the first time or again.
LEMMA ServerFailsKeeps ==
    ASSUME IInv, ServerFails
    PROVE  IInv'
<1> DEFINE h == Head(q)
           c == h.c
           m == Done("A", c, FALSE)
<1>1. PICK kind \in {"done", "timeout"} : Handles(kind, "S")
  BY DEF ServerFails
<1>2. /\ "S" \in objs[c] /\ Push(<<m>>)
      /\ finished' = [finished EXCEPT ![c] = IF @ = 2 THEN 2 ELSE @ + 1]
      /\ UNCHANGED <<ring, slots, indices, accepted, objs, srv, http, timers, hit,
                     crashed>>
  BY DEF ServerFails, Complete
<1>3. /\ q # <<>> /\ h.kind = kind /\ h.to = "S"
      /\ h \in X /\ h \in Message /\ Shape(h) /\ Rest = X \ {h}
      /\ \A t \in X : t \in Message /\ Shape(t)
      /\ c \in 1 .. accepted /\ c \in Conns
      /\ Token(h) => \A t \in Rest : t.c = c /\ t.kind # "accept" => ~Token(t)
      /\ kind = "done" => Token(h)
  BY <1>1, HeadFacts DEF Token
<1>4. /\ finished \in [Conns -> 0 .. 2]
      /\ finished'[c] = (IF finished[c] = 2 THEN 2 ELSE finished[c] + 1)
      /\ \A d \in Conns : d # c => finished'[d] = finished[d]
      /\ finished'[c] > 0 /\ (finished'[c] = 1 => finished[c] = 0)
  BY <1>2, <1>3 DEF IInv, Records
<1>5. m \in Message /\ Shape(m)
  BY <1>3 DEF Message, Shape, Route, Done, Msg
<1> HIDE DEF m
<1>6. \A t \in Rest : Rel(h, t, Twice, Orphans) /\ Lo(t, Twice, Orphans) \in 0 .. 4
  BY <1>3, Taken DEF IInv, Lo, Lvl
<1>7. c \notin Orphans
  <2>1. SUFFICES ASSUME c \in Orphans PROVE FALSE
    OBVIOUS
  <2>2. ~Held(c)
    BY <1>3, <2>1, HeldKnown DEF IInv
  <2>3. Del("S", c)
    BY <1>2, <1>3, <2>2, LifeCases DEF IInv, Life, LifeOf
  <2>4. PICK t \in Rest : t.kind = "delete" /\ t.to = "S" /\ t.c = c
    BY <1>3, <2>3 DEF Del, Call, Msg
  <2>5. Lo(t, Twice, Orphans) = 4 /\ Hi(h) <= 2
    BY <1>3, <2>1, <2>4 DEF Lo, Hi
  <2>6. Hi(h) \in 0 .. 9
    BY DEF Hi, Lvl
  <2>7. QED
    BY <1>6, <2>5, <2>6 DEF Rel
<1>8. kind = "timeout" => finished[c] = 0
  BY <1>2, <1>3 DEF IInv, Ends, EndsOf, TimedOut
<1>9. ~Told(c)
  <2>1. CASE kind = "timeout"
    BY <1>3, <1>8, <2>1 DEF IInv, Ends, EndsOf
  <2>2. CASE kind = "done"
    <3>1. \A t \in Rest : t.c = c /\ t.kind # "accept" => t.to # "A"
      BY <1>3, <2>2, TokenHead DEF IInv
    <3>2. QED
      BY <1>3, <3>1 DEF Told
  <2>3. QED
    BY <2>1, <2>2
<1>10. \A t \in Rest : t.c = c => /\ t.kind # "timeout"
                                  /\ ~(t.kind = "done" /\ t.to = "S")
                                  /\ ~(t.kind = "construct" /\ t.to \in {"S", "H"})
  <2>1. SUFFICES ASSUME NEW t \in Rest, t.c = c
                 PROVE  /\ t.kind # "timeout"
                        /\ ~(t.kind = "done" /\ t.to = "S")
                        /\ ~(t.kind = "construct" /\ t.to \in {"S", "H"})
    OBVIOUS
  <2>2. Rel(h, t, Twice, Orphans)
    BY <1>6
  <2>3. CASE kind = "timeout"
    <3>1. Lo(t, Twice, Orphans) <= 1
      BY <1>3, <2>2, <2>3 DEF Rel, Hi
    <3>2. t.kind # "timeout"
      BY <1>3, <2>1, <2>2, <2>3 DEF Rel, Apart
    <3>3. ~(t.kind = "construct" /\ t.to = "S")
      BY <1>3, <1>2, <2>1 DEF IInv, Life, LifeOf, Con, Call, Msg, Shape, Message
    <3>4. QED
      BY <3>1, <3>2, <3>3 DEF Lo, Lvl
  <2>4. CASE kind = "done"
    <3>1. Hi(t) >= 2
      BY <1>3, <2>2, <2>4 DEF Rel, Lo
    <3>2. t.kind # "timeout"
      BY <3>1 DEF Hi
    <3>3. t.kind # "construct"
      BY <1>3, <2>1, <2>4, TokenHead DEF IInv
    <3>4. ~(t.kind = "done" /\ t.to = "S")
      BY <1>3, <2>1, <2>4 DEF Token
    <3>5. QED
      BY <3>2, <3>3, <3>4
  <2>5. QED
    BY <2>3, <2>4
<1>11. Messages' /\ X' = Rest \union {m}
  <2>1. Orphans' = Orphans /\ \A d : d # c => (d \in Twice' <=> d \in Twice)
    BY <1>2, <1>4 DEF Orphans, Twice
  <2>2. \A t \in {h} \union Rest : Lo(t, Twice', Orphans) = Lo(t, Twice, Orphans)
    <3>1. SUFFICES ASSUME NEW t \in {h} \union Rest
                   PROVE  Lo(t, Twice', Orphans) = Lo(t, Twice, Orphans)
      OBVIOUS
    <3>2. CASE t.kind = "done" /\ t.to = "A"
      <4>1. t.c # c
        BY <1>3, <1>9, <3>2 DEF Told
      <4>2. QED
        BY <2>1, <4>1 DEF Lo
    <3>3. CASE ~(t.kind = "done" /\ t.to = "A")
      <4>1. t.kind = "done" => t.to \in {"S", "H"}
        BY <1>3, <3>3 DEF Shape, Route
      <4>2. QED
        BY <4>1 DEF Lo
    <3>4. QED
      BY <3>2, <3>3
  <2>3. Row(Tail(q), Twice', Orphans)
    <3>1. Row(Tail(q), Twice, Orphans) /\ Tail(q) \in Seq(Message)
      BY <1>3, TailElems DEF IInv, Messages
    <3>2. \A i \in 1 .. Len(Tail(q)) : Tail(q)[i] \in Rest
      BY <3>1 DEF Rest, Elems
    <3>3. QED
      BY <2>2, <3>1, <3>2, RowSame
  <2>4. ASSUME NEW t \in Rest
        PROVE  Rel(t, m, Twice', Orphans)
    <3>1. Rel(h, t, Twice', Orphans)
      BY <1>6, <2>2 DEF Rel
    <3>2. Apart(t, m)
      <4>1. t.c = c => ~(t.to = "A" /\ t.kind # "accept")
        BY <1>3, <1>9 DEF Told, Shape, Route, Message
      <4>2. QED
        BY <1>10, <4>1 DEF Apart, m, Done, Msg, Token
    <3>3. Lo(m, Twice', Orphans) <= Lo(h, Twice', Orphans) + 1
      <4>1. CASE kind = "timeout"
        <5>1. c \notin Twice'
          BY <1>4, <1>8, <4>1 DEF Twice
        <5>2. Lo(m, Twice', Orphans) = 1
          BY <1>7, <5>1 DEF Lo, m, Done, Msg
        <5>3. Lo(h, Twice', Orphans) \in 0 .. 4
          BY DEF Lo, Lvl
        <5>4. QED
          BY <5>2, <5>3
      <4>2. CASE kind = "done"
        BY <1>3, <4>2 DEF Lo, m, Done, Msg
      <4>3. QED
        BY <4>1, <4>2
    <3>4. Hi(m) = 3 /\ Hi(h) <= 2 /\ Hi(h) \in 0 .. 9
      BY <1>3 DEF Hi, m, Done, Msg
    <3>5. QED
      BY <3>1, <3>2, <3>3, <3>4, Behind
  <2>5. q' \in Seq(Message) /\ X' = Rest \union {m} /\ Row(q', Twice', Orphans)
    BY <1>2, <1>3, <1>5, <2>3, <2>4, Pushed DEF IInv
  <2>6. \A t \in X' : Shape(t)'
    BY <1>2, <1>3, <1>5, <2>5 DEF Shape
  <2>7. QED
    BY <2>1, <2>5, <2>6 DEF Messages
<1>12. /\ \A p \in X \union X' : p.kind \in {"construct", "delete"} => (p \in X <=> p \in X')
       /\ \A p \in X \union X' : p.kind = "accept" => (p \in X <=> p \in X')
       /\ \A p \in X' : p.c = c => p.kind # "timeout"
       /\ \A p \in X \union X' : p.c # c => (p \in X <=> p \in X')
  BY <1>3, <1>10, <1>11 DEF m, Done, Msg
<1>13. Ring' /\ Tables' /\ New' /\ Records'
  <2>1. Records'
    <3>1. finished' \in [Conns -> 0 .. 2]
      BY <1>2, <1>3, <1>4
    <3>2. QED
      BY <1>2, <3>1 DEF IInv, Records
  <2>2. New'
    <3>1. \A d \in Conns : d > accepted => d # c
      BY <1>3 DEF IInv, Tables, Conns
    <3>2. QED
      BY <1>2, <1>4, <3>1 DEF IInv, New
  <2>3. QED
    BY <1>2, <2>1, <2>2, TablesKept DEF IInv, Ring
<1>14. Armed' /\ Life'
  BY <1>2, <1>12, ArmedKept, LifeKept DEF IInv
<1>15. Alone' /\ Flags' /\ Timers'
  BY <1>2, <1>3, <1>11 DEF IInv, Alone, Flags, Timers, m, Done, Msg, Token
<1>16. Coverage'
  <2>1. \A d \in Conns : d # c => (TimedOut(d) => TimedOut(d)')
    BY <1>12 DEF TimedOut
  <2>2. QED
    BY <1>2, <1>4, <2>1 DEF IInv, Coverage, Covered
<1>17. Ends'
  <2>1. \A to, d : (Con(to, d)' <=> Con(to, d)) /\ (Del(to, d)' <=> Del(to, d))
    <3>1. \A to, d : /\ Call(to, "construct", d).kind = "construct"
                     /\ Call(to, "delete", d).kind = "delete"
      BY DEF Call, Msg
    <3>2. QED
      BY <1>12, <3>1 DEF Con, Del
  <2>2. \A d \in Conns : d # c => (Told(d)' <=> Told(d)) /\ (TimedOut(d)' <=> TimedOut(d))
    BY <1>12 DEF Told, TimedOut
  <2>3. Orphans' = Orphans
    BY <1>2 DEF Orphans
  <2>4. ~\E p \in X' : p.kind = "timeout" /\ p.c = c
    BY <1>12
  <2>5. m \in X' /\ m.kind = "done" /\ m.to = "A" /\ m.c = c
    BY <1>11 DEF m, Done, Msg
  <2>6. ~Con("S", c) /\ ~Con("H", c)
    <3>1. h # Call("S", "construct", c) /\ h # Call("H", "construct", c)
      BY <1>3 DEF Call, Msg
    <3>2. QED
      BY <1>3, <1>10, <3>1 DEF Con, Call, Msg
  <2>7. c <= accepted /\ (finished[c] = 0 => c \in DOMAIN indices)
    BY <1>3 DEF IInv, Ends, EndsOf
  <2>8. ASSUME NEW d \in Conns
        PROVE  /\ d <= accepted /\ finished'[d] = 0 => d \in DOMAIN indices
               /\ Told(d)' => finished'[d] > 0
               /\ Told(d)' /\ finished'[d] = 1 => d \in DOMAIN indices
               /\ Told(d)' /\ d \in Orphans => slots[indices[d]] = None
               /\ finished'[d] > 0 /\ "S" \in objs[d] => Told(d)' \/ Del("S", d)
               /\ TimedOut(d)' /\ "S" \in objs[d] => finished'[d] = 0
               /\ Con("S", d) \/ Con("H", d) => finished'[d] = 0
    <3>1. CASE d = c
      BY <1>4, <1>7, <2>4, <2>5, <2>6, <2>7, <3>1 DEF Told, TimedOut
    <3>2. CASE d # c
      BY <1>4, <2>2, <3>2 DEF IInv, Ends, EndsOf
    <3>3. QED
      BY <3>1, <3>2
  <2>9. QED
    BY <1>2, <2>1, <2>3, <2>8 DEF Ends, EndsOf
<1>18. NoTimeouts'
  <2>1. SUFFICES ASSUME ~Timeouts PROVE NoTimeouts'
    BY DEF NoTimeouts
  <2>2. kind = "done" /\ Token(h)
    BY <1>3, <2>1 DEF IInv, NoTimeouts
  <2>3. finished[c] = 0
    BY <1>3, <1>4, <2>1, <2>2 DEF IInv, NoTimeouts
  <2>4. ~InFlight(c)
    BY <1>3, <2>2 DEF IInv, Alone, InFlight
  <2>5. \A d : InFlight(d)' <=> InFlight(d)
    BY <1>2 DEF InFlight
  <2>6. \A t \in X' : t.c = c => ~Token(t)
    BY <1>3, <1>11, <2>2 DEF Token, m, Done, Msg, Shape, Route
  <2>7. ASSUME NEW d \in Conns, finished'[d] > 0
        PROVE  finished'[d] = 1 /\ ~InFlight(d)' /\ \A t \in X' : t.c = d => ~Token(t)
    <3>1. CASE d = c
      BY <1>4, <2>3, <2>4, <2>5, <2>6, <3>1
    <3>2. CASE d # c
      BY <1>3, <1>4, <1>12, <2>1, <2>5, <2>7, <3>2 DEF IInv, NoTimeouts
    <3>3. QED
      BY <3>1, <3>2
  <2>8. \A t \in X' : t.kind # "timeout"
    BY <1>3, <1>11, <2>1 DEF IInv, NoTimeouts, m, Done, Msg
  <2>9. Orphans' = Orphans
    BY <1>2 DEF Orphans
  <2>10. QED
    BY <1>2, <2>1, <2>7, <2>8, <2>9 DEF IInv, NoTimeouts
<1>19. QED
  BY <1>11, <1>13, <1>14, <1>15, <1>16, <1>17, <1>18 DEF IInv
-----------------------------------------------------------------------------
(* Construction and deletion.                                               *)

\* Who is below whom.
LEMMA DownIs ==
    ASSUME NEW kind, NEW c
    PROVE  /\ Below("S") = {"H"} /\ Below("H") = {"B"} /\ Below("B") = {}
           /\ Down(kind, "S", c) = <<Call("H", kind, c)>>
           /\ Down(kind, "H", c) = <<Call("B", kind, c)>>
           /\ Down(kind, "B", c) = <<>>
<1>1. Below("S") = {"H"} /\ Below("H") = {"B"} /\ Below("B") = {}
  BY DEF Below
<1>2. (CHOOSE b \in {"H"} : TRUE) = "H" /\ (CHOOSE b \in {"B"} : TRUE) = "B"
  OBVIOUS
<1>3. QED
  BY <1>1, <1>2 DEF Down

\* At most one construction and at most one deletion of a connection's objects
\* is queued, and both only when B is still to be constructed.
LEMMA OneChange ==
    ASSUME Life, NEW c \in Conns
    PROVE  /\ Con("S", c) => ~Con("H", c) /\ ~Con("B", c)
           /\ Con("H", c) => ~Con("B", c)
           /\ Con("S", c) \/ Con("H", c) => ~Del("S", c)
           /\ Con("S", c) \/ Con("H", c) \/ Con("B", c) => ~Del("H", c) /\ ~Del("B", c)
           /\ Del("S", c) => ~Del("H", c) /\ ~Del("B", c)
           /\ Del("H", c) => ~Del("B", c)
<1>1. /\ Con("S", c) => Held(c) /\ objs[c] = {}
      /\ Con("H", c) => Held(c) /\ objs[c] = {"S"}
      /\ Con("B", c) => objs[c] = {"S", "H"}
      /\ Del("S", c) => ~Held(c) /\ (objs[c] = {"S", "H"} \/ objs[c] = {"S", "H", "B"})
      /\ Del("H", c) => ~Held(c) /\ objs[c] = {"H", "B"}
      /\ Del("B", c) => ~Held(c) /\ objs[c] = {"B"}
  BY DEF Life, LifeOf
<1>2. /\ "S" \notin {} /\ "S" \in {"S"} /\ "S" \in {"S", "H"} /\ "S" \in {"S", "H", "B"}
      /\ "H" \notin {} /\ "H" \notin {"S"} /\ "H" \in {"S", "H"} /\ "H" \in {"S", "H", "B"}
      /\ "B" \notin {} /\ "B" \notin {"S"} /\ "B" \notin {"S", "H"} /\ "B" \in {"S", "H", "B"}
      /\ "S" \notin {"H", "B"} /\ "S" \notin {"B"} /\ "H" \notin {"B"} /\ "H" \in {"H", "B"}
  OBVIOUS
<1>3. QED
  BY <1>1, <1>2

\* A connection whose messages, objects and place stay as they are.
LEMMA Elsewhere ==
    ASSUME NEW d \in Conns, LifeOf(d), EndsOf(d),
           \A p \in X \union X' : p.kind # "accept" /\ p.c = d => (p \in X <=> p \in X'),
           objs'[d] = objs[d], finished'[d] = finished[d],
           Held(d)' <=> Held(d),
           d <= accepted' => d <= accepted,
           d \in DOMAIN indices => d \in DOMAIN indices',
           Told(d) /\ d \in Orphans' => slots'[indices'[d]] = None
    PROVE  LifeOf(d)' /\ EndsOf(d)'
<1>1. \A w : /\ Call(w, "construct", d).kind = "construct"
             /\ Call(w, "construct", d).c = d
             /\ Call(w, "delete", d).kind = "delete" /\ Call(w, "delete", d).c = d
  BY DEF Call, Msg
<1>2. /\ \A w : Con(w, d)' <=> Con(w, d)
      /\ \A w : Del(w, d)' <=> Del(w, d)
  BY <1>1 DEF Con, Del
<1>3. (Told(d)' <=> Told(d)) /\ (TimedOut(d)' <=> TimedOut(d))
  BY DEF Told, TimedOut
<1>4. (\A p \in X' : p.c = d => p.kind \notin {"construct", "delete"})
        => (\A p \in X : p.c = d => p.kind \notin {"construct", "delete"})
  OBVIOUS
<1>5. LifeOf(d)'
  BY <1>2, <1>4 DEF LifeOf
<1>6. EndsOf(d)'
  BY <1>2, <1>3 DEF EndsOf
<1>7. QED
  BY <1>5, <1>6

\* An object is made, and its child's construction queued.
LEMMA ConstructKeeps ==
    ASSUME IInv, NEW to \in {"S", "H", "B"}, Construct(to)
    PROVE  IInv'
<1> DEFINE h == Head(q)
           c == h.c
           ms == Down("construct", to, c)
           next == IF to = "S" THEN "H" ELSE "B"
           m == Call(next, "construct", c)
<1>1. /\ Handles("construct", to) /\ Push(ms)
      /\ objs' = [objs EXCEPT ![c] = @ \union {to}]
      /\ UNCHANGED <<ring, slots, indices, accepted, srv, http, timers, finished,
                     hit, crashed>>
  BY DEF Construct
<1>2. /\ q # <<>> /\ h.kind = "construct" /\ h.to = to
      /\ h \in X /\ h \in Message /\ Shape(h) /\ Rest = X \ {h}
      /\ \A t \in X : t \in Message /\ Shape(t)
      /\ c \in 1 .. accepted /\ c \in Conns
  BY <1>1, HeadFacts
<1>3. m \in Message /\ Shape(m)
  BY <1>2 DEF Message, Shape, Route, Call, Msg
<1>4. \A t \in Rest : t.c = c /\ t.kind # "accept" =>
          /\ t.kind # "construct"
          /\ Token(t) => t.to = to /\ t.kind \in {"start", "read"}
          /\ t.kind = "delete" => to = "B" /\ t.to = "S"
  <2>1. SUFFICES ASSUME NEW t \in Rest, t.c = c, t.kind # "accept"
                 PROVE  /\ t.kind # "construct"
                        /\ Token(t) => t.to = to /\ t.kind \in {"start", "read"}
                        /\ t.kind = "delete" => to = "B" /\ t.to = "S"
    OBVIOUS
  <2>2. Apart(h, t)
    BY <1>2, Taken DEF IInv, Rel
  <2>3. QED
    BY <1>2, <2>1, <2>2 DEF Apart
<1>5. h = Call(to, "construct", c) /\ Con(to, c)
  BY <1>2 DEF Con, Call, Msg, Message, Shape
<1> HIDE DEF m
<1>6. Messages' /\ X' = Rest \union (IF to = "B" THEN {} ELSE {m})
  <2>1. CASE to = "B"
    <3>1. ms = <<>>
      BY <2>1, DownIs
    <3>2. QED
      BY <1>1, <1>2, <2>1, <3>1, Swallows DEF IInv
  <2>2. CASE to # "B"
    <3>1. ms = <<m>> /\ next \in Below(to)
      BY <2>2, DownIs DEF m
    <3>2. \A t \in Rest : Rel(t, m, Twice, Orphans)
      <4>1. SUFFICES ASSUME NEW t \in Rest PROVE Rel(t, m, Twice, Orphans)
        OBVIOUS
      <4>2. Apart(t, m)
        BY <1>2, <1>4, <2>2, <3>1 DEF Apart, m, Call, Msg, Token
      <4>3. Rel(h, t, Twice, Orphans)
        BY <1>2, Taken DEF IInv
      <4>4. /\ Lo(m, Twice, Orphans) = Lo(h, Twice, Orphans) + 1
            /\ Hi(m) > Hi(h)
        BY <1>2, <2>2 DEF Lo, Hi, Lvl, m, Call, Msg
      <4>5. Lo(m, Twice, Orphans) <= Lo(h, Twice, Orphans) + 1
        BY <4>4 DEF Lo, Lvl
      <4>6. QED
        BY <4>2, <4>3, <4>4, <4>5, Behind
    <3>3. Row(Tail(q), Twice, Orphans)
      BY <1>2, TailElems DEF IInv, Messages
    <3>4. q' \in Seq(Message) /\ X' = Rest \union {m} /\ Row(q', Twice, Orphans)
      BY <1>1, <1>2, <1>3, <3>1, <3>2, <3>3, Pushed DEF IInv
    <3>5. Twice' = Twice /\ Orphans' = Orphans
      BY <1>1 DEF Twice, Orphans
    <3>6. \A t \in X' : Shape(t)'
      BY <1>1, <1>2, <1>3, <3>4 DEF Shape
    <3>7. QED
      BY <2>2, <3>4, <3>5, <3>6 DEF Messages
  <2>3. QED
    BY <2>1, <2>2
<1>7. /\ m.kind = "construct" /\ m.to = next /\ m.c = c /\ ~Token(m)
      /\ \A p \in X \union X' : p.kind # "construct" => (p \in X <=> p \in X')
      /\ \A p \in X' : p.kind = "construct" => p.to = "H" \/ p.to = "B" \/ p \in X
  <2>1. m.kind = "construct" /\ m.to = next /\ m.c = c /\ ~Token(m)
    BY DEF m, Call, Msg, Token
  <2>2. QED
    BY <1>2, <1>6, <2>1
<1>8. objs \in [Conns -> SUBSET {"S", "H", "B"}] /\ objs'[c] = objs[c] \union {to}
      /\ \A d \in Conns : d # c => objs'[d] = objs[d]
  BY <1>1, <1>2 DEF IInv, Records
<1>9. Ring' /\ Tables' /\ New' /\ Records'
  <2>1. Records'
    <3>1. objs' \in [Conns -> SUBSET {"S", "H", "B"}]
      BY <1>1, <1>2, <1>8
    <3>2. QED
      BY <1>1, <3>1 DEF IInv, Records
  <2>2. New'
    <3>1. \A d \in Conns : d > accepted => d # c
      BY <1>2 DEF IInv, Tables, Conns
    <3>2. QED
      BY <1>1, <1>8, <3>1 DEF IInv, New
  <2>3. QED
    BY <1>1, <2>1, <2>2, TablesKept DEF IInv, Ring
<1>10. Armed'
  BY <1>1, <1>7, ArmedKept DEF IInv
<1>11. Alone'
  BY <1>1, <1>2, <1>6, <1>7 DEF IInv, Alone
<1>12. Flags'
  BY <1>1, <1>2, <1>6, <1>7 DEF IInv, Flags
<1>13. Timers'
  BY <1>1, <1>7 DEF IInv, Timers
<1>14. NoTimeouts'
  BY <1>1, <1>2, <1>6, <1>7 DEF IInv, NoTimeouts, InFlight, Orphans
<1>15. Coverage'
  <2>1. to = "S" => ~srv[c].reading
    BY <1>2 DEF IInv, Flags
  <2>2. \A d \in Conns : "S" \in objs'[d] /\ srv[d].reading => "S" \in objs[d]
    BY <1>8, <2>1
  <2>3. \A d : TimedOut(d)' <=> TimedOut(d)
    BY <1>7 DEF TimedOut
  <2>4. QED
    BY <1>1, <2>2, <2>3 DEF IInv, Coverage, Covered
<1>16. /\ \A w, d : Call(w, "delete", d) \in X' <=> Call(w, "delete", d) \in X
       /\ \A w, d : d # c =>
             (Call(w, "construct", d) \in X' <=> Call(w, "construct", d) \in X)
       /\ \A w : Call(w, "construct", c) \in X' <=> to # "B" /\ w = next
  <2>1. \A w, d : /\ Call(w, "delete", d).kind = "delete"
                  /\ Call(w, "construct", d).kind = "construct"
                  /\ Call(w, "construct", d).to = w /\ Call(w, "construct", d).c = d
    BY DEF Call, Msg
  <2>2. \A w : Call(w, "construct", c) \notin Rest
    BY <1>4, <2>1
  <2>3. \A w : Call(w, "construct", c) = m <=> w = next
    BY DEF m, Call, Msg
  <2>4. ASSUME NEW w, NEW d, d # c
        PROVE  Call(w, "construct", d) \in X' <=> Call(w, "construct", d) \in X
    BY <1>2, <1>6, <1>7, <2>1, <2>4
  <2>5. QED
    BY <1>6, <1>7, <2>1, <2>2, <2>3, <2>4
<1>17. \A d \in Conns : d # c => (LifeOf(d)' /\ EndsOf(d)')
  <2>1. SUFFICES ASSUME NEW d \in Conns, d # c
                 PROVE  LifeOf(d)' /\ EndsOf(d)'
    OBVIOUS
  <2>2. LifeOf(d) /\ EndsOf(d)
    BY DEF IInv, Life, Ends
  <2>3. \A p \in X \union X' : p.c = d => (p \in X <=> p \in X')
    BY <1>2, <1>6, <1>7, <2>1
  <2>4. /\ Held(d)' <=> Held(d)
        /\ Told(d) /\ d \in Orphans' => slots'[indices'[d]] = None
    BY <1>1, <2>2 DEF Held, Orphans, EndsOf
  <2>5. QED
    BY <1>1, <1>8, <2>1, <2>2, <2>3, <2>4, Elsewhere
<1>18. \A d \in Conns : d = c => (LifeOf(d)' /\ EndsOf(d)')
  <2>1. SUFFICES ASSUME NEW d \in Conns, d = c
                 PROVE  LifeOf(d)' /\ EndsOf(d)'
    OBVIOUS
  <2>2. LifeOf(c) /\ EndsOf(c)
    BY <1>2 DEF IInv, Life, Ends
  <2>3. /\ Con("S", d)' <=> FALSE
        /\ Con("H", d)' <=> to = "S"
        /\ Con("B", d)' <=> to = "H"
        /\ \A w : Del(w, d)' <=> Del(w, c)
    BY <1>16, <2>1 DEF Con, Del
  <2>4. /\ Told(d)' <=> Told(c)
        /\ TimedOut(d)' <=> TimedOut(c)
        /\ Held(d)' <=> Held(c)
        /\ d \in Orphans' <=> c \in Orphans
    BY <1>1, <1>7, <2>1 DEF Told, TimedOut, Held, Orphans
  <2>5. to # "B" => m \in X' /\ m.c = d /\ m.kind = "construct"
    BY <1>6, <1>7, <2>1
  <2>6. (\A p \in X' : p.c = d => p.kind \notin {"construct", "delete"}) => ~Del("S", c)
    <3>1. Call("S", "delete", c).kind = "delete" /\ Call("S", "delete", c).c = c
      BY DEF Call, Msg
    <3>2. QED
      BY <1>7, <2>1, <3>1 DEF Del
  <2>7. objs'[d] = objs[c] \union {to}
    BY <1>8, <2>1
  <2>8. /\ to = "S" => ~Con("H", c) /\ ~Con("B", c)
        /\ to = "H" => ~Con("S", c) /\ ~Con("B", c)
        /\ to = "B" => ~Con("S", c) /\ ~Con("H", c)
        /\ to # "B" => ~Del("S", c)
        /\ ~Del("H", c) /\ ~Del("B", c)
    BY <1>2, <1>5, OneChange DEF IInv
  <2>9. LifeOf(d)'
    <3>1. CASE to = "S"
      BY <1>5, <2>2, <2>3, <2>4, <2>5, <2>7, <2>8, <3>1 DEF LifeOf
    <3>2. CASE to = "H"
      BY <1>5, <2>2, <2>3, <2>4, <2>5, <2>7, <2>8, <3>2 DEF LifeOf
    <3>3. CASE to = "B"
      BY <1>5, <2>2, <2>3, <2>4, <2>6, <2>7, <2>8, <3>3 DEF LifeOf
    <3>4. QED
      BY <3>1, <3>2, <3>3
  <2>10. EndsOf(d)'
    <3>1. to = "S" => finished[c] = 0
      BY <1>5, <2>2 DEF EndsOf
    <3>2. to # "S" => ("S" \in objs'[d] <=> "S" \in objs[c])
      BY <2>7
    <3>3. to = "H" => ~Con("H", d)'
      BY <2>3
    <3>4. QED
      BY <1>1, <2>1, <2>2, <2>3, <2>4, <3>1, <3>2 DEF EndsOf
  <2>11. QED
    BY <2>9, <2>10
<1>19. QED
  BY <1>6, <1>9, <1>10, <1>11, <1>12, <1>13, <1>14, <1>15, <1>17, <1>18
     DEF IInv, Life, Ends

\* An object is deleted, and its child's deletion queued.
LEMMA DeleteKeeps ==
    ASSUME IInv, NEW to \in {"S", "H", "B"}, Delete(to)
    PROVE  IInv'
<1> DEFINE h == Head(q)
           c == h.c
           ms == Down("delete", to, c)
           next == IF to = "S" THEN "H" ELSE "B"
           m == Call(next, "delete", c)
<1>1. /\ Handles("delete", to)
      /\ Push(IF to \in objs[c] THEN ms ELSE <<>>)
      /\ objs' = [objs EXCEPT ![c] = @ \ {to}]
      /\ UNCHANGED <<ring, slots, indices, accepted, srv, http, timers, finished,
                     hit, crashed>>
  BY DEF Delete
<1>2. /\ q # <<>> /\ h.kind = "delete" /\ h.to = to
      /\ h \in X /\ h \in Message /\ Shape(h) /\ Rest = X \ {h}
      /\ \A t \in X : t \in Message /\ Shape(t)
      /\ c \in 1 .. accepted /\ c \in Conns
  BY <1>1, HeadFacts
<1>3. m \in Message /\ Shape(m)
  BY <1>2 DEF Message, Shape, Route, Call, Msg
<1>4. \A t \in Rest : t.c = c => t.kind \notin {"construct", "delete"}
  <2>1. SUFFICES ASSUME NEW t \in Rest, t.c = c, t.kind # "accept"
                 PROVE  t.kind \notin {"construct", "delete"}
    OBVIOUS
  <2>2. Apart(h, t)
    BY <1>2, Taken DEF IInv, Rel
  <2>3. QED
    BY <1>2, <2>1, <2>2 DEF Apart
<1>5. h = Call(to, "delete", c) /\ Del(to, c)
  BY <1>2 DEF Del, Call, Msg, Message, Shape
<1>6. /\ \A w, d : /\ Call(w, "delete", d).kind = "delete"
                   /\ Call(w, "construct", d).kind = "construct"
                   /\ Call(w, "delete", d).to = w /\ Call(w, "delete", d).c = d
                   /\ Call(w, "construct", d).c = d
  BY DEF Call, Msg
<1>7. /\ \A w : ~Con(w, c) /\ (Del(w, c) => w = to)
      /\ to \in objs[c] /\ ~Held(c)
      /\ objs[c] \ {to} = CASE to = "S" -> {"H", "B"} [] to = "H" -> {"B"}
                            [] to = "B" -> {}
  <2>1. \A w : ~Con(w, c) /\ (Del(w, c) => w = to)
    BY <1>2, <1>4, <1>6 DEF Con, Del
  <2>2. LifeOf(c)
    BY <1>2 DEF IInv, Life
  <2>3. QED
    BY <1>5, <2>1, <2>2 DEF LifeOf
<1> HIDE DEF m
<1>8. Messages' /\ X' = Rest \union (IF to = "B" THEN {} ELSE {m})
  <2>1. CASE to = "B"
    <3>1. ms = <<>>
      BY <2>1, DownIs
    <3>2. QED
      BY <1>1, <1>2, <2>1, <3>1, Swallows DEF IInv
  <2>2. CASE to # "B"
    <3>1. ms = <<m>>
      BY <2>2, DownIs DEF m
    <3>2. \A t \in Rest : Rel(t, m, Twice, Orphans)
      <4>1. SUFFICES ASSUME NEW t \in Rest PROVE Rel(t, m, Twice, Orphans)
        OBVIOUS
      <4>2. Apart(t, m)
        BY <1>4, <2>2 DEF Apart, m, Call, Msg, Token
      <4>3. Rel(h, t, Twice, Orphans)
        BY <1>2, Taken DEF IInv
      <4>4. Lo(m, Twice, Orphans) = 0 /\ Hi(m) = 9
        BY <2>2 DEF Lo, Hi, m, Call, Msg
      <4>5. Lo(h, Twice, Orphans) \in 0 .. 4
        BY DEF Lo, Lvl
      <4>6. Lo(m, Twice, Orphans) <= Lo(h, Twice, Orphans) + 1
        BY <4>4, <4>5
      <4>7. QED
        BY <4>2, <4>3, <4>4, <4>6, Behind
    <3>3. Row(Tail(q), Twice, Orphans)
      BY <1>2, TailElems DEF IInv, Messages
    <3>4. q' \in Seq(Message) /\ X' = Rest \union {m} /\ Row(q', Twice, Orphans)
      BY <1>1, <1>2, <1>3, <1>7, <3>1, <3>2, <3>3, Pushed DEF IInv
    <3>5. Twice' = Twice /\ Orphans' = Orphans
      BY <1>1 DEF Twice, Orphans
    <3>6. \A t \in X' : Shape(t)'
      BY <1>1, <1>2, <1>3, <3>4 DEF Shape
    <3>7. QED
      BY <2>2, <3>4, <3>5, <3>6 DEF Messages
  <2>3. QED
    BY <2>1, <2>2
<1>9. /\ m.kind = "delete" /\ m.to = next /\ m.c = c /\ ~Token(m)
      /\ \A p \in X \union X' : p.kind # "delete" => (p \in X <=> p \in X')
  <2>1. m.kind = "delete" /\ m.to = next /\ m.c = c /\ ~Token(m)
    BY DEF m, Call, Msg, Token
  <2>2. QED
    BY <1>2, <1>8, <2>1
<1>10. objs \in [Conns -> SUBSET {"S", "H", "B"}] /\ objs'[c] = objs[c] \ {to}
       /\ \A d \in Conns : d # c => objs'[d] = objs[d]
  BY <1>1, <1>2 DEF IInv, Records
<1>11. Ring' /\ Tables' /\ New' /\ Records'
  <2>1. Records'
    <3>1. objs' \in [Conns -> SUBSET {"S", "H", "B"}]
      BY <1>1, <1>2, <1>10
    <3>2. QED
      BY <1>1, <3>1 DEF IInv, Records
  <2>2. New'
    <3>1. \A d \in Conns : d > accepted => d # c
      BY <1>2 DEF IInv, Tables, Conns
    <3>2. QED
      BY <1>1, <1>10, <3>1 DEF IInv, New
  <2>3. QED
    BY <1>1, <2>1, <2>2, TablesKept DEF IInv, Ring
<1>12. Armed'
  BY <1>1, <1>9, ArmedKept DEF IInv
<1>13. Alone' /\ Flags' /\ Timers'
  BY <1>1, <1>2, <1>8, <1>9 DEF IInv, Alone, Flags, Timers
<1>14. NoTimeouts'
  BY <1>1, <1>2, <1>8, <1>9 DEF IInv, NoTimeouts, InFlight, Orphans
<1>15. Coverage'
  <2>1. \A d \in Conns : "S" \in objs'[d] => "S" \in objs[d]
    BY <1>10
  <2>2. \A d : TimedOut(d)' <=> TimedOut(d)
    BY <1>9 DEF TimedOut
  <2>3. QED
    BY <1>1, <2>1, <2>2 DEF IInv, Coverage, Covered
<1>16. \A d \in Conns : d # c => (LifeOf(d)' /\ EndsOf(d)')
  <2>1. SUFFICES ASSUME NEW d \in Conns, d # c
                 PROVE  LifeOf(d)' /\ EndsOf(d)'
    OBVIOUS
  <2>2. LifeOf(d) /\ EndsOf(d)
    BY DEF IInv, Life, Ends
  <2>3. \A p \in X \union X' : p.c = d => (p \in X <=> p \in X')
    BY <1>2, <1>8, <1>9, <2>1
  <2>4. /\ Held(d)' <=> Held(d)
        /\ Told(d) /\ d \in Orphans' => slots'[indices'[d]] = None
    BY <1>1, <2>2 DEF Held, Orphans, EndsOf
  <2>5. QED
    BY <1>1, <1>10, <2>1, <2>2, <2>3, <2>4, Elsewhere
<1>17. \A d \in Conns : d = c => (LifeOf(d)' /\ EndsOf(d)')
  <2>1. SUFFICES ASSUME NEW d \in Conns, d = c
                 PROVE  LifeOf(d)' /\ EndsOf(d)'
    OBVIOUS
  <2>2. EndsOf(c)
    BY <1>2 DEF IInv, Ends
  <2>3. /\ \A w : ~Con(w, d)'
        /\ \A w : Del(w, d)' <=> to # "B" /\ w = next
    <3>1. \A w : Call(w, "construct", c) \notin X'
      BY <1>4, <1>6, <1>8, <1>9
    <3>2. \A w : Call(w, "delete", c) = m <=> w = next
      BY DEF m, Call, Msg
    <3>3. \A w : Call(w, "delete", c) \in X' <=> to # "B" /\ w = next
      BY <1>4, <1>6, <1>8, <3>2
    <3>4. QED
      BY <2>1, <3>1, <3>3 DEF Con, Del
  <2>4. /\ Told(d)' <=> Told(c)
        /\ TimedOut(d)' <=> TimedOut(c)
        /\ ~Held(d)'
        /\ d \in Orphans' <=> c \in Orphans
    BY <1>1, <1>7, <1>9, <2>1 DEF Told, TimedOut, Held, Orphans
  <2>5. to # "B" => m \in X' /\ m.c = d /\ m.kind = "delete"
    BY <1>8, <1>9, <2>1
  <2>6. objs'[d] = objs[c] \ {to}
    BY <1>10, <2>1
  <2>7. LifeOf(d)'
    BY <1>7, <2>3, <2>4, <2>5, <2>6 DEF LifeOf
  <2>8. "S" \notin objs'[d]
    BY <1>7, <2>6
  <2>9. EndsOf(d)'
    BY <1>1, <2>1, <2>2, <2>3, <2>4, <2>8 DEF EndsOf
  <2>10. QED
    BY <2>7, <2>9
<1>18. QED
  BY <1>8, <1>11, <1>12, <1>13, <1>14, <1>15, <1>16, <1>17 DEF IInv, Life, Ends
-----------------------------------------------------------------------------
(* The acceptor's turns.                                                    *)

\* Event::construct finds a slot that is free, or makes a new one.
LEMMA SlotIs ==
    ASSUME Tables
    PROVE  /\ Slot \in 1 .. Len(slots) + 1 /\ Len(slots) \in Nat
           /\ Slot <= Len(slots) => slots[Slot] = None
<1>1. /\ Len(slots) \in Nat /\ DOMAIN slots = 1 .. Len(slots)
      /\ Free \subseteq 1 .. Len(slots) /\ \A i \in Free : slots[i] = None
  BY DEF Tables, Free
<1>2. CASE Free = {}
  BY <1>1, <1>2 DEF Slot
<1>3. CASE Free # {}
  <2>1. Free \subseteq Nat
    BY <1>1
  <2>2. \E i \in Free : \A j \in Free : i <= j
    BY <1>3, <2>1, Least
  <2>3. Slot \in Free
    BY <1>3, <2>2 DEF Slot
  <2>4. QED
    BY <1>1, <2>3
<1>4. QED
  BY <1>2, <1>3

\* The listening socket is armed again.
LEMMA Rearmed ==
    ASSUME IInv, Handles("accept", "A"),
           ring' = ring \union {Op("accept", Head(q).c, 0)},
           \A t \in X' : t.kind = "accept" <=> t \in Rest /\ t.kind = "accept",
           \A t \in Rest : t \in X',
           accepted' >= accepted, accepted' \in Nat,
           UNCHANGED timers
    PROVE  Ring' /\ Armed'
<1> DEFINE h == Head(q)
<1>1. /\ h.kind = "accept" /\ h \in X /\ h \in Message /\ Shape(h) /\ Rest = X \ {h}
      /\ \A t \in X : t \in Message /\ Shape(t)
  BY HeadFacts
<1>2. h.c \in Families
  BY <1>1 DEF Shape
<1>3. \A t \in Rest : t.kind = "accept" => t.c # h.c
  <2>1. \A t \in Rest : Apart(h, t)
    BY <1>1, Taken DEF IInv, Rel, Handles
  <2>2. QED
    BY <1>1, <2>1 DEF Apart
<1>4. Ring'
  <2>1. IsFiniteSet(ring')
    BY FS_AddElement DEF IInv, Ring
  <2>2. accepted \in Nat /\ \A o \in ring : o.op # "accept" => o.c \in 1 .. accepted'
    BY LandingAssumption DEF IInv, Ring, Tables
  <2>3. Len(timers) \in Nat
    BY DEF IInv, Records
  <2>4. QED
    BY <1>2, <2>1, <2>2, <2>3 DEF IInv, Ring, Op
<1>5. Armed'
  <2>1. SUFFICES ASSUME NEW f \in Families
                 PROVE  Op("accept", f, 0) \in ring'
                          <=> ~\E m \in X' : m.kind = "accept" /\ m.c = f
    BY DEF Armed
  <2>2. CASE f = h.c
    BY <1>3, <2>2
  <2>3. CASE f # h.c
    <3>1. Op("accept", f, 0) \in ring' <=> Op("accept", f, 0) \in ring
      BY <2>3 DEF Op
    <3>2. (\E m \in X' : m.kind = "accept" /\ m.c = f)
            <=> (\E m \in X : m.kind = "accept" /\ m.c = f)
      BY <1>1, <2>3
    <3>3. QED
      BY <3>1, <3>2 DEF IInv, Armed
  <2>4. QED
    BY <2>2, <2>3
<1>6. QED
  BY <1>4, <1>5

\* An accept that failed only arms the socket again.
LEMMA AcceptFailsKeeps ==
    ASSUME IInv, Accepted, Push(<<>>), UNCHANGED <<accepted, slots, indices>>
    PROVE  IInv'
<1> DEFINE h == Head(q)
<1>1. /\ Handles("accept", "A") /\ ring' = ring \union {Op("accept", h.c, 0)}
      /\ UNCHANGED <<objs, srv, http, timers, finished, hit, crashed>>
  BY DEF Accepted
<1>2. /\ q # <<>> /\ h.kind = "accept" /\ h.to = "A"
      /\ h \in X /\ h \in Message /\ Shape(h) /\ Rest = X \ {h}
  BY <1>1, HeadFacts
<1>3. Messages' /\ X' = Rest
  BY <1>1, <1>2, Swallows DEF IInv
<1>4. \A p \in X \union X' : p.kind # "accept" => (p \in X <=> p \in X')
  BY <1>2, <1>3
<1>5. Ring' /\ Armed'
  <2>1. accepted \in Nat
    BY LandingAssumption DEF IInv, Tables
  <2>2. QED
    BY <1>1, <1>3, <2>1, Rearmed
<1>6. Tables' /\ New' /\ Records'
  BY <1>1, TablesKept DEF IInv, New, Records
<1>7. Life' /\ Ends'
  BY <1>1, <1>4, LifeKept, EndsKept DEF IInv, Lasting
<1>8. Alone' /\ Flags' /\ Timers'
  BY <1>1, <1>2, <1>3 DEF IInv, Alone, Flags, Timers, Op
<1>9. Coverage'
  BY <1>1, <1>4 DEF IInv, Coverage, Covered, TimedOut
<1>10. NoTimeouts'
  BY <1>1, <1>2, <1>3 DEF IInv, NoTimeouts, InFlight, Orphans, Op
<1>11. QED
  BY <1>3, <1>5, <1>6, <1>7, <1>8, <1>9, <1>10 DEF IInv

\* A connection is made and started.
LEMMA AcceptsKeeps ==
    ASSUME IInv, Accepted, accepted < MaxConn,
           accepted' = accepted + 1,
           slots' = [i \in DOMAIN slots \union {Slot} |->
                        IF i = Slot THEN accepted + 1 ELSE slots[i]],
           indices' = [t \in DOMAIN indices \union {accepted + 1} |->
                          IF t = accepted + 1 THEN Slot ELSE indices[t]],
           Push(<<Call("S", "construct", accepted + 1), Call("S", "start", accepted + 1)>>)
    PROVE  IInv'
<1> DEFINE h == Head(q)
           c == accepted + 1
           m == Call("S", "construct", c)
           n == Call("S", "start", c)
<1>1. /\ Handles("accept", "A") /\ ring' = ring \union {Op("accept", h.c, 0)}
      /\ UNCHANGED <<objs, srv, http, timers, finished, hit, crashed>>
  BY DEF Accepted
<1>2. /\ q # <<>> /\ h.kind = "accept" /\ h.to = "A"
      /\ h \in X /\ h \in Message /\ Shape(h) /\ Rest = X \ {h}
      /\ \A t \in X : t \in Message /\ Shape(t)
  BY <1>1, HeadFacts
<1>3. /\ accepted \in Nat /\ c \in Conns /\ c > accepted /\ c \in 1 .. c /\ c # None
      /\ accepted' = c /\ c \in 0 .. MaxConn
  BY LandingAssumption DEF IInv, Tables, Conns, None
<1> HIDE DEF c
<1>4. /\ m \in Message /\ n \in Message /\ m # n
      /\ m.kind = "construct" /\ m.to = "S" /\ m.c = c /\ m.ok /\ ~Token(m)
      /\ n.kind = "start" /\ n.to = "S" /\ n.c = c
      /\ \A t : t = m \/ t = n => Shape(t)'
  <2>1. /\ m \in Message /\ n \in Message /\ m # n
        /\ m.kind = "construct" /\ m.to = "S" /\ m.c = c /\ m.ok /\ ~Token(m)
        /\ n.kind = "start" /\ n.to = "S" /\ n.c = c
    BY <1>3 DEF Message, Call, Msg, Token
  <2> HIDE DEF m, n
  <2>2. QED
    BY <1>3, <2>1 DEF Shape, Route
<1>5. \A t \in X : t.kind # "accept" => t.c \in 1 .. accepted /\ t.c # c
  BY <1>2, <1>3 DEF Shape
<1>6. /\ Slot \in 1 .. Len(slots) + 1 /\ Len(slots) \in Nat
      /\ Slot <= Len(slots) => slots[Slot] = None
      /\ slots \in Seq({None} \union Conns) /\ Len(slots) <= accepted
      /\ DOMAIN slots = 1 .. Len(slots)
  BY SlotIs DEF IInv, Tables
<1>7. /\ slots' \in Seq({None} \union Conns) /\ Len(slots') <= c /\ Len(slots') > 0
      /\ DOMAIN slots \subseteq DOMAIN slots' /\ Slot \in DOMAIN slots'
      /\ DOMAIN slots' = DOMAIN slots \union {Slot}
      /\ slots'[Slot] = c
      /\ \A i \in DOMAIN slots : i # Slot => slots'[i] = slots[i]
  <2> DEFINE k == IF Slot = Len(slots) + 1 THEN Len(slots) + 1 ELSE Len(slots)
  <2>1. 1 .. Len(slots) \union {Slot} = 1 .. k /\ k \in Nat /\ k > 0 /\ k <= c
    BY <1>3, <1>6 DEF c
  <2>2. slots' = [i \in 1 .. k |-> IF i = Slot THEN c ELSE slots[i]]
    BY <1>6, <2>1 DEF c
  <2> HIDE DEF k
  <2>3. \A i \in 1 .. k : i # Slot => i \in 1 .. Len(slots)
    BY <2>1
  <2>4. slots' \in [1 .. k -> {None} \union Conns]
    BY <1>3, <1>6, <2>2, <2>3
  <2>5. slots' \in Seq({None} \union Conns) /\ Len(slots') = k /\ DOMAIN slots' = 1 .. k
    BY <2>1, <2>4, BuiltSeq
  <2>6. QED
    BY <1>6, <2>1, <2>2, <2>5
<1>8. /\ DOMAIN indices' = DOMAIN indices \union {c} /\ indices'[c] = Slot
      /\ \A t \in DOMAIN indices : indices'[t] = indices[t] /\ t # c
      /\ DOMAIN indices \subseteq 1 .. accepted
      /\ \A t \in DOMAIN indices : indices[t] \in DOMAIN slots
      /\ indices' = [t \in DOMAIN indices' |-> indices'[t]]
  BY <1>3 DEF IInv, Tables, c
<1>9. Tables'
  <2>1. indices' \in [DOMAIN indices' -> DOMAIN slots']
    BY <1>7, <1>8
  <2>2. DOMAIN indices' \subseteq 1 .. c
    BY <1>3, <1>8 DEF c
  <2>3. \A i \in DOMAIN slots' : slots'[i] # None =>
            slots'[i] \in DOMAIN indices' /\ indices'[slots'[i]] = i
    <3>1. \A i \in DOMAIN slots : slots[i] # None =>
              slots[i] \in DOMAIN indices /\ indices[slots[i]] = i
      BY DEF IInv, Tables
    <3>2. QED
      BY <1>7, <1>8, <3>1
  <2>4. QED
    BY <1>3, <1>7, <2>1, <2>2, <2>3 DEF Tables
<1>10. /\ Orphans' = Orphans /\ Twice' = Twice
       /\ c \notin Orphans
       /\ \A d \in Conns : d # c => (Held(d)' <=> Held(d))
       /\ \A d : d = c => Held(d)'
  <2>1. \A t \in DOMAIN indices : slots'[indices[t]] = t <=> slots[indices[t]] = t
    <3>1. SUFFICES ASSUME NEW t \in DOMAIN indices
                   PROVE  slots'[indices[t]] = t <=> slots[indices[t]] = t
      OBVIOUS
    <3>2. indices[t] \in DOMAIN slots /\ t # c /\ t # None
      BY <1>8 DEF None
    <3>3. QED
      BY <1>6, <1>7, <3>2
  <2>2. Orphans' = Orphans
    BY <1>7, <1>8, <2>1 DEF Orphans
  <2>3. \A d \in Conns : d # c => (Held(d)' <=> Held(d))
    <3>1. \A d \in Conns : d # None
      BY DEF Conns, None
    <3>2. QED
      BY <1>6, <1>7, <3>1 DEF Held, Elems
  <2>4. QED
    BY <1>1, <1>7, <1>8, <2>2, <2>3 DEF Twice, Orphans, Held, Elems
<1>11. \A t \in Rest : ~(t.kind = "done" /\ t.to = "A" /\ t.c \in Orphans)
  <2>1. ASSUME NEW t \in Rest, t.kind = "done", t.to = "A", t.c \in Orphans
        PROVE  FALSE
    <3>1. Rel(h, t, Twice, Orphans)
      BY <1>2, Taken DEF IInv
    <3>2. Lo(t, Twice, Orphans) = 3 /\ Hi(h) = 0
      BY <1>2, <2>1 DEF Lo, Hi
    <3>3. QED
      BY <3>1, <3>2 DEF Rel
  <2>2. QED
    BY <2>1
<1> HIDE DEF m, n
<1>12. Messages' /\ X' = Rest \union {m, n}
  <2>1. /\ Tail(q) \in Seq(Message) /\ Row(Tail(q), Twice, Orphans)
        /\ \A t \in Rest : Rel(h, t, Twice, Orphans)
    BY <1>2, TailElems, Taken DEF IInv, Messages
  <2>2. /\ Lo(m, Twice, Orphans) = 1 /\ Lo(n, Twice, Orphans) = 1
        /\ Hi(m) = 1 /\ Hi(n) = 1 /\ Lo(h, Twice, Orphans) = 0 /\ Hi(h) = 0
    BY <1>2, <1>4 DEF Lo, Hi, Lvl
  <2>3. Rel(m, n, Twice, Orphans)
    BY <1>4, <2>2 DEF Rel, Apart, Token
  <2>4. \A t \in Rest : Apart(t, m) /\ Apart(t, n)
    BY <1>2, <1>4, <1>5 DEF Apart
  <2>5. \A t \in Rest, p \in {m, n} : Rel(t, p, Twice, Orphans)
    BY <2>1, <2>2, <2>4, Behind
  <2>6. /\ <<m, n>> \in Seq(Message) /\ Elems(<<m, n>>) = {m, n}
        /\ Row(<<m, n>>, Twice, Orphans)
    BY <1>4, <2>3, Turns
  <2>7. q' = Tail(q) \o <<m, n>>
    BY DEF Push, m, n, c
  <2>8. /\ q' \in Seq(Message) /\ X' = Rest \union {m, n}
        /\ Row(q', Twice, Orphans)
    <3>1. \A t \in Elems(Tail(q)), p \in Elems(<<m, n>>) : Rel(t, p, Twice, Orphans)
      BY <2>5, <2>6 DEF Rest
    <3>2. QED
      BY <2>1, <2>6, <2>7, <3>1, ConcatElems DEF X, Rest
  <2>9. \A t \in X' : Shape(t)'
    <3>1. \A t \in Rest : Shape(t)'
      BY <1>2, <1>3, <1>5 DEF Shape, c
    <3>2. QED
      BY <1>4, <2>8, <3>1
  <2>10. QED
    BY <1>10, <2>8, <2>9 DEF Messages
<1>13. /\ m \in X' /\ n \in X' /\ m \notin X /\ n \notin X
       /\ \A p \in X \union X' : p.kind # "accept" /\ p.c # c => (p \in X <=> p \in X')
       /\ \A p \in X' : p.kind # "accept" /\ p.c = c => p = m \/ p = n
       /\ \A p \in X' : p = m \/ p = n \/ p \in X
  BY <1>2, <1>4, <1>5, <1>12
<1>14. Ring' /\ Armed'
  <2>1. accepted' \in Nat /\ accepted' >= accepted
    BY <1>3
  <2>2. QED
    BY <1>1, <1>4, <1>12, <2>1, Rearmed
<1>15. /\ c \notin DOMAIN indices /\ objs[c] = {} /\ finished[c] = 0
       /\ ~srv[c].reading /\ srv[c].timer = 0
  BY <1>3, <1>8 DEF IInv, New
<1>16. Records' /\ New'
  <2>1. \A d \in Conns : d > accepted' => d > accepted
    BY <1>3 DEF Conns, c
  <2>2. QED
    BY <1>1, <2>1 DEF IInv, Records, New
<1>17. Alone'
  <2>1. \A o \in ring : o.op # "accept" => o.c # c
    BY <1>3 DEF IInv, Ring
  <2>2. QED
    BY <1>1, <1>4, <1>13, <2>1 DEF IInv, Alone, Op
<1>18. Flags'
  BY <1>1, <1>4, <1>13, <1>15 DEF IInv, Flags, Op
<1>19. Timers'
  <2>1. \A o \in ring' : o.n # 0 => o \in ring
    BY <1>1 DEF Op
  <2>2. QED
    BY <1>1, <1>4, <1>13, <2>1 DEF IInv, Timers
<1>20. Coverage'
  <2>1. \A d : TimedOut(d) => TimedOut(d)'
    BY <1>2, <1>12 DEF TimedOut
  <2>2. QED
    BY <1>1, <2>1 DEF IInv, Coverage, Covered
<1>21. NoTimeouts'
  <2>1. \A d \in Conns : finished[d] > 0 => d # c
    BY <1>15
  <2>2. \A d : InFlight(d)' <=> InFlight(d)
    BY <1>1 DEF InFlight, Op
  <2>3. QED
    BY <1>1, <1>4, <1>10, <1>13, <2>1, <2>2 DEF IInv, NoTimeouts, Op
<1>22. \A d \in Conns : d # c => (LifeOf(d)' /\ EndsOf(d)')
  <2>1. SUFFICES ASSUME NEW d \in Conns, d # c
                 PROVE  LifeOf(d)' /\ EndsOf(d)'
    OBVIOUS
  <2>2. LifeOf(d) /\ EndsOf(d)
    BY DEF IInv, Life, Ends
  <2>3. \A p \in X \union X' : p.kind # "accept" /\ p.c = d => (p \in X <=> p \in X')
    BY <1>13, <2>1
  <2>4. d <= accepted' => d <= accepted
    BY <1>3, <2>1 DEF Conns, c
  <2>5. ~(Told(d) /\ d \in Orphans')
    BY <1>2, <1>10, <1>11 DEF Told
  <2>6. QED
    BY <1>1, <1>8, <1>10, <2>1, <2>2, <2>3, <2>4, <2>5, Elsewhere
<1>23. \A d \in Conns : d = c => (LifeOf(d)' /\ EndsOf(d)')
  <2>1. SUFFICES ASSUME NEW d \in Conns, d = c
                 PROVE  LifeOf(d)' /\ EndsOf(d)'
    OBVIOUS
  <2>2. \A w : /\ Con(w, d)' <=> w = "S"
               /\ ~Del(w, d)'
    BY <1>13, <2>1 DEF Con, Del, Call, Msg, m, n
  <2>3. ~Told(d)' /\ ~TimedOut(d)'
    BY <1>4, <1>13, <2>1 DEF Told, TimedOut
  <2>4. Held(d)' /\ objs'[d] = {} /\ finished'[d] = 0 /\ d \in DOMAIN indices'
    BY <1>1, <1>8, <1>10, <1>15, <2>1
  <2>5. m \in X' /\ m.c = d /\ m.kind = "construct"
    BY <1>4, <1>13, <2>1
  <2>6. LifeOf(d)'
    BY <2>2, <2>4, <2>5 DEF LifeOf
  <2>7. EndsOf(d)'
    BY <2>2, <2>3, <2>4 DEF EndsOf
  <2>8. QED
    BY <2>6, <2>7
<1>24. QED
  BY <1>9, <1>12, <1>14, <1>16, <1>17, <1>18, <1>19, <1>20, <1>21, <1>22, <1>23
     DEF IInv, Life, Ends

\* on_yield of an accept, whatever it brings.
LEMMA AcceptedKeeps ==
    ASSUME IInv, Accepted
    PROVE  IInv'
<1>1. CASE Head(q).ok /\ accepted < MaxConn
  BY <1>1, AcceptsKeeps DEF Accepted
<1>2. CASE ~(Head(q).ok /\ accepted < MaxConn)
  BY <1>2, AcceptFailsKeeps DEF Accepted
<1>3. QED
  BY <1>1, <1>2

\* When the slot that a completion leads to is empty, on_yield throws: nothing
\* else happens, and never without timeouts.
LEMMA ReleaseThrows ==
    ASSUME IInv, Handles("done", "A"), NEW i \in DOMAIN slots, slots[i] = None,
           i = IF Head(q).c \in DOMAIN indices THEN indices[Head(q).c] ELSE 1,
           crashed' = TRUE,
           UNCHANGED <<q, ring, slots, indices, accepted, objs, srv, http, timers,
                       finished, hit>>
    PROVE  IInv'
<1> DEFINE c == Head(q).c
<1>1. Head(q) \in X /\ c \in Conns /\ Told(c)
  BY HeadFacts DEF Told
<1>2. Timeouts
  <2>1. SUFFICES ASSUME ~Timeouts PROVE FALSE
    OBVIOUS
  <2>2. finished[c] = 1 /\ c \in DOMAIN indices
    BY <1>1, <2>1 DEF IInv, NoTimeouts, Ends, EndsOf
  <2>3. c \notin Orphans
    BY <2>1 DEF IInv, NoTimeouts
  <2>4. slots[indices[c]] = c /\ c # None
    BY <1>1, <2>2, <2>3 DEF Orphans, Conns, None
  <2>5. QED
    BY <2>2, <2>4
<1>3. X' = X /\ Twice' = Twice /\ Orphans' = Orphans
  BY DEF X, Twice, Orphans
<1>4. Messages'
  BY <1>3 DEF IInv, Messages, Shape
<1>5. Ring' /\ Armed' /\ Alone' /\ Tables' /\ Records' /\ New' /\ Flags' /\ Timers'
  BY <1>3, TablesKept DEF IInv, Ring, Armed, Alone, Records, New, Flags, Timers
<1>6. Coverage'
  BY <1>3 DEF IInv, Coverage, Covered, TimedOut
<1>7. Life' /\ Ends'
  BY <1>3, LifeKept, EndsKept DEF IInv
<1>8. NoTimeouts'
  BY <1>2 DEF NoTimeouts
<1>9. QED
  BY <1>4, <1>5, <1>6, <1>7, <1>8 DEF IInv

\* Waves may rise to 3 when only messages of wave 3 and later are queued.
LEMMA RowRaised ==
    ASSUME NEW Q, NEW L, NEW O, NEW O2, Row(Q, L, O),
           \A i \in 1 .. Len(Q) : /\ Hi(Q[i]) >= 3
                                  /\ \/ Lo(Q[i], L, O2) = Lo(Q[i], L, O)
                                     \/ Lo(Q[i], L, O2) = 3
    PROVE  Row(Q, L, O2)
<1>1. \A m : Hi(m) \in 0 .. 9 /\ Lo(m, L, O) \in 0 .. 4 /\ Lo(m, L, O2) \in 0 .. 4
  BY DEF Hi, Lo, Lvl
<1>2. SUFFICES ASSUME NEW i \in 1 .. Len(Q), NEW j \in 1 .. Len(Q), i < j
               PROVE  Rel(Q[i], Q[j], L, O2)
  BY DEF Row
<1>3. /\ Apart(Q[i], Q[j]) /\ Lo(Q[i], L, O) <= Hi(Q[j])
      /\ Lo(Q[j], L, O) <= Hi(Q[i]) + 1
  BY <1>2 DEF Row, Rel
<1>4. Lo(Q[i], L, O2) <= Hi(Q[j]) /\ Lo(Q[j], L, O2) <= Hi(Q[i]) + 1
  BY <1>1, <1>3
<1>5. QED
  BY <1>3, <1>4 DEF Rel

\* A connection's slot is emptied: its own (i is its index), or the first one's
\* for a task the acceptor does not know any more.
LEMMA FreesSlot ==
    ASSUME IInv, Handles("done", "A"), NEW i \in DOMAIN slots, NEW d,
           slots[i] = d, d # None,
           i = IF Head(q).c \in DOMAIN indices THEN indices[Head(q).c] ELSE 1,
           slots' = [slots EXCEPT ![i] = None],
           indices' = [t \in DOMAIN indices \ {Head(q).c} |-> indices[t]],
           Push(<<Call("S", "delete", d)>>),
           UNCHANGED <<ring, accepted, objs, srv, http, timers, finished, hit, crashed>>
    PROVE  IInv'
<1> DEFINE h == Head(q)
           c == h.c
           m == Call("S", "delete", d)
<1>1. /\ q # <<>> /\ h.kind = "done" /\ h.to = "A"
      /\ h \in X /\ h \in Message /\ Shape(h) /\ Rest = X \ {h}
      /\ \A t \in X : t \in Message /\ Shape(t)
      /\ c \in 1 .. accepted /\ c \in Conns /\ Told(c)
  BY HeadFacts DEF Told
<1>2. /\ slots \in Seq({None} \union Conns) /\ DOMAIN slots = 1 .. Len(slots)
      /\ Len(slots) \in Nat /\ d \in Conns
      /\ d \in DOMAIN indices /\ indices[d] = i /\ Held(d) /\ d \notin Orphans
      /\ d \in 1 .. accepted
  <2>1. d \in DOMAIN indices /\ indices[d] = i
    BY DEF IInv, Tables
  <2>2. slots \in Seq({None} \union Conns) /\ Len(slots) \in Nat /\ DOMAIN slots = 1 .. Len(slots)
    BY DEF IInv, Tables
  <2>3. d \in Conns
    BY <2>2
  <2>4. QED
    BY <2>1, <2>2, <2>3 DEF Held, Elems, Orphans, IInv, Tables
<1>3. finished[c] \in 1 .. 2 /\ EndsOf(c) /\ EndsOf(d) /\ LifeOf(d) /\ LifeOf(c)
  BY <1>1, <1>2 DEF IInv, Records, Ends, EndsOf, Life
<1>4. \/ c = d
      \/ /\ c \notin DOMAIN indices /\ c # d /\ finished[c] = 2 /\ c \in Twice
         /\ Lo(h, Twice, Orphans) = 3 /\ Lo(h, Twice, Orphans') = 3 /\ i = 1
  <2>1. CASE c \in DOMAIN indices
    <3>1. slots[indices[c]] # None
      BY <2>1
    <3>2. c \notin Orphans
      BY <1>1, <1>3, <3>1 DEF EndsOf
    <3>3. QED
      BY <2>1, <3>2 DEF Orphans
  <2>2. CASE c \notin DOMAIN indices
    <3>1. finished[c] = 2
      BY <1>1, <1>3, <2>2 DEF EndsOf
    <3>2. c \in Twice
      BY <1>1, <3>1 DEF Twice
    <3>3. QED
      BY <1>1, <1>2, <2>2, <3>1, <3>2 DEF Lo
  <2>3. QED
    BY <2>1, <2>2
<1>5. \A t \in Rest : Rel(h, t, Twice, Orphans)
  BY <1>1, Taken DEF IInv
<1>6. \A t \in Rest : ~(t.kind = "done" /\ t.to = "A" /\ t.c = c)
  BY <1>1, <1>5 DEF Rel, Apart
<1>7. c # d => \A t \in X : Hi(t) >= 3
  <2>1. \A t \in Rest : Lo(h, Twice, Orphans) <= Hi(t)
    BY <1>5 DEF Rel
  <2>2. Hi(h) = 3
    BY <1>1 DEF Hi
  <2>3. QED
    BY <1>1, <1>4, <2>1, <2>2
<1>8. /\ \A w : ~Del(w, d) \/ w \notin {"S", "H", "B"}
      /\ ~Con("S", d) /\ ~Con("H", d)
  <2>1. \A w : ~Del(w, d) \/ w \notin {"S", "H", "B"}
    BY <1>2, <1>3 DEF LifeOf
  <2>2. CASE c = d
    BY <1>3, <2>1, <2>2 DEF EndsOf
  <2>3. CASE c # d
    <3>1. /\ Hi(Call("S", "construct", d)) = 1 /\ Hi(Call("H", "construct", d)) = 2
      BY DEF Hi, Lvl, Call, Msg
    <3>2. QED
      BY <1>7, <2>1, <2>3, <3>1 DEF Con
  <2>4. QED
    BY <2>2, <2>3
<1>9. \A t \in Rest : t.c = d /\ t.kind # "accept" =>
          /\ t.kind # "delete"
          /\ t.kind = "construct" => t.to = "B" /\ Con("B", d)
  <2>1. SUFFICES ASSUME NEW t \in Rest, t.c = d, t.kind # "accept"
                 PROVE  /\ t.kind # "delete"
                        /\ t.kind = "construct" => t.to = "B" /\ Con("B", d)
    OBVIOUS
  <2>2. t \in X /\ t \in Message /\ Shape(t)
    BY <1>1
  <2>3. ASSUME t.kind \in {"construct", "delete"}
        PROVE  t = Call(t.to, t.kind, d) /\ t.to \in {"S", "H", "B"}
    BY <2>1, <2>2, <2>3 DEF Message, Shape, Route, Call, Msg
  <2>4. QED
    BY <1>8, <2>2, <2>3 DEF Con, Del
<1>10. Orphans' = Orphans \union (IF c = d THEN {} ELSE {d})
  <2>1. \A e \in DOMAIN indices' : indices'[e] = indices[e] /\ e # c
    OBVIOUS
  <2>2. DOMAIN indices' = DOMAIN indices \ {c}
    OBVIOUS
  <2>3. \A e \in DOMAIN indices : e # None /\ e # d =>
           (slots'[indices[e]] # e <=> slots[indices[e]] # e)
    <3>1. \A e \in DOMAIN indices : indices[e] \in DOMAIN slots
      BY DEF IInv, Tables
    <3>2. QED
      BY <3>1
  <2>4. \A e \in DOMAIN indices : e # None
    BY LandingAssumption DEF IInv, Tables, None
  <2>5. slots'[i] = None
    OBVIOUS
  <2>6. CASE c = d
    BY <1>2, <2>1, <2>2, <2>3, <2>4, <2>6 DEF Orphans
  <2>7. CASE c # d
    <3>1. c \notin DOMAIN indices /\ d \in DOMAIN indices' /\ slots'[indices'[d]] # d
      BY <1>2, <1>4, <2>1, <2>2, <2>5, <2>7
    <3>2. QED
      BY <2>1, <2>2, <2>3, <2>4, <2>7, <3>1 DEF Orphans
  <2>8. QED
    BY <2>6, <2>7
<1>11. /\ \A e \in Conns : Held(e)' <=> Held(e) /\ e # d
       /\ Tables'
  <2>1. /\ DOMAIN slots' = DOMAIN slots /\ Len(slots') = Len(slots)
        /\ slots' \in Seq({None} \union Conns) /\ slots'[i] = None
        /\ \A j \in DOMAIN slots : j # i => slots'[j] = slots[j]
    BY <1>2
  <2>2. \A e \in Conns : Held(e) => e \in DOMAIN indices /\ slots[indices[e]] = e
    BY HeldKnown DEF IInv, Orphans
  <2>3. ASSUME NEW e \in Conns
        PROVE  Held(e)' <=> Held(e) /\ e # d
    <3>1. e # None
      BY DEF Conns, None
    <3>2. ASSUME NEW j \in DOMAIN slots, slots[j] = d
          PROVE  j = i
      BY <1>2, <3>2 DEF IInv, Tables
    <3>3. QED
      BY <2>1, <3>1, <3>2 DEF Held, Elems
  <2>4. Tables'
    <3>1. /\ indices' \in [DOMAIN indices' -> DOMAIN slots']
          /\ DOMAIN indices' \subseteq 1 .. accepted
      BY <2>1 DEF IInv, Tables
    <3>2. ASSUME NEW j \in DOMAIN slots', slots'[j] # None
          PROVE  slots'[j] \in DOMAIN indices' /\ indices'[slots'[j]] = j
      <4>1. j # i /\ j \in DOMAIN slots /\ slots'[j] = slots[j]
        BY <2>1, <3>2
      <4>2. slots[j] \in DOMAIN indices /\ indices[slots[j]] = j
        BY <3>2, <4>1 DEF IInv, Tables
      <4>3. slots[j] # c
        BY <1>2, <1>4, <4>1, <4>2
      <4>4. QED
        BY <4>1, <4>2, <4>3
    <3>3. QED
      BY <2>1, <3>1, <3>2 DEF IInv, Tables
  <2>5. QED
    BY <2>3, <2>4
<1> HIDE DEF m
<1>12. Row(Tail(q), Twice, Orphans') /\ \A t \in Rest : Rel(h, t, Twice, Orphans')
  <2>1. Row(Tail(q), Twice, Orphans) /\ Tail(q) \in Seq(Message)
    BY <1>1, TailElems DEF IInv, Messages
  <2>2. CASE c = d
    BY <1>5, <1>10, <2>1, <2>2
  <2>3. CASE c # d
    <3>1. ASSUME NEW t \in Rest
          PROVE  /\ Hi(t) >= 3 /\ Hi(t) \in 0 .. 9 /\ Lo(t, Twice, Orphans') \in 0 .. 4
                 /\ \/ Lo(t, Twice, Orphans') = Lo(t, Twice, Orphans)
                    \/ Lo(t, Twice, Orphans') = 3
      <4>1. Hi(t) >= 3
        BY <1>1, <1>7, <2>3
      <4>2. Hi(t) \in 0 .. 9 /\ Lo(t, Twice, Orphans') \in 0 .. 4
        BY DEF Hi, Lo, Lvl
      <4>3. t.c # d => Lo(t, Twice, Orphans') = Lo(t, Twice, Orphans)
        BY <1>10, <2>3 DEF Lo
      <4>4. t.c = d => \/ Lo(t, Twice, Orphans') = Lo(t, Twice, Orphans)
                       \/ Lo(t, Twice, Orphans') = 3
        <5>1. t.c = d => t.kind # "delete"
          BY <1>9
        <5>2. QED
          BY <1>10, <2>3, <5>1 DEF Lo
      <4>5. QED
        BY <4>1, <4>2, <4>3, <4>4
    <3>2. \A k \in 1 .. Len(Tail(q)) : Tail(q)[k] \in Rest
      BY <2>1 DEF Rest, Elems
    <3>3. Row(Tail(q), Twice, Orphans')
      BY <2>1, <3>1, <3>2, RowRaised
    <3>4. ASSUME NEW t \in Rest
          PROVE  Rel(h, t, Twice, Orphans')
      <4>1. Apart(h, t)
        BY <1>5 DEF Rel
      <4>2. Hi(h) = 3 /\ Lo(h, Twice, Orphans') = 3
        BY <1>1, <1>4, <2>3 DEF Hi
      <4>3. QED
        BY <3>1, <4>1, <4>2 DEF Rel
    <3>5. QED
      BY <3>3, <3>4
  <2>4. QED
    BY <2>2, <2>3
<1>13. /\ m \in Message /\ Shape(m) /\ ~Token(m)
       /\ m.kind = "delete" /\ m.to = "S" /\ m.c = d /\ m.ok
  BY <1>2 DEF Message, Shape, Route, Call, Msg, Token, m
<1>14. Messages' /\ X' = Rest \union {m}
  <2>1. ASSUME NEW t \in Rest
        PROVE  Rel(t, m, Twice, Orphans')
    <3>1. Apart(t, m)
      BY <1>9, <1>13 DEF Apart
    <3>2. Lo(m, Twice, Orphans') <= Lo(h, Twice, Orphans') + 1
      <4>1. CASE c = d
        <5>1. Lo(m, Twice, Orphans') = 0
          BY <1>2, <1>10, <1>13, <4>1 DEF Lo
        <5>2. Lo(h, Twice, Orphans') \in 0 .. 4
          BY DEF Lo, Lvl
        <5>3. QED
          BY <5>1, <5>2
      <4>2. CASE c # d
        <5>1. Lo(m, Twice, Orphans') = 4
          BY <1>10, <1>13, <4>2 DEF Lo
        <5>2. QED
          BY <1>4, <4>2, <5>1
      <4>3. QED
        BY <4>1, <4>2
    <3>3. Hi(m) = 9
      BY <1>13 DEF Hi
    <3>4. QED
      BY <1>12, <3>1, <3>2, <3>3, Behind
  <2>2. q' \in Seq(Message) /\ X' = Rest \union {m} /\ Row(q', Twice, Orphans')
    BY <1>1, <1>12, <1>13, <2>1, Pushed DEF IInv, m
  <2>3. Twice' = Twice
    BY DEF Twice
  <2>4. \A t \in X' : Shape(t)'
    BY <1>1, <1>13, <2>2 DEF Shape
  <2>5. QED
    BY <2>2, <2>3, <2>4 DEF Messages
<1>15. /\ \A p \in X \union X' : p.kind \notin {"done", "delete"} => (p \in X <=> p \in X')
       /\ \A p \in X' : p = m \/ p \in X
       /\ \A p \in X \union X' : p.c # c /\ p.c # d => (p \in X <=> p \in X')
       /\ m \in X'
  BY <1>1, <1>13, <1>14
<1>16. Ring' /\ New' /\ Records'
  BY DEF IInv, Ring, New, Records
<1>17. Armed'
  BY <1>15, ArmedKept DEF IInv
<1>18. Alone' /\ Flags' /\ Timers'
  BY <1>13, <1>15 DEF IInv, Alone, Flags, Timers
<1>19. Coverage'
  BY <1>15 DEF IInv, Coverage, Covered, TimedOut
<1>20. NoTimeouts'
  <2>1. SUFFICES ASSUME ~Timeouts PROVE NoTimeouts'
    BY DEF NoTimeouts
  <2>2. c = d
    BY <1>1, <1>3, <1>4, <2>1 DEF IInv, NoTimeouts
  <2>3. \A e : InFlight(e)' <=> InFlight(e)
    BY DEF InFlight
  <2>4. Orphans' = Orphans
    BY <1>10, <2>2
  <2>5. QED
    BY <1>13, <1>15, <2>1, <2>3, <2>4 DEF IInv, NoTimeouts
<1>21. \A w, e : /\ Call(w, "delete", e).kind = "delete"
                 /\ Call(w, "construct", e).kind = "construct"
                 /\ Call(w, "delete", e).c = e /\ Call(w, "construct", e).c = e
                 /\ Call(w, "delete", e).to = w
  BY DEF Call, Msg
<1>22. \A e \in Conns : e # c /\ e # d => (LifeOf(e)' /\ EndsOf(e)')
  <2>1. SUFFICES ASSUME NEW e \in Conns, e # c, e # d
                 PROVE  LifeOf(e)' /\ EndsOf(e)'
    OBVIOUS
  <2>2. LifeOf(e) /\ EndsOf(e)
    BY DEF IInv, Life, Ends
  <2>3. \A p \in X \union X' : p.c = e => (p \in X <=> p \in X')
    BY <1>15, <2>1
  <2>4. Held(e)' <=> Held(e)
    BY <1>11, <2>1
  <2>5. Told(e) /\ e \in Orphans' => slots'[indices'[e]] = None
    <3>1. SUFFICES ASSUME Told(e), e \in Orphans'
                   PROVE  slots'[indices'[e]] = None
      OBVIOUS
    <3>2. e \in Orphans
      BY <1>10, <2>1, <3>1
    <3>3. /\ slots[indices[e]] = None /\ e \in DOMAIN indices
          /\ indices[e] \in DOMAIN slots
      BY <2>2, <3>1, <3>2 DEF EndsOf, Orphans, IInv, Tables
    <3>4. indices'[e] = indices[e]
      BY <2>1, <3>3
    <3>5. QED
      BY <3>3, <3>4
  <2>6. e \in DOMAIN indices => e \in DOMAIN indices'
    BY <2>1
  <2>7. QED
    BY <2>1, <2>2, <2>3, <2>4, <2>5, <2>6, Elsewhere
<1>23. \A e \in Conns : e = c /\ e # d => (LifeOf(e)' /\ EndsOf(e)')
  <2>1. SUFFICES ASSUME NEW e \in Conns, e = c, e # d
                 PROVE  LifeOf(e)' /\ EndsOf(e)'
    OBVIOUS
  <2>2. \A w : (Con(w, e)' <=> Con(w, c)) /\ (Del(w, e)' <=> Del(w, c))
    BY <1>1, <1>13, <1>14, <1>21, <2>1 DEF Con, Del
  <2>3. (\A p \in X' : p.c = e => p.kind \notin {"construct", "delete"})
          => (\A p \in X : p.c = c => p.kind \notin {"construct", "delete"})
    BY <1>1, <1>14, <2>1
  <2>4. ~Held(c) /\ ~Held(e)'
    <3>1. ~Held(c)
      BY <1>1, <1>4, <2>1, HeldKnown DEF IInv
    <3>2. QED
      BY <1>11, <2>1, <3>1
  <2>5. LifeOf(e)'
    BY <1>3, <2>1, <2>2, <2>3, <2>4 DEF LifeOf
  <2>6. ~Told(e)'
    BY <1>6, <1>13, <1>14, <2>1 DEF Told
  <2>7. TimedOut(e)' <=> TimedOut(c)
    BY <1>15, <2>1 DEF TimedOut
  <2>8. "S" \in objs[c] => Del("S", c)
    BY <1>1, <1>3, <2>4, LifeCases DEF IInv, LifeOf
  <2>9. EndsOf(e)'
    BY <1>3, <1>4, <2>1, <2>2, <2>6, <2>7, <2>8 DEF EndsOf
  <2>10. QED
    BY <2>5, <2>9
<1>24. LifeOf(d)' /\ EndsOf(d)'
  <2>1. \A w : (Con(w, d)' <=> Con(w, d)) /\ (Del(w, d)' <=> Del(w, d) \/ w = "S")
    <3>1. \A w : Call(w, "delete", d) = m <=> w = "S"
      BY <1>21 DEF m
    <3>2. \A w : Call(w, "construct", d) # m
      BY <1>13, <1>21
    <3>3. QED
      BY <1>1, <1>14, <1>21, <3>1, <3>2 DEF Con, Del
  <2>2. Con("B", d) \/ objs[d] = {"S", "H", "B"}
    BY <1>1, <1>2, <1>8, LifeCases DEF IInv
  <2>3. Con("B", d) => objs[d] = {"S", "H"}
    BY <1>3 DEF LifeOf
  <2>4. ~Held(d)'
    BY <1>2, <1>11
  <2>5. m \in X' /\ m.c = d /\ m.kind = "delete"
    BY <1>13, <1>15
  <2>6. LifeOf(d)'
    BY <1>8, <2>1, <2>2, <2>3, <2>4, <2>5 DEF LifeOf
  <2>7. Told(d)' => Told(d) /\ c # d
    BY <1>6, <1>13, <1>14, <1>15 DEF Told
  <2>8. TimedOut(d)' <=> TimedOut(d)
    BY <1>15 DEF TimedOut
  <2>9. c # d => d \in DOMAIN indices' /\ slots'[indices'[d]] = None
    BY <1>2
  <2>10. EndsOf(d)'
    BY <1>3, <2>1, <2>7, <2>8, <2>9 DEF EndsOf
  <2>11. QED
    BY <2>6, <2>10
<1>25. QED
  BY <1>11, <1>14, <1>16, <1>17, <1>18, <1>19, <1>20, <1>22, <1>23, <1>24
     DEF IInv, Life, Ends

\* on_yield of a completion: the slot is emptied, or d() throws.
LEMMA ReleasedKeeps ==
    ASSUME IInv, Released
    PROVE  IInv'
<1> DEFINE c == Head(q).c
           i == IF c \in DOMAIN indices THEN indices[c] ELSE 1
<1>1. Handles("done", "A") /\ c \in 1 .. accepted
  BY HeadFacts DEF Released
<1>2. i \in DOMAIN slots
  <2>1. Len(slots) > 0 /\ Len(slots) \in Nat /\ DOMAIN slots = 1 .. Len(slots)
    BY <1>1, LandingAssumption DEF IInv, Tables
  <2>2. c \in DOMAIN indices => indices[c] \in DOMAIN slots
    BY DEF IInv, Tables
  <2>3. QED
    BY <2>1, <2>2
<1>3. CASE slots[i] = None
  BY <1>1, <1>2, <1>3, ReleaseThrows DEF Released
<1>4. CASE slots[i] # None
  BY <1>1, <1>2, <1>4, FreesSlot DEF Released
<1>5. QED
  BY <1>3, <1>4
-----------------------------------------------------------------------------
(* process_uring reaps.                                                     *)

\* What a completion says, and that it says it apart from those of the other
\* operations.
LEMMA CompletionIs ==
    ASSUME IInv, NEW o \in ring, NEW ok \in BOOLEAN
    PROVE  LET m == Completion(o, ok) IN
           /\ m \in Message /\ Shape(m) /\ m.c = o.c
           /\ Lo(m, Twice, Orphans) = 0
           /\ m.kind = IF o.n = 0 THEN o.op ELSE "timeout"
           /\ m.to = IF o.op = "accept" THEN "A" ELSE IF o.n = 0 THEN "B" ELSE "S"
           /\ m.kind \in {"accept", "recv", "send", "timeout"}
<1> DEFINE m == Completion(o, ok)
<1>1. /\ o.op \in {"accept", "recv", "send", "timer", "expired"}
      /\ o.n = 0 <=> o.op \in {"accept", "recv", "send"}
      /\ o.op = "accept" => o.c \in Families
      /\ o.op # "accept" => o.c \in 1 .. accepted
      /\ 1 .. accepted \subseteq Conns
  BY LandingAssumption DEF IInv, Ring, Tables, Conns
<1>2. CASE o.n = 0
  <2>1. m = Msg(o.op, Receiver(o), o.c, ok)
    BY <1>2 DEF Completion
  <2>2. QED
    BY <1>1, <1>2, <2>1 DEF Receiver, Msg, Message, Shape, Route, Lo
<1>3. CASE o.n # 0
  <2>1. m = Msg("timeout", "S", o.c, FALSE)
    BY <1>3 DEF Completion
  <2>2. QED
    BY <1>1, <1>3, <2>1 DEF Msg, Message, Shape, Route, Lo
<1>4. QED
  BY <1>2, <1>3

\* The completions of two operations can be queued in either order.
LEMMA CompletionsApart ==
    ASSUME IInv, NEW o \in ring, NEW p \in ring, o # p,
           NEW k \in BOOLEAN, NEW l \in BOOLEAN
    PROVE  Rel(Completion(o, k), Completion(p, l), Twice, Orphans)
<1> DEFINE m == Completion(o, k)
           n == Completion(p, l)
<1>1. /\ m.c = o.c /\ Lo(m, Twice, Orphans) = 0
      /\ m.kind = IF o.n = 0 THEN o.op ELSE "timeout"
      /\ m.to = IF o.op = "accept" THEN "A" ELSE IF o.n = 0 THEN "B" ELSE "S"
      /\ m.kind \in {"accept", "recv", "send", "timeout"}
  BY CompletionIs
<1>2. /\ n.c = p.c /\ Lo(n, Twice, Orphans) = 0
      /\ n.kind = IF p.n = 0 THEN p.op ELSE "timeout"
      /\ n.to = IF p.op = "accept" THEN "A" ELSE IF p.n = 0 THEN "B" ELSE "S"
      /\ n.kind \in {"accept", "recv", "send", "timeout"}
  BY CompletionIs
<1> HIDE DEF m, n
<1>3. /\ o = Op(o.op, o.c, o.n) /\ p = Op(p.op, p.c, p.n)
      /\ o.n = 0 <=> o.op \in {"accept", "recv", "send"}
      /\ p.n = 0 <=> p.op \in {"accept", "recv", "send"}
  BY DEF IInv, Ring
<1>4. ASSUME o.c = p.c, m.kind = "accept" <=> n.kind = "accept"
      PROVE  /\ m.kind # "accept" /\ ~(Token(m) /\ Token(n))
             /\ ~(m.kind = "timeout" /\ n.kind = "timeout")
  <2>1. ~(m.kind = "accept" /\ n.kind = "accept")
    BY <1>1, <1>2, <1>3, <1>4 DEF Op
  <2>2. ~(o.op \in {"recv", "send"} /\ p.op \in {"recv", "send"})
    BY <1>4 DEF IInv, Alone
  <2>3. ~(o.n # 0 /\ p.n # 0)
    BY <1>4 DEF IInv, Timers
  <2>4. QED
    BY <1>1, <1>2, <1>3, <1>4, <2>1, <2>2, <2>3 DEF Token
<1>5. Apart(m, n)
  BY <1>1, <1>2, <1>3, <1>4 DEF Apart
<1>6. Hi(m) \in 0 .. 9 /\ Hi(n) \in 0 .. 9
  BY DEF Hi, Lvl
<1>7. QED
  BY <1>1, <1>2, <1>5, <1>6 DEF Rel, m, n

\* The queue after a reap: one message for every operation that has completed.
LEMMA Reaps ==
    ASSUME IInv, NEW arrived \in SUBSET ring, Reap(arrived)
    PROVE  /\ X = {} /\ Messages'
           /\ \A m \in X' : \E o \in arrived : \E ok \in BOOLEAN :
                 m = Completion(o, ok)
           /\ \A o \in arrived : \E ok \in BOOLEAN : Completion(o, ok) \in X'
<1>1. /\ q = <<>>
      /\ UNCHANGED <<slots, indices, accepted, objs, srv, http, finished, hit, crashed>>
  BY DEF Reap
<1>2. PICK s \in Orders(arrived) : \E ok \in [DOMAIN s -> BOOLEAN] :
          q' = [i \in DOMAIN s |-> Completion(s[i], ok[i])]
  BY DEF Reap
<1>3. PICK ok \in [DOMAIN s -> BOOLEAN] :
          q' = [i \in DOMAIN s |-> Completion(s[i], ok[i])]
  BY <1>2
<1>4. IsFiniteSet(arrived)
  BY FS_Subset DEF IInv, Ring
<1> DEFINE k == Cardinality(arrived)
<1>4a. /\ s \in [1 .. Cardinality(arrived) -> arrived]
       /\ \A o \in arrived : \E i \in DOMAIN s : s[i] = o
  BY DEF Orders, Elems
<1>5. /\ k \in Nat /\ s \in [1 .. k -> arrived] /\ DOMAIN s = 1 .. k
      /\ \A o \in arrived : \E i \in DOMAIN s : s[i] = o
      /\ \A i, j \in DOMAIN s : i # j => s[i] # s[j]
  BY <1>4, <1>4a, ListedOnce
<1> HIDE DEF k
<1>6. \A i \in 1 .. k : /\ s[i] \in arrived /\ s[i] \in ring /\ ok[i] \in BOOLEAN
                        /\ q'[i] = Completion(s[i], ok[i])
  BY <1>3, <1>5
<1>7. \A i \in 1 .. k : q'[i] \in Message /\ Shape(q'[i])
  BY <1>6, CompletionIs
<1>8. q' \in [1 .. k -> Message]
  BY <1>3, <1>5, <1>7
<1>9. q' \in Seq(Message) /\ Len(q') = k /\ DOMAIN q' = 1 .. k
  BY <1>5, <1>8, BuiltSeq
<1>10. X' = {q'[i] : i \in 1 .. k}
  BY <1>9 DEF X, Elems
<1>11. Row(q', Twice, Orphans)
  <2>1. ASSUME NEW i \in 1 .. k, NEW j \in 1 .. k, i < j
        PROVE  Rel(q'[i], q'[j], Twice, Orphans)
    <3>1. i # j
      BY <1>5, <2>1
    <3>2. s[i] # s[j]
      BY <1>5, <3>1
    <3>3. QED
      BY <1>6, <3>2, CompletionsApart
  <2>2. QED
    BY <1>9, <2>1 DEF Row
<1>12. Twice' = Twice /\ Orphans' = Orphans
  BY <1>1 DEF Twice, Orphans
<1>13. \A m \in X' : Shape(m)'
  <2>1. \A m \in X' : Shape(m)
    BY <1>7, <1>10
  <2>2. QED
    BY <1>1, <2>1 DEF Shape
<1>14. Messages'
  BY <1>9, <1>11, <1>12, <1>13 DEF Messages
<1>15. X = {}
  BY <1>1 DEF X, Elems
<1>16. \A m \in X' : \E o \in arrived : \E b \in BOOLEAN : m = Completion(o, b)
  BY <1>6, <1>10
<1>17. \A o \in arrived : \E b \in BOOLEAN : Completion(o, b) \in X'
  BY <1>5, <1>6, <1>10
<1>18. QED
  BY <1>14, <1>15, <1>16, <1>17

\* Whatever has completed is queued, in any order.
LEMMA ReapKeeps ==
    ASSUME IInv, NEW arrived \in SUBSET ring, Reap(arrived)
    PROVE  IInv'
<1>1. /\ ring' = ring \ arrived /\ timers' = Freed(arrived)
      /\ {o \in ring : o.op = "expired"} \subseteq arrived
      /\ Timeouts \/ \A o \in arrived : o.n = 0
      /\ UNCHANGED <<slots, indices, accepted, objs, srv, http, finished, hit, crashed>>
  BY DEF Reap
<1>2. X = {} /\ Messages'
  BY Reaps
<1>3. \A m \in X' : \E o \in arrived :
         /\ m.c = o.c /\ m.kind = IF o.n = 0 THEN o.op ELSE "timeout"
         /\ m.to = IF o.op = "accept" THEN "A" ELSE IF o.n = 0 THEN "B" ELSE "S"
         /\ m.kind \in {"accept", "recv", "send", "timeout"}
  <2>1. TAKE m \in X'
  <2>2. PICK o \in arrived : \E ok \in BOOLEAN : m = Completion(o, ok)
    BY Reaps
  <2>3. o \in ring
    OBVIOUS
  <2>4. QED
    BY <2>2, <2>3, CompletionIs
<1>4. \A o \in arrived : \E m \in X' :
         m.c = o.c /\ m.kind = IF o.n = 0 THEN o.op ELSE "timeout"
  <2>1. TAKE o \in arrived
  <2>2. PICK ok \in BOOLEAN : Completion(o, ok) \in X'
    BY Reaps
  <2>3. o \in ring
    OBVIOUS
  <2>4. QED
    BY <2>2, <2>3, CompletionIs
<1>5. \A m \in X' : m.kind \in {"accept", "recv", "send", "timeout"}
  BY <1>3
<1>6. \A o \in ring : /\ o = Op(o.op, o.c, o.n)
                      /\ o.op \in {"accept", "recv", "send", "timer", "expired"}
                      /\ o.n = 0 <=> o.op \in {"accept", "recv", "send"}
  BY DEF IInv, Ring
<1>7. timers' \in Seq(0 .. Len(timers)) /\ Len(timers') = Len(timers)
  BY <1>1, FreedIs DEF IInv, Records
<1>8. Ring'
  <2>1. IsFiniteSet(ring')
    BY <1>1, FS_Subset DEF IInv, Ring
  <2>2. QED
    BY <1>1, <1>7, <2>1 DEF IInv, Ring
<1>9. Armed'
  <2>1. SUFFICES ASSUME NEW f \in Families
                 PROVE  Op("accept", f, 0) \in ring'
                          <=> ~\E m \in X' : m.kind = "accept" /\ m.c = f
    BY DEF Armed
  <2>2. Op("accept", f, 0) \in ring
    BY <1>2 DEF IInv, Armed
  <2>3. ASSUME Op("accept", f, 0) \in arrived
        PROVE  \E m \in X' : m.kind = "accept" /\ m.c = f
    BY <1>4, <2>3 DEF Op
  <2>4. ASSUME NEW m \in X', m.kind = "accept", m.c = f
        PROVE  Op("accept", f, 0) \in arrived
    BY <1>3, <1>6, <2>4
  <2>5. QED
    BY <1>1, <2>2, <2>3, <2>4
<1>10. Tables' /\ New' /\ Records'
  BY <1>1, <1>7, TablesKept DEF IInv, New, Records
<1>11. Alone'
  BY <1>1, <1>3, <1>6 DEF IInv, Alone, Token
<1>12. Flags'
  <2>1. ASSUME NEW m \in X'
        PROVE  /\ m.kind \notin {"start", "construct", "read", "write", "done"}
               /\ Token(m) => /\ http[m.c].reading = srv[m.c].reading
                              /\ http[m.c].reading => http[m.c].parser
    BY <1>3, <1>6 DEF IInv, Flags, Token
  <2>2. QED
    BY <1>1, <2>1 DEF IInv, Flags
<1>13. Timers'
  <2>1. ASSUME NEW o \in ring', o.n # 0
        PROVE  /\ srv[o.c].timer = o.n
               /\ \A p \in ring' : p.n = o.n => p = o
               /\ o.op = "timer" => srv[o.c].reading
               /\ o.op # "expired"
               /\ \A m \in X' : m.c = o.c => m.kind # "timeout"
    <3>1. o \in ring /\ o \notin arrived /\ ring' \subseteq ring /\ o.op # "expired"
      BY <1>1
    <3>2. /\ srv[o.c].timer = o.n /\ \A p \in ring : p.n = o.n => p = o
          /\ o.op = "timer" => srv[o.c].reading
      BY <2>1, <3>1 DEF IInv, Timers
    <3>3. ASSUME NEW m \in X', m.c = o.c, m.kind = "timeout"
          PROVE  FALSE
      <4>1. PICK p \in arrived : p.c = o.c /\ p.n # 0
        BY <1>3, <1>6, <3>3
      <4>2. p \in ring /\ srv[p.c].timer = p.n
        BY <4>1 DEF IInv, Timers
      <4>3. QED
        BY <3>1, <3>2, <4>1, <4>2
    <3>4. QED
      BY <3>1, <3>2, <3>3
  <2>2. QED
    BY <1>1, <2>1 DEF IInv, Timers
<1>14. Coverage'
  <2>1. SUFFICES ASSUME NEW c \in Conns, "S" \in objs[c], srv[c].reading
                 PROVE  \/ \E o \in ring' : o.n = srv[c].timer
                        \/ TimedOut(c)'
                        \/ finished[c] > 0 \/ c \in hit
    BY <1>1 DEF Coverage, Covered
  <2>2. ~TimedOut(c)
    BY <1>2 DEF TimedOut
  <2>3. CASE \E o \in ring : o.n = srv[c].timer
    <3>1. PICK o \in ring : o.n = srv[c].timer
      BY <2>3
    <3>2. o.n # 0
      BY <2>1, <3>1 DEF IInv, Records
    <3>3. o.c \in Conns
      BY <1>6, <3>2, LandingAssumption DEF IInv, Ring, Tables, Conns
    <3>4. o.c = c
      BY <3>1, <3>2, <3>3 DEF IInv, Timers
    <3>5. CASE o \in arrived
      BY <1>4, <3>2, <3>4, <3>5 DEF TimedOut
    <3>6. QED
      BY <1>1, <3>1, <3>5
  <2>4. QED
    BY <2>1, <2>2, <2>3 DEF IInv, Coverage, Covered
<1>15. Life'
  BY <1>1, <1>2, <1>5, LifeKept DEF IInv
<1>16. Ends'
  <2>1. SUFFICES ASSUME NEW c \in Conns
                 PROVE  EndsOf(c)'
    BY DEF Ends
  <2>2. \A to : /\ ~Con(to, c)' /\ ~Del(to, c)' /\ ~Con(to, c) /\ ~Del(to, c)
    BY <1>2, <1>5 DEF Con, Del, Call, Msg
  <2>3. ~Told(c)' /\ ~Told(c)
    BY <1>2, <1>5 DEF Told
  <2>4. EndsOf(c)
    BY DEF IInv, Ends
  <2>5. finished[c] \in 0 .. 2
    BY DEF IInv, Records
  <2>6. "S" \in objs[c] => finished[c] = 0
    BY <2>2, <2>3, <2>4, <2>5 DEF EndsOf
  <2>7. QED
    BY <1>1, <2>2, <2>3, <2>4, <2>6 DEF EndsOf
<1>17. NoTimeouts'
  <2>1. SUFFICES ASSUME ~Timeouts PROVE NoTimeouts'
    BY DEF NoTimeouts
  <2>2. \A o \in arrived : o.n = 0
    BY <1>1, <2>1
  <2>3. \A m \in X' : m.kind # "timeout"
    BY <1>3, <1>6, <2>2
  <2>4. \A m \in X' : Token(m) => InFlight(m.c)
    BY <1>3, <1>6 DEF Token, InFlight
  <2>5. \A c : InFlight(c)' => InFlight(c)
    BY <1>1 DEF InFlight
  <2>6. Orphans' = Orphans
    BY <1>1 DEF Orphans
  <2>7. QED
    BY <1>1, <2>1, <2>3, <2>4, <2>5, <2>6 DEF IInv, NoTimeouts
<1>18. QED
  BY <1>2, <1>8, <1>9, <1>10, <1>11, <1>12, <1>13, <1>14, <1>15, <1>16, <1>17 DEF IInv
-----------------------------------------------------------------------------
(* The invariant.                                                           *)

\* LandingAccept::init leaves an acceptor without connections.
LEMMA InitIInv == Init => IInv
<1> SUFFICES ASSUME Init PROVE IInv
  OBVIOUS
<1>1. /\ q = <<>> /\ ring = {Op("accept", f, 0) : f \in Families}
      /\ slots = <<>> /\ indices = <<>> /\ accepted = 0
      /\ objs = [c \in Conns |-> {}]
      /\ srv = [c \in Conns |-> [reading |-> FALSE, timer |-> 0, served |-> 0]]
      /\ http = [c \in Conns |-> [reading |-> FALSE, parser |-> FALSE]]
      /\ timers = <<>> /\ finished = [c \in Conns |-> 0]
      /\ hit = {} /\ crashed = FALSE
  BY DEF Init
<1>2. X = {} /\ Len(q) = 0 /\ q \in Seq(Message)
  BY <1>1 DEF X, Elems
<1>3. DOMAIN slots = {} /\ DOMAIN indices = {} /\ Len(slots) = 0 /\ Len(timers) = 0
  BY <1>1
<1>4. \A c : ~Held(c)
  BY <1>3 DEF Held, Elems
<1>5. Orphans = {}
  BY <1>3 DEF Orphans
<1>6. Messages /\ Alone /\ Flags
  <2>1. Row(q, Twice, Orphans)
    BY <1>2 DEF Row
  <2>2. \A o \in ring : o.op = "accept"
    BY <1>1 DEF Op
  <2>3. QED
    BY <1>2, <2>1, <2>2 DEF Messages, Alone, Flags
<1>7. Ring
  <2>1. IsFiniteSet(ring)
    <3> DEFINE g == [f \in Families |-> Op("accept", f, 0)]
    <3>1. g \in [Families -> ring] /\ \A o \in ring : \E f \in Families : g[f] = o
      BY <1>1
    <3>2. g \in Surjection(Families, ring)
      BY <3>1 DEF Surjection
    <3>3. QED
      BY <3>2, FS_Surjection, LandingAssumption
  <2>2. 0 \in 0 .. Len(timers)
    BY <1>3
  <2>3. QED
    BY <1>1, <2>1, <2>2 DEF Ring, Op
<1>8. Armed
  BY <1>1, <1>2 DEF Armed
<1>9. Tables
  <2>1. slots \in Seq({None} \union Conns) /\ accepted \in 0 .. MaxConn
        /\ Len(slots) <= accepted
    BY <1>1, LandingAssumption
  <2>2. indices \in [DOMAIN indices -> DOMAIN slots]
    BY <1>1
  <2>3. QED
    BY <1>1, <1>3, <2>1, <2>2 DEF Tables
<1>10. Records
  <2>1. 0 \in 0 .. Len(timers) /\ 0 \in 0 .. MaxReq /\ 0 \in 0 .. 2
    BY <1>3, LandingAssumption
  <2>2. timers \in Seq(0 .. Len(timers))
    BY <1>1
  <2>3. QED
    BY <1>1, <2>1, <2>2 DEF Records
<1>11. New /\ Timers
  BY <1>1, <1>2 DEF New, Timers, Op
<1>12. Coverage
  BY <1>1 DEF Coverage, Covered
<1>13. Life
  BY <1>1, <1>2, <1>4 DEF Life, LifeOf, Con, Del
<1>14. Ends
  <2>1. \A c \in Conns : ~(c <= accepted)
    BY <1>1, LandingAssumption DEF Conns
  <2>2. QED
    BY <1>1, <1>2, <2>1 DEF Ends, EndsOf, Told, TimedOut, Con, Del
<1>15. NoTimeouts
  BY <1>1, <1>2, <1>5 DEF NoTimeouts, Op
<1>16. QED
  BY <1>6, <1>7, <1>8, <1>9, <1>10, <1>11, <1>12, <1>13, <1>14, <1>15 DEF IInv

\* Every turn and every reap keeps the invariant.
LEMMA NextIInv == IInv /\ [Next]_vars => IInv'
<1> SUFFICES ASSUME IInv, [Next]_vars PROVE IInv'
  OBVIOUS
<1>1. CASE Accepted
  BY <1>1, AcceptedKeeps
<1>2. CASE Released
  BY <1>2, ReleasedKeeps
<1>3. CASE HttpData
  BY <1>3, HttpDataKeeps
<1>4. CASE Start
  BY <1>4, StartKeeps
<1>5. CASE ServerFails
  BY <1>5, ServerFailsKeeps
<1>6. CASE RequestRead
  BY <1>6, RequestReadKeeps
<1>7. CASE ResponseSent
  BY <1>7, ResponseSentKeeps
<1>8. ASSUME NEW to \in {"S", "H", "B"}, Construct(to) \/ Delete(to)
      PROVE  IInv'
  BY <1>8, ConstructKeeps, DeleteKeeps
<1>9. ASSUME NEW fun \in {"read", "write"}, HttpCall(fun)
      PROVE  IInv'
  BY <1>9, HttpCallKeeps
<1>10. ASSUME NEW fun \in {"read", "write"}, NEW op \in {"recv", "send"},
              SocketCall(fun, op)
       PROVE  IInv'
  BY <1>10, SocketArms DEF SocketCall
<1>11. ASSUME NEW op \in {"recv", "send"}, SocketData(op)
       PROVE  IInv'
  BY <1>11, SocketDataKeeps
<1>12. ASSUME NEW kind \in {"recv", "send", "done", "timeout"},
              NEW to \in {"B", "H", "S"}, Dropped(kind, to),
              kind = "timeout" => to = "S"
       PROVE  IInv'
  BY <1>12, DroppedKeeps
<1>13. ASSUME NEW arrived \in SUBSET ring, Reap(arrived)
       PROVE  IInv'
  BY <1>13, ReapKeeps
<1>14. CASE UNCHANGED vars
  <2>1. X' = X /\ Twice' = Twice /\ Orphans' = Orphans
    BY <1>14 DEF vars, X, Twice, Orphans
  <2>2. UNCHANGED <<q, ring, slots, indices, accepted, objs, srv, http, timers,
                    finished, hit, crashed>>
    BY <1>14 DEF vars
  <2>3. Messages' /\ Ring' /\ Armed' /\ Alone' /\ Tables'
    BY <2>1, <2>2, TablesKept DEF IInv, Messages, Shape, Ring, Armed, Alone
  <2>4. Records' /\ New' /\ Flags' /\ Timers'
    BY <2>1, <2>2 DEF IInv, Records, New, Flags, Timers
  <2>5. Coverage' /\ NoTimeouts'
    BY <2>1, <2>2 DEF IInv, Coverage, Covered, TimedOut, NoTimeouts, InFlight
  <2>6. Life' /\ Ends'
    BY <2>1, <2>2, LifeKept, EndsKept DEF IInv
  <2>7. QED
    BY <2>3, <2>4, <2>5, <2>6 DEF IInv
<1>15. CASE Handle
  <2>1. \/ Accepted \/ Released \/ HttpData
        \/ Start \/ ServerFails \/ RequestRead \/ ResponseSent
        \/ \E to \in {"S", "H", "B"} : Construct(to) \/ Delete(to)
        \/ \E fun \in {"read", "write"} : HttpCall(fun)
        \/ SocketCall("read", "recv") \/ SocketCall("write", "send")
        \/ \E op \in {"recv", "send"} : SocketData(op) \/ Dropped(op, "B")
        \/ Dropped("done", "H") \/ Dropped("done", "S") \/ Dropped("timeout", "S")
    BY <1>15 DEF Handle
  <2>2. CASE SocketCall("read", "recv") \/ SocketCall("write", "send")
    BY <1>10, <2>2
  <2>3. CASE \E op \in {"recv", "send"} : SocketData(op) \/ Dropped(op, "B")
    <3>1. PICK op \in {"recv", "send"} : SocketData(op) \/ Dropped(op, "B")
      BY <2>3
    <3>2. op \in {"recv", "send", "done", "timeout"} /\ op # "timeout"
      OBVIOUS
    <3>3. QED
      BY <1>11, <1>12, <3>1, <3>2
  <2>4. CASE \/ Dropped("done", "H") \/ Dropped("done", "S")
             \/ Dropped("timeout", "S")
    BY <1>12, <2>4
  <2>5. QED
    BY <1>1, <1>2, <1>3, <1>4, <1>5, <1>6, <1>7, <1>8, <1>9, <2>1, <2>2, <2>3, <2>4
<1>16. QED
  BY <1>13, <1>14, <1>15 DEF Next

\* The invariant holds of every behaviour, for any number of connections,
\* requests and listening sockets, with timeouts and without.
THEOREM Invariant == Spec => []IInv
BY InitIInv, NextIInv, PTL DEF Spec
-----------------------------------------------------------------------------
(* What follows from it.                                                    *)

\* The place of a message in the queue: two messages that are not apart are one.
LEMMA Places ==
    ASSUME Messages, NEW i \in DOMAIN q, NEW j \in DOMAIN q,
           ~Apart(q[i], q[j]), ~Apart(q[j], q[i])
    PROVE  i = j
<1>1. DOMAIN q = 1 .. Len(q) /\ Len(q) \in Nat
  BY DEF Messages
<1>2. CASE i < j
  BY <1>1, <1>2 DEF Messages, Row, Rel
<1>3. CASE j < i
  BY <1>1, <1>3 DEF Messages, Row, Rel
<1>4. QED
  BY <1>1, <1>2, <1>3

\* Tokens are never two, and the one that tells S of a request finds H and its
\* parser: no construction is queued beside it.
LEMMA OneTurnIs == IInv => OneTurn
<1> SUFFICES ASSUME IInv PROVE OneTurn
  OBVIOUS
<1>1. \A i \in DOMAIN q : q[i] \in X /\ Shape(q[i])
  BY DEF IInv, Messages, X, Elems
<1>2. OneAtATime
  <2>1. SUFFICES ASSUME NEW c \in Conns
                 PROVE  LET queued == {i \in DOMAIN q :
                                /\ q[i].c = c /\ q[i].to # "A"
                                /\ q[i].kind \notin {"construct", "delete", "timeout"}}
                            inFlight == {o \in ring : o.c = c /\ o.op \in {"recv", "send"}}
                        IN Cardinality(queued) + Cardinality(inFlight) <= 1
    BY DEF OneAtATime
  <2> DEFINE A == {i \in DOMAIN q : /\ q[i].c = c /\ q[i].to # "A"
                                    /\ q[i].kind \notin {"construct", "delete", "timeout"}}
             B == {o \in ring : o.c = c /\ o.op \in {"recv", "send"}}
  <2>2. ASSUME NEW i \in A, NEW j \in A
        PROVE  i = j
    <3>1. Token(q[i]) /\ Token(q[j]) /\ q[i].c = q[j].c
      BY DEF Token
    <3>2. q[i].kind # "accept" /\ q[j].kind # "accept"
      BY <1>1, <3>1 DEF Shape, Route, Token
    <3>3. ~Apart(q[i], q[j]) /\ ~Apart(q[j], q[i])
      BY <3>1, <3>2 DEF Apart
    <3>4. QED
      BY <3>3, Places DEF IInv
  <2>3. ASSUME NEW o \in B, NEW p \in B
        PROVE  o = p
    BY DEF IInv, Alone
  <2>4. ASSUME NEW i \in A, NEW o \in B
        PROVE  FALSE
    BY <1>1 DEF IInv, Alone, Token
  <2> HIDE DEF A, B
  <2>5. /\ Cardinality(A) = IF A = {} THEN 0 ELSE 1
        /\ Cardinality(B) = IF B = {} THEN 0 ELSE 1
    BY <2>2, <2>3, AtMostOne
  <2>6. Cardinality(A) + Cardinality(B) <= 1
    BY <2>4, <2>5
  <2>7. QED
    BY <2>6 DEF A, B
<1>3. ParserReady
  <2> DEFINE h == Head(q)
             c == h.c
  <2>1. SUFFICES ASSUME q # <<>>, h.kind = "done", h.to = "S", h.ok,
                        "S" \in objs[c], srv[c].reading
                 PROVE  "H" \in objs[c] /\ http[c].parser
    BY DEF ParserReady
  <2>2. /\ h \in X /\ h \in Message /\ Shape(h) /\ Rest = X \ {h}
        /\ \A t \in X : t \in Message /\ Shape(t)
    BY <2>1, Taken DEF IInv
  <2>3. Token(h)
    BY <2>1 DEF Token
  <2>4. http[c].parser
    BY <2>1, <2>2, <2>3 DEF IInv, Flags
  <2>5. c \in Conns
    BY <2>1, <2>2, LandingAssumption DEF Shape, IInv, Tables, Conns
  <2>6. \A to : ~Con(to, c)
    <3>1. SUFFICES ASSUME NEW to, Con(to, c) PROVE FALSE
      OBVIOUS
    <3> DEFINE t == Call(to, "construct", c)
    <3>2. t \in X /\ t.c = c /\ t.kind = "construct" /\ t # h
      BY <2>1, <3>1 DEF Con, Call, Msg
    <3> HIDE DEF t
    <3>3. QED
      BY <2>1, <2>2, <2>3, <3>2, TokenHead DEF IInv
  <2>7. LifeOf(c)
    BY <2>5 DEF IInv, Life
  <2>8. \/ Del("S", c) \/ Del("H", c) \/ Del("B", c)
        \/ objs[c] = IF Held(c) THEN {"S", "H", "B"} ELSE {}
    BY <2>2, <2>5, <2>6, LifeCases DEF IInv
  <2>9. "H" \in objs[c]
    BY <2>1, <2>6, <2>7, <2>8 DEF LifeOf
  <2>10. QED
    BY <2>4, <2>9
<1>4. QED
  BY <1>2, <1>3 DEF OneTurn

\* Accepts of one socket are never two, in flight or queued.
LEMMA AcceptArmedIs == IInv => AcceptArmed
<1> SUFFICES ASSUME IInv, NEW f \in Families
             PROVE  Cardinality({o \in ring : o.op = "accept" /\ o.c = f})
                      + Cardinality({i \in DOMAIN q : q[i].kind = "accept" /\ q[i].c = f}) = 1
  BY DEF AcceptArmed
<1> DEFINE A == {o \in ring : o.op = "accept" /\ o.c = f}
           B == {i \in DOMAIN q : q[i].kind = "accept" /\ q[i].c = f}
<1>1. \A o \in A : o = Op("accept", f, 0)
  BY DEF IInv, Ring
<1>2. ASSUME NEW i \in B, NEW j \in B
      PROVE  i = j
  <2>1. ~Apart(q[i], q[j]) /\ ~Apart(q[j], q[i])
    BY DEF Apart
  <2>2. QED
    BY <2>1, Places DEF IInv
<1>3. A # {} <=> B = {}
  <2>1. A # {} <=> Op("accept", f, 0) \in ring
    BY <1>1 DEF Op
  <2>2. B # {} <=> \E m \in X : m.kind = "accept" /\ m.c = f
    BY DEF X, Elems
  <2>3. QED
    BY <2>1, <2>2 DEF IInv, Armed
<1> HIDE DEF A, B
<1>4. /\ Cardinality(A) = IF A = {} THEN 0 ELSE 1
      /\ Cardinality(B) = IF B = {} THEN 0 ELSE 1
  BY <1>1, <1>2, AtMostOne
<1>5. Cardinality(A) + Cardinality(B) = 1
  BY <1>3, <1>4
<1>6. QED
  BY <1>5 DEF A, B

\* With an empty queue Life leaves all of the objects or none.
LEMMA AllOrNothingIs == IInv => AllOrNothing
<1> SUFFICES ASSUME IInv PROVE AllOrNothing
  OBVIOUS
<1>1. ASSUME q = <<>>, NEW c \in Conns
      PROVE  objs[c] = IF c \in Elems(slots) THEN {"S", "H", "B"} ELSE {}
  <2>1. X = {}
    BY <1>1 DEF X, Elems
  <2>2. LifeOf(c)
    BY DEF IInv, Life
  <2>3. QED
    BY <2>1, <2>2 DEF LifeOf, Held
<1>2. ASSUME q # <<>>, NEW c \in Conns
      PROVE  /\ Head(q) = Call("H", "construct", c) => "S" \in objs[c]
             /\ Head(q) = Call("B", "construct", c) => "H" \in objs[c]
  <2>1. Head(q) \in X
    BY <1>2, Taken DEF IInv
  <2>2. LifeOf(c)
    BY DEF IInv, Life
  <2>3. QED
    BY <2>1, <2>2 DEF LifeOf, Con
<1>3. QED
  BY <1>1, <1>2 DEF AllOrNothing, ParentAlive

\* The tables have their types and bounds.
LEMMA TypeOKIs == IInv => TypeOK
<1> SUFFICES ASSUME IInv PROVE TypeOK
  OBVIOUS
<1>1. ASSUME NEW o \in ring
      PROVE  /\ o.op \in {"accept", "recv", "send", "timer", "expired"}
             /\ o.op \in {"timer", "expired"} <=> o.n \in DOMAIN timers
  <2>1. /\ o.op \in {"accept", "recv", "send", "timer", "expired"}
        /\ o.n \in 0 .. Len(timers)
        /\ o.n = 0 <=> o.op \in {"accept", "recv", "send"}
    BY DEF IInv, Ring
  <2>2. DOMAIN timers = 1 .. Len(timers) /\ Len(timers) \in Nat
    BY DEF IInv, Records
  <2>3. o.n \in DOMAIN timers <=> o.n # 0
    BY <2>1, <2>2
  <2>4. QED
    BY <2>1, <2>3
<1>2. Len(slots) <= MaxConn
  BY LandingAssumption DEF IInv, Tables
<1>3. QED
  BY <1>1, <1>2 DEF TypeOK, IInv, Tables, Records

\* Covered, of the queue's places.
LEMMA TimerCoversIs == IInv => TimerCovers
<1> SUFFICES ASSUME IInv PROVE TimerCovers
  OBVIOUS
<1>1. \A c : TimedOut(c) => \E i \in DOMAIN q : q[i].kind = "timeout" /\ q[i].c = c
  BY DEF TimedOut, X, Elems
<1>2. QED
  BY <1>1 DEF TimerCovers, IInv, Coverage, Covered

\* Types and bounds of the tables hold in every state of the acceptor.
THEOREM TypeOKHolds == Spec => []TypeOK
BY Invariant, TypeOKIs, PTL

\* One thing at a time goes on in every connection, and the parser S takes out of
\* H is there.
THEOREM OneTurnHolds == Spec => []OneTurn
BY Invariant, OneTurnIs, PTL

\* LandingAccept re-arms: every listening socket has exactly one accept, in flight
\* or queued.
THEOREM AcceptArmedHolds == Spec => []AcceptArmed
BY Invariant, AcceptArmedIs, PTL

\* A connection that waits for a request is covered by its idle timer, unless S
\* has completed or another one's cancellation hit the timer.
THEOREM TimerCoversHolds == Spec => []TimerCovers
BY Invariant, TimerCoversIs, PTL

\* A queued Timeout is not found by a cancellation: at the head of the queue is a
\* message that is two waves behind it.
LEMMA CancelsUntimed ==
    ASSUME IInv, RequestRead
    PROVE  ~TimedOut(Head(q).c)
<1> DEFINE h == Head(q)
<1>1. Handles("done", "S") /\ q # <<>> /\ q \in Seq(Message) /\ h.kind = "done" /\ h.to = "S"
  BY DEF RequestRead, Handles, IInv, Messages
<1>2. Lo(h, Twice, Orphans) = 2
  BY <1>1 DEF Lo
<1>3. ASSUME NEW i \in DOMAIN q, q[i].kind = "timeout"
      PROVE  FALSE
  <2>1. Hi(q[i]) = 0
    BY <1>3 DEF Hi
  <2>2. i \in 1 .. Len(q) /\ 1 \in 1 .. Len(q) /\ h = q[1]
    BY <1>1, <1>3
  <2>3. i # 1
    BY <1>1, <1>3, <2>2
  <2>4. Rel(h, q[i], Twice, Orphans)
    BY <2>2, <2>3 DEF IInv, Messages, Row
  <2>5. QED
    BY <1>2, <2>1, <2>4 DEF Rel
<1>4. QED
  BY <1>3 DEF TimedOut, X, Elems

\* A connection that cancels its own timer hits no other.
LEMMA CancelsLate ==
    ASSUME IInv, RequestRead, hit' # hit
    PROVE  finished[Head(q).c] > 0 \/ Head(q).c \in hit
<1> DEFINE c == Head(q).c
           n == srv[c].timer
<1>1. /\ Handles("done", "S") /\ "S" \in objs[c] /\ srv[c].reading
      /\ ring' \in Cancelled(n)
      /\ hit' = hit \union {o.c : o \in {p \in ring \ ring' : p.n # n /\ p.op = "timer"}}
  BY DEF RequestRead
<1>2. c \in Conns
  BY <1>1, HeadFacts
<1>3. SUFFICES ASSUME NEW o \in ring, o.n = n
               PROVE  FALSE
  <2>1. Covered(c) /\ ~TimedOut(c)
    BY <1>2, CancelsUntimed DEF IInv, Coverage
  <2>2. QED
    BY <1>1, <1>3, <2>1 DEF Covered
<1>4. ring \ ring' \subseteq {p \in ring : p.n = n}
  BY <1>1, <1>3 DEF Cancelled
<1>5. QED
  BY <1>1, <1>4

\* A cancellation by a stale address comes from a connection that has completed,
\* or whose own timer was hit, in every step of any number of connections.
THEOREM LateCancelHolds == Spec => LateCancel
<1> DEFINE Late == hit' # hit => finished[Head(q).c] > 0 \/ Head(q).c \in hit
<1>1. ASSUME IInv, [Next]_vars
      PROVE  Late
  <2>1. CASE RequestRead
    BY <1>1, <2>1, CancelsLate
  <2>2. CASE Accepted \/ Released \/ HttpData \/ Start \/ ServerFails \/ ResponseSent
    BY <2>2 DEF Accepted, Released, HttpData, Start, ServerFails, ResponseSent
  <2>3. ASSUME NEW to, Construct(to) \/ Delete(to)
        PROVE  UNCHANGED hit
    BY <2>3 DEF Construct, Delete
  <2>4. ASSUME NEW kind, NEW to, HttpCall(kind) \/ SocketCall(kind, to)
                                   \/ SocketData(kind) \/ Dropped(kind, to)
        PROVE  UNCHANGED hit
    BY <2>4 DEF HttpCall, SocketCall, SocketData, Dropped
  <2>5. ASSUME NEW arrived, Reap(arrived)
        PROVE  UNCHANGED hit
    BY <2>5 DEF Reap
  <2>6. CASE UNCHANGED vars
    BY <2>6 DEF vars
  <2>7. QED
    BY <1>1, <2>1, <2>2, <2>3, <2>4, <2>5, <2>6 DEF Next, Handle
<1>2. QED
  BY <1>1, Invariant, PTL DEF Spec, LateCancel

\* Connections are there as a whole or not at all between two batches, and a
\* constructor closure finds its parent.
THEOREM AllOrNothingHolds == Spec => []AllOrNothing
BY Invariant, AllOrNothingIs, PTL
-----------------------------------------------------------------------------
(* Until a task completes twice.                                            *)

\* As long as no task has completed twice every index leads to its own slot and
\* no completion has found its slot empty.
Sound == CompletesOnce => Orphans = {} /\ ~crashed

\* The tables agree then, and the tasks of the table are the slots' connections.
LEMMA InOrder ==
    ASSUME IInv, Sound, CompletesOnce
    PROVE  /\ ~crashed /\ SlotsOwned
           /\ \A c \in Conns : Held(c) <=> c \in DOMAIN indices
<1>1. Orphans = {} /\ ~crashed
  BY DEF Sound
<1>2. \A c \in DOMAIN indices : slots[indices[c]] = c
  BY <1>1 DEF Orphans
<1>3. \A i \in DOMAIN slots : slots[i] # None => slots[i] \in DOMAIN indices
  BY DEF IInv, Tables
<1>4. \A c \in Conns : Held(c) <=> c \in DOMAIN indices
  BY <1>1, HeldKnown DEF IInv
<1>5. QED
  BY <1>1, <1>2, <1>3, <1>4 DEF SlotsOwned

\* A connection is accepted into a slot that no index leads to.
LEMMA AcceptSound ==
    ASSUME IInv, Sound, Accepted
    PROVE  Sound'
<1>1. SUFFICES ASSUME CompletesOnce' PROVE Orphans' = {} /\ ~crashed'
  BY DEF Sound
<1>2. finished' = finished /\ crashed' = crashed
  BY DEF Accepted
<1>3. CompletesOnce
  BY <1>1, <1>2 DEF CompletesOnce
<1>4. Orphans = {} /\ ~crashed
  BY <1>3 DEF Sound
<1>5. CASE UNCHANGED <<slots, indices>>
  BY <1>2, <1>4, <1>5 DEF Orphans
<1>6. CASE Head(q).ok /\ accepted < MaxConn
  <2> DEFINE c == accepted + 1
  <2>1. /\ slots' = [i \in DOMAIN slots \union {Slot} |->
                        IF i = Slot THEN c ELSE slots[i]]
        /\ indices' = [t \in DOMAIN indices \union {c} |->
                          IF t = c THEN Slot ELSE indices[t]]
    BY <1>6 DEF Accepted
  <2>2. /\ Slot \in 1 .. Len(slots) + 1 /\ Len(slots) \in Nat
        /\ Slot <= Len(slots) => slots[Slot] = None
        /\ DOMAIN slots = 1 .. Len(slots)
    BY SlotIs DEF IInv, Tables
  <2>3. /\ DOMAIN indices \subseteq Conns /\ None \notin Conns
        /\ \A t \in DOMAIN indices : indices[t] \in DOMAIN slots
    BY LandingAssumption DEF IInv, Tables, Conns, None
  <2> HIDE DEF c
  <2>4. ASSUME NEW t \in DOMAIN indices'
        PROVE  slots'[indices'[t]] = t
    <3>1. CASE t = c
      BY <2>1, <3>1
    <3>2. CASE t # c
      <4>1. t \in DOMAIN indices /\ indices'[t] = indices[t]
        BY <2>1, <2>4, <3>2
      <4>2. slots[indices[t]] = t /\ t # None /\ indices[t] \in DOMAIN slots
        BY <1>4, <2>3, <4>1 DEF Orphans
      <4>3. indices[t] # Slot
        BY <2>2, <4>2
      <4>4. QED
        BY <2>1, <4>1, <4>2, <4>3
    <3>3. QED
      BY <3>1, <3>2
  <2>5. QED
    BY <1>2, <1>4, <2>4 DEF Orphans
<1>7. QED
  BY <1>5, <1>6 DEF Accepted

\* A first completion finds its own slot, which it empties.
LEMMA ReleaseSound ==
    ASSUME IInv, Sound, Released
    PROVE  Sound'
<1> DEFINE c == Head(q).c
           i == indices[c]
<1>1. SUFFICES ASSUME CompletesOnce' PROVE Orphans' = {} /\ ~crashed'
  BY DEF Sound
<1>2. Handles("done", "A") /\ finished' = finished
  BY DEF Released
<1>3. CompletesOnce
  BY <1>1, <1>2 DEF CompletesOnce
<1>4. Orphans = {} /\ ~crashed
  BY <1>3 DEF Sound
<1>5. c \in Conns /\ Told(c)
  BY <1>2, HeadFacts DEF Told
<1>6. c \in DOMAIN indices
  <2>1. finished[c] > 0 /\ finished[c] \in 0 .. 2 /\ finished[c] <= 1
    BY <1>3, <1>5 DEF IInv, Ends, EndsOf, Records, CompletesOnce
  <2>2. finished[c] = 1
    BY <2>1
  <2>3. QED
    BY <1>5, <2>2 DEF IInv, Ends, EndsOf
<1>7. slots[i] = c /\ c # None
  BY <1>4, <1>5, <1>6 DEF Orphans, Conns, None
<1>8. /\ slots' = [slots EXCEPT ![i] = None] /\ ~crashed'
      /\ indices' = [t \in DOMAIN indices \ {c} |-> indices[t]]
  BY <1>4, <1>6, <1>7 DEF Released
<1>9. ASSUME NEW t \in DOMAIN indices'
      PROVE  slots'[indices'[t]] = t
  <2>1. t \in DOMAIN indices /\ t # c /\ indices'[t] = indices[t]
    BY <1>8, <1>9
  <2>2. slots[indices[t]] = t /\ indices[t] # i
    BY <1>4, <1>7, <2>1 DEF Orphans
  <2>3. QED
    BY <1>8, <2>1, <2>2
<1>10. QED
  BY <1>8, <1>9 DEF Orphans

\* Nothing else touches the tables, and a task that has completed twice remains
\* one.
LEMMA NextSound ==
    ASSUME IInv, Sound, [Next]_vars
    PROVE  Sound' /\ (CompletesOnce' => CompletesOnce)
<1>1. finished \in [Conns -> 0 .. 2]
  BY DEF IInv, Records
<1>2. CASE UNCHANGED <<slots, indices, finished, crashed>>
  BY <1>2 DEF Sound, Orphans, CompletesOnce
<1>3. CASE Accepted
  BY <1>3, AcceptSound DEF Accepted, CompletesOnce
<1>4. CASE Released
  BY <1>4, ReleaseSound DEF Released, CompletesOnce
<1>5. CASE ServerFails
  <2> DEFINE c == Head(q).c
  <2>1. /\ finished' = [finished EXCEPT ![c] = IF @ = 2 THEN 2 ELSE @ + 1]
        /\ UNCHANGED <<slots, indices, crashed>>
    BY <1>5 DEF ServerFails, Complete
  <2> HIDE DEF c
  <2>2. CompletesOnce' => CompletesOnce
    BY <1>1, <2>1 DEF CompletesOnce
  <2>3. QED
    BY <2>1, <2>2 DEF Sound, Orphans
<1>6. CASE HttpData \/ Start \/ RequestRead \/ ResponseSent
  BY <1>2, <1>6 DEF HttpData, Start, RequestRead, ResponseSent
<1>7. ASSUME NEW to, Construct(to) \/ Delete(to)
      PROVE  UNCHANGED <<slots, indices, finished, crashed>>
  BY <1>7 DEF Construct, Delete
<1>8. ASSUME NEW kind, NEW to, HttpCall(kind) \/ SocketCall(kind, to)
                                 \/ SocketData(kind) \/ Dropped(kind, to)
      PROVE  UNCHANGED <<slots, indices, finished, crashed>>
  BY <1>8 DEF HttpCall, SocketCall, SocketData, Dropped
<1>9. ASSUME NEW arrived, Reap(arrived)
      PROVE  UNCHANGED <<slots, indices, finished, crashed>>
  BY <1>9 DEF Reap
<1>10. CASE UNCHANGED vars
  BY <1>2, <1>10 DEF vars
<1>11. QED
  BY <1>2, <1>3, <1>4, <1>5, <1>6, <1>7, <1>8, <1>9, <1>10 DEF Next, Handle

LEMMA SoundHolds == Spec => [](IInv /\ Sound)
<1>1. Init => Sound
  <2>1. Init => Orphans = {} /\ ~crashed
    BY DEF Init, Orphans
  <2>2. QED
    BY <2>1 DEF Sound
<1>2. QED
  BY <1>1, InitIInv, NextIInv, NextSound, PTL DEF Spec

\* With timeouts or without: until some task has completed twice the acceptor's
\* tables agree and no exception has ended the process.  A second completion is
\* all that can make LandingAccept release another connection or throw.
THEOREM NeedsTwiceHolds == Spec => []NeedsTwice
<1>1. IInv /\ Sound => NeedsTwice
  BY InOrder DEF NeedsTwice
<1>2. QED
  BY <1>1, SoundHolds, PTL

\* Without timeouts no task completes twice.
LEMMA OnceUntimed ==
    ASSUME IInv, ~Timeouts
    PROVE  CompletesOnce
<1>1. \A c \in Conns : finished[c] \in 0 .. 2
  BY DEF IInv, Records
<1>2. \A c \in Conns : finished[c] > 0 => finished[c] = 1
  BY DEF IInv, NoTimeouts
<1>3. QED
  BY <1>1, <1>2 DEF CompletesOnce

\* While timers never fire no task completes twice, so the acceptor's tables agree
\* and no exception ends the process: a Timeout is needed for what the run
\* landing_twice shows.
THEOREM OnceWithoutTimeouts ==
    ASSUME ~Timeouts
    PROVE  Spec => [](CompletesOnce /\ SlotsOwned /\ ~crashed)
<1>1. IInv => CompletesOnce
  BY OnceUntimed
<1>2. CompletesOnce /\ NeedsTwice => SlotsOwned /\ ~crashed
  BY DEF NeedsTwice
<1>3. QED
  BY <1>1, <1>2, Invariant, NeedsTwiceHolds, PTL

\* What the acceptor shows of a connection.
Shown == [c \in Conns |->
    IF c > accepted THEN "none"
    ELSE IF c \notin Elems(slots) THEN "closed"
    ELSE IF finished[c] > 0 THEN "finished" ELSE "open"]

\* No connection has been accepted.
LEMMA ShownInit == Init => Promise!Init
<1> SUFFICES ASSUME Init PROVE Promise!Init
  OBVIOUS
<1>1. \A c \in Conns : c > accepted
  BY LandingAssumption DEF Init, Conns
<1>2. QED
  BY <1>1 DEF Promise!Init

\* A connection whose place, completion and acceptance stay as they are shows
\* what it showed.
LEMMA ShownMove ==
    ASSUME NEW c \in Conns, NEW from, NEW to,
           \A d \in Conns : d # c =>
              /\ d > accepted <=> d > accepted'
              /\ Held(d) <=> Held(d)'
              /\ finished'[d] = finished[d],
           Shown[c] = from, Shown'[c] = to
    PROVE  Promise!Move(c, from, to)
<1>1. Shown' = [Shown EXCEPT ![c] = to]
  BY DEF Shown, Held
<1>2. QED
  BY <1>1 DEF Promise!Move, Shown

\* An accept accepts one connection, or shows nothing.
LEMMA AcceptShown ==
    ASSUME IInv, Accepted
    PROVE  Promise!Next \/ UNCHANGED Shown
<1>1. CASE UNCHANGED <<accepted, slots, indices>>
  BY <1>1 DEF Accepted, Shown
<1>2. CASE Head(q).ok /\ accepted < MaxConn
  <2> DEFINE c == accepted + 1
  <2>1. /\ accepted' = c /\ finished' = finished
        /\ slots' = [i \in DOMAIN slots \union {Slot} |->
                        IF i = Slot THEN c ELSE slots[i]]
    BY <1>2 DEF Accepted
  <2>2. /\ accepted \in Nat /\ c \in Conns /\ c > accepted /\ ~(c > accepted')
        /\ \A d \in Conns : d # c => (d > accepted <=> d > accepted') /\ d # None
    <3>1. accepted \in 0 .. MaxConn /\ accepted < MaxConn /\ MaxConn \in Nat
      BY <1>2, LandingAssumption DEF IInv, Tables
    <3>2. QED
      BY <2>1, <3>1 DEF Conns, None
  <2>3. finished[c] = 0
    BY <2>2 DEF IInv, New
  <2> HIDE DEF c
  <2>4. /\ Slot \in 1 .. Len(slots) + 1 /\ Len(slots) \in Nat
        /\ Slot <= Len(slots) => slots[Slot] = None
        /\ DOMAIN slots = 1 .. Len(slots)
    BY SlotIs DEF IInv, Tables
  <2>5. c \in Elems(slots')
    <3>1. Slot \in DOMAIN slots' /\ slots'[Slot] = c
      BY <2>1
    <3>2. QED
      BY <3>1 DEF Elems
  <2>6. ASSUME NEW d \in Conns, d # c
        PROVE  Held(d) <=> Held(d)'
    <3>1. ASSUME Held(d)
          PROVE  Held(d)'
      <4>1. PICK i \in DOMAIN slots : slots[i] = d
        BY <3>1 DEF Held, Elems
      <4>2. i # Slot
        BY <2>2, <2>4, <2>6, <4>1
      <4>3. i \in DOMAIN slots' /\ slots'[i] = d
        BY <2>1, <4>1, <4>2
      <4>4. QED
        BY <4>3 DEF Held, Elems
    <3>2. ASSUME Held(d)'
          PROVE  Held(d)
      <4>1. PICK i \in DOMAIN slots' : slots'[i] = d
        BY <3>2 DEF Held, Elems
      <4>2. i \in DOMAIN slots /\ slots[i] = d
        BY <2>1, <2>6, <4>1
      <4>3. QED
        BY <4>2 DEF Held, Elems
    <3>3. QED
      BY <3>1, <3>2
  <2>7. Shown[c] = "none" /\ Shown'[c] = "open"
    BY <2>1, <2>2, <2>3, <2>5 DEF Shown
  <2>8. Promise!Move(c, "none", "open")
    BY <2>1, <2>2, <2>6, <2>7, ShownMove
  <2>9. QED
    BY <2>2, <2>8 DEF Promise!Next, Promise!Accept
<1>3. QED
  BY <1>1, <1>2 DEF Accepted

\* The failure of S finishes a connection that was open.
LEMMA FailShown ==
    ASSUME IInv, Sound, ServerFails, CompletesOnce'
    PROVE  Promise!Next
<1> DEFINE c == Head(q).c
<1>1. /\ Handles("done", "S") \/ Handles("timeout", "S")
      /\ finished' = [finished EXCEPT ![c] = IF @ = 2 THEN 2 ELSE @ + 1]
      /\ UNCHANGED <<slots, indices, accepted>>
  BY DEF ServerFails, Complete
<1>2. c \in 1 .. accepted /\ c \in Conns
  BY <1>1, HeadFacts
<1>3. finished \in [Conns -> 0 .. 2]
  BY DEF IInv, Records
<1>4. finished'[c] <= 1
  BY <1>2 DEF CompletesOnce
<1>5. finished[c] = 0
  BY <1>1, <1>2, <1>3, <1>4
<1>6. accepted \in Nat /\ c <= accepted /\ ~(c > accepted)
  BY <1>2, LandingAssumption DEF IInv, Tables
<1>7. Held(c)
  <2>1. c \in DOMAIN indices
    BY <1>2, <1>5, <1>6 DEF IInv, Ends, EndsOf
  <2>2. CompletesOnce
    BY <1>1, <1>3 DEF IInv, CompletesOnce
  <2>3. QED
    BY <1>2, <2>1, <2>2, InOrder
<1>8. finished'[c] = 1 /\ \A d \in Conns : d # c => finished'[d] = finished[d]
  BY <1>1, <1>2, <1>3, <1>5
<1> HIDE DEF c
<1>9. \A d : Held(d)' <=> Held(d)
  BY <1>1 DEF Held
<1>10. Shown[c] = "open" /\ Shown'[c] = "finished"
  BY <1>1, <1>2, <1>5, <1>6, <1>7, <1>8 DEF Shown, Held
<1>11. Promise!Move(c, "open", "finished")
  BY <1>1, <1>2, <1>8, <1>9, <1>10, ShownMove
<1>12. QED
  BY <1>2, <1>11 DEF Promise!Next, Promise!Finish

\* The completion releases the connection whose task it is.
LEMMA ReleaseShown ==
    ASSUME IInv, Sound, CompletesOnce, Released
    PROVE  Promise!Next
<1> DEFINE c == Head(q).c
           i == indices[c]
<1>1. /\ Handles("done", "A") /\ UNCHANGED <<accepted, finished>>
  BY DEF Released
<1>2. Head(q) \in X /\ c \in 1 .. accepted /\ c \in Conns /\ Told(c)
  BY <1>1, HeadFacts DEF Told
<1>3. finished[c] = 1 /\ c \in DOMAIN indices
  <2>1. finished[c] > 0 /\ finished[c] \in 0 .. 2 /\ finished[c] <= 1
    BY <1>2 DEF IInv, Ends, EndsOf, Records, CompletesOnce
  <2>2. QED
    BY <1>2, <2>1 DEF IInv, Ends, EndsOf
<1>4. slots[i] = c /\ i \in DOMAIN slots /\ c # None
  BY <1>2, <1>3, InOrder DEF SlotsOwned, IInv, Tables, Conns, None
<1>5. slots' = [slots EXCEPT ![i] = None]
  BY <1>3, <1>4 DEF Released
<1>6. \A j \in DOMAIN slots : slots[j] = c => j = i
  BY <1>4 DEF IInv, Tables
<1>7. accepted \in Nat /\ ~(c > accepted) /\ None \notin Conns
  BY <1>2, LandingAssumption DEF IInv, Tables, None, Conns
<1> HIDE DEF c, i
<1>8. DOMAIN slots' = DOMAIN slots
      /\ \A j \in DOMAIN slots : slots'[j] = IF j = i THEN None ELSE slots[j]
  BY <1>5
<1>9. c \in Elems(slots) /\ c \notin Elems(slots')
  BY <1>4, <1>6, <1>8 DEF Elems
<1>10. ASSUME NEW d \in Conns, d # c
       PROVE  Held(d) <=> Held(d)'
  <2>1. d # None
    BY <1>7
  <2>2. \A j \in DOMAIN slots : slots[j] = d <=> slots'[j] = d
    BY <1>4, <1>8, <1>10, <2>1
  <2>3. QED
    BY <1>8, <2>2 DEF Held, Elems
<1>11. Shown[c] = "finished" /\ Shown'[c] = "closed"
  BY <1>1, <1>2, <1>3, <1>7, <1>9 DEF Shown
<1>12. Promise!Move(c, "finished", "closed")
  BY <1>1, <1>2, <1>10, <1>11, ShownMove
<1>13. QED
  BY <1>2, <1>12 DEF Promise!Next, Promise!Release

\* Until a task completes twice every step is a step of Connections or a stutter.
LEMMA NextShown ==
    ASSUME IInv, Sound, [Next]_vars, CompletesOnce'
    PROVE  Promise!Next \/ UNCHANGED Shown
<1>0. CompletesOnce
  BY NextSound
<1>1. CASE UNCHANGED <<accepted, slots, finished>>
  BY <1>1 DEF Shown
<1>2. CASE Accepted
  BY <1>2, AcceptShown
<1>3. CASE Released
  BY <1>0, <1>3, ReleaseShown
<1>4. CASE ServerFails
  BY <1>4, FailShown
<1>5. CASE HttpData \/ Start \/ RequestRead \/ ResponseSent
  BY <1>1, <1>5 DEF HttpData, Start, RequestRead, ResponseSent
<1>6. ASSUME NEW to, Construct(to) \/ Delete(to)
      PROVE  UNCHANGED <<accepted, slots, finished>>
  BY <1>6 DEF Construct, Delete
<1>7. ASSUME NEW kind, NEW to, HttpCall(kind) \/ SocketCall(kind, to)
                                 \/ SocketData(kind) \/ Dropped(kind, to)
      PROVE  UNCHANGED <<accepted, slots, finished>>
  BY <1>7 DEF HttpCall, SocketCall, SocketData, Dropped
<1>8. ASSUME NEW arrived, Reap(arrived)
      PROVE  UNCHANGED <<accepted, slots, finished>>
  BY <1>8 DEF Reap
<1>9. CASE UNCHANGED vars
  BY <1>1, <1>9 DEF vars
<1>10. QED
  BY <1>1, <1>2, <1>3, <1>4, <1>5, <1>6, <1>7, <1>8, <1>9 DEF Next, Handle

\* With timeouts or without: a step of the loop before a task has completed twice
\* is an Accept, a Finish or a Release of one connection (Connections), or shows
\* nothing.  So a Timeout that does not meet a late answer keeps the promise.
THEOREM PromiseUntilTwice ==
    Spec => [][CompletesOnce' => Promise!Next \/ UNCHANGED Shown]_vars
<1> DEFINE Kept == CompletesOnce' => Promise!Next \/ UNCHANGED Shown
<1>1. IInv /\ Sound /\ [Next]_vars => [Kept]_vars
  BY NextShown
<1> HIDE DEF Kept
<1>2. Spec => [][Kept]_vars
  BY <1>1, SoundHolds, PTL DEF Spec
<1>3. QED
  BY <1>2 DEF Kept

\* While timers never fire the acceptor implements the safety part of what
\* Connections promises: every step of the loop is an Accept, a Finish or a
\* Release of one connection, or shows nothing.
THEOREM Refinement ==
    ASSUME ~Timeouts
    PROVE  Spec => Promise!Safety
<1>1. IInv /\ Sound /\ IInv' /\ [Next]_vars => Promise!Next \/ UNCHANGED Shown
  <2> SUFFICES ASSUME IInv, Sound, IInv', [Next]_vars
               PROVE  Promise!Next \/ UNCHANGED Shown
    OBVIOUS
  <2>1. CompletesOnce'
    <3>1. \A c \in Conns : finished'[c] \in 0 .. 2
      BY DEF IInv, Records
    <3>2. \A c \in Conns : finished'[c] > 0 => finished'[c] = 1
      BY DEF IInv, NoTimeouts
    <3>3. QED
      BY <3>1, <3>2 DEF CompletesOnce
  <2>2. QED
    BY <2>1, NextShown
<1>2. QED
  BY <1>1, ShownInit, SoundHolds, PTL DEF Spec, Promise!Safety, Shown
=============================================================================
