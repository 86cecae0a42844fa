-------------------------- MODULE WebServiceProofs --------------------------
(***************************************************************************)
(* A service: what the handlers show comes from one poll of the            *)
(* thermostat, requests come out of the stream whole and in order, every   *)
(* answer is counted, and what main's thread reports of the visits is of   *)
(* one moment; for any requests and receives, services, endpoints, clocks, *)
(* fields and numbers of polls.                                            *)
(*                                                                         *)
(* The stream's invariant says where each byte is: the requests reported,  *)
(* parser_, buffer_ and what has not come are, in this order, the requests *)
(* sent.  What has been reported are the first requests, so what follows   *)
(* begins with the next one, and a parser that stops at its end holds it.  *)
(*                                                                         *)
(* The visits' invariant says that the total of a service is what it       *)
(* answered, and that nothing is answered before all have registered.      *)
(***************************************************************************)
EXTENDS WebService, DataFacts

(* The client.                                                              *)

\* What the poll has collected: fields of this cycle, at least one if it is
\* valid, none otherwise.
Collected ==
    /\ \A f \in Fields : result[f] \in {0, cycle}
    /\ valid <=> \E f \in Fields : result[f] = cycle /\ cycle # 0
    /\ poll = "off" => cycle = 0
    /\ poll # "off" => cycle # 0
    /\ poll \notin {"fetch", "fetched"} => ~valid

S40Inv == S40TypeOK /\ Collected /\ OneCycle

S40Step == (GetInstance /\ poll = "off") \/ S40Next

\* No client yet: nothing collected, nothing shown.
LEMMA S40InitInv == S40Init => S40Inv
<1> SUFFICES ASSUME S40Init PROVE S40Inv
  OBVIOUS
<1> USE S40Assumption DEF S40Init, Defaults
<1>1. S40TypeOK
  <2>1. cycle \in 0 .. MaxCycles /\ tries \in 0 .. MaxRetrieves
    OBVIOUS
  <2>2. result \in [Fields -> Nat] /\ values \in [Fields -> Nat]
    OBVIOUS
  <2>3. QED
    BY <2>1, <2>2 DEF S40TypeOK
<1>2. Collected
  BY DEF Collected
<1>3. OneCycle
  BY DEF OneCycle
<1>4. QED
  BY <1>1, <1>2, <1>3 DEF S40Inv

\* A new cycle: what is shown is of an earlier one.
LEMMA FetchDataInv ==
    ASSUME S40Inv, FetchData, poll \in {"off", "sleep"}
    PROVE  S40Inv'
<1> USE S40Assumption DEF S40Inv, FetchData
<1>1. S40TypeOK'
  <2>1. cycle' \in 0 .. MaxCycles
    BY DEF S40TypeOK
  <2>2. result' \in [Fields -> Nat]
    BY DEF Defaults
  <2>3. tries' \in 0 .. MaxRetrieves /\ values' \in [Fields -> Nat]
    BY DEF S40TypeOK
  <2>4. poll' \in {"off", "fetch", "fetched", "sleep"}
        /\ valid' \in BOOLEAN /\ data_valid' \in BOOLEAN
    BY DEF S40TypeOK
  <2>5. QED
    BY <2>1, <2>2, <2>3, <2>4 DEF S40TypeOK
<1>2. Collected'
  BY DEF Collected, S40TypeOK, Defaults
<1>3. PICK c \in 0 .. cycle :
         /\ \A f \in Fields : values[f] \in {0, c}
         /\ data_valid <=> c # 0
         /\ data_valid => \E f \in Fields : values[f] = c
  BY DEF OneCycle
<1>4. c \in 0 .. cycle' /\ c # cycle'
  BY DEF S40TypeOK
<1>5. OneCycle'
  BY <1>3, <1>4 DEF OneCycle
<1>6. QED
  BY <1>1, <1>2, <1>5

\* An answer adds fields of this cycle.
LEMMA RetrieveInv == ASSUME S40Inv, Retrieve PROVE S40Inv'
<1> USE S40Assumption DEF S40Inv
<1>1. PICK given \in SUBSET Fields :
         /\ result' = [f \in Fields |-> IF f \in given THEN cycle ELSE result[f]]
         /\ valid' = (valid \/ given # {})
  BY DEF Retrieve
<1>2. /\ poll = "fetch" /\ tries < MaxRetrieves
      /\ UNCHANGED <<cycle, values, data_valid>>
      /\ tries' = tries + 1 \/ tries' = 0
      /\ poll' \in {"fetch", "fetched"}
  BY DEF Retrieve
<1>3. S40TypeOK'
  BY <1>1, <1>2 DEF S40TypeOK
<1>4. Collected'
  <2>1. cycle # 0 /\ cycle' = cycle
    BY <1>2 DEF Collected
  <2>2. \A f \in Fields : result'[f] \in {0, cycle}
    BY <1>1 DEF Collected
  <2>3. valid' <=> \E f \in Fields : result'[f] = cycle
    BY <1>1, <2>1 DEF Collected
  <2>4. QED
    BY <1>2, <2>1, <2>2, <2>3 DEF Collected
<1>5. OneCycle'
  BY <1>2 DEF OneCycle
<1>6. QED
  BY <1>3, <1>4, <1>5

\* What a cycle has collected is shown as a whole or not at all.
LEMMA PublishInv == ASSUME S40Inv, Publish PROVE S40Inv'
<1> USE S40Assumption DEF S40Inv, Publish
<1>1. S40TypeOK'
  BY DEF S40TypeOK, Defaults
<1>2. Collected'
  BY DEF Collected, S40TypeOK, Defaults
<1>3. CASE valid
  <2>1. cycle \in 0 .. cycle' /\ cycle # 0
    BY DEF Collected, S40TypeOK
  <2>2. /\ \A f \in Fields : values'[f] \in {0, cycle}
        /\ \E f \in Fields : values'[f] = cycle
    BY <1>3 DEF Collected
  <2>3. QED
    BY <1>1, <1>2, <1>3, <2>1, <2>2 DEF OneCycle
<1>4. CASE ~valid
  BY <1>1, <1>2, <1>4 DEF OneCycle
<1>5. QED
  BY <1>3, <1>4

\* Each step of the client keeps its invariant.
LEMMA S40StepInv == ASSUME S40Inv, [S40Step]_s40Vars PROVE S40Inv'
<1>1. CASE GetInstance /\ poll = "off"
  BY <1>1, FetchDataInv DEF GetInstance
<1>2. CASE Refresh
  BY <1>2, FetchDataInv DEF Refresh
<1>3. CASE GiveUp
  BY <1>3, S40Assumption DEF GiveUp, S40Inv, S40TypeOK, Collected, OneCycle
<1>4. CASE UNCHANGED s40Vars
  BY <1>4 DEF s40Vars, S40Inv, S40TypeOK, Collected, OneCycle
<1>5. QED
  BY <1>1, <1>2, <1>3, <1>4, RetrieveInv, PublishInv DEF S40Step, S40Next

\* The values of the getters come from one cycle of loop(), in the client alone.
LEMMA ClientOneCycle == S40Spec => [](S40TypeOK /\ OneCycle)
BY S40InitInv, S40StepInv, PTL DEF S40Spec, S40Inv, S40Step

\* Handlers, connections and reports leave the poll alone: the service implements
\* the client.
THEOREM ServicePolls == ServiceSpec => S40Spec
<1>1. [ServiceNext]_serviceVars => [S40Step]_s40Vars
  <2> SUFFICES ASSUME [ServiceNext]_serviceVars PROVE S40Step \/ UNCHANGED s40Vars
    OBVIOUS
  <2>1. CASE Respond
    BY <2>1 DEF Respond, Handler, GetInstance, S40Step
  <2>2. CASE Client
    BY <2>2 DEF Client, S40Step
  <2>3. CASE Registration \/ Stream \/ Visits \/ UNCHANGED serviceVars
    BY <2>3 DEF Registration, Stream, Visits, serviceVars
  <2>4. QED
    BY <2>1, <2>2, <2>3 DEF ServiceNext
<1>2. QED
  BY <1>1, PTL DEF ServiceSpec, ServiceInit, S40Spec, S40Step

\* A page shows the values of one poll, however polls fail and messages come.
THEOREM ServiceOneCycle == ServiceSpec => []OneCycle
BY ServicePolls, ClientOneCycle, PTL
-----------------------------------------------------------------------------
(* The stream of bytes.                                                     *)

\* A sequence is what it is cut into.
LEMMA Cut ==
    ASSUME NEW T, NEW s \in Seq(T), NEW n \in 0 .. Len(s)
    PROVE  /\ First(s, n) \in Seq(T) /\ Len(First(s, n)) = n
           /\ From(s, n) \in Seq(T) /\ Len(From(s, n)) = Len(s) - n
           /\ First(s, n) \o From(s, n) = s
           /\ \A i \in 1 .. n : First(s, n)[i] = s[i]
<1>1. First(s, n) \in Seq(T) /\ Len(First(s, n)) = n /\ \A i \in 1 .. n : First(s, n)[i] = s[i]
  BY DEF First
<1>2. From(s, n) \in Seq(T) /\ Len(From(s, n)) = Len(s) - n
  BY DEF From
<1>3. First(s, n) \o From(s, n) = s
  <2>1. SubSeq(s, 1, n) \o SubSeq(s, n + 1, Len(s)) = SubSeq(s, 1, Len(s))
    <3>1. 1 \in 1 .. Len(s) + 1 /\ n \in 1 - 1 .. Len(s) /\ Len(s) \in n .. Len(s)
      OBVIOUS
    <3>2. QED
      BY <3>1, ConcatAdjacentSubSeq
  <2>2. QED
    BY <2>1, SubSeqFull DEF First, From
<1>4. QED
  BY <1>1, <1>2, <1>3

\* The first r requests, of these lengths, one after the other.
Request(l, k) == [i \in 1 .. l[k] |-> k]
Upto(l, r) == FlattenSeq([k \in 1 .. r |-> Request(l, k)])
Lengths == [Reqs -> 1 .. MaxLen]

\* All of them are what the peer sends.
LEMMA SentIs == Sent = Upto(lens, MaxReq)
BY DEF Sent, Upto, Bytes, Request, Reqs

\* A request is as long as it should be and begins with its own number.
LEMMA RequestType ==
    ASSUME NEW l \in Lengths, NEW k \in Reqs
    PROVE  /\ Request(l, k) \in Seq(Reqs) /\ Len(Request(l, k)) = l[k]
           /\ l[k] \in 1 .. MaxLen /\ Request(l, k)[1] = k
<1>1. l[k] \in 1 .. MaxLen /\ l[k] \in Nat \ {0}
  BY HttpAssumption DEF Lengths
<1>2. QED
  BY <1>1 DEF Request

\* No requests, no bytes.
LEMMA UptoEmpty == \A l : Upto(l, 0) = <<>>
<1> SUFFICES ASSUME NEW l PROVE Upto(l, 0) = <<>>
  OBVIOUS
<1>1. [k \in 1 .. 0 |-> Request(l, k)] = <<>>
  OBVIOUS
<1>2. QED
  BY <1>1, FlattenEmpty DEF Upto

\* A request more is appended.
LEMMA UptoNext ==
    ASSUME NEW l \in Lengths, NEW r \in Nat, r + 1 \in Reqs
    PROVE  Upto(l, r + 1) = Upto(l, r) \o Request(l, r + 1)
<1> DEFINE s == [k \in 1 .. r |-> Request(l, k)]
           t == [k \in 1 .. r + 1 |-> Request(l, k)]
<1>1. \A k \in 1 .. r + 1 : Request(l, k) \in Seq(Reqs)
  <2>1. \A k \in 1 .. r + 1 : k \in Reqs
    BY HttpAssumption DEF Reqs
  <2>2. QED
    BY <2>1, RequestType
<1>2. s \in Seq(Seq(Reqs)) /\ Request(l, r + 1) \in Seq(Reqs)
  BY <1>1
<1>3. t = Append(s, Request(l, r + 1))
  <2> DEFINE u == Append(s, Request(l, r + 1))
  <2>1. t \in Seq(Seq(Reqs)) /\ Len(t) = r + 1
    BY <1>1
  <2>2. Len(s) = r
    OBVIOUS
  <2>3. u \in Seq(Seq(Reqs)) /\ Len(u) = r + 1
    BY <1>2, <2>2
  <2>4. ASSUME NEW k \in 1 .. r + 1 PROVE t[k] = u[k]
    BY <2>2
  <2> HIDE DEF t, u
  <2>5. t = u
    BY <2>1, <2>3, <2>4, SeqEqual
  <2>6. QED
    BY <2>5 DEF u
<1> HIDE DEF s, t
<1>4. FlattenSeq(t) = FlattenSeq(s) \o Request(l, r + 1)
  BY <1>2, <1>3, FlattenAppend
<1>5. QED
  BY <1>4 DEF Upto, s, t

\* Requests are bytes, so many at most.
LEMMA UptoType ==
    ASSUME NEW l \in Lengths, NEW r \in 0 .. MaxReq
    PROVE  Upto(l, r) \in Seq(Reqs) /\ Len(Upto(l, r)) <= r * MaxLen
<1> DEFINE Fine(m) == Upto(l, m) \in Seq(Reqs) /\ Len(Upto(l, m)) <= m * MaxLen
           S == {m \in Nat : m <= MaxReq => Fine(m)}
<1>1. 0 \in S
  <2>1. 0 * MaxLen = 0
    BY HttpAssumption
  <2>2. Upto(l, 0) \in Seq(Reqs) /\ Len(Upto(l, 0)) = 0
    <3>1. <<>> \in Seq(Reqs) /\ Len(<<>>) = 0
      OBVIOUS
    <3>2. Upto(l, 0) = <<>>
      BY UptoEmpty
    <3>3. QED
      BY <3>1, <3>2, Zenon
  <2>3. QED
    BY <2>1, <2>2
<1>2. ASSUME NEW m \in S PROVE m + 1 \in S
  <2>1. SUFFICES ASSUME m + 1 <= MaxReq PROVE Fine(m + 1)
    OBVIOUS
  <2>2. m \in Nat /\ Fine(m) /\ m + 1 \in Reqs
    BY <2>1, HttpAssumption DEF Reqs
  <2>3. Upto(l, m + 1) = Upto(l, m) \o Request(l, m + 1)
    BY <2>2, UptoNext
  <2>4. /\ Request(l, m + 1) \in Seq(Reqs) /\ Len(Request(l, m + 1)) \in Nat
        /\ Len(Request(l, m + 1)) <= MaxLen
    <3> DEFINE k == m + 1
    <3>1. k \in Reqs
      BY <2>2
    <3> HIDE DEF k
    <3>2. Request(l, k) \in Seq(Reqs) /\ Len(Request(l, k)) = l[k] /\ l[k] \in 1 .. MaxLen
      BY <3>1, RequestType
    <3>3. QED
      BY <3>2, HttpAssumption DEF k
  <2>5. /\ Upto(l, m + 1) \in Seq(Reqs)
        /\ Len(Upto(l, m + 1)) = Len(Upto(l, m)) + Len(Request(l, m + 1))
    <3> DEFINE u == Upto(l, m)
               w == Request(l, m + 1)
    <3>1. u \in Seq(Reqs) /\ w \in Seq(Reqs)
      BY <2>2, <2>4
    <3> HIDE DEF u, w
    <3>2. u \o w \in Seq(Reqs) /\ Len(u \o w) = Len(u) + Len(w)
      BY <3>1
    <3>3. QED
      BY <2>3, <3>2 DEF u, w
  <2>6. (m + 1) * MaxLen = m * MaxLen + MaxLen /\ m * MaxLen \in Nat
    BY <2>2, HttpAssumption
  <2>7. QED
    BY <2>2, <2>4, <2>5, <2>6, HttpAssumption
<1>3. S = Nat
  <2>1. S \subseteq Nat
    OBVIOUS
  <2> HIDE DEF S
  <2>2. QED
    BY <1>1, <1>2, <2>1, Induction
<1>4. QED
  BY <1>3, HttpAssumption

\* Concatenation, for sequences of bytes.
LEMMA Joins == \A s, t, u \in Seq(Reqs) : (s \o t) \o u = s \o (t \o u)
BY ConcatAssociative

\* After the first r requests comes the next one, if there is one.
LEMMA Remains ==
    ASSUME NEW l \in Lengths, NEW r \in Nat, r < MaxReq
    PROVE  \E rest \in Seq(Reqs) :
              Upto(l, MaxReq) = Upto(l, r) \o (Request(l, r + 1) \o rest)
<1> DEFINE Goes(m) == \E rest \in Seq(Reqs) :
                         Upto(l, m) = Upto(l, r) \o (Request(l, r + 1) \o rest)
           S == {m \in Nat : r < m /\ m <= MaxReq => Goes(m)}
<1>1. 0 \in S
  OBVIOUS
<1>2. ASSUME NEW m \in S PROVE m + 1 \in S
  <2>1. SUFFICES ASSUME r < m + 1, m + 1 <= MaxReq PROVE Goes(m + 1)
    <3>1. m + 1 \in Nat
      OBVIOUS
    <3> HIDE DEF Goes
    <3>2. QED
      BY <3>1
  <2>2. m \in Nat /\ m + 1 \in Reqs /\ r + 1 \in Reqs
    BY <2>1, HttpAssumption DEF Reqs
  <2>3. Upto(l, m + 1) = Upto(l, m) \o Request(l, m + 1)
    BY <2>2, UptoNext
  <2>4. Request(l, m + 1) \in Seq(Reqs) /\ Request(l, r + 1) \in Seq(Reqs)
    BY <2>2, RequestType
  <2>5. Upto(l, r) \in Seq(Reqs)
    BY UptoType, HttpAssumption
  <2>6. CASE m = r
    <3>1. Request(l, r + 1) = Request(l, r + 1) \o <<>>
      BY <2>4
    <3>2. <<>> \in Seq(Reqs)
      OBVIOUS
    <3>3. QED
      BY <2>3, <2>6, <3>1, <3>2
  <2>7. CASE m # r
    <3>1. r < m /\ m <= MaxReq
      BY <2>1, <2>2, <2>7, HttpAssumption
    <3>2. PICK rest \in Seq(Reqs) : Upto(l, m) = Upto(l, r) \o (Request(l, r + 1) \o rest)
      BY <3>1
    <3> DEFINE more == rest \o Request(l, m + 1)
    <3>3. more \in Seq(Reqs)
      BY <2>4
    <3>4. Request(l, r + 1) \o rest \in Seq(Reqs)
      BY <2>4
    <3>5. (Request(l, r + 1) \o rest) \o Request(l, m + 1) = Request(l, r + 1) \o more
      BY <2>4, Joins
    <3>6. Upto(l, m + 1) = Upto(l, r) \o ((Request(l, r + 1) \o rest) \o Request(l, m + 1))
      <4> DEFINE u == Upto(l, r)
                 v == Request(l, r + 1) \o rest
                 w == Request(l, m + 1)
      <4>1. u \in Seq(Reqs) /\ v \in Seq(Reqs) /\ w \in Seq(Reqs)
        BY <2>4, <2>5, <3>4
      <4>2. Upto(l, m + 1) = (u \o v) \o w
        BY <2>3, <3>2
      <4> HIDE DEF u, v, w
      <4>3. (u \o v) \o w = u \o (v \o w)
        BY <4>1, Joins
      <4>4. QED
        BY <4>2, <4>3 DEF u, v, w
    <3> HIDE DEF more
    <3>7. QED
      BY <3>3, <3>5, <3>6
  <2>8. QED
    BY <2>6, <2>7
<1>3. S = Nat
  <2>1. S \subseteq Nat
    OBVIOUS
  <2> HIDE DEF S
  <2>2. QED
    BY <1>1, <1>2, <2>1, Induction
<1>4. Goes(MaxReq)
  <2>1. MaxReq \in Nat
    BY HttpAssumption
  <2>2. MaxReq \in S
    <3> HIDE DEF S
    <3>1. QED
      BY <1>3, <2>1
  <2> HIDE DEF Goes
  <2>3. QED
    BY <2>1, <2>2
<1>5. QED
  BY <1>4

\* What follows the first r requests begins with the next one, and a part of it
\* that is as long as this is this.
LEMMA NextRequest ==
    ASSUME NEW l \in Lengths, NEW r \in 0 .. MaxReq,
           NEW all \in Seq(Reqs), all # <<>>, NEW rest \in Seq(Reqs),
           Upto(l, MaxReq) = Upto(l, r) \o (all \o rest)
    PROVE  /\ r + 1 \in Reqs /\ Head(all) = r + 1
           /\ Len(all) >= l[r + 1] => First(all, l[r + 1]) = Request(l, r + 1)
<1>1. Upto(l, r) \in Seq(Reqs) /\ all \o rest \in Seq(Reqs)
  BY UptoType
<1>2. r # MaxReq
  <2>1. SUFFICES ASSUME r = MaxReq PROVE FALSE
    OBVIOUS
  <2>2. all \o rest = <<>>
    BY <1>1, <2>1, ConcatSimplifications
  <2>3. QED
    BY <2>2
<1>3. r \in Nat /\ r < MaxReq /\ r + 1 \in Reqs
  BY <1>2, HttpAssumption DEF Reqs
<1>4. PICK after \in Seq(Reqs) : Upto(l, MaxReq) = Upto(l, r) \o (Request(l, r + 1) \o after)
  BY <1>3, Remains
<1> DEFINE req == Request(l, r + 1)
<1>5. req \in Seq(Reqs) /\ Len(req) = l[r + 1] /\ l[r + 1] \in Nat \ {0} /\ req[1] = r + 1
  BY <1>3, RequestType, HttpAssumption
<1> HIDE DEF req
<1>6. req \o after \in Seq(Reqs)
  BY <1>5
<1>7. all \o rest = req \o after
  <2>1. \A s, t, v \in Seq(Reqs) : s \o t = s \o v => t = v
    BY ConcatSimplifications
  <2>2. Upto(l, r) \o (all \o rest) = Upto(l, r) \o (req \o after)
    BY <1>4 DEF req
  <2>3. QED
    BY <1>1, <1>6, <2>1, <2>2
<1>8. (all \o rest)[1] = all[1] /\ (req \o after)[1] = req[1]
  BY <1>5
<1>9. Head(all) = r + 1
  BY <1>5, <1>7, <1>8
<1>10. ASSUME Len(all) >= l[r + 1] PROVE First(all, l[r + 1]) = req
  <2> DEFINE n == l[r + 1]
  <2>1. n \in 0 .. Len(all)
    BY <1>5, <1>10
  <2>2. First(all, n) \in Seq(Reqs) /\ Len(First(all, n)) = n /\ \A i \in 1 .. n : First(all, n)[i] = all[i]
    BY <2>1, Cut
  <2>3. \A i \in 1 .. n : (all \o rest)[i] = all[i] /\ (req \o after)[i] = req[i]
    BY <1>5, <2>1
  <2> HIDE DEF n
  <2>4. QED
    BY <1>5, <1>7, <2>2, <2>3, SeqEqual DEF n
<1>11. QED
  BY <1>3, <1>9, <1>10 DEF req

\* And how long the result is.
LEMMA Joined ==
    \A s, t \in Seq(Reqs) : /\ s \o t \in Seq(Reqs) /\ Len(s \o t) = Len(s) + Len(t)
                            /\ Len(s) \in Nat /\ Len(t) \in Nat
BY ConcatProperties

\* The sequence of sequences holds the first requests, one each.
Reported(l, rep) == Len(rep) <= MaxReq /\ \A i \in DOMAIN rep : rep[i] = Request(l, i)

\* What was reported are the first requests, so the stream can be regrouped.
Regroups(l, rep, t, b, c) ==
    FlattenSeq(rep) \o t \o b \o c = Upto(l, Len(rep)) \o (t \o (b \o c))

LEMMA Regrouped ==
    ASSUME NEW l \in Lengths, NEW rep \in Seq(Seq(Reqs)), Reported(l, rep),
           NEW t \in Seq(Reqs), NEW b \in Seq(Reqs), NEW c \in Seq(Reqs)
    PROVE  Regroups(l, rep, t, b, c)
<1> DEFINE u == Upto(l, Len(rep))
<1>1. rep = [k \in 1 .. Len(rep) |-> Request(l, k)]
  BY DEF Reported
<1>2. FlattenSeq(rep) = u
  BY <1>1 DEF Upto
<1>3. Len(rep) \in 0 .. MaxReq
  BY HttpAssumption DEF Reported
<1>4. u \in Seq(Reqs)
  BY <1>3, UptoType
<1> HIDE DEF u
<1>5. ((u \o t) \o b) \o c = (u \o t) \o (b \o c)
  <2> DEFINE v == u \o t
  <2>1. v \in Seq(Reqs)
    BY <1>4
  <2> HIDE DEF v
  <2>2. (v \o b) \o c = v \o (b \o c)
    BY <2>1, Joins
  <2>3. QED
    BY <2>2 DEF v
<1>6. (u \o t) \o (b \o c) = u \o (t \o (b \o c))
  <2>1. b \o c \in Seq(Reqs)
    OBVIOUS
  <2>2. QED
    BY <1>4, <2>1, Joins
<1>7. QED
  BY <1>2, <1>5, <1>6 DEF u, Regroups

\* Types, and that the socket's operation is the outstanding call's.
StreamTypes ==
    /\ lens \in Lengths /\ bad \in 0 .. MaxReq
    /\ coming \in Seq(Reqs) /\ buffer \in Seq(Reqs) /\ parser \in Seq(Reqs)
    /\ reported \in Seq(Seq(Reqs))
    /\ garbled \in BOOLEAN
    /\ call \in {"none", "read", "due", "write", "over"}
    /\ op \in {"none", "recv", "send"}
    /\ op = "recv" => call = "read"
    /\ op = "send" => call = "write"
    /\ Len(parser) + Len(buffer) + Len(coming) <= MaxReq * MaxLen

\* InStep, regrouped.
Remaining(l, r, t, b, c) == Upto(l, MaxReq) = Upto(l, r) \o (t \o (b \o c))
Taken == IF call = "read" THEN parser ELSE <<>>
Ordered ==
    ~garbled =>
        /\ Reported(lens, reported)
        /\ call # "over" => Remaining(lens, Len(reported), Taken, buffer, coming)

\* Which is what InStep says.
LEMMA InStepIs == StreamTypes => (InStep <=> Ordered)
<1> SUFFICES ASSUME StreamTypes PROVE InStep <=> Ordered
  OBVIOUS
<1>1. \A i \in DOMAIN reported : Bytes(i) = Request(lens, i)
  BY DEF Bytes, Request
<1>2. Taken \in Seq(Reqs)
  BY DEF Taken, StreamTypes
<1>3. Reported(lens, reported) =>
        FlattenSeq(reported) \o Taken \o buffer \o coming
          = Upto(lens, Len(reported)) \o (Taken \o (buffer \o coming))
  <2> DEFINE t == Taken
  <2>1. /\ lens \in Lengths /\ reported \in Seq(Seq(Reqs)) /\ t \in Seq(Reqs)
        /\ buffer \in Seq(Reqs) /\ coming \in Seq(Reqs)
    BY <1>2 DEF StreamTypes
  <2> HIDE DEF t
  <2>2. Reported(lens, reported) => FlattenSeq(reported) \o t \o buffer \o coming
          = Upto(lens, Len(reported)) \o (t \o (buffer \o coming))
    <3>1. Reported(lens, reported) => Regroups(lens, reported, t, buffer, coming)
      BY <2>1, Regrouped
    <3>2. QED
      BY <3>1 DEF Regroups
  <2>3. QED
    BY <2>2 DEF t
<1>4. QED
  BY <1>1, <1>3, SentIs DEF InStep, Ordered, Reported, Remaining, Taken

StreamInv == StreamTypes /\ Ordered

\* Before the first read everything is still to come.
LEMMA StreamInit == Init => StreamInv
<1> SUFFICES ASSUME Init PROVE StreamInv
  OBVIOUS
<1>1. lens \in Lengths
  BY DEF Init, Lengths
<1>2. coming = Upto(lens, MaxReq) /\ coming \in Seq(Reqs) /\ Len(coming) <= MaxReq * MaxLen
  <2>1. MaxReq \in 0 .. MaxReq
    BY HttpAssumption
  <2>2. QED
    BY <1>1, <2>1, SentIs, UptoType DEF Init
<1>3. buffer = <<>> /\ parser = <<>> /\ reported = <<>> /\ ~garbled /\ call = "none" /\ op = "none"
  BY DEF Init
<1>4. StreamTypes
  <2>1. Len(parser) + Len(buffer) + Len(coming) <= MaxReq * MaxLen
    <3>1. Len(parser) = 0 /\ Len(buffer) = 0 /\ Len(coming) \in Nat
      BY <1>2, <1>3
    <3>2. QED
      BY <1>2, <3>1
  <2>2. <<>> \in Seq(Reqs) /\ <<>> \in Seq(Seq(Reqs))
    OBVIOUS
  <2>3. bad \in 0 .. MaxReq
    BY DEF Init
  <2>4. /\ coming \in Seq(Reqs) /\ buffer \in Seq(Reqs) /\ parser \in Seq(Reqs)
        /\ reported \in Seq(Seq(Reqs))
    BY <1>2, <1>3, <2>2, Zenon
  <2>5. garbled \in BOOLEAN
    BY DEF Init
  <2>6. call = "none" /\ op = "none"
    BY <1>3
  <2>7. QED
    BY <1>1, <2>1, <2>3, <2>4, <2>5, <2>6 DEF StreamTypes
<1>5. Ordered
  <2>1. Reported(lens, reported)
    BY <1>3, HttpAssumption DEF Reported
  <2>2. Upto(lens, Len(reported)) = <<>>
    BY <1>3, UptoEmpty
  <2>3. <<>> \o (<<>> \o (<<>> \o coming)) = coming
    BY <1>2
  <2>4. QED
    BY <1>2, <1>3, <2>1, <2>2, <2>3 DEF Ordered, Remaining, Taken
<1>6. QED
  BY <1>4, <1>5 DEF StreamInv

\* All but a receive leave the bytes where they are.
LEMMA OthersInv ==
    ASSUME StreamInv, ReadHttp \/ WriteHttp \/ WriteYield \/ YieldFails
    PROVE  StreamInv'
<1> USE DEF StreamInv
<1>1. CASE ReadHttp
  <2>1. /\ call = "none" /\ call' = "read" /\ op' = "recv" /\ parser' = <<>>
        /\ UNCHANGED <<lens, bad, coming, buffer, reported, garbled>>
    BY <1>1 DEF ReadHttp
  <2>2. StreamTypes'
    <3>1. Len(parser') + Len(buffer) + Len(coming) <= MaxReq * MaxLen
      <4>1. Len(parser') = 0 /\ Len(parser) \in Nat /\ Len(buffer) \in Nat /\ Len(coming) \in Nat
        BY <2>1 DEF StreamTypes
      <4>2. MaxReq * MaxLen \in Int
        BY HttpAssumption
      <4>3. QED
        BY <4>1, <4>2 DEF StreamTypes
    <3>2. QED
      BY <2>1, <3>1 DEF StreamTypes
  <2>3. Ordered'
    BY <2>1 DEF Ordered, Taken
  <2>4. QED
    BY <2>2, <2>3
<1>2. CASE WriteHttp
  BY <1>2 DEF WriteHttp, StreamTypes, Ordered, Taken
<1>3. CASE WriteYield
  BY <1>3 DEF WriteYield, StreamTypes, Ordered, Taken
<1>4. CASE YieldFails
  BY <1>4 DEF YieldFails, StreamTypes, Ordered, Taken
<1>5. QED
  BY <1>1, <1>2, <1>3, <1>4

\* What TryParse may make of a non-empty rest of the stream: the parser has the
\* first n bytes, and it is done with a whole request or with a malformed one.
LEMMA TryParseIs ==
    ASSUME StreamTypes, NEW input \in Seq(Reqs), input # <<>>, NEW p \in TryParse(input)
    PROVE  LET all == parser \o input IN
           \E n \in 0 .. Len(all) :
              /\ p.buffer = From(all, n) /\ p.parser = First(all, n) /\ p.done \in BOOLEAN
              /\ p.done => n = lens[Head(all)] \/ garbled \/ Head(all) = bad
<1> DEFINE all == parser \o input
           cut(n, done) == Parsed(From(all, n), First(all, n), done)
           whole == lens[Head(all)]
<1>1. all \in Seq(Reqs) /\ Len(all) \in Nat /\ Len(parser) \in Nat /\ Head(all) \in Reqs
  <2>1. all \in Seq(Reqs) /\ all # <<>>
    BY DEF StreamTypes
  <2> HIDE DEF all
  <2>2. QED
    BY <2>1 DEF StreamTypes
<1>2. whole \in Nat
  <2>1. lens \in [Reqs -> 1 .. MaxLen]
    BY DEF StreamTypes, Lengths
  <2> HIDE DEF all
  <2>2. QED
    BY <1>1, <2>1, HttpAssumption
<1>3. \/ Len(all) >= whole /\ p = cut(whole, TRUE)
      \/ \E n \in Len(parser) .. Len(all) : p = cut(n, FALSE)
      \/ \E n \in Len(parser) .. Len(all) : p = cut(n, TRUE) /\ (garbled \/ Head(all) = bad)
  BY DEF TryParse
<1>4. \A n, d : /\ cut(n, d).buffer = From(all, n) /\ cut(n, d).parser = First(all, n)
               /\ cut(n, d).done = d
  BY DEF Parsed
<1> DEFINE Good(n) == /\ p.buffer = From(all, n) /\ p.parser = First(all, n)
                      /\ p.done \in BOOLEAN
                      /\ p.done => n = lens[Head(all)] \/ garbled \/ Head(all) = bad
<1> HIDE DEF all, cut
<1>5. \E n \in 0 .. Len(all) : Good(n)
  <2>1. CASE Len(all) >= whole /\ p = cut(whole, TRUE)
    <3>1. p.buffer = From(all, whole) /\ p.parser = First(all, whole) /\ p.done = TRUE
      BY <1>4, <2>1
    <3>2. whole \in 0 .. Len(all)
      BY <1>1, <1>2, <2>1
    <3>3. Good(whole)
      BY <3>1
    <3> HIDE DEF Good, whole
    <3>4. QED
      BY <3>2, <3>3
  <2>2. CASE \E n \in Len(parser) .. Len(all) : p = cut(n, FALSE)
    <3>1. PICK n \in Len(parser) .. Len(all) : p = cut(n, FALSE)
      BY <2>2
    <3>2. p.buffer = From(all, n) /\ p.parser = First(all, n) /\ p.done = FALSE
      BY <1>4, <3>1
    <3>3. n \in 0 .. Len(all)
      BY <1>1
    <3>4. Good(n)
      BY <3>1, <3>2
    <3> HIDE DEF Good
    <3>5. QED
      BY <3>3, <3>4
  <2>3. CASE \E n \in Len(parser) .. Len(all) : p = cut(n, TRUE) /\ (garbled \/ Head(all) = bad)
    <3>1. PICK n \in Len(parser) .. Len(all) : p = cut(n, TRUE) /\ (garbled \/ Head(all) = bad)
      BY <2>3
    <3>2. p.buffer = From(all, n) /\ p.parser = First(all, n) /\ p.done = TRUE
      BY <1>4, <3>1
    <3>3. n \in 0 .. Len(all)
      BY <1>1
    <3>4. Good(n)
      BY <3>1, <3>2
    <3> HIDE DEF Good
    <3>5. QED
      BY <3>3, <3>4
  <2>4. QED
    BY <1>3, <2>1, <2>2, <2>3
<1>6. QED
  BY <1>5 DEF all

\* A receive: bytes move from the stream through buffer_ to parser_ in order,
\* and a request that is reported is the next one.
LEMMA ReadYieldInv == ASSUME StreamInv, ReadYield PROVE StreamInv'
<1>1. PICK n \in 1 .. ReadLen :
         /\ n <= Len(coming)
         /\ coming' = From(coming, n)
         /\ \E p \in TryParse(buffer \o First(coming, n)) :
                /\ buffer' = p.buffer /\ parser' = p.parser
                /\ IF p.done
                   THEN /\ call' = "due" /\ op' = "none"
                        /\ reported' = Append(reported, p.parser)
                        /\ garbled' = (garbled \/ p.parser = <<>> \/ bad \in Range(p.parser))
                   ELSE UNCHANGED <<call, op, reported, garbled>>
  BY DEF ReadYield
<1> DEFINE got == First(coming, n)
           later == From(coming, n)
           input == buffer \o got
           all == parser \o input
<1>2. PICK p \in TryParse(input) :
         /\ buffer' = p.buffer /\ parser' = p.parser
         /\ IF p.done
            THEN /\ call' = "due" /\ op' = "none"
                 /\ reported' = Append(reported, p.parser)
                 /\ garbled' = (garbled \/ p.parser = <<>> \/ bad \in Range(p.parser))
            ELSE UNCHANGED <<call, op, reported, garbled>>
  BY <1>1
<1>3. /\ op = "recv" /\ call = "read" /\ UNCHANGED <<lens, bad>> /\ coming' = later
      /\ StreamTypes /\ Ordered
  BY <1>1 DEF ReadYield, StreamInv, StreamTypes
<1>4. /\ got \in Seq(Reqs) /\ Len(got) = n /\ n \in Nat \ {0}
      /\ later \in Seq(Reqs) /\ Len(later) = Len(coming) - n
      /\ got \o later = coming
  <2>1. coming \in Seq(Reqs) /\ n \in 0 .. Len(coming) /\ n \in Nat \ {0}
    BY <1>1, <1>3, HttpAssumption DEF StreamTypes
  <2>2. QED
    BY <2>1, Cut
<1> HIDE DEF got, later
<1>5. /\ input \in Seq(Reqs) /\ input # <<>> /\ Len(input) = Len(buffer) + n
      /\ buffer \in Seq(Reqs) /\ parser \in Seq(Reqs)
  <2>1. buffer \in Seq(Reqs) /\ parser \in Seq(Reqs)
    BY <1>3 DEF StreamTypes
  <2>2. buffer \o got \in Seq(Reqs) /\ Len(buffer \o got) = Len(buffer) + n /\ Len(buffer) \in Nat
    BY <1>4, <2>1, Joined
  <2>3. input # <<>>
    BY <1>4, <2>2
  <2>4. QED
    BY <2>1, <2>2, <2>3
<1>6. input \o later = buffer \o coming
  <2>1. buffer \in Seq(Reqs) /\ got \in Seq(Reqs) /\ later \in Seq(Reqs)
    BY <1>4, <1>5
  <2>2. (buffer \o got) \o later = buffer \o (got \o later)
    BY <2>1, Joins
  <2>3. got \o later = coming
    BY <1>4
  <2>4. QED
    BY <2>2, <2>3
<1> HIDE DEF input
<1>7. all \in Seq(Reqs) /\ all # <<>> /\ Len(all) = Len(parser) + Len(buffer) + n
  <2>1. Len(parser) \in Nat /\ Len(buffer) \in Nat
    BY <1>5
  <2>2. all \in Seq(Reqs) /\ Len(all) = Len(parser) + Len(input)
    BY <1>5
  <2>3. all # <<>>
    BY <1>4, <1>5, <2>1, <2>2
  <2>4. QED
    BY <1>4, <1>5, <2>1, <2>2, <2>3
<1>8. all \o later = parser \o (buffer \o coming)
  <2>1. (parser \o input) \o later = parser \o (input \o later)
    BY <1>4, <1>5, Joins
  <2>2. QED
    BY <1>6, <2>1
<1>9. PICK m \in 0 .. Len(all) :
         /\ buffer' = From(all, m) /\ parser' = First(all, m) /\ p.done \in BOOLEAN
         /\ p.done => m = lens[Head(all)] \/ garbled \/ Head(all) = bad
  BY <1>2, <1>3, <1>5, TryParseIs
<1> HIDE DEF all
<1>10. /\ parser' \in Seq(Reqs) /\ Len(parser') = m
       /\ buffer' \in Seq(Reqs) /\ Len(buffer') = Len(all) - m
       /\ parser' \o buffer' = all
       /\ \A i \in 1 .. m : parser'[i] = all[i]
  BY <1>7, <1>9, Cut
<1>11. StreamTypes'
  <2>1. Len(parser') + Len(buffer') + Len(coming') <= MaxReq * MaxLen
    <3>1. /\ Len(parser) \in Nat /\ Len(buffer) \in Nat /\ Len(coming) \in Nat
          /\ MaxReq * MaxLen \in Int
          /\ Len(parser) + Len(buffer) + Len(coming) <= MaxReq * MaxLen
      BY <1>3, HttpAssumption DEF StreamTypes
    <3>2. QED
      BY <1>3, <1>4, <1>7, <1>9, <1>10, <3>1
  <2>2. reported' \in Seq(Seq(Reqs)) /\ garbled' \in BOOLEAN
    <3>1. reported' = reported \/ reported' = Append(reported, parser')
      BY <1>2
    <3>2. reported \in Seq(Seq(Reqs)) /\ garbled \in BOOLEAN
      BY <1>3 DEF StreamTypes
    <3>3. garbled' \in BOOLEAN
      BY <1>2, <3>2
    <3>4. parser' \in Seq(Reqs)
      BY <1>10
    <3>5. Append(reported, parser') \in Seq(Seq(Reqs))
      BY <3>2, <3>4, AppendProperties
    <3>6. QED
      BY <3>1, <3>2, <3>3, <3>5
  <2>3. /\ call' \in {"none", "read", "due", "write", "over"}
        /\ op' \in {"none", "recv", "send"}
        /\ op' = "recv" => call' = "read"
        /\ op' = "send" => call' = "write"
    BY <1>2, <1>3 DEF StreamTypes
  <2>4. QED
    BY <1>3, <1>4, <1>10, <2>1, <2>2, <2>3 DEF StreamTypes
<1> DEFINE r == Len(reported)
<1>12. SUFFICES ASSUME ~garbled' PROVE Ordered'
  BY <1>11 DEF StreamInv, Ordered
<1>13. /\ ~garbled /\ lens' = lens /\ lens \in Lengths /\ bad' = bad
       /\ Reported(lens, reported) /\ r \in 0 .. MaxReq
       /\ reported \in Seq(Seq(Reqs))
  <2>1. ~garbled
    BY <1>2, <1>12
  <2>2. QED
    BY <1>3, <2>1, HttpAssumption DEF Ordered, Reported, StreamTypes
<1>14. Upto(lens, MaxReq) = Upto(lens, r) \o (all \o later)
  <2>1. Remaining(lens, r, parser, buffer, coming)
    BY <1>3, <1>13 DEF Ordered, Taken
  <2>2. QED
    BY <1>8, <2>1 DEF Remaining
<1>15. all \o later = parser' \o (buffer' \o later)
  BY <1>4, <1>10, Joins
<1>16. CASE ~p.done
  <2>1. call' = "read" /\ reported' = reported
    BY <1>2, <1>3, <1>16
  <2>2. Remaining(lens, r, parser', buffer', later)
    BY <1>14, <1>15 DEF Remaining
  <2>3. QED
    BY <1>3, <1>13, <2>1, <2>2 DEF Ordered, Taken
<1>17. CASE p.done
  <2>1. /\ call' = "due" /\ reported' = Append(reported, parser')
        /\ parser' # <<>> /\ bad \notin Range(parser')
    BY <1>2, <1>12, <1>17
  <2>2. m >= 1
    BY <1>9, <1>10, <2>1
  <2>3. Head(all) # bad
    <3>1. 1 \in DOMAIN parser' /\ parser'[1] = all[1]
      BY <1>9, <1>10, <2>2
    <3>2. Head(all) = all[1]
      BY <1>7
    <3>3. QED
      BY <2>1, <3>1, <3>2 DEF Range
  <2>4. m = lens[Head(all)]
    BY <1>9, <1>13, <1>17, <2>3
  <2>5. r + 1 \in Reqs /\ Head(all) = r + 1
    BY <1>4, <1>7, <1>13, <1>14, NextRequest
  <2>6. parser' = Request(lens, r + 1)
    <3>1. Len(all) >= lens[r + 1]
      BY <1>7, <1>9, <2>4, <2>5
    <3>2. First(all, lens[r + 1]) = Request(lens, r + 1)
      BY <1>4, <1>7, <1>13, <1>14, <3>1, NextRequest
    <3>3. m = lens[r + 1]
      BY <2>4, <2>5
    <3>4. QED
      BY <1>9, <3>2, <3>3
  <2>7. Len(reported') = r + 1 /\ Reported(lens, reported')
    <3>1. Len(reported') = r + 1
      BY <1>13, <2>1
    <3>2. r + 1 <= MaxReq
      BY <2>5 DEF Reqs
    <3>3. \A i \in 1 .. r + 1 : reported'[i] = Request(lens, i)
      BY <1>13, <2>1, <2>6 DEF Reported
    <3>4. DOMAIN reported' = 1 .. r + 1
      BY <1>13, <2>1
    <3>5. QED
      BY <3>1, <3>2, <3>3, <3>4 DEF Reported
  <2>8. Upto(lens, r + 1) = Upto(lens, r) \o parser'
    <3>1. r \in Nat
      BY <1>13, HttpAssumption
    <3> HIDE DEF r
    <3>2. QED
      BY <1>13, <2>5, <2>6, <3>1, UptoNext
  <2>9. Upto(lens, MaxReq) = Upto(lens, r + 1) \o (buffer' \o later)
    <3> DEFINE u == Upto(lens, r)
               a == parser'
               b == buffer' \o later
    <3>1. u \in Seq(Reqs) /\ a \in Seq(Reqs) /\ b \in Seq(Reqs)
      BY <1>4, <1>10, <1>13, UptoType
    <3>2. Upto(lens, MaxReq) = u \o (a \o b) /\ Upto(lens, r + 1) = u \o a
      BY <1>14, <1>15, <2>8
    <3> HIDE DEF u, a, b
    <3>3. (u \o a) \o b = u \o (a \o b)
      BY <3>1, Joins
    <3>4. QED
      BY <3>2, <3>3 DEF b
  <2>10. <<>> \o (buffer' \o later) = buffer' \o later
    <3>1. buffer' \o later \in Seq(Reqs)
      BY <1>4, <1>10
    <3>2. QED
      BY <3>1, ConcatEmptySeq
  <2>11. Remaining(lens, r + 1, <<>>, buffer', later)
    BY <2>9, <2>10 DEF Remaining
  <2>12. QED
    BY <1>3, <1>13, <2>1, <2>7, <2>11 DEF Ordered, Taken
<1>18. QED
  BY <1>9, <1>16, <1>17

\* One step of the service is at most one of the stream's.
LEMMA ServiceStream == StreamInv /\ [ServiceNext]_serviceVars => StreamInv'
<1> SUFFICES ASSUME StreamInv, [ServiceNext]_serviceVars PROVE StreamInv'
  OBVIOUS
<1>1. CASE UNCHANGED vars
  BY <1>1 DEF vars, StreamInv, StreamTypes, Ordered, Taken
<1>2. CASE Respond
  BY <1>2, OthersInv DEF Respond
<1>3. CASE Stream
  BY <1>3, OthersInv, ReadYieldInv DEF Stream
<1>4. CASE Registration \/ Visits \/ Client \/ UNCHANGED serviceVars
  BY <1>1, <1>4 DEF Registration, Visits, Client, serviceVars
<1>5. QED
  BY <1>2, <1>3, <1>4 DEF ServiceNext

\* However the stream is cut into receives, requests are reported whole and in
\* order, and no byte between the socket and the parser is lost or kept twice.
THEOREM ServiceInStep == ServiceSpec => []InStep
<1>1. ServiceInit => StreamInv
  BY StreamInit DEF ServiceInit
<1>2. StreamInv => InStep
  BY InStepIs DEF StreamInv
<1>3. QED
  BY <1>1, <1>2, ServiceStream, PTL DEF ServiceSpec
-----------------------------------------------------------------------------
\* The visits and the report of them that is under way.
Entry == [bin : Nat, count : Nat \ {0}]
Visit == [service : STRING, lists : [Endpoints -> Seq(Entry)]]
VisitTypes ==
    /\ visits \in Seq(Visit) /\ Len(visits) <= Len(Services)
    /\ \A i \in DOMAIN visits : visits[i].service = Services[i]
    /\ report \in Seq(Visit) /\ upto \in Nat
    /\ Len(report) <= upto /\ upto <= Len(visits)
    /\ access \in {"free", "report"}
    /\ registering \in BOOLEAN /\ raced \in BOOLEAN /\ crashed \in BOOLEAN

\* One more access in a list is one more in its last entry or a new entry.
LEMMA OneMoreType ==
    ASSUME NEW list \in Seq(Entry), NEW bin \in Nat
    PROVE  OneMore(list, bin) \in Seq(Entry)
<1>1. CASE list # <<>> /\ Last(list).bin = bin
  <2> DEFINE n == Len(list)
             new == [list[n] EXCEPT !.count = @ + 1]
  <2>1. OneMore(list, bin) = [list EXCEPT ![n] = new]
    BY <1>1 DEF OneMore
  <2>2. n \in 1 .. Len(list) /\ list \in Seq(Entry)
    BY <1>1
  <2>3. list[n] \in Entry
    BY <2>2, ElementOfSeq
  <2>4. new \in Entry
    <3>1. list[n].bin \in Nat /\ list[n].count + 1 \in Nat \ {0}
      BY <2>3 DEF Entry
    <3>2. new = [bin |-> list[n].bin, count |-> list[n].count + 1]
      BY <2>3 DEF Entry
    <3>3. QED
      BY <3>1, <3>2 DEF Entry
  <2>5. [list EXCEPT ![n] = new] \in Seq(Entry)
    <3> HIDE DEF n, new
    <3>1. QED
      BY <2>2, <2>4, ExceptSeq
  <2>6. QED
    BY <2>1, <2>5
<1>2. CASE ~(list # <<>> /\ Last(list).bin = bin)
  <2>1. [bin |-> bin, count |-> 1] \in Entry
    BY DEF Entry
  <2>2. OneMore(list, bin) = Append(list, [bin |-> bin, count |-> 1])
    BY <1>2 DEF OneMore
  <2>3. QED
    BY <2>1, <2>2
<1>3. QED
  BY <1>1, <1>2

\* What AddAccess makes of the visits.
LEMMA AddAccessIs ==
    ASSUME VisitTypes, NEW s, NEW e \in Endpoints, AddAccess(s, e)
    PROVE  /\ \E bin \in Nat :
                 visits' = [i \in DOMAIN visits |->
                               IF visits[i].service # s THEN visits[i]
                               ELSE [visits[i] EXCEPT !.lists[e] = OneMore(@, bin)]]
           /\ access = "free" /\ UNCHANGED <<access, report, upto, registering, raced, crashed>>
<1>1. PICK t \in Times :
         visits' = [i \in DOMAIN visits |->
                       IF visits[i].service # s THEN visits[i]
                       ELSE [visits[i] EXCEPT !.lists[e] = OneMore(@, Bin(t))]]
  BY DEF AddAccess
<1>2. Bin(t) \in Nat
  <2>1. t \in Nat /\ Delta \in Nat \ {0}
    BY VisitAssumption
  <2>2. t \div Delta \in Nat
    BY <2>1
  <2>3. (t \div Delta) * Delta \in Nat
    <3> DEFINE k == t \div Delta
    <3>1. k \in Nat
      BY <2>2
    <3> HIDE DEF k
    <3>2. k * Delta \in Nat
      BY <2>1, <3>1
    <3>3. QED
      BY <3>2 DEF k
  <2>4. QED
    BY <2>3 DEF Bin
<1>3. QED
  BY <1>1, <1>2 DEF AddAccess

\* An access is counted only while nothing is being reported.
LEMMA AddAccessInv ==
    ASSUME VisitTypes, Snapshot, NEW s, NEW e \in Endpoints, AddAccess(s, e)
    PROVE  VisitTypes' /\ Snapshot'
<1>1. PICK bin \in Nat :
         visits' = [i \in DOMAIN visits |->
                       IF visits[i].service # s THEN visits[i]
                       ELSE [visits[i] EXCEPT !.lists[e] = OneMore(@, bin)]]
  BY AddAccessIs
<1>2. access = "free" /\ UNCHANGED <<access, report, upto, registering, raced, crashed>>
  BY AddAccessIs
<1>3. ASSUME NEW i \in DOMAIN visits
      PROVE  LET new == [visits[i] EXCEPT !.lists[e] = OneMore(@, bin)]
             IN new \in Visit /\ new.service = visits[i].service
  <2>1. visits[i] \in Visit
    BY DEF VisitTypes
  <2>2. OneMore(visits[i].lists[e], bin) \in Seq(Entry)
    BY <2>1, OneMoreType DEF Visit
  <2>3. QED
    BY <2>1, <2>2 DEF Visit
<1>4. /\ visits' \in Seq(Visit) /\ Len(visits') = Len(visits)
      /\ \A i \in DOMAIN visits' : visits'[i].service = visits[i].service
  BY <1>1, <1>3 DEF VisitTypes
<1>5. QED
  BY <1>2, <1>4 DEF VisitTypes, Snapshot

\* Handlers and files have endpoints of their own in visits_.
LEMMA RespondVisits ==
    ASSUME Respond
    PROVE  \/ \E e \in Endpoints : AddAccess(Here, e) /\ Answered(Here)
           \/ UNCHANGED managerVars
<1>1. PICK target \in Targets :
         \/ \E verb \in Verbs, useHandler \in BOOLEAN :
               HandlerRequest(Here, target, verb, useHandler)
         \/ FileRequest(Here, target)
         \/ NotFound(target)
  BY DEF Respond
<1>2. ASSUME NEW verb \in Verbs, NEW useHandler \in BOOLEAN,
             HandlerRequest(Here, target, verb, useHandler)
      PROVE  \E e \in Endpoints : AddAccess(Here, e) /\ Answered(Here)
  BY <1>2, HttpManagerAssumption DEF HandlerRequest
<1>3. ASSUME FileRequest(Here, target)
      PROVE  \E e \in Endpoints : AddAccess(Here, e) /\ Answered(Here)
  <2>1. AssurePath(target) \subseteq Endpoints
    BY HttpManagerAssumption DEF AssurePath
  <2>2. QED
    BY <1>3, <2>1 DEF FileRequest
<1>4. QED
  BY <1>1, <1>2, <1>3 DEF NotFound

\* A registration appends its service or only begins.
LEMMA RegistrationInv ==
    ASSUME VisitTypes, Snapshot, Registration
    PROVE  VisitTypes' /\ Snapshot'
<1>1. CASE RegisterBegin
  BY <1>1 DEF RegisterBegin, VisitTypes, Snapshot, Race
<1>2. CASE RegisterEnd(Services[Len(visits) + 1])
  <2> DEFINE new == Service(Services[Len(visits) + 1])
  <2>1. Len(visits) \in Nat /\ Len(Services) \in Nat /\ Len(visits) < Len(Services)
    BY ServicesAssumption DEF Registration, Registered, VisitTypes
  <2>2. new \in Visit /\ new.service = Services[Len(visits) + 1]
    BY <2>1, ServicesAssumption DEF Service, Visit
  <2>3. /\ visits' = Append(visits, new) /\ registering' = FALSE
        /\ UNCHANGED <<access, report, upto, raced, crashed>>
    BY <1>2 DEF RegisterEnd
  <2>4. /\ visits' \in Seq(Visit) /\ Len(visits') = Len(visits) + 1
        /\ visits'[Len(visits) + 1] = new
        /\ \A i \in 1 .. Len(visits) : visits'[i] = visits[i]
    BY <2>2, <2>3 DEF VisitTypes
  <2> HIDE DEF new
  <2>5. VisitTypes'
    <3>1. Len(visits') <= Len(Services) /\ upto' <= Len(visits')
      BY <2>1, <2>3, <2>4 DEF VisitTypes
    <3>2. \A i \in DOMAIN visits' : visits'[i].service = Services[i]
      <4>1. DOMAIN visits' = 1 .. Len(visits) + 1 /\ DOMAIN visits = 1 .. Len(visits)
        BY <2>3, <2>4 DEF VisitTypes
      <4>2. \A i \in DOMAIN visits : visits[i].service = Services[i]
        BY DEF VisitTypes
      <4>3. QED
        BY <2>1, <2>2, <2>4, <4>1, <4>2
    <3>3. /\ report' \in Seq(Visit) /\ upto' \in Nat /\ Len(report') <= upto'
          /\ access' \in {"free", "report"}
          /\ registering' \in BOOLEAN /\ raced' \in BOOLEAN /\ crashed' \in BOOLEAN
      BY <2>3 DEF VisitTypes
    <3>4. QED
      BY <2>4, <3>1, <3>2, <3>3 DEF VisitTypes
  <2>6. Snapshot'
    BY <2>1, <2>3, <2>4 DEF VisitTypes, Snapshot
  <2>7. QED
    BY <2>5, <2>6
<1>3. QED
  BY <1>1, <1>2 DEF Registration

\* A report that begins, or has ended.
EmptyReport ==
    /\ report' = <<>> /\ visits' = visits /\ upto' \in {0, Len(visits)}
    /\ access' \in {"free", "report"}

\* It shows nothing that could be wrong.
LEMMA EmptyReportInv ==
    ASSUME VisitTypes, EmptyReport,
           registering' \in BOOLEAN, raced' \in BOOLEAN, crashed' \in BOOLEAN
    PROVE  VisitTypes' /\ Snapshot'
<1>1. report' = <<>> /\ visits' = visits
  BY DEF EmptyReport
<1>2. report' \in Seq(Visit) /\ Len(report') = 0 /\ DOMAIN report' = {}
  <2>1. <<>> \in Seq(Visit) /\ Len(<<>>) = 0 /\ DOMAIN <<>> = {}
    BY EmptySeq
  <2>2. QED
    BY <1>1, <2>1, Zenon
<1>3. Len(visits) \in Nat
  BY DEF VisitTypes
<1>4. VisitTypes'
  BY <1>1, <1>2, <1>3 DEF VisitTypes, EmptyReport
<1>5. Snapshot'
  BY <1>2 DEF Snapshot
<1>6. QED
  BY <1>4, <1>5

\* A report copies the services one after the other.
LEMMA ReportInv ==
    ASSUME VisitTypes, Snapshot, Report
    PROVE  VisitTypes' /\ Snapshot'
<1>1. CASE ReportBegin
  <2>1. /\ access' = "report" /\ report' = <<>> /\ upto' = Len(visits) /\ visits' = visits
        /\ registering' = registering
        /\ crashed' = crashed \/ crashed' = TRUE
        /\ raced' = raced \/ raced' = TRUE
    BY <1>1 DEF ReportBegin, Race
  <2>2. EmptyReport
    BY <2>1 DEF EmptyReport
  <2>3. QED
    BY <2>1, <2>2, EmptyReportInv DEF VisitTypes
<1>2. CASE ReportService
  <2> DEFINE next == Len(report) + 1
  <2>1. /\ access = "report" /\ Len(report) < upto
        /\ report' = Append(report, visits[next])
        /\ UNCHANGED <<visits, access, upto, registering, raced, crashed>>
    BY <1>2 DEF ReportService
  <2>2. next \in 1 .. Len(visits) /\ next <= upto /\ visits[next] \in Visit
    BY <2>1 DEF VisitTypes
  <2>3. /\ report' \in Seq(Visit) /\ Len(report') = next /\ report'[next] = visits[next]
        /\ \A i \in 1 .. Len(report) : report'[i] = report[i]
    BY <2>1, <2>2 DEF VisitTypes
  <2>4. VisitTypes'
    BY <2>1, <2>2, <2>3 DEF VisitTypes
  <2>5. Snapshot'
    BY <2>1, <2>2, <2>3 DEF VisitTypes, Snapshot
  <2>6. QED
    BY <2>4, <2>5
<1>3. CASE ReportEnd
  <2>1. /\ access' = "free" /\ report' = <<>> /\ upto' = 0 /\ visits' = visits
        /\ raced' = FALSE /\ UNCHANGED <<registering, crashed>>
    BY <1>3 DEF ReportEnd
  <2>2. EmptyReport
    BY <2>1 DEF EmptyReport
  <2>3. QED
    BY <2>1, <2>2, EmptyReportInv DEF VisitTypes
<1>4. QED
  BY <1>1, <1>2, <1>3 DEF Report

VisitInv == VisitTypes /\ Snapshot

\* No service has registered and nothing is reported.
LEMMA VisitsInit == ServiceInit => VisitInv
<1> SUFFICES ASSUME ServiceInit PROVE VisitTypes /\ Snapshot
  BY DEF VisitInv
<1>1. /\ visits = <<>> /\ access = "free" /\ report = <<>> /\ upto = 0
      /\ registering = FALSE /\ raced = FALSE /\ crashed = FALSE
  BY DEF ServiceInit, VisitInit
<1>2. /\ visits \in Seq(Visit) /\ report \in Seq(Visit)
      /\ Len(visits) = 0 /\ Len(report) = 0 /\ DOMAIN visits = {}
  <2>1. <<>> \in Seq(Visit) /\ Len(<<>>) = 0 /\ DOMAIN <<>> = {}
    BY EmptySeq
  <2>2. QED
    BY <1>1, <2>1, Zenon
<1>3. Len(Services) \in Nat
  BY ServicesAssumption
<1>4. registering \in BOOLEAN /\ raced \in BOOLEAN /\ crashed \in BOOLEAN
  BY DEF ServiceInit, VisitInit
<1>5. VisitTypes
  BY <1>1, <1>2, <1>3, <1>4 DEF VisitTypes
<1>6. Snapshot
  BY <1>1 DEF Snapshot
<1>7. QED
  BY <1>5, <1>6

\* Only registrations, answers and reports touch the visits.
LEMMA VisitsNext == VisitInv /\ [ServiceNext]_serviceVars => VisitInv'
<1> SUFFICES ASSUME VisitTypes, Snapshot, [ServiceNext]_serviceVars
             PROVE  VisitTypes' /\ Snapshot'
  BY DEF VisitInv
<1>1. CASE UNCHANGED visitVars
  BY <1>1 DEF visitVars, VisitTypes, Snapshot
<1>2. CASE Respond
  BY <1>1, <1>2, RespondVisits, AddAccessInv DEF managerVars
<1>3. CASE Stream \/ Client \/ UNCHANGED serviceVars
  BY <1>1, <1>3 DEF Stream, Client, serviceVars, managerVars
<1>4. CASE Registration \/ Visits
  BY <1>4, RegistrationInv, ReportInv DEF Visits
<1>5. QED
  BY <1>2, <1>3, <1>4 DEF ServiceNext

\* A report shows every service as it is at one moment (get_pretty_stats holds
\* the mutex for all of it), for any number of services, requests and reports.
THEOREM ServiceSnapshot == ServiceSpec => []Snapshot
BY VisitsInit, VisitsNext, PTL DEF ServiceSpec, VisitInv
-----------------------------------------------------------------------------
(* Sums of visits.                                                          *)

CountOf(list) == FoldSeq(LAMBDA b, acc : b.count + acc, 0, list)
Counts(list) == [i \in DOMAIN list |-> list[i].count]

\* The fold of a list is the sum of its counts.
LEMMA CountIs ==
    ASSUME NEW list, IsFiniteSet(DOMAIN list)
    PROVE  CountOf(list) = SumOver(Counts(list), DOMAIN list)
<1> DEFINE D == DOMAIN list
           Folds(it) == it = [s \in SUBSET D |->
                                IF s = {} THEN 0
                                ELSE list[CHOOSE x \in s : TRUE].count
                                       + it[s \ {CHOOSE x \in s : TRUE}]]
           fold == CHOOSE it : Folds(it)
<1>1. \A it : Sums(it, Counts(list), D) <=> Folds(it)
  <2> SUFFICES ASSUME NEW it PROVE Sums(it, Counts(list), D) <=> Folds(it)
    OBVIOUS
  <2>1. ASSUME NEW s \in SUBSET D, s # {}
        PROVE  Counts(list)[Picked(s)] = list[CHOOSE x \in s : TRUE].count
    <3>1. Picked(s) \in s /\ Picked(s) = CHOOSE x \in s : TRUE
      BY <2>1 DEF Picked
    <3>2. QED
      BY <3>1 DEF Counts
  <2>2. [s \in SUBSET D |-> IF s = {} THEN 0
                            ELSE Counts(list)[Picked(s)] + it[s \ {Picked(s)}]]
        = [s \in SUBSET D |-> IF s = {} THEN 0
                              ELSE list[CHOOSE x \in s : TRUE].count
                                     + it[s \ {CHOOSE x \in s : TRUE}]]
    BY <2>1 DEF Picked
  <2>3. QED
    BY <2>2 DEF Sums, SumsIn
<1>2. Folds(fold)
  <2>1. \E it : Folds(it)
    <3> HIDE DEF Folds, D
    <3>1. QED
      BY <1>1, SumExists DEF D
  <2>2. QED
    BY <2>1
<1>3. CountOf(list) = fold[D]
  BY DEF CountOf, FoldSeq, FoldFunction, FoldFunctionOnSet, MapThenFoldSet
<1> HIDE DEF fold, Folds
<1>4. SumOver(Counts(list), D) = fold[D]
  BY <1>1, <1>2, SumIs
<1>5. QED
  BY <1>3, <1>4

TotalOf(lists) == MapThenSumSet(LAMBDA e : CountOf(lists[e]), Endpoints)
Totals(lists) == [e \in Endpoints |-> CountOf(lists[e])]

\* The same for the total of a service.
LEMMA TotalIs ==
    ASSUME NEW lists
    PROVE  TotalOf(lists) = SumOver(Totals(lists), Endpoints)
<1> DEFINE D == Endpoints
           Folds(it) == it = [s \in SUBSET D |->
                                IF s = {} THEN 0
                                ELSE CountOf(lists[CHOOSE x \in s : TRUE])
                                       + it[s \ {CHOOSE x \in s : TRUE}]]
           fold == CHOOSE it : Folds(it)
<1>1. \A it : Sums(it, Totals(lists), D) <=> Folds(it)
  <2> SUFFICES ASSUME NEW it PROVE Sums(it, Totals(lists), D) <=> Folds(it)
    OBVIOUS
  <2>1. ASSUME NEW s \in SUBSET D, s # {}
        PROVE  Totals(lists)[Picked(s)] = CountOf(lists[CHOOSE x \in s : TRUE])
    <3>1. Picked(s) \in s /\ Picked(s) = CHOOSE x \in s : TRUE
      BY <2>1 DEF Picked
    <3>2. QED
      BY <3>1 DEF Totals
  <2>2. [s \in SUBSET D |-> IF s = {} THEN 0
                            ELSE Totals(lists)[Picked(s)] + it[s \ {Picked(s)}]]
        = [s \in SUBSET D |-> IF s = {} THEN 0
                              ELSE CountOf(lists[CHOOSE x \in s : TRUE])
                                     + it[s \ {CHOOSE x \in s : TRUE}]]
    BY <2>1 DEF Picked
  <2>3. QED
    BY <2>2 DEF Sums, SumsIn
<1>2. Folds(fold)
  <2>1. \E it : Folds(it)
    <3> HIDE DEF Folds
    <3>1. QED
      BY <1>1, SumExists, VisitAssumption
  <2>2. QED
    BY <2>1
<1>3. TotalOf(lists) = fold[D]
  BY DEF TotalOf, MapThenSumSet, MapThenFoldSet
<1> HIDE DEF fold, Folds
<1>4. SumOver(Totals(lists), D) = fold[D]
  BY <1>1, <1>2, SumIs, VisitAssumption
<1>5. QED
  BY <1>3, <1>4

\* The total of the model.
LEMMA TotalNow == \A i : Total(i) = TotalOf(visits[i].lists)
BY DEF Total, TotalOf, CountOf

\* The same of the next state.
LEMMA TotalNext == (\A i : Total(i) = TotalOf(visits[i].lists))'
BY TotalNow, PTL

\* A list's counts are numbers, for as many entries as it has.
LEMMA CountsType ==
    ASSUME NEW list \in Seq(Entry)
    PROVE  /\ IsFiniteSet(DOMAIN list) /\ DOMAIN list = 1 .. Len(list)
           /\ \A i \in DOMAIN list : Counts(list)[i] = list[i].count /\ Counts(list)[i] \in Int
           /\ CountOf(list) \in Int
<1>1. DOMAIN list = 1 .. Len(list) /\ Len(list) \in Nat
  OBVIOUS
<1>2. IsFiniteSet(DOMAIN list)
  BY <1>1, FS_Interval
<1>3. \A i \in DOMAIN list : Counts(list)[i] = list[i].count /\ Counts(list)[i] \in Int
  <2>1. \A i \in DOMAIN list : list[i] \in Entry
    BY <1>1, ElementOfSeq
  <2>2. QED
    BY <2>1 DEF Counts, Entry
<1>4. CountOf(list) = SumOver(Counts(list), DOMAIN list)
  BY <1>2, CountIs
<1>5. QED
  BY <1>1, <1>2, <1>3, <1>4, SumRemove

\* One more access in a list makes its sum one more, in the last entry or in a
\* new one.
LEMMA CountOneMore ==
    ASSUME NEW list \in Seq(Entry), NEW bin \in Nat
    PROVE  CountOf(OneMore(list, bin)) = CountOf(list) + 1
<1> DEFINE more == OneMore(list, bin)
           n == Len(list)
           f == Counts(list)
           g == Counts(more)
<1>1. more \in Seq(Entry)
  BY OneMoreType
<1>2. /\ IsFiniteSet(DOMAIN list) /\ DOMAIN list = 1 .. n /\ n \in Nat
      /\ \A i \in DOMAIN list : f[i] = list[i].count /\ f[i] \in Int
  BY CountsType
<1>3. /\ IsFiniteSet(DOMAIN more) /\ DOMAIN more = 1 .. Len(more)
      /\ \A i \in DOMAIN more : g[i] = more[i].count /\ g[i] \in Int
  BY <1>1, CountsType
<1>4. /\ CountOf(list) = SumOver(f, 1 .. n)
      /\ CountOf(more) = SumOver(g, 1 .. Len(more))
  BY <1>2, <1>3, CountIs
<1>5. CASE list # <<>> /\ Last(list).bin = bin
  <2> DEFINE new == [list[n] EXCEPT !.count = @ + 1]
  <2>1. more = [list EXCEPT ![n] = new]
    BY <1>5 DEF OneMore
  <2>2. n \in 1 .. n
    BY <1>2, <1>5
  <2>3. list[n] \in Entry
    BY <2>2, ElementOfSeq
  <2>4. new.count = list[n].count + 1
    BY <2>3 DEF Entry
  <2> HIDE DEF new
  <2>5. DOMAIN more = 1 .. n /\ Len(more) = n
    BY <1>1, <1>2, <1>3, <2>1
  <2>6. g[n] = f[n] + 1
    BY <1>2, <1>3, <2>1, <2>2, <2>4, <2>5
  <2>7. \A i \in 1 .. n : i # n => g[i] = f[i]
    BY <1>2, <1>3, <2>1, <2>5
  <2> HIDE DEF f, g, more, n
  <2>8. SumOver(g, 1 .. n) = SumOver(f, 1 .. n) + 1
    BY <1>2, <2>2, <2>6, <2>7, SumOneMore
  <2>9. QED
    BY <1>4, <2>5, <2>8 DEF more
<1>6. CASE ~(list # <<>> /\ Last(list).bin = bin)
  <2> DEFINE new == [bin |-> bin, count |-> 1]
  <2>1. more = Append(list, new)
    BY <1>6 DEF OneMore
  <2>2. new.count = 1
    OBVIOUS
  <2> HIDE DEF new
  <2>3. /\ Len(more) = n + 1 /\ more[n + 1] = new
        /\ \A i \in 1 .. n : more[i] = list[i]
    BY <1>2, <2>1
  <2>4. g[n + 1] = 1
    BY <1>2, <1>3, <2>2, <2>3
  <2>5. \A i \in 1 .. n : g[i] = f[i]
    BY <1>2, <1>3, <2>3
  <2>6. n + 1 \in 1 .. n + 1 /\ (1 .. n + 1) \ {n + 1} = 1 .. n
    BY <1>2
  <2> HIDE DEF f, g, more, n
  <2>7. SumOver(g, 1 .. n + 1) = g[n + 1] + SumOver(g, 1 .. n)
    <3>1. IsFiniteSet(1 .. n + 1) /\ \A i \in 1 .. n + 1 : g[i] \in Int
      BY <1>3, <2>3
    <3>2. SumOver(g, 1 .. n + 1) = g[n + 1] + SumOver(g, (1 .. n + 1) \ {n + 1})
      BY <2>6, <3>1, SumRemove
    <3>3. QED
      BY <2>6, <3>2
  <2>8. SumOver(g, 1 .. n) = SumOver(f, 1 .. n)
    BY <1>2, <2>5, SumSame
  <2>9. SumOver(f, 1 .. n) \in Int
    BY <1>2, SumRemove
  <2>10. QED
    BY <1>4, <2>3, <2>4, <2>7, <2>8, <2>9 DEF more
<1>7. QED
  BY <1>5, <1>6

\* The total is one more if one list's sum is.
LEMMA TotalOneMore ==
    ASSUME NEW lists \in [Endpoints -> Seq(Entry)], NEW e \in Endpoints, NEW bin \in Nat
    PROVE  /\ TotalOf(lists) \in Int
           /\ TotalOf([lists EXCEPT ![e] = OneMore(@, bin)]) = TotalOf(lists) + 1
<1> DEFINE new == [lists EXCEPT ![e] = OneMore(@, bin)]
           f == Totals(lists)
           g == Totals(new)
<1>1. \A x \in Endpoints : f[x] = CountOf(lists[x]) /\ f[x] \in Int
  BY CountsType DEF Totals
<1>2. TotalOf(lists) = SumOver(f, Endpoints) /\ TotalOf(new) = SumOver(g, Endpoints)
  BY TotalIs
<1>3. g[e] = f[e] + 1
  <2>1. new[e] = OneMore(lists[e], bin) /\ lists[e] \in Seq(Entry)
    OBVIOUS
  <2>2. CountOf(new[e]) = CountOf(lists[e]) + 1
    <3> HIDE DEF new
    <3>1. QED
      BY <2>1, CountOneMore
  <2>3. QED
    BY <2>2 DEF Totals
<1>4. \A x \in Endpoints : x # e => g[x] = f[x]
  BY DEF Totals
<1> HIDE DEF f, g, new
<1>5. SumOver(f, Endpoints) \in Int
  BY <1>1, SumRemove, VisitAssumption
<1>6. SumOver(g, Endpoints) = SumOver(f, Endpoints) + 1
  BY <1>1, <1>3, <1>4, SumOneMore, VisitAssumption
<1>7. QED
  BY <1>2, <1>5, <1>6 DEF new

\* A service that has just registered has no visits.
LEMMA TotalNew == \A s : TotalOf(Service(s).lists) = 0
<1> SUFFICES ASSUME NEW s PROVE TotalOf(Service(s).lists) = 0
  OBVIOUS
<1>1. CountOf(<<>>) = 0
  <2>1. DOMAIN <<>> = {}
    BY EmptySeq
  <2>2. CountOf(<<>>) = SumOver(Counts(<<>>), {})
    BY <2>1, CountIs, FS_EmptySet
  <2>3. QED
    BY <2>2, SumEmpty
<1> DEFINE lists == Service(s).lists
<1>2. \A e \in Endpoints : Totals(lists)[e] = 0
  BY <1>1 DEF Totals, Service
<1>3. TotalOf(lists) = SumOver(Totals(lists), Endpoints)
  BY TotalIs
<1> HIDE DEF lists
<1>4. TotalOf(lists) = 0
  BY <1>2, <1>3, SumZero, VisitAssumption
<1>5. QED
  BY <1>4 DEF lists

-----------------------------------------------------------------------------
(* What was answered is counted.                                            *)

\* Requests come only once every service has registered.
CountInv ==
    /\ VisitTypes /\ Counted
    /\ answered \in [ToSet(Services) -> Nat]
    /\ \/ Registered
       \/ call = "none" /\ \A s \in ToSet(Services) : answered[s] = 0

\* Every service has a name, the connection's one included.
LEMMA ServiceNames ==
    /\ Len(Services) \in Nat \ {0}
    /\ \A i \in 1 .. Len(Services) : Services[i] \in ToSet(Services)
    /\ Here \in ToSet(Services)
<1>1. Services \in Seq(STRING) /\ Services # <<>>
  BY ServicesAssumption
<1>2. Len(Services) \in Nat \ {0} /\ DOMAIN Services = 1 .. Len(Services)
  BY <1>1
<1>3. \A i \in 1 .. Len(Services) : Services[i] \in ToSet(Services)
  BY <1>2 DEF ToSet
<1>4. Here = Services[Len(Services)]
  BY DEF Here, Last
<1>5. QED
  BY <1>2, <1>3, <1>4

\* Nothing is counted before anything is answered.
LEMMA CountInit == ServiceInit => CountInv
<1> SUFFICES ASSUME ServiceInit PROVE CountInv
  OBVIOUS
<1>1. VisitTypes
  BY VisitsInit DEF VisitInv
<1>2. visits = <<>> /\ answered = [s \in ToSet(Services) |-> 0] /\ call = "none"
  BY DEF ServiceInit, VisitInit, Init
<1>3. Counted
  <2>1. DOMAIN visits = {}
    BY <1>2, EmptySeq
  <2>2. QED
    BY <2>1 DEF Counted
<1>4. QED
  BY <1>1, <1>2, <1>3 DEF CountInv

\* Counted of the next state.
LEMMA CountedNext ==
    ASSUME \A i \in DOMAIN visits' :
              TotalOf(visits'[i].lists) = answered'[visits'[i].service]
    PROVE  Counted'
BY TotalNext DEF Counted

\* An answer counts in the service it is from, and in it alone.
LEMMA AnswerCounts ==
    ASSUME CountInv, VisitTypes', Registered,
           NEW e \in Endpoints, AddAccess(Here, e), Answered(Here)
    PROVE  CountInv'
<1>1. PICK bin \in Nat :
         visits' = [i \in DOMAIN visits |->
                       IF visits[i].service # Here THEN visits[i]
                       ELSE [visits[i] EXCEPT !.lists[e] = OneMore(@, bin)]]
  BY AddAccessIs DEF CountInv
<1>2. /\ answered \in [ToSet(Services) -> Nat]
      /\ answered' = [answered EXCEPT ![Here] = @ + 1]
      /\ Here \in ToSet(Services)
  BY ServiceNames DEF CountInv, Answered
<1>3. answered' \in [ToSet(Services) -> Nat]
  BY <1>2
<1>4. /\ DOMAIN visits' = DOMAIN visits
      /\ visits \in Seq(Visit) /\ \A i \in DOMAIN visits : visits[i].service = Services[i]
      /\ \A i \in DOMAIN visits : visits[i] \in Visit /\ visits[i].service \in ToSet(Services)
  <2>1. /\ visits \in Seq(Visit) /\ \A i \in DOMAIN visits : visits[i].service = Services[i]
        /\ Len(visits) <= Len(Services)
    BY DEF CountInv, VisitTypes
  <2>2. DOMAIN visits = 1 .. Len(visits) /\ Len(visits) \in Nat /\ Len(Services) \in Nat
    BY <2>1, ServiceNames
  <2>3. \A i \in DOMAIN visits : Services[i] \in ToSet(Services)
    BY <2>1, <2>2, ServiceNames
  <2>4. \A i \in DOMAIN visits : visits[i] \in Visit
    BY <2>1, <2>2, ElementOfSeq
  <2>5. QED
    BY <1>1, <2>1, <2>3, <2>4
<1>5. ASSUME NEW i \in DOMAIN visits
      PROVE  TotalOf(visits'[i].lists) = answered'[visits'[i].service]
  <2>1. visits[i] \in Visit /\ TotalOf(visits[i].lists) = answered[visits[i].service]
    BY <1>4, TotalNow DEF CountInv, Counted
  <2>2. CASE visits[i].service # Here
    BY <1>1, <1>2, <1>4, <2>1, <2>2
  <2>3. CASE visits[i].service = Here
    <3>1. /\ visits'[i].service = Here
          /\ visits'[i].lists = [visits[i].lists EXCEPT ![e] = OneMore(@, bin)]
      BY <1>1, <2>1, <2>3 DEF Visit
    <3>2. visits[i].lists \in [Endpoints -> Seq(Entry)]
      BY <2>1 DEF Visit
    <3>3. TotalOf(visits'[i].lists) = TotalOf(visits[i].lists) + 1
      <4> DEFINE lists == visits[i].lists
      <4>1. TotalOf([lists EXCEPT ![e] = OneMore(@, bin)]) = TotalOf(lists) + 1
        <5> HIDE DEF lists
        <5>1. lists \in [Endpoints -> Seq(Entry)]
          BY <3>2 DEF lists
        <5>2. QED
          BY <5>1, TotalOneMore
      <4>2. QED
        BY <3>1, <4>1
    <3>4. QED
      BY <1>2, <2>1, <2>3, <3>1, <3>3
  <2>4. QED
    BY <2>2, <2>3
<1>6. Counted'
  BY <1>4, <1>5, CountedNext
<1>7. Registered'
  <2>1. Len(visits') = Len(visits)
    <3>1. /\ visits \in Seq(Visit) /\ visits' \in Seq(Visit)
      BY DEF CountInv, VisitTypes
    <3>2. QED
      BY <1>4, <3>1
  <2>2. QED
    BY <2>1 DEF Registered
<1>8. QED
  BY <1>3, <1>6, <1>7 DEF CountInv

\* A service registers with no visits, before anything is answered.
LEMMA RegistrationCounts ==
    ASSUME CountInv, VisitTypes', Registration
    PROVE  CountInv'
<1>1. ~Registered /\ UNCHANGED <<vars, answered>>
  BY DEF Registration
<1>2. call' = call /\ call = "none" /\ answered' = answered
      /\ answered \in [ToSet(Services) -> Nat]
      /\ \A s \in ToSet(Services) : answered[s] = 0
  BY <1>1 DEF CountInv, vars
<1>3. \A i \in DOMAIN visits : TotalOf(visits[i].lists) = answered[visits[i].service]
  BY TotalNow DEF CountInv, Counted
<1>4. CASE visits' = visits
  <2>1. Counted'
    BY <1>2, <1>3, <1>4, CountedNext
  <2>2. QED
    BY <1>2, <2>1 DEF CountInv
<1>5. CASE visits' = Append(visits, Service(Services[Len(visits) + 1]))
  <2> DEFINE new == Service(Services[Len(visits) + 1])
             n == Len(visits)
  <2>1. n \in Nat /\ n < Len(Services) /\ Len(Services) \in Nat /\ visits \in Seq(Visit)
    BY <1>1, ServiceNames DEF CountInv, VisitTypes, Registered
  <2>2. new.service \in ToSet(Services) /\ TotalOf(new.lists) = 0
    <3>1. Services[n + 1] \in ToSet(Services)
      BY <2>1, ServiceNames
    <3>2. new.service = Services[n + 1]
      BY DEF Service
    <3>3. QED
      BY <3>1, <3>2, TotalNew
  <2> HIDE DEF new
  <2>3. /\ DOMAIN visits' = 1 .. n + 1 /\ DOMAIN visits = 1 .. n
        /\ visits'[n + 1] = new /\ \A i \in 1 .. n : visits'[i] = visits[i]
    BY <1>5, <2>1 DEF new
  <2>4. ASSUME NEW i \in DOMAIN visits'
        PROVE  TotalOf(visits'[i].lists) = answered'[visits'[i].service]
    <3>1. CASE i = n + 1
      BY <1>2, <2>2, <2>3, <3>1
    <3>2. CASE i # n + 1
      <4>1. i \in DOMAIN visits /\ visits'[i] = visits[i]
        BY <2>1, <2>3, <3>2
      <4>2. QED
        BY <1>2, <1>3, <4>1
    <3>3. QED
      BY <3>1, <3>2
  <2>5. Counted'
    BY <2>4, CountedNext
  <2>6. QED
    BY <1>2, <2>5 DEF CountInv
<1>6. QED
  BY <1>4, <1>5 DEF Registration, RegisterBegin, RegisterEnd

\* Every other step leaves the visits and the answers alone.
LEMMA CountNext ==
    VisitInv /\ CountInv /\ [ServiceNext]_serviceVars => CountInv'
<1> SUFFICES ASSUME VisitInv, CountInv, [ServiceNext]_serviceVars PROVE CountInv'
  OBVIOUS
<1>1. VisitTypes'
  BY VisitsNext DEF VisitInv
<1>2. ASSUME UNCHANGED <<visits, answered>>, Registered \/ UNCHANGED call
      PROVE  CountInv'
  <2>1. \A i \in DOMAIN visits : TotalOf(visits[i].lists) = answered[visits[i].service]
    BY TotalNow DEF CountInv, Counted
  <2>2. Counted'
    BY <1>2, <2>1, CountedNext
  <2>3. Registered' <=> Registered
    BY <1>2 DEF Registered
  <2>4. QED
    BY <1>1, <1>2, <2>2, <2>3 DEF CountInv
<1>3. CASE Registration
  BY <1>1, <1>3, RegistrationCounts
<1>4. CASE Stream
  BY <1>2, <1>4 DEF Stream, managerVars, visitVars
<1>5. CASE Respond
  <2>1. Registered
    BY <1>5 DEF Respond, WriteHttp, CountInv
  <2>2. CASE UNCHANGED managerVars
    BY <1>2, <2>1, <2>2 DEF managerVars, visitVars
  <2>3. QED
    BY <1>1, <1>5, <2>1, <2>2, RespondVisits, AnswerCounts
<1>6. CASE Visits
  BY <1>2, <1>6 DEF Visits, Report, ReportBegin, ReportService, ReportEnd, vars
<1>7. CASE Client \/ UNCHANGED serviceVars
  BY <1>2, <1>7 DEF Client, serviceVars, managerVars, visitVars, vars
<1>8. QED
  BY <1>3, <1>4, <1>5, <1>6, <1>7 DEF ServiceNext

\* The visits of a service are its responses, for any number of services,
\* endpoints, times and requests.
THEOREM ServiceCounted == ServiceSpec => []Counted
<1>1. ServiceInit => VisitInv /\ CountInv
  BY VisitsInit, CountInit
<1>2. VisitInv /\ CountInv /\ [ServiceNext]_serviceVars => (VisitInv /\ CountInv)'
  BY VisitsNext, CountNext
<1>3. CountInv => Counted
  BY DEF CountInv
<1>4. QED
  BY <1>1, <1>2, <1>3, PTL DEF ServiceSpec
-----------------------------------------------------------------------------
\* Every variable of the service has its type in every state.
THEOREM ServiceTypes == ServiceSpec => []ServiceTypeOK
<1> DEFINE All == StreamInv /\ VisitInv /\ CountInv
<1>1. ServiceSpec => []All
  <2>1. ServiceInit => All
    BY StreamInit, VisitsInit, CountInit DEF ServiceInit
  <2>2. All /\ [ServiceNext]_serviceVars => All'
    BY ServiceStream, VisitsNext, CountNext
  <2>3. QED
    BY <2>1, <2>2, PTL DEF ServiceSpec
<1>2. All /\ S40TypeOK => ServiceTypeOK
  <2> SUFFICES ASSUME StreamTypes, VisitTypes, S40TypeOK, answered \in [ToSet(Services) -> Nat]
               PROVE  ServiceTypeOK
    BY DEF StreamInv, VisitInv, CountInv
  <2>1. TypeOK
    BY DEF StreamTypes, TypeOK, Lengths
  <2>2. \A i \in DOMAIN visits :
           /\ visits[i].service = Services[i]
           /\ \A e \in Endpoints : visits[i].lists[e] \in Seq([bin : Nat, count : Nat \ {0}])
    <3>1. \A i \in DOMAIN visits : visits[i] \in Visit
      BY ElementOfSeq DEF VisitTypes
    <3>2. QED
      BY <3>1 DEF VisitTypes, Visit, Entry
  <2>3. /\ access \in {"free", "report"} /\ upto <= Len(visits)
        /\ {registering, raced, crashed} \subseteq BOOLEAN
    BY DEF VisitTypes
  <2>4. Len(report) <= Len(Services)
    <3>1. Len(report) \in Nat /\ upto \in Nat /\ Len(visits) \in Nat /\ Len(Services) \in Nat
      BY ServiceNames DEF VisitTypes
    <3>2. QED
      BY <3>1 DEF VisitTypes
  <2>5. QED
    BY <2>1, <2>2, <2>3, <2>4 DEF ServiceTypeOK
<1>3. QED
  BY <1>1, <1>2, ServicePolls, ClientOneCycle, PTL
=============================================================================
