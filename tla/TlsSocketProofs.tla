-------------------------- MODULE TlsSocketProofs --------------------------
(* A TLS socket with one call at a time keeps to one operation, receives    *)
(* only when its buffers are used up, and writes the whole of a buffer, for *)
(* every size of chunk, frame, record and handshake message.                *)
EXTENDS TlsSocket, TLAPS

\* OpenSSL, the buffers and the write call.
TlsRec ==
    [state : {"WaitHello", "Full", "Failed"}, enc : 0 .. Chunk, out : Nat,
     len : 0 .. MaxWrite, togo : 0 .. MaxWrite, flights : 0 .. Flights,
     need : 0 .. MaxFlight + MaxRecord + 1, record : 0 .. MaxRecord,
     plain : 0 .. MaxRecord]

\* While the handshake lasts a flight of the peer is missing; afterwards, when
\* part of a record has come, it is one that holds something.
Good(t) ==
    /\ t \in TlsRec
    /\ t.state = "WaitHello" => t.flights >= 1
    /\ t.state = "Full" /\ t.need > 0 => t.record > 0

\* What a handler promises the code that called it: it arms an operation just
\* when it has no result; it receives with empty buffers; only an error leaves
\* it failed; and it answers a write when all is done.
Promise(o, kind, t) ==
    /\ Good(o.tls) /\ o.tls.len = t.len
    /\ o.arm \in {"none", "recv", "send"}
    /\ o.ret = Continue <=> o.arm # "none"
    /\ o.arm = "recv" => o.tls.enc = 0 /\ o.tls.out = 0
    /\ o.tls.state = "Failed" => o.ret = Fail
    /\ kind = "write" /\ o.ret \notin {Continue, Fail} =>
          o.tls.togo = 0 /\ o.tls.out = 0

LEMMA SizesType ==
    /\ Chunk \in Nat \ {0} /\ ReadLen \in Nat \ {0} /\ MaxFrame \in Nat \ {0}
    /\ MaxWrite \in Nat \ {0} /\ MaxRecord \in Nat \ {0} /\ MaxFlight \in Nat \ {0}
    /\ Flights \in Nat \ {0} /\ MaxCalls \in Nat
BY TlsAssumption
-----------------------------------------------------------------------------
(* OpenSSL.                                                                 *)

\* SSL_accept: it wants more with nothing left to read, or with an answer to send.
LEMMA AcceptGood ==
    ASSUME NEW t, Good(t), t.state = "WaitHello", NEW a \in AcceptOrError(t)
    PROVE  /\ a.tls \in TlsRec /\ a.tls.state = "WaitHello" /\ a.tls.len = t.len
           /\ a.ec \in {"want", "none", "error"}
           /\ a.ec = "want" => a.tls.flights >= 1 /\ (a.tls.out = 0 => a.tls.enc = 0)
           /\ a.ec = "none" => a.tls.need = 0
<1> USE SizesType DEF Good
<1>1. CASE a = [tls |-> t, ec |-> "error"]
  BY <1>1
<1>2. CASE t.enc < t.need /\ a = [tls |-> [t EXCEPT !.enc = 0, !.need = @ - t.enc], ec |-> "want"]
  <2> DEFINE left == t.need - t.enc
  <2>1. left \in 0 .. MaxFlight + MaxRecord + 1 /\ 0 \in 0 .. Chunk
    BY <1>2 DEF TlsRec
  <2>2. a = [tls |-> [t EXCEPT !.enc = 0, !.need = left], ec |-> "want"]
    BY <1>2 DEF TlsRec
  <2> HIDE DEF left
  <2>3. /\ a.tls \in TlsRec /\ a.ec = "want" /\ a.tls.state = t.state /\ a.tls.len = t.len
        /\ a.tls.enc = 0 /\ a.tls.flights = t.flights
    BY <2>1, <2>2 DEF TlsRec
  <2>4. QED
    BY <2>3
<1>3. CASE a \in Accept(t) /\ ~(t.enc < t.need)
  <2>1. PICK n \in IF t.flights = 1 THEN {0} ELSE 1 .. MaxFlight,
             r \in IF t.flights = 1 THEN 0 .. MaxFlight ELSE 1 .. MaxFlight :
                a = FlightRead(t, n, r)
    BY <1>3 DEF Accept
  <2>2. /\ t.enc - t.need \in 0 .. Chunk /\ t.flights - 1 \in 0 .. Flights
        /\ n \in 0 .. MaxFlight + MaxRecord + 1 /\ t.out + r \in Nat
    BY <1>3, <2>1 DEF TlsRec
  <2>3. a.tls \in TlsRec /\ a.tls.state = t.state /\ a.tls.len = t.len
    BY <2>1, <2>2 DEF TlsRec, FlightRead
  <2>4. CASE t.flights = 1
    <3>1. a.ec = "none" /\ a.tls.need = 0
      BY <2>1, <2>4 DEF TlsRec, FlightRead
    <3>2. QED
      BY <2>3, <3>1
  <2>5. CASE t.flights # 1
    <3>1. t.flights - 1 >= 1 /\ t.out + r # 0
      BY <2>5, <2>1 DEF TlsRec
    <3>2. a.tls.flights = t.flights - 1 /\ a.tls.out = t.out + r /\ a.ec = "want"
      BY <2>1, <2>5 DEF TlsRec, FlightRead
    <3>3. QED
      BY <2>3, <3>1, <3>2
  <2>6. QED
    BY <2>4, <2>5
<1>4. a \in Accept(t) \/ a = [tls |-> t, ec |-> "error"]
  BY DEF AcceptOrError
<1>5. CASE a \in Accept(t) /\ t.enc < t.need
  BY <1>2, <1>5 DEF Accept
<1>6. QED
  BY <1>1, <1>3, <1>4, <1>5

\* A record is decrypted, as far as it has come.
LEMMA DecryptGood ==
    ASSUME NEW t \in TlsRec, t.need > 0, t.record > 0
    PROVE  /\ Decrypt(t).tls \in TlsRec
           /\ Decrypt(t).tls.state = t.state /\ Decrypt(t).tls.len = t.len
           /\ Decrypt(t).tls.record > 0
           /\ Decrypt(t).ec \in {"want", "none"}
           /\ Decrypt(t).ec = "want" => Decrypt(t).tls.enc = 0
           /\ Decrypt(t).ec = "none" => Decrypt(t).n \in Nat \ {0}
<1> USE SizesType
<1>1. CASE t.enc < t.need
  <2> DEFINE left == t.need - t.enc
  <2>1. left \in 0 .. MaxFlight + MaxRecord + 1 /\ 0 \in 0 .. Chunk
    BY <1>1 DEF TlsRec
  <2>2. Decrypt(t) = [tls |-> [t EXCEPT !.enc = 0, !.need = left], ec |-> "want", n |-> 0]
    BY <1>1 DEF Decrypt, TlsRec
  <2> HIDE DEF left
  <2> DEFINE d == [t EXCEPT !.enc = 0, !.need = left]
  <2>3. d \in TlsRec /\ d.state = t.state /\ d.len = t.len /\ d.record > 0 /\ d.enc = 0
    BY <2>1 DEF TlsRec
  <2> HIDE DEF d
  <2>4. Decrypt(t) = [tls |-> d, ec |-> "want", n |-> 0]
    BY <2>2 DEF d
  <2>5. QED
    BY <2>3, <2>4
<1>2. CASE ~(t.enc < t.need)
  <2> DEFINE n == Least(t.record, ReadLen)
  <2>1. n \in Nat \ {0} /\ n <= t.record
    BY DEF Least, TlsRec
  <2> DEFINE rest == t.enc - t.need
             plain == t.record - n
  <2>2. rest \in 0 .. Chunk /\ plain \in 0 .. MaxRecord
        /\ 0 \in 0 .. MaxFlight + MaxRecord + 1
    BY <1>2, <2>1 DEF TlsRec
  <2>3. Decrypt(t) = [tls |-> [t EXCEPT !.enc = rest, !.need = 0, !.plain = plain],
                      ec |-> "none", n |-> n]
    BY <1>2 DEF Decrypt, TlsRec
  <2> HIDE DEF n, rest, plain
  <2> DEFINE d == [t EXCEPT !.enc = rest, !.need = 0, !.plain = plain]
  <2>4. d \in TlsRec /\ d.state = t.state /\ d.len = t.len /\ d.record > 0
    BY <2>2 DEF TlsRec
  <2> HIDE DEF d
  <2>5. Decrypt(t) = [tls |-> d, ec |-> "none", n |-> n]
    BY <2>3 DEF d
  <2>6. QED
    BY <2>1, <2>4, <2>5
<1>3. QED
  BY <1>1, <1>2

\* SSL_read: what it returns is not empty, and it wants more when it has used
\* up the input.
LEMMA SslReadGood ==
    ASSUME NEW t, Good(t), t.state = "Full", NEW r \in SslRead(t)
    PROVE  /\ Good(r.tls) /\ r.tls.state = "Full" /\ r.tls.len = t.len
           /\ r.ec \in {"want", "none", "error"}
           /\ r.ec = "want" => r.tls.enc = 0
           /\ r.ec = "none" => r.n \in Nat \ {0}
<1> USE SizesType
<1>1. t \in TlsRec
  BY DEF Good
<1>2. CASE t.plain > 0
  <2> DEFINE n == Least(t.plain, ReadLen)
  <2>1. n \in Nat \ {0} /\ t.plain - n \in 0 .. MaxRecord
    BY <1>1, <1>2 DEF Least, TlsRec
  <2>2. r = [tls |-> [t EXCEPT !.plain = @ - n], ec |-> "none", n |-> n]
    BY <1>2 DEF SslRead
  <2> HIDE DEF n
  <2>3. QED
    BY <1>1, <2>1, <2>2 DEF Good, TlsRec
<1>3. CASE r = [tls |-> t, ec |-> "want", n |-> 0] /\ t.enc = 0
  BY <1>3
<1>4. CASE r = [tls |-> t, ec |-> "error", n |-> 0]
  BY <1>4
<1>5. CASE t.need > 0 /\ r = Decrypt(t)
  BY <1>1, <1>5, DecryptGood DEF Good
<1>6. CASE \E x \in 1 .. MaxRecord : r = Decrypt([t EXCEPT !.record = x, !.need = x + 1])
  <2>1. PICK x \in 1 .. MaxRecord : r = Decrypt([t EXCEPT !.record = x, !.need = x + 1])
    BY <1>6
  <2> DEFINE y == x + 1
             u == [t EXCEPT !.record = x, !.need = y]
  <2>5. y \in 0 .. MaxFlight + MaxRecord + 1 /\ x \in 0 .. MaxRecord /\ y > 0 /\ x > 0
    OBVIOUS
  <2> HIDE DEF y
  <2>2. u \in TlsRec /\ u.need > 0 /\ u.record > 0 /\ u.state = "Full" /\ u.len = t.len
    BY <1>1, <2>5 DEF TlsRec
  <2> HIDE DEF u
  <2>3. r = Decrypt(u)
    BY <2>1 DEF u, y
  <2>4. QED
    BY <2>2, <2>3, DecryptGood DEF Good
<1>7. QED
  BY <1>2, <1>3, <1>4, <1>5, <1>6 DEF SslRead

\* SSL_write never gives back what it has taken.
LEMMA SslWriteGood ==
    ASSUME NEW t, Good(t), t.state = "Full"
    PROVE  /\ Good(SslWrite(t)) /\ SslWrite(t).state = "Full" /\ SslWrite(t).len = t.len
<1> USE SizesType
<1> DEFINE n == Least(t.togo, MaxFrame)
           out == IF n = 0 THEN t.out ELSE t.out + n + 1
<1>1. t \in TlsRec
  BY DEF Good
<1>2. n \in Nat /\ t.togo - n \in 0 .. MaxWrite
  BY <1>1 DEF Least, TlsRec
<1>3. out \in Nat
  BY <1>1, <1>2 DEF TlsRec
<1>4. SslWrite(t) = [t EXCEPT !.togo = t.togo - n, !.out = out]
  BY <1>1 DEF SslWrite, TlsRec
<1> HIDE DEF n, out
<1>5. QED
  BY <1>1, <1>2, <1>3, <1>4 DEF Good, TlsRec
-----------------------------------------------------------------------------
(* The handlers.                                                            *)

\* The handshake goes on, fails, or is over; then the handler does too.
LEMMA ShakenGood ==
    ASSUME NEW kind, NEW t, Good(t), t.state # "Failed", NEW h \in Shaken(t)
    PROVE  \/ h.tls.state = "Full" /\ Good(h.tls) /\ h.tls.len = t.len
           \/ h.tls.state # "Full" /\ Promise(h, kind, t)
<1> USE SizesType DEF Outcome, Continue, Fail
<1>1. CASE t.state = "Full"
  BY <1>1 DEF Shaken
<1>2. CASE t.state = "WaitHello"
  <2>1. PICK a \in AcceptOrError(t) :
           h = CASE a.ec = "want" -> Outcome(a.tls, Wanted(a.tls), Continue)
                 [] a.ec = "error" -> Outcome([a.tls EXCEPT !.state = "Failed"], "none", Fail)
                 [] OTHER -> Outcome([a.tls EXCEPT !.state = "Full"], "none", Continue)
    BY <1>2 DEF Shaken, HandleHandshake
  <2>2. /\ a.tls \in TlsRec /\ a.tls.state = "WaitHello" /\ a.tls.len = t.len
        /\ a.ec \in {"want", "none", "error"}
        /\ a.ec = "want" => a.tls.flights >= 1 /\ (a.tls.out = 0 => a.tls.enc = 0)
        /\ a.ec = "none" => a.tls.need = 0
    BY <1>2, AcceptGood
  <2>3. CASE a.ec = "want"
    <3>1. h = [tls |-> a.tls, arm |-> Wanted(a.tls), ret |-> 0]
      BY <2>1, <2>3
    <3>2. /\ Wanted(a.tls) \in {"recv", "send"}
          /\ Wanted(a.tls) = "recv" => a.tls.out = 0 /\ a.tls.enc = 0
      BY <2>2, <2>3 DEF Wanted, TlsRec
    <3>3. QED
      BY <2>2, <2>3, <3>1, <3>2 DEF Promise, Good
  <2>4. CASE a.ec = "error"
    <3> DEFINE f == [a.tls EXCEPT !.state = "Failed"]
    <3>1. f \in TlsRec /\ f.state = "Failed" /\ f.len = t.len
      BY <2>2 DEF TlsRec
    <3> HIDE DEF f
    <3>2. h = [tls |-> f, arm |-> "none", ret |-> -1]
      BY <2>1, <2>4 DEF f
    <3>3. QED
      BY <3>1, <3>2 DEF Promise, Good
  <2>5. CASE a.ec = "none"
    <3> DEFINE f == [a.tls EXCEPT !.state = "Full"]
    <3>1. f \in TlsRec /\ f.state = "Full" /\ f.len = t.len /\ f.need = 0
      BY <2>2, <2>5 DEF TlsRec
    <3> HIDE DEF f
    <3>2. h.tls = f
      BY <2>1, <2>5 DEF f
    <3>3. QED
      BY <3>1, <3>2 DEF Good
  <2>6. QED
    BY <2>2, <2>3, <2>4, <2>5
<1>3. QED
  BY <1>1, <1>2 DEF Good, TlsRec

LEMMA ReadFullGood ==
    ASSUME NEW t, Good(t), t.state = "Full", NEW o \in ReadFull(t)
    PROVE  Promise(o, "read", t)
<1> USE DEF Outcome, Continue, Fail
<1>1. PICK r \in SslRead(t) :
         o = CASE r.ec = "want" -> Outcome(r.tls, Wanted(r.tls), Continue)
               [] r.ec = "error" -> Outcome(r.tls, "none", Fail)
               [] OTHER -> Outcome(r.tls, "none", r.n)
  BY DEF ReadFull
<1>2. /\ Good(r.tls) /\ r.tls.state = "Full" /\ r.tls.len = t.len
      /\ r.ec \in {"want", "none", "error"}
      /\ r.ec = "want" => r.tls.enc = 0
      /\ r.ec = "none" => r.n \in Nat \ {0}
  BY SslReadGood
<1>3. CASE r.ec = "want"
  <2>1. o = [tls |-> r.tls, arm |-> Wanted(r.tls), ret |-> 0]
    BY <1>1, <1>3
  <2>2. /\ Wanted(r.tls) \in {"recv", "send"}
        /\ Wanted(r.tls) = "recv" => r.tls.out = 0
    BY <1>2 DEF Wanted, Good, TlsRec
  <2>3. QED
    BY <1>2, <1>3, <2>1, <2>2 DEF Promise
<1>4. CASE r.ec = "error"
  <2>1. o = [tls |-> r.tls, arm |-> "none", ret |-> -1]
    BY <1>1, <1>4
  <2>2. QED
    BY <1>2, <2>1 DEF Promise
<1>5. CASE r.ec = "none"
  <2>1. o = [tls |-> r.tls, arm |-> "none", ret |-> r.n]
    BY <1>1, <1>5
  <2>2. QED
    BY <1>2, <1>5, <2>1 DEF Promise
<1>6. QED
  BY <1>2, <1>3, <1>4, <1>5

LEMMA WriteFullGood ==
    ASSUME NEW t, Good(t), t.state = "Full", t.len > 0, NEW o \in WriteFull(t)
    PROVE  Promise(o, "write", t)
<1> USE SizesType DEF Outcome, Continue, Fail
<1> DEFINE w == SslWrite(t)
<1>1. Good(w) /\ w.state = "Full" /\ w.len = t.len
  BY SslWriteGood
<1>2. o = IF w.out > 0 \/ w.togo > 0 THEN Outcome(w, "send", Continue)
          ELSE Outcome(w, "none", w.len)
  BY DEF WriteFull
<1> HIDE DEF w
<1>3. w.out \in Nat /\ w.togo \in Nat /\ w.len \in Nat \ {0}
  BY <1>1 DEF Good, TlsRec
<1>4. CASE w.out > 0 \/ w.togo > 0
  <2>1. o = [tls |-> w, arm |-> "send", ret |-> 0]
    BY <1>2, <1>4
  <2>2. QED
    BY <1>1, <2>1 DEF Promise
<1>5. CASE ~(w.out > 0 \/ w.togo > 0)
  <2>1. o = [tls |-> w, arm |-> "none", ret |-> w.len] /\ w.out = 0 /\ w.togo = 0
    BY <1>2, <1>3, <1>5
  <2>2. QED
    BY <1>1, <1>3, <2>1 DEF Promise
<1>6. QED
  BY <1>4, <1>5

LEMMA HandlersGood ==
    ASSUME NEW kind \in {"read", "write"}, NEW t, Good(t), t.state # "Failed",
           kind = "write" => t.len > 0,
           NEW o \in Handlers(kind, t)
    PROVE  Promise(o, kind, t)
<1>1. CASE kind = "read"
  <2>1. PICK h \in Shaken(t) : o \in IF h.tls.state = "Full" THEN ReadFull(h.tls) ELSE {h}
    BY <1>1 DEF Handlers, HandleRead
  <2>2. CASE h.tls.state = "Full"
    <3>1. Good(h.tls) /\ h.tls.len = t.len /\ o \in ReadFull(h.tls)
      BY <2>1, <2>2, ShakenGood
    <3>2. Promise(o, "read", h.tls)
      BY <2>2, <3>1, ReadFullGood
    <3>3. QED
      BY <1>1, <3>1, <3>2 DEF Promise
  <2>3. CASE h.tls.state # "Full"
    BY <2>1, <2>3, ShakenGood
  <2>4. QED
    BY <2>2, <2>3
<1>2. CASE kind = "write"
  <2>1. PICK h \in Shaken(t) : o \in IF h.tls.state = "Full" THEN WriteFull(h.tls) ELSE {h}
    BY <1>2 DEF Handlers, HandleWrite
  <2>2. CASE h.tls.state = "Full"
    <3>1. Good(h.tls) /\ h.tls.len = t.len /\ o \in WriteFull(h.tls)
      BY <2>1, <2>2, ShakenGood
    <3>2. Promise(o, "write", h.tls)
      BY <1>2, <2>2, <3>1, WriteFullGood
    <3>3. QED
      BY <1>2, <3>1, <3>2 DEF Promise
  <2>3. CASE h.tls.state # "Full"
    BY <2>1, <2>3, ShakenGood
  <2>4. QED
    BY <2>2, <2>3
<1>3. QED
  BY <1>1, <1>2
-----------------------------------------------------------------------------
(* The socket.                                                              *)

\* While the connection lasts, each flag tells whether its operation is under
\* way; a failed handshake is the end of it.
Flags ==
    /\ call # "over" => (rfin <=> op.kind # "recv") /\ (wfin <=> op.kind # "send")
    /\ tls.state = "Failed" => op = Idle /\ call # "none"
    /\ call = "write" => tls.len > 0

Types ==
    /\ call \in {"none", "read", "write", "over"}
    /\ op \in {Idle} \union [kind : {"recv", "send"}, by : {"read", "write"}]
    /\ rfin \in BOOLEAN /\ wfin \in BOOLEAN /\ attached \in BOOLEAN /\ dropped \in BOOLEAN
    /\ calls \in 0 .. MaxCalls

SocketInv == Good(tls) /\ Types /\ Flags /\ Alone /\ ReadyToReceive

\* arm_read and arm_write find both operations free: nothing is attached.
LEMMA ArmGood ==
    ASSUME NEW kind \in {"read", "write"}, NEW t, NEW o, Promise(o, kind, t),
           attached \in BOOLEAN,
           NEW r, NEW w, r = TRUE, w = TRUE, Arm(o, kind, r, w)
    PROVE  /\ Good(tls') /\ tls'.len = t.len /\ tls'.state = o.tls.state
           /\ op' = IF o.arm = "none" THEN Idle ELSE [kind |-> o.arm, by |-> kind]
           /\ rfin' \in BOOLEAN /\ wfin' \in BOOLEAN
           /\ (rfin' <=> o.arm # "recv") /\ (wfin' <=> o.arm # "send")
           /\ attached' = attached
           /\ o.arm = "recv" => tls'.enc = 0 /\ tls'.out = 0
           /\ o.arm = "none" => tls' = o.tls
<1>1. CASE o.arm = "none"
  BY <1>1 DEF Arm, Promise
<1>2. CASE o.arm = "recv"
  <2>1. tls' = o.tls /\ op' = [kind |-> "recv", by |-> kind]
        /\ rfin' = FALSE /\ wfin' = TRUE
    BY <1>2 DEF Arm
  <2>2. attached' = attached
    <3>1. attached' = (attached \/ ~r)
      BY <1>2 DEF Arm
    <3>2. QED
      BY <3>1
  <2>3. QED
    BY <1>2, <2>1, <2>2 DEF Promise
<1>3. CASE o.arm = "send"
  <2> DEFINE out == o.tls.out - Least(o.tls.out, Chunk)
  <2>1. Good(o.tls) /\ o.tls \in TlsRec /\ o.tls.len = t.len
    BY DEF Promise, Good
  <2>2. out \in Nat
    BY <2>1, SizesType DEF Least, TlsRec
  <2>3. tls' = [o.tls EXCEPT !.out = out] /\ op' = [kind |-> "send", by |-> kind]
        /\ rfin' = TRUE /\ wfin' = FALSE
    BY <1>3, <2>1 DEF Arm, TlsRec
  <2>4. attached' = attached
    <3>1. attached' = (attached \/ ~w)
      BY <1>3 DEF Arm
    <3>2. QED
      BY <3>1
  <2> HIDE DEF out
  <2>5. Good(tls') /\ tls'.len = t.len /\ tls'.state = o.tls.state
    BY <2>1, <2>2, <2>3 DEF Good, TlsRec
  <2>6. QED
    BY <1>3, <2>3, <2>4, <2>5
<1>4. QED
  BY <1>1, <1>2, <1>3 DEF Promise

\* read and write.
LEMMA CalledInv ==
    ASSUME SocketInv, NEW kind \in {"read", "write"}, NEW t,
           Good(t), t.state = tls.state, kind = "write" => t.len > 0,
           Called(kind, t)
    PROVE  SocketInv'
<1>1. PICK o \in Handlers(kind, t) : Arm(o, kind, rfin, wfin) /\ dropped' = (o.ret # Continue)
  BY DEF Called
<1>2. call = "none" /\ calls < MaxCalls /\ call' = kind /\ calls' = calls + 1
  BY DEF Called
<1>3. op = Idle /\ rfin = TRUE /\ wfin = TRUE /\ tls.state # "Failed" /\ attached = FALSE
  BY <1>2 DEF SocketInv, Types, Flags, Alone, Idle
<1>4. Promise(o, kind, t)
  BY <1>3, HandlersGood
<1>5. /\ Good(tls') /\ tls'.len = t.len /\ tls'.state = o.tls.state
      /\ op' = IF o.arm = "none" THEN Idle ELSE [kind |-> o.arm, by |-> kind]
      /\ rfin' \in BOOLEAN /\ wfin' \in BOOLEAN
      /\ (rfin' <=> o.arm # "recv") /\ (wfin' <=> o.arm # "send")
      /\ attached' = attached
      /\ o.arm = "recv" => tls'.enc = 0 /\ tls'.out = 0
  BY <1>1, <1>3, <1>4, ArmGood
<1>6. /\ o.arm \in {"none", "recv", "send"} /\ (o.ret = Continue <=> o.arm # "none")
      /\ o.tls.state = "Failed" => o.ret = Fail
  BY <1>4 DEF Promise
<1>7. calls' \in 0 .. MaxCalls
  BY <1>2, SizesType DEF SocketInv, Types
<1>8. Types'
  BY <1>1, <1>2, <1>3, <1>5, <1>6, <1>7 DEF Types
<1>9. Flags'
  BY <1>2, <1>5, <1>6 DEF Flags, Idle, Fail, Continue
<1>10. Alone'
  BY <1>1, <1>2, <1>3, <1>5, <1>6 DEF Alone, UnderWay, Idle
<1>11. ReadyToReceive'
  BY <1>5, <1>6 DEF ReadyToReceive, Idle
<1>12. QED
  BY <1>5, <1>8, <1>9, <1>10, <1>11 DEF SocketInv

\* on_yield for an operation that was answered.
LEMMA YieldInv ==
    ASSUME SocketInv, op # Idle, NEW t, Good(t), t.state = tls.state, t.len = tls.len,
           NEW r, NEW w, r = TRUE, w = TRUE, Yield(t, r, w)
    PROVE  /\ SocketInv'
           /\ call = "write" /\ call' = "none" =>
                 tls'.togo = 0 /\ tls'.out = 0 /\ op' = Idle
<1>1. PICK o \in Handlers(op.by, t) :
         /\ Arm(o, op.by, r, w)
         /\ call' = CASE o.ret = Continue -> call
                      [] o.ret = Fail -> "over"
                      [] OTHER -> "none"
  BY DEF Yield
<1>2. UNCHANGED <<dropped, calls>>
  BY DEF Yield
<1>3. op.by \in {"read", "write"} /\ call = op.by /\ tls.state # "Failed" /\ attached = FALSE
  BY DEF SocketInv, Types, Flags, Alone
<1>4. Promise(o, op.by, t)
  <2>1. op.by = "write" => t.len > 0
    BY <1>3 DEF SocketInv, Flags
  <2>2. QED
    BY <1>3, <2>1, HandlersGood
<1>5. /\ Good(tls') /\ tls'.len = t.len /\ tls'.state = o.tls.state
      /\ op' = IF o.arm = "none" THEN Idle ELSE [kind |-> o.arm, by |-> op.by]
      /\ rfin' \in BOOLEAN /\ wfin' \in BOOLEAN
      /\ (rfin' <=> o.arm # "recv") /\ (wfin' <=> o.arm # "send")
      /\ attached' = attached
      /\ o.arm = "recv" => tls'.enc = 0 /\ tls'.out = 0
      /\ o.arm = "none" => tls' = o.tls
  BY <1>1, <1>3, <1>4, ArmGood
<1>6. /\ o.arm \in {"none", "recv", "send"} /\ (o.ret = Continue <=> o.arm # "none")
      /\ o.tls.state = "Failed" => o.ret = Fail
      /\ op.by = "write" /\ o.ret \notin {Continue, Fail} => o.tls.togo = 0 /\ o.tls.out = 0
  BY <1>4 DEF Promise
<1>7. /\ o.ret = Continue => call' = call
      /\ o.ret = Fail => call' = "over"
      /\ o.ret \notin {Continue, Fail} => call' = "none"
  BY <1>1 DEF Continue, Fail
<1>8. Types'
  BY <1>2, <1>3, <1>5, <1>6, <1>7 DEF SocketInv, Types
<1>9. Flags'
  BY <1>3, <1>5, <1>6, <1>7 DEF SocketInv, Flags, Idle, Fail, Continue
<1>10. Alone'
  BY <1>3, <1>5, <1>6, <1>7 DEF Alone, UnderWay, Idle
<1>11. ReadyToReceive'
  BY <1>5, <1>6 DEF ReadyToReceive, Idle
<1>12. ASSUME call = "write", call' = "none"
       PROVE  tls'.togo = 0 /\ tls'.out = 0 /\ op' = Idle
  BY <1>3, <1>5, <1>6, <1>7, <1>12
<1>13. QED
  BY <1>5, <1>8, <1>9, <1>10, <1>11, <1>12 DEF SocketInv

LEMMA SocketStep ==
    ASSUME SocketInv, Next
    PROVE  /\ SocketInv'
           /\ call = "write" /\ call' = "none" =>
                 tls'.togo = 0 /\ tls'.out = 0 /\ op' = Idle
<1> USE SizesType
<1>1. CASE Read
  <2>1. Called("read", tls) /\ Good(tls) /\ call = "none"
    BY <1>1 DEF Read, Called, SocketInv
  <2>2. QED
    BY <2>1, CalledInv
<1>2. CASE Write
  <2>1. PICK len \in 1 .. MaxWrite : Called("write", [tls EXCEPT !.len = len, !.togo = len])
    BY <1>2 DEF Write
  <2> DEFINE t == [tls EXCEPT !.len = len, !.togo = len]
  <2>2. Good(t) /\ t.state = tls.state /\ t.len > 0
    <3>1. tls \in TlsRec /\ len \in 0 .. MaxWrite /\ len > 0
      BY DEF SocketInv, Good
    <3>2. t \in TlsRec /\ t.state = tls.state /\ t.len = len /\ t.flights = tls.flights
          /\ t.need = tls.need /\ t.record = tls.record
      BY <3>1 DEF TlsRec
    <3>3. QED
      BY <3>1, <3>2 DEF SocketInv, Good
  <2>3. call = "none"
    BY <2>1 DEF Called
  <2> HIDE DEF t
  <2>4. Called("write", t)
    BY <2>1 DEF t
  <2>5. QED
    BY <2>2, <2>3, <2>4, CalledInv
<1>3. CASE YieldFails
  BY <1>3 DEF YieldFails, SocketInv, Types, Flags, Alone, UnderWay, ReadyToReceive, Idle
<1>4. CASE Sent
  <2>1. op.kind = "send" /\ Yield(tls, rfin, TRUE)
    BY <1>4 DEF Sent
  <2>2. op # Idle
    BY <2>1 DEF Idle
  <2>3. op.by \in {"read", "write"} /\ op.by = call
    BY <2>2 DEF SocketInv, Types, Alone
  <2>4. rfin = TRUE
    BY <2>1, <2>3 DEF SocketInv, Types, Flags
  <2>5. QED
    BY <2>1, <2>2, <2>4, YieldInv DEF SocketInv
<1>5. CASE Received
  <2>1. PICK n \in 1 .. Chunk - tls.enc : Yield([tls EXCEPT !.enc = @ + n], TRUE, wfin)
    BY <1>5 DEF Received
  <2> DEFINE enc == tls.enc + n
             t == [tls EXCEPT !.enc = enc]
  <2>2. tls \in TlsRec /\ enc \in 0 .. Chunk
    BY DEF SocketInv, Good, TlsRec
  <2>3. op # Idle /\ wfin = TRUE
    BY <1>5 DEF Received, Idle, SocketInv, Types, Flags, Alone
  <2> HIDE DEF enc
  <2>4. Good(t) /\ t.state = tls.state /\ t.len = tls.len
    BY <2>2 DEF SocketInv, Good, TlsRec
  <2>5. Yield(t, TRUE, wfin)
    BY <2>1, <2>2 DEF enc, TlsRec
  <2> HIDE DEF t
  <2>6. QED
    BY <2>3, <2>4, <2>5, YieldInv
<1>6. QED
  BY <1>1, <1>2, <1>3, <1>4, <1>5 DEF Next

LEMMA SocketInvHolds == Spec => []SocketInv
<1>1. Init => SocketInv
  <2> SUFFICES ASSUME Init PROVE SocketInv
    OBVIOUS
  <2>1. Good(tls)
    <3>1. PICK need \in 1 .. MaxFlight :
             tls = [state |-> "WaitHello", enc |-> 0, out |-> 0, len |-> 0, togo |-> 0,
                    flights |-> Flights, need |-> need, record |-> 0, plain |-> 0]
      BY DEF Init
    <3>2. /\ 0 \in 0 .. Chunk /\ 0 \in 0 .. MaxWrite /\ 0 \in 0 .. MaxRecord
          /\ Flights \in 0 .. Flights /\ Flights >= 1
          /\ need \in 0 .. MaxFlight + MaxRecord + 1
      BY SizesType
    <3>3. QED
      BY <3>1, <3>2 DEF Good, TlsRec
  <2>2. Types
    <3>1. calls \in 0 .. MaxCalls
      BY SizesType DEF Init
    <3>2. QED
      BY <3>1 DEF Init, Types
  <2>3. Flags /\ Alone /\ ReadyToReceive
    BY DEF Init, Flags, Alone, UnderWay, ReadyToReceive, Idle
  <2>4. QED
    BY <2>1, <2>2, <2>3 DEF SocketInv
<1>2. SocketInv /\ [Next]_vars => SocketInv'
  <2>1. ASSUME SocketInv, UNCHANGED vars PROVE SocketInv'
    BY <2>1 DEF vars, SocketInv, Types, Flags, Alone, UnderWay, ReadyToReceive
  <2>2. QED
    BY <2>1, SocketStep
<1>3. QED
  BY <1>1, <1>2, PTL DEF Spec

\* The buffers keep their sizes: sizeof(e_read_) is never exceeded.
THEOREM TypeOKHolds == Spec => []TypeOK
<1>1. SocketInv => TypeOK
  BY DEF SocketInv, Good, TlsRec, Types, TypeOK
<1>2. QED
  BY <1>1, SocketInvHolds, PTL

\* Every operation belongs to the call that is outstanding, nothing is ever
\* attached, and a call is forgotten only with its result (on_yield, arm_read).
THEOREM AloneHolds == Spec => []Alone
BY SocketInvHolds, PTL DEF SocketInv

\* The socket receives when e_read_ and the memory BIO are empty (handle_*).
THEOREM ReadyToReceiveHolds == Spec => []ReadyToReceive
BY SocketInvHolds, PTL DEF SocketInv

\* A write is answered when the whole of the buffer has gone (write_full).
THEOREM WholeBufferHolds == Spec => WholeBuffer
<1> DEFINE Whole == call = "write" /\ call' = "none" =>
                        tls'.togo = 0 /\ tls'.out = 0 /\ op' = Idle
<1>1. SocketInv /\ [Next]_vars => [Whole]_vars
  BY SocketStep
<1>2. QED
  BY <1>1, SocketInvHolds, PTL DEF Spec, WholeBuffer
=============================================================================
