----------------------------- MODULE TlsSocket -----------------------------
(***************************************************************************)
(* TLSSocket (common/tls_socket.cpp) between an object that reads or       *)
(* writes and the ReadWriteBytes below it.  OpenSSL sees the network only  *)
(* through two buffers: encrypted bytes that were received (e_read_s_) and *)
(* a memory BIO of bytes to be sent, which go out through e_write_.        *)
(*                                                                         *)
(* Its users have one call outstanding at a time (Landing's and            *)
(* Monitoring's OneTurn), and never ask for a whole buffer (read_all is    *)
(* FALSE in every call).  The socket below is two operations, each of      *)
(* which is answered once; a failure of either ends the connection.        *)
(* Bytes are counted; OpenSSL is modelled by what the code uses of it, and *)
(* a write never makes it want to read once the handshake is done.         *)
(***************************************************************************)
EXTENDS Integers, FiniteSets

CONSTANTS
    Chunk,     \* bytes moved at a time: sizeof(e_read_), the size of a pointer
    ReadLen,   \* bytes a read call asks for (4096)
    MaxFrame,  \* MAXUFRAMELENGTH
    MaxWrite,  \* bound: bytes of a write call
    MaxRecord, \* bound: plaintext of a record of the peer
    MaxFlight, \* bound: bytes of a handshake message, of either side
    Flights,   \* handshake messages of the peer
    MaxCalls   \* bound: read and write calls

ASSUME TlsAssumption ==
    /\ {Chunk, ReadLen, MaxFrame, MaxWrite, MaxRecord, MaxFlight, Flights} \subseteq Nat \ {0}
    /\ MaxCalls \in Nat

VARIABLES
    tls,      \* state_, e_read_s_, the memory BIO, the write call, OpenSSL's own
    call,     \* the outstanding call
    op,       \* the operation below, and the call it was made in
    rfin,     \* task_bytes_r_fin_
    wfin,     \* task_bytes_w_fin_
    attached, \* history: arm_read or arm_write had to attach
    dropped,  \* history: read or write had a result and did not return it
    calls     \* calls made

vars == <<tls, call, op, rfin, wfin, attached, dropped, calls>>

Idle == [kind |-> "none", by |-> "none"]
Least(a, b) == IF a <= b THEN a ELSE b

\* A handler's result: OpenSSL and buffers, what to arm, and what it returns.
Continue == 0
Fail == -1
Outcome(t, arm, ret) == [tls |-> t, arm |-> arm, ret |-> ret]
-----------------------------------------------------------------------------
(* OpenSSL, which takes its input from osslcb_read until that has no more. *)

\* [tls, ec]: flights are answered, the last one with tickets or nothing.
FlightRead(t, next, reply) ==
    [tls |-> [t EXCEPT !.enc = @ - t.need, !.need = next, !.flights = @ - 1,
                       !.out = @ + reply],
     ec |-> IF t.flights = 1 THEN "none" ELSE "want"]
Accept(t) ==
    IF t.enc < t.need
    THEN {[tls |-> [t EXCEPT !.enc = 0, !.need = @ - t.enc], ec |-> "want"]}
    ELSE {FlightRead(t, next, reply) :
             next \in IF t.flights = 1 THEN {0} ELSE 1 .. MaxFlight,
             reply \in IF t.flights = 1 THEN 0 .. MaxFlight ELSE 1 .. MaxFlight}
AcceptOrError(t) ==
    Accept(t) \union {[tls |-> t, ec |-> "error"] : x \in {y \in {0} : t.enc > 0}}

\* [tls, ec, n]: a record is one byte longer than what it holds.
Decrypt(t) ==
    IF t.enc < t.need
    THEN [tls |-> [t EXCEPT !.enc = 0, !.need = @ - t.enc], ec |-> "want", n |-> 0]
    ELSE LET n == Least(t.record, ReadLen)
         IN [tls |-> [t EXCEPT !.enc = @ - t.need, !.need = 0, !.plain = t.record - n],
             ec |-> "none", n |-> n]
SslRead(t) ==
    IF t.plain > 0
    THEN LET n == Least(t.plain, ReadLen)
         IN {[tls |-> [t EXCEPT !.plain = @ - n], ec |-> "none", n |-> n]}
    ELSE IF t.enc = 0 THEN {[tls |-> t, ec |-> "want", n |-> 0]}
    ELSE {[tls |-> t, ec |-> "error", n |-> 0]} \union
         IF t.need > 0 THEN {Decrypt(t)}
         ELSE {Decrypt([t EXCEPT !.record = r, !.need = r + 1]) : r \in 1 .. MaxRecord}

SslWrite(t) ==
    LET n == Least(t.togo, MaxFrame)
    IN [t EXCEPT !.togo = @ - n, !.out = IF n = 0 THEN @ ELSE @ + n + 1]
-----------------------------------------------------------------------------
(* The handlers, as functions to sets of outcomes.                         *)

\* Broken form: receives without looking at what is to be sent.
WantedReadOnly(t) == "recv"
Wanted(t) == IF t.out > 0 THEN "send" ELSE "recv"

HandleHandshake(t) ==
    {CASE a.ec = "want" -> Outcome(a.tls, Wanted(a.tls), Continue)
       [] a.ec = "error" -> Outcome([a.tls EXCEPT !.state = "Failed"], "none", Fail)
       [] OTHER -> Outcome([a.tls EXCEPT !.state = "Full"], "none", Continue) :
     a \in AcceptOrError(t)}

Shaken(t) ==
    IF t.state = "WaitHello" THEN HandleHandshake(t)
    ELSE {Outcome(t, "none", Continue)}

\* Broken form: reads on until the buffer is full, whatever is left of the input.
ReadFullFill(t) ==
    {CASE r.ec = "want" -> Outcome(r.tls, Wanted(r.tls), Continue)
       [] r.ec = "error" -> Outcome(r.tls, "none", Fail)
       [] r.n < ReadLen -> Outcome(r.tls, "recv", Continue)
       [] OTHER -> Outcome(r.tls, "none", r.n) :
     r \in SslRead(t)}
ReadFull(t) ==
    {CASE r.ec = "want" -> Outcome(r.tls, Wanted(r.tls), Continue)
       [] r.ec = "error" -> Outcome(r.tls, "none", Fail)
       [] OTHER -> Outcome(r.tls, "none", r.n) :
     r \in SslRead(t)}

\* Broken form: done when OpenSSL has taken everything.
WriteFullEarly(t) ==
    LET w == SslWrite(t)
    IN {IF w.togo > 0 THEN Outcome(w, "send", Continue)
        ELSE Outcome(w, "none", w.len)}
WriteFull(t) ==
    LET w == SslWrite(t)
    IN {IF w.out > 0 \/ w.togo > 0 THEN Outcome(w, "send", Continue)
        ELSE Outcome(w, "none", w.len)}

HandleRead(t) ==
    UNION {IF h.tls.state = "Full" THEN ReadFull(h.tls) ELSE {h} : h \in Shaken(t)}
HandleWrite(t) ==
    UNION {IF h.tls.state = "Full" THEN WriteFull(h.tls) ELSE {h} : h \in Shaken(t)}
Handlers(kind, t) == IF kind = "read" THEN HandleRead(t) ELSE HandleWrite(t)

\* Broken form: sends the whole of e_write_, however little there is.
ArmWholeChunk(o, kind, r, w) ==
    /\ tls' = IF o.arm = "send" /\ w THEN [o.tls EXCEPT !.out = @ - Chunk] ELSE o.tls
    /\ op' = IF o.arm = "none" \/ ~(IF o.arm = "recv" THEN r ELSE w) THEN Idle
             ELSE [kind |-> o.arm, by |-> kind]
    /\ rfin' = (r /\ o.arm # "recv") /\ wfin' = (w /\ o.arm # "send")
    /\ UNCHANGED attached

\* arm_read and arm_write, in a call of the given kind.
Arm(o, kind, r, w) ==
    LET free == IF o.arm = "recv" THEN r ELSE w
    IN IF o.arm = "none"
       THEN tls' = o.tls /\ op' = Idle /\ rfin' = r /\ wfin' = w /\ UNCHANGED attached
       ELSE /\ tls' = IF free /\ o.arm = "send"
                      THEN [o.tls EXCEPT !.out = @ - Least(@, Chunk)] ELSE o.tls
            /\ op' = IF free THEN [kind |-> o.arm, by |-> kind] ELSE Idle
            /\ rfin' = (r /\ o.arm # "recv")
            /\ wfin' = (w /\ o.arm # "send")
            /\ attached' = (attached \/ ~free)
-----------------------------------------------------------------------------
\* read and write drop what the handler returns.
Called(kind, t) ==
    /\ call = "none" /\ calls < MaxCalls
    /\ call' = kind /\ calls' = calls + 1
    /\ \E o \in Handlers(kind, t) :
          /\ Arm(o, kind, rfin, wfin)
          /\ dropped' = (o.ret # Continue)

Read == Called("read", tls)
Write ==
    \E len \in 1 .. MaxWrite :
        Called("write", [tls EXCEPT !.len = len, !.togo = len])

\* on_yield, when the operation below has failed or the peer has closed.
YieldFails ==
    /\ op # Idle
    /\ op' = Idle /\ call' = "over"
    /\ UNCHANGED <<tls, rfin, wfin, attached, dropped, calls>>

\* on_yield with t in place of tls.
Yield(t, r, w) ==
    /\ \E o \in Handlers(op.by, t) :
          /\ Arm(o, op.by, r, w)
          /\ call' = CASE o.ret = Continue -> call
                       [] o.ret = Fail -> "over"
                       [] OTHER -> "none"
    /\ UNCHANGED <<dropped, calls>>

\* Broken form: the flag is not set again.
SentKeepsFlag ==
    /\ op.kind = "send"
    /\ Yield(tls, rfin, wfin)
Sent ==
    /\ op.kind = "send"
    /\ Yield(tls, rfin, TRUE)

\* n bytes arrive: no more than there is room for, and of a handshake message
\* but the last no more than it has left, as the peer waits for the answer.
Received ==
    /\ op.kind = "recv"
    /\ \E n \in 1 .. Chunk - tls.enc :
          /\ tls.flights > 1 => n <= tls.need
          /\ Yield([tls EXCEPT !.enc = @ + n], TRUE, wfin)

Init ==
    /\ \E need \in 1 .. MaxFlight :
          tls = [state |-> "WaitHello", enc |-> 0, out |-> 0, len |-> 0, togo |-> 0,
                 flights |-> Flights, need |-> need, record |-> 0, plain |-> 0]
    /\ call = "none" /\ op = Idle
    /\ rfin = TRUE /\ wfin = TRUE
    /\ attached = FALSE /\ dropped = FALSE /\ calls = 0

Next == Read \/ Write \/ YieldFails \/ Sent \/ Received
Spec == Init /\ [][Next]_vars
-----------------------------------------------------------------------------
\* Types and the sizes of the buffers.
TypeOK ==
    /\ tls \in [state : {"WaitHello", "Full", "Failed"}, enc : 0 .. Chunk, out : Nat,
                len : 0 .. MaxWrite, togo : 0 .. MaxWrite, flights : 0 .. Flights,
                need : 0 .. MaxFlight + MaxRecord + 1, record : 0 .. MaxRecord,
                plain : 0 .. MaxRecord]
    /\ call \in {"none", "read", "write", "over"}
    /\ op \in {Idle} \union [kind : {"recv", "send"}, by : {"read", "write"}]
    /\ {rfin, wfin, attached, dropped} \subseteq BOOLEAN
    /\ calls \in 0 .. MaxCalls

\* The socket receives when nothing unread is left in e_read_, as the bytes are
\* written to its start, and when nothing is left to send in the BIO, as the peer
\* may be waiting for just that.
ReadyToReceive == op.kind = "recv" => tls.enc = 0 /\ tls.out = 0

\* An outstanding call has an operation under way, or read dropped its result.
UnderWay == call \in {"read", "write"} => op # Idle \/ dropped

\* An operation belongs to the call that is outstanding, and none is left from
\* an earlier one: attach is not needed, on_yield knows every task, and a call
\* whose result was not dropped is not forgotten.
Alone ==
    /\ op # Idle => op.by = call
    /\ ~attached
    /\ UnderWay

\* A call is answered, now or after the operation that is under way.
Answered == call \in {"read", "write"} => op # Idle

\* "The write function will take care of the entire buffer": when it is answered
\* OpenSSL has the whole buffer, and the socket below has all of OpenSSL's output.
WholeBuffer ==
    [][call = "write" /\ call' = "none" =>
          /\ tls'.togo = 0 /\ tls'.out = 0 /\ op' = Idle]_vars
=============================================================================
