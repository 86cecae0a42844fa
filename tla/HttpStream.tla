----------------------------- MODULE HttpStream -----------------------------
(***************************************************************************)
(* The byte stream of one ReadWriteHTTP (common/readwrite_http.cpp): what  *)
(* is received waits in buffer_ until the parser takes it; a request may   *)
(* come in pieces and several may come at once.  The object above reads    *)
(* and writes in turn (Landing's OneTurn); the socket below answers every  *)
(* operation once, a write when all of it has gone.                        *)
(*                                                                         *)
(* A byte is the number of the request it is part of.  Boost.Beast's       *)
(* parser takes bytes up to the end of a request, or leaves some until it  *)
(* has more; in a malformed request it may stop anywhere.                  *)
(***************************************************************************)
EXTENDS Integers, Sequences, SequencesExt

CONSTANTS
    MaxReq,  \* bound: requests of the peer
    MaxLen,  \* bound: bytes of a request
    ReadLen  \* bytes a read asks for (4096)

ASSUME HttpAssumption ==
    MaxReq \in Nat \ {0} /\ MaxLen \in Nat \ {0} /\ ReadLen \in Nat \ {0}

Reqs == 1 .. MaxReq

VARIABLES
    lens,     \* the peer's requests: how long each is
    bad,      \* the number of a malformed one; 0: there is none
    coming,   \* bytes of the peer that have not been received
    buffer,   \* buffer_
    parser,   \* the bytes that parser_ has taken
    reported, \* history: what was in parser_ when a read was answered
    garbled,  \* history: a malformed request was reported
    call,     \* the outstanding call; a response is due; or none is outstanding
    op        \* the operation below

vars == <<lens, bad, coming, buffer, parser, reported, garbled, call, op>>

Bytes(k) == [i \in 1 .. lens[k] |-> k]
Sent == FlattenSeq([k \in Reqs |-> Bytes(k)])
First(s, n) == SubSeq(s, 1, n)
From(s, n) == SubSeq(s, n + 1, Len(s))
-----------------------------------------------------------------------------
\* read_http: a new parser, and a read below.
\* Broken form: begins with an empty buffer.
ReadHttpClears ==
    /\ call = "none"
    /\ call' = "read" /\ op' = "recv"
    /\ parser' = <<>> /\ buffer' = <<>>
    /\ UNCHANGED <<lens, bad, coming, reported, garbled>>
ReadHttp ==
    /\ call = "none"
    /\ call' = "read" /\ op' = "recv"
    /\ parser' = <<>>
    /\ UNCHANGED <<lens, bad, coming, buffer, reported, garbled>>

\* write_http, the answer to a request.
WriteHttp ==
    /\ call = "due"
    /\ call' = "write" /\ op' = "send"
    /\ UNCHANGED <<lens, bad, coming, buffer, parser, reported, garbled>>

\* try_parse, with what has just come: buffer_, parser_, and whether it is done.
Parsed(left, took, done) == [buffer |-> left, parser |-> took, done |-> done]
\* Broken form: what the parser took stays in the buffer.
TryParseKeeps(input) ==
    LET all == parser \o input
    IN IF Len(all) >= lens[Head(all)]
       THEN {Parsed(input, First(all, lens[Head(all)]), TRUE)}
       ELSE {Parsed(input, parser, FALSE)}
TryParse(input) ==
    LET all == parser \o input
        cut(n, done) == Parsed(From(all, n), First(all, n), done)
        whole == lens[Head(all)]
    IN (IF Len(all) >= whole THEN {cut(whole, TRUE)}
        ELSE {cut(n, FALSE) : n \in Len(parser) .. Len(all)})
       \union
       {cut(n, TRUE) : n \in {m \in Len(parser) .. Len(all) :
                                 garbled \/ Head(all) = bad}}

\* on_yield of a read: the bytes are committed and parsed; if no request is
\* complete, another read follows.  An error is reported like a request.
ReadYield ==
    /\ op = "recv"
    /\ \E n \in 1 .. ReadLen :
          /\ n <= Len(coming)
          /\ coming' = From(coming, n)
          /\ \E p \in TryParse(buffer \o First(coming, n)) :
                /\ buffer' = p.buffer /\ parser' = p.parser
                /\ IF p.done
                   THEN /\ call' = "due" /\ op' = "none"
                        /\ reported' = Append(reported, p.parser)
                        /\ garbled' = (garbled \/ p.parser = <<>> \/ bad \in Range(p.parser))
                   ELSE UNCHANGED <<call, op, reported, garbled>>
    /\ UNCHANGED <<lens, bad>>

\* on_yield of a write: all has gone.
WriteYield ==
    /\ op = "send"
    /\ call' = "none" /\ op' = "none"
    /\ UNCHANGED <<lens, bad, coming, buffer, parser, reported, garbled>>

YieldFails ==
    /\ op # "none"
    /\ call' = "over" /\ op' = "none"
    /\ UNCHANGED <<lens, bad, coming, buffer, parser, reported, garbled>>

Init ==
    /\ lens \in [Reqs -> 1 .. MaxLen] /\ bad \in 0 .. MaxReq
    /\ coming = Sent
    /\ buffer = <<>> /\ parser = <<>> /\ reported = <<>> /\ garbled = FALSE
    /\ call = "none" /\ op = "none"
Next == ReadHttp \/ WriteHttp \/ ReadYield \/ WriteYield \/ YieldFails
Spec == Init /\ [][Next]_vars
-----------------------------------------------------------------------------
\* Types and bounds.
TypeOK ==
    /\ lens \in [Reqs -> 1 .. MaxLen] /\ bad \in 0 .. MaxReq
    /\ coming \in Seq(Reqs) /\ buffer \in Seq(Reqs) /\ parser \in Seq(Reqs)
    /\ Len(parser) + Len(buffer) + Len(coming) <= MaxReq * MaxLen
    /\ garbled \in BOOLEAN
    /\ call \in {"none", "read", "due", "write", "over"}
    /\ op \in {"none", "recv", "send"}

\* However the stream is cut, until an error is reported: every request is
\* reported once, whole, in order and with no byte of another, and between
\* parser_ and buffer_ no byte of the peer is lost or kept twice.
InStep ==
    ~garbled =>
        /\ Len(reported) <= MaxReq
        /\ \A i \in DOMAIN reported : reported[i] = Bytes(i)
        /\ call # "over" =>
              LET taken == IF call = "read" THEN parser ELSE <<>>
              IN Sent = FlattenSeq(reported) \o taken \o buffer \o coming
=============================================================================
