----------------------------- MODULE HttpExchange -----------------------------
(***************************************************************************)
(* One request of the API client: raw_request_with_timeouts of             *)
(* src/src/client_transports.rs against Firecracker at the other end of    *)
(* the Unix socket, which is external.                                     *)
(*                                                                         *)
(* The bytes of an answer are a head (status line and header fields), the  *)
(* two halves of the empty line behind them, and the bytes of the body,    *)
(* numbered.  The peer sends them in pieces of any size, and may close the *)
(* connection after any of them.                                           *)
(***************************************************************************)
EXTENDS Integers, Sequences

CONSTANTS MaxBody,   \* bound on the bytes of a body
          ChunkSize  \* bytes the client's buffer holds

ASSUME BoundsAssumption == MaxBody \in Nat /\ ChunkSize \in Nat \ {0}

VARIABLES
    read_timeout,  \* whether there is one: not for snapshots
    pc,            \* where the call is
    response,      \* bytes read until the end of the head
    body,          \* bytes of the body so far
    result,        \* what the call returned
    reply,         \* the answer the peer gives
    sent,          \* bytes of it that are sent
    input,         \* bytes the client can read
    closed         \* the peer has closed the connection

clientVars == <<pc, response, body, result>>
peerVars == <<reply, sent, closed>>
vars == <<read_timeout, clientVars, input, peerVars>>

NoResult == [kind |-> "none", status |-> 0, body |-> <<>>]

\* Answers with a length, answers that end with the connection, answers that
\* have no body, and a status line that does not parse.
Reply ==
    [status : {200, 400}, content_length : BOOLEAN, size : 0..MaxBody]
      \cup [status : {204, 304}, content_length : {FALSE}, size : {0}]
      \cup [status : {0}, content_length : {FALSE}, size : {0}]

HeadByte == <<"head", 0>>
Crlf(n) == <<"crlf", n>>
BodyBytes(n) == [i \in 1..n |-> <<"body", i>>]
Wire(r) == <<HeadByte, Crlf(1), Crlf(2)>> \o BodyBytes(r.size)

Init ==
    /\ read_timeout \in BOOLEAN
    /\ pc = "connect"
    /\ response = <<>>
    /\ body = <<>>
    /\ result = NoResult
    /\ reply \in Reply
    /\ sent = 0
    /\ input = <<>>
    /\ closed = FALSE

-----------------------------------------------------------------------------
(* The client                                                              *)

\* parse_http_response, on the bytes b of the body.
Finish(b) ==
    /\ pc' = "done"
    /\ result' = IF reply.status \in 200..299
                 THEN [kind |-> "ok", status |-> reply.status, body |-> b]
                 ELSE [kind |-> "api", status |-> reply.status, body |-> b]

Fail(kind) ==
    /\ pc' = "done"
    /\ result' = [NoResult EXCEPT !.kind = kind]
    /\ UNCHANGED <<response, body>>

Connect ==
    /\ pc = "connect"
    /\ \/ pc' = "write" /\ UNCHANGED <<response, body, result>>
       \/ Fail("io")
    /\ UNCHANGED <<read_timeout, input, peerVars>>

\* write_all of the head and of the body of the request.
Write ==
    /\ pc = "write"
    /\ \/ ~closed /\ pc' = "head" /\ UNCHANGED <<response, body, result>>
       \/ Fail("io")
       \/ Fail("timeout")
    /\ UNCHANGED <<read_timeout, input, peerVars>>

\* One read into a buffer of n bytes.
Taken(n) == IF Len(input) < n THEN input ELSE SubSeq(input, 1, n)
Left(n) == SubSeq(input, Len(Taken(n)) + 1, Len(input))

\* The delimiter is looked for in everything read so far; the variant looks
\* into the last piece only.
Searched_LastPiece(old, piece) == piece
Searched(old, piece) == old \o piece

HeadEnds(s) == {i \in 1..(Len(s) - 1) : s[i] = Crlf(1) /\ s[i + 1] = Crlf(2)}

\* What follows the delimiter that was found at i; the variant is off by one.
Behind_OffByOne(s, i) == SubSeq(s, i + 1, Len(s))
Behind(s, i) == SubSeq(s, i + 2, Len(s))

\* response_must_not_have_body
MustNotHaveBody(status) == status \in {204, 304} \cup 100..199

\* The head is complete, and b was read behind it.
HeadDone(b) ==
    /\ body' = b
    /\ IF reply.status = 0
       THEN pc' = "done" /\ result' = [NoResult EXCEPT !.kind = "api"]
       ELSE IF reply.content_length
       THEN IF Len(b) < reply.size
            THEN pc' = "sized" /\ result' = result
            ELSE Finish(SubSeq(b, 1, reply.size))
       ELSE IF MustNotHaveBody(reply.status)
       THEN Finish(<<>>)
       ELSE pc' = "to_eof" /\ result' = result

ReadHead ==
    /\ pc = "head" /\ input # <<>>
    /\ response' = response \o Taken(ChunkSize)
    /\ input' = Left(ChunkSize)
    /\ LET s == Searched(response, Taken(ChunkSize))
       IN IF HeadEnds(s) = {}
          THEN UNCHANGED <<pc, body, result>>
          ELSE \E i \in HeadEnds(s) : HeadDone(Behind(s, i))
    /\ UNCHANGED <<read_timeout, peerVars>>

\* With a length the buffer has the size of what is missing.
ReadSized ==
    /\ pc = "sized" /\ input # <<>>
    /\ LET n == reply.size - Len(body)
       IN /\ body' = body \o Taken(n)
          /\ input' = Left(n)
    /\ IF Len(body') < reply.size THEN UNCHANGED <<pc, result>> ELSE Finish(body')
    /\ UNCHANGED <<read_timeout, response, peerVars>>

ReadToEof ==
    /\ pc = "to_eof" /\ input # <<>>
    /\ body' = body \o Taken(ChunkSize)
    /\ input' = Left(ChunkSize)
    /\ UNCHANGED <<read_timeout, pc, response, result, peerVars>>

\* read returns 0.  In the body this ends the answer, whatever its length.
Eof ==
    /\ pc \in {"head", "sized", "to_eof"} /\ input = <<>> /\ closed
    /\ IF pc = "head" THEN Fail("api") ELSE Finish(body) /\ UNCHANGED <<response, body>>
    /\ UNCHANGED <<read_timeout, input, peerVars>>

ReadError ==
    /\ pc \in {"head", "sized", "to_eof"}
    /\ Fail("io")
    /\ UNCHANGED <<read_timeout, input, peerVars>>

\* run_with_timeout polls the read before the clock; the variant is a timeout
\* that is not set.
Patience_None == FALSE
Patience == read_timeout

ReadTimeout ==
    /\ pc \in {"head", "sized", "to_eof"} /\ input = <<>> /\ ~closed
    /\ Patience
    /\ Fail("timeout")
    /\ UNCHANGED <<read_timeout, input, peerVars>>

ClientStep ==
    \/ Connect \/ Write \/ ReadHead \/ ReadSized \/ ReadToEof
    \/ Eof \/ ReadTimeout

-----------------------------------------------------------------------------
(* Firecracker                                                             *)

\* An error may be sent before the whole request is there.
PeerSend ==
    /\ ~closed /\ sent < Len(Wire(reply))
    /\ pc \in {"head", "sized", "to_eof"} \/ (pc = "write" /\ reply.status = 400)
    /\ \E n \in (sent + 1)..Len(Wire(reply)) :
          /\ sent' = n
          /\ input' = input \o SubSeq(Wire(reply), sent + 1, n)
    /\ UNCHANGED <<read_timeout, clientVars, reply, closed>>

PeerClose ==
    /\ ~closed /\ pc \notin {"connect", "done"}
    /\ closed' = TRUE
    /\ UNCHANGED <<read_timeout, clientVars, input, reply, sent>>

Next == ClientStep \/ ReadError \/ PeerSend \/ PeerClose

Spec == Init /\ [][Next]_vars

\* The runtime polls the call, and its timer.
FairSpec == Spec /\ WF_vars(ClientStep)

-----------------------------------------------------------------------------
(* Properties                                                              *)

WholeAnswer == sent = Len(Wire(reply))

\* The body that is returned is the peer's, without a byte of the head and
\* however the answer was cut into pieces: all of it when all of it was sent,
\* and what was sent of it when the peer closed the connection half way.
BodyExact ==
    result.kind = "ok" =>
        /\ result.status = reply.status
        /\ \E n \in 0..reply.size : result.body = BodyBytes(n)
        /\ ~closed \/ WholeAnswer => result.body = BodyBytes(reply.size)

\* A read only times out when the peer owes the client something: never on an
\* answer that is complete, wherever it was cut into pieces, be it one without a
\* body on a connection that stays open.
TimeoutJustified ==
    [][result'.kind = "timeout" /\ pc \notin {"write", "done"} =>
          \/ ~WholeAnswer
          \/ reply.status \in {200, 400} /\ ~reply.content_length]_vars

\* With a read timeout every call returns, whatever the peer does.
CallReturns == (read_timeout /\ pc # "done") ~> (pc = "done")
=============================================================================
