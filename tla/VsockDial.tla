------------------------------ MODULE VsockDial ------------------------------
(***************************************************************************)
(* Connections to a guest over vsock: dial_with_config of                  *)
(* src/src/vsock/dial.rs on the host, accept_with_retry of                 *)
(* src/src/vsock/listener.rs in the guest and, external, the Firecracker   *)
(* process between them, which turns "CONNECT port" on its Unix socket     *)
(* into a vsock connection and answers "OK port".                          *)
(*                                                                         *)
(* A connection is <<d, n>>, the n-th attempt of dialer d.  The bytes of   *)
(* the answer are "OK" (standing for everything in front of the newline of *)
(* a good line), "bad" (a byte of any other line), "nl" and, behind the    *)
(* line, the guest's "data".                                               *)
(***************************************************************************)
EXTENDS Integers, Sequences

CONSTANTS Dialer,       \* concurrent calls of dial
          MaxAttempts,  \* attempts that fit retry_timeout
          Backlog,      \* DEFAULT_BACKLOG
          MaxData       \* bound on the bytes a guest sends

ASSUME BoundsAssumption ==
    /\ {MaxAttempts, Backlog} \subseteq Nat \ {0}
    /\ MaxData \in Nat

VARIABLES
    pc,        \* where each call of dial is
    attempt,   \* its current attempt
    armed,     \* timeouts that are set on its stream
    input,     \* bytes it can read from its stream
    line,      \* bytes try_conn_read_until has read
    relay,     \* what Firecracker has done for this stream
    stage,     \* what failed last: connect (by its error's kind), write, ack
    late,      \* the deadline had passed when dial gave up
    data,      \* bytes the guest has sent on this stream
    full,      \* Firecracker does not accept: the queue of its socket is full
    listening, \* the guest has called listen
    backlog,   \* connections the guest's kernel has accepted
    accepted,  \* connections accept has returned
    acceptor,  \* where the guest's call of accept is
    tries,     \* calls of accept_once in this call of accept
    aerror     \* kind of the error it returned

dialVars == <<pc, attempt, armed, line, stage, late>>
streamVars == <<input, relay, data>>
netVars == <<streamVars, full>>
guestVars == <<listening, backlog, accepted, acceptor, tries, aerror>>
vars == <<dialVars, netVars, guestVars>>

SeqRange(s) == {s[i] : i \in DOMAIN s}
Conn(d) == <<d, attempt[d]>>

Init ==
    /\ pc = [d \in Dialer |-> "idle"]
    /\ attempt = [d \in Dialer |-> 0]
    /\ armed = [d \in Dialer |-> {}]
    /\ input = [d \in Dialer |-> <<>>]
    /\ line = [d \in Dialer |-> <<>>]
    /\ relay = [d \in Dialer |-> "none"]
    /\ stage = [d \in Dialer |-> "none"]
    /\ late = [d \in Dialer |-> FALSE]
    /\ data = [d \in Dialer |-> 0]
    /\ full = FALSE
    /\ listening = FALSE
    /\ backlog = <<>>
    /\ accepted = {}
    /\ acceptor = "idle"
    /\ tries = 0
    /\ aerror = "none"

-----------------------------------------------------------------------------
(* Errors                                                                  *)

\* An io::Error: its kind and what it wraps.
IoError(kind) == [kind |-> kind, inner |-> "none"]
ConnectMessageError == [kind |-> "Other", inner |-> "ConnectMessageError"]
AckError == [kind |-> "Other", inner |-> "AckError"]

TemporaryKinds ==
    {"TimedOut", "WouldBlock", "Interrupted", "ConnectionAborted",
     "ConnectionRefused", "ConnectionReset", "NotFound", "AddrNotAvailable"}

\* What connect(2) and accept(2) fail with: one retried kind and one that is not
\* stand for the others.
ConnectKinds == {"NotFound", "PermissionDenied"}
AcceptKinds == {"ConnectionAborted", "Other"}

\* is_temporary_net_error; the variant does not look inside the error.
is_temporary_net_error_KindOnly(e) == e.kind \in TemporaryKinds
is_temporary_net_error(e) == e.kind \in TemporaryKinds \/ e.inner = "AckError"

\* Whether Instant::now() has reached the deadline after n attempts.
DeadlinePassed(n) == IF n < MaxAttempts THEN BOOLEAN ELSE {TRUE}

-----------------------------------------------------------------------------
(* dial_with_config and try_connect                                        *)

\* set_read_timeout(Some(..)) and set_write_timeout(Some(..)), and back to
\* None.  The variant is the first one left out.
Arm_Skipped(s, t) == s
Arm(s, t) == s \cup {t}
Disarm(s, t) == s \ {t}

\* The next attempt on a new stream.
Attempt(d) ==
    /\ pc' = [pc EXCEPT ![d] = "connect"]
    /\ attempt' = [attempt EXCEPT ![d] = @ + 1]
    /\ armed' = [armed EXCEPT ![d] = {}]
    /\ line' = [line EXCEPT ![d] = <<>>]
    /\ input' = [input EXCEPT ![d] = <<>>]
    /\ relay' = [relay EXCEPT ![d] = "none"]
    /\ data' = [data EXCEPT ![d] = 0]

Dial(d) ==
    /\ pc[d] = "idle"
    /\ Attempt(d)
    /\ UNCHANGED <<stage, late, full, guestVars>>

\* try_connect returns e; its stream is dropped.
TryFailed(d, part, e) ==
    /\ stage' = [stage EXCEPT ![d] = part]
    /\ \E passed \in DeadlinePassed(attempt[d]) :
          IF is_temporary_net_error(e) /\ ~passed
          THEN Attempt(d) /\ late' = late
          ELSE /\ pc' = [pc EXCEPT ![d] = "err"]
               /\ late' = [late EXCEPT ![d] = passed]
               /\ UNCHANGED <<attempt, armed, line, streamVars>>
    /\ UNCHANGED <<full, guestVars>>

\* UnixStream::connect has no timeout (dial_timeout is not used): it waits for a
\* place in the queue of the socket, or for the socket to go.
ConnectOk(d) ==
    /\ pc[d] = "connect" /\ ~full
    /\ pc' = [pc EXCEPT ![d] = "write"]
    /\ armed' = [armed EXCEPT ![d] = Arm(@, "write")]
    /\ UNCHANGED <<attempt, line, stage, late, netVars, guestVars>>

ConnectFails(d) ==
    /\ pc[d] = "connect" /\ ~full
    /\ \E kind \in ConnectKinds : TryFailed(d, kind, IoError(kind))

\* try_conn_write writes the whole message; the read of the answer begins.
WriteOk(d) ==
    /\ pc[d] = "write"
    /\ relay' = [relay EXCEPT ![d] = "requested"]
    /\ armed' = [armed EXCEPT ![d] = Arm(Disarm(@, "write"), "read")]
    /\ pc' = [pc EXCEPT ![d] = "ack"]
    /\ UNCHANGED <<attempt, line, stage, late, input, data, full, guestVars>>

\* A timeout, an error, or an incomplete write.
WriteFails(d) == pc[d] = "write" /\ TryFailed(d, "write", ConnectMessageError)

\* What one read of try_conn_read_until takes; the variant fills a buffer.
ReadUnit_Buffered(s) == s
ReadUnit(s) == SubSeq(s, 1, 1)

\* buf with the next byte; of the bytes of a line that is no acknowledgement it
\* keeps one.
Push(l, u) == IF l = u THEN l ELSE l \o u

LineComplete(d) == "nl" \in SeqRange(line[d])

ReadByte(d) ==
    /\ pc[d] = "ack" /\ ~LineComplete(d) /\ input[d] # <<>>
    /\ line' = [line EXCEPT ![d] = Push(@, ReadUnit(input[d]))]
    /\ input' = [input EXCEPT ![d] =
                    SubSeq(@, Len(ReadUnit(@)) + 1, Len(@))]
    /\ UNCHANGED <<pc, attempt, armed, stage, late, relay, data, full, guestVars>>

\* The timeout of one read passes without a byte, or the stream ends.
ReadFails(d) ==
    /\ pc[d] = "ack" /\ ~LineComplete(d) /\ input[d] = <<>>
    /\ "read" \in armed[d] \/ relay[d] = "closed"
    /\ TryFailed(d, "ack", AckError)

\* line.starts_with("OK "); the variant takes any line.
IsAck_Any(l) == TRUE
IsAck(l) == l[1] = "OK"

AckOk(d) ==
    /\ pc[d] = "ack" /\ LineComplete(d) /\ IsAck(line[d])
    /\ armed' = [armed EXCEPT ![d] = Disarm(@, "read")]
    /\ pc' = [pc EXCEPT ![d] = "ok"]
    /\ UNCHANGED <<attempt, line, stage, late, netVars, guestVars>>

AckWrong(d) ==
    /\ pc[d] = "ack" /\ LineComplete(d) /\ ~IsAck(line[d])
    /\ TryFailed(d, "ack", AckError)

DialStep(d) ==
    \/ ConnectOk(d) \/ ConnectFails(d) \/ WriteOk(d) \/ WriteFails(d)
    \/ ReadByte(d) \/ ReadFails(d) \/ AckOk(d) \/ AckWrong(d)

-----------------------------------------------------------------------------
(* Firecracker and the guest's kernel                                      *)

Establish(d) ==
    /\ relay[d] = "requested" /\ pc[d] = "ack"
    /\ listening /\ Len(backlog) < Backlog
    /\ backlog' = Append(backlog, Conn(d))
    /\ relay' = [relay EXCEPT ![d] = "established"]
    /\ input' = [input EXCEPT ![d] = @ \o <<"OK", "nl">>]
    /\ UNCHANGED <<dialVars, data, full, listening, accepted, acceptor, tries, aerror>>

\* Nobody listens: the stream is closed, with an answer that is missing, cut off
\* or wrong.
Refuse(d) ==
    /\ relay[d] \in {"requested", "dripping"} /\ pc[d] = "ack"
    /\ relay' = [relay EXCEPT ![d] = "closed"]
    /\ \E answer \in {<<>>, <<"bad">>, <<"bad", "nl">>} :
          input' = [input EXCEPT ![d] = @ \o answer]
    /\ UNCHANGED <<dialVars, data, full, guestVars>>

\* Whoever has the socket sends a byte and no newline yet.
Drip(d) ==
    /\ relay[d] \in {"requested", "dripping"} /\ pc[d] = "ack" /\ input[d] = <<>>
    /\ relay' = [relay EXCEPT ![d] = "dripping"]
    /\ input' = [input EXCEPT ![d] = <<"bad">>]
    /\ UNCHANGED <<dialVars, data, full, guestVars>>

\* Firecracker stops accepting on its socket, or goes on.
Stall ==
    /\ full' = ~full
    /\ UNCHANGED <<dialVars, streamVars, guestVars>>

GuestSends(d) ==
    /\ Conn(d) \in accepted /\ pc[d] \in {"ack", "ok"} /\ data[d] < MaxData
    /\ data' = [data EXCEPT ![d] = @ + 1]
    /\ input' = [input EXCEPT ![d] = Append(@, "data")]
    /\ UNCHANGED <<dialVars, relay, full, guestVars>>

-----------------------------------------------------------------------------
(* The listener                                                            *)

\* listen_with_config
Listen ==
    /\ ~listening
    /\ listening' = TRUE
    /\ UNCHANGED <<dialVars, netVars, backlog, accepted, acceptor, tries, aerror>>

Accept ==
    /\ listening /\ acceptor # "accepting"
    /\ acceptor' = "accepting"
    /\ tries' = 1
    /\ aerror' = "none"
    /\ UNCHANGED <<dialVars, netVars, listening, backlog, accepted>>

\* accept_once gives the oldest connection, also one whose dialer has gone.
AcceptOk ==
    /\ acceptor = "accepting" /\ backlog # <<>>
    /\ accepted' = accepted \cup {Head(backlog)}
    /\ backlog' = Tail(backlog)
    /\ acceptor' = "idle"
    /\ UNCHANGED <<dialVars, netVars, listening, tries, aerror>>

AcceptFails ==
    /\ acceptor = "accepting"
    /\ \E kind \in AcceptKinds, passed \in DeadlinePassed(tries) :
          IF is_temporary_net_error(IoError(kind)) /\ ~passed
          THEN tries' = tries + 1 /\ UNCHANGED <<acceptor, aerror>>
          ELSE acceptor' = "err" /\ tries' = tries
               /\ aerror' = IF passed THEN "late" ELSE kind
    /\ UNCHANGED <<dialVars, netVars, listening, backlog, accepted>>

Next ==
    \/ \E d \in Dialer :
          Dial(d) \/ DialStep(d) \/ Establish(d) \/ Refuse(d) \/ Drip(d)
          \/ GuestSends(d)
    \/ Stall \/ Listen \/ Accept \/ AcceptOk \/ AcceptFails

Spec == Init /\ [][Next]_vars

\* A call of dial that can go on does; a timeout that is set ends the wait.
\* Nothing is assumed of Firecracker, nor of a connect while the queue is full.
FairSpec == Spec /\ \A d \in Dialer : WF_vars(DialStep(d))

-----------------------------------------------------------------------------
(* Properties                                                              *)

\* The stream that dial returns is one the guest's kernel has a connection
\* for: a late answer to an earlier attempt, or a line that is no
\* acknowledgement, is never taken for one.
OkIsAcknowledged ==
    \A d \in Dialer : pc[d] = "ok" => Conn(d) \in SeqRange(backlog) \cup accepted

\* The stream is handed out as new: no timeout of the handshake is left on it,
\* and try_conn_read_until has not swallowed anything behind the answer.
StreamPristine ==
    \A d \in Dialer : pc[d] = "ok" =>
        /\ armed[d] = {}
        /\ input[d] = [i \in 1..data[d] |-> "data"]

\* Before the deadline nothing that may pass ends a call: not an answer that
\* is missing, cut off or wrong, not a missing socket, not an aborted accept.
TemporaryRetried ==
    /\ \A d \in Dialer : pc[d] = "err" /\ stage[d] \in {"ack"} \cup TemporaryKinds => late[d]
    /\ acceptor = "err" => aerror \notin TemporaryKinds

\* dial returns, also when CONNECT is never answered, except where the code sets
\* no bound: it stays in a connect while Firecracker does not accept, or in
\* try_conn_read_until, whose timeout is for one byte, while single bytes come.
DialReturns ==
    \A d \in Dialer :
        \/ (pc[d] \in {"connect", "write", "ack"}) ~> (pc[d] \in {"ok", "err"})
        \/ []<>(pc[d] = "connect" /\ full)
        \/ []<>(pc[d] = "ack" /\ relay[d] = "dripping" /\ input[d] # <<>>)
=============================================================================
