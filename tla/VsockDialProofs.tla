--------------------------- MODULE VsockDialProofs ---------------------------
(***************************************************************************)
(* Proofs about VsockDial for any number of dialers and attempts, any      *)
(* backlog and any amount of data.                                         *)
(***************************************************************************)
EXTENDS VsockDial, SequenceTheorems, TLAPS

\* Leaves go to Zenon unless they name another prover.
USE ZenonT(40)

Place == {"idle", "connect", "write", "ack", "ok", "err"}
Byte == {"OK", "bad", "nl", "data"}
Relay == {"none", "requested", "established", "dripping", "closed"}
Stage == {"none", "write", "ack"} \cup ConnectKinds
Connection == Dialer \X Nat

\* The connections the guest's kernel has made.
Known == SeqRange(backlog) \cup accepted

TypeInv ==
    /\ pc \in [Dialer -> Place]
    /\ attempt \in [Dialer -> Nat]
    /\ armed \in [Dialer -> SUBSET {"read", "write"}]
    /\ input \in [Dialer -> Seq(Byte)]
    /\ line \in [Dialer -> Seq(Byte)]
    /\ relay \in [Dialer -> Relay]
    /\ data \in [Dialer -> Nat]
    /\ stage \in [Dialer -> Stage]
    /\ late \in [Dialer -> BOOLEAN]
    /\ backlog \in Seq(Connection)
    /\ accepted \subseteq Connection

\* The i-th byte of a stream that leads to the guest.
Answer(i) == IF i = 1 THEN "OK" ELSE IF i = 2 THEN "nl" ELSE "data"

\* What was read of a stream and what is left, by what Firecracker did: l and
\* s together are the answer and n bytes of data, and l ends with the answer.
Content(did, l, s, n) ==
    /\ did \in {"none", "requested"} => l = <<>> /\ s = <<>> /\ n = 0
    /\ did = "established" =>
          /\ Len(l) <= 2 /\ Len(l) + Len(s) = 2 + n
          /\ \A i \in 1..Len(l) : l[i] = Answer(i)
          /\ \A i \in 1..Len(s) : s[i] = Answer(i + Len(l))
    /\ did \in {"dripping", "closed"} =>
          /\ \A i \in 1..Len(l) : l[i] \in {"bad", "nl"}
          /\ \A i \in 1..Len(s) : s[i] \in {"bad", "nl"}

\* The timeouts on the stream, by where dial is.
Timeouts(p, set) ==
    /\ p \in {"connect", "ok"} => set = {}
    /\ p = "write" => set = {"write"}
    /\ p = "ack" => set = {"read"}

\* One attempt.
Handshake(d) ==
    /\ Timeouts(pc[d], armed[d])
    /\ Content(relay[d], line[d], input[d], data[d])
    /\ pc[d] \in {"idle", "connect", "write"} => relay[d] = "none"
    /\ pc[d] = "ok" => relay[d] = "established" /\ Len(line[d]) = 2

\* An established stream has its connection in the guest, and the connections
\* there are those of earlier attempts and of established streams.
Matched(d) ==
    /\ relay[d] = "established" => Conn(d) \in Known
    /\ \A n \in Nat : <<d, n>> \in Known =>
          n < attempt[d] \/ (n = attempt[d] /\ relay[d] = "established")

IInv == TypeInv /\ \A d \in Dialer : Handshake(d) /\ Matched(d)

\* One byte moves from the stream to the line.
LEMMA MoveByte ==
    ASSUME NEW l \in Seq(Byte), NEW s \in Seq(Byte), s # <<>>
    PROVE  LET u == ReadUnit(s)
               m == l \o u
               t == SubSeq(s, Len(u) + 1, Len(s))
           IN /\ m \in Seq(Byte) /\ t \in Seq(Byte)
              /\ Len(m) = Len(l) + 1 /\ Len(t) = Len(s) - 1
              /\ m[Len(m)] = s[1]
              /\ \A i \in 1..Len(l) : m[i] = l[i]
              /\ \A i \in 1..Len(t) : t[i] = s[i + 1]
<1> DEFINE u == SubSeq(s, 1, 1)
           m == l \o u
           t == SubSeq(s, 2, Len(s))
<1>1. Len(s) \in Nat /\ Len(s) >= 1 /\ Len(l) \in Nat
  BY SMTT(40)
<1>2. u \in Seq(Byte) /\ Len(u) = 1 /\ u[1] = s[1]
  BY <1>1, SMTT(40)
<1>3. m \in Seq(Byte) /\ Len(m) = Len(l) + 1 /\ m[Len(m)] = s[1]
      /\ \A i \in 1..Len(l) : m[i] = l[i]
  BY <1>2, SMTT(40)
<1>4. \A i \in 2..Len(s) : s[i] \in Byte
  BY <1>1, SMTT(40)
<1>5. /\ t \in Seq(Byte) /\ Len(t) = IF 2 <= Len(s) THEN Len(s) - 2 + 1 ELSE 0
      /\ \A i \in 1..(Len(s) - 2 + 1) : t[i] = s[2 + i - 1]
  BY <1>1, <1>4, SubSeqProperties, SMTT(40)
<1>6. Len(t) = Len(s) - 1
  <2>1. PICK k \in Nat : k = Len(s) /\ k >= 1
    BY <1>1
  <2>2. (IF 2 <= k THEN k - 2 + 1 ELSE 0) = k - 1
    BY <2>1, SMTT(40)
  <2>3. QED BY <1>5, <2>1, <2>2, SMTT(40)
<1>7. \A i \in 1..Len(t) : t[i] = s[i + 1]
  <2> HIDE DEF t
  <2>1. \A i \in 1..Len(t) : i \in 1..(Len(s) - 2 + 1) /\ 2 + i - 1 = i + 1
    BY <1>1, <1>6, SMTT(40)
  <2>2. QED BY <1>5, <2>1
<1>8. ReadUnit(s) = u /\ SubSeq(s, Len(u) + 1, Len(s)) = t
  BY <1>2, SMTT(40) DEF ReadUnit
<1> HIDE DEF m, t, u
<1>9. QED BY <1>3, <1>5, <1>6, <1>7, <1>8 DEF m

\* One byte read before the newline leaves the rest of the answer in the stream.
LEMMA ContentMoved ==
    ASSUME NEW did \in Relay, NEW l \in Seq(Byte), NEW s \in Seq(Byte), NEW n \in Nat,
           s # <<>>, Content(did, l, s, n), "nl" \notin SeqRange(l)
    PROVE  Content(did, l \o ReadUnit(s), SubSeq(s, Len(ReadUnit(s)) + 1, Len(s)), n)
<1> DEFINE m == l \o ReadUnit(s)
           t == SubSeq(s, Len(ReadUnit(s)) + 1, Len(s))
<1>1.    /\ m \in Seq(Byte) /\ t \in Seq(Byte)
         /\ Len(m) = Len(l) + 1 /\ Len(t) = Len(s) - 1
         /\ m[Len(m)] = s[1]
         /\ \A i \in 1..Len(l) : m[i] = l[i]
         /\ \A i \in 1..Len(t) : t[i] = s[i + 1]
  BY MoveByte
<1> SUFFICES Content(did, m, t, n)
  OBVIOUS
<1> HIDE DEF m, t
<1>2. Len(l) \in Nat /\ Len(s) \in Nat /\ Len(s) >= 1
  BY SMTT(40)
<1>3. CASE did = "established"
  <2>1. Len(l) < 2
    <3>0. Len(l) <= 2
      BY <1>3 DEF Content
    <3>1. PICK k \in Nat : k = Len(l)
      BY <1>2
    <3>2. k # 2
      <4>1. SUFFICES ASSUME k = 2 PROVE FALSE
        OBVIOUS
      <4> DOMAIN l = 1..Len(l)
        BY SMTT(40)
      <4>2. 2 \in 1..Len(l)
        BY <3>1, <4>1, SMTT(40)
      <4>3. l[2] = Answer(2)
        BY <1>3, <4>2 DEF Content
      <4>4. QED BY <4>2, <4>3, SMTT(40) DEF SeqRange, Answer
    <3>3. k < 2
      BY <3>0, <3>1, <3>2, SMTT(40)
    <3>4. QED BY <3>1, <3>3
  <2>2. \A i \in 1..Len(m) : m[i] = Answer(i)
    BY <1>1, <1>2, <1>3, SMTT(40) DEF Content
  <2>3. \A i \in 1..Len(t) : t[i] = Answer(i + Len(m))
    BY <1>1, <1>2, <1>3, SMTT(40) DEF Content, Answer
  <2>4. QED BY <1>1, <1>2, <1>3, <2>1, <2>2, <2>3, SMTT(40) DEF Content
<1>4. CASE did \in {"dripping", "closed"}
  <2>1. \A i \in 1..Len(m) : m[i] \in {"bad", "nl"}
    <3>1. \A i \in 1..Len(l) : m[i] \in {"bad", "nl"}
      BY <1>1, <1>4 DEF Content
    <3>2. 1 \in 1..Len(s)
      BY <1>2, SMTT(40)
    <3>3. m[Len(m)] \in {"bad", "nl"}
      BY <1>1, <1>4, <3>2 DEF Content
    <3>4. \A i \in 1..Len(m) : i \in 1..Len(l) \/ i = Len(m)
      BY <1>1, <1>2, SMTT(40)
    <3>5. QED BY <3>1, <3>3, <3>4
  <2>2. \A i \in 1..Len(t) : t[i] \in {"bad", "nl"}
    BY <1>1, <1>2, <1>4, SMTT(40) DEF Content
  <2>3. QED BY <1>1, <1>4, <2>1, <2>2 DEF Content
<1>5. QED BY <1>3, <1>4 DEF Content, Relay

\* A read of try_conn_read_until before the newline keeps what the stream holds.
LEMMA ContentRead ==
    ASSUME NEW did \in Relay, NEW l \in Seq(Byte), NEW s \in Seq(Byte), NEW n \in Nat,
           s # <<>>, Content(did, l, s, n), "nl" \notin SeqRange(l)
    PROVE  Content(did, Push(l, ReadUnit(s)), SubSeq(s, Len(ReadUnit(s)) + 1, Len(s)), n)
<1> DEFINE t == SubSeq(s, Len(ReadUnit(s)) + 1, Len(s))
<1>1. Content(did, l \o ReadUnit(s), t, n)
  BY ContentMoved
<1> HIDE DEF t
<1>2. CASE l = ReadUnit(s)
  <2>1. /\ 1 \in 1..Len(l) /\ 1 \in 1..Len(s) /\ l[1] = s[1] /\ Len(l) = 1
    BY <1>2, SMTT(40) DEF ReadUnit
  <2>2. did # "established"
    <3>1. SUFFICES ASSUME did = "established" PROVE FALSE
      OBVIOUS
    <3>2. l[1] = Answer(1) /\ s[1] = Answer(1 + 1)
      BY <2>1, <3>1 DEF Content
    <3>3. Answer(1) # Answer(1 + 1)
      BY SMTT(40) DEF Answer
    <3>4. QED BY <2>1, <3>2, <3>3
  <2>3. did \in {"dripping", "closed"}
    BY <2>2 DEF Content, Relay
  <2>4. Content(did, l, t, n)
    BY <1>1, <2>3 DEF Content
  <2>5. QED BY <1>2, <2>4 DEF Push, t
<1>3. QED BY <1>1, <1>2 DEF Push, t

\* Before any call of dial the invariant holds.
LEMMA InitInv == Init => IInv /\ TemporaryRetried
<1> SUFFICES ASSUME Init PROVE IInv /\ TemporaryRetried
  OBVIOUS
<1> DEFINE E == <<>>
<1>0. E \in Seq(Byte) /\ E \in Seq(Connection)
  BY SMTT(40)
<1>1. TypeInv
  <2> HIDE DEF E
  <2>1. input \in [Dialer -> Seq(Byte)] /\ line \in [Dialer -> Seq(Byte)]
    BY <1>0 DEF Init, E
  <2>2. backlog \in Seq(Connection) /\ accepted \subseteq Connection
    BY <1>0 DEF Init, E
  <2>3. /\ pc \in [Dialer -> Place] /\ relay \in [Dialer -> Relay]
        /\ attempt \in [Dialer -> Nat] /\ data \in [Dialer -> Nat]
    BY DEF Init, Place, Relay
  <2>4. /\ armed \in [Dialer -> SUBSET {"read", "write"}]
        /\ stage \in [Dialer -> Stage] /\ late \in [Dialer -> BOOLEAN]
    <3>1. armed \in [Dialer -> SUBSET {"read", "write"}]
      BY DEF Init
    <3>2. stage \in [Dialer -> Stage]
      BY DEF Init, Stage
    <3>3. late \in [Dialer -> BOOLEAN]
      BY DEF Init
    <3>4. QED BY <3>1, <3>2, <3>3
  <2>5. QED BY <2>1, <2>2, <2>3, <2>4 DEF TypeInv
<1>2. Known = {}
  BY SMTT(40) DEF Init, Known, SeqRange
<1>3. ASSUME NEW d \in Dialer PROVE Handshake(d) /\ Matched(d)
  BY <1>2 DEF Init, Handshake, Matched, Timeouts, Content
<1>4. TemporaryRetried
  BY DEF Init, TemporaryRetried
<1>5. QED BY <1>1, <1>3, <1>4 DEF IInv

\* A dialer whose stream and connections a step leaves alone.
LEMMA Others ==
    ASSUME IInv, NEW e \in Dialer,
           pc'[e] = pc[e], attempt'[e] = attempt[e], armed'[e] = armed[e],
           line'[e] = line[e], input'[e] = input[e], relay'[e] = relay[e],
           data'[e] = data[e],
           \A n \in Nat : <<e, n>> \in Known' <=> <<e, n>> \in Known
    PROVE  Handshake(e)' /\ Matched(e)'
<1>1. Handshake(e) /\ Matched(e) /\ attempt[e] \in Nat
  BY DEF IInv, TypeInv
<1>2. Handshake(e)'
  BY <1>1 DEF Handshake
<1>3. Matched(e)'
  BY <1>1 DEF Matched, Conn
<1>4. QED BY <1>2, <1>3

\* A new attempt has a number that no connection in the guest has.
LEMMA AttemptStep ==
    ASSUME IInv, NEW d \in Dialer, Attempt(d), UNCHANGED <<backlog, accepted>>,
           stage' \in [Dialer -> Stage], late' \in [Dialer -> BOOLEAN]
    PROVE  IInv'
<1> USE DEF TypeInv
<1>1. TypeInv /\ Matched(d)
  BY DEF IInv
<1>2. TypeInv'
  BY <1>1, SMTT(40) DEF Attempt, Place, Relay
<1>3. Known' = Known
  BY DEF Known
<1>4. /\ pc'[d] = "connect" /\ attempt'[d] = attempt[d] + 1 /\ armed'[d] = {}
      /\ line'[d] = <<>> /\ input'[d] = <<>> /\ relay'[d] = "none" /\ data'[d] = 0
  BY <1>1 DEF Attempt
<1>5. Handshake(d)'
  BY <1>4 DEF Handshake, Timeouts, Content
<1>6. Matched(d)'
  <2>1. PICK a \in Nat : a = attempt[d] /\ attempt'[d] = a + 1
    BY <1>1, <1>4
  <2>2. ASSUME NEW n \in Nat, <<d, n>> \in Known PROVE n < a + 1
    <3>1. n < a \/ n = a
      BY <1>1, <2>1, <2>2 DEF Matched
    <3>2. QED BY <3>1, SMTT(40)
  <2>3. QED BY <1>3, <1>4, <2>1, <2>2 DEF Matched
<1>7. ASSUME NEW e \in Dialer, e # d PROVE Handshake(e)' /\ Matched(e)'
  BY <1>1, <1>3, <1>7, Others DEF Attempt
<1>8. QED BY <1>2, <1>5, <1>6, <1>7 DEF IInv

\* A failed attempt is followed by another, or the call returns its error.
LEMMA FailStep ==
    ASSUME IInv, NEW d \in Dialer, NEW part \in Stage, NEW error,
           TryFailed(d, part, error)
    PROVE  IInv'
<1>1. TypeInv /\ Handshake(d) /\ Matched(d)
  BY DEF IInv
<1>2. UNCHANGED <<backlog, accepted>> /\ stage' \in [Dialer -> Stage]
  BY <1>1 DEF TryFailed, TypeInv, guestVars
<1>3. PICK passed \in BOOLEAN :
         \/ Attempt(d) /\ late' = late
         \/ /\ pc' = [pc EXCEPT ![d] = "err"]
            /\ late' = [late EXCEPT ![d] = passed]
            /\ UNCHANGED <<attempt, armed, line, streamVars>>
  BY DEF TryFailed, DeadlinePassed
<1>4. CASE Attempt(d) /\ late' = late
  BY <1>1, <1>2, <1>4, AttemptStep DEF TypeInv
<1>5. CASE /\ pc' = [pc EXCEPT ![d] = "err"]
           /\ late' = [late EXCEPT ![d] = passed]
           /\ UNCHANGED <<attempt, armed, line, streamVars>>
  <2>1. TypeInv'
    BY <1>1, <1>2, <1>5 DEF TypeInv, Place, streamVars
  <2>2. Known' = Known
    BY <1>2 DEF Known
  <2>3. Handshake(d)'
    BY <1>1, <1>5 DEF Handshake, Timeouts, TypeInv, streamVars
  <2>4. Matched(d)'
    BY <1>1, <1>5, <2>2 DEF Matched, Conn, streamVars
  <2>5. ASSUME NEW e \in Dialer, e # d PROVE Handshake(e)' /\ Matched(e)'
    BY <1>1, <1>5, <2>2, <2>5, Others DEF TypeInv, streamVars
  <2>6. QED BY <2>1, <2>3, <2>4, <2>5 DEF IInv
<1>6. QED BY <1>3, <1>4, <1>5

\* The steps of a handshake that goes well.
LEMMA GoodStep ==
    ASSUME IInv, NEW d \in Dialer,
           ConnectOk(d) \/ WriteOk(d) \/ ReadByte(d) \/ AckOk(d)
    PROVE  IInv'
<1>1. TypeInv /\ Handshake(d) /\ Matched(d)
  BY DEF IInv
<1>2. Known' = Known /\ UNCHANGED <<backlog, accepted, attempt, stage, late, data>>
  BY DEF ConnectOk, WriteOk, ReadByte, AckOk, guestVars, streamVars, netVars, Known
<1>3. Matched(d)'
  <2>1. relay'[d] = "established" <=> relay[d] = "established"
    BY <1>1 DEF ConnectOk, WriteOk, ReadByte, AckOk, streamVars, netVars, TypeInv, Handshake
  <2>2. QED BY <1>1, <1>2, <2>1 DEF Matched, Conn
<1>4. ASSUME NEW e \in Dialer, e # d PROVE Handshake(e)' /\ Matched(e)'
  BY <1>1, <1>2, <1>4, Others
     DEF ConnectOk, WriteOk, ReadByte, AckOk, streamVars, netVars, TypeInv
<1>5. CASE ConnectOk(d)
  <2>1. TypeInv'
    BY <1>1, <1>2, <1>5 DEF ConnectOk, TypeInv, Place, Arm, streamVars, netVars
  <2>2. Handshake(d)'
    BY <1>1, <1>5 DEF ConnectOk, TypeInv, Handshake, Timeouts, Arm, streamVars, netVars
  <2>3. QED BY <1>3, <1>4, <2>1, <2>2 DEF IInv
<1>6. CASE WriteOk(d)
  <2>1. TypeInv'
    BY <1>1, <1>2, <1>6 DEF WriteOk, TypeInv, Place, Relay, Arm, Disarm
  <2>2. /\ pc'[d] = "ack" /\ relay'[d] = "requested" /\ relay[d] = "none"
        /\ line'[d] = line[d] /\ input'[d] = input[d] /\ data'[d] = data[d]
    BY <1>1, <1>6 DEF WriteOk, TypeInv, Handshake
  <2>3. armed'[d] = {"read"}
    BY <1>1, <1>6 DEF WriteOk, TypeInv, Handshake, Timeouts, Arm, Disarm
  <2>4. Handshake(d)'
    BY <1>1, <2>2, <2>3 DEF Handshake, Timeouts, Content
  <2>5. QED BY <1>3, <1>4, <2>1, <2>4 DEF IInv
<1>7. CASE ReadByte(d)
  <2>1. /\ pc' = pc /\ armed' = armed /\ relay' = relay /\ pc[d] = "ack"
        /\ input[d] # <<>> /\ "nl" \notin SeqRange(line[d])
    BY <1>7 DEF ReadByte, LineComplete
  <2>2. /\ line[d] \in Seq(Byte) /\ input[d] \in Seq(Byte)
        /\ relay[d] \in Relay /\ data[d] \in Nat
    BY <1>1 DEF TypeInv
  <2>3. PICK m, t :
           /\ m = Push(line[d], ReadUnit(input[d]))
           /\ t = SubSeq(input[d], Len(ReadUnit(input[d])) + 1, Len(input[d]))
    OBVIOUS
  <2>4. m \in Seq(Byte) /\ t \in Seq(Byte)
    <3>1. line[d] \o ReadUnit(input[d]) \in Seq(Byte) /\ t \in Seq(Byte)
      BY <2>1, <2>2, <2>3, MoveByte
    <3>2. QED BY <2>2, <2>3, <3>1 DEF Push
  <2>5. Content(relay[d], m, t, data[d])
    BY <1>1, <2>1, <2>2, <2>3, ContentRead DEF Handshake
  <2>6. line' = [line EXCEPT ![d] = m] /\ input' = [input EXCEPT ![d] = t]
    BY <1>7, <2>3 DEF ReadByte
  <2>7. TypeInv'
    BY <1>1, <1>2, <2>1, <2>4, <2>6 DEF TypeInv
  <2>8. Handshake(d)'
    BY <1>1, <1>2, <2>1, <2>5, <2>6 DEF TypeInv, Handshake
  <2>9. QED BY <1>3, <1>4, <2>7, <2>8 DEF IInv
<1>8. CASE AckOk(d)
  <2>1. /\ pc' = [pc EXCEPT ![d] = "ok"] /\ pc[d] = "ack"
        /\ armed' = [armed EXCEPT ![d] = Disarm(@, "read")]
        /\ "nl" \in SeqRange(line[d]) /\ line[d][1] = "OK"
        /\ UNCHANGED <<line, input, relay>>
    BY <1>8 DEF AckOk, LineComplete, IsAck, streamVars, netVars
  <2>2. TypeInv'
    BY <1>1, <1>2, <2>1 DEF TypeInv, Place, Disarm
  <2>a. PICK l \in Seq(Byte) : l = line[d]
    BY <1>1 DEF TypeInv
  <2>b. DOMAIN l = 1..Len(l)
    BY SMTT(40)
  <2>c. PICK i \in 1..Len(l) : l[i] = "nl"
    BY <2>1, <2>a, <2>b DEF SeqRange
  <2>3. l = line[d] /\ l[i] = "nl"
    BY <2>a, <2>c
  <2>4. relay[d] = "established"
    <3>1. relay[d] \in Relay /\ Content(relay[d], l, input[d], data[d])
      BY <1>1, <2>3 DEF TypeInv, Handshake
    <3>2. 1 \in 1..Len(l)
      BY <2>3, SMTT(40)
    <3>3. relay[d] \notin {"dripping", "closed"}
      <4>1. l[1] = "OK"
        BY <2>1, <2>3
      <4>2. QED BY <3>1, <3>2, <4>1 DEF Content
    <3>4. l # <<>>
      BY <3>2, SMTT(40)
    <3>5. QED BY <3>1, <3>3, <3>4 DEF Content, Relay
  <2>5. Len(line[d]) = 2
    <3>1. Len(l) <= 2 /\ l[i] = Answer(i)
      BY <1>1, <2>3, <2>4 DEF Handshake, Content
    <3>2. i # 1
      BY <2>3, <3>1 DEF Answer
    <3>3. PICK k \in Nat : k = Len(l)
      BY <2>3, SMTT(40)
    <3>4. k <= 2 /\ i \in 1..k
      BY <2>3, <3>1, <3>3
    <3>5. k = 2
      BY <3>2, <3>3, <3>4, SMTT(40)
    <3>6. QED BY <2>3, <3>3, <3>5
  <2>6. Handshake(d)'
    BY <1>1, <1>2, <2>1, <2>4, <2>5 DEF TypeInv, Handshake, Timeouts, Disarm
  <2>7. QED BY <1>3, <1>4, <2>2, <2>6 DEF IInv
<1>9. QED BY <1>5, <1>6, <1>7, <1>8

\* Append adds its element to the range.
LEMMA RangeAppend ==
    ASSUME NEW S, NEW s \in Seq(S), NEW e \in S
    PROVE  SeqRange(Append(s, e)) = SeqRange(s) \cup {e}
<1>1. PICK n \in Nat : n = Len(s)
  BY SMTT(40)
<1> DEFINE t == Append(s, e)
<1>2. t \in Seq(S)
  BY AppendProperties
<1>3. /\ DOMAIN s = 1..n /\ DOMAIN t = 1..(n + 1)
      /\ t[n + 1] = e /\ \A i \in 1..n : t[i] = s[i]
  BY <1>1, <1>2, AppendProperties, SMTT(40)
<1>4. 1..(n + 1) = (1..n) \cup {n + 1}
  BY SMTT(40)
<1> HIDE DEF t
<1>5. SeqRange(t) = SeqRange(s) \cup {e}
  BY <1>3, <1>4, SMTT(40) DEF SeqRange
<1>6. QED BY <1>5 DEF t

\* Firecracker connects the stream, and the answer is what the dialer will read.
LEMMA EstablishStep ==
    ASSUME IInv, NEW d \in Dialer, Establish(d)
    PROVE  IInv'
<1>1. TypeInv /\ Handshake(d) /\ Matched(d)
  BY DEF IInv
<1>2. PICK c \in Connection : c = Conn(d)
  BY <1>1 DEF TypeInv, Conn, Connection
<1>3. /\ relay[d] = "requested" /\ backlog' = Append(backlog, c)
      /\ relay' = [relay EXCEPT ![d] = "established"]
      /\ input' = [input EXCEPT ![d] = @ \o <<"OK", "nl">>]
      /\ UNCHANGED <<pc, attempt, armed, line, stage, late, data, accepted>>
  BY <1>2 DEF Establish, dialVars
<1>4. line[d] = <<>> /\ input[d] = <<>> /\ data[d] = 0
  BY <1>1, <1>3 DEF Handshake, Content
<1>5. input'[d] = <<"OK", "nl">> /\ <<"OK", "nl">> \in Seq(Byte)
  <2>1. <<>> \o <<"OK", "nl">> = <<"OK", "nl">>
    BY SMTT(40)
  <2>2. QED BY <1>1, <1>3, <1>4, <2>1, SMTT(40) DEF TypeInv, Byte
<1>6. Known' = Known \cup {c}
  <2>1. SeqRange(backlog') = SeqRange(backlog) \cup {c}
    <3>1. backlog \in Seq(Connection)
      BY <1>1 DEF TypeInv
    <3>2. QED BY <1>3, <3>1, RangeAppend, SMTT(40)
  <2>2. QED BY <1>3, <2>1 DEF Known
<1>7. TypeInv'
  <2>1. backlog' \in Seq(Connection)
    BY <1>1, <1>2, <1>3, SMTT(40) DEF TypeInv
  <2>2. input' \in [Dialer -> Seq(Byte)]
    BY <1>1, <1>3, <1>4, <1>5 DEF TypeInv
  <2>3. relay' \in [Dialer -> Relay]
    BY <1>1, <1>3 DEF TypeInv, Relay
  <2>4. QED BY <1>1, <1>3, <2>1, <2>2, <2>3 DEF TypeInv
<1>8. Handshake(d)'
  <2>1. Content("established", <<>>, <<"OK", "nl">>, 0)
    BY SMTT(40) DEF Content, Answer
  <2>2. relay'[d] = "established" /\ pc[d] = "ack"
    BY <1>1, <1>3 DEF TypeInv, Establish
  <2>3. QED BY <1>1, <1>3, <1>4, <1>5, <2>1, <2>2 DEF Handshake
<1>9. Matched(d)'
  <2>1. relay'[d] = "established" /\ attempt'[d] = attempt[d] /\ c = <<d, attempt[d]>>
    BY <1>1, <1>2, <1>3 DEF TypeInv, Conn
  <2>2. ASSUME NEW n \in Nat, <<d, n>> \in Known' PROVE n < attempt[d] \/ n = attempt[d]
    BY <1>1, <1>6, <2>1, <2>2 DEF Matched
  <2>3. QED BY <1>6, <2>1, <2>2 DEF Matched, Conn
<1>10. ASSUME NEW e \in Dialer, e # d PROVE Handshake(e)' /\ Matched(e)'
  <2>1. \A n \in Nat : <<e, n>> \in Known' <=> <<e, n>> \in Known
    BY <1>2, <1>6, <1>10 DEF Conn
  <2>2. QED BY <1>1, <1>3, <1>10, <2>1, Others DEF TypeInv
<1>11. QED BY <1>7, <1>8, <1>9, <1>10 DEF IInv

\* Nothing in a sequence of bytes is part of an acknowledgement.
Foreign(s) == \A i \in 1..Len(s) : s[i] \in {"bad", "nl"}

\* More bytes of that kind.
LEMMA ForeignConcat ==
    ASSUME NEW s \in Seq(Byte), NEW a \in Seq(Byte), Foreign(s), Foreign(a)
    PROVE  s \o a \in Seq(Byte) /\ Foreign(s \o a)
<1>1. PICK j \in Nat, k \in Nat : j = Len(s) /\ k = Len(a)
  BY SMTT(40)
<1>2. PICK t \in Seq(Byte) : t = s \o a
  BY ConcatProperties
<1>3. Len(t) = j + k
  BY <1>1, <1>2, ConcatProperties
<1>4. \A i \in 1..(j + k) : t[i] = IF i <= j THEN s[i] ELSE a[i - j]
  BY <1>1, <1>2, SMTT(40)
<1>5. \A i \in 1..(j + k) : (i <= j /\ i \in 1..j) \/ (~(i <= j) /\ i - j \in 1..k)
  BY SMTT(40)
<1>6. \A i \in 1..(j + k) : t[i] \in {"bad", "nl"}
  BY <1>1, <1>4, <1>5 DEF Foreign
<1>7. QED BY <1>2, <1>3, <1>6 DEF Foreign

\* The answers that are none.
LEMMA Answers ==
    /\ \A a \in {<<>>, <<"bad">>, <<"bad", "nl">>} : a \in Seq(Byte) /\ Foreign(a)
<1>1. <<>> \in Seq(Byte) /\ Foreign(<<>>)
  BY SMTT(40) DEF Foreign
<1>2. <<"bad">> \in Seq(Byte) /\ Foreign(<<"bad">>)
  BY SMTT(40) DEF Foreign, Byte
<1>3. <<"bad", "nl">> \in Seq(Byte) /\ Foreign(<<"bad", "nl">>)
  BY SMTT(40) DEF Foreign, Byte
<1>4. QED BY <1>1, <1>2, <1>3

\* Firecracker refuses the stream or somebody else sends on it: no answer there
\* is an acknowledgement.
LEMMA RefuseStep ==
    ASSUME IInv, NEW d \in Dialer, Refuse(d) \/ Drip(d)
    PROVE  IInv'
<1>1. TypeInv /\ Handshake(d) /\ Matched(d)
  BY DEF IInv
<1>2. PICK to \in {"dripping", "closed"} :
         /\ relay' = [relay EXCEPT ![d] = to]
         /\ relay[d] \in {"requested", "dripping"} /\ pc[d] = "ack"
         /\ UNCHANGED <<pc, attempt, armed, line, stage, late, data, accepted, backlog>>
  BY DEF Refuse, Drip, dialVars, guestVars
<1>3. /\ Foreign(line[d]) /\ Foreign(input[d])
      /\ line[d] \in Seq(Byte) /\ input[d] \in Seq(Byte)
  <2>1. CASE relay[d] = "requested"
    BY <1>1, <2>1, Answers DEF Handshake, Content, TypeInv
  <2>2. CASE relay[d] = "dripping"
    BY <1>1, <2>2 DEF Handshake, Content, Foreign, TypeInv
  <2>3. QED BY <1>2, <2>1, <2>2
<1>4. PICK s \in Seq(Byte) : input' = [input EXCEPT ![d] = s] /\ Foreign(s)
  <2>1. CASE Refuse(d)
    <3>1. PICK a \in {<<>>, <<"bad">>, <<"bad", "nl">>} :
             input' = [input EXCEPT ![d] = @ \o a]
      BY <2>1 DEF Refuse
    <3>2. a \in Seq(Byte) /\ Foreign(a)
      BY Answers
    <3>3. input[d] \o a \in Seq(Byte) /\ Foreign(input[d] \o a)
      BY <1>3, <3>2, ForeignConcat
    <3>4. QED BY <1>1, <3>1, <3>3 DEF TypeInv
  <2>2. CASE Drip(d)
    BY <2>2, Answers DEF Drip
  <2>3. QED BY <2>1, <2>2
<1>6. Known' = Known
  BY <1>2 DEF Known
<1>7. TypeInv'
  BY <1>1, <1>2, <1>4 DEF TypeInv, Relay
<1>8. relay'[d] = to /\ input'[d] = s
  BY <1>1, <1>2, <1>4 DEF TypeInv
<1>9. Handshake(d)'
  <2>1. Content(to, line[d], s, data[d])
    BY <1>2, <1>3, <1>4 DEF Content, Foreign
  <2>2. QED BY <1>1, <1>2, <1>8, <2>1 DEF Handshake
<1>10. Matched(d)'
  BY <1>1, <1>2, <1>6, <1>8 DEF Matched
<1>11. ASSUME NEW e \in Dialer, e # d PROVE Handshake(e)' /\ Matched(e)'
  BY <1>1, <1>2, <1>4, <1>6, <1>11, Others DEF TypeInv
<1>12. QED BY <1>7, <1>9, <1>10, <1>11 DEF IInv

\* The guest sends on a connection it has accepted, so behind the answer.
LEMMA DataStep ==
    ASSUME IInv, NEW d \in Dialer, GuestSends(d)
    PROVE  IInv'
<1>1. TypeInv /\ Handshake(d) /\ Matched(d)
  BY DEF IInv
<1>2. /\ Conn(d) \in accepted
      /\ data' = [data EXCEPT ![d] = @ + 1]
      /\ input' = [input EXCEPT ![d] = Append(@, "data")]
      /\ UNCHANGED <<pc, attempt, armed, line, stage, late, relay, accepted, backlog>>
  BY DEF GuestSends, dialVars, guestVars
<1>3. relay[d] = "established"
  BY <1>1, <1>2, SMTT(40) DEF Matched, Known, Conn, TypeInv
<1>4. PICK l \in Seq(Byte), s \in Seq(Byte), n \in Nat :
         l = line[d] /\ s = input[d] /\ n = data[d]
  BY <1>1 DEF TypeInv
<1>5. /\ Len(l) \in Nat /\ Len(s) \in Nat
      /\ Len(l) <= 2 /\ Len(l) + Len(s) = 2 + n
      /\ \A i \in 1..Len(l) : l[i] = Answer(i)
      /\ \A i \in 1..Len(s) : s[i] = Answer(i + Len(l))
  <2>1. Content("established", l, s, n)
    BY <1>1, <1>3, <1>4 DEF Handshake
  <2>2. Len(l) \in Nat /\ Len(s) \in Nat
    BY SMTT(40)
  <2>3. QED BY <2>1, <2>2 DEF Content
<1>6. PICK t \in Seq(Byte) : t = Append(s, "data")
  <2>1. "data" \in Byte
    BY DEF Byte
  <2>2. Append(s, "data") \in Seq(Byte)
    BY <2>1, SMTT(40)
  <2>3. QED BY <2>2
<1>7. Len(t) = Len(s) + 1 /\ t[Len(t)] = "data" /\ \A i \in 1..Len(s) : t[i] = s[i]
  BY <1>6, SMTT(40)
<1>8. input'[d] = t /\ data'[d] = n + 1 /\ input' \in [Dialer -> Seq(Byte)]
      /\ data' \in [Dialer -> Nat]
  BY <1>1, <1>2, <1>4, <1>6, SMTT(40) DEF TypeInv
<1>9. Content("established", l, t, n + 1)
  <2>1. PICK j \in Nat, k \in Nat : j = Len(l) /\ k = Len(s)
    BY <1>5
  <2>2. j <= 2 /\ j + k = 2 + n
    BY <1>5, <2>1
  <2>3. Answer(k + 1 + j) = "data" /\ j + (k + 1) = 2 + (n + 1)
    BY <2>2, SMTT(40) DEF Answer
  <2>4. \A i \in 1..(k + 1) : i \in 1..k \/ i = k + 1
    BY SMTT(40)
  <2>5. \A i \in 1..Len(t) : t[i] = Answer(i + j)
    BY <1>5, <1>7, <2>1, <2>3, <2>4
  <2>6. QED BY <1>5, <1>7, <2>1, <2>3, <2>5 DEF Content
<1>10. Known' = Known
  BY <1>2 DEF Known
<1>11. TypeInv'
  BY <1>1, <1>2, <1>8 DEF TypeInv
<1>12. Handshake(d)'
  BY <1>1, <1>2, <1>3, <1>4, <1>8, <1>9 DEF Handshake
<1>13. Matched(d)'
  BY <1>1, <1>2, <1>10 DEF Matched, Conn
<1>14. ASSUME NEW e \in Dialer, e # d PROVE Handshake(e)' /\ Matched(e)'
  BY <1>1, <1>2, <1>10, <1>14, Others DEF TypeInv
<1>15. QED BY <1>11, <1>12, <1>13, <1>14 DEF IInv

\* A step of the listener moves connections from the backlog to the accepted
\* ones and touches no stream.
LEMMA ListenerStep ==
    ASSUME IInv, UNCHANGED <<dialVars, streamVars>>,
           \/ UNCHANGED <<backlog, accepted>>
           \/ /\ backlog # <<>> /\ backlog' = Tail(backlog)
              /\ accepted' = accepted \cup {Head(backlog)}
    PROVE  IInv'
<1>1. TypeInv
  BY DEF IInv
<1>2. PICK b \in Seq(Connection) : b = backlog
  BY <1>1 DEF TypeInv
<1>3. Known' = Known /\ backlog' \in Seq(Connection) /\ accepted' \subseteq Connection
  <2>1. CASE UNCHANGED <<backlog, accepted>>
    BY <1>1, <2>1 DEF Known, TypeInv
  <2>2. CASE /\ b # <<>> /\ backlog' = Tail(b)
             /\ accepted' = accepted \cup {Head(b)}
    <3>1. /\ Head(b) \in Connection /\ Tail(b) \in Seq(Connection)
          /\ Len(Tail(b)) = Len(b) - 1
          /\ \A i \in 1..Len(Tail(b)) : Tail(b)[i] = b[i + 1]
      BY <2>2, HeadTailProperties
    <3>2. PICK t \in Seq(Connection) : t = Tail(b)
      BY <3>1
    <3>3. /\ DOMAIN b = 1..Len(b) /\ DOMAIN t = 1..Len(t) /\ Head(b) = b[1]
          /\ Len(b) \in Nat /\ Len(b) >= 1 /\ Len(t) \in Nat
      BY <2>2, SMTT(40)
    <3>4. \A i \in DOMAIN b : i = 1 \/ (i - 1 \in DOMAIN t /\ t[i - 1] = b[i])
      BY <3>1, <3>2, <3>3, SMTT(40)
    <3>5. \A i \in DOMAIN t : i + 1 \in DOMAIN b /\ t[i] = b[i + 1]
      BY <3>1, <3>2, <3>3, SMTT(40)
    <3>6. 1 \in DOMAIN b
      BY <3>3, SMTT(40)
    <3>7. SeqRange(b) = SeqRange(t) \cup {Head(b)}
      BY <3>3, <3>4, <3>5, <3>6, SMTT(40) DEF SeqRange
    <3>8. QED BY <1>1, <1>2, <2>2, <3>1, <3>2, <3>7 DEF Known, TypeInv
  <2>3. QED BY <1>2, <2>1, <2>2
<1>4. TypeInv'
  BY <1>1, <1>3 DEF TypeInv, dialVars, streamVars
<1>5. ASSUME NEW e \in Dialer PROVE Handshake(e)' /\ Matched(e)'
  BY <1>3, Others DEF dialVars, streamVars
<1>6. QED BY <1>4, <1>5 DEF IInv

\* Every step keeps the invariant.
LEMMA StepInv == IInv /\ [Next]_vars => IInv'
<1> SUFFICES ASSUME IInv, [Next]_vars PROVE IInv'
  OBVIOUS
<1>1. ASSUME NEW d \in Dialer, Dial(d) PROVE IInv'
  BY <1>1, AttemptStep DEF Dial, guestVars, IInv, TypeInv
<1>2. ASSUME NEW d \in Dialer, DialStep(d) PROVE IInv'
  <2>1. CASE ConnectOk(d) \/ WriteOk(d) \/ ReadByte(d) \/ AckOk(d)
    BY <2>1, GoodStep
  <2>2. CASE ConnectFails(d)
    <3>1. PICK kind \in ConnectKinds : TryFailed(d, kind, IoError(kind))
      BY <2>2 DEF ConnectFails
    <3>2. kind \in Stage
      BY DEF Stage
    <3>3. QED BY <3>1, <3>2, FailStep
  <2>3. CASE WriteFails(d)
    <3>1. "write" \in Stage
      BY DEF Stage
    <3>2. QED BY <2>3, <3>1, FailStep DEF WriteFails
  <2>4. CASE ReadFails(d) \/ AckWrong(d)
    <3>1. "ack" \in Stage
      BY DEF Stage
    <3>2. QED BY <2>4, <3>1, FailStep DEF ReadFails, AckWrong
  <2>5. QED BY <1>2, <2>1, <2>2, <2>3, <2>4 DEF DialStep
<1>3. ASSUME NEW d \in Dialer, Establish(d) \/ Refuse(d) \/ Drip(d) \/ GuestSends(d)
      PROVE  IInv'
  BY <1>3, EstablishStep, RefuseStep, DataStep
<1>a. CASE Stall
  BY <1>a, ListenerStep DEF Stall, guestVars
<1>4. CASE Listen \/ Accept \/ AcceptFails
  BY <1>4, ListenerStep DEF Listen, Accept, AcceptFails, netVars
<1>5. CASE AcceptOk
  BY <1>5, ListenerStep DEF AcceptOk, netVars
<1>6. CASE UNCHANGED vars
  BY <1>6, ListenerStep DEF vars, guestVars, netVars
<1>7. QED BY <1>1, <1>2, <1>3, <1>a, <1>4, <1>5, <1>6 DEF Next

\* A call that ends before its deadline ends with an error that does not pass.
LEMMA StepRetried == IInv /\ TemporaryRetried /\ [Next]_vars => TemporaryRetried'
<1> SUFFICES ASSUME IInv, TemporaryRetried, [Next]_vars PROVE TemporaryRetried'
  OBVIOUS
<1>1. TypeInv
  BY DEF IInv
<1> DEFINE Told(d) == pc[d] = "err" /\ stage[d] \in {"ack"} \cup TemporaryKinds => late[d]
           Heard == acceptor = "err" => aerror \notin TemporaryKinds
<1>2. SUFFICES (\A d \in Dialer : Told(d)') /\ Heard'
  BY DEF TemporaryRetried
<1>3. (\A d \in Dialer : Told(d)) /\ Heard
  BY DEF TemporaryRetried
<1>4. ASSUME NEW d \in Dialer, NEW part \in Stage, NEW error, TryFailed(d, part, error),
             part \in {"ack"} \cup TemporaryKinds => is_temporary_net_error(error)
      PROVE  (\A e \in Dialer : Told(e)') /\ Heard'
  <2>1. Heard'
    BY <1>3, <1>4 DEF TryFailed, guestVars
  <2>2. PICK passed \in BOOLEAN :
           IF is_temporary_net_error(error) /\ ~passed
           THEN Attempt(d) /\ late' = late
           ELSE pc' = [pc EXCEPT ![d] = "err"] /\ late' = [late EXCEPT ![d] = passed]
    BY <1>4 DEF TryFailed, DeadlinePassed
  <2>3. stage' = [stage EXCEPT ![d] = part]
    BY <1>4 DEF TryFailed
  <2>4. CASE pc' = [pc EXCEPT ![d] = "connect"] /\ late' = late
    <3>1. pc'[d] = "connect"
      BY <1>1, <2>4 DEF TypeInv
    <3>2. Told(d)'
      BY <3>1
    <3>3. ASSUME NEW e \in Dialer, e # d PROVE Told(e)'
      BY <1>1, <1>3, <2>3, <2>4, <3>3 DEF TypeInv
    <3>4. QED BY <2>1, <3>2, <3>3
  <2>5. CASE /\ pc' = [pc EXCEPT ![d] = "err"] /\ late' = [late EXCEPT ![d] = passed]
             /\ is_temporary_net_error(error) => passed
    <3>1. late'[d] = passed /\ stage'[d] = part
      BY <1>1, <2>3, <2>5 DEF TypeInv
    <3>2. Told(d)'
      BY <1>4, <2>5, <3>1
    <3>3. ASSUME NEW e \in Dialer, e # d PROVE Told(e)'
      BY <1>1, <1>3, <2>3, <2>5, <3>3 DEF TypeInv
    <3>4. QED BY <2>1, <3>2, <3>3
  <2>6. QED BY <2>1, <2>2, <2>4, <2>5 DEF Attempt
<1>5. ASSUME UNCHANGED <<acceptor, aerror, stage, late>>,
             \A e \in Dialer : pc'[e] = "err" => pc[e] = "err"
      PROVE  (\A e \in Dialer : Told(e)') /\ Heard'
  BY <1>3, <1>5
<1>6. ASSUME NEW d \in Dialer, Dial(d) PROVE (\A e \in Dialer : Told(e)') /\ Heard'
  BY <1>1, <1>5, <1>6 DEF Dial, Attempt, guestVars, TypeInv
<1>7. ASSUME NEW d \in Dialer, DialStep(d) PROVE (\A e \in Dialer : Told(e)') /\ Heard'
  <2>1. CASE ConnectOk(d) \/ WriteOk(d) \/ ReadByte(d) \/ AckOk(d)
    BY <1>1, <1>5, <2>1 DEF ConnectOk, WriteOk, ReadByte, AckOk, guestVars, TypeInv
  <2>2. CASE ConnectFails(d)
    <3>1. PICK kind \in ConnectKinds : TryFailed(d, kind, IoError(kind))
      BY <2>2 DEF ConnectFails
    <3>2. /\ kind \in Stage
          /\ kind \in {"ack"} \cup TemporaryKinds => is_temporary_net_error(IoError(kind))
      BY <3>1 DEF Stage, ConnectKinds, is_temporary_net_error, IoError
    <3>3. QED BY <1>4, <3>1, <3>2
  <2>3. CASE WriteFails(d)
    <3>1. "write" \in Stage /\ "write" \notin {"ack"} \cup TemporaryKinds
      BY DEF Stage, TemporaryKinds
    <3>2. QED BY <1>4, <2>3, <3>1 DEF WriteFails
  <2>4. CASE ReadFails(d) \/ AckWrong(d)
    <3>1. "ack" \in Stage /\ is_temporary_net_error(AckError)
      BY DEF Stage, is_temporary_net_error, AckError
    <3>2. QED BY <1>4, <2>4, <3>1 DEF ReadFails, AckWrong
  <2>5. QED BY <1>7, <2>1, <2>2, <2>3, <2>4 DEF DialStep
<1>8. ASSUME NEW d \in Dialer, Establish(d) \/ Refuse(d) \/ Drip(d) \/ GuestSends(d)
      PROVE  (\A e \in Dialer : Told(e)') /\ Heard'
  BY <1>5, <1>8 DEF Establish, Refuse, Drip, GuestSends, dialVars, guestVars
<1>9. CASE Listen \/ Stall
  BY <1>5, <1>9 DEF Listen, Stall, dialVars, guestVars
<1>10. CASE Accept \/ AcceptOk
  BY <1>3, <1>10 DEF Accept, AcceptOk, dialVars
<1>11. CASE AcceptFails
  <2>1. PICK kind \in AcceptKinds, passed \in BOOLEAN :
           IF is_temporary_net_error(IoError(kind)) /\ ~passed
           THEN tries' = tries + 1 /\ UNCHANGED <<acceptor, aerror>>
           ELSE acceptor' = "err" /\ tries' = tries
                /\ aerror' = IF passed THEN "late" ELSE kind
    BY <1>11 DEF AcceptFails, DeadlinePassed
  <2>2. "late" \notin TemporaryKinds
    BY DEF TemporaryKinds
  <2>3. kind \in TemporaryKinds => is_temporary_net_error(IoError(kind))
    BY DEF is_temporary_net_error, IoError
  <2>4. Heard'
    BY <1>3, <2>1, <2>2, <2>3
  <2>5. QED BY <1>3, <1>11, <2>4 DEF AcceptFails, dialVars
<1>12. CASE UNCHANGED vars
  BY <1>5, <1>12 DEF vars, dialVars, guestVars
<1>13. QED
  BY <1>6, <1>7, <1>8, <1>9, <1>10, <1>11, <1>12 DEF Next

\* The invariant holds throughout.
LEMMA Invariance == Spec => [](IInv /\ TemporaryRetried)
<1>1. IInv /\ TemporaryRetried /\ [Next]_vars => (IInv /\ TemporaryRetried)'
  BY StepInv, StepRetried
<1>2. QED BY InitInv, <1>1, PTL DEF Spec

\* For any number of dialers that retry, a stream that dial returns is one for
\* which the guest's kernel has a connection, never that of an earlier attempt.
THEOREM Acknowledged == Spec => []OkIsAcknowledged
<1>1. IInv => OkIsAcknowledged
  BY DEF IInv, Handshake, Matched, Known, OkIsAcknowledged
<1>2. QED BY Invariance, <1>1, PTL

\* Such a stream has no timeout left, and every byte the guest sent is still to
\* be read: try_conn_read_until took the answer and nothing else.
THEOREM Pristine == Spec => []StreamPristine
<1>1. ASSUME IInv, NEW d \in Dialer, pc[d] = "ok"
      PROVE  armed[d] = {} /\ input[d] = [i \in 1..data[d] |-> "data"]
  <2>1. TypeInv /\ Handshake(d)
    BY <1>1 DEF IInv
  <2>2. armed[d] = {}
    BY <1>1, <2>1 DEF Handshake, Timeouts
  <2>3. PICK s \in Seq(Byte), n \in Nat, l \in Seq(Byte) :
           s = input[d] /\ n = data[d] /\ l = line[d]
    BY <2>1 DEF TypeInv
  <2>4. Len(l) = 2 /\ Content("established", l, s, n)
    BY <1>1, <2>1, <2>3 DEF Handshake
  <2>5. 2 + Len(s) = 2 + n /\ \A i \in 1..Len(s) : s[i] = Answer(i + 2)
    BY <2>4 DEF Content
  <2>6. Len(s) = n
    BY <2>5, SMTT(40)
  <2>7. \A i \in 1..n : s[i] = "data"
    BY <2>5, <2>6, SMTT(40) DEF Answer
  <2>8. s = [i \in 1..n |-> "data"]
    BY <2>6, <2>7, SMTT(40)
  <2>9. QED BY <2>2, <2>3, <2>8
<1>2. IInv => StreamPristine
  BY <1>1 DEF StreamPristine
<1>3. QED BY Invariance, <1>2, PTL

\* Before the deadline only an error that is_temporary_net_error does not
\* accept ends dial or accept.
THEOREM Retried == Spec => []TemporaryRetried
<1>1. QED BY Invariance, PTL
=============================================================================
