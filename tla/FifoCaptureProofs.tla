------------------------- MODULE FifoCaptureProofs ---------------------------
(***************************************************************************)
(* Theorems about FifoCapture for any number of runs, any amount of output *)
(* and any size of the buffer.                                             *)
(***************************************************************************)
EXTENDS FifoCapture, SequenceTheorems, TLAPS

\* Leaves go to Zenon unless they name another prover.
USE ZenonT(40)

Place == {"none", "check", "read", "write", "remove", "send", "ended"} \cup Failed
Phase == {"down", "spawned", "fifo", "logging", "abort_early", "abort", "cleanup"}
Message == {"ok", "err"}

TypeInv ==
    /\ run \in Nat /\ run <= MaxRuns
    /\ machine \in Phase
    /\ machine # "down" => run # 0
    /\ path \in Run \cup {None}
    /\ fifo \in [Run -> Seq(Nat)]
    /\ sent \in [Run -> Nat]
    /\ thread \in [Run -> Place]
    /\ buf \in [Run -> Seq(Nat)]
    /\ seen_data \in [Run -> BOOLEAN]
    /\ idle_since \in [Run -> {"none", "counting", "expired"}]
    /\ captured \in [Run -> Seq(Nat)]
    /\ done \in [Run -> Seq(Message)]

\* The chunks in s are those behind the first n.
Behind(s, n) == \A i \in 1..Len(s) : s[i] = n + i

\* The captured, the held and the unread chunks are the first n.
Ordered(c, b, f, n) ==
    /\ Len(c) + Len(b) + Len(f) = n
    /\ Behind(c, 0) /\ Behind(b, Len(c)) /\ Behind(f, Len(c) + Len(b))

Sent(r) == {done[r][i] : i \in DOMAIN done[r]}

\* The thread ends with an error.
Erred(r) ==
    thread[r] = "send_err" \/ (thread[r] \in {"remove_err", "ended"} /\ "err" \in Sent(r))

\* The way of the output of one run, and where the thread holds some of it.
Flow(r) ==
    /\ \/ Ordered(captured[r], buf[r], fifo[r], sent[r])
       \/ Erred(r) /\ Len(captured[r]) <= sent[r] /\ Behind(captured[r], 0)
    /\ thread[r] \in {"none", "check", "read", "remove", "send"} => buf[r] = <<>>
    /\ thread[r] = "write" => buf[r] # <<>>
    /\ seen_data[r] /\ thread[r] \in {"check", "read"} => captured[r] # <<>>

\* A FIFO that is still at the path: made in its run, and by whom it should
\* have been removed by now.
Removed(r) ==
    path = r =>
        /\ r <= run /\ (r = run => machine \notin {"spawned", "abort_early"})
        /\ thread[r] = "send" \/ "ok" \in Sent(r) => "thread" \in unremoved
        /\ r # run \/ machine = "down" => "do_cleanup" \in unremoved

\* What a step other than mkfifo does to the path.
PathKept == path' = None \/ (path' = path /\ unremoved \subseteq unremoved')

\* A run whose FIFO was not made yet has no thread.
Fresh(r) ==
    r > run \/ (r = run /\ machine = "spawned") =>
        thread[r] = "none" /\ done[r] = <<>> /\ ~seen_data[r]

IInv == TypeInv /\ \A r \in Run : Flow(r) /\ Removed(r) /\ Fresh(r)

-----------------------------------------------------------------------------
(* Chunks                                                                  *)

\* A read takes the first n chunks and leaves the others.
LEMMA Split ==
    ASSUME NEW s \in Seq(Nat), NEW n \in 0..Len(s), NEW k \in Nat, Behind(s, k)
    PROVE  /\ SubSeq(s, 1, n) \in Seq(Nat) /\ SubSeq(s, n + 1, Len(s)) \in Seq(Nat)
           /\ Len(SubSeq(s, 1, n)) = n /\ Len(SubSeq(s, n + 1, Len(s))) = Len(s) - n
           /\ Behind(SubSeq(s, 1, n), k) /\ Behind(SubSeq(s, n + 1, Len(s)), k + n)
<1>1. PICK m \in Nat : m = Len(s) /\ n \in 0..m
  BY SMTT(40)
<1>2. \A i \in 1..m : s[i] \in Nat /\ s[i] = k + i
  BY <1>1, SMTT(40) DEF Behind
<1> DEFINE a == SubSeq(s, 1, n)
           b == SubSeq(s, n + 1, m)
<1>3. /\ a \in Seq(Nat) /\ Len(a) = n
      /\ \A i \in 1..n : a[i] = s[i]
  <2>1. 1 \in 1..(m + 1) /\ n \in 0..m /\ \A i \in 1..n : s[i] \in Nat
    BY <1>1, <1>2, SMTT(40)
  <2>2. /\ a \in Seq(Nat)
        /\ Len(a) = IF 1 <= n THEN n - 1 + 1 ELSE 0
        /\ \A i \in 1..(n - 1 + 1) : a[i] = s[1 + i - 1]
    BY <1>1, <2>1, SubSeqProperties, SMTT(40)
  <2> HIDE DEF a
  <2>3. QED BY <1>1, <2>2, SMTT(40)
<1>4. /\ b \in Seq(Nat) /\ Len(b) = m - n
      /\ \A i \in 1..(m - n) : b[i] = s[n + i]
  <2>1. n + 1 \in 1..(m + 1) /\ m \in 0..m /\ \A i \in (n + 1)..m : s[i] \in Nat
    BY <1>1, <1>2, SMTT(40)
  <2>2. /\ b \in Seq(Nat)
        /\ Len(b) = IF n + 1 <= m THEN m - (n + 1) + 1 ELSE 0
        /\ \A i \in 1..(m - (n + 1) + 1) : b[i] = s[(n + 1) + i - 1]
    BY <1>1, <2>1, SubSeqProperties, SMTT(40)
  <2> HIDE DEF b
  <2>3. QED BY <1>1, <2>2, SMTT(40)
<1> HIDE DEF a, b
<1>5. Behind(a, k)
  BY <1>1, <1>2, <1>3, SMTT(40) DEF Behind
<1>6. Behind(b, k + n)
  <2>1. \A i \in 1..(m - n) : n + i \in 1..m
    BY <1>1, SMTT(40)
  <2>2. \A i \in 1..(m - n) : b[i] = (k + n) + i
    BY <1>1, <1>2, <1>4, <2>1, SMTT(40)
  <2>3. QED BY <1>4, <2>2 DEF Behind
<1>7. QED BY <1>1, <1>3, <1>4, <1>5, <1>6 DEF a, b

\* The writer appends chunks that follow those it has.
LEMMA Join ==
    ASSUME NEW c \in Seq(Nat), NEW b \in Seq(Nat), NEW k \in Nat,
           Behind(c, k), Behind(b, k + Len(c))
    PROVE  c \o b \in Seq(Nat) /\ Len(c \o b) = Len(c) + Len(b) /\ Behind(c \o b, k)
<1>1. PICK m \in Nat, n \in Nat : m = Len(c) /\ n = Len(b)
  BY SMTT(40)
<1> DEFINE d == c \o b
<1>2. /\ d \in Seq(Nat) /\ Len(d) = m + n
      /\ \A i \in 1..(m + n) : d[i] = IF i <= m THEN c[i] ELSE b[i - m]
  BY <1>1, SMTT(40)
<1> HIDE DEF d
<1>3. \A i \in 1..m : c[i] = k + i
  BY <1>1 DEF Behind
<1>4. \A i \in 1..n : b[i] = (k + m) + i
  BY <1>1 DEF Behind
<1>5. \A i \in 1..(m + n) : d[i] = k + i
  <2> TAKE i \in 1..(m + n)
  <2>1. CASE i <= m
    BY <1>2, <1>3, <2>1, SMTT(40)
  <2>2. CASE i > m
    <3>1. PICK j \in 1..n : j = i - m /\ i = m + j
      BY <2>2, SMTT(40)
    <3>2. d[i] = b[j]
      BY <1>2, <2>2, <3>1, SMTT(40)
    <3>3. QED BY <1>4, <3>1, <3>2, SMTT(40)
  <2>3. QED BY <2>1, <2>2, SMTT(40)
<1>6. QED BY <1>1, <1>2, <1>5 DEF Behind, d

\* The VMM writes the next chunk.
LEMMA Grow ==
    ASSUME NEW c \in Seq(Nat), NEW b \in Seq(Nat), NEW f \in Seq(Nat), NEW n \in Nat,
           Ordered(c, b, f, n)
    PROVE  Ordered(c, b, Append(f, n + 1), n + 1)
<1>1. PICK x \in Nat : x = Len(c)
  BY SMTT(40)
<1>a. PICK y \in Nat : y = Len(b)
  BY SMTT(40)
<1>b. PICK m \in Nat : m = Len(f)
  BY SMTT(40)
<1>c. PICK k \in Nat : k = x + y
  BY SMTT(40)
<1>2. k + m = n /\ \A i \in 1..m : f[i] = k + i
  BY <1>1, <1>a, <1>b, <1>c DEF Ordered, Behind
<1> DEFINE g == Append(f, n + 1)
<1>3. Len(g) = m + 1 /\ g[m + 1] = n + 1 /\ \A i \in 1..m : g[i] = f[i]
  BY <1>1, <1>a, <1>b, <1>c, AppendProperties, SMTT(40)
<1> HIDE DEF g
<1>4. \A i \in 1..(m + 1) : g[i] = k + i
  <2>1. g[m + 1] = k + (m + 1)
    BY <1>2, <1>3, SMTT(40)
  <2>2. ASSUME NEW i \in 1..(m + 1) PROVE g[i] = k + i
    <3>1. CASE i = m + 1
      BY <2>1, <3>1
    <3>2. CASE i # m + 1
      <4>1. i \in 1..m
        BY <3>2, SMTT(40)
      <4>2. QED BY <1>2, <1>3, <4>1
    <3>3. QED BY <3>1, <3>2
  <2>3. QED BY <2>2
<1>5. Behind(g, k)
  BY <1>3, <1>4 DEF Behind
<1>6. x + y + Len(g) = n + 1
  BY <1>2, <1>3, <1>c, SMTT(40)
<1>7. Ordered(c, b, g, n + 1)
  BY <1>1, <1>a, <1>c, <1>5, <1>6 DEF Ordered
<1>8. QED BY <1>7 DEF g

\* Append adds its element.
LEMMA RangeAppend ==
    ASSUME NEW S, NEW s \in Seq(S), NEW e \in S
    PROVE  LET t == Append(s, e)
           IN {t[i] : i \in DOMAIN t} = {s[i] : i \in DOMAIN s} \cup {e}
<1>1. PICK n \in Nat : n = Len(s)
  BY SMTT(40)
<1> DEFINE t == Append(s, e)
<1>2. t \in Seq(S)
  BY AppendProperties
<1>3. /\ DOMAIN s = 1..n /\ DOMAIN t = 1..(n + 1)
      /\ t[n + 1] = e /\ \A i \in 1..n : t[i] = s[i]
  BY <1>1, <1>2, AppendProperties, SMTT(40)
<1>4. 1..(n + 1) = (1..n) \cup {n + 1}
  BY SMTT(40)
<1> HIDE DEF t
<1>5. {t[i] : i \in DOMAIN t} = {s[i] : i \in DOMAIN s} \cup {e}
  BY <1>3, <1>4, SMTT(40)
<1>6. QED BY <1>5 DEF t

\* Behind(s, 0) says what a sequence is.
LEMMA ChunksOf ==
    ASSUME NEW s \in Seq(Nat), Behind(s, 0)
    PROVE  s = Chunks(Len(s))
<1>1. PICK n \in Nat : n = Len(s)
  BY SMTT(40)
<1>2. s \in [1..n -> Nat] /\ \A i \in 1..n : s[i] = i
  BY <1>1, SMTT(40) DEF Behind
<1>3. QED BY <1>1, <1>2 DEF Chunks

-----------------------------------------------------------------------------
(* The invariant                                                           *)

\* Before the first start there is nothing.
LEMMA InitInv == Init => IInv
<1> SUFFICES ASSUME Init PROVE IInv
  OBVIOUS
<1> DEFINE E == <<>>
<1>1. E \in Seq(Nat) /\ E \in Seq(Message) /\ Len(E) = 0 /\ DOMAIN E = {}
  BY SMTT(40)
<1> HIDE DEF E
<1>2. /\ fifo = [r \in Run |-> E] /\ buf = [r \in Run |-> E]
      /\ captured = [r \in Run |-> E] /\ done = [r \in Run |-> E]
  BY DEF Init, E
<1>3. TypeInv
  <2>1. /\ fifo \in [Run -> Seq(Nat)] /\ buf \in [Run -> Seq(Nat)]
        /\ captured \in [Run -> Seq(Nat)] /\ done \in [Run -> Seq(Message)]
    BY <1>1, <1>2
  <2>2. /\ run \in Nat /\ run <= MaxRuns /\ machine \in Phase /\ machine = "down"
        /\ path \in Run \cup {None} /\ sent \in [Run -> Nat]
        /\ thread \in [Run -> Place]
        /\ idle_since \in [Run -> {"none", "counting", "expired"}]
    BY BoundsAssumption, SMTT(40) DEF Init, Phase, Place, None
  <2>3. seen_data \in [Run -> BOOLEAN]
    BY DEF Init
  <2>4. QED BY <2>1, <2>2, <2>3 DEF TypeInv
<1>4. ASSUME NEW r \in Run PROVE Flow(r) /\ Removed(r) /\ Fresh(r)
  <2>1. /\ captured[r] = E /\ buf[r] = E /\ fifo[r] = E /\ done[r] = E /\ sent[r] = 0
        /\ thread[r] = "none" /\ ~seen_data[r] /\ path # r
    BY <1>2, SMTT(40) DEF Init, Run, None
  <2>2. Ordered(captured[r], buf[r], fifo[r], sent[r])
    BY <1>1, <2>1, SMTT(40) DEF Ordered, Behind
  <2>3. Sent(r) = {}
    BY <1>1, <2>1 DEF Sent
  <2>4. QED BY <2>1, <2>2, <2>3 DEF Flow, Removed, Fresh, E
<1>5. QED BY <1>3, <1>4 DEF IInv

\* A step that leaves a run alone keeps what is said of its output.
LEMMA FlowFrame ==
    ASSUME NEW r \in Run, Flow(r),
           UNCHANGED <<thread[r], buf[r], fifo[r], sent[r], captured[r], done[r],
                       seen_data[r]>>
    PROVE  Flow(r)'
BY DEF Flow, Erred, Sent

\* The Machine's own steps, and the VMM's exit.
LEMMA MachineStep ==
    ASSUME IInv,
           \/ StartVmm \/ CreateLogFiles \/ SetupLogging \/ AbortStart \/ AbortEarly
           \/ Finalize \/ DoCleanup \/ SignalExit \/ VmmExit
    PROVE  IInv'
<1>1. TypeInv /\ MaxRuns \in Nat
  BY BoundsAssumption DEF IInv
<1>2. UNCHANGED <<dataVars, buf, seen_data, idle_since, captured, done>>
  BY DEF StartVmm, CreateLogFiles, SetupLogging, AbortStart, AbortEarly, Finalize,
     DoCleanup, SignalExit, VmmExit, threadVars
<1>3. CASE StartVmm
  <2>1. /\ machine' = "spawned" /\ run' = run + 1 /\ run < MaxRuns
        /\ UNCHANGED <<path, unremoved, thread>> /\ machine = "down"
    BY <1>3 DEF StartVmm, threadVars, pathVars
  <2>2. TypeInv'
    BY <1>1, <1>2, <2>1, SMTT(40) DEF TypeInv, Phase, dataVars
  <2>3. ASSUME NEW r \in Run PROVE Flow(r)' /\ Removed(r)' /\ Fresh(r)'
    <3>1. Flow(r) /\ Removed(r) /\ Fresh(r)
      BY DEF IInv
    <3>2. Flow(r)'
      BY <1>2, <2>1, <3>1, FlowFrame DEF dataVars
    <3>3. r > run' \/ r = run' => r > run
      BY <1>1, <2>1, SMTT(40) DEF TypeInv, Run
    <3>4. r <= run => r <= run' /\ r # run'
      BY <1>1, <2>1, SMTT(40) DEF TypeInv, Run
    <3>5. Removed(r)'
      BY <1>2, <2>1, <3>1, <3>4 DEF Removed, Sent
    <3>6. QED BY <1>2, <2>1, <3>1, <3>2, <3>3, <3>5 DEF Fresh, Sent
  <2>4. QED BY <2>2, <2>3 DEF IInv
<1>4. CASE CreateLogFiles
  <2>1. /\ machine = "spawned" /\ machine' = "fifo" /\ path' = run /\ run' = run
    BY <1>4 DEF CreateLogFiles
  <2>2. PICK t \in {"none", "check"} : thread' = [thread EXCEPT ![run] = t]
    BY Zenon, <1>4 DEF CreateLogFiles
  <2>3. run \in Run
    BY <1>1, <2>1, SMTT(40) DEF TypeInv, Run
  <2>4. TypeInv'
    BY <1>1, <1>2, <2>1, <2>2, <2>3 DEF TypeInv, Phase, Place, dataVars
  <2>5. ASSUME NEW r \in Run PROVE Flow(r)' /\ Removed(r)' /\ Fresh(r)'
    <3>1. Flow(r) /\ Removed(r) /\ Fresh(r)
      BY DEF IInv
    <3>2. CASE r # run
      <4>1. thread'[r] = thread[r]
        BY <1>1, <2>2, <3>2 DEF TypeInv
      <4>2. Flow(r)'
        BY <1>2, <3>1, <4>1, FlowFrame DEF dataVars
      <4>3. QED BY <1>2, <2>1, <3>1, <3>2, <4>1, <4>2 DEF Removed, Fresh, Sent
    <3>3. CASE r = run
      <4>1. thread[r] = "none" /\ done[r] = <<>> /\ thread'[r] = t /\ ~seen_data[r]
        BY <1>1, <2>1, <2>2, <3>1, <3>3 DEF Fresh, TypeInv
      <4>2. Sent(r)' = {}
        BY <1>2, <4>1, SMTT(40) DEF Sent
      <4>3. ~Erred(r) /\ buf[r] = <<>>
        BY <3>1, <4>1 DEF Erred, Flow
      <4>4. Flow(r)'
        BY <1>2, <3>1, <4>1, <4>3 DEF Flow, dataVars
      <4>5. run <= run
        BY <1>1, SMTT(40) DEF TypeInv
      <4>6. Removed(r)'
        BY <2>1, <3>3, <4>1, <4>2, <4>5 DEF Removed
      <4>7. QED BY <1>1, <2>1, <3>3, <4>1, <4>4, <4>6, SMTT(40) DEF Fresh, TypeInv
    <3>4. QED BY <3>2, <3>3
  <2>6. QED BY <2>4, <2>5 DEF IInv
<1>5. CASE SetupLogging \/ AbortStart \/ AbortEarly \/ Finalize \/ DoCleanup
           \/ SignalExit \/ VmmExit
  <2>1. /\ UNCHANGED <<thread, run>>
        /\ machine' = machine \/ machine' \in Phase \ {"spawned"}
        /\ machine' # "down" => machine # "down"
        /\ machine' = "abort_early" => machine \in {"spawned", "abort_early"}
    BY <1>5 DEF SetupLogging, AbortStart, AbortEarly, Finalize, DoCleanup,
       SignalExit, VmmExit, threadVars, Phase
  <2>a. /\ PathKept
        /\ machine' = "down" => \/ machine \in {"down", "spawned", "abort_early"}
                                \/ path' = None
                                \/ path = run => "do_cleanup" \in unremoved'
    BY <1>5 DEF SetupLogging, AbortStart, AbortEarly, Finalize, DoCleanup, RemoveFile,
       SignalExit, VmmExit, pathVars, PathKept
  <2>b. path' \in {path, None}
    BY <2>a DEF PathKept
  <2>2. TypeInv'
    BY <1>1, <1>2, <2>1, <2>b DEF TypeInv, dataVars
  <2>3. ASSUME NEW r \in Run PROVE Flow(r)' /\ Removed(r)' /\ Fresh(r)'
    <3>1. Flow(r) /\ Removed(r) /\ Fresh(r) /\ r # None
      BY SMTT(40) DEF IInv, Run, None
    <3>2. Flow(r)'
      BY <1>2, <2>1, <3>1, FlowFrame DEF dataVars
    <3>3. Sent(r)' = Sent(r) /\ UNCHANGED <<thread[r], done[r], seen_data[r], run>>
      BY <1>2, <2>1 DEF Sent
    <3>4. Removed(r)'
      BY <2>1, <2>a, <3>1, <3>3 DEF Removed, PathKept
    <3>5. Fresh(r)'
      BY <2>1, <3>1, <3>3 DEF Fresh
    <3>6. QED BY <3>2, <3>4, <3>5
  <2>4. QED BY <2>2, <2>3 DEF IInv
<1>6. QED BY <1>3, <1>4, <1>5

\* The VMM writes a chunk.
LEMMA WriteStep ==
    ASSUME IInv, VmmWrites
    PROVE  IInv'
<1>1. TypeInv
  BY DEF IInv
<1>2. run \in Run
  BY <1>1, SMTT(40) DEF TypeInv, VmmWrites, Run
<1>3. PICK n \in Nat : n = sent[run]
  BY <1>1, <1>2 DEF TypeInv
<1>4. /\ sent' = [sent EXCEPT ![run] = n + 1]
      /\ fifo' = [fifo EXCEPT ![run] = Append(fifo[run], n + 1)]
      /\ UNCHANGED <<machineVars, path, unremoved, threadVars>>
  BY <1>1, <1>2, <1>3 DEF VmmWrites, TypeInv, pathVars
<1>5. PICK g \in Seq(Nat) : fifo' = [fifo EXCEPT ![run] = g]
  <2>1. fifo[run] \in Seq(Nat) /\ Append(fifo[run], n + 1) \in Seq(Nat)
    BY <1>1, <1>2, AppendProperties, SMTT(40) DEF TypeInv
  <2>2. QED BY Zenon, <1>4, <2>1
<1>6. TypeInv'
  <2>1. fifo' \in [Run -> Seq(Nat)]
    BY <1>1, <1>2, <1>5 DEF TypeInv
  <2>2. sent' \in [Run -> Nat]
    BY <1>1, <1>2, <1>4, SMTT(40) DEF TypeInv
  <2>3. QED BY <1>1, <1>4, <2>1, <2>2 DEF TypeInv, machineVars, threadVars
<1>7. ASSUME NEW r \in Run PROVE Flow(r)' /\ Removed(r)' /\ Fresh(r)'
  <2>1. Flow(r) /\ Removed(r) /\ Fresh(r)
    BY DEF IInv
  <2>2. CASE r # run
    <3>1. sent'[r] = sent[r] /\ fifo'[r] = fifo[r]
      BY <1>1, <1>4, <2>2 DEF TypeInv
    <3>2. Flow(r)'
      BY <1>4, <2>1, <3>1, FlowFrame DEF threadVars
    <3>3. QED BY <1>4, <2>1, <3>2 DEF Removed, Fresh, Sent, machineVars, threadVars
  <2>3. CASE r = run
    <3>1. sent'[r] = n + 1 /\ fifo'[r] = Append(fifo[r], n + 1) /\ sent[r] = n
      BY <1>1, <1>3, <1>4, <2>3 DEF TypeInv
    <3>2. /\ captured[r] \in Seq(Nat) /\ buf[r] \in Seq(Nat) /\ fifo[r] \in Seq(Nat)
          /\ Len(captured[r]) \in Nat
      BY <1>1, SMTT(40) DEF TypeInv
    <3>3. ASSUME Ordered(captured[r], buf[r], fifo[r], sent[r])
          PROVE  Ordered(captured[r], buf[r], fifo'[r], sent'[r])
      BY <3>1, <3>2, <3>3, Grow
    <3>4. ASSUME Len(captured[r]) <= sent[r]
          PROVE  Len(captured[r]) <= sent'[r]
      BY <3>1, <3>2, <3>4, SMTT(40)
    <3>5. Flow(r)'
      BY <1>4, <2>1, <3>3, <3>4 DEF Flow, Erred, Sent, threadVars
    <3>6. QED BY <1>4, <2>1, <3>5 DEF Removed, Fresh, Sent, machineVars, threadVars
  <2>4. QED BY <2>2, <2>3
<1>8. QED BY <1>6, <1>7 DEF IInv

\* A step of one thread leaves the other runs alone.
LEMMA OtherRuns ==
    ASSUME IInv, NEW q \in Run, PathKept, UNCHANGED <<machineVars, sent>>,
           NEW r \in Run, q # r,
           UNCHANGED <<thread[q], buf[q], fifo[q], captured[q], done[q], seen_data[q]>>
    PROVE  Flow(q)' /\ Removed(q)' /\ Fresh(q)'
<1>1. Flow(q) /\ Removed(q) /\ Fresh(q) /\ q # None
  BY SMTT(40) DEF IInv, Run, None
<1>2. Flow(q)'
  BY <1>1, FlowFrame
<1>3. Removed(q)'
  BY <1>1 DEF Removed, PathKept, Sent, machineVars
<1>4. QED BY <1>1, <1>2, <1>3 DEF Fresh, machineVars

\* A step of the thread of r that keeps its data, and goes to t.
Quiet(r, t) ==
    /\ thread[r] # "none" /\ t \notin {"none", "write"}
    /\ thread' = [thread EXCEPT ![r] = t]
    /\ PathKept
    /\ idle_since' \in [Run -> {"none", "counting", "expired"}]
    /\ UNCHANGED <<machineVars, dataVars, buf, seen_data, captured>>
    /\ done' \in [Run -> Seq(Message)]
    /\ \A q \in Run : q # r => done'[q] = done[q]
    /\ Erred(r) => Erred(r)'
    /\ t \in {"remove", "send"} => thread[r] \in {"check", "read", "remove"}
    /\ t \in {"check", "read"} => thread[r] \in {"check", "read"}

\* Such a step keeps the invariant.
LEMMA QuietStep ==
    ASSUME IInv, NEW r \in Run, NEW t \in Place, Quiet(r, t), Removed(r)'
    PROVE  IInv'
<1> USE DEF Quiet
<1>1. TypeInv /\ Flow(r) /\ Fresh(r)
  BY DEF IInv
<1>2. TypeInv'
  BY <1>1 DEF TypeInv, PathKept, machineVars, dataVars
<1>3. thread'[r] = t
  BY <1>1 DEF TypeInv
<1>4. Flow(r)'
  BY <1>1, <1>3 DEF Flow, dataVars
<1>5. Fresh(r)'
  BY <1>1 DEF Fresh, machineVars
<1>6. ASSUME NEW q \in Run, q # r PROVE Flow(q)' /\ Removed(q)' /\ Fresh(q)'
  <2>1. thread'[q] = thread[q]
    BY <1>1, <1>6 DEF TypeInv
  <2>2. QED BY <1>6, <2>1, OtherRuns DEF dataVars
<1>7. QED BY <1>2, <1>4, <1>5, <1>6 DEF IInv

\* The steps of capture_fifo_to_file_with_channel that move no chunk.
LEMMA ControlStep ==
    ASSUME IInv, NEW r \in Run,
           CheckExit(r) \/ ReadNothing(r) \/ ReadFails(r) \/ RemoveFifo(r) \/ SendDone(r)
    PROVE  IInv'
<1>1. TypeInv /\ Flow(r) /\ Removed(r)
  BY DEF IInv
<1>2. CASE CheckExit(r) \/ ReadNothing(r) \/ ReadFails(r)
  <2>a. PICK t \in Place : t = thread'[r]
    BY <1>1, <1>2 DEF CheckExit, ReadNothing, ReadFails, LoopEnd, TypeInv, Place, Failed
  <2>1. /\ thread' = [thread EXCEPT ![r] = t]
        /\ thread[r] \in {"check", "read"} /\ t \in {"check", "read", "remove", "send_err"}
        /\ UNCHANGED <<machineVars, path, unremoved, dataVars, buf, seen_data, captured, done>>
    BY <1>1, <1>2, <2>a DEF CheckExit, ReadNothing, ReadFails, LoopEnd, TypeInv, pathVars
  <2>2. idle_since' \in [Run -> {"none", "counting", "expired"}]
    BY <1>1, <1>2 DEF CheckExit, ReadNothing, ReadFails, IdleStart, TypeInv
  <2>3. ~Erred(r)
    BY <2>1 DEF Erred
  <2>4. Removed(r)'
    BY <1>1, <2>1, <2>a DEF Removed, Sent, machineVars
  <2>5. Quiet(r, t)
    <3>1. done' \in [Run -> Seq(Message)] /\ \A q \in Run : q # r => done'[q] = done[q]
      BY <1>1, <2>1 DEF TypeInv
    <3>2. /\ thread[r] # "none" /\ t \notin {"none", "write"}
          /\ t \in {"remove", "send"} => thread[r] \in {"check", "read", "remove"}
          /\ t \in {"check", "read"} => thread[r] \in {"check", "read"}
      BY <2>1
    <3>3. PathKept
      BY <2>1 DEF PathKept
    <3>4. QED BY <2>1, <2>2, <2>3, <3>1, <3>2, <3>3 DEF Quiet
  <2>6. QED BY <2>4, <2>5, QuietStep
<1>3. CASE RemoveFifo(r)
  <2>a. PICK t \in Place : t = thread'[r]
    BY <1>1, <1>3 DEF RemoveFifo, TypeInv, Place, Failed
  <2>1. /\ thread' = [thread EXCEPT ![r] = t] /\ PathKept
        /\ path' = r => "thread" \in unremoved'
        /\ \/ thread[r] = "remove" /\ t = "send"
           \/ thread[r] = "remove_err" /\ t = "ended"
        /\ UNCHANGED <<machineVars, dataVars, buf, seen_data, captured, done, idle_since>>
    <3>1. r # None
      BY SMTT(40) DEF Run, None
    <3>2. PathKept /\ (path' = r => "thread" \in unremoved')
      BY <1>3, <3>1 DEF RemoveFifo, RemoveFile, PathKept
    <3>3. QED BY <1>1, <1>3, <2>a, <3>2 DEF RemoveFifo, TypeInv
  <2>2. Erred(r) => Erred(r)'
    BY <2>1, <2>a DEF Erred, Sent
  <2>3. Removed(r)'
    <3>1. r # None /\ Sent(r)' = Sent(r)
      BY <2>1, SMTT(40) DEF Run, None, Sent
    <3>2. QED BY <1>1, <2>1, <2>a, <3>1 DEF Removed, PathKept, machineVars
  <2>4. Quiet(r, t)
    BY <1>1, <2>1, <2>2 DEF TypeInv, Quiet
  <2>5. QED BY <2>3, <2>4, QuietStep
<1>4. CASE SendDone(r)
  <2> DEFINE msg == IF thread[r] = "send" THEN "ok" ELSE "err"
  <2>a. PICK t \in Place : t = thread'[r]
    BY <1>1, <1>4 DEF SendDone, TypeInv, Place, Failed
  <2>1. /\ thread' = [thread EXCEPT ![r] = t] /\ path' = path /\ unremoved' = unremoved
        /\ \/ thread[r] = "send" /\ t = "ended" /\ msg = "ok"
           \/ thread[r] = "send_err" /\ t = "remove_err" /\ msg = "err"
        /\ UNCHANGED <<machineVars, dataVars, buf, seen_data, captured, idle_since>>
    BY <1>1, <1>4, <2>a DEF SendDone, TypeInv, pathVars
  <2>2. done[r] \in Seq(Message) /\ msg \in Message
    BY <1>1 DEF TypeInv, Message
  <2>3. PICK d \in Seq(Message) :
           d = Append(done[r], msg) /\ done' = [done EXCEPT ![r] = d]
    <3>1. Append(done[r], msg) \in Seq(Message)
      BY <2>2, AppendProperties
    <3>2. done' = [done EXCEPT ![r] = Append(done[r], msg)]
      BY <1>1, <1>4 DEF SendDone, TypeInv
    <3>3. QED BY Zenon, <3>1, <3>2
  <2>4. Sent(r)' = Sent(r) \cup {msg}
    <3>1. done'[r] = d
      BY <1>1, <2>3 DEF TypeInv
    <3>2. QED BY <2>2, <2>3, <3>1, RangeAppend, SMTT(40) DEF Sent
  <2>5. Erred(r) => Erred(r)'
    BY <2>1, <2>4, <2>a DEF Erred
  <2>6. Removed(r)'
    BY <1>1, <2>1, <2>4, <2>a DEF Removed, machineVars
  <2>7. done' \in [Run -> Seq(Message)] /\ \A q \in Run : q # r => done'[q] = done[q]
    BY <1>1, <2>3 DEF TypeInv
  <2> HIDE DEF msg
  <2>8. Quiet(r, t)
    <3>1. /\ thread[r] # "none" /\ t \notin {"none", "write"}
          /\ t \in {"remove", "send"} => thread[r] \in {"check", "read", "remove"}
          /\ t \in {"check", "read"} => thread[r] \in {"check", "read"}
      BY <2>1
    <3>2. PathKept /\ idle_since' \in [Run -> {"none", "counting", "expired"}]
      BY <1>1, <2>1 DEF TypeInv, PathKept
    <3>3. QED BY <2>1, <2>5, <2>7, <3>1, <3>2 DEF Quiet
  <2>9. QED BY <2>6, <2>8, QuietStep
<1>5. QED BY <1>2, <1>3, <1>4

\* A step of the thread of r that moves chunks, to the place t.
Moves(r, t, c, b, f) ==
    /\ thread[r] \in {"read", "write"}
    /\ thread' = [thread EXCEPT ![r] = t]
    /\ captured' = [captured EXCEPT ![r] = c]
    /\ buf' = [buf EXCEPT ![r] = b]
    /\ fifo' = [fifo EXCEPT ![r] = f]
    /\ seen_data' \in [Run -> BOOLEAN] /\ \A q \in Run : q # r => seen_data'[q] = seen_data[q]
    /\ idle_since' \in [Run -> {"none", "counting", "expired"}]
    /\ UNCHANGED <<machineVars, path, unremoved, sent, done>>

\* Such a step keeps the invariant when the chunks are where they belong.
LEMMA MoveStep ==
    ASSUME IInv, NEW r \in Run, NEW t \in {"check", "write", "send_err"},
           NEW c \in Seq(Nat), NEW b \in Seq(Nat), NEW f \in Seq(Nat), Moves(r, t, c, b, f),
           \/ Ordered(c, b, f, sent[r])
           \/ t = "send_err" /\ Len(c) <= sent[r] /\ Behind(c, 0),
           t = "check" => b = <<>> /\ c # <<>>,
           t = "write" => b # <<>>
    PROVE  IInv'
<1>1. TypeInv /\ Flow(r) /\ Removed(r) /\ Fresh(r)
  BY DEF IInv
<1>2. t \in Place
  BY DEF Place, Failed
<1>3. TypeInv'
  <2>1. thread' \in [Run -> Place]
    BY <1>1, <1>2 DEF TypeInv, Moves
  <2>2. captured' \in [Run -> Seq(Nat)] /\ buf' \in [Run -> Seq(Nat)] /\ fifo' \in [Run -> Seq(Nat)]
    BY <1>1 DEF TypeInv, Moves
  <2>3. QED BY <1>1, <2>1, <2>2 DEF TypeInv, Moves, machineVars
<1>4. /\ thread'[r] = t /\ captured'[r] = c /\ buf'[r] = b /\ fifo'[r] = f
      /\ sent'[r] = sent[r] /\ done'[r] = done[r]
  BY <1>1 DEF TypeInv, Moves
<1>5. Flow(r)'
  <2>1. t = "send_err" => Erred(r)'
    BY <1>4 DEF Erred
  <2>2. \/ Ordered(captured'[r], buf'[r], fifo'[r], sent'[r])
        \/ Erred(r)' /\ Len(captured'[r]) <= sent'[r] /\ Behind(captured'[r], 0)
    BY <1>4, <2>1
  <2>3. /\ t \in {"none", "check", "read", "remove", "send"} => b = <<>>
        /\ t \in {"check", "read"} => c # <<>>
    OBVIOUS
  <2>4. QED BY <1>4, <2>2, <2>3 DEF Flow
<1>6. Removed(r)'
  <2>1. Sent(r)' = Sent(r) /\ path' = path /\ t # "send"
    BY <1>4 DEF Sent, Moves
  <2>2. UNCHANGED <<run, machine, unremoved>>
    BY DEF Moves, machineVars
  <2>3. QED BY <1>1, <1>4, <2>1, <2>2 DEF Removed
<1>7. Fresh(r)'
  <2>1. thread[r] # "none" /\ run' = run /\ machine' = machine
    BY DEF Moves, machineVars
  <2>2. QED BY <1>1, <2>1 DEF Fresh
<1>8. ASSUME NEW q \in Run, q # r PROVE Flow(q)' /\ Removed(q)' /\ Fresh(q)'
  <2>1. UNCHANGED <<thread[q], buf[q], fifo[q], captured[q], done[q], seen_data[q]>>
    BY <1>1, <1>8 DEF TypeInv, Moves
  <2>2. PathKept /\ UNCHANGED <<machineVars, sent>>
    BY DEF Moves, PathKept
  <2>3. QED BY <1>8, <2>1, <2>2, OtherRuns
<1>9. QED BY <1>3, <1>5, <1>6, <1>7, <1>8 DEF IInv

\* read() takes chunks out of the FIFO.
LEMMA ReadStep ==
    ASSUME IInv, NEW r \in Run, ReadData(r)
    PROVE  IInv'
<1>1. TypeInv /\ Flow(r)
  BY DEF IInv
<1>2. PICK c \in Seq(Nat) : c = captured[r]
  BY <1>1 DEF TypeInv
<1>3. PICK f \in Seq(Nat) : f = fifo[r]
  BY <1>1 DEF TypeInv
<1>4. PICK m \in Nat : m = sent[r]
  BY <1>1 DEF TypeInv
<1>5. Ordered(c, <<>>, f, m) /\ f # <<>>
  BY <1>1, <1>2, <1>3, <1>4 DEF ReadData, Flow, Erred
<1> DEFINE n == IF Len(f) < ReadSize THEN Len(f) ELSE ReadSize
<1>6. n \in 0..Len(f) /\ n # 0
  BY <1>5, BoundsAssumption, SMTT(40)
<1>7. /\ buf' = [buf EXCEPT ![r] = SubSeq(f, 1, n)]
      /\ fifo' = [fifo EXCEPT ![r] = SubSeq(f, n + 1, Len(f))]
  BY <1>1, <1>3 DEF ReadData, TypeInv
<1> HIDE DEF n
<1>8. Behind(f, Len(c)) /\ Len(c) + Len(f) = m /\ Behind(c, 0)
  <2>1. Len(<<>>) = 0 /\ Len(c) \in Nat
    BY SMTT(40)
  <2>2. QED BY <1>5, <2>1, SMTT(40) DEF Ordered
<1>9. /\ SubSeq(f, 1, n) \in Seq(Nat) /\ SubSeq(f, n + 1, Len(f)) \in Seq(Nat)
      /\ Len(SubSeq(f, 1, n)) = n /\ Len(SubSeq(f, n + 1, Len(f))) = Len(f) - n
      /\ Behind(SubSeq(f, 1, n), Len(c)) /\ Behind(SubSeq(f, n + 1, Len(f)), Len(c) + n)
  BY <1>6, <1>8, Split, SMTT(40)
<1>10. PICK b \in Seq(Nat) : b = SubSeq(f, 1, n)
  BY <1>9
<1>11. PICK g \in Seq(Nat) : g = SubSeq(f, n + 1, Len(f))
  BY <1>9
<1>12. Ordered(c, b, g, m)
  <2>1. Len(b) = n /\ Len(g) = Len(f) - n /\ Behind(b, Len(c)) /\ Behind(g, Len(c) + n)
    BY <1>9, <1>10, <1>11
  <2>2. Len(c) + Len(b) + Len(g) = m
    <3>1. PICK i \in Nat : i = Len(c)
      BY SMTT(40)
    <3>2. PICK j \in Nat : j = Len(f)
      BY SMTT(40)
    <3>3. n \in Nat /\ i + j = m
      BY <1>6, <1>8, <3>1, <3>2, SMTT(40)
    <3>4. i + n + (j - n) = m
      BY <3>3, SMTT(40)
    <3>5. QED BY <2>1, <3>1, <3>2, <3>4
  <2>3. QED BY <1>8, <2>1, <2>2 DEF Ordered
<1>13. b # <<>>
  <2>1. Len(b) = n
    BY <1>9, <1>10
  <2>2. QED BY <1>6, <2>1, SMTT(40)
<1>14. Moves(r, "write", c, b, g)
  <2>1. captured' = [captured EXCEPT ![r] = c]
    BY <1>1, <1>2 DEF ReadData, TypeInv
  <2>2. seen_data' \in [Run -> BOOLEAN] /\ \A q \in Run : q # r => seen_data'[q] = seen_data[q]
    BY <1>1 DEF ReadData, TypeInv
  <2>3. idle_since' \in [Run -> {"none", "counting", "expired"}]
    BY <1>1 DEF ReadData, TypeInv
  <2>4. /\ thread[r] \in {"read", "write"} /\ thread' = [thread EXCEPT ![r] = "write"]
        /\ UNCHANGED <<machineVars, path, unremoved, sent, done>>
    BY DEF ReadData, pathVars
  <2>5. QED BY <1>7, <1>10, <1>11, <2>1, <2>2, <2>3, <2>4 DEF Moves
<1>15. QED BY <1>4, <1>12, <1>13, <1>14, MoveStep

\* write_all() hands the buffer to the writer, or fails on the way.
LEMMA HandStep ==
    ASSUME IInv, NEW r \in Run, WriteData(r) \/ WriteFails(r)
    PROVE  IInv'
<1>1. TypeInv /\ Flow(r)
  BY DEF IInv
<1>2. PICK c \in Seq(Nat) : c = captured[r]
  BY <1>1 DEF TypeInv
<1>3. PICK b \in Seq(Nat) : b = buf[r]
  BY <1>1 DEF TypeInv
<1>4. PICK f \in Seq(Nat) : f = fifo[r]
  BY <1>1 DEF TypeInv
<1>5. PICK m \in Nat : m = sent[r]
  BY <1>1 DEF TypeInv
<1>6. Ordered(c, b, f, m) /\ b # <<>>
  <2>1. thread[r] = "write"
    BY DEF WriteData, WriteFails
  <2>2. ~Erred(r)
    BY <2>1 DEF Erred
  <2>3. QED BY <1>1, <1>2, <1>3, <1>4, <1>5, <2>1, <2>2 DEF Flow
<1>7. /\ Len(c) \in Nat /\ Len(b) \in Nat \ {0} /\ Len(f) \in Nat
      /\ Len(c) + Len(b) + Len(f) = m
      /\ Behind(c, 0) /\ Behind(b, 0 + Len(c)) /\ Behind(f, Len(c) + Len(b))
  BY <1>6, SMTT(40) DEF Ordered
<1>8. /\ thread[r] \in {"read", "write"} /\ fifo' = [fifo EXCEPT ![r] = f]
      /\ seen_data' \in [Run -> BOOLEAN] /\ \A q \in Run : q # r => seen_data'[q] = seen_data[q]
      /\ idle_since' \in [Run -> {"none", "counting", "expired"}]
      /\ UNCHANGED <<machineVars, path, unremoved, sent, done>>
  BY <1>1, <1>4 DEF WriteData, WriteFails, TypeInv, dataVars, pathVars
<1>9. CASE WriteData(r)
  <2>1. c \o b \in Seq(Nat) /\ Len(c \o b) = Len(c) + Len(b) /\ Behind(c \o b, 0)
    BY <1>7, Join
  <2>2. PICK d \in Seq(Nat) : d = c \o b
    BY <2>1
  <2>3. Len(d) = Len(c) + Len(b) /\ Behind(d, 0)
    BY <2>1, <2>2
  <2>4. /\ thread' = [thread EXCEPT ![r] = "check"]
        /\ captured' = [captured EXCEPT ![r] = d]
        /\ buf' = [buf EXCEPT ![r] = <<>>]
    BY <1>1, <1>2, <1>3, <1>9, <2>2 DEF WriteData, WriteAll, TypeInv
  <2>5. PICK e \in Seq(Nat) : e = <<>>
    <3>1. <<>> \in Seq(Nat)
      BY SMTT(40)
    <3>2. QED BY <3>1
  <2>6. Ordered(d, e, f, sent[r]) /\ d # <<>>
    BY <1>5, <1>7, <2>3, <2>5, SMTT(40) DEF Ordered, Behind
  <2>7. Moves(r, "check", d, e, f)
    BY <1>8, <2>4, <2>5 DEF Moves
  <2>8. "check" \in {"check", "write", "send_err"} /\ "check" # "write"
    OBVIOUS
  <2>9. QED BY <2>5, <2>6, <2>7, <2>8, MoveStep
<1>10. CASE WriteFails(r)
  <2>1. PICK n \in 0..(Len(b) - 1) : captured' = [captured EXCEPT ![r] = c \o SubSeq(b, 1, n)]
    <3>1. PICK n \in 0..(Len(buf[r]) - 1) :
             captured' = [captured EXCEPT ![r] = captured[r] \o SubSeq(buf[r], 1, n)]
      BY <1>10 DEF WriteFails
    <3>2. QED BY <1>2, <1>3, <3>1
  <2>2. n \in 0..Len(b)
    BY <1>7, <2>1, SMTT(40)
  <2>3. SubSeq(b, 1, n) \in Seq(Nat) /\ Len(SubSeq(b, 1, n)) = n /\ Behind(SubSeq(b, 1, n), 0 + Len(c))
    BY <1>7, <2>2, Split, SMTT(40)
  <2>4. PICK a \in Seq(Nat) : a = SubSeq(b, 1, n)
    BY <2>3
  <2>5. Len(a) = n /\ Behind(a, 0 + Len(c))
    BY <2>3, <2>4
  <2>6. c \o a \in Seq(Nat) /\ Len(c \o a) = Len(c) + Len(a) /\ Behind(c \o a, 0)
    <3>1. 0 \in Nat /\ Behind(c, 0) /\ Behind(a, 0 + Len(c))
      BY <1>7, <2>5
    <3>2. QED BY <3>1, Join
  <2>7. PICK d \in Seq(Nat) : d = c \o a
    BY <2>6
  <2>8. Len(d) = Len(c) + n /\ Behind(d, 0)
    BY <2>5, <2>6, <2>7
  <2>9. /\ thread' = [thread EXCEPT ![r] = "send_err"]
        /\ captured' = [captured EXCEPT ![r] = d]
        /\ buf' = [buf EXCEPT ![r] = b]
    <3>1. buf' = [buf EXCEPT ![r] = b]
      BY <1>1, <1>3, <1>10 DEF WriteFails, TypeInv
    <3>2. captured' = [captured EXCEPT ![r] = d]
      BY <2>1, <2>4, <2>7
    <3>3. QED BY <1>10, <3>1, <3>2 DEF WriteFails
  <2>10. Len(d) <= m
    BY <1>7, <2>2, <2>8, SMTT(40)
  <2>11. Moves(r, "send_err", d, b, f)
    BY <1>8, <2>9 DEF Moves
  <2>12. /\ "send_err" \in {"check", "write", "send_err"}
         /\ "send_err" # "write" /\ "send_err" # "check"
    OBVIOUS
  <2>13. QED BY <1>5, <2>8, <2>10, <2>11, <2>12, MoveStep
<1>11. QED BY <1>9, <1>10

\* The 100 ms are over.
LEMMA ElapseStep ==
    ASSUME IInv, NEW r \in Run, Elapse(r)
    PROVE  IInv'
<1>1. TypeInv
  BY DEF IInv
<1>2. TypeInv'
  BY <1>1 DEF Elapse, TypeInv, machineVars, dataVars, pathVars
<1>3. ASSUME NEW q \in Run PROVE Flow(q)' /\ Removed(q)' /\ Fresh(q)'
  BY DEF IInv, Elapse, machineVars, dataVars, pathVars, Flow, Erred, Sent, Removed, Fresh
<1>4. QED BY <1>2, <1>3 DEF IInv

\* The invariant holds in every reachable state: the actions that move no
\* output, those that move it, and time.
THEOREM Invariance == Spec => []IInv
<1>1. Init => IInv
  BY InitInv
<1>2. IInv /\ [Next]_vars => IInv'
  <2> SUFFICES ASSUME IInv, [Next]_vars PROVE IInv'
    OBVIOUS
  <2>1. CASE \/ StartVmm \/ CreateLogFiles \/ SetupLogging \/ AbortStart \/ AbortEarly
             \/ Finalize \/ DoCleanup \/ SignalExit \/ VmmExit
    BY <2>1, MachineStep
  <2>2. CASE VmmWrites
    BY <2>2, WriteStep
  <2>3. ASSUME NEW r \in Run, ThreadStep(r) \/ Elapse(r) PROVE IInv'
    BY <2>3, ControlStep, ReadStep, HandStep, ElapseStep DEF ThreadStep
  <2>4. CASE UNCHANGED vars
    BY <2>4, SMTT(40) DEF IInv, TypeInv, vars, machineVars, dataVars, threadVars, pathVars, Flow,
       Erred, Sent, Removed, Fresh
  <2>5. QED BY <2>1, <2>2, <2>3, <2>4 DEF Next
<1>3. QED BY <1>1, <1>2, PTL DEF Spec

\* What the three parts of the output hold together.
LEMMA OrderedIsChunks ==
    ASSUME NEW c \in Seq(Nat), NEW b \in Seq(Nat), NEW f \in Seq(Nat), NEW n \in Nat,
           Ordered(c, b, f, n)
    PROVE  c \o b \o f = Chunks(n)
<1>1. /\ 0 \in Nat /\ Behind(c, 0) /\ Behind(b, 0 + Len(c)) /\ Behind(f, Len(c) + Len(b))
      /\ Len(c) + Len(b) + Len(f) = n
  BY SMTT(40) DEF Ordered
<1>2. c \o b \in Seq(Nat) /\ Len(c \o b) = Len(c) + Len(b) /\ Behind(c \o b, 0)
  BY <1>1, Join
<1>3. PICK d \in Seq(Nat) : d = c \o b
  BY <1>2
<1>4. Len(d) = Len(c) + Len(b) /\ Behind(d, 0)
  BY <1>2, <1>3
<1>5. Behind(f, 0 + Len(d))
  BY <1>1, <1>4, SMTT(40)
<1>6. d \o f \in Seq(Nat) /\ Len(d \o f) = Len(d) + Len(f) /\ Behind(d \o f, 0)
  BY <1>1, <1>4, <1>5, Join
<1>7. Len(d) + Len(f) = n
  BY <1>1, <1>4
<1>8. QED BY <1>3, <1>6, <1>7, ChunksOf

\* capture_fifo_to_file copies what the VMM wrote, in order: nothing is lost,
\* doubled or reordered for any number of runs on the same path and any size
\* of the buffer, and an error leaves the writer with a prefix.
THEOREM CapturesInOrder == Spec => []OutputInOrder
<1>1. IInv => OutputInOrder
  <2> SUFFICES ASSUME IInv, NEW r \in Run
               PROVE  \/ captured[r] \o buf[r] \o fifo[r] = Chunks(sent[r])
                      \/ /\ "err" \in Sent(r) \/ thread[r] \in Failed
                         /\ \E n \in 0..sent[r] : captured[r] = Chunks(n)
    BY DEF OutputInOrder, Sent
  <2>1. TypeInv /\ Flow(r)
    BY DEF IInv
  <2>2. /\ captured[r] \in Seq(Nat) /\ buf[r] \in Seq(Nat) /\ fifo[r] \in Seq(Nat)
        /\ sent[r] \in Nat
    BY <2>1 DEF TypeInv
  <2>3. CASE Ordered(captured[r], buf[r], fifo[r], sent[r])
    BY <2>2, <2>3, OrderedIsChunks
  <2>4. CASE Erred(r) /\ Len(captured[r]) <= sent[r] /\ Behind(captured[r], 0)
    <3>1. captured[r] = Chunks(Len(captured[r]))
      BY <2>2, <2>4, ChunksOf
    <3>2. Len(captured[r]) \in 0..sent[r]
      BY <2>2, <2>4, SMTT(40)
    <3>3. "err" \in Sent(r) \/ thread[r] \in Failed
      BY <2>4 DEF Erred, Failed
    <3>4. QED BY <3>1, <3>2, <3>3
  <2>5. QED BY <2>1, <2>3, <2>4 DEF Flow
<1>2. QED BY <1>1, Invariance, PTL

\* The capture thread and do_cleanup each remove the FIFO of their run, whatever
\* the other runs do at the path: it stays only where their remove_file failed.
THEOREM FifoRemoved == Spec => []FifoStaysByFailure
<1>1. IInv => FifoStaysByFailure
  BY DEF IInv, Removed, Sent, FifoStaysByFailure
<1>2. QED BY <1>1, Invariance, PTL

\* The loop ends without an error only for exit_event or when output has
\* reached the writer: silence before the first data never ends it.
THEOREM SilenceBeforeDataIsNoEnd == Spec => WaitsForFirstData
<1>1. IInv /\ [Next]_vars =>
        [\A r \in Run : thread[r] \in Loop /\ thread'[r] \notin Loop \cup Failed =>
                            exit_event \/ captured[r] # <<>>]_vars
  <2> SUFFICES ASSUME IInv, Next, NEW r \in Run, thread[r] \in Loop,
                      thread'[r] \notin Loop \cup Failed, ~exit_event
               PROVE  captured[r] # <<>>
    OBVIOUS
  <2>1. TypeInv /\ Flow(r) /\ thread[r] # "none"
    BY DEF IInv, Loop
  <2>2. CASE CreateLogFiles
    <3>1. run \in Run /\ Fresh(run)
      BY <2>1, <2>2 DEF IInv, TypeInv, Run, CreateLogFiles
    <3>2. thread[run] = "none"
      BY <2>2, <3>1 DEF Fresh, CreateLogFiles, Run
    <3>3. thread'[r] = thread[r]
      BY <2>1, <2>2, <3>2 DEF TypeInv, CreateLogFiles
    <3>4. QED BY <3>3
  <2>3. CASE \/ StartVmm \/ SetupLogging \/ AbortStart \/ AbortEarly \/ Finalize
             \/ DoCleanup \/ SignalExit \/ VmmWrites \/ VmmExit \/ \E q \in Run : Elapse(q)
    <3>1. thread' = thread
      BY <2>3 DEF StartVmm, SetupLogging, AbortStart, AbortEarly, Finalize,
         DoCleanup, SignalExit, VmmWrites, VmmExit, Elapse, threadVars
    <3>2. QED BY <3>1
  <2>4. ASSUME NEW q \in Run, ThreadStep(q) PROVE captured[r] # <<>>
    <3>1. PICK t : thread' = [thread EXCEPT ![q] = t]
      BY <2>4 DEF ThreadStep, CheckExit, ReadData, ReadNothing, ReadFails,
         WriteData, WriteFails, RemoveFifo, SendDone
    <3>2. q = r
      BY <2>1, <3>1 DEF TypeInv
    <3>3. ~(CheckExit(r) \/ ReadData(r) \/ WriteData(r))
      BY <2>1 DEF CheckExit, ReadData, WriteData, TypeInv, Loop
    <3>4. ~(ReadFails(r) \/ WriteFails(r) \/ RemoveFifo(r) \/ SendDone(r))
      BY <2>1 DEF ReadFails, WriteFails, RemoveFifo, SendDone, TypeInv, Loop, Failed
    <3>5. ReadNothing(r)
      BY <2>4, <3>2, <3>3, <3>4 DEF ThreadStep
    <3>6. GivesUp(r)
      BY <2>1, <3>5 DEF ReadNothing, TypeInv, Loop
    <3>7. seen_data[r] /\ thread[r] = "read"
      BY <3>5, <3>6 DEF ReadNothing, GivesUp
    <3>8. thread[r] \in {"check", "read"}
      BY <3>7
    <3>9. QED BY <2>1, <3>7, <3>8 DEF Flow
  <2>5. QED BY <2>2, <2>3, <2>4 DEF Next
<1>2. QED BY <1>1, Invariance, PTL DEF Spec, WaitsForFirstData
=============================================================================
