----------------------- MODULE SignalForwardProofs --------------------------
(***************************************************************************)
(* Theorems about SignalForward for any number of runs, signals,           *)
(* activations of the handler and descriptors, and any size of the pipe.   *)
(***************************************************************************)
EXTENDS SignalForward, TLAPS, FiniteSetTheorems, SequenceTheorems

\* Leaves go to Zenon unless they name another prover.
USE ZenonT(40)

-----------------------------------------------------------------------------
(* The inductive invariant                                                 *)

\* The mutex is held exactly by the run that is inside register_inner,
\* unregister_inner or take_shutdown_if_idle.
LockInv == \A m \in Machine : (pc[m] \in Locked) <=> (lock = m)

\* applied grows along the list that was requested, is the whole list while
\* the run is registered, and is empty outside of register and unregister.
ListInv ==
    \A m \in Machine :
        /\ Len(applied[m]) <= Len(request[m])
        /\ \A i \in 1..Len(applied[m]) : applied[m][i] = request[m][i]
        /\ pc[m] = "held" => applied[m] = request[m]
        /\ pc[m] \in {"new", "ensure", "done", "failed"} \cup ShuttingDown =>
              applied[m] = <<>>
        /\ m \in registrations <=> pc[m] = "held"

\* What the manager's two maps and the kernel's table say of each signal.
RefInv ==
    /\ \A s \in Signal \cup Refused :
          IsFiniteSet(Held(s)) /\ RefCount(s) = Cardinality(Held(s))
    /\ \A s \in Signal :
          /\ s \in DOMAIN signal_refs <=> s \in DOMAIN old_handlers
          /\ s \in DOMAIN old_handlers <=> disposition[s] = "forward"
          /\ s \in DOMAIN old_handlers => signal_refs[s] > 0 /\ old_handlers[s] = "original"

\* The current worker: its descriptor is the published one and open, nobody
\* has sent it the zero byte, and without a worker nobody holds a signal.
WorkerInv ==
    /\ worker # None =>
          /\ write_fd \in Fd /\ pipe_write_fd = write_fd
          /\ fdOwner[write_fd] = worker
          /\ thread[worker] = "running"
          /\ \A i \in 1..Len(pipe[worker]) : pipe[worker][i] # Sentinel
          /\ \A i \in 1..Len(buffer[worker]) : buffer[worker][i] # Sentinel
    /\ worker = None =>
          /\ ~poisoned => pipe_write_fd = None
          /\ \A m \in Machine : applied[m] = <<>> /\ pc[m] \notin {"apply", "held"}
    /\ poisoned => worker = None /\ lock = None

\* A run creates its worker, if at all, in its only call of register.
CreatedInv ==
    \A g \in Machine :
        /\ pc[g] \in {"new", "ensure"} => thread[g] = "none"
        /\ thread[g] = "none" => pipe[g] = <<>> /\ buffer[g] = <<>>

\* Open descriptors belong to workers that were created.
OpenInv == \A f \in Fd : fdOwner[f] # None => thread[fdOwner[f]] # "none"

\* What a caller of shutdown() took is no longer the manager's, and its
\* descriptor is open until it is dropped.
TakenInv ==
    \A m \in Machine : pc[m] \in ShuttingDown =>
        /\ taken[m] \in [write_fd : Fd, worker : Machine, result : {"done", "failed"}]
        /\ taken[m].worker # worker
        /\ thread[taken[m].worker] # "none"
        /\ pc[m] # "join" => fdOwner[taken[m].write_fd] = taken[m].worker

\* Two callers of shutdown() never have the same worker.
TakenOnce ==
    \A m, n \in Machine :
        pc[m] \in ShuttingDown /\ pc[n] \in ShuttingDown /\ n # m =>
            taken[n].worker # taken[m].worker

\* Between calls a worker is left only while there is something in the
\* manager's maps.
BusyInv == (lock = None /\ worker # None) => (registrations # {} \/ DOMAIN signal_refs # {})

\* An activation of the handler keeps its argument and what it loaded.
HandlerInv ==
    \A h \in Handler :
        /\ hpc[h] # "idle" => hsig[h] \in Signal
        /\ hpc[h] = "loaded" => hfd[h] \in Fd

\* The inductive invariant.
IInv ==
    /\ TypeOK
    /\ LockInv
    /\ ListInv
    /\ RefInv
    /\ WorkerInv
    /\ CreatedInv
    /\ OpenInv
    /\ TakenInv
    /\ TakenOnce
    /\ NoOrphanWorker
    /\ BusyInv
    /\ HandlerInv

\* What the facts about threads and taken workers depend on.
ThreadInv == CreatedInv /\ OpenInv /\ TakenInv /\ TakenOnce /\ NoOrphanWorker

-----------------------------------------------------------------------------
(* Facts about sequences                                                   *)

\* What release_signals and the worker's read() leave of a sequence.
LEMMA SubSeqFacts ==
    ASSUME NEW S, NEW q \in Seq(S), NEW a \in 1..(Len(q) + 1), NEW b \in 0..Len(q)
    PROVE  /\ SubSeq(q, a, b) \in Seq(S)
           /\ Len(SubSeq(q, a, b)) = IF a <= b THEN b - a + 1 ELSE 0
           /\ \A i \in 1..(b - a + 1) : SubSeq(q, a, b)[i] = q[a + i - 1]
<1>1. \A i \in a..b : q[i] \in S
  BY SMTT(40)
<1>2. a \in Int /\ b \in Int
  BY SMTT(40)
<1>3. QED
  BY <1>1, <1>2, SubSeqProperties, SMTT(40)

\* What is left of a list without its last element, and that element.
LEMMA FrontFacts ==
    ASSUME NEW S, NEW q \in Seq(S), q # <<>>
    PROVE  /\ Len(q) \in Nat \ {0}
           /\ SubSeq(q, 1, Len(q) - 1) \in Seq(S)
           /\ Len(SubSeq(q, 1, Len(q) - 1)) = Len(q) - 1
           /\ \A i \in 1..(Len(q) - 1) : SubSeq(q, 1, Len(q) - 1)[i] = q[i]
<1>1. Len(q) \in Nat \ {0} /\ Len(q) - 1 \in 0..Len(q) /\ 1 \in 1..(Len(q) + 1)
  BY SMTT(40)
<1> DEFINE b == Len(q) - 1
<1>2. /\ SubSeq(q, 1, b) \in Seq(S)
      /\ Len(SubSeq(q, 1, b)) = IF 1 <= b THEN b - 1 + 1 ELSE 0
      /\ \A i \in 1..(b - 1 + 1) : SubSeq(q, 1, b)[i] = q[1 + i - 1]
  <2> HIDE DEF b
  <2>1. b \in 0..Len(q)
    BY <1>1 DEF b
  <2>2. QED BY <1>1, <2>1, SubSeqFacts, SMTT(40)
<1>3. \A i \in 1..b : i \in 1..(b - 1 + 1) /\ 1 + i - 1 = i
  BY <1>1, SMTT(40)
<1> DEFINE t == SubSeq(q, 1, b)
<1>4. /\ t \in Seq(S)
      /\ Len(t) = IF 1 <= b THEN b - 1 + 1 ELSE 0
      /\ \A i \in 1..(b - 1 + 1) : t[i] = q[1 + i - 1]
  BY <1>2, Zenon
<1> HIDE DEF t
<1>5. Len(t) = b
  <2>1. b \in Nat
    BY <1>1, SMTT(40)
  <2> HIDE DEF b
  <2>2. b - 1 + 1 = b /\ (~(1 <= b) => b = 0)
    BY <2>1, SMTT(40)
  <2>3. QED BY <1>4, <2>2
<1>6. \A i \in 1..b : t[i] = q[i]
  BY <1>3, <1>4
<1>7. QED
  BY <1>1, <1>4, <1>5, <1>6 DEF t

\* The lists a run passes to register are sequences.
LEMMA RequestType ==
    TypeOK => request \in [Machine -> Seq(Signal \cup Refused \cup Invalid)]
<1> DEFINE S == Seq(Signal \cup Refused \cup Invalid)
<1>1. <<>> \in S
  BY SMTT(40)
<1>2. Requests \subseteq S
  BY RequestsAssumption, Zenon
<1>3. TypeOK => request \in [Machine -> Requests \cup {<<>>}]
  BY DEF TypeOK
<1> HIDE DEF S
<1>4. TypeOK => request \in [Machine -> S]
  BY <1>1, <1>2, <1>3
<1>5. QED
  BY <1>4 DEF S

-----------------------------------------------------------------------------
(* Types, the mutex, the lists of signals and the reference counts         *)

\* No step leaves the types.
LEMMA TypePreserved == IInv /\ [Next]_vars => TypeOK'
<1> SUFFICES ASSUME IInv, [Next]_vars PROVE TypeOK'
  OBVIOUS
<1> USE DEF managerVars, callerVars, workerVars, handlerVars, kernelVars, Goto
<1> USE SignalsAssumption, RequestsAssumption, NoneAssumption, SizesAssumption
    DEF IInv, TypeOK, Locked, ShuttingDown, Settled
<1>1. ASSUME NEW m \in Machine, NEW signals \in Requests, RegisterLock(m, signals) PROVE TypeOK'
  BY <1>1 DEF RegisterLock
<1>2. ASSUME NEW m \in Machine, RegisterPoisoned(m) PROVE TypeOK'
  BY <1>2 DEF RegisterPoisoned
<1>3. ASSUME NEW m \in Machine, EnsureWorkerPresent(m) PROVE TypeOK'
  BY <1>3 DEF EnsureWorkerPresent
<1>4. ASSUME NEW m \in Machine, NEW f \in Fd, EnsureWorkerSpawn(m, f) PROVE TypeOK'
  BY <1>4 DEF EnsureWorkerSpawn
<1>5. ASSUME NEW m \in Machine, EnsureWorkerPipeFails(m) PROVE TypeOK'
  BY <1>5 DEF EnsureWorkerPipeFails
<1>6. ASSUME NEW m \in Machine, NEW f \in Fd, EnsureWorkerSpawnPanics(m, f) PROVE TypeOK'
  BY <1>6 DEF EnsureWorkerSpawnPanics
<1>7. ASSUME NEW m \in Machine, ApplySignal(m) PROVE TypeOK'
  <2> DEFINE s == NextSignal(m)
  <2>1. s \in Signal /\ RefCount(s) + 1 \in Nat
    BY <1>7, SMTT(40) DEF ApplySignal, RefCount
  <2>2. /\ signal_refs' \in [DOMAIN signal_refs' -> Nat]
        /\ DOMAIN signal_refs' \subseteq Signal \cup Refused
    BY <2>1, <1>7 DEF ApplySignal, Insert
  <2>3. /\ old_handlers' \in [DOMAIN old_handlers' -> {"original", "forward"}]
        /\ DOMAIN old_handlers' \subseteq Signal
        /\ disposition' \in [Signal -> {"original", "forward"}]
    <3>1. CASE RefCount(s) = 0
      <4>1. /\ old_handlers' = Insert(old_handlers, s, disposition[s])
            /\ disposition' = [disposition EXCEPT ![s] = "forward"]
        BY <3>1, <1>7 DEF ApplySignal
      <4>2. QED BY <2>1, <4>1 DEF Insert
    <3>2. CASE RefCount(s) # 0
      BY <3>2, <1>7 DEF ApplySignal
    <3>3. QED BY <3>1, <3>2
  <2>4. applied' \in [Machine -> Seq(Signal)]
    BY <2>1, <1>7, SMTT(40) DEF ApplySignal
  <2>5. QED
    BY <2>2, <2>3, <2>4, <1>7 DEF ApplySignal
<1>8. ASSUME NEW m \in Machine, RejectSignal(m) PROVE TypeOK'
  <2> DEFINE s == NextSignal(m)
  <2>1. RefCount(s) \in Nat
    BY DEF RefCount
  <2>2. /\ signal_refs' \in [DOMAIN signal_refs' -> Nat]
        /\ DOMAIN signal_refs' \subseteq Signal \cup Refused
    BY <2>1, <1>8 DEF RejectSignal, Insert, LeavesEntry
  <2>3. QED
    BY <2>2, <1>8 DEF RejectSignal
<1>9. ASSUME NEW m \in Machine, RegisterCommit(m) PROVE TypeOK'
  BY <1>9 DEF RegisterCommit
<1>10. ASSUME NEW m \in Machine, UnregisterLock(m) PROVE TypeOK'
  BY <1>10 DEF UnregisterLock, ListInv
<1>11. ASSUME NEW m \in Machine, ReleaseSignal(m) PROVE TypeOK'
  <2> DEFINE n == Len(applied[m])
             s == applied[m][n]
  <2>1. n \in Nat \ {0} /\ s \in Signal
    BY <1>11, SMTT(40) DEF ReleaseSignal
  <2>2. SubSeq(applied[m], 1, n - 1) \in Seq(Signal)
    BY <2>1, SMTT(40)
  <2>3. applied' \in [Machine -> Seq(Signal)]
    BY <2>2, <1>11 DEF ReleaseSignal
  <2>4. s \in DOMAIN signal_refs => signal_refs[s] \in Nat
    OBVIOUS
  <2>5. /\ signal_refs' \in [DOMAIN signal_refs' -> Nat]
        /\ DOMAIN signal_refs' \subseteq Signal \cup Refused
    <3>1. CASE s \notin DOMAIN signal_refs
      BY <3>1, <1>11 DEF ReleaseSignal, Shared
    <3>2. CASE s \in DOMAIN signal_refs /\ signal_refs[s] > 1
      <4>1. signal_refs' = [signal_refs EXCEPT ![s] = @ - 1]
        BY <3>2, <1>11 DEF ReleaseSignal, Shared
      <4>2. signal_refs[s] - 1 \in Nat
        BY <2>4, <3>2, SMTT(40)
      <4>3. QED BY <4>1, <4>2
    <3>3. CASE s \in DOMAIN signal_refs /\ ~(signal_refs[s] > 1)
      BY <3>3, <1>11, SMTT(40) DEF ReleaseSignal, Shared, Remove
    <3>4. QED BY <3>1, <3>2, <3>3
  <2>6. /\ old_handlers' \in [DOMAIN old_handlers' -> {"original", "forward"}]
        /\ DOMAIN old_handlers' \subseteq Signal
        /\ disposition' \in [Signal -> {"original", "forward"}]
    <3>1. CASE UNCHANGED <<old_handlers, disposition>>
      BY <3>1
    <3>2. CASE /\ old_handlers' = Remove(old_handlers, s)
               /\ disposition' = IF s \in DOMAIN old_handlers
                                 THEN [disposition EXCEPT ![s] = old_handlers[s]]
                                 ELSE disposition
      <4>1. /\ old_handlers' \in [DOMAIN old_handlers' -> {"original", "forward"}]
            /\ DOMAIN old_handlers' \subseteq Signal
        BY <3>2, SMTT(40) DEF Remove
      <4>2. disposition' \in [Signal -> {"original", "forward"}]
        BY <2>1, <3>2, SMTT(40)
      <4>3. QED BY <4>1, <4>2
    <3>3. QED
      BY <3>1, <3>2, <1>11 DEF ReleaseSignal
  <2>7. QED
    BY <2>3, <2>5, <2>6, <1>11 DEF ReleaseSignal
<1>12. ASSUME NEW m \in Machine, ReleaseStay(m) PROVE TypeOK'
  BY <1>12 DEF ReleaseStay, Returned
<1>13. ASSUME NEW m \in Machine, ReleaseTake(m) PROVE TypeOK'
  <2>1. [write_fd |-> write_fd, worker |-> worker, result |-> Returned(m)]
          \in [write_fd : Fd, worker : Machine, result : {"done", "failed"}]
    BY <1>13 DEF ReleaseTake, TakeShutdown, Returned, WorkerInv
  <2>2. QED
    BY <2>1, <1>13 DEF ReleaseTake, TakeShutdown
<1>14. ASSUME NEW m \in Machine, WriteSentinel(m) PROVE TypeOK'
  <2>1. taken[m].worker \in Machine
    BY <1>14 DEF WriteSentinel, TakenInv
  <2>2. Append(pipe[taken[m].worker], Sentinel) \in Seq(Signal \cup {Sentinel})
    BY <2>1, SMTT(40)
  <2>3. QED
    BY <2>1, <2>2, <1>14 DEF WriteSentinel
<1>15. ASSUME NEW m \in Machine, DropWriteFd(m) PROVE TypeOK'
  BY <1>15 DEF DropWriteFd
<1>16. ASSUME NEW m \in Machine, JoinWorker(m) PROVE TypeOK'
  <2>1. taken[m].result \in {"done", "failed"}
    BY <1>16 DEF JoinWorker, TakenInv
  <2>2. QED
    BY <2>1, <1>16 DEF JoinWorker
<1>17. ASSUME NEW g \in Machine, WorkerRead(g) PROVE TypeOK'
  <2> DEFINE q == pipe[g]
             n == IF Len(q) < ReadSize THEN Len(q) ELSE ReadSize
  <2>1. q \in Seq(Signal \cup {Sentinel}) /\ n \in 0..Len(q)
    BY SMTT(40)
  <2>2. /\ SubSeq(q, 1, n) \in Seq(Signal \cup {Sentinel})
        /\ SubSeq(q, n + 1, Len(q)) \in Seq(Signal \cup {Sentinel})
    BY <2>1, SMTT(40)
  <2>3. QED
    BY <2>2, <1>17 DEF WorkerRead
<1>18. ASSUME NEW g \in Machine, WorkerExit(g) PROVE TypeOK'
  BY <1>18, SMTT(40) DEF WorkerExit
<1>19. ASSUME NEW g \in Machine, DispatchCollect(g) PROVE TypeOK'
  <2>1. Head(buffer[g]) \in Signal /\ Tail(buffer[g]) \in Seq(Signal \cup {Sentinel})
    BY <1>19, SMTT(40) DEF DispatchCollect
  <2>2. Targets(Head(buffer[g])) \in SUBSET Machine
    BY DEF Targets
  <2>3. QED
    BY <2>1, <2>2, <1>19 DEF DispatchCollect
<1>20. ASSUME NEW g \in Machine, NEW m \in Machine, DispatchKill(g, m) PROVE TypeOK'
  BY <1>20 DEF DispatchKill
<1>21. ASSUME NEW h \in Handler, NEW s \in Signal, HandlerEnter(h, s) PROVE TypeOK'
  BY <1>21 DEF HandlerEnter
<1>22. ASSUME NEW h \in Handler, HandlerLoad(h) PROVE TypeOK'
  <2>1. CASE pipe_write_fd = None
    BY <2>1, <1>22 DEF HandlerLoad, HandlerReturn
  <2>2. CASE pipe_write_fd # None
    <3>1. /\ hfd' = [hfd EXCEPT ![h] = pipe_write_fd]
          /\ hpc' = [hpc EXCEPT ![h] = "loaded"]
      BY <2>2, <1>22 DEF HandlerLoad
    <3>2. hfd' \in [Handler -> Fd \cup {None}] /\ hpc' \in [Handler -> {"idle", "entered", "loaded"}]
      BY <3>1
    <3>3. QED BY <2>2, <3>2, <1>22 DEF HandlerLoad
  <2>3. QED BY <2>1, <2>2
<1>23. ASSUME NEW h \in Handler, HandlerWrite(h) PROVE TypeOK'
  <2>1. pipe' \in [Machine -> Seq(Signal \cup {Sentinel})]
    <3>1. hsig[h] \in Signal /\ hfd[h] \in Fd
      BY <1>23 DEF HandlerWrite, HandlerInv
    <3>2. ~NoReader(hfd[h]) => fdOwner[hfd[h]] \in Machine
      BY <3>1 DEF NoReader
    <3>3. CASE NoReader(hfd[h])
      BY <3>3, <1>23 DEF HandlerWrite
    <3>4. CASE ~NoReader(hfd[h])
      <4>1. Append(pipe[fdOwner[hfd[h]]], hsig[h]) \in Seq(Signal \cup {Sentinel})
        BY <3>1, <3>2, <3>4, SMTT(40)
      <4>2. pipe' = [pipe EXCEPT ![fdOwner[hfd[h]]] = Append(@, hsig[h])]
        BY <3>4, <1>23 DEF HandlerWrite
      <4>3. QED BY <3>2, <3>4, <4>1, <4>2
    <3>5. QED BY <3>3, <3>4
  <2>2. QED
    BY <2>1, <1>23 DEF HandlerWrite, HandlerReturn
<1>24. ASSUME UNCHANGED vars PROVE TypeOK'
  BY <1>24 DEF vars
<1>25. QED
  BY <1>1, <1>2, <1>3, <1>4, <1>5, <1>6, <1>7, <1>8, <1>9, <1>10, <1>11,
     <1>12, <1>13, <1>14, <1>15, <1>16, <1>17, <1>18, <1>19, <1>20, <1>21,
     <1>22, <1>23, <1>24 DEF Next, CallerStep, WorkerStep, Finished

\* The mutex is handed over correctly by every step.
LEMMA LockPreserved == IInv /\ [Next]_vars => LockInv'
<1> SUFFICES ASSUME IInv, [Next]_vars PROVE LockInv'
  OBVIOUS
<1>a. /\ LockInv /\ lock \in Machine \cup {None}
      /\ pc \in [Machine -> Locked \cup ShuttingDown \cup Settled]
  BY DEF IInv, TypeOK
<1> USE <1>a, NoneAssumption DEF LockInv, Locked, ShuttingDown, Settled
<1> USE DEF managerVars, callerVars, workerVars, handlerVars, kernelVars, Goto
<1>1. ASSUME NEW m \in Machine, NEW signals \in Requests, RegisterLock(m, signals) PROVE LockInv'
  BY <1>1 DEF RegisterLock
<1>2. ASSUME NEW m \in Machine, RegisterPoisoned(m) PROVE LockInv'
  BY <1>2 DEF RegisterPoisoned
<1>3. ASSUME NEW m \in Machine, EnsureWorkerPresent(m) PROVE LockInv'
  BY <1>3 DEF EnsureWorkerPresent
<1>4. ASSUME NEW m \in Machine, NEW f \in Fd, EnsureWorkerSpawn(m, f) PROVE LockInv'
  BY <1>4 DEF EnsureWorkerSpawn
<1>5. ASSUME NEW m \in Machine, EnsureWorkerPipeFails(m) PROVE LockInv'
  BY <1>5 DEF EnsureWorkerPipeFails
<1>6. ASSUME NEW m \in Machine, NEW f \in Fd, EnsureWorkerSpawnPanics(m, f) PROVE LockInv'
  BY <1>6 DEF EnsureWorkerSpawnPanics
<1>7. ASSUME NEW m \in Machine, ApplySignal(m) PROVE LockInv'
  BY <1>7 DEF ApplySignal
<1>8. ASSUME NEW m \in Machine, RejectSignal(m) PROVE LockInv'
  BY <1>8 DEF RejectSignal
<1>9. ASSUME NEW m \in Machine, RegisterCommit(m) PROVE LockInv'
  BY <1>9 DEF RegisterCommit
<1>10. ASSUME NEW m \in Machine, UnregisterLock(m) PROVE LockInv'
  BY <1>10 DEF UnregisterLock
<1>11. ASSUME NEW m \in Machine, ReleaseSignal(m) PROVE LockInv'
  BY <1>11 DEF ReleaseSignal
<1>12. ASSUME NEW m \in Machine, ReleaseStay(m) PROVE LockInv'
  BY <1>12 DEF ReleaseStay, Releasing, Returned
<1>13. ASSUME NEW m \in Machine, ReleaseTake(m) PROVE LockInv'
  BY <1>13 DEF ReleaseTake, TakeShutdown, Releasing
<1>14. ASSUME NEW m \in Machine, WriteSentinel(m) PROVE LockInv'
  BY <1>14 DEF WriteSentinel
<1>15. ASSUME NEW m \in Machine, DropWriteFd(m) PROVE LockInv'
  BY <1>15 DEF DropWriteFd
<1>16. ASSUME NEW m \in Machine, JoinWorker(m) PROVE LockInv'
  <2>1. taken[m].result \in {"done", "failed"}
    BY <1>16 DEF JoinWorker, IInv, TakenInv
  <2>2. QED BY <2>1, <1>16 DEF JoinWorker
<1>17. ASSUME NEW g \in Machine, WorkerRead(g) PROVE LockInv'
  BY <1>17 DEF WorkerRead
<1>18. ASSUME NEW g \in Machine, WorkerExit(g) PROVE LockInv'
  BY <1>18 DEF WorkerExit
<1>19. ASSUME NEW g \in Machine, DispatchCollect(g) PROVE LockInv'
  BY <1>19 DEF DispatchCollect
<1>20. ASSUME NEW g \in Machine, NEW m \in Machine, DispatchKill(g, m) PROVE LockInv'
  BY <1>20 DEF DispatchKill
<1>21. ASSUME NEW h \in Handler, NEW s \in Signal, HandlerEnter(h, s) PROVE LockInv'
  BY <1>21 DEF HandlerEnter
<1>22. ASSUME NEW h \in Handler, HandlerLoad(h) PROVE LockInv'
  BY <1>22 DEF HandlerLoad
<1>23. ASSUME NEW h \in Handler, HandlerWrite(h) PROVE LockInv'
  BY <1>23 DEF HandlerWrite
<1>24. ASSUME UNCHANGED vars PROVE LockInv'
  BY <1>24 DEF vars
<1>25. QED
  BY <1>1, <1>2, <1>3, <1>4, <1>5, <1>6, <1>7, <1>8, <1>9, <1>10, <1>11,
     <1>12, <1>13, <1>14, <1>15, <1>16, <1>17, <1>18, <1>19, <1>20, <1>21,
     <1>22, <1>23, <1>24 DEF Next, CallerStep, WorkerStep, Finished

\* Activations of the handler keep their argument and what they loaded.
LEMMA HandlerPreserved == IInv /\ [Next]_vars => HandlerInv'
<1> SUFFICES ASSUME IInv, [Next]_vars PROVE HandlerInv'
  OBVIOUS
<1>a. /\ HandlerInv /\ pipe_write_fd \in Fd \cup {None}
      /\ hpc \in [Handler -> {"idle", "entered", "loaded"}]
      /\ hsig \in [Handler -> Signal \cup {None}] /\ hfd \in [Handler -> Fd \cup {None}]
  BY DEF IInv, TypeOK
<1> USE <1>a DEF HandlerInv
<1> USE DEF managerVars, callerVars, workerVars, handlerVars, kernelVars, Goto
<1>1. ASSUME NEW m \in Machine, NEW signals \in Requests, RegisterLock(m, signals) PROVE HandlerInv'
  BY <1>1 DEF RegisterLock
<1>2. ASSUME NEW m \in Machine, RegisterPoisoned(m) PROVE HandlerInv'
  BY <1>2 DEF RegisterPoisoned
<1>3. ASSUME NEW m \in Machine, EnsureWorkerPresent(m) PROVE HandlerInv'
  BY <1>3 DEF EnsureWorkerPresent
<1>4. ASSUME NEW m \in Machine, NEW f \in Fd, EnsureWorkerSpawn(m, f) PROVE HandlerInv'
  BY <1>4 DEF EnsureWorkerSpawn
<1>5. ASSUME NEW m \in Machine, EnsureWorkerPipeFails(m) PROVE HandlerInv'
  BY <1>5 DEF EnsureWorkerPipeFails
<1>6. ASSUME NEW m \in Machine, NEW f \in Fd, EnsureWorkerSpawnPanics(m, f) PROVE HandlerInv'
  BY <1>6 DEF EnsureWorkerSpawnPanics
<1>7. ASSUME NEW m \in Machine, ApplySignal(m) PROVE HandlerInv'
  BY <1>7 DEF ApplySignal
<1>8. ASSUME NEW m \in Machine, RejectSignal(m) PROVE HandlerInv'
  BY <1>8 DEF RejectSignal
<1>9. ASSUME NEW m \in Machine, RegisterCommit(m) PROVE HandlerInv'
  BY <1>9 DEF RegisterCommit
<1>10. ASSUME NEW m \in Machine, UnregisterLock(m) PROVE HandlerInv'
  BY <1>10 DEF UnregisterLock
<1>11. ASSUME NEW m \in Machine, ReleaseSignal(m) PROVE HandlerInv'
  BY <1>11 DEF ReleaseSignal
<1>12. ASSUME NEW m \in Machine, ReleaseStay(m) PROVE HandlerInv'
  BY <1>12 DEF ReleaseStay
<1>13. ASSUME NEW m \in Machine, ReleaseTake(m) PROVE HandlerInv'
  BY <1>13 DEF ReleaseTake, TakeShutdown
<1>14. ASSUME NEW m \in Machine, WriteSentinel(m) PROVE HandlerInv'
  BY <1>14 DEF WriteSentinel
<1>15. ASSUME NEW m \in Machine, DropWriteFd(m) PROVE HandlerInv'
  BY <1>15 DEF DropWriteFd
<1>16. ASSUME NEW m \in Machine, JoinWorker(m) PROVE HandlerInv'
  BY <1>16 DEF JoinWorker
<1>17. ASSUME NEW g \in Machine, WorkerRead(g) PROVE HandlerInv'
  BY <1>17 DEF WorkerRead
<1>18. ASSUME NEW g \in Machine, WorkerExit(g) PROVE HandlerInv'
  BY <1>18 DEF WorkerExit
<1>19. ASSUME NEW g \in Machine, DispatchCollect(g) PROVE HandlerInv'
  BY <1>19 DEF DispatchCollect
<1>20. ASSUME NEW g \in Machine, NEW m \in Machine, DispatchKill(g, m) PROVE HandlerInv'
  BY <1>20 DEF DispatchKill
<1>21. ASSUME NEW h \in Handler, NEW s \in Signal, HandlerEnter(h, s) PROVE HandlerInv'
  BY <1>21 DEF HandlerEnter
<1>22. ASSUME NEW h \in Handler, HandlerLoad(h) PROVE HandlerInv'
  BY <1>22, SMTT(40) DEF HandlerLoad, HandlerReturn
<1>23. ASSUME NEW h \in Handler, HandlerWrite(h) PROVE HandlerInv'
  BY <1>23 DEF HandlerWrite, HandlerReturn
<1>24. ASSUME UNCHANGED vars PROVE HandlerInv'
  BY <1>24 DEF vars
<1>25. QED
  BY <1>1, <1>2, <1>3, <1>4, <1>5, <1>6, <1>7, <1>8, <1>9, <1>10, <1>11,
     <1>12, <1>13, <1>14, <1>15, <1>16, <1>17, <1>18, <1>19, <1>20, <1>21,
     <1>22, <1>23, <1>24 DEF Next, CallerStep, WorkerStep, Finished

\* Every step keeps applied along the requested list.
LEMMA ListPreserved == IInv /\ [Next]_vars => ListInv'
<1> SUFFICES ASSUME IInv, [Next]_vars PROVE ListInv'
  OBVIOUS
<1>a. /\ ListInv /\ LockInv /\ lock \in Machine \cup {None} /\ registrations \in SUBSET Machine
      /\ pc \in [Machine -> Locked \cup ShuttingDown \cup Settled]
      /\ applied \in [Machine -> Seq(Signal)]
      /\ request \in [Machine -> Seq(Signal \cup Refused \cup Invalid)]
  BY RequestType DEF IInv, TypeOK
<1> USE <1>a DEF ListInv, Locked, ShuttingDown, Settled
<1> USE DEF managerVars, callerVars, workerVars, handlerVars, kernelVars, Goto
<1>1. ASSUME NEW m \in Machine, NEW signals \in Requests, RegisterLock(m, signals) PROVE ListInv'
  BY <1>1, RequestsAssumption, SMTT(40) DEF RegisterLock
<1>2. ASSUME NEW m \in Machine, RegisterPoisoned(m) PROVE ListInv'
  BY <1>2 DEF RegisterPoisoned
<1>3. ASSUME NEW m \in Machine, EnsureWorkerPresent(m) PROVE ListInv'
  BY <1>3 DEF EnsureWorkerPresent
<1>4. ASSUME NEW m \in Machine, NEW f \in Fd, EnsureWorkerSpawn(m, f) PROVE ListInv'
  BY <1>4 DEF EnsureWorkerSpawn
<1>5. ASSUME NEW m \in Machine, EnsureWorkerPipeFails(m) PROVE ListInv'
  BY <1>5 DEF EnsureWorkerPipeFails
<1>6. ASSUME NEW m \in Machine, NEW f \in Fd, EnsureWorkerSpawnPanics(m, f) PROVE ListInv'
  BY <1>6 DEF EnsureWorkerSpawnPanics
<1>7. ASSUME NEW m \in Machine, ApplySignal(m) PROVE ListInv'
  <2> DEFINE s == NextSignal(m)
  <2>1. /\ applied' = [applied EXCEPT ![m] = Append(@, s)] /\ s \in Signal
        /\ Len(applied[m]) < Len(request[m]) /\ s = request[m][Len(applied[m]) + 1]
    BY <1>7 DEF ApplySignal, NextSignal
  <2>2. /\ Len(applied'[m]) = Len(applied[m]) + 1
        /\ \A i \in 1..Len(applied[m]) : applied'[m][i] = applied[m][i]
        /\ applied'[m][Len(applied[m]) + 1] = s
    BY <2>1, SMTT(40)
  <2>3. \A n \in Machine : n # m => applied'[n] = applied[n]
    BY <2>1
  <2>4. QED BY <2>1, <2>2, <2>3, <1>7, SMTT(40) DEF ApplySignal
<1>8. ASSUME NEW m \in Machine, RejectSignal(m) PROVE ListInv'
  BY <1>8 DEF RejectSignal
<1>9. ASSUME NEW m \in Machine, RegisterCommit(m) PROVE ListInv'
  <2> DEFINE S == Signal \cup Refused \cup Invalid
  <2>1. applied[m] \in Seq(S) /\ request[m] \in Seq(S)
    BY SMTT(40)
  <2>2. Len(applied[m]) = Len(request[m])
    BY <1>9 DEF RegisterCommit
  <2>3. applied[m] = request[m]
    BY <2>1, <2>2, SeqEqual, SMTT(40)
  <2>4. QED BY <2>3, <1>9 DEF RegisterCommit
<1>10. ASSUME NEW m \in Machine, UnregisterLock(m) PROVE ListInv'
  BY <1>10 DEF UnregisterLock
<1>11. ASSUME NEW m \in Machine, ReleaseSignal(m) PROVE ListInv'
  <2> DEFINE k == Len(applied[m])
  <2>1. /\ applied' = [applied EXCEPT ![m] = SubSeq(@, 1, k - 1)] /\ k \in Nat \ {0}
        /\ pc[m] \in {"release", "release_failed"}
    BY <1>11, SMTT(40) DEF ReleaseSignal, Releasing
  <2>2. /\ Len(applied'[m]) = k - 1
        /\ \A i \in 1..(k - 1) : applied'[m][i] = applied[m][i]
    <3>1. applied'[m] = SubSeq(applied[m], 1, k - 1)
      BY <2>1
    <3>2. applied[m] \in Seq(Signal) /\ applied[m] # <<>>
      BY <1>11 DEF ReleaseSignal
    <3>3. QED BY <3>1, <3>2, FrontFacts, SMTT(40)
  <2>3. \A n \in Machine : n # m => applied'[n] = applied[n]
    BY <2>1
  <2>4. QED BY <2>1, <2>2, <2>3, <1>11, SMTT(40) DEF ReleaseSignal
<1>12. ASSUME NEW m \in Machine, ReleaseStay(m) PROVE ListInv'
  BY <1>12 DEF ReleaseStay, Releasing, Returned
<1>13. ASSUME NEW m \in Machine, ReleaseTake(m) PROVE ListInv'
  BY <1>13 DEF ReleaseTake, TakeShutdown, Releasing
<1>14. ASSUME NEW m \in Machine, WriteSentinel(m) PROVE ListInv'
  BY <1>14 DEF WriteSentinel
<1>15. ASSUME NEW m \in Machine, DropWriteFd(m) PROVE ListInv'
  BY <1>15 DEF DropWriteFd
<1>16. ASSUME NEW m \in Machine, JoinWorker(m) PROVE ListInv'
  <2>1. taken[m].result \in {"done", "failed"}
    BY <1>16 DEF JoinWorker, IInv, TakenInv
  <2>2. QED BY <2>1, <1>16 DEF JoinWorker
<1>17. ASSUME NEW g \in Machine, WorkerRead(g) PROVE ListInv'
  BY <1>17 DEF WorkerRead
<1>18. ASSUME NEW g \in Machine, WorkerExit(g) PROVE ListInv'
  BY <1>18 DEF WorkerExit
<1>19. ASSUME NEW g \in Machine, DispatchCollect(g) PROVE ListInv'
  BY <1>19 DEF DispatchCollect
<1>20. ASSUME NEW g \in Machine, NEW m \in Machine, DispatchKill(g, m) PROVE ListInv'
  BY <1>20 DEF DispatchKill
<1>21. ASSUME NEW h \in Handler, NEW s \in Signal, HandlerEnter(h, s) PROVE ListInv'
  BY <1>21 DEF HandlerEnter
<1>22. ASSUME NEW h \in Handler, HandlerLoad(h) PROVE ListInv'
  BY <1>22 DEF HandlerLoad
<1>23. ASSUME NEW h \in Handler, HandlerWrite(h) PROVE ListInv'
  BY <1>23 DEF HandlerWrite
<1>24. ASSUME UNCHANGED vars PROVE ListInv'
  BY <1>24 DEF vars
<1>25. QED
  BY <1>1, <1>2, <1>3, <1>4, <1>5, <1>6, <1>7, <1>8, <1>9, <1>10, <1>11,
     <1>12, <1>13, <1>14, <1>15, <1>16, <1>17, <1>18, <1>19, <1>20, <1>21,
     <1>22, <1>23, <1>24 DEF Next, CallerStep, WorkerStep, Finished

\* The references to s, element by element.
LEMMA HeldMember ==
    ASSUME NEW s
    PROVE  \A x : x \in Held(s) <=>
              \E m \in Machine : \E i \in DOMAIN applied[m] : applied[m][i] = s /\ x = <<m, i>>
BY SMT DEF Held

\* The same in the next state.
LEMMA HeldMemberNext ==
    ASSUME NEW s
    PROVE  \A x : x \in Held(s)' <=>
              \E m \in Machine : \E i \in DOMAIN applied'[m] : applied'[m][i] = s /\ x = <<m, i>>
BY SMT DEF Held

\* register_inner takes one more reference.
LEMMA HeldAppend ==
    ASSUME TypeOK, NEW m \in Machine, NEW s \in Signal,
           applied' = [applied EXCEPT ![m] = Append(@, s)]
    PROVE  /\ <<m, Len(applied[m]) + 1>> \notin Held(s)
           /\ Held(s)' = Held(s) \cup {<<m, Len(applied[m]) + 1>>}
           /\ \A x \in (Signal \cup Refused) \ {s} : Held(x)' = Held(x)
<1> DEFINE k == Len(applied[m])
<1>1. /\ k \in Nat
      /\ \A n \in Machine : DOMAIN applied[n] = 1..Len(applied[n]) /\ Len(applied[n]) \in Nat
      /\ \A n \in Machine : n # m => applied'[n] = applied[n]
      /\ DOMAIN applied'[m] = 1..(k + 1)
      /\ \A i \in 1..k : applied'[m][i] = applied[m][i]
      /\ applied'[m][k + 1] = s
  BY SMTT(40) DEF TypeOK
<1>2. <<m, k + 1>> \notin Held(s)
  BY <1>1, HeldMember, SMTT(40)
<1>3. 1..(k + 1) = 1..k \cup {k + 1}
  BY <1>1, SMTT(40)
<1> HIDE DEF k
<1>4. Held(s)' = Held(s) \cup {<<m, k + 1>>}
  <2>1. \A y : y \in Held(s)' => y \in Held(s) \cup {<<m, k + 1>>}
    BY <1>1, <1>3, HeldMember, HeldMemberNext, SMTT(20) DEF k
  <2>2. \A y : y \in Held(s) => y \in Held(s)'
    BY <1>1, <1>3, HeldMember, HeldMemberNext, SMTT(20) DEF k
  <2>3. <<m, k + 1>> \in Held(s)'
    BY <1>1, <1>3, HeldMemberNext, SMTT(20)
  <2>4. QED BY <2>1, <2>2, <2>3
<1>5. ASSUME NEW x \in (Signal \cup Refused) \ {s} PROVE Held(x)' = Held(x)
  <2>1. \A y : y \in Held(x)' => y \in Held(x)
    BY <1>1, <1>3, HeldMember, HeldMemberNext, SMTT(20) DEF k
  <2>2. \A y : y \in Held(x) => y \in Held(x)'
    BY <1>1, <1>3, HeldMember, HeldMemberNext, SMTT(20) DEF k
  <2>3. QED BY <2>1, <2>2
<1>6. QED BY <1>2, <1>4, <1>5, Zenon DEF k

\* release_signals gives the last one back.
LEMMA HeldFront ==
    ASSUME TypeOK, NEW m \in Machine, applied[m] # <<>>,
           applied' = [applied EXCEPT ![m] = SubSeq(@, 1, Len(@) - 1)],
           NEW s \in Signal, s = applied[m][Len(applied[m])]
    PROVE  /\ <<m, Len(applied[m])>> \in Held(s)
           /\ Held(s)' = Held(s) \ {<<m, Len(applied[m])>>}
           /\ \A x \in (Signal \cup Refused) \ {s} : Held(x)' = Held(x)
<1> DEFINE k == Len(applied[m])
<1>1. applied[m] \in Seq(Signal) /\ applied'[m] = SubSeq(applied[m], 1, k - 1)
  BY DEF TypeOK
<1>2. /\ k \in Nat \ {0}
      /\ applied'[m] \in Seq(Signal)
      /\ Len(applied'[m]) = k - 1
      /\ \A i \in 1..(k - 1) : applied'[m][i] = applied[m][i]
  BY <1>1, FrontFacts, SMTT(40)
<1>3. /\ \A n \in Machine : DOMAIN applied[n] = 1..Len(applied[n]) /\ Len(applied[n]) \in Nat
      /\ \A n \in Machine : n # m => applied'[n] = applied[n]
      /\ DOMAIN applied'[m] = 1..(k - 1)
      /\ applied[m][k] = s
  BY <1>2, SMTT(40) DEF TypeOK
<1>4. 1..k = 1..(k - 1) \cup {k} /\ k \notin 1..(k - 1)
  BY <1>2, SMTT(40)
<1> HIDE DEF k
<1>5. <<m, k>> \in Held(s)
  BY <1>3, <1>4, HeldMember DEF k
<1>6. Held(s)' = Held(s) \ {<<m, k>>}
  <2>1. \A y : y \in Held(s)' => y \in Held(s) /\ y # <<m, k>>
    BY <1>2, <1>3, <1>4, HeldMember, HeldMemberNext, SMTT(20) DEF k
  <2>2. \A y : y \in Held(s) /\ y # <<m, k>> => y \in Held(s)'
    BY <1>2, <1>3, <1>4, HeldMember, HeldMemberNext, SMTT(20) DEF k
  <2>3. QED BY <2>1, <2>2
<1>7. ASSUME NEW x \in (Signal \cup Refused) \ {s} PROVE Held(x)' = Held(x)
  <2>1. \A y : y \in Held(x)' => y \in Held(x)
    BY <1>2, <1>3, <1>4, HeldMember, HeldMemberNext, SMTT(20) DEF k
  <2>2. \A y : y \in Held(x) => y \in Held(x)'
    BY <1>2, <1>3, <1>4, HeldMember, HeldMemberNext, SMTT(20) DEF k
  <2>3. QED BY <2>1, <2>2
<1>8. QED BY <1>5, <1>6, <1>7, Zenon DEF k

\* No step, and no error path of register_inner, loses or invents a reference.
LEMMA RefPreserved == IInv /\ [Next]_vars => RefInv'
<1> SUFFICES ASSUME IInv, [Next]_vars PROVE RefInv'
  OBVIOUS
<1>a. TypeOK /\ RefInv /\ ListInv
  BY DEF IInv
<1>b. ASSUME UNCHANGED <<applied, signal_refs, old_handlers, disposition>> PROVE RefInv'
  <2>1. \A s \in Signal \cup Refused : Held(s)' = Held(s)
    BY <1>b, SMTT(40) DEF Held
  <2>2. \A s \in Signal \cup Refused : RefCount(s)' = RefCount(s)
    BY <1>b DEF RefCount
  <2>3. QED BY <1>a, <1>b, <2>1, <2>2 DEF RefInv
<1> USE DEF managerVars, callerVars, workerVars, handlerVars, kernelVars
<1>1. ASSUME NEW m \in Machine, NEW signals \in Requests, RegisterLock(m, signals) PROVE RefInv'
  BY <1>1, <1>b DEF RegisterLock
<1>2. ASSUME NEW m \in Machine, RegisterPoisoned(m) PROVE RefInv'
  BY <1>2, <1>b DEF RegisterPoisoned
<1>3. ASSUME NEW m \in Machine, EnsureWorkerPresent(m) PROVE RefInv'
  BY <1>3, <1>b DEF EnsureWorkerPresent
<1>4. ASSUME NEW m \in Machine, NEW f \in Fd, EnsureWorkerSpawn(m, f) PROVE RefInv'
  BY <1>4, <1>b DEF EnsureWorkerSpawn
<1>5. ASSUME NEW m \in Machine, EnsureWorkerPipeFails(m) PROVE RefInv'
  BY <1>5, <1>b DEF EnsureWorkerPipeFails
<1>6. ASSUME NEW m \in Machine, NEW f \in Fd, EnsureWorkerSpawnPanics(m, f) PROVE RefInv'
  BY <1>6, <1>b DEF EnsureWorkerSpawnPanics
<1>7. ASSUME NEW m \in Machine, ApplySignal(m) PROVE RefInv'
  <2>1. PICK s \in Signal :
        /\ signal_refs' = Insert(signal_refs, s, RefCount(s) + 1)
        /\ IF RefCount(s) = 0
           THEN /\ old_handlers' = Insert(old_handlers, s, disposition[s])
                /\ disposition' = [disposition EXCEPT ![s] = "forward"]
           ELSE UNCHANGED <<old_handlers, disposition>>
        /\ applied' = [applied EXCEPT ![m] = Append(@, s)]
    BY <1>7 DEF ApplySignal
  <2>2. /\ <<m, Len(applied[m]) + 1>> \notin Held(s)
        /\ Held(s)' = Held(s) \cup {<<m, Len(applied[m]) + 1>>}
        /\ \A x \in (Signal \cup Refused) \ {s} : Held(x)' = Held(x)
    BY <1>a, <2>1, HeldAppend
  <2>3. /\ RefCount(s)' = RefCount(s) + 1
        /\ \A x \in (Signal \cup Refused) \ {s} : RefCount(x)' = RefCount(x)
    BY <2>1 DEF RefCount, Insert
  <2>4. /\ IsFiniteSet(Held(s)') /\ RefCount(s)' = Cardinality(Held(s)')
        /\ RefCount(s) \in Nat
    <3>1. IsFiniteSet(Held(s)) /\ RefCount(s) = Cardinality(Held(s))
      BY <1>a, <2>1 DEF RefInv
    <3>2. QED BY <2>2, <2>3, <3>1, FS_AddElement, FS_CardinalityType, SMTT(40)
  <2>5. \A x \in Signal \cup Refused :
           IsFiniteSet(Held(x))' /\ (RefCount(x) = Cardinality(Held(x)))'
    BY <1>a, <2>2, <2>3, <2>4 DEF RefInv
  <2>6. ASSUME NEW x \in Signal
        PROVE  /\ x \in DOMAIN signal_refs' <=> x \in DOMAIN old_handlers'
               /\ x \in DOMAIN old_handlers' <=> disposition'[x] = "forward"
               /\ x \in DOMAIN old_handlers' =>
                     signal_refs'[x] > 0 /\ old_handlers'[x] = "original"
    <3>1. CASE RefCount(s) = 0
      <4>1. s \notin DOMAIN signal_refs /\ s \notin DOMAIN old_handlers
        BY <1>a, <2>1, <3>1, SMTT(40) DEF RefInv, RefCount
      <4>2. disposition[s] = "original"
        BY <1>a, <2>1, <4>1, SMTT(40) DEF RefInv, TypeOK
      <4>3. QED BY <1>a, <2>1, <3>1, <4>1, <4>2, SMTT(40) DEF RefInv, Insert, TypeOK
    <3>2. CASE RefCount(s) # 0
      <4>1. s \in DOMAIN signal_refs
        BY <3>2 DEF RefCount
      <4>2. QED BY <1>a, <2>1, <2>4, <3>2, <4>1, SMTT(40) DEF RefInv, Insert, TypeOK
    <3>3. QED BY <3>1, <3>2
  <2>7. QED BY <2>5, <2>6 DEF RefInv
<1>8. ASSUME NEW m \in Machine, RejectSignal(m) PROVE RefInv'
  <2> DEFINE s == NextSignal(m)
  <2>1. /\ s \notin Signal
        /\ signal_refs' = IF s \in Refused THEN Insert(signal_refs, s, RefCount(s))
                          ELSE signal_refs
        /\ UNCHANGED <<applied, old_handlers, disposition>>
    BY <1>8 DEF RejectSignal, LeavesEntry
  <2> HIDE DEF s
  <2>2. \A x \in Signal \cup Refused : RefCount(x)' = RefCount(x)
    BY <2>1 DEF RefCount, Insert
  <2>3. \A x : Held(x)' = Held(x)
    BY <2>1, SMTT(40) DEF Held
  <2>4. \A x \in Signal : /\ x \in DOMAIN signal_refs' <=> x \in DOMAIN signal_refs
                          /\ x \in DOMAIN signal_refs => signal_refs'[x] = signal_refs[x]
    BY <2>1 DEF Insert
  <2>5. QED BY <1>a, <2>1, <2>2, <2>3, <2>4 DEF RefInv
<1>9. ASSUME NEW m \in Machine, RegisterCommit(m) PROVE RefInv'
  BY <1>9, <1>b DEF RegisterCommit
<1>10. ASSUME NEW m \in Machine, UnregisterLock(m) PROVE RefInv'
  <2>1. applied[m] = request[m] /\ applied' = [applied EXCEPT ![m] = request[m]]
    BY <1>10, <1>a DEF UnregisterLock, ListInv
  <2>2. applied' = applied
    BY <1>a, <2>1 DEF TypeOK
  <2>3. QED BY <2>2, <1>b, <1>10 DEF UnregisterLock
<1>11. ASSUME NEW m \in Machine, ReleaseSignal(m) PROVE RefInv'
  <2>1. PICK s \in Signal :
        /\ applied[m] # <<>> /\ s = applied[m][Len(applied[m])]
        /\ applied' = [applied EXCEPT ![m] = SubSeq(@, 1, Len(@) - 1)]
        /\ IF s \notin DOMAIN signal_refs
           THEN UNCHANGED <<signal_refs, old_handlers, disposition>>
           ELSE IF signal_refs[s] > 1
           THEN /\ signal_refs' = [signal_refs EXCEPT ![s] = @ - 1]
                /\ UNCHANGED <<old_handlers, disposition>>
           ELSE /\ signal_refs' = Remove(signal_refs, s)
                /\ old_handlers' = Remove(old_handlers, s)
                /\ disposition' = IF s \in DOMAIN old_handlers
                                  THEN [disposition EXCEPT ![s] = old_handlers[s]]
                                  ELSE disposition
    <3>1. applied[m] # <<>> /\ applied[m] \in Seq(Signal)
      BY <1>11, <1>a DEF ReleaseSignal, Shared, TypeOK
    <3>2. applied[m][Len(applied[m])] \in Signal
      BY <3>1, SMTT(40)
    <3>3. QED BY <3>2, <1>11 DEF ReleaseSignal, Shared
  <2>3. /\ <<m, Len(applied[m])>> \in Held(s)
        /\ Held(s)' = Held(s) \ {<<m, Len(applied[m])>>}
        /\ \A x \in (Signal \cup Refused) \ {s} : Held(x)' = Held(x)
    BY <1>a, <2>1, HeldFront
  <2>4. IsFiniteSet(Held(s)) /\ RefCount(s) = Cardinality(Held(s))
    BY <1>a, <2>1 DEF RefInv
  <2>5. /\ IsFiniteSet(Held(s)') /\ RefCount(s) - 1 = Cardinality(Held(s)')
        /\ RefCount(s) \in Nat \ {0}
    <3>1. Cardinality(Held(s)) \in Nat /\ Cardinality(Held(s)) # 0
      BY <2>3, <2>4, FS_EmptySet, FS_CardinalityType
    <3>2. QED BY <2>3, <2>4, <3>1, FS_RemoveElement, SMTT(40)
  <2>6. s \in DOMAIN signal_refs /\ signal_refs[s] = RefCount(s)
    BY <2>5 DEF RefCount
  <2>7. s \in DOMAIN old_handlers /\ old_handlers[s] = "original"
    BY <1>a, <2>6 DEF RefInv
  <2>8. CASE RefCount(s) > 1
    <3>1. signal_refs' = [signal_refs EXCEPT ![s] = @ - 1] /\ UNCHANGED <<old_handlers, disposition>>
      BY <2>1, <2>6, <2>8
    <3>2. /\ RefCount(s)' = RefCount(s) - 1
          /\ \A x \in (Signal \cup Refused) \ {s} : RefCount(x)' = RefCount(x)
      BY <1>a, <2>6, <3>1 DEF RefCount, TypeOK
    <3>3. \A x \in Signal \cup Refused :
             IsFiniteSet(Held(x))' /\ (RefCount(x) = Cardinality(Held(x)))'
      BY <1>a, <2>3, <2>5, <3>2 DEF RefInv
    <3>4. ASSUME NEW x \in Signal
          PROVE  /\ x \in DOMAIN signal_refs' <=> x \in DOMAIN signal_refs
                 /\ x \in DOMAIN signal_refs /\ signal_refs[x] > 0 => signal_refs'[x] > 0
      BY <1>a, <2>5, <2>6, <2>8, <3>1, SMTT(40) DEF TypeOK
    <3>5. QED BY <1>a, <3>1, <3>3, <3>4 DEF RefInv
  <2>9. CASE ~(RefCount(s) > 1)
    <3>1. /\ signal_refs' = Remove(signal_refs, s)
          /\ old_handlers' = Remove(old_handlers, s)
          /\ disposition' = [disposition EXCEPT ![s] = "original"]
      BY <2>1, <2>6, <2>7, <2>9
    <3>2. /\ RefCount(s)' = 0 /\ RefCount(s) - 1 = 0
          /\ \A x \in (Signal \cup Refused) \ {s} : RefCount(x)' = RefCount(x)
      BY <2>5, <2>9, <3>1, SMTT(40) DEF RefCount, Remove
    <3>3. \A x \in Signal \cup Refused :
             IsFiniteSet(Held(x))' /\ (RefCount(x) = Cardinality(Held(x)))'
      BY <1>a, <2>3, <2>5, <3>2 DEF RefInv
    <3>4. ASSUME NEW x \in Signal
          PROVE  /\ x \in DOMAIN signal_refs' <=> x \in DOMAIN old_handlers'
                 /\ x \in DOMAIN old_handlers' <=> disposition'[x] = "forward"
                 /\ x \in DOMAIN old_handlers' =>
                       signal_refs'[x] > 0 /\ old_handlers'[x] = "original"
      BY <1>a, <3>1 DEF RefInv, Remove, TypeOK
    <3>5. QED BY <3>3, <3>4 DEF RefInv
  <2>10. QED BY <2>8, <2>9
<1>12. ASSUME NEW m \in Machine, ReleaseStay(m) PROVE RefInv'
  BY <1>12, <1>b DEF ReleaseStay
<1>13. ASSUME NEW m \in Machine, ReleaseTake(m) PROVE RefInv'
  BY <1>13, <1>b DEF ReleaseTake, TakeShutdown
<1>14. ASSUME NEW m \in Machine, WriteSentinel(m) PROVE RefInv'
  BY <1>14, <1>b DEF WriteSentinel
<1>15. ASSUME NEW m \in Machine, DropWriteFd(m) PROVE RefInv'
  BY <1>15, <1>b DEF DropWriteFd
<1>16. ASSUME NEW m \in Machine, JoinWorker(m) PROVE RefInv'
  BY <1>16, <1>b DEF JoinWorker
<1>17. ASSUME NEW g \in Machine, WorkerRead(g) PROVE RefInv'
  BY <1>17, <1>b DEF WorkerRead
<1>18. ASSUME NEW g \in Machine, WorkerExit(g) PROVE RefInv'
  BY <1>18, <1>b DEF WorkerExit
<1>19. ASSUME NEW g \in Machine, DispatchCollect(g) PROVE RefInv'
  BY <1>19, <1>b DEF DispatchCollect
<1>20. ASSUME NEW g \in Machine, NEW m \in Machine, DispatchKill(g, m) PROVE RefInv'
  BY <1>20, <1>b DEF DispatchKill
<1>21. ASSUME NEW h \in Handler, NEW s \in Signal, HandlerEnter(h, s) PROVE RefInv'
  BY <1>21, <1>b DEF HandlerEnter
<1>22. ASSUME NEW h \in Handler, HandlerLoad(h) PROVE RefInv'
  BY <1>22, <1>b DEF HandlerLoad
<1>23. ASSUME NEW h \in Handler, HandlerWrite(h) PROVE RefInv'
  BY <1>23, <1>b DEF HandlerWrite
<1>24. ASSUME UNCHANGED vars PROVE RefInv'
  BY <1>24, <1>b DEF vars
<1>25. QED
  BY <1>1, <1>2, <1>3, <1>4, <1>5, <1>6, <1>7, <1>8, <1>9, <1>10, <1>11,
     <1>12, <1>13, <1>14, <1>15, <1>16, <1>17, <1>18, <1>19, <1>20, <1>21,
     <1>22, <1>23, <1>24 DEF Next, CallerStep, WorkerStep, Finished


-----------------------------------------------------------------------------
(* The worker threads, their pipes and their descriptors                   *)

\* A read takes no zero byte out of a pipe that has none, and leaves none.
LEMMA NoSentinelSubSeq ==
    ASSUME NEW S, NEW q \in Seq(S), NEW n \in 0..Len(q),
           \A i \in 1..Len(q) : q[i] # Sentinel
    PROVE  /\ \A i \in 1..Len(SubSeq(q, 1, n)) : SubSeq(q, 1, n)[i] # Sentinel
           /\ \A i \in 1..Len(SubSeq(q, n + 1, Len(q))) :
                 SubSeq(q, n + 1, Len(q))[i] # Sentinel
<1>1. /\ 1 \in 1..(Len(q) + 1) /\ n + 1 \in 1..(Len(q) + 1)
      /\ Len(q) \in 0..Len(q)
  BY SMTT(40)
<1>2. /\ Len(SubSeq(q, 1, n)) = IF 1 <= n THEN n - 1 + 1 ELSE 0
      /\ \A i \in 1..(n - 1 + 1) : SubSeq(q, 1, n)[i] = q[1 + i - 1]
  BY <1>1, SubSeqFacts
<1>3. /\ Len(SubSeq(q, n + 1, Len(q))) =
            IF n + 1 <= Len(q) THEN Len(q) - (n + 1) + 1 ELSE 0
      /\ \A i \in 1..(Len(q) - (n + 1) + 1) :
            SubSeq(q, n + 1, Len(q))[i] = q[n + 1 + i - 1]
  BY <1>1, SubSeqFacts
<1> DEFINE a == SubSeq(q, 1, n)
           b == SubSeq(q, n + 1, Len(q))
<1> HIDE DEF a, b
<1>4. \A i \in 1..Len(a) : a[i] # Sentinel
  <2>1. /\ Len(a) = IF 1 <= n THEN n - 1 + 1 ELSE 0
        /\ \A i \in 1..(n - 1 + 1) : a[i] = q[1 + i - 1]
    BY <1>2 DEF a
  <2>2. QED BY <2>1, SMTT(40)
<1>5. \A i \in 1..Len(b) : b[i] # Sentinel
  <2>1. /\ Len(b) = IF n + 1 <= Len(q) THEN Len(q) - (n + 1) + 1 ELSE 0
        /\ \A i \in 1..(Len(q) - (n + 1) + 1) : b[i] = q[n + 1 + i - 1]
    BY <1>3 DEF b
  <2>2. QED BY <2>1, SMTT(40)
<1>6. QED BY <1>4, <1>5 DEF a, b

\* Every step keeps the current worker reachable and unsignalled.
LEMMA WorkerPreserved == IInv /\ [Next]_vars => WorkerInv'
<1> SUFFICES ASSUME IInv, [Next]_vars PROVE WorkerInv'
  OBVIOUS
<1>a. /\ WorkerInv /\ LockInv /\ ListInv
      /\ worker \in Machine \cup {None} /\ write_fd \in Fd \cup {None}
      /\ pipe_write_fd \in Fd \cup {None} /\ lock \in Machine \cup {None}
      /\ fdOwner \in [Fd -> Machine \cup {None}]
      /\ pc \in [Machine -> Locked \cup ShuttingDown \cup Settled]
      /\ applied \in [Machine -> Seq(Signal)]
      /\ pipe \in [Machine -> Seq(Signal \cup {Sentinel})]
      /\ buffer \in [Machine -> Seq(Signal \cup {Sentinel})]
      /\ thread \in [Machine -> {"none", "running", "exited"}]
  BY DEF IInv, TypeOK
<1> USE <1>a, NoneAssumption DEF WorkerInv, LockInv, Locked, ShuttingDown, Settled
<1> USE DEF managerVars, callerVars, workerVars, handlerVars, kernelVars, Goto
<1>1. ASSUME NEW m \in Machine, NEW signals \in Requests, RegisterLock(m, signals) PROVE WorkerInv'
  BY <1>1 DEF RegisterLock
<1>2. ASSUME NEW m \in Machine, RegisterPoisoned(m) PROVE WorkerInv'
  BY <1>2 DEF RegisterPoisoned
<1>3. ASSUME NEW m \in Machine, EnsureWorkerPresent(m) PROVE WorkerInv'
  BY <1>3 DEF EnsureWorkerPresent, NeedsWorker
<1>4. ASSUME NEW m \in Machine, NEW f \in Fd, EnsureWorkerSpawn(m, f) PROVE WorkerInv'
  <2>1. thread[m] = "none" /\ pipe[m] = <<>> /\ buffer[m] = <<>>
    BY <1>4 DEF EnsureWorkerSpawn, IInv, CreatedInv
  <2>2. ~poisoned
    BY <1>4 DEF EnsureWorkerSpawn
  <2>3. QED BY <2>1, <2>2, <1>4, SMTT(40) DEF EnsureWorkerSpawn
<1>5. ASSUME NEW m \in Machine, EnsureWorkerPipeFails(m) PROVE WorkerInv'
  BY <1>5 DEF EnsureWorkerPipeFails
<1>6. ASSUME NEW m \in Machine, NEW f \in Fd, EnsureWorkerSpawnPanics(m, f) PROVE WorkerInv'
  BY <1>6 DEF EnsureWorkerSpawnPanics, NeedsWorker
<1>7. ASSUME NEW m \in Machine, ApplySignal(m) PROVE WorkerInv'
  <2>1. worker # None
    BY <1>7 DEF ApplySignal
  <2>2. QED BY <2>1, <1>7 DEF ApplySignal
<1>8. ASSUME NEW m \in Machine, RejectSignal(m) PROVE WorkerInv'
  BY <1>8 DEF RejectSignal
<1>9. ASSUME NEW m \in Machine, RegisterCommit(m) PROVE WorkerInv'
  <2>1. worker # None
    BY <1>9 DEF RegisterCommit
  <2>2. QED BY <2>1, <1>9 DEF RegisterCommit
<1>10. ASSUME NEW m \in Machine, UnregisterLock(m) PROVE WorkerInv'
  <2>1. worker # None
    BY <1>10 DEF UnregisterLock
  <2>2. QED BY <2>1, <1>10 DEF UnregisterLock
<1>11. ASSUME NEW m \in Machine, ReleaseSignal(m) PROVE WorkerInv'
  <2>1. worker # None
    BY <1>11 DEF ReleaseSignal
  <2>2. QED BY <2>1, <1>11 DEF ReleaseSignal
<1>12. ASSUME NEW m \in Machine, ReleaseStay(m) PROVE WorkerInv'
  BY <1>12 DEF ReleaseStay, Releasing, Returned
<1>13. ASSUME NEW m \in Machine, ReleaseTake(m) PROVE WorkerInv'
  <2>1. /\ worker' = None /\ pipe_write_fd' = None /\ lock' = None
        /\ UNCHANGED <<poisoned, applied>> /\ pc' = [pc EXCEPT ![m] = "sentinel"]
        /\ lock = m /\ ~poisoned
    BY <1>13 DEF ReleaseTake, TakeShutdown, Releasing
  <2>2. \A n \in Machine : applied[n] = <<>> /\ pc[n] \notin {"apply", "held"}
    <3>1. applied[m] = <<>> /\ registrations = {} /\ pc[m] \notin {"apply", "held"}
      BY <1>13 DEF ReleaseTake, TakeShutdown, Releasing, Idle
    <3>2. ASSUME NEW n \in Machine, n # m
          PROVE  applied[n] = <<>> /\ pc[n] \notin {"apply", "held"}
      <4>1. pc[n] \in ShuttingDown \cup Settled /\ pc[n] # "held"
        BY <2>1, <3>1, <3>2 DEF ListInv
      <4>2. QED BY <4>1 DEF ListInv
    <3>3. QED BY <3>1, <3>2
  <2>3. QED BY <2>1, <2>2
<1>14. ASSUME NEW m \in Machine, WriteSentinel(m) PROVE WorkerInv'
  <2>1. taken[m].worker # worker /\ taken[m].worker \in Machine
    BY <1>14 DEF WriteSentinel, IInv, TakenInv
  <2>2. worker # None => pipe'[worker] = pipe[worker]
    BY <2>1, <1>14 DEF WriteSentinel
  <2>3. QED BY <2>2, <1>14 DEF WriteSentinel
<1>15. ASSUME NEW m \in Machine, DropWriteFd(m) PROVE WorkerInv'
  <2>1. /\ fdOwner[taken[m].write_fd] = taken[m].worker
        /\ taken[m].worker # worker /\ taken[m].write_fd \in Fd
    BY <1>15 DEF DropWriteFd, IInv, TakenInv
  <2>2. worker # None => fdOwner'[write_fd] = fdOwner[write_fd]
    BY <2>1, <1>15 DEF DropWriteFd
  <2>3. QED BY <2>2, <1>15 DEF DropWriteFd
<1>16. ASSUME NEW m \in Machine, JoinWorker(m) PROVE WorkerInv'
  <2>1. taken[m].result \in {"done", "failed"}
    BY <1>16 DEF JoinWorker, IInv, TakenInv
  <2>2. QED BY <2>1, <1>16 DEF JoinWorker
<1>17. ASSUME NEW g \in Machine, WorkerRead(g) PROVE WorkerInv'
  <2> DEFINE q == pipe[g]
             n == IF Len(q) < ReadSize THEN Len(q) ELSE ReadSize
  <2>1. /\ buffer' = [buffer EXCEPT ![g] = SubSeq(q, 1, n)]
        /\ pipe' = [pipe EXCEPT ![g] = SubSeq(q, n + 1, Len(q))]
    BY <1>17 DEF WorkerRead
  <2>2. q \in Seq(Signal \cup {Sentinel}) /\ n \in 0..Len(q)
    BY SizesAssumption, SMTT(40)
  <2>3. (\A i \in 1..Len(q) : q[i] # Sentinel) =>
           /\ \A i \in 1..Len(SubSeq(q, 1, n)) : SubSeq(q, 1, n)[i] # Sentinel
           /\ \A i \in 1..Len(SubSeq(q, n + 1, Len(q))) :
                 SubSeq(q, n + 1, Len(q))[i] # Sentinel
    <3> HIDE DEF q, n
    <3>1. QED BY <2>2, NoSentinelSubSeq, SMTT(40)
  <2>4. worker # None =>
           /\ \A i \in 1..Len(pipe'[worker]) : pipe'[worker][i] # Sentinel
           /\ \A i \in 1..Len(buffer'[worker]) : buffer'[worker][i] # Sentinel
    <3>1. CASE worker = g
      <4>1. pipe'[worker] = SubSeq(q, n + 1, Len(q)) /\ buffer'[worker] = SubSeq(q, 1, n)
        BY <2>1, <3>1
      <4> HIDE DEF n
      <4>2. QED BY <2>3, <3>1, <4>1
    <3>2. CASE worker # g
      BY <2>1, <3>2
    <3>3. QED BY <3>1, <3>2
  <2> HIDE DEF q, n
  <2>5. QED BY <2>4, <1>17 DEF WorkerRead
<1>18. ASSUME NEW g \in Machine, WorkerExit(g) PROVE WorkerInv'
  <2>1. g # worker
    BY <1>18, SMTT(40) DEF WorkerExit
  <2>2. QED BY <2>1, <1>18 DEF WorkerExit
<1>19. ASSUME NEW g \in Machine, DispatchCollect(g) PROVE WorkerInv'
  <2>1. /\ Len(Tail(buffer[g])) = Len(buffer[g]) - 1
        /\ \A i \in 1..Len(Tail(buffer[g])) : Tail(buffer[g])[i] = buffer[g][i + 1]
    BY <1>19, HeadTailProperties, SMTT(40) DEF DispatchCollect
  <2>2. worker # None => \A i \in 1..Len(buffer'[worker]) : buffer'[worker][i] # Sentinel
    BY <2>1, <1>19, SMTT(40) DEF DispatchCollect
  <2>3. QED BY <2>2, <1>19 DEF DispatchCollect
<1>20. ASSUME NEW g \in Machine, NEW m \in Machine, DispatchKill(g, m) PROVE WorkerInv'
  BY <1>20 DEF DispatchKill
<1>21. ASSUME NEW h \in Handler, NEW s \in Signal, HandlerEnter(h, s) PROVE WorkerInv'
  BY <1>21 DEF HandlerEnter
<1>22. ASSUME NEW h \in Handler, HandlerLoad(h) PROVE WorkerInv'
  BY <1>22 DEF HandlerLoad
<1>23. ASSUME NEW h \in Handler, HandlerWrite(h) PROVE WorkerInv'
  <2>1. hsig[h] \in Signal /\ hfd[h] \in Fd
    BY <1>23 DEF HandlerWrite, IInv, HandlerInv
  <2>2. worker # None => \A i \in 1..Len(pipe'[worker]) : pipe'[worker][i] # Sentinel
    <3>1. CASE NoReader(hfd[h])
      BY <3>1, <1>23 DEF HandlerWrite
    <3>2. CASE ~NoReader(hfd[h])
      <4>1. fdOwner[hfd[h]] \in Machine
        BY <2>1, <3>2 DEF NoReader
      <4>2. pipe' = [pipe EXCEPT ![fdOwner[hfd[h]]] = Append(@, hsig[h])]
        BY <3>2, <1>23 DEF HandlerWrite
      <4>3. hsig[h] # Sentinel
        BY <2>1, SignalsAssumption
      <4>4. ASSUME worker = fdOwner[hfd[h]]
            PROVE  \A i \in 1..Len(pipe'[worker]) : pipe'[worker][i] # Sentinel
        <5>1. pipe'[worker] = Append(pipe[worker], hsig[h]) /\ worker # None
          BY <4>1, <4>2, <4>4
        <5>2. pipe[worker] \in Seq(Signal \cup {Sentinel})
          BY <4>1, <4>4
        <5>3. QED BY <4>3, <5>1, <5>2, SMTT(40)
      <4>5. ASSUME worker # fdOwner[hfd[h]], worker # None PROVE pipe'[worker] = pipe[worker]
        BY <4>2, <4>5
      <4>6. QED BY <4>4, <4>5
    <3>3. QED BY <3>1, <3>2
  <2>3. QED BY <2>2, <1>23 DEF HandlerWrite
<1>24. ASSUME UNCHANGED vars PROVE WorkerInv'
  BY <1>24 DEF vars
<1>25. QED
  BY <1>1, <1>2, <1>3, <1>4, <1>5, <1>6, <1>7, <1>8, <1>9, <1>10, <1>11,
     <1>12, <1>13, <1>14, <1>15, <1>16, <1>17, <1>18, <1>19, <1>20, <1>21,
     <1>22, <1>23, <1>24 DEF Next, CallerStep, WorkerStep, Finished

\* Most steps leave that alone.
LEMMA ThreadFrame ==
    ASSUME ThreadInv, UNCHANGED <<thread, taken, worker, fdOwner>>,
           \A m \in Machine : /\ pc'[m] \in ShuttingDown <=> pc[m] \in ShuttingDown
                              /\ pc'[m] # "join" => pc[m] # "join"
                              /\ pc'[m] \in {"new", "ensure"} => pc[m] \in {"new", "ensure"},
           \A g \in Machine : thread[g] = "none" =>
                                 pipe'[g] = pipe[g] /\ buffer'[g] = buffer[g]
    PROVE  ThreadInv'
<1> USE DEF ThreadInv
<1>1. CreatedInv'
  BY DEF CreatedInv
<1>2. OpenInv'
  BY DEF OpenInv
<1>3. TakenInv'
  BY DEF TakenInv
<1>4. TakenOnce'
  BY DEF TakenOnce
<1>5. NoOrphanWorker'
  BY DEF NoOrphanWorker
<1>6. QED BY <1>1, <1>2, <1>3, <1>4, <1>5

\* Every step keeps each running worker with its one owner.
LEMMA ThreadPreserved == IInv /\ [Next]_vars => ThreadInv'
<1> SUFFICES ASSUME IInv, [Next]_vars PROVE ThreadInv'
  OBVIOUS
<1>a. ThreadInv
  BY DEF IInv, ThreadInv
<1>b. pc \in [Machine -> Locked \cup ShuttingDown \cup Settled]
  BY DEF IInv, TypeOK
<1>c. /\ worker \in Machine \cup {None} /\ fdOwner \in [Fd -> Machine \cup {None}]
      /\ thread \in [Machine -> {"none", "running", "exited"}]
  BY DEF IInv, TypeOK
<1>d. /\ pipe \in [Machine -> Seq(Signal \cup {Sentinel})]
      /\ buffer \in [Machine -> Seq(Signal \cup {Sentinel})]
  BY DEF IInv, TypeOK
<1> DEFINE Shutdown == [write_fd : Fd, worker : Machine, result : {"done", "failed"}]
           Taken == Shutdown \cup {None}
<1>e. taken \in [Machine -> Taken]
  BY DEF IInv, TypeOK
<1>f. \A m \in Machine : pc[m] \in ShuttingDown =>
         /\ taken[m].worker \in Machine /\ taken[m].write_fd \in Fd
         /\ taken[m].result \in {"done", "failed"}
         /\ taken[m].worker # worker /\ thread[taken[m].worker] # "none"
         /\ pc[m] # "join" => fdOwner[taken[m].write_fd] = taken[m].worker
  BY <1>a DEF ThreadInv, TakenInv
<1> HIDE DEF Taken
<1> DEFINE KeepsRole == \A m \in Machine :
                 /\ pc'[m] \in ShuttingDown <=> pc[m] \in ShuttingDown
                 /\ pc'[m] # "join" => pc[m] # "join"
                 /\ pc'[m] \in {"new", "ensure"} => pc[m] \in {"new", "ensure"}
<1> USE NoneAssumption DEF Locked, ShuttingDown, Settled
<1> USE DEF managerVars, callerVars, workerVars, handlerVars, kernelVars, Goto
<1>1. ASSUME NEW m \in Machine, NEW signals \in Requests, RegisterLock(m, signals) PROVE ThreadInv'
  <2>1. UNCHANGED <<thread, taken, worker, fdOwner, pipe, buffer>> /\ KeepsRole
    BY <1>b, <1>1 DEF RegisterLock
  <2>2. QED BY <1>a, <2>1, ThreadFrame
<1>2. ASSUME NEW m \in Machine, RegisterPoisoned(m) PROVE ThreadInv'
  <2>1. UNCHANGED <<thread, taken, worker, fdOwner, pipe, buffer>> /\ KeepsRole
    BY <1>b, <1>2 DEF RegisterPoisoned
  <2>2. QED BY <1>a, <2>1, ThreadFrame
<1>3. ASSUME NEW m \in Machine, EnsureWorkerPresent(m) PROVE ThreadInv'
  <2>1. UNCHANGED <<thread, taken, worker, fdOwner, pipe, buffer>> /\ KeepsRole
    BY <1>b, <1>3 DEF EnsureWorkerPresent
  <2>2. QED BY <1>a, <2>1, ThreadFrame
<1>4. ASSUME NEW m \in Machine, NEW f \in Fd, EnsureWorkerSpawn(m, f) PROVE ThreadInv'
  <2>1. /\ thread[m] = "none" /\ worker = None /\ worker' = m /\ fdOwner[f] = None
        /\ thread' = [thread EXCEPT ![m] = "running"]
        /\ fdOwner' = [fdOwner EXCEPT ![f] = m] /\ pc[m] = "ensure"
        /\ pc' = [pc EXCEPT ![m] = "apply"] /\ UNCHANGED <<taken, pipe, buffer>>
    BY <1>a, <1>4 DEF EnsureWorkerSpawn, NeedsWorker, ThreadInv, CreatedInv
  <2>2. \A n \in Machine : n # m => pc'[n] = pc[n] /\ thread'[n] = thread[n]
    BY <1>b, <1>c, <2>1
  <2>3. pc'[m] = "apply" /\ thread'[m] = "running"
    BY <1>b, <1>c, <2>1
  <2>4. CreatedInv'
    BY <1>a, <2>1, <2>2, <2>3, SMTT(40) DEF ThreadInv, CreatedInv
  <2>5. OpenInv'
    BY <1>a, <1>c, <2>1 DEF ThreadInv, OpenInv
  <2>6. \A n \in Machine : pc'[n] \in ShuttingDown => n # m /\ pc[n] = pc'[n]
    BY <2>2, <2>3
  <2>7. TakenInv'
    <3> SUFFICES ASSUME NEW n \in Machine, pc'[n] \in ShuttingDown
                 PROVE  /\ taken[n] \in Shutdown
                        /\ taken[n].worker # m
                        /\ thread'[taken[n].worker] # "none"
                        /\ pc'[n] # "join" => fdOwner'[taken[n].write_fd] = taken[n].worker
      BY <2>1 DEF TakenInv
    <3>1. taken[n] \in Shutdown
      BY <1>a, <2>6 DEF ThreadInv, TakenInv
    <3>2. taken[n].worker # m /\ thread'[taken[n].worker] # "none"
      BY <1>f, <2>1, <2>2, <2>6
    <3>3. pc'[n] # "join" => fdOwner'[taken[n].write_fd] = taken[n].worker
      BY <1>c, <1>f, <2>1, <2>6
    <3>4. QED BY <3>1, <3>2, <3>3
  <2>8. TakenOnce'
    BY <1>a, <2>1, <2>6 DEF ThreadInv, TakenOnce
  <2>9. NoOrphanWorker'
    <3> SUFFICES ASSUME NEW g \in Machine, thread'[g] = "running", g # m
                 PROVE  \E n \in Machine : pc'[n] \in ShuttingDown /\ taken[n].worker = g
      BY <2>1 DEF NoOrphanWorker
    <3>1. PICK n \in Machine : pc[n] \in ShuttingDown /\ taken[n].worker = g
      BY <1>a, <2>1, <2>2 DEF ThreadInv, NoOrphanWorker
    <3>2. QED BY <2>1, <2>2, <3>1
  <2>10. QED BY <2>4, <2>5, <2>7, <2>8, <2>9 DEF ThreadInv
<1>5. ASSUME NEW m \in Machine, EnsureWorkerPipeFails(m) PROVE ThreadInv'
  <2>1. UNCHANGED <<thread, taken, worker, fdOwner, pipe, buffer>> /\ KeepsRole
    BY <1>b, <1>5 DEF EnsureWorkerPipeFails
  <2>2. QED BY <1>a, <2>1, ThreadFrame
<1>6. ASSUME NEW m \in Machine, NEW f \in Fd, EnsureWorkerSpawnPanics(m, f) PROVE ThreadInv'
  <2>1. UNCHANGED <<thread, taken, worker, fdOwner, pipe, buffer>> /\ KeepsRole
    BY <1>b, <1>6 DEF EnsureWorkerSpawnPanics
  <2>2. QED BY <1>a, <2>1, ThreadFrame
<1>7. ASSUME NEW m \in Machine, ApplySignal(m) PROVE ThreadInv'
  <2>1. UNCHANGED <<thread, taken, worker, fdOwner, pipe, buffer>> /\ KeepsRole
    BY <1>b, <1>7 DEF ApplySignal
  <2>2. QED BY <1>a, <2>1, ThreadFrame
<1>8. ASSUME NEW m \in Machine, RejectSignal(m) PROVE ThreadInv'
  <2>1. UNCHANGED <<thread, taken, worker, fdOwner, pipe, buffer>> /\ KeepsRole
    BY <1>b, <1>8 DEF RejectSignal
  <2>2. QED BY <1>a, <2>1, ThreadFrame
<1>9. ASSUME NEW m \in Machine, RegisterCommit(m) PROVE ThreadInv'
  <2>1. UNCHANGED <<thread, taken, worker, fdOwner, pipe, buffer>> /\ KeepsRole
    BY <1>b, <1>9 DEF RegisterCommit
  <2>2. QED BY <1>a, <2>1, ThreadFrame
<1>10. ASSUME NEW m \in Machine, UnregisterLock(m) PROVE ThreadInv'
  <2>1. UNCHANGED <<thread, taken, worker, fdOwner, pipe, buffer>> /\ KeepsRole
    BY <1>b, <1>10 DEF UnregisterLock
  <2>2. QED BY <1>a, <2>1, ThreadFrame
<1>11. ASSUME NEW m \in Machine, ReleaseSignal(m) PROVE ThreadInv'
  <2>1. UNCHANGED <<thread, taken, worker, fdOwner, pipe, buffer>> /\ KeepsRole
    BY <1>b, <1>11 DEF ReleaseSignal
  <2>2. QED BY <1>a, <2>1, ThreadFrame
<1>12. ASSUME NEW m \in Machine, ReleaseStay(m) PROVE ThreadInv'
  <2>1. UNCHANGED <<thread, taken, worker, fdOwner, pipe, buffer>> /\ KeepsRole
    BY <1>b, <1>12 DEF ReleaseStay, Releasing, Returned
  <2>2. QED BY <1>a, <2>1, ThreadFrame
<1>13. ASSUME NEW m \in Machine, ReleaseTake(m) PROVE ThreadInv'
  <2>1. PICK r \in Shutdown : /\ r.worker = worker /\ r.write_fd = write_fd
                              /\ taken' = [taken EXCEPT ![m] = r]
    <3> DEFINE q == [write_fd |-> write_fd, worker |-> worker, result |-> Returned(m)]
    <3>1. q \in Shutdown
      BY <1>13, <1>c DEF ReleaseTake, TakeShutdown, Returned, IInv, WorkerInv
    <3>2. q.worker = worker /\ q.write_fd = write_fd /\ taken' = [taken EXCEPT ![m] = q]
      BY <1>13 DEF ReleaseTake, TakeShutdown
    <3>3. QED BY <3>1, <3>2
  <2>2. /\ worker \in Machine /\ worker' = None /\ pc[m] \in {"release", "release_failed"}
        /\ pc' = [pc EXCEPT ![m] = "sentinel"]
        /\ UNCHANGED <<thread, pipe, buffer, fdOwner>>
    BY <1>13, <1>c DEF ReleaseTake, TakeShutdown, Releasing
  <2>3. fdOwner[write_fd] = worker /\ thread[worker] = "running"
    BY <2>2 DEF IInv, WorkerInv
  <2>4. /\ taken'[m] = r /\ \A n \in Machine : n # m => taken'[n] = taken[n]
        /\ pc'[m] = "sentinel" /\ \A n \in Machine : n # m => pc'[n] = pc[n]
    BY <1>b, <1>e, <2>1, <2>2
  <2>5. r.worker \in Machine
    BY <2>1, <2>2
  <2>6. CreatedInv'
    BY <1>a, <2>2, <2>4 DEF ThreadInv, CreatedInv
  <2>7. OpenInv'
    BY <1>a, <2>2 DEF ThreadInv, OpenInv
  <2>8. TakenInv'
    <3> SUFFICES ASSUME NEW n \in Machine, pc'[n] \in ShuttingDown
                 PROVE  /\ taken'[n] \in Shutdown
                        /\ taken'[n].worker # None
                        /\ thread[taken'[n].worker] # "none"
                        /\ pc'[n] # "join" => fdOwner[taken'[n].write_fd] = taken'[n].worker
      BY <2>2 DEF TakenInv
    <3>1. CASE n = m
      <4> HIDE DEF Shutdown
      <4>1. QED BY <2>1, <2>2, <2>3, <2>4, <3>1, SMTT(40)
    <3>2. CASE n # m
      <4>1. pc[n] \in ShuttingDown /\ pc'[n] = pc[n] /\ taken'[n] = taken[n]
        BY <2>4, <3>2
      <4>2. taken[n] \in Shutdown
        BY <1>a, <4>1 DEF ThreadInv, TakenInv
      <4> HIDE DEF Shutdown
      <4>3. QED BY <1>f, <4>1, <4>2
    <3>3. QED BY <3>1, <3>2
  <2>9. TakenOnce'
    <3> HIDE DEF Shutdown
    <3>1. \A n \in Machine : n # m /\ pc'[n] \in ShuttingDown => taken'[n].worker # taken'[m].worker
      BY <1>f, <2>1, <2>4
    <3>2. \A n, l \in Machine : /\ n # m /\ l # m /\ n # l
                                /\ pc'[n] \in ShuttingDown /\ pc'[l] \in ShuttingDown
                                => taken'[n].worker # taken'[l].worker
      BY <1>a, <2>4, SMTT(40) DEF ThreadInv, TakenOnce
    <3>3. QED BY <3>1, <3>2 DEF TakenOnce
  <2>10. NoOrphanWorker'
    <3> HIDE DEF Shutdown
    <3> SUFFICES ASSUME NEW g \in Machine, thread[g] = "running"
                 PROVE  \E n \in Machine : pc'[n] \in ShuttingDown /\ taken'[n].worker = g
      BY <2>2 DEF NoOrphanWorker
    <3>1. CASE g = worker
      BY <2>1, <2>4, <3>1
    <3>2. CASE g # worker
      <4>1. PICK n \in Machine : pc[n] \in ShuttingDown /\ taken[n].worker = g
        BY <1>a, <3>2 DEF ThreadInv, NoOrphanWorker
      <4>2. n # m
        BY <2>2, <4>1
      <4>3. QED BY <2>4, <4>1, <4>2
    <3>3. QED BY <3>1, <3>2
  <2>11. QED BY <2>6, <2>7, <2>8, <2>9, <2>10 DEF ThreadInv
<1>14. ASSUME NEW m \in Machine, WriteSentinel(m) PROVE ThreadInv'
  <2>1. taken[m].worker \in Machine /\ thread[taken[m].worker] # "none"
    BY <1>f, <1>14 DEF WriteSentinel
  <2>2. UNCHANGED <<thread, taken, worker, fdOwner, buffer>> /\ KeepsRole
    BY <1>b, <1>14 DEF WriteSentinel
  <2>3. \A g \in Machine : thread[g] = "none" => pipe'[g] = pipe[g]
    BY <1>d, <2>1, <1>14 DEF WriteSentinel
  <2>4. QED BY <1>a, <2>2, <2>3, ThreadFrame
<1>15. ASSUME NEW m \in Machine, DropWriteFd(m) PROVE ThreadInv'
  <2>1. /\ taken[m].write_fd \in Fd /\ taken[m].worker \in Machine
        /\ fdOwner[taken[m].write_fd] = taken[m].worker
    BY <1>f, <1>15 DEF DropWriteFd
  <2>2. /\ fdOwner' = [fdOwner EXCEPT ![taken[m].write_fd] = None] /\ pc[m] = "drop"
        /\ pc' = [pc EXCEPT ![m] = "join"]
        /\ UNCHANGED <<thread, taken, worker, pipe, buffer>>
    BY <1>15 DEF DropWriteFd
  <2>3. /\ pc'[m] = "join" /\ \A n \in Machine : n # m => pc'[n] = pc[n]
        /\ \A n \in Machine : pc'[n] \in ShuttingDown <=> pc[n] \in ShuttingDown
    BY <1>b, <2>2
  <2>4. CreatedInv'
    BY <1>a, <2>2, <2>3 DEF ThreadInv, CreatedInv
  <2>5. OpenInv'
    BY <1>a, <1>c, <2>1, <2>2 DEF ThreadInv, OpenInv
  <2>6. TakenInv'
    <3> SUFFICES ASSUME NEW n \in Machine, pc'[n] \in ShuttingDown
                 PROVE  /\ taken[n] \in Shutdown
                        /\ taken[n].worker # worker
                        /\ thread[taken[n].worker] # "none"
                        /\ pc'[n] # "join" => fdOwner'[taken[n].write_fd] = taken[n].worker
      BY <2>2 DEF TakenInv
    <3>1. pc[n] \in ShuttingDown
      BY <2>3
    <3>2. taken[n] \in Shutdown /\ taken[n].worker # worker /\ thread[taken[n].worker] # "none"
      BY <1>a, <3>1 DEF ThreadInv, TakenInv
    <3>3. ASSUME pc'[n] # "join" PROVE fdOwner'[taken[n].write_fd] = taken[n].worker
      <4>1. n # m /\ pc[n] # "join"
        BY <2>3, <3>3
      <4>2. taken[n].worker # taken[m].worker
        BY <1>a, <2>2, <3>1, <4>1 DEF ThreadInv, TakenOnce
      <4>3. fdOwner[taken[n].write_fd] = taken[n].worker /\ taken[n].write_fd \in Fd
        BY <1>f, <3>1, <4>1
      <4>4. taken[n].write_fd # taken[m].write_fd
        BY <2>1, <4>2, <4>3
      <4>5. QED BY <1>c, <2>2, <4>3, <4>4
    <3>4. QED BY <3>2, <3>3
  <2>7. TakenOnce'
    BY <1>a, <2>2, <2>3 DEF ThreadInv, TakenOnce
  <2>8. NoOrphanWorker'
    <3>1. \A g \in Machine : thread[g] = "running" =>
             \/ g = worker
             \/ \E n \in Machine : pc[n] \in ShuttingDown /\ taken[n].worker = g
      BY <1>a DEF ThreadInv, NoOrphanWorker
    <3>2. QED BY <2>2, <2>3, <3>1 DEF NoOrphanWorker
  <2>9. QED BY <2>4, <2>5, <2>6, <2>7, <2>8 DEF ThreadInv
<1>16. ASSUME NEW m \in Machine, JoinWorker(m) PROVE ThreadInv'
  <2>1. /\ taken[m].result \in {"done", "failed"} /\ taken[m].worker \in Machine
        /\ thread[taken[m].worker] = "exited"
    BY <1>f, <1>16 DEF JoinWorker, Joinable
  <2>2. /\ pc[m] = "join" /\ pc' = [pc EXCEPT ![m] = taken[m].result]
        /\ taken' = [taken EXCEPT ![m] = None]
        /\ UNCHANGED <<thread, worker, fdOwner, pipe, buffer>>
    BY <1>16 DEF JoinWorker
  <2>3. /\ pc'[m] \notin ShuttingDown \cup {"new", "ensure"}
        /\ \A n \in Machine : n # m => pc'[n] = pc[n] /\ taken'[n] = taken[n]
    BY <1>b, <1>e, <2>1, <2>2
  <2>4. CreatedInv'
    BY <1>a, <2>2, <2>3 DEF ThreadInv, CreatedInv
  <2>5. OpenInv'
    BY <1>a, <2>2 DEF ThreadInv, OpenInv
  <2>6. \A n \in Machine : pc'[n] \in ShuttingDown =>
           n # m /\ pc'[n] = pc[n] /\ taken'[n] = taken[n]
    BY <2>3
  <2>7. TakenInv'
    BY <1>a, <2>2, <2>6, SMTT(40) DEF ThreadInv, TakenInv
  <2>8. TakenOnce'
    BY <1>a, <2>6 DEF ThreadInv, TakenOnce
  <2>9. NoOrphanWorker'
    <3> SUFFICES ASSUME NEW g \in Machine, thread[g] = "running", g # worker
                 PROVE  \E n \in Machine : pc'[n] \in ShuttingDown /\ taken'[n].worker = g
      BY <2>2 DEF NoOrphanWorker
    <3>1. PICK n \in Machine : pc[n] \in ShuttingDown /\ taken[n].worker = g
      BY <1>a DEF ThreadInv, NoOrphanWorker
    <3>2. n # m
      BY <2>1, <3>1
    <3>3. QED BY <2>3, <3>1, <3>2
  <2>10. QED BY <2>4, <2>5, <2>7, <2>8, <2>9 DEF ThreadInv
<1>17. ASSUME NEW g \in Machine, WorkerRead(g) PROVE ThreadInv'
  <2>1. thread[g] = "running" /\ UNCHANGED <<thread, taken, worker, fdOwner, pc>>
    BY <1>17 DEF WorkerRead, Scanning
  <2>2. \A n \in Machine : n # g => pipe'[n] = pipe[n] /\ buffer'[n] = buffer[n]
    BY <1>d, <1>17 DEF WorkerRead
  <2>3. QED BY <1>a, <2>1, <2>2, ThreadFrame
<1>18. ASSUME NEW g \in Machine, WorkerExit(g) PROVE ThreadInv'
  <2>1. /\ thread[g] = "running" /\ thread' = [thread EXCEPT ![g] = "exited"]
        /\ UNCHANGED <<taken, worker, fdOwner, pc>>
    BY <1>18 DEF WorkerExit, Scanning
  <2>2. \A n \in Machine : n # g => pipe'[n] = pipe[n] /\ buffer'[n] = buffer[n]
    BY <1>d, <1>18 DEF WorkerExit
  <2>3. \A n \in Machine : /\ thread'[n] = "none" <=> thread[n] = "none"
                           /\ thread'[n] = "running" => thread[n] = "running"
    BY <1>c, <2>1
  <2>4. thread'[g] # "none" /\ CreatedInv /\ OpenInv /\ TakenInv /\ TakenOnce /\ NoOrphanWorker
    BY <1>a, <1>c, <2>1 DEF ThreadInv
  <2>5. CreatedInv'
    BY <2>1, <2>2, <2>3, <2>4 DEF CreatedInv
  <2>6. OpenInv'
    BY <1>c, <2>1, <2>3, <2>4 DEF OpenInv
  <2>7. TakenInv'
    BY <1>f, <2>1, <2>3, <2>4, SMTT(40) DEF TakenInv
  <2>8. TakenOnce'
    BY <2>1, <2>4 DEF TakenOnce
  <2>9. NoOrphanWorker'
    <3> SUFFICES ASSUME NEW n \in Machine, thread'[n] = "running"
                 PROVE  \/ n = worker'
                        \/ \E l \in Machine : pc'[l] \in ShuttingDown /\ taken'[l].worker = n
      BY DEF NoOrphanWorker
    <3>1. \/ n = worker
          \/ \E l \in Machine : pc[l] \in ShuttingDown /\ taken[l].worker = n
      BY <2>3, <2>4 DEF NoOrphanWorker
    <3>2. QED BY <2>1, <3>1
  <2>10. QED BY <2>5, <2>6, <2>7, <2>8, <2>9 DEF ThreadInv
<1>19. ASSUME NEW g \in Machine, DispatchCollect(g) PROVE ThreadInv'
  <2>1. thread[g] = "running" /\ UNCHANGED <<thread, taken, worker, fdOwner, pc>>
    BY <1>19 DEF DispatchCollect, Scanning
  <2>2. \A n \in Machine : n # g => pipe'[n] = pipe[n] /\ buffer'[n] = buffer[n]
    BY <1>d, <1>19 DEF DispatchCollect
  <2>3. QED BY <1>a, <2>1, <2>2, ThreadFrame
<1>20. ASSUME NEW g \in Machine, NEW m \in Machine, DispatchKill(g, m) PROVE ThreadInv'
  <2>1. UNCHANGED <<thread, taken, worker, fdOwner, pipe, buffer>> /\ KeepsRole
    BY <1>b, <1>20 DEF DispatchKill
  <2>2. QED BY <1>a, <2>1, ThreadFrame
<1>21. ASSUME NEW h \in Handler, NEW s \in Signal, HandlerEnter(h, s) PROVE ThreadInv'
  <2>1. UNCHANGED <<thread, taken, worker, fdOwner, pipe, buffer>> /\ KeepsRole
    BY <1>b, <1>21 DEF HandlerEnter
  <2>2. QED BY <1>a, <2>1, ThreadFrame
<1>22. ASSUME NEW h \in Handler, HandlerLoad(h) PROVE ThreadInv'
  <2>1. UNCHANGED <<thread, taken, worker, fdOwner, pipe, buffer>> /\ KeepsRole
    BY <1>b, <1>22 DEF HandlerLoad
  <2>2. QED BY <1>a, <2>1, ThreadFrame
<1>23. ASSUME NEW h \in Handler, HandlerWrite(h) PROVE ThreadInv'
  <2>1. \A g \in Machine : thread[g] = "none" => pipe'[g] = pipe[g]
    <3>1. hfd[h] \in Fd
      BY <1>23 DEF HandlerWrite, IInv, HandlerInv
    <3>2. CASE NoReader(hfd[h])
      BY <3>2, <1>23 DEF HandlerWrite
    <3>3. CASE ~NoReader(hfd[h])
      <4>1. fdOwner[hfd[h]] \in Machine /\ thread[fdOwner[hfd[h]]] # "none"
        BY <1>a, <1>c, <3>1, <3>3 DEF NoReader, ThreadInv, OpenInv
      <4>2. pipe' = [pipe EXCEPT ![fdOwner[hfd[h]]] = Append(@, hsig[h])]
        BY <3>3, <1>23 DEF HandlerWrite
      <4>3. QED BY <1>d, <4>1, <4>2
    <3>4. QED BY <3>2, <3>3
  <2>2. UNCHANGED <<thread, taken, worker, fdOwner, buffer, pc>>
    BY <1>23 DEF HandlerWrite
  <2>3. QED BY <1>a, <2>1, <2>2, ThreadFrame
<1>24. ASSUME UNCHANGED vars PROVE ThreadInv'
  BY <1>a, <1>24, ThreadFrame DEF vars
<1>25. QED
  BY <1>1, <1>2, <1>3, <1>4, <1>5, <1>6, <1>7, <1>8, <1>9, <1>10, <1>11,
     <1>12, <1>13, <1>14, <1>15, <1>16, <1>17, <1>18, <1>19, <1>20, <1>21,
     <1>22, <1>23, <1>24 DEF Next, CallerStep, WorkerStep, Finished

\* The mutex is never released with an idle worker left behind.
LEMMA BusyPreserved == IInv /\ [Next]_vars => BusyInv'
<1> SUFFICES ASSUME IInv, [Next]_vars PROVE BusyInv'
  OBVIOUS
<1>a. BusyInv /\ LockInv
  BY DEF IInv
<1> USE <1>a, NoneAssumption DEF BusyInv
<1> USE DEF managerVars, callerVars, workerVars, handlerVars, kernelVars, Goto
<1>1. ASSUME NEW m \in Machine, NEW signals \in Requests, RegisterLock(m, signals) PROVE BusyInv'
  BY <1>1, <1>a DEF RegisterLock
<1>2. ASSUME NEW m \in Machine, RegisterPoisoned(m) PROVE BusyInv'
  BY <1>2 DEF RegisterPoisoned
<1>3. ASSUME NEW m \in Machine, EnsureWorkerPresent(m) PROVE BusyInv'
  <2>1. lock = m
    BY <1>3, <1>a DEF EnsureWorkerPresent, LockInv, Locked
  <2>2. QED BY <2>1, <1>3 DEF EnsureWorkerPresent
<1>4. ASSUME NEW m \in Machine, NEW f \in Fd, EnsureWorkerSpawn(m, f) PROVE BusyInv'
  <2>1. lock = m
    BY <1>4, <1>a DEF EnsureWorkerSpawn, LockInv, Locked
  <2>2. QED BY <2>1, <1>4 DEF EnsureWorkerSpawn
<1>5. ASSUME NEW m \in Machine, EnsureWorkerPipeFails(m) PROVE BusyInv'
  <2>1. lock = m
    BY <1>5, <1>a DEF EnsureWorkerPipeFails, LockInv, Locked
  <2>2. QED BY <2>1, <1>5 DEF EnsureWorkerPipeFails
<1>6. ASSUME NEW m \in Machine, NEW f \in Fd, EnsureWorkerSpawnPanics(m, f) PROVE BusyInv'
  BY <1>6 DEF EnsureWorkerSpawnPanics, NeedsWorker
<1>7. ASSUME NEW m \in Machine, ApplySignal(m) PROVE BusyInv'
  <2>1. lock = m
    BY <1>7, <1>a DEF ApplySignal, LockInv, Locked
  <2>2. QED BY <2>1, <1>7 DEF ApplySignal
<1>8. ASSUME NEW m \in Machine, RejectSignal(m) PROVE BusyInv'
  <2>1. lock = m
    BY <1>8, <1>a DEF RejectSignal, LockInv, Locked
  <2>2. QED BY <2>1, <1>8 DEF RejectSignal
<1>9. ASSUME NEW m \in Machine, RegisterCommit(m) PROVE BusyInv'
  BY <1>9 DEF RegisterCommit
<1>10. ASSUME NEW m \in Machine, UnregisterLock(m) PROVE BusyInv'
  BY <1>10 DEF UnregisterLock
<1>11. ASSUME NEW m \in Machine, ReleaseSignal(m) PROVE BusyInv'
  <2>1. lock = m
    BY <1>11, <1>a DEF ReleaseSignal, LockInv, Locked, Releasing
  <2>2. QED BY <2>1, <1>11 DEF ReleaseSignal
<1>12. ASSUME NEW m \in Machine, ReleaseStay(m) PROVE BusyInv'
  BY <1>12 DEF ReleaseStay, Idle
<1>13. ASSUME NEW m \in Machine, ReleaseTake(m) PROVE BusyInv'
  BY <1>13 DEF ReleaseTake, TakeShutdown
<1>14. ASSUME NEW m \in Machine, WriteSentinel(m) PROVE BusyInv'
  BY <1>14 DEF WriteSentinel
<1>15. ASSUME NEW m \in Machine, DropWriteFd(m) PROVE BusyInv'
  BY <1>15 DEF DropWriteFd
<1>16. ASSUME NEW m \in Machine, JoinWorker(m) PROVE BusyInv'
  BY <1>16 DEF JoinWorker
<1>17. ASSUME NEW g \in Machine, WorkerRead(g) PROVE BusyInv'
  BY <1>17 DEF WorkerRead
<1>18. ASSUME NEW g \in Machine, WorkerExit(g) PROVE BusyInv'
  BY <1>18 DEF WorkerExit
<1>19. ASSUME NEW g \in Machine, DispatchCollect(g) PROVE BusyInv'
  BY <1>19 DEF DispatchCollect
<1>20. ASSUME NEW g \in Machine, NEW m \in Machine, DispatchKill(g, m) PROVE BusyInv'
  BY <1>20 DEF DispatchKill
<1>21. ASSUME NEW h \in Handler, NEW s \in Signal, HandlerEnter(h, s) PROVE BusyInv'
  BY <1>21 DEF HandlerEnter
<1>22. ASSUME NEW h \in Handler, HandlerLoad(h) PROVE BusyInv'
  BY <1>22 DEF HandlerLoad
<1>23. ASSUME NEW h \in Handler, HandlerWrite(h) PROVE BusyInv'
  BY <1>23 DEF HandlerWrite
<1>24. ASSUME UNCHANGED vars PROVE BusyInv'
  BY <1>24 DEF vars
<1>25. QED
  BY <1>1, <1>2, <1>3, <1>4, <1>5, <1>6, <1>7, <1>8, <1>9, <1>10, <1>11,
     <1>12, <1>13, <1>14, <1>15, <1>16, <1>17, <1>18, <1>19, <1>20, <1>21,
     <1>22, <1>23, <1>24 DEF Next, CallerStep, WorkerStep, Finished

-----------------------------------------------------------------------------
(* The invariant                                                           *)

\* A program that has not used signal forwarding yet satisfies the invariant.
LEMMA InitInvariant == Init => IInv
<1> SUFFICES ASSUME Init PROVE IInv
  OBVIOUS
<1> USE NoneAssumption DEF Init
<1>1. TypeOK
  <2>1. /\ signal_refs \in [DOMAIN signal_refs -> Nat] /\ DOMAIN signal_refs = {}
        /\ old_handlers \in [DOMAIN old_handlers -> {"original", "forward"}]
        /\ DOMAIN old_handlers = {}
    OBVIOUS
  <2>2. /\ request \in [Machine -> Requests \cup {<<>>}] /\ applied \in [Machine -> Seq(Signal)]
        /\ pipe \in [Machine -> Seq(Signal \cup {Sentinel})]
        /\ buffer \in [Machine -> Seq(Signal \cup {Sentinel})]
    BY SMTT(40)
  <2>3. /\ taken \in [Machine -> [write_fd : Fd, worker : Machine,
                                  result : {"done", "failed"}] \cup {None}]
        /\ pc \in [Machine -> Locked \cup ShuttingDown \cup Settled]
    BY DEF Settled
  <2>4. QED BY <2>1, <2>2, <2>3 DEF TypeOK
<1>2. LockInv /\ WorkerInv /\ CreatedInv /\ OpenInv /\ HandlerInv /\ BusyInv
  BY DEF LockInv, WorkerInv, CreatedInv, OpenInv, HandlerInv, BusyInv, Locked
<1>3. ListInv
  BY SMTT(40) DEF ListInv, ShuttingDown
<1>4. TakenInv /\ TakenOnce /\ NoOrphanWorker
  BY DEF TakenInv, TakenOnce, NoOrphanWorker, ShuttingDown
<1>5. RefInv
  <2>1. \A s : Held(s) = {} /\ RefCount(s) = 0
    BY SMTT(40) DEF Held, RefCount
  <2>2. \A s \in Signal \cup Refused : IsFiniteSet(Held(s)) /\ RefCount(s) = Cardinality(Held(s))
    BY <2>1, FS_EmptySet
  <2>3. QED BY <2>2 DEF RefInv
<1>6. QED BY <1>1, <1>2, <1>3, <1>4, <1>5 DEF IInv

\* IInv is an invariant of the signal forwarding.
THEOREM Invariance == Spec => []IInv
<1>1. Init => IInv
  BY InitInvariant
<1>2. IInv /\ [Next]_vars => IInv'
  <2> SUFFICES ASSUME IInv, [Next]_vars PROVE IInv'
    OBVIOUS
  <2>1. TypeOK' /\ LockInv' /\ ListInv' /\ RefInv' /\ WorkerInv' /\ HandlerInv' /\ BusyInv'
    BY TypePreserved, LockPreserved, ListPreserved, RefPreserved, WorkerPreserved,
       HandlerPreserved, BusyPreserved
  <2>2. CreatedInv' /\ OpenInv' /\ TakenInv' /\ TakenOnce' /\ NoOrphanWorker'
    BY ThreadPreserved DEF ThreadInv
  <2>3. QED BY <2>1, <2>2 DEF IInv
<1>3. QED BY <1>1, <1>2, PTL DEF Spec

-----------------------------------------------------------------------------
(* What it says about the properties                                       *)

\* Every variable keeps its type, and the manager's maps have entries only for
\* numbers that register_inner accepts as signals.
THEOREM TypeCorrect == Spec => []TypeOK
<1>1. IInv => TypeOK
  BY DEF IInv
<1>2. QED BY <1>1, Invariance, PTL

\* signal_refs counts the references that are held, for any number of runs
\* that register, fail half way and unregister in any order.
THEOREM ReferencesCounted == Spec => []RefsMatch
<1>1. IInv => RefsMatch
  BY DEF IInv, RefInv, RefsMatch
<1>2. QED BY <1>1, Invariance, PTL

\* A signal that a run holds has a positive count; without any holder the
\* kernel's table has the handler of the host program.
LEMMA HeldIffCaught ==
    ASSUME IInv
    PROVE  /\ \A m \in Machine : \A i \in DOMAIN applied[m] :
                  disposition[applied[m][i]] = "forward"
           /\ \A s \in Signal : disposition[s] = "forward" =>
                  \E m \in Machine : applied[m] # <<>>
<1>1. ASSUME NEW m \in Machine, NEW i \in DOMAIN applied[m]
      PROVE  disposition[applied[m][i]] = "forward"
  <2>1. applied[m][i] \in Signal
    BY SMTT(40) DEF IInv, TypeOK
  <2>2. PICK s \in Signal : s = applied[m][i]
    BY <2>1
  <2>3. Held(s) # {}
    BY <2>2, HeldMember
  <2>4. IsFiniteSet(Held(s)) /\ RefCount(s) = Cardinality(Held(s))
    BY DEF IInv, RefInv
  <2>5. RefCount(s) # 0
    BY <2>3, <2>4, FS_EmptySet
  <2>6. s \in DOMAIN signal_refs
    BY <2>5 DEF RefCount
  <2>7. QED BY <2>2, <2>6 DEF IInv, RefInv
<1>2. ASSUME NEW s \in Signal, disposition[s] = "forward"
      PROVE  \E m \in Machine : applied[m] # <<>>
  <2>1. s \in DOMAIN signal_refs /\ signal_refs[s] > 0
    BY <1>2 DEF IInv, RefInv
  <2>2. RefCount(s) # 0
    BY <2>1, SMTT(40) DEF RefCount
  <2>3. Held(s) # {}
    BY <2>2, FS_EmptySet DEF IInv, RefInv
  <2>4. PICK m \in Machine : \E i \in DOMAIN applied[m] : applied[m][i] = s
    BY <2>3, HeldMember, SMTT(40)
  <2>5. QED BY <2>4, SMTT(40)
<1>3. QED BY <1>1, <1>2

\* While a run is registered, every signal it asked for is caught.
THEOREM HeldCaught == Spec => []HeldSignalsStayCaught
<1>1. IInv => HeldSignalsStayCaught
  <2> SUFFICES ASSUME IInv, NEW m \in registrations, NEW i \in DOMAIN request[m]
               PROVE  request[m][i] \in Signal /\ disposition[request[m][i]] = "forward"
    BY DEF HeldSignalsStayCaught
  <2>1. m \in Machine
    BY DEF IInv, TypeOK
  <2>2. applied[m] = request[m]
    BY <2>1 DEF IInv, ListInv
  <2>3. applied[m][i] \in Signal
    BY <2>1, <2>2, SMTT(40) DEF IInv, TypeOK
  <2>4. QED BY <2>1, <2>2, <2>3, HeldIffCaught
<1>2. QED BY <1>1, Invariance, PTL

\* Whenever the kernel would call forward_signal_handler, the descriptor it
\* would load leads to a worker that still reads.
THEOREM CaughtHasReader == Spec => []CaughtSignalHasReader
<1>1. IInv => CaughtSignalHasReader
  <2> SUFFICES ASSUME IInv, NEW s \in Signal, disposition[s] = "forward"
               PROVE  /\ pipe_write_fd # None
                      /\ LET g == fdOwner[pipe_write_fd]
                         IN /\ g # None /\ thread[g] = "running"
                            /\ Sentinel \notin SeqRange(pipe[g]) \cup SeqRange(buffer[g])
    BY DEF CaughtSignalHasReader
  <2>1. worker # None
    BY HeldIffCaught DEF IInv, WorkerInv
  <2>2. /\ write_fd \in Fd /\ pipe_write_fd = write_fd /\ fdOwner[write_fd] = worker
        /\ thread[worker] = "running" /\ worker \in Machine
        /\ \A i \in 1..Len(pipe[worker]) : pipe[worker][i] # Sentinel
        /\ \A i \in 1..Len(buffer[worker]) : buffer[worker][i] # Sentinel
    BY <2>1 DEF IInv, WorkerInv, TypeOK
  <2>3. /\ DOMAIN pipe[worker] = 1..Len(pipe[worker])
        /\ DOMAIN buffer[worker] = 1..Len(buffer[worker])
    BY <2>2, SMTT(40) DEF IInv, TypeOK
  <2>4. Sentinel \notin SeqRange(pipe[worker]) \cup SeqRange(buffer[worker])
    BY <2>2, <2>3 DEF SeqRange
  <2>5. QED BY <2>1, <2>2, <2>4, NoneAssumption
<1>2. QED BY <1>1, Invariance, PTL

\* Without registrations and calls the host program has its handlers back, and
\* no worker or published descriptor is left, except in the two named cases.
THEOREM Restores == Spec => []QuiescentRestores
<1>1. IInv => QuiescentRestores
  <2> SUFFICES ASSUME IInv, registrations = {}, lock = None
               PROVE  /\ \A s \in Signal : disposition[s] = "original"
                      /\ \/ worker = None /\ pipe_write_fd = None
                         \/ poisoned
                         \/ DOMAIN signal_refs \cap Refused # {}
    BY DEF QuiescentRestores
  <2>1. \A m \in Machine : applied[m] = <<>>
    <3> SUFFICES ASSUME NEW m \in Machine PROVE applied[m] = <<>>
      OBVIOUS
    <3>1. pc[m] \notin Locked /\ pc[m] # "held"
      BY NoneAssumption DEF IInv, LockInv, ListInv
    <3>2. pc[m] \in {"new", "ensure", "done", "failed"} \cup ShuttingDown
      BY <3>1 DEF IInv, TypeOK, Locked, Settled, ShuttingDown
    <3>3. QED BY <3>2 DEF IInv, ListInv
  <2>2. \A s \in Signal : disposition[s] # "forward"
    BY <2>1, HeldIffCaught
  <2>3. \A s \in Signal : disposition[s] = "original" /\ s \notin DOMAIN signal_refs
    BY <2>2 DEF IInv, RefInv, TypeOK
  <2>4. worker # None => DOMAIN signal_refs \cap Refused # {}
    BY <2>3 DEF IInv, BusyInv, TypeOK
  <2>5. worker = None /\ ~poisoned => pipe_write_fd = None
    BY DEF IInv, WorkerInv
  <2>6. QED BY <2>3, <2>4, <2>5
<1>2. QED BY <1>1, Invariance, PTL

\* No worker thread is lost: it is the manager's or somebody joins it.
THEOREM WorkersOwned == Spec => []NoOrphanWorker
<1>1. IInv => NoOrphanWorker
  BY DEF IInv
<1>2. QED BY <1>1, Invariance, PTL

\* A panic under the mutex leaves no registration and no caught signal behind.
THEOREM NobodyStranded == Spec => []NoRegistrationStranded
<1>1. IInv => NoRegistrationStranded
  <2> SUFFICES ASSUME IInv, poisoned
               PROVE  registrations = {} /\ \A s \in Signal : disposition[s] = "original"
    BY DEF NoRegistrationStranded
  <2>1. \A m \in Machine : applied[m] = <<>> /\ pc[m] # "held"
    BY DEF IInv, WorkerInv
  <2>2. registrations = {}
    BY <2>1 DEF IInv, ListInv, TypeOK
  <2>3. \A s \in Signal : disposition[s] = "original"
    BY <2>1, HeldIffCaught, SMTT(40) DEF IInv, TypeOK
  <2>4. QED BY <2>2, <2>3
<1>2. QED BY <1>1, Invariance, PTL
=============================================================================
