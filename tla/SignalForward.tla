---------------------------- MODULE SignalForward ----------------------------
(***************************************************************************)
(* The process-wide signal forwarding of src/src/machine.rs: the manager   *)
(* behind SIGNAL_FORWARD_MANAGER, the pipe between the signal handler and  *)
(* the worker thread, and the kernel's table of signal dispositions.       *)
(*                                                                         *)
(* A Machine stands for one run of a VMM: its task spawns a child, calls   *)
(* register once and unregister at most once.  A registration id names     *)
(* exactly one such run (the u64 counter does not wrap within a process),  *)
(* so the run itself is used as the key of registrations and as the pid of *)
(* its child; the worker thread and the pipe that a run creates in         *)
(* ensure_worker are also named after it.                                  *)
(*                                                                         *)
(* The manager's fields change only under its mutex, but the handler reads *)
(* SIGNAL_PIPE_WRITE_FD and the kernel reads the dispositions without it:  *)
(* every assignment these two can observe is a step of its own.            *)
(***************************************************************************)
EXTENDS Integers, Sequences, FiniteSets

CONSTANTS Machine,       \* runs of a VMM that want signals forwarded
          Signal,        \* signals in 1..255 the kernel lets a process catch
          Refused,       \* signals in 1..255 for which signal() is SIG_ERR
          Invalid,       \* numbers outside 1..255
          Requests,      \* the forward_signals vectors a Machine may hold
          Handler,       \* concurrent activations of forward_signal_handler
          Fd,            \* descriptor numbers a pipe's write end may get
          PipeCapacity,  \* bytes the pipe holds before a write blocks
          ReadSize,      \* size of the worker's read buffer
          None           \* an empty Option, a free lock, descriptor -1

Sentinel == "sentinel"   \* the zero byte that ends a worker

ASSUME SignalsAssumption ==
    /\ Signal \cap Refused = {}
    /\ Signal \cap Invalid = {}
    /\ Refused \cap Invalid = {}
    /\ Sentinel \notin Signal
ASSUME RequestsAssumption ==
    Requests \subseteq Seq(Signal \cup Refused \cup Invalid) \ {<<>>}
ASSUME NoneAssumption == None \notin Machine /\ None \notin Fd
ASSUME SizesAssumption ==
    PipeCapacity \in Nat \ {0} /\ ReadSize \in Nat \ {0}

VARIABLES
    lock,            \* holder of the manager's mutex
    poisoned,        \* a thread panicked while holding it
    registrations,   \* the runs in SignalForwardManager.registrations
    signal_refs,     \* SignalForwardManager.signal_refs, a partial function
    old_handlers,    \* SignalForwardManager.old_handlers, a partial function
    write_fd,        \* SignalForwardManager.write_fd
    worker,          \* SignalForwardManager.worker
    pipe_write_fd,   \* the static SIGNAL_PIPE_WRITE_FD
    disposition,     \* the kernel's handler for each signal
    fdOwner,         \* which pipe's write end a descriptor number denotes
    pc,              \* where each run's task is
    request,         \* the signals it passed to register
    applied,         \* the signals it holds a reference to, in order
    taken,           \* the SignalForwardWorkerShutdown it took
    pipe,            \* unread bytes of each pipe
    thread,          \* state of each worker thread
    buffer,          \* bytes it has read and not yet dispatched
    current,         \* the signal it is dispatching
    targets,         \* children it has still to kill
    hpc,             \* where each activation of the handler is
    hsig,            \* the signal it was called with
    hfd              \* the descriptor it loaded

managerVars == <<registrations, signal_refs, old_handlers, write_fd, worker>>
callerVars == <<pc, request, applied, taken>>
workerVars == <<thread, buffer, current, targets>>
handlerVars == <<hpc, hsig, hfd>>
kernelVars == <<disposition, fdOwner, pipe>>
vars == <<lock, poisoned, managerVars, pipe_write_fd, callerVars, workerVars,
          handlerVars, kernelVars>>

-----------------------------------------------------------------------------
SeqRange(s) == {s[i] : i \in DOMAIN s}

\* HashMap::insert and HashMap::remove.
Insert(f, k, v) == [x \in DOMAIN f \cup {k} |-> IF x = k THEN v ELSE f[x]]
Remove(f, k) == [x \in DOMAIN f \ {k} |-> f[x]]

\* entry(signal).or_default(), and a variant that forgets earlier references.
RefCount_Forgets(s) == 0
RefCount(s) == IF s \in DOMAIN signal_refs THEN signal_refs[s] ELSE 0

\* The signal register_inner's loop has come to.
NextSignal(m) == request[m][Len(applied[m]) + 1]

Goto(m, label) == pc' = [pc EXCEPT ![m] = label]

Init ==
    /\ lock = None
    /\ poisoned = FALSE
    /\ registrations = {}
    /\ signal_refs = [s \in {} |-> 0]
    /\ old_handlers = [s \in {} |-> "original"]
    /\ write_fd = None
    /\ worker = None
    /\ pipe_write_fd = None
    /\ disposition = [s \in Signal |-> "original"]
    /\ fdOwner = [f \in Fd |-> None]
    /\ pc = [m \in Machine |-> "new"]
    /\ request = [m \in Machine |-> <<>>]
    /\ applied = [m \in Machine |-> <<>>]
    /\ taken = [m \in Machine |-> None]
    /\ pipe = [g \in Machine |-> <<>>]
    /\ thread = [g \in Machine |-> "none"]
    /\ buffer = [g \in Machine |-> <<>>]
    /\ current = [g \in Machine |-> None]
    /\ targets = [g \in Machine |-> {}]
    /\ hpc = [h \in Handler |-> "idle"]
    /\ hsig = [h \in Handler |-> None]
    /\ hfd = [h \in Handler |-> None]

-----------------------------------------------------------------------------
(* SignalForwardManager::register, by the task of run m                    *)

RegisterLock(m, signals) ==
    /\ pc[m] = "new" /\ lock = None /\ ~poisoned
    /\ lock' = m
    /\ request' = [request EXCEPT ![m] = signals]
    /\ Goto(m, "ensure")
    /\ UNCHANGED <<poisoned, managerVars, pipe_write_fd, applied, taken,
                   workerVars, handlerVars, kernelVars>>

\* lock() on the poisoned mutex is an Err: nothing is registered.
RegisterPoisoned(m) ==
    /\ pc[m] = "new" /\ lock = None /\ poisoned
    /\ Goto(m, "failed")
    /\ UNCHANGED <<lock, poisoned, managerVars, pipe_write_fd, request, applied,
                   taken, workerVars, handlerVars, kernelVars>>

\* ensure_worker's early return, and a variant without it.
NeedsWorker_Always == TRUE
NeedsWorker == worker = None

EnsureWorkerPresent(m) ==
    /\ pc[m] = "ensure" /\ ~NeedsWorker
    /\ Goto(m, "apply")
    /\ UNCHANGED <<lock, poisoned, managerVars, pipe_write_fd, request, applied,
                   taken, workerVars, handlerVars, kernelVars>>

\* pipe(), the store to the static, thread::spawn.
EnsureWorkerSpawn(m, f) ==
    /\ pc[m] = "ensure" /\ NeedsWorker /\ fdOwner[f] = None
    /\ fdOwner' = [fdOwner EXCEPT ![f] = m]
    /\ pipe_write_fd' = f
    /\ write_fd' = f
    /\ worker' = m
    /\ thread' = [thread EXCEPT ![m] = "running"]
    /\ Goto(m, "apply")
    /\ UNCHANGED <<lock, poisoned, registrations, signal_refs, old_handlers,
                   request, applied, taken, buffer, current, targets,
                   handlerVars, disposition, pipe>>

\* pipe() fails: register_inner returns before it applied any signal.
EnsureWorkerPipeFails(m) ==
    /\ pc[m] = "ensure" /\ NeedsWorker
    /\ Goto(m, "release_failed")
    /\ UNCHANGED <<lock, poisoned, managerVars, pipe_write_fd, request, applied,
                   taken, workerVars, handlerVars, kernelVars>>

\* thread::spawn panics: both ends of the new pipe are dropped and the
\* mutex is poisoned, but the static keeps the number of the closed end.
EnsureWorkerSpawnPanics(m, f) ==
    /\ pc[m] = "ensure" /\ NeedsWorker /\ fdOwner[f] = None
    /\ pipe_write_fd' = f
    /\ poisoned' = TRUE
    /\ lock' = None
    /\ Goto(m, "failed")
    /\ UNCHANGED <<managerVars, request, applied, taken, workerVars,
                   handlerVars, kernelVars>>

\* One round of register_inner's loop that succeeds.
ApplySignal(m) ==
    /\ pc[m] = "apply"
    /\ Len(applied[m]) < Len(request[m])
    /\ LET s == NextSignal(m)
       IN /\ s \in Signal
          /\ signal_refs' = Insert(signal_refs, s, RefCount(s) + 1)
          /\ IF RefCount(s) = 0
             THEN /\ old_handlers' = Insert(old_handlers, s, disposition[s])
                  /\ disposition' = [disposition EXCEPT ![s] = "forward"]
             ELSE UNCHANGED <<old_handlers, disposition>>
          /\ applied' = [applied EXCEPT ![m] = Append(@, s)]
    /\ UNCHANGED <<lock, poisoned, registrations, write_fd, worker,
                   pipe_write_fd, pc, request, taken, workerVars,
                   handlerVars, fdOwner, pipe>>

\* entry(signal).or_default() has already put a zero count in signal_refs when
\* signal() answers SIG_ERR, and it stays there; an invalid number is turned
\* down before.  The variant validates too late.
LeavesEntry_Late(s) == TRUE
LeavesEntry(s) == s \in Refused

\* One round that fails.
RejectSignal(m) ==
    /\ pc[m] = "apply"
    /\ Len(applied[m]) < Len(request[m])
    /\ LET s == NextSignal(m)
       IN /\ s \notin Signal
          /\ signal_refs' = IF LeavesEntry(s)
                            THEN Insert(signal_refs, s, RefCount(s))
                            ELSE signal_refs
    /\ Goto(m, "release_failed")
    /\ UNCHANGED <<lock, poisoned, registrations, old_handlers, write_fd,
                   worker, pipe_write_fd, request, applied, taken, workerVars,
                   handlerVars, kernelVars>>

\* The registration is inserted and the mutex released.
RegisterCommit(m) ==
    /\ pc[m] = "apply"
    /\ Len(applied[m]) = Len(request[m])
    /\ registrations' = registrations \cup {m}
    /\ lock' = None
    /\ Goto(m, "held")
    /\ UNCHANGED <<poisoned, signal_refs, old_handlers, write_fd, worker,
                   pipe_write_fd, request, applied, taken, workerVars,
                   handlerVars, kernelVars>>

-----------------------------------------------------------------------------
(* SignalForwardManager::unregister, and what it shares with a register    *)
(* that failed: release_signals, take_shutdown_if_idle and shutdown        *)

Releasing(m) == pc[m] \in {"release", "release_failed"}
Returned(m) == IF pc[m] = "release_failed" THEN "failed" ELSE "done"

\* unregister_inner removes the registration first.  A poisoned mutex never
\* meets a registration (NoRegistrationStranded).
UnregisterLock(m) ==
    /\ pc[m] = "held" /\ lock = None /\ ~poisoned
    /\ lock' = m
    /\ registrations' = registrations \ {m}
    /\ applied' = [applied EXCEPT ![m] = request[m]]
    /\ Goto(m, "release")
    /\ UNCHANGED <<poisoned, signal_refs, old_handlers, write_fd, worker,
                   pipe_write_fd, request, taken, workerVars, handlerVars,
                   kernelVars>>

\* Somebody else holds s too, so that its handler stays; the variant is off by
\* one.
Shared_OffByOne(s) == signal_refs[s] > 2
Shared(s) == signal_refs[s] > 1

\* One round of release_signals, which goes through the list backwards.
ReleaseSignal(m) ==
    /\ Releasing(m)
    /\ applied[m] # <<>>
    /\ LET n == Len(applied[m])
           s == applied[m][n]
       IN /\ applied' = [applied EXCEPT ![m] = SubSeq(@, 1, n - 1)]
          /\ IF s \notin DOMAIN signal_refs
             THEN UNCHANGED <<signal_refs, old_handlers, disposition>>
             ELSE IF Shared(s)
             THEN /\ signal_refs' = [signal_refs EXCEPT ![s] = @ - 1]
                  /\ UNCHANGED <<old_handlers, disposition>>
             ELSE /\ signal_refs' = Remove(signal_refs, s)
                  /\ old_handlers' = Remove(old_handlers, s)
                  /\ disposition' = IF s \in DOMAIN old_handlers
                                    THEN [disposition EXCEPT ![s] = old_handlers[s]]
                                    ELSE disposition
    /\ UNCHANGED <<lock, poisoned, registrations, write_fd, worker,
                   pipe_write_fd, pc, request, taken, workerVars,
                   handlerVars, fdOwner, pipe>>

\* The test of take_shutdown_if_idle: no registration, no signal_refs entry.
\* The variant leaves it out.
Idle_Always == TRUE
Idle == registrations = {} /\ DOMAIN signal_refs = {}

\* take_shutdown_if_idle returns None; the mutex is released.
ReleaseStay(m) ==
    /\ Releasing(m) /\ applied[m] = <<>>
    /\ ~Idle \/ worker = None
    /\ lock' = None
    /\ Goto(m, Returned(m))
    /\ UNCHANGED <<poisoned, managerVars, pipe_write_fd, request, applied,
                   taken, workerVars, handlerVars, kernelVars>>

\* take_shutdown_if_idle returns Some; the caller goes on to shut the worker
\* down, with the mutex in state lockAfter.
TakeShutdown(m, lockAfter) ==
    /\ Releasing(m) /\ applied[m] = <<>>
    /\ Idle /\ worker # None
    /\ taken' = [taken EXCEPT ![m] = [write_fd |-> write_fd,
                                      worker |-> worker,
                                      result |-> Returned(m)]]
    /\ write_fd' = None
    /\ worker' = None
    /\ pipe_write_fd' = None
    /\ lock' = lockAfter
    /\ Goto(m, "sentinel")
    /\ UNCHANGED <<poisoned, registrations, signal_refs, old_handlers, request,
                   applied, workerVars, handlerVars, kernelVars>>

\* The mutex is released first; the variant joins the worker inside its scope.
ReleaseTake_Locked(m) == TakeShutdown(m, m)
ReleaseTake(m) == TakeShutdown(m, None)

\* SignalForwardWorkerShutdown::shutdown, after the mutex was released.  The
\* write blocks while the pipe is full.
WriteSentinel(m) ==
    /\ pc[m] = "sentinel"
    /\ LET g == taken[m].worker
       IN /\ Len(pipe[g]) < PipeCapacity
          /\ pipe' = [pipe EXCEPT ![g] = Append(@, Sentinel)]
    /\ Goto(m, "drop")
    /\ UNCHANGED <<lock, poisoned, managerVars, pipe_write_fd, request, applied,
                   taken, workerVars, handlerVars, disposition, fdOwner>>

DropWriteFd(m) ==
    /\ pc[m] = "drop"
    /\ fdOwner' = [fdOwner EXCEPT ![taken[m].write_fd] = None]
    /\ Goto(m, "join")
    /\ UNCHANGED <<lock, poisoned, managerVars, pipe_write_fd, request, applied,
                   taken, workerVars, handlerVars, disposition, pipe>>

\* JoinHandle::join waits for the thread; the variant drops the handle.
Joinable_Detached(g) == TRUE
Joinable(g) == thread[g] = "exited"

JoinWorker(m) ==
    /\ pc[m] = "join"
    /\ Joinable(taken[m].worker)
    /\ Goto(m, taken[m].result)
    /\ taken' = [taken EXCEPT ![m] = None]
    /\ UNCHANGED <<lock, poisoned, managerVars, pipe_write_fd, request, applied,
                   workerVars, handlerVars, kernelVars>>

-----------------------------------------------------------------------------
(* The worker thread g spawned by ensure_worker                            *)

\* The thread is between two bytes: no kill of the previous one is pending.
Scanning(g) == thread[g] = "running" /\ targets[g] = {}

\* read(): what the pipe holds, up to the size of the buffer.
WorkerRead(g) ==
    /\ Scanning(g) /\ buffer[g] = <<>> /\ pipe[g] # <<>>
    /\ LET n == IF Len(pipe[g]) < ReadSize THEN Len(pipe[g]) ELSE ReadSize
       IN /\ buffer' = [buffer EXCEPT ![g] = SubSeq(pipe[g], 1, n)]
          /\ pipe' = [pipe EXCEPT ![g] = SubSeq(@, n + 1, Len(@))]
    /\ current' = [current EXCEPT ![g] = None]
    /\ UNCHANGED <<lock, poisoned, managerVars, pipe_write_fd, callerVars, thread,
                   targets, handlerVars, disposition, fdOwner>>

\* A zero byte: the thread returns and drops the read end, whatever follows
\* in the buffer or in the pipe.
WorkerExit(g) ==
    /\ Scanning(g) /\ buffer[g] # <<>> /\ Head(buffer[g]) = Sentinel
    /\ thread' = [thread EXCEPT ![g] = "exited"]
    /\ buffer' = [buffer EXCEPT ![g] = <<>>]
    /\ pipe' = [pipe EXCEPT ![g] = <<>>]
    /\ current' = [current EXCEPT ![g] = None]
    /\ UNCHANGED <<lock, poisoned, managerVars, pipe_write_fd, callerVars,
                   targets, handlerVars, disposition, fdOwner>>

\* The children dispatch_signal collects.
Targets(s) == {m \in registrations : ~poisoned /\ s \in SeqRange(request[m])}

\* dispatch_signal up to the end of its critical section.
DispatchCollect(g) ==
    /\ Scanning(g) /\ buffer[g] # <<>> /\ Head(buffer[g]) # Sentinel
    /\ lock = None
    /\ LET s == Head(buffer[g])
       IN /\ current' = [current EXCEPT ![g] = s]
          /\ targets' = [targets EXCEPT ![g] = Targets(s)]
    /\ buffer' = [buffer EXCEPT ![g] = Tail(@)]
    /\ UNCHANGED <<lock, poisoned, managerVars, pipe_write_fd, callerVars, thread,
                   handlerVars, kernelVars>>

\* One kill() of dispatch_signal, in whatever order the HashMap yields the pids.
DispatchKill(g, m) ==
    /\ thread[g] = "running" /\ m \in targets[g]
    /\ targets' = [targets EXCEPT ![g] = @ \ {m}]
    /\ UNCHANGED <<lock, poisoned, managerVars, pipe_write_fd, callerVars, thread,
                   buffer, current, handlerVars, kernelVars>>

-----------------------------------------------------------------------------
(* The kernel calls forward_signal_handler, which runs without any lock    *)

HandlerEnter(h, s) ==
    /\ hpc[h] = "idle"
    /\ disposition[s] = "forward"
    /\ hpc' = [hpc EXCEPT ![h] = "entered"]
    /\ hsig' = [hsig EXCEPT ![h] = s]
    /\ UNCHANGED <<lock, poisoned, managerVars, pipe_write_fd, callerVars,
                   workerVars, hfd, kernelVars>>

HandlerReturn(h) ==
    /\ hpc' = [hpc EXCEPT ![h] = "idle"]
    /\ hsig' = [hsig EXCEPT ![h] = None]
    /\ hfd' = [hfd EXCEPT ![h] = None]

\* The load of the static; the handler returns at once when it is -1.
HandlerLoad(h) ==
    /\ hpc[h] = "entered"
    /\ IF pipe_write_fd = None
       THEN HandlerReturn(h)
       ELSE /\ hfd' = [hfd EXCEPT ![h] = pipe_write_fd]
            /\ hpc' = [hpc EXCEPT ![h] = "loaded"]
            /\ hsig' = hsig
    /\ UNCHANGED <<lock, poisoned, managerVars, pipe_write_fd, callerVars,
                   workerVars, kernelVars>>

\* The number that was loaded no longer denotes a pipe with a reader: it is
\* closed, belongs to a file outside this model, or its worker has returned.
NoReader(f) == \A g \in Machine : fdOwner[f] = g => thread[g] = "exited"

\* The write to that number, which by now may also denote a later pipe.
HandlerWrite(h) ==
    /\ hpc[h] = "loaded"
    /\ LET g == fdOwner[hfd[h]]
       IN \/ /\ NoReader(hfd[h])
             /\ pipe' = pipe
          \/ /\ ~NoReader(hfd[h])
             /\ Len(pipe[g]) < PipeCapacity
             /\ pipe' = [pipe EXCEPT ![g] = Append(@, hsig[h])]
    /\ HandlerReturn(h)
    /\ UNCHANGED <<lock, poisoned, managerVars, pipe_write_fd, callerVars,
                   workerVars, disposition, fdOwner>>

-----------------------------------------------------------------------------
\* What the task of m does once a call has begun.
CallerStep(m) ==
    \/ EnsureWorkerPresent(m)
    \/ EnsureWorkerPipeFails(m)
    \/ \E f \in Fd : EnsureWorkerSpawn(m, f) \/ EnsureWorkerSpawnPanics(m, f)
    \/ ApplySignal(m)
    \/ RejectSignal(m)
    \/ RegisterCommit(m)
    \/ ReleaseSignal(m)
    \/ ReleaseStay(m)
    \/ ReleaseTake(m)
    \/ WriteSentinel(m)
    \/ DropWriteFd(m)
    \/ JoinWorker(m)

WorkerStep(g) ==
    \/ WorkerRead(g)
    \/ WorkerExit(g)
    \/ DispatchCollect(g)
    \/ \E m \in Machine : DispatchKill(g, m)

\* Every call has returned, every activation of the handler too, and the
\* worker (if one is left) waits in read().
Finished ==
    /\ \A m \in Machine : pc[m] \in {"done", "failed"}
    /\ \A h \in Handler : hpc[h] = "idle"
    /\ \A g \in Machine : Scanning(g) => buffer[g] = <<>> /\ pipe[g] = <<>>
    /\ UNCHANGED vars

Next ==
    \/ \E m \in Machine, signals \in Requests : RegisterLock(m, signals)
    \/ \E m \in Machine : RegisterPoisoned(m)
    \/ \E m \in Machine : CallerStep(m)
    \/ \E m \in Machine : UnregisterLock(m)
    \/ \E g \in Machine : WorkerStep(g)
    \/ \E h \in Handler, s \in Signal : HandlerEnter(h, s)
    \/ \E h \in Handler : HandlerLoad(h)
    \/ \E h \in Handler : HandlerWrite(h)
    \/ Finished

\* A thread that can run eventually runs; a blocked write() is served in the
\* order of the kernel's wait queue, hence the strong fairness.  Nothing makes
\* a task call register or unregister, and nothing makes a signal arrive.
Fairness ==
    /\ \A m \in Machine : WF_vars(CallerStep(m))
    /\ \A g \in Machine : WF_vars(WorkerStep(g))
    /\ \A h \in Handler : WF_vars(HandlerLoad(h)) /\ SF_vars(HandlerWrite(h))

Spec == Init /\ [][Next]_vars
FairSpec == Spec /\ Fairness

-----------------------------------------------------------------------------
(* Properties                                                              *)

Locked == {"ensure", "apply", "release", "release_failed"}
ShuttingDown == {"sentinel", "drop", "join"}
Settled == {"new", "held", "done", "failed"}

\* Every variable has its type; the two maps of the manager have an entry only
\* for signals that passed the range check of register_inner.
TypeOK ==
    /\ lock \in Machine \cup {None}
    /\ poisoned \in BOOLEAN
    /\ registrations \in SUBSET Machine
    /\ signal_refs \in [DOMAIN signal_refs -> Nat]
    /\ DOMAIN signal_refs \subseteq Signal \cup Refused
    /\ old_handlers \in [DOMAIN old_handlers -> {"original", "forward"}]
    /\ DOMAIN old_handlers \subseteq Signal
    /\ write_fd \in Fd \cup {None}
    /\ worker \in Machine \cup {None}
    /\ pipe_write_fd \in Fd \cup {None}
    /\ disposition \in [Signal -> {"original", "forward"}]
    /\ fdOwner \in [Fd -> Machine \cup {None}]
    /\ pc \in [Machine -> Locked \cup ShuttingDown \cup Settled]
    /\ request \in [Machine -> Requests \cup {<<>>}]
    /\ applied \in [Machine -> Seq(Signal)]
    /\ taken \in [Machine -> [write_fd : Fd, worker : Machine,
                              result : {"done", "failed"}] \cup {None}]
    /\ pipe \in [Machine -> Seq(Signal \cup {Sentinel})]
    /\ thread \in [Machine -> {"none", "running", "exited"}]
    /\ buffer \in [Machine -> Seq(Signal \cup {Sentinel})]
    /\ current \in [Machine -> Signal \cup {None}]
    /\ targets \in [Machine -> SUBSET Machine]
    /\ hpc \in [Handler -> {"idle", "entered", "loaded"}]
    /\ hsig \in [Handler -> Signal \cup {None}]
    /\ hfd \in [Handler -> Fd \cup {None}]

\* The references to s that are held: who holds it, at which place of its list.
Held(s) == UNION {{<<m, i>> : i \in {j \in DOMAIN applied[m] : applied[m][j] = s}} :
                    m \in Machine}

\* signal_refs counts exactly the references that registered runs, and the one
\* in the middle of register or unregister, hold: no failure path of
\* register_inner and no repeated signal leaks or over-releases a reference.
RefsMatch == \A s \in Signal \cup Refused : RefCount(s) = Cardinality(Held(s))

\* While a run is registered, each signal it asked for is caught by
\* forward_signal_handler, whoever else registers, fails or unregisters.
HeldSignalsStayCaught ==
    \A m \in registrations : \A i \in DOMAIN request[m] :
        request[m][i] \in Signal /\ disposition[request[m][i]] = "forward"

\* As long as the kernel would call forward_signal_handler, the descriptor it
\* would load is the open write end of a pipe whose worker runs and has not
\* been sent the zero byte.
CaughtSignalHasReader ==
    \A s \in Signal : disposition[s] = "forward" =>
        /\ pipe_write_fd # None
        /\ LET g == fdOwner[pipe_write_fd]
           IN /\ g # None /\ thread[g] = "running"
              /\ Sentinel \notin SeqRange(pipe[g]) \cup SeqRange(buffer[g])

\* With nobody registered and no call in progress the handlers of the host
\* program are back, and the worker and the static descriptor are gone, except
\* after a poisoned mutex or after signal() refused a signal: the zero count
\* that register_inner then leaves keeps take_shutdown_if_idle from succeeding.
QuiescentRestores ==
    (registrations = {} /\ lock = None) =>
        /\ \A s \in Signal : disposition[s] = "original"
        /\ \/ worker = None /\ pipe_write_fd = None
           \/ poisoned
           \/ DOMAIN signal_refs \cap Refused # {}

\* A running worker thread is the manager's current one, or the caller that
\* took it is still in shutdown() and will join it.
NoOrphanWorker ==
    \A g \in Machine : thread[g] = "running" =>
        \/ g = worker
        \/ \E m \in Machine : pc[m] \in ShuttingDown /\ taken[m].worker = g

\* A panic of thread::spawn under the mutex strands nobody: ensure_worker only
\* spawns when no run is registered and no signal is caught, so unregister,
\* which silently ignores a poisoned mutex, has nothing left to undo.
NoRegistrationStranded ==
    poisoned => /\ registrations = {}
                /\ \A s \in Signal : disposition[s] = "original"

\* A signal that arrives while a run is registered for it is sent on to its
\* child by some worker, unless the run is unregistered first.
SignalForwarded ==
    \A h \in Handler, m \in Machine, s \in Signal :
        (hpc[h] = "entered" /\ hsig[h] = s /\ pc[m] = "held" /\ s \in SeqRange(request[m]))
            ~> \/ \E g \in Machine : m \in targets[g] /\ current[g] = s
               \/ pc[m] # "held"

\* register and unregister return: the join in shutdown() ends although the
\* worker needs the mutex for every byte in front of the zero byte.  And no
\* activation of the handler stays blocked in write(), also not on a full pipe
\* that is being shut down.
CallsReturn ==
    /\ \A m \in Machine : (pc[m] \in Locked \cup ShuttingDown) ~> (pc[m] \in Settled)
    /\ \A h \in Handler : (hpc[h] = "loaded") ~> (hpc[h] = "idle")
=============================================================================
