-------------------------- MODULE MachineLifecycle --------------------------
(***************************************************************************)
(* The life of one Machine of src/src/machine.rs: start, start_vmm,        *)
(* stop_vmm, wait and pid, the abort of a failed start, the stack of       *)
(* cleanup functions and the error that wait() keeps reporting.            *)
(*                                                                         *)
(* The methods take &mut self, so one call runs at a time; what runs       *)
(* beside it is the child process, which may exit at any moment, and the   *)
(* thread of the signal forwarder, which may kill the registered pid at    *)
(* any moment.  A step goes from one point where the call is suspended (an *)
(* await), forks, or has just reaped the child to the next.  The caller    *)
(* may also drop the future of a suspended call (MayCancel).               *)
(*                                                                         *)
(* An error is the set of the parts its message is joined from: "start"    *)
(* (why starting failed), "stop" (the kill failed), "exit" (the VMM's exit *)
(* status) and "cleanup".  The empty set is None or Ok.  waitpid() on a     *)
(* child that only this process reaps does not fail, so the io errors of   *)
(* wait and try_wait are left out.                                         *)
(***************************************************************************)
EXTENDS Integers, Sequences

CONSTANTS Handlers,     \* kinds of the handlers that start() runs, in order
          MaxChildren,  \* bound on the processes a Machine spawns
          MaxCleanups,  \* bound on cleanup_funcs for calls beside start()
          Forwards,     \* forward_signals is not empty
          MayCancel,    \* callers drop futures before they complete
          MayRestart    \* callers spawn again after a process was spawned, and
                        \* call the steps of start() by themselves

HandlerKinds == {"network", "vmm", "log_files", "api"}

ASSUME HandlersAssumption == Handlers \in Seq(HandlerKinds)
ASSUME BoundsAssumption == MaxChildren \in Nat \ {0} /\ MaxCleanups \in Nat
ASSUME FlagsAssumption == {Forwards, MayCancel, MayRestart} \subseteq BOOLEAN

Child == 1..MaxChildren
None == 0

VARIABLES
    started, process, cleanup_funcs, cleanup_done, fatal_err,
    signal_forwarder,  \* the child the registration names, or None
    exit_event,
    op,                \* the call in progress
    pc,                \* where it is
    next,              \* the handler start() has come to
    err,               \* the error abort_start was given
    nested,            \* abort_start was called by start_vmm, not by start
    waiting,           \* the child taken out of process and waited for
    exit_result,       \* the error of the exit status that was collected
    child,             \* state of each process
    termed,            \* processes that were sent SIGTERM
    lost,              \* processes whose Child was dropped unreaped
    start_err          \* what the last start() or start_vmm() aborted with

machineVars == <<started, process, cleanup_funcs, cleanup_done, fatal_err,
                 signal_forwarder, exit_event>>
callVars == <<op, pc, next, err, nested, waiting, exit_result>>
vars == <<machineVars, callVars, child, termed, lost, start_err>>

Init ==
    /\ started = FALSE
    /\ process = None
    /\ cleanup_funcs = <<>>
    /\ cleanup_done = FALSE
    /\ fatal_err = {}
    /\ signal_forwarder = None
    /\ exit_event = FALSE
    /\ op = "none"
    /\ pc = "idle"
    /\ next = 1
    /\ err = {}
    /\ nested = FALSE
    /\ waiting = None
    /\ exit_result = {}
    /\ child = [c \in Child |-> "unborn"]
    /\ termed = {}
    /\ lost = {}
    /\ start_err = {}

-----------------------------------------------------------------------------
(* Pieces the methods share                                                *)

Exited == {"success", "failure"}   \* a zombie, by its exit status

\* exit_status_result
ExitError(c) == IF c # None /\ child[c] = "failure" THEN {"exit"} ELSE {}

\* wait() or try_wait() collects the status of c; its pid is free from now on.
Reap(c) == child' = [child EXCEPT ![c] = "reaped"]

\* push_cleanup_func(s); the variant forgets that there is work again.
Push_KeepDone(rs) ==
    cleanup_funcs' = cleanup_funcs \o rs /\ cleanup_done' = cleanup_done
Push(rs) ==
    cleanup_funcs' = cleanup_funcs \o rs /\ cleanup_done' = FALSE

\* shutdown_signal_forwarder, and a variant that leaves the registration.
ShutdownForwarder_Skipped == UNCHANGED signal_forwarder
ShutdownForwarder == signal_forwarder' = None

\* signal_exit
SetExitEvent == exit_event' = TRUE

\* The errors do_cleanup may end with: none once it has run.  The variant runs
\* the functions again.
CleanupErrors_Again == {{}, {"cleanup"}}
CleanupErrors ==
    IF cleanup_done \/ cleanup_funcs = <<>> THEN {{}} ELSE {{}, {"cleanup"}}

\* do_cleanup pops every function, whatever the earlier ones returned.  The
\* variant pops one.
DoCleanup_PopsOne ==
    /\ cleanup_done' = TRUE
    /\ cleanup_funcs' = IF cleanup_done \/ cleanup_funcs = <<>> THEN cleanup_funcs
                        ELSE SubSeq(cleanup_funcs, 1, Len(cleanup_funcs) - 1)
DoCleanup ==
    /\ cleanup_done' = TRUE
    /\ cleanup_funcs' = IF cleanup_done THEN cleanup_funcs ELSE <<>>

\* remember_terminal_error
Remembered(e) == IF fatal_err = {} THEN e ELSE fatal_err

\* finalize_exit_result followed by remember_terminal_error.
Finalize(exitError) ==
    /\ ShutdownForwarder
    /\ SetExitEvent
    /\ DoCleanup
    /\ \E e \in CleanupErrors : fatal_err' = Remembered(exitError \cup e)

\* The future completes.
Return ==
    /\ op' = "none"
    /\ pc' = "idle"
    /\ next' = 1
    /\ err' = {}
    /\ nested' = FALSE
    /\ waiting' = None
    /\ exit_result' = {}

\* return Err(self.abort_start(error).await), from start_vmm or from start.
Abort(e, fromVmm) ==
    /\ pc' = "abort"
    /\ err' = e
    /\ nested' = fromVmm
    /\ UNCHANGED <<op, next, waiting, exit_result>>

Call(name, label) ==
    /\ op' = name
    /\ pc' = label
    /\ UNCHANGED <<next, err, nested>>

-----------------------------------------------------------------------------
(* start(): the handlers, then InstanceStart                               *)

Unspawned == \A c \in Child : child[c] = "unborn"

Start ==
    /\ pc = "idle" /\ ~started
    /\ MayRestart \/ Unspawned
    /\ started' = TRUE
    /\ Call("start", "handlers")
    /\ UNCHANGED <<process, cleanup_funcs, cleanup_done, fatal_err,
                   signal_forwarder, exit_event, waiting, exit_result, child,
                   termed, lost, start_err>>

HandlerIs(kind) == pc = "handlers" /\ next <= Len(Handlers) /\ Handlers[next] = kind

\* A handler succeeds after pushing the cleanup functions rs.
HandlerOk(rs) ==
    /\ IF rs = <<>> THEN UNCHANGED <<cleanup_funcs, cleanup_done>> ELSE Push(rs)
    /\ next' = next + 1
    /\ UNCHANGED <<started, process, fatal_err, signal_forwarder, exit_event, op,
                   pc, err, nested, waiting, exit_result, child, termed, lost,
                   start_err>>

\* A handler fails after pushing the cleanup functions rs.
HandlerErr(rs) ==
    /\ IF rs = <<>> THEN UNCHANGED <<cleanup_funcs, cleanup_done>> ELSE Push(rs)
    /\ Abort({"start"}, FALSE)
    /\ UNCHANGED <<started, process, fatal_err, signal_forwarder, exit_event,
                   child, termed, lost, start_err>>

\* setup_network for a CNI interface pushes what setup_cni returned, or fails.
SetupNetwork == HandlerIs("network") /\ (HandlerOk(<<"network">>) \/ HandlerErr(<<>>))

\* create_log_files makes the FIFOs that are configured and a cleanup function
\* for each (a plain file gets none); the second may fail after the first.
LogFifos == {<<>>, <<"metrics_fifo">>, <<"log_fifo">>, <<"metrics_fifo", "log_fifo">>}

CreateLogFiles ==
    /\ HandlerIs("log_files")
    /\ \/ \E rs \in LogFifos : HandlerOk(rs)
       \/ \E rs \in {<<>>, <<"metrics_fifo">>} : HandlerErr(rs)

\* Every other handler: API requests, whose effects are in the VMM.
ApiHandler == HandlerIs("api") /\ (HandlerOk(<<>>) \/ HandlerErr(<<>>))

VmmHandler ==
    /\ HandlerIs("vmm")
    /\ pc' = "spawn"
    /\ UNCHANGED <<machineVars, op, next, err, nested, waiting, exit_result, child,
                   termed, lost, start_err>>

\* start_instance
StartInstance ==
    /\ pc = "handlers" /\ next > Len(Handlers)
    /\ Return /\ UNCHANGED <<machineVars, child, termed, lost, start_err>>

StartInstanceErr ==
    /\ pc = "handlers" /\ next > Len(Handlers)
    /\ HandlerErr(<<>>)

-----------------------------------------------------------------------------
(* start_vmm(), called by its handler or directly                          *)

StartVmm ==
    /\ pc = "idle"
    /\ MayRestart \/ (Unspawned /\ ~started)
    /\ Call("start_vmm", "spawn")
    /\ UNCHANGED <<machineVars, waiting, exit_result, child, termed, lost, start_err>>

\* The command is missing (exit_event is not reset yet then), its stdio or its
\* namespace is, or the spawn fails.  start() aborts; a direct caller just gets
\* the error.
SpawnErr ==
    /\ pc = "spawn"
    /\ exit_event' \in {exit_event, FALSE}
    /\ start_err' = {}
    /\ IF op = "start" THEN Abort({"start"}, FALSE) ELSE Return
    /\ UNCHANGED <<started, process, cleanup_funcs, cleanup_done, fatal_err,
                   signal_forwarder, child, termed, lost>>

\* install_signal_forwarder does nothing when a forwarder is already there.
Forwarder(c) ==
    IF Forwards /\ signal_forwarder = None THEN c ELSE signal_forwarder

\* The child runs; process is overwritten.
Spawn(c) ==
    /\ pc = "spawn"
    /\ child[c] = "unborn" /\ \A d \in 1..(c - 1) : child[d] # "unborn"
    /\ exit_event' = FALSE
    /\ process' = c
    /\ lost' = lost \cup ({process} \ {None})
    /\ child' = [child EXCEPT ![c] = "running"]
    /\ Push(<<"socket">>)
    /\ \/ /\ signal_forwarder' = Forwarder(c)
          /\ pc' = "poll"
          /\ UNCHANGED <<op, next, err, nested, waiting, exit_result>>
       \/ /\ Forwards /\ signal_forwarder = None
          /\ signal_forwarder' = None
          /\ Abort({"start"}, TRUE)
    /\ start_err' = {}
    /\ UNCHANGED <<started, fatal_err, termed>>

\* wait_for_vmm_ready: try_wait at the top of each round.
PollExited ==
    /\ pc = "poll"
    /\ child[process] \in Exited
    /\ Reap(process)
    /\ process' = None
    /\ Abort({"start"}, TRUE)
    /\ UNCHANGED <<started, cleanup_funcs, cleanup_done, fatal_err,
                   signal_forwarder, exit_event, termed, lost, start_err>>

PollAlive ==
    /\ pc = "poll"
    /\ child[process] = "running"
    /\ pc' = "probe"
    /\ UNCHANGED <<machineVars, op, next, err, nested, waiting, exit_result, child,
                   termed, lost, start_err>>

\* The API answered.
ProbeReady ==
    /\ pc = "probe"
    /\ IF op = "start"
       THEN /\ pc' = "handlers" /\ next' = next + 1
            /\ UNCHANGED <<op, err, nested, waiting, exit_result>>
       ELSE Return
    /\ UNCHANGED <<machineVars, child, termed, lost, start_err>>

\* Not yet: sleep and go round again.
ProbeAgain ==
    /\ pc = "probe"
    /\ pc' = "poll"
    /\ UNCHANGED <<machineVars, op, next, err, nested, waiting, exit_result, child,
                   termed, lost, start_err>>

ProbeTimeout ==
    /\ pc = "probe"
    /\ Abort({"start"}, TRUE)
    /\ UNCHANGED <<machineVars, child, termed, lost, start_err>>

-----------------------------------------------------------------------------
(* abort_start()                                                           *)

\* fatal_err after abort_start, given what was there: it is overwritten.  The
\* variant keeps an earlier error, as remember_terminal_error does.
Terminal_Keep(old, final) == IF old = {} THEN final ELSE old
Terminal(old, final) == final

\* The end of abort_start, once no process is left.  When start_vmm aborted
\* inside start(), its error makes start() abort as well.
EndAbort(old, final) ==
    /\ ShutdownForwarder
    /\ SetExitEvent
    /\ DoCleanup
    /\ fatal_err' = Terminal(old, final)
    /\ start_err' = final
    /\ IF nested /\ op = "start"
       THEN /\ pc' = "abort" /\ err' = final /\ nested' = FALSE
            /\ waiting' = None /\ exit_result' = {} /\ UNCHANGED <<op, next>>
       ELSE Return

AbortNoProcess ==
    /\ pc = "abort" /\ process = None
    /\ \E e \in CleanupErrors : EndAbort(fatal_err, err \cup e)
    /\ UNCHANGED <<started, process, child, termed, lost>>

\* send_sigterm_to_vmm: the child is told to stop, unless its try_wait finds
\* that it has exited and reaps it.  The variant sends nothing.
Sigterm_Skipped == UNCHANGED <<termed, child>>
Sigterm ==
    IF process # None /\ child[process] = "running"
    THEN termed' = termed \cup {process} /\ child' = child
    ELSE /\ termed' = termed
         /\ IF process = None THEN child' = child ELSE Reap(process)

\* process.take() in wait_for_process_exit, and the await on the child, which
\* is ready at once when its status was collected before.
TakeAndWait ==
    /\ process' = None
    /\ IF process # None /\ child'[process] = "reaped"
       THEN waiting' = None /\ exit_result' = ExitError(process)
       ELSE waiting' = process /\ exit_result' = {}

\* The stop_vmm in abort_start, up to its await.
AbortStop ==
    /\ pc = "abort" /\ process # None
    /\ SetExitEvent
    /\ Sigterm
    /\ TakeAndWait
    /\ pc' = "abort_stop"
    /\ UNCHANGED <<started, cleanup_funcs, cleanup_done, fatal_err,
                   signal_forwarder, op, next, err, nested, lost, start_err>>

\* kill() fails: stop_vmm returns at once and abort_start itself waits.
AbortKillErr ==
    /\ pc = "abort" /\ process # None /\ child[process] = "running"
    /\ SetExitEvent
    /\ ShutdownForwarder
    /\ err' = err \cup {"stop"}
    /\ UNCHANGED child /\ TakeAndWait
    /\ pc' = "abort_wait"
    /\ UNCHANGED <<started, cleanup_funcs, cleanup_done, fatal_err, op, next,
                   nested, termed, lost, start_err>>

\* child.wait() is ready: the status is collected, and the call goes on.
ChildWaited ==
    /\ waiting # None /\ child[waiting] \in Exited
    /\ Reap(waiting)
    /\ exit_result' = ExitError(waiting)
    /\ waiting' = None
    /\ UNCHANGED <<machineVars, op, pc, next, err, nested, termed, lost, start_err>>

\* The call is behind its await; the variant does not wait.
Waited_NoWait == TRUE
Waited == waiting = None

\* The stop_vmm in abort_start finalizes and remembers its error.  It returns
\* Ok and leaves do_cleanup nothing to do, so that error is not part of the
\* final one.
AbortStopped ==
    /\ pc = "abort_stop" /\ Waited
    /\ \E e \in CleanupErrors : EndAbort(Remembered(exit_result \cup e), err)
    /\ UNCHANGED <<started, process, child, termed, lost>>

AbortWaited ==
    /\ pc = "abort_wait" /\ Waited
    /\ \E e \in CleanupErrors : EndAbort(fatal_err, err \cup exit_result \cup e)
    /\ UNCHANGED <<started, process, child, termed, lost>>

-----------------------------------------------------------------------------
(* stop_vmm(), wait() and pid()                                            *)

\* Whether stop_vmm and wait have anything to finalize.
Unfinished == process # None \/ ~cleanup_done

StopVmm ==
    /\ pc = "idle" /\ Unfinished
    /\ Sigterm
    /\ TakeAndWait
    /\ Call("stop_vmm", "finalize")
    /\ UNCHANGED <<started, cleanup_funcs, cleanup_done, fatal_err,
                   signal_forwarder, exit_event, lost, start_err>>

Wait ==
    /\ pc = "idle" /\ Unfinished
    /\ UNCHANGED child /\ TakeAndWait
    /\ Call("wait", "finalize")
    /\ UNCHANGED <<started, cleanup_funcs, cleanup_done, fatal_err,
                   signal_forwarder, exit_event, termed, lost, start_err>>

\* pid(): try_wait finds that the child has exited.
PidExited ==
    /\ pc = "idle" /\ process # None /\ child[process] \in Exited
    /\ Reap(process) /\ TakeAndWait
    /\ Call("pid", "finalize")
    /\ UNCHANGED <<started, cleanup_funcs, cleanup_done, fatal_err,
                   signal_forwarder, exit_event, termed, lost, start_err>>

\* finalize_process_exit after its await, and finalize_observed_exit_status.
FinalizeProcessExit ==
    /\ pc = "finalize" /\ Waited
    /\ Finalize(exit_result)
    /\ Return
    /\ UNCHANGED <<started, process, child, termed, lost, start_err>>

\* Calls that change nothing: start() again, a pid() that answers, stop_vmm()
\* and wait() on a finished machine, a stop_vmm() whose kill() fails.
OtherCall == pc = "idle" /\ UNCHANGED vars

SignalExit ==
    /\ pc = "idle"
    /\ SetExitEvent
    /\ UNCHANGED <<started, process, cleanup_funcs, cleanup_done, fatal_err,
                   signal_forwarder, callVars, child, termed, lost, start_err>>

\* setup_network or create_log_files, called by itself.
SetupCall ==
    /\ MayRestart /\ pc = "idle"
    /\ \E rs \in {<<"network">>, <<"metrics_fifo">>} :
          Len(cleanup_funcs \o rs) <= MaxCleanups /\ Push(rs)
    /\ UNCHANGED <<started, process, fatal_err, signal_forwarder, exit_event,
                   callVars, child, termed, lost, start_err>>

-----------------------------------------------------------------------------
(* Around the calls                                                        *)

\* The call is at an await that is not ready: the probes and the sleep of
\* wait_for_vmm_ready, a request to the API, the exit of a child.
Suspended ==
    \/ pc = "probe"
    \/ pc = "handlers" /\ (next > Len(Handlers) \/ HandlerIs("api"))
    \/ waiting # None

\* The future of a suspended call is dropped, and with it the Child that
\* wait_for_process_exit had taken out of process.
Cancel ==
    /\ MayCancel /\ Suspended
    /\ lost' = lost \cup ({waiting} \ {None})
    /\ Return
    /\ UNCHANGED <<machineVars, child, termed, start_err>>

\* The VMM exits: by itself, killed by somebody, or because of SIGTERM.
ChildExit(c) ==
    /\ child[c] = "running"
    /\ \E status \in Exited : child' = [child EXCEPT ![c] = status]
    /\ UNCHANGED <<machineVars, callVars, termed, lost, start_err>>

\* The runtime reaps the zombie of a dropped Child.
ReapLost(c) ==
    /\ c \in lost /\ child[c] \in Exited
    /\ Reap(c)
    /\ UNCHANGED <<machineVars, callVars, termed, lost, start_err>>

CallStep ==
    \/ SetupNetwork \/ CreateLogFiles \/ ApiHandler \/ VmmHandler
    \/ StartInstance \/ StartInstanceErr
    \/ SpawnErr \/ \E c \in Child : Spawn(c)
    \/ PollExited \/ PollAlive \/ ProbeReady \/ ProbeAgain \/ ProbeTimeout
    \/ AbortNoProcess \/ AbortStop \/ AbortKillErr \/ ChildWaited \/ AbortStopped
    \/ AbortWaited \/ FinalizeProcessExit

Next ==
    \/ Start \/ StartVmm \/ StopVmm \/ Wait \/ PidExited \/ OtherCall
    \/ SignalExit \/ SetupCall
    \/ CallStep
    \/ Cancel
    \/ \E c \in Child : ChildExit(c) \/ ReapLost(c)

Spec == Init /\ [][Next]_vars

\* The runtime polls a future that can make progress; the deadline of
\* wait_for_vmm_ready ends its loop; a VMM that got SIGTERM exits.
Fairness ==
    /\ WF_vars(CallStep)
    /\ SF_vars(ProbeReady \/ ProbeTimeout)
    /\ \A c \in Child : WF_vars(c \in termed /\ ChildExit(c))

FairSpec == Spec /\ Fairness

-----------------------------------------------------------------------------
(* Properties                                                              *)

\* Whatever sequence of calls was made, cleanup_done never hides a cleanup
\* function: a later stop_vmm, wait or abort_start still runs it.
CleanupNotForgotten == cleanup_done => cleanup_funcs = <<>>

\* The running VMMs that the Machine has not lost, and the processes that are
\* not that any more.
Live == {c \in Child : child[c] = "running" /\ c \notin lost}
Gone == {c \in Child : child[c] # "unborn" /\ c \notin Live}

Contract == INSTANCE MachineContract
            WITH Process <- Child, live <- Live, gone <- Gone,
                 held <- cleanup_funcs # <<>>, told <- exit_event

\* Whatever is called, dropped or fails, the Machine keeps MachineContract: one
\* VMM at a time, the cleanup functions, which remove its socket, FIFOs and
\* network, run all of them and only after it has exited, and exit_event is
\* set by then.
ImplementsContract == Contract!Spec

\* The forwarder's worker, a thread of its own, would signal a pid that may be
\* another process's.
StaleRegistration == signal_forwarder # None /\ child[signal_forwarder] = "reaped"

\* Whichever of start, stop_vmm, wait, pid and abort_start reaps the child, a
\* reaped pid stays registered only until the next step of that very call,
\* shutdown_signal_forwarder: never while the call awaits something, and never
\* after it has returned or failed.  In this stretch of code the worker may
\* still kill the reaped pid; the code leaves the stretch open, and no more.
ReapedPidUnregistered ==
    [][StaleRegistration =>
          /\ pc # "idle" /\ ~Suspended
          /\ callVars' # callVars => signal_forwarder' = None]_vars

\* A start that failed leaves nothing behind: no process, no registration, no
\* pending cleanup, and the threads that poll exit_event are told to end.
FailedStartLeavesNothing ==
    (pc = "idle" /\ start_err # {}) =>
        /\ process = None /\ signal_forwarder = None /\ cleanup_funcs = <<>>
        /\ exit_event
        /\ \A c \in Child : child[c] \in {"unborn", "reaped"}

\* wait() after a failed start() reports the error start() returned.
StartErrorReported == (pc = "idle" /\ start_err # {}) => fatal_err = start_err

\* The error wait() reports does not change once it is there.
FatalErrorFinal == [][fatal_err # {} => fatal_err' = fatal_err]_vars

\* stop_vmm() returns, and so do start() and start_vmm() unless they cannot
\* kill the VMM.
CallsReturn ==
    /\ (op = "stop_vmm") ~> (op = "none")
    /\ (op \in {"start", "start_vmm"}) ~> (op = "none" \/ "stop" \in err)
=============================================================================
