----------------------- MODULE MachineLifecycleProofs -----------------------
(***************************************************************************)
(* Proofs about MachineLifecycle for any list of handlers, any number of   *)
(* processes, and with callers that cancel and restart.                    *)
(***************************************************************************)
EXTENDS MachineLifecycle, TLAPS

\* Leaves go to Zenon unless they name another prover.
USE ZenonT(40)

Status == {"unborn", "running", "success", "failure", "reaped"}

CleanupKind == {"network", "socket", "metrics_fifo", "log_fifo"}

\* Where a call awaits the exit of a child it has taken out of process.
WaitingAt == {"abort_stop", "abort_wait", "finalize"}

\* A running VMM is in process, is being waited for, or its Child was dropped;
\* a call that waits for one has left process empty.  A process that was never
\* spawned is none of these.
ProcessInv ==
    /\ cleanup_funcs \in Seq(CleanupKind)
    /\ process \in Child \cup {None}
    /\ waiting \in Child \cup {None}
    /\ child \in [Child -> Status]
    /\ \A c \in Child : child[c] = "running" => c \in {process, waiting} \cup lost
    /\ \A c \in Child : child[c] = "unborn" => c \notin {process, waiting} \cup lost
    /\ waiting # None => pc \in WaitingAt
    /\ pc \in WaitingAt => process = None
    /\ pc \in {"poll", "probe"} => process # None

\* Pushing cleanup functions does not empty the stack.
LEMMA PushFacts ==
    ASSUME NEW s \in Seq(CleanupKind), NEW rs \in Seq(CleanupKind)
    PROVE  s \o rs \in Seq(CleanupKind) /\ (s # <<>> => s \o rs # <<>>)
<1>1. s # <<>> => Len(s) > 0 /\ Len(s \o rs) > 0
  BY SMTT(40)
<1>2. QED BY <1>1, SMTT(40)

\* What the handlers of start() push.
LEMMA PushedTypes ==
    /\ LogFifos \subseteq Seq(CleanupKind)
    /\ {<<>>, <<"network">>, <<"metrics_fifo">>, <<"socket">>} \subseteq Seq(CleanupKind)
BY SMTT(40) DEF LogFifos, CleanupKind

\* What a call does to its child before it waits for it: nothing, or, when
\* the child has exited, its try_wait reaps it.
Reaping ==
    \/ UNCHANGED child
    \/ process # None /\ child[process] # "running" /\ Reap(process)

\* No other process is touched, and none starts or stops running.
LEMMA ReapingFacts ==
    ASSUME ProcessInv, Reaping
    PROVE  /\ child' \in [Child -> Status]
           /\ \A c \in Child : child'[c] = "running" <=> child[c] = "running"
           /\ \A c \in Child : child'[c] = "unborn" <=> child[c] = "unborn"
           /\ \A c \in Child : c # process => child'[c] = child[c]
<1>1. CASE UNCHANGED child
  BY <1>1 DEF ProcessInv
<1>2. CASE process # None /\ child[process] # "running" /\ Reap(process)
  BY <1>2, SMTT(40) DEF ProcessInv, Reap, Status
<1>3. QED BY <1>1, <1>2 DEF Reaping

\* The child that process.take() takes is waited for, unless it was reaped.
LEMMA Taken ==
    ASSUME TakeAndWait
    PROVE  /\ process' = None
           /\ \/ waiting' = process /\ (process # None => child'[process] # "reaped")
              \/ waiting' = None /\ child'[process] = "reaped"
BY DEF TakeAndWait

\* send_sigterm_to_vmm reaps nothing else.
LEMMA SigtermReaps == ASSUME Sigterm PROVE Reaping
BY DEF Sigterm, Reaping

\* No step hides a cleanup function behind cleanup_done.
LEMMA ForgottenPreserved == CleanupNotForgotten /\ [Next]_vars => CleanupNotForgotten'
<1> SUFFICES ASSUME CleanupNotForgotten, [Next]_vars PROVE CleanupNotForgotten'
  OBVIOUS
<1> USE DEF CleanupNotForgotten, machineVars, callVars
<1>1. ASSUME Start PROVE CleanupNotForgotten'
  BY <1>1 DEF Start, Call
<1>2. ASSUME StartVmm PROVE CleanupNotForgotten'
  BY <1>2 DEF StartVmm, Call
<1>3. ASSUME StopVmm PROVE CleanupNotForgotten'
  BY <1>3 DEF StopVmm
<1>4. ASSUME Wait PROVE CleanupNotForgotten'
  BY <1>4 DEF Wait
<1>5. ASSUME PidExited PROVE CleanupNotForgotten'
  BY <1>5 DEF PidExited
<1>6. ASSUME OtherCall PROVE CleanupNotForgotten'
  BY <1>6 DEF OtherCall, vars
<1>7. ASSUME SignalExit PROVE CleanupNotForgotten'
  BY <1>7 DEF SignalExit, SetExitEvent
<1>8. ASSUME SetupCall PROVE CleanupNotForgotten'
  BY <1>8 DEF SetupCall, Push
<1>9. ASSUME SetupNetwork PROVE CleanupNotForgotten'
  <2>1. PICK rs : \/ UNCHANGED <<cleanup_funcs, cleanup_done>>
                  \/ Push(rs)
    BY <1>9 DEF SetupNetwork, HandlerOk, HandlerErr
  <2>2. QED BY <2>1 DEF Push
<1>10. ASSUME CreateLogFiles PROVE CleanupNotForgotten'
  <2>1. PICK rs : \/ UNCHANGED <<cleanup_funcs, cleanup_done>>
                  \/ Push(rs)
    BY <1>10 DEF CreateLogFiles, HandlerOk, HandlerErr
  <2>2. QED BY <2>1 DEF Push
<1>11. ASSUME ApiHandler PROVE CleanupNotForgotten'
  <2>1. PICK rs : \/ UNCHANGED <<cleanup_funcs, cleanup_done>>
                  \/ Push(rs)
    BY <1>11 DEF ApiHandler, HandlerOk, HandlerErr
  <2>2. QED BY <2>1 DEF Push
<1>12. ASSUME VmmHandler PROVE CleanupNotForgotten'
  BY <1>12 DEF VmmHandler, HandlerIs
<1>13. ASSUME StartInstance PROVE CleanupNotForgotten'
  BY <1>13 DEF StartInstance, Return
<1>14. ASSUME StartInstanceErr PROVE CleanupNotForgotten'
  <2>1. PICK rs : \/ UNCHANGED <<cleanup_funcs, cleanup_done>>
                  \/ Push(rs)
    BY <1>14 DEF StartInstanceErr, HandlerOk, HandlerErr
  <2>2. QED BY <2>1 DEF Push
<1>15. ASSUME SpawnErr PROVE CleanupNotForgotten'
  BY <1>15 DEF SpawnErr, Abort, Return
<1>16. ASSUME NEW c \in Child, Spawn(c) PROVE CleanupNotForgotten'
  BY <1>16 DEF Spawn, Push, Abort
<1>17. ASSUME PollExited PROVE CleanupNotForgotten'
  BY <1>17 DEF PollExited, Reap, Abort
<1>18. ASSUME PollAlive PROVE CleanupNotForgotten'
  BY <1>18 DEF PollAlive
<1>19. ASSUME ProbeReady PROVE CleanupNotForgotten'
  BY <1>19 DEF ProbeReady, Return
<1>20. ASSUME ProbeAgain PROVE CleanupNotForgotten'
  BY <1>20 DEF ProbeAgain
<1>21. ASSUME ProbeTimeout PROVE CleanupNotForgotten'
  BY <1>21 DEF ProbeTimeout, Abort
<1>22. ASSUME AbortNoProcess PROVE CleanupNotForgotten'
  BY <1>22 DEF AbortNoProcess, EndAbort, ShutdownForwarder, SetExitEvent, DoCleanup, Return
<1>23. ASSUME AbortStop PROVE CleanupNotForgotten'
  BY <1>23 DEF AbortStop
<1>24. ASSUME AbortKillErr PROVE CleanupNotForgotten'
  BY <1>24 DEF AbortKillErr
<1>25. ASSUME ChildWaited PROVE CleanupNotForgotten'
  BY <1>25 DEF ChildWaited
<1>26. ASSUME AbortStopped PROVE CleanupNotForgotten'
  BY <1>26
  DEF AbortStopped, Waited, EndAbort, ShutdownForwarder, SetExitEvent,
      DoCleanup, Return
<1>27. ASSUME AbortWaited PROVE CleanupNotForgotten'
  BY <1>27
  DEF AbortWaited, Waited, EndAbort, ShutdownForwarder, SetExitEvent, DoCleanup,
      Return
<1>28. ASSUME FinalizeProcessExit PROVE CleanupNotForgotten'
  BY <1>28
  DEF FinalizeProcessExit, Waited, Finalize, ShutdownForwarder, SetExitEvent,
      DoCleanup, Return
<1>29. ASSUME Cancel PROVE CleanupNotForgotten'
  BY <1>29 DEF Cancel, Return
<1>30. ASSUME NEW c \in Child, ChildExit(c) PROVE CleanupNotForgotten'
  BY <1>30 DEF ChildExit
<1>31. ASSUME NEW c \in Child, ReapLost(c) PROVE CleanupNotForgotten'
  BY <1>31 DEF ReapLost, Reap
<1>32. ASSUME UNCHANGED vars PROVE CleanupNotForgotten'
  BY <1>32 DEF vars
<1>33. QED
  BY <1>1, <1>2, <1>3, <1>4, <1>5, <1>6, <1>7, <1>8, <1>9, <1>10, <1>11,
     <1>12, <1>13, <1>14, <1>15, <1>16, <1>17, <1>18, <1>19, <1>20, <1>21, <1>22,
     <1>23, <1>24, <1>25, <1>26, <1>27, <1>28, <1>29, <1>30, <1>31, <1>32 DEF Next, CallStep

\* push_cleanup_func resets cleanup_done and do_cleanup sets it only once the
\* stack is empty, whatever the calls, cancellations and failures.
THEOREM NeverForgotten == Spec => []CleanupNotForgotten
<1>1. Init => CleanupNotForgotten
  BY Zenon DEF Init, CleanupNotForgotten
<1>2. QED BY <1>1, ForgottenPreserved, PTL DEF Spec

\* No step loses sight of a running VMM, except by dropping its Child.
LEMMA ProcessPreserved == ProcessInv /\ [Next]_vars => ProcessInv'
<1> SUFFICES ASSUME ProcessInv, [Next]_vars PROVE ProcessInv'
  OBVIOUS
<1> USE BoundsAssumption DEF ProcessInv, WaitingAt, Status, Exited, Child, None, machineVars, callVars
<1>1. ASSUME Start PROVE ProcessInv'
  BY <1>1 DEF Start, Call
<1>2. ASSUME StartVmm PROVE ProcessInv'
  BY <1>2 DEF StartVmm, Call
<1>3. ASSUME StopVmm PROVE ProcessInv'
  <2>1. Reaping /\ TakeAndWait /\ pc' \in WaitingAt /\ pc \notin WaitingAt
        /\ UNCHANGED <<cleanup_funcs, lost>>
    BY <1>3, SigtermReaps DEF StopVmm, Call
  <2>2. waiting = None
    BY <2>1
  <2>3. QED BY <2>1, <2>2, ReapingFacts, Taken
<1>4. ASSUME Wait PROVE ProcessInv'
  <2>1. Reaping /\ TakeAndWait /\ pc' \in WaitingAt /\ pc \notin WaitingAt
        /\ UNCHANGED <<cleanup_funcs, lost>>
    BY <1>4 DEF Wait, Call, Reaping
  <2>2. waiting = None
    BY <2>1
  <2>3. QED BY <2>1, <2>2, ReapingFacts, Taken
<1>5. ASSUME PidExited PROVE ProcessInv'
  <2>1. Reaping /\ TakeAndWait /\ pc' \in WaitingAt /\ pc \notin WaitingAt
        /\ UNCHANGED <<cleanup_funcs, lost>>
    BY <1>5 DEF PidExited, Call, Reaping
  <2>2. waiting = None
    BY <2>1
  <2>3. QED BY <2>1, <2>2, ReapingFacts, Taken
<1>6. ASSUME OtherCall PROVE ProcessInv'
  BY <1>6 DEF OtherCall, vars
<1>7. ASSUME SignalExit PROVE ProcessInv'
  BY <1>7 DEF SignalExit, SetExitEvent
<1>8. ASSUME SetupCall PROVE ProcessInv'
  <2>1. PICK rs \in Seq(CleanupKind) : cleanup_funcs' \in {cleanup_funcs, cleanup_funcs \o rs}
    BY <1>8, PushedTypes DEF SetupCall, Push
  <2>2. cleanup_funcs' \in Seq(CleanupKind) /\ (cleanup_funcs # <<>> => cleanup_funcs' # <<>>)
    BY <2>1, PushFacts DEF ProcessInv
  <2>3. QED BY <2>2, <1>8 DEF ProcessInv, SetupCall, Push
<1>9. ASSUME SetupNetwork PROVE ProcessInv'
  <2>1. PICK rs \in Seq(CleanupKind) : cleanup_funcs' \in {cleanup_funcs, cleanup_funcs \o rs}
    BY <1>9, PushedTypes DEF SetupNetwork, HandlerIs, HandlerOk, HandlerErr, Push, Abort
  <2>2. cleanup_funcs' \in Seq(CleanupKind) /\ (cleanup_funcs # <<>> => cleanup_funcs' # <<>>)
    BY <2>1, PushFacts DEF ProcessInv
  <2>3. QED BY <2>2, <1>9
       DEF ProcessInv, SetupNetwork, HandlerIs, HandlerOk, HandlerErr, Push, Abort
<1>10. ASSUME CreateLogFiles PROVE ProcessInv'
  <2>1. PICK rs \in Seq(CleanupKind) : cleanup_funcs' \in {cleanup_funcs, cleanup_funcs \o rs}
    BY <1>10, PushedTypes DEF CreateLogFiles, HandlerIs, HandlerOk, HandlerErr, Push, Abort
  <2>2. cleanup_funcs' \in Seq(CleanupKind) /\ (cleanup_funcs # <<>> => cleanup_funcs' # <<>>)
    BY <2>1, PushFacts DEF ProcessInv
  <2>3. QED BY <2>2, <1>10
       DEF ProcessInv, CreateLogFiles, HandlerIs, HandlerOk, HandlerErr, Push, Abort
<1>11. ASSUME ApiHandler PROVE ProcessInv'
  <2>1. PICK rs \in Seq(CleanupKind) : cleanup_funcs' \in {cleanup_funcs, cleanup_funcs \o rs}
    BY <1>11, PushedTypes DEF ApiHandler, HandlerIs, HandlerOk, HandlerErr, Push, Abort
  <2>2. cleanup_funcs' \in Seq(CleanupKind) /\ (cleanup_funcs # <<>> => cleanup_funcs' # <<>>)
    BY <2>1, PushFacts DEF ProcessInv
  <2>3. QED BY <2>2, <1>11
       DEF ProcessInv, ApiHandler, HandlerIs, HandlerOk, HandlerErr, Push, Abort
<1>12. ASSUME VmmHandler PROVE ProcessInv'
  BY <1>12 DEF VmmHandler, HandlerIs
<1>13. ASSUME StartInstance PROVE ProcessInv'
  BY <1>13 DEF StartInstance, Return
<1>14. ASSUME StartInstanceErr PROVE ProcessInv'
  <2>1. PICK rs \in Seq(CleanupKind) : cleanup_funcs' \in {cleanup_funcs, cleanup_funcs \o rs}
    BY <1>14, PushedTypes DEF StartInstanceErr, HandlerErr, Push, Abort
  <2>2. cleanup_funcs' \in Seq(CleanupKind) /\ (cleanup_funcs # <<>> => cleanup_funcs' # <<>>)
    BY <2>1, PushFacts DEF ProcessInv
  <2>3. QED BY <2>2, <1>14 DEF ProcessInv, StartInstanceErr, HandlerErr, Push, Abort
<1>15. ASSUME SpawnErr PROVE ProcessInv'
  BY <1>15 DEF SpawnErr, Abort, Return
<1>16. ASSUME NEW c \in Child, Spawn(c) PROVE ProcessInv'
  <2>1. PICK rs \in Seq(CleanupKind) : cleanup_funcs' \in {cleanup_funcs, cleanup_funcs \o rs}
    BY <1>16, PushedTypes DEF Spawn, Push, Abort
  <2>2. cleanup_funcs' \in Seq(CleanupKind) /\ (cleanup_funcs # <<>> => cleanup_funcs' # <<>>)
    BY <2>1, PushFacts DEF ProcessInv
  <2>3. QED BY <2>2, <1>16 DEF ProcessInv, Spawn, Push, Abort
<1>17. ASSUME PollExited PROVE ProcessInv'
  BY <1>17 DEF PollExited, Reap, Abort
<1>18. ASSUME PollAlive PROVE ProcessInv'
  BY <1>18 DEF PollAlive
<1>19. ASSUME ProbeReady PROVE ProcessInv'
  BY <1>19 DEF ProbeReady, Return
<1>20. ASSUME ProbeAgain PROVE ProcessInv'
  BY <1>20 DEF ProbeAgain
<1>21. ASSUME ProbeTimeout PROVE ProcessInv'
  BY <1>21 DEF ProbeTimeout, Abort
<1>22. ASSUME AbortNoProcess PROVE ProcessInv'
  BY <1>22, SMTT(40)
  DEF AbortNoProcess, EndAbort, ShutdownForwarder, SetExitEvent, DoCleanup, Return
<1>23. ASSUME AbortStop PROVE ProcessInv'
  <2>1. Reaping /\ TakeAndWait /\ pc' \in WaitingAt /\ pc \notin WaitingAt
        /\ UNCHANGED <<cleanup_funcs, lost>>
    BY <1>23, SigtermReaps DEF AbortStop
  <2>2. waiting = None
    BY <2>1
  <2>3. QED BY <2>1, <2>2, ReapingFacts, Taken
<1>24. ASSUME AbortKillErr PROVE ProcessInv'
  <2>1. Reaping /\ TakeAndWait /\ pc' \in WaitingAt /\ pc \notin WaitingAt
        /\ UNCHANGED <<cleanup_funcs, lost>>
    BY <1>24 DEF AbortKillErr, Reaping
  <2>2. waiting = None
    BY <2>1
  <2>3. QED BY <2>1, <2>2, ReapingFacts, Taken
<1>25. ASSUME ChildWaited PROVE ProcessInv'
  BY <1>25 DEF ChildWaited, Reap
<1>26. ASSUME AbortStopped PROVE ProcessInv'
  BY <1>26, SMTT(40)
  DEF AbortStopped, Waited, EndAbort, ShutdownForwarder, SetExitEvent,
      DoCleanup, Return
<1>27. ASSUME AbortWaited PROVE ProcessInv'
  BY <1>27, SMTT(40)
  DEF AbortWaited, Waited, EndAbort, ShutdownForwarder, SetExitEvent, DoCleanup,
      Return
<1>28. ASSUME FinalizeProcessExit PROVE ProcessInv'
  BY <1>28, SMTT(40)
  DEF FinalizeProcessExit, Waited, Finalize, ShutdownForwarder, SetExitEvent,
      DoCleanup, Return
<1>29. ASSUME Cancel PROVE ProcessInv'
  BY <1>29 DEF Cancel, Return
<1>30. ASSUME NEW c \in Child, ChildExit(c) PROVE ProcessInv'
  BY <1>30 DEF ChildExit
<1>31. ASSUME NEW c \in Child, ReapLost(c) PROVE ProcessInv'
  BY <1>31 DEF ReapLost, Reap
<1>32. ASSUME UNCHANGED vars PROVE ProcessInv'
  BY <1>32 DEF vars
<1>33. QED
  BY <1>1, <1>2, <1>3, <1>4, <1>5, <1>6, <1>7, <1>8, <1>9, <1>10, <1>11,
     <1>12, <1>13, <1>14, <1>15, <1>16, <1>17, <1>18, <1>19, <1>20, <1>21, <1>22,
     <1>23, <1>24, <1>25, <1>26, <1>27, <1>28, <1>29, <1>30, <1>31, <1>32 DEF Next, CallStep

\* The life of a Machine keeps that invariant.
THEOREM ProcessKnown == Spec => []ProcessInv
<1>1. Init => ProcessInv
  BY BoundsAssumption, SMTT(40)
  DEF Init, ProcessInv, Status, WaitingAt, Child, None, CleanupKind
<1>2. QED BY <1>1, ProcessPreserved, PTL DEF Spec

\* A step of the Machine as MachineContract sees it.
ContractStep == [Contract!Next]_(Contract!vars)

\* Neither processes, cleanup functions nor exit_event change.
LEMMA StepQuiet ==
    ASSUME UNCHANGED <<child, lost, cleanup_funcs, exit_event>>
    PROVE  ContractStep
BY DEF ContractStep, Contract!vars, Live, Gone

\* Cleanup functions are pushed.
LEMMA StepAcquire ==
    ASSUME UNCHANGED <<child, lost, exit_event>>,
           cleanup_funcs # <<>> => cleanup_funcs' # <<>>
    PROVE  ContractStep
<1>1. Live' = Live /\ Gone' = Gone
  BY DEF Live, Gone
<1>2. CASE cleanup_funcs' # <<>>
  BY <1>1, <1>2 DEF ContractStep, Contract!Next, Contract!Acquire
<1>3. CASE cleanup_funcs' = <<>>
  <2>1. (cleanup_funcs # <<>>)' = (cleanup_funcs # <<>>)
    BY <1>3
  <2>2. QED BY <1>1, <2>1 DEF ContractStep, Contract!vars
<1>4. QED BY <1>2, <1>3

\* exit_event is set or reset.
LEMMA StepTell ==
    ASSUME UNCHANGED <<child, lost, cleanup_funcs>>, exit_event' \in {exit_event, TRUE, FALSE}
    PROVE  ContractStep
<1>1. Live' = Live /\ Gone' = Gone
  BY DEF Live, Gone
<1>2. CASE exit_event' = exit_event
  BY <1>2, StepQuiet
<1>3. CASE exit_event' \in BOOLEAN
  BY <1>1, <1>3 DEF ContractStep, Contract!Next, Contract!Tell
<1>4. QED BY <1>2, <1>3

\* A child that has exited is reaped.
LEMMA ReapQuiet ==
    ASSUME ProcessInv, NEW c \in Child, child[c] \in Exited, Reap(c), UNCHANGED lost
    PROVE  Live' = Live /\ Gone' = Gone
BY BoundsAssumption DEF ProcessInv, Reap, Exited, Live, Gone, Child, None, Status

\* A call takes its child, after it may have reaped it and told exit_event.
LEMMA StepReaping ==
    ASSUME ProcessInv, Reaping, UNCHANGED <<cleanup_funcs, lost>>,
           exit_event' \in {exit_event, TRUE}
    PROVE  ContractStep
<1>1. Live' = Live /\ Gone' = Gone
  BY ReapingFacts DEF Live, Gone
<1>2. CASE exit_event' = exit_event
  BY <1>1, <1>2 DEF ContractStep, Contract!vars
<1>3. CASE exit_event' = TRUE
  BY <1>1, <1>3 DEF ContractStep, Contract!Next, Contract!Tell
<1>4. QED BY <1>2, <1>3

\* do_cleanup, once no VMM is left.
LEMMA StepRelease ==
    ASSUME CleanupNotForgotten, Live = {}, Live' = Live, Gone' = Gone, DoCleanup, SetExitEvent
    PROVE  ContractStep
<1>1. cleanup_funcs' = <<>> /\ exit_event' = TRUE
  BY DEF CleanupNotForgotten, DoCleanup, SetExitEvent
<1>2. QED BY <1>1 DEF ContractStep, Contract!Next, Contract!Release

\* No step of the Machine breaks the contract.
LEMMA ContractPreserved == ProcessInv /\ CleanupNotForgotten /\ [Next]_vars => ContractStep
<1> SUFFICES ASSUME ProcessInv, CleanupNotForgotten, [Next]_vars PROVE ContractStep
  OBVIOUS
<1> USE DEF machineVars, callVars
<1>1. ASSUME Start PROVE ContractStep
  BY <1>1, StepQuiet DEF Start, Call
<1>2. ASSUME StartVmm PROVE ContractStep
  BY <1>2, StepQuiet DEF StartVmm, Call
<1>3. ASSUME StopVmm PROVE ContractStep
  <2>1. Reaping /\ UNCHANGED <<cleanup_funcs, lost>> /\ exit_event' \in {exit_event, TRUE}
    BY <1>3, SigtermReaps DEF StopVmm
  <2>2. QED BY <2>1, StepReaping
<1>4. ASSUME Wait PROVE ContractStep
  <2>1. Reaping /\ UNCHANGED <<cleanup_funcs, lost>> /\ exit_event' \in {exit_event, TRUE}
    BY <1>4 DEF Wait, Reaping
  <2>2. QED BY <2>1, StepReaping
<1>5. ASSUME PidExited PROVE ContractStep
  <2>1. Reaping /\ UNCHANGED <<cleanup_funcs, lost>> /\ exit_event' \in {exit_event, TRUE}
    BY <1>5 DEF PidExited, Reaping, Exited
  <2>2. QED BY <2>1, StepReaping
<1>6. ASSUME OtherCall PROVE ContractStep
  BY <1>6, StepQuiet DEF OtherCall, vars
<1>7. ASSUME SignalExit PROVE ContractStep
  BY <1>7, StepTell DEF SignalExit, SetExitEvent
<1>8. ASSUME SetupCall PROVE ContractStep
  <2>1. PICK rs \in Seq(CleanupKind) : cleanup_funcs' \in {cleanup_funcs, cleanup_funcs \o rs}
    BY <1>8, PushedTypes DEF SetupCall, Push
  <2>2. cleanup_funcs # <<>> => cleanup_funcs' # <<>>
    BY <2>1, PushFacts DEF ProcessInv
  <2>3. UNCHANGED <<child, lost, exit_event>>
    BY <1>8 DEF SetupCall, Push
  <2>4. QED BY <2>2, <2>3, StepAcquire
<1>9. ASSUME SetupNetwork PROVE ContractStep
  <2>1. PICK rs \in Seq(CleanupKind) : cleanup_funcs' \in {cleanup_funcs, cleanup_funcs \o rs}
    BY <1>9, PushedTypes DEF SetupNetwork, HandlerIs, HandlerOk, HandlerErr, Push, Abort
  <2>2. cleanup_funcs # <<>> => cleanup_funcs' # <<>>
    BY <2>1, PushFacts DEF ProcessInv
  <2>3. UNCHANGED <<child, lost, exit_event>>
    BY <1>9 DEF SetupNetwork, HandlerIs, HandlerOk, HandlerErr, Push, Abort
  <2>4. QED BY <2>2, <2>3, StepAcquire
<1>10. ASSUME CreateLogFiles PROVE ContractStep
  <2>1. PICK rs \in Seq(CleanupKind) : cleanup_funcs' \in {cleanup_funcs, cleanup_funcs \o rs}
    BY <1>10, PushedTypes DEF CreateLogFiles, HandlerIs, HandlerOk, HandlerErr, Push, Abort
  <2>2. cleanup_funcs # <<>> => cleanup_funcs' # <<>>
    BY <2>1, PushFacts DEF ProcessInv
  <2>3. UNCHANGED <<child, lost, exit_event>>
    BY <1>10 DEF CreateLogFiles, HandlerIs, HandlerOk, HandlerErr, Push, Abort
  <2>4. QED BY <2>2, <2>3, StepAcquire
<1>11. ASSUME ApiHandler PROVE ContractStep
  <2>1. PICK rs \in Seq(CleanupKind) : cleanup_funcs' \in {cleanup_funcs, cleanup_funcs \o rs}
    BY <1>11, PushedTypes DEF ApiHandler, HandlerIs, HandlerOk, HandlerErr, Push, Abort
  <2>2. cleanup_funcs # <<>> => cleanup_funcs' # <<>>
    BY <2>1, PushFacts DEF ProcessInv
  <2>3. UNCHANGED <<child, lost, exit_event>>
    BY <1>11 DEF ApiHandler, HandlerIs, HandlerOk, HandlerErr, Push, Abort
  <2>4. QED BY <2>2, <2>3, StepAcquire
<1>12. ASSUME VmmHandler PROVE ContractStep
  BY <1>12, StepQuiet DEF VmmHandler, HandlerIs
<1>13. ASSUME StartInstance PROVE ContractStep
  BY <1>13, StepQuiet DEF StartInstance, Return
<1>14. ASSUME StartInstanceErr PROVE ContractStep
  <2>1. PICK rs \in Seq(CleanupKind) : cleanup_funcs' \in {cleanup_funcs, cleanup_funcs \o rs}
    BY <1>14, PushedTypes DEF StartInstanceErr, HandlerErr, Push, Abort
  <2>2. cleanup_funcs # <<>> => cleanup_funcs' # <<>>
    BY <2>1, PushFacts DEF ProcessInv
  <2>3. UNCHANGED <<child, lost, exit_event>>
    BY <1>14 DEF StartInstanceErr, HandlerErr, Push, Abort
  <2>4. QED BY <2>2, <2>3, StepAcquire
<1>15. ASSUME SpawnErr PROVE ContractStep
  BY <1>15, StepTell DEF SpawnErr, Abort, Return
<1>16. ASSUME NEW c \in Child, Spawn(c) PROVE ContractStep
  <2>1. Live' = {c} /\ Gone' = Gone \cup Live /\ c \notin Live \cup Gone
    BY <1>16, BoundsAssumption, SMTT(40)
    DEF Spawn, ProcessInv, WaitingAt, Live, Gone, Child, None, Status
  <2>2. exit_event' = FALSE /\ cleanup_funcs' # <<>>
    BY <1>16, SMTT(40) DEF Spawn, Push, ProcessInv
  <2>3. QED BY <2>1, <2>2 DEF ContractStep, Contract!Next, Contract!Launch
<1>17. ASSUME PollExited PROVE ContractStep
  <2>1. Live' = Live /\ Gone' = Gone
    BY <1>17, ReapQuiet DEF PollExited, ProcessInv
  <2>2. QED BY <1>17, <2>1 DEF PollExited, ContractStep, Contract!vars
<1>18. ASSUME PollAlive PROVE ContractStep
  BY <1>18, StepQuiet DEF PollAlive
<1>19. ASSUME ProbeReady PROVE ContractStep
  BY <1>19, StepQuiet DEF ProbeReady, Return
<1>20. ASSUME ProbeAgain PROVE ContractStep
  BY <1>20, StepQuiet DEF ProbeAgain
<1>21. ASSUME ProbeTimeout PROVE ContractStep
  BY <1>21, StepQuiet DEF ProbeTimeout, Abort
<1>22. ASSUME AbortNoProcess PROVE ContractStep
  <2>1. Live = {}
    BY <1>22, BoundsAssumption, SMTT(40)
    DEF AbortNoProcess, ProcessInv, WaitingAt, Exited, Live, Child, None
  <2>2. Live' = Live /\ Gone' = Gone
    BY <1>22 DEF AbortNoProcess, Live, Gone
  <2>3. DoCleanup /\ SetExitEvent
    BY <1>22 DEF AbortNoProcess, EndAbort
  <2>4. QED BY <2>1, <2>2, <2>3, StepRelease
<1>23. ASSUME AbortStop PROVE ContractStep
  <2>1. Reaping /\ UNCHANGED <<cleanup_funcs, lost>> /\ exit_event' \in {exit_event, TRUE}
    BY <1>23, SigtermReaps DEF AbortStop, SetExitEvent
  <2>2. QED BY <2>1, StepReaping
<1>24. ASSUME AbortKillErr PROVE ContractStep
  <2>1. Reaping /\ UNCHANGED <<cleanup_funcs, lost>> /\ exit_event' \in {exit_event, TRUE}
    BY <1>24 DEF AbortKillErr, SetExitEvent, Reaping
  <2>2. QED BY <2>1, StepReaping
<1>25. ASSUME ChildWaited PROVE ContractStep
  <2>1. Live' = Live /\ Gone' = Gone
    BY <1>25, ReapQuiet DEF ChildWaited, ProcessInv
  <2>2. QED BY <1>25, <2>1 DEF ChildWaited, ContractStep, Contract!vars
<1>26. ASSUME AbortStopped PROVE ContractStep
  <2>1. Live = {}
    BY <1>26, BoundsAssumption, SMTT(40)
    DEF AbortStopped, Waited, ProcessInv, WaitingAt, Live, Child, None
  <2>2. Live' = Live /\ Gone' = Gone
    BY <1>26 DEF AbortStopped, Live, Gone
  <2>3. DoCleanup /\ SetExitEvent
    BY <1>26 DEF AbortStopped, EndAbort
  <2>4. QED BY <2>1, <2>2, <2>3, StepRelease
<1>27. ASSUME AbortWaited PROVE ContractStep
  <2>1. Live = {}
    BY <1>27, BoundsAssumption, SMTT(40)
    DEF AbortWaited, Waited, ProcessInv, WaitingAt, Live, Child, None
  <2>2. Live' = Live /\ Gone' = Gone
    BY <1>27 DEF AbortWaited, Live, Gone
  <2>3. DoCleanup /\ SetExitEvent
    BY <1>27 DEF AbortWaited, EndAbort
  <2>4. QED BY <2>1, <2>2, <2>3, StepRelease
<1>28. ASSUME FinalizeProcessExit PROVE ContractStep
  <2>1. Live = {}
    BY <1>28, BoundsAssumption, SMTT(40)
    DEF FinalizeProcessExit, Waited, ProcessInv, WaitingAt, Live, Child, None
  <2>2. Live' = Live /\ Gone' = Gone
    BY <1>28 DEF FinalizeProcessExit, Live, Gone
  <2>3. DoCleanup /\ SetExitEvent
    BY <1>28 DEF FinalizeProcessExit, Finalize
  <2>4. QED BY <2>1, <2>2, <2>3, StepRelease
<1>29. ASSUME Cancel PROVE ContractStep
  <2>1. CASE waiting \in Live
    <3>1. Live' = Live \ {waiting} /\ Gone' = Gone \cup {waiting} /\ waiting \in Child
      BY <1>29, <2>1, BoundsAssumption, SMTT(40)
      DEF Cancel, ProcessInv, Live, Gone, Child, None
    <3>2. QED BY <1>29, <2>1, <3>1 DEF Cancel, ContractStep, Contract!Next, Contract!Leave
  <2>2. CASE waiting \notin Live
    <3>1. Live' = Live /\ Gone' = Gone
      BY <1>29, <2>2, BoundsAssumption DEF Cancel, ProcessInv, Live, Gone, Child, None
    <3>2. QED BY <1>29, <3>1 DEF Cancel, ContractStep, Contract!vars
  <2>3. QED BY <2>1, <2>2
<1>30. ASSUME NEW c \in Child, ChildExit(c) PROVE ContractStep
  <2>1. CASE c \in lost
    <3>1. Live' = Live /\ Gone' = Gone
      BY <1>30, <2>1 DEF ChildExit, ProcessInv, Exited, Live, Gone
    <3>2. QED BY <1>30, <3>1 DEF ChildExit, ContractStep, Contract!vars
  <2>2. CASE c \notin lost
    <3>1. c \in Live /\ Live' = Live \ {c} /\ Gone' = Gone \cup {c}
      BY <1>30, <2>2, SMTT(40) DEF ChildExit, ProcessInv, Exited, Live, Gone
    <3>2. QED BY <1>30, <3>1 DEF ChildExit, ContractStep, Contract!Next, Contract!Leave
  <2>3. QED BY <2>1, <2>2
<1>31. ASSUME NEW c \in Child, ReapLost(c) PROVE ContractStep
  <2>1. Live' = Live /\ Gone' = Gone
    BY <1>31, ReapQuiet DEF ReapLost
  <2>2. QED BY <1>31, <2>1 DEF ReapLost, ContractStep, Contract!vars
<1>32. ASSUME UNCHANGED vars PROVE ContractStep
  BY <1>32, StepQuiet DEF vars
<1>33. QED
  BY <1>1, <1>2, <1>3, <1>4, <1>5, <1>6, <1>7, <1>8, <1>9, <1>10, <1>11,
     <1>12, <1>13, <1>14, <1>15, <1>16, <1>17, <1>18, <1>19, <1>20, <1>21, <1>22,
     <1>23, <1>24, <1>25, <1>26, <1>27, <1>28, <1>29, <1>30, <1>31, <1>32 DEF Next, CallStep

\* The Machine implements its contract for any handlers, any number of spawns,
\* and callers that cancel, restart and call the steps by themselves.
THEOREM ContractKept == Spec => ImplementsContract
<1>1. Init => Contract!Init
  BY DEF Init, Contract!Init, Live, Gone
<1>2. QED
  BY <1>1, ContractPreserved, ProcessKnown, NeverForgotten, PTL
  DEF Spec, ImplementsContract, Contract!Spec, ContractStep

\* A caller that awaits its calls and starts once, and a list of handlers that
\* spawns one VMM, as default_handlers does.
Orderly ==
    /\ ~MayCancel /\ ~MayRestart
    /\ \A i, j \in DOMAIN Handlers : Handlers[i] = "vmm" /\ Handlers[j] = "vmm" => i = j

Begun == {"running", "success", "failure"}
Unregistering == {"abort", "abort_stop", "finalize"}
Starting == {"handlers", "spawn", "poll", "probe", "abort", "abort_stop", "abort_wait"}

\* The VMM that was spawned and not reaped is the one in process or the one
\* that is waited for, and the forwarder names no other, unless the call has
\* just reaped it and is about to drop the registration.
ChildInv ==
    /\ lost = {}
    /\ process # None => child[process] \in Begun
    /\ waiting # None => child[waiting] \in Begun
    /\ \A c \in Child : child[c] \in Begun => c \in {process, waiting}
    /\ signal_forwarder # None =>
          \/ signal_forwarder \in {process, waiting}
          \/ pc \in Unregistering /\ process = None /\ waiting = None
    /\ pc = "abort_wait" => signal_forwarder = None

\* Which call is where, that none comes to the spawn a second time, and that
\* an exit status is that of a process.
OrderInv ==
    /\ next \in Nat \ {0}
    /\ pc \in Starting => op \in {"start", "start_vmm"}
    /\ op = "start" => started
    /\ op = "start_vmm" /\ pc \in Starting => pc = "spawn" \/ ~Unspawned
    /\ pc = "spawn" => Unspawned
    /\ pc \in {"spawn", "poll", "probe"} /\ op = "start" =>
          next \in DOMAIN Handlers /\ Handlers[next] = "vmm"
    /\ pc = "handlers" /\ ~Unspawned =>
          \A i \in DOMAIN Handlers : i >= next => Handlers[i] # "vmm"
    /\ pc = "handlers" => op = "start"
    /\ exit_result # {} => ~Unspawned

\* Before a start there is no error.  During one there is none either, except
\* that start() aborts with the error start_vmm has aborted with.
ErrorInv ==
    /\ ~started /\ Unspawned => fatal_err = {} /\ cleanup_funcs = <<>> /\ start_err = {}
    /\ pc \in Starting =>
          \/ fatal_err = {}
          \/ pc = "abort" /\ fatal_err = err /\ cleanup_done /\ process = None /\ ~nested
    /\ start_err # {} =>
          /\ pc \in {"idle", "abort"} /\ process = None /\ signal_forwarder = None
          /\ cleanup_funcs = <<>> /\ cleanup_done /\ exit_event

OrderlyInv == ProcessInv /\ CleanupNotForgotten /\ ChildInv /\ OrderInv /\ ErrorInv

\* A call takes its child, after it may have reaped it.
LEMMA ChildTaken ==
    ASSUME OrderlyInv, pc \notin WaitingAt, Reaping, TakeAndWait, UNCHANGED lost,
           \/ signal_forwarder' = None
           \/ signal_forwarder' = signal_forwarder /\ pc' \in {"abort_stop", "finalize"}
    PROVE  ChildInv'
<1> USE BoundsAssumption
    DEF OrderlyInv, ProcessInv, ChildInv, WaitingAt, Unregistering, Status, Begun, Child, None
<1>1. waiting = None /\ process' = None /\ lost' = {}
  BY Taken
<1>2. waiting' # None => waiting' = process /\ child'[waiting'] \in Begun
  BY Taken, ReapingFacts
<1>3. \A c \in Child : child'[c] \in Begun => c = waiting'
  <2> TAKE c \in Child
  <2>1. HAVE child'[c] \in Begun
  <2>2. c = process
    <3>1. c # process => child[c] \in Begun
      BY <2>1, ReapingFacts
    <3>2. child[c] \in Begun => c = process
      BY <1>1, SMTT(40)
    <3>3. QED BY <3>1, <3>2
  <2>3. QED BY <2>1, <2>2, Taken
<1>4. signal_forwarder # None => signal_forwarder = process \/ process = None
  BY <1>1
<1>5. QED BY <1>1, <1>2, <1>3, <1>4, Taken

\* No step of an orderly caller loses the VMM or leaves its pid registered.
LEMMA ChildStep == Orderly /\ OrderlyInv /\ [Next]_vars => ChildInv'
<1> SUFFICES ASSUME Orderly, OrderlyInv, [Next]_vars PROVE ChildInv'
  OBVIOUS
<1> USE BoundsAssumption DEF OrderlyInv, ProcessInv, ChildInv, WaitingAt, Unregistering, Status,
       Begun, Exited, Child, None, machineVars, callVars
<1>1. ASSUME Start PROVE ChildInv'
  BY <1>1 DEF Start, Call
<1>2. ASSUME StartVmm PROVE ChildInv'
  BY <1>2 DEF StartVmm, Call
<1>3. ASSUME StopVmm PROVE ChildInv'
  <2>1. /\ pc \notin WaitingAt /\ Reaping /\ TakeAndWait /\ UNCHANGED lost
        /\ \/ signal_forwarder' = None
           \/ signal_forwarder' = signal_forwarder /\ pc' \in {"abort_stop", "finalize"}
    BY <1>3, SigtermReaps DEF StopVmm, Call
  <2>2. QED BY <2>1, ChildTaken
<1>4. ASSUME Wait PROVE ChildInv'
  <2>1. /\ pc \notin WaitingAt /\ Reaping /\ TakeAndWait /\ UNCHANGED lost
        /\ \/ signal_forwarder' = None
           \/ signal_forwarder' = signal_forwarder /\ pc' \in {"abort_stop", "finalize"}
    BY <1>4 DEF Wait, Call, Reaping
  <2>2. QED BY <2>1, ChildTaken
<1>5. ASSUME PidExited PROVE ChildInv'
  <2>1. /\ pc \notin WaitingAt /\ Reaping /\ TakeAndWait /\ UNCHANGED lost
        /\ \/ signal_forwarder' = None
           \/ signal_forwarder' = signal_forwarder /\ pc' \in {"abort_stop", "finalize"}
    BY <1>5 DEF PidExited, Call, Reaping
  <2>2. QED BY <2>1, ChildTaken
<1>6. ASSUME OtherCall PROVE ChildInv'
  BY <1>6 DEF OtherCall, vars
<1>7. ASSUME SignalExit PROVE ChildInv'
  BY <1>7 DEF SignalExit
<1>8. ASSUME SetupCall PROVE ChildInv'
  BY <1>8 DEF SetupCall, Orderly
<1>9. ASSUME SetupNetwork PROVE ChildInv'
  BY <1>9 DEF SetupNetwork, HandlerIs, HandlerOk, HandlerErr, Abort
<1>10. ASSUME CreateLogFiles PROVE ChildInv'
  BY <1>10 DEF CreateLogFiles, HandlerIs, HandlerOk, HandlerErr, Abort
<1>11. ASSUME ApiHandler PROVE ChildInv'
  BY <1>11 DEF ApiHandler, HandlerIs, HandlerOk, HandlerErr, Abort
<1>12. ASSUME VmmHandler PROVE ChildInv'
  BY <1>12 DEF VmmHandler, HandlerIs
<1>13. ASSUME StartInstance PROVE ChildInv'
  BY <1>13 DEF StartInstance, Return
<1>14. ASSUME StartInstanceErr PROVE ChildInv'
  BY <1>14 DEF StartInstanceErr, HandlerErr, Abort
<1>15. ASSUME SpawnErr PROVE ChildInv'
  BY <1>15 DEF SpawnErr, Abort, Return
<1>16. ASSUME NEW c \in Child, Spawn(c) PROVE ChildInv'
  <2>1. Unspawned /\ pc = "spawn"
    BY <1>16 DEF Spawn, OrderInv
  <2>2. process = None /\ waiting = None /\ signal_forwarder = None
    BY <2>1 DEF Unspawned
  <2>3. /\ lost' = {} /\ process' = c /\ child' = [child EXCEPT ![c] = "running"]
        /\ waiting' = waiting /\ signal_forwarder' \in {None, c} /\ pc' # "abort_wait"
    BY <1>16, <2>2 DEF Spawn, Abort, Forwarder
  <2>4. \A d \in Child : d # c => child'[d] = "unborn"
    BY <2>1, <2>3 DEF Unspawned
  <2>5. child'[c] = "running"
    BY <2>3
  <2>6. QED BY <2>2, <2>3, <2>4, <2>5
<1>17. ASSUME PollExited PROVE ChildInv'
  BY <1>17 DEF PollExited, Reap, Abort
<1>18. ASSUME PollAlive PROVE ChildInv'
  BY <1>18 DEF PollAlive
<1>19. ASSUME ProbeReady PROVE ChildInv'
  BY <1>19 DEF ProbeReady, Return
<1>20. ASSUME ProbeAgain PROVE ChildInv'
  BY <1>20 DEF ProbeAgain
<1>21. ASSUME ProbeTimeout PROVE ChildInv'
  BY <1>21 DEF ProbeTimeout, Abort
<1>22. ASSUME AbortNoProcess PROVE ChildInv'
  BY <1>22 DEF AbortNoProcess, EndAbort, ShutdownForwarder, Return
<1>23. ASSUME AbortStop PROVE ChildInv'
  <2>1. /\ pc \notin WaitingAt /\ Reaping /\ TakeAndWait /\ UNCHANGED lost
        /\ \/ signal_forwarder' = None
           \/ signal_forwarder' = signal_forwarder /\ pc' \in {"abort_stop", "finalize"}
    BY <1>23, SigtermReaps DEF AbortStop
  <2>2. QED BY <2>1, ChildTaken
<1>24. ASSUME AbortKillErr PROVE ChildInv'
  <2>1. /\ pc \notin WaitingAt /\ Reaping /\ TakeAndWait /\ UNCHANGED lost
        /\ \/ signal_forwarder' = None
           \/ signal_forwarder' = signal_forwarder /\ pc' \in {"abort_stop", "finalize"}
    BY <1>24 DEF AbortKillErr, ShutdownForwarder, Reaping
  <2>2. QED BY <2>1, ChildTaken
<1>25. ASSUME ChildWaited PROVE ChildInv'
  BY <1>25 DEF ChildWaited, Reap
<1>26. ASSUME AbortStopped PROVE ChildInv'
  BY <1>26 DEF AbortStopped, Waited, EndAbort, ShutdownForwarder,
     Return
<1>27. ASSUME AbortWaited PROVE ChildInv'
  BY <1>27 DEF AbortWaited, Waited, EndAbort, ShutdownForwarder, Return
<1>28. ASSUME FinalizeProcessExit PROVE ChildInv'
  BY <1>28 DEF FinalizeProcessExit, Waited, Finalize,
     ShutdownForwarder, Return
<1>29. ASSUME Cancel PROVE ChildInv'
  BY <1>29 DEF Cancel, Orderly
<1>30. ASSUME NEW c \in Child, ChildExit(c) PROVE ChildInv'
  BY <1>30 DEF ChildExit
<1>31. ASSUME NEW c \in Child, ReapLost(c) PROVE ChildInv'
  BY <1>31 DEF ReapLost
<1>32. ASSUME UNCHANGED vars PROVE ChildInv'
  BY <1>32 DEF vars
<1> HIDE DEF OrderlyInv, ProcessInv, ChildInv, Child
<1>33. QED
  BY <1>1, <1>2, <1>3, <1>4, <1>5, <1>6, <1>7, <1>8, <1>9, <1>10, <1>11,
     <1>12, <1>13, <1>14, <1>15, <1>16, <1>17, <1>18, <1>19, <1>20, <1>21,
     <1>22, <1>23, <1>24, <1>25, <1>26, <1>27, <1>28, <1>29, <1>30, <1>31, <1>32 DEF
     Next, CallStep

\* An orderly caller comes to the spawn once.
LEMMA OrderStep == Orderly /\ OrderlyInv /\ [Next]_vars => OrderInv'
<1> SUFFICES ASSUME Orderly, OrderlyInv, [Next]_vars PROVE OrderInv'
  OBVIOUS
<1> USE BoundsAssumption DEF OrderlyInv, ProcessInv, ChildInv, OrderInv, Starting, WaitingAt, Begun,
       Exited, Unspawned, Child, None, machineVars, callVars
<1>1. ASSUME Start PROVE OrderInv'
  BY <1>1 DEF Start, Call, Orderly
<1>2. ASSUME StartVmm PROVE OrderInv'
  BY <1>2 DEF StartVmm, Call, Orderly
<1>3. ASSUME StopVmm PROVE OrderInv'
  <2>1. Reaping /\ TakeAndWait /\ UNCHANGED <<started, next>>
        /\ pc' = "finalize" /\ op' = "stop_vmm"
    BY <1>3, SigtermReaps DEF StopVmm, Call
  <2>2. Unspawned' <=> Unspawned
    BY <2>1, ReapingFacts
  <2>3. exit_result' # {} => ~Unspawned
    BY <2>1 DEF TakeAndWait, ExitError
  <2>4. QED BY <2>1, <2>2, <2>3
<1>4. ASSUME Wait PROVE OrderInv'
  <2>1. Reaping /\ TakeAndWait /\ UNCHANGED <<started, next>>
        /\ pc' = "finalize" /\ op' = "wait"
    BY <1>4 DEF Wait, Call, Reaping
  <2>2. Unspawned' <=> Unspawned
    BY <2>1, ReapingFacts
  <2>3. exit_result' # {} => ~Unspawned
    BY <2>1 DEF TakeAndWait, ExitError
  <2>4. QED BY <2>1, <2>2, <2>3
<1>5. ASSUME PidExited PROVE OrderInv'
  <2>1. Reaping /\ TakeAndWait /\ UNCHANGED <<started, next>>
        /\ pc' = "finalize" /\ op' = "pid"
    BY <1>5 DEF PidExited, Call, Reaping
  <2>2. Unspawned' <=> Unspawned
    BY <2>1, ReapingFacts
  <2>3. exit_result' # {} => ~Unspawned
    BY <2>1 DEF TakeAndWait, ExitError
  <2>4. QED BY <2>1, <2>2, <2>3
<1>6. ASSUME OtherCall PROVE OrderInv'
  BY <1>6 DEF OtherCall, vars
<1>7. ASSUME SignalExit PROVE OrderInv'
  BY <1>7 DEF SignalExit
<1>8. ASSUME SetupCall PROVE OrderInv'
  BY <1>8 DEF SetupCall, Orderly
<1>9. ASSUME SetupNetwork PROVE OrderInv'
  <2>1. /\ pc = "handlers" /\ UNCHANGED <<op, started, child, exit_result>>
        /\ \/ pc' = pc /\ next' = next + 1
           \/ pc' = "abort" /\ next' = next
    BY Zenon, <1>9 DEF SetupNetwork, HandlerIs, HandlerOk, HandlerErr, Abort
  <2>2. CASE pc' = pc /\ next' = next + 1
    <3>1. next' \in Nat \ {0} /\ \A i \in DOMAIN Handlers : i >= next' => i >= next
      BY <2>2, HandlersAssumption, SMTT(40)
    <3>2. QED BY <2>1, <2>2, <3>1
  <2>3. CASE pc' = "abort" /\ next' = next
    BY <2>1, <2>3
  <2>4. QED BY <2>1, <2>2, <2>3
<1>10. ASSUME CreateLogFiles PROVE OrderInv'
  <2>1. /\ pc = "handlers" /\ UNCHANGED <<op, started, child, exit_result>>
        /\ \/ pc' = pc /\ next' = next + 1
           \/ pc' = "abort" /\ next' = next
    BY Zenon, <1>10 DEF CreateLogFiles, HandlerIs, HandlerOk, HandlerErr, Abort
  <2>2. CASE pc' = pc /\ next' = next + 1
    <3>1. next' \in Nat \ {0} /\ \A i \in DOMAIN Handlers : i >= next' => i >= next
      BY <2>2, HandlersAssumption, SMTT(40)
    <3>2. QED BY <2>1, <2>2, <3>1
  <2>3. CASE pc' = "abort" /\ next' = next
    BY <2>1, <2>3
  <2>4. QED BY <2>1, <2>2, <2>3
<1>11. ASSUME ApiHandler PROVE OrderInv'
  <2>1. /\ pc = "handlers" /\ UNCHANGED <<op, started, child, exit_result>>
        /\ \/ pc' = pc /\ next' = next + 1
           \/ pc' = "abort" /\ next' = next
    BY Zenon, <1>11 DEF ApiHandler, HandlerIs, HandlerOk, HandlerErr, Abort
  <2>2. CASE pc' = pc /\ next' = next + 1
    <3>1. next' \in Nat \ {0} /\ \A i \in DOMAIN Handlers : i >= next' => i >= next
      BY <2>2, HandlersAssumption, SMTT(40)
    <3>2. QED BY <2>1, <2>2, <3>1
  <2>3. CASE pc' = "abort" /\ next' = next
    BY <2>1, <2>3
  <2>4. QED BY <2>1, <2>2, <2>3
<1>12. ASSUME VmmHandler PROVE OrderInv'
  <2>1. next \in DOMAIN Handlers /\ Handlers[next] = "vmm" /\ next >= next
    BY <1>12, HandlersAssumption, SMTT(40) DEF VmmHandler, HandlerIs
  <2>2. pc = "handlers" /\ pc' = "spawn" /\ UNCHANGED <<op, started, child, next, exit_result>>
    BY <1>12 DEF VmmHandler, HandlerIs
  <2>3. Unspawned
    BY <2>1, <2>2
  <2>4. QED BY <2>1, <2>2, <2>3
<1>13. ASSUME StartInstance PROVE OrderInv'
  BY <1>13, SMTT(40) DEF StartInstance, Return
<1>14. ASSUME StartInstanceErr PROVE OrderInv'
  BY <1>14 DEF StartInstanceErr, HandlerErr, Abort
<1>15. ASSUME SpawnErr PROVE OrderInv'
  BY <1>15, SMTT(40) DEF SpawnErr, Abort, Return
<1>16. ASSUME NEW c \in Child, Spawn(c) PROVE OrderInv'
  BY <1>16 DEF Spawn, Abort, Forwarder
<1>17. ASSUME PollExited PROVE OrderInv'
  BY <1>17 DEF PollExited, Reap, Abort
<1>18. ASSUME PollAlive PROVE OrderInv'
  BY <1>18 DEF PollAlive
<1>19. ASSUME ProbeReady PROVE OrderInv'
  <2>1. pc = "probe" /\ UNCHANGED <<started, child>>
    BY <1>19 DEF ProbeReady
  <2>2. CASE op = "start"
    <3>1. pc' = "handlers" /\ next' = next + 1 /\ op' = op
      BY <1>19, <2>2 DEF ProbeReady
    <3>2. next \in DOMAIN Handlers /\ Handlers[next] = "vmm"
      BY <2>1, <2>2
    <3>3. \A i \in DOMAIN Handlers : i >= next + 1 => i # next
      BY HandlersAssumption, SMTT(40)
    <3>4. \A i \in DOMAIN Handlers : i >= next + 1 => Handlers[i] # "vmm"
      BY <3>2, <3>3 DEF Orderly
    <3>5. QED BY <2>1, <2>2, <3>1, <3>4, SMTT(40)
  <2>3. CASE op # "start"
    BY <1>19, <2>1, <2>3, SMTT(40) DEF ProbeReady, Return
  <2>4. QED BY <2>2, <2>3
<1>20. ASSUME ProbeAgain PROVE OrderInv'
  BY <1>20 DEF ProbeAgain
<1>21. ASSUME ProbeTimeout PROVE OrderInv'
  BY <1>21 DEF ProbeTimeout, Abort
<1>22. ASSUME AbortNoProcess PROVE OrderInv'
  BY <1>22, SMTT(40) DEF AbortNoProcess, EndAbort, ShutdownForwarder, Return
<1>23. ASSUME AbortStop PROVE OrderInv'
  <2>1. Reaping /\ TakeAndWait /\ UNCHANGED <<started, next>>
        /\ pc = "abort" /\ pc' = "abort_stop" /\ op' = op
    BY <1>23, SigtermReaps DEF AbortStop
  <2>2. Unspawned' <=> Unspawned
    BY <2>1, ReapingFacts
  <2>3. exit_result' # {} => ~Unspawned
    BY <2>1 DEF TakeAndWait, ExitError
  <2>4. QED BY <2>1, <2>2, <2>3
<1>24. ASSUME AbortKillErr PROVE OrderInv'
  <2>1. Reaping /\ TakeAndWait /\ UNCHANGED <<started, next>>
        /\ pc = "abort" /\ pc' = "abort_wait" /\ op' = op
    BY <1>24 DEF AbortKillErr, Reaping
  <2>2. Unspawned' <=> Unspawned
    BY <2>1, ReapingFacts
  <2>3. exit_result' # {} => ~Unspawned
    BY <2>1 DEF TakeAndWait, ExitError
  <2>4. QED BY <2>1, <2>2, <2>3
<1>25. ASSUME ChildWaited PROVE OrderInv'
  BY <1>25 DEF ChildWaited, Reap
<1>26. ASSUME AbortStopped PROVE OrderInv'
  BY <1>26, SMTT(40) DEF AbortStopped, Waited, EndAbort, ShutdownForwarder,
     Return
<1>27. ASSUME AbortWaited PROVE OrderInv'
  BY <1>27, SMTT(40) DEF AbortWaited, Waited, EndAbort, ShutdownForwarder, Return
<1>28. ASSUME FinalizeProcessExit PROVE OrderInv'
  BY <1>28, SMTT(40) DEF FinalizeProcessExit, Waited, Finalize,
     ShutdownForwarder, Return
<1>29. ASSUME Cancel PROVE OrderInv'
  BY <1>29 DEF Cancel, Orderly
<1>30. ASSUME NEW c \in Child, ChildExit(c) PROVE OrderInv'
  BY <1>30 DEF ChildExit
<1>31. ASSUME NEW c \in Child, ReapLost(c) PROVE OrderInv'
  BY <1>31 DEF ReapLost
<1>32. ASSUME UNCHANGED vars PROVE OrderInv'
  BY <1>32 DEF vars
<1> HIDE DEF OrderlyInv, ProcessInv, ChildInv, OrderInv, Unspawned, Child
<1>33. QED
  BY <1>1, <1>2, <1>3, <1>4, <1>5, <1>6, <1>7, <1>8, <1>9, <1>10, <1>11,
     <1>12, <1>13, <1>14, <1>15, <1>16, <1>17, <1>18, <1>19, <1>20, <1>21,
     <1>22, <1>23, <1>24, <1>25, <1>26, <1>27, <1>28, <1>29, <1>30, <1>31, <1>32 DEF
     Next, CallStep

\* Where abort_start ends.
LEMMA AbortEnds ==
    ASSUME OrderlyInv, NEW old, NEW final, EndAbort(old, final),
           op = "start" \/ ~Unspawned', UNCHANGED started, process' = None
    PROVE  ErrorInv'
<1>1. cleanup_funcs' = <<>> /\ cleanup_done' /\ exit_event' /\ signal_forwarder' = None
  BY DEF EndAbort, DoCleanup, SetExitEvent, ShutdownForwarder, OrderlyInv, CleanupNotForgotten
<1>2. fatal_err' = final /\ start_err' = final
  BY DEF EndAbort, Terminal
<1>3. started' \/ ~Unspawned'
  BY DEF OrderlyInv, OrderInv
<1>4. pc' = "idle" \/ (pc' = "abort" /\ err' = final /\ ~nested')
  BY DEF EndAbort, Return
<1>5. QED BY <1>1, <1>2, <1>3, <1>4 DEF ErrorInv, Starting

\* Where finalize_exit_result ends: before a start there was nothing to clean up.
LEMMA FinalizeEnds ==
    ASSUME OrderlyInv, NEW error, Finalize(error), start_err = {}, pc' = "idle",
           UNCHANGED <<started, start_err>>, Unspawned' => Unspawned /\ error = {}
    PROVE  ErrorInv'
<1>1. CASE ~started /\ Unspawned'
  <2>1. Unspawned /\ error = {} /\ fatal_err = {} /\ cleanup_funcs = <<>>
    BY <1>1 DEF OrderlyInv, ErrorInv
  <2>2. CleanupErrors = {{}}
    BY <2>1 DEF CleanupErrors
  <2>3. fatal_err' = {} \cup {}
    BY <2>1, <2>2 DEF Finalize, Remembered
  <2>4. cleanup_funcs' = <<>>
    BY <2>1 DEF Finalize, DoCleanup
  <2>5. QED BY <2>3, <2>4 DEF ErrorInv, Starting
<1>2. CASE started \/ ~Unspawned'
  BY <1>2 DEF ErrorInv, Starting
<1>3. QED BY <1>1, <1>2

\* An orderly caller sees one error, and nothing stays after a failed start.
LEMMA ErrorStep == Orderly /\ OrderlyInv /\ [Next]_vars => ErrorInv'
<1> SUFFICES ASSUME Orderly, OrderlyInv, [Next]_vars PROVE ErrorInv'
  OBVIOUS
<1> USE BoundsAssumption DEF OrderlyInv, ProcessInv, ChildInv, OrderInv, ErrorInv, Starting, WaitingAt, Begun,
       Exited, Status, Unspawned, Child, None, machineVars, callVars
<1>1. ASSUME Start PROVE ErrorInv'
  BY <1>1 DEF Start, Call, Orderly
<1>2. ASSUME StartVmm PROVE ErrorInv'
  BY <1>2 DEF StartVmm, Call, Orderly
<1>3. ASSUME StopVmm PROVE ErrorInv'
  <2>1. Reaping /\ UNCHANGED <<started, fatal_err, cleanup_funcs, start_err>>
        /\ pc' = "finalize" /\ start_err = {}
    BY <1>3, SigtermReaps DEF StopVmm, Call, Unfinished
  <2>2. Unspawned' <=> Unspawned
    BY <2>1, ReapingFacts
  <2>3. QED BY <2>1, <2>2
<1>4. ASSUME Wait PROVE ErrorInv'
  <2>1. Reaping /\ UNCHANGED <<started, fatal_err, cleanup_funcs, start_err>>
        /\ pc' = "finalize" /\ start_err = {}
    BY <1>4 DEF Wait, Call, Unfinished, Reaping
  <2>2. Unspawned' <=> Unspawned
    BY <2>1, ReapingFacts
  <2>3. QED BY <2>1, <2>2
<1>5. ASSUME PidExited PROVE ErrorInv'
  <2>1. Reaping /\ UNCHANGED <<started, fatal_err, cleanup_funcs, start_err>>
        /\ pc' = "finalize" /\ start_err = {}
    BY <1>5 DEF PidExited, Call, Reaping
  <2>2. Unspawned' <=> Unspawned
    BY <2>1, ReapingFacts
  <2>3. QED BY <2>1, <2>2
<1>6. ASSUME OtherCall PROVE ErrorInv'
  BY <1>6 DEF OtherCall, vars
<1>7. ASSUME SignalExit PROVE ErrorInv'
  BY <1>7 DEF SignalExit, SetExitEvent
<1>8. ASSUME SetupCall PROVE ErrorInv'
  BY <1>8 DEF SetupCall, Orderly
<1>9. ASSUME SetupNetwork PROVE ErrorInv'
  <2>1. pc = "handlers" /\ pc' \in {"handlers", "abort"}
        /\ UNCHANGED <<op, started, fatal_err, start_err>>
    BY Zenon, <1>9 DEF SetupNetwork, HandlerIs, HandlerOk, HandlerErr, Abort
  <2>2. started /\ fatal_err = {} /\ start_err = {}
    BY <2>1
  <2>3. QED BY <2>1, <2>2
<1>10. ASSUME CreateLogFiles PROVE ErrorInv'
  <2>1. pc = "handlers" /\ pc' \in {"handlers", "abort"}
        /\ UNCHANGED <<op, started, fatal_err, start_err>>
    BY Zenon, <1>10 DEF CreateLogFiles, HandlerIs, HandlerOk, HandlerErr, Abort
  <2>2. started /\ fatal_err = {} /\ start_err = {}
    BY <2>1
  <2>3. QED BY <2>1, <2>2
<1>11. ASSUME ApiHandler PROVE ErrorInv'
  <2>1. pc = "handlers" /\ pc' \in {"handlers", "abort"}
        /\ UNCHANGED <<op, started, fatal_err, start_err>>
    BY Zenon, <1>11 DEF ApiHandler, HandlerIs, HandlerOk, HandlerErr, Abort
  <2>2. started /\ fatal_err = {} /\ start_err = {}
    BY <2>1
  <2>3. QED BY <2>1, <2>2
<1>12. ASSUME VmmHandler PROVE ErrorInv'
  BY <1>12 DEF VmmHandler, HandlerIs
<1>13. ASSUME StartInstance PROVE ErrorInv'
  BY <1>13 DEF StartInstance, Return
<1>14. ASSUME StartInstanceErr PROVE ErrorInv'
  <2>1. /\ pc = "handlers" /\ pc' = "abort" /\ op = "start" /\ started'
        /\ UNCHANGED <<fatal_err, start_err>>
    BY <1>14 DEF StartInstanceErr, HandlerErr, Abort
  <2>2. QED BY <2>1
<1>15. ASSUME SpawnErr PROVE ErrorInv'
  BY <1>15 DEF SpawnErr, Abort, Return
<1>16. ASSUME NEW c \in Child, Spawn(c) PROVE ErrorInv'
  BY <1>16 DEF Spawn, Abort, Forwarder
<1>17. ASSUME PollExited PROVE ErrorInv'
  BY <1>17 DEF PollExited, Reap, Abort
<1>18. ASSUME PollAlive PROVE ErrorInv'
  BY <1>18 DEF PollAlive
<1>19. ASSUME ProbeReady PROVE ErrorInv'
  BY <1>19 DEF ProbeReady, Return
<1>20. ASSUME ProbeAgain PROVE ErrorInv'
  BY <1>20 DEF ProbeAgain
<1>21. ASSUME ProbeTimeout PROVE ErrorInv'
  BY <1>21 DEF ProbeTimeout, Abort
<1>22. ASSUME AbortNoProcess PROVE ErrorInv'
  <2>1. op = "start" \/ ~Unspawned'
    BY <1>22 DEF AbortNoProcess
  <2>2. QED BY <1>22, <2>1, AbortEnds DEF AbortNoProcess
<1>23. ASSUME AbortStop PROVE ErrorInv'
  <2>1. Reaping /\ UNCHANGED <<started, fatal_err, cleanup_funcs, start_err>>
        /\ pc = "abort" /\ pc' \in Starting /\ process # None
    BY <1>23, SigtermReaps DEF AbortStop
  <2>2. Unspawned' <=> Unspawned
    BY <2>1, ReapingFacts
  <2>3. QED BY <2>1, <2>2
<1>24. ASSUME AbortKillErr PROVE ErrorInv'
  <2>1. Reaping /\ UNCHANGED <<started, fatal_err, cleanup_funcs, start_err>>
        /\ pc = "abort" /\ pc' \in Starting /\ process # None
    BY <1>24 DEF AbortKillErr, Reaping
  <2>2. Unspawned' <=> Unspawned
    BY <2>1, ReapingFacts
  <2>3. QED BY <2>1, <2>2
<1>25. ASSUME ChildWaited PROVE ErrorInv'
  BY <1>25 DEF ChildWaited, Reap
<1>26. ASSUME AbortStopped PROVE ErrorInv'
  <2>1. op = "start" \/ ~Unspawned'
    BY <1>26 DEF AbortStopped
  <2>2. process' = None /\ UNCHANGED started
    BY <1>26 DEF AbortStopped
  <2>3. QED BY <1>26, <2>1, <2>2, AbortEnds DEF AbortStopped
<1>27. ASSUME AbortWaited PROVE ErrorInv'
  <2>1. op = "start" \/ ~Unspawned'
    BY <1>27 DEF AbortWaited
  <2>2. process' = None /\ UNCHANGED started
    BY <1>27 DEF AbortWaited
  <2>3. QED BY <1>27, <2>1, <2>2, AbortEnds DEF AbortWaited
<1>28. ASSUME FinalizeProcessExit PROVE ErrorInv'
  <2>1. pc = "finalize" /\ pc' = "idle" /\ start_err = {} /\ child' = child
    BY <1>28 DEF FinalizeProcessExit, Return
  <2>2. Unspawned' => Unspawned /\ exit_result = {}
    BY <2>1
  <2>3. QED BY <1>28, <2>1, <2>2, FinalizeEnds DEF FinalizeProcessExit
<1>29. ASSUME Cancel PROVE ErrorInv'
  BY <1>29 DEF Cancel, Orderly
<1>30. ASSUME NEW c \in Child, ChildExit(c) PROVE ErrorInv'
  BY <1>30 DEF ChildExit
<1>31. ASSUME NEW c \in Child, ReapLost(c) PROVE ErrorInv'
  BY <1>31 DEF ReapLost
<1>32. ASSUME UNCHANGED vars PROVE ErrorInv'
  BY <1>32 DEF vars
<1> HIDE DEF OrderlyInv, ProcessInv, ChildInv, OrderInv, ErrorInv, Unspawned, Child
<1>33. QED
  BY <1>1, <1>2, <1>3, <1>4, <1>5, <1>6, <1>7, <1>8, <1>9, <1>10, <1>11,
     <1>12, <1>13, <1>14, <1>15, <1>16, <1>17, <1>18, <1>19, <1>20, <1>21,
     <1>22, <1>23, <1>24, <1>25, <1>26, <1>27, <1>28, <1>29, <1>30, <1>31, <1>32 DEF
     Next, CallStep

\* What a step may do to the errors: nothing, forget that of the last start,
\* remember one, or abort.
ErrorEffect ==
    \/ fatal_err' = fatal_err /\ start_err' \in {start_err, {}}
    \/ start_err' = start_err /\ (fatal_err # {} => fatal_err' = fatal_err)
    \/ /\ fatal_err' = start_err'
       /\ \/ pc \in {"abort_stop", "abort_wait"}
          \/ pc = "abort" /\ (cleanup_done => fatal_err' = err)

\* Every step does one of these.
LEMMA ErrorSteps == [Next]_vars => ErrorEffect
<1> SUFFICES ASSUME [Next]_vars PROVE ErrorEffect
  OBVIOUS
<1> USE DEF ErrorEffect, machineVars, callVars
<1>1. ASSUME Start PROVE ErrorEffect
  BY <1>1 DEF Start
<1>2. ASSUME StartVmm PROVE ErrorEffect
  BY <1>2 DEF StartVmm
<1>3. ASSUME StopVmm PROVE ErrorEffect
  BY <1>3 DEF StopVmm
<1>4. ASSUME Wait PROVE ErrorEffect
  BY <1>4 DEF Wait
<1>5. ASSUME PidExited PROVE ErrorEffect
  BY <1>5 DEF PidExited
<1>6. ASSUME OtherCall PROVE ErrorEffect
  BY <1>6 DEF OtherCall, vars
<1>7. ASSUME SignalExit PROVE ErrorEffect
  BY <1>7 DEF SignalExit
<1>8. ASSUME SetupCall PROVE ErrorEffect
  BY <1>8 DEF SetupCall
<1>9. ASSUME SetupNetwork PROVE ErrorEffect
  <2>1. UNCHANGED <<fatal_err, start_err>>
    BY Zenon, <1>9 DEF SetupNetwork, HandlerOk, HandlerErr
  <2>2. QED BY <2>1
<1>10. ASSUME CreateLogFiles PROVE ErrorEffect
  <2>1. UNCHANGED <<fatal_err, start_err>>
    BY Zenon, <1>10 DEF CreateLogFiles, HandlerOk, HandlerErr
  <2>2. QED BY <2>1
<1>11. ASSUME ApiHandler PROVE ErrorEffect
  <2>1. UNCHANGED <<fatal_err, start_err>>
    BY Zenon, <1>11 DEF ApiHandler, HandlerOk, HandlerErr
  <2>2. QED BY <2>1
<1>12. ASSUME VmmHandler PROVE ErrorEffect
  BY <1>12 DEF VmmHandler
<1>13. ASSUME StartInstance PROVE ErrorEffect
  BY <1>13 DEF StartInstance
<1>14. ASSUME StartInstanceErr PROVE ErrorEffect
  <2>1. UNCHANGED <<fatal_err, start_err>>
    BY <1>14 DEF StartInstanceErr, HandlerOk, HandlerErr
  <2>2. QED BY <2>1
<1>15. ASSUME SpawnErr PROVE ErrorEffect
  BY <1>15 DEF SpawnErr
<1>16. ASSUME NEW c \in Child, Spawn(c) PROVE ErrorEffect
  BY <1>16 DEF Spawn
<1>17. ASSUME PollExited PROVE ErrorEffect
  BY <1>17 DEF PollExited
<1>18. ASSUME PollAlive PROVE ErrorEffect
  BY <1>18 DEF PollAlive
<1>19. ASSUME ProbeReady PROVE ErrorEffect
  BY <1>19 DEF ProbeReady
<1>20. ASSUME ProbeAgain PROVE ErrorEffect
  BY <1>20 DEF ProbeAgain
<1>21. ASSUME ProbeTimeout PROVE ErrorEffect
  BY <1>21 DEF ProbeTimeout
<1>22. ASSUME AbortNoProcess PROVE ErrorEffect
  <2>1. PICK e \in CleanupErrors : EndAbort(fatal_err, err \cup e)
    BY Zenon, <1>22 DEF AbortNoProcess
  <2>2. cleanup_done => e = {}
    BY <2>1 DEF CleanupErrors
  <2>3. fatal_err' = err \cup e /\ start_err' = err \cup e /\ pc = "abort"
    BY <1>22, <2>1 DEF AbortNoProcess, EndAbort, Terminal
  <2>4. cleanup_done => err \cup e = err
    BY <2>2
  <2>5. QED BY <2>3, <2>4
<1>23. ASSUME AbortStop PROVE ErrorEffect
  BY <1>23 DEF AbortStop
<1>24. ASSUME AbortKillErr PROVE ErrorEffect
  BY <1>24 DEF AbortKillErr
<1>25. ASSUME ChildWaited PROVE ErrorEffect
  BY <1>25 DEF ChildWaited
<1>26. ASSUME AbortStopped PROVE ErrorEffect
  <2>1. PICK old, final : EndAbort(old, final)
    BY <1>26 DEF AbortStopped
  <2>2. fatal_err' = start_err' /\ pc \in {"abort_stop", "abort_wait"}
    BY <1>26, <2>1 DEF AbortStopped, EndAbort, Terminal
  <2>3. QED BY <2>2
<1>27. ASSUME AbortWaited PROVE ErrorEffect
  <2>1. PICK old, final : EndAbort(old, final)
    BY <1>27 DEF AbortWaited
  <2>2. fatal_err' = start_err' /\ pc \in {"abort_stop", "abort_wait"}
    BY <1>27, <2>1 DEF AbortWaited, EndAbort, Terminal
  <2>3. QED BY <2>2
<1>28. ASSUME FinalizeProcessExit PROVE ErrorEffect
  <2>1. PICK e : fatal_err' = Remembered(e)
    BY <1>28 DEF FinalizeProcessExit, Finalize
  <2>2. start_err' = start_err
    BY <1>28 DEF FinalizeProcessExit
  <2>3. QED BY <2>1, <2>2 DEF Remembered
<1>29. ASSUME Cancel PROVE ErrorEffect
  BY <1>29 DEF Cancel
<1>30. ASSUME NEW c \in Child, ChildExit(c) PROVE ErrorEffect
  BY <1>30 DEF ChildExit
<1>31. ASSUME NEW c \in Child, ReapLost(c) PROVE ErrorEffect
  BY <1>31 DEF ReapLost
<1>32. ASSUME UNCHANGED vars PROVE ErrorEffect
  BY <1>32 DEF vars
<1> HIDE DEF ErrorEffect
<1>33. QED
  BY <1>1, <1>2, <1>3, <1>4, <1>5, <1>6, <1>7, <1>8, <1>9, <1>10, <1>11,
     <1>12, <1>13, <1>14, <1>15, <1>16, <1>17, <1>18, <1>19, <1>20, <1>21,
     <1>22, <1>23, <1>24, <1>25, <1>26, <1>27, <1>28, <1>29, <1>30, <1>31, <1>32 DEF
     Next, CallStep

\* wait() reports the error start() returned, whatever is called, dropped or
\* started again in between.
THEOREM StartErrorKept == Spec => []StartErrorReported
<1> DEFINE Reported == start_err # {} => fatal_err = start_err
<1>1. Init => Reported
  BY DEF Init
<1>2. Reported /\ [Next]_vars => Reported'
  <2> SUFFICES ASSUME Reported, [Next]_vars PROVE Reported'
    OBVIOUS
  <2>1. ErrorEffect
    BY ErrorSteps
  <2>2. QED BY <2>1 DEF ErrorEffect
<1>3. Reported => StartErrorReported
  BY DEF StartErrorReported
<1>4. QED BY <1>1, <1>2, <1>3, PTL DEF Spec

\* The invariant of orderly callers holds throughout.
LEMMA OrderlyAlways == ASSUME Orderly PROVE Spec => []OrderlyInv
<1>1. Init => OrderlyInv
  <2> SUFFICES ASSUME Init PROVE OrderlyInv
    OBVIOUS
  <2>1. ProcessInv
    BY BoundsAssumption, SMTT(40)
       DEF Init, ProcessInv, Status, WaitingAt, Child, None, CleanupKind
  <2>2. CleanupNotForgotten
    BY Zenon DEF Init, CleanupNotForgotten
  <2>3. ChildInv /\ OrderInv /\ ErrorInv
    BY SMTT(40) DEF Init, ChildInv, OrderInv, ErrorInv, Begun, Starting
  <2>4. QED BY <2>1, <2>2, <2>3 DEF OrderlyInv
<1>2. OrderlyInv /\ [Next]_vars => OrderlyInv'
  BY ProcessPreserved, ForgottenPreserved, ChildStep, OrderStep, ErrorStep DEF OrderlyInv
<1>3. QED BY <1>1, <1>2, PTL DEF Spec

\* For any list of handlers that spawns one VMM: a reaped pid stays registered
\* only until the next step of the call that reaped it, which is not an await.
THEOREM PidUnregistered == ASSUME Orderly PROVE Spec => ReapedPidUnregistered
<1>1. OrderlyInv /\ StaleRegistration =>
         pc \in Unregistering /\ process = None /\ waiting = None
  BY BoundsAssumption
     DEF OrderlyInv, ProcessInv, ChildInv, StaleRegistration, Begun, Child, None
<1>2. ASSUME pc \in Unregistering, process = None, waiting = None, [Next]_vars,
             callVars' # callVars
      PROVE  signal_forwarder' = None
  <2>1. pc \notin {"idle", "handlers", "spawn", "poll", "probe", "abort_wait"}
    BY <1>2 DEF Unregistering
  <2>2. ~Suspended
    BY <1>2, <2>1 DEF Suspended, HandlerIs
  <2>3. AbortNoProcess \/ AbortStopped \/ FinalizeProcessExit
    BY <1>2, <2>1, <2>2 DEF Next, CallStep, vars, Start, StartVmm, StopVmm, Wait,
       PidExited, OtherCall, SignalExit, SetupCall, SetupNetwork, CreateLogFiles,
       ApiHandler, HandlerIs, VmmHandler, StartInstance, StartInstanceErr, SpawnErr,
       Spawn, PollExited, PollAlive, ProbeReady, ProbeAgain, ProbeTimeout, AbortStop,
       AbortKillErr, ChildWaited, AbortWaited, Cancel, ChildExit, ReapLost
  <2>4. QED
    BY <2>3 DEF AbortNoProcess, AbortStopped, FinalizeProcessExit, EndAbort, Finalize,
       ShutdownForwarder
<1>3. pc \in Unregistering /\ waiting = None => pc # "idle" /\ ~Suspended
  BY DEF Unregistering, Suspended, HandlerIs
<1>4. OrderlyInv /\ [Next]_vars =>
         [StaleRegistration => /\ pc # "idle" /\ ~Suspended
                               /\ callVars' # callVars => signal_forwarder' = None]_vars
  BY <1>1, <1>2, <1>3
<1>5. QED BY OrderlyAlways, <1>4, PTL DEF Spec, ReapedPidUnregistered

\* A start that fails at any handler leaves no process, registration or cleanup
\* function, and the threads that serve the VMM are told.
THEOREM NothingLeft == ASSUME Orderly PROVE Spec => []FailedStartLeavesNothing
<1>1. OrderlyInv => FailedStartLeavesNothing
  <2> SUFFICES ASSUME OrderlyInv, pc = "idle", start_err # {} PROVE
         /\ process = None /\ signal_forwarder = None /\ cleanup_funcs = <<>>
         /\ exit_event
         /\ \A c \in Child : child[c] \in {"unborn", "reaped"}
    BY DEF FailedStartLeavesNothing
  <2>1. /\ process = None /\ signal_forwarder = None /\ cleanup_funcs = <<>>
        /\ exit_event
    BY DEF OrderlyInv, ErrorInv
  <2>2. waiting = None
    BY DEF OrderlyInv, ProcessInv, WaitingAt
  <2>3. ASSUME NEW c \in Child PROVE child[c] \in {"unborn", "reaped"}
    BY <2>1, <2>2, BoundsAssumption, SMTT(40)
       DEF OrderlyInv, ProcessInv, ChildInv, Status, Begun, Child, None
  <2>4. QED BY <2>1, <2>3
<1>2. QED BY OrderlyAlways, <1>1, PTL

\* The error wait() reports does not change once it is there, although
\* abort_start overwrites it.
THEOREM ErrorFinal == ASSUME Orderly PROVE Spec => FatalErrorFinal
<1>1. OrderlyInv /\ [Next]_vars => [fatal_err # {} => fatal_err' = fatal_err]_vars
  <2> SUFFICES ASSUME OrderlyInv, [Next]_vars, fatal_err # {} PROVE fatal_err' = fatal_err
    OBVIOUS
  <2>1. ErrorEffect
    BY ErrorSteps
  <2>2. CASE pc \in {"abort", "abort_stop", "abort_wait"}
    <3>1. pc = "abort" /\ fatal_err = err /\ cleanup_done
      BY <2>2 DEF OrderlyInv, ErrorInv, Starting
    <3>2. QED BY <2>1, <3>1 DEF ErrorEffect
  <2>3. QED BY <2>1, <2>2 DEF ErrorEffect
<1>2. QED BY OrderlyAlways, <1>1, PTL DEF Spec, FatalErrorFinal
=============================================================================
