----------------------------- MODULE FifoCapture -----------------------------
(***************************************************************************)
(* The log FIFO of src/src/machine.rs: create_log_files makes it, a thread *)
(* of capture_fifo_to_file copies what the VMM writes to the caller's      *)
(* writer until exit_event is set or the VMM has been silent for 100 ms,   *)
(* and both this thread and do_cleanup remove the path.                    *)
(*                                                                         *)
(* A Machine may run several VMMs one after the other, all with the same   *)
(* path and the same exit_event; a FIFO, its VMM and its thread are named  *)
(* after the run.  The data are the chunks the VMM writes, numbered.  The  *)
(* metrics FIFO is made in the same way, but nothing captures it.          *)
(***************************************************************************)
EXTENDS Integers, Sequences

CONSTANTS MaxRuns,    \* bound on the runs of a VMM
          MaxChunks,  \* bound on the chunks one VMM writes
          ReadSize    \* chunks that fit the thread's buffer

ASSUME BoundsAssumption == {MaxRuns, MaxChunks, ReadSize} \subseteq Nat \ {0}

Run == 1..MaxRuns
None == 0

VARIABLES
    exit_event,
    machine,    \* how far the Machine is with the current run
    run,        \* the current run
    vmm,        \* the VMM of each run
    path,       \* the FIFO that the path names
    unremoved,  \* who of its run has failed to remove that FIFO
    fifo,       \* chunks in each FIFO
    sent,       \* chunks that were put in
    thread,     \* where the capture thread of each run is
    buf, seen_data,
    idle_since, \* whether its 100 ms run, or are over
    captured,   \* what the caller's writer got
    done        \* messages sent to the channel done

machineVars == <<exit_event, machine, run, vmm>>
dataVars == <<fifo, sent>>
threadVars == <<thread, buf, seen_data, idle_since, captured, done>>
pathVars == <<path, unremoved>>
vars == <<machineVars, pathVars, dataVars, threadVars>>

Init ==
    /\ exit_event = FALSE
    /\ machine = "down"
    /\ run = 0
    /\ vmm = [r \in Run |-> "none"]
    /\ path = None
    /\ unremoved = {}
    /\ fifo = [r \in Run |-> <<>>]
    /\ sent = [r \in Run |-> 0]
    /\ thread = [r \in Run |-> "none"]
    /\ buf = [r \in Run |-> <<>>]
    /\ seen_data = [r \in Run |-> FALSE]
    /\ idle_since = [r \in Run |-> "none"]
    /\ captured = [r \in Run |-> <<>>]
    /\ done = [r \in Run |-> <<>>]

\* remove_file, of whatever the path names by now, in the name of run r.  It may
\* fail, and nobody looks at the error: the thread drops it, and do_cleanup
\* only reports it.
RemoveFile(r, who) ==
    \/ path' = None /\ unremoved' = {}
    \/ /\ path # None /\ UNCHANGED path
       /\ unremoved' = unremoved \cup {w \in {who} : path = r}

-----------------------------------------------------------------------------
(* The Machine, and the VMM it runs                                        *)

StartVmm ==
    /\ machine = "down" /\ run < MaxRuns
    /\ run' = run + 1
    /\ exit_event' = FALSE
    /\ vmm' = [vmm EXCEPT ![run'] = "running"]
    /\ machine' = "spawned"
    /\ UNCHANGED <<pathVars, dataVars, threadVars>>

\* mkfifo, which fails while something is at the path, then open and
\* thread::spawn.  Without a writer, or when the open fails, nobody captures
\* and the start goes on.
CreateLogFiles ==
    /\ machine = "spawned" /\ path = None
    /\ path' = run
    /\ machine' = "fifo"
    /\ \E pc \in {"none", "check"} : thread' = [thread EXCEPT ![run] = pc]
    /\ UNCHANGED <<exit_event, run, vmm, unremoved, dataVars, buf, seen_data,
                   idle_since, captured, done>>

\* setup_logging makes the VMM open the path.
SetupLogging ==
    /\ machine = "fifo" /\ path = run
    /\ machine' = "logging"
    /\ UNCHANGED <<exit_event, run, vmm, pathVars, dataVars, threadVars>>

\* A step of start() fails: abort_start sets exit_event before it stops the
\* VMM.  Before mkfifo has succeeded there is no cleanup function for a FIFO.
AbortStart ==
    /\ machine \in {"spawned", "fifo", "logging"}
    /\ exit_event' = TRUE
    /\ machine' = IF machine = "spawned" THEN "abort_early" ELSE "abort"
    /\ UNCHANGED <<run, vmm, pathVars, dataVars, threadVars>>

AbortEarly ==
    /\ machine = "abort_early" /\ vmm[run] = "gone"
    /\ machine' = "down"
    /\ UNCHANGED <<exit_event, run, vmm, pathVars, dataVars, threadVars>>

\* finalize_exit_result, once the VMM has been reaped.
Finalize ==
    /\ machine \in {"spawned", "fifo", "logging"} /\ vmm[run] = "gone"
    /\ exit_event' = TRUE
    /\ machine' = IF machine = "spawned" THEN "down" ELSE "cleanup"
    /\ UNCHANGED <<run, vmm, pathVars, dataVars, threadVars>>

\* do_cleanup, with the cleanup function of create_fifo_or_file.
DoCleanup ==
    /\ \/ machine = "cleanup"
       \/ machine = "abort" /\ vmm[run] = "gone"
    /\ RemoveFile(run, "do_cleanup")
    /\ machine' = "down"
    /\ UNCHANGED <<exit_event, run, vmm, dataVars, threadVars>>

\* The caller's own signal_exit().
SignalExit ==
    /\ exit_event' = TRUE
    /\ UNCHANGED <<machine, run, vmm, pathVars, dataVars, threadVars>>

VmmWrites ==
    /\ machine \in {"logging", "abort"} /\ vmm[run] = "running"
    /\ sent[run] < MaxChunks
    /\ sent' = [sent EXCEPT ![run] = @ + 1]
    /\ fifo' = [fifo EXCEPT ![run] = Append(@, sent'[run])]
    /\ UNCHANGED <<machineVars, pathVars, threadVars>>

VmmExit ==
    /\ run # 0 /\ vmm[run] = "running"
    /\ vmm' = [vmm EXCEPT ![run] = "gone"]
    /\ UNCHANGED <<exit_event, machine, run, pathVars, dataVars, threadVars>>

-----------------------------------------------------------------------------
(* The thread of capture_fifo_to_file_with_channel                         *)

\* Where it goes when its loop ends; the variant forgets to remove the FIFO.
LoopEnd_Keep == "send"
LoopEnd == "remove"

CheckExit(r) ==
    /\ thread[r] = "check"
    /\ thread' = [thread EXCEPT ![r] = IF exit_event THEN LoopEnd ELSE "read"]
    /\ UNCHANGED <<machineVars, pathVars, dataVars, buf, seen_data, idle_since,
                   captured, done>>

ReadData(r) ==
    /\ thread[r] = "read" /\ fifo[r] # <<>>
    /\ LET n == IF Len(fifo[r]) < ReadSize THEN Len(fifo[r]) ELSE ReadSize
       IN /\ buf' = [buf EXCEPT ![r] = SubSeq(fifo[r], 1, n)]
          /\ fifo' = [fifo EXCEPT ![r] = SubSeq(@, n + 1, Len(@))]
    /\ seen_data' = [seen_data EXCEPT ![r] = TRUE]
    /\ idle_since' = [idle_since EXCEPT ![r] = "none"]
    /\ thread' = [thread EXCEPT ![r] = "write"]
    /\ UNCHANGED <<machineVars, pathVars, sent, captured, done>>

\* get_or_insert_with(Instant::now); the variant starts again every time.
IdleStart_Again(r) == "counting"
IdleStart(r) == IF idle_since[r] = "none" THEN "counting" ELSE idle_since[r]

\* The silence after some data was long enough; the variant takes any empty
\* read for the end.
GivesUp_AtOnce(r) == TRUE
GivesUp(r) == seen_data[r] /\ IdleStart(r) = "expired"

\* Ok(0), when no VMM has the FIFO open, and WouldBlock.
ReadNothing(r) ==
    /\ thread[r] = "read" /\ fifo[r] = <<>>
    /\ idle_since' = IF seen_data[r] THEN [idle_since EXCEPT ![r] = IdleStart(r)]
                                     ELSE idle_since
    /\ thread' = [thread EXCEPT ![r] = IF GivesUp(r) THEN LoopEnd ELSE "check"]
    /\ UNCHANGED <<machineVars, pathVars, dataVars, buf, seen_data, captured, done>>

ReadFails(r) ==
    /\ thread[r] = "read"
    /\ thread' = [thread EXCEPT ![r] = "send_err"]
    /\ UNCHANGED <<machineVars, pathVars, dataVars, buf, seen_data, idle_since,
                   captured, done>>

\* What write_all writes of the buffer; the variant is a write that is short.
WriteAll_Short(b) == SubSeq(b, 1, 1)
WriteAll(b) == b

WriteData(r) ==
    /\ thread[r] = "write"
    /\ captured' = [captured EXCEPT ![r] = @ \o WriteAll(buf[r])]
    /\ buf' = [buf EXCEPT ![r] = <<>>]
    /\ thread' = [thread EXCEPT ![r] = "check"]
    /\ UNCHANGED <<machineVars, pathVars, dataVars, seen_data, idle_since, done>>

\* write_all fails after it has written some of the chunks.
WriteFails(r) ==
    /\ thread[r] = "write"
    /\ \E n \in 0..(Len(buf[r]) - 1) :
          captured' = [captured EXCEPT ![r] = @ \o SubSeq(buf[r], 1, n)]
    /\ thread' = [thread EXCEPT ![r] = "send_err"]
    /\ UNCHANGED <<machineVars, pathVars, dataVars, buf, seen_data, idle_since, done>>

RemoveFifo(r) ==
    /\ thread[r] \in {"remove", "remove_err"}
    /\ RemoveFile(r, "thread")
    /\ thread' = [thread EXCEPT ![r] = IF @ = "remove" THEN "send" ELSE "ended"]
    /\ UNCHANGED <<machineVars, dataVars, buf, seen_data, idle_since, captured, done>>

\* After an error the message is sent first.
SendDone(r) ==
    /\ thread[r] \in {"send", "send_err"}
    /\ done' = [done EXCEPT ![r] = Append(@, IF thread[r] = "send" THEN "ok" ELSE "err")]
    /\ thread' = [thread EXCEPT ![r] = IF @ = "send" THEN "ended" ELSE "remove_err"]
    /\ UNCHANGED <<machineVars, pathVars, dataVars, buf, seen_data, idle_since, captured>>

\* 100 ms have passed since idle_since.
Elapse(r) ==
    /\ idle_since[r] = "counting"
    /\ idle_since' = [idle_since EXCEPT ![r] = "expired"]
    /\ UNCHANGED <<machineVars, pathVars, dataVars, thread, buf, seen_data, captured, done>>

ThreadStep(r) ==
    \/ CheckExit(r) \/ ReadData(r) \/ ReadNothing(r) \/ ReadFails(r)
    \/ WriteData(r) \/ WriteFails(r) \/ RemoveFifo(r) \/ SendDone(r)

Next ==
    \/ StartVmm \/ CreateLogFiles \/ SetupLogging \/ AbortStart \/ AbortEarly
    \/ Finalize \/ DoCleanup \/ SignalExit \/ VmmWrites \/ VmmExit
    \/ \E r \in Run : ThreadStep(r) \/ Elapse(r)

\* The thread runs, and time passes.  Nothing else has to happen.
Fairness == \A r \in Run : WF_vars(ThreadStep(r)) /\ WF_vars(Elapse(r))

Spec == Init /\ [][Next]_vars
FairSpec == Spec /\ Fairness

-----------------------------------------------------------------------------
(* Properties                                                              *)

Loop == {"check", "read", "write"}
Failed == {"send_err", "remove_err"}

\* The first n chunks, in the order in which the VMM wrote them.
Chunks(n) == [i \in 1..n |-> i]

\* Nothing is lost, doubled or reordered on the way from the VMM to the
\* writer: what the writer got, what the thread holds and what is in the FIFO
\* are the VMM's output; after an error the writer has a prefix of it.
OutputInOrder ==
    \A r \in Run :
        \/ captured[r] \o buf[r] \o fifo[r] = Chunks(sent[r])
        \/ /\ "err" \in {done[r][i] : i \in DOMAIN done[r]} \/ thread[r] \in Failed
           /\ \E n \in 0..sent[r] : captured[r] = Chunks(n)

\* A FIFO does not stay by accident.  It is still at the path after its thread
\* has reported Ok only if that thread's own remove_file failed, and after its
\* run, where it makes the mkfifo of every later run fail, only if do_cleanup
\* failed to remove it too: whichever of the two was first, and whatever the
\* threads of other runs removed meanwhile.
FifoStaysByFailure ==
    \A r \in Run : path = r =>
        /\ "ok" \in {done[r][i] : i \in DOMAIN done[r]} => "thread" \in unremoved
        /\ machine = "down" \/ r # run => "do_cleanup" \in unremoved

\* The loop only ends for silence when data was seen before: a VMM that opens
\* the FIFO late, or says nothing for a while at first, is still captured.
WaitsForFirstData ==
    [][\A r \in Run : thread[r] \in Loop /\ thread'[r] \notin Loop \cup Failed =>
                          exit_event \/ captured[r] # <<>>]_vars

\* The thread ends: after exit_event unless a new start_vmm clears it before
\* the thread has looked, and in any case once its VMM is gone if it has seen
\* data.  (A thread that has seen none and misses exit_event goes on polling.)
CaptureEnds ==
    \A r \in Run :
        /\ (exit_event /\ thread[r] \in Loop) ~> (~exit_event \/ thread[r] = "ended")
        /\ (vmm[r] = "gone" /\ seen_data[r]) ~> (thread[r] = "ended")
=============================================================================
