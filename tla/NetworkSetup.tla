---------------------------- MODULE NetworkSetup ----------------------------
(***************************************************************************)
(* setup_network of src/src/machine.rs and the CNI set-up behind it in     *)
(* src/src/network.rs: the network namespace bound to a file below         *)
(* /var/run/netns, the chain of CNI plugins, and the cleanup functions     *)
(* that do_cleanup later pops from the back.                               *)
(*                                                                         *)
(* A Vm is a VM id with its own file in the shared parent directory and    *)
(* its own CNI container.  Several Machines may use the id one after the   *)
(* other; the host keeps what the earlier ones left.  The calls of         *)
(* different Vms run on different threads, so every system call and every  *)
(* plugin run is a step of its own.                                        *)
(***************************************************************************)
EXTENDS Integers, Sequences

CONSTANTS Vm,       \* VM ids whose namespaces share a parent directory
          Plugins,  \* length of the CNI plugin chain
          Forced,   \* ids whose CniConfiguration.force is set
          MaxRuns   \* bound on the Machines created for one id

ASSUME PluginsAssumption == Plugins \in Nat \ {0}
ASSUME ForceAssumption == Forced \subseteq Vm
ASSUME MaxRunsAssumption == MaxRuns \in Nat

VARIABLES
    dir,      \* host: the parent directory exists
    file,     \* host: ids whose namespace file exists
    mount,    \* host: ids with a namespace bound to that file
    added,    \* host: plugins of the chain that are set up, for each id
    pc,       \* where the Machine of each id is
    k,        \* the round of the loop in invoke_network_list
    made,     \* the vector cleanup_funcs of setup_cni, oldest first
    cleanups, \* its part of Machine.cleanup_funcs
    left,     \* resources whose cleanup function was dropped or failed
    runs      \* Machines so far, for each id

hostVars == <<dir, file, mount, added>>
vars == <<hostVars, pc, k, made, cleanups, left, runs>>

Init ==
    /\ dir \in BOOLEAN
    /\ file = {}
    /\ mount = {}
    /\ added = [v \in Vm |-> {}]
    /\ pc = [v \in Vm |-> "down"]
    /\ k = [v \in Vm |-> 1]
    /\ made = [v \in Vm |-> <<>>]
    /\ cleanups = [v \in Vm |-> <<>>]
    /\ left = [v \in Vm |-> {}]
    /\ runs = [v \in Vm |-> 0]

-----------------------------------------------------------------------------
Goto(v, label) == pc' = [pc EXCEPT ![v] = label]
Made(v, r) == made' = [made EXCEPT ![v] = Append(@, r)]
SeqRange(s) == {s[i] : i \in DOMAIN s}

\* The plugin of round n for DEL, which goes backwards; the variant does not.
DelTurn_Forward(n) == n
DelTurn(n) == Plugins + 1 - n

\* Whether the loop has a round n.
InChain(n) == n <= Plugins

FirstRound(v) == k' = [k EXCEPT ![v] = 1]
NextRound(v) == k' = [k EXCEPT ![v] = @ + 1]

\* An error leaves setup_cni: what it has made so far is dropped, and so are
\* the functions that would have removed it.
Fail(v, resources) ==
    /\ Goto(v, "down")
    /\ left' = [left EXCEPT ![v] = @ \cup SeqRange(made[v]) \cup resources]
    /\ made' = [made EXCEPT ![v] = <<>>]
    /\ UNCHANGED <<k, cleanups, runs>>

-----------------------------------------------------------------------------
(* initialize_netns                                                        *)

\* path.exists(): nothing to do, and nothing to clean up, when it does.
SetupNetwork(v) ==
    /\ pc[v] = "down" /\ runs[v] < MaxRuns
    /\ runs' = [runs EXCEPT ![v] = @ + 1]
    /\ IF v \in file
       THEN Goto(v, "del") /\ FirstRound(v)
       ELSE Goto(v, "parent") /\ k' = k
    /\ UNCHANGED <<hostVars, made, cleanups, left>>

CheckParent(v) ==
    /\ pc[v] = "parent"
    /\ Goto(v, IF dir THEN "create" ELSE "mkdir")
    /\ UNCHANGED <<hostVars, k, made, cleanups, left, runs>>

\* create_dir_all also succeeds when somebody else was faster.
CreateParent(v) ==
    /\ pc[v] = "mkdir"
    /\ \/ dir' = TRUE /\ Made(v, "dir") /\ Goto(v, "create") /\ UNCHANGED <<k, cleanups, left, runs>>
       \/ dir' = dir /\ Fail(v, {})
    /\ UNCHANGED <<file, mount, added>>

\* open(create_new): fails when the directory is gone again.
CreateFile(v) ==
    /\ pc[v] = "create"
    /\ \/ /\ dir
          /\ file' = file \cup {v} /\ Made(v, "file") /\ Goto(v, "mount")
          /\ UNCHANGED <<k, cleanups, left, runs>>
       \/ file' = file /\ Fail(v, {})
    /\ UNCHANGED <<dir, mount, added>>

\* unshare and the bind mount, on a thread of their own that does not panic.
MountNetns(v) ==
    /\ pc[v] = "mount"
    /\ mount' = mount \cup {v}
    /\ Made(v, "mount")
    /\ Goto(v, "del")
    /\ FirstRound(v)
    /\ UNCHANGED <<dir, file, added, cleanups, left, runs>>

MountFails(v) ==
    /\ pc[v] = "mount"
    /\ Goto(v, "rollback")
    /\ UNCHANGED <<hostVars, k, made, cleanups, left, runs>>

-----------------------------------------------------------------------------
(* The cleanup functions                                                   *)

\* The function for r does what it can: umount2, remove_file (busy while
\* something is mounted on the file) and remove_dir (refused while the
\* directory is not empty).  It may fail for reasons outside of this model,
\* which is recorded.
Undo(v, r) ==
    /\ \/ r = "mount" /\ mount' = mount \ {v} /\ left' = left /\ UNCHANGED <<dir, file>>
       \/ r = "file" /\ v \notin mount /\ file' = file \ {v} /\ left' = left
          /\ UNCHANGED <<dir, mount>>
       \/ r = "file" /\ v \in mount /\ left' = left /\ UNCHANGED <<dir, file, mount>>
       \/ r = "dir" /\ dir' = (dir /\ file # {}) /\ left' = left
          /\ UNCHANGED <<file, mount>>
       \/ r \in {"mount", "file", "dir"}
          /\ left' = [left EXCEPT ![v] = @ \cup {r}] /\ UNCHANGED <<dir, file, mount>>
    /\ UNCHANGED added

\* The loop after a failed mount, which ignores errors.
Rollback(v) ==
    /\ pc[v] = "rollback" /\ made[v] # <<>>
    /\ Undo(v, made[v][Len(made[v])])
    /\ made' = [made EXCEPT ![v] = SubSeq(@, 1, Len(@) - 1)]
    /\ UNCHANGED <<pc, k, cleanups, runs>>

RollbackDone(v) ==
    /\ pc[v] = "rollback" /\ made[v] = <<>>
    /\ Goto(v, "down")
    /\ UNCHANGED <<hostVars, k, made, cleanups, left, runs>>

-----------------------------------------------------------------------------
(* invoke_cni: a DEL of what may be there, then ADD                        *)

\* One plugin run of invoke_network_list(DEL).
DelPlugin(v) ==
    /\ pc[v] \in {"del", "undo_net"} /\ InChain(k[v])
    /\ added' = [added EXCEPT ![v] = @ \ {DelTurn(k[v])}]
    /\ NextRound(v)
    /\ UNCHANGED <<dir, file, mount, pc, made, cleanups, left, runs>>

\* Whether a DEL that failed lets invoke_cni go on to ADD.  The variant does
\* not look at force.
Proceeds_Always(v) == TRUE
Proceeds(v) == v \in Forced

\* A configuration that cannot be read, a plugin that is not found, or one
\* that fails, before or after it did its work.
DelFails(v) ==
    /\ pc[v] = "del" /\ InChain(k[v])
    /\ \E p \in {{}, {DelTurn(k[v])}} : added' = [added EXCEPT ![v] = @ \ p]
    /\ IF Proceeds(v)
       THEN /\ Goto(v, "add") /\ FirstRound(v)
            /\ UNCHANGED <<made, cleanups, left, runs>>
       ELSE Fail(v, {})
    /\ UNCHANGED <<dir, file, mount>>

DelDone(v) ==
    /\ pc[v] = "del" /\ ~InChain(k[v])
    /\ Goto(v, "add")
    /\ FirstRound(v)
    /\ UNCHANGED <<hostVars, made, cleanups, left, runs>>

\* One plugin run of invoke_network_list(ADD); a plugin needs the namespace.
AddPlugin(v) ==
    /\ pc[v] = "add" /\ InChain(k[v]) /\ v \in mount
    /\ added' = [added EXCEPT ![v] = @ \cup {k[v]}]
    /\ NextRound(v)
    /\ UNCHANGED <<dir, file, mount, pc, made, cleanups, left, runs>>

\* The ? after the ADD drops the DEL function with the rest.
AddFails(v) ==
    /\ pc[v] = "add" /\ InChain(k[v])
    /\ \E p \in {{}, {k[v]}} : added' = [added EXCEPT ![v] = @ \cup p]
    /\ Fail(v, {"net"})
    /\ UNCHANGED <<dir, file, mount>>

\* The functions setup_cni returns: those of the namespace, then the DEL.  The
\* variant has the DEL first.
Returned_DelFirst(ms) == <<"net">> \o ms
Returned(ms) == Append(ms, "net")

\* apply_cni_result; setup_network then pushes everything that was made.
ApplyCniResult(v) ==
    /\ pc[v] = "add" /\ ~InChain(k[v])
    /\ cleanups' = [cleanups EXCEPT ![v] = @ \o Returned(made[v])]
    /\ made' = [made EXCEPT ![v] = <<>>]
    /\ Goto(v, "up")
    /\ UNCHANGED <<hostVars, k, left, runs>>

ApplyFails(v) ==
    /\ pc[v] = "add" /\ ~InChain(k[v])
    /\ Fail(v, {"net"})
    /\ UNCHANGED hostVars

-----------------------------------------------------------------------------
(* The Machine ends: do_cleanup                                            *)

\* The function that do_cleanup pops, and what is left.  The variant goes
\* through the vector from the front.
Popped_Front(s) == [func |-> Head(s), rest |-> Tail(s)]
Popped(s) == [func |-> s[Len(s)], rest |-> SubSeq(s, 1, Len(s) - 1)]

DoCleanup(v) ==
    /\ pc[v] = "up" /\ cleanups[v] # <<>>
    /\ LET p == Popped(cleanups[v])
       IN /\ cleanups' = [cleanups EXCEPT ![v] = p.rest]
          /\ IF p.func = "net"
             THEN /\ Goto(v, "undo_net") /\ FirstRound(v)
                  /\ UNCHANGED <<hostVars, left>>
             ELSE Undo(v, p.func) /\ UNCHANGED <<pc, k>>
    /\ UNCHANGED <<made, runs>>

CleanupDone(v) ==
    /\ pc[v] = "up" /\ cleanups[v] = <<>>
    /\ Goto(v, "down")
    /\ UNCHANGED <<hostVars, k, made, cleanups, left, runs>>

\* The DEL of the cleanup function ends, or stops at its first error.
UndoNetDone(v) ==
    /\ pc[v] = "undo_net" /\ ~InChain(k[v])
    /\ Goto(v, "up")
    /\ UNCHANGED <<hostVars, k, made, cleanups, left, runs>>

UndoNetFails(v) ==
    /\ pc[v] = "undo_net" /\ InChain(k[v])
    /\ \E p \in {{}, {DelTurn(k[v])}} : added' = [added EXCEPT ![v] = @ \ p]
    /\ left' = [left EXCEPT ![v] = @ \cup {"net"}]
    /\ Goto(v, "up")
    /\ UNCHANGED <<dir, file, mount, k, made, cleanups, runs>>

\* The program dies; the host keeps everything.
Crash(v) ==
    /\ pc[v] # "down"
    /\ Goto(v, "down")
    /\ left' = [left EXCEPT ![v] = {"dir", "file", "mount", "net"}]
    /\ made' = [made EXCEPT ![v] = <<>>]
    /\ cleanups' = [cleanups EXCEPT ![v] = <<>>]
    /\ UNCHANGED <<hostVars, k, runs>>

Next ==
    \E v \in Vm :
        \/ SetupNetwork(v) \/ CheckParent(v) \/ CreateParent(v) \/ CreateFile(v)
        \/ MountNetns(v) \/ MountFails(v) \/ Rollback(v) \/ RollbackDone(v)
        \/ DelPlugin(v) \/ DelFails(v) \/ DelDone(v)
        \/ AddPlugin(v) \/ AddFails(v) \/ ApplyCniResult(v) \/ ApplyFails(v)
        \/ DoCleanup(v) \/ CleanupDone(v) \/ UndoNetDone(v) \/ UndoNetFails(v)
        \/ Crash(v)

Spec == Init /\ [][Next]_vars

-----------------------------------------------------------------------------
(* Properties                                                              *)

Resource == {"dir", "file", "mount", "net"}

\* Every variable has its type.
TypeOK ==
    /\ dir \in BOOLEAN
    /\ file \subseteq Vm
    /\ mount \subseteq Vm
    /\ added \in [Vm -> SUBSET (1..Plugins)]
    /\ pc \in [Vm -> {"down", "parent", "mkdir", "create", "mount", "rollback",
                      "del", "add", "up", "undo_net"}]
    /\ k \in [Vm -> 1..(Plugins + 1)]
    /\ made \in [Vm -> Seq(Resource)]
    /\ cleanups \in [Vm -> Seq(Resource)]
    /\ left \in [Vm -> SUBSET Resource]
    /\ runs \in [Vm -> 0..MaxRuns]

\* The plugins that are set up are always the first few of the chain, also
\* after runs of ADD and DEL that failed half way and after crashes: no plugin
\* is left behind whose predecessor was deleted under it.
PluginsFormPrefix == \A v \in Vm : \E n \in 0..Plugins : added[v] = 1..n

\* Without force, ADD meets no plugin that an earlier Machine with the same id
\* left set up: the DEL before it has removed them all.
AddOnClean ==
    \A v \in Vm : pc[v] = "add" /\ v \notin Forced => added[v] = 1..(k[v] - 1)

\* What is still on the host once a Machine is down is there because the
\* function that would remove it was dropped on an error path, failed, or was
\* lost in a crash; do_cleanup itself, run backwards, removes the rest.
LeftoversExplained ==
    \A v \in Vm : pc[v] = "down" =>
        /\ v \in file => "file" \in left[v] \/ "mount" \in left[v]
        /\ v \in mount => "mount" \in left[v]
        /\ added[v] # {} => "net" \in left[v]

\* A Machine whose setup_network succeeded has every plugin of the chain set up
\* in a mounted namespace until its own cleanup runs the DEL, and the namespace
\* is still there while that DEL runs: whatever a crash has left (a plain file
\* makes the next set-up skip the mount), whatever force has let pass, and
\* whatever the Machines beside it remove.
NetworkUntilDeleted ==
    \A v \in Vm :
        LET pending == "net" \in SeqRange(cleanups[v])
        IN /\ pending => added[v] = 1..Plugins
           /\ pending \/ pc[v] = "undo_net" => v \in mount
=============================================================================
