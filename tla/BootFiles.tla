------------------------------ MODULE BootFiles ------------------------------
(***************************************************************************)
(* The files a guest boots from, over successive Machines that share a     *)
(* socket path and, when they are jailed, a chroot: what Config::validate  *)
(* checks, the FIFOs of create_log_files, the hard links and rewritten     *)
(* paths of link_files_handler in src/src/jailer.rs, the requests that     *)
(* name the files, and the VMM that answers on the socket.                 *)
(*                                                                         *)
(* A path is a pair <<directory, name>>; <<Jail, name>> is a bare file     *)
(* name, which a jailed VMM finds in its root.  An optional path is given   *)
(* and not empty, or Absent.                                               *)
(*                                                                         *)
(* Two things are asked of the caller, for the code has nothing against    *)
(* them: one start() runs at a time, and a jailer id is used again only    *)
(* when the VMM before has gone.  Plain Machines start while others are    *)
(* up.  How an abort or a stop ends the VMM is in MachineLifecycle: here   *)
(* it is one step.                                                         *)
(***************************************************************************)
EXTENDS Integers, Sequences, Functions

CONSTANTS Machine,   \* the Machines, started in any order
          Files,     \* the regular files of the host, as paths
          Config     \* the configurations: files, kernel_name, disable_validation

Jail == "jail"
Absent == <<Jail, "">>
None == "none"

\* The fields of cfg that name a file, in the order they are linked.
Part == <<"kernel", "initrd", "drive1", "drive2", "log_fifo", "metrics_fifo">>
Fifo == {"log_fifo", "metrics_fifo"}

\* The requests of the handlers after CreateLogFiles, in order, and the parts
\* each of them names: none for create_machine.
Request == <<{"log_fifo"}, {"metrics_fifo"}, {}, {"kernel", "initrd"}, {"drive1"},
             {"drive2"}>>

\* There is a kernel, a file that is named has a name, and what the guest boots
\* from is not the path of a FIFO.
ASSUME ConfigAssumption ==
    \A c \in Config :
        /\ DOMAIN c.files = Range(Part)
        /\ c.files["kernel"] # Absent /\ c.kernel_name # ""
        /\ c.disable_validation \in BOOLEAN
        /\ \A part \in Range(Part) : c.files[part] # Absent =>
              /\ c.files[part][2] # ""
              /\ part \notin Fifo =>
                    \A d \in Config, fifo \in Fifo : c.files[part] # d.files[fifo]

ASSUME MachineAssumption == None \notin Machine

VARIABLES
    jailed,  \* the Machines have a jailer_cfg with NaiveChrootStrategy
    given,   \* the configuration each Machine was made with
    cfg,     \* its file paths now
    pc,      \* where its start() is, or how it ended
    step,    \* the next request of start()
    vmm,     \* its process
    socket,  \* the VMM that bound the socket path, or None when there is no file
    fifos,   \* host FIFOs: path and the Machine that made it
    links,   \* the chroot: name and the file it is a link to
    guest    \* files each VMM has opened: part and file

vars == <<jailed, given, cfg, pc, step, vmm, socket, fifos, links, guest>>

Init ==
    /\ jailed \in BOOLEAN
    /\ given \in [Machine -> Config]
    /\ cfg = [m \in Machine |-> given[m].files]
    /\ pc = [m \in Machine |-> "new"]
    /\ step = [m \in Machine |-> 1]
    /\ vmm = [m \in Machine |-> "none"]
    /\ socket = None
    /\ fifos = {}
    /\ links = {}
    /\ guest = [m \in Machine |-> {}]

-----------------------------------------------------------------------------
(* Files                                                                   *)

Alive(v) == vmm[v] \in {"spawned", "running", "booted"}

\* The file behind a path of the host: one that was there, or the FIFO that a
\* Machine made.
HostFile(path) ==
    IF path \in Files THEN {<<path, "host">>} ELSE {f \in fifos : f[1] = path}

\* What a VMM finds under a path: a jailed one only sees its root.
VmmFile(path) ==
    IF jailed THEN {l[2] : l \in {k \in links : path = <<Jail, k[1]>>}}
              ELSE HostFile(path)

\* The parts that m's configuration has.
Present(m) == {part \in Range(Part) : cfg[m][part] # Absent}

\* The file that a part of m's configuration is meant to be.
Meant(m, part) ==
    <<given[m].files[part], IF part \in Fifo THEN m ELSE "host">>

-----------------------------------------------------------------------------
(* The end of a Machine                                                    *)

\* The cleanup functions: the FIFOs this Machine made, then the socket path if
\* a process was spawned, whoever bound it.
Cleanup(m) ==
    /\ fifos' = {f \in fifos : f[2] # m}
    /\ socket' = IF vmm[m] = "none" THEN socket ELSE None

End(m, label) ==
    /\ pc' = [pc EXCEPT ![m] = label]
    /\ vmm' = [vmm EXCEPT ![m] = IF @ = "none" THEN @ ELSE "dead"]
    /\ Cleanup(m)

\* start() fails in m, and abort_start ends its VMM.
FailStart(m) ==
    /\ pc[m] \in {"validate", "spawn", "wait", "log_files", "link", "api"}
    /\ End(m, "failed")
    /\ UNCHANGED <<jailed, given, cfg, step, links, guest>>

-----------------------------------------------------------------------------
(* start(), up to the files                                                *)

NoStart == \A m \in Machine : pc[m] \in {"new", "up", "failed", "over"}

Start(m) ==
    /\ pc[m] = "new" /\ NoStart
    /\ jailed => \A v \in Machine : ~Alive(v)
    /\ pc' = [pc EXCEPT ![m] = "validate"]
    /\ UNCHANGED <<jailed, given, cfg, step, vmm, socket, fifos, links, guest>>

\* Config::validate finds no file at the socket path; the variant is a check
\* that was left out.
SocketFree_Unchecked == TRUE
SocketFree == socket = None

\* drive1 is the drive with is_root_device.
root_drive_present(m) == {"initrd", "drive1"} \cap Present(m) # {}

\* The handler of validate.Cfg; a jailed Machine has that of validate.JailerCfg,
\* which looks at no file.  With disable_validation neither runs.
Validated(m) ==
    \/ given[m].disable_validation
    \/ jailed /\ root_drive_present(m)
    \/ /\ ~jailed /\ SocketFree
       /\ \A part \in {"kernel", "initrd", "drive1"} :
             cfg[m][part] # Absent => HostFile(cfg[m][part]) # {}

Validate(m) ==
    /\ pc[m] = "validate" /\ Validated(m)
    /\ pc' = [pc EXCEPT ![m] = "spawn"]
    /\ UNCHANGED <<jailed, given, cfg, step, vmm, socket, fifos, links, guest>>

\* start_vmm
Spawn(m) ==
    /\ pc[m] = "spawn"
    /\ pc' = [pc EXCEPT ![m] = "wait"]
    /\ vmm' = [vmm EXCEPT ![m] = "spawned"]
    /\ UNCHANGED <<jailed, given, cfg, step, socket, fifos, links, guest>>

\* wait_for_vmm_ready: the child is alive, the socket is there and something
\* answers on it.
Ready(m) ==
    /\ pc[m] = "wait"
    /\ Alive(m) /\ socket # None /\ Alive(socket)
    /\ pc' = [pc EXCEPT ![m] = "log_files"]
    /\ UNCHANGED <<jailed, given, cfg, step, vmm, socket, fifos, links, guest>>

\* mkfifo, the metrics FIFO first; it fails when the path exists.  A failure
\* after the first one leaves what FailStart cleans up.
CreateLogFiles(m) ==
    LET wanted == {cfg[m][part] : part \in Fifo} \ {Absent}
    IN /\ pc[m] = "log_files"
       /\ \A path \in wanted : HostFile(path) = {}
       /\ cfg[m]["log_fifo"] = cfg[m]["metrics_fifo"] => wanted = {}
       /\ fifos' = fifos \cup (wanted \X {m})
       /\ pc' = [pc EXCEPT ![m] = IF jailed THEN "link" ELSE "api"]
       /\ UNCHANGED <<jailed, given, cfg, step, vmm, socket, links, guest>>

-----------------------------------------------------------------------------
(* link_files_handler                                                      *)

\* The parts that the handler links when it has come to the n-th.
Linked(m, n) == {Part[i] : i \in 1..n} \cap Present(m)

LinkName(m, part) ==
    IF part = "kernel" THEN given[m].kernel_name ELSE cfg[m][part][2]

\* hard_link finds its source and no file of that name; the variant is a link
\* that takes what is there for its own.
NameFree_Reused(m, part, taken) == TRUE
NameFree(m, part, taken) == LinkName(m, part) \notin taken

LinkNames == {l[1] : l \in links}

\* The links up to the n-th part can be made.
Linkable(m, n) ==
    \A i \in 1..n : Part[i] \in Present(m) =>
        /\ HostFile(cfg[m][Part[i]]) # {}
        /\ NameFree(m, Part[i],
                    LinkNames \cup {LinkName(m, part) : part \in Linked(m, i - 1)})

\* The parts whose path has been rewritten by then: a drive or a FIFO at once,
\* the kernel and the initrd when the initrd and all drives are linked.
Rewritten(m, n) ==
    IF {"initrd", "drive1", "drive2"} \cap Present(m) \subseteq Linked(m, n)
    THEN Linked(m, n)
    ELSE Linked(m, n) \ {"kernel", "initrd"}

\* The link that is made for a part: none when the name was there.
NewLinks(m, part) ==
    LET name == LinkName(m, part)
    IN IF name \in LinkNames THEN {} ELSE {name} \X HostFile(cfg[m][part])

\* The handler comes to the n-th part and then fails, or links them all.  A
\* chown that fails leaves the FIFO it was for linked, with its path as it was.
LinkFiles(m) ==
    /\ pc[m] = "link"
    /\ \E n \in 0..Len(Part), failed \in SUBSET Fifo :
          LET moved == Rewritten(m, n) \ failed
          IN /\ Linkable(m, n)
             /\ failed # {} => n > 0 /\ failed = {Part[n]} \cap Present(m)
             /\ links' = links \cup UNION {NewLinks(m, part) : part \in Linked(m, n)}
             /\ cfg' = [cfg EXCEPT ![m] = [part \in DOMAIN @ |->
                          IF part \in moved THEN <<Jail, LinkName(m, part)>> ELSE @[part]]]
             /\ IF Linked(m, n) = Present(m) /\ failed = {}
                THEN pc' = [pc EXCEPT ![m] = "api"] /\ UNCHANGED <<vmm, socket, fifos>>
                ELSE End(m, "failed")
    /\ UNCHANGED <<jailed, given, step, guest>>

-----------------------------------------------------------------------------
(* The requests                                                            *)

Named(m) == Request[step[m]] \cap Present(m)

\* setup_logging, setup_metrics and attach_drives skip what is not configured.
\* The variant is a loop that ends one drive early.
Skipped_OneLess(m) == Request[step[m]] # {} /\ Named(m) \ {"drive2"} = {}
Skipped(m) == Request[step[m]] # {} /\ Named(m) = {}

SkipRequest(m) ==
    /\ pc[m] = "api" /\ step[m] <= Len(Request) /\ Skipped(m)
    /\ step' = [step EXCEPT ![m] = @ + 1]
    /\ UNCHANGED <<jailed, given, cfg, pc, vmm, socket, fifos, links, guest>>

\* The VMM on the socket opens what the request names.  Only the logger and the
\* metrics are taken after boot.
Accepts(v, m) ==
    /\ vmm[v] = "running" \/ (vmm[v] = "booted" /\ Named(m) # {} /\ Named(m) \subseteq Fifo)
    /\ \A part \in Named(m) : VmmFile(cfg[m][part]) # {}

Open(v, m) ==
    guest' = [guest EXCEPT ![v] =
        {g \in @ : g[1] \notin Named(m)}
            \cup UNION {{part} \X VmmFile(cfg[m][part]) : part \in Named(m)}]

\* A request is answered, and start() goes on; or the answer is late, and it
\* fails although the VMM has done what it was asked.
RequestOk(m) ==
    /\ pc[m] = "api" /\ step[m] <= Len(Request) /\ ~Skipped(m)
    /\ socket # None /\ Accepts(socket, m) /\ Open(socket, m)
    /\ step' = [step EXCEPT ![m] = @ + 1]
    /\ UNCHANGED <<jailed, given, cfg, pc, vmm, socket, fifos, links>>

RequestLate(m) ==
    /\ pc[m] = "api" /\ step[m] <= Len(Request) /\ ~Skipped(m)
    /\ socket # None /\ Accepts(socket, m) /\ Open(socket, m)
    /\ End(m, "failed")
    /\ UNCHANGED <<jailed, given, cfg, step, links>>

\* start_instance; a late answer is FailStart.
StartInstance(m) ==
    /\ pc[m] = "api" /\ step[m] > Len(Request)
    /\ socket # None /\ vmm[socket] = "running"
    /\ vmm' = [vmm EXCEPT ![socket] = "booted"]
    /\ pc' = [pc EXCEPT ![m] = "up"]
    /\ UNCHANGED <<jailed, given, cfg, step, socket, fifos, links, guest>>

\* stop_vmm or wait.
Stop(m) ==
    /\ pc[m] = "up"
    /\ End(m, "over")
    /\ UNCHANGED <<jailed, given, cfg, step, links, guest>>

-----------------------------------------------------------------------------
(* The VMM and the caller                                                  *)

\* Firecracker binds its socket, and exits when the path exists.
Bind(v) ==
    /\ vmm[v] = "spawned"
    /\ IF socket = None
       THEN socket' = v /\ vmm' = [vmm EXCEPT ![v] = "running"]
       ELSE UNCHANGED socket /\ vmm' = [vmm EXCEPT ![v] = "dead"]
    /\ UNCHANGED <<jailed, given, cfg, pc, step, fifos, links, guest>>

\* The process ends by itself and leaves its socket.
Crash(v) ==
    /\ Alive(v)
    /\ vmm' = [vmm EXCEPT ![v] = "dead"]
    /\ UNCHANGED <<jailed, given, cfg, pc, step, socket, fifos, links, guest>>

\* The caller removes the chroot, which the SDK never does.
RemoveChroot ==
    /\ jailed /\ NoStart /\ \A v \in Machine : ~Alive(v)
    /\ links' = {}
    /\ socket' = None
    /\ UNCHANGED <<jailed, given, cfg, pc, step, vmm, fifos, guest>>

Next ==
    \/ \E m \in Machine :
          \/ Start(m) \/ Validate(m) \/ Spawn(m) \/ Ready(m) \/ CreateLogFiles(m)
          \/ LinkFiles(m) \/ SkipRequest(m) \/ RequestOk(m) \/ RequestLate(m)
          \/ StartInstance(m) \/ FailStart(m) \/ Stop(m) \/ Bind(m) \/ Crash(m)
    \/ RemoveChroot

Spec == Init /\ [][Next]_vars

-----------------------------------------------------------------------------
(* Properties                                                              *)

\* Every file a VMM has opened is the one its own Machine was configured with:
\* not a link an earlier Machine left in the chroot under the same name, not
\* another part's file, not one of a Machine that took this VMM for its own.
\* Only a Machine with disable_validation, without a jailer, may do the last, and
\* then only with a FIFO of its own: never with what a guest boots from.
OwnFiles ==
    \A v \in Machine : \A g \in guest[v] :
        \/ g[2] = Meant(v, g[1])
        \/ /\ g[1] \in Fifo /\ ~jailed
           /\ \E m \in Machine : given[m].disable_validation /\ g[2] = Meant(m, g[1])

\* A guest is started only after its VMM has acknowledged every file that is
\* configured, although any request may be refused, lost or answered late.  With
\* disable_validation, a FIFO may have gone to a VMM that was there before.
BootComplete ==
    \A v \in Machine, part \in Range(Part) :
        vmm[v] = "booted" /\ given[v].files[part] # Absent =>
            \/ part \in {g[1] : g \in guest[v]}
            \/ part \in Fifo /\ ~jailed /\ given[v].disable_validation

\* link_files_handler rewrites a path only when the link is in the chroot and
\* leads to the file that was configured, also when it fails half way.
RewrittenPathsLinked ==
    [][\A m \in Machine : \A part \in Range(Part) :
          cfg'[m][part] # cfg[m][part] =>
              <<cfg'[m][part][2], Meant(m, part)>> \in links']_vars
=============================================================================
