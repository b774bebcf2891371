----------------------------- MODULE HandlerChain -----------------------------
(***************************************************************************)
(* The handler lists of a Machine: the default ones of                     *)
(* src/src/handlers.rs, how new_with_client, the jailer's chroot strategy  *)
(* and with_snapshot adapt them, how a caller edits them, and how start()  *)
(* runs them.                                                              *)
(*                                                                         *)
(* A handler is its name.  The caller adds and removes handlers of their   *)
(* own and leaves the SDK's in place; swap, which keeps the names, changes *)
(* nothing here.  The names of the specification are not those of          *)
(* GuestNetwork, the other part of start() that works on lists, so that    *)
(* one module can extend both.                                             *)
(***************************************************************************)
EXTENDS Integers, Sequences, Lists

CONSTANTS UserHandler,  \* names of the caller's own handlers
          MaxEdits      \* bound on the calls between new and start

ASSUME EditsAssumption == MaxEdits \in Nat

VARIABLES
    validation, fc_init,  \* Machine.handlers
    jailer,               \* cfg.jailer_cfg: "none", or its chroot_strategy
    snapshot,             \* cfg.snapshot: the paths it has
    disable_validation,   \* cfg.disable_validation
    edits,                \* calls so far
    stage,                \* where start() is
    todo,                 \* handlers it has still to run
    ran,                  \* handlers that have succeeded, in order
    booted                \* InstanceStart was sent

lists == <<validation, fc_init>>
cfg == <<jailer, snapshot, disable_validation>>
chain_vars == <<lists, cfg, edits, stage, todo, ran, booted>>

-----------------------------------------------------------------------------
(* HandlerList                                                             *)

has(list, name) == name \in Range(list)
remove(list, name) == Without(list, {name})

\* append_after: after every handler with that name, or not at all.  The
\* variant inserts in front of it.
append_after_InFront(list, name, h) ==
    Joined([i \in DOMAIN list |->
                   IF list[i] = name THEN <<h, list[i]>> ELSE <<list[i]>>])
append_after(list, name, h) ==
    Joined([i \in DOMAIN list |->
                   IF list[i] = name THEN <<list[i], h>> ELSE <<list[i]>>])

swappend(list, h) == IF has(list, h) THEN list ELSE Append(list, h)

-----------------------------------------------------------------------------
(* The lists the SDK makes                                                 *)

\* get_mem_backend_path() and snapshot_path
SnapshotPath == {"mem_backend", "snapshot"}
has_snapshot == snapshot # {}

DefaultFcInit ==
    <<"SetupNetwork", "SetupKernelArgs", "StartVMM", "CreateLogFiles",
      "BootstrapLogging", "CreateMachine", "CreateBootSource", "AttachDrives",
      "CreateNetworkInterfaces", "AddVsocks", "ConfigMmds">>

\* What a snapshot brings with it.
NotForSnapshot ==
    {"SetupKernelArgs", "CreateMachine", "CreateBootSource", "AttachDrives",
     "CreateNetworkInterfaces", "ConfigMmds"}

\* adapt_handlers_for_snapshot
SnapshotFcInit(list) ==
    Append(remove(Without(list, NotForSnapshot), "LoadSnapshot"), "LoadSnapshot")

SnapshotValidation(list) ==
    Append(remove(remove(list, "validate.Cfg"), "validate.LoadSnapshotCfg"),
           "validate.LoadSnapshotCfg")

\* NaiveChrootStrategy::adapt_handlers; CreateLogFiles is there.
JailFcInit(list) == append_after(list, "CreateLogFiles", "LinkFilesToRootFS")

\* new_with_client
ChainInit ==
    /\ jailer \in {"none", "naive", "no_strategy"}
    /\ snapshot \in SUBSET SnapshotPath
    /\ disable_validation \in BOOLEAN
    /\ LET adapted == IF has_snapshot THEN SnapshotFcInit(DefaultFcInit)
                                      ELSE DefaultFcInit
           checks == <<"validate.NetworkCfg",
                       IF jailer = "none" THEN "validate.Cfg" ELSE "validate.JailerCfg">>
       IN /\ fc_init = IF jailer = "naive" THEN JailFcInit(adapted) ELSE adapted
          /\ validation = IF has_snapshot THEN SnapshotValidation(checks) ELSE checks
    /\ edits = 0
    /\ stage = "new"
    /\ todo = <<>>
    /\ ran = <<>>
    /\ booted = FALSE

-----------------------------------------------------------------------------
(* Options and edits between new and start                                 *)

Edit ==
    /\ stage = "new" /\ edits < MaxEdits
    /\ edits' = edits + 1
    /\ UNCHANGED <<stage, todo, ran, booted>>

\* The option with_snapshot, which may be given more than once.  An empty path
\* counts as none; the lists are adapted all the same.
WithSnapshot ==
    /\ Edit
    /\ snapshot' \in SUBSET SnapshotPath
    /\ fc_init' = SnapshotFcInit(fc_init)
    /\ validation' = SnapshotValidation(validation)
    /\ UNCHANGED <<jailer, disable_validation>>

EditFcInit(list) ==
    /\ Edit
    /\ fc_init' = list
    /\ UNCHANGED <<validation, cfg>>

Prepend(u) == EditFcInit(<<u>> \o fc_init)
AppendHandler(u) == EditFcInit(Append(fc_init, u))
Swappend(u) == EditFcInit(swappend(fc_init, u))
RemoveHandler(u) == EditFcInit(remove(fc_init, u))
AppendAfter(u) ==
    \E name \in Range(fc_init) : EditFcInit(append_after(fc_init, name, u))

-----------------------------------------------------------------------------
(* start()                                                                 *)

\* Handlers::run skips the validation list; the variant always does.
SkipsValidation_Always == TRUE
SkipsValidation == disable_validation

Start ==
    /\ stage = "new"
    /\ IF SkipsValidation THEN stage' = "fc_init" /\ todo' = fc_init
                          ELSE stage' = "validation" /\ todo' = validation
    /\ UNCHANGED <<lists, cfg, edits, ran, booted>>

\* What the validation handlers say of the parts of cfg that are kept here.
Valid(h) ==
    /\ h = "validate.LoadSnapshotCfg" => snapshot = SnapshotPath
    /\ h = "validate.JailerCfg" => jailer # "no_strategy"

\* The next handler succeeds.
RunHandler ==
    /\ stage \in {"validation", "fc_init"} /\ todo # <<>>
    /\ Valid(Head(todo))
    /\ ran' = Append(ran, Head(todo))
    /\ todo' = Tail(todo)
    /\ UNCHANGED <<lists, cfg, edits, stage, booted>>

\* The next handler fails, and the rest is not run.
HandlerFails ==
    /\ stage \in {"validation", "fc_init"} /\ todo # <<>>
    /\ stage' = "err"
    /\ todo' = <<>>
    /\ UNCHANGED <<lists, cfg, edits, ran, booted>>

ValidationDone ==
    /\ stage = "validation" /\ todo = <<>>
    /\ stage' = "fc_init"
    /\ todo' = fc_init
    /\ UNCHANGED <<lists, cfg, edits, ran, booted>>

\* The early return of start_instance; the variant does not have it.
AlreadyStarted_Never == FALSE
AlreadyStarted == has_snapshot

StartInstance ==
    /\ stage = "fc_init" /\ todo = <<>>
    /\ \/ AlreadyStarted /\ stage' = "ok" /\ booted' = booted
       \/ ~AlreadyStarted /\ stage' = "ok" /\ booted' = TRUE
       \/ ~AlreadyStarted /\ stage' = "err" /\ booted' = booted
    /\ UNCHANGED <<lists, cfg, edits, todo, ran>>

ChainNext ==
    \/ WithSnapshot
    \/ \E u \in UserHandler :
          Prepend(u) \/ AppendHandler(u) \/ AppendAfter(u) \/ Swappend(u) \/ RemoveHandler(u)
    \/ Start \/ RunHandler \/ HandlerFails \/ ValidationDone \/ StartInstance

ChainSpec == ChainInit /\ [][ChainNext]_chain_vars

-----------------------------------------------------------------------------
(* Properties                                                              *)

\* The order the handlers depend on: the network before the kernel arguments
\* that name it and before the VMM that enters it, the FIFOs before the links
\* to them and before the VMM is told to log, a snapshot at the very end.
SdkOrder ==
    <<"SetupNetwork", "SetupKernelArgs", "StartVMM", "CreateLogFiles",
      "LinkFilesToRootFS", "BootstrapLogging", "CreateMachine", "CreateBootSource",
      "AttachDrives", "CreateNetworkInterfaces", "AddVsocks", "ConfigMmds",
      "LoadSnapshot">>

Checks ==
    {"validate.NetworkCfg", "validate.Cfg", "validate.JailerCfg", "validate.LoadSnapshotCfg"}

\* The names of the caller's handlers are none of the SDK's.
OwnNames == UserHandler \cap (Range(SdkOrder) \cup Checks) = {}
ASSUME NamesAssumption == OwnNames

Adapted == has(validation, "validate.LoadSnapshotCfg")

Wanted ==
    LET unjailed == IF jailer = "naive" THEN {} ELSE {"LinkFilesToRootFS"}
        unused == IF Adapted THEN NotForSnapshot ELSE {"LoadSnapshot"}
    IN Without(SdkOrder, unjailed \cup unused)

\* However the options are combined and repeated and wherever the caller puts
\* handlers of their own, the SDK's handlers are each there once, in order,
\* and a snapshot in cfg is always one that the lists are adapted to.
ChainInOrder ==
    /\ Without(fc_init, UserHandler) = Wanted
    /\ has_snapshot => Adapted

\* Unless validation is disabled, no handler with side effects runs before the
\* checks that apply to this configuration have passed: an incomplete snapshot
\* or a jailer without a chroot strategy never gets as far as the host.
ValidatedFirst ==
    ~disable_validation /\ Range(ran) \cap Range(fc_init) # {} =>
        /\ has(ran, "validate.NetworkCfg")
        /\ has(ran, IF jailer # "none" THEN "validate.JailerCfg"
                    ELSE IF Adapted THEN "validate.LoadSnapshotCfg" ELSE "validate.Cfg")
        /\ Adapted => snapshot = SnapshotPath
        /\ jailer # "no_strategy"

\* A start() that succeeds has set the guest going exactly once: it either
\* loaded a snapshot or sent InstanceStart, never both and never neither.
\* (with_snapshot without any path, and without validation, is the exception:
\* the handlers load a snapshot and start_instance does not know.)
StartedOnce ==
    stage = "ok" /\ ~(disable_validation /\ Adapted /\ ~has_snapshot) =>
        IF booted THEN ~has(ran, "LoadSnapshot")
        ELSE Len(Filter(ran, {"LoadSnapshot"})) = 1
=============================================================================
