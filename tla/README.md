# fc-sdk-rs: TLA+ models and proofs

fc-sdk-rs drives Firecracker microVMs from Rust. A `Machine` runs a list of
handlers (set up the network, spawn the VMM, make the log FIFOs, configure the
VM over HTTP on a Unix socket, start it or load a snapshot), keeps a stack of
cleanup functions, and ends with a terminal error that `wait()` reports. Beside
it run the VMM process, a thread that copies the log FIFO, and one process-wide
signal forwarder shared by all Machines. Paths below are relative to
`src/src/`.

## 1. Inventory: parts, state, how they interact

| part | source | state | models |
|---|---|---|---|
| signal forwarding | machine.rs 40-300 | a mutex with three maps, a global descriptor, a pipe, worker threads, kernel dispositions | `SignalForward` |
| Machine lifecycle | machine.rs 318-910 | `process`, `cleanup_funcs`, `cleanup_done`, `fatal_err`, `signal_forwarder`, `exit_event` | `MachineLifecycle` |
| CNI set-up | network.rs 60-535 | namespace directory, file, mount and plugin chain on the host | `NetworkSetup` |
| log FIFO capture | machine.rs 655-722, 959-1075 | a path, a FIFO, a thread and `exit_event` | `FifoCapture` |
| vsock | vsock/dial.rs, vsock/listener.rs | one stream per attempt, its timeouts, the guest's backlog | `VsockDial` |
| handler lists | handlers.rs, opts.rs, snapshot.rs, parts of jailer.rs and config.rs | two ordered lists, the configuration they must agree with | `HandlerChain` |
| HTTP transport | client_transports.rs | one connection per request | `HttpExchange` |
| boot files and jailer | config.rs, jailer.rs, machine.rs 959-1200 | paths in `cfg`, FIFOs on the host, links in the chroot, the socket | `BootFiles` |
| guest network | network.rs 424-771, kernelargs.rs, cni/ | interfaces and kernel arguments in `cfg`, what the VMM was sent | `GuestNetwork` |
| API client, models, builders, helpers, test support | client/, models/, drives.rs, command_builder.rs, fctesting/ ... | none | not modelled |

Interactions: `start()` runs the lists of `HandlerChain`; the steps that leave
something on the host (network, VMM, FIFOs) are the resources of
`MachineLifecycle`, whose network part is spelled out in `NetworkSetup` and
whose FIFOs in `FifoCapture`. What `MachineLifecycle` promises to its caller is
`MachineContract`. The files that the requests name are those of `BootFiles`;
the result of `NetworkSetup`'s ADD is what `GuestNetwork` converts. A spawned
VMM is registered with `SignalForward`. All requests of the `api` handlers are exchanges of
`HttpExchange`. `PROJECT.json` lists the parts with their status, the lines each
definition models, and the hazards with the line at which each one bites.

## 2. The modules

**SignalForward.** Each `Machine` of the model is one run that may register its
list of signals once and unregister. `register`, `unregister`,
`take_shutdown_if_idle` and `shutdown` are split where the mutex is taken or
released and where the kernel is called. The worker thread and activations of
`forward_signal_handler` are actors of their own: a handler loads
`SIGNAL_PIPE_WRITE_FD` in one step and writes to that number in another, so the
descriptor may have been closed and reused between the two. `pipe`, pipe
capacity and the zero byte that ends a worker are explicit; `signal()` may
refuse, a list may contain an invalid number, `pipe()` may fail and
`thread::spawn` may panic, which poisons the mutex.

**MachineLifecycle.** The methods take `&mut self`, so there is one call at a
time; a step goes from one await to the next. The child exits at any moment.
With `MayCancel` a caller drops the future of a suspended call; with
`MayRestart` methods are called in any order and a VMM is spawned again. An
error is the set of parts its message is joined from. Reaping the child and
`shutdown_signal_forwarder` are two steps although no await lies between them,
because the worker thread of the forwarder can run there.

**MachineContract.** The abstract view of a Machine: the running VMMs it answers
for, the processes that are over, whether it holds anything on the host, and
whether the threads that serve a VMM were told to end. `MachineLifecycle`
implements it (`ImplementsContract`) with `live` the running children that were
not lost, `held` a non-empty `cleanup_funcs` and `told` the `exit_event`; calls,
handlers, errors and the forwarder are hidden. Only `Release` gives anything
back, it needs `live = {}`, and it gives back everything.

**NetworkSetup.** Several VM ids share one namespace directory on the host. Each
file system call, mount and plugin is a step, and each may fail; a crash drops
the Machine and leaves the host as it is. `left` records what an error path or a
crash dropped, so that leftovers can be compared with it.

**FifoCapture.** A Machine runs several VMMs one after the other with the same
path and the same `exit_event`. The thread's loop has one action per outcome of
`read` and `write_all`; `idle_since` is unset, counting or expired. `remove_file`
may fail, in the thread, which drops the error and reports Ok, and in
`do_cleanup`; `unremoved` records who failed to remove the FIFO that is there.

**VsockDial.** A connection is attempt n of dialer d. The acknowledgement is read
byte by byte as in `try_conn_read_until`, with the guest's data possibly right
behind it. Errors keep their kind and what they wrap, since
`is_temporary_net_error` looks at both. Firecracker's half is external: it may
stop accepting (`full`, and `connect` waits), answer in full, cut off or wrong,
or send single bytes without ever ending the line (`Drip`).

**HandlerChain.** Lists of handler names as made by `new_with_client`, the jailer
and `with_snapshot`, edited by the caller with handlers of their own, then run.
`with_snapshot` with an empty path leaves that path out but adapts the lists
(snapshot.rs 12-22, opts.rs 86-102), so lists and configuration are kept apart. The
specification is `ChainSpec`, from `ChainInit` and `ChainNext`, so that
`StartProofs` can extend it together with `GuestNetwork`.

**HttpExchange.** One request. The peer cuts its answer into any pieces and may
close after any of them; the empty line has two halves so that it can be split
over two reads.

**BootFiles.** Machines on one socket path and, when jailed, in one chroot. Two
things are asked of the caller that the code does not check: one `start()` runs at
a time, and a jailer id is used again only when the VMM before has gone. A Machine
may have `disable_validation`, which skips every check, the one of the socket path
included, and may boot from a root drive or from an initrd. A path is a directory
and a name, so that two files can have the same name and collide as links.
`link_files_handler` is one
step that comes to some part and then fails, or links them all: its order
(kernel, initrd, drives, then the FIFOs, with the kernel and initrd paths
rewritten only after the drives) decides what is left after a failure. A request
for a part that is not configured is skipped (`SkipRequest`).
Requests are answered by whichever VMM bound the socket, which need not be the
Machine's own; Firecracker's part (`Bind`, `Accepts`, `Open`) is external.

**GuestNetwork.** One Machine, from the configured interfaces and arguments
through validation, `setup_network`, `setup_kernel_args`, the interface requests
and MMDS to a running guest. `setup_network` and `setup_kernel_args` are public
and may be called before `start()` runs them again. Kernel arguments are tokens
that are parsed into a map and written back in its order; a CNI result is a
list of devices and addresses that refer to them by index.

**Lists.** What the source does with vectors, for `GuestNetwork` and
`HandlerChain`: `Filter` and `Without` keep or drop elements, `Joined` puts lists one
behind the other (`append_after` replaces every element by a list of one or two).
All three come down to one recursive function, so that proofs can unfold it.

`MCSignalForward`, `MCMachineLifecycle`, `MCBootFiles` and `MCGuestNetwork` give
the constants that are not plain values; the other modules are run directly with their `.cfg`. A definition
whose name ends in a suffix such as `_Always` or `_OffByOne` is a plausible bug in the
definition that follows it; `PROJECT.json` ("mutants") pairs each with the
property that notices it.

## 3. Runs

| run | properties | bounds | distinct states |
|---|---|---|---|
| `signal_lists` | TypeOK, RefsMatch, HeldSignalsStayCaught, QuiescentRestores | 2 runs, 4 lists over 2 good, 1 refused and 1 invalid signal, 2 descriptors | 865,272 |
| `signal_workers` | CaughtSignalHasReader, NoOrphanWorker, NoRegistrationStranded | 3 runs, 1 good signal, 2 descriptors, pipe of 1 byte | 498,602 |
| `signal_live` | SignalForwarded, CallsReturn | 2 runs, pipe of 1 byte, fair | 63,339 |
| `lifecycle` | ReapedPidUnregistered, FailedStartLeavesNothing, StartErrorReported, FatalErrorFinal, CallsReturn | 1 child, the handler kinds network, vmm, log_files, api | 476 |
| `lifecycle_cancel` | CleanupNotForgotten, ImplementsContract | 2 children, 2 further cleanup functions, dropped futures | 972,288 |
| `network_setup` | PluginsFormPrefix, AddOnClean, LeftoversExplained, NetworkUntilDeleted | 2 ids (one with force), 2 plugins, 2 set-ups each | 866,249 |
| `fifo_capture` | OutputInOrder, FifoStaysByFailure, WaitsForFirstData, CaptureEnds | 2 runs, 2 chunks each | 178,148 |
| `vsock_dial` | OkIsAcknowledged, StreamPristine, TemporaryRetried, DialReturns | 2 dialers, 2 attempts each, backlog 2 | 164,270 |
| `handler_chain` | ChainInOrder, ValidatedFirst, StartedOnce | all settings, 2 edits or options, 2 own handlers | 107,189 |
| `http_exchange` | BodyExact, TimeoutJustified, CallReturns | body of up to 3 bytes, buffer of 2 | 3,640 |
| `boot_files` | OwnFiles, BootComplete, RewrittenPathsLinked | 2 Machines, jailed or not, 30 configurations each over 4 host files, two of them with one name; 2 of them unchecked and 4 without a root drive | 1,084,129 |
| `guest_network` | ConversionExact, BootArgsAsConfigured, InterfacesAsConfigured | up to 2 interfaces of every kind, CNI results of up to 3 devices and 2 addresses, 1 call before `start()` | 62,348 |

Why the bounds are enough for the interesting cases: two descriptors let a number
be reused while a handler still holds it, and three runs let a third worker
start while the first one drains; a repeated signal and a list that fails at its
second or third entry exercise the reference counts and the roll-back; two
children let a second spawn overwrite `process`; two ids let one Machine remove
the shared directory under another, and two set-ups of one id make leftovers
matter; two runs let an old capture thread meet the next FIFO; two dialers with two attempts each and
a backlog of two fill the backlog with connections whose dialer has gone; two
edits cover every pair of options (`with_snapshot` twice, before or after an
edit); two Machines let one find the links, the socket or the VMM of another, and
the kernel may be linked under the initrd's name; three devices give a CNI result
the VM's interface, its tap and one that could be mistaken for either, and one
call before `start()` makes `start()` meet a configuration that was already
converted. The runs of `SignalForward` that check invariants only use symmetry over Machines and
descriptors; the liveness run uses none.

### What the runs show, with the limits stated

- A signal is restored to the host program's handler exactly when the last
  holder releases it, through every failure of `register`; a panic in
  `thread::spawn` strands no registration. Exception in the code and in
  `QuiescentRestores`: after `signal()` refuses, a zero count stays in
  `signal_refs` and the worker is never ended (machine.rs 188-196, 289-292). The
  property names that exception, and the poisoned mutex, and does not object to them.
- Whichever call reaps the VMM unregisters its pid in its next step
  (`ReapedPidUnregistered`). Between the two (machine.rs 600 or `try_wait`, and 568)
  the worker may send a signal to a pid that the kernel may have given to another
  process: the code leaves this window, and the property only says that no await,
  return or other call widens it. It is about callers that await their calls and spawn once.
- A failed `start()` leaves no process, registration or cleanup function, and
  `wait()` reports the error `start()` returned. A future dropped inside
  `wait_for_process_exit` loses the child (machine.rs 599): cleanup may then run
  under a VMM that still runs, which is why `MachineContract` lets a VMM leave
  `live` by being lost. For all others the cleanup comes after the exit.
- What a finished Machine has left on the host was dropped by an error path or by
  a crash (`LeftoversExplained`): the `?` at network.rs 530 drops the namespace's
  cleanup functions when CNI fails. After a crash everything counts as dropped, so
  the property says nothing more of that id. A Machine whose `setup_network`
  succeeded keeps a whole plugin chain in a mounted namespace until its own DEL
  (`NetworkUntilDeleted`), also over the plain file that a crash between `create_new`
  and the mount leaves. When another Machine removes the parent directory between
  `exists()` and `create_new`, the set-up fails; nothing in the code prevents that.
- A FIFO stays at its path only where `remove_file` failed, in the thread after its
  Ok and in `do_cleanup` after the run (`FifoStaysByFailure`); Ok itself does not say
  that the FIFO is gone. A pause of the VMM of more than 100 ms ends the
  capture (machine.rs 1035), and what it writes later counts as not yet captured.
- A capture thread that has seen no data misses `exit_event` when the next
  `start_vmm` clears it first, and goes on polling; `CaptureEnds` states this
  exception.
- `dial` returns, except in the two places where the code sets no bound: `connect`
  blocks while Firecracker does not accept (`dial_timeout` is not used,
  vsock/dial.rs 187), and the read timeout is for one byte (229), so a peer that
  sends bytes and never a newline keeps the call. `DialReturns` names both.
- `HttpExchange` accepts a body that is cut short by EOF; `BodyExact` says that it
  is a prefix.
- `with_snapshot` without any path and with validation disabled both loads a
  snapshot and sends InstanceStart; `StartedOnce` excludes that combination, the one
  reachable case in which the lists and `has_snapshot()` disagree.
- A VMM only opens the files its own Machine was configured with, and a guest is
  only booted when all of them are acknowledged (`OwnFiles`, `BootComplete`),
  across left-over sockets, links that a failed or finished start left in the
  chroot, and requests that are carried out but answered too late. The
  check of the socket path in `Config::validate` is what this rests on for plain
  Machines, `hard_link` refusing an existing name for jailed ones. With
  `disable_validation` a plain Machine takes a VMM that is already up for its own and
  sends it its log and metrics FIFOs: both properties name that exception. No other
  file goes astray, since a guest that runs refuses the requests for them.
- A validated guest gets the device, the address and the name servers of the last
  CNI result or of its configuration (`BootArgsAsConfigured`,
  `InterfacesAsConfigured`): a Machine on which `setup_network` was already called
  is refused by `validate_network`. With validation disabled it is not refused: CNI
  ADD runs a second time and the first result stays in use, and an `ip=` of the
  caller's is replaced. Both properties speak of validated configurations.
- `BootArgsAsConfigured` compares the tokens the guest gets with those the caller
  gave and with the positions in the CNI result, not with what the code's own parser
  makes of them. What is lost on the way is thereby plain: of a repeated key
  (`console=` twice, say) only the last token stays, the order becomes that of the
  map (kernelargs.rs 62-75), and a CNI result keeps two name servers, as
  ../tests/network_test.rs 641-671 expects.

No disagreement between the code and its docs, comments or tests was met, so
there are no findings.

## 4. Fairness

- `SignalForward`: weak fairness of each caller inside a call and of each worker
  (threads are scheduled), strong fairness of the handler's `write` (the kernel
  serves writers blocked on a pipe in turn). Nothing makes a task register or a
  signal arrive.
- `MachineLifecycle`: the runtime polls a future that can proceed; the deadline of
  `wait_for_vmm_ready` comes; a VMM that was sent SIGTERM exits. The last one is
  an assumption about Firecracker: the code waits without a bound.
- `FifoCapture`: the thread runs and time passes. `VsockDial`: a call that can
  go on does; a timeout that is set ends its wait. Nothing makes Firecracker accept
  a connection or finish a line. `HttpExchange`: the runtime
  polls the call and its timer; a read error is possible and never assumed.

Deadlock checking is off where stopping is legitimate: `network_setup` (all
set-ups used up), `handler_chain`, `http_exchange` and `guest_network` (the call
has returned), `boot_files` (every Machine has ended), and `signal_live`, where a state in which everybody waits would violate
`CallsReturn`.

## 5. Proofs

TLAPS checks these for all values of the constants (any number of Machines,
signals, descriptors, handlers, children, VM ids and plugins) under the named
assumptions of the modules, which give constants their types, keep sets of
signals and descriptors apart, and say what is assumed of the configurations in
BootFiles, of the keys in GuestNetwork (`KeyOrder` has them all) and of the names
in HandlerChain (`OwnNames`: those of the caller's handlers are none of the SDK's).

- **SignalForward** (`SignalForwardProofs`): TypeCorrect, ReferencesCounted, HeldCaught, Restores, CaughtHasReader, WorkersOwned,
  NobodyStranded. None of these invariants is inductive alone. `IInv` adds who
  holds the mutex (`LockInv`), that `applied` is a prefix of the request
  (`ListInv`), the count of a signal as the cardinality of the positions at which
  it is held (`RefInv`), the current worker's descriptor, thread and a pipe
  without zero byte (`WorkerInv`), what a caller of `shutdown` has taken
  (`TakenInv`, `TakenOnce`), and that descriptors belong to created workers. The reference part
  rests on lemmas about adding and removing one held position (`HeldAppend`,
  `HeldFront`), the worker part on `ThreadFrame`.
- **MachineLifecycle** (`MachineLifecycleProofs`): NeverForgotten, where
  `CleanupNotForgotten` is inductive as it stands; ContractKept, that every
  behaviour is one of `MachineContract`, step by step from `ProcessInv`
  (ProcessKnown): every running child is in `process`, is being waited for, or was
  lost, and a call that awaits a child has left `process` empty. Without it a
  cleanup step could run beside a live VMM. Each action maps to a stutter or to one
  abstract action (`StepQuiet`, `StepAcquire`, `StepTell`, `StepRelease`).
  StartErrorKept holds for every caller. PidUnregistered, NothingLeft and ErrorFinal
  assume `Orderly`: a caller that drops no future and spawns no second VMM, and
  a list with at most one VMM handler, as `default_handlers` gives. They rest on
  `OrderlyInv`: the VMM that was spawned and not reaped is the one in `process` or
  the one that is waited for, and the forwarder names no other unless the call has
  just reaped it and is about to unregister (`ChildInv`); no
  call comes to the spawn twice (`OrderInv`); during a start there is no
  terminal error yet, except the one it is aborting with (`ErrorInv`).
- **NetworkSetup** (`NetworkSetupProofs`): TypeCorrect, PrefixAlways,
  AddAfterDelete, NetworkKept, NothingLeftUnexplained. `IInv` adds to `TypeOK`
  how far ADD and DEL have come along the chain (`ChainInv`), that a network with a
  pending DEL is whole and mounted (`Whole`), and for every VM id `Accounted`: each thing on the host has its function in the
  vector of the set-up or of the Machine, or is recorded as left. A function that
  runs drops its own entry, so `Accounted` also needs the order in the vectors
  (`FileFirst`): run from the back, the unmount comes before the removal of the file.
- **FifoCapture** (`FifoCaptureProofs`): CapturesInOrder, FifoRemoved and
  SilenceBeforeDataIsNoEnd, for any number of runs, amount of output and buffer size.
  The concatenation in `OutputInOrder` is restated by position (`Ordered`, `Behind`:
  the i-th chunk behind n others is n + i), which each read and write keeps;
  `Flow` adds at which places of the loop the buffer is empty, and `Removed` that
  from the moment the thread is about to report, and from the end of the run, a FIFO
  that is still there is one whose removal failed.
- **HttpExchange** (`HttpExchangeProofs`): BodyAsSent and TimeoutsJustified, for
  answers and buffers of any size and every way of cutting an answer into pieces.
  `IInv` compares by position (`From`): what can be read follows, in the answer,
  what has been read (`Wired`); what the client keeps of it begins at the first
  byte in the head and behind the empty line in the body (`Kept`); and a place of
  the loops is only reached while something is missing (`Missing`). That the empty
  line is found when it has arrived, and not before, is `HeadEndsFacts`.
- **Lists**, in `StartProofs`: what `Filter`, `Without` and `Joined` compute, for lists
  of any length. `JoinedUnfold` unfolds the recursive function once. The induction is
  over sets: `NatSetInduction` takes the set of lengths for which a fact holds and
  follows from the well-foundedness of the natural numbers, `ListInduction` takes a set
  of lists that is closed under `Append`. From these come a filter of a
  filter, of an extended or joined list and of a list with an insertion, the range of a
  filter, and that a filter has as many elements as there are positions it selects
  (`FilterCount`), the last of which is its last element (`FilterLast`).
- **GuestNetwork** (`StartProofs`): InterfacesMeant, BootArgsMeant and
  ConvertedExactly, for any configurations, CNI results and number of calls before
  `start()`. InterfacesMeant only speaks of a guest that is up; `IInv` says at each
  place of `start()` how far the interfaces may differ from those given: by a
  static configuration on one that has a CNI configuration, which validation
  refuses, so that the conversion in `start()` finds none. BootArgsMeant needs
  `ArgsInv` (the arguments are the caller's apart from `ip=`, which appears when an
  interface has an address, and what `Display` wrote has one token for every key and
  parses to the map it was written from), `ValidInv` (what validation found of the
  interfaces that were given) and `ResultInv` (a guest with a CNI interface has a
  result). `ParseLast` and `ConversionToken` lead from the parser and the
  conversion to positions in what the caller and CNI gave.
  ConvertedExactly compares the filters of the conversion with sets of positions in
  the CNI result; `ConversionInv` carries the result to where the interface keeps it.
- **HandlerChain** (`StartProofs`): SdkInOrder, ChecksFirst and GuestStartedOnce, for
  any handlers of the caller and number of options and edits, under `OwnNames`.
  `ListInv` says of the SDK's handlers in `fc_init` that they are those of `SdkOrder`
  that the jailer and the snapshot call for; each edit either changes none of them
  or filters both sides, and the jailer's insertion comes first of all. `RunInv` says
  how far `start()` has got: what has run has passed, nothing but checks runs before
  all checks have, and what has run and what is to run make up the list, so that
  LoadSnapshot runs once or not at all.
- **VsockDial** (`VsockDialProofs`): Acknowledged, Pristine and Retried, for any
  number of dialers, attempts, backlog and data. `Content` says what has been read
  of a stream and what is left, by what Firecracker did with it; `Matched` says that
  the guest's connections are those of established streams and of earlier
  attempts, so that a new attempt cannot be taken for an old one.

- **BootFiles** (`BootFilesProofs`): BootsFromOwnFiles, BootsWithAllFiles and
  RewritesOnlyToLinks, for any number of Machines, configurations and host files.
  Assumed of the configurations (`ConfigAssumption`): a kernel, names that are not
  empty, and no FIFO at the path of a kernel, initrd or drive; the code checks
  neither of the last two. The theorems are about one `start()` at a time, and name the
  FIFOs of Machines with `disable_validation` as exceptions. `IInv` says that during a
  validated start no other VMM is, or can come to be, on the socket (`Alone`: for plain Machines because
  validation found the path free and only this Machine's VMM is unbound, for
  jailed ones because no other lives); that behind a path of the Machine there is
  no file but the one that was meant, on the host after `create_log_files`
  (`OnHost`) and in the chroot after the links (`InJail`, from `LinkFacts`: every
  link gets a name that nothing had); and that the VMM has opened the parts of
  the requests so far, apart from FIFOs that may have gone astray (`Guest`).

The inductive invariants were first checked by TLC on the instances of section 3.

Only model-checked: liveness (`SignalForwarded`, `CallsReturn` of two modules,
`CaptureEnds`, `DialReturns`, `CallReturns` of `HttpExchange`), which is outside what
the prover handles. Every invariant and action property of section 3 is proved.

## 6. Not modelled

- API client, API models, builders (drives, rate limiters, balloon, commands), the
  jailer's command line and test support: no state beyond a value that is
  built and sent.
- The calls for a running VM (pause, resume, snapshot, balloon, metadata, drive
  updates): one request each, no state of the Machine.
- The contents of Firecracker's answers, and the data that is only copied through:
  gateway, mask, MAC address, rate limiters.
- `validate_load_snapshot`: file existence checks before a snapshot is loaded.
- `log_path` and `metrics_path`: plain files that `create_log_files` makes and no
  cleanup removes; `link_files_handler` does not link them.
- Two `start()` calls at the same time on one socket path: the check in
  `Config::validate` and the spawn are not atomic, and the code has nothing to
  keep them apart. `BootFiles` starts one Machine at a time. Nor does it use a jailer
  id again while a VMM with that id lives.
- A second `adapt_handlers` by the caller, which would link every file twice.
- Time other than as deadlines that may pass.
- A signal handler that interrupts the worker thread itself, and the reuse of a pid
  between `dispatch_signal`'s collection and its `kill` (both listed as hazards).
- Callers that remove SDK handlers or assign fields of `cfg` between the calls.

## 7. Plan

Modelled: every part that keeps state or orders effects. What would add most next:

1. Composition: the `network` and `log_files` handlers of MachineLifecycle
   implemented by NetworkSetup and FifoCapture, and its forwarder by
   SignalForward's registrations, with `MachineContract` as the interface.
2. Overlapping `start()` calls on one path, once the code states what they may
   expect.
