------------------------- MODULE MCMachineLifecycle -------------------------
(* Instances of MachineLifecycle for TLC.                                  *)
EXTENDS MachineLifecycle

\* default_handlers with consecutive handlers of the same kind merged.
MCHandlers == <<"network", "vmm", "log_files", "api">>
=============================================================================
