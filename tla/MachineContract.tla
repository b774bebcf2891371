--------------------------- MODULE MachineContract ---------------------------
(***************************************************************************)
(* What a Machine promises to the program that uses it, without its calls, *)
(* its steps and its errors.  A Machine answers for the VMMs it has         *)
(* spawned and not lost, holds what they need on the host (socket, FIFOs,   *)
(* network) and tells the threads that serve a VMM when it is over.         *)
(*                                                                         *)
(* It answers for one VMM at a time.  What it holds it gives back all at    *)
(* once, not before the VMM is gone, and not without saying so.             *)
(***************************************************************************)

CONSTANT Process

VARIABLES
    live,  \* running VMMs the Machine answers for
    gone,  \* processes that were spawned and are not live any more
    held,  \* the Machine holds something on the host
    told   \* the threads that serve the VMM are told that it is over

vars == <<live, gone, held, told>>

Init == live = {} /\ gone = {} /\ held = FALSE /\ told = FALSE

Acquire == held' = TRUE /\ UNCHANGED <<live, gone, told>>

\* A VMM that still runs then is lost: the Machine forgets it.
Launch(p) ==
    /\ p \notin live \cup gone
    /\ live' = {p}
    /\ gone' = gone \cup live
    /\ held' = TRUE
    /\ told' = FALSE

\* A VMM exits, or is lost with the future that waited for it.
Leave(p) ==
    /\ p \in live
    /\ live' = live \ {p}
    /\ gone' = gone \cup {p}
    /\ UNCHANGED <<held, told>>

\* Before a stop, or for a launch that then fails.
Tell == told' \in BOOLEAN /\ UNCHANGED <<live, gone, held>>

Release ==
    /\ live = {}
    /\ held' = FALSE
    /\ told' = TRUE
    /\ UNCHANGED <<live, gone>>

Next ==
    \/ Acquire \/ Tell \/ Release
    \/ \E p \in Process : Launch(p) \/ Leave(p)

Spec == Init /\ [][Next]_vars
=============================================================================
