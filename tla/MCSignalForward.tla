--------------------------- MODULE MCSignalForward ---------------------------
(* Small instances of SignalForward for TLC.                               *)
EXTENDS SignalForward, TLC

CONSTANTS s1, s2, refused, invalid

\* Two overlapping lists, one with a repeated signal, and lists that
\* register_inner turns down after it has applied some of their signals.
MCRequests == {<<s1>>, <<s2, s1, s1>>, <<s2, refused>>, <<s1, invalid>>}

\* One signal only, so that three runs fit.
MCShortRequests == {<<s1>>, <<s1, invalid>>}

Symmetry == Permutations(Machine) \cup Permutations(Fd)
=============================================================================
