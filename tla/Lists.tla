-------------------------------- MODULE Lists ---------------------------------
(***************************************************************************)
(* Vectors of the source as sequences.  All of it rests on Joined, which   *)
(* is defined by recursion on the number of lists.                         *)
(***************************************************************************)
EXTENDS Integers, Sequences, Functions

\* The lists of ss one behind the other.
Joined(ss) ==
    LET upto[n \in 0..Len(ss)] == IF n = 0 THEN <<>> ELSE upto[n - 1] \o ss[n]
    IN  upto[Len(ss)]

\* The elements of s that are in S, in their order.
Filter(s, S) == Joined([i \in DOMAIN s |-> IF s[i] \in S THEN <<s[i]>> ELSE <<>>])

\* The elements of s that are not in S, in their order.
Without(s, S) == Filter(s, Range(s) \ S)

\* The last element of s, which is not empty.
Last(s) == s[Len(s)]
=============================================================================
