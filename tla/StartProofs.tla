----------------------------- MODULE StartProofs -----------------------------
(***************************************************************************)
(* Proofs about the two parts of start() that work on lists: what          *)
(* setup_network and setup_kernel_args make of the interfaces and of the   *)
(* kernel arguments (GuestNetwork), for any configurations, CNI results    *)
(* and number of calls before start(), and the handlers it runs            *)
(* (HandlerChain), for any number of edits and handlers of the caller.     *)
(* Both rest on the same facts about Filter, Without and Joined, which     *)
(* are proved first.                                                       *)
(***************************************************************************)
EXTENDS GuestNetwork, HandlerChain, WellFoundedInduction, SequenceTheorems, FiniteSetTheorems, TLAPS

\* Leaves go to Zenon unless they name another prover.
USE ZenonT(40)

-----------------------------------------------------------------------------
(* Lists                                                                   *)

\* Induction over the natural numbers, for a set instead of a predicate: a set
\* without a least counterexample has none.
LEMMA NatSetInduction ==
    ASSUME NEW T, 0 \in T, \A n \in Nat : n \in T => n + 1 \in T
    PROVE  \A n \in Nat : n \in T
<1> DEFINE B == {n \in Nat : n \notin T}
<1> SUFFICES ASSUME B # {} PROVE FALSE
  OBVIOUS
<1>1. B \subseteq Nat
  OBVIOUS
<1>2. PICK x \in B : \A y \in B : ~(<<y, x>> \in OpToRel(<, Nat))
  <2> HIDE DEF B
  <2>1. QED BY <1>1, WFMin, NatLessThanWellFounded
<1>3. \A y \in B : ~(y < x)
  <2> HIDE DEF B
  <2>1. ASSUME NEW y \in B, y < x PROVE <<y, x>> \in OpToRel(<, Nat)
    BY <1>1, <2>1 DEF OpToRel
  <2>2. QED BY <1>2, <2>1
<1>4. x \in Nat /\ x \notin T
  OBVIOUS
<1>5. x # 0
  BY <1>4
<1>6. x - 1 \in Nat /\ x - 1 < x /\ (x - 1) + 1 = x
  BY <1>4, <1>5, SMTT(40)
<1>7. x - 1 \in T
  BY <1>3, <1>6
<1>8. QED BY <1>4, <1>6, <1>7

\* Induction over lists that grow at the end.
LEMMA ListInduction ==
    ASSUME NEW S, NEW T, <<>> \in T,
           \A s \in Seq(S) : \A x \in S : s \in T => Append(s, x) \in T
    PROVE  \A s \in Seq(S) : s \in T
<1> DEFINE N == {n \in Nat : \A s \in Seq(S) : Len(s) = n => s \in T}
<1>1. 0 \in N
  <2>1. \A s \in Seq(S) : Len(s) = 0 => s = <<>>
    BY EmptySeq, SMTT(40)
  <2>2. 0 \in Nat
    BY SMTT(40)
  <2>3. QED BY <2>1, <2>2
<1>2. ASSUME NEW n \in Nat, n \in N
      PROVE  n + 1 \in N
  <2>1. ASSUME NEW s \in Seq(S), Len(s) = n + 1
        PROVE  s \in T
    <3>1. s # <<>>
      BY <2>1, SMTT(40)
    <3>2. PICK t \in Seq(S), x \in S : s = Append(t, x)
      BY <3>1, SequenceEmptyOrAppend
    <3>3. Len(t) = n
      BY <2>1, <3>2, SMTT(40)
    <3>4. QED BY <1>2, <3>2, <3>3
  <2>2. n + 1 \in Nat
    BY SMTT(40)
  <2>3. QED BY <2>1, <2>2
<1> HIDE DEF N
<1>3. \A n \in Nat : n \in N
  BY <1>1, <1>2, NatSetInduction
<1>4. \A s \in Seq(S) : Len(s) \in Nat
  BY SMTT(40)
<1>5. QED BY <1>3, <1>4 DEF N

\* The function that Joined is defined by, for the first n lists.
Joins(ss, n, f) == f = [i \in 0..n |-> IF i = 0 THEN <<>> ELSE f[i - 1] \o ss[i]]

\* Two lists agree on the first n positions.
Agree(f, g, n) == \A i \in 1..n : f[i] = g[i]

\* There is such a function.
LEMMA JoinsExist ==
    ASSUME NEW ss
    PROVE  \A n \in Nat : \E f : Joins(ss, n, f)
<1> DEFINE T == {n \in Nat : \E f : Joins(ss, n, f)}
<1>1. 0 \in T
  <2> DEFINE f == [i \in 0..0 |-> <<>>]
  <2>1. 0 \in Nat /\ \A i \in 0..0 : i = 0
    BY SMTT(40)
  <2>2. f = [i \in 0..0 |-> IF i = 0 THEN <<>> ELSE f[i - 1] \o ss[i]]
    BY <2>1
  <2>3. QED BY <2>1, <2>2 DEF Joins
<1>2. ASSUME NEW n \in Nat, n \in T
      PROVE  n + 1 \in T
  <2>1. PICK f : Joins(ss, n, f)
    BY <1>2
  <2>2. \A i \in 0..n : f[i] = IF i = 0 THEN <<>> ELSE f[i - 1] \o ss[i]
    BY <2>1 DEF Joins
  <2> DEFINE g == [i \in 0..(n + 1) |-> IF i = n + 1 THEN f[n] \o ss[i] ELSE f[i]]
  <2>3. ASSUME NEW i \in 0..(n + 1)
        PROVE  g[i] = IF i = 0 THEN <<>> ELSE g[i - 1] \o ss[i]
    <3>1. i # 0 => i - 1 \in 0..(n + 1) /\ i - 1 # n + 1
      BY SMTT(40)
    <3>2. i # 0 => g[i - 1] = f[i - 1]
      BY <3>1
    <3>3. CASE i = n + 1
      <4>1. g[i] = f[n] \o ss[i]
        BY <3>3
      <4>2. i # 0 /\ i - 1 = n
        BY <3>3, SMTT(40)
      <4> HIDE DEF g
      <4>3. QED BY <3>2, <4>1, <4>2
    <3>4. CASE i # n + 1
      <4>1. i \in 0..n
        BY <3>4, SMTT(40)
      <4>2. g[i] = f[i]
        BY <3>4
      <4> HIDE DEF g
      <4>3. QED BY <2>2, <3>2, <4>1, <4>2
    <3>5. QED BY <3>3, <3>4
  <2>4. g = [i \in 0..(n + 1) |-> g[i]]
    OBVIOUS
  <2> HIDE DEF g
  <2>5. g = [i \in 0..(n + 1) |-> IF i = 0 THEN <<>> ELSE g[i - 1] \o ss[i]]
    BY <2>3, <2>4
  <2>6. n + 1 \in Nat
    BY SMTT(40)
  <2>7. QED BY <2>5, <2>6 DEF Joins
<1> HIDE DEF T
<1>3. \A n \in Nat : n \in T
  BY <1>1, <1>2, NatSetInduction
<1>4. QED BY <1>3 DEF T

\* It depends on the lists that are joined only.
LEMMA JoinsAgree ==
    ASSUME NEW ss, NEW tt, NEW m \in Nat, NEW n \in Nat, NEW f, NEW g,
           Joins(ss, m, f), Joins(tt, n, g), m <= n, Agree(ss, tt, m)
    PROVE  f[m] = g[m]
<1>1. \A i \in 0..m : f[i] = IF i = 0 THEN <<>> ELSE f[i - 1] \o ss[i]
  BY DEF Joins
<1>2. \A i \in 0..n : g[i] = IF i = 0 THEN <<>> ELSE g[i - 1] \o tt[i]
  BY DEF Joins
<1> DEFINE T == {k \in Nat : k \in 0..m => f[k] = g[k]}
<1>3. 0 \in T
  <2>1. 0 \in Nat /\ 0 \in 0..m /\ 0 \in 0..n
    BY SMTT(40)
  <2>2. QED BY <1>1, <1>2, <2>1
<1>4. ASSUME NEW k \in Nat, k \in T
      PROVE  k + 1 \in T
  <2>1. ASSUME k + 1 \in 0..m
        PROVE  f[k + 1] = g[k + 1]
    <3>1. /\ k + 1 \in 0..n /\ k + 1 # 0 /\ (k + 1) - 1 = k
          /\ k \in 0..m /\ k + 1 \in 1..m
      BY <2>1, SMTT(40)
    <3>2. f[k + 1] = f[k] \o ss[k + 1]
      BY <1>1, <2>1, <3>1
    <3>3. g[k + 1] = g[k] \o tt[k + 1]
      BY <1>2, <3>1
    <3>4. ss[k + 1] = tt[k + 1]
      BY <3>1 DEF Agree
    <3>5. QED BY <1>4, <3>1, <3>2, <3>3, <3>4
  <2>2. k + 1 \in Nat
    BY SMTT(40)
  <2>3. QED BY <2>1, <2>2
<1> HIDE DEF T
<1>5. \A k \in Nat : k \in T
  BY <1>3, <1>4, NatSetInduction
<1>6. m \in 0..m
  BY SMTT(40)
<1>7. QED BY <1>5, <1>6 DEF T

\* What Joined returns for no list at all, and for one list more.
LEMMA JoinedUnfold ==
    ASSUME NEW S, NEW ss \in Seq(Seq(S)), NEW s \in Seq(S)
    PROVE  /\ Joined(<<>>) = <<>>
           /\ Joined(Append(ss, s)) = Joined(ss) \o s
<1>1. ASSUME NEW n \in Nat, NEW tt, Len(tt) = n
      PROVE  \E f : Joins(tt, n, f) /\ Joined(tt) = f[n]
  <2> DEFINE upto == CHOOSE f : f = [i \in 0..n |->
                                        IF i = 0 THEN <<>> ELSE f[i - 1] \o tt[i]]
  <2>1. \E f : Joins(tt, n, f)
    BY JoinsExist
  <2>2. Joins(tt, n, upto)
    BY <2>1 DEF Joins
  <2>3. Joined(tt) = upto[n]
    BY <1>1 DEF Joined
  <2>4. QED BY <2>2, <2>3
<1>2. Joined(<<>>) = <<>>
  <2>1. 0 \in Nat /\ Len(<<>>) = 0 /\ 0 \in 0..0
    BY SMTT(40)
  <2>2. PICK f : Joins(<<>>, 0, f) /\ Joined(<<>>) = f[0]
    BY <1>1, <2>1
  <2>3. \A i \in 0..0 : f[i] = IF i = 0 THEN <<>> ELSE f[i - 1] \o <<>>[i]
    BY <2>2 DEF Joins
  <2>4. QED BY <2>1, <2>2, <2>3
<1> DEFINE tt == Append(ss, s)
<1>3. PICK n \in Nat : /\ n = Len(ss) /\ Len(tt) = n + 1 /\ tt[n + 1] = s
                       /\ \A i \in 1..n : ss[i] = tt[i]
  <2>1. Len(ss) \in Nat
    BY SMTT(40)
  <2>2. /\ Len(tt) = Len(ss) + 1
        /\ \A i \in 1..Len(ss) : tt[i] = ss[i]
        /\ tt[Len(ss) + 1] = s
    BY AppendProperties, SMTT(40)
  <2> HIDE DEF tt
  <2>3. QED BY <2>1, <2>2
<1> HIDE DEF tt
<1>4. /\ n + 1 \in 0..(n + 1) /\ n + 1 # 0 /\ (n + 1) - 1 = n
      /\ n <= n + 1 /\ n + 1 \in Nat
  BY SMTT(40)
<1>5. PICK g : Joins(tt, n + 1, g) /\ Joined(tt) = g[n + 1]
  BY <1>1, <1>3, <1>4
<1>6. \A i \in 0..(n + 1) : g[i] = IF i = 0 THEN <<>> ELSE g[i - 1] \o tt[i]
  BY <1>5 DEF Joins
<1>7. Joined(tt) = g[n] \o s
  BY <1>3, <1>4, <1>5, <1>6
<1>8. PICK f : Joins(ss, n, f) /\ Joined(ss) = f[n]
  BY <1>1, <1>3
<1>9. f[n] = g[n]
  <2>1. Agree(ss, tt, n)
    BY <1>3 DEF Agree
  <2>2. n <= n + 1 /\ n + 1 \in Nat /\ Joins(tt, n + 1, g) /\ Joins(ss, n, f)
    BY <1>4, <1>5, <1>8
  <2>3. QED BY <2>1, <2>2, JoinsAgree, SMTT(40)
<1>10. Joined(tt) = Joined(ss) \o s
  BY <1>7, <1>8, <1>9
<1>11. QED BY <1>2, <1>10 DEF tt

\* The same for all lists of lists, and the type of the result.
LEMMA JoinedAppend ==
    ASSUME NEW S
    PROVE  /\ \A ss \in Seq(Seq(S)) : Joined(ss) \in Seq(S)
           /\ \A ss \in Seq(Seq(S)), s \in Seq(S) :
                 Joined(Append(ss, s)) = Joined(ss) \o s
           /\ Joined(<<>>) = <<>>
<1>1. <<>> \in Seq(S) /\ <<>> \in Seq(Seq(S)) /\ \A s \in Seq(S) : <<>> \o s = s
  BY ConcatEmptySeq, EmptySeq
<1>2. Joined(<<>>) = <<>>
  BY <1>1, JoinedUnfold
<1>3. ASSUME NEW ss \in Seq(Seq(S)), NEW s \in Seq(S)
      PROVE  Joined(Append(ss, s)) = Joined(ss) \o s
  BY JoinedUnfold
<1> DEFINE T == {ss \in Seq(Seq(S)) : Joined(ss) \in Seq(S)}
<1>4. <<>> \in T
  BY <1>1, <1>2
<1>5. ASSUME NEW ss \in Seq(Seq(S)), NEW s \in Seq(S), ss \in T
      PROVE  Append(ss, s) \in T
  <2>1. Append(ss, s) \in Seq(Seq(S))
    BY SMTT(40)
  <2>2. Joined(ss) \o s \in Seq(S)
    BY <1>5, ConcatProperties
  <2>3. QED BY <1>3, <2>1, <2>2
<1> HIDE DEF T
<1>6. \A ss \in Seq(Seq(S)) : ss \in T
  BY <1>4, <1>5, ListInduction
<1>7. QED BY <1>2, <1>3, <1>6 DEF T

\* Every element x of s replaced by the list e[x].
Spread(s, e) == Joined([i \in DOMAIN s |-> e[s[i]]])

\* What that is for the empty list, and for one element more.
LEMMA SpreadUnfold ==
    ASSUME NEW S, NEW T, NEW e \in [S -> Seq(T)]
    PROVE  /\ Spread(<<>>, e) = <<>>
           /\ \A s \in Seq(S) : Spread(s, e) \in Seq(T)
           /\ \A s \in Seq(S), x \in S : Spread(Append(s, x), e) = Spread(s, e) \o e[x]
<1> DEFINE M(s) == [i \in DOMAIN s |-> e[s[i]]]
<1>1. M(<<>>) = <<>>
  BY SMTT(40)
<1>2. ASSUME NEW s \in Seq(S)
      PROVE  M(s) \in Seq(Seq(T)) /\ Len(M(s)) = Len(s)
  <2>1. Len(s) \in Nat /\ DOMAIN s = 1..Len(s) /\ \A i \in 1..Len(s) : s[i] \in S
    BY SMTT(40)
  <2>2. \A i \in 1..Len(s) : e[s[i]] \in Seq(T)
    BY <2>1
  <2>3. M(s) \in [1..Len(s) -> Seq(T)] /\ DOMAIN M(s) = 1..Len(s)
    BY <2>1, <2>2
  <2> HIDE DEF M
  <2>4. \A n \in Nat : \A f \in [1..n -> Seq(T)] : f \in Seq(Seq(T)) /\ Len(f) = n
    BY SMTT(40)
  <2>5. QED BY <2>1, <2>3, <2>4
<1>3. ASSUME NEW s \in Seq(S), NEW x \in S
      PROVE  M(Append(s, x)) = Append(M(s), e[x])
  <2> DEFINE t == Append(s, x)
  <2>1. /\ Len(s) \in Nat /\ t \in Seq(S) /\ Len(t) = Len(s) + 1
        /\ t[Len(s) + 1] = x /\ \A i \in 1..Len(s) : t[i] = s[i]
    BY SMTT(40)
  <2> HIDE DEF t
  <2>2. DOMAIN s = 1..Len(s) /\ DOMAIN t = 1..(Len(s) + 1)
    BY <2>1, LenProperties
  <2>3. e[x] \in Seq(T)
    OBVIOUS
  <2>4. /\ M(s) \in Seq(Seq(T)) /\ Len(M(s)) = Len(s)
        /\ M(t) \in Seq(Seq(T)) /\ Len(M(t)) = Len(s) + 1
    BY <1>2, <2>1
  <2>5. /\ \A i \in 1..Len(s) : M(s)[i] = e[s[i]]
        /\ \A i \in 1..(Len(s) + 1) : M(t)[i] = e[t[i]]
    BY <2>2
  <2> HIDE DEF M
  <2>6. /\ Append(M(s), e[x]) \in Seq(Seq(T))
        /\ Len(Append(M(s), e[x])) = Len(s) + 1
        /\ \A i \in 1..Len(s) : Append(M(s), e[x])[i] = M(s)[i]
        /\ Append(M(s), e[x])[Len(s) + 1] = e[x]
    <3>1. /\ Append(M(s), e[x]) \in Seq(Seq(T))
          /\ Len(Append(M(s), e[x])) = Len(M(s)) + 1
          /\ \A i \in 1..Len(M(s)) : Append(M(s), e[x])[i] = M(s)[i]
          /\ Append(M(s), e[x])[Len(M(s)) + 1] = e[x]
      BY <2>3, <2>4, AppendProperties, SMTT(40)
    <3>2. QED BY <2>4, <3>1
  <2>7. ASSUME NEW i \in 1..(Len(s) + 1)
        PROVE  M(t)[i] = Append(M(s), e[x])[i]
    <3>1. i \in 1..Len(s) \/ i = Len(s) + 1
      BY <2>1, SMTT(40)
    <3>2. QED BY <2>1, <2>5, <2>6, <3>1
  <2>8. M(t) = Append(M(s), e[x])
    BY <2>4, <2>6, <2>7, SeqEqual
  <2>9. QED BY <2>8 DEF t
<1>4. \A s : Spread(s, e) = Joined(M(s))
  BY DEF Spread
<1> HIDE DEF M
<1>5. Spread(<<>>, e) = <<>>
  BY <1>1, <1>4, JoinedAppend
<1>6. \A s \in Seq(S) : Spread(s, e) \in Seq(T)
  <2>1. \A ss \in Seq(Seq(T)) : Joined(ss) \in Seq(T)
    BY JoinedAppend
  <2>2. QED BY <1>2, <1>4, <2>1
<1>7. ASSUME NEW s \in Seq(S), NEW x \in S
      PROVE  Spread(Append(s, x), e) = Spread(s, e) \o e[x]
  <2>1. e[x] \in Seq(T) /\ M(s) \in Seq(Seq(T))
    BY <1>2
  <2>2. Joined(Append(M(s), e[x])) = Joined(M(s)) \o e[x]
    BY <2>1, JoinedAppend
  <2>3. QED BY <1>3, <1>4, <2>2
<1>8. QED BY <1>5, <1>6, <1>7

\* Filter puts nothing or the element itself in the place of each element.
LEMMA FilterSpread ==
    ASSUME NEW S, NEW A
    PROVE  \E e \in [S -> Seq(S)] :
              /\ \A x \in S : x \in A => e[x] = <<x>>
              /\ \A x \in S : x \notin A => e[x] = <<>>
              /\ \A s \in Seq(S) : Filter(s, A) = Spread(s, e)
<1> DEFINE e == [x \in S |-> IF x \in A THEN <<x>> ELSE <<>>]
<1>1. \A x \in S : <<x>> \in Seq(S) /\ <<>> \in Seq(S)
  BY SMTT(40)
<1>2. e \in [S -> Seq(S)]
  BY <1>1
<1>3. ASSUME NEW s \in Seq(S)
      PROVE  Filter(s, A) = Spread(s, e)
  <2>1. \A i \in DOMAIN s : s[i] \in S
    BY SMTT(40)
  <2>2. [i \in DOMAIN s |-> IF s[i] \in A THEN <<s[i]>> ELSE <<>>] =
           [i \in DOMAIN s |-> e[s[i]]]
    BY <2>1
  <2> HIDE DEF e
  <2>3. QED BY <2>2 DEF Filter, Spread
<1>4. (\A x \in S : x \in A => e[x] = <<x>>) /\ (\A x \in S : x \notin A => e[x] = <<>>)
  OBVIOUS
<1> HIDE DEF e
<1>5. QED BY <1>2, <1>3, <1>4

\* What is kept of a list is a list, and of the empty one nothing.
LEMMA FilterType ==
    ASSUME NEW S, NEW A, NEW s \in Seq(S)
    PROVE  Filter(s, A) \in Seq(S) /\ Filter(<<>>, A) = <<>>
<1>1. PICK e \in [S -> Seq(S)] : \A r \in Seq(S) : Filter(r, A) = Spread(r, e)
  BY FilterSpread
<1>2. <<>> \in Seq(S)
  BY EmptySeq
<1>3. Spread(<<>>, e) = <<>> /\ Spread(s, e) \in Seq(S)
  BY SpreadUnfold
<1>4. QED BY <1>1, <1>2, <1>3

\* An element that is asked for is kept, behind those that come before it.
LEMMA FilterTake ==
    ASSUME NEW S, NEW A, NEW s \in Seq(S), NEW x \in S, x \in A
    PROVE  Filter(Append(s, x), A) = Append(Filter(s, A), x)
<1>1. PICK e \in [S -> Seq(S)] :
         /\ \A y \in S : y \in A => e[y] = <<y>>
         /\ \A r \in Seq(S) : Filter(r, A) = Spread(r, e)
  BY FilterSpread
<1>2. Append(s, x) \in Seq(S)
  BY SMTT(40)
<1>3. Spread(Append(s, x), e) = Spread(s, e) \o e[x]
  <2>1. \A r \in Seq(S), y \in S : Spread(Append(r, y), e) = Spread(r, e) \o e[y]
    BY SpreadUnfold
  <2>2. QED BY <2>1
<1>4. Append(Filter(s, A), x) = Filter(s, A) \o <<x>>
  <2>1. Filter(s, A) \in Seq(S)
    BY FilterType
  <2>2. QED BY <2>1, AppendIsConcat
<1>5. QED BY <1>1, <1>2, <1>3, <1>4

\* An element that is not asked for is left out.
LEMMA FilterDrop ==
    ASSUME NEW S, NEW A, NEW s \in Seq(S), NEW x \in S, x \notin A
    PROVE  Filter(Append(s, x), A) = Filter(s, A)
<1>1. PICK e \in [S -> Seq(S)] :
         /\ \A y \in S : y \notin A => e[y] = <<>>
         /\ \A r \in Seq(S) : Filter(r, A) = Spread(r, e)
  BY FilterSpread
<1>2. Append(s, x) \in Seq(S)
  BY SMTT(40)
<1>3. Spread(Append(s, x), e) = Spread(s, e) \o e[x]
  <2>1. \A r \in Seq(S), y \in S : Spread(Append(r, y), e) = Spread(r, e) \o e[y]
    BY SpreadUnfold
  <2>2. QED BY <2>1
<1>4. Filter(s, A) \o <<>> = Filter(s, A)
  <2>1. PICK g \in Seq(S) : g = Filter(s, A)
    BY FilterType
  <2>2. g \o <<>> = g
    BY ConcatEmptySeq
  <2>3. QED BY <2>1, <2>2
<1>5. QED BY <1>1, <1>2, <1>3, <1>4

\* The elements of a list.
LEMMA RangeAppend ==
    ASSUME NEW S, NEW s \in Seq(S), NEW x \in S
    PROVE  Range(Append(s, x)) = Range(s) \cup {x}
<1>1. PICK t : t = Append(s, x)
  OBVIOUS
<1>2. PICK n \in Nat : n = Len(s)
  BY SMTT(40)
<1>3. DOMAIN s = 1..n /\ DOMAIN t = 1..(n + 1) /\ \A i \in 1..n : t[i] = s[i]
  BY <1>1, <1>2, SMTT(40)
<1>4. PICK m : m = n + 1
  OBVIOUS
<1>5. t[m] = x /\ 1..m = (1..n) \cup {m} /\ DOMAIN t = 1..m
  BY <1>1, <1>2, <1>3, <1>4, SMTT(40)
<1>6. Range(t) = {t[i] : i \in (1..n) \cup {m}} /\ Range(s) = {s[i] : i \in 1..n}
  BY <1>3, <1>5 DEF Range
<1>7. {t[i] : i \in (1..n) \cup {m}} = {t[i] : i \in 1..n} \cup {t[m]}
  OBVIOUS
<1>8. {t[i] : i \in 1..n} = {s[i] : i \in 1..n}
  BY <1>3
<1>9. QED BY <1>1, <1>5, <1>6, <1>7, <1>8

\* The empty list has none; those of a list have its type.
LEMMA RangeFacts ==
    ASSUME NEW S, NEW s \in Seq(S)
    PROVE  Range(<<>>) = {} /\ Range(s) \in SUBSET S
  BY SMTT(40) DEF Range

\* A filtered list has the elements that are asked for and no others.
LEMMA FilterRange ==
    ASSUME NEW S, NEW A
    PROVE  \A s \in Seq(S) : Range(Filter(s, A)) = Range(s) \cap A
<1> DEFINE T == {s \in Seq(S) : Range(Filter(s, A)) = Range(s) \cap A}
<1>1. <<>> \in T
  <2>1. <<>> \in Seq(S)
    BY EmptySeq
  <2>2. Filter(<<>>, A) = <<>> /\ Range(<<>>) = {}
    BY <2>1, FilterType, RangeFacts
  <2>3. QED BY <2>1, <2>2
<1>2. ASSUME NEW s \in Seq(S), NEW x \in S, s \in T
      PROVE  Append(s, x) \in T
  <2>1. Append(s, x) \in Seq(S)
    BY SMTT(40)
  <2>2. Filter(s, A) \in Seq(S)
    BY FilterType
  <2>3. Range(Append(s, x)) = Range(s) \cup {x}
    BY RangeAppend, SMTT(40)
  <2>4. Range(Append(Filter(s, A), x)) = Range(Filter(s, A)) \cup {x}
    BY <2>2, RangeAppend, SMTT(40)
  <2>5. Range(Filter(s, A)) = Range(s) \cap A
    BY <1>2
  <2>6. CASE x \in A
    <3>1. Filter(Append(s, x), A) = Append(Filter(s, A), x)
      BY <2>6, FilterTake
    <3>2. QED BY <2>1, <2>3, <2>4, <2>5, <2>6, <3>1
  <2>7. CASE x \notin A
    <3>1. Filter(Append(s, x), A) = Filter(s, A)
      BY <2>7, FilterDrop
    <3>2. QED BY <2>1, <2>3, <2>5, <2>7, <3>1
  <2>8. QED BY <2>6, <2>7
<1> HIDE DEF T
<1>3. \A s \in Seq(S) : s \in T
  BY <1>1, <1>2, ListInduction
<1>4. QED BY <1>3 DEF T

\* Only the elements of the list matter for what is kept of it.
LEMMA FilterSame ==
    ASSUME NEW s, NEW A, NEW B, Range(s) \cap A = Range(s) \cap B
    PROVE  Filter(s, A) = Filter(s, B)
<1>1. \A i \in DOMAIN s : s[i] \in A <=> s[i] \in B
  BY DEF Range
<1>2. [i \in DOMAIN s |-> IF s[i] \in A THEN <<s[i]>> ELSE <<>>] =
         [i \in DOMAIN s |-> IF s[i] \in B THEN <<s[i]>> ELSE <<>>]
  BY <1>1
<1>3. QED BY <1>2 DEF Filter

\* A list of which all is kept.
LEMMA FilterAll ==
    ASSUME NEW S, NEW A, S \subseteq A
    PROVE  \A s \in Seq(S) : Filter(s, A) = s
<1> DEFINE T == {s \in Seq(S) : Filter(s, A) = s}
<1>1. <<>> \in T
  BY EmptySeq, FilterType
<1>2. ASSUME NEW s \in Seq(S), NEW x \in S, s \in T
      PROVE  Append(s, x) \in T
  <2>1. Append(s, x) \in Seq(S)
    BY SMTT(40)
  <2>2. x \in A /\ Filter(s, A) = s
    BY <1>2
  <2>3. Filter(Append(s, x), A) = Append(Filter(s, A), x)
    BY <2>2, FilterTake
  <2>4. QED BY <2>1, <2>2, <2>3
<1> HIDE DEF T
<1>3. \A s \in Seq(S) : s \in T
  BY <1>1, <1>2, ListInduction
<1>4. QED BY <1>3 DEF T

\* Filtering twice.
LEMMA FilterFilter ==
    ASSUME NEW S, NEW A, NEW B
    PROVE  \A s \in Seq(S) : Filter(Filter(s, A), B) = Filter(s, A \cap B)
<1> DEFINE T == {s \in Seq(S) : Filter(Filter(s, A), B) = Filter(s, A \cap B)}
<1>1. <<>> \in T
  BY EmptySeq, FilterType
<1>2. ASSUME NEW s \in Seq(S), NEW x \in S, s \in T
      PROVE  Append(s, x) \in T
  <2>1. Append(s, x) \in Seq(S)
    BY SMTT(40)
  <2>2. PICK g \in Seq(S) : g = Filter(s, A) /\ Filter(g, B) = Filter(s, A \cap B)
    BY <1>2, FilterType
  <2>3. CASE x \in A
    <3>1. Filter(Append(s, x), A) = Append(g, x)
      <4>1. Filter(Append(s, x), A) = Append(Filter(s, A), x)
        BY <2>3, FilterTake
      <4>2. QED BY <2>2, <4>1
    <3>2. CASE x \in B
      <4>1. Filter(Append(g, x), B) = Append(Filter(g, B), x)
        BY <3>2, FilterTake
      <4>2. x \in A \cap B
        BY <2>3, <3>2
      <4>3. Filter(Append(s, x), A \cap B) = Append(Filter(s, A \cap B), x)
        BY <4>2, FilterTake, SMTT(40)
      <4>4. QED BY <2>1, <2>2, <3>1, <4>1, <4>3
    <3>3. CASE x \notin B
      <4>1. Filter(Append(g, x), B) = Filter(g, B)
        BY <3>3, FilterDrop
      <4>2. x \notin A \cap B
        BY <3>3
      <4>3. Filter(Append(s, x), A \cap B) = Filter(s, A \cap B)
        BY <4>2, FilterDrop
      <4>4. QED BY <2>1, <2>2, <3>1, <4>1, <4>3
    <3>4. QED BY <3>2, <3>3
  <2>4. CASE x \notin A
    <3>1. Filter(Append(s, x), A) = g
      BY <2>2, <2>4, FilterDrop
    <3>2. Filter(Append(s, x), A \cap B) = Filter(s, A \cap B)
      <4>1. x \notin A \cap B
        BY <2>4
      <4>2. QED BY <4>1, FilterDrop
    <3>3. QED BY <2>1, <2>2, <3>1, <3>2
  <2>5. QED BY <2>3, <2>4
<1> HIDE DEF T
<1>3. \A s \in Seq(S) : s \in T
  BY <1>1, <1>2, ListInduction
<1>4. QED BY <1>3 DEF T

\* Putting an element behind two lists that are put together.
LEMMA ConcatAppended ==
    ASSUME NEW S, NEW r \in Seq(S), NEW s \in Seq(S), NEW x \in S
    PROVE  r \o Append(s, x) = Append(r \o s, x)
<1>1. <<x>> \in Seq(S) /\ r \o s \in Seq(S)
  BY SMTT(40)
<1>2. PICK one \in Seq(S) : one = <<x>>
  BY <1>1
<1>3. Append(s, x) = s \o <<x>> /\ Append(r \o s, x) = (r \o s) \o <<x>>
  BY <1>1, AppendIsConcat
<1>4. (r \o s) \o one = r \o (s \o one)
  BY ConcatAssociative, SMTT(40)
<1>5. QED BY <1>2, <1>3, <1>4

\* Filtering two lists one behind the other.
LEMMA FilterConcat ==
    ASSUME NEW S, NEW A, NEW r \in Seq(S)
    PROVE  \A s \in Seq(S) : Filter(r \o s, A) = Filter(r, A) \o Filter(s, A)
<1> DEFINE T == {s \in Seq(S) : Filter(r \o s, A) = Filter(r, A) \o Filter(s, A)}
<1>0. PICK f \in Seq(S) : f = Filter(r, A)
  BY FilterType
<1>1. <<>> \in T
  <2>1. <<>> \in Seq(S) /\ Filter(<<>>, A) = <<>>
    BY EmptySeq, FilterType
  <2>2. r \o <<>> = r /\ f \o <<>> = f
    BY ConcatEmptySeq
  <2>3. QED BY <1>0, <2>1, <2>2
<1>2. ASSUME NEW s \in Seq(S), NEW x \in S, s \in T
      PROVE  Append(s, x) \in T
  <2>1. Append(s, x) \in Seq(S)
    BY SMTT(40)
  <2>2. PICK g \in Seq(S) : g = Filter(s, A) /\ Filter(r \o s, A) = f \o g
    BY <1>0, <1>2, FilterType
  <2>3. r \o s \in Seq(S)
    BY SMTT(40)
  <2>4. r \o Append(s, x) = Append(r \o s, x)
    BY ConcatAppended, SMTT(40)
  <2>8. f \o Append(g, x) = Append(f \o g, x)
    BY ConcatAppended, SMTT(40)
  <2>5. CASE x \in A
    <3>1. Filter(Append(s, x), A) = Append(Filter(s, A), x)
      BY <2>5, FilterTake
    <3>2. Filter(Append(r \o s, x), A) = Append(Filter(r \o s, A), x)
      BY <2>3, <2>5, FilterTake
    <3>3. QED BY <1>0, <2>1, <2>2, <2>4, <2>8, <3>1, <3>2
  <2>6. CASE x \notin A
    <3>1. Filter(Append(s, x), A) = Filter(s, A)
      BY <2>6, FilterDrop
    <3>2. Filter(Append(r \o s, x), A) = Filter(r \o s, A)
      BY <2>3, <2>6, FilterDrop
    <3>3. QED BY <1>0, <2>1, <2>2, <2>4, <2>8, <3>1, <3>2
  <2>7. QED BY <2>5, <2>6
<1> HIDE DEF T
<1>3. \A s \in Seq(S) : s \in T
  BY <1>1, <1>2, ListInduction
<1>4. QED BY <1>3 DEF T

\* The places of what is asked for.
Places(s, A) == {i \in 1..Len(s) : s[i] \in A}

\* As many elements are kept as there are such places.
LEMMA FilterCount ==
    ASSUME NEW S, NEW A
    PROVE  \A s \in Seq(S) : /\ IsFiniteSet(Places(s, A))
                             /\ Cardinality(Places(s, A)) = Len(Filter(s, A))
<1> DEFINE T == {s \in Seq(S) : /\ IsFiniteSet(Places(s, A))
                                /\ Cardinality(Places(s, A)) = Len(Filter(s, A))}
<1>1. <<>> \in T
  <2>1. <<>> \in Seq(S) /\ Filter(<<>>, A) = <<>>
    BY EmptySeq, FilterType
  <2>2. Places(<<>>, A) = {} /\ Len(<<>>) = 0
    BY SMTT(40) DEF Places
  <2>3. IsFiniteSet({}) /\ Cardinality({}) = 0
    BY FS_EmptySet
  <2>4. QED BY <2>1, <2>2, <2>3
<1>2. ASSUME NEW s \in Seq(S), NEW x \in S, s \in T
      PROVE  Append(s, x) \in T
  <2>0. Append(s, x) \in Seq(S)
    BY SMTT(40)
  <2>1. PICK t \in Seq(S) : t = Append(s, x)
    BY <2>0
  <2>2. PICK n \in Nat : n = Len(s)
    BY SMTT(40)
  <2>3. Len(t) = n + 1 /\ t[n + 1] = x /\ \A i \in 1..n : t[i] = s[i]
    BY <2>1, <2>2, SMTT(40)
  <2>4. PICK f \in Seq(S) : f = Filter(s, A)
    BY FilterType
  <2>5. PICK P : P = Places(s, A)
    OBVIOUS
  <2>6. IsFiniteSet(P) /\ Cardinality(P) = Len(f)
    BY <1>2, <2>4, <2>5
  <2>7. n + 1 \notin P
    BY <2>2, <2>5, SMTT(40) DEF Places
  <2>8. CASE x \in A
    <3>1. Filter(t, A) = Append(f, x)
      <4>1. Filter(t, A) = Append(Filter(s, A), x)
        BY <2>1, <2>8, FilterTake
      <4>2. QED BY <2>4, <4>1
    <3>2. Places(t, A) = P \cup {n + 1}
      BY <2>2, <2>3, <2>5, <2>8, SMTT(40) DEF Places
    <3>3. IsFiniteSet(P \cup {n + 1}) /\ Cardinality(P \cup {n + 1}) = Cardinality(P) + 1
      BY <2>6, <2>7, FS_AddElement
    <3>4. Len(Append(f, x)) = Len(f) + 1
      BY SMTT(40)
    <3>5. Cardinality(Places(t, A)) = Len(Filter(t, A))
      BY <2>6, <3>1, <3>2, <3>3, <3>4
    <3>6. QED BY <2>1, <3>2, <3>3, <3>5
  <2>9. CASE x \notin A
    <3>1. Filter(t, A) = f
      BY <2>1, <2>4, <2>9, FilterDrop
    <3>2. Places(t, A) = P
      BY <2>2, <2>3, <2>5, <2>9, SMTT(40) DEF Places
    <3>3. QED BY <2>1, <2>6, <3>1, <3>2
  <2>10. QED BY <2>8, <2>9
<1> HIDE DEF T
<1>3. \A s \in Seq(S) : s \in T
  BY <1>1, <1>2, ListInduction
<1>4. QED BY <1>3 DEF T

\* The place of the last element that is asked for.
LastPlace(s, A, i) == i \in Places(s, A) /\ \A j \in Places(s, A) : j <= i

\* What is kept last is what stands there.
LEMMA FilterLast ==
    ASSUME NEW S, NEW A
    PROVE  \A s \in Seq(S) : \A i : LastPlace(s, A, i) => Last(Filter(s, A)) = s[i]
<1> DEFINE T == {s \in Seq(S) : \A i : LastPlace(s, A, i) => Last(Filter(s, A)) = s[i]}
<1>1. <<>> \in T
  <2>1. Places(<<>>, A) = {}
    BY SMTT(40) DEF Places
  <2>2. QED BY <2>1, EmptySeq DEF LastPlace
<1>2. ASSUME NEW s \in Seq(S), NEW x \in S, s \in T
      PROVE  Append(s, x) \in T
  <2>0. Append(s, x) \in Seq(S)
    BY SMTT(40)
  <2>1. PICK t \in Seq(S) : t = Append(s, x)
    BY <2>0
  <2>2. PICK n \in Nat : n = Len(s)
    BY SMTT(40)
  <2>3. Len(t) = n + 1 /\ t[n + 1] = x /\ \A i \in 1..n : t[i] = s[i]
    BY <2>1, <2>2, SMTT(40)
  <2>4. PICK f \in Seq(S) : f = Filter(s, A)
    BY FilterType
  <2>5. PICK P : P = Places(s, A)
    OBVIOUS
  <2>6. P \subseteq 1..n
    BY <2>2, <2>5 DEF Places
  <2>7. CASE x \in A
    <3>1. Filter(t, A) = Append(f, x)
      <4>1. Filter(t, A) = Append(Filter(s, A), x)
        BY <2>1, <2>7, FilterTake
      <4>2. QED BY <2>4, <4>1
    <3>2. Places(t, A) = P \cup {n + 1}
      BY <2>2, <2>3, <2>5, <2>7, SMTT(40) DEF Places
    <3>3. \A i : LastPlace(t, A, i) => i = n + 1
      <4>1. \A i \in 1..n : ~(n + 1 <= i)
        BY SMTT(40)
      <4>2. QED BY <2>6, <3>2, <4>1 DEF LastPlace
    <3>4. Last(Append(f, x)) = x
      BY SMTT(40) DEF Last
    <3>5. QED BY <2>1, <2>3, <3>1, <3>3, <3>4
  <2>8. CASE x \notin A
    <3>1. Filter(t, A) = f
      BY <2>1, <2>4, <2>8, FilterDrop
    <3>2. Places(t, A) = P
      BY <2>2, <2>3, <2>5, <2>8, SMTT(40) DEF Places
    <3>3. \A i : LastPlace(t, A, i) => LastPlace(s, A, i) /\ t[i] = s[i]
      BY <2>3, <2>5, <2>6, <3>2 DEF LastPlace
    <3>4. QED BY <1>2, <2>1, <2>4, <3>1, <3>3
  <2>9. QED BY <2>7, <2>8
<1> HIDE DEF T
<1>3. \A s \in Seq(S) : s \in T
  BY <1>1, <1>2, ListInduction
<1>4. QED BY <1>3 DEF T

\* Leaving elements out is keeping the others.
LEMMA WithoutFilter ==
    ASSUME NEW S, NEW A, NEW s \in Seq(S)
    PROVE  Without(s, A) = Filter(s, S \ A)
<1>1. Range(s) \in SUBSET S
  BY RangeFacts
<1>2. Range(s) \cap (Range(s) \ A) = Range(s) \cap (S \ A)
  BY <1>1
<1>3. QED BY <1>2, FilterSame DEF Without

-----------------------------------------------------------------------------
(* Inserting behind an element                                             *)

\* A list with one more element.
LEMMA AppendType ==
    ASSUME NEW S, NEW s \in Seq(S), NEW x \in S
    PROVE  Append(s, x) \in Seq(S)
  BY SMTT(40)

\* append_after of HandlerChain.
After(s, n, u) == Joined([i \in DOMAIN s |-> IF s[i] = n THEN <<s[i], u>> ELSE <<s[i]>>])

\* What it puts in the place of each element.
Behind(S, n, u) == [x \in S |-> IF x = n THEN <<x, u>> ELSE <<x>>]

\* It is a list in each case.
LEMMA BehindType ==
    ASSUME NEW S, NEW n, NEW u \in S
    PROVE  Behind(S, n, u) \in [S -> Seq(S)]
<1>1. \A x \in S : <<x>> \in Seq(S) /\ <<x, u>> \in Seq(S)
  BY SMTT(40)
<1>2. QED BY <1>1 DEF Behind

\* After puts the element, or the element and the new one, in its place.
LEMMA AfterSpread ==
    ASSUME NEW S, NEW n, NEW u \in S, NEW s \in Seq(S)
    PROVE  After(s, n, u) = Spread(s, Behind(S, n, u))
<1>1. \A i \in DOMAIN s : s[i] \in S
  BY SMTT(40)
<1>2. [i \in DOMAIN s |-> IF s[i] = n THEN <<s[i], u>> ELSE <<s[i]>>] =
         [i \in DOMAIN s |-> Behind(S, n, u)[s[i]]]
  BY <1>1 DEF Behind
<1>3. QED BY <1>2 DEF After, Spread

\* The result is a list.
LEMMA AfterType ==
    ASSUME NEW S, NEW n, NEW u \in S, NEW s \in Seq(S)
    PROVE  After(s, n, u) \in Seq(S) /\ After(<<>>, n, u) = <<>>
<1>1. PICK e \in [S -> Seq(S)] : e = Behind(S, n, u)
  BY BehindType
<1>2. <<>> \in Seq(S)
  BY EmptySeq
<1>3. Spread(<<>>, e) = <<>> /\ Spread(s, e) \in Seq(S)
  BY SpreadUnfold
<1>4. QED BY <1>1, <1>2, <1>3, AfterSpread

\* The element is there: the new one comes behind it.
LEMMA AfterFound ==
    ASSUME NEW S, NEW n \in S, NEW u \in S, NEW s \in Seq(S)
    PROVE  After(Append(s, n), n, u) = Append(Append(After(s, n, u), n), u)
<1>1. PICK e \in [S -> Seq(S)] : e = Behind(S, n, u)
  BY BehindType
<1>2. Append(s, n) \in Seq(S)
  BY SMTT(40)
<1>3. Spread(Append(s, n), e) = Spread(s, e) \o e[n]
  <2>1. \A r \in Seq(S), y \in S : Spread(Append(r, y), e) = Spread(r, e) \o e[y]
    BY SpreadUnfold
  <2>2. QED BY <2>1
<1>4. e[n] = <<n, u>>
  BY <1>1 DEF Behind
<1>5. PICK g \in Seq(S) : g = After(s, n, u)
  BY AfterType
<1>6. g \o <<n, u>> = Append(Append(g, n), u)
  BY SMTT(40)
<1>7. After(Append(s, n), n, u) = Spread(Append(s, n), e) /\ g = Spread(s, e)
  BY <1>1, <1>2, <1>5, AfterSpread
<1>8. QED BY <1>3, <1>4, <1>5, <1>6, <1>7

\* Another element stays as it is.
LEMMA AfterOther ==
    ASSUME NEW S, NEW n, NEW u \in S, NEW s \in Seq(S), NEW x \in S, x # n
    PROVE  After(Append(s, x), n, u) = Append(After(s, n, u), x)
<1>1. PICK e \in [S -> Seq(S)] : e = Behind(S, n, u)
  BY BehindType
<1>2. Append(s, x) \in Seq(S)
  BY SMTT(40)
<1>3. Spread(Append(s, x), e) = Spread(s, e) \o e[x]
  <2>1. \A r \in Seq(S), y \in S : Spread(Append(r, y), e) = Spread(r, e) \o e[y]
    BY SpreadUnfold
  <2>2. QED BY <2>1
<1>4. e[x] = <<x>>
  BY <1>1 DEF Behind
<1>5. PICK g \in Seq(S) : g = After(s, n, u)
  BY AfterType
<1>6. Append(g, x) = g \o <<x>>
  BY AppendIsConcat
<1>7. After(Append(s, x), n, u) = Spread(Append(s, x), e) /\ g = Spread(s, e)
  BY <1>1, <1>2, <1>5, AfterSpread
<1>8. QED BY <1>3, <1>4, <1>5, <1>6, <1>7

\* Without the element nothing is inserted.
LEMMA AfterNone ==
    ASSUME NEW S, NEW n, NEW u \in S
    PROVE  \A s \in Seq(S) : n \notin Range(s) => After(s, n, u) = s
<1> DEFINE T == {s \in Seq(S) : n \notin Range(s) => After(s, n, u) = s}
<1>1. <<>> \in T
  <2>1. <<>> \in Seq(S)
    BY EmptySeq
  <2>2. QED BY <2>1, AfterType
<1>2. ASSUME NEW s \in Seq(S), NEW x \in S, s \in T
      PROVE  Append(s, x) \in T
  <2>1. Append(s, x) \in Seq(S)
    BY SMTT(40)
  <2>2. Range(Append(s, x)) = Range(s) \cup {x}
    BY RangeAppend, SMTT(40)
  <2>3. ASSUME n \notin Range(Append(s, x))
        PROVE  After(Append(s, x), n, u) = Append(s, x)
    <3>1. n \notin Range(s) /\ x # n
      BY <2>2, <2>3
    <3>2. After(Append(s, x), n, u) = Append(After(s, n, u), x)
      BY <3>1, AfterOther, SMTT(40)
    <3>3. QED BY <1>2, <3>1, <3>2
  <2>4. QED BY <2>1, <2>3
<1> HIDE DEF T
<1>3. \A s \in Seq(S) : s \in T
  BY <1>1, <1>2, ListInduction
<1>4. QED BY <1>3 DEF T

\* Two lists one behind the other.
Glue(r, s) == r \o s

\* What comes behind the element stays behind it.
LEMMA AfterInFront ==
    ASSUME NEW S, NEW n, NEW u \in S, NEW r \in Seq(S)
    PROVE  \A s \in Seq(S) : n \notin Range(s) => After(Glue(r, s), n, u) = Glue(After(r, n, u), s)
<1> DEFINE T == {s \in Seq(S) : n \notin Range(s) =>
                                   After(r \o s, n, u) = After(r, n, u) \o s}
<1>1. PICK g \in Seq(S) : g = After(r, n, u)
  BY AfterType
<1>2. <<>> \in T
  <2>1. <<>> \in Seq(S)
    BY EmptySeq
  <2>2. r \o <<>> = r /\ g \o <<>> = g
    BY ConcatEmptySeq
  <2>3. QED BY <1>1, <2>1, <2>2
<1>3. ASSUME NEW s \in Seq(S), NEW x \in S, s \in T
      PROVE  Append(s, x) \in T
  <2>1. Append(s, x) \in Seq(S) /\ r \o s \in Seq(S)
    BY SMTT(40)
  <2>2. Range(Append(s, x)) = Range(s) \cup {x}
    BY RangeAppend, SMTT(40)
  <2>3. r \o Append(s, x) = Append(r \o s, x) /\ g \o Append(s, x) = Append(g \o s, x)
    BY ConcatAppended, SMTT(40)
  <2>4. ASSUME n \notin Range(Append(s, x))
        PROVE  After(r \o Append(s, x), n, u) = After(r, n, u) \o Append(s, x)
    <3>1. n \notin Range(s) /\ x # n
      BY <2>2, <2>4
    <3>2. After(r \o s, n, u) = g \o s
      BY <1>1, <1>3, <3>1
    <3>3. After(Append(r \o s, x), n, u) = Append(After(r \o s, n, u), x)
      <4>1. PICK h \in Seq(S) : h = r \o s
        BY <2>1
      <4>2. After(Append(h, x), n, u) = Append(After(h, n, u), x)
        BY <3>1, AfterOther, SMTT(60)
      <4>3. QED BY <4>1, <4>2
    <3>4. QED BY <1>1, <2>3, <3>2, <3>3
  <2>5. QED BY <2>1, <2>4
<1> HIDE DEF T
<1>4. \A s \in Seq(S) : s \in T
  BY <1>2, <1>3, ListInduction
<1>5. QED BY <1>4 DEF T, Glue

\* An element that is there once.
LEMMA InsertBehind ==
    ASSUME NEW S, NEW n \in S, NEW u \in S, NEW r \in Seq(S), NEW s \in Seq(S),
           n \notin Range(r), n \notin Range(s)
    PROVE  After(Glue(Append(r, n), s), n, u) = Glue(Append(Append(r, n), u), s)
<1>1. PICK f \in Seq(S) : f = Append(r, n)
  BY AppendType
<1>2. After(f, n, u) = Append(Append(After(r, n, u), n), u)
  BY <1>1, AfterFound
<1>3. After(r, n, u) = r
  BY AfterNone
<1>4. After(Glue(f, s), n, u) = Glue(After(f, n, u), s)
  BY AfterInFront, SMTT(40)
<1>5. QED BY <1>1, <1>2, <1>3, <1>4

\* Nobody who does not ask for the new element sees it.
LEMMA AfterFilter ==
    ASSUME NEW S, NEW A, NEW n, NEW u \in S, u \notin A
    PROVE  \A s \in Seq(S) : Filter(After(s, n, u), A) = Filter(s, A)
<1> DEFINE T == {s \in Seq(S) : Filter(After(s, n, u), A) = Filter(s, A)}
<1>1. <<>> \in T
  <2>1. <<>> \in Seq(S)
    BY EmptySeq
  <2>2. After(<<>>, n, u) = <<>>
    BY <2>1, AfterType
  <2>3. QED BY <2>1, <2>2
<1>2. ASSUME NEW s \in Seq(S), NEW x \in S, s \in T
      PROVE  Append(s, x) \in T
  <2>1. Append(s, x) \in Seq(S)
    BY SMTT(40)
  <2>2. PICK g \in Seq(S) : g = After(s, n, u)
    BY AfterType
  <2>3. Append(g, x) \in Seq(S)
    BY SMTT(40)
  <2>4. Filter(Append(g, x), A) = Filter(Append(s, x), A)
    <3>1. Filter(g, A) = Filter(s, A)
      BY <1>2, <2>2
    <3>2. CASE x \in A
      <4>1. Filter(Append(g, x), A) = Append(Filter(g, A), x)
        BY <3>2, FilterTake, SMTT(40)
      <4>2. Filter(Append(s, x), A) = Append(Filter(s, A), x)
        BY <3>2, FilterTake, SMTT(40)
      <4>3. QED BY <3>1, <4>1, <4>2
    <3>3. CASE x \notin A
      <4>1. Filter(Append(g, x), A) = Filter(g, A)
        BY <3>3, FilterDrop, SMTT(40)
      <4>2. Filter(Append(s, x), A) = Filter(s, A)
        BY <3>3, FilterDrop, SMTT(40)
      <4>3. QED BY <3>1, <4>1, <4>2
    <3>4. QED BY <3>2, <3>3
  <2>5. CASE x = n
    <3>1. n \in S
      BY <2>5
    <3>2. After(Append(s, n), n, u) = Append(Append(After(s, n, u), n), u)
      <4>1. \A r \in Seq(S) : After(Append(r, n), n, u) = Append(Append(After(r, n, u), n), u)
        BY <3>1, AfterFound
      <4>2. QED BY <4>1
    <3>3. PICK h \in Seq(S) : h = Append(g, x)
      BY <2>3
    <3>4. Filter(Append(h, u), A) = Filter(h, A)
      BY FilterDrop, SMTT(40)
    <3>5. QED BY <2>1, <2>2, <2>4, <2>5, <3>2, <3>3, <3>4
  <2>6. CASE x # n
    <3>1. After(Append(s, x), n, u) = Append(g, x)
      BY <2>2, <2>6, AfterOther, SMTT(40)
    <3>2. QED BY <2>1, <2>4, <3>1
  <2>7. QED BY <2>5, <2>6
<1> HIDE DEF T
<1>3. \A s \in Seq(S) : s \in T
  BY <1>1, <1>2, ListInduction
<1>4. QED BY <1>3 DEF T

\* Nothing is kept of a list that has nothing of what is asked for.
LEMMA FilterNone ==
    ASSUME NEW S, NEW A, NEW s \in Seq(S), Range(s) \cap A = {}
    PROVE  Filter(s, A) = <<>>
<1>1. PICK g \in Seq(S) : g = Filter(s, A)
  BY FilterType
<1>2. Range(g) = {}
  BY <1>1, FilterRange
<1>3. g # <<>> => 1 \in DOMAIN g
  BY SMTT(40)
<1>4. QED BY <1>1, <1>2, <1>3 DEF Range

-----------------------------------------------------------------------------
(* The interfaces                                                          *)

\* The static configurations an interface may come to have.
Statics == StaticConfiguration \cup {static_network_conf_from(r) : r \in CniResult}

Devices ==
    STRING \cup {f.host_dev_name : f \in {static_network_conf_from(r) : r \in CniResult} \ {None}}

Iface == [cni : CniConfiguration, static : Statics, allow_mmds : BOOLEAN]

\* An interface keeps what the caller gave, except that setup_network adds a
\* static configuration to one that has a CNI configuration.
Kept(i) ==
    /\ ifaces[i].cni = given.ifaces[i].cni
    /\ ifaces[i].allow_mmds = given.ifaces[i].allow_mmds
    /\ \/ ifaces[i].static = given.ifaces[i].static
       \/ ifaces[i].cni # None /\ ifaces[i].static # None

\* What an interface of a validated configuration is once the network is set
\* up.
Meant(i) ==
    IF given.ifaces[i].cni # None THEN static_network_conf_from(result)
                                  ELSE given.ifaces[i].static

\* The strengthening: a validated configuration is the one that was given, since
\* one that setup_network has changed is refused, and it is converted once.
IInv ==
    /\ given \in Config
    /\ ifaces \in Seq(Iface)
    /\ Len(ifaces) = Len(given.ifaces)
    /\ sent \in Seq(Devices)
    /\ Len(sent) <= Len(ifaces)
    /\ \A i \in 1..Len(ifaces) : Kept(i)
    /\ pc \in {"new", "network", "args"} => sent = <<>>
    /\ pc = "network" /\ ~given.unchecked =>
          /\ \A i \in 1..Len(ifaces) : ifaces[i].static = given.ifaces[i].static
          /\ \A i \in 1..Len(ifaces) : ifaces[i].cni # None =>
                Len(ifaces) = 1 /\ ifaces[i].static = None
    /\ pc \in {"args", "interfaces", "up"} /\ ~given.unchecked =>
          \A i \in 1..Len(ifaces) : ifaces[i].static = Meant(i)
    /\ pc \in {"interfaces", "up"} =>
          \A i \in 1..Len(sent) :
             ifaces[i].static # None /\ sent[i] = ifaces[i].static.host_dev_name
    /\ pc = "up" => Len(sent) = Len(ifaces) /\ mmds = MmdsIds

\* The configuration as it is given.
LEMMA GivenType ==
    ASSUME NEW c \in Config
    PROVE  c.ifaces \in Seq(Iface)
<1>1. c.ifaces \in Seq(NetworkInterface)
  BY ConfigAssumption
<1>2. NetworkInterface \subseteq Iface
  BY DEF NetworkInterface, Iface, Statics
<1>3. QED BY <1>1, <1>2, SMTT(40)

\* A Machine as it is made satisfies the invariant.
LEMMA InitInv == Init => IInv
<1> SUFFICES ASSUME Init PROVE IInv
  OBVIOUS
<1>1. given \in Config /\ ifaces = given.ifaces /\ pc = "new" /\ sent = <<>>
  BY DEF Init
<1>2. ifaces \in Seq(Iface)
  BY <1>1, GivenType
<1>3. QED BY <1>1, <1>2, SMTT(40) DEF IInv, Kept

\* A non-empty set of numbers has a least one.
LEMMA Least ==
    ASSUME NEW T \in SUBSET Nat, T # {}
    PROVE  \E x \in T : \A y \in T : x <= y
<1>1. PICK R : R = OpToRel(<, Nat)
  OBVIOUS
<1>2. IsWellFoundedOn(R, Nat)
  BY Zenon, <1>1, NatLessThanWellFounded
<1>3. PICK x \in T : \A y \in T : ~(<<y, x>> \in R)
  BY <1>2, WFMin
<1>4. \A y \in Nat : y < x => <<y, x>> \in R
  <2>1. R = {p \in Nat \X Nat : p[1] < p[2]}
    BY Zenon, <1>1 DEF OpToRel
  <2>2. QED BY <2>1
<1>5. x \in Nat /\ \A y \in T : y \in Nat /\ ~(y < x)
  BY <1>3, <1>4
<1>6. \A y \in T : x <= y
  BY <1>5, SMTT(40)
<1>7. QED BY <1>6

\* cni_interface_mut finds an interface with a CNI configuration.
LEMMA FoundCni ==
    ASSUME ifaces \in Seq(Iface), CniInterfaces # {}
    PROVE  CniInterface \in 1..Len(ifaces) /\ ifaces[CniInterface].cni # None
<1>1. CniInterfaces \in SUBSET Nat
  BY SMTT(40) DEF CniInterfaces
<1>2. \E x \in CniInterfaces : \A y \in CniInterfaces : x <= y
  BY <1>1, Least
<1>3. CniInterface \in CniInterfaces
  BY <1>2 DEF CniInterface
<1>4. QED BY <1>3, SMTT(40) DEF CniInterfaces

\* setup_network changes nothing but the static configuration of the first
\* interface with a CNI configuration, if it had none.
LEMMA SetupFacts ==
    ASSUME IInv, SetupNetworkOk
    PROVE  /\ ifaces' \in Seq(Iface) /\ Len(ifaces') = Len(ifaces)
           /\ \A i \in 1..Len(ifaces) :
                 /\ ifaces'[i].cni = ifaces[i].cni
                 /\ ifaces'[i].allow_mmds = ifaces[i].allow_mmds
                 /\ \/ ifaces'[i].static = ifaces[i].static
                    \/ ifaces[i].cni # None /\ ifaces'[i].static # None
           /\ \A i \in 1..Len(ifaces) :
                 ifaces[i].cni # None /\ ifaces[i].static = None /\ Len(ifaces) = 1 =>
                     ifaces'[i].static = static_network_conf_from(result')
           /\ \A i \in 1..Len(ifaces) :
                 ifaces[i].static # None => ifaces'[i].static = ifaces[i].static
           /\ \/ UNCHANGED <<ifaces, result>>
              \/ /\ result' \in CniResult
                 /\ ifaces[CniInterface].static = None =>
                       ifaces'[CniInterface].static = static_network_conf_from(result')
<1>1. CASE CniInterfaces = {} /\ UNCHANGED <<ifaces, result>>
  <2>1. \A i \in 1..Len(ifaces) : ifaces[i].cni = None
    BY <1>1, SMTT(40) DEF CniInterfaces, IInv
  <2>2. QED BY <1>1, <2>1 DEF IInv
<1>2. CASE CniInterfaces # {}
  <2> DEFINE c == CniInterface
             old == ifaces[c].static
  <2>1. ifaces \in Seq(Iface) /\ c \in 1..Len(ifaces) /\ ifaces[c].cni # None
    BY <1>2, FoundCni DEF IInv
  <2>2. PICK r \in CniResult :
           /\ result' = r
           /\ old # None \/ static_network_conf_from(r) # None
           /\ ifaces' = [ifaces EXCEPT ![c].static =
                           IF old # None THEN old ELSE static_network_conf_from(r)]
    BY <1>2 DEF SetupNetworkOk
  <2>3. PICK f : f = IF old # None THEN old ELSE static_network_conf_from(r)
    OBVIOUS
  <2>4. ifaces' = [ifaces EXCEPT ![c] = [@ EXCEPT !.static = f]]
    BY <2>2, <2>3
  <2>5. f \in Statics /\ f # None
    <3>1. ifaces[c] \in Iface
      BY <2>1, SMTT(40)
    <3>2. QED BY <2>2, <2>3, <3>1 DEF Iface, Statics
  <2> HIDE DEF c
  <2>6. [ifaces[c] EXCEPT !.static = f] \in Iface
    <3>1. PICK g \in Iface : g = ifaces[c]
      BY <2>1, SMTT(40)
    <3>2. [g EXCEPT !.static = f] \in Iface
      BY <2>5 DEF Iface
    <3>3. QED BY <3>1, <3>2
  <2>7. ifaces' \in Seq(Iface) /\ Len(ifaces') = Len(ifaces)
    BY <2>1, <2>4, <2>6, SMTT(40)
  <2>8. \A i \in 1..Len(ifaces) : i # c => ifaces'[i] = ifaces[i]
    BY <2>1, <2>4, SMTT(40)
  <2>9. ifaces'[c].static = f /\ ifaces'[c].cni = ifaces[c].cni
        /\ ifaces'[c].allow_mmds = ifaces[c].allow_mmds
    BY <2>1, <2>4, SMTT(40) DEF Iface
  <2>10. \A i \in 1..Len(ifaces) : Len(ifaces) = 1 => i = c
    BY <2>1, SMTT(40)
  <2>11. /\ result' \in CniResult
         /\ ifaces[c].static = None => ifaces'[c].static = static_network_conf_from(result')
    BY <2>2, <2>3, <2>9
  <2>12. \A i \in 1..Len(ifaces) :
            ifaces[i].static # None => ifaces'[i].static = ifaces[i].static
    BY <2>3, <2>8, <2>9
  <2>13. /\ result' \in CniResult
         /\ ifaces[CniInterface].static = None =>
               ifaces'[CniInterface].static = static_network_conf_from(result')
    BY <2>11 DEF c
  <2>14. \A i \in 1..Len(ifaces) :
            /\ ifaces'[i].cni = ifaces[i].cni
            /\ ifaces'[i].allow_mmds = ifaces[i].allow_mmds
            /\ \/ ifaces'[i].static = ifaces[i].static
               \/ ifaces[i].cni # None /\ ifaces'[i].static # None
    BY <2>1, <2>5, <2>8, <2>9
  <2>15. \A i \in 1..Len(ifaces) :
            ifaces[i].cni # None /\ ifaces[i].static = None /\ Len(ifaces) = 1 =>
                ifaces'[i].static = static_network_conf_from(result')
    BY <2>10, <2>11
  <2>16. QED BY <2>7, <2>12, <2>13, <2>14, <2>15
<1>3. QED BY <1>1, <1>2 DEF SetupNetworkOk

\* A step of setup_network by itself or inside start() keeps what was given.
LEMMA SetupKept ==
    ASSUME IInv, SetupNetworkOk, UNCHANGED given
    PROVE  \A i \in 1..Len(ifaces') : Kept(i)'
<1>1. Len(ifaces') = Len(ifaces)
  BY SetupFacts
<1>2. SUFFICES ASSUME NEW i \in 1..Len(ifaces) PROVE Kept(i)'
  BY <1>1
<1>3. Kept(i)
  BY DEF IInv
<1>4. QED BY <1>3, SetupFacts DEF Kept

\* A configuration that passes validation is the one that was given, and an
\* interface with a CNI configuration is alone.
LEMMA ValidatedGiven ==
    ASSUME IInv, validate_network
    PROVE  /\ \A i \in 1..Len(ifaces) : ifaces[i].static = given.ifaces[i].static
           /\ \A i \in 1..Len(ifaces) : ifaces[i].cni # None =>
                 Len(ifaces) = 1 /\ ifaces[i].static = None
<1>1. SUFFICES ASSUME NEW i \in 1..Len(ifaces)
               PROVE  /\ ifaces[i].static = given.ifaces[i].static
                      /\ ifaces[i].cni # None => Len(ifaces) = 1 /\ ifaces[i].static = None
  OBVIOUS
<1>2. i \in DOMAIN ifaces
  BY SMTT(40) DEF IInv
<1>3. OneKind(ifaces[i]) /\ (ifaces[i].cni # None => Len(ifaces) = 1)
  BY <1>2 DEF validate_network, ValidInterface
<1>4. Kept(i)
  BY DEF IInv
<1>5. QED BY <1>3, <1>4 DEF OneKind, Kept

\* Every step keeps the invariant.
LEMMA StepInv == IInv /\ [Next]_vars => IInv'
<1> SUFFICES ASSUME IInv, [Next]_vars PROVE IInv'
  OBVIOUS
<1>1. CASE CallSetupNetwork
  <2>1. pc = "new" /\ SetupNetworkOk /\ UNCHANGED <<given, pc, sent>>
    BY <1>1 DEF CallSetupNetwork
  <2>2. ifaces' \in Seq(Iface) /\ Len(ifaces') = Len(ifaces)
    BY <2>1, SetupFacts
  <2>3. \A i \in 1..Len(ifaces') : Kept(i)'
    BY <2>1, SetupKept
  <2>4. QED BY <2>1, <2>2, <2>3 DEF IInv
<1>2. CASE CallSetupKernelArgs
  <2>1. pc = "new" /\ UNCHANGED <<given, ifaces, pc, sent>>
    BY <1>2 DEF CallSetupKernelArgs
  <2>2. QED BY <2>1 DEF IInv, Kept
<1>3. CASE Validate
  <2>1. /\ pc = "new" /\ pc' = "network" /\ UNCHANGED <<given, ifaces, sent>>
        /\ given.unchecked \/ validate_network
    BY <1>3 DEF Validate, Goto
  <2>2. QED BY <2>1, ValidatedGiven DEF IInv, Kept
<1>4. CASE SetupNetwork
  <2>1. pc = "network" /\ pc' = "args" /\ SetupNetworkOk /\ UNCHANGED <<given, sent>>
    BY <1>4 DEF SetupNetwork, Goto
  <2>2. ifaces' \in Seq(Iface) /\ Len(ifaces') = Len(ifaces)
    BY <2>1, SetupFacts
  <2>3. \A i \in 1..Len(ifaces') : Kept(i)'
    BY <2>1, SetupKept
  <2>4. ASSUME ~given.unchecked, NEW i \in 1..Len(ifaces)
        PROVE  ifaces'[i].static = Meant(i)'
    <3>1. /\ ifaces[i].static = given.ifaces[i].static
          /\ ifaces[i].cni # None => Len(ifaces) = 1 /\ ifaces[i].static = None
          /\ ifaces[i].cni = given.ifaces[i].cni
      BY <2>1, <2>4 DEF IInv, Kept
    <3>2. QED BY <2>1, <3>1, SetupFacts DEF Meant
  <2>5. QED BY <2>1, <2>2, <2>3, <2>4 DEF IInv
<1>5. CASE ConversionErr
  <2>1. pc = "network" /\ pc' = "failed" /\ UNCHANGED <<given, ifaces, sent>>
    BY <1>5 DEF ConversionErr, Goto
  <2>2. QED BY <2>1 DEF IInv, Kept
<1>6. CASE SetupKernelArgs
  <2>1. pc = "args" /\ pc' = "interfaces" /\ UNCHANGED <<given, ifaces, result, sent>>
    BY <1>6 DEF SetupKernelArgs, Goto
  <2>2. QED BY <2>1, SMTT(40) DEF IInv, Kept, Meant
<1>7. CASE CreateNetworkInterface
  <2> DEFINE n == Len(sent) + 1
  <2>1. /\ pc = "interfaces" /\ pc' = "interfaces" /\ n <= Len(ifaces)
        /\ UNCHANGED <<given, ifaces, result>>
        /\ ifaces[n].static # None /\ sent' = Append(sent, ifaces[n].static.host_dev_name)
    BY <1>7, SMTT(40) DEF CreateNetworkInterface, Goto, IInv
  <2>2. ifaces[n].static.host_dev_name \in Devices
    <3>1. n \in 1..Len(ifaces) /\ ifaces \in Seq(Iface)
      BY <2>1, SMTT(40) DEF IInv
    <3>2. PICK g \in Iface : g = ifaces[n]
      BY <3>1, SMTT(40)
    <3>3. g.static \in Statics /\ g.static # None
      BY <2>1, <3>2 DEF Iface
    <3>4. PICK f \in Statics : f = g.static
      BY <3>3
    <3>5. f.host_dev_name \in Devices
      BY <3>3, <3>4 DEF Statics, StaticConfiguration, Devices
    <3>6. QED BY <3>2, <3>4, <3>5
  <2>3. PICK d \in Devices : d = ifaces[n].static.host_dev_name
    BY <2>2
  <2>4. sent' \in Seq(Devices) /\ Len(sent') = n /\ sent'[n] = d
        /\ \A i \in 1..Len(sent) : sent'[i] = sent[i]
    BY <2>1, <2>3, SMTT(40) DEF IInv
  <2>5. \A i \in 1..Len(sent') :
           ifaces[i].static # None /\ sent'[i] = ifaces[i].static.host_dev_name
    BY <2>1, <2>3, <2>4, SMTT(40) DEF IInv
  <2>6. QED BY <2>1, <2>4, <2>5 DEF IInv, Kept, Meant
<1>8. CASE SetMmdsConfig
  <2>1. /\ pc = "interfaces" /\ pc' = "up" /\ Len(sent) = Len(ifaces) /\ mmds' = MmdsIds
        /\ UNCHANGED <<given, ifaces, result, sent>>
    BY <1>8 DEF SetMmdsConfig, Goto
  <2>2. MmdsIds' = MmdsIds
    BY <2>1 DEF MmdsIds
  <2>3. QED BY <2>1, <2>2 DEF IInv, Kept, Meant
<1>9. CASE StartErr
  <2>1. pc' = "failed" /\ UNCHANGED <<given, ifaces, sent>>
    BY <1>9 DEF StartErr, Goto
  <2>2. QED BY <2>1 DEF IInv, Kept
<1>10. CASE UNCHANGED vars
  BY <1>10 DEF vars, IInv, Kept, Meant, MmdsIds
<1>11. QED
  BY <1>1, <1>2, <1>3, <1>4, <1>5, <1>6, <1>7, <1>8, <1>9, <1>10 DEF Next

\* In a state of the invariant the VMM has the interfaces that were meant.
LEMMA InvInterfaces == IInv => InterfacesAsConfigured
<1> SUFFICES ASSUME IInv, Up PROVE
       /\ Len(sent) = Len(given.ifaces)
       /\ \A i \in DOMAIN sent :
             /\ sent[i] = IF given.ifaces[i].cni # None
                          THEN static_network_conf_from(result).host_dev_name
                          ELSE given.ifaces[i].static.host_dev_name
             /\ i \in mmds <=> given.ifaces[i].allow_mmds
  BY DEF InterfacesAsConfigured
<1>1. /\ Len(sent) = Len(ifaces) /\ Len(ifaces) = Len(given.ifaces) /\ mmds = MmdsIds
      /\ DOMAIN sent = 1..Len(ifaces) /\ DOMAIN ifaces = 1..Len(ifaces)
  BY SMTT(40) DEF IInv, Up
<1>2. ASSUME NEW i \in 1..Len(ifaces)
      PROVE  /\ sent[i] = ifaces[i].static.host_dev_name
             /\ ifaces[i].static = Meant(i)
             /\ ifaces[i].allow_mmds = given.ifaces[i].allow_mmds
  BY <1>1 DEF IInv, Up, Kept
<1>3. \A i \in 1..Len(ifaces) : i \in mmds <=> ifaces[i].allow_mmds
  BY <1>1 DEF MmdsIds
<1>4. QED BY <1>1, <1>2, <1>3 DEF Meant

\* create_network_interfaces and set_mmds_config give the VMM of a validated
\* configuration every interface under its id, with the device CNI reported
\* last or the one configured, whatever was called before start().
THEOREM InterfacesMeant == Spec => []InterfacesAsConfigured
<1>1. QED BY InitInv, StepInv, InvInterfaces, PTL DEF Spec

-----------------------------------------------------------------------------
(* Kernel arguments                                                        *)

\* The last element of a list that has any.
LEMMA LastIn ==
    ASSUME NEW S, NEW s \in Seq(S), Range(s) # {}
    PROVE  Last(s) \in Range(s)
<1>1. PICK n \in Nat : n = Len(s) /\ DOMAIN s = 1..n
  BY SMTT(40)
<1>2. 1..n # {}
  BY <1>1 DEF Range
<1>3. n \in 1..n
  BY <1>2, SMTT(40)
<1>4. QED BY <1>1, <1>3 DEF Range, Last

\* parse_kernel_args gives a key the value of its last token.
LEMMA ParseLast ==
    ASSUME NEW S, NEW raw \in Seq(S), NEW i \in DOMAIN raw, LastOfKey(raw, i)
    PROVE  raw[i][1] \in Keys(raw) /\ parse_kernel_args(raw)[raw[i][1]] = raw[i][2]
<1> DEFINE A == {t \in Range(raw) : t[1] = raw[i][1]}
<1>1. DOMAIN raw = 1..Len(raw)
  BY LenProperties
<1>2. raw[i][1] \in Keys(raw)
  BY DEF Keys, Range
<1>3. \A j \in DOMAIN raw : raw[j] \in A <=> raw[j][1] = raw[i][1]
  BY DEF Range
<1>4. parse_kernel_args(raw)[raw[i][1]] = Last(Filter(raw, A))[2]
  BY <1>2 DEF parse_kernel_args
<1> HIDE DEF A
<1>5. LastPlace(raw, A, i)
  BY <1>1, <1>3 DEF LastPlace, LastOfKey, Places
<1>6. Last(Filter(raw, A)) = raw[i]
  BY <1>5, FilterLast
<1>7. QED BY <1>2, <1>4, <1>6

\* The tokens of a list in which every key has one value.
Tokens(D, F) == {<<key, F[key]>> : key \in D}

\* parse_kernel_args reads what Display has written.
LEMMA ParseDisplay ==
    ASSUME NEW D \in SUBSET Range(KeyOrder), NEW F, F = [key \in D |-> F[key]]
    PROVE  /\ Keys(Display(F)) = D /\ parse_kernel_args(Display(F)) = F
           /\ Range(Display(F)) = Tokens(D, F)
<1> DEFINE keys == Filter(KeyOrder, D)
           d == [i \in DOMAIN keys |-> <<keys[i], F[keys[i]]>>]
           X == {<<key, F[key]>> : key \in D}
<1>1. DOMAIN F = D
  <2>1. DOMAIN [key \in D |-> F[key]] = D
    OBVIOUS
  <2>2. QED BY <2>1
<1>2. Display(F) = d
  BY <1>1, SMTT(40) DEF Display
<1>3. keys \in Seq(STRING)
  BY KeysAssumption, FilterType
<1>4. Range(keys) = D
  <2>1. Range(keys) = Range(KeyOrder) \cap D
    BY KeysAssumption, FilterRange
  <2>2. QED BY <2>1
<1>5. PICK n \in Nat : DOMAIN keys = 1..n
  <2> HIDE DEF keys
  <2>1. QED BY <1>3, SMTT(40)
<1> HIDE DEF keys
<1>6. Range(d) = X
  <2>1. DOMAIN d = DOMAIN keys /\ \A i \in DOMAIN keys : d[i] = <<keys[i], F[keys[i]]>>
    OBVIOUS
  <2> HIDE DEF d
  <2>2. \A i \in DOMAIN keys : keys[i] \in D
    BY <1>4 DEF Range
  <2>3. \A key \in D : \E i \in DOMAIN keys : keys[i] = key
    BY <1>4 DEF Range
  <2>4. \A t \in Range(d) : t \in X
    BY <2>1, <2>2, SMTT(40) DEF Range
  <2>5. \A t \in X : t \in Range(d)
    BY <2>1, <2>3, SMTT(40) DEF Range
  <2>6. QED BY <2>4, <2>5
<1>7. d \in Seq(X)
  <2>1. d \in [1..n -> X]
    <3>1. \A i \in 1..n : keys[i] \in D
      BY <1>4, <1>5 DEF Range
    <3>2. \A i \in 1..n : <<keys[i], F[keys[i]]>> \in X
      BY <3>1
    <3>3. QED BY <1>5, <3>2
  <2>2. \A f \in [1..n -> X] : f \in Seq(X)
    <3> HIDE DEF X
    <3>1. QED BY SMTT(40)
  <2> HIDE DEF d, X
  <2>3. QED BY <2>1, <2>2
<1>8. Keys(d) = D
  <2>1. Keys(d) = {t[1] : t \in X}
    BY <1>6 DEF Keys
  <2>2. \A key : <<key, F[key]>>[1] = key
    BY SMTT(40)
  <2>3. \A t \in X : t[1] \in D
    BY <2>2
  <2>4. \A key \in D : <<key, F[key]>> \in X
    OBVIOUS
  <2> HIDE DEF X, d
  <2>5. QED BY <2>1, <2>2, <2>3, <2>4
<1>9. ASSUME NEW key \in D
      PROVE  Last(Filter(d, {t \in Range(d) : t[1] = key}))[2] = F[key]
  <2> DEFINE K == {t \in X : t[1] = key}
  <2>1. \A k : <<k, F[k]>>[1] = k /\ <<k, F[k]>>[2] = F[k]
    BY SMTT(40)
  <2>2. \A t \in K : t[2] = F[key]
    BY <2>1, SMTT(40)
  <2>3. <<key, F[key]>> \in K
    BY <2>1
  <2>4. K \subseteq X /\ {t \in Range(d) : t[1] = key} = K
    BY <1>6
  <2> HIDE DEF K, X, d
  <2>5. PICK f \in Seq(X) : f = Filter(d, K)
    BY <1>7, FilterType
  <2>6. Range(f) = Range(d) \cap K
    BY <1>7, <2>5, FilterRange
  <2>7. Range(f) = K
    BY <1>6, <2>4, <2>6
  <2>8. Last(f) \in Range(f)
    BY <2>3, <2>7, LastIn
  <2>9. QED BY <2>2, <2>4, <2>5, <2>7, <2>8
<1>10. Range(d) = Tokens(D, F)
  BY <1>6 DEF Tokens
<1> HIDE DEF d, X
<1>11. parse_kernel_args(d) = [key \in D |-> F[key]]
  BY <1>8, <1>9 DEF parse_kernel_args
<1>12. QED BY <1>2, <1>8, <1>10, <1>11

\* What setup_kernel_args makes of the arguments: it adds ip= when an interface
\* has an address, and keeps everything else.
LEMMA ArgsSet ==
    ASSUME Keys(kernel_args) \subseteq Range(KeyOrder)
    PROVE  LET set == parse_kernel_args(KernelArgsSet)
               now == parse_kernel_args(kernel_args)
           IN /\ StaticIps = {} => Keys(KernelArgsSet) = Keys(kernel_args) /\ set = now
              /\ StaticIps # {} =>
                    /\ Keys(KernelArgsSet) = Keys(kernel_args) \cup {"ip"}
                    /\ set["ip"] = ip_boot_param(ifaces[StaticIpInterface].static.ip)
              /\ \A key \in Keys(kernel_args) \ {"ip"} : set[key] = now[key]
              /\ Range(KernelArgsSet) = Tokens(Keys(KernelArgsSet), set)
<1> DEFINE now == parse_kernel_args(kernel_args)
           ip == ip_boot_param(ifaces[StaticIpInterface].static.ip)
           D == Keys(kernel_args) \cup (IF StaticIps = {} THEN {} ELSE {"ip"})
           F == [key \in D |-> IF key = "ip" /\ StaticIps # {} THEN ip ELSE now[key]]
<1>1. DOMAIN now = Keys(kernel_args) /\ now = [key \in Keys(kernel_args) |-> now[key]]
  BY DEF parse_kernel_args
<1>2. KernelArgsSet = Display(F)
  <2> HIDE DEF now
  <2>1. KernelArgsSet =
           Display([key \in DOMAIN now \cup (IF StaticIps = {} THEN {} ELSE {"ip"}) |->
                      IF key = "ip" /\ StaticIps # {} THEN ip ELSE now[key]])
    BY DEF KernelArgsSet, now
  <2>2. QED BY <1>1, <2>1
<1> HIDE DEF now, ip
<1>3. D \in SUBSET Range(KeyOrder)
  BY KeysAssumption
<1>4. F = [key \in D |-> F[key]]
  OBVIOUS
<1>5. StaticIps = {} => D = Keys(kernel_args) /\ F = now
  <2>1. ASSUME StaticIps = {} PROVE F = [key \in Keys(kernel_args) |-> now[key]]
    BY <2>1
  <2>2. QED BY <1>1, <2>1
<1>6. StaticIps # {} => D = Keys(kernel_args) \cup {"ip"} /\ F["ip"] = ip
  OBVIOUS
<1>7. \A key \in Keys(kernel_args) \ {"ip"} : F[key] = now[key]
  OBVIOUS
<1> HIDE DEF D, F
<1>8. /\ Keys(Display(F)) = D /\ parse_kernel_args(Display(F)) = F
      /\ Range(Display(F)) = Tokens(D, F)
  BY <1>3, <1>4, ParseDisplay
<1>9. QED BY <1>2, <1>5, <1>6, <1>7, <1>8 DEF now, ip

User == parse_kernel_args(given.args)
Now == parse_kernel_args(kernel_args)

\* The arguments are the caller's, apart from ip=: this one appears when an
\* interface comes to have an address, and is that address once start() has set
\* the arguments, which then have one value for every key.
ArgsInv ==
    /\ Keys(kernel_args) \subseteq Range(KeyOrder)
    /\ Keys(given.args) \subseteq Keys(kernel_args)
    /\ \A key \in Keys(kernel_args) \ {"ip"} : key \in Keys(given.args) /\ Now[key] = User[key]
    /\ StaticIps = {} => Keys(kernel_args) = Keys(given.args) /\ Now = User
    /\ pc \in {"interfaces", "up"} /\ StaticIps # {} =>
          /\ "ip" \in Keys(kernel_args)
          /\ Now["ip"] = ip_boot_param(ifaces[StaticIpInterface].static.ip)
    /\ pc \in {"interfaces", "up"} => Range(kernel_args) = Tokens(Keys(kernel_args), Now)

\* What validation has found of the interfaces that were given.
ValidInv ==
    pc \in {"network", "args", "interfaces", "up"} /\ ~given.unchecked =>
       \A i \in 1..Len(given.ifaces) :
          /\ OneKind(given.ifaces[i])
          /\ given.ifaces[i].cni # None \/ HasStaticIp(given.ifaces[i]) =>
                Len(given.ifaces) = 1 /\ "ip" \notin Keys(given.args)
          /\ HasStaticIp(given.ifaces[i]) => Len(given.ifaces[i].static.ip.nameservers) <= 2

\* An address that an interface has is not taken away.
LEMMA SetupAddresses ==
    ASSUME IInv, SetupNetworkOk
    PROVE  StaticIps' = {} => StaticIps = {}
<1> SUFFICES ASSUME NEW i \in StaticIps PROVE i \in StaticIps'
  OBVIOUS
<1>1. DOMAIN ifaces = 1..Len(ifaces) /\ DOMAIN ifaces' = 1..Len(ifaces)
  <2>1. ifaces \in Seq(Iface) /\ ifaces' \in Seq(Iface) /\ Len(ifaces') = Len(ifaces)
    BY SetupFacts DEF IInv
  <2>2. QED BY <2>1, LenProperties
<1>2. i \in 1..Len(ifaces) /\ HasStaticIp(ifaces[i])
  BY <1>1 DEF StaticIps
<1>3. ifaces'[i].static = ifaces[i].static
  BY <1>2, SetupFacts DEF HasStaticIp
<1>4. HasStaticIp(ifaces'[i])
  BY <1>2, <1>3 DEF HasStaticIp
<1>5. QED BY <1>1, <1>2, <1>4 DEF StaticIps

\* The parts of the step that set the arguments.
LEMMA ArgsStep ==
    ASSUME ArgsInv, kernel_args' = KernelArgsSet, UNCHANGED <<given, ifaces>>
    PROVE  ArgsInv'
<1>1. StaticIps' = StaticIps /\ StaticIpInterface' = StaticIpInterface
  BY DEF StaticIps, StaticIpInterface, HasStaticIp
<1>2. PICK ip : ip = ip_boot_param(ifaces[StaticIpInterface].static.ip)
  OBVIOUS
<1>3. ip = ip_boot_param(ifaces[StaticIpInterface].static.ip)'
  BY <1>1, <1>2 DEF ip_boot_param
<1>4. Keys(kernel_args) \subseteq Range(KeyOrder) /\ "ip" \in Range(KeyOrder)
  BY KeysAssumption DEF ArgsInv
<1>5. User' = User /\ Keys(given.args)' = Keys(given.args)
  BY DEF User, Keys, parse_kernel_args
<1>6. PICK K : K = Keys(kernel_args')
  OBVIOUS
<1>7. /\ StaticIps = {} => K = Keys(kernel_args) /\ Now' = Now
      /\ StaticIps # {} => K = Keys(kernel_args) \cup {"ip"} /\ Now'["ip"] = ip
      /\ \A key \in Keys(kernel_args) \ {"ip"} : Now'[key] = Now[key]
      /\ Range(kernel_args') = Tokens(K, Now')
  <2>1. Now' = parse_kernel_args(KernelArgsSet) /\ K = Keys(KernelArgsSet)
    BY <1>6 DEF Now
  <2>2. QED BY <1>2, <1>4, <2>1, ArgsSet DEF Now
<1>8. QED BY <1>1, <1>3, <1>4, <1>5, <1>6, <1>7 DEF ArgsInv

\* A step that leaves the arguments alone, and takes no address away.
LEMMA ArgsKept ==
    ASSUME ArgsInv, UNCHANGED <<given, kernel_args>>,
           StaticIps' = {} => StaticIps = {},
           pc' \in {"interfaces", "up"} => pc \in {"interfaces", "up"} /\ UNCHANGED ifaces
    PROVE  ArgsInv'
<1>1. Now' = Now /\ User' = User
  BY DEF Now, User
<1>2. Keys(kernel_args)' = Keys(kernel_args) /\ Keys(given.args)' = Keys(given.args)
  OBVIOUS
<1>3. ASSUME pc' \in {"interfaces", "up"}, StaticIps' # {}
      PROVE  /\ "ip" \in Keys(kernel_args)
             /\ Now["ip"] = ip_boot_param(ifaces[StaticIpInterface].static.ip)'
  <2>1. pc \in {"interfaces", "up"} /\ ifaces' = ifaces
    BY <1>3
  <2>2. StaticIps' = StaticIps /\ StaticIpInterface' = StaticIpInterface
    BY <2>1 DEF StaticIps, StaticIpInterface, HasStaticIp
  <2>3. ip_boot_param(ifaces[StaticIpInterface].static.ip)' =
           ip_boot_param(ifaces[StaticIpInterface].static.ip)
    BY <2>1, <2>2 DEF ip_boot_param
  <2>4. StaticIps # {}
    BY <1>3, <2>2
  <2>5. QED BY <2>1, <2>3, <2>4 DEF ArgsInv
<1>4. QED BY <1>1, <1>2, <1>3 DEF ArgsInv

\* Every step keeps the relation of the arguments to the caller's.
LEMMA StepArgs == IInv /\ ArgsInv /\ [Next]_vars => ArgsInv'
<1> SUFFICES ASSUME IInv, ArgsInv, [Next]_vars PROVE ArgsInv'
  OBVIOUS
<1>1. CASE CallSetupNetwork
  <2>1. pc' = "new" /\ SetupNetworkOk /\ UNCHANGED <<given, kernel_args>>
    BY <1>1 DEF CallSetupNetwork
  <2>2. QED BY <2>1, SetupAddresses, ArgsKept
<1>2. CASE CallSetupKernelArgs
  BY <1>2, ArgsStep DEF CallSetupKernelArgs
<1>3. CASE SetupNetwork
  <2>1. pc' = "args" /\ SetupNetworkOk /\ UNCHANGED <<given, kernel_args>>
    BY <1>3 DEF SetupNetwork, Goto
  <2>2. QED BY <2>1, SetupAddresses, ArgsKept
<1>4. CASE SetupKernelArgs
  BY <1>4, ArgsStep DEF SetupKernelArgs, Goto
<1>5. CASE Validate \/ ConversionErr \/ CreateNetworkInterface \/ SetMmdsConfig \/ StartErr
           \/ UNCHANGED vars
  <2>1. /\ UNCHANGED <<given, ifaces, kernel_args>>
        /\ pc' \in {"interfaces", "up"} => pc \in {"interfaces", "up"}
    BY <1>5 DEF Validate, ConversionErr, CreateNetworkInterface, SetMmdsConfig, StartErr,
                Goto, vars
  <2>2. StaticIps' = StaticIps
    BY <2>1 DEF StaticIps, HasStaticIp
  <2>3. QED BY <2>1, <2>2, ArgsKept
<1>6. QED BY <1>1, <1>2, <1>3, <1>4, <1>5 DEF Next

\* A Machine as it is made has the caller's arguments.
LEMMA InitArgs == Init => ArgsInv
<1> SUFFICES ASSUME Init PROVE ArgsInv
  OBVIOUS
<1>1. given \in Config /\ kernel_args = given.args /\ pc = "new"
  BY DEF Init
<1>2. Keys(kernel_args) \subseteq Range(KeyOrder)
  BY <1>1, KeysAssumption
<1>3. QED BY <1>1, <1>2 DEF ArgsInv, Now, User

\* What the validation finds, it finds of the interfaces that were given.
LEMMA ValidatedInterfaces ==
    ASSUME IInv, ArgsInv, validate_network, NEW i \in 1..Len(given.ifaces)
    PROVE  /\ OneKind(given.ifaces[i])
           /\ given.ifaces[i].cni # None \/ HasStaticIp(given.ifaces[i]) =>
                 Len(given.ifaces) = 1 /\ "ip" \notin Keys(given.args)
           /\ HasStaticIp(given.ifaces[i]) => Len(given.ifaces[i].static.ip.nameservers) <= 2
<1>1. i \in DOMAIN ifaces /\ i \in 1..Len(ifaces) /\ Len(ifaces) = Len(given.ifaces)
  BY SMTT(40) DEF IInv
<1>2. ValidInterface(ifaces[i])
  BY <1>1 DEF validate_network
<1>3. ifaces[i].static = given.ifaces[i].static /\ ifaces[i].cni = given.ifaces[i].cni
  <2>1. Kept(i)
    BY <1>1 DEF IInv
  <2>2. QED BY <1>1, <2>1, ValidatedGiven DEF Kept
<1>4. Keys(given.args) \subseteq Keys(kernel_args)
  BY DEF ArgsInv
<1>5. HasStaticIp(ifaces[i]) <=> HasStaticIp(given.ifaces[i])
  BY <1>3 DEF HasStaticIp
<1>6. OneKind(given.ifaces[i])
  BY <1>2, <1>3 DEF ValidInterface, OneKind
<1>7. given.ifaces[i].cni # None \/ HasStaticIp(given.ifaces[i]) =>
         Len(given.ifaces) = 1 /\ "ip" \notin Keys(given.args)
  BY <1>1, <1>2, <1>3, <1>4, <1>5 DEF ValidInterface
<1>8. HasStaticIp(given.ifaces[i]) => Len(given.ifaces[i].static.ip.nameservers) <= 2
  BY <1>2, <1>3, <1>5 DEF ValidInterface
<1>9. QED BY <1>6, <1>7, <1>8

\* Every step keeps what validation has found.
LEMMA StepValid == IInv /\ ArgsInv /\ ValidInv /\ [Next]_vars => ValidInv'
<1> SUFFICES ASSUME IInv, ArgsInv, ValidInv, [Next]_vars PROVE ValidInv'
  OBVIOUS
<1>1. CASE Validate
  <2>1. UNCHANGED given /\ (given.unchecked \/ validate_network)
    BY <1>1 DEF Validate, Goto
  <2>2. QED BY <2>1, ValidatedInterfaces DEF ValidInv
<1>2. CASE CallSetupNetwork \/ CallSetupKernelArgs \/ ConversionErr \/ StartErr
  <2>1. pc' \in {"new", "failed"}
    BY <1>2 DEF CallSetupNetwork, CallSetupKernelArgs, ConversionErr, StartErr, Goto
  <2>2. QED BY <2>1 DEF ValidInv
<1>3. CASE SetupNetwork \/ SetupKernelArgs \/ CreateNetworkInterface \/ SetMmdsConfig
           \/ UNCHANGED vars
  <2>1. /\ UNCHANGED given
        /\ pc' # pc => pc \in {"network", "args", "interfaces", "up"}
    BY <1>3 DEF SetupNetwork, SetupKernelArgs, CreateNetworkInterface, SetMmdsConfig, Goto, vars
  <2>2. QED BY <2>1 DEF ValidInv
<1>4. QED BY <1>1, <1>2, <1>3 DEF Next

\* The first interface with an address.
LEMMA FoundStatic ==
    ASSUME ifaces \in Seq(Iface), StaticIps # {}
    PROVE  StaticIpInterface \in 1..Len(ifaces) /\ HasStaticIp(ifaces[StaticIpInterface])
<1>1. StaticIps \in SUBSET Nat
  BY SMTT(40) DEF StaticIps
<1>2. \E x \in StaticIps : \A y \in StaticIps : x <= y
  BY <1>1, Least
<1>3. StaticIpInterface \in StaticIps
  BY <1>2 DEF StaticIpInterface
<1>4. DOMAIN ifaces = 1..Len(ifaces)
  BY LenProperties
<1>5. QED BY <1>3, <1>4 DEF StaticIps

-----------------------------------------------------------------------------
(* The conversion of a CNI result                                          *)

\* A list of which one element is kept: there is one place with such an
\* element, and it is the one that is kept.
LEMMA FilterOne ==
    ASSUME NEW S, NEW A, NEW s \in Seq(S)
    PROVE  /\ Len(Filter(s, A)) = 1 <=> Cardinality(Places(s, A)) = 1
           /\ Len(Filter(s, A)) = 1 => \E i \in Places(s, A) : Filter(s, A)[1] = s[i]
<1>1. PICK f \in Seq(S) : f = Filter(s, A)
  BY FilterType
<1>2. Cardinality(Places(s, A)) = Len(f)
  BY <1>1, FilterCount
<1>3. Range(f) = Range(s) \cap A
  BY <1>1, FilterRange
<1>4. ASSUME Len(f) = 1 PROVE \E i \in Places(s, A) : f[1] = s[i]
  <2>1. f[1] \in Range(f)
    BY <1>4, SMTT(40) DEF Range
  <2>2. PICK i \in DOMAIN s : f[1] = s[i]
    BY <1>3, <2>1 DEF Range
  <2>3. DOMAIN s = 1..Len(s)
    BY LenProperties
  <2>4. i \in Places(s, A)
    BY <1>3, <2>1, <2>2, <2>3 DEF Places
  <2>5. QED BY <2>2, <2>4
<1>5. QED BY <1>1, <1>2, <1>4

\* A set with one element.
LEMMA Single ==
    ASSUME NEW S, Cardinality(S) = 1, IsFiniteSet(S), NEW x \in S
    PROVE  S = {x}
<1>1. PICK y : S = {y}
  BY FS_Singleton
<1>2. QED BY <1>1

\* static_network_conf_from takes exactly the results without ambiguity, and
\* takes the device and the address of the VM.
LEMMA ConversionFacts ==
    ASSUME NEW r \in CniResult
    PROVE  LET conf == static_network_conf_from(r)
           IN /\ conf # None <=> Unambiguous(r)
              /\ conf # None =>
                    \E i \in VmInterface(r) : \E k \in AddressOf(r, i) :
                       /\ conf.ip.addr = r.ips[k].addr
                       /\ conf.host_dev_name = r.interfaces[i].name
<1> DEFINE Dev == [name : STRING, sandbox : STRING]
           Ip == [interface : Nat, addr : STRING]
<1>1. PICK ds \in Seq(Dev) : ds = r.interfaces
  BY ResultAssumption DEF Result
<1>2. PICK as \in Seq(Ip) : as = r.ips
  BY ResultAssumption DEF Result
<1>3. DOMAIN ds = 1..Len(ds) /\ DOMAIN as = 1..Len(as)
  BY LenProperties
<1> HIDE DEF Dev, Ip
<1> DEFINE A == {f \in Range(ds) : f.sandbox = VmId}
           vm == Filter(ds, A)
<1>4. filter_by_sandbox(r) = vm /\ VmInterface(r) = Places(ds, A)
  <2>1. filter_by_sandbox(r) = vm
    BY <1>1 DEF filter_by_sandbox
  <2>2. Places(ds, A) = {i \in 1..Len(ds) : ds[i].sandbox = VmId}
    BY <1>3 DEF Places, Range
  <2>3. QED BY <1>1, <1>3, <2>1, <2>2 DEF VmInterface
<1> HIDE DEF A
<1>5. /\ Len(vm) = 1 <=> Cardinality(VmInterface(r)) = 1
      /\ Len(vm) = 1 => \E i \in VmInterface(r) : vm[1] = ds[i]
  BY <1>4, FilterOne
<1>6. IsFiniteSet(VmInterface(r))
  BY <1>4, FilterCount
<1> HIDE DEF vm
<1>7. ASSUME Len(vm) # 1
      PROVE  static_network_conf_from(r) = None /\ ~Unambiguous(r)
  BY <1>4, <1>5, <1>7 DEF static_network_conf_from, Unambiguous
<1>8. ASSUME Len(vm) = 1
      PROVE  /\ static_network_conf_from(r) # None <=> Unambiguous(r)
             /\ static_network_conf_from(r) # None =>
                   \E i \in VmInterface(r) : \E k \in AddressOf(r, i) :
                      /\ static_network_conf_from(r).ip.addr = as[k].addr
                      /\ static_network_conf_from(r).host_dev_name = ds[i].name
  <2>1. PICK i \in VmInterface(r) : vm[1] = ds[i]
    BY <1>5, <1>8
  <2>2. VmInterface(r) = {i}
    BY <1>5, <1>6, <1>8, <2>1, Single
  <2>3. i \in DOMAIN ds /\ \A j \in DOMAIN ds : ds[j].sandbox = VmId <=> j = i
    BY <1>1, <2>2 DEF VmInterface
  <2> DEFINE B == {f \in Range(ds) : f.sandbox # VmId /\ f.name = vm[1].name}
             C == {ip \in Range(as) : ip.interface \in DOMAIN ds /\ ds[ip.interface] = vm[1]}
             tap == Filter(ds, B)
             ips == Filter(as, C)
  <2>4. tap = ifaces_with_name(r, vm[1].name) /\ ips = interface_ips(r, vm[1])
    BY <1>1, <1>2 DEF ifaces_with_name, interface_ips
  <2>5. TapOf(r, i) = Places(ds, B)
    <3>1. Places(ds, B) = {j \in 1..Len(ds) : ds[j].sandbox # VmId /\ ds[j].name = ds[i].name}
      BY <1>3, <2>1 DEF Places, Range
    <3>2. QED BY <1>1, <1>3, <2>2, <2>3, <3>1 DEF TapOf
  <2>6. AddressOf(r, i) = Places(as, C)
    <3>1. \A k \in DOMAIN as : as[k] \in C <=> as[k].interface = i
      <4>1. \A k \in DOMAIN as : as[k] \in C <=>
               as[k].interface \in DOMAIN ds /\ ds[as[k].interface] = vm[1]
        BY DEF Range
      <4> HIDE DEF C
      <4>2. QED BY <2>1, <2>3, <4>1
    <3> HIDE DEF C
    <3>2. QED BY <1>2, <1>3, <3>1 DEF AddressOf, Places
  <2>7. \A f \in B : f.name = vm[1].name
    OBVIOUS
  <2> HIDE DEF B, C
  <2>8. /\ Len(tap) = 1 <=> Cardinality(TapOf(r, i)) = 1
        /\ Len(tap) = 1 => \E j \in TapOf(r, i) : tap[1] = ds[j]
    BY <2>5, FilterOne
  <2>9. /\ Len(ips) = 1 <=> Cardinality(AddressOf(r, i)) = 1
        /\ Len(ips) = 1 => \E k \in AddressOf(r, i) : ips[1] = as[k]
    BY <2>6, FilterOne
  <2>10. Unambiguous(r) <=> Len(tap) = 1 /\ Len(ips) = 1
    BY <1>5, <1>8, <2>2, <2>8, <2>9 DEF Unambiguous
  <2> HIDE DEF tap, ips
  <2>11. CASE ~(Len(tap) = 1 /\ Len(ips) = 1)
    <3>1. static_network_conf_from(r) = None
      BY <1>4, <2>4, <2>11 DEF static_network_conf_from
    <3>2. QED BY <2>10, <2>11, <3>1
  <2>12. CASE Len(tap) = 1 /\ Len(ips) = 1
    <3>1. PICK names : static_network_conf_from(r) =
             [host_dev_name |-> tap[1].name,
              ip |-> [addr |-> ips[1].addr, nameservers |-> names]]
      BY <1>4, <1>8, <2>4, <2>12 DEF static_network_conf_from
    <3>2. static_network_conf_from(r) # None
      <4>1. DOMAIN static_network_conf_from(r) = {"host_dev_name", "ip"}
        BY <3>1
      <4>2. DOMAIN None = {}
        BY SMTT(40) DEF None
      <4>3. QED BY <4>1, <4>2
    <3>3. /\ static_network_conf_from(r).host_dev_name = tap[1].name
          /\ static_network_conf_from(r).ip.addr = ips[1].addr
      BY <3>1, SMTT(40)
    <3>4. tap[1].name = ds[i].name
      <4>1. PICK j \in Places(ds, B) : tap[1] = ds[j]
        BY <2>5, <2>8, <2>12
      <4>2. QED BY <2>1, <2>7, <4>1 DEF Places
    <3>5. PICK k \in AddressOf(r, i) : ips[1] = as[k]
      BY <2>9, <2>12
    <3>6. QED BY <2>10, <2>12, <3>2, <3>3, <3>4, <3>5
  <2>13. QED BY <2>11, <2>12
<1>9. CASE Len(vm) = 1
  BY <1>1, <1>2, <1>8, <1>9
<1>10. CASE Len(vm) # 1
  BY <1>7, <1>10
<1>11. QED BY <1>9, <1>10

\* Without a call before it, start() converts the result for an interface as it
\* was given, and the interface has what the conversion makes of it.
ConversionInv ==
    /\ result \in {None} \cup CniResult
    /\ calls \in Nat
    /\ calls = 0 /\ pc \in {"new", "network"} => result = None /\ ifaces = given.ifaces
    /\ calls = 0 /\ result # None /\ given.ifaces[CniInterface].static = None =>
          ifaces[CniInterface].static = static_network_conf_from(result)

\* setup_network leaves the CNI configurations where they are.
LEMMA SameCni ==
    ASSUME IInv, SetupNetworkOk
    PROVE  CniInterface' = CniInterface /\ CniInterfaces' = CniInterfaces
<1>1. CniInterfaces' = CniInterfaces
  <2>1. ifaces \in Seq(Iface) /\ ifaces' \in Seq(Iface) /\ Len(ifaces') = Len(ifaces)
    BY SetupFacts DEF IInv
  <2>2. DOMAIN ifaces = 1..Len(ifaces) /\ DOMAIN ifaces' = 1..Len(ifaces)
    BY <2>1, LenProperties
  <2>3. \A i \in 1..Len(ifaces) : ifaces'[i].cni = ifaces[i].cni
    BY SetupFacts
  <2>4. QED BY <2>2, <2>3 DEF CniInterfaces
<1>2. QED BY <1>1 DEF CniInterface

\* Every step keeps the relation of an interface to the result.
LEMMA StepConversion == IInv /\ ConversionInv /\ [Next]_vars => ConversionInv'
<1> SUFFICES ASSUME IInv, ConversionInv, [Next]_vars PROVE ConversionInv'
  OBVIOUS
<1>1. CASE CallSetupNetwork
  <2>1. calls' = calls + 1 /\ SetupNetworkOk
    BY <1>1 DEF CallSetupNetwork
  <2>2. calls' \in Nat /\ calls' # 0
    BY <2>1, SMTT(40) DEF ConversionInv
  <2>3. result' \in {None} \cup CniResult
    BY <2>1, SetupFacts DEF ConversionInv
  <2>4. QED BY <2>2, <2>3 DEF ConversionInv
<1>2. CASE CallSetupKernelArgs
  <2>1. calls' = calls + 1 /\ UNCHANGED result
    BY <1>2 DEF CallSetupKernelArgs
  <2>2. calls' \in Nat /\ calls' # 0
    BY <2>1, SMTT(40) DEF ConversionInv
  <2>3. QED BY <2>1, <2>2 DEF ConversionInv
<1>3. CASE SetupNetwork
  <2>1. pc = "network" /\ pc' = "args" /\ SetupNetworkOk /\ UNCHANGED <<given, calls>>
    BY <1>3 DEF SetupNetwork, Goto
  <2>2. PICK c : c = CniInterface /\ c = CniInterface'
    BY <2>1, SameCni
  <2>3. calls = 0 => result = None /\ ifaces = given.ifaces
    BY <2>1 DEF ConversionInv
  <2>4. \/ UNCHANGED <<ifaces, result>>
        \/ /\ result' \in CniResult
           /\ ifaces[c].static = None => ifaces'[c].static = static_network_conf_from(result')
    BY <2>1, <2>2, SetupFacts
  <2>5. calls = 0 /\ result' # None /\ given.ifaces[c].static = None =>
           ifaces'[c].static = static_network_conf_from(result')
    BY <2>3, <2>4
  <2>6. QED BY <2>1, <2>2, <2>4, <2>5 DEF ConversionInv
<1>4. CASE ConversionErr
  <2>1. /\ pc = "network" /\ pc' = "failed" /\ UNCHANGED <<given, calls, ifaces>>
        /\ ifaces[CniInterface].static = None
        /\ result' \in CniResult /\ static_network_conf_from(result') = None
    BY <1>4 DEF ConversionErr, Goto
  <2>2. CniInterface' = CniInterface
    BY <2>1 DEF CniInterface, CniInterfaces
  <2>3. QED BY <2>1, <2>2 DEF ConversionInv
<1>5. CASE Validate \/ SetupKernelArgs \/ CreateNetworkInterface \/ SetMmdsConfig \/ StartErr
           \/ UNCHANGED vars
  <2>1. /\ UNCHANGED <<given, calls, ifaces, result>>
        /\ pc' \in {"new", "network"} => pc \in {"new", "network"}
    BY <1>5 DEF Validate, SetupKernelArgs, CreateNetworkInterface, SetMmdsConfig, StartErr,
                Goto, vars
  <2>2. CniInterface' = CniInterface
    BY <2>1 DEF CniInterface, CniInterfaces
  <2>3. QED BY <2>1, <2>2 DEF ConversionInv
<1>6. QED BY <1>1, <1>2, <1>3, <1>4, <1>5 DEF Next

\* static_network_conf_from takes exactly the CNI results that say without
\* ambiguity which tap and which address are the VM's, and takes those, for
\* results with any number of devices and addresses.
THEOREM ConvertedExactly == Spec => []ConversionExact
<1>1. Init => IInv /\ ConversionInv
  <2>1. Init => ConversionInv
    BY SMTT(40) DEF Init, ConversionInv
  <2>2. QED BY <2>1, InitInv
<1>2. (IInv /\ ConversionInv) /\ [Next]_vars => (IInv /\ ConversionInv)'
  BY StepInv, StepConversion
<1>3. ConversionInv => ConversionExact
  BY ConversionFacts DEF ConversionInv, ConversionExact
<1>4. QED BY <1>1, <1>2, <1>3, PTL DEF Spec

-----------------------------------------------------------------------------
(* The boot arguments                                                      *)

\* The fields for name servers in what ip_boot_param writes.
LEMMA BootParam ==
    ASSUME NEW S, NEW ip, ip.nameservers \in Seq(S)
    PROVE  <<"ip", ip_boot_param(ip)>> = IpToken(ip.addr, ip.nameservers)
<1> DEFINE names == ip.nameservers
<1>1. Len(names) \in Nat /\ DOMAIN names = 1..Len(names)
  BY LenProperties
<1>2. \A n \in Nat : (1 \in 1..n <=> n >= 1) /\ (2 \in 1..n <=> n >= 2)
  BY SMTT(40)
<1>3. (1 \in DOMAIN names <=> Len(names) >= 1) /\ (2 \in DOMAIN names <=> Len(names) >= 2)
  BY <1>1, <1>2
<1>4. /\ NameServer(names, 1) = IF Len(names) >= 1 THEN names[1] ELSE ""
      /\ NameServer(names, 2) = IF Len(names) >= 2 THEN names[2] ELSE ""
  BY <1>3 DEF NameServer
<1>5. QED BY <1>4 DEF ip_boot_param, IpToken

\* static_network_conf_from keeps the name servers those fields have room for.
LEMMA FirstTwo ==
    ASSUME NEW S, NEW names \in Seq(S), NEW cut,
           cut = SubSeq(names, 1, IF Len(names) > 2 THEN 2 ELSE Len(names))
    PROVE  cut \in Seq(S) /\ \A addr : IpToken(addr, cut) = IpToken(addr, names)
<1>1. PICK n \in Nat : n = Len(names) /\ DOMAIN names = 1..n
  BY LenProperties
<1>2. PICK k \in Nat : /\ k = (IF n > 2 THEN 2 ELSE n) /\ k <= n
                       /\ 1 \in 1..k <=> 1 \in 1..n
                       /\ 2 \in 1..k <=> 2 \in 1..n
  BY SMTT(40)
<1>3. cut \in Seq(S) /\ DOMAIN cut = 1..k /\ \A i \in 1..k : cut[i] = names[i]
  BY <1>1, <1>2, SMTT(40)
<1>4. /\ NameServer(cut, 1) = NameServer(names, 1)
      /\ NameServer(cut, 2) = NameServer(names, 2)
  BY <1>1, <1>2, <1>3 DEF NameServer
<1>5. QED BY <1>3, <1>4 DEF IpToken

\* The ip= token for a CNI result that can be converted.
LEMMA ConversionToken ==
    ASSUME NEW r \in CniResult, static_network_conf_from(r) # None
    PROVE  LET ip == static_network_conf_from(r).ip
           IN ip # None /\ <<"ip", ip_boot_param(ip)>> = IpToken(ip.addr, r.nameservers)
<1>1. PICK names \in Seq(STRING) : names = r.nameservers
  BY ResultAssumption DEF Result
<1>2. PICK cut : cut = SubSeq(names, 1, IF Len(names) > 2 THEN 2 ELSE Len(names))
  OBVIOUS
<1>3. PICK addr, dev : static_network_conf_from(r) =
         [host_dev_name |-> dev, ip |-> [addr |-> addr, nameservers |-> cut]]
  BY <1>1, <1>2 DEF static_network_conf_from
<1>4. PICK ip : ip = [addr |-> addr, nameservers |-> cut]
  OBVIOUS
<1>5. ip # None
  <2>1. DOMAIN ip = {"addr", "nameservers"}
    BY <1>4
  <2>2. DOMAIN None = {}
    BY SMTT(40) DEF None
  <2>3. QED BY <2>1, <2>2
<1>6. static_network_conf_from(r).ip = ip /\ ip.nameservers = cut
  BY <1>3, <1>4, SMTT(40)
<1>7. cut \in Seq(STRING) /\ IpToken(ip.addr, cut) = IpToken(ip.addr, names)
  BY <1>2, FirstTwo
<1>8. <<"ip", ip_boot_param(ip)>> = IpToken(ip.addr, cut)
  <2>1. ip.nameservers \in Seq(STRING)
    BY <1>6, <1>7
  <2>2. <<"ip", ip_boot_param(ip)>> = IpToken(ip.addr, ip.nameservers)
    BY <2>1, BootParam
  <2>3. QED BY <1>6, <2>2
<1>9. QED BY <1>1, <1>5, <1>6, <1>7, <1>8

\* A guest with a CNI interface has been given a result.
ResultInv ==
    pc \in {"args", "interfaces", "up"} /\ CniInterfaces # {} => result \in CniResult

\* Every step keeps the result.
LEMMA StepResult == IInv /\ ResultInv /\ [Next]_vars => ResultInv'
<1> SUFFICES ASSUME IInv, ResultInv, [Next]_vars PROVE ResultInv'
  OBVIOUS
<1>1. CASE SetupNetwork
  <2>1. SetupNetworkOk
    BY <1>1 DEF SetupNetwork
  <2>2. CniInterfaces' = CniInterfaces
    BY <2>1, SameCni
  <2>3. CniInterfaces # {} => result' \in CniResult
    BY <2>1 DEF SetupNetworkOk
  <2>4. QED BY <2>2, <2>3 DEF ResultInv
<1>2. CASE CallSetupNetwork \/ CallSetupKernelArgs \/ Validate \/ ConversionErr \/ StartErr
  <2>1. pc' \in {"new", "network", "failed"}
    BY <1>2 DEF CallSetupNetwork, CallSetupKernelArgs, Validate, ConversionErr, StartErr, Goto
  <2>2. QED BY <2>1 DEF ResultInv
<1>3. CASE SetupKernelArgs \/ CreateNetworkInterface \/ SetMmdsConfig \/ UNCHANGED vars
  <2>1. /\ UNCHANGED <<ifaces, result>>
        /\ pc' # pc => pc \in {"args", "interfaces", "up"}
    BY <1>3 DEF SetupKernelArgs, CreateNetworkInterface, SetMmdsConfig, Goto, vars
  <2>2. CniInterfaces' = CniInterfaces
    BY <2>1 DEF CniInterfaces
  <2>3. QED BY <2>1, <2>2 DEF ResultInv
<1>4. QED BY <1>1, <1>2, <1>3 DEF Next

\* The list of arguments that ArgsInv describes, by its tokens.
LEMMA TokenFacts ==
    ASSUME NEW D, NEW F, NEW U
    PROVE  /\ \A key \in D : {t \in Tokens(D, F) : t[1] = key} = {<<key, F[key]>>}
           /\ D \ U = {} => {t \in Tokens(D, F) : t[1] \notin U} = {}
           /\ \A key \in D : D \ U = {key} =>
                 {t \in Tokens(D, F) : t[1] \notin U} = {<<key, F[key]>>}
<1>1. \A key : <<key, F[key]>>[1] = key
  BY SMTT(40)
<1>2. \A t \in Tokens(D, F) : t[1] \in D /\ t = <<t[1], F[t[1]]>>
  <2>1. SUFFICES ASSUME NEW key \in D, NEW t, t = <<key, F[key]>>
                 PROVE  t[1] \in D /\ t = <<t[1], F[t[1]]>>
    BY DEF Tokens
  <2>2. t[1] = key
    BY <1>1, <2>1
  <2>3. QED BY <2>1, <2>2
<1>3. \A key \in D : <<key, F[key]>> \in Tokens(D, F)
  BY DEF Tokens
<1>4. ASSUME NEW key \in D
      PROVE  {t \in Tokens(D, F) : t[1] = key} = {<<key, F[key]>>}
  <2>1. \A t \in Tokens(D, F) : t[1] = key => t = <<key, F[key]>>
    BY <1>2
  <2>2. <<key, F[key]>> \in Tokens(D, F) /\ <<key, F[key]>>[1] = key
    BY <1>1, <1>3
  <2>3. QED BY <2>1, <2>2
<1>5. ASSUME D \ U = {}
      PROVE  {t \in Tokens(D, F) : t[1] \notin U} = {}
  BY <1>2, <1>5
<1>6. ASSUME NEW key \in D, D \ U = {key}
      PROVE  {t \in Tokens(D, F) : t[1] \notin U} = {<<key, F[key]>>}
  <2>1. \A k \in D : k \notin U <=> k = key
    BY <1>6
  <2>2. {t \in Tokens(D, F) : t[1] \notin U} = {t \in Tokens(D, F) : t[1] = key}
    BY <1>2, <2>1
  <2>3. QED BY <1>4, <2>2
<1>7. QED BY <1>4, <1>5, <1>6

\* In a state of the invariants the arguments are those that were meant.
LEMMA InvBootArgs == IInv /\ ArgsInv /\ ValidInv /\ ResultInv => BootArgsAsConfigured
<1> DEFINE added == {t \in Range(kernel_args) : t[1] \notin Keys(given.args)}
<1> SUFFICES ASSUME IInv, ArgsInv, ValidInv, ResultInv, Up
    PROVE  /\ \A i \in DOMAIN given.args : LastOfKey(given.args, i) =>
                 {t \in Range(kernel_args) : t[1] = given.args[i][1]} = {given.args[i]}
           /\ \A i \in DOMAIN given.ifaces :
                 /\ given.ifaces[i].cni # None =>
                       \E v \in VmInterface(result) : \E k \in AddressOf(result, v) :
                          added = {IpToken(result.ips[k].addr, result.nameservers)}
                 /\ HasStaticIp(given.ifaces[i]) =>
                       /\ added = {IpToken(given.ifaces[i].static.ip.addr,
                                           given.ifaces[i].static.ip.nameservers)}
                       /\ Len(given.ifaces[i].static.ip.nameservers) <= 2
           /\ added # {} => \E i \in DOMAIN given.ifaces :
                 given.ifaces[i].cni # None \/ HasStaticIp(given.ifaces[i])
  BY DEF BootArgsAsConfigured
<1>1. /\ \A key \in Keys(kernel_args) :
            {t \in Range(kernel_args) : t[1] = key} = {<<key, Now[key]>>}
      /\ Keys(kernel_args) \ Keys(given.args) = {} => added = {}
      /\ \A key \in Keys(kernel_args) : Keys(kernel_args) \ Keys(given.args) = {key} =>
            added = {<<key, Now[key]>>}
  <2>1. PICK D, F, U : D = Keys(kernel_args) /\ F = Now /\ U = Keys(given.args)
    OBVIOUS
  <2>2. Range(kernel_args) = Tokens(D, F)
    BY <2>1 DEF ArgsInv, Up
  <2>3. /\ \A key \in D : {t \in Tokens(D, F) : t[1] = key} = {<<key, F[key]>>}
        /\ D \ U = {} => {t \in Tokens(D, F) : t[1] \notin U} = {}
        /\ \A key \in D : D \ U = {key} =>
              {t \in Tokens(D, F) : t[1] \notin U} = {<<key, F[key]>>}
    BY TokenFacts
  <2>4. added = {t \in Tokens(D, F) : t[1] \notin U}
    BY <2>1, <2>2
  <2> HIDE DEF added
  <2>5. QED BY <2>1, <2>2, <2>3, <2>4
<1>2. pc = "up" /\ ~given.unchecked
  BY DEF Up
<1>3. /\ Len(ifaces) = Len(given.ifaces)
      /\ \A i \in 1..Len(ifaces) : Kept(i) /\ ifaces[i].static = Meant(i)
  BY <1>2 DEF IInv
<1>4. DOMAIN ifaces = 1..Len(ifaces) /\ DOMAIN given.ifaces = 1..Len(ifaces)
  <2>1. given.ifaces \in Seq(NetworkInterface) /\ ifaces \in Seq(Iface)
    BY ConfigAssumption DEF IInv
  <2>2. QED BY <1>3, <2>1, LenProperties
<1>5. \A i \in 1..Len(ifaces) :
         /\ OneKind(given.ifaces[i])
         /\ given.ifaces[i].cni # None \/ HasStaticIp(given.ifaces[i]) =>
               Len(ifaces) = 1 /\ "ip" \notin Keys(given.args)
         /\ HasStaticIp(given.ifaces[i]) => Len(given.ifaces[i].static.ip.nameservers) <= 2
  BY <1>2, <1>3 DEF ValidInv
\* An interface that has an address now was given with it, or with CNI.
<1>6. \A i \in 1..Len(ifaces) : HasStaticIp(ifaces[i]) =>
         Len(ifaces) = 1 /\ "ip" \notin Keys(given.args)
  <2>1. SUFFICES ASSUME NEW i \in 1..Len(ifaces), HasStaticIp(ifaces[i])
                 PROVE  given.ifaces[i].cni # None \/ HasStaticIp(given.ifaces[i])
    BY <1>5
  <2>2. ifaces[i].static = Meant(i)
    BY <1>3
  <2>3. QED BY <2>1, <2>2 DEF Meant, HasStaticIp
<1>7. ASSUME NEW i \in 1..Len(ifaces), HasStaticIp(ifaces[i])
      PROVE  /\ "ip" \in Keys(kernel_args) /\ "ip" \notin Keys(given.args)
             /\ Now["ip"] = ip_boot_param(ifaces[i].static.ip)
  <2>1. StaticIps # {}
    BY <1>4, <1>7 DEF StaticIps
  <2>2. /\ "ip" \in Keys(kernel_args)
        /\ Now["ip"] = ip_boot_param(ifaces[StaticIpInterface].static.ip)
    BY <1>2, <2>1 DEF ArgsInv
  <2>3. StaticIpInterface \in 1..Len(ifaces)
    BY <2>1, FoundStatic DEF IInv
  <2>4. Len(ifaces) = 1 /\ "ip" \notin Keys(given.args)
    BY <1>6, <1>7
  <2>5. StaticIpInterface = i
    BY <2>3, <2>4, SMTT(40)
  <2>6. QED BY <2>2, <2>4, <2>5
\* The caller's arguments, and what is added to them.
<1>8. \A key \in Keys(given.args) : key \in Keys(kernel_args) /\ Now[key] = User[key]
  <2>1. SUFFICES ASSUME NEW key \in Keys(given.args) PROVE Now[key] = User[key]
    BY DEF ArgsInv
  <2>2. CASE StaticIps = {}
    BY <2>2 DEF ArgsInv
  <2>3. CASE StaticIps # {}
    <3>1. "ip" \notin Keys(given.args)
      BY <2>3, <1>4, <1>7 DEF StaticIps
    <3>2. QED BY <3>1 DEF ArgsInv
  <2>4. QED BY <2>2, <2>3
<1>9. ASSUME NEW i \in DOMAIN given.args, LastOfKey(given.args, i)
      PROVE  {t \in Range(kernel_args) : t[1] = given.args[i][1]} = {given.args[i]}
  <2>1. given.args \in Seq(STRING \X STRING)
    BY ConfigAssumption DEF IInv
  <2>2. PICK token \in STRING \X STRING : token = given.args[i]
    BY <2>1, ElementOfSeq, LenProperties
  <2>3. token = <<token[1], token[2]>>
    BY SMTT(40)
  <2>4. token[1] \in Keys(given.args) /\ User[token[1]] = token[2]
    BY <1>9, <2>1, <2>2, ParseLast DEF User
  <2>5. token[1] \in Keys(kernel_args) /\ Now[token[1]] = token[2]
    BY <1>8, <2>4
  <2>6. {t \in Range(kernel_args) : t[1] = token[1]} = {<<token[1], Now[token[1]]>>}
    BY <1>1, <2>5
  <2>7. QED BY <2>2, <2>3, <2>5, <2>6
\* What is added is ip=, if an interface has an address.
<1>10. \A key \in Keys(kernel_args) \ Keys(given.args) : key = "ip" /\ StaticIps # {}
  BY DEF ArgsInv
<1>11. ASSUME NEW i \in 1..Len(ifaces), HasStaticIp(ifaces[i])
       PROVE  added = {<<"ip", ip_boot_param(ifaces[i].static.ip)>>}
  <2>1. Keys(kernel_args) \ Keys(given.args) = {"ip"} /\ "ip" \in Keys(kernel_args)
    BY <1>7, <1>10, <1>11
  <2>2. added = {<<"ip", Now["ip"]>>}
    BY <1>1, <2>1
  <2>3. QED BY <1>7, <1>11, <2>2
<1>12. ASSUME NEW i \in 1..Len(ifaces), given.ifaces[i].cni # None
       PROVE  \E v \in VmInterface(result) : \E k \in AddressOf(result, v) :
                 added = {IpToken(result.ips[k].addr, result.nameservers)}
  <2>1. ifaces[i].cni # None /\ ifaces[i].static = static_network_conf_from(result)
    BY <1>3, <1>12 DEF Kept, Meant
  <2>2. result \in CniResult
    <3>1. CniInterfaces # {}
      BY <1>4, <2>1 DEF CniInterfaces
    <3>2. QED BY <1>2, <3>1 DEF ResultInv
  <2>3. static_network_conf_from(result) # None
    BY <1>2, <2>1 DEF IInv
  <2>4. PICK ip : /\ ip = static_network_conf_from(result).ip /\ ip # None
                  /\ <<"ip", ip_boot_param(ip)>> = IpToken(ip.addr, result.nameservers)
    BY <2>2, <2>3, ConversionToken
  <2>5. \E v \in VmInterface(result) : \E k \in AddressOf(result, v) :
           ip.addr = result.ips[k].addr
    BY <2>2, <2>3, <2>4, ConversionFacts
  <2>6. HasStaticIp(ifaces[i]) /\ ifaces[i].static.ip = ip
    BY <2>1, <2>3, <2>4 DEF HasStaticIp
  <2>7. added = {<<"ip", ip_boot_param(ip)>>}
    BY <1>11, <2>6
  <2> HIDE DEF added
  <2>8. QED BY <2>4, <2>5, <2>7
<1>13. ASSUME NEW i \in 1..Len(ifaces), HasStaticIp(given.ifaces[i])
       PROVE  /\ added = {IpToken(given.ifaces[i].static.ip.addr,
                                  given.ifaces[i].static.ip.nameservers)}
              /\ Len(given.ifaces[i].static.ip.nameservers) <= 2
  <2>1. given.ifaces[i].cni = None
    BY <1>5, <1>13 DEF OneKind, HasStaticIp
  <2>2. ifaces[i].static = given.ifaces[i].static
    BY <1>3, <2>1 DEF Meant
  <2>3. PICK ip : ip = given.ifaces[i].static.ip
    OBVIOUS
  <2>4. added = {<<"ip", ip_boot_param(ip)>>}
    <3>1. HasStaticIp(ifaces[i]) /\ ifaces[i].static.ip = ip
      BY <1>13, <2>2, <2>3 DEF HasStaticIp
    <3>2. QED BY <1>11, <3>1
  <2>5. ip.nameservers \in Seq(STRING)
    <3>1. given.ifaces \in Seq(NetworkInterface) /\ i \in 1..Len(given.ifaces)
      BY <1>3, ConfigAssumption DEF IInv
    <3>2. PICK f \in NetworkInterface : f = given.ifaces[i]
      BY <3>1, ElementOfSeq
    <3>3. f.static \in StaticConfiguration /\ f.static # None /\ f.static.ip # None
      BY <1>13, <3>2 DEF NetworkInterface, HasStaticIp
    <3>4. PICK g \in [host_dev_name : STRING,
                      ip : {None} \cup [addr : STRING, nameservers : Seq(STRING)]] : g = f.static
      BY <3>3 DEF StaticConfiguration
    <3>5. PICK h \in [addr : STRING, nameservers : Seq(STRING)] : h = g.ip
      BY <3>3, <3>4
    <3>6. h.nameservers \in Seq(STRING)
      OBVIOUS
    <3>7. QED BY <2>3, <3>2, <3>4, <3>5, <3>6
  <2>6. <<"ip", ip_boot_param(ip)>> = IpToken(ip.addr, ip.nameservers)
    BY <2>5, BootParam
  <2> HIDE DEF added
  <2>7. QED BY <1>5, <1>13, <2>3, <2>4, <2>6
<1>14. ASSUME added # {}
       PROVE  \E i \in 1..Len(ifaces) :
                 given.ifaces[i].cni # None \/ HasStaticIp(given.ifaces[i])
  <2>1. Keys(kernel_args) \ Keys(given.args) # {}
    BY <1>1, <1>14
  <2>2. PICK i \in 1..Len(ifaces) : HasStaticIp(ifaces[i])
    BY <1>4, <1>10, <2>1 DEF StaticIps
  <2>3. ifaces[i].static = Meant(i)
    BY <1>3
  <2>4. QED BY <2>2, <2>3 DEF Meant, HasStaticIp
<1> HIDE DEF added
<1>15. QED BY <1>4, <1>9, <1>12, <1>13, <1>14

\* setup_kernel_args gives a guest whose configuration was validated the last
\* token the caller gave for every key and, as ip=, the address and the name
\* servers of its interface, the first two of them for CNI, whatever was called
\* before start().
THEOREM BootArgsMeant == Spec => []BootArgsAsConfigured
<1> DEFINE Inv == IInv /\ ArgsInv /\ ValidInv /\ ResultInv
<1>1. Init => Inv
  <2>1. Init => ValidInv /\ ResultInv
    BY DEF Init, ValidInv, ResultInv
  <2>2. QED BY <2>1, InitInv, InitArgs
<1>2. Inv /\ [Next]_vars => Inv'
  BY StepInv, StepArgs, StepValid, StepResult
<1>3. QED BY <1>1, <1>2, InvBootArgs, PTL DEF Spec

-----------------------------------------------------------------------------
(* The handlers of the SDK                                                 *)

\* The operators of HandlerChain on lists.
LEMMA ChainLists ==
    /\ \A s, n : has(s, n) <=> n \in Range(s)
    /\ \A s, n : remove(s, n) = Without(s, {n})
    /\ \A s, n, u : append_after(s, n, u) = After(s, n, u)
  BY DEF has, remove, append_after, After

\* The handlers of the SDK, and those in front of and behind the two that a
\* jailer is about.
Sdk == Range(SdkOrder)
SdkHead == <<"SetupNetwork", "SetupKernelArgs", "StartVMM">>
SdkTail ==
    <<"BootstrapLogging", "CreateMachine", "CreateBootSource", "AttachDrives",
      "CreateNetworkInterfaces", "AddVsocks", "ConfigMmds">>

\* The names in them.
LEMMA SdkNames ==
    /\ Sdk = {"SetupNetwork", "SetupKernelArgs", "StartVMM", "CreateLogFiles",
              "LinkFilesToRootFS", "BootstrapLogging", "CreateMachine",
              "CreateBootSource", "AttachDrives", "CreateNetworkInterfaces",
              "AddVsocks", "ConfigMmds", "LoadSnapshot"}
    /\ Range(SdkHead) = {"SetupNetwork", "SetupKernelArgs", "StartVMM"}
    /\ Range(SdkTail) = {"BootstrapLogging", "CreateMachine", "CreateBootSource",
                         "AttachDrives", "CreateNetworkInterfaces", "AddVsocks",
                         "ConfigMmds"}
  BY SMTT(40) DEF Sdk, Range, SdkOrder, SdkHead, SdkTail

\* How the order and the default list are made of them.
LEMMA SdkParts ==
    /\ SdkHead \in Seq(Sdk) /\ SdkTail \in Seq(Sdk)
    /\ SdkOrder \in Seq(Sdk) /\ DefaultFcInit \in Seq(Sdk)
    /\ SdkOrder = Append(Append(SdkHead, "CreateLogFiles"), "LinkFilesToRootFS") \o
                           Append(SdkTail, "LoadSnapshot")
    /\ DefaultFcInit = Append(SdkHead, "CreateLogFiles") \o SdkTail
<1>1. SdkHead \in Seq(Sdk)
  BY SdkNames, SMTT(40) DEF SdkHead
<1>2. SdkTail \in Seq(Sdk)
  BY SdkNames, SMTT(40) DEF SdkTail
<1>3. SdkOrder \in Seq(Sdk)
  BY SdkNames, SMTT(40) DEF SdkOrder
<1>4. DefaultFcInit \in Seq(Sdk)
  BY SdkNames, SMTT(40) DEF DefaultFcInit
<1>5. SdkOrder = Append(Append(SdkHead, "CreateLogFiles"), "LinkFilesToRootFS") \o
                          Append(SdkTail, "LoadSnapshot")
  BY SMTT(40) DEF SdkOrder, SdkHead, SdkTail
<1>6. DefaultFcInit = Append(SdkHead, "CreateLogFiles") \o SdkTail
  BY SMTT(40) DEF DefaultFcInit, SdkHead, SdkTail
<1>7. QED BY <1>1, <1>2, <1>3, <1>4, <1>5, <1>6

\* The order in two parts.
LEMMA OrderParts ==
    ASSUME NEW B
    PROVE  \E h \in Seq(Sdk), t \in Seq(Sdk) :
              /\ h = Append(Append(SdkHead, "CreateLogFiles"), "LinkFilesToRootFS")
              /\ t = Append(SdkTail, "LoadSnapshot")
              /\ Range(t) = Range(SdkTail) \cup {"LoadSnapshot"}
              /\ Filter(SdkOrder, B) = Filter(h, B) \o Filter(t, B)
<1>1. {"CreateLogFiles", "LinkFilesToRootFS", "LoadSnapshot"} \subseteq Sdk
  BY SdkNames
<1>2. PICK h1 \in Seq(Sdk) : h1 = Append(SdkHead, "CreateLogFiles")
  BY <1>1, SdkParts, AppendType
<1>3. PICK h \in Seq(Sdk) : h = Append(h1, "LinkFilesToRootFS")
  BY <1>1, AppendType
<1>4. PICK t \in Seq(Sdk) : t = Append(SdkTail, "LoadSnapshot")
  BY <1>1, SdkParts, AppendType
<1>5. Range(t) = Range(SdkTail) \cup {"LoadSnapshot"}
  BY <1>1, <1>4, SdkParts, RangeAppend, SMTT(40)
<1>6. SdkOrder = h \o t
  BY <1>2, <1>3, <1>4, SdkParts
<1>7. Filter(h \o t, B) = Filter(h, B) \o Filter(t, B)
  BY FilterConcat
<1>8. QED BY <1>2, <1>3, <1>4, <1>5, <1>6, <1>7

\* The default list is the order without what is for a jail or a snapshot.
LEMMA DefaultOrder ==
    DefaultFcInit = Filter(SdkOrder, Sdk \ {"LinkFilesToRootFS", "LoadSnapshot"})
<1> DEFINE B == Sdk \ {"LinkFilesToRootFS", "LoadSnapshot"}
<1>1. "LinkFilesToRootFS" \in Sdk /\ "LoadSnapshot" \in Sdk /\ "CreateLogFiles" \in Sdk
  BY SdkNames
<1>2. /\ "LinkFilesToRootFS" \notin B /\ "LoadSnapshot" \notin B /\ "CreateLogFiles" \in B
      /\ Range(SdkHead) \subseteq B /\ Range(SdkTail) \subseteq B
  BY SdkNames
<1> HIDE DEF B
<1>3. PICK h \in Seq(Sdk), t \in Seq(Sdk) :
         /\ h = Append(Append(SdkHead, "CreateLogFiles"), "LinkFilesToRootFS")
         /\ t = Append(SdkTail, "LoadSnapshot")
         /\ Filter(SdkOrder, B) = Filter(h, B) \o Filter(t, B)
  BY OrderParts
<1>4. SdkHead \in Seq(B) /\ SdkTail \in Seq(B)
  BY <1>2, SMTT(40) DEF SdkHead, SdkTail, Range
<1>5. Append(SdkHead, "CreateLogFiles") \in Seq(B) /\ Append(SdkHead, "CreateLogFiles") \in Seq(Sdk)
  BY <1>1, <1>2, <1>4, SdkParts, SMTT(40)
<1>6. Filter(h, B) = Append(SdkHead, "CreateLogFiles")
  <2>1. Filter(h, B) = Filter(Append(SdkHead, "CreateLogFiles"), B)
    BY <1>1, <1>2, <1>3, <1>5, FilterDrop
  <2>2. QED BY <1>5, <2>1, FilterAll
<1>7. Filter(t, B) = SdkTail
  <2>1. Filter(t, B) = Filter(SdkTail, B)
    BY <1>1, <1>2, <1>3, SdkParts, FilterDrop
  <2>2. QED BY <1>4, <2>1, FilterAll
<1>8. QED BY <1>3, <1>6, <1>7, SdkParts DEF B

\* The chroot strategy puts its handler where the order has it.
LEMMA JailOrder ==
    ASSUME NEW B, "CreateLogFiles" \in B, "LinkFilesToRootFS" \notin B
    PROVE  After(Filter(SdkOrder, B), "CreateLogFiles", "LinkFilesToRootFS") =
              Filter(SdkOrder, B \cup {"LinkFilesToRootFS"})
<1> DEFINE C == B \cup {"LinkFilesToRootFS"}
<1>1. PICK n \in Sdk : n = "CreateLogFiles"
  BY SdkNames
<1>2. PICK u \in Sdk : u = "LinkFilesToRootFS"
  BY SdkNames
<1>3. PICK h \in Seq(Sdk), t \in Seq(Sdk) :
         /\ h = Append(Append(SdkHead, n), u)
         /\ Range(t) = Range(SdkTail) \cup {"LoadSnapshot"}
         /\ Filter(SdkOrder, B) = Filter(h, B) \o Filter(t, B)
         /\ Filter(SdkOrder, C) = Filter(h, C) \o Filter(t, C)
  <2>1. PICK h \in Seq(Sdk), t \in Seq(Sdk) :
           /\ h = Append(Append(SdkHead, n), u)
           /\ t = Append(SdkTail, "LoadSnapshot")
           /\ Range(t) = Range(SdkTail) \cup {"LoadSnapshot"}
           /\ Filter(SdkOrder, B) = Filter(h, B) \o Filter(t, B)
    BY <1>1, <1>2, OrderParts
  <2>2. PICK h2 \in Seq(Sdk), t2 \in Seq(Sdk) :
           /\ h2 = Append(Append(SdkHead, n), u)
           /\ t2 = Append(SdkTail, "LoadSnapshot")
           /\ Filter(SdkOrder, C) = Filter(h2, C) \o Filter(t2, C)
    BY <1>1, <1>2, OrderParts
  <2>3. QED BY <2>1, <2>2
<1>4. n \in B /\ n \in C /\ u \notin B /\ u \in C
  BY <1>1, <1>2
<1>5. n \notin Range(SdkHead) /\ u \notin Range(SdkHead) /\ n \notin Range(t) /\ u \notin Range(t)
  BY <1>1, <1>2, <1>3, SdkNames
<1>6. \A s : u \notin Range(s) => Range(s) \cap B = Range(s) \cap C
  BY <1>2
<1> HIDE DEF C
<1>7. Filter(SdkHead, B) = Filter(SdkHead, C) /\ Filter(t, B) = Filter(t, C)
  BY <1>5, <1>6, FilterSame
<1>8. PICK f \in Seq(Sdk) : f = Filter(SdkHead, B) /\ n \notin Range(f)
  <2>1. Filter(SdkHead, B) \in Seq(Sdk) /\ Range(Filter(SdkHead, B)) = Range(SdkHead) \cap B
    BY SdkParts, FilterType, FilterRange
  <2>2. QED BY <1>5, <2>1
<1>9. PICK g \in Seq(Sdk) : g = Filter(t, B) /\ n \notin Range(g)
  <2>1. Filter(t, B) \in Seq(Sdk) /\ Range(Filter(t, B)) = Range(t) \cap B
    BY FilterType, FilterRange
  <2>2. QED BY <1>5, <2>1
<1>10. PICK h1 \in Seq(Sdk) : h1 = Append(SdkHead, n)
  BY SdkParts, AppendType
<1>11. Filter(h, B) = Append(f, n)
  <2>1. Filter(h, B) = Filter(h1, B)
    BY <1>3, <1>4, <1>10, FilterDrop
  <2>2. Filter(h1, B) = Append(Filter(SdkHead, B), n)
    BY <1>4, <1>10, SdkParts, FilterTake, SMTT(40)
  <2>3. QED BY <1>8, <2>1, <2>2
<1>12. Filter(h, C) = Append(Append(f, n), u)
  <2>1. Filter(h, C) = Append(Filter(h1, C), u)
    <3>1. Filter(Append(h1, u), C) = Append(Filter(h1, C), u)
      BY <1>4, FilterTake, SMTT(40)
    <3>2. h = Append(h1, u)
      BY <1>3, <1>10
    <3>3. QED BY <3>1, <3>2
  <2>2. Filter(h1, C) = Append(Filter(SdkHead, C), n)
    BY <1>4, <1>10, SdkParts, FilterTake, SMTT(40)
  <2>3. QED BY <1>7, <1>8, <2>1, <2>2
<1>13. PICK f1 \in Seq(Sdk) : f1 = Append(f, n)
  BY AppendType
<1>14. After(f1 \o g, n, u) = Append(f1, u) \o g
  <2>1. After(Glue(Append(f, n), g), n, u) = Glue(Append(Append(f, n), u), g)
    BY <1>8, <1>9, InsertBehind, SMTT(40)
  <2>2. QED BY <1>13, <2>1 DEF Glue
<1>15. Filter(SdkOrder, B) = f1 \o g /\ Filter(SdkOrder, C) = Append(f1, u) \o g
  BY <1>3, <1>7, <1>9, <1>11, <1>12, <1>13
<1>16. After(Filter(SdkOrder, B), n, u) = Filter(SdkOrder, C)
  BY <1>14, <1>15
<1>17. QED BY <1>1, <1>2, <1>16 DEF C

\* All of the order but its last handler.
SdkRest ==
    <<"SetupNetwork", "SetupKernelArgs", "StartVMM", "CreateLogFiles",
      "LinkFilesToRootFS", "BootstrapLogging", "CreateMachine", "CreateBootSource",
      "AttachDrives", "CreateNetworkInterfaces", "AddVsocks", "ConfigMmds">>

\* Loading a snapshot comes last.
LEMMA LastOrder ==
    ASSUME NEW B
    PROVE  /\ "LoadSnapshot" \in B =>
                 Filter(SdkOrder, B) =
                    Append(Filter(SdkOrder, B \ {"LoadSnapshot"}), "LoadSnapshot")
           /\ Filter(SdkOrder, {"LoadSnapshot"}) = <<"LoadSnapshot">>
<1>1. PICK x \in Sdk : x = "LoadSnapshot"
  BY SdkNames
<1>2. SdkRest \in Seq(Sdk)
  BY SdkNames, SMTT(40) DEF SdkRest
<1>3. SdkOrder = Append(SdkRest, x)
  BY <1>1, SMTT(40) DEF SdkOrder, SdkRest
<1>4. x \notin Range(SdkRest)
  BY <1>1, SMTT(40) DEF SdkRest, Range
<1>5. ASSUME x \in B
      PROVE  Filter(SdkOrder, B) = Append(Filter(SdkOrder, B \ {x}), x)
  <2>1. Filter(SdkOrder, B) = Append(Filter(SdkRest, B), x)
    BY <1>2, <1>3, <1>5, FilterTake
  <2>2. Filter(SdkOrder, B \ {x}) = Filter(SdkRest, B \ {x})
    BY <1>2, <1>3, FilterDrop
  <2>3. Range(SdkRest) \cap B = Range(SdkRest) \cap (B \ {x})
    BY <1>4
  <2>4. Filter(SdkRest, B) = Filter(SdkRest, B \ {x})
    BY <2>3, FilterSame
  <2>5. QED BY <2>1, <2>2, <2>4
<1>6. Filter(SdkOrder, {x}) = <<x>>
  <2>1. Filter(SdkOrder, {x}) = Append(Filter(SdkRest, {x}), x)
    BY <1>2, <1>3, FilterTake
  <2>2. Range(SdkRest) \cap {x} = {}
    BY <1>4
  <2>3. Filter(SdkRest, {x}) = <<>>
    BY <1>2, <2>2, FilterNone
  <2>4. Append(<<>>, x) = <<x>>
    BY SMTT(40)
  <2>5. QED BY <2>1, <2>3, <2>4
<1>7. QED BY <1>1, <1>5, <1>6

\* adapt_handlers_for_snapshot, for any list that has handlers of the SDK in order.
LEMMA SnapshotOrder ==
    ASSUME NEW N, Sdk \subseteq N, NEW s \in Seq(N), NEW B, B \subseteq Sdk,
           Filter(s, Sdk) = Filter(SdkOrder, B)
    PROVE  /\ SnapshotFcInit(s) \in Seq(N)
           /\ Filter(SnapshotFcInit(s), Sdk) =
                 Filter(SdkOrder, (B \ NotForSnapshot) \cup {"LoadSnapshot"})
<1>1. PICK x \in Sdk : x = "LoadSnapshot"
  BY SdkNames
<1>2. x \in N /\ x \notin NotForSnapshot
  BY <1>1, SMTT(40) DEF NotForSnapshot
<1>3. PICK K1 : K1 = N \ NotForSnapshot
  OBVIOUS
<1>4. PICK K2 : K2 = N \ {x}
  OBVIOUS
<1>5. PICK C : C = (Sdk \ NotForSnapshot) \ {x}
  OBVIOUS
<1>6. PICK D : D = (B \ NotForSnapshot) \cup {x}
  OBVIOUS
<1>7. K1 \cap (K2 \cap Sdk) = Sdk \cap C /\ B \cap C = D \ {x} /\ x \in D
  BY <1>3, <1>4, <1>5, <1>6, SMTT(40)
<1>8. PICK w1 \in Seq(N) : w1 = Without(s, NotForSnapshot) /\ w1 = Filter(s, K1)
  BY <1>3, WithoutFilter, FilterType
<1>9. PICK w2 \in Seq(N) : w2 = Without(w1, {x}) /\ w2 = Filter(w1, K2)
  BY <1>4, WithoutFilter, FilterType
<1>10. SnapshotFcInit(s) = Append(w2, x)
  BY <1>1, <1>8, <1>9, ChainLists DEF SnapshotFcInit
<1>11. Append(w2, x) \in Seq(N)
  BY <1>2, AppendType
<1>12. Filter(w2, Sdk) = Filter(Filter(s, Sdk), C)
  <2>1. Filter(Filter(w1, K2), Sdk) = Filter(w1, K2 \cap Sdk)
    BY FilterFilter, SMTT(40)
  <2>2. Filter(Filter(s, K1), K2 \cap Sdk) = Filter(s, K1 \cap (K2 \cap Sdk))
    BY FilterFilter, SMTT(40)
  <2>3. Filter(Filter(s, Sdk), C) = Filter(s, Sdk \cap C)
    BY FilterFilter, SMTT(40)
  <2>4. QED BY <1>7, <1>8, <1>9, <2>1, <2>2, <2>3
<1>13. Filter(w2, Sdk) = Filter(SdkOrder, D \ {x})
  <2>1. SdkOrder \in Seq(Sdk)
    BY SdkParts
  <2>2. Filter(Filter(SdkOrder, B), C) = Filter(SdkOrder, B \cap C)
    BY <2>1, FilterFilter, SMTT(40)
  <2>3. QED BY <1>7, <1>12, <2>2
<1>14. Filter(Append(w2, x), Sdk) = Append(Filter(w2, Sdk), x)
  BY <1>2, FilterTake, SMTT(40)
<1>15. Filter(SdkOrder, D) = Append(Filter(SdkOrder, D \ {x}), x)
  BY <1>1, <1>7, LastOrder
<1>16. QED BY <1>1, <1>6, <1>10, <1>11, <1>13, <1>14, <1>15

-----------------------------------------------------------------------------
(* The lists                                                               *)

Name == Sdk \cup UserHandler

\* What the configuration does not call for.
Unused ==
    (IF jailer = "naive" THEN {} ELSE {"LinkFilesToRootFS"}) \cup
    (IF "validate.LoadSnapshotCfg" \in Range(validation) THEN NotForSnapshot
                                                         ELSE {"LoadSnapshot"})

\* The lists, whatever the options and the caller have made of them.
ListInv ==
    /\ OwnNames
    /\ fc_init \in Seq(Name) /\ validation \in Seq(Checks)
    /\ Filter(fc_init, Sdk) = Filter(SdkOrder, Sdk \ Unused)
    /\ snapshot # {} => "validate.LoadSnapshotCfg" \in Range(validation)
    /\ "validate.NetworkCfg" \in Range(validation)
    /\ jailer # "none" => "validate.JailerCfg" \in Range(validation)
    /\ jailer = "none" /\ "validate.LoadSnapshotCfg" \notin Range(validation) =>
          "validate.Cfg" \in Range(validation)

\* The names of the handlers, the checks and the caller's handlers are apart.
LEMMA NamesApart ==
    ASSUME OwnNames
    PROVE  /\ Sdk \cap Checks = {}
           /\ UserHandler \cap Sdk = {} /\ UserHandler \cap Checks = {}
<1>1. Sdk \cap Checks = {}
  BY SdkNames, SMTT(40) DEF Checks
<1>2. UserHandler \cap (Sdk \cup Checks) = {}
  BY ChainLists DEF OwnNames, Sdk
<1>3. QED BY <1>1, <1>2

\* adapt_handlers_for_snapshot for the checks.
LEMMA SnapshotChecks ==
    ASSUME NEW v \in Seq(Checks)
    PROVE  /\ SnapshotValidation(v) \in Seq(Checks)
           /\ "validate.LoadSnapshotCfg" \in Range(SnapshotValidation(v))
           /\ \A c \in {"validate.NetworkCfg", "validate.JailerCfg"} :
                 c \in Range(v) => c \in Range(SnapshotValidation(v))
<1>1. PICK x \in Checks : x = "validate.LoadSnapshotCfg"
  BY DEF Checks
<1>2. PICK w1 \in Seq(Checks) :
         w1 = Without(v, {"validate.Cfg"}) /\ w1 = Filter(v, Checks \ {"validate.Cfg"})
  BY WithoutFilter, FilterType
<1>3. PICK w2 \in Seq(Checks) : w2 = Without(w1, {x}) /\ w2 = Filter(w1, Checks \ {x})
  BY WithoutFilter, FilterType
<1>4. SnapshotValidation(v) = Append(w2, x)
  BY <1>1, <1>2, <1>3, ChainLists DEF SnapshotValidation
<1>5. Append(w2, x) \in Seq(Checks)
  BY AppendType
<1>6. Range(Append(w2, x)) = Range(w2) \cup {x}
  BY RangeAppend, SMTT(40)
<1>7. Range(w1) = Range(v) \cap (Checks \ {"validate.Cfg"})
  BY <1>2, FilterRange, SMTT(40)
<1>8. Range(w2) = Range(w1) \cap (Checks \ {x})
  BY <1>3, FilterRange, SMTT(40)
<1>9. ASSUME NEW c \in {"validate.NetworkCfg", "validate.JailerCfg"}, c \in Range(v)
      PROVE  c \in Range(w2)
  BY <1>1, <1>7, <1>8, <1>9 DEF Checks
<1>10. QED BY <1>1, <1>4, <1>5, <1>6, <1>9

\* A list of some names is one of more names.
LEMMA SeqWider ==
    ASSUME NEW S, NEW T, S \subseteq T, NEW s \in Seq(S)
    PROVE  s \in Seq(T)
  BY SMTT(40)

\* What new_with_client makes of the default list, with and without a snapshot.
LEMMA AdaptedOrder ==
    /\ DefaultFcInit \in Seq(Sdk) /\ SnapshotFcInit(DefaultFcInit) \in Seq(Sdk)
    /\ DefaultFcInit =
          Filter(SdkOrder, Sdk \ {"LinkFilesToRootFS", "LoadSnapshot"})
    /\ SnapshotFcInit(DefaultFcInit) =
          Filter(SdkOrder,
                 Sdk \ ({"LinkFilesToRootFS"} \cup NotForSnapshot))
<1>1. PICK B : B = Sdk \ {"LinkFilesToRootFS", "LoadSnapshot"}
  OBVIOUS
<1>2. PICK d \in Seq(Sdk) : d = DefaultFcInit /\ d = Filter(SdkOrder, B)
  BY <1>1, SdkParts, DefaultOrder
<1>3. Filter(d, Sdk) = d
  BY FilterAll
<1>4. B \subseteq Sdk /\ Sdk \subseteq Sdk
  BY <1>1
<1>5. PICK e \in Seq(Sdk) :
         /\ e = SnapshotFcInit(d)
         /\ Filter(e, Sdk) =
               Filter(SdkOrder, (B \ NotForSnapshot) \cup {"LoadSnapshot"})
  BY <1>2, <1>3, <1>4, SnapshotOrder
<1>6. Filter(e, Sdk) = e
  BY FilterAll
<1>7. (B \ NotForSnapshot) \cup {"LoadSnapshot"} =
         Sdk \ ({"LinkFilesToRootFS"} \cup NotForSnapshot)
  BY <1>1, SdkNames, SMTT(40) DEF NotForSnapshot
<1>8. QED BY <1>1, <1>2, <1>5, <1>6, <1>7

\* The lists of a new Machine.
LEMMA InitLists ==
    ASSUME OwnNames, ChainInit
    PROVE  ListInv
<1> DEFINE a == IF snapshot # {} THEN SnapshotFcInit(DefaultFcInit)
                                 ELSE DefaultFcInit
<1> DEFINE u == IF snapshot # {} THEN NotForSnapshot ELSE {"LoadSnapshot"}
<1> DEFINE v == <<"validate.NetworkCfg",
                  IF jailer = "none" THEN "validate.Cfg" ELSE "validate.JailerCfg">>
<1>1. /\ fc_init = IF jailer = "naive" THEN JailFcInit(a) ELSE a
      /\ validation = IF snapshot # {} THEN SnapshotValidation(v) ELSE v
  BY DEF ChainInit, has_snapshot
<1>2. a \in Seq(Sdk) /\ a = Filter(SdkOrder, Sdk \ ({"LinkFilesToRootFS"} \cup u))
  <2>1. CASE snapshot = {}
    <3>1. {"LinkFilesToRootFS"} \cup {"LoadSnapshot"} = {"LinkFilesToRootFS", "LoadSnapshot"}
      OBVIOUS
    <3>2. QED BY <2>1, <3>1, AdaptedOrder
  <2>2. CASE snapshot # {}
    BY <2>2, AdaptedOrder
  <2>3. QED BY <2>1, <2>2
<1>3. /\ v \in Seq(Checks)
      /\ Range(v) = {"validate.NetworkCfg",
                     IF jailer = "none" THEN "validate.Cfg" ELSE "validate.JailerCfg"}
  BY SMTT(40) DEF Checks, Range
<1>4. /\ "CreateLogFiles" \in Sdk /\ "CreateLogFiles" \notin u
      /\ "LinkFilesToRootFS" \in Sdk /\ "LinkFilesToRootFS" \notin u
  BY SdkNames, SMTT(40) DEF NotForSnapshot
<1> HIDE DEF a, v
<1>5. /\ validation \in Seq(Checks)
      /\ "validate.LoadSnapshotCfg" \in Range(validation) <=> snapshot # {}
      /\ "validate.NetworkCfg" \in Range(validation)
      /\ jailer # "none" => "validate.JailerCfg" \in Range(validation)
      /\ jailer = "none" /\ snapshot = {} => "validate.Cfg" \in Range(validation)
  <2>1. CASE snapshot = {}
    BY <1>1, <1>3, <2>1
  <2>2. CASE snapshot # {}
    BY <1>1, <1>3, <2>2, SnapshotChecks
  <2>3. QED BY <2>1, <2>2
<1>6. Unused = (IF jailer = "naive" THEN {} ELSE {"LinkFilesToRootFS"}) \cup u
  BY <1>5 DEF Unused
<1> HIDE DEF u
<1>7. fc_init \in Seq(Sdk) /\ fc_init = Filter(SdkOrder, Sdk \ Unused)
  <2>1. CASE jailer # "naive"
    BY <1>1, <1>2, <1>6, <2>1
  <2>2. CASE jailer = "naive"
    <3>1. PICK B : B = Sdk \ ({"LinkFilesToRootFS"} \cup u)
      OBVIOUS
    <3>2. "CreateLogFiles" \in B /\ "LinkFilesToRootFS" \notin B
      BY <1>4, <3>1
    <3>3. B \cup {"LinkFilesToRootFS"} = Sdk \ Unused
      BY <1>4, <1>6, <2>2, <3>1
    <3>4. fc_init = After(a, "CreateLogFiles", "LinkFilesToRootFS")
      BY <1>1, <2>2, ChainLists DEF JailFcInit
    <3>5. After(Filter(SdkOrder, B), "CreateLogFiles", "LinkFilesToRootFS") =
             Filter(SdkOrder, B \cup {"LinkFilesToRootFS"})
      BY <3>2, JailOrder
    <3>6. fc_init \in Seq(Sdk)
      BY <1>2, <1>4, <3>4, AfterType
    <3>7. QED BY <1>2, <3>1, <3>3, <3>4, <3>5, <3>6
  <2>3. QED BY <2>1, <2>2
<1>8. Filter(fc_init, Sdk) = fc_init
  BY <1>7, FilterAll
<1>9. fc_init \in Seq(Name)
  BY <1>7, SeqWider DEF Name
<1>10. QED BY <1>5, <1>7, <1>8, <1>9 DEF ListInv

\* A caller's handler does not change which handlers of the SDK there are.
LEMMA EditKept ==
    ASSUME ListInv, NEW f \in Seq(Name), Filter(f, Sdk) = Filter(fc_init, Sdk), fc_init' = f,
           validation' = validation, jailer' = jailer, snapshot' = snapshot
    PROVE  ListInv'
<1>1. Unused' = Unused
  BY DEF Unused
<1>2. OwnNames /\ (OwnNames => OwnNames')
  BY DEF ListInv, OwnNames
<1>3. Name' = Name /\ Sdk' = Sdk /\ Checks' = Checks /\ SdkOrder' = SdkOrder
  BY DEF Name, Sdk, Checks, SdkOrder
<1>4. QED BY <1>1, <1>2, <1>3 DEF ListInv

\* What each edit makes of a list.
LEMMA Edited ==
    ASSUME ListInv, NEW u \in UserHandler
    PROVE  /\ <<u>> \o fc_init \in Seq(Name)
           /\ Filter(<<u>> \o fc_init, Sdk) = Filter(fc_init, Sdk)
           /\ Append(fc_init, u) \in Seq(Name)
           /\ Filter(Append(fc_init, u), Sdk) = Filter(fc_init, Sdk)
           /\ Without(fc_init, {u}) \in Seq(Name)
           /\ Filter(Without(fc_init, {u}), Sdk) = Filter(fc_init, Sdk)
           /\ \A n : /\ After(fc_init, n, u) \in Seq(Name)
                     /\ Filter(After(fc_init, n, u), Sdk) = Filter(fc_init, Sdk)
<1>1. PICK l \in Seq(Name) : l = fc_init
  BY DEF ListInv
<1>2. u \in Name /\ u \notin Sdk
  BY NamesApart DEF ListInv, Name
<1>3. <<u>> \o l \in Seq(Name) /\ Filter(<<u>> \o l, Sdk) = Filter(l, Sdk)
  <2>1. PICK s \in Seq(Name) : s = <<u>> /\ Range(s) = {u}
    <3>1. <<u>> \in Seq(Name) /\ Range(<<u>>) = {u}
      BY <1>2, SMTT(40) DEF Range
    <3>2. QED BY <3>1
  <2>2. Range(s) \cap Sdk = {}
    BY <1>2, <2>1
  <2>3. Filter(s, Sdk) = <<>>
    BY <2>2, FilterNone
  <2>4. Filter(s \o l, Sdk) = Filter(s, Sdk) \o Filter(l, Sdk)
    BY FilterConcat
  <2>5. Filter(l, Sdk) \in Seq(Name)
    BY FilterType
  <2>6. <<>> \o Filter(l, Sdk) = Filter(l, Sdk)
    BY <2>5, ConcatEmptySeq
  <2>7. s \o l \in Seq(Name)
    BY ConcatProperties
  <2>8. QED BY <2>1, <2>3, <2>4, <2>6, <2>7
<1>4. Append(l, u) \in Seq(Name) /\ Filter(Append(l, u), Sdk) = Filter(l, Sdk)
  BY <1>2, AppendType, FilterDrop
<1>5. Without(l, {u}) \in Seq(Name) /\ Filter(Without(l, {u}), Sdk) = Filter(l, Sdk)
  <2>1. PICK K : K = Name \ {u}
    OBVIOUS
  <2>2. Without(l, {u}) = Filter(l, K)
    BY <2>1, WithoutFilter
  <2>3. Filter(l, K) \in Seq(Name)
    BY FilterType
  <2>4. Filter(Filter(l, K), Sdk) = Filter(l, K \cap Sdk)
    BY FilterFilter, SMTT(40)
  <2>5. K \cap Sdk = Sdk
    BY <1>2, <2>1 DEF Name
  <2>6. QED BY <2>2, <2>3, <2>4, <2>5
<1>6. ASSUME NEW n
      PROVE  /\ After(l, n, u) \in Seq(Name)
             /\ Filter(After(l, n, u), Sdk) = Filter(l, Sdk)
  <2>1. After(l, n, u) \in Seq(Name)
    BY <1>2, AfterType
  <2>2. Filter(After(l, n, u), Sdk) = Filter(l, Sdk)
    BY <1>2, AfterFilter, SMTT(40)
  <2>3. QED BY <2>1, <2>2
<1>7. QED BY <1>1, <1>3, <1>4, <1>5, <1>6

\* with_snapshot adapts both lists, however often it is given.
LEMMA SnapshotKept ==
    ASSUME ListInv, WithSnapshot
    PROVE  ListInv'
<1>1. /\ fc_init' = SnapshotFcInit(fc_init) /\ jailer' = jailer
      /\ validation' = SnapshotValidation(validation)
  BY DEF WithSnapshot
<1>2. /\ validation' \in Seq(Checks) /\ "validate.LoadSnapshotCfg" \in Range(validation')
      /\ "validate.NetworkCfg" \in Range(validation')
      /\ jailer # "none" => "validate.JailerCfg" \in Range(validation')
  <2>1. validation \in Seq(Checks) /\ "validate.NetworkCfg" \in Range(validation)
    BY DEF ListInv
  <2>2. jailer # "none" => "validate.JailerCfg" \in Range(validation)
    BY DEF ListInv
  <2>3. QED BY <1>1, <2>1, <2>2, SnapshotChecks
<1>3. PICK B : B = Sdk \ Unused
  OBVIOUS
<1>4. B \subseteq Sdk /\ Sdk \subseteq Name
  BY <1>3 DEF Name
<1>5. /\ fc_init' \in Seq(Name)
      /\ Filter(fc_init', Sdk) =
            Filter(SdkOrder, (B \ NotForSnapshot) \cup {"LoadSnapshot"})
  <2>1. fc_init \in Seq(Name) /\ Filter(fc_init, Sdk) = Filter(SdkOrder, B)
    BY <1>3 DEF ListInv
  <2>2. QED BY <1>1, <1>4, <2>1, SnapshotOrder
<1>6. (B \ NotForSnapshot) \cup {"LoadSnapshot"} = Sdk \ Unused'
  <2>1. /\ "LoadSnapshot" \in Sdk /\ "LoadSnapshot" \notin NotForSnapshot
        /\ "LoadSnapshot" # "LinkFilesToRootFS"
    BY SdkNames, SMTT(40) DEF NotForSnapshot
  <2>2. Unused' = (IF jailer = "naive" THEN {} ELSE {"LinkFilesToRootFS"}) \cup
                     NotForSnapshot
    BY <1>1, <1>2 DEF Unused, NotForSnapshot
  <2>3. QED BY <1>3, <2>1, <2>2, SMTT(40) DEF Unused
<1>7. OwnNames'
  BY DEF ListInv, OwnNames
<1>8. Name' = Name /\ Sdk' = Sdk /\ Checks' = Checks /\ SdkOrder' = SdkOrder
  BY DEF Name, Sdk, Checks, SdkOrder
<1>9. QED BY <1>1, <1>2, <1>5, <1>6, <1>7, <1>8 DEF ListInv

\* Every step keeps the lists as they have to be.
LEMMA StepLists ==
    ASSUME ListInv, [ChainNext]_chain_vars
    PROVE  ListInv'
<1> DEFINE Same == validation' = validation /\ jailer' = jailer /\ snapshot' = snapshot
<1>1. fc_init \in Seq(Name) /\ Filter(fc_init, Sdk) = Filter(fc_init, Sdk)
  BY DEF ListInv
<1>2. \A l : EditFcInit(l) => fc_init' = l /\ Same
  BY DEF EditFcInit, cfg
<1>3. CASE WithSnapshot
  BY <1>3, SnapshotKept
<1>4. ASSUME NEW u \in UserHandler,
             \/ Prepend(u) \/ AppendHandler(u) \/ AppendAfter(u)
             \/ Swappend(u) \/ RemoveHandler(u)
      PROVE  ListInv'
  <2>1. CASE Prepend(u)
    <3>1. fc_init' = <<u>> \o fc_init /\ Same
      BY <1>2, <2>1 DEF Prepend
    <3>2. QED BY <3>1, Edited, EditKept
  <2>2. CASE AppendHandler(u)
    <3>1. fc_init' = Append(fc_init, u) /\ Same
      BY <1>2, <2>2 DEF AppendHandler
    <3>2. QED BY <3>1, Edited, EditKept
  <2>3. CASE AppendAfter(u)
    <3>1. PICK n : fc_init' = After(fc_init, n, u) /\ Same
      BY <1>2, <2>3, ChainLists DEF AppendAfter
    <3>2. QED BY <3>1, Edited, EditKept
  <2>4. CASE Swappend(u)
    <3>1. fc_init' \in {fc_init, Append(fc_init, u)} /\ Same
      BY <1>2, <2>4 DEF Swappend, swappend
    <3>2. QED BY <1>1, <3>1, Edited, EditKept
  <2>5. CASE RemoveHandler(u)
    <3>1. fc_init' = Without(fc_init, {u}) /\ Same
      BY <1>2, <2>5, ChainLists DEF RemoveHandler
    <3>2. QED BY <3>1, Edited, EditKept
  <2>6. QED BY <1>4, <2>1, <2>2, <2>3, <2>4, <2>5
<1>5. CASE \/ Start \/ RunHandler \/ HandlerFails
           \/ ValidationDone \/ StartInstance \/ UNCHANGED chain_vars
  <2>1. fc_init' = fc_init /\ Same
    BY <1>5, SMTT(40) DEF Start, RunHandler, HandlerFails,
       ValidationDone, StartInstance, chain_vars, lists, cfg
  <2>2. QED BY <1>1, <2>1, EditKept
<1>6. QED BY <1>3, <1>4, <1>5 DEF ChainNext

\* What the lists promise, from the invariant.
LEMMA ListsInOrder ==
    ASSUME ListInv
    PROVE  ChainInOrder
<1>1. Without(fc_init, UserHandler) = Filter(fc_init, Name \ UserHandler)
  BY WithoutFilter DEF ListInv
<1>2. Name \ UserHandler = Sdk
  BY NamesApart DEF ListInv, Name
<1>3. Adapted <=> "validate.LoadSnapshotCfg" \in Range(validation)
  BY ChainLists DEF Adapted
<1>4. Wanted = Filter(SdkOrder, Sdk \ Unused)
  BY <1>3, ChainLists DEF Wanted, Unused, Without, Sdk
<1>5. QED BY <1>1, <1>2, <1>3, <1>4, ChainLists
          DEF ListInv, ChainInOrder, has_snapshot

\* ChainInOrder: however the options are combined and repeated and wherever the
\* caller puts handlers of their own, the handlers of the SDK are each there
\* once, in order, and a snapshot in cfg is one that the lists are adapted to.
THEOREM SdkInOrder == ChainSpec => []ChainInOrder
<1>1. ChainInit => ListInv
  BY NamesAssumption, InitLists
<1>2. ListInv /\ [ChainNext]_chain_vars => ListInv'
  BY StepLists
<1>3. ListInv => ChainInOrder
  BY ListsInOrder
<1>4. QED BY <1>1, <1>2, <1>3, PTL DEF ChainSpec

-----------------------------------------------------------------------------
(* start()                                                                 *)

Handler == Name \cup Checks

\* How far start() has got: what has run so far passed, the checks come first,
\* and what has run and what is to run are together the list.
RunInv ==
    /\ ran \in Seq(Handler) /\ todo \in Seq(Handler)
    /\ stage = "new" => ran = <<>>
    /\ \A h \in Range(ran) : Valid(h)
    /\ stage = "validation" =>
          /\ Range(ran) \subseteq Checks /\ Range(todo) \subseteq Checks
          /\ Range(validation) \subseteq Range(ran) \cup Range(todo)
    /\ ~disable_validation /\ stage \in {"fc_init", "ok"} =>
          Range(validation) \subseteq Range(ran)
    /\ ~disable_validation =>
          Range(ran) \subseteq Checks \/ Range(validation) \subseteq Range(ran)
    /\ stage = "fc_init" =>
          Filter(ran \o todo, {"LoadSnapshot"}) = Filter(fc_init, {"LoadSnapshot"})
    /\ stage = "ok" => Filter(ran, {"LoadSnapshot"}) = Filter(fc_init, {"LoadSnapshot"})
    /\ booted <=> stage = "ok" /\ snapshot = {}

\* Running the next handler takes it from one list to the other.
LEMMA NextHandler ==
    ASSUME NEW S, NEW r \in Seq(S), NEW t \in Seq(S), t # <<>>
    PROVE  /\ Head(t) \in S /\ Tail(t) \in Seq(S) /\ Append(r, Head(t)) \in Seq(S)
           /\ Range(t) = {Head(t)} \cup Range(Tail(t))
           /\ Append(r, Head(t)) \o Tail(t) = r \o t
<1>1. Head(t) \in S /\ Tail(t) \in Seq(S) /\ Append(r, Head(t)) \in Seq(S)
  BY HeadTailProperties, AppendProperties
<1>2. Range(t) = {Head(t)} \cup Range(Tail(t))
  <2>1. /\ Len(t) \in Nat \ {0} /\ Len(Tail(t)) = Len(t) - 1
        /\ \A i \in 1..Len(Tail(t)) : Tail(t)[i] = t[i + 1]
        /\ DOMAIN t = 1..Len(t) /\ DOMAIN Tail(t) = 1..Len(Tail(t)) /\ Head(t) = t[1]
    BY SMTT(40)
  <2>2. \A i \in DOMAIN t : i = 1 \/ (i - 1 \in DOMAIN Tail(t) /\ t[i] = Tail(t)[i - 1])
    BY <2>1, SMTT(40)
  <2>3. 1 \in DOMAIN t /\ \A i \in DOMAIN Tail(t) : i + 1 \in DOMAIN t /\ Tail(t)[i] = t[i + 1]
    BY <2>1, SMTT(40)
  <2>4. ASSUME NEW x \in Range(t) PROVE x = Head(t) \/ x \in Range(Tail(t))
    <3>1. PICK i \in DOMAIN t : x = t[i]
      BY DEF Range
    <3>2. CASE i = 1
      BY <2>1, <3>1, <3>2
    <3>3. CASE i # 1
      <4>1. PICK j \in DOMAIN Tail(t) : x = Tail(t)[j]
        BY <2>2, <3>1, <3>3
      <4>2. QED BY <4>1 DEF Range
    <3>4. QED BY <3>2, <3>3
  <2>5. Head(t) \in Range(t) /\ \A x \in Range(Tail(t)) : x \in Range(t)
    BY <2>1, <2>3 DEF Range
  <2>6. QED BY <2>4, <2>5
<1>3. Append(r, Head(t)) \o Tail(t) = r \o t
  BY SMTT(40)
<1>4. QED BY <1>1, <1>2, <1>3

\* A new Machine.
LEMMA InitRun ==
    ASSUME ChainInit
    PROVE  RunInv
<1>1. stage = "new" /\ todo = <<>> /\ ran = <<>> /\ booted = FALSE
  BY DEF ChainInit
<1>2. <<>> \in Seq(Handler) /\ Range(<<>>) = {}
  BY EmptySeq, RangeFacts
<1>3. QED BY <1>1, <1>2 DEF RunInv

\* Before start() nothing has run, whatever the caller does.
LEMMA EditRun ==
    ASSUME RunInv, stage = "new",
           stage' = stage, todo' = todo, ran' = ran, booted' = booted
    PROVE  RunInv'
<1>1. ran = <<>> /\ ~booted
  BY DEF RunInv
<1>2. Range(ran') = {} /\ Range(ran') \subseteq Checks'
  <2>1. ran' = <<>> /\ <<>> \in Seq({})
    BY <1>1, EmptySeq
  <2>2. Range(<<>>) = {}
    BY <2>1, RangeFacts
  <2>3. QED BY <2>1, <2>2
<1>3. ran' \in Seq(Handler') /\ todo' \in Seq(Handler')
  BY DEF RunInv, Handler, Name, Sdk, SdkOrder, Checks
<1>4. QED BY <1>1, <1>2, <1>3 DEF RunInv

\* The lists and the configuration are as they were.
Steady ==
    /\ validation' = validation /\ fc_init' = fc_init /\ jailer' = jailer
    /\ snapshot' = snapshot /\ disable_validation' = disable_validation

\* Then the names are the same, and what was valid is still valid.
LEMMA SteadyFacts ==
    ASSUME Steady
    PROVE  /\ Handler' = Handler /\ Checks' = Checks
           /\ \A h : Valid(h) => Valid(h)'
  BY DEF Steady, Handler, Name, Sdk, SdkOrder, Checks, Valid, SnapshotPath

\* start() begins with the checks, or without.
LEMMA StartRun ==
    ASSUME ListInv, RunInv, Start
    PROVE  RunInv'
<1>1. Steady /\ stage = "new" /\ ran' = ran /\ booted' = booted
  BY DEF Start, lists, cfg, Steady
<1>2. ran = <<>> /\ ~booted
  BY <1>1 DEF RunInv
<1>3. Range(ran) = {} /\ <<>> \in Seq(Handler)
  BY <1>2, RangeFacts, EmptySeq
<1>4. fc_init \in Seq(Handler) /\ validation \in Seq(Handler)
  <2>1. Name \subseteq Handler /\ Checks \subseteq Handler
    BY DEF Handler
  <2>2. QED BY <2>1, SeqWider DEF ListInv
<1>5. ran \o fc_init = fc_init
  BY <1>2, <1>4, ConcatEmptySeq
<1>6. Range(validation) \subseteq Checks
  <2>1. Range(validation) \in SUBSET Checks
    BY RangeFacts DEF ListInv
  <2>2. QED BY <2>1
<1>7. \/ disable_validation /\ stage' = "fc_init" /\ todo' = fc_init
      \/ ~disable_validation /\ stage' = "validation" /\ todo' = validation
  BY DEF Start, SkipsValidation
<1>8. QED BY <1>1, <1>2, <1>3, <1>4, <1>5, <1>6, <1>7, SteadyFacts DEF RunInv, Steady

\* A handler that succeeds.
LEMMA HandlerRun ==
    ASSUME ListInv, RunInv, RunHandler
    PROVE  RunInv'
<1>1. Steady /\ stage' = stage /\ booted' = booted
  BY DEF RunHandler, lists, cfg, Steady
<1>2. /\ todo # <<>> /\ ran' = Append(ran, Head(todo)) /\ todo' = Tail(todo)
      /\ stage \in {"validation", "fc_init"} /\ Valid(Head(todo))
  BY DEF RunHandler
<1>3. PICK r \in Seq(Handler), t \in Seq(Handler) : r = ran /\ t = todo
  BY DEF RunInv
<1>4. PICK x \in Handler :
         /\ x = Head(t) /\ Tail(t) \in Seq(Handler) /\ Append(r, x) \in Seq(Handler)
         /\ Range(t) = {x} \cup Range(Tail(t))
         /\ Append(r, x) \o Tail(t) = r \o t
  <2>1. t # <<>>
    BY <1>2, <1>3
  <2>2. /\ Head(t) \in Handler /\ Tail(t) \in Seq(Handler) /\ Append(r, Head(t)) \in Seq(Handler)
        /\ Range(t) = {Head(t)} \cup Range(Tail(t))
        /\ Append(r, Head(t)) \o Tail(t) = r \o t
    BY <2>1, NextHandler
  <2>3. QED BY <2>2
<1>5. Range(Append(r, x)) = Range(r) \cup {x}
  BY RangeAppend, SMTT(40)
<1>6. ran' \in Seq(Handler) /\ todo' \in Seq(Handler) /\ ran' \o todo' = ran \o todo
  BY <1>2, <1>3, <1>4
<1>7. Range(ran') = Range(ran) \cup {x} /\ Range(todo) = {x} \cup Range(todo')
  BY <1>2, <1>3, <1>4, <1>5
<1>8. \A h \in Range(ran') : Valid(h)'
  <2>1. \A h \in Range(ran) : Valid(h)
    BY DEF RunInv
  <2>2. QED BY <1>1, <1>2, <1>3, <1>4, <1>7, <2>1, SteadyFacts
<1>9. CASE stage = "validation"
  <2>1. /\ Range(ran) \subseteq Checks /\ Range(todo) \subseteq Checks
        /\ Range(validation) \subseteq Range(ran) \cup Range(todo) /\ ~booted
    BY <1>9 DEF RunInv
  <2>2. /\ Range(ran') \subseteq Checks /\ Range(todo') \subseteq Checks
        /\ Range(validation) \subseteq Range(ran') \cup Range(todo')
    BY <1>7, <2>1
  <2>3. QED BY <1>1, <1>6, <1>8, <1>9, <2>1, <2>2, SteadyFacts DEF RunInv, Steady
<1>10. CASE stage = "fc_init"
  <2>1. /\ ~disable_validation => Range(validation) \subseteq Range(ran)
        /\ Filter(ran \o todo, {"LoadSnapshot"}) = Filter(fc_init, {"LoadSnapshot"}) /\ ~booted
    BY <1>10 DEF RunInv
  <2>2. ~disable_validation => Range(validation) \subseteq Range(ran')
    BY <1>7, <2>1
  <2>3. QED BY <1>1, <1>6, <1>8, <1>10, <2>1, <2>2, SteadyFacts DEF RunInv, Steady
<1>11. QED BY <1>2, <1>9, <1>10

\* A handler that fails: nothing else runs.
LEMMA FailRun ==
    ASSUME RunInv, HandlerFails
    PROVE  RunInv'
<1>1. /\ Steady /\ stage \in {"validation", "fc_init"} /\ stage' = "err"
      /\ todo' = <<>> /\ ran' = ran /\ booted' = booted
  BY DEF HandlerFails, lists, cfg, Steady
<1>2. <<>> \in Seq(Handler) /\ ~booted
  BY <1>1, EmptySeq DEF RunInv
<1>3. QED BY <1>1, <1>2, SteadyFacts DEF RunInv, Steady

\* All checks have passed.
LEMMA DoneRun ==
    ASSUME ListInv, RunInv, ValidationDone
    PROVE  RunInv'
<1>1. /\ Steady /\ stage = "validation" /\ todo = <<>> /\ stage' = "fc_init"
      /\ todo' = fc_init /\ ran' = ran /\ booted' = booted
  BY DEF ValidationDone, lists, cfg, Steady
<1>2. /\ ran \in Seq(Handler) /\ ~booted /\ Range(ran) \subseteq Checks
      /\ Range(validation) \subseteq Range(ran) \cup Range(todo)
  BY <1>1 DEF RunInv
<1>3. Range(todo) = {}
  BY <1>1, <1>2, RangeFacts
<1>4. Range(validation) \subseteq Range(ran)
  BY <1>2, <1>3
<1>5. fc_init \in Seq(Handler)
  <2>1. Name \subseteq Handler
    BY DEF Handler
  <2>2. QED BY <2>1, SeqWider DEF ListInv
<1>6. Filter(ran \o fc_init, {"LoadSnapshot"}) = Filter(fc_init, {"LoadSnapshot"})
  <2>1. Filter(ran \o fc_init, {"LoadSnapshot"}) =
           Filter(ran, {"LoadSnapshot"}) \o Filter(fc_init, {"LoadSnapshot"})
    BY <1>2, <1>5, FilterConcat
  <2>2. Range(ran) \cap {"LoadSnapshot"} = {}
    BY <1>2 DEF Checks
  <2>3. Filter(ran, {"LoadSnapshot"}) = <<>>
    BY <1>2, <2>2, FilterNone
  <2>4. Filter(fc_init, {"LoadSnapshot"}) \in Seq(Handler)
    BY <1>5, FilterType
  <2>5. QED BY <2>1, <2>3, <2>4, ConcatEmptySeq
<1>7. QED BY <1>1, <1>2, <1>4, <1>5, <1>6, SteadyFacts DEF RunInv, Steady

\* start_instance.
LEMMA InstanceRun ==
    ASSUME RunInv, StartInstance
    PROVE  RunInv'
<1>1. /\ Steady /\ stage = "fc_init" /\ todo = <<>> /\ todo' = todo /\ ran' = ran
      /\ \/ stage' = "ok" /\ snapshot # {} /\ booted' = booted
         \/ stage' = "ok" /\ snapshot = {} /\ booted' = TRUE
         \/ stage' = "err" /\ booted' = booted
  BY DEF StartInstance, AlreadyStarted, has_snapshot, lists,
     cfg, Steady
<1>2. /\ ran \in Seq(Handler) /\ ~booted
      /\ ~disable_validation => Range(validation) \subseteq Range(ran)
      /\ Filter(ran \o todo, {"LoadSnapshot"}) = Filter(fc_init, {"LoadSnapshot"})
  BY <1>1 DEF RunInv
<1>3. ran \o todo = ran
  BY <1>1, <1>2, ConcatEmptySeq
<1>4. Filter(ran, {"LoadSnapshot"}) = Filter(fc_init, {"LoadSnapshot"})
  BY <1>2, <1>3
<1>5. CASE stage' = "ok"
  <2>1. booted' <=> snapshot = {}
    <3>1. CASE snapshot = {}
      BY <1>1, <1>5, <3>1
    <3>2. CASE snapshot # {}
      <4>1. booted' = booted
        BY <1>1, <1>5, <3>2
      <4>2. QED BY <1>2, <3>2, <4>1
    <3>3. QED BY <3>1, <3>2
  <2>2. QED BY <1>1, <1>2, <1>4, <1>5, <2>1, SteadyFacts DEF RunInv, Steady
<1>6. CASE stage' = "err" /\ booted' = booted
  BY <1>1, <1>2, <1>6, SteadyFacts DEF RunInv, Steady
<1>7. QED BY <1>1, <1>5, <1>6

\* Every step keeps to the course of start().
LEMMA StepRun ==
    ASSUME ListInv, RunInv, [ChainNext]_chain_vars
    PROVE  RunInv'
<1>1. Edit =>
         /\ stage = "new" /\ stage' = stage /\ todo' = todo /\ ran' = ran
         /\ booted' = booted
  BY DEF Edit
<1>2. CASE WithSnapshot
  BY <1>1, <1>2, EditRun DEF WithSnapshot
<1>3. ASSUME NEW u \in UserHandler,
             \/ Prepend(u) \/ AppendHandler(u) \/ AppendAfter(u)
             \/ Swappend(u) \/ RemoveHandler(u)
      PROVE  RunInv'
  <2>1. Edit
    BY <1>3 DEF Prepend, AppendHandler, AppendAfter, Swappend,
       RemoveHandler, EditFcInit
  <2>2. QED BY <1>1, <2>1, EditRun
<1>4. CASE UNCHANGED chain_vars
  <2>1. /\ Steady /\ stage' = stage /\ todo' = todo /\ ran' = ran /\ booted' = booted
    BY <1>4 DEF chain_vars, lists, cfg, Steady
  <2>2. QED BY <2>1, SteadyFacts DEF RunInv, Steady
<1>5. QED BY <1>2, <1>3, <1>4, StartRun, HandlerRun, FailRun, DoneRun, InstanceRun DEF ChainNext

\* What has been checked before anything else runs.
LEMMA RunValidated ==
    ASSUME ListInv, RunInv
    PROVE  ValidatedFirst
<1> SUFFICES ASSUME ~disable_validation, Range(ran) \cap Range(fc_init) # {}
             PROVE  /\ "validate.NetworkCfg" \in Range(ran)
                    /\ jailer # "none" => "validate.JailerCfg" \in Range(ran)
                    /\ jailer = "none" =>
                          (IF "validate.LoadSnapshotCfg" \in Range(validation)
                           THEN "validate.LoadSnapshotCfg" ELSE "validate.Cfg") \in Range(ran)
                    /\ "validate.LoadSnapshotCfg" \in Range(validation) =>
                          snapshot = SnapshotPath
                    /\ jailer # "no_strategy"
  BY ChainLists DEF ValidatedFirst, Adapted
<1>1. Range(fc_init) \in SUBSET Name
  BY RangeFacts DEF ListInv
<1>2. Name \cap Checks = {}
  BY NamesApart DEF ListInv, Name
<1>3. Range(validation) \subseteq Range(ran)
  BY <1>1, <1>2 DEF RunInv
<1>4. \A h \in Range(ran) : Valid(h)
  BY DEF RunInv
<1>5. "validate.LoadSnapshotCfg" \in Range(validation) => snapshot = SnapshotPath
  BY <1>3, <1>4 DEF Valid
<1>6. jailer # "no_strategy"
  <2>1. SUFFICES ASSUME jailer = "no_strategy" PROVE FALSE
    OBVIOUS
  <2>2. "validate.JailerCfg" \in Range(ran)
    BY <1>3, <2>1 DEF ListInv
  <2>3. QED BY <1>4, <2>1, <2>2 DEF Valid
<1>7. QED BY <1>3, <1>5, <1>6 DEF ListInv

\* What sets the guest going, once start() has succeeded.
LEMMA RunStarted ==
    ASSUME ListInv, RunInv
    PROVE  StartedOnce
<1> DEFINE adapted == "validate.LoadSnapshotCfg" \in Range(validation)
<1> SUFFICES ASSUME stage = "ok", ~(disable_validation /\ adapted /\ snapshot = {})
             PROVE  IF booted THEN "LoadSnapshot" \notin Range(ran)
                    ELSE Len(Filter(ran, {"LoadSnapshot"})) = 1
  BY ChainLists DEF StartedOnce, Adapted, has_snapshot
<1>1. booted <=> snapshot = {}
  BY DEF RunInv
<1>2. PICK x \in Sdk : x = "LoadSnapshot"
  BY SdkNames
<1>3. PICK B : B = Sdk \ Unused
  OBVIOUS
<1>4. /\ fc_init \in Seq(Name) /\ Filter(fc_init, Sdk) = Filter(SdkOrder, B)
      /\ ran \in Seq(Handler) /\ Filter(ran, {x}) = Filter(fc_init, {x})
  BY <1>2, <1>3 DEF ListInv, RunInv
<1>5. Filter(ran, {x}) = Filter(SdkOrder, B \cap {x})
  <2>1. Filter(Filter(fc_init, Sdk), {x}) = Filter(fc_init, Sdk \cap {x})
    BY <1>4, FilterFilter, SMTT(40)
  <2>2. Sdk \cap {x} = {x}
    BY <1>2
  <2>3. SdkOrder \in Seq(Sdk)
    BY SdkParts
  <2>4. Filter(Filter(SdkOrder, B), {x}) = Filter(SdkOrder, B \cap {x})
    BY <2>3, FilterFilter, SMTT(40)
  <2>5. QED BY <1>4, <2>1, <2>2, <2>4
<1>6. x \in B <=> adapted
  <2>1. x \notin NotForSnapshot /\ x # "LinkFilesToRootFS"
    BY <1>2, SMTT(40) DEF NotForSnapshot
  <2>2. QED BY <1>2, <1>3, <2>1 DEF Unused
<1>7. CASE snapshot = {}
  <2>1. ~adapted
    <3>1. SUFFICES ASSUME adapted PROVE FALSE
      OBVIOUS
    <3>2. ~disable_validation
      BY <1>7, <3>1
    <3>3. Range(validation) \subseteq Range(ran)
      BY <3>2 DEF RunInv
    <3>4. Valid("validate.LoadSnapshotCfg")
      BY <3>1, <3>3 DEF RunInv
    <3>5. snapshot = {"mem_backend", "snapshot"}
      BY <3>4 DEF Valid, SnapshotPath
    <3>6. QED BY <1>7, <3>5
  <2>2. B \cap {x} = {}
    BY <1>6, <2>1
  <2>3. Range(SdkOrder) \cap {} = {} /\ SdkOrder \in Seq(Sdk)
    BY SdkParts
  <2>4. Filter(ran, {x}) = <<>>
    BY <1>5, <2>2, <2>3, FilterNone
  <2>5. Range(<<>>) = {} /\ Range(Filter(ran, {x})) = Range(ran) \cap {x}
    BY <1>4, RangeFacts, FilterRange
  <2>6. x \notin Range(ran)
    BY <2>4, <2>5
  <2>7. QED BY <1>1, <1>2, <1>7, <2>6
<1>8. CASE snapshot # {}
  <2>1. adapted
    BY <1>8 DEF ListInv
  <2>2. B \cap {x} = {x}
    BY <1>6, <2>1
  <2>3. Filter(ran, {x}) = <<"LoadSnapshot">>
    BY <1>2, <1>5, <2>2, LastOrder
  <2>4. Len(<<"LoadSnapshot">>) = 1
    BY SMTT(40)
  <2>5. QED BY <1>1, <1>2, <1>8, <2>3, <2>4
<1>9. QED BY <1>7, <1>8

\* ValidatedFirst: unless validation is disabled, no handler with side effects
\* runs before the checks that apply to the configuration have passed.
THEOREM ChecksFirst == ChainSpec => []ValidatedFirst
<1>1. ChainInit => ListInv /\ RunInv
  BY NamesAssumption, InitLists, InitRun
<1>2. ListInv /\ RunInv /\ [ChainNext]_chain_vars => ListInv' /\ RunInv'
  BY StepLists, StepRun
<1>3. ListInv /\ RunInv => ValidatedFirst
  BY RunValidated
<1>4. QED BY <1>1, <1>2, <1>3, PTL DEF ChainSpec

\* StartedOnce: a start() that succeeds has either loaded a snapshot, once, or
\* sent InstanceStart.
THEOREM GuestStartedOnce == ChainSpec => []StartedOnce
<1>1. ChainInit => ListInv /\ RunInv
  BY NamesAssumption, InitLists, InitRun
<1>2. ListInv /\ RunInv /\ [ChainNext]_chain_vars => ListInv' /\ RunInv'
  BY StepLists, StepRun
<1>3. ListInv /\ RunInv => StartedOnce
  BY RunStarted
<1>4. QED BY <1>1, <1>2, <1>3, PTL DEF ChainSpec
=============================================================================
