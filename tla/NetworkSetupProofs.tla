------------------------- MODULE NetworkSetupProofs -------------------------
(***************************************************************************)
(* Proofs about NetworkSetup for any set of VM ids, any length of the      *)
(* plugin chain and any number of Machines.                                *)
(***************************************************************************)
EXTENDS NetworkSetup, SequenceTheorems, TLAPS

\* Leaves go to Zenon unless they name another prover.
USE ZenonT(40)

\* How far ADD and DEL have come: DEL has removed everything behind the plugin
\* of its current round, ADD has set up everything before it.
ChainInv ==
    \A v \in Vm : \E n \in 0..Plugins :
        /\ added[v] = 1..n
        /\ pc[v] \in {"del", "undo_net"} => n <= Plugins + 1 - k[v]
        /\ pc[v] = "add" => k[v] - 1 <= n
        /\ pc[v] = "add" /\ v \notin Forced => n = k[v] - 1

\* A vector of cleanup functions, which is run from the back, unmounts before
\* it removes the file.
FileFirst(s) == \A i, j \in 1..Len(s) : i < j /\ s[i] = "mount" => s[j] # "file"

\* What a function of the Machine will still remove, or is known to be left.
Held(v) == SeqRange(made[v]) \cup SeqRange(cleanups[v]) \cup left[v]

\* Where the functions are, and that none is missing.
Accounted(v) ==
    /\ pc[v] \notin {"up", "undo_net"} => cleanups[v] = <<>>
    /\ pc[v] \in {"down", "up", "undo_net"} => made[v] = <<>>
    /\ pc[v] \in {"parent", "mkdir", "create"} => "mount" \notin SeqRange(made[v])
    /\ FileFirst(made[v]) /\ FileFirst(cleanups[v])
    /\ v \in file => "file" \in Held(v) \/ "mount" \in left[v]
    /\ v \in mount => "mount" \in Held(v)
    /\ added[v] # {} => "net" \in Held(v) \/ pc[v] \in {"add", "undo_net"}

\* The DEL is the last function of a vector.
NetLast(s) == \A i \in 1..Len(s) : s[i] = "net" => i = Len(s)

\* The network is whole from the first plugin of ADD to the last one of DEL.
Whole(v) ==
    /\ "net" \notin SeqRange(made[v])
    /\ NetLast(cleanups[v])
    /\ "net" \in SeqRange(cleanups[v]) => pc[v] = "up" /\ added[v] = 1..Plugins /\ v \in mount
    /\ pc[v] = "undo_net" => v \in mount
    /\ pc[v] = "add" /\ k[v] # 1 => v \in mount

\* The inductive invariant.
IInv == TypeOK /\ ChainInv /\ \A v \in Vm : Accounted(v) /\ Whole(v)

\* A cleanup function only takes host resources away.
LEMMA UndoFacts ==
    ASSUME TypeOK, NEW v \in Vm, NEW r \in Resource, Undo(v, r)
    PROVE  /\ dir' \in BOOLEAN
           /\ file' \subseteq file /\ mount' \subseteq mount
           /\ left' \in [Vm -> SUBSET Resource]
           /\ added' = added
           /\ \A w \in Vm \ {v} : w \in mount => w \in mount'
<1>1. dir' \in BOOLEAN
  BY Zenon DEF TypeOK, Undo
<1>2. file' \subseteq file /\ mount' \subseteq mount /\ added' = added
  BY DEF Undo
<1>3. left' \in [Vm -> SUBSET Resource]
  BY SMTT(40) DEF TypeOK, Undo
<1>4. \A w \in Vm \ {v} : w \in mount => w \in mount'
  BY DEF Undo
<1>5. QED BY <1>1, <1>2, <1>3, <1>4

\* The vectors of cleanup functions hold resources, and popping one keeps that.
LEMMA PoppedType ==
    ASSUME NEW s \in Seq(Resource), s # <<>>
    PROVE  /\ s[Len(s)] \in Resource
           /\ SubSeq(s, 1, Len(s) - 1) \in Seq(Resource)
           /\ Popped(s).func = s[Len(s)]
           /\ Popped(s).rest = SubSeq(s, 1, Len(s) - 1)
<1>1. Len(s) \in Nat \ {0} /\ s[Len(s)] \in Resource
  BY SMTT(40)
<1>2. SubSeq(s, 1, Len(s) - 1) \in Seq(Resource)
  BY <1>1, SMTT(40)
<1>3. QED BY <1>1, <1>2 DEF Popped

\* An error that leaves setup_cni keeps the types.
LEMMA FailFacts ==
    ASSUME TypeOK, NEW v \in Vm, NEW R \in SUBSET Resource, Fail(v, R)
    PROVE  /\ pc' = [pc EXCEPT ![v] = "down"]
           /\ made' \in [Vm -> Seq(Resource)]
           /\ left' \in [Vm -> SUBSET Resource]
           /\ UNCHANGED <<k, cleanups, runs>>
<1>1. made[v] \in Seq(Resource)
  BY DEF TypeOK
<1>2. SeqRange(made[v]) \subseteq Resource
  BY <1>1, SMTT(40) DEF SeqRange
<1>3. left[v] \cup SeqRange(made[v]) \cup R \in SUBSET Resource
  BY <1>2 DEF TypeOK
<1>4. left' \in [Vm -> SUBSET Resource]
  BY <1>3 DEF Fail, TypeOK
<1>5. made' \in [Vm -> Seq(Resource)]
  BY SMTT(40) DEF Fail, TypeOK
<1>6. QED BY <1>4, <1>5 DEF Fail, Goto

\* No step leaves the types.
LEMMA TypePreserved == IInv /\ [Next]_vars => TypeOK'
<1> SUFFICES ASSUME IInv, [Next]_vars PROVE TypeOK'
  OBVIOUS
<1>a. TypeOK
  BY DEF IInv
<1> USE PluginsAssumption, MaxRunsAssumption DEF hostVars, Goto, FirstRound, NextRound, InChain
<1>1. ASSUME NEW v \in Vm, SetupNetwork(v) PROVE TypeOK'
  <2>1. runs' \in [Vm -> 0..MaxRuns]
    BY <1>a, <1>1, SMTT(40) DEF SetupNetwork, TypeOK
  <2>2. CASE v \in file
    <3>1. pc' = [pc EXCEPT ![v] = "del"] /\ k' = [k EXCEPT ![v] = 1] /\ UNCHANGED <<hostVars, made, cleanups, left>>
      BY <2>2, <1>1 DEF SetupNetwork
    <3>2. QED BY <1>a, <2>1, <3>1, SMTT(40) DEF TypeOK
  <2>3. CASE v \notin file
    <3>1. pc' = [pc EXCEPT ![v] = "parent"] /\ UNCHANGED <<k, hostVars, made, cleanups, left>>
      BY <2>3, <1>1 DEF SetupNetwork
    <3>2. QED BY <1>a, <2>1, <3>1 DEF TypeOK
  <2>4. QED BY <2>2, <2>3
<1>2. ASSUME NEW v \in Vm, CheckParent(v) PROVE TypeOK'
  BY <1>a, <1>2 DEF CheckParent, TypeOK
<1>3. ASSUME NEW v \in Vm, CreateParent(v) PROVE TypeOK'
  <2>1. CASE Fail(v, {})
    <3>1. /\ pc' = [pc EXCEPT ![v] = "down"] /\ made' \in [Vm -> Seq(Resource)]
          /\ left' \in [Vm -> SUBSET Resource] /\ UNCHANGED <<k, cleanups, runs>>
      BY <1>a, <2>1, FailFacts DEF Resource
    <3>2. /\ dir' \in BOOLEAN /\ file' \subseteq Vm /\ mount' = mount
          /\ added' \in [Vm -> SUBSET (1..Plugins)]
      BY <1>a, <1>3 DEF CreateParent, TypeOK
    <3>3. QED BY <1>a, <3>1, <3>2 DEF TypeOK
  <2>2. CASE /\ dir' = TRUE /\ Made(v, "dir") /\ Goto(v, "create")
             /\ UNCHANGED <<k, cleanups, left, runs>>
    <3>1. made' \in [Vm -> Seq(Resource)]
      BY <1>a, <2>2, SMTT(40) DEF Made, TypeOK, Resource
    <3>2. UNCHANGED <<file, mount, added>>
      BY <1>3 DEF CreateParent
    <3>3. QED BY <1>a, <2>2, <3>1, <3>2 DEF TypeOK
  <2>3. QED BY <2>1, <2>2, <1>3 DEF CreateParent
<1>4. ASSUME NEW v \in Vm, CreateFile(v) PROVE TypeOK'
  <2>1. CASE Fail(v, {})
    <3>1. /\ pc' = [pc EXCEPT ![v] = "down"] /\ made' \in [Vm -> Seq(Resource)]
          /\ left' \in [Vm -> SUBSET Resource] /\ UNCHANGED <<k, cleanups, runs>>
      BY <1>a, <2>1, FailFacts DEF Resource
    <3>2. /\ dir' \in BOOLEAN /\ file' \subseteq Vm /\ mount' = mount
          /\ added' \in [Vm -> SUBSET (1..Plugins)]
      BY <1>a, <1>4 DEF CreateFile, TypeOK
    <3>3. QED BY <1>a, <3>1, <3>2 DEF TypeOK
  <2>2. CASE /\ file' = file \cup {v} /\ Made(v, "file") /\ Goto(v, "mount")
             /\ UNCHANGED <<k, cleanups, left, runs>>
    <3>1. made' \in [Vm -> Seq(Resource)]
      BY <1>a, <2>2, SMTT(40) DEF Made, TypeOK, Resource
    <3>2. UNCHANGED <<dir, mount, added>>
      BY <1>4 DEF CreateFile
    <3>3. QED BY <1>a, <2>2, <3>1, <3>2 DEF TypeOK
  <2>3. QED BY <2>1, <2>2, <1>4 DEF CreateFile
<1>5. ASSUME NEW v \in Vm, MountNetns(v) PROVE TypeOK'
  <2>1. made' \in [Vm -> Seq(Resource)]
    BY <1>a, <1>5, SMTT(40) DEF MountNetns, Made, TypeOK, Resource
  <2>2. QED BY <1>a, <2>1, <1>5, SMTT(40) DEF MountNetns, TypeOK
<1>6. ASSUME NEW v \in Vm, MountFails(v) PROVE TypeOK'
  BY <1>a, <1>6 DEF MountFails, TypeOK
<1>7. ASSUME NEW v \in Vm, Rollback(v) PROVE TypeOK'
  <2>1. /\ made[v] \in Seq(Resource) /\ made[v] # <<>>
        /\ Undo(v, made[v][Len(made[v])])
    BY <1>a, <1>7 DEF Rollback, TypeOK
  <2>2. made[v][Len(made[v])] \in Resource /\ SubSeq(made[v], 1, Len(made[v]) - 1) \in Seq(Resource)
    BY <2>1, PoppedType
  <2>3. /\ dir' \in BOOLEAN /\ file' \subseteq file /\ mount' \subseteq mount
        /\ left' \in [Vm -> SUBSET Resource] /\ added' = added
    BY <1>a, <2>1, <2>2, UndoFacts
  <2>4. QED BY <1>a, <2>2, <2>3, <1>7 DEF Rollback, TypeOK
<1>8. ASSUME NEW v \in Vm, RollbackDone(v) PROVE TypeOK'
  BY <1>a, <1>8 DEF RollbackDone, TypeOK
<1>9. ASSUME NEW v \in Vm, DelPlugin(v) PROVE TypeOK'
  <2>1. k[v] + 1 \in 1..(Plugins + 1)
    BY <1>a, <1>9, SMTT(40) DEF DelPlugin, TypeOK
  <2>2. QED BY <1>a, <2>1, <1>9 DEF DelPlugin, TypeOK
<1>10. ASSUME NEW v \in Vm, DelFails(v) PROVE TypeOK'
  <2>1. CASE Fail(v, {})
    <3>1. /\ pc' = [pc EXCEPT ![v] = "down"] /\ made' \in [Vm -> Seq(Resource)]
          /\ left' \in [Vm -> SUBSET Resource] /\ UNCHANGED <<k, cleanups, runs>>
      BY <1>a, <2>1, FailFacts DEF Resource
    <3>2. /\ dir' \in BOOLEAN /\ file' \subseteq Vm /\ mount' = mount
          /\ added' \in [Vm -> SUBSET (1..Plugins)]
      BY <1>a, <1>10 DEF DelFails, TypeOK
    <3>3. QED BY <1>a, <3>1, <3>2 DEF TypeOK
  <2>2. CASE Proceeds(v)
    <3>1. pc' = [pc EXCEPT ![v] = "add"] /\ k' = [k EXCEPT ![v] = 1] /\ UNCHANGED <<made, cleanups, left, runs>>
      BY <2>2, <1>10 DEF DelFails
    <3>2. added' \in [Vm -> SUBSET (1..Plugins)] /\ UNCHANGED <<dir, file, mount>>
      BY <1>a, <1>10 DEF DelFails, TypeOK
    <3>3. k' \in [Vm -> 1..(Plugins + 1)]
      BY <1>a, <3>1, SMTT(40) DEF TypeOK
    <3>4. dir' \in BOOLEAN /\ file' \subseteq Vm /\ mount' \subseteq Vm
      BY <1>a, <3>2, Zenon DEF TypeOK
    <3>5. QED BY <1>a, <3>1, <3>2, <3>3, <3>4 DEF TypeOK
  <2>3. QED BY <2>1, <2>2, <1>10 DEF DelFails
<1>11. ASSUME NEW v \in Vm, DelDone(v) PROVE TypeOK'
  BY <1>a, <1>11, SMTT(40) DEF DelDone, TypeOK
<1>12. ASSUME NEW v \in Vm, AddPlugin(v) PROVE TypeOK'
  <2>1. k[v] + 1 \in 1..(Plugins + 1)
    BY <1>a, <1>12, SMTT(40) DEF AddPlugin, TypeOK
  <2>2. QED BY <1>a, <2>1, <1>12, SMTT(40) DEF AddPlugin, TypeOK
<1>13. ASSUME NEW v \in Vm, AddFails(v) PROVE TypeOK'
  <2>1. CASE Fail(v, {"net"})
    <3>1. /\ pc' = [pc EXCEPT ![v] = "down"] /\ made' \in [Vm -> Seq(Resource)]
          /\ left' \in [Vm -> SUBSET Resource] /\ UNCHANGED <<k, cleanups, runs>>
      BY <1>a, <2>1, FailFacts DEF Resource
    <3>2. /\ dir' \in BOOLEAN /\ file' \subseteq Vm /\ mount' = mount
          /\ added' \in [Vm -> SUBSET (1..Plugins)]
      BY <1>a, <1>13, SMTT(40) DEF AddFails, TypeOK
    <3>3. QED BY <1>a, <3>1, <3>2 DEF TypeOK
  <2>2. QED BY <2>1, <1>13 DEF AddFails
<1>14. ASSUME NEW v \in Vm, ApplyCniResult(v) PROVE TypeOK'
  <2>1. cleanups[v] \o Returned(made[v]) \in Seq(Resource)
    BY <1>a, SMTT(40) DEF TypeOK, Resource, Returned
  <2>2. QED BY <1>a, <2>1, <1>14, SMTT(40) DEF ApplyCniResult, TypeOK
<1>15. ASSUME NEW v \in Vm, ApplyFails(v) PROVE TypeOK'
  <2>1. CASE Fail(v, {"net"})
    <3>1. /\ pc' = [pc EXCEPT ![v] = "down"] /\ made' \in [Vm -> Seq(Resource)]
          /\ left' \in [Vm -> SUBSET Resource] /\ UNCHANGED <<k, cleanups, runs>>
      BY <1>a, <2>1, FailFacts DEF Resource
    <3>2. /\ dir' \in BOOLEAN /\ file' \subseteq Vm /\ mount' = mount
          /\ added' \in [Vm -> SUBSET (1..Plugins)]
      BY <1>a, <1>15 DEF ApplyFails, TypeOK
    <3>3. QED BY <1>a, <3>1, <3>2 DEF TypeOK
  <2>2. QED BY <2>1, <1>15 DEF ApplyFails
<1>16. ASSUME NEW v \in Vm, DoCleanup(v) PROVE TypeOK'
  <2> DEFINE p == Popped(cleanups[v])
  <2>1. p.func \in Resource /\ p.rest \in Seq(Resource)
    BY <1>a, <1>16, PoppedType DEF DoCleanup, TypeOK
  <2> HIDE DEF p
  <2>2. cleanups' \in [Vm -> Seq(Resource)] /\ UNCHANGED <<made, runs>>
    BY <1>a, <2>1, <1>16 DEF DoCleanup, TypeOK, p
  <2>3. CASE p.func = "net"
    <3>1. pc' = [pc EXCEPT ![v] = "undo_net"] /\ k' = [k EXCEPT ![v] = 1] /\ UNCHANGED <<hostVars, left>>
      BY <2>3, <1>16 DEF DoCleanup, p
    <3>2. QED BY <1>a, <2>2, <3>1, SMTT(40) DEF TypeOK
  <2>4. CASE p.func # "net"
    <3>1. Undo(v, p.func) /\ UNCHANGED <<pc, k>>
      BY <2>4, <1>16 DEF DoCleanup, p
    <3>2. /\ dir' \in BOOLEAN /\ file' \subseteq file /\ mount' \subseteq mount
          /\ left' \in [Vm -> SUBSET Resource] /\ added' = added
      BY <1>a, <2>1, <3>1, UndoFacts
    <3>3. QED BY <1>a, <2>2, <3>1, <3>2 DEF TypeOK
  <2>5. QED BY <2>3, <2>4
<1>17. ASSUME NEW v \in Vm, CleanupDone(v) PROVE TypeOK'
  BY <1>a, <1>17 DEF CleanupDone, TypeOK
<1>18. ASSUME NEW v \in Vm, UndoNetDone(v) PROVE TypeOK'
  BY <1>a, <1>18 DEF UndoNetDone, TypeOK
<1>19. ASSUME NEW v \in Vm, UndoNetFails(v) PROVE TypeOK'
  <2>1. left' \in [Vm -> SUBSET Resource]
    BY <1>a, <1>19 DEF UndoNetFails, TypeOK, Resource
  <2>2. added' \in [Vm -> SUBSET (1..Plugins)]
    BY <1>a, <1>19 DEF UndoNetFails, TypeOK
  <2>3. QED BY <1>a, <2>1, <2>2, <1>19 DEF UndoNetFails, TypeOK
<1>20. ASSUME NEW v \in Vm, Crash(v) PROVE TypeOK'
  <2>1. left' \in [Vm -> SUBSET Resource]
    BY <1>a, <1>20 DEF Crash, TypeOK, Resource
  <2>2. QED BY <1>a, <2>1, <1>20, SMTT(40) DEF Crash, TypeOK
<1>21. ASSUME UNCHANGED vars PROVE TypeOK'
  BY <1>a, <1>21 DEF vars, TypeOK
<1>22. QED
  BY <1>1, <1>2, <1>3, <1>4, <1>5, <1>6, <1>7, <1>8, <1>9, <1>10, <1>11,
     <1>12, <1>13, <1>14, <1>15, <1>16, <1>17, <1>18, <1>19, <1>20, <1>21 DEF Next

\* Every step of ADD and DEL, also one that fails, keeps the chain in order.
LEMMA ChainPreserved == IInv /\ [Next]_vars => ChainInv'
<1> SUFFICES ASSUME IInv, [Next]_vars PROVE ChainInv'
  OBVIOUS
<1> DEFINE Place(v, n) ==
             /\ added[v] = 1..n
             /\ pc[v] \in {"del", "undo_net"} => n <= Plugins + 1 - k[v]
             /\ pc[v] = "add" => k[v] - 1 <= n
             /\ pc[v] = "add" /\ v \notin Forced => n = k[v] - 1
<1>a. \A v \in Vm : \E n \in 0..Plugins : Place(v, n)
  BY DEF IInv, ChainInv
<1>b. /\ k \in [Vm -> 1..(Plugins + 1)] /\ added \in [Vm -> SUBSET (1..Plugins)]
      /\ pc \in [Vm -> {"down", "parent", "mkdir", "create", "mount", "rollback",
                        "del", "add", "up", "undo_net"}]
  BY DEF IInv, TypeOK
<1>c. ASSUME NEW v \in Vm, \E n \in 0..Plugins : Place(v, n)',
             \A w \in Vm \ {v} : UNCHANGED <<added[w], pc[w], k[w]>>
      PROVE  ChainInv'
  BY <1>a, <1>c DEF ChainInv
<1> USE PluginsAssumption DEF hostVars, Goto, FirstRound, NextRound, InChain
<1>1. ASSUME NEW v \in Vm, SetupNetwork(v) PROVE ChainInv'
  <2>1. added' = added /\ (pc'[v] = "parent" \/ (pc'[v] = "del" /\ k'[v] = 1))
    BY <1>b, <1>1 DEF SetupNetwork
  <2>2. \A w \in Vm \ {v} : UNCHANGED <<added[w], pc[w], k[w]>>
    BY <1>b, <1>1 DEF SetupNetwork
  <2>3. PICK n \in 0..Plugins : added[v] = 1..n
    BY <1>a
  <2>4. Place(v, n)'
    BY <2>1, <2>3, SMTT(40)
  <2>5. QED BY <1>c, <2>2, <2>4
<1>2. ASSUME NEW v \in Vm, CheckParent(v) PROVE ChainInv'
  <2>1. added' = added /\ pc'[v] \notin {"del", "undo_net", "add"}
    BY <1>b, <1>2 DEF CheckParent, Fail
  <2>2. \A w \in Vm \ {v} : UNCHANGED <<added[w], pc[w], k[w]>>
    BY <1>b, <1>2 DEF CheckParent, Fail
  <2>3. PICK n \in 0..Plugins : added[v] = 1..n
    BY <1>a
  <2>4. Place(v, n)'
    BY <2>1, <2>3
  <2>5. QED BY <1>c, <2>2, <2>4
<1>3. ASSUME NEW v \in Vm, CreateParent(v) PROVE ChainInv'
  <2>1. added' = added /\ pc'[v] \notin {"del", "undo_net", "add"}
    BY <1>b, <1>3 DEF CreateParent, Fail, Made
  <2>2. \A w \in Vm \ {v} : UNCHANGED <<added[w], pc[w], k[w]>>
    BY <1>b, <1>3 DEF CreateParent, Fail, Made
  <2>3. PICK n \in 0..Plugins : added[v] = 1..n
    BY <1>a
  <2>4. Place(v, n)'
    BY <2>1, <2>3
  <2>5. QED BY <1>c, <2>2, <2>4
<1>4. ASSUME NEW v \in Vm, CreateFile(v) PROVE ChainInv'
  <2>1. added' = added /\ pc'[v] \notin {"del", "undo_net", "add"}
    BY <1>b, <1>4 DEF CreateFile, Fail, Made
  <2>2. \A w \in Vm \ {v} : UNCHANGED <<added[w], pc[w], k[w]>>
    BY <1>b, <1>4 DEF CreateFile, Fail, Made
  <2>3. PICK n \in 0..Plugins : added[v] = 1..n
    BY <1>a
  <2>4. Place(v, n)'
    BY <2>1, <2>3
  <2>5. QED BY <1>c, <2>2, <2>4
<1>5. ASSUME NEW v \in Vm, MountNetns(v) PROVE ChainInv'
  <2>1. added' = added /\ k'[v] = 1 /\ pc'[v] = "del"
    BY <1>b, <1>5 DEF MountNetns
  <2>2. \A w \in Vm \ {v} : UNCHANGED <<added[w], pc[w], k[w]>>
    BY <1>b, <1>5 DEF MountNetns
  <2>3. PICK n \in 0..Plugins : added[v] = 1..n
    BY <1>a
  <2>4. Place(v, n)'
    BY <2>1, <2>3, SMTT(40)
  <2>5. QED BY <1>c, <2>2, <2>4
<1>6. ASSUME NEW v \in Vm, MountFails(v) PROVE ChainInv'
  <2>1. added' = added /\ pc'[v] \notin {"del", "undo_net", "add"}
    BY <1>b, <1>6 DEF MountFails, Fail
  <2>2. \A w \in Vm \ {v} : UNCHANGED <<added[w], pc[w], k[w]>>
    BY <1>b, <1>6 DEF MountFails, Fail
  <2>3. PICK n \in 0..Plugins : added[v] = 1..n
    BY <1>a
  <2>4. Place(v, n)'
    BY <2>1, <2>3
  <2>5. QED BY <1>c, <2>2, <2>4
<1>7. ASSUME NEW v \in Vm, Rollback(v) PROVE ChainInv'
  <2>1. added' = added /\ UNCHANGED <<pc, k>>
    BY <1>7 DEF Rollback, Undo
  <2>2. QED BY <1>a, <2>1 DEF ChainInv
<1>8. ASSUME NEW v \in Vm, RollbackDone(v) PROVE ChainInv'
  <2>1. added' = added /\ pc'[v] \notin {"del", "undo_net", "add"}
    BY <1>b, <1>8 DEF RollbackDone, Fail
  <2>2. \A w \in Vm \ {v} : UNCHANGED <<added[w], pc[w], k[w]>>
    BY <1>b, <1>8 DEF RollbackDone, Fail
  <2>3. PICK n \in 0..Plugins : added[v] = 1..n
    BY <1>a
  <2>4. Place(v, n)'
    BY <2>1, <2>3
  <2>5. QED BY <1>c, <2>2, <2>4
<1>9. ASSUME NEW v \in Vm, DelPlugin(v) PROVE ChainInv'
  <2>1. PICK n \in 0..Plugins : Place(v, n)
    BY <1>a
  <2>2. /\ pc[v] \in {"del", "undo_net"} /\ k[v] <= Plugins /\ pc' = pc
        /\ added'[v] = added[v] \ {Plugins + 1 - k[v]} /\ k'[v] = k[v] + 1
    BY <1>b, <1>9 DEF DelPlugin, DelTurn
  <2>3. \A w \in Vm \ {v} : UNCHANGED <<added[w], pc[w], k[w]>>
    BY <1>b, <1>9 DEF DelPlugin
  <2>4. n <= Plugins + 1 - k[v] /\ k[v] \in 1..Plugins
    BY <1>b, <2>1, <2>2, SMTT(40)
  <2>5. PICK j \in 0..Plugins : /\ j <= Plugins + 1 - (k[v] + 1)
                                /\ (1..n) \ {Plugins + 1 - k[v]} = 1..j
    <3>1. CASE n = Plugins + 1 - k[v]
      <4>1. n - 1 \in 0..Plugins /\ (1..n) \ {n} = 1..(n - 1)
        BY <2>4, <3>1, SMTT(40)
      <4>2. QED BY <2>4, <3>1, <4>1, SMTT(40)
    <3>2. CASE n # Plugins + 1 - k[v]
      BY <2>4, <3>2, SMTT(40)
    <3>3. QED BY <3>1, <3>2
  <2>6. Place(v, j)'
    BY <2>1, <2>2, <2>5
  <2>7. QED BY <1>c, <2>3, <2>6
<1>10. ASSUME NEW v \in Vm, DelFails(v) PROVE ChainInv'
  <2>1. PICK n \in 0..Plugins : Place(v, n)
    BY <1>a
  <2>2. PICK p \in {{}, {Plugins + 1 - k[v]}} : added'[v] = added[v] \ p
    BY <1>b, <1>10 DEF DelFails, DelTurn
  <2>3. /\ pc[v] = "del" /\ k[v] <= Plugins
        /\ pc'[v] = "down" \/ (pc'[v] = "add" /\ v \in Forced /\ k'[v] = 1)
    BY <1>b, <1>10 DEF DelFails, Fail, Proceeds
  <2>4. \A w \in Vm \ {v} : UNCHANGED <<added[w], pc[w], k[w]>>
    BY <1>b, <1>10 DEF DelFails, Fail, Proceeds
  <2>5. n <= Plugins + 1 - k[v] /\ k[v] \in 1..Plugins
    BY <1>b, <2>1, <2>3, SMTT(40)
  <2>6. PICK j \in 0..Plugins : (1..n) \ p = 1..j
    <3>1. CASE p = {}
      BY <3>1
    <3>2. CASE p # {} /\ n = Plugins + 1 - k[v]
      <4>1. n - 1 \in 0..Plugins /\ (1..n) \ {n} = 1..(n - 1)
        BY <2>5, <3>2, SMTT(40)
      <4>2. QED BY <2>2, <3>2, <4>1
    <3>3. CASE p # {} /\ n < Plugins + 1 - k[v]
      BY <2>2, <2>5, <3>3, SMTT(40)
    <3>4. QED BY <2>5, <3>1, <3>2, <3>3, SMTT(40)
  <2>7. Place(v, j)'
    BY <2>1, <2>2, <2>3, <2>6, SMTT(40)
  <2>8. QED BY <1>c, <2>4, <2>7
<1>11. ASSUME NEW v \in Vm, DelDone(v) PROVE ChainInv'
  <2>1. added' = added /\ k'[v] = 1 /\ pc'[v] = "add" /\ pc[v] = "del" /\ ~(k[v] <= Plugins)
    BY <1>b, <1>11 DEF DelDone
  <2>2. \A w \in Vm \ {v} : UNCHANGED <<added[w], pc[w], k[w]>>
    BY <1>b, <1>11 DEF DelDone
  <2>3. PICK n \in 0..Plugins : Place(v, n)
    BY <1>a
  <2>4. n = 0
    BY <1>b, <2>1, <2>3, SMTT(40)
  <2>5. Place(v, n)'
    BY <2>1, <2>3, <2>4, SMTT(40)
  <2>6. QED BY <1>c, <2>2, <2>5
<1>12. ASSUME NEW v \in Vm, AddPlugin(v) PROVE ChainInv'
  <2>1. PICK n \in 0..Plugins : Place(v, n)
    BY <1>a
  <2>2. /\ pc[v] = "add" /\ k[v] \in 1..Plugins /\ pc' = pc
        /\ added'[v] = added[v] \cup {k[v]} /\ k'[v] = k[v] + 1
    BY <1>b, <1>12, SMTT(40) DEF AddPlugin
  <2>3. \A w \in Vm \ {v} : UNCHANGED <<added[w], pc[w], k[w]>>
    BY <1>b, <1>12 DEF AddPlugin
  <2>4. PICK j \in 0..Plugins : /\ k[v] <= j /\ (v \notin Forced => j = k[v])
                                /\ (1..n) \cup {k[v]} = 1..j
    <3>1. CASE n = k[v] - 1
      <4>1. n + 1 \in 0..Plugins /\ (1..n) \cup {n + 1} = 1..(n + 1)
        BY <2>2, <3>1, SMTT(40)
      <4>2. QED BY <2>2, <3>1, <4>1, SMTT(40)
    <3>2. CASE n # k[v] - 1
      BY <2>1, <2>2, <3>2, SMTT(40)
    <3>3. QED BY <3>1, <3>2
  <2>5. Place(v, j)'
    BY <2>1, <2>2, <2>4, SMTT(40)
  <2>6. QED BY <1>c, <2>3, <2>5
<1>13. ASSUME NEW v \in Vm, AddFails(v) PROVE ChainInv'
  <2>1. PICK n \in 0..Plugins : Place(v, n)
    BY <1>a
  <2>2. PICK p \in {{}, {k[v]}} : added'[v] = added[v] \cup p
    BY <1>b, <1>13 DEF AddFails
  <2>3. pc[v] = "add" /\ k[v] \in 1..Plugins /\ pc'[v] = "down"
    BY <1>b, <1>13, SMTT(40) DEF AddFails, Fail
  <2>4. \A w \in Vm \ {v} : UNCHANGED <<added[w], pc[w], k[w]>>
    BY <1>b, <1>13 DEF AddFails, Fail
  <2>5. PICK j \in 0..Plugins : (1..n) \cup p = 1..j
    <3>1. CASE p # {} /\ n = k[v] - 1
      <4>1. n + 1 \in 0..Plugins /\ (1..n) \cup {n + 1} = 1..(n + 1)
        BY <2>3, <3>1, SMTT(40)
      <4>2. QED BY <2>2, <2>3, <3>1, <4>1, SMTT(40)
    <3>2. CASE p # {} /\ n # k[v] - 1
      BY <2>1, <2>2, <2>3, <3>2, SMTT(40)
    <3>3. CASE p = {}
      BY <3>3
    <3>4. QED BY <3>1, <3>2, <3>3
  <2>6. Place(v, j)'
    BY <2>1, <2>2, <2>3, <2>5
  <2>7. QED BY <1>c, <2>4, <2>6
<1>14. ASSUME NEW v \in Vm, ApplyCniResult(v) PROVE ChainInv'
  <2>1. added' = added /\ pc'[v] \notin {"del", "undo_net", "add"}
    BY <1>b, <1>14 DEF ApplyCniResult, Fail
  <2>2. \A w \in Vm \ {v} : UNCHANGED <<added[w], pc[w], k[w]>>
    BY <1>b, <1>14 DEF ApplyCniResult, Fail
  <2>3. PICK n \in 0..Plugins : added[v] = 1..n
    BY <1>a
  <2>4. Place(v, n)'
    BY <2>1, <2>3
  <2>5. QED BY <1>c, <2>2, <2>4
<1>15. ASSUME NEW v \in Vm, ApplyFails(v) PROVE ChainInv'
  <2>1. added' = added /\ pc'[v] \notin {"del", "undo_net", "add"}
    BY <1>b, <1>15 DEF ApplyFails, Fail
  <2>2. \A w \in Vm \ {v} : UNCHANGED <<added[w], pc[w], k[w]>>
    BY <1>b, <1>15 DEF ApplyFails, Fail
  <2>3. PICK n \in 0..Plugins : added[v] = 1..n
    BY <1>a
  <2>4. Place(v, n)'
    BY <2>1, <2>3
  <2>5. QED BY <1>c, <2>2, <2>4
<1>16. ASSUME NEW v \in Vm, DoCleanup(v) PROVE ChainInv'
  <2>1. /\ added' = added
        /\ pc'[v] = "up" \/ (pc'[v] = "undo_net" /\ k'[v] = 1)
    BY <1>b, <1>16 DEF DoCleanup, Undo
  <2>2. \A w \in Vm \ {v} : UNCHANGED <<added[w], pc[w], k[w]>>
    BY <1>b, <1>16 DEF DoCleanup, Undo
  <2>3. PICK n \in 0..Plugins : added[v] = 1..n
    BY <1>a
  <2>4. Place(v, n)'
    BY <2>1, <2>3, SMTT(40)
  <2>5. QED BY <1>c, <2>2, <2>4
<1>17. ASSUME NEW v \in Vm, CleanupDone(v) PROVE ChainInv'
  <2>1. added' = added /\ pc'[v] \notin {"del", "undo_net", "add"}
    BY <1>b, <1>17 DEF CleanupDone, Fail
  <2>2. \A w \in Vm \ {v} : UNCHANGED <<added[w], pc[w], k[w]>>
    BY <1>b, <1>17 DEF CleanupDone, Fail
  <2>3. PICK n \in 0..Plugins : added[v] = 1..n
    BY <1>a
  <2>4. Place(v, n)'
    BY <2>1, <2>3
  <2>5. QED BY <1>c, <2>2, <2>4
<1>18. ASSUME NEW v \in Vm, UndoNetDone(v) PROVE ChainInv'
  <2>1. added' = added /\ pc'[v] \notin {"del", "undo_net", "add"}
    BY <1>b, <1>18 DEF UndoNetDone, Fail
  <2>2. \A w \in Vm \ {v} : UNCHANGED <<added[w], pc[w], k[w]>>
    BY <1>b, <1>18 DEF UndoNetDone, Fail
  <2>3. PICK n \in 0..Plugins : added[v] = 1..n
    BY <1>a
  <2>4. Place(v, n)'
    BY <2>1, <2>3
  <2>5. QED BY <1>c, <2>2, <2>4
<1>19. ASSUME NEW v \in Vm, UndoNetFails(v) PROVE ChainInv'
  <2>1. PICK n \in 0..Plugins : Place(v, n)
    BY <1>a
  <2>2. PICK p \in {{}, {Plugins + 1 - k[v]}} : added'[v] = added[v] \ p
    BY <1>b, <1>19 DEF UndoNetFails, DelTurn
  <2>3. /\ pc[v] = "undo_net" /\ k[v] <= Plugins
        /\ pc'[v] = "up"
    BY <1>b, <1>19 DEF UndoNetFails, Fail, Proceeds
  <2>4. \A w \in Vm \ {v} : UNCHANGED <<added[w], pc[w], k[w]>>
    BY <1>b, <1>19 DEF UndoNetFails, Fail, Proceeds
  <2>5. n <= Plugins + 1 - k[v] /\ k[v] \in 1..Plugins
    BY <1>b, <2>1, <2>3, SMTT(40)
  <2>6. PICK j \in 0..Plugins : (1..n) \ p = 1..j
    <3>1. CASE p = {}
      BY <3>1
    <3>2. CASE p # {} /\ n = Plugins + 1 - k[v]
      <4>1. n - 1 \in 0..Plugins /\ (1..n) \ {n} = 1..(n - 1)
        BY <2>5, <3>2, SMTT(40)
      <4>2. QED BY <2>2, <3>2, <4>1
    <3>3. CASE p # {} /\ n < Plugins + 1 - k[v]
      BY <2>2, <2>5, <3>3, SMTT(40)
    <3>4. QED BY <2>5, <3>1, <3>2, <3>3, SMTT(40)
  <2>7. Place(v, j)'
    BY <2>1, <2>2, <2>3, <2>6
  <2>8. QED BY <1>c, <2>4, <2>7
<1>20. ASSUME NEW v \in Vm, Crash(v) PROVE ChainInv'
  <2>1. added' = added /\ pc'[v] \notin {"del", "undo_net", "add"}
    BY <1>b, <1>20 DEF Crash, Fail
  <2>2. \A w \in Vm \ {v} : UNCHANGED <<added[w], pc[w], k[w]>>
    BY <1>b, <1>20 DEF Crash, Fail
  <2>3. PICK n \in 0..Plugins : added[v] = 1..n
    BY <1>a
  <2>4. Place(v, n)'
    BY <2>1, <2>3
  <2>5. QED BY <1>c, <2>2, <2>4
<1>21. ASSUME UNCHANGED vars PROVE ChainInv'
  BY <1>a, <1>21 DEF vars, ChainInv
<1>22. QED
  BY <1>1, <1>2, <1>3, <1>4, <1>5, <1>6, <1>7, <1>8, <1>9, <1>10, <1>11,
     <1>12, <1>13, <1>14, <1>15, <1>16, <1>17, <1>18, <1>19, <1>20, <1>21 DEF Next

-----------------------------------------------------------------------------
(* What is left on the host                                                *)

\* A function that is pushed.
LEMMA Pushed ==
    ASSUME NEW s \in Seq(Resource), NEW r \in Resource
    PROVE  /\ Append(s, r) \in Seq(Resource)
           /\ SeqRange(Append(s, r)) = SeqRange(s) \cup {r}
           /\ FileFirst(s) /\ (r = "file" => "mount" \notin SeqRange(s))
                => FileFirst(Append(s, r))
<1>1. PICK n \in Nat : n = Len(s)
  BY SMTT(40)
<1>2. PICK t \in Seq(Resource) : t = Append(s, r)
  BY AppendProperties
<1>3. /\ Len(t) = n + 1 /\ DOMAIN t = 1..(n + 1) /\ DOMAIN s = 1..n
      /\ t[n + 1] = r /\ \A i \in 1..n : t[i] = s[i]
  BY <1>1, <1>2, AppendProperties, SMTT(40)
<1>4. SeqRange(t) = SeqRange(s) \cup {r}
  BY <1>3, SMTT(40) DEF SeqRange
<1>5. ASSUME FileFirst(s), r = "file" => "mount" \notin SeqRange(s) PROVE FileFirst(t)
  <2> SUFFICES ASSUME NEW i \in 1..(n + 1), NEW j \in 1..(n + 1), i < j, t[i] = "mount"
               PROVE  t[j] # "file"
    BY <1>3 DEF FileFirst
  <2>1. i \in 1..n /\ s[i] = "mount" /\ "mount" \in SeqRange(s)
    BY <1>3, SMTT(40) DEF SeqRange
  <2>2. CASE j = n + 1
    BY <1>3, <1>5, <2>1, <2>2
  <2>3. CASE j \in 1..n
    BY <1>1, <1>3, <1>5, <2>1, <2>3 DEF FileFirst
  <2>4. QED BY <2>2, <2>3, SMTT(40)
<1>6. QED BY <1>2, <1>4, <1>5

\* The function that is popped.
LEMMA PopFacts ==
    ASSUME NEW s \in Seq(Resource), s # <<>>
    PROVE  \E t \in Seq(Resource), z \in Resource :
             /\ t = SubSeq(s, 1, Len(s) - 1) /\ z = s[Len(s)]
             /\ SeqRange(s) = SeqRange(t) \cup {z}
             /\ FileFirst(s) => FileFirst(t)
             /\ FileFirst(s) /\ z = "file" => "mount" \notin SeqRange(s)
<1>1. PICK n \in Nat : n = Len(s) /\ n # 0 /\ DOMAIN s = 1..n
  BY SMTT(40)
<1>2. PICK z \in Resource : z = s[n]
  BY <1>1, SMTT(40)
<1>3. \A i \in 1..n : s[i] \in Resource
  BY <1>1, SMTT(40)
<1>4. PICK t \in Seq(Resource) : t = SubSeq(s, 1, n - 1)
  BY <1>1, PoppedType
<1>5. Len(t) = n - 1 /\ DOMAIN t = 1..(n - 1) /\ \A i \in 1..(n - 1) : t[i] = s[i]
  BY <1>1, <1>4, SMTT(40)
<1>6. SeqRange(s) = SeqRange(t) \cup {z}
  BY <1>1, <1>2, <1>5, SMTT(40) DEF SeqRange
<1>7. ASSUME FileFirst(s) PROVE FileFirst(t)
  BY <1>1, <1>5, <1>7, SMTT(40) DEF FileFirst
<1>8. ASSUME FileFirst(s), z = "file" PROVE "mount" \notin SeqRange(s)
  <2> SUFFICES ASSUME NEW i \in 1..n, s[i] = "mount" PROVE FALSE
    BY <1>1 DEF SeqRange
  <2>1. i # n
    BY <1>2, <1>8
  <2>2. i < n /\ n \in 1..n
    BY <1>1, <2>1, SMTT(40)
  <2>3. QED BY <1>1, <1>2, <1>8, <2>2 DEF FileFirst
<1>9. QED BY <1>1, <1>2, <1>4, <1>6, <1>7, <1>8

\* An empty vector has no function.
LEMMA NoneHeld == SeqRange(<<>>) = {} /\ FileFirst(<<>>) /\ <<>> \in Seq(Resource)
BY SMTT(40) DEF SeqRange, FileFirst

\* A Machine is accounted for while the steps of the others only take away
\* what it may have on the host.
LEMMA OneVm ==
    ASSUME \A w \in Vm : Accounted(w), NEW v \in Vm, Accounted(v)',
           \A w \in Vm \ {v} : /\ UNCHANGED <<pc[w], made[w], cleanups[w], left[w], added[w]>>
                               /\ w \in file' => w \in file
                               /\ w \in mount' => w \in mount
    PROVE  \A w \in Vm : Accounted(w)'
<1> SUFFICES ASSUME NEW w \in Vm \ {v} PROVE Accounted(w)'
  OBVIOUS
<1>1. /\ UNCHANGED <<pc[w], made[w], cleanups[w], left[w], added[w]>>
      /\ w \in file' => w \in file
      /\ w \in mount' => w \in mount
      /\ Accounted(w)
  OBVIOUS
<1>2. Held(w)' = Held(w)
  BY <1>1 DEF Held
<1>3. QED BY <1>1, <1>2 DEF Accounted

\* A step to p that touches no function and adds nothing to the host.
LEMMA Moved ==
    ASSUME NEW v \in Vm, Accounted(v), NEW p, pc'[v] = p,
           UNCHANGED <<file, mount, made[v], cleanups[v], left[v]>>,
           p \notin {"up", "undo_net"} => cleanups[v] = <<>>,
           p \in {"down", "up", "undo_net"} => made[v] = <<>>,
           p \in {"parent", "mkdir", "create"} =>
               made[v] = <<>> \/ pc[v] \in {"parent", "mkdir", "create"},
           added'[v] # {} => added[v] # {} \/ p \in {"add", "undo_net"},
           added'[v] # {} /\ pc[v] \in {"add", "undo_net"} => p \in {"add", "undo_net"}
    PROVE  Accounted(v)'
<1>1. Held(v)' = Held(v) /\ SeqRange(made[v])' = SeqRange(made[v])
  BY DEF Held, SeqRange
<1>2. FileFirst(made[v])' /\ FileFirst(cleanups[v])'
  BY DEF Accounted, FileFirst
<1>3. p \in {"parent", "mkdir", "create"} => "mount" \notin SeqRange(made[v])
  BY NoneHeld DEF Accounted
<1>4. QED BY <1>1, <1>2, <1>3 DEF Accounted

\* A step that makes r and pushes the function for it, before setup_cni is done.
LEMMA MadeOne ==
    ASSUME TypeOK, NEW v \in Vm, Accounted(v), NEW r \in {"dir", "file", "mount"},
           NEW p \in {"create", "mount", "del"}, pc'[v] = p,
           pc[v] \in {"mkdir", "create", "mount"}, r = "mount" => p = "del",
           r = "file" => pc[v] = "create",
           p = "create" => pc[v] = "mkdir",
           made'[v] = Append(made[v], r), UNCHANGED <<cleanups[v], left[v], added[v]>>,
           v \in file' => v \in file \/ r = "file",
           v \in mount' => v \in mount \/ r = "mount"
    PROVE  Accounted(v)'
<1>1. made[v] \in Seq(Resource) /\ r \in Resource
  BY DEF TypeOK, Resource
<1>2. PICK t \in Seq(Resource) : t = Append(made[v], r)
  BY <1>1, Pushed
<1>3. r = "file" => "mount" \notin SeqRange(made[v])
  BY DEF Accounted
<1>4. SeqRange(t) = SeqRange(made[v]) \cup {r} /\ FileFirst(t)
  BY <1>1, <1>2, <1>3, Pushed DEF Accounted
<1>5. made'[v] = t
  BY <1>2
<1>6. Held(v)' = Held(v) \cup {r}
  BY <1>4, <1>5 DEF Held
<1>7. p = "create" => r # "mount" /\ "mount" \notin SeqRange(made[v])
  BY DEF Accounted
<1>8. /\ p \notin {"up", "undo_net", "down"} /\ cleanups[v] = <<>>
      /\ pc[v] \notin {"add", "undo_net"}
      /\ p \in {"parent", "mkdir", "create"} => p = "create"
  BY DEF Accounted
<1>9. QED BY <1>4, <1>5, <1>6, <1>7, <1>8 DEF Accounted

\* An error leaves setup_cni.
LEMMA FailAccounted ==
    ASSUME TypeOK, NEW v \in Vm, Accounted(v), NEW R \in SUBSET Resource, Fail(v, R),
           pc[v] \notin {"up", "undo_net"}, UNCHANGED <<file, mount>>,
           added'[v] # {} => "net" \in R \/ (added[v] # {} /\ pc[v] # "add")
    PROVE  Accounted(v)'
<1>1. /\ pc'[v] = "down" /\ made'[v] = <<>> /\ cleanups'[v] = cleanups[v]
      /\ left'[v] = left[v] \cup SeqRange(made[v]) \cup R
  BY DEF Fail, Goto, TypeOK
<1>2. cleanups[v] = <<>>
  BY DEF Accounted
<1>3. Held(v)' = Held(v) \cup R /\ Held(v) \subseteq left'[v]
  BY <1>1, <1>2, NoneHeld DEF Held
<1>4. "down" \notin {"up", "undo_net", "parent", "mkdir", "create", "add"}
  OBVIOUS
<1>5. pc[v] \notin {"add", "undo_net"} \/ pc[v] = "add"
  OBVIOUS
<1>6. QED BY <1>1, <1>2, <1>3, <1>4, <1>5, NoneHeld DEF Accounted

\* What a cleanup function does for its own Machine.
LEMMA UndoOwn ==
    ASSUME TypeOK, NEW v \in Vm, NEW r \in Resource, Undo(v, r)
    PROVE  /\ left[v] \subseteq left'[v]
           /\ v \in file' => v \in file /\ (r = "file" => "file" \in left'[v] \/ v \in mount)
           /\ v \in mount' => v \in mount /\ (r = "mount" => "mount" \in left'[v])
           /\ added' = added /\ r # "net"
           /\ \A w \in Vm \ {v} : left'[w] = left[w]
<1>1. left' = left \/ left' = [left EXCEPT ![v] = left[v] \cup {r}]
  BY DEF Undo
<1>2. left[v] \subseteq left'[v] /\ \A w \in Vm \ {v} : left'[w] = left[w]
  BY <1>1 DEF TypeOK
<1>3. CASE left' = [left EXCEPT ![v] = left[v] \cup {r}]
  <2>1. r \in left'[v]
    BY <1>3 DEF TypeOK
  <2>2. file' \subseteq file /\ mount' \subseteq mount /\ added' = added /\ r # "net"
    BY DEF Undo
  <2>3. QED BY <1>2, <2>1, <2>2
<1>4. CASE left' = left /\ ~(left' = [left EXCEPT ![v] = left[v] \cup {r}])
  <2>1. \/ r = "mount" /\ mount' = mount \ {v} /\ file' = file
        \/ r = "file" /\ v \notin mount /\ file' = file \ {v} /\ mount' = mount
        \/ r = "file" /\ v \in mount /\ file' = file /\ mount' = mount
        \/ r = "dir" /\ file' = file /\ mount' = mount
    BY <1>4 DEF Undo
  <2>2. added' = added
    BY DEF Undo
  <2>3. QED BY <1>2, <2>1, <2>2
<1>5. QED BY <1>1, <1>3, <1>4

\* A function is popped and run, by the loop after a failed mount or do_cleanup.
LEMMA PopAccounted ==
    ASSUME TypeOK, NEW v \in Vm, Accounted(v),
           NEW s \in Seq(Resource), NEW t \in Seq(Resource), NEW z \in Resource,
           SeqRange(s) = SeqRange(t) \cup {z},
           FileFirst(s) => FileFirst(t),
           FileFirst(s) /\ z = "file" => "mount" \notin SeqRange(s),
           Undo(v, z), pc'[v] = pc[v],
           \/ /\ pc[v] = "rollback" /\ made[v] = s /\ made'[v] = t
              /\ cleanups'[v] = cleanups[v]
           \/ /\ pc[v] = "up" /\ cleanups[v] = s /\ cleanups'[v] = t
              /\ made'[v] = made[v]
    PROVE  Accounted(v)'
<1>1. /\ Held(v) = SeqRange(s) \cup left[v] /\ Held(v)' = SeqRange(t) \cup left'[v]
      /\ FileFirst(s) /\ FileFirst(made[v])' /\ FileFirst(cleanups[v])'
  <2>1. CASE pc[v] = "rollback" /\ made[v] = s /\ made'[v] = t /\ cleanups'[v] = cleanups[v]
    <3>1. cleanups[v] = <<>>
      BY <2>1 DEF Accounted
    <3>2. QED BY <2>1, <3>1, NoneHeld DEF Accounted, Held
  <2>2. CASE pc[v] = "up" /\ cleanups[v] = s /\ cleanups'[v] = t /\ made'[v] = made[v]
    <3>1. made[v] = <<>>
      BY <2>2 DEF Accounted
    <3>2. QED BY <2>2, <3>1, NoneHeld DEF Accounted, Held
  <2>3. QED BY <2>1, <2>2
<1>2. /\ left[v] \subseteq left'[v]
      /\ v \in file' => v \in file /\ (z = "file" => "file" \in left'[v] \/ v \in mount)
      /\ v \in mount' => v \in mount /\ (z = "mount" => "mount" \in left'[v])
      /\ added' = added /\ z # "net"
  BY UndoOwn
<1>3. v \in file' => "file" \in Held(v)' \/ "mount" \in left'[v]
  BY <1>1, <1>2 DEF Accounted
<1>4. v \in mount' => "mount" \in Held(v)'
  BY <1>1, <1>2 DEF Accounted
<1>5. pc[v] \notin {"add", "undo_net", "parent", "mkdir", "create"}
  OBVIOUS
<1>6. added'[v] # {} => "net" \in Held(v)'
  BY <1>1, <1>2, <1>5 DEF Accounted
<1>7. /\ pc[v] \notin {"up", "undo_net"} => cleanups'[v] = <<>>
      /\ pc[v] \in {"down", "up", "undo_net"} => made'[v] = <<>>
  BY DEF Accounted
<1>8. QED BY <1>1, <1>3, <1>4, <1>5, <1>6, <1>7 DEF Accounted

\* No step loses track of what is on the host.
LEMMA AccountedPreserved == IInv /\ [Next]_vars => \A v \in Vm : Accounted(v)'
<1> SUFFICES ASSUME IInv, [Next]_vars PROVE \A v \in Vm : Accounted(v)'
  OBVIOUS
<1>a. TypeOK /\ ChainInv /\ \A v \in Vm : Accounted(v)
  BY DEF IInv
<1> DEFINE Same(v) == \A w \in Vm \ {v} :
             /\ UNCHANGED <<pc[w], made[w], cleanups[w], left[w], added[w]>>
             /\ w \in file' => w \in file
             /\ w \in mount' => w \in mount
<1>b. ASSUME NEW v \in Vm, Accounted(v)', Same(v) PROVE \A w \in Vm : Accounted(w)'
  BY <1>a, <1>b, OneVm
<1> USE DEF hostVars, Goto, FirstRound, NextRound
<1>1. ASSUME NEW v \in Vm, SetupNetwork(v) \/ CheckParent(v) \/ MountFails(v)
      PROVE  \A w \in Vm : Accounted(w)'
  <2>1. PICK p \in {"del", "parent", "create", "mkdir", "rollback"} : pc'[v] = p
    BY <1>a, <1>1 DEF SetupNetwork, CheckParent, MountFails, TypeOK
  <2>2. /\ UNCHANGED <<file, mount, made, cleanups, left, added>>
        /\ pc[v] \in {"down", "parent", "mount"}
        /\ p \in {"parent", "mkdir", "create"} => pc[v] \in {"down", "parent"}
    BY <1>a, <1>1, <2>1 DEF SetupNetwork, CheckParent, MountFails, TypeOK
  <2>3. Same(v)
    BY <1>a, <1>1 DEF SetupNetwork, CheckParent, MountFails, TypeOK
  <2>4. /\ p \notin {"up", "undo_net"} => cleanups[v] = <<>>
        /\ p \in {"down", "up", "undo_net"} => made[v] = <<>>
        /\ p \in {"parent", "mkdir", "create"} =>
               made[v] = <<>> \/ pc[v] \in {"parent", "mkdir", "create"}
        /\ pc[v] \notin {"add", "undo_net"}
    BY <1>a, <2>1, <2>2 DEF Accounted
  <2>5. Accounted(v)'
    BY <1>a, <2>1, <2>2, <2>4, Moved
  <2>6. QED BY <1>b, <2>3, <2>5
<1>2. ASSUME NEW v \in Vm, RollbackDone(v) \/ CleanupDone(v) PROVE \A w \in Vm : Accounted(w)'
  <2>1. /\ pc'[v] = "down" /\ UNCHANGED <<file, mount, made, cleanups, left, added>>
        /\ \/ pc[v] = "rollback" /\ made[v] = <<>>
           \/ pc[v] = "up" /\ cleanups[v] = <<>>
    <3>1. pc' = [pc EXCEPT ![v] = "down"]
      BY <1>2 DEF RollbackDone, CleanupDone
    <3>2. pc'[v] = "down"
      BY <1>a, <3>1 DEF TypeOK
    <3>3. QED BY <1>2, <3>2 DEF RollbackDone, CleanupDone
  <2>2. Same(v)
    BY <1>a, <1>2 DEF RollbackDone, CleanupDone, TypeOK
  <2>3. /\ cleanups[v] = <<>> /\ made[v] = <<>> /\ pc[v] \notin {"add", "undo_net"}
        /\ "down" \notin {"parent", "mkdir", "create"}
    BY <1>a, <2>1 DEF Accounted
  <2>4. Accounted(v)'
    BY <1>a, <2>1, <2>3, Moved
  <2>5. QED BY <1>b, <2>2, <2>4
<1>3. ASSUME NEW v \in Vm, DelDone(v) \/ DelPlugin(v) \/ AddPlugin(v)
      PROVE  \A w \in Vm : Accounted(w)'
  <2>1. PICK p \in {"del", "undo_net", "add"} : pc'[v] = p
    BY <1>a, <1>3 DEF DelDone, DelPlugin, AddPlugin, TypeOK
  <2>2. /\ UNCHANGED <<file, mount, made, cleanups, left>>
        /\ \/ pc[v] = "del" /\ p \in {"del", "add"}
           \/ pc[v] = p /\ p \in {"undo_net", "add"}
        /\ added'[v] # {} => added[v] # {} \/ p \in {"add", "undo_net"}
    BY <1>a, <1>3, <2>1 DEF DelDone, DelPlugin, AddPlugin, TypeOK
  <2>3. Same(v)
    BY <1>a, <1>3 DEF DelDone, DelPlugin, AddPlugin, TypeOK
  <2>4. /\ p \notin {"up", "undo_net"} => cleanups[v] = <<>>
        /\ p \in {"down", "up", "undo_net"} => made[v] = <<>>
        /\ p \notin {"parent", "mkdir", "create"}
        /\ pc[v] \in {"add", "undo_net"} => p \in {"add", "undo_net"}
    BY <1>a, <2>1, <2>2 DEF Accounted
  <2>5. Accounted(v)'
    BY <1>a, <2>1, <2>2, <2>4, Moved
  <2>6. QED BY <1>b, <2>3, <2>5
<1>4. ASSUME NEW v \in Vm, CreateParent(v) \/ CreateFile(v) \/ MountNetns(v)
      PROVE  \A w \in Vm : Accounted(w)'
  <2>1. Same(v)
    <3>1. /\ UNCHANGED <<cleanups, added>> /\ file' \subseteq file \cup {v}
          /\ mount' \subseteq mount \cup {v}
      BY <1>4 DEF CreateParent, CreateFile, MountNetns, Fail
    <3>2. \A w \in Vm \ {v} : UNCHANGED <<pc[w], made[w], left[w]>>
      BY <1>a, <1>4 DEF CreateParent, CreateFile, MountNetns, Fail, Made, TypeOK
    <3>3. QED BY <3>1, <3>2
  <2>2. CASE Fail(v, {})
    <3>1. /\ pc[v] \notin {"up", "undo_net", "add"} /\ UNCHANGED <<file, mount, added>>
          /\ {} \in SUBSET Resource
      BY <1>a, <1>4, <2>2 DEF CreateParent, CreateFile, MountNetns, Fail, TypeOK
    <3>2. Accounted(v)'
      BY <1>a, <2>2, <3>1, FailAccounted
    <3>3. QED BY <1>b, <2>1, <3>2
  <2>3. CASE ~Fail(v, {})
    <3>1. PICK r \in {"dir", "file", "mount"}, p \in {"create", "mount", "del"} :
             /\ \/ r = "dir" /\ p = "create" /\ pc[v] = "mkdir"
                \/ r = "file" /\ p = "mount" /\ pc[v] = "create"
                \/ r = "mount" /\ p = "del" /\ pc[v] = "mount"
             /\ pc' = [pc EXCEPT ![v] = p] /\ made' = [made EXCEPT ![v] = Append(made[v], r)]
             /\ r = "file" \/ file' = file
             /\ r = "mount" \/ mount' = mount
             /\ UNCHANGED <<cleanups, left, added>>
      BY <1>4, <2>3 DEF CreateParent, CreateFile, MountNetns, Made
    <3>2. pc'[v] = p /\ made'[v] = Append(made[v], r)
      BY <1>a, <3>1 DEF TypeOK
    <3>3. /\ pc[v] \in {"mkdir", "create", "mount"} /\ (r = "mount" => p = "del")
          /\ (r = "file" => pc[v] = "create") /\ (p = "create" => pc[v] = "mkdir")
      BY <3>1
    <3>4. Accounted(v)'
      BY <1>a, <3>1, <3>2, <3>3, MadeOne
    <3>5. QED BY <1>b, <2>1, <3>4
  <2>4. QED BY <2>2, <2>3
<1>5. ASSUME NEW v \in Vm, DelFails(v) \/ AddFails(v) \/ ApplyFails(v)
      PROVE  \A w \in Vm : Accounted(w)'
  <2>1. Same(v)
    <3>1. UNCHANGED <<cleanups, file, mount>>
      BY <1>5 DEF DelFails, AddFails, ApplyFails, Fail
    <3>2. \A w \in Vm \ {v} : UNCHANGED <<pc[w], made[w], left[w], added[w]>>
      BY <1>a, <1>5 DEF DelFails, AddFails, ApplyFails, Fail, TypeOK
    <3>3. QED BY <3>1, <3>2
  <2>2. CASE Fail(v, {}) /\ DelFails(v)
    <3>1. /\ pc[v] = "del" /\ pc[v] \notin {"up", "undo_net", "add"} /\ UNCHANGED <<file, mount>>
          /\ {} \in SUBSET Resource /\ (added'[v] # {} => added[v] # {})
      BY <1>a, <2>2 DEF DelFails, TypeOK
    <3>2. Accounted(v)'
      BY <1>a, <2>2, <3>1, FailAccounted
    <3>3. QED BY <1>b, <2>1, <3>2
  <2>3. CASE Fail(v, {"net"}) /\ (AddFails(v) \/ ApplyFails(v))
    <3>1. /\ pc[v] \notin {"up", "undo_net"} /\ UNCHANGED <<file, mount>>
          /\ {"net"} \in SUBSET Resource
      BY <2>3 DEF AddFails, ApplyFails, Resource
    <3>2. Accounted(v)'
      BY <1>a, <2>3, <3>1, FailAccounted
    <3>3. QED BY <1>b, <2>1, <3>2
  <2>4. CASE DelFails(v) /\ Proceeds(v)
    <3>1. /\ pc'[v] = "add" /\ UNCHANGED <<file, mount, made, cleanups, left>> /\ pc[v] = "del"
          /\ added'[v] # {} => added[v] # {}
      BY <1>a, <2>4, SMTT(40) DEF DelFails, TypeOK
    <3>2. cleanups[v] = <<>> /\ "add" \notin {"down", "up", "undo_net", "parent", "mkdir", "create"}
      BY <1>a, <3>1 DEF Accounted
    <3>3. Accounted(v)'
      BY <1>a, <3>1, <3>2, Moved
    <3>4. QED BY <1>b, <2>1, <3>3
  <2>5. QED BY <1>5, <2>2, <2>3, <2>4 DEF DelFails, AddFails, ApplyFails
<1>6. ASSUME NEW v \in Vm, Rollback(v) PROVE \A w \in Vm : Accounted(w)'
  <2>1. PICK s \in Seq(Resource) : s = made[v] /\ s # <<>>
    BY <1>a, <1>6 DEF Rollback, TypeOK
  <2>2. PICK t \in Seq(Resource), z \in Resource :
           /\ t = SubSeq(s, 1, Len(s) - 1) /\ z = s[Len(s)]
           /\ SeqRange(s) = SeqRange(t) \cup {z}
           /\ FileFirst(s) => FileFirst(t)
           /\ FileFirst(s) /\ z = "file" => "mount" \notin SeqRange(s)
    BY <2>1, PopFacts
  <2>3. Undo(v, z) /\ made' = [made EXCEPT ![v] = t]
    BY <1>6, <2>1, <2>2 DEF Rollback
  <2>4. pc[v] = "rollback" /\ pc' = pc /\ cleanups' = cleanups /\ made'[v] = t
    BY <1>a, <1>6, <2>3 DEF Rollback, TypeOK
  <2>5. Accounted(v)'
    BY <1>a, <2>1, <2>2, <2>3, <2>4, PopAccounted
  <2>6. /\ \A w \in Vm \ {v} : left'[w] = left[w]
        /\ added' = added /\ file' \subseteq file /\ mount' \subseteq mount
    BY <1>a, <2>3, UndoOwn, UndoFacts
  <2>7. Same(v)
    BY <1>a, <2>3, <2>4, <2>6 DEF TypeOK
  <2>8. QED BY <1>b, <2>5, <2>7
<1>7. ASSUME NEW v \in Vm, DoCleanup(v) PROVE \A w \in Vm : Accounted(w)'
  <2>1. PICK s \in Seq(Resource) : s = cleanups[v] /\ s # <<>>
    BY <1>a, <1>7 DEF DoCleanup, TypeOK
  <2>2. PICK t \in Seq(Resource), z \in Resource :
           /\ t = SubSeq(s, 1, Len(s) - 1) /\ z = s[Len(s)]
           /\ SeqRange(s) = SeqRange(t) \cup {z}
           /\ FileFirst(s) => FileFirst(t)
           /\ FileFirst(s) /\ z = "file" => "mount" \notin SeqRange(s)
    BY <2>1, PopFacts
  <2>3. Popped(s).func = z /\ Popped(s).rest = t
    BY <2>1, <2>2, PoppedType
  <2>4. /\ cleanups' = [cleanups EXCEPT ![v] = t]
        /\ IF z = "net" THEN pc' = [pc EXCEPT ![v] = "undo_net"] /\ UNCHANGED <<hostVars, left>>
                        ELSE Undo(v, z) /\ UNCHANGED pc
        /\ pc[v] = "up" /\ made' = made
    BY <1>7, <2>1, <2>3 DEF DoCleanup
  <2>5. cleanups'[v] = t
    BY <1>a, <2>4 DEF TypeOK
  <2>6. CASE z # "net"
    <3>1. Accounted(v)'
      BY <1>a, <2>1, <2>2, <2>4, <2>5, <2>6, PopAccounted
    <3>2. /\ \A w \in Vm \ {v} : left'[w] = left[w]
          /\ added' = added /\ file' \subseteq file /\ mount' \subseteq mount
      BY <1>a, <2>4, <2>6, UndoOwn, UndoFacts
    <3>3. Same(v)
      BY <1>a, <2>4, <2>6, <3>2 DEF TypeOK
    <3>4. QED BY <1>b, <3>1, <3>3
  <2>7. CASE z = "net"
    <3>1. pc'[v] = "undo_net" /\ UNCHANGED <<hostVars, left>>
      BY <1>a, <2>4, <2>7 DEF TypeOK
    <3>2. made[v] = <<>> /\ FileFirst(s) /\ "undo_net" \notin {"parent", "mkdir", "create"}
      BY <1>a, <2>1, <2>4 DEF Accounted
    <3>3. Held(v) = Held(v)' \cup {"net"}
      BY <2>1, <2>2, <2>4, <2>5, <2>7, <3>1 DEF Held
    <3>4. Accounted(v)'
      BY <1>a, <2>2, <2>4, <2>5, <3>1, <3>2, <3>3 DEF Accounted
    <3>5. Same(v)
      BY <1>a, <2>4, <2>7 DEF TypeOK
    <3>6. QED BY <1>b, <3>4, <3>5
  <2>8. QED BY <2>6, <2>7
<1>8. ASSUME NEW v \in Vm, ApplyCniResult(v) PROVE \A w \in Vm : Accounted(w)'
  <2>1. PICK s \in Seq(Resource) : s = made[v]
    BY <1>a DEF TypeOK
  <2>2. cleanups[v] = <<>> /\ FileFirst(s) /\ pc[v] = "add" /\ "net" \in Resource
    BY <1>a, <1>8, <2>1 DEF Accounted, ApplyCniResult, Resource
  <2>3. PICK t \in Seq(Resource) : t = Append(s, "net")
    BY <2>2, Pushed
  <2>4. SeqRange(t) = SeqRange(s) \cup {"net"} /\ FileFirst(t)
    BY <2>2, <2>3, Pushed
  <2>5. <<>> \o t = t
    BY ConcatEmptySeq
  <2>6. cleanups' = [cleanups EXCEPT ![v] = t]
    BY <1>8, <2>1, <2>2, <2>3, <2>5 DEF ApplyCniResult, Returned
  <2>7. /\ cleanups'[v] = t /\ made'[v] = <<>> /\ pc'[v] = "up" /\ UNCHANGED <<hostVars, left>>
        /\ Same(v)
    <3>1. /\ pc' = [pc EXCEPT ![v] = "up"] /\ made' = [made EXCEPT ![v] = <<>>]
          /\ UNCHANGED <<hostVars, left>>
      BY <1>8 DEF ApplyCniResult
    <3>2. pc'[v] = "up" /\ \A w \in Vm \ {v} : pc'[w] = pc[w]
      BY <1>a, <3>1 DEF TypeOK
    <3>3. made'[v] = <<>> /\ \A w \in Vm \ {v} : made'[w] = made[w]
      BY <1>a, <3>1 DEF TypeOK
    <3>4. cleanups'[v] = t /\ \A w \in Vm \ {v} : cleanups'[w] = cleanups[w]
      BY <1>a, <2>6 DEF TypeOK
    <3>5. QED BY <3>1, <3>2, <3>3, <3>4
  <2>8. Held(v)' = Held(v) \cup {"net"}
    BY <2>1, <2>2, <2>4, <2>7, NoneHeld DEF Held
  <2>9. "up" \notin {"parent", "mkdir", "create"} /\ "up" \in {"up", "undo_net"}
    OBVIOUS
  <2>10. Accounted(v)'
    BY <1>a, <2>4, <2>7, <2>8, <2>9, NoneHeld DEF Accounted
  <2>11. QED BY <1>b, <2>7, <2>10
<1>9. ASSUME NEW v \in Vm, UndoNetDone(v) PROVE \A w \in Vm : Accounted(w)'
  <2>1. /\ pc[v] = "undo_net" /\ ~(k[v] <= Plugins) /\ pc'[v] = "up"
        /\ UNCHANGED <<file, mount, made, cleanups, left, added>> /\ Same(v)
    BY <1>a, <1>9 DEF UndoNetDone, InChain, TypeOK
  <2>2. added[v] = {}
    <3>1. PICK n \in 0..Plugins : added[v] = 1..n /\ n <= Plugins + 1 - k[v]
      BY <1>a, <2>1 DEF ChainInv
    <3>2. k[v] \in Int /\ Plugins \in Nat
      BY <1>a, PluginsAssumption, SMTT(40) DEF TypeOK
    <3>3. n = 0
      BY <2>1, <3>1, <3>2, SMTT(40)
    <3>4. QED BY <3>1, <3>3, SMTT(40)
  <2>3. made[v] = <<>> /\ "up" \in {"up", "undo_net"} /\ "up" \notin {"parent", "mkdir", "create"}
    BY <1>a, <2>1 DEF Accounted
  <2>4. Accounted(v)'
    BY <1>a, <2>1, <2>2, <2>3, Moved
  <2>5. QED BY <1>b, <2>1, <2>4
<1>10. ASSUME NEW v \in Vm, UndoNetFails(v) PROVE \A w \in Vm : Accounted(w)'
  <2>1. /\ pc[v] = "undo_net" /\ pc'[v] = "up" /\ left'[v] = left[v] \cup {"net"}
        /\ UNCHANGED <<file, mount, made, cleanups>>
    BY <1>a, <1>10 DEF UndoNetFails, TypeOK
  <2>2. Same(v)
    BY <1>a, <1>10 DEF UndoNetFails, TypeOK
  <2>3. Held(v)' = Held(v) \cup {"net"}
    BY <2>1 DEF Held
  <2>4. made[v] = <<>> /\ "up" \in {"up", "undo_net"} /\ "up" \notin {"parent", "mkdir", "create"}
    BY <1>a, <2>1 DEF Accounted
  <2>5. Accounted(v)'
    BY <1>a, <2>1, <2>3, <2>4 DEF Accounted
  <2>6. QED BY <1>b, <2>2, <2>5
<1>11. ASSUME NEW v \in Vm, Crash(v) PROVE \A w \in Vm : Accounted(w)'
  <2>1. /\ pc'[v] = "down" /\ left'[v] = Resource /\ made'[v] = <<>> /\ cleanups'[v] = <<>>
        /\ UNCHANGED hostVars /\ Same(v)
    BY <1>a, <1>11 DEF Crash, TypeOK, Resource
  <2>2. Held(v)' = Resource
    BY <2>1, NoneHeld DEF Held
  <2>3. /\ {"file", "mount", "net"} \subseteq Resource
        /\ "down" \notin {"parent", "mkdir", "create"}
    BY DEF Resource
  <2>4. Accounted(v)'
    BY <2>1, <2>2, <2>3, NoneHeld DEF Accounted
  <2>5. QED BY <1>b, <2>1, <2>4
<1>12. CASE UNCHANGED vars
  <2> SUFFICES ASSUME NEW v \in Vm PROVE Accounted(v)'
    OBVIOUS
  <2>1. /\ Accounted(v) /\ UNCHANGED <<file, mount, pc[v], made[v], cleanups[v], left[v], added[v]>>
    BY <1>a, <1>12 DEF vars
  <2>2. Held(v)' = Held(v)
    BY <2>1 DEF Held
  <2>3. QED BY <2>1, <2>2 DEF Accounted
<1>13. QED
  BY <1>1, <1>2, <1>3, <1>4, <1>5, <1>6, <1>7, <1>8, <1>9, <1>10, <1>11, <1>12
  DEF Next

\* An empty vector has no DEL.
LEMMA NoneLast == NetLast(<<>>)
BY SMTT(40) DEF NetLast

\* A vector without a DEL, with one pushed, and the vectors that are popped.
LEMMA LastFacts ==
    ASSUME NEW s \in Seq(Resource)
    PROVE  /\ "net" \notin SeqRange(s) => NetLast(s) /\ NetLast(Append(s, "net"))
           /\ s # <<>> /\ NetLast(s) =>
                /\ "net" \notin SeqRange(SubSeq(s, 1, Len(s) - 1))
                /\ "net" \in SeqRange(s) => s[Len(s)] = "net"
<1>1. DOMAIN s = 1..Len(s) /\ Len(s) \in Nat
  BY SMTT(40)
<1>2. ASSUME "net" \notin SeqRange(s) PROVE NetLast(s) /\ NetLast(Append(s, "net"))
  <2>1. \A i \in 1..Len(s) : s[i] # "net"
    BY <1>1, <1>2 DEF SeqRange
  <2>2. PICK n \in Nat : n = Len(s)
    BY <1>1
  <2>3. PICK t : t = Append(s, "net")
    OBVIOUS
  <2>4. Len(t) = n + 1 /\ \A i \in 1..n : t[i] = s[i]
    BY <2>2, <2>3, AppendProperties, SMTT(40) DEF Resource
  <2>5. \A i \in 1..(n + 1) : i \in 1..n \/ i = n + 1
    BY SMTT(40)
  <2>6. NetLast(t)
    BY <2>1, <2>2, <2>4, <2>5 DEF NetLast
  <2>7. QED BY <2>1, <2>3, <2>6 DEF NetLast
<1>3. ASSUME s # <<>>, NetLast(s)
      PROVE  /\ "net" \notin SeqRange(SubSeq(s, 1, Len(s) - 1))
             /\ "net" \in SeqRange(s) => s[Len(s)] = "net"
  <2>1. Len(s) # 0
    BY <1>3, SMTT(40)
  <2>2. PICK t : t = SubSeq(s, 1, Len(s) - 1)
    OBVIOUS
  <2>3. DOMAIN t = 1..(Len(s) - 1) /\ \A i \in 1..(Len(s) - 1) : t[i] = s[i]
    BY <1>1, <2>1, <2>2, SMTT(40)
  <2>4. \A i \in 1..(Len(s) - 1) : s[i] # "net"
    <3>1. \A n \in Nat : \A i \in 1..(n - 1) : i \in 1..n /\ i # n
      BY SMTT(40)
    <3>2. QED BY <1>1, <1>3, <3>1 DEF NetLast
  <2>5. "net" \notin SeqRange(t)
    BY <2>3, <2>4 DEF SeqRange
  <2>6. "net" \in SeqRange(s) => s[Len(s)] = "net"
    BY <1>1, <1>3 DEF SeqRange, NetLast
  <2>7. QED BY <2>2, <2>5, <2>6
<1>4. QED BY <1>2, <1>3

\* The network of a Machine stays whole while only others make steps.
LEMMA OneWhole ==
    ASSUME \A w \in Vm : Whole(w), NEW v \in Vm, Whole(v)',
           \A w \in Vm \ {v} :
               /\ UNCHANGED <<pc[w], k[w], made[w], cleanups[w], added[w]>>
               /\ w \in mount => w \in mount'
    PROVE  \A w \in Vm : Whole(w)'
<1> SUFFICES ASSUME NEW w \in Vm \ {v} PROVE Whole(w)'
  OBVIOUS
<1>1. /\ UNCHANGED <<pc[w], k[w], made[w], cleanups[w], added[w]>>
      /\ w \in mount => w \in mount'
      /\ Whole(w)
  OBVIOUS
<1>2. QED BY <1>1 DEF Whole

\* A step of a Machine that has nothing pushed and is not behind its first ADD.
LEMMA Outside ==
    ASSUME NEW v \in Vm, cleanups'[v] = <<>>, "net" \notin SeqRange(made'[v]),
           pc'[v] # "undo_net", pc'[v] = "add" => k'[v] = 1
    PROVE  Whole(v)'
BY NoneHeld, NoneLast DEF Whole

\* No step takes a network apart before its DEL.
LEMMA WholePreserved == IInv /\ [Next]_vars => \A v \in Vm : Whole(v)'
<1> SUFFICES ASSUME IInv, [Next]_vars PROVE \A v \in Vm : Whole(v)'
  OBVIOUS
<1>a. TypeOK /\ ChainInv /\ \A v \in Vm : Accounted(v) /\ Whole(v)
  BY DEF IInv
<1> DEFINE Same(v) == \A w \in Vm \ {v} :
             /\ UNCHANGED <<pc[w], k[w], made[w], cleanups[w], added[w]>>
             /\ w \in mount => w \in mount'
<1>b. ASSUME NEW v \in Vm, Whole(v)', Same(v) PROVE \A w \in Vm : Whole(w)'
  BY <1>a, <1>b, OneWhole
<1>c. ASSUME NEW v \in Vm, NEW R, Fail(v, R), pc[v] \notin {"up", "undo_net"} PROVE Whole(v)'
  <2>1. pc'[v] = "down" /\ made'[v] = <<>> /\ cleanups'[v] = cleanups[v]
    BY <1>a, <1>c DEF Fail, Goto, TypeOK
  <2>2. cleanups[v] = <<>>
    BY <1>a, <1>c DEF Accounted
  <2>3. QED BY <2>1, <2>2, NoneHeld, Outside
<1> USE DEF hostVars, Goto, FirstRound, NextRound
<1>1. ASSUME NEW v \in Vm,
             \/ SetupNetwork(v) \/ CheckParent(v) \/ MountFails(v) \/ RollbackDone(v)
             \/ DelDone(v)
      PROVE  \A w \in Vm : Whole(w)'
  <2>1. Same(v)
    BY <1>a, <1>1 DEF SetupNetwork, CheckParent, MountFails, RollbackDone, DelDone, TypeOK
  <2>2. /\ UNCHANGED <<made, cleanups>> /\ pc[v] \notin {"up", "undo_net"}
        /\ pc'[v] # "undo_net" /\ (pc'[v] = "add" => k'[v] = 1)
    BY <1>a, <1>1 DEF SetupNetwork, CheckParent, MountFails, RollbackDone, DelDone, TypeOK
  <2>3. cleanups'[v] = <<>> /\ "net" \notin SeqRange(made'[v])
    BY <1>a, <2>2 DEF Accounted, Whole
  <2>4. Whole(v)'
    BY <2>2, <2>3, Outside
  <2>5. QED BY <1>b, <2>1, <2>4
<1>2. ASSUME NEW v \in Vm, CreateParent(v) \/ CreateFile(v) \/ MountNetns(v)
      PROVE  \A w \in Vm : Whole(w)'
  <2>1. Same(v)
    <3>1. UNCHANGED <<cleanups, added>> /\ mount \subseteq mount'
      BY <1>2 DEF CreateParent, CreateFile, MountNetns, Fail
    <3>2. \A w \in Vm \ {v} : UNCHANGED <<pc[w], k[w], made[w]>>
      BY <1>a, <1>2 DEF CreateParent, CreateFile, MountNetns, Fail, Made, TypeOK
    <3>3. QED BY <3>1, <3>2
  <2>2. pc[v] \notin {"up", "undo_net"}
    BY <1>2 DEF CreateParent, CreateFile, MountNetns
  <2>3. CASE Fail(v, {})
    BY <1>b, <1>c, <2>1, <2>2, <2>3
  <2>4. CASE ~Fail(v, {})
    <3>1. PICK r \in {"dir", "file", "mount"}, p \in {"create", "mount", "del"} :
             /\ pc' = [pc EXCEPT ![v] = p] /\ made' = [made EXCEPT ![v] = Append(made[v], r)]
             /\ UNCHANGED cleanups
      BY <1>2, <2>4 DEF CreateParent, CreateFile, MountNetns, Made
    <3>2. pc'[v] = p /\ made'[v] = Append(made[v], r) /\ r # "net" /\ p \notin {"undo_net", "add"}
      BY <1>a, <3>1 DEF TypeOK
    <3>3. made[v] \in Seq(Resource) /\ r \in Resource
      BY <1>a DEF TypeOK, Resource
    <3>4. SeqRange(Append(made[v], r)) = SeqRange(made[v]) \cup {r}
      BY <3>3, Pushed
    <3>5. "net" \notin SeqRange(made'[v])
      BY <1>a, <3>2, <3>4 DEF Whole
    <3>6. cleanups'[v] = <<>>
      BY <1>a, <2>2, <3>1 DEF Accounted
    <3>7. Whole(v)'
      BY <3>2, <3>5, <3>6, Outside
    <3>8. QED BY <1>b, <2>1, <3>7
  <2>5. QED BY <2>3, <2>4
<1>3. ASSUME NEW v \in Vm, Rollback(v) PROVE \A w \in Vm : Whole(w)'
  <2>1. PICK s \in Seq(Resource) : s = made[v] /\ s # <<>>
    BY <1>a, <1>3 DEF Rollback, TypeOK
  <2>2. PICK t \in Seq(Resource), z \in Resource :
           /\ t = SubSeq(s, 1, Len(s) - 1) /\ z = s[Len(s)]
           /\ SeqRange(s) = SeqRange(t) \cup {z}
           /\ FileFirst(s) => FileFirst(t)
           /\ FileFirst(s) /\ z = "file" => "mount" \notin SeqRange(s)
    BY <2>1, PopFacts
  <2>3. Undo(v, z) /\ made' = [made EXCEPT ![v] = t] /\ UNCHANGED <<pc, k, cleanups>>
        /\ pc[v] = "rollback"
    BY <1>3, <2>1, <2>2 DEF Rollback
  <2>4. added' = added /\ \A w \in Vm \ {v} : w \in mount => w \in mount'
    BY <1>a, <2>3, UndoFacts
  <2>5. Same(v) /\ made'[v] = t
    BY <1>a, <2>3, <2>4 DEF TypeOK
  <2>6. "net" \notin SeqRange(made'[v])
    BY <1>a, <2>1, <2>2, <2>5 DEF Whole
  <2>7. cleanups'[v] = <<>> /\ pc'[v] \notin {"undo_net", "add"}
    BY <1>a, <2>3 DEF Accounted
  <2>8. Whole(v)'
    BY <2>6, <2>7, Outside
  <2>9. QED BY <1>b, <2>5, <2>8
<1>4. ASSUME NEW v \in Vm, DelFails(v) \/ AddFails(v) \/ ApplyFails(v)
      PROVE  \A w \in Vm : Whole(w)'
  <2>1. Same(v)
    <3>1. UNCHANGED <<cleanups, mount>>
      BY <1>4 DEF DelFails, AddFails, ApplyFails, Fail
    <3>2. \A w \in Vm \ {v} : UNCHANGED <<pc[w], k[w], made[w], added[w]>>
      BY <1>a, <1>4 DEF DelFails, AddFails, ApplyFails, Fail, TypeOK
    <3>3. QED BY <3>1, <3>2
  <2>2. pc[v] \notin {"up", "undo_net"}
    BY <1>4 DEF DelFails, AddFails, ApplyFails
  <2>3. CASE \E R : Fail(v, R)
    BY <1>b, <1>c, <2>1, <2>2, <2>3
  <2>4. CASE DelFails(v) /\ Proceeds(v)
    <3>1. pc' = [pc EXCEPT ![v] = "add"] /\ k' = [k EXCEPT ![v] = 1] /\ UNCHANGED <<made, cleanups>>
      BY <2>4 DEF DelFails
    <3>2. pc'[v] = "add" /\ k'[v] = 1
      BY <1>a, <3>1 DEF TypeOK
    <3>3. cleanups'[v] = <<>> /\ "net" \notin SeqRange(made'[v])
      BY <1>a, <2>2, <3>1 DEF Accounted, Whole
    <3>4. Whole(v)'
      BY <3>2, <3>3, Outside
    <3>5. QED BY <1>b, <2>1, <3>4
  <2>5. QED BY <1>4, <2>3, <2>4 DEF DelFails, AddFails, ApplyFails
<1>5. ASSUME NEW v \in Vm, DelPlugin(v) \/ AddPlugin(v) PROVE \A w \in Vm : Whole(w)'
  <2>1. Same(v)
    BY <1>a, <1>5 DEF DelPlugin, AddPlugin, TypeOK
  <2>2. /\ UNCHANGED <<pc, made, cleanups, mount>> /\ pc[v] \in {"del", "undo_net", "add"}
        /\ pc[v] = "add" => v \in mount
    BY <1>5 DEF DelPlugin, AddPlugin
  <2>3. "net" \notin SeqRange(cleanups[v])
    BY <1>a, <2>2 DEF Whole
  <2>4. Whole(v)'
    BY <1>a, <2>2, <2>3 DEF Whole
  <2>5. QED BY <1>b, <2>1, <2>4
<1>6. ASSUME NEW v \in Vm, ApplyCniResult(v) PROVE \A w \in Vm : Whole(w)'
  <2>1. PICK s \in Seq(Resource) : s = made[v]
    BY <1>a DEF TypeOK
  <2>2. cleanups[v] = <<>> /\ pc[v] = "add" /\ ~(k[v] <= Plugins)
    BY <1>a, <1>6 DEF Accounted, ApplyCniResult, InChain
  <2>3. PICK t \in Seq(Resource) : t = Append(s, "net")
    BY Pushed DEF Resource
  <2>4. <<>> \o t = t
    BY ConcatEmptySeq
  <2>5. /\ cleanups' = [cleanups EXCEPT ![v] = t] /\ made' = [made EXCEPT ![v] = <<>>]
        /\ pc' = [pc EXCEPT ![v] = "up"] /\ UNCHANGED <<hostVars, k>>
    BY <1>6, <2>1, <2>2, <2>3, <2>4 DEF ApplyCniResult, Returned
  <2>6. cleanups'[v] = t /\ \A w \in Vm \ {v} : cleanups'[w] = cleanups[w]
    BY <1>a, <2>5 DEF TypeOK
  <2>7. made'[v] = <<>> /\ \A w \in Vm \ {v} : made'[w] = made[w]
    BY <1>a, <2>5 DEF TypeOK
  <2>8. pc'[v] = "up" /\ \A w \in Vm \ {v} : pc'[w] = pc[w]
    BY <1>a, <2>5 DEF TypeOK
  <2>9. Same(v)
    BY <2>5, <2>6, <2>7, <2>8
  <2>10. "net" \notin SeqRange(s) /\ NetLast(t)
    BY <1>a, <2>1, <2>3, LastFacts DEF Whole
  <2>11. k[v] # 1 /\ k[v] = Plugins + 1
    BY <1>a, <2>2, PluginsAssumption, SMTT(40) DEF TypeOK
  <2>12. v \in mount
    BY <1>a, <2>2, <2>11 DEF Whole
  <2>13. added[v] = 1..Plugins
    <3>1. PICK n \in 0..Plugins : added[v] = 1..n /\ k[v] - 1 <= n
      BY <1>a, <2>2 DEF ChainInv
    <3>2. n = Plugins
      BY <2>11, <3>1, PluginsAssumption, SMTT(40)
    <3>3. QED BY <3>1, <3>2
  <2>14. Whole(v)'
    BY <2>5, <2>6, <2>7, <2>8, <2>10, <2>12, <2>13, NoneHeld DEF Whole
  <2>15. QED BY <1>b, <2>9, <2>14
<1>7. ASSUME NEW v \in Vm, DoCleanup(v) PROVE \A w \in Vm : Whole(w)'
  <2>1. PICK s \in Seq(Resource) : s = cleanups[v] /\ s # <<>>
    BY <1>a, <1>7 DEF DoCleanup, TypeOK
  <2>2. PICK t \in Seq(Resource), z \in Resource :
           /\ t = SubSeq(s, 1, Len(s) - 1) /\ z = s[Len(s)]
           /\ SeqRange(s) = SeqRange(t) \cup {z}
           /\ FileFirst(s) => FileFirst(t)
           /\ FileFirst(s) /\ z = "file" => "mount" \notin SeqRange(s)
    BY <2>1, PopFacts
  <2>3. Popped(s).func = z /\ Popped(s).rest = t
    BY <2>1, <2>2, PoppedType
  <2>4. /\ cleanups' = [cleanups EXCEPT ![v] = t] /\ made' = made /\ pc[v] = "up"
        /\ IF z = "net" THEN /\ pc' = [pc EXCEPT ![v] = "undo_net"]
                             /\ k' = [k EXCEPT ![v] = 1] /\ UNCHANGED hostVars
                        ELSE Undo(v, z) /\ UNCHANGED <<pc, k>>
    BY <1>7, <2>1, <2>3 DEF DoCleanup
  <2>5. cleanups'[v] = t /\ \A w \in Vm \ {v} : cleanups'[w] = cleanups[w]
    BY <1>a, <2>4 DEF TypeOK
  <2>6. NetLast(s) /\ "net" \notin SeqRange(made[v])
    BY <1>a, <2>1 DEF Whole
  <2>7. "net" \notin SeqRange(t)
    BY <2>1, <2>2, <2>6, LastFacts
  <2>8. NetLast(t)
    BY <2>7, LastFacts
  <2>9. CASE z = "net"
    <3>1. pc'[v] = "undo_net" /\ \A w \in Vm \ {v} : pc'[w] = pc[w] /\ k'[w] = k[w]
      BY <1>a, <2>4, <2>9 DEF TypeOK
    <3>2. UNCHANGED <<mount, added>>
      BY <2>4, <2>9
    <3>3. v \in mount
      BY <1>a, <2>1, <2>2, <2>9 DEF Whole
    <3>4. Whole(v)'
      BY <2>4, <2>5, <2>6, <2>7, <2>8, <3>1, <3>2, <3>3 DEF Whole
    <3>5. Same(v)
      BY <2>4, <2>5, <3>1, <3>2
    <3>6. QED BY <1>b, <3>4, <3>5
  <2>10. CASE z # "net"
    <3>1. Undo(v, z) /\ UNCHANGED <<pc, k>>
      BY <2>4, <2>10
    <3>2. added' = added /\ \A w \in Vm \ {v} : w \in mount => w \in mount'
      BY <1>a, <3>1, UndoFacts
    <3>3. Whole(v)'
      BY <2>4, <2>5, <2>6, <2>7, <2>8, <3>1 DEF Whole
    <3>4. Same(v)
      BY <2>4, <2>5, <3>1, <3>2
    <3>5. QED BY <1>b, <3>3, <3>4
  <2>11. QED BY <2>9, <2>10
<1>8. ASSUME NEW v \in Vm, CleanupDone(v) \/ UndoNetDone(v) \/ UndoNetFails(v)
      PROVE  \A w \in Vm : Whole(w)'
  <2>1. Same(v)
    BY <1>a, <1>8 DEF CleanupDone, UndoNetDone, UndoNetFails, TypeOK
  <2>2. /\ UNCHANGED <<made, cleanups>> /\ pc'[v] \in {"down", "up"}
        /\ pc[v] = "undo_net" \/ cleanups[v] = <<>>
    BY <1>a, <1>8 DEF CleanupDone, UndoNetDone, UndoNetFails, TypeOK
  <2>3. "net" \notin SeqRange(cleanups[v])
    BY <1>a, <2>2, NoneHeld DEF Whole
  <2>4. Whole(v)'
    BY <1>a, <2>2, <2>3 DEF Whole
  <2>5. QED BY <1>b, <2>1, <2>4
<1>9. ASSUME NEW v \in Vm, Crash(v) PROVE \A w \in Vm : Whole(w)'
  <2>1. pc'[v] = "down" /\ made'[v] = <<>> /\ cleanups'[v] = <<>>
    BY <1>a, <1>9 DEF Crash, TypeOK
  <2>2. Same(v)
    BY <1>a, <1>9 DEF Crash, TypeOK
  <2>3. Whole(v)'
    BY <2>1, NoneHeld, Outside
  <2>4. QED BY <1>b, <2>2, <2>3
<1>10. CASE UNCHANGED vars
  BY <1>a, <1>10 DEF vars, Whole
<1>11. QED
  BY <1>1, <1>2, <1>3, <1>4, <1>5, <1>6, <1>7, <1>8, <1>9, <1>10 DEF Next

\* A host without namespaces satisfies the invariant.
LEMMA InitInvariant == Init => IInv
<1> SUFFICES ASSUME Init PROVE IInv
  OBVIOUS
<1> USE PluginsAssumption, MaxRunsAssumption DEF Init
<1>1. TypeOK
  BY SMTT(40) DEF TypeOK
<1>2. ChainInv
  <2>1. 0 \in 0..Plugins /\ {} = 1..0
    BY SMTT(40)
  <2>2. QED BY <2>1 DEF ChainInv
<1>3. ASSUME NEW v \in Vm PROVE Whole(v)
  <2>1. made[v] = <<>> /\ cleanups[v] = <<>> /\ pc[v] \notin {"undo_net", "add"}
    OBVIOUS
  <2>2. QED BY <2>1, NoneHeld, NoneLast DEF Whole
<1>4. ASSUME NEW v \in Vm PROVE Accounted(v)
  <2>1. made[v] = <<>> /\ cleanups[v] = <<>> /\ added[v] = {} /\ file = {} /\ mount = {}
    OBVIOUS
  <2>2. SeqRange(<<>>) = {} /\ FileFirst(<<>>)
    BY SMTT(40) DEF SeqRange, FileFirst
  <2>3. QED BY <2>1, <2>2 DEF Accounted
<1>5. QED BY <1>1, <1>2, <1>3, <1>4 DEF IInv

\* setup_network and do_cleanup of any number of Machines, interleaved, failing
\* and crashing anywhere, keep the invariant.
THEOREM Invariance == Spec => []IInv
<1>1. IInv /\ [Next]_vars => IInv'
  <2> SUFFICES ASSUME IInv, [Next]_vars PROVE IInv'
    OBVIOUS
  <2>1. QED BY TypePreserved, ChainPreserved, AccountedPreserved, WholePreserved DEF IInv
<1>2. QED BY InitInvariant, <1>1, PTL DEF Spec

\* The variables of the network set-up keep their types.
THEOREM TypeCorrect == Spec => []TypeOK
<1>1. IInv => TypeOK
  BY DEF IInv
<1>2. QED BY <1>1, Invariance, PTL

\* invoke_network_list never leaves a plugin set up without the ones before it.
THEOREM PrefixAlways == Spec => []PluginsFormPrefix
<1>1. IInv => PluginsFormPrefix
  BY DEF IInv, ChainInv, PluginsFormPrefix
<1>2. QED BY <1>1, Invariance, PTL

\* invoke_cni without force runs ADD only on what DEL has cleared.
THEOREM AddAfterDelete == Spec => []AddOnClean
<1>1. IInv => AddOnClean
  <2> SUFFICES ASSUME IInv, NEW v \in Vm, pc[v] = "add", v \notin Forced
               PROVE  added[v] = 1..(k[v] - 1)
    BY DEF AddOnClean
  <2>1. PICK n \in 0..Plugins : added[v] = 1..n /\ n = k[v] - 1
    BY DEF IInv, ChainInv
  <2>2. QED BY <2>1
<1>2. QED BY <1>1, Invariance, PTL

\* A Machine that setup_network has brought up keeps its plugins and its
\* namespace until do_cleanup runs its DEL, which still finds the namespace.
THEOREM NetworkKept == Spec => []NetworkUntilDeleted
<1>1. IInv => NetworkUntilDeleted
  BY DEF IInv, Whole, NetworkUntilDeleted
<1>2. QED BY <1>1, Invariance, PTL

\* Whatever setup_network and do_cleanup leave on the host has lost its cleanup
\* function to an error path, a failure of the function or a crash.
THEOREM NothingLeftUnexplained == Spec => []LeftoversExplained
<1>1. IInv => LeftoversExplained
  <2> SUFFICES ASSUME IInv, NEW v \in Vm, pc[v] = "down"
               PROVE  /\ v \in file => "file" \in left[v] \/ "mount" \in left[v]
                      /\ v \in mount => "mount" \in left[v]
                      /\ added[v] # {} => "net" \in left[v]
    BY DEF LeftoversExplained
  <2>1. Accounted(v) /\ pc[v] \notin {"up", "undo_net", "add"}
    BY DEF IInv
  <2>2. made[v] = <<>> /\ cleanups[v] = <<>>
    BY <2>1 DEF Accounted
  <2>3. Held(v) = left[v]
    BY <2>2, NoneHeld DEF Held
  <2>4. QED BY <2>1, <2>3 DEF Accounted
<1>2. QED BY <1>1, Invariance, PTL
=============================================================================
