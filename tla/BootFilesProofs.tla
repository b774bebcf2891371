--------------------------- MODULE BootFilesProofs ---------------------------
(***************************************************************************)
(* Theorems about BootFiles for any number of Machines, any configurations *)
(* and any files on the host.                                              *)
(***************************************************************************)
EXTENDS BootFiles, TLAPS

\* Leaves go to Zenon unless they name another prover.
USE ZenonT(40)

Parts == Range(Part)

\* Where start() runs, and where it has a process.
Early == {"validate", "spawn"}
Waiting == {"wait", "log_files"}
Starting == Early \cup Waiting \cup {"link", "api"}

TypeInv ==
    /\ jailed \in BOOLEAN
    /\ given \in [Machine -> Config]
    /\ DOMAIN cfg = Machine /\ \A m \in Machine : DOMAIN cfg[m] = Parts
    /\ pc \in [Machine -> {"new", "up", "failed", "over"} \cup Starting]
    /\ step \in [Machine -> 1..7]
    /\ vmm \in [Machine -> {"none", "spawned", "running", "booted", "dead"}]
    /\ socket \in Machine \cup {None}
    /\ DOMAIN guest = Machine

\* How far its VMM can be.
Process(m) ==
    /\ pc[m] \in {"new"} \cup Early => vmm[m] = "none"
    /\ pc[m] \in Waiting \cup {"link", "api"} => vmm[m] \in {"spawned", "running", "dead"}
    /\ pc[m] = "up" => vmm[m] \in {"booted", "dead"}
    /\ pc[m] \in {"failed", "over"} => vmm[m] \in {"none", "dead"}
    /\ pc[m] = "link" => jailed

\* No other start() runs beside m's and, unless m is not validated, no VMM but m's
\* can be, or come to be, on the socket that m's requests go to.
Alone(m) ==
    pc[m] \in Starting =>
        /\ \A v \in Machine \ {m} : pc[v] \notin Starting
        /\ jailed => \A v \in Machine \ {m} : ~Alive(v)
        /\ ~jailed /\ pc[m] # "validate" /\ ~given[m].disable_validation =>
              socket \in {None, m}

\* The paths of m are those given until they are rewritten; a part that was
\* given stays.
Paths(m) ==
    /\ \A part \in Parts : cfg[m][part] = Absent <=> given[m].files[part] = Absent
    /\ ~jailed \/ pc[m] \in {"new"} \cup Early \cup Waiting \cup {"link"} =>
          cfg[m] = given[m].files

\* Every FIFO is at a path that its Machine gives for one.
FifoPaths ==
    \A f \in fifos : \E m \in Machine, part \in Fifo :
        f = <<given[m].files[part], m>> /\ f[1] # Absent

\* From CreateLogFiles on there is no file but the one that was meant behind a
\* path of m on the host,
OnHost(m) ==
    pc[m] \in {"link", "api"} =>
        \A part \in Parts : given[m].files[part] # Absent =>
            HostFile(given[m].files[part]) \subseteq {Meant(m, part)}

\* and after LinkFiles none behind a path of m in the chroot.
InJail(m) ==
    pc[m] = "api" /\ jailed =>
        \A part \in Present(m), l \in links :
            cfg[m][part] = <<Jail, l[1]>> => l[2] = Meant(m, part)

\* The parts that the requests before the n-th name.
Asked(n) == UNION {Request[i] : i \in 1..(n - 1)}

Opened(v) == {g[1] : g \in guest[v]}

\* A file that v's VMM may have opened.
Proper(v, g) ==
    \/ g[2] = Meant(v, g[1])
    \/ /\ g[1] \in Fifo /\ ~jailed
       /\ \E m \in Machine : given[m].disable_validation /\ g[2] = Meant(m, g[1])

\* The parts of m that may have gone to another VMM.
Astray(m) == {part \in Fifo : ~jailed /\ given[m].disable_validation}

\* What m's VMM has opened is proper, and as much as was acknowledged.
Guest(m) ==
    /\ \A g \in guest[m] : Proper(m, g)
    /\ pc[m] \in {"new"} \cup Early \cup Waiting \cup {"link"} => guest[m] = {}
    /\ pc[m] \in {"new"} \cup Early \cup Waiting \cup {"link"} => step[m] = 1
    /\ pc[m] = "api" => (Asked(step[m]) \cap Present(m)) \ Astray(m) \subseteq Opened(m)
    /\ pc[m] = "up" => Present(m) \ Astray(m) \subseteq Opened(m)

Inv(m) == Process(m) /\ Alone(m) /\ Paths(m) /\ OnHost(m) /\ InJail(m) /\ Guest(m)

IInv == TypeInv /\ FifoPaths /\ \A m \in Machine : Inv(m)

-----------------------------------------------------------------------------
(* The parts and the requests                                              *)

\* The fields of cfg that link_files_handler comes to, by position.
LEMMA PartFacts ==
    /\ Len(Part) = 6
    /\ Len(Request) = 6
    /\ Parts = {"kernel", "initrd", "drive1", "drive2", "log_fifo", "metrics_fifo"}
    /\ Parts = {Part[i] : i \in 1..6}
<1>1. DOMAIN Part = 1..6 BY SMTT(40) DEF Part
<1>2. Parts = {Part[i] : i \in 1..6} BY <1>1 DEF Parts, Range
<1>3. \A i \in 1..6 : i = 1 \/ i = 2 \/ i = 3 \/ i = 4 \/ i = 5 \/ i = 6 BY SMTT(40)
<1>4. Parts = {"kernel", "initrd", "drive1", "drive2", "log_fifo", "metrics_fifo"}
  BY <1>2, <1>3, SMTT(40) DEF Part
<1> QED BY <1>2, <1>4 DEF Part, Request

\* A request that is done adds the parts it names, and all requests together
\* name every part.
LEMMA AskedFacts ==
    /\ Asked(1) = {}
    /\ \A n \in 1..6 : Asked(n + 1) = Asked(n) \cup Request[n]
    /\ Parts \subseteq Asked(7)
<1>1. Asked(1) = {} BY SMTT(40) DEF Asked
<1>2. ASSUME NEW n \in 1..6 PROVE Asked(n + 1) = Asked(n) \cup Request[n]
  <2>1. 1..((n + 1) - 1) = 1..(n - 1) \cup {n} BY SMTT(40)
  <2> QED BY <2>1 DEF Asked
<1>3. ASSUME NEW part \in Parts PROVE part \in Asked(7)
  <2>1. \E i \in 1..6 : part \in Request[i]
    <3>1. 1 \in 1..6 /\ 2 \in 1..6 /\ 4 \in 1..6 /\ 5 \in 1..6 /\ 6 \in 1..6 BY SMTT(40)
    <3>2. /\ "log_fifo" \in Request[1] /\ "metrics_fifo" \in Request[2]
          /\ "kernel" \in Request[4] /\ "initrd" \in Request[4]
          /\ "drive1" \in Request[5] /\ "drive2" \in Request[6]
      BY DEF Request
    <3> QED BY <3>1, <3>2, PartFacts
  <2> QED BY <2>1, SMTT(40) DEF Asked
<1> QED BY <1>1, <1>2, <1>3

\* A part is present when it was given.
LEMMA PresentGiven ==
    ASSUME NEW m \in Machine, Paths(m)
    PROVE  Present(m) = {part \in Parts : given[m].files[part] # Absent}
BY DEF Paths, Present, Parts

\* What the invariant says of all and of each Machine.
LEMMA Parted ==
    ASSUME IInv
    PROVE  /\ TypeInv /\ FifoPaths
           /\ \A m \in Machine :
                 /\ Process(m) /\ Alone(m) /\ Paths(m)
                 /\ OnHost(m) /\ InJail(m) /\ Guest(m) /\ Inv(m)
BY DEF IInv, Inv

\* What a step has to keep for one Machine.
LEMMA Whole ==
    ASSUME NEW m \in Machine, Process(m)', Alone(m)', Paths(m)', OnHost(m)', InJail(m)',
           Guest(m)'
    PROVE  Inv(m)'
BY DEF Inv

-----------------------------------------------------------------------------
(* Machines that a step is not about                                       *)

\* A VMM that is up opens more, or other, FIFOs.
Given(v) ==
    /\ pc[v] = "up" /\ Opened(v) \subseteq {g[1] : g \in guest'[v]}
    /\ \A g \in guest'[v] : Proper(v, g)

Same(v) ==
    /\ cfg'[v] = cfg[v] /\ pc'[v] = pc[v] /\ step'[v] = step[v]
    /\ guest'[v] = guest[v] \/ Given(v)

Fixed == jailed' = jailed /\ given' = given

\* A step that leaves v's start() alone keeps what holds of v, when its process
\* and its hold on the socket are in order and no file of its host appears.
LEMMA Unmoved ==
    ASSUME NEW v \in Machine, Inv(v), Fixed, Same(v), Process(v)', Alone(v)',
           pc[v] \in Starting => fifos' \subseteq fifos /\ links' = links
    PROVE  Inv(v)'
<1>1. Paths(v)' BY DEF Inv, Fixed, Same, Paths
<1>2. OnHost(v)'
  <2> SUFFICES ASSUME pc'[v] \in {"link", "api"}, NEW part \in Parts,
                      given[v].files[part] # Absent
               PROVE  HostFile(given[v].files[part])' \subseteq {Meant(v, part)}
    BY DEF OnHost, Fixed, Meant
  <2>1. fifos' \subseteq fifos BY DEF Same, Starting
  <2>2. HostFile(given[v].files[part])' \subseteq HostFile(given[v].files[part])
    BY <2>1 DEF HostFile, Fixed
  <2>3. HostFile(given[v].files[part]) \subseteq {Meant(v, part)} BY DEF Inv, OnHost, Same
  <2> QED BY <2>2, <2>3
<1>3. InJail(v)'
  <2>1. CASE pc[v] = "api"
    <3>1. links' = links BY <2>1 DEF Starting
    <3> QED BY <3>1 DEF Inv, InJail, Fixed, Same, Present, Meant
  <2> QED BY <2>1 DEF InJail, Same
<1>4. Guest(v)'
  <2>1. /\ Present(v)' = Present(v) /\ Astray(v)' = Astray(v) /\ Asked(step[v])' = Asked(step[v])
        /\ \A g : Proper(v, g)' <=> Proper(v, g)
    BY DEF Fixed, Same, Present, Astray, Asked, Proper, Meant
  <2>2. CASE guest'[v] = guest[v] BY <2>1, <2>2 DEF Inv, Guest, Same, Opened
  <2>3. CASE Given(v)
    <3>1. pc'[v] = "up" BY <2>3 DEF Given, Same
    <3>2. Opened(v) \subseteq Opened(v)' BY <2>3 DEF Given, Opened
    <3>3. \A g \in guest'[v] : Proper(v, g) BY <2>3 DEF Given
    <3> QED BY <2>1, <3>1, <3>2, <3>3 DEF Inv, Guest, Same, Early, Waiting
  <2> QED BY <2>2, <2>3 DEF Same
<1> QED BY <1>1, <1>2, <1>3, <1>4 DEF Inv

\* A step of the start() that runs keeps what holds of the others.
LEMMA OthersStay ==
    ASSUME IInv, NEW m \in Machine, pc[m] \in Starting, Fixed,
           NEW v \in Machine \ {m}, Same(v), vmm'[v] = vmm[v]
    PROVE  Inv(v)'
<1>1. Inv(v) /\ Inv(m) BY Parted
<1>2. pc[v] \notin Starting BY <1>1, Parted DEF Alone
<1>3. Process(v)' BY <1>1, Parted DEF Process, Same, Fixed
<1>4. Alone(v)' BY <1>2 DEF Alone, Same
<1> QED BY <1>1, <1>2, <1>3, <1>4, Unmoved

\* Who answers m's requests is m's own VMM, or one that runs a guest and that m
\* has not looked for.
LEMMA OwnSocket ==
    ASSUME IInv, NEW m \in Machine, pc[m] = "api", socket # None, Alive(socket)
    PROVE  /\ socket \in Machine
           /\ socket # m => /\ vmm[socket] = "booted" /\ pc[socket] = "up"
                            /\ ~jailed /\ given[m].disable_validation
<1>1. socket \in Machine BY Parted DEF TypeInv
<1>2. pc[m] \in Starting /\ pc[m] # "validate" BY DEF Starting
<1>3. Alone(m) /\ Process(socket) /\ jailed \in BOOLEAN BY <1>1, Parted DEF TypeInv
<1>4. CASE socket # m
  <2>1. pc[socket] \notin Starting BY <1>1, <1>2, <1>3, <1>4 DEF Alone
  <2>2. pc[socket] \in {"new", "up", "failed", "over"} BY <1>1, <2>1, Parted DEF TypeInv
  <2>3. pc[socket] = "up" /\ vmm[socket] = "booted"
    BY <1>3, <2>2 DEF Process, Alive
  <2>4. ~jailed BY <1>1, <1>2, <1>3, <1>4 DEF Alone
  <2>5. given[m].disable_validation BY <1>2, <1>3, <1>4, <2>4 DEF Alone
  <2> QED BY <1>1, <2>3, <2>4, <2>5
<1> QED BY <1>1, <1>4

\* The end of a Machine, whatever has become of its paths.
LEMMA Ended ==
    ASSUME IInv, NEW m \in Machine, Fixed, pc'[m] \in {"failed", "over"},
           vmm'[m] \in {"none", "dead"},
           \A part \in Parts : cfg'[m][part] = Absent <=> cfg[m][part] = Absent,
           ~jailed => cfg'[m] = cfg[m],
           \A g \in guest'[m] : Proper(m, g)
    PROVE  Inv(m)'
<1>1. Inv(m) BY Parted
<1>2. Process(m)' BY DEF Process, Early, Waiting
<1>3. Alone(m)' BY DEF Alone, Starting, Early, Waiting
<1>4. Paths(m)' BY <1>1, Parted DEF Paths, Fixed, Early, Waiting
<1>5. OnHost(m)' /\ InJail(m)' BY DEF OnHost, InJail
<1>6. Guest(m)'
  <2>1. \A g : Proper(m, g)' <=> Proper(m, g) BY DEF Fixed, Proper, Meant
  <2> QED BY <2>1 DEF Guest, Early, Waiting
<1> QED BY <1>2, <1>3, <1>4, <1>5, <1>6, Whole

-----------------------------------------------------------------------------
(* start(), up to the files                                                *)

\* start() is entered when no other runs and, with a jailer, no VMM is left.
LEMMA StartKeeps ==
    ASSUME IInv, NEW m \in Machine, Start(m), NEW v \in Machine
    PROVE  Inv(v)'
<1>1. Fixed /\ Inv(v) BY Parted DEF Start, Fixed
<1>2. \A w \in Machine : pc[w] \notin Starting
  BY DEF Start, NoStart, Starting, Early, Waiting
<1>3. pc' = [pc EXCEPT ![m] = "validate"] /\ m \in DOMAIN pc BY Parted DEF Start, TypeInv
<1>4. CASE v # m
  <2>1. Same(v) BY <1>3, <1>4, SMTT(40) DEF Start, Same
  <2>2. Process(v)' BY <1>1, <1>3, <1>4, Parted, SMTT(40) DEF Start, Process
  <2>3. Alone(v)' BY <1>2, <2>1 DEF Alone, Same
  <2> QED BY <1>1, <1>2, <2>1, <2>2, <2>3, Unmoved
<1>5. CASE v = m
  <2>1. pc[m] = "new" /\ pc'[m] = "validate" BY <1>3 DEF Start
  <2>2. Process(m)' BY <1>1, <1>5, <2>1, Parted DEF Start, Process, Early, Waiting
  <2>3. Alone(m)'
    <3>1. \A w \in Machine \ {m} : pc'[w] \notin Starting
      BY <1>2, <1>3, Parted DEF TypeInv
    <3> QED BY <2>1, <3>1 DEF Alone, Start, Alive
  <2>4. Paths(m)' BY <1>1, <1>5, <2>1, Parted DEF Start, Paths
  <2>5. OnHost(m)' /\ InJail(m)' BY <2>1 DEF OnHost, InJail
  <2>6. Guest(m)' BY <1>1, <1>5, <2>1, Parted DEF Start, Guest, Proper, Meant
  <2> QED BY <1>5, <2>2, <2>3, <2>4, <2>5, <2>6, Whole
<1> QED BY <1>4, <1>5

\* m's start() goes on to a place before the links, with its paths as given.
GoesOn(m) ==
    /\ Fixed
    /\ pc[m] \in Starting
    /\ pc'[m] \in {"spawn"} \cup Waiting
    /\ \A v \in Machine \ {m} : Same(v) /\ vmm'[v] = vmm[v]
    /\ cfg'[m] = cfg[m] /\ step'[m] = step[m] /\ guest'[m] = guest[m]
    /\ pc[m] \notin {"link", "api"}
    /\ ~jailed /\ ~given[m].disable_validation => socket' \in {None, m}
    /\ Process(m)'

\* Going on before the links keeps the invariant.
LEMMA GoesOnKeeps ==
    ASSUME IInv, NEW m \in Machine, GoesOn(m), NEW v \in Machine
    PROVE  Inv(v)'
<1>1. Inv(m) /\ Fixed BY Parted DEF GoesOn
<1>2. CASE v # m BY <1>2, OthersStay DEF GoesOn
<1>3. CASE v = m
  <2>1. Alone(m)'
    <3>1. \A w \in Machine \ {m} : pc'[w] \notin Starting
      BY <1>1, Parted DEF GoesOn, Alone, Same
    <3>2. jailed => \A w \in Machine \ {m} : ~Alive(w)'
      BY <1>1, Parted DEF GoesOn, Alone, Alive
    <3> QED BY <1>1, <3>1, <3>2, SMTT(40) DEF GoesOn, Alone, Fixed
  <2>2. pc[m] \in Early \cup Waiting BY DEF GoesOn, Starting
  <2>3. Paths(m)' BY <1>1, <2>2, Parted DEF GoesOn, Paths, Fixed
  <2>4. OnHost(m)' /\ InJail(m)' BY DEF GoesOn, OnHost, InJail, Waiting
  <2>5. Guest(m)'
    <3>1. pc'[m] \notin {"api", "up"} BY DEF GoesOn, Waiting
    <3>2. guest[m] = {} /\ step[m] = 1 BY <1>1, <2>2, Parted DEF Guest
    <3> QED BY <3>1, <3>2 DEF GoesOn, Guest
  <2>6. Process(m)' BY DEF GoesOn
  <2> QED BY <1>3, <2>1, <2>3, <2>4, <2>5, <2>6, Whole
<1> QED BY <1>2, <1>3

\* Validation, the spawn and the wait for the socket go on so.  Validation finds
\* the socket path free, and from then on only m's VMM can bind it.
LEMMA EarlySteps ==
    ASSUME IInv, NEW m \in Machine, Validate(m) \/ Spawn(m) \/ Ready(m)
    PROVE  GoesOn(m)
<1>1. Inv(m) /\ m \in DOMAIN pc /\ m \in DOMAIN vmm BY Parted DEF TypeInv
<1>2. CASE Validate(m)
  <2>1. pc' = [pc EXCEPT ![m] = "spawn"] /\ pc[m] = "validate" BY <1>2 DEF Validate
  <2>2. Process(m)' BY <1>1, <1>2, <2>1, Parted DEF Validate, Process, Early, Waiting
  <2>3. ~jailed /\ ~given[m].disable_validation => socket' \in {None, m}
    BY <1>2 DEF Validate, Validated, SocketFree
  <2> QED BY <1>1, <1>2, <2>1, <2>2, <2>3, Parted
       DEF GoesOn, Validate, Fixed, Same, Starting, Early, Waiting, TypeInv
<1>3. CASE Spawn(m)
  <2>1. pc' = [pc EXCEPT ![m] = "wait"] /\ pc[m] = "spawn" BY <1>3 DEF Spawn
  <2>2. vmm' = [vmm EXCEPT ![m] = "spawned"] BY <1>3 DEF Spawn
  <2>3. Process(m)' BY <1>1, <2>1, <2>2 DEF Process, Early, Waiting
  <2>4. ~jailed /\ ~given[m].disable_validation => socket' \in {None, m}
    BY <1>1, <1>3, <2>1, Parted DEF Spawn, Alone, Starting, Early
  <2> QED BY <1>1, <1>3, <2>1, <2>2, <2>3, <2>4, Parted
       DEF GoesOn, Spawn, Fixed, Same, Starting, Early, Waiting, TypeInv
<1>4. CASE Ready(m)
  <2>1. pc' = [pc EXCEPT ![m] = "log_files"] /\ pc[m] = "wait" BY <1>4 DEF Ready
  <2>2. Process(m)' BY <1>1, <1>4, <2>1, Parted DEF Ready, Process, Early, Waiting
  <2>3. ~jailed /\ ~given[m].disable_validation => socket' \in {None, m}
    BY <1>1, <1>4, <2>1, Parted DEF Ready, Alone, Starting, Waiting
  <2> QED BY <1>1, <1>4, <2>1, <2>2, <2>3, Parted
       DEF GoesOn, Ready, Fixed, Same, Starting, Early, Waiting, TypeInv
<1> QED BY <1>2, <1>3, <1>4

\* The path of a FIFO is not that of a file to boot from.
LEMMA FifoApart ==
    ASSUME NEW c \in Config, NEW d \in Config, NEW part \in Parts, part \notin Fifo,
           NEW fifo \in Fifo, c.files[part] # Absent
    PROVE  c.files[part] # d.files[fifo]
<1>1. part \in Range(Part) BY DEF Parts
<1> QED BY <1>1, ConfigAssumption

\* The paths of FIFOs are not those of files to boot from, so what is behind one
\* of the latter on the host is always the file that was meant.
LEMMA BootFileMeant ==
    ASSUME IInv, NEW m \in Machine, NEW part \in Parts \ Fifo,
           given[m].files[part] # Absent
    PROVE  HostFile(given[m].files[part]) \subseteq {Meant(m, part)}
<1> DEFINE path == given[m].files[part]
<1>1. given \in [Machine -> Config] BY Parted DEF TypeInv
<1>2. \A f \in fifos : f[1] # path
  <2> SUFFICES ASSUME NEW f \in fifos, f[1] = path PROVE FALSE OBVIOUS
  <2>1. PICK v \in Machine, fifo \in Fifo : f = <<given[v].files[fifo], v>>
    BY Parted DEF FifoPaths
  <2>2. given[v] \in Config /\ given[m] \in Config BY <1>1
  <2>3. path # given[v].files[fifo] BY <2>2, FifoApart, SMTT(40)
  <2> QED BY <2>1, <2>3
<1>3. Meant(m, part) = <<path, "host">> BY DEF Meant
<1> QED BY <1>2, <1>3 DEF HostFile

\* create_log_files makes FIFOs at paths where there was nothing.
LEMMA LogFilesKeep ==
    ASSUME IInv, NEW m \in Machine, CreateLogFiles(m), NEW v \in Machine
    PROVE  Inv(v)'
<1> DEFINE wanted == {cfg[m][part] : part \in Fifo} \ {Absent}
<1>1. Inv(m) /\ Fixed /\ m \in DOMAIN pc BY Parted DEF TypeInv, CreateLogFiles, Fixed
<1>2. /\ pc[m] = "log_files" /\ pc[m] \in Starting /\ pc[m] \in Waiting
      /\ pc' = [pc EXCEPT ![m] = IF jailed THEN "link" ELSE "api"]
  BY DEF CreateLogFiles, Starting, Waiting
<1>3. pc'[m] \in {"link", "api"} /\ (pc'[m] = "link" <=> jailed) BY <1>1, <1>2
<1>4. \A w \in Machine \ {m} : Same(w) /\ vmm'[w] = vmm[w]
  BY <1>2, Parted DEF CreateLogFiles, Same, TypeInv
<1>5. CASE v # m BY <1>1, <1>2, <1>4, <1>5, OthersStay
<1>6. CASE v = m
  <2>1. Process(m)'
    BY <1>1, <1>2, <1>3, Parted DEF CreateLogFiles, Process, Early, Waiting
  <2>2. Alone(m)'
    <3>1. \A w \in Machine \ {m} : pc'[w] \notin Starting
      BY <1>1, <1>2, <1>4, Parted DEF Alone, Same
    <3>2. UNCHANGED <<vmm, socket, jailed, given>> BY DEF CreateLogFiles
    <3> QED BY <1>1, <1>2, <3>1, <3>2, Parted DEF Alone, Alive
  <2>3. Paths(m)' BY <1>1, <1>2, <1>3, Parted DEF CreateLogFiles, Paths
  <2>4. OnHost(m)'
    <3> SUFFICES ASSUME NEW part \in Parts, given[m].files[part] # Absent
                 PROVE  HostFile(given[m].files[part])' \subseteq {Meant(m, part)}
      BY DEF OnHost, CreateLogFiles, Meant
    <3> DEFINE path == given[m].files[part]
    <3>1. cfg[m] = given[m].files BY <1>1, <1>2, Parted DEF Paths
    <3>2. fifos' = fifos \cup (wanted \X {m}) BY DEF CreateLogFiles
    <3>3. CASE part \in Fifo
      <4>1. path \in wanted BY <3>1, <3>3
      <4>2. HostFile(path) = {} BY <4>1 DEF CreateLogFiles
      <4>3. path \notin Files /\ \A f \in fifos : f[1] # path
        <5>1. path \notin Files
          <6>1. path \in Files => HostFile(path) = {<<path, "host">>} BY DEF HostFile
          <6>2. {<<path, "host">>} # {} OBVIOUS
          <6> QED BY <4>2, <6>1, <6>2
        <5>2. {f \in fifos : f[1] = path} = {} BY <4>2, <5>1 DEF HostFile
        <5> QED BY <5>1, <5>2
      <4>4. Meant(m, part) = <<path, m>> BY <3>3 DEF Meant
      <4>5. \A f \in wanted \X {m} : f[1] = path => f = <<path, m>> BY SMTT(40)
      <4>6. \A f \in fifos' : f[1] = path => f = <<path, m>> BY <3>2, <4>3, <4>5
      <4>7. HostFile(path)' = {f \in fifos' : f[1] = path}
        BY <1>1, <4>3 DEF HostFile, Fixed
      <4> QED BY <4>4, <4>6, <4>7
    <3>4. CASE part \notin Fifo
      <4>1. \A f \in wanted \X {m} : f[1] # path
        <5>1. given[m] \in Config BY Parted DEF TypeInv
        <5>2. \A fifo \in Fifo : path # given[m].files[fifo]
          BY <3>4, <5>1, FifoApart
        <5> QED BY <3>1, <5>2
      <4>2. HostFile(path)' \subseteq HostFile(path)
        BY <1>1, <3>2, <4>1 DEF HostFile, Fixed
      <4> QED BY <3>4, <4>2, BootFileMeant
    <3> QED BY <3>3, <3>4
  <2>5. InJail(m)' BY <1>1, <1>3 DEF InJail, Fixed
  <2>6. Guest(m)'
    <3>1. guest'[m] = {} /\ step'[m] = 1
      BY <1>1, <1>2, Parted DEF Guest, CreateLogFiles
    <3>2. Opened(m)' = {} BY <3>1 DEF Opened
    <3>3. Asked(step'[m]) = {} BY <3>1, AskedFacts
    <3>4. Asked(step[m])' = {} BY <3>3 DEF Asked
    <3> QED BY <1>3, <3>1, <3>2, <3>4 DEF Guest
  <2> QED BY <1>6, <2>1, <2>2, <2>3, <2>4, <2>5, <2>6, Whole
<1> QED BY <1>5, <1>6

-----------------------------------------------------------------------------
(* link_files_handler                                                      *)

\* A part that the handler has come to gets a name that nothing had, and a link
\* to the file that was meant; no two parts get the same name.
LEMMA LinkFacts ==
    ASSUME IInv, NEW m \in Machine, pc[m] = "link", NEW n \in 0..6, Linkable(m, n),
           NEW part \in Linked(m, n)
    PROVE  /\ NewLinks(m, part) = {<<LinkName(m, part), Meant(m, part)>>}
           /\ LinkName(m, part) \notin LinkNames
           /\ \A q \in Linked(m, n) : LinkName(m, q) = LinkName(m, part) => q = part
<1>1. Inv(m) /\ cfg[m] = given[m].files
  BY Parted DEF Paths
<1>2. ASSUME NEW p \in Linked(m, n), NEW i \in 1..n, p = Part[i]
      PROVE  /\ HostFile(cfg[m][p]) # {}
             /\ LinkName(m, p) \notin LinkNames
             /\ \A q \in Linked(m, i - 1) : LinkName(m, p) # LinkName(m, q)
  <2>1. Part[i] \in Present(m) BY <1>2 DEF Linked
  <2>2. /\ HostFile(cfg[m][Part[i]]) # {}
        /\ NameFree(m, Part[i],
                LinkNames \cup {LinkName(m, q) : q \in Linked(m, i - 1)})
    BY <2>1 DEF Linkable
  <2> QED BY <1>2, <2>2 DEF NameFree
<1>3. PICK i \in 1..n : part = Part[i] BY DEF Linked
<1>4. LinkName(m, part) \notin LinkNames /\ HostFile(cfg[m][part]) # {} BY <1>2, <1>3
<1>5. HostFile(cfg[m][part]) = {Meant(m, part)}
  <2>1. part \in Parts /\ given[m].files[part] # Absent
    BY <1>1 DEF Linked, Present, Parts
  <2>2. HostFile(cfg[m][part]) \subseteq {Meant(m, part)} BY <1>1, <2>1, Parted DEF OnHost
  <2> QED BY <1>4, <2>2
<1>6. NewLinks(m, part) = {<<LinkName(m, part), Meant(m, part)>>}
  BY <1>4, <1>5, SMTT(40) DEF NewLinks
<1>7. ASSUME NEW q \in Linked(m, n), LinkName(m, q) = LinkName(m, part) PROVE q = part
  <2>1. PICK j \in 1..n : q = Part[j] BY DEF Linked
  <2>2. CASE j < i
    <3>1. q \in Linked(m, i - 1)
      <4>1. j \in 1..(i - 1) BY <2>2, SMTT(40)
      <4> QED BY <2>1, <4>1 DEF Linked
    <3> QED BY <1>2, <1>3, <1>7, <3>1
  <2>3. CASE i < j
    <3>1. part \in Linked(m, j - 1)
      <4>1. i \in 1..(j - 1) BY <2>3, SMTT(40)
      <4> QED BY <1>3, <4>1 DEF Linked
    <3> QED BY <1>2, <1>7, <2>1, <3>1
  <2>4. CASE i = j BY <1>3, <2>1, <2>4
  <2> QED BY <2>2, <2>3, <2>4, SMTT(40)
<1> QED BY <1>4, <1>6, <1>7

\* The name of a link is not empty.
LEMMA LinkNamed ==
    ASSUME IInv, NEW m \in Machine, pc[m] = "link", NEW part \in Present(m)
    PROVE  <<Jail, LinkName(m, part)>> # Absent
<1>1. cfg[m] = given[m].files /\ given[m] \in Config
  BY Parted DEF TypeInv, Paths
<1>2. part \in Range(Part) /\ cfg[m][part] # Absent BY DEF Present
<1>3. given[m].kernel_name # "" /\ cfg[m][part][2] # ""
  BY <1>1, <1>2, ConfigAssumption
<1>4. LinkName(m, part) # "" BY <1>3 DEF LinkName
<1>5. \A name : <<Jail, LinkName(m, part)>> = <<Jail, name>> => LinkName(m, part) = name
  OBVIOUS
<1> QED BY <1>4, <1>5 DEF Absent


\* What link_files_handler does, also when it fails half way: a path that it
\* rewrites leads to the file that was meant, and when it succeeds no path of m
\* leads anywhere else.
LEMMA Relinked ==
    ASSUME IInv, NEW m \in Machine, LinkFiles(m)
    PROVE  /\ DOMAIN cfg' = Machine /\ DOMAIN cfg'[m] = Parts
           /\ \A v \in Machine \ {m} : cfg'[v] = cfg[v]
           /\ \A part \in Parts : cfg'[m][part] = Absent <=> cfg[m][part] = Absent
           /\ \A part \in Parts : cfg'[m][part] # cfg[m][part] =>
                 <<cfg'[m][part][2], Meant(m, part)>> \in links'
           /\ \/ pc' = [pc EXCEPT ![m] = "api"] /\ UNCHANGED <<vmm, socket, fifos>>
                 /\ \A part \in Present(m), l \in links' :
                       cfg'[m][part] = <<Jail, l[1]>> => l[2] = Meant(m, part)
              \/ End(m, "failed")
<1>1. pc[m] = "link" BY DEF LinkFiles
<1>2. PICK n \in 0..6, failed \in SUBSET Fifo :
        /\ Linkable(m, n)
        /\ links' = links \cup UNION {NewLinks(m, part) : part \in Linked(m, n)}
        /\ cfg' = [cfg EXCEPT ![m] = [part \in DOMAIN cfg[m] |->
                     IF part \in Rewritten(m, n) \ failed
                     THEN <<Jail, LinkName(m, part)>> ELSE cfg[m][part]]]
        /\ IF Linked(m, n) = Present(m) /\ failed = {}
           THEN pc' = [pc EXCEPT ![m] = "api"] /\ UNCHANGED <<vmm, socket, fifos>>
           ELSE End(m, "failed")
  <2>1. Len(Part) = 6 BY PartFacts
  <2> QED BY <2>1 DEF LinkFiles
<1> DEFINE moved == Rewritten(m, n) \ failed
<1>3. DOMAIN cfg = Machine /\ DOMAIN cfg[m] = Parts BY Parted DEF TypeInv
<1>4. cfg'[m] = [part \in Parts |->
                   IF part \in moved THEN <<Jail, LinkName(m, part)>> ELSE cfg[m][part]]
  BY <1>2, <1>3
<1>5. DOMAIN cfg' = Machine /\ DOMAIN cfg'[m] = Parts BY <1>2, <1>3, <1>4
<1>6. \A v \in Machine \ {m} : cfg'[v] = cfg[v] BY <1>2, <1>3
<1>7. moved \subseteq Linked(m, n) /\ Linked(m, n) \subseteq Present(m)
  BY DEF Rewritten, Linked
<1>8. ASSUME NEW part \in Parts PROVE cfg'[m][part] = Absent <=> cfg[m][part] = Absent
  <2>1. CASE part \in moved
    <3>1. cfg'[m][part] = <<Jail, LinkName(m, part)>> BY <1>4, <2>1
    <3>2. part \in Present(m) BY <1>7, <2>1
    <3>3. <<Jail, LinkName(m, part)>> # Absent BY <1>1, <3>2, LinkNamed
    <3>4. cfg[m][part] # Absent BY <3>2 DEF Present
    <3> QED BY <3>1, <3>3, <3>4
  <2>2. CASE part \notin moved BY <1>4, <2>2
  <2> QED BY <2>1, <2>2
<1>9. ASSUME NEW part \in Linked(m, n)
      PROVE  <<LinkName(m, part), Meant(m, part)>> \in links'
  <2>1. NewLinks(m, part) = {<<LinkName(m, part), Meant(m, part)>>}
    BY <1>1, <1>2, LinkFacts
  <2> QED BY <1>2, <2>1
<1>10. ASSUME NEW part \in Parts, cfg'[m][part] # cfg[m][part]
       PROVE  <<cfg'[m][part][2], Meant(m, part)>> \in links'
  <2>1. part \in moved BY <1>4, <1>10
  <2>2. cfg'[m][part][2] = LinkName(m, part) BY <1>4, <2>1, SMTT(40)
  <2> QED BY <1>7, <1>9, <2>1, <2>2
<1>11. CASE Linked(m, n) = Present(m) /\ failed = {}
  <2>1. moved = Present(m) BY <1>11 DEF Rewritten
  <2>2. ASSUME NEW part \in Present(m), NEW l \in links', cfg'[m][part] = <<Jail, l[1]>>
        PROVE  l[2] = Meant(m, part)
    <3>1. part \in Parts BY DEF Present, Parts
    <3>2. cfg'[m][part] = <<Jail, LinkName(m, part)>> BY <1>4, <2>1, <3>1
    <3>3. l[1] = LinkName(m, part) BY <2>2, <3>2, SMTT(40)
    <3>4. LinkName(m, part) \notin LinkNames BY <1>1, <1>2, <1>11, LinkFacts, SMTT(40)
    <3>5. l \notin links BY <3>3, <3>4 DEF LinkNames
    <3>6. PICK q \in Linked(m, n) : l \in NewLinks(m, q) BY <1>2, <3>5
    <3>7. l = <<LinkName(m, q), Meant(m, q)>> BY <1>1, <1>2, <3>6, LinkFacts, SMTT(40)
    <3>8. LinkName(m, q) = LinkName(m, part) BY <3>3, <3>7
    <3>9. q = part BY <1>1, <1>2, <1>11, <3>8, LinkFacts
    <3> QED BY <3>7, <3>9
  <2> QED BY <1>2, <1>5, <1>6, <1>8, <1>10, <1>11, <2>2
<1>12. CASE ~(Linked(m, n) = Present(m) /\ failed = {})
  BY <1>2, <1>5, <1>6, <1>8, <1>10, <1>12
<1> QED BY <1>11, <1>12


\* What the end of m changes of a Machine: only its own place and process.
LEMMA EndFacts ==
    ASSUME IInv, NEW m \in Machine, NEW label \in {"failed", "over"}, End(m, label)
    PROVE  /\ pc'[m] = label /\ vmm'[m] \in {"none", "dead"}
           /\ \A v \in Machine \ {m} : pc'[v] = pc[v] /\ vmm'[v] = vmm[v]
           /\ fifos' \subseteq fifos /\ socket' \in {socket, None}
<1>1. pc' = [pc EXCEPT ![m] = label] /\ m \in DOMAIN pc BY Parted DEF End, TypeInv
<1>2. vmm' = [vmm EXCEPT ![m] = IF vmm[m] = "none" THEN vmm[m] ELSE "dead"]
  BY DEF End
<1>3. m \in DOMAIN vmm BY Parted DEF TypeInv
<1>4. vmm'[m] \in {"none", "dead"} BY <1>2, <1>3
<1>5. fifos' \subseteq fifos /\ socket' \in {socket, None} BY DEF End, Cleanup
<1>6. DOMAIN pc = Machine /\ DOMAIN vmm = Machine BY Parted DEF TypeInv
<1> QED BY <1>1, <1>2, <1>4, <1>5, <1>6

\* link_files_handler keeps the invariant, whether it succeeds or not.
LEMMA LinkFilesKeeps ==
    ASSUME IInv, NEW m \in Machine, LinkFiles(m), NEW v \in Machine
    PROVE  Inv(v)'
<1>1. /\ Inv(m) /\ Fixed /\ m \in DOMAIN pc
      /\ UNCHANGED <<step, guest>> /\ pc[m] = "link" /\ pc[m] \in Starting
  BY Parted DEF TypeInv, LinkFiles, Fixed, Starting
<1>2. /\ \A w \in Machine \ {m} : cfg'[w] = cfg[w]
      /\ \A part \in Parts : cfg'[m][part] = Absent <=> cfg[m][part] = Absent
  BY Relinked
<1>3. jailed BY <1>1, Parted DEF Process
<1>4. CASE End(m, "failed")
  <2>1. /\ pc'[m] = "failed" /\ vmm'[m] \in {"none", "dead"}
        /\ \A w \in Machine \ {m} : pc'[w] = pc[w] /\ vmm'[w] = vmm[w]
    BY <1>4, EndFacts
  <2>2. CASE v # m
    <3>1. Same(v) /\ vmm'[v] = vmm[v] BY <1>1, <1>2, <2>1, <2>2 DEF Same
    <3> QED BY <1>1, <2>2, <3>1, OthersStay
  <2>3. CASE v = m
    <3>1. \A g \in guest'[m] : Proper(m, g) BY <1>1, Parted DEF Guest
    <3> QED BY <1>1, <1>2, <1>3, <2>1, <2>3, <3>1, Ended
  <2> QED BY <2>2, <2>3
<1>5. CASE /\ pc' = [pc EXCEPT ![m] = "api"] /\ UNCHANGED <<vmm, socket, fifos>>
           /\ \A part \in Present(m), l \in links' :
                 cfg'[m][part] = <<Jail, l[1]>> => l[2] = Meant(m, part)
  <2>1. pc'[m] = "api" /\ \A w \in Machine \ {m} : pc'[w] = pc[w]
    BY <1>1, <1>5, Parted DEF TypeInv
  <2>2. CASE v # m
    <3>1. Same(v) /\ vmm'[v] = vmm[v] BY <1>1, <1>2, <1>5, <2>1, <2>2 DEF Same
    <3> QED BY <1>1, <2>2, <3>1, OthersStay
  <2>3. CASE v = m
    <3>1. Process(m)' BY <1>1, <1>5, <2>1, Parted DEF Process, Early, Waiting
    <3>2. Alone(m)'
      <4>1. \A w \in Machine \ {m} : pc'[w] \notin Starting
        BY <1>1, <2>1, Parted DEF Alone
      <4> QED BY <1>1, <1>5, <4>1, Parted DEF Alone, Alive, Fixed
    <3>3. Paths(m)'
      BY <1>1, <1>2, <1>3, <2>1, Parted DEF Paths, Fixed, Early, Waiting
    <3>4. OnHost(m)'
      BY <1>1, <1>5, Parted DEF OnHost, HostFile, Meant, Fixed
    <3>5. Present(m)' = Present(m)
      BY <1>2 DEF Present, Parts
    <3>6. InJail(m)' BY <1>1, <1>5, <3>5 DEF InJail, Meant, Fixed
    <3>7. Guest(m)'
      <4>1. guest'[m] = {} /\ step'[m] = 1 BY <1>1, Parted DEF Guest
      <4>2. Opened(m)' = {} BY <4>1 DEF Opened
      <4>3. Asked(step'[m]) = {} BY <4>1, AskedFacts
      <4>4. Asked(step[m])' = {} BY <4>3 DEF Asked
      <4> QED BY <2>1, <4>1, <4>2, <4>4 DEF Guest, Early, Waiting
    <3> QED BY <2>3, <3>1, <3>2, <3>3, <3>4, <3>6, <3>7, Whole
  <2> QED BY <2>2, <2>3
<1> QED BY <1>4, <1>5, Relinked

-----------------------------------------------------------------------------
(* The requests                                                            *)

\* What a VMM finds under a path that m's start() names to it is what was meant.
LEMMA VmmFileMeant ==
    ASSUME IInv, NEW m \in Machine, pc[m] = "api", NEW part \in Present(m)
    PROVE  VmmFile(cfg[m][part]) \subseteq {Meant(m, part)}
<1>1. Inv(m) /\ jailed \in BOOLEAN BY Parted DEF TypeInv
<1>2. part \in Parts /\ cfg[m][part] # Absent BY DEF Present, Parts
<1>3. CASE jailed
  <2>1. \A l \in links : cfg[m][part] = <<Jail, l[1]>> => l[2] = Meant(m, part)
    BY <1>1, <1>3, Parted DEF InJail
  <2>2. VmmFile(cfg[m][part]) = {l[2] : l \in {k \in links : cfg[m][part] = <<Jail, k[1]>>}}
    BY <1>3 DEF VmmFile
  <2> QED BY <2>1, <2>2
<1>4. CASE ~jailed
  <2>1. cfg[m] = given[m].files BY <1>1, <1>4, Parted DEF Paths
  <2>2. HostFile(cfg[m][part]) \subseteq {Meant(m, part)}
    BY <1>1, <1>2, <2>1, Parted DEF OnHost
  <2>3. VmmFile(cfg[m][part]) = HostFile(cfg[m][part]) BY <1>4 DEF VmmFile
  <2> QED BY <2>2, <2>3
<1> QED BY <1>1, <1>3, <1>4

\* A request that is accepted gives the parts it names, as m means them, to the VMM
\* that is there: m's own or, then only FIFOs, one that is up.
LEMMA OpenFacts ==
    ASSUME IInv, NEW m \in Machine, pc[m] = "api", socket # None, Accepts(socket, m),
           Open(socket, m)
    PROVE  /\ \A g \in guest'[m] : Proper(m, g)
           /\ (Opened(m) \cup Named(m)) \ Astray(m) \subseteq {g[1] : g \in guest'[m]}
           /\ \A v \in Machine \ {m} : guest'[v] = guest[v] \/ Given(v)
           /\ DOMAIN guest' = Machine
<1> DEFINE new == UNION {{part} \X VmmFile(cfg[m][part]) : part \in Named(m)}
<1>1. /\ socket \in Machine
      /\ socket # m => /\ vmm[socket] = "booted" /\ pc[socket] = "up"
                       /\ ~jailed /\ given[m].disable_validation
  <2>1. Alive(socket) BY DEF Accepts, Alive
  <2> QED BY <2>1, OwnSocket
<1>2. PICK u \in Machine : u = socket BY <1>1
<1>3. DOMAIN guest = Machine /\ Inv(m) /\ Inv(u) BY Parted DEF TypeInv
<1>4. /\ guest'[u] = {g \in guest[u] : g[1] \notin Named(m)} \cup new
      /\ \A v \in Machine \ {u} : guest'[v] = guest[v]
      /\ DOMAIN guest' = Machine
  BY <1>2, <1>3 DEF Open
<1>5. Named(m) \subseteq Present(m) BY DEF Named
<1>6. u # m => Named(m) \subseteq Fifo BY <1>1, <1>2 DEF Accepts
<1>7. \A part \in Named(m) : VmmFile(cfg[m][part]) = {Meant(m, part)}
  <2>1. \A part \in Named(m) : VmmFile(cfg[m][part]) \subseteq {Meant(m, part)}
    BY <1>5, VmmFileMeant
  <2>2. \A part \in Named(m) : VmmFile(cfg[m][part]) # {} BY <1>2 DEF Accepts
  <2> QED BY <2>1, <2>2
<1>8. \A g : g \in new <=> \E part \in Named(m) : g = <<part, Meant(m, part)>>
  BY <1>7, SMTT(40)
<1> HIDE DEF new
<1>9. \A part : <<part, Meant(m, part)>>[1] = part
               /\ <<part, Meant(m, part)>>[2] = Meant(m, part)
  OBVIOUS
<1>10. ASSUME NEW g \in new PROVE Proper(u, g)
  <2>0. g[1] \in Named(m) /\ g[2] = Meant(m, g[1])
    <3>1. PICK part \in Named(m) : g = <<part, Meant(m, part)>> BY <1>8, <1>10
    <3>2. g[1] = part /\ g[2] = Meant(m, part) BY <3>1
    <3> QED BY <3>2
  <2>1. CASE u = m BY <2>0, <2>1 DEF Proper
  <2>2. CASE u # m
    <3>1. ~jailed /\ given[m].disable_validation /\ Named(m) \subseteq Fifo
      BY <1>1, <1>2, <1>6, <2>2
    <3> QED BY <2>0, <3>1 DEF Proper
  <2> QED BY <2>1, <2>2
<1>11. \A g \in guest'[u] : Proper(u, g) BY <1>3, <1>4, <1>10, Parted DEF Guest
<1>12. Opened(u) \cup Named(m) \subseteq {g[1] : g \in guest'[u]}
  <2>1. \A part \in Named(m) : \E g \in guest'[u] : g[1] = part BY <1>4, <1>8, <1>9
  <2>2. \A part \in Opened(u) \ Named(m) : \E g \in guest'[u] : g[1] = part
    BY <1>4 DEF Opened
  <2> QED BY <2>1, <2>2
<1>13. CASE u = m BY <1>4, <1>11, <1>12, <1>13
<1>14. CASE u # m
  <2>1. guest'[m] = guest[m] BY <1>4, <1>14
  <2>2. \A g \in guest'[m] : Proper(m, g) BY <1>3, <2>1, Parted DEF Guest
  <2>3. Named(m) \subseteq Astray(m) BY <1>1, <1>2, <1>6, <1>14 DEF Astray
  <2>4. (Opened(m) \cup Named(m)) \ Astray(m) \subseteq {g[1] : g \in guest'[m]}
    BY <2>1, <2>3 DEF Opened
  <2>5. Given(u) BY <1>1, <1>2, <1>11, <1>12, <1>14 DEF Given
  <2> QED BY <1>4, <2>2, <2>4, <2>5
<1> QED BY <1>13, <1>14

\* m's start() is through with one request, acknowledged or not needed.
Advances(m) ==
    /\ Fixed /\ UNCHANGED <<cfg, pc, vmm, socket, fifos, links>>
    /\ pc[m] = "api" /\ step[m] \in 1..6
    /\ step' = [step EXCEPT ![m] = @ + 1]
    /\ \A v \in Machine \ {m} : guest'[v] = guest[v] \/ Given(v)
    /\ \A g \in guest'[m] : Proper(m, g)
    /\ (Opened(m) \cup Named(m)) \ Astray(m) \subseteq {g[1] : g \in guest'[m]}

\* Then its VMM has the parts of one request more.
LEMMA AdvancesKeeps ==
    ASSUME IInv, NEW m \in Machine, Advances(m), NEW v \in Machine
    PROVE  Inv(v)'
<1>1. Inv(m) /\ DOMAIN step = Machine /\ pc[m] \in Starting
  BY Parted DEF TypeInv, Advances, Starting
<1>2. CASE v # m
  <2>1. Same(v) /\ vmm'[v] = vmm[v] BY <1>1, <1>2 DEF Same, Advances
  <2> QED BY <1>1, <1>2, <2>1, OthersStay DEF Advances
<1>3. CASE v = m
  <2>1. Process(m)' BY <1>1, Parted DEF Advances, Process, Fixed
  <2>2. Alone(m)' BY <1>1, Parted DEF Advances, Alone, Alive, Fixed
  <2>3. Paths(m)' BY <1>1, Parted DEF Advances, Paths, Fixed
  <2>4. OnHost(m)'
    BY <1>1, Parted DEF Advances, OnHost, HostFile, Meant, Fixed
  <2>5. Present(m)' = Present(m) BY DEF Advances, Present
  <2>6. InJail(m)' BY <1>1, <2>5, Parted DEF Advances, InJail, Meant, Fixed
  <2>7. Guest(m)'
    <3>1. step'[m] = step[m] + 1 BY <1>1 DEF Advances
    <3>2. (Asked(step[m]) \cap Present(m)) \ Astray(m) \subseteq Opened(m)
      BY <1>1, Parted DEF Advances, Guest
    <3>3. Asked(step'[m]) = Asked(step[m]) \cup Request[step[m]]
      BY <3>1, AskedFacts DEF Advances
    <3>4. (Asked(step'[m]) \cap Present(m)) \ Astray(m) \subseteq Opened(m)'
      BY <3>2, <3>3 DEF Advances, Opened, Named
    <3>5. Asked(step[m])' = Asked(step'[m]) /\ Astray(m)' = Astray(m)
      BY DEF Asked, Astray, Advances, Fixed
    <3>6. \A g : Proper(m, g)' <=> Proper(m, g) BY DEF Advances, Fixed, Proper, Meant
    <3>7. pc'[m] = "api" /\ \A g \in guest'[m] : Proper(m, g) BY DEF Advances
    <3> QED BY <2>5, <3>4, <3>5, <3>6, <3>7 DEF Guest, Early, Waiting
  <2> QED BY <1>3, <2>1, <2>2, <2>3, <2>4, <2>6, <2>7, Whole
<1> QED BY <1>2, <1>3


\* A request that is skipped or acknowledged advances start(); it is m's own VMM
\* that acknowledges it.
LEMMA RequestSteps ==
    ASSUME IInv, NEW m \in Machine, SkipRequest(m) \/ RequestOk(m)
    PROVE  Advances(m)
<1>1. /\ step[m] \in 1..7 /\ Len(Request) = 6 BY PartFacts, Parted DEF TypeInv
<1>2. CASE SkipRequest(m)
  <2>1. step[m] \in 1..6 BY <1>1, <1>2, SMTT(40) DEF SkipRequest
  <2>2. Named(m) = {} BY <1>2 DEF SkipRequest, Skipped
  <2>3. UNCHANGED guest BY <1>2 DEF SkipRequest
  <2>4. \A g \in guest'[m] : Proper(m, g) BY <2>3, Parted DEF Guest
  <2>5. (Opened(m) \cup Named(m)) \ Astray(m) \subseteq {g[1] : g \in guest'[m]}
    BY <2>2, <2>3 DEF Opened
  <2> QED BY <1>2, <2>1, <2>3, <2>4, <2>5 DEF SkipRequest, Advances, Fixed
<1>3. CASE RequestOk(m)
  <2>1. step[m] \in 1..6 /\ pc[m] = "api" BY <1>1, <1>3, SMTT(40) DEF RequestOk
  <2>2. socket # None /\ Accepts(socket, m) /\ Open(socket, m) BY <1>3 DEF RequestOk
  <2> QED BY <1>3, <2>1, <2>2, OpenFacts DEF RequestOk, Advances, Fixed
<1> QED BY <1>2, <1>3

\* start() ends early: by itself, or with an answer that is late although m's
\* VMM has done what it was asked.
LEMMA FailureKeeps ==
    ASSUME IInv, NEW m \in Machine, RequestLate(m) \/ FailStart(m), NEW v \in Machine
    PROVE  Inv(v)'
<1>1. /\ Fixed /\ UNCHANGED <<cfg, step>> /\ End(m, "failed") /\ pc[m] \in Starting
  BY DEF RequestLate, FailStart, Fixed, Starting, Early, Waiting
<1>2. /\ pc'[m] = "failed" /\ vmm'[m] \in {"none", "dead"}
      /\ \A w \in Machine \ {m} : pc'[w] = pc[w] /\ vmm'[w] = vmm[w]
  BY <1>1, EndFacts
<1>3. /\ \A w \in Machine \ {m} : guest'[w] = guest[w] \/ Given(w)
      /\ \A g \in guest'[m] : Proper(m, g)
  <2>1. CASE RequestLate(m)
    <3>1. pc[m] = "api" /\ socket # None /\ Accepts(socket, m) /\ Open(socket, m)
      BY <2>1 DEF RequestLate
    <3> QED BY <3>1, OpenFacts
  <2>2. CASE FailStart(m) BY <2>2, Parted DEF FailStart, Guest
  <2> QED BY <2>1, <2>2
<1>4. CASE v # m
  <2>1. Same(v) /\ vmm'[v] = vmm[v] BY <1>1, <1>2, <1>3, <1>4 DEF Same
  <2> QED BY <1>1, <1>4, <2>1, OthersStay
<1>5. CASE v = m BY <1>1, <1>2, <1>3, <1>5, Ended
<1> QED BY <1>4, <1>5

\* start_instance comes after the last request, so the guest has all parts.
LEMMA StartInstanceKeeps ==
    ASSUME IInv, NEW m \in Machine, StartInstance(m), NEW v \in Machine
    PROVE  Inv(v)'
<1>1. /\ Fixed /\ UNCHANGED <<cfg, step, socket, fifos, links, guest>>
      /\ pc[m] = "api" /\ pc[m] \in Starting /\ Inv(m)
  BY Parted DEF StartInstance, Fixed, Starting
<1>2. socket = m
  <2>1. socket # None /\ Alive(socket) /\ vmm[socket] # "booted"
    BY DEF StartInstance, Alive
  <2> QED BY <1>1, <2>1, OwnSocket
<1>3. /\ vmm'[m] = "booted" /\ pc'[m] = "up"
      /\ \A w \in Machine \ {m} : pc'[w] = pc[w] /\ vmm'[w] = vmm[w]
  BY <1>2, Parted DEF StartInstance, TypeInv
<1>4. CASE v # m
  <2>1. Same(v) /\ vmm'[v] = vmm[v] BY <1>1, <1>3, <1>4 DEF Same
  <2> QED BY <1>1, <1>4, <2>1, OthersStay
<1>5. CASE v = m
  <2>1. Process(m)' BY <1>3 DEF Process, Early, Waiting
  <2>2. Alone(m)' BY <1>3 DEF Alone, Starting, Early, Waiting
  <2>3. Paths(m)' BY <1>1, <1>3, Parted DEF Paths, Fixed, Early, Waiting
  <2>4. OnHost(m)' /\ InJail(m)' BY <1>3 DEF OnHost, InJail
  <2>5. step[m] = 7 BY PartFacts, Parted, SMTT(40) DEF StartInstance, TypeInv
  <2>6. Present(m) \subseteq Asked(step[m])
    BY <2>5, AskedFacts DEF Present, Parts
  <2>7. Present(m) \ Astray(m) \subseteq Opened(m) BY <1>1, <2>6, Parted DEF Guest
  <2>8. (Present(m) \ Astray(m) \subseteq Opened(m))'
    BY <1>1, <2>7 DEF Opened, Present, Astray, Fixed
  <2>9. Guest(m)'
    <3>1. \A g : Proper(m, g)' <=> Proper(m, g) BY <1>1 DEF Fixed, Proper, Meant
    <3>2. \A g \in guest'[m] : Proper(m, g) BY <1>1, Parted DEF Guest
    <3> QED BY <1>3, <2>8, <3>1, <3>2 DEF Guest, Early, Waiting
  <2> QED BY <1>5, <2>1, <2>2, <2>3, <2>4, <2>9, Whole
<1> QED BY <1>4, <1>5

-----------------------------------------------------------------------------
(* The VMM and the caller                                                  *)

\* stop_vmm and wait of another Machine may take the socket path away from a
\* start() that runs, and nothing else.
LEMMA StopKeeps ==
    ASSUME IInv, NEW m \in Machine, Stop(m), NEW v \in Machine
    PROVE  Inv(v)'
<1>1. /\ Fixed /\ UNCHANGED <<cfg, step, links, guest>> /\ End(m, "over")
      /\ Inv(v) /\ Inv(m)
  BY Parted DEF Stop, Fixed
<1>2. /\ pc'[m] = "over" /\ vmm'[m] \in {"none", "dead"}
      /\ \A w \in Machine \ {m} : pc'[w] = pc[w] /\ vmm'[w] = vmm[w]
      /\ fifos' \subseteq fifos /\ socket' \in {socket, None}
  BY <1>1, EndFacts
<1>3. CASE v # m
  <2>1. Same(v) BY <1>1, <1>2, <1>3 DEF Same
  <2>2. Process(v)' BY <1>1, <1>2, <1>3, Parted DEF Process, Fixed
  <2>3. Alone(v)'
    <3> SUFFICES ASSUME pc'[v] \in Starting
                 PROVE  /\ \A w \in Machine \ {v} : pc'[w] \notin Starting
                        /\ jailed => \A w \in Machine \ {v} : ~Alive(w)'
                        /\ ~jailed /\ pc'[v] # "validate" /\ ~given[v].disable_validation =>
                              socket' \in {None, v}
      BY <1>1 DEF Alone, Fixed
    <3>1. pc[v] \in Starting BY <2>1 DEF Same
    <3>2. pc'[m] \notin Starting BY <1>2 DEF Starting, Early, Waiting
    <3>3. \A w \in Machine \ {v} : pc'[w] \notin Starting
      BY <1>1, <1>2, <3>1, <3>2, Parted DEF Alone
    <3>4. ~Alive(m)' BY <1>2 DEF Alive
    <3>5. jailed => \A w \in Machine \ {v} : ~Alive(w)'
      BY <1>1, <1>2, <3>1, <3>4, Parted DEF Alone, Alive
    <3>6. ~jailed /\ pc'[v] # "validate" /\ ~given[v].disable_validation =>
                              socket' \in {None, v}
      BY <1>1, <1>2, <2>1, <3>1, Parted DEF Alone, Same
    <3> QED BY <3>3, <3>5, <3>6
  <2> QED BY <1>1, <1>2, <2>1, <2>2, <2>3, Unmoved
<1>4. CASE v = m
  <2>1. \A g \in guest'[m] : Proper(m, g) BY <1>1, Parted DEF Guest
  <2> QED BY <1>1, <1>2, <1>4, <2>1, Ended
<1> QED BY <1>3, <1>4

\* A VMM binds the socket path when it is free, or ends: the one that does so
\* belongs to the start() that runs.
LEMMA BindKeeps ==
    ASSUME IInv, NEW u \in Machine, Bind(u), NEW v \in Machine
    PROVE  Inv(v)'
<1>1. /\ Fixed /\ UNCHANGED <<cfg, pc, step, fifos, links, guest>>
      /\ Inv(v) /\ Inv(u) /\ vmm[u] = "spawned"
  BY Parted DEF Bind, Fixed
<1>2. /\ vmm'[u] \in {"running", "dead"}
      /\ \A w \in Machine \ {u} : vmm'[w] = vmm[w]
      /\ socket' \in {socket, u}
  BY Parted DEF Bind, TypeInv
<1>3. pc[u] \in Waiting \cup {"link", "api"}
  <2>1. pc[u] \in {"new", "up", "failed", "over"} \cup Starting BY Parted DEF TypeInv
  <2> QED BY <1>1, <2>1, Parted DEF Process, Starting
<1>4. pc[u] \in Starting BY <1>3 DEF Starting
<1>5. Same(v) BY <1>1 DEF Same
<1>6. Process(v)'
  <2>1. CASE v = u
    BY <1>1, <1>2, <1>3, <2>1, Parted DEF Process, Fixed, Early, Waiting
  <2>2. CASE v # u BY <1>1, <1>2, <2>2, Parted DEF Process, Fixed
  <2> QED BY <2>1, <2>2
<1>7. Alone(v)'
  <2>1. CASE v = u
    BY <1>1, <1>2, <2>1, Parted DEF Alone, Alive, Fixed
  <2>2. CASE v # u
    <3>1. pc[v] \notin Starting BY <1>1, <1>4, <2>2, Parted DEF Alone
    <3> QED BY <1>1, <3>1 DEF Alone
  <2> QED BY <2>1, <2>2
<1> QED BY <1>1, <1>5, <1>6, <1>7, Unmoved

\* A VMM ends by itself, at any time.
LEMMA CrashKeeps ==
    ASSUME IInv, NEW u \in Machine, Crash(u), NEW v \in Machine
    PROVE  Inv(v)'
<1>1. /\ Fixed /\ UNCHANGED <<cfg, pc, step, socket, fifos, links, guest>>
      /\ Inv(v) /\ Inv(u) /\ Alive(u)
  BY Parted DEF Crash, Fixed
<1>2. vmm'[u] = "dead" /\ \A w \in Machine \ {u} : vmm'[w] = vmm[w]
  BY Parted DEF Crash, TypeInv
<1>3. Same(v) BY <1>1 DEF Same
<1>4. Process(v)'
  <2>1. CASE v = u
    BY <1>1, <1>2, <2>1, Parted DEF Process, Fixed, Alive
  <2>2. CASE v # u BY <1>1, <1>2, <2>2, Parted DEF Process, Fixed
  <2> QED BY <2>1, <2>2
<1>5. Alone(v)'
  <2>1. \A w \in Machine : Alive(w)' => Alive(w) BY <1>2 DEF Alive
  <2> QED BY <1>1, <2>1, Parted DEF Alone, Fixed
<1> QED BY <1>1, <1>3, <1>4, <1>5, Unmoved

\* The chroot is removed while no start() runs.
LEMMA RemoveChrootKeeps ==
    ASSUME IInv, RemoveChroot, NEW v \in Machine
    PROVE  Inv(v)'
<1>1. /\ Fixed /\ UNCHANGED <<cfg, pc, step, vmm, fifos, guest>> /\ Inv(v)
  BY Parted DEF RemoveChroot, Fixed
<1>2. pc[v] \notin Starting BY DEF RemoveChroot, NoStart, Starting, Early, Waiting
<1>3. Same(v) BY <1>1 DEF Same
<1>4. Process(v)' BY <1>1, Parted DEF Process, Fixed
<1>5. Alone(v)' BY <1>1, <1>2 DEF Alone
<1> QED BY <1>1, <1>2, <1>3, <1>4, <1>5, Unmoved

-----------------------------------------------------------------------------
(* Types                                                                   *)

\* The end of a Machine keeps the types of what it changes.
LEMMA EndType ==
    ASSUME TypeInv, NEW m \in Machine, NEW label \in {"failed", "over"}, End(m, label)
    PROVE  /\ pc' \in [Machine -> {"new", "up", "failed", "over"} \cup Starting]
           /\ vmm' \in [Machine -> {"none", "spawned", "running", "booted", "dead"}]
           /\ socket' \in Machine \cup {None}
           /\ fifos' \subseteq fifos
BY DEF TypeInv, End, Cleanup

\* Every step keeps the types.
LEMMA TypePreserved ==
    ASSUME IInv, Next
    PROVE  TypeInv'
<1> USE DEF TypeInv
<1>1. TypeInv BY Parted
<1>2. {"validate", "spawn", "wait", "log_files", "link", "api"} \subseteq Starting
  BY DEF Starting, Early, Waiting
<1>3. ASSUME NEW m \in Machine, Start(m) \/ Validate(m) \/ Spawn(m) \/ Ready(m)
      PROVE  TypeInv'
  BY <1>1, <1>2, <1>3, SMTT(40) DEF Start, Validate, Spawn, Ready
<1>4. ASSUME NEW m \in Machine, CreateLogFiles(m) PROVE TypeInv'
  BY <1>1, <1>2, <1>4 DEF CreateLogFiles
<1>5. ASSUME NEW m \in Machine, LinkFiles(m) PROVE TypeInv'
  <2>1. DOMAIN cfg' = Machine /\ DOMAIN cfg'[m] = Parts BY <1>5, Relinked
  <2>2. \A v \in Machine : DOMAIN cfg'[v] = Parts BY <1>1, <1>5, <2>1, Relinked
  <2>3. UNCHANGED <<jailed, given, step, guest>> BY <1>5 DEF LinkFiles
  <2>4. /\ pc' \in [Machine -> {"new", "up", "failed", "over"} \cup Starting]
        /\ vmm' \in [Machine -> {"none", "spawned", "running", "booted", "dead"}]
        /\ socket' \in Machine \cup {None}
    <3>1. CASE End(m, "failed") BY <1>1, <3>1, EndType
    <3>2. CASE pc' = [pc EXCEPT ![m] = "api"] /\ UNCHANGED <<vmm, socket, fifos>>
      BY <1>1, <1>2, <3>2
    <3> QED BY <1>5, <3>1, <3>2, Relinked
  <2> QED BY <1>1, <2>1, <2>2, <2>3, <2>4
<1>6. ASSUME NEW m \in Machine, SkipRequest(m) PROVE TypeInv'
  BY <1>1, <1>6, PartFacts, SMTT(40) DEF SkipRequest
<1>7. ASSUME NEW m \in Machine, RequestOk(m) PROVE TypeInv'
  BY <1>1, <1>7, PartFacts, SMTT(40) DEF RequestOk, Open
<1>8. ASSUME NEW m \in Machine, RequestLate(m) PROVE TypeInv'
  <2>1. /\ UNCHANGED <<jailed, given, cfg, step>> /\ End(m, "failed")
        /\ DOMAIN guest' = Machine
    BY <1>1, <1>8 DEF RequestLate, Open
  <2> QED BY <1>1, <2>1, EndType
<1>9. ASSUME NEW m \in Machine, StartInstance(m) PROVE TypeInv'
  BY <1>1, <1>9 DEF StartInstance
<1>10. ASSUME NEW m \in Machine, FailStart(m) PROVE TypeInv'
  <2>1. UNCHANGED <<jailed, given, cfg, step, guest>> /\ End(m, "failed")
    BY <1>10 DEF FailStart
  <2> QED BY <1>1, <2>1, EndType
<1>11. ASSUME NEW m \in Machine, Stop(m) PROVE TypeInv'
  <2>1. UNCHANGED <<jailed, given, cfg, step, guest>> /\ End(m, "over")
    BY <1>11 DEF Stop
  <2> QED BY <1>1, <2>1, EndType
<1>12. ASSUME NEW m \in Machine, Bind(m) \/ Crash(m) PROVE TypeInv'
  BY <1>1, <1>12 DEF Bind, Crash
<1>13. ASSUME RemoveChroot PROVE TypeInv' BY <1>1, <1>13 DEF RemoveChroot
<1> QED BY <1>3, <1>4, <1>5, <1>6, <1>7, <1>8, <1>9, <1>10, <1>11, <1>12, <1>13
     DEF Next

\* FIFOs appear in create_log_files only.
LEMMA FifoPathsPreserved ==
    ASSUME IInv, Next
    PROVE  FifoPaths' /\ Fixed
<1>1. FifoPaths BY Parted
<1>2. Fixed
  BY DEF Next, Fixed, Start, Validate, Spawn, Ready, CreateLogFiles, LinkFiles, SkipRequest,
      RequestOk, RequestLate, StartInstance, FailStart, Stop, Bind, Crash, RemoveChroot
<1>3. CASE fifos' \subseteq fifos BY <1>1, <1>2, <1>3 DEF FifoPaths, Fixed
<1>4. ASSUME NEW m \in Machine, CreateLogFiles(m) PROVE FifoPaths'
  <2> DEFINE wanted == {cfg[m][part] : part \in Fifo} \ {Absent}
  <2>1. cfg[m] = given[m].files
    BY <1>4, Parted DEF Paths, CreateLogFiles, Waiting
  <2>2. fifos' = fifos \cup (wanted \X {m}) BY <1>4 DEF CreateLogFiles
  <2>3. \A f \in wanted \X {m} : \E part \in Fifo :
            f = <<given[m].files[part], m>> /\ f[1] # Absent
    BY <2>1, SMTT(40)
  <2> QED BY <1>1, <1>2, <2>2, <2>3, SMTT(40) DEF FifoPaths, Fixed
<1>5. ASSUME NEW m \in Machine, NEW label \in {"failed", "over"}, End(m, label)
      PROVE  fifos' \subseteq fifos
  BY <1>5 DEF End, Cleanup
<1>6. ASSUME NEW m \in Machine, LinkFiles(m) PROVE fifos' \subseteq fifos
  BY <1>5, <1>6, Relinked
<1>7. ASSUME NEW m \in Machine, RequestLate(m) \/ FailStart(m) \/ Stop(m)
      PROVE  fifos' \subseteq fifos
  BY <1>5, <1>7 DEF RequestLate, FailStart, Stop
<1>8. ASSUME NEW m \in Machine,
             \/ Start(m) \/ Validate(m) \/ Spawn(m) \/ Ready(m) \/ SkipRequest(m)
             \/ RequestOk(m) \/ StartInstance(m) \/ Bind(m) \/ Crash(m)
      PROVE  fifos' \subseteq fifos
  BY <1>8 DEF Start, Validate, Spawn, Ready, SkipRequest, RequestOk, StartInstance, Bind,
              Crash
<1>9. ASSUME RemoveChroot PROVE fifos' \subseteq fifos BY <1>9 DEF RemoveChroot
<1> QED BY <1>2, <1>3, <1>4, <1>6, <1>7, <1>8, <1>9 DEF Next

-----------------------------------------------------------------------------
(* Theorems                                                                *)

\* The invariant behind the theorems: one start() at a time, on a socket that only
\* its own VMM or, with disable_validation, one that is up answers, with paths that
\* lead to the files that were meant.
THEOREM Invariance == Spec => []IInv
<1>1. Init => IInv
  <2> SUFFICES ASSUME Init PROVE IInv OBVIOUS
  <2>1. TypeInv
    <3>1. \A m \in Machine : given[m] \in Config BY DEF Init
    <3>2. \A m \in Machine : cfg[m] = given[m].files BY DEF Init
    <3>3. \A m \in Machine : DOMAIN given[m].files = Parts
      BY <3>1, ConfigAssumption DEF Parts
    <3>4. \A m \in Machine : DOMAIN cfg[m] = Parts BY <3>2, <3>3
    <3> QED BY <3>4, SMTT(40) DEF Init, TypeInv
  <2>2. FifoPaths BY DEF Init, FifoPaths
  <2>3. ASSUME NEW m \in Machine PROVE Inv(m)
    <3>1. /\ pc[m] = "new" /\ vmm[m] = "none" /\ step[m] = 1 /\ guest[m] = {}
          /\ cfg[m] = given[m].files
      BY DEF Init
    <3>2. Process(m) BY <3>1 DEF Process, Early, Waiting
    <3>3. Alone(m) BY <3>1 DEF Alone, Starting, Early, Waiting
    <3>4. Paths(m) BY <3>1 DEF Paths
    <3>5. OnHost(m) /\ InJail(m) BY <3>1 DEF OnHost, InJail
    <3>6. Guest(m) BY <3>1 DEF Guest
    <3> QED BY <3>2, <3>3, <3>4, <3>5, <3>6 DEF Inv
  <2> QED BY <2>1, <2>2, <2>3 DEF IInv
<1>2. IInv /\ [Next]_vars => IInv'
  <2> SUFFICES ASSUME IInv, [Next]_vars PROVE IInv' OBVIOUS
  <2>1. CASE Next
    <3>1. TypeInv' BY <2>1, TypePreserved
    <3>2. FifoPaths' BY <2>1, FifoPathsPreserved
    <3>3. ASSUME NEW v \in Machine PROVE Inv(v)'
      <4>1. ASSUME NEW m \in Machine, Start(m) PROVE Inv(v)' BY <4>1, StartKeeps
      <4>2. ASSUME NEW m \in Machine, Validate(m) \/ Spawn(m) \/ Ready(m) PROVE Inv(v)'
        BY <4>2, EarlySteps, GoesOnKeeps
      <4>3. ASSUME NEW m \in Machine, CreateLogFiles(m) PROVE Inv(v)'
        BY <4>3, LogFilesKeep
      <4>4. ASSUME NEW m \in Machine, LinkFiles(m) PROVE Inv(v)'
        BY <4>4, LinkFilesKeeps
      <4>5. ASSUME NEW m \in Machine, SkipRequest(m) \/ RequestOk(m) PROVE Inv(v)'
        BY <4>5, RequestSteps, AdvancesKeeps
      <4>6. ASSUME NEW m \in Machine, RequestLate(m) \/ FailStart(m) PROVE Inv(v)'
        BY <4>6, FailureKeeps
      <4>7. ASSUME NEW m \in Machine, StartInstance(m) PROVE Inv(v)'
        BY <4>7, StartInstanceKeeps
      <4>8. ASSUME NEW m \in Machine, Stop(m) PROVE Inv(v)' BY <4>8, StopKeeps
      <4>9. ASSUME NEW m \in Machine, Bind(m) PROVE Inv(v)' BY <4>9, BindKeeps
      <4>10. ASSUME NEW m \in Machine, Crash(m) PROVE Inv(v)' BY <4>10, CrashKeeps
      <4>11. ASSUME RemoveChroot PROVE Inv(v)' BY <4>11, RemoveChrootKeeps
      <4> QED BY <2>1, <4>1, <4>2, <4>3, <4>4, <4>5, <4>6, <4>7, <4>8, <4>9, <4>10,
                 <4>11 DEF Next
    <3> QED BY <3>1, <3>2, <3>3 DEF IInv
  <2>2. CASE UNCHANGED vars
    <3>1. Fixed /\ UNCHANGED <<cfg, pc, step, vmm, socket, fifos, links, guest>>
      BY <2>2 DEF vars, Fixed
    <3>2. TypeInv' BY <3>1, Parted DEF TypeInv, Fixed
    <3>3. FifoPaths' BY <3>1, Parted DEF FifoPaths, Fixed
    <3>4. ASSUME NEW v \in Machine PROVE Inv(v)'
      <4>1. Inv(v) /\ Process(v) /\ Alone(v) BY Parted
      <4>2. Same(v) BY <3>1 DEF Same
      <4>3. Process(v)' BY <3>1, <4>1 DEF Process, Fixed
      <4>4. Alone(v)' BY <3>1, <4>1 DEF Alone, Alive, Fixed
      <4> QED BY <3>1, <4>1, <4>2, <4>3, <4>4, Unmoved
    <3> QED BY <3>2, <3>3, <3>4 DEF IInv
  <2> QED BY <2>1, <2>2
<1> QED BY <1>1, <1>2, PTL DEF Spec

\* Every file that a VMM opens is the one its own Machine was configured with,
\* for any Machines that share a socket path or a chroot and start one at a time,
\* but for FIFOs that a Machine with disable_validation sends to a VMM that is up.
THEOREM BootsFromOwnFiles == Spec => []OwnFiles
<1>1. IInv => OwnFiles BY Parted DEF Guest, Proper, OwnFiles
<1> QED BY <1>1, Invariance, PTL

\* A guest is started only with every file that is configured, but for FIFOs that
\* have gone to another VMM in that way.
THEOREM BootsWithAllFiles == Spec => []BootComplete
<1>1. IInv => BootComplete
  <2> SUFFICES ASSUME IInv, NEW v \in Machine, NEW part \in Range(Part), vmm[v] = "booted",
                      given[v].files[part] # Absent
               PROVE  part \in Opened(v) \cup Astray(v)
    BY DEF BootComplete, Opened, Astray
  <2>1. Inv(v) /\ pc[v] \in {"new", "up", "failed", "over"} \cup Starting
    BY Parted DEF TypeInv
  <2>2. pc[v] = "up" BY <2>1, Parted DEF Process, Starting
  <2>3. Present(v) \ Astray(v) \subseteq Opened(v) BY <2>1, <2>2, Parted DEF Guest
  <2>4. part \in Present(v)
    BY <2>1, PresentGiven, Parted DEF Parts
  <2> QED BY <2>3, <2>4
<1> QED BY <1>1, Invariance, PTL

\* link_files_handler rewrites a path only to a link that leads to the file that
\* was configured, and nothing else rewrites one.
THEOREM RewritesOnlyToLinks == Spec => RewrittenPathsLinked
<1> DEFINE Step == \A m \in Machine : \A part \in Range(Part) :
                      cfg'[m][part] # cfg[m][part] =>
                          <<cfg'[m][part][2], Meant(m, part)>> \in links'
<1>1. IInv /\ [Next]_vars => [Step]_vars
  <2> SUFFICES ASSUME IInv, Next PROVE Step OBVIOUS
  <2>1. ASSUME NEW m \in Machine, LinkFiles(m) PROVE Step
    <3>1. \A v \in Machine \ {m} : cfg'[v] = cfg[v] BY <2>1, Relinked
    <3>2. \A part \in Parts : cfg'[m][part] # cfg[m][part] =>
             <<cfg'[m][part][2], Meant(m, part)>> \in links'
      BY <2>1, Relinked
    <3> QED BY <3>1, <3>2 DEF Parts
  <2>2. CASE cfg' = cfg BY <2>2
  <2>3. ASSUME NEW m \in Machine,
               \/ Start(m) \/ Validate(m) \/ Spawn(m) \/ Ready(m) \/ CreateLogFiles(m)
               \/ SkipRequest(m) \/ RequestOk(m) \/ RequestLate(m) \/ StartInstance(m)
               \/ FailStart(m) \/ Stop(m) \/ Bind(m) \/ Crash(m)
        PROVE  cfg' = cfg
    BY <2>3
    DEF Start, Validate, Spawn, Ready, CreateLogFiles, SkipRequest, RequestOk,
                RequestLate, StartInstance, FailStart, Stop, Bind, Crash
  <2>4. RemoveChroot => cfg' = cfg BY DEF RemoveChroot
  <2> QED BY <2>1, <2>2, <2>3, <2>4 DEF Next
<1> QED BY <1>1, Invariance, PTL DEF Spec, RewrittenPathsLinked
=============================================================================
