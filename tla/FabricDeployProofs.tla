-------------------------- MODULE FabricDeployProofs --------------------------
(***************************************************************************)
(* Proofs about FabricDeploy, for any containers, channels and bounds.     *)
(***************************************************************************)
EXTENDS FabricDeployInv, TLAPS

Scripts == [1..MaxStarts -> Nat]
OneLine == [None EXCEPT ![1] = 1]

LEMMA ScriptFacts ==
  /\ MaxStarts \in Nat \ {0}
  /\ None \in Scripts /\ OneLine \in Scripts
  /\ OneLine # None /\ OneLine \in OneScript
<1>1. MaxStarts \in Nat \ {0} /\ 1 \in 1..MaxStarts
  BY DeployBoundsAssumption
<1>2. None \in Scripts /\ OneLine \in Scripts
  BY DEF None, Scripts, OneLine
<1>3. None[1] = 0 /\ OneLine[1] = 1
  BY <1>1 DEF None, OneLine
<1>4. OneLine \in OneScript
  BY <1>1 DEF OneLine, OneScript
<1> QED
  BY <1>1, <1>2, <1>3, <1>4

LEMMA PeerFacts ==
  /\ Len(Peers) \in Nat \ {0} /\ Len(Polled) \in Nat
  /\ Len(Peers) <= Len(Polled)
  /\ \A k \in 1..Len(Peers) : Peers[k] \in Container /\ Peers[k] \in Peer
  /\ \A k \in 1..Len(Polled) : Polled[k] \in Container
  /\ Peer \subseteq Container
<1>1. Peers \in Seq(Container) /\ Polled \in Seq(Container)
  BY PolledAssumption
<1>2. /\ Len(Peers) \in Nat \ {0} /\ Len(Polled) \in Nat
      /\ Len(Peers) <= Len(Polled)
  BY <1>1, PolledAssumption
<1>3. \A k \in 1..Len(Peers) : Peers[k] \in Container /\ Peers[k] \in Peer
  BY <1>1 DEF Peer
<1>4. \A k \in 1..Len(Polled) : Polled[k] \in Container
  BY DEF Container
<1>5. Peer \subseteq Container
  BY <1>3 DEF Peer
<1> QED
  BY <1>2, <1>3, <1>4, <1>5

\* A script that goes on is one process more, at the line it goes on with.
LEMMA GoOnTyped ==
  ASSUME NEW f \in Scripts, NEW n \in 0..MaxStarts
  PROVE  GoOn(f, n) \in Scripts
BY DEF GoOn, Scripts

LEMMA GoOnOnce == GoOn(None, 0) = None /\ GoOn(None, 1) = OneLine
BY ScriptFacts DEF GoOn, None, OneLine

-----------------------------------------------------------------------------
(* The containers and their scripts                                        *)

DockerTypes ==
  /\ box \in [Container -> {"none", "up", "dead"}]
  /\ errors \subseteq Container
  /\ dialed \subseteq Container
  /\ procs \in [Container -> Scripts]
  /\ behind \in [Container -> 0..MaxStarts]

\* What a first start knows of one container.
Calm(c) ==
  /\ behind[c] = 0
  /\ box[c] = "up" => c \notin errors
  /\ \/ procs[c] = None
     \/ procs[c] = OneLine /\ lines = 1 /\ box[c] # "up" /\ c \notin errors

LEMMA DockerTyped == TypeOK => DockerTypes /\ lines \in 0..MaxStarts /\ budget \in 0..MaxFaults
BY DEF TypeOK, DockerTypes, Scripts

LEMMA CalmStart ==
  StartInv <=> (mode = "start" =>
                  /\ pc \notin {"down", "await", "refresh"}
                  /\ pc \in {"swarm", "start"} =>
                       /\ lines = 0 /\ errors = {}
                       /\ \A c \in Container : box[c] = "none" /\ procs[c] = None
                  /\ lines <= 1
                  /\ \A c \in Container \ stuck : Calm(c))
BY DEF StartInv, Calm, OneLine

LEMMA FaultTyped ==
  ASSUME TypeOK, Fault \/ UNCHANGED budget
  PROVE  budget' \in 0..MaxFaults
BY DeployBoundsAssumption DEF TypeOK, Fault

\* A line of a script is run: what becomes of the types, and of the calm of
\* the containers of a first start.
LEMMA RunTypes ==
  ASSUME TypeOK, NEW c \in Container, Run(c)
  PROVE  DockerTypes' /\ budget' \in 0..MaxFaults
<1>1. PICK n \in {m \in 1..MaxStarts : procs[c][m] > 0} :
        LET rest == n - 1
            others == [procs[c] EXCEPT ![n] = @ - 1]
        IN \/ /\ box[c] # "none"
              /\ Logs(c)
              /\ procs' = [procs EXCEPT ![c] = GoOn(others, rest)]
              /\ UNCHANGED <<box, dialed, behind, budget>>
           \/ /\ box[c] = "none"
              /\ c \in swarm
              /\ box' = [box EXCEPT ![c] = "up"]
              /\ errors' = errors \ {c}
              /\ dialed' = dialed \ {c}
              /\ procs' = [procs EXCEPT ![c] = others]
              /\ behind' = [behind EXCEPT ![c] = rest]
              /\ UNCHANGED budget
           \/ /\ box[c] = "none"
              /\ IF c \in swarm THEN Fault ELSE UNCHANGED budget
              /\ Logs(c)
              /\ \E left \in {"none", "dead"} : box' = [box EXCEPT ![c] = left]
              /\ procs' = [procs EXCEPT ![c] = GoOn(others, rest)]
              /\ UNCHANGED <<dialed, behind>>
  BY Zenon DEF Run
<1> DEFINE others == [procs[c] EXCEPT ![n] = @ - 1]
<1>2. n - 1 \in 0..MaxStarts
  BY ScriptFacts
<1>3. others \in Scripts
  <2>1. procs[c] \in [1..MaxStarts -> Nat] /\ n \in 1..MaxStarts /\ procs[c][n] > 0
    BY DockerTyped DEF DockerTypes, Scripts
  <2>2. procs[c][n] - 1 \in Nat
    <3>1. procs[c][n] \in Nat
      BY <2>1
    <3> QED
      BY <2>1, <3>1
  <2> QED
    BY <2>1, <2>2 DEF Scripts
<1>4. GoOn(others, n - 1) \in Scripts
  BY <1>2, <1>3, GoOnTyped
<1>5. procs' \in [Container -> Scripts]
  <2> HIDE DEF others
  <2>1. procs' = [procs EXCEPT ![c] = GoOn(others, n - 1)] \/ procs' = [procs EXCEPT ![c] = others]
    BY <1>1 DEF others
  <2> QED
    BY <2>1, <1>3, <1>4, DockerTyped DEF DockerTypes
<1>6. /\ box' \in [Container -> {"none", "up", "dead"}]
      /\ errors' \subseteq Container /\ dialed' \subseteq Container
      /\ behind' \in [Container -> 0..MaxStarts]
  BY <1>1, <1>2, DockerTyped DEF DockerTypes, Logs
<1>7. budget' \in 0..MaxFaults
  BY <1>1, FaultTyped
<1> QED
  BY <1>5, <1>6, <1>7 DEF DockerTypes

\* In a first start there is one line to run; afterwards none is left.
LEMMA RunCalm ==
  ASSUME TypeOK, NEW c \in Container, Calm(c), Run(c), UNCHANGED lines
  PROVE  Calm(c)'
<1>1. procs[c] = OneLine /\ behind[c] = 0 /\ box[c] # "up" /\ c \notin errors
  <2>1. PICK n \in 1..MaxStarts : procs[c][n] > 0
    BY DEF Run
  <2>2. procs[c] # None
    <3>1. None[n] = 0
      BY <2>1 DEF None
    <3> QED
      BY <2>1, <3>1
  <2> QED
    BY <2>2 DEF Calm
<1>2. \A n \in 1..MaxStarts : OneLine[n] > 0 => n = 1
  BY DEF OneLine, None
<1>3. [OneLine EXCEPT ![1] = @ - 1] = None
  BY ScriptFacts DEF OneLine, None
<1>4. /\ procs' = [procs EXCEPT ![c] = None]
      /\ \/ errors' \subseteq errors \cup {c} /\ UNCHANGED behind /\ box'[c] # "up"
         \/ errors' = errors \ {c} /\ behind' = [behind EXCEPT ![c] = 0]
  <2>1. PICK n \in {m \in 1..MaxStarts : procs[c][m] > 0} :
          LET others == [procs[c] EXCEPT ![n] = @ - 1]
          IN \/ errors' = errors \ {c} /\ box' = [box EXCEPT ![c] = "up"]
                /\ procs' = [procs EXCEPT ![c] = others]
                /\ behind' = [behind EXCEPT ![c] = n - 1]
             \/ /\ errors' \subseteq errors \cup {c}
                /\ box' = box \/ \E left \in {"none", "dead"} : box' = [box EXCEPT ![c] = left]
                /\ procs' = [procs EXCEPT ![c] = GoOn(others, n - 1)]
                /\ UNCHANGED behind
    BY DEF Run, Logs
  <2>2. n = 1
    BY <1>1, <1>2
  <2>3. [procs[c] EXCEPT ![n] = @ - 1] = None /\ n - 1 = 0
    BY <1>1, <1>3, <2>2
  <2>4. GoOn([procs[c] EXCEPT ![n] = @ - 1], n - 1) = None
    BY <2>3, GoOnOnce
  <2>5. box[c] # "up" /\ box \in [Container -> {"none", "up", "dead"}]
    BY <1>1, DockerTyped DEF DockerTypes
  <2> QED
    BY <2>1, <2>3, <2>4, <2>5
<1> QED
  BY <1>1, <1>4, DockerTyped DEF Calm, DockerTypes

LEMMA CrashTypes ==
  ASSUME TypeOK, NEW c \in Container, Crash(c)
  PROVE  DockerTypes' /\ budget' \in 0..MaxFaults
<1>1. GoOn(procs[c], behind[c]) \in Scripts
  BY GoOnTyped, DockerTyped DEF DockerTypes
<1>2. DockerTypes'
  BY <1>1, DockerTyped, ScriptFacts DEF Crash, Logs, DockerTypes
<1> QED
  BY <1>2, FaultTyped DEF Crash

LEMMA CrashCalm ==
  ASSUME TypeOK, NEW c \in Container, Calm(c), Crash(c), UNCHANGED lines
  PROVE  Calm(c)'
BY GoOnOnce, DockerTyped DEF Crash, Logs, Calm, DockerTypes

\* What happens to one container does nothing to the others.
LEMMA Elsewhere ==
  ASSUME TypeOK, NEW c \in Container, NEW d \in Container, c # d,
         Run(c) \/ Crash(c), Calm(d), UNCHANGED lines
  PROVE  Calm(d)'
<1>1. /\ box'[d] = box[d] /\ procs'[d] = procs[d] /\ behind'[d] = behind[d]
      /\ (d \in errors') <=> (d \in errors)
  BY DockerTyped DEF Run, Crash, Logs, DockerTypes
<1> QED
  BY <1>1 DEF Calm

LEMMA NotRemovedStates ==
  ASSUME TypeOK, NEW c \in Container
  PROVE  NotRemoved(c) \subseteq {"none", "up", "dead"} /\ ("up" \in NotRemoved(c) => box[c] = "up")
BY DockerTyped DEF NotRemoved, DockerTypes

LEMMA TakeDownTypes ==
  ASSUME TypeOK, NEW c \in Container, NEW left \in {"none", "up", "dead"},
         NEW more \in 0..MaxStarts, TakeDown(c, left, more)
  PROVE  /\ box' \in [Container -> {"none", "up", "dead"}]
         /\ procs' \in [Container -> Scripts]
         /\ behind' \in [Container -> 0..MaxStarts]
         /\ dialed' \subseteq Container
<1> DEFINE ended == box[c] = "up" /\ left # "up"
           f == IF ended THEN GoOn(procs[c], behind[c]) ELSE procs[c]
<1>1. f \in Scripts
  BY GoOnTyped, DockerTyped DEF DockerTypes
<1>2. GoOn(f, more) \in Scripts
  <2> HIDE DEF f
  <2> QED
    BY <1>1, GoOnTyped
<1>3. procs' = [procs EXCEPT ![c] = GoOn(f, more)]
  BY DEF TakeDown
<1>4. procs' \in [Container -> Scripts]
  <2> HIDE DEF f
  <2> QED
    BY <1>2, <1>3, DockerTyped DEF DockerTypes
<1> QED
  BY <1>4, DockerTyped, ScriptFacts DEF TakeDown, DockerTypes

\* What taking down a container does if no script of it is under way, and that
\* it does nothing to the others.
LEMMA TakeDownAlone ==
  ASSUME TypeOK, NEW c \in Container, NEW left, NEW more, TakeDown(c, left, more)
  PROVE  /\ procs[c] = None /\ behind[c] = 0 =>
              procs'[c] = GoOn(None, more) /\ behind'[c] = 0
         /\ box'[c] = left
         /\ \A d \in Container \ {c} :
              box'[d] = box[d] /\ procs'[d] = procs[d] /\ behind'[d] = behind[d]
<1>1. GoOn(None, 0) = None
  BY GoOnOnce
<1> QED
  BY <1>1, DockerTyped DEF TakeDown, DockerTypes

LEMMA StartAgainTypes ==
  ASSUME TypeOK, Polled[i] \in Container, StartAgain
  PROVE  DockerTypes' /\ stuck' \subseteq Container /\ budget' \in 0..MaxFaults
<1> DEFINE c == Polled[i]
<1>1. PICK left \in {"none", "up", "dead"}, more \in {0, lines} : TakeDown(c, left, more)
  BY NotRemovedStates DEF StartAgain
<1>2. more \in 0..MaxStarts
  BY DockerTyped, ScriptFacts
<1>3. errors' \subseteq Container
  BY DockerTyped DEF StartAgain, Truncate, Logs, DockerTypes
<1>4. stuck' \subseteq Container
  BY DEF StartAgain, TypeOK
<1>5. budget' \in 0..MaxFaults
  BY FaultTyped DEF StartAgain
<1>6. DockerTypes'
  BY <1>1, <1>2, <1>3, TakeDownTypes DEF DockerTypes
<1> QED
  BY <1>4, <1>5, <1>6

\* Only a container whose line has ended is started, unless docker kept it.
LEMMA StartAgainCalm ==
  ASSUME TypeOK, AgainInv, Polled[i] \in Container, StartAgain, mode = "start", lines <= 1,
         NEW d \in Container, d \notin stuck', d \notin stuck => Calm(d)
  PROVE  Calm(d)'
<1> DEFINE c == Polled[i]
<1>1. /\ d \notin stuck /\ Calm(d)
      /\ UNCHANGED lines
  BY DEF StartAgain
<1>2. CASE d # c
  <2>1. /\ box'[d] = box[d] /\ procs'[d] = procs[d] /\ behind'[d] = behind[d]
        /\ (d \in errors') <=> (d \in errors)
    BY <1>2, TakeDownAlone DEF StartAgain, Truncate, Logs
  <2> QED
    BY <1>1, <2>1 DEF Calm
<1>3. CASE d = c
  <2>1. procs[c] = None /\ behind[c] = 0 /\ (box[c] = "up" => c \notin errors)
    BY <1>1, <1>3 DEF AgainInv, StartAgain, Calm
  <2>2. lines \in {0, 1}
    BY DockerTyped
  <2>3. CASE TakeDown(c, "none", lines) /\ Truncate(c)
    <3>1. procs'[c] = GoOn(None, lines) /\ behind'[c] = 0 /\ box'[c] = "none"
      BY <2>1, <2>3, TakeDownAlone
    <3>2. c \notin errors'
      BY <2>3 DEF Truncate
    <3> QED
      BY <1>1, <1>3, <2>2, <3>1, <3>2, GoOnOnce DEF Calm
  <2>4. CASE /\ \E left \in NotRemoved(c) \cup {"none"} : TakeDown(c, left, 0)
             /\ IF box'[c] = "up" THEN UNCHANGED errors ELSE Logs(c)
    <3>1. PICK left \in NotRemoved(c) \cup {"none"} : TakeDown(c, left, 0)
      BY <2>4
    <3>2. procs'[c] = None /\ behind'[c] = 0 /\ box'[c] = left
      BY <2>1, <3>1, TakeDownAlone, GoOnOnce
    <3>3. box'[c] = "up" => box[c] = "up" /\ UNCHANGED errors
      BY <2>4, <3>2, NotRemovedStates
    <3> QED
      BY <1>3, <2>1, <3>2, <3>3 DEF Calm
  <2>5. ~(stuck' = stuck \cup {c})
    BY <1>3
  <2> QED
    BY <2>3, <2>4, <2>5 DEF StartAgain
<1> QED
  BY <1>2, <1>3

-----------------------------------------------------------------------------
(* The invariant                                                           *)

LEMMA Initially == Init => IInv
<1> SUFFICES ASSUME Init PROVE IInv
  OBVIOUS
<1>1. TypeOK
  BY ScriptFacts, PeerFacts, DeployBoundsAssumption DEF Init, TypeOK, Scripts
<1>2. StartInv /\ AgainInv
  BY DEF Init, StartInv, AgainInv
<1>3. LinesInv /\ ScriptInv
  BY ScriptFacts DEF Init, LinesInv, ScriptInv
<1> QED
  BY <1>1, <1>2, <1>3 DEF IInv

\* The variables of the machines, and those of the scripts.
MachineTypes ==
  /\ DockerTypes
  /\ mode \in {"start", "restart"}
  /\ swarm \subseteq Container
  /\ machine \in [Container -> {"on", "rebooting", "away", "lost"}]
  /\ stuck \subseteq Container
  /\ lines \in 0..MaxStarts
  /\ counter \in 0..Retries
  /\ retry \in BOOLEAN

ScriptTypes ==
  /\ pc \in {"swarm", "start", "pass", "check", "again", "create", "join",
             "install", "exercise", "down", "await", "refresh"} \cup Final
  /\ i \in 1..(Len(Polled) + 1)
  /\ channel \in 1..Channels
  /\ tries \in 0..MaxRetry
  /\ done \subseteq ({"joined", "anchors", "installed", "instantiated"}
                       \X Container \X (1..Channels))
  /\ unserved \subseteq Peer

LEMMA TypesSplit == TypeOK <=> MachineTypes /\ ScriptTypes /\ budget \in 0..MaxFaults
BY DEF TypeOK, MachineTypes, ScriptTypes, DockerTypes, Scripts

\* Before the scripts, and after the end, nothing is claimed about them.
LEMMA ScriptInvIdle ==
  ASSUME pc \notin {"create", "join", "formed", "install", "exercise", "ready"}
  PROVE  ScriptInv
BY DEF ScriptInv

LEMMA DockerKeeps ==
  ASSUME IInv, Docker
  PROVE  IInv'
<1>1. PICK c \in Container : Run(c) \/ Crash(c)
  BY DEF Docker
<1>2. UNCHANGED <<pc, mode, swarm, machine, stuck, lines, counter, retry, i, script>>
  BY DEF Docker
<1>3. TypeOK'
  <2>1. DockerTypes' /\ budget' \in 0..MaxFaults
    BY <1>1, RunTypes, CrashTypes DEF IInv
  <2>2. MachineTypes'
    BY <1>2, <2>1, TypesSplit DEF IInv, MachineTypes
  <2>3. ScriptTypes'
    BY <1>2, TypesSplit DEF IInv, ScriptTypes, script
  <2> QED
    BY <2>1, <2>2, <2>3, TypesSplit DEF TypeOK, MachineTypes, ScriptTypes, DockerTypes, Scripts
<1>4. ASSUME mode = "start", NEW d \in Container \ stuck
      PROVE  Calm(d) /\ Calm(d)'
  <2>1. Calm(d)
    BY <1>4, CalmStart DEF IInv
  <2> QED
    BY <1>1, <1>2, <2>1, RunCalm, CrashCalm, Elsewhere DEF IInv
<1>5. StartInv'
  <2> SUFFICES ASSUME mode = "start" PROVE StartInv'
    BY <1>2 DEF StartInv
  <2>1. lines <= 1 /\ pc \notin {"down", "await", "refresh"}
    BY CalmStart DEF IInv
  <2>2. \A d \in Container \ stuck : Calm(d)'
    BY <1>4
  <2>3. pc \notin {"swarm", "start"}
    <3> SUFFICES ASSUME pc \in {"swarm", "start"} PROVE FALSE
      OBVIOUS
    <3>1. box[c] = "none" /\ procs[c] = None
      BY CalmStart DEF IInv
    <3>2. \A n \in 1..MaxStarts : ~(procs[c][n] > 0)
      BY <3>1 DEF None
    <3> QED
      BY <1>1, <3>1, <3>2 DEF Run, Crash
  <2> QED
    BY <1>2, <2>1, <2>2, <2>3 DEF StartInv, Calm, OneLine
<1>6. AgainInv'
  <2> SUFFICES ASSUME pc = "again" PROVE AgainInv'
    BY <1>2 DEF AgainInv
  <2>1. i <= Len(Polled)
    BY DEF IInv, AgainInv
  <2>2. ASSUME mode = "start", Polled[i] \notin stuck
        PROVE  procs'[Polled[i]] = None /\ (box'[Polled[i]] = "up" => Polled[i] \in dialed')
    <3> DEFINE p == Polled[i]
    <3>1. procs[p] = None /\ (box[p] = "up" => p \in dialed)
      BY <2>2 DEF IInv, AgainInv
    <3>2. p \in Container /\ behind[p] = 0
      <4>1. p \in Container
        BY <2>1, PeerFacts DEF IInv, TypeOK
      <4> QED
        BY <2>2, <4>1, <1>4 DEF Calm
    <3>3. CASE c = p
      <4>1. \A n \in 1..MaxStarts : ~(None[n] > 0)
        BY DEF None
      <4>2. procs[c] = None
        BY <3>1, <3>3
      <4>3. Crash(c)
        BY <1>1, <4>1, <4>2 DEF Run
      <4> QED
        BY <3>1, <3>2, <3>3, <4>3, GoOnOnce, DockerTyped DEF IInv, Crash, DockerTypes
    <3>4. CASE c # p
      <4>1. procs'[p] = procs[p] /\ box'[p] = box[p] /\ ((p \in dialed') <=> (p \in dialed))
        BY <1>1, <3>2, <3>4, DockerTyped DEF IInv, Run, Crash, DockerTypes
      <4> QED
        BY <3>1, <4>1
    <3> QED
      BY <3>3, <3>4
  <2> QED
    BY <1>2, <2>1, <2>2 DEF AgainInv
<1>7. LinesInv' /\ ScriptInv'
  BY <1>2 DEF IInv, LinesInv, ScriptInv, script
<1> QED
  BY <1>3, <1>5, <1>6, <1>7 DEF IInv

LEMMA RebootKeeps ==
  ASSUME IInv, NEW c \in Container, Reboot(c)
  PROVE  IInv'
<1>1. /\ UNCHANGED <<pc, mode, swarm, errors, dialed, stuck, lines, counter, retry, i, script>>
      /\ box' = [box EXCEPT ![c] = IF @ = "up" THEN "dead" ELSE @]
      /\ procs' = [procs EXCEPT ![c] = None]
      /\ behind' = [behind EXCEPT ![c] = 0]
  BY DEF Reboot
<1>2. budget' \in 0..MaxFaults
  BY FaultTyped DEF IInv, Reboot
<1>3. TypeOK'
  <2>1. machine' \in [Container -> {"on", "rebooting", "away", "lost"}]
    BY DEF IInv, TypeOK, Reboot
  <2>2. DockerTypes'
    BY <1>1, DockerTyped, ScriptFacts DEF IInv, DockerTypes
  <2> QED
    BY <1>1, <1>2, <2>1, <2>2 DEF IInv, TypeOK, DockerTypes, Scripts, script
<1>4. /\ box'[c] # "up" /\ procs'[c] = None /\ behind'[c] = 0
      /\ (box[c] = "none" => box'[c] = "none")
      /\ \A d \in Container \ {c} :
           box'[d] = box[d] /\ procs'[d] = procs[d] /\ behind'[d] = behind[d]
  BY <1>1, DockerTyped DEF IInv, DockerTypes
<1>5. StartInv'
  <2> SUFFICES ASSUME mode = "start" PROVE StartInv'
    BY <1>1 DEF StartInv
  <2>1. \A d \in Container \ stuck : Calm(d)
    BY CalmStart DEF IInv
  <2>2. \A d \in Container \ stuck : Calm(d)'
    BY <1>1, <1>4, <2>1 DEF Calm
  <2>3. /\ lines <= 1 /\ pc \notin {"down", "await", "refresh"}
        /\ pc \in {"swarm", "start"} =>
             /\ lines = 0 /\ errors = {}
             /\ \A d \in Container : box'[d] = "none" /\ procs'[d] = None
    BY <1>4, CalmStart DEF IInv
  <2> QED
    BY <1>1, <2>2, <2>3 DEF StartInv, Calm, OneLine
<1>6. AgainInv'
  <2>1. pc = "again" => Polled[i] \in Container
    BY PeerFacts DEF IInv, AgainInv, TypeOK
  <2> QED
    BY <1>1, <1>4, <2>1 DEF IInv, AgainInv
<1>7. LinesInv' /\ ScriptInv'
  BY <1>1 DEF IInv, LinesInv, ScriptInv, script
<1> QED
  BY <1>3, <1>5, <1>6, <1>7 DEF IInv

LEMMA BackKeeps ==
  ASSUME IInv, NEW c \in Container, Back(c)
  PROVE  IInv'
<1>1. UNCHANGED <<pc, mode, swarm, docker, stuck, lines, counter, retry, i, script, budget>>
  BY DEF Back
<1>2. machine' \in [Container -> {"on", "rebooting", "away", "lost"}]
  BY DEF IInv, TypeOK, Back
<1>3. TypeOK'
  BY <1>1, <1>2 DEF IInv, TypeOK, docker, script
<1>4. StartInv' /\ AgainInv' /\ LinesInv'
  BY <1>1 DEF IInv, StartInv, AgainInv, LinesInv, docker
<1>5. ScriptInv'
  BY <1>1 DEF IInv, ScriptInv, script
<1> QED
  BY <1>3, <1>4, <1>5 DEF IInv

LEMMA SwarmKeeps ==
  ASSUME IInv, Swarm \/ StartRaises
  PROVE  IInv'
<1>1. /\ pc \in {"swarm", "start"} /\ pc' \in {"start", "failed", "returned"}
      /\ (pc' = "start" => pc = "swarm")
  BY DEF Swarm, StartRaises, Raise
<1>2. UNCHANGED <<mode, machine, docker, stuck, lines, counter, retry, i, script>>
  BY DEF Swarm, StartRaises
<1>3. swarm' \subseteq Container /\ budget' \in 0..MaxFaults
  BY FaultTyped DEF IInv, TypeOK, Swarm, StartRaises
<1>4. TypeOK'
  BY <1>1, <1>2, <1>3 DEF IInv, TypeOK, docker, script, Final
<1>5. StartInv' /\ AgainInv'
  BY <1>1, <1>2 DEF IInv, StartInv, AgainInv, docker
<1>6. LinesInv' /\ ScriptInv'
  BY <1>1, <1>2 DEF IInv, LinesInv, ScriptInv
<1> QED
  BY <1>4, <1>5, <1>6 DEF IInv

LEMMA StartContainersKeeps ==
  ASSUME IInv, StartContainers
  PROVE  IInv'
<1>1. /\ pc = "start" /\ pc' = "pass" /\ lines' = lines + 1
      /\ counter' = 0 /\ retry' = TRUE /\ errors' = {}
      /\ UNCHANGED <<mode, swarm, machine, box, dialed, behind, stuck, i, script, budget>>
      /\ procs' = [c \in Container |-> GoOn(procs[c], lines')]
  BY DEF StartContainers
<1>2. lines' \in 0..MaxStarts
  BY <1>1, ScriptFacts DEF IInv, TypeOK, LinesInv
<1>3. procs' \in [Container -> Scripts]
  BY <1>1, <1>2, GoOnTyped, DockerTyped DEF IInv, DockerTypes
<1>4. TypeOK'
  BY <1>1, <1>2, <1>3, DeployBoundsAssumption DEF IInv, TypeOK, script, Scripts
<1>5. StartInv'
  <2> SUFFICES ASSUME mode = "start" PROVE StartInv'
    BY <1>1 DEF StartInv
  <2>1. lines = 0 /\ \A c \in Container : box[c] = "none" /\ procs[c] = None
    BY <1>1, CalmStart DEF IInv
  <2>2. \A c \in Container \ stuck : behind[c] = 0
    BY CalmStart DEF IInv, Calm
  <2>3. lines' = 1 /\ pc' = "pass"
    BY <1>1, <2>1
  <2>4. \A c \in Container : procs'[c] = OneLine /\ box'[c] = "none"
    BY <1>1, <2>1, <2>3, GoOnOnce
  <2>5. ASSUME NEW c \in Container \ stuck'
        PROVE  Calm(c)'
    <3>1. c \in Container /\ c \notin stuck /\ behind'[c] = behind[c] /\ c \notin errors'
      BY <1>1, <2>5
    <3>2. behind'[c] = 0 /\ procs'[c] = OneLine /\ box'[c] # "up" /\ lines' = 1
      BY <2>2, <2>3, <2>4, <3>1
    <3> QED
      BY <3>1, <3>2 DEF Calm
  <2>6. lines' <= 1 /\ pc' \notin {"swarm", "start", "down", "await", "refresh"}
    BY <2>3
  <2> QED
    BY <2>5, <2>6 DEF StartInv, Calm, OneLine
<1>6. AgainInv' /\ LinesInv' /\ ScriptInv'
  BY <1>1 DEF AgainInv, LinesInv, ScriptInv
<1> QED
  BY <1>4, <1>5, <1>6 DEF IInv

\* The passes over the logs.
LEMMA PassKeeps ==
  ASSUME IInv, BeginPass \/ EndPass \/ EndRetries
  PROVE  IInv'
<1>1. /\ pc \in {"pass", "check"} /\ pc' \in {"pass", "check", "create"}
      /\ errors' \subseteq errors
      /\ UNCHANGED <<mode, swarm, machine, box, dialed, procs, behind, stuck, lines, done,
                     tries, unserved, budget>>
  BY DEF BeginPass, EndPass, EndRetries, script, docker
<1>2. /\ counter' \in 0..Retries /\ retry' \in BOOLEAN
      /\ i' \in 1..(Len(Polled) + 1) /\ channel' \in 1..Channels
  <2>1. CASE BeginPass
    <3>1. counter \in 0..Retries /\ counter < Retries /\ counter' = counter + 1
      BY <2>1 DEF IInv, TypeOK, BeginPass, CountPass, PassesLeft
    <3>2. counter' \in 0..Retries
      BY <3>1, DeployBoundsAssumption
    <3>3. i' = 1 /\ retry' = FALSE /\ channel' = channel
      BY <2>1 DEF BeginPass, script
    <3>4. 1 \in 1..(Len(Polled) + 1) /\ channel \in 1..Channels /\ FALSE \in BOOLEAN
      BY PeerFacts DEF IInv, TypeOK
    <3> QED
      BY <3>2, <3>3, <3>4
  <2>2. CASE EndPass
    BY <2>2 DEF IInv, TypeOK, EndPass, script
  <2>3. CASE EndRetries
    BY <2>3, PeerFacts, DeployBoundsAssumption DEF IInv, TypeOK, EndRetries
  <2> QED
    BY <2>1, <2>2, <2>3
<1>3. TypeOK'
  BY <1>1, <1>2 DEF IInv, TypeOK
<1>4. StartInv'
  <2> SUFFICES ASSUME mode = "start" PROVE StartInv'
    BY <1>1 DEF StartInv
  <2>1. lines <= 1 /\ \A c \in Container \ stuck : Calm(c)
    BY CalmStart DEF IInv
  <2>2. \A c \in Container \ stuck' : Calm(c)'
    BY <1>1, <2>1 DEF Calm
  <2> QED
    BY <1>1, <2>1, <2>2 DEF StartInv, Calm, OneLine
<1>5. AgainInv' /\ LinesInv'
  BY <1>1 DEF AgainInv, LinesInv
<1>6. ScriptInv'
  <2>1. CASE pc' = "create"
    <3>1. channel' = 1
      BY <1>1, <2>1 DEF BeginPass, EndPass, EndRetries
    <3>2. Formed(channel' - 1) = {}
      BY <3>1 DEF Formed, Upto, OnChannels
    <3> QED
      BY <2>1, <3>2 DEF ScriptInv
  <2>2. CASE pc' # "create"
    BY <1>1, <2>2 DEF ScriptInv
  <2> QED
    BY <2>1, <2>2
<1> QED
  BY <1>3, <1>4, <1>5, <1>6 DEF IInv

\* A log is read: the next step knows whether the container runs.
LEMMA ReadKeeps ==
  ASSUME IInv, ReadError \/ ReadFine \/ ReadRaises
  PROVE  IInv'
<1>1. /\ pc = "check" /\ i <= Len(Polled)
      /\ pc' \in {"check", "again", "failed", "returned"} /\ i' \in {i, i + 1}
      /\ (pc' = "again" => ReadError)
      /\ UNCHANGED <<mode, swarm, machine, box, errors, procs, behind, stuck, lines,
                     counter, script>>
  BY DEF ReadError, ReadFine, ReadRaises, Raise, docker
<1>2. Polled[i] \in Container /\ i' \in 1..(Len(Polled) + 1)
  BY <1>1, PeerFacts DEF IInv, TypeOK
<1>3. /\ budget' \in 0..MaxFaults /\ retry' \in BOOLEAN
      /\ dialed' \subseteq Container
  <2>1. budget' \in 0..MaxFaults
    BY FaultTyped DEF IInv, ReadError, ReadFine, ReadRaises
  <2>2. retry' \in BOOLEAN
    BY DEF IInv, TypeOK, ReadError, ReadFine, ReadRaises
  <2>3. dialed' \subseteq Container
    BY <1>2 DEF IInv, TypeOK, ReadError, ReadFine, ReadRaises, docker
  <2> QED
    BY <2>1, <2>2, <2>3
<1>4. TypeOK'
  BY <1>1, <1>2, <1>3 DEF IInv, TypeOK, script, Final
<1>5. StartInv'
  BY <1>1 DEF IInv, StartInv
<1>6. AgainInv'
  <2> SUFFICES ASSUME pc' = "again" PROVE AgainInv'
    BY DEF AgainInv
  <2> DEFINE c == Polled[i]
  <2>1. /\ UNCHANGED <<i, mode, box, procs, stuck>> /\ (c \in errors \/ box[c] = "up")
        /\ dialed' = IF box[c] = "up" THEN {c} ELSE {}
    BY <1>1 DEF ReadError
  <2>2. ASSUME mode = "start", c \notin stuck
        PROVE  procs[c] = None
    BY <1>2, <2>1, <2>2, CalmStart DEF IInv, Calm
  <2> QED
    BY <1>1, <2>1, <2>2 DEF AgainInv
<1>7. LinesInv' /\ ScriptInv'
  BY <1>1 DEF LinesInv, ScriptInv
<1> QED
  BY <1>4, <1>5, <1>6, <1>7 DEF IInv

LEMMA StartAgainKeeps ==
  ASSUME IInv, StartAgain
  PROVE  IInv'
<1>1. /\ pc = "again" /\ pc' = "check" /\ i' = i + 1
      /\ UNCHANGED <<mode, swarm, machine, lines, counter, retry, script>>
  BY DEF StartAgain
<1>2. i' \in 1..(Len(Polled) + 1) /\ Polled[i] \in Container
  BY <1>1, PeerFacts DEF IInv, AgainInv, TypeOK
<1>3. DockerTypes' /\ stuck' \subseteq Container /\ budget' \in 0..MaxFaults
  BY <1>2, StartAgainTypes DEF IInv
<1>4. TypeOK'
  BY <1>1, <1>2, <1>3 DEF IInv, TypeOK, DockerTypes, Scripts, script
<1>5. StartInv'
  <2> SUFFICES ASSUME mode = "start" PROVE StartInv'
    BY <1>1 DEF StartInv
  <2>1. lines <= 1 /\ \A c \in Container \ stuck : Calm(c)
    BY CalmStart DEF IInv
  <2>2. ASSUME NEW d \in Container \ stuck'
        PROVE  Calm(d)'
    <3>1. d \notin stuck => Calm(d)
      BY <2>1
    <3> QED
      BY <1>2, <2>1, <2>2, <3>1, StartAgainCalm DEF IInv
  <2> QED
    BY <1>1, <2>1, <2>2 DEF StartInv, Calm, OneLine
<1>6. AgainInv' /\ LinesInv' /\ ScriptInv'
  BY <1>1 DEF AgainInv, LinesInv, ScriptInv
<1> QED
  BY <1>4, <1>5, <1>6 DEF IInv

LEMMA RestartKeeps ==
  ASSUME IInv, Restart
  PROVE  IInv'
<1>1. /\ pc' \in {"down", "failed"} /\ mode' = "restart" /\ lines < MaxStarts
      /\ stuck' = {} /\ i' = 1 /\ done' = {} /\ unserved' = {}
      /\ UNCHANGED <<swarm, machine, docker, lines, counter, retry, channel, tries>>
  BY DEF Restart
<1>2. budget' \in 0..MaxFaults
  BY FaultTyped DEF IInv, Restart
<1>3. TypeOK'
  BY <1>1, <1>2, PeerFacts DEF IInv, TypeOK, docker, Final
<1>4. StartInv' /\ AgainInv' /\ LinesInv' /\ ScriptInv'
  BY <1>1 DEF StartInv, AgainInv, LinesInv, ScriptInv
<1> QED
  BY <1>3, <1>4 DEF IInv

LEMMA StopMachineKeeps ==
  ASSUME IInv, StopMachine
  PROVE  IInv'
<1> DEFINE c == Polled[i]
<1>1. /\ pc = "down" /\ i <= Len(Polled) /\ i' = i + 1
      /\ UNCHANGED <<pc, mode, swarm, errors, stuck, lines, counter, retry, script>>
  BY DEF StopMachine
<1>2. c \in Container /\ i' \in 1..(Len(Polled) + 1)
  BY <1>1, PeerFacts DEF IInv, TypeOK
<1>3. PICK left \in {"none", "up", "dead"} : TakeDown(c, left, 0)
  BY <1>2, NotRemovedStates DEF IInv, StopMachine
<1>4. DockerTypes'
  BY <1>1, <1>2, <1>3, TakeDownTypes, DockerTyped, ScriptFacts DEF IInv, DockerTypes
<1>5. /\ budget' \in 0..MaxFaults
      /\ machine' \in [Container -> {"on", "rebooting", "away", "lost"}]
  BY <1>2, FaultTyped DEF IInv, TypeOK, StopMachine
<1>6. TypeOK'
  BY <1>1, <1>2, <1>4, <1>5 DEF IInv, TypeOK, DockerTypes, Scripts, script
<1>7. StartInv' /\ AgainInv' /\ LinesInv' /\ ScriptInv'
  BY <1>1 DEF IInv, StartInv, AgainInv, LinesInv, ScriptInv
<1> QED
  BY <1>6, <1>7 DEF IInv

\* From the machines that were told to reboot to the containers' next start.
LEMMA RestKeeps ==
  ASSUME IInv, MachinesStopped \/ AwaitReboot \/ RefreshClient \/ ClientsRefreshed
  PROVE  IInv'
<1>1. /\ pc \in {"down", "await", "refresh"}
      /\ pc' \in {"await", "refresh", "start", "failed", "returned"}
      /\ UNCHANGED <<mode, swarm, machine, docker, stuck, lines, counter, retry, script>>
  BY DEF MachinesStopped, AwaitReboot, RefreshClient, ClientsRefreshed, Raise, Rest
<1>2. i' \in 1..(Len(Polled) + 1)
  BY PeerFacts DEF IInv, TypeOK, MachinesStopped, AwaitReboot, RefreshClient, ClientsRefreshed
<1>3. budget' \in 0..MaxFaults
  BY FaultTyped DEF IInv, MachinesStopped, AwaitReboot, RefreshClient, ClientsRefreshed
<1>4. TypeOK'
  BY <1>1, <1>2, <1>3 DEF IInv, TypeOK, docker, script, Final
<1>5. StartInv' /\ AgainInv' /\ LinesInv' /\ ScriptInv'
  BY <1>1 DEF IInv, StartInv, AgainInv, LinesInv, ScriptInv
<1> QED
  BY <1>4, <1>5 DEF IInv

-----------------------------------------------------------------------------
(* The scripts                                                             *)

\* A line of a script leaves the containers alone.
LEMMA QuietKeeps ==
  ASSUME IInv, Quiet, pc' \notin {"swarm", "start", "again", "down", "await", "refresh"}
  PROVE  StartInv' /\ AgainInv' /\ LinesInv'
BY DEF IInv, Quiet, StartInv, AgainInv, LinesInv, docker

LEMMA QuietTypes ==
  ASSUME IInv, Quiet, ScriptTypes', budget' \in 0..MaxFaults
  PROVE  TypeOK'
BY DEF IInv, Quiet, TypeOK, ScriptTypes, docker

LEMMA OutcomeTyped ==
  ASSUME IInv, NEW needed, Succeeds(needed) \/ Fails(needed)
  PROVE  budget' \in 0..MaxFaults
BY FaultTyped DEF IInv, Succeeds, Fails

LEMMA RaiseEnds == Raise => pc' \in {"failed", "returned"}
BY DEF Raise

\* The sets that the lines fill grow as the scripts go on.
LEMMA SetsGrow ==
  /\ \A ch \in Nat : Formed(ch + 1) = Formed(ch) \cup Channel(Len(Peers), ch + 1)
                                        \cup {<<"anchors", Orderer1, ch + 1>>}
  /\ \A n, ch \in Nat : Channel(n + 1, ch) = Channel(n, ch) \cup {<<"joined", Peers[n + 1], ch>>}
  /\ \A ch : Channel(0, ch) = {}
  /\ \A n \in Nat : Upto("installed", n + 1, 1) =
                      Upto("installed", n, 1) \cup {<<"installed", Peers[n + 1], 1>>}
  /\ Upto("installed", 0, 1) = {}
  /\ \A ch \in Nat : OnChannels("instantiated", ch + 1) =
                       OnChannels("instantiated", ch) \cup {<<"instantiated", Orderer1, ch + 1>>}
  /\ OnChannels("instantiated", 0) = {}
<1>1. \A n \in Nat : 1..(n + 1) = 1..n \cup {n + 1}
  OBVIOUS
<1>2. \A n, ch \in Nat :
        Channel(n + 1, ch) = Channel(n, ch) \cup {<<"joined", Peers[n + 1], ch>>}
  BY <1>1 DEF Channel
<1>3. \A n \in Nat : Upto("installed", n + 1, 1) =
                       Upto("installed", n, 1) \cup {<<"installed", Peers[n + 1], 1>>}
  BY <1>1 DEF Upto
<1>4. \A ch \in Nat : OnChannels("instantiated", ch + 1) =
                       OnChannels("instantiated", ch) \cup {<<"instantiated", Orderer1, ch + 1>>}
  BY <1>1 DEF OnChannels
<1>5. \A ch \in Nat : OnChannels("anchors", ch + 1) =
                       OnChannels("anchors", ch) \cup {<<"anchors", Orderer1, ch + 1>>}
  BY <1>1 DEF OnChannels
<1>6. \A ch \in Nat : Upto("joined", Len(Peers), ch + 1) =
                       Upto("joined", Len(Peers), ch) \cup Channel(Len(Peers), ch + 1)
  BY <1>1 DEF Upto, Channel
<1>7. \A ch \in Nat : Formed(ch + 1) = Formed(ch) \cup Channel(Len(Peers), ch + 1)
                                        \cup {<<"anchors", Orderer1, ch + 1>>}
  BY <1>5, <1>6 DEF Formed
<1>8. /\ \A ch : Channel(0, ch) = {}
      /\ Upto("installed", 0, 1) = {} /\ OnChannels("instantiated", 0) = {}
  BY DEF Channel, Upto, OnChannels
<1> QED
  BY <1>2, <1>3, <1>4, <1>7, <1>8

LEMMA Indices ==
  ASSUME TypeOK
  PROVE  /\ i \in Nat \ {0} /\ channel \in Nat \ {0} /\ channel - 1 \in Nat
         /\ i - 1 \in Nat /\ (channel - 1) + 1 = channel /\ (i - 1) + 1 = i
         /\ Channels \in Nat \ {0} /\ channel <= Channels
BY PeerFacts, DeployBoundsAssumption DEF TypeOK

LEMMA CreateChannelKeeps ==
  ASSUME IInv, CreateChannel
  PROVE  IInv'
<1>1. /\ pc = "create" /\ pc' \in {"join", "failed", "returned"}
      /\ i' = 1 /\ tries' = 1 /\ UNCHANGED <<channel, done, unserved>> /\ Quiet
  BY RaiseEnds DEF CreateChannel
<1>2. budget' \in 0..MaxFaults
  BY OutcomeTyped DEF CreateChannel
<1>3. ScriptTypes'
  BY <1>1, PeerFacts, DeployBoundsAssumption DEF IInv, TypeOK, ScriptTypes, Final
<1>4. ScriptInv'
  <2>1. Formed(channel - 1) \subseteq done
    BY <1>1 DEF IInv, ScriptInv
  <2>2. Channel(i' - 1, channel) = {} /\ i' <= Len(Peers) + 1
    BY <1>1, PeerFacts, SetsGrow
  <2> QED
    BY <1>1, <2>1, <2>2 DEF ScriptInv
<1> QED
  BY <1>1, <1>2, <1>3, <1>4, QuietKeeps, QuietTypes DEF IInv

LEMMA JoinKeeps ==
  ASSUME IInv, Join
  PROVE  IInv'
<1>1. /\ pc = "join" /\ i <= Len(Peers) /\ UNCHANGED <<channel, unserved>> /\ Quiet
      /\ \/ /\ done' = done \cup {<<"joined", Peers[i], channel>>}
            /\ i' = i + 1 /\ tries' = 1 /\ pc' = "join"
         \/ /\ UNCHANGED <<done, i>>
            /\ \/ tries < MaxRetry /\ tries' = tries + 1 /\ pc' = "join"
               \/ tries' = 1 /\ pc' \in {"failed", "returned"}
  BY RaiseEnds DEF Join, VerifyJoin
<1>2. budget' \in 0..MaxFaults
  BY OutcomeTyped DEF Join
<1>3. Peers[i] \in Container /\ i + 1 \in 1..(Len(Polled) + 1)
  BY <1>1, PeerFacts DEF IInv, TypeOK
<1>4. tries' \in 0..MaxRetry
  BY <1>1, DeployBoundsAssumption DEF IInv, TypeOK
<1>5. ScriptTypes'
  <2>1. <<"joined", Peers[i], channel>> \in
          {"joined", "anchors", "installed", "instantiated"} \X Container \X (1..Channels)
    BY <1>3 DEF IInv, TypeOK
  <2> QED
    BY <1>1, <1>3, <1>4, <2>1 DEF IInv, TypeOK, ScriptTypes, Final
<1>6. ScriptInv'
  <2>1. Formed(channel - 1) \cup Channel(i - 1, channel) \subseteq done
    BY <1>1 DEF IInv, ScriptInv
  <2>2. CASE i' = i + 1 /\ done' = done \cup {<<"joined", Peers[i], channel>>} /\ pc' = "join"
    <3>1. Channel(i' - 1, channel) = Channel(i - 1, channel) \cup {<<"joined", Peers[i], channel>>}
      <4>1. Channel(i, channel) = Channel(i - 1, channel) \cup {<<"joined", Peers[i], channel>>}
        BY SetsGrow, Indices DEF IInv
      <4>2. i' - 1 = i
        BY <2>2, Indices DEF IInv
      <4> QED
        BY <4>1, <4>2
    <3>2. i' <= Len(Peers) + 1
      BY <1>1, <2>2, PeerFacts, Indices DEF IInv
    <3> QED
      BY <1>1, <2>1, <2>2, <3>1, <3>2 DEF ScriptInv
  <2>3. CASE UNCHANGED <<done, i>> /\ pc' \in {"join", "failed", "returned"}
    BY <1>1, <2>1, <2>3, PeerFacts, Indices DEF IInv, ScriptInv
  <2> QED
    BY <1>1, <2>2, <2>3
<1> QED
  BY <1>1, <1>2, <1>5, <1>6, QuietKeeps, QuietTypes DEF IInv

LEMMA UpdateAnchorsKeeps ==
  ASSUME IInv, UpdateAnchors
  PROVE  IInv'
<1>1. /\ pc = "join" /\ i > Len(Peers) /\ i' = 1
      /\ UNCHANGED <<tries, unserved>> /\ Quiet
      /\ \/ /\ done' = done \cup {<<"anchors", Orderer1, channel>>}
            /\ \/ /\ channel < Channels
                  /\ pc' = "create" /\ channel' = channel + 1
               \/ /\ ~(channel < Channels)
                  /\ pc' \in {"install", "formed"} /\ channel' = 1
         \/ /\ pc' \in {"failed", "returned"}
            /\ UNCHANGED <<channel, done>>
  BY RaiseEnds DEF UpdateAnchors
<1>2. budget' \in 0..MaxFaults
  BY OutcomeTyped DEF UpdateAnchors
<1>3. channel' \in 1..Channels
  BY <1>1, Indices DEF IInv, TypeOK
<1>4. ScriptTypes'
  <2>1. <<"anchors", Orderer1, channel>> \in
          {"joined", "anchors", "installed", "instantiated"} \X Container \X (1..Channels)
    BY PolledAssumption DEF IInv, TypeOK
  <2> QED
    BY <1>1, <1>3, <2>1, PeerFacts DEF IInv, TypeOK, ScriptTypes, Final
<1>5. ScriptInv'
  <2>1. i - 1 = Len(Peers)
    BY <1>1, PeerFacts, Indices DEF IInv, ScriptInv
  <2>2. Formed(channel - 1) \cup Channel(Len(Peers), channel) \subseteq done
    BY <1>1, <2>1 DEF IInv, ScriptInv
  <2>3. Formed(channel) = Formed(channel - 1) \cup Channel(Len(Peers), channel)
                            \cup {<<"anchors", Orderer1, channel>>}
    BY SetsGrow, Indices DEF IInv
  <2>4. CASE pc' = "create"
    <3>1. channel' - 1 = channel /\ Formed(channel) \subseteq done'
      BY <1>1, <2>2, <2>3, <2>4, Indices DEF IInv
    <3> QED
      BY <2>4, <3>1 DEF ScriptInv
  <2>5. CASE pc' \in {"install", "formed"}
    <3>1. channel = Channels /\ channel' = 1 /\ Formed(channel) \subseteq done'
      BY <1>1, <2>2, <2>3, <2>5, Indices DEF IInv
    <3>2. Upto("installed", i' - 1, 1) = {} /\ OnChannels("instantiated", channel' - 1) = {}
      BY <1>1, <3>1, SetsGrow
    <3>3. i' <= Len(Peers) + 1
      BY <1>1, PeerFacts
    <3> QED
      BY <1>1, <2>5, <3>1, <3>2, <3>3 DEF ScriptInv
  <2>6. CASE pc' \in {"failed", "returned"}
    BY <2>6 DEF ScriptInv
  <2> QED
    BY <1>1, <2>4, <2>5, <2>6
<1> QED
  BY <1>1, <1>2, <1>4, <1>5, QuietKeeps, QuietTypes DEF IInv

LEMMA InstallChaincodeKeeps ==
  ASSUME IInv, InstallChaincode
  PROVE  IInv'
<1>1. /\ pc = "formed" /\ pc' = "install"
      /\ UNCHANGED <<i, channel, tries, done, unserved, budget>> /\ Quiet
  BY DEF InstallChaincode, script
<1>2. ScriptTypes' /\ budget' \in 0..MaxFaults
  BY <1>1 DEF IInv, TypeOK, ScriptTypes
<1>3. ScriptInv'
  <2>1. channel = 1 /\ i = 1 /\ Formed(Channels) \subseteq done
    BY <1>1 DEF IInv, ScriptInv
  <2>2. Upto("installed", i - 1, 1) = {} /\ OnChannels("instantiated", channel - 1) = {}
    BY <2>1, SetsGrow
  <2>3. i <= Len(Peers) + 1
    BY <2>1, PeerFacts
  <2> QED
    BY <1>1, <2>1, <2>2, <2>3 DEF ScriptInv
<1> QED
  BY <1>1, <1>2, <1>3, QuietKeeps, QuietTypes DEF IInv

LEMMA InstallKeeps ==
  ASSUME IInv, Install
  PROVE  IInv'
<1>1. /\ pc = "install" /\ i <= Len(Peers)
      /\ UNCHANGED <<channel, tries, unserved>> /\ Quiet
      /\ \/ /\ done' = IF channel = 1 THEN done \cup {<<"installed", Peers[i], 1>>} ELSE done
            /\ i' = i + 1 /\ UNCHANGED pc
         \/ pc' \in {"failed", "returned"} /\ UNCHANGED <<done, i>>
  BY RaiseEnds DEF Install
<1>2. budget' \in 0..MaxFaults
  BY FaultTyped, OutcomeTyped DEF IInv, Install
<1>3. Peers[i] \in Container /\ i + 1 \in 1..(Len(Polled) + 1)
  BY <1>1, PeerFacts DEF IInv, TypeOK
<1>4. ScriptTypes'
  <2>1. <<"installed", Peers[i], 1>> \in
          {"joined", "anchors", "installed", "instantiated"} \X Container \X (1..Channels)
    BY <1>3, Indices DEF IInv
  <2> QED
    BY <1>1, <1>3, <2>1 DEF IInv, TypeOK, ScriptTypes, Final
<1>5. ScriptInv'
  <2>1. /\ Upto("installed", IF channel = 1 THEN i - 1 ELSE Len(Peers), 1) \subseteq done
        /\ OnChannels("instantiated", channel - 1) \subseteq done
        /\ Formed(Channels) \subseteq done
    BY <1>1 DEF IInv, ScriptInv
  <2>2. CASE pc' = "install" /\ i' = i + 1
              /\ done' = IF channel = 1 THEN done \cup {<<"installed", Peers[i], 1>>} ELSE done
    <3>1. i' <= Len(Peers) + 1 /\ i' - 1 = i
      BY <1>1, <2>2, PeerFacts, Indices DEF IInv
    <3>2. Upto("installed", i, 1) = Upto("installed", i - 1, 1) \cup {<<"installed", Peers[i], 1>>}
      BY SetsGrow, Indices DEF IInv
    <3>3. Upto("installed", IF channel = 1 THEN i' - 1 ELSE Len(Peers), 1) \subseteq done'
      <4>1. CASE channel = 1
        BY <2>1, <2>2, <3>1, <3>2, <4>1
      <4>2. CASE channel # 1
        BY <2>1, <2>2, <4>2
      <4> QED
        BY <4>1, <4>2
    <3>4. done \subseteq done'
      BY <2>2
    <3> QED
      BY <1>1, <2>1, <2>2, <3>1, <3>3, <3>4 DEF ScriptInv
  <2>3. CASE pc' \in {"failed", "returned"}
    BY <2>3 DEF ScriptInv
  <2> QED
    BY <1>1, <2>2, <2>3
<1> QED
  BY <1>1, <1>2, <1>4, <1>5, QuietKeeps, QuietTypes DEF IInv

LEMMA InstantiateKeeps ==
  ASSUME IInv, Instantiate
  PROVE  IInv'
<1>1. /\ pc = "install" /\ i > Len(Peers) /\ i' = 1
      /\ UNCHANGED <<channel, tries, unserved>> /\ Quiet
      /\ \/ done' = done \cup {<<"instantiated", Orderer1, channel>>} /\ pc' = "exercise"
         \/ pc' \in {"failed", "returned"} /\ UNCHANGED done
  BY RaiseEnds DEF Instantiate
<1>2. budget' \in 0..MaxFaults
  BY OutcomeTyped DEF Instantiate
<1>3. ScriptTypes'
  <2>1. <<"instantiated", Orderer1, channel>> \in
          {"joined", "anchors", "installed", "instantiated"} \X Container \X (1..Channels)
    BY PolledAssumption DEF IInv, TypeOK
  <2> QED
    BY <1>1, <2>1, PeerFacts DEF IInv, TypeOK, ScriptTypes, Final
<1>4. ScriptInv'
  <2>1. i - 1 = Len(Peers)
    BY <1>1, PeerFacts, Indices DEF IInv, ScriptInv
  <2>2. /\ Upto("installed", Len(Peers), 1) \subseteq done
        /\ OnChannels("instantiated", channel - 1) \subseteq done
        /\ Formed(Channels) \subseteq done
    BY <1>1, <2>1 DEF IInv, ScriptInv
  <2>3. OnChannels("instantiated", channel) =
          OnChannels("instantiated", channel - 1) \cup {<<"instantiated", Orderer1, channel>>}
    BY SetsGrow, Indices DEF IInv
  <2>4. CASE pc' = "exercise" /\ done' = done \cup {<<"instantiated", Orderer1, channel>>}
    BY <1>1, <2>2, <2>3, <2>4 DEF ScriptInv
  <2>5. CASE pc' \in {"failed", "returned"}
    BY <2>5 DEF ScriptInv
  <2> QED
    BY <1>1, <2>4, <2>5
<1> QED
  BY <1>1, <1>2, <1>3, <1>4, QuietKeeps, QuietTypes DEF IInv

LEMMA ExerciseKeeps ==
  ASSUME IInv, Exercise
  PROVE  IInv'
<1>1. /\ pc = "exercise" /\ UNCHANGED <<i, tries, done>> /\ Quiet
      /\ \/ channel < Channels /\ pc' = "install" /\ channel' = channel + 1
         \/ ~(channel < Channels) /\ pc' = "ready" /\ channel' = 1
  BY DEF Exercise
<1>2. PICK failing \in SUBSET Peer :
        /\ IF \E p \in failing : box[p] = "up" THEN Fault ELSE UNCHANGED budget
        /\ unserved' = unserved \cup failing
  BY DEF Exercise
<1>3. budget' \in 0..MaxFaults
  BY <1>2, FaultTyped DEF IInv
<1>4. unserved' \subseteq Peer
  BY <1>2 DEF IInv, TypeOK
<1>5. channel' \in 1..Channels
  BY <1>1, Indices DEF IInv, TypeOK
<1>6. ScriptTypes'
  BY <1>1, <1>4, <1>5 DEF IInv, TypeOK, ScriptTypes, Final
<1>7. ScriptInv'
  <2>1. /\ Upto("installed", Len(Peers), 1) \subseteq done
        /\ OnChannels("instantiated", channel) \subseteq done
        /\ Formed(Channels) \subseteq done /\ i = 1
    BY <1>1 DEF IInv, ScriptInv
  <2>2. CASE channel < Channels /\ pc' = "install" /\ channel' = channel + 1
    <3>1. channel' - 1 = channel /\ channel' # 1 /\ i' = 1 /\ i' <= Len(Peers) + 1
      BY <1>1, <2>1, <2>2, PeerFacts, Indices DEF IInv
    <3> QED
      BY <1>1, <2>1, <2>2, <3>1 DEF ScriptInv
  <2>3. CASE ~(channel < Channels) /\ pc' = "ready" /\ channel' = 1
    <3>1. channel = Channels
      BY <2>3, Indices DEF IInv
    <3> QED
      BY <1>1, <2>1, <2>3, <3>1 DEF ScriptInv
  <2> QED
    BY <1>1, <2>2, <2>3
<1> QED
  BY <1>1, <1>3, <1>6, <1>7, QuietKeeps, QuietTypes DEF IInv

LEMMA Unchanged ==
  ASSUME IInv, UNCHANGED vars
  PROVE  IInv'
<1>1. TypeOK' /\ StartInv' /\ AgainInv' /\ LinesInv'
  BY DEF vars, docker, script, IInv, TypeOK, StartInv, AgainInv, LinesInv
<1>2. ScriptInv'
  BY DEF vars, script, IInv, ScriptInv
<1> QED
  BY <1>1, <1>2 DEF IInv

LEMMA Step == IInv /\ [Next]_vars => IInv'
<1> SUFFICES ASSUME IInv, [Next]_vars PROVE IInv'
  OBVIOUS
<1>1. CASE Operator
  BY <1>1, SwarmKeeps, StartContainersKeeps, PassKeeps, ReadKeeps, StartAgainKeeps,
     StopMachineKeeps, RestKeeps, CreateChannelKeeps, JoinKeeps, UpdateAnchorsKeeps,
     InstallKeeps, InstantiateKeeps, ExerciseKeeps
  DEF Operator
<1>2. CASE RetryClient \/ InstallChaincode \/ Restart \/ Docker
  BY <1>2, InstallChaincodeKeeps, RestartKeeps, DockerKeeps, Unchanged DEF RetryClient
<1>3. CASE \E c \in Container : Reboot(c) \/ Back(c)
  BY <1>3, RebootKeeps, BackKeeps
<1>4. CASE Over \/ UNCHANGED vars
  BY <1>4, Unchanged DEF Over
<1> QED
  BY <1>1, <1>2, <1>3, <1>4 DEF Next

\* The strengthened invariant is inductive.
THEOREM Invariance == Spec => []IInv
BY Initially, Step, PTL DEF Spec

-----------------------------------------------------------------------------
(* The properties                                                          *)

\* Every reachable state has the declared types (FabricDeploy, TypeOK).
THEOREM TypeCorrect == Spec => []TypeOK
<1>1. IInv => TypeOK
  BY DEF IInv
<1> QED
  BY <1>1, Invariance, PTL

\* In a first start no container is started twice at a time, whatever it logs and
\* however passes, scripts and crashes interleave, unless docker did not remove
\* it (Fabric_Network.py:1314-1463).
THEOREM SingleRunHolds == Spec => []SingleRun
<1>1. IInv => SingleRun
  BY CalmStart, ScriptFacts DEF IInv, Calm, SingleRun
<1> QED
  BY <1>1, Invariance, PTL

\* A network that is reported as formed is complete: every peer in every
\* channel, the anchors, and the chaincode where that is reported
\* (Fabric_Network.py:1707-1718).
THEOREM FormedIsCompleteHolds == Spec => []FormedIsComplete
<1>1. IInv => FormedIsComplete
  BY DEF IInv, ScriptInv, FormedIsComplete, Formed, Upto, OnChannels, Peer
<1> QED
  BY <1>1, Invariance, PTL

\* In a first start a pass stops a container that runs only for what that
\* container has logged since it came up (Fabric_Network.py:1343-1381).
THEOREM RunningKeptHolds == Spec => RunningKept
<1>1. ASSUME IInv, [Next]_vars, pc = "again", pc' = "check", mode = "start",
             NEW c \in Container, box[c] = "up", box'[c] # "up"
      PROVE  c \in dialed \cup stuck
  <2>1. StartAgain
    BY <1>1 DEF Next, Operator, Over, Final, Swarm, StartContainers, StartRaises, BeginPass,
       ReadError, ReadFine, ReadRaises, EndPass, EndRetries, CreateChannel, Join,
       UpdateAnchors, Install, Instantiate, Exercise, StopMachine, MachinesStopped,
       AwaitReboot, RefreshClient, ClientsRefreshed, RetryClient, InstallChaincode, Restart,
       Docker, Reboot, Back, vars
  <2>2. i <= Len(Polled) /\ Polled[i] \in Container
    BY <1>1, PeerFacts, Indices DEF IInv, AgainInv
  <2>3. c = Polled[i]
    <3>1. PICK left, more : TakeDown(Polled[i], left, more)
      BY <2>1 DEF StartAgain
    <3> QED
      BY <1>1, <2>2, <3>1, TakeDownAlone DEF IInv
  <2> QED
    BY <1>1, <2>3 DEF IInv, AgainInv
<1>2. IInv /\ [Next]_vars =>
        [pc = "again" /\ pc' = "check" /\ mode = "start" =>
           \A c \in Container : box[c] = "up" /\ box'[c] # "up" => c \in dialed \cup stuck]_vars
  BY <1>1
<1> QED
  BY <1>2, Invariance, PTL DEF RunningKept, Spec
=============================================================================
