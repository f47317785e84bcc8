----------------------------- MODULE FabricDeploy -----------------------------
(***************************************************************************)
(* Bringing a Fabric network up: the docker swarm, the containers with the *)
(* passes over their logs that start failed ones again, the script that    *)
(* creates the channels and joins the peers, the script that installs the  *)
(* chaincode, and restart.  Remote commands are taken to return.           *)
(*                                                                         *)
(* A container is started by a script that runs "docker run" in the        *)
(* foreground, once per line it has.  Every start appends a line, so that  *)
(* after a restart the script runs the container a second time as soon as  *)
(* the first one has ended.                                                *)
(***************************************************************************)
EXTENDS Integers, Sequences, FiniteSets

CONSTANTS
  Peers,     \* the peers, in the order in which the scripts visit them
  Polled,    \* peers and orderers, in the order in which a pass looks at them
  Orderer1,  \* the orderer the scripts talk to
  Channels,  \* channel_count
  Retries,   \* passes over the logs, 10 in the code
  MaxRetry,  \* attempts of a join, 10 in the script
  MaxFaults, \* bound: failures and crashes
  MaxStarts  \* bound: starts of all containers, thus lines in a script

Container == {Polled[k] : k \in 1..Len(Polled)}
Peer == {Peers[k] : k \in 1..Len(Peers)}

ASSUME PolledAssumption ==
  /\ Polled \in Seq(Container) /\ Peers \in Seq(Container)
  /\ Len(Peers) \in 1..Len(Polled)
  /\ Orderer1 \in Container
ASSUME DeployBoundsAssumption ==
  /\ {Channels, Retries, MaxRetry, MaxStarts} \subseteq Nat \ {0}
  /\ MaxFaults \in Nat

VARIABLES
  pc,       \* what the operator's process does next
  mode,     \* "start" or "restart"
  swarm,    \* containers whose machine joined the swarm
  machine,  \* the machine of each container: "on", "rebooting" (told to, and
            \* still there), "away" (not back yet) or "lost" (never back)
  box,      \* docker's view of each container: "none", "up" or "dead"
  errors,   \* containers not running whose log may end with an error, as long as
            \* passes read the logs
  dialed,   \* history: the container, up when its log was read, had a dial error
  stuck,    \* history: containers that a pass could not stop and remove
  lines,    \* lines of its start script
  procs,    \* how many scripts are about to run a line, by lines left
  behind,   \* lines left in the script that waits for the running container
  counter,  \* passes begun
  retry,    \* this pass has started a container again
  i,        \* the container or peer that is looked at next
  channel,  \* the channel being set up
  tries,    \* attempts of the current join
  done,     \* what the scripts have achieved: <<what, peer, channel>>
  unserved, \* peers of which a query or an invocation failed
  budget    \* faults still to come

None == [n \in 1..MaxStarts |-> 0]

docker == <<box, errors, dialed, procs, behind>>
script == <<channel, tries, done, unserved>>
vars ==
  <<pc, mode, swarm, machine, docker, stuck, lines, counter, retry, i, script, budget>>

Init ==
  /\ pc = "swarm"
  /\ mode = "start"
  /\ swarm = Container
  /\ machine = [c \in Container |-> "on"]
  /\ box = [c \in Container |-> "none"]
  /\ errors = {}
  /\ dialed = {}
  /\ stuck = {}
  /\ lines = 0
  /\ procs = [c \in Container |-> None]
  /\ behind = [c \in Container |-> 0]
  /\ counter = 0
  /\ retry = TRUE
  /\ i = 1
  /\ channel = 1
  /\ tries = 0
  /\ done = {}
  /\ unserved = {}
  /\ budget = MaxFaults

Fault == budget > 0 /\ budget' = budget - 1

\* An exception ends the start.  restart catches it, starts the containers once
\* more and returns as if all were well; those containers are not followed.
Raise == pc' = IF mode = "restart" THEN "returned" ELSE "failed"

-----------------------------------------------------------------------------
(* The machines                                                            *)

\* A script with n lines left goes on, unless there is no line left.
GoOn(scripts, n) == IF n > 0 THEN [scripts EXCEPT ![n] = @ + 1] ELSE scripts

\* A log that may end with an error: that of a failed start, or of a container
\* that has ended, since a running peer or orderer may have written last that it
\* could not reach another one.
Logs(c) ==
  errors' = IF pc \in {"pass", "check", "again"} THEN errors \cup {c} ELSE errors

\* docker run: the name is taken, the container comes up, or it does not.
Run(c) ==
  \E n \in {m \in 1..MaxStarts : procs[c][m] > 0} :
    LET rest == n - 1
        others == [procs[c] EXCEPT ![n] = @ - 1]
    IN \/ /\ box[c] # "none"
          /\ Logs(c)
          /\ procs' = [procs EXCEPT ![c] = GoOn(others, rest)]
          /\ UNCHANGED <<box, dialed, behind, budget>>
       \/ /\ box[c] = "none"
          /\ c \in swarm
          /\ box' = [box EXCEPT ![c] = "up"]
          /\ errors' = errors \ {c}
          /\ dialed' = dialed \ {c}
          /\ procs' = [procs EXCEPT ![c] = others]
          /\ behind' = [behind EXCEPT ![c] = rest]
          /\ UNCHANGED budget
       \/ /\ box[c] = "none"
          /\ IF c \in swarm THEN Fault ELSE UNCHANGED budget
          /\ Logs(c)
          /\ \E left \in {"none", "dead"} : box' = [box EXCEPT ![c] = left]
          /\ procs' = [procs EXCEPT ![c] = GoOn(others, rest)]
          /\ UNCHANGED <<dialed, behind>>

\* A container dies; its script goes on.
Crash(c) ==
  /\ box[c] = "up"
  /\ Fault
  /\ box' = [box EXCEPT ![c] = "dead"]
  /\ Logs(c)
  /\ procs' = [procs EXCEPT ![c] = GoOn(procs[c], behind[c])]
  /\ behind' = [behind EXCEPT ![c] = 0]
  /\ UNCHANGED dialed

\* Nobody looks at the containers after a start that failed.
Docker ==
  /\ pc \notin {"failed", "returned"}
  /\ \E c \in Container : Run(c) \/ Crash(c)
  /\ UNCHANGED <<pc, mode, swarm, machine, stuck, lines, counter, retry, i, script>>

\* A machine goes down, some time after it was told to, and comes back.
Reboot(c) ==
  /\ machine[c] = "rebooting"
  /\ \/ machine' = [machine EXCEPT ![c] = "away"] /\ UNCHANGED budget
     \/ machine' = [machine EXCEPT ![c] = "lost"] /\ Fault
  /\ box' = [box EXCEPT ![c] = IF @ = "up" THEN "dead" ELSE @]
  /\ procs' = [procs EXCEPT ![c] = None]
  /\ behind' = [behind EXCEPT ![c] = 0]
  /\ UNCHANGED <<pc, mode, swarm, errors, dialed, stuck, lines, counter, retry, i,
                 script>>

Back(c) ==
  /\ machine[c] = "away"
  /\ machine' = [machine EXCEPT ![c] = "on"]
  /\ UNCHANGED <<pc, mode, swarm, docker, stuck, lines, counter, retry, i, script, budget>>

Answers(c) == machine[c] \in {"on", "rebooting"}

-----------------------------------------------------------------------------
(* startup: the swarm and the containers                                   *)

\* A machine that could not join the swarm is only written to the log; without
\* the join token or the network the start ends.
Swarm ==
  /\ pc = "swarm"
  /\ \/ pc' = "start" /\ UNCHANGED <<swarm, budget>>
     \/ \E c \in Container : pc' = "start" /\ swarm' = swarm \ {c} /\ Fault
     \/ Raise /\ Fault /\ UNCHANGED swarm
  /\ UNCHANGED <<mode, machine, docker, stuck, lines, counter, retry, i, script>>

\* One more line in every script, and every script runs, each with its log
\* emptied half a minute before that is read.  Nothing is awaited.
StartContainers ==
  /\ pc = "start"
  /\ \A c \in Container : machine[c] = "on"
  /\ lines' = lines + 1
  /\ procs' = [c \in Container |-> GoOn(procs[c], lines')]
  /\ errors' = {}
  /\ pc' = "pass"
  /\ counter' = 0
  /\ retry' = TRUE
  /\ UNCHANGED <<mode, swarm, machine, box, dialed, behind, stuck, i, script, budget>>

\* A machine that went down after the clients were refreshed.
StartRaises ==
  /\ pc = "start"
  /\ \E c \in Container : ~Answers(c)
  /\ Raise
  /\ UNCHANGED <<mode, swarm, machine, docker, stuck, lines, counter, retry, i, script,
                 budget>>

NotCounted == counter' = counter
CountPass == counter' = counter + 1

OnePassMore == counter <= Retries
PassesLeft == counter < Retries

\* while retry and counter < 10
BeginPass ==
  /\ pc = "pass"
  /\ retry /\ PassesLeft
  /\ CountPass
  /\ retry' = FALSE
  /\ i' = 1
  /\ pc' = "check"
  /\ UNCHANGED <<mode, swarm, machine, docker, stuck, lines, script, budget>>

\* cat of the log: an error as its last line is a reason to start the container
\* again, that of a running peer or orderer too.
ReadError ==
  LET c == Polled[i]
  IN /\ pc = "check"
     /\ i <= Len(Polled)
     /\ Answers(c)
     /\ c \in errors \/ box[c] = "up"
     /\ pc' = "again"
     /\ retry' = TRUE
     /\ dialed' = IF box[c] = "up" THEN {c} ELSE {}
     /\ UNCHANGED <<mode, swarm, machine, box, errors, procs, behind, stuck, lines,
                    counter, i, script, budget>>

\* The last line is another one, docker's hint at its help among them, or there
\* is none, or it cannot be decoded.
ReadFine ==
  /\ pc = "check"
  /\ i <= Len(Polled)
  /\ Answers(Polled[i])
  /\ i' = i + 1
  /\ UNCHANGED <<pc, mode, swarm, machine, docker, stuck, lines, counter, retry, script,
                 budget>>

\* The command raises, and nobody catches it.
ReadRaises ==
  /\ pc = "check"
  /\ i <= Len(Polled)
  /\ IF Answers(Polled[i]) THEN Fault ELSE UNCHANGED budget
  /\ Raise
  /\ UNCHANGED <<mode, swarm, machine, docker, stuck, lines, counter, retry, i, script>>

\* A container is stopped, or stopped and removed, or neither; a script waiting
\* for it goes on, and a script is started for `more` lines.
TakeDown(c, left, more) ==
  LET ended == box[c] = "up" /\ left # "up"
  IN /\ box' = [box EXCEPT ![c] = left]
     /\ procs' = [procs EXCEPT ![c] = GoOn(IF ended THEN GoOn(@, behind[c]) ELSE @, more)]
     /\ behind' = [behind EXCEPT ![c] = IF ended THEN 0 ELSE @]
     /\ UNCHANGED dialed

\* A container of which docker stop or docker rm fails.
NotRemoved(c) == {box[c]} \cup (IF box[c] = "up" THEN {"dead"} ELSE {})

\* The script is started with a new log.
KeepLog(c) == UNCHANGED errors
Truncate(c) == errors' = errors \ {c}

\* docker stop && docker rm, and the script again, whatever became of them.  An
\* exception between the two is passed over.
StartAgain ==
  LET c == Polled[i]
  IN /\ pc = "again"
     /\ \/ /\ Answers(c)
           /\ TakeDown(c, "none", lines)
           /\ Truncate(c)
           /\ UNCHANGED <<stuck, budget>>
        \/ /\ Answers(c)
           /\ Fault
           /\ \E left \in NotRemoved(c) : TakeDown(c, left, lines)
           /\ Truncate(c)
           /\ stuck' = stuck \cup {c}
        \/ /\ IF Answers(c) THEN Fault ELSE UNCHANGED budget
           /\ \E left \in NotRemoved(c) \cup {"none"} : TakeDown(c, left, 0)
           /\ IF box'[c] = "up" THEN UNCHANGED errors ELSE Logs(c)
           /\ UNCHANGED stuck
     /\ pc' = "check"
     /\ i' = i + 1
     /\ UNCHANGED <<mode, swarm, machine, lines, counter, retry, script>>

EndPass ==
  /\ pc = "check"
  /\ i > Len(Polled)
  /\ pc' = "pass"
  /\ UNCHANGED <<mode, swarm, machine, docker, stuck, lines, counter, retry, i, script,
                 budget>>

\* All logs were fine, or ten passes were not enough.
EndRetries ==
  /\ pc = "pass"
  /\ ~(retry /\ PassesLeft)
  /\ pc' = "create"
  /\ errors' = {}
  /\ channel' = 1
  /\ counter' = 0
  /\ retry' = TRUE
  /\ i' = 1
  /\ UNCHANGED <<mode, swarm, machine, box, dialed, procs, behind, stuck, lines, tries,
                 done, unserved, budget>>

-----------------------------------------------------------------------------
(* setup_network with script_raw_3.sh: create the channel, join the peers, *)
(* update the anchors; a command that fails ends the script, and startup   *)
(* with it                                                                 *)

Quiet == UNCHANGED <<mode, swarm, machine, docker, stuck, lines, counter, retry>>

\* A command that needs these containers: it fails if one is down.
Succeeds(needed) == (\A c \in needed : box[c] = "up") /\ UNCHANGED budget
Fails(needed) == IF \A c \in needed : box[c] = "up" THEN Fault ELSE UNCHANGED budget

CreateChannel ==
  /\ pc = "create"
  /\ \/ /\ Succeeds({Orderer1, Peers[1]})
        /\ pc' = "join"
     \/ /\ Fails({Orderer1, Peers[1]})
        /\ Raise
  /\ i' = 1
  /\ tries' = 1
  /\ UNCHANGED <<channel, done, unserved>> /\ Quiet

GiveUpJoin == i' = i + 1 /\ UNCHANGED pc
VerifyJoin == Raise /\ UNCHANGED i

Join ==
  /\ pc = "join"
  /\ i <= Len(Peers)
  /\ \/ /\ Succeeds({Peers[i]})
        /\ done' = done \cup {<<"joined", Peers[i], channel>>}
        /\ i' = i + 1
        /\ tries' = 1
        /\ UNCHANGED pc
     \/ /\ Fails({Peers[i]})
        /\ UNCHANGED done
        /\ IF tries < MaxRetry
           THEN tries' = tries + 1 /\ UNCHANGED <<pc, i>>
           ELSE tries' = 1 /\ VerifyJoin
  /\ UNCHANGED <<channel, unserved>> /\ Quiet

\* updateAnchorPeers for peer0 of every organisation, then the last line
UpdateAnchors ==
  /\ pc = "join"
  /\ i > Len(Peers)
  /\ \/ /\ Succeeds({Orderer1})
        /\ IF channel < Channels
           THEN pc' = "create" /\ channel' = channel + 1
           ELSE /\ pc' = IF mode = "restart" THEN "install" ELSE "formed"
                /\ channel' = 1
        /\ done' = done \cup {<<"anchors", Orderer1, channel>>}
     \/ /\ Fails({Orderer1})
        /\ Raise
        /\ UNCHANGED <<channel, done>>
  /\ i' = 1
  /\ UNCHANGED <<tries, unserved>> /\ Quiet

-----------------------------------------------------------------------------
(* install_chaincode with script_raw_2.sh                                  *)

InstallChaincode ==
  /\ pc = "formed"
  /\ pc' = "install"
  /\ UNCHANGED <<i, script, budget>> /\ Quiet

\* Only mychannel1 installs; an installed chaincode serves every channel.
Install ==
  /\ pc = "install"
  /\ i <= Len(Peers)
  /\ \/ /\ channel = 1 => \A c \in {Peers[i]} : box[c] = "up"
        /\ done' = IF channel = 1 THEN done \cup {<<"installed", Peers[i], 1>>} ELSE done
        /\ i' = i + 1
        /\ UNCHANGED <<pc, budget>>
     \/ /\ channel = 1
        /\ Fails({Peers[i]})
        /\ Raise
        /\ UNCHANGED <<done, i>>
  /\ UNCHANGED <<channel, tries, unserved>> /\ Quiet

Instantiate ==
  /\ pc = "install"
  /\ i > Len(Peers)
  /\ \/ /\ Succeeds({Orderer1, Peers[1]})
        /\ done' = done \cup {<<"instantiated", Orderer1, channel>>}
        /\ pc' = "exercise"
     \/ /\ Fails({Orderer1, Peers[1]})
        /\ Raise
        /\ UNCHANGED done
  /\ i' = 1
  /\ UNCHANGED <<channel, tries, unserved>> /\ Quiet

\* Query, invoke and query again, on all peers in the background: exit 1 ends a
\* background process, wait returns, and the script ends with All GOOD.
Exercise ==
  /\ pc = "exercise"
  /\ \E failing \in SUBSET Peer :
       /\ {p \in Peer : box[p] # "up"} \subseteq failing
       /\ IF \E p \in failing : box[p] = "up" THEN Fault ELSE UNCHANGED budget
       /\ unserved' = unserved \cup failing
  /\ IF channel < Channels
     THEN pc' = "install" /\ channel' = channel + 1
     ELSE pc' = "ready" /\ channel' = 1
  /\ UNCHANGED <<i, tries, done>> /\ Quiet

-----------------------------------------------------------------------------
(* restart: every container is removed, every machine reboots, and all     *)
(* starts over with the logs and the scripts that are there                *)

\* shutdown fetches the logs, outside of the try of restart.
Restart ==
  /\ pc \in {"formed", "ready"}
  /\ lines < MaxStarts
  /\ \/ pc' = "down" /\ UNCHANGED budget
     \/ pc' = "failed" /\ Fault
  /\ mode' = "restart"
  /\ stuck' = {}
  /\ i' = 1
  /\ done' = {}
  /\ unserved' = {}
  /\ UNCHANGED <<swarm, machine, docker, lines, counter, retry, channel, tries>>

\* The next machine: an exception is only written to the log, and leaves the
\* machine, or more than that, as it is.
StopMachine ==
  LET c == Polled[i]
  IN /\ pc = "down"
     /\ i <= Len(Polled)
     /\ \/ /\ TakeDown(c, "none", 0)
           /\ machine' = [machine EXCEPT ![c] = "rebooting"]
           /\ UNCHANGED budget
        \/ /\ Fault
           /\ \E left \in NotRemoved(c) \cup {"none"} : TakeDown(c, left, 0)
           /\ UNCHANGED machine
     /\ i' = i + 1
     /\ UNCHANGED <<pc, mode, swarm, errors, stuck, lines, counter, retry, script>>

Rest == UNCHANGED <<mode, swarm, machine, docker, stuck, lines, counter, retry, script>>

MachinesStopped ==
  /\ pc = "down"
  /\ i > Len(Polled)
  /\ pc' = "await"
  /\ UNCHANGED <<i, budget>> /\ Rest

\* wait_till_done: the file it waits for is there from the first boot, so that a
\* machine may be counted before it goes down; or it does not come in time.
AwaitReboot ==
  /\ pc = "await"
  /\ \/ pc' = "refresh" /\ UNCHANGED budget
     \/ /\ IF \A c \in Container : Answers(c) THEN Fault ELSE UNCHANGED budget
        /\ Raise
  /\ i' = 1
  /\ Rest

\* refresh_ssh_scp_clients retries a machine until it answers.
RefreshClient ==
  /\ pc = "refresh"
  /\ i <= Len(Polled)
  /\ Answers(Polled[i])
  /\ i' = i + 1
  /\ UNCHANGED <<pc, budget>> /\ Rest

RetryClient ==
  /\ pc = "refresh"
  /\ i <= Len(Polled)
  /\ ~Answers(Polled[i])
  /\ UNCHANGED vars

\* docker volume rm, on the last machine
ClientsRefreshed ==
  /\ pc = "refresh"
  /\ i > Len(Polled)
  /\ \/ /\ Answers(Polled[Len(Polled)])
        /\ pc' = "start"
        /\ UNCHANGED budget
     \/ /\ IF Answers(Polled[Len(Polled)]) THEN Fault ELSE UNCHANGED budget
        /\ Raise
  /\ i' = 1
  /\ Rest

Final == {"formed", "ready", "failed", "returned"}
Over == pc \in Final /\ UNCHANGED vars

Operator ==
  \/ Swarm \/ StartContainers \/ StartRaises
  \/ BeginPass \/ ReadError \/ ReadFine \/ ReadRaises \/ StartAgain \/ EndPass \/ EndRetries
  \/ CreateChannel \/ Join \/ UpdateAnchors \/ Install \/ Instantiate \/ Exercise
  \/ StopMachine \/ MachinesStopped \/ AwaitReboot \/ RefreshClient \/ ClientsRefreshed

Next ==
  \/ Operator \/ RetryClient \/ InstallChaincode \/ Restart \/ Docker
  \/ \E c \in Container : Reboot(c) \/ Back(c)
  \/ Over

Spec == Init /\ [][Next]_vars

\* The operator's process goes on, and so do the commands it runs; a machine
\* that is told to reboot goes down, and comes back if it is not lost.
FairSpec ==
  Spec /\ WF_vars(Operator) /\ \A c \in Container : WF_vars(Reboot(c) \/ Back(c))

-----------------------------------------------------------------------------
(* Properties                                                              *)

TypeOK ==
  /\ pc \in {"swarm", "start", "pass", "check", "again", "create", "join",
             "install", "exercise", "down", "await", "refresh"} \cup Final
  /\ mode \in {"start", "restart"}
  /\ swarm \subseteq Container
  /\ machine \in [Container -> {"on", "rebooting", "away", "lost"}]
  /\ box \in [Container -> {"none", "up", "dead"}]
  /\ errors \subseteq Container
  /\ dialed \subseteq Container
  /\ stuck \subseteq Container
  /\ lines \in 0..MaxStarts
  /\ procs \in [Container -> [1..MaxStarts -> Nat]]
  /\ behind \in [Container -> 0..MaxStarts]
  /\ counter \in 0..Retries
  /\ retry \in BOOLEAN
  /\ i \in 1..(Len(Polled) + 1)
  /\ channel \in 1..Channels
  /\ tries \in 0..MaxRetry
  /\ done \subseteq ({"joined", "anchors", "installed", "instantiated"}
                       \X Container \X (1..Channels))
  /\ unserved \subseteq Peer
  /\ budget \in 0..MaxFaults

\* In a first start the passes never start a container twice at a time: no
\* script runs beside another one, nor beside the container it would start, in
\* whatever order passes, scripts and containers go on (Fabric_Network.py:
\* 1314-1463).  The exceptions are containers of which docker stop && docker rm
\* failed, and a restart, after which the scripts have a second line.
OneScript == {[None EXCEPT ![n] = 1] : n \in 1..MaxStarts}
SingleRun ==
  mode = "start" =>
    \A c \in Container \ stuck :
      procs[c] \in (IF box[c] = "up" THEN {None} ELSE {None} \cup OneScript)

\* In a first start a pass takes a running container down only for what that
\* container itself has logged since it came up, never for a line of an earlier
\* attempt, though the log was read before (Fabric_Network.py:1343-1381).  The
\* exception, again, is one that docker did not remove.
RunningKept ==
  [][pc = "again" /\ pc' = "check" /\ mode = "start" =>
       \A c \in Container : box[c] = "up" /\ box'[c] # "up" => c \in dialed \cup stuck]_vars

\* A network that is reported as formed has every peer in every channel and all
\* anchors, with the chaincode installed on every peer and instantiated on every
\* channel when that is reported too (Fabric_Network.py:1707-1718).
FormedIsComplete ==
  LET joined == {<<"joined", p, ch>> : p \in Peer, ch \in 1..Channels}
      per(what) == {<<what, Orderer1, ch>> : ch \in 1..Channels}
      installed == {<<"installed", p, 1>> : p \in Peer}
  IN /\ pc \in {"formed", "install", "exercise", "ready"} =>
          joined \cup per("anchors") \subseteq done
     /\ pc = "ready" => installed \cup per("instantiated") \subseteq done

WaitsForLost == pc = "refresh" /\ i <= Len(Polled) /\ machine[Polled[i]] = "lost"

\* Starting, setting up and restarting end, whatever fails (Fabric_Network.py:
\* 1316, script_raw_3.sh:32), with one exception: refresh_ssh_scp_clients waits
\* for ever for a machine that was counted before it went down and does not come
\* back (lines 1505-1513).
DeployEnds ==
  []<>(pc \in Final) \/ <>[]WaitsForLost

\* "All GOOD, script completed", which the code takes for success, says that the
\* queries and invocations worked (script_raw_2.sh:144).
AllGood == pc = "ready" => unserved = {}
=============================================================================
