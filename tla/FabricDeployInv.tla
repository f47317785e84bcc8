---------------------------- MODULE FabricDeployInv ----------------------------
(***************************************************************************)
(* The inductive invariant behind the safety properties of FabricDeploy:   *)
(* what the first start knows of its scripts and logs, and what has been   *)
(* achieved by the time the scripts reach a line.                          *)
(***************************************************************************)
EXTENDS FabricDeploy

\* In a first start a script has one line.  It is under way, its container
\* runs, or its log tells how the line ended, one of the three at a time; docker
\* can only upset that by not removing the container.
StartInv ==
  mode = "start" =>
    /\ pc \notin {"down", "await", "refresh"}
    /\ pc \in {"swarm", "start"} =>
         /\ lines = 0 /\ errors = {}
         /\ \A c \in Container : box[c] = "none" /\ procs[c] = None
    /\ lines <= 1
    /\ \A c \in Container \ stuck :
         /\ behind[c] = 0
         /\ box[c] = "up" => c \notin errors
         /\ \/ procs[c] = None
            \/ /\ procs[c] = [None EXCEPT ![1] = 1]
               /\ lines = 1 /\ box[c] # "up" /\ c \notin errors

\* A container that is about to be started again has no script under way, and if
\* it runs, it is for its own log.
AgainInv ==
  pc = "again" =>
    /\ i <= Len(Polled)
    /\ mode = "start" /\ Polled[i] \notin stuck =>
         procs[Polled[i]] = None /\ (box[Polled[i]] = "up" => Polled[i] \in dialed)

\* There is room for one more line before the containers are started.
LinesInv == pc \in {"swarm", "start", "down", "await", "refresh"} => lines < MaxStarts

\* Every peer up to the n-th, or the orderer, on every channel up to ch.
Upto(what, n, ch) == {<<what, Peers[k], c>> : k \in 1..n, c \in 1..ch}
OnChannels(what, ch) == {<<what, Orderer1, c>> : c \in 1..ch}
Channel(n, ch) == {<<"joined", Peers[k], ch>> : k \in 1..n}
Formed(ch) == Upto("joined", Len(Peers), ch) \cup OnChannels("anchors", ch)

\* A script reaches a line only when all the lines before have succeeded.
ScriptInv ==
  /\ pc = "create" => Formed(channel - 1) \subseteq done
  /\ pc = "join" =>
       /\ Formed(channel - 1) \cup Channel(i - 1, channel) \subseteq done
       /\ i <= Len(Peers) + 1
  /\ pc \in {"formed", "install", "exercise", "ready"} => Formed(Channels) \subseteq done
  /\ pc \in {"formed", "ready"} => channel = 1 /\ (pc = "formed" => i = 1)
  /\ pc = "install" =>
       /\ Upto("installed", IF channel = 1 THEN i - 1 ELSE Len(Peers), 1) \subseteq done
       /\ OnChannels("instantiated", channel - 1) \subseteq done
       /\ i <= Len(Peers) + 1
  /\ pc = "exercise" =>
       /\ Upto("installed", Len(Peers), 1) \subseteq done
       /\ OnChannels("instantiated", channel) \subseteq done
       /\ i = 1
  /\ pc = "ready" =>
       /\ Upto("installed", Len(Peers), 1) \subseteq done
       /\ OnChannels("instantiated", Channels) \subseteq done

IInv == TypeOK /\ StartInv /\ AgainInv /\ LinesInv /\ ScriptInv
=============================================================================
