----------------------------- MODULE QuorumNetwork -----------------------------
(***************************************************************************)
(* Quorum_Network: preparing the nodes, starting them one after another    *)
(* (with Raft, each one is first announced to node 0), checking that all   *)
(* are connected, killing and starting the whole network again up to three *)
(* times, and restart.                                                     *)
(*                                                                         *)
(* geth is modelled as its user sees it: a second process cannot use the   *)
(* directory of the first, and a node takes part in the Raft cluster only  *)
(* under the id the cluster gave it.  addPeer takes effect or is refused.  *)
(***************************************************************************)
EXTENDS Integers, FiniteSets

CONSTANTS
  NumNodes,    \* vm_count
  Retries,     \* complete restarts, 3 in the code
  Rounds,      \* polls of check_network, 3 in the code
  MaxFaults,   \* bound: failed commands, crashes, processes that are late
  MaxRestarts  \* bound: calls of restart

ASSUME NodesAssumption == NumNodes \in Nat \ {0}
ASSUME QuorumBoundsAssumption ==
  Retries \in Nat /\ Rounds \in Nat \ {0} /\ MaxFaults \in Nat /\ MaxRestarts \in Nat

Node == 0..(NumNodes - 1)

VARIABLES
  consensus, \* quorum_settings['consensus']
  pc,        \* the function that runs
  node,      \* its loop counter
  attempt,   \* start_network_attempt: 0 for the first, then retries
  round,     \* polls of the current check
  flags,     \* status_flags, as the set of nodes with True
  genesis,   \* nodes that were initialised with the common genesis block
  geth,      \* "down", "starting", "up" or "stopping" on each node
  runId,     \* the Raft id a node was started with
  raftId,    \* the id the cluster knows it by, 0 if it is no member
  restarts,  \* calls of restart
  refused,   \* history: an addPeer of a node that was no member was refused
  late,      \* history: the attempt (or 0) a fault has hit last
  budget     \* faults still to come

raft == <<raftId, runId>>
vars == <<consensus, pc, node, attempt, round, flags, genesis, geth, raft,
          restarts, refused, late, budget>>

Init ==
  /\ consensus \in {"raft", "ibft"}
  /\ pc = "keys"
  /\ node = 0
  /\ attempt = 0
  /\ round = 0
  /\ flags = {}
  /\ genesis = {}
  /\ geth = [n \in Node |-> "down"]
  /\ runId = [n \in Node |-> 0]
  /\ raftId = [n \in Node |-> 0]
  /\ restarts = 0
  /\ refused = FALSE
  /\ late = -1
  /\ budget = MaxFaults

Fault == budget > 0 /\ budget' = budget - 1 /\ late' = attempt
NoFault == UNCHANGED <<budget, late>>

Goto(p) == pc' = p /\ node' = 0
Raise == pc' = "failed" /\ UNCHANGED node

-----------------------------------------------------------------------------
(* Preparation                                                             *)

\* Keys, enodes and addresses: a command without output is an IndexError.
GenerateKeys ==
  /\ pc = "keys"
  /\ \/ Goto("genesis") /\ NoFault
     \/ Raise /\ Fault
  /\ UNCHANGED <<consensus, attempt, round, flags, genesis, geth, raft, restarts, refused>>

\* static-nodes.json: everybody for IBFT, the nodes up to n for Raft
StaticNodes(n) == IF consensus = "ibft" THEN Node ELSE 0..n

\* genesis.json, static-nodes.json and geth init; nobody looks at the outcome.
\* Alone in its static-nodes.json, node 0 is the first member of the cluster.
WriteGenesis ==
  /\ pc = "genesis"
  /\ \/ genesis' = Node /\ NoFault
     \/ \E n \in Node : genesis' = Node \ {n} /\ Fault
  /\ raftId' = [n \in Node |-> IF consensus = "raft" /\ n \in StaticNodes(0) THEN n + 1 ELSE 0]
  /\ Goto("tessera")
  /\ UNCHANGED <<consensus, attempt, round, flags, geth, runId, restarts, refused>>

\* start_tessera waits for all nodes (module WaitTillDone) or raises.
StartTessera ==
  /\ pc = "tessera"
  /\ \/ Goto("start") /\ NoFault
     \/ Raise /\ Fault
  /\ UNCHANGED <<consensus, attempt, round, flags, genesis, geth, raft, restarts, refused>>

-----------------------------------------------------------------------------
(* The processes                                                           *)

ComeUp(n) == geth[n] = "starting" /\ geth' = [geth EXCEPT ![n] = "up"] /\ NoFault
Die(n) == geth[n] = "stopping" /\ geth' = [geth EXCEPT ![n] = "down"] /\ NoFault
Crash(n) == geth[n] \in {"starting", "up"} /\ geth' = [geth EXCEPT ![n] = "down"] /\ Fault

GethGoesOn == \E n \in Node : ComeUp(n) \/ Die(n)
GethDies == \E n \in Node : Crash(n)

Geth ==
  /\ pc # "failed"
  /\ GethGoesOn \/ GethDies
  /\ UNCHANGED <<consensus, pc, node, attempt, round, flags, genesis, raft, restarts, refused>>

\* A command that meets a process before it got where it is expected to be
\* counts as a fault: the code sleeps after a start, but not after a kill.
Timely(tooEarly) == IF tooEarly THEN Fault ELSE NoFault

-----------------------------------------------------------------------------
(* start_network_attempt                                                   *)

\* raft.addPeer on node 0; an enode that is a member already is refused, and a
\* refusal is only written to the log.  Node 0 does not answer: IndexError.
NextId == 1 + Cardinality({n \in Node : raftId[n] # 0})

AddNode ==
  /\ pc = "start"
  /\ consensus = "raft"
  /\ node > 0
  /\ IF geth[0] = "up"
     THEN /\ \/ /\ raftId' = IF raftId[node] = 0
                             THEN [raftId EXCEPT ![node] = NextId]
                             ELSE raftId
                /\ UNCHANGED refused /\ NoFault
             \/ /\ raftId[node] = 0
                /\ refused' = TRUE
                /\ UNCHANGED raftId /\ Fault
          /\ pc' = "startnode" /\ UNCHANGED node
     ELSE /\ Raise
          /\ UNCHANGED <<raftId, refused>>
          /\ Timely(geth[0] = "starting")
  /\ UNCHANGED <<consensus, attempt, round, flags, genesis, geth, runId, restarts>>

FromZero(n) == n
JoinId(n) == n + 1

\* The old process still holds the directory: the new one exits.
StartNode ==
  /\ \/ pc = "start" /\ (consensus = "ibft" \/ node = 0)
     \/ pc = "startnode"
  /\ IF geth[node] = "down"
     THEN /\ geth' = [geth EXCEPT ![node] = "starting"]
          /\ runId' = [runId EXCEPT ![node] = JoinId(node)]
          /\ NoFault
     ELSE UNCHANGED <<geth, runId>> /\ Timely(geth[node] = "stopping")
  /\ IF node + 1 < NumNodes THEN pc' = "start" /\ node' = node + 1 ELSE Goto("check")
  /\ flags' = {}
  /\ round' = 0
  /\ UNCHANGED <<consensus, attempt, genesis, raftId, restarts, refused>>

-----------------------------------------------------------------------------
(* check_network                                                           *)

Joined(n) ==
  /\ geth[n] = "up"
  /\ n \in genesis
  /\ consensus = "raft" => raftId[n] = runId[n]

PeersOf(n) == {m \in Node \ {n} : Joined(n) /\ Joined(m)}

Answers(n) == geth[n] = "up"
FullyConnected(n) == Cardinality(PeersOf(n)) = NumNodes - 1 /\ geth[n] = "up"

\* while False in status_flags and timer < 3
BeginRound ==
  /\ pc = "check"
  /\ node = 0
  /\ flags # Node /\ round < Rounds
  /\ round' = round + 1
  /\ Timely(round' = Rounds /\ \E n \in Node : geth[n] = "starting")
  /\ pc' = "poll"
  /\ UNCHANGED <<consensus, node, attempt, flags, genesis, geth, raft, restarts, refused>>

\* An exception of the command counts like a node that is not connected.
PollNode ==
  /\ pc = "poll"
  /\ \/ /\ flags' = IF FullyConnected(node) THEN flags \cup {node} ELSE flags
        /\ NoFault
     \/ UNCHANGED flags /\ node \notin flags /\ Fault
  /\ IF node + 1 < NumNodes THEN node' = node + 1 /\ UNCHANGED pc ELSE Goto("check")
  /\ UNCHANGED <<consensus, attempt, round, genesis, geth, raft, restarts, refused>>

-----------------------------------------------------------------------------
(* start_network                                                           *)

\* np.where returns a tuple with one array, and a list indexed by an array is a
\* TypeError that start_network_attempt swallows: the failed nodes are not
\* started again.
CheckedEarly == pc = "check" /\ node = 0 /\ (flags = Node \/ round + 1 >= Rounds)
Checked == pc = "check" /\ (flags = Node \/ round = Rounds)

OneRetryMore == attempt <= Retries
RetriesLeft == attempt < Retries

NetworkUp ==
  /\ Checked
  /\ flags = Node
  /\ Goto("unlock")
  /\ NoFault
  /\ UNCHANGED <<consensus, attempt, round, flags, genesis, geth, raft, restarts, refused>>

NotCounted == attempt' = attempt
CountAttempt == attempt' = attempt + 1

Retry ==
  /\ Checked
  /\ flags # Node
  /\ RetriesLeft
  /\ CountAttempt
  /\ Goto("kill")
  /\ NoFault
  /\ UNCHANGED <<consensus, round, flags, genesis, geth, raft, restarts, refused>>

GiveUp ==
  /\ Checked
  /\ flags # Node
  /\ ~RetriesLeft
  /\ Raise
  /\ NoFault
  /\ UNCHANGED <<consensus, attempt, round, flags, genesis, geth, raft, restarts, refused>>

\* kill_node: a signal to geth and the pool of transactions.  The directories
\* that it removes when geth does not run are looked for in the wrong place.
Killed(n) == geth[n] \in {"starting", "up"}

KillNode ==
  /\ pc = "kill"
  /\ geth' = IF Killed(node) THEN [geth EXCEPT ![node] = "stopping"] ELSE geth
  /\ IF node + 1 < NumNodes THEN node' = node + 1 /\ UNCHANGED pc ELSE Goto("start")
  /\ NoFault
  /\ UNCHANGED <<consensus, attempt, round, flags, genesis, raft, restarts, refused>>

\* No accounts from a node that does not run: IndexError.
UnlockNode ==
  /\ pc = "unlock"
  /\ IF geth[node] # "up"
     THEN Raise
     ELSE IF node + 1 < NumNodes THEN node' = node + 1 /\ UNCHANGED pc ELSE Goto("running")
  /\ NoFault
  /\ UNCHANGED <<consensus, attempt, round, flags, genesis, geth, raft, restarts, refused>>

Restart ==
  /\ pc = "running"
  /\ restarts < MaxRestarts
  /\ restarts' = restarts + 1
  /\ attempt' = 0
  /\ late' = -1
  /\ Goto("kill")
  /\ UNCHANGED <<consensus, round, flags, genesis, geth, raft, refused, budget>>

Over == pc \in {"running", "failed"} /\ UNCHANGED vars

Operator ==
  \/ GenerateKeys \/ WriteGenesis \/ StartTessera \/ AddNode \/ StartNode
  \/ BeginRound \/ PollNode \/ NetworkUp \/ Retry \/ GiveUp \/ KillNode \/ UnlockNode

Next == Operator \/ Restart \/ Geth \/ Over

Spec == Init /\ [][Next]_vars

\* The operator's process goes on, and processes that were told to start or to
\* stop do so.
FairSpec ==
  /\ Spec
  /\ WF_vars(Operator)
  /\ WF_vars(GethGoesOn /\ Geth)

-----------------------------------------------------------------------------
(* Properties                                                              *)

TypeOK ==
  /\ consensus \in {"raft", "ibft"}
  /\ pc \in {"keys", "genesis", "tessera", "start", "startnode", "check", "poll",
             "kill", "unlock", "running", "failed"}
  /\ node \in Node
  /\ attempt \in 0..Retries
  /\ round \in 0..Rounds
  /\ flags \subseteq Node
  /\ genesis \subseteq Node
  /\ geth \in [Node -> {"down", "starting", "up", "stopping"}]
  /\ runId \in [Node -> 0..NumNodes]
  /\ raftId \in [Node -> 0..NumNodes]
  /\ restarts \in 0..MaxRestarts
  /\ refused \in BOOLEAN
  /\ late \in -1..Retries
  /\ budget \in 0..MaxFaults

\* The id node + 1 that a node joins with is the one the cluster gave it, over
\* retries and restarts, nodes that die, starts that break off and processes that
\* are late, as long as the cluster has refused no new node
\* (Quorum_Network.py:370-399).
IdsAgree ==
  ~refused /\ consensus = "raft" =>
    \A n \in Node : runId[n] # 0 => runId[n] = raftId[n]

\* "Quorum network is running now" is right: every node that has not died since
\* is connected to all the others (Quorum_Network.py:451-492, 297-321).
RunningConnected ==
  pc \in {"unlock", "running"} =>
    \A n \in Node : geth[n] = "up" => Joined(n)

Misnumbered == consensus = "raft" /\ \E n \in Node : runId[n] \notin {0, raftId[n]}

\* A complete restart heals what went wrong before: the start is given up only
\* because of a fault in its last attempt, or of damage that no restart repairs,
\* a missing genesis block or Raft ids that no longer agree
\* (Quorum_Network.py:297-321).
RestartHeals ==
  pc = "failed" => late = attempt \/ genesis # Node \/ Misnumbered

\* Starting ends, whatever fails (Quorum_Network.py:303, 456).
QuorumStartEnds == []<>(pc \in {"running", "failed"})
=============================================================================
