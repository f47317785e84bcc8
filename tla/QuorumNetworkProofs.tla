-------------------------- MODULE QuorumNetworkProofs --------------------------
(***************************************************************************)
(* Proofs about QuorumNetwork, for any number of nodes, retries, polls,    *)
(* faults and restarts.                                                    *)
(***************************************************************************)
EXTENDS QuorumNetworkInv, FiniteSetTheorems, TLAPS

LEMMA NodeFacts ==
  /\ NumNodes \in Nat \ {0} /\ 0 \in Node /\ Node \subseteq Nat
  /\ \A n \in Node : n + 1 \in 1..NumNodes
  /\ \A n \in Node : n + 1 < NumNodes => n + 1 \in Node
  /\ \A n \in Node : n > 0 => n - 1 \in Node
  /\ IsFiniteSet(Node) /\ Cardinality(Node) = NumNodes
<1>1. NumNodes \in Nat \ {0}
  BY NodesAssumption
<1>2. IsFiniteSet(Node) /\ Cardinality(Node) = NumNodes
  BY <1>1, FS_Interval DEF Node
<1> QED
  BY <1>1, <1>2 DEF Node

Members == {n \in Node : raftId[n] # 0}

LEMMA MembersFinite ==
  /\ IsFiniteSet(Members) /\ Cardinality(Members) \in 0..NumNodes
  /\ \A m \in Node : raftId[m] = 0 => Cardinality(Members) < NumNodes
<1>1. IsFiniteSet(Members) /\ Cardinality(Members) \in Nat /\ Cardinality(Members) <= NumNodes
  BY NodeFacts, FS_Subset, FS_CardinalityType DEF Members
<1>2. ASSUME NEW m \in Node, raftId[m] = 0
      PROVE  Cardinality(Members) < NumNodes
  <2>1. m \notin Members /\ Members \subseteq Node
    BY <1>2 DEF Members
  <2>2. Cardinality(Members) # Cardinality(Node)
    BY <2>1, NodeFacts, FS_Subset
  <2> QED
    BY <1>1, <2>2, NodeFacts
<1> QED
  BY <1>1, <1>2, NodeFacts

\* The next id, and which one it is when the nodes before are the members.
LEMMA NextIds ==
  ASSUME NEW n \in Node, raftId[n] = 0
  PROVE  /\ NextId \in 0..NumNodes
         /\ (\A m \in Node : raftId[m] # 0 <=> m < n) => NextId = n + 1
<1>1. NextId = 1 + Cardinality(Members)
  BY DEF NextId, Members
<1>2. NextId \in 0..NumNodes
  BY <1>1, MembersFinite, NodeFacts
<1>3. ASSUME \A m \in Node : raftId[m] # 0 <=> m < n
      PROVE  NextId = n + 1
  <2>1. Members = 0..(n - 1)
    BY <1>3, NodeFacts DEF Members, Node
  <2>2. n - 1 \in Int /\ n \in Nat
    BY NodeFacts
  <2>3. Cardinality(0..(n - 1)) = n
    BY <2>2, FS_Interval
  <2> QED
    BY <1>1, <2>1, <2>2, <2>3
<1> QED
  BY <1>2, <1>3

-----------------------------------------------------------------------------
(* The invariant                                                           *)

LEMMA Initially == Init => IInv
<1> SUFFICES ASSUME Init PROVE IInv
  OBVIOUS
<1>1. TypeOK
  <2>1. refused \in BOOLEAN
    BY DEF Init
  <2> QED
    BY <2>1, NodeFacts, QuorumBoundsAssumption DEF Init, TypeOK
<1>2. ProcessInv
  BY NodeFacts DEF Init, ProcessInv
<1>3. NumberedInv
  BY NodeFacts DEF Init, NumberedInv
<1> QED
  BY <1>1, <1>2, <1>3 DEF IInv

LEMMA FaultTyped ==
  ASSUME TypeOK, Fault \/ NoFault
  PROVE  budget' \in 0..MaxFaults /\ late' \in -1..Retries
BY QuorumBoundsAssumption DEF TypeOK, Fault, NoFault

\* The steps that leave the processes, the ids and the members alone.
LEMMA LoopKeeps ==
  ASSUME IInv, BeginRound \/ PollNode \/ NetworkUp \/ Retry \/ GiveUp \/ UnlockNode \/ Restart
  PROVE  IInv'
<1>1. /\ UNCHANGED <<consensus, genesis, geth, raft, refused>>
      /\ pc \in {"check", "poll", "unlock", "running"}
      /\ pc' \in {"check", "poll", "kill", "unlock", "running", "failed"}
  BY DEF BeginRound, PollNode, NetworkUp, Retry, GiveUp, UnlockNode, Restart, Checked, Goto, Raise
<1>2. budget' \in 0..MaxFaults /\ late' \in -1..Retries
  BY FaultTyped, QuorumBoundsAssumption DEF IInv, TypeOK, BeginRound, PollNode, NetworkUp, Retry, GiveUp, UnlockNode,
     Restart, Timely, NoFault
<1>3. node' \in Node
  BY NodeFacts DEF IInv, TypeOK, BeginRound, PollNode, NetworkUp, Retry, GiveUp, UnlockNode,
     Restart, Goto, Raise
<1>4. attempt' \in 0..Retries /\ round' \in 0..Rounds /\ restarts' \in 0..MaxRestarts
  <2>1. round' \in 0..Rounds
    BY QuorumBoundsAssumption DEF IInv, TypeOK, BeginRound, PollNode, NetworkUp, Retry, GiveUp,
       UnlockNode, Restart
  <2>2. attempt' \in 0..Retries
    BY QuorumBoundsAssumption DEF IInv, TypeOK, BeginRound, PollNode, NetworkUp, Retry, GiveUp,
       UnlockNode, Restart, RetriesLeft, CountAttempt
  <2>3. restarts' \in 0..MaxRestarts
    BY QuorumBoundsAssumption DEF IInv, TypeOK, BeginRound, PollNode, NetworkUp, Retry, GiveUp,
       UnlockNode, Restart
  <2> QED
    BY <2>1, <2>2, <2>3
<1>5. flags' \subseteq Node
  BY DEF IInv, TypeOK, BeginRound, PollNode, NetworkUp, Retry, GiveUp, UnlockNode, Restart
<1>6. TypeOK'
  BY <1>1, <1>2, <1>3, <1>4, <1>5 DEF IInv, TypeOK, raft
<1>7. ProcessInv'
  BY <1>1 DEF IInv, ProcessInv, raft
<1>8. NumberedInv'
  BY <1>1 DEF IInv, NumberedInv, raft
<1> QED
  BY <1>6, <1>7, <1>8 DEF IInv

\* Nothing runs while the nodes are prepared.
LEMMA PreparationKeeps ==
  ASSUME IInv, GenerateKeys \/ WriteGenesis \/ StartTessera
  PROVE  IInv'
<1>1. /\ UNCHANGED <<consensus, attempt, round, flags, geth, runId, restarts, refused>>
      /\ pc \in {"keys", "genesis", "tessera"}
      /\ node' \in Node
  BY NodeFacts DEF IInv, TypeOK, GenerateKeys, WriteGenesis, StartTessera, Goto, Raise, raft
<1>2. Fault \/ NoFault
  BY DEF GenerateKeys, WriteGenesis, StartTessera
<1>3. /\ pc' \in {"genesis", "tessera", "start", "failed"}
      /\ pc = "keys" => pc' \in {"genesis", "failed"}
      /\ pc \in {"genesis", "tessera"} => pc' # "genesis"
  BY DEF GenerateKeys, WriteGenesis, StartTessera, Goto, Raise
<1>4. genesis' \subseteq Node
  BY DEF IInv, TypeOK, GenerateKeys, WriteGenesis, StartTessera
<1>5. /\ raftId' \in [Node -> 0..NumNodes]
      /\ \/ UNCHANGED raftId /\ pc # "genesis"
         \/ /\ pc = "genesis"
            /\ consensus = "raft" => raftId' = [n \in Node |-> IF n = 0 THEN 1 ELSE 0]
  <2>1. CASE WriteGenesis
    <3>1. raftId' \in [Node -> 0..NumNodes]
      BY <2>1, NodeFacts DEF WriteGenesis
    <3>2. ASSUME consensus = "raft"
          PROVE  raftId' = [n \in Node |-> IF n = 0 THEN 1 ELSE 0]
      <4>1. \A n \in Node : n \in StaticNodes(0) <=> n = 0
        BY <3>2, NodeFacts DEF StaticNodes
      <4>2. raftId' = [n \in Node |-> IF n \in StaticNodes(0) THEN n + 1 ELSE 0]
        BY <2>1, <3>2 DEF WriteGenesis
      <4>3. \A n \in Node : (IF n \in StaticNodes(0) THEN n + 1 ELSE 0) = (IF n = 0 THEN 1 ELSE 0)
        BY <4>1
      <4> QED
        BY <4>2, <4>3
    <3> QED
      BY <2>1, <3>1, <3>2 DEF WriteGenesis
  <2>2. CASE GenerateKeys \/ StartTessera
    BY <2>2 DEF IInv, TypeOK, GenerateKeys, StartTessera, raft
  <2> QED
    BY <2>1, <2>2
<1>6. TypeOK'
  BY <1>1, <1>2, <1>3, <1>4, <1>5, FaultTyped DEF IInv, TypeOK
<1>7. ProcessInv'
  BY <1>1, <1>3 DEF IInv, ProcessInv
<1>8. NumberedInv'
  <2> SUFFICES ASSUME ~refused, consensus = "raft" PROVE NumberedInv'
    BY <1>1 DEF NumberedInv
  <2>2. \A n \in Node : runId'[n] = 0
    BY <1>1 DEF IInv, ProcessInv
  <2>3. pc' = "start" => node' = 0
    BY <1>1 DEF GenerateKeys, WriteGenesis, StartTessera, Goto, Raise
  <2>4. CASE pc = "genesis"
    <3>1. \A n \in Node : raftId'[n] = IF n = 0 THEN 1 ELSE 0
      BY <1>5, <2>4
    <3>2. \A m, n \in Node : m < n /\ raftId'[n] # 0 => raftId'[m] # 0
      BY <3>1, NodeFacts
    <3> QED
      BY <1>3, <2>2, <2>3, <3>1, <3>2, NodeFacts DEF NumberedInv
  <2>5. CASE pc # "genesis"
    <3>1. UNCHANGED raftId /\ (pc' \notin {"keys", "genesis", "failed"} => pc = "tessera")
      BY <1>3, <1>5, <2>5 DEF GenerateKeys, WriteGenesis, StartTessera, Goto, Raise
    <3> QED
      BY <1>1, <1>3, <2>2, <2>3, <2>5, <3>1 DEF IInv, NumberedInv
  <2> QED
    BY <2>4, <2>5
<1> QED
  BY <1>6, <1>7, <1>8 DEF IInv

\* A process gets up, ends or dies.
LEMMA GethKeeps ==
  ASSUME IInv, Geth
  PROVE  IInv'
<1>1. /\ UNCHANGED <<consensus, pc, node, attempt, round, flags, genesis, raft, restarts,
                     refused>>
      /\ \E n \in Node : ComeUp(n) \/ Die(n) \/ Crash(n)
  BY DEF Geth, GethGoesOn, GethDies
<1>2. PICK n \in Node : ComeUp(n) \/ Die(n) \/ Crash(n)
  BY <1>1
<1>3. /\ geth' \in [Node -> {"down", "starting", "up", "stopping"}]
      /\ geth[n] # "down"
      /\ \A m \in Node : geth'[m] # "down" => geth[m] # "down"
  BY <1>2 DEF IInv, TypeOK, ComeUp, Die, Crash
<1>4. budget' \in 0..MaxFaults /\ late' \in -1..Retries
  BY <1>2, FaultTyped DEF IInv, ComeUp, Die, Crash
<1>5. TypeOK'
  BY <1>1, <1>3, <1>4 DEF IInv, TypeOK, raft
<1>6. ProcessInv'
  BY <1>1, <1>3 DEF IInv, ProcessInv, raft
<1>7. NumberedInv'
  BY <1>1 DEF IInv, NumberedInv, raft
<1> QED
  BY <1>5, <1>6, <1>7 DEF IInv

\* kill_node ends processes; it starts none.
LEMMA KillKeeps ==
  ASSUME IInv, KillNode
  PROVE  IInv'
<1>1. /\ UNCHANGED <<consensus, attempt, round, flags, genesis, raft, restarts, refused, budget,
                     late>>
      /\ pc = "kill" /\ pc' \in {"kill", "start"} /\ node' \in Node
      /\ pc' = "start" => node' = 0
  BY NodeFacts DEF IInv, TypeOK, KillNode, Goto, NoFault
<1>2. /\ geth' \in [Node -> {"down", "starting", "up", "stopping"}]
      /\ \A m \in Node : geth'[m] # "down" => geth[m] # "down"
  BY DEF IInv, TypeOK, KillNode, Killed
<1>3. TypeOK'
  BY <1>1, <1>2 DEF IInv, TypeOK, raft
<1>4. ProcessInv'
  BY <1>1, <1>2 DEF IInv, ProcessInv, raft
<1>5. NumberedInv'
  BY <1>1 DEF IInv, NumberedInv, raft
<1> QED
  BY <1>3, <1>4, <1>5 DEF IInv

\* raft.addPeer: the next id goes to the node that is announced.
LEMMA AddNodeKeeps ==
  ASSUME IInv, AddNode
  PROVE  IInv'
<1>1. /\ UNCHANGED <<consensus, attempt, round, flags, genesis, geth, runId, restarts, node>>
      /\ pc = "start" /\ node > 0 /\ node \in Node /\ pc' \in {"startnode", "failed"}
      /\ Fault \/ NoFault
      /\ refused' \in {refused, TRUE}
      /\ \/ raftId' = [raftId EXCEPT ![node] = NextId] /\ raftId[node] = 0
         \/ UNCHANGED raftId /\ (pc' = "startnode" => raftId[node] # 0 \/ refused' = TRUE)
  BY DEF IInv, TypeOK, AddNode, Raise, Timely
<1>2. raftId' \in [Node -> 0..NumNodes]
  BY <1>1, NextIds DEF IInv, TypeOK
<1>3. TypeOK'
  BY <1>1, <1>2, FaultTyped DEF IInv, TypeOK
<1>4. ProcessInv'
  BY <1>1 DEF IInv, ProcessInv
<1>5. NumberedInv'
  <2> SUFFICES ASSUME refused' # TRUE, ~refused', consensus = "raft" PROVE NumberedInv'
    BY <1>1 DEF NumberedInv, IInv, TypeOK
  <2>1. ~refused
    BY <1>1 DEF IInv, TypeOK
  <2>2. /\ \A n \in Node : raftId[n] \in {0, n + 1}
        /\ \A m, n \in Node : m < n /\ raftId[n] # 0 => raftId[m] # 0
        /\ raftId[0] # 0 /\ raftId[node - 1] # 0
        /\ \A n \in Node : runId[n] # 0 => raftId[n] # 0
    BY <1>1, <2>1 DEF IInv, NumberedInv
  <2>3. CASE raftId' = [raftId EXCEPT ![node] = NextId] /\ raftId[node] = 0
    <3>1. \A m \in Node : raftId[m] # 0 <=> m < node
      <4>1. \A m \in Node : m < node => m = node - 1 \/ m < node - 1
        BY <1>1, NodeFacts
      <4>2. \A m \in Node : m < node => raftId[m] # 0
        BY <1>1, <2>2, <4>1, NodeFacts
      <4>3. \A m \in Node : ~(m < node) => raftId[m] = 0
        BY <1>1, <2>2, <2>3, NodeFacts
      <4> QED
        BY <4>2, <4>3
    <3>2. NextId = node + 1 /\ node + 1 # 0
      BY <1>1, <2>3, <3>1, NextIds, NodeFacts
    <3>3. \A n \in Node : raftId'[n] = IF n = node THEN n + 1 ELSE raftId[n]
      BY <2>3, <3>2 DEF IInv, TypeOK
    <3>4. \A m, n \in Node : m < n /\ raftId'[n] # 0 => raftId'[m] # 0
      BY <1>1, <2>2, <3>1, <3>3, NodeFacts
    <3>5. \A n \in Node : raftId[n] # 0 => raftId'[n] # 0
      BY <2>3, <3>3
    <3> QED
      BY <1>1, <2>2, <3>2, <3>3, <3>4, <3>5, NodeFacts DEF NumberedInv
  <2>4. CASE UNCHANGED raftId /\ (pc' = "startnode" => raftId[node] # 0)
    BY <1>1, <2>2, <2>4 DEF NumberedInv
  <2> QED
    BY <1>1, <2>1, <2>3, <2>4
<1> QED
  BY <1>3, <1>4, <1>5 DEF IInv

LEMMA StartNodeKeeps ==
  ASSUME IInv, StartNode
  PROVE  IInv'
<1>1. /\ UNCHANGED <<consensus, attempt, genesis, raftId, restarts, refused>>
      /\ flags' = {} /\ round' = 0 /\ node \in Node
      /\ \/ pc = "start" /\ (consensus = "ibft" \/ node = 0)
         \/ pc = "startnode"
      /\ \/ /\ geth' = [geth EXCEPT ![node] = "starting"]
            /\ runId' = [runId EXCEPT ![node] = node + 1]
         \/ UNCHANGED <<geth, runId>>
      /\ \/ node + 1 < NumNodes /\ pc' = "start" /\ node' = node + 1
         \/ pc' = "check" /\ node' = 0
      /\ Fault \/ NoFault
  BY DEF IInv, TypeOK, StartNode, JoinId, Goto, Timely
<1>2. node' \in Node /\ node + 1 \in 0..NumNodes
  BY <1>1, NodeFacts
<1>3. /\ geth' \in [Node -> {"down", "starting", "up", "stopping"}]
      /\ runId' \in [Node -> 0..NumNodes]
  BY <1>1, <1>2 DEF IInv, TypeOK
<1>4. TypeOK'
  BY <1>1, <1>2, <1>3, FaultTyped, QuorumBoundsAssumption DEF IInv, TypeOK
<1>5. ProcessInv'
  BY <1>1 DEF IInv, TypeOK, ProcessInv
<1>6. NumberedInv'
  <2> SUFFICES ASSUME ~refused, consensus = "raft" PROVE NumberedInv'
    BY <1>1 DEF NumberedInv
  <2>1. ~refused
    OBVIOUS
  <2>2. raftId[node] # 0
    BY <1>1, <2>1 DEF IInv, NumberedInv
  <2>3. \A n \in Node : runId'[n] # 0 => raftId[n] # 0
    BY <1>1, <2>1, <2>2 DEF IInv, TypeOK, NumberedInv
  <2>4. pc' = "start" => node' - 1 = node
    BY <1>1, NodeFacts
  <2> QED
    BY <1>1, <2>1, <2>2, <2>3, <2>4 DEF IInv, NumberedInv
<1> QED
  BY <1>4, <1>5, <1>6 DEF IInv

LEMMA Unchanged ==
  ASSUME IInv, UNCHANGED vars
  PROVE  IInv'
BY DEF vars, raft, IInv, TypeOK, ProcessInv, NumberedInv

LEMMA Step == IInv /\ [Next]_vars => IInv'
BY LoopKeeps, PreparationKeeps, GethKeeps, KillKeeps, AddNodeKeeps, StartNodeKeeps, Unchanged
DEF Next, Operator, Over

\* The strengthened invariant is inductive.
THEOREM Invariance == Spec => []IInv
BY Initially, Step, PTL DEF Spec

-----------------------------------------------------------------------------
(* What the flags tell                                                     *)

\* A node that counts its peers, and finds them all, takes part itself.
LEMMA ConnectedTakesPart ==
  ASSUME NumNodes > 1, NEW n \in Node, FullyConnected(n)
  PROVE  Joined(n)
<1>1. Cardinality(PeersOf(n)) = NumNodes - 1 /\ NumNodes - 1 # 0
  BY NodeFacts DEF FullyConnected
<1>2. PeersOf(n) # {}
  BY <1>1, FS_EmptySet
<1> QED
  BY <1>2 DEF PeersOf

\* An id in the cluster is never taken back or changed.
LEMMA SeenStep ==
  ASSUME NumNodes > 1, IInv, SeenInv, [Next]_vars
  PROVE  SeenInv'
<1>1. CASE GenerateKeys \/ WriteGenesis \/ StartTessera
  <2>1. flags' = {} /\ pc' \notin {"unlock", "running"}
    BY <1>1 DEF IInv, ProcessInv, GenerateKeys, WriteGenesis, StartTessera, Goto, Raise
  <2> QED
    BY <2>1 DEF SeenInv
<1>2. CASE AddNode
  <2>1. /\ UNCHANGED <<consensus, flags, genesis>> /\ pc' \notin {"unlock", "running"}
        /\ \/ raftId' = [raftId EXCEPT ![node] = NextId] /\ raftId[node] = 0
           \/ UNCHANGED raftId
    BY <1>2 DEF AddNode, Raise
  <2>2. \A n \in Node : raftId[n] # 0 => raftId'[n] = raftId[n]
    BY <2>1 DEF IInv, TypeOK
  <2>3. \A n \in flags : n \in Node /\ n + 1 # 0
    BY NodeFacts DEF IInv, TypeOK
  <2> QED
    BY <2>1, <2>2, <2>3 DEF SeenInv
<1>3. CASE StartNode
  <2>1. flags' = {} /\ pc' \notin {"unlock", "running"}
    BY <1>3 DEF StartNode, Goto
  <2> QED
    BY <2>1 DEF SeenInv
<1>4. CASE PollNode
  <2>1. /\ UNCHANGED <<consensus, genesis, raftId>> /\ pc' \notin {"unlock", "running"}
        /\ node \in Node
        /\ (flags' = flags \/ (FullyConnected(node) /\ flags' = flags \cup {node}))
    BY <1>4 DEF IInv, TypeOK, PollNode, Goto, raft
  <2>2. FullyConnected(node) => node \in genesis /\ (consensus = "raft" => raftId[node] = node + 1)
    BY <2>1, ConnectedTakesPart DEF Joined, IInv, ProcessInv
  <2> QED
    BY <2>1, <2>2 DEF SeenInv
<1>5. CASE \/ BeginRound \/ NetworkUp \/ Retry \/ GiveUp \/ KillNode \/ UnlockNode
           \/ Restart \/ Geth \/ UNCHANGED vars
  <2>1. UNCHANGED <<consensus, flags, genesis, raftId>>
    BY <1>5 DEF BeginRound, NetworkUp, Retry, GiveUp, KillNode, UnlockNode, Restart, Geth,
       vars, raft
  <2>2. pc' \in {"unlock", "running"} => pc \in {"unlock", "running"} \/ flags = Node
    BY <1>5 DEF BeginRound, NetworkUp, Retry, GiveUp, KillNode, UnlockNode, Restart, Geth,
       vars, Goto, Raise
  <2> QED
    BY <2>1, <2>2 DEF SeenInv
<1> QED
  BY <1>1, <1>2, <1>3, <1>4, <1>5 DEF Next, Operator, Over

-----------------------------------------------------------------------------
(* What a complete restart heals                                           *)

\* Faults hit the current attempt.
LEMMA LateStep ==
  ASSUME Fault \/ NoFault, UNCHANGED attempt
  PROVE  late' # attempt' => NoFault /\ late # attempt
BY DEF Fault, NoFault

\* What an attempt has started runs on until a fault hits it.
LEMMA StartedStep ==
  ASSUME IInv, StartedInv, [Next]_vars
  PROVE  StartedInv'
<1>1. CASE GenerateKeys \/ WriteGenesis \/ StartTessera
  <2>1. pc' \in {"genesis", "tessera", "start", "failed"} /\ (pc' = "start" => node' = 0)
    BY <1>1 DEF GenerateKeys, WriteGenesis, StartTessera, Goto, Raise
  <2>2. \A n \in Node : ~Started(n)'
    BY <2>1, NodeFacts DEF Started, Node
  <2> QED
    BY <2>1, <2>2 DEF StartedInv
<1>2. CASE AddNode
  <2>1. /\ UNCHANGED <<attempt, geth, node>> /\ pc = "start"
        /\ pc' \in {"startnode", "failed"} /\ (Fault \/ NoFault)
    BY <1>2 DEF AddNode, Raise, Timely
  <2>2. \A n \in Node : Started(n)' => Started(n)
    BY <2>1 DEF Started
  <2> QED
    BY <2>1, <2>2, LateStep DEF StartedInv
<1>3. CASE StartNode
  <2> SUFFICES ASSUME late' # attempt' PROVE StartedInv'
    BY DEF StartedInv
  <2>1. /\ UNCHANGED attempt /\ (Fault \/ NoFault) /\ flags' = {} /\ node \in Node
        /\ pc \in {"start", "startnode"} /\ pc' \in {"start", "check"}
        /\ pc' = "start" => node' = node + 1
        /\ pc' = "check" => ~(node + 1 < NumNodes)
    BY <1>3 DEF IInv, TypeOK, StartNode, Goto, Timely
  <2>2. NoFault /\ late # attempt
    BY <2>1, LateStep
  <2>3. ~(geth[node] = "stopping")
    BY <1>3, <2>2 DEF StartNode, Timely, Fault, NoFault, IInv, TypeOK
  <2>4. geth'[node] \in {"starting", "up"} /\ \A n \in Node \ {node} : geth'[n] = geth[n]
    BY <1>3, <2>1, <2>3 DEF StartNode, IInv, TypeOK
  <2>5. \A n \in Node : Started(n)' => n = node \/ n < node
    BY <2>1, NodeFacts DEF Started, Node
  <2>6. \A n \in Node : n < node => geth[n] \in {"starting", "up"}
    BY <2>1, <2>2 DEF StartedInv, Started
  <2>7. \A n \in Node : Started(n)' => geth'[n] \in {"starting", "up"}
    BY <2>4, <2>5, <2>6
  <2> QED
    BY <2>1, <2>7 DEF StartedInv
<1>4. CASE BeginRound
  <2> SUFFICES ASSUME late' # attempt' PROVE StartedInv'
    BY DEF StartedInv
  <2>1. /\ UNCHANGED <<attempt, flags, geth>> /\ pc = "check" /\ pc' = "poll"
        /\ Fault \/ NoFault
        /\ round' = Rounds /\ (\E n \in Node : geth[n] = "starting") => Fault
    BY <1>4 DEF BeginRound, Timely
  <2>2. NoFault /\ late # attempt
    BY <2>1, LateStep
  <2>3. /\ \A n \in Node : geth[n] \in {"starting", "up"}
        /\ \A n \in flags : geth[n] = "up"
    BY <2>1, <2>2 DEF StartedInv, Started
  <2>4. round' = Rounds => \A n \in Node : geth[n] = "up"
    BY <2>1, <2>2, <2>3 DEF Fault, NoFault, IInv, TypeOK
  <2> QED
    BY <2>1, <2>3, <2>4 DEF StartedInv, Started
<1>5. CASE PollNode
  <2> SUFFICES ASSUME late' # attempt' PROVE StartedInv'
    BY DEF StartedInv
  <2>1. /\ UNCHANGED <<attempt, geth, round>> /\ pc = "poll" /\ pc' \in {"check", "poll"}
        /\ Fault \/ NoFault
        /\ (flags' = flags \/ (FullyConnected(node) /\ flags' = flags \cup {node}))
    BY <1>5 DEF PollNode, Goto
  <2>2. late # attempt
    BY <2>1, LateStep
  <2>3. \A n \in flags' : geth[n] = "up"
    BY <2>1, <2>2 DEF StartedInv, FullyConnected
  <2> QED
    BY <2>1, <2>2, <2>3 DEF StartedInv, Started
<1>6. CASE NetworkUp \/ UnlockNode
  <2> SUFFICES ASSUME late' # attempt' PROVE StartedInv'
    BY DEF StartedInv
  <2>1. /\ UNCHANGED <<attempt, geth, flags, late>> /\ pc \in {"check", "unlock"}
        /\ pc' \in {"unlock", "running", "failed"}
    BY <1>6 DEF NetworkUp, UnlockNode, Checked, Goto, Raise, NoFault
  <2> QED
    BY <2>1 DEF StartedInv, Started
<1>7. CASE Retry \/ GiveUp \/ KillNode \/ Restart
  <2>1. pc' \in {"kill", "start", "failed"} /\ (pc' = "start" => node' = 0)
    BY <1>7 DEF Retry, GiveUp, KillNode, Restart, Goto, Raise
  <2>2. \A n \in Node : ~Started(n)'
    BY <2>1, NodeFacts DEF Started, Node
  <2> QED
    BY <2>1, <2>2 DEF StartedInv
<1>8. CASE Geth
  <2> SUFFICES ASSUME late' # attempt' PROVE StartedInv'
    BY DEF StartedInv
  <2>1. /\ UNCHANGED <<pc, node, attempt, round, flags>>
        /\ \E n \in Node : ComeUp(n) \/ Die(n) \/ Crash(n)
    BY <1>8 DEF Geth, GethGoesOn, GethDies
  <2>2. PICK n \in Node : ComeUp(n) \/ Die(n) \/ Crash(n)
    BY <2>1
  <2>3. NoFault /\ late # attempt
    BY <2>1, <2>2, LateStep DEF ComeUp, Die, Crash
  <2>4. ~Crash(n)
    BY <2>1, <2>3 DEF Crash, Fault, NoFault, IInv, TypeOK
  <2>5. \A m \in Node : /\ geth[m] \in {"starting", "up"} => geth'[m] \in {"starting", "up"}
                        /\ geth[m] = "up" => geth'[m] = "up"
    BY <2>2, <2>4 DEF ComeUp, Die, IInv, TypeOK
  <2>6. (\A m \in Node : Started(m)' <=> Started(m)) /\ flags \subseteq Node
    BY <2>1 DEF Started, IInv, TypeOK
  <2>7. \A m \in Node : Started(m)' => geth'[m] \in {"starting", "up"}
    BY <2>3, <2>5, <2>6 DEF StartedInv
  <2>8. \A m \in flags : pc \in {"check", "poll", "unlock"} => geth'[m] = "up"
    BY <2>3, <2>5, <2>6 DEF StartedInv
  <2>9. pc = "poll" /\ round = Rounds => \A m \in Node : geth'[m] = "up"
    BY <2>3, <2>5 DEF StartedInv
  <2> QED
    BY <2>1, <2>7, <2>8, <2>9 DEF StartedInv
<1>9. CASE UNCHANGED vars
  BY <1>9 DEF vars, StartedInv, Started
<1> QED
  BY <1>1, <1>2, <1>3, <1>4, <1>5, <1>6, <1>7, <1>8, <1>9 DEF Next, Operator, Over

\* With all processes up, and no damage that lasts, a node finds all the others.
LEMMA AllConnected ==
  ASSUME IInv, genesis = Node, ~Misnumbered, \A n \in Node : geth[n] = "up", NEW n \in Node
  PROVE  FullyConnected(n)
<1>1. \A m \in Node : Joined(m)
  BY DEF IInv, ProcessInv, Misnumbered, Joined, Node
<1>2. PeersOf(n) = Node \ {n}
  BY <1>1 DEF PeersOf
<1>3. Cardinality(Node \ {n}) = NumNodes - 1
  BY NodeFacts, FS_RemoveElement
<1> QED
  BY <1>2, <1>3 DEF FullyConnected

LEMMA HealedStep ==
  ASSUME IInv, StartedInv, HealedInv, [Next]_vars
  PROVE  HealedInv'
<1>1. CASE GenerateKeys \/ WriteGenesis \/ StartTessera
  <2>1. /\ pc' \in {"genesis", "tessera", "start", "failed"}
        /\ pc' = "failed" => late' = attempt'
    BY <1>1 DEF GenerateKeys, WriteGenesis, StartTessera, Goto, Raise, Fault
  <2> QED
    BY <2>1 DEF HealedInv, RestartHeals
<1>2. CASE AddNode
  <2>1. pc' \in {"startnode", "failed"} /\ UNCHANGED attempt
    BY <1>2 DEF AddNode, Raise
  <2>2. ASSUME pc' = "failed" PROVE late' = attempt'
    <3>1. /\ pc = "start" /\ node > 0 /\ geth[0] # "up" /\ Timely(geth[0] = "starting")
      BY <1>2, <2>2 DEF AddNode
    <3>2. CASE geth[0] = "starting"
      BY <2>1, <3>1, <3>2 DEF Timely, Fault
    <3>3. CASE geth[0] # "starting"
      <4>1. late = attempt
        BY <3>1, <3>3, NodeFacts DEF StartedInv, Started
      <4> QED
        BY <2>1, <3>1, <3>3, <4>1 DEF Timely, NoFault
    <3> QED
      BY <3>2, <3>3
  <2> QED
    BY <2>1, <2>2 DEF HealedInv, RestartHeals
<1>3. CASE StartNode
  <2>1. pc' \in {"start", "check"} /\ round' = 0
    BY <1>3 DEF StartNode, Goto
  <2>2. round' # Rounds
    BY <2>1, QuorumBoundsAssumption
  <2> QED
    BY <2>1, <2>2 DEF HealedInv, RestartHeals
<1>4. CASE BeginRound
  <2>1. pc' = "poll" /\ node' = 0
    BY <1>4 DEF BeginRound
  <2>2. \A n \in Node : ~(n < node')
    BY <2>1, NodeFacts DEF Node
  <2> QED
    BY <2>1, <2>2 DEF HealedInv, RestartHeals
<1>5. CASE PollNode
  <2>1. /\ UNCHANGED <<consensus, attempt, round, genesis, geth, raftId, runId>>
        /\ pc = "poll" /\ pc' \in {"check", "poll"} /\ node \in Node /\ flags' \subseteq Node
        /\ \/ NoFault /\ flags' = IF FullyConnected(node) THEN flags \cup {node} ELSE flags
           \/ Fault
        /\ pc' = "poll" => node' = node + 1
        /\ pc' = "check" => ~(node + 1 < NumNodes)
    BY <1>5 DEF IInv, TypeOK, PollNode, Goto, raft
  <2> SUFFICES ASSUME late' # attempt', genesis' = Node, ~Misnumbered', round' = Rounds
               PROVE  /\ pc' = "poll" => \A n \in Node : n < node' => n \in flags'
                      /\ pc' = "check" => flags' = Node
    BY <2>1 DEF HealedInv, RestartHeals
  <2>2. NoFault /\ late # attempt /\ genesis = Node /\ ~Misnumbered /\ round = Rounds
    BY <2>1, LateStep DEF Misnumbered
  <2>3. FullyConnected(node)
    BY <2>1, <2>2, AllConnected DEF StartedInv
  <2>4. \A n \in Node : n < node \/ n = node => n \in flags'
    <3>1. ~Fault
      BY <2>2 DEF Fault, NoFault, IInv, TypeOK
    <3>2. flags' = flags \cup {node}
      BY <2>1, <2>3, <3>1
    <3> QED
      BY <2>1, <2>2, <3>2 DEF HealedInv
  <2>5. pc' = "poll" => \A n \in Node : n < node' => n < node \/ n = node
    BY <2>1, NodeFacts DEF Node
  <2>6. pc' = "check" => \A n \in Node : n < node \/ n = node
    BY <2>1, NodeFacts DEF Node
  <2> QED
    BY <2>1, <2>4, <2>5, <2>6
<1>6. CASE NetworkUp
  <2>1. pc' = "unlock" /\ flags' = Node
    BY <1>6 DEF NetworkUp, Goto
  <2> QED
    BY <2>1 DEF HealedInv, RestartHeals
<1>7. CASE GiveUp
  <2>1. /\ UNCHANGED <<consensus, attempt, round, genesis, geth, raftId, runId, late>>
        /\ pc = "check" /\ pc' = "failed" /\ flags # Node /\ round = Rounds
    BY <1>7 DEF GiveUp, Checked, Raise, NoFault, raft
  <2>2. late = attempt \/ genesis # Node \/ Misnumbered
    BY <2>1 DEF HealedInv
  <2> QED
    BY <2>1, <2>2 DEF HealedInv, RestartHeals, Misnumbered
<1>8. CASE UnlockNode
  <2>1. /\ UNCHANGED <<attempt, flags, late>> /\ pc = "unlock" /\ node \in Node
        /\ pc' \in {"unlock", "running", "failed"}
        /\ pc' = "failed" => geth[node] # "up"
    BY <1>8 DEF IInv, TypeOK, UnlockNode, Goto, Raise, NoFault
  <2>2. flags = Node /\ (late # attempt => \A n \in flags : geth[n] = "up")
    BY <2>1 DEF HealedInv, StartedInv
  <2> QED
    BY <2>1, <2>2 DEF HealedInv, RestartHeals
<1>9. CASE Retry \/ KillNode \/ Restart
  <2>1. pc' \in {"kill", "start"}
    BY <1>9 DEF Retry, KillNode, Restart, Goto
  <2> QED
    BY <2>1 DEF HealedInv, RestartHeals
<1>10. CASE Geth
  <2>1. /\ UNCHANGED <<consensus, pc, node, attempt, round, flags, genesis, raftId, runId>>
        /\ pc # "failed"
        /\ \E n \in Node : ComeUp(n) \/ Die(n) \/ Crash(n)
    BY <1>10 DEF Geth, GethGoesOn, GethDies, raft
  <2>2. Fault \/ NoFault
    BY <2>1 DEF ComeUp, Die, Crash
  <2>3. late' # attempt' => late # attempt
    BY <2>1, <2>2, LateStep
  <2>4. Misnumbered' <=> Misnumbered
    BY <2>1 DEF Misnumbered
  <2> QED
    BY <2>1, <2>3, <2>4 DEF HealedInv, RestartHeals
<1>11. CASE UNCHANGED vars
  BY <1>11 DEF vars, raft, HealedInv, RestartHeals, Misnumbered
<1> QED
  BY <1>1, <1>2, <1>3, <1>4, <1>5, <1>6, <1>7, <1>8, <1>9, <1>10, <1>11
  DEF Next, Operator, Over

-----------------------------------------------------------------------------
(* The properties                                                          *)

\* Every reachable state has the declared types (QuorumNetwork, TypeOK).
THEOREM TypeCorrect == Spec => []TypeOK
<1>1. IInv => TypeOK
  BY DEF IInv
<1> QED
  BY <1>1, Invariance, PTL

\* Over all retries, restarts and faults the id node + 1 is the one the Raft
\* cluster gave the node, as long as it has refused no new node
\* (Quorum_Network.py:370-399).
THEOREM IdsAgreeHolds == Spec => []IdsAgree
<1>1. IInv => IdsAgree
  BY DEF IInv, ProcessInv, NumberedInv, IdsAgree
<1> QED
  BY <1>1, Invariance, PTL

\* With two nodes or more, "Quorum network is running now" is right: who has not
\* died since takes part in the network (Quorum_Network.py:451-492).
THEOREM RunningConnectedHolds == NumNodes > 1 => (Spec => []RunningConnected)
<1> SUFFICES ASSUME NumNodes > 1 PROVE Spec => []RunningConnected
  OBVIOUS
<1>1. Init => SeenInv
  BY DEF Init, SeenInv
<1>2. IInv /\ SeenInv /\ [Next]_vars => SeenInv'
  BY SeenStep
<1>3. IInv /\ SeenInv => RunningConnected
  BY DEF IInv, ProcessInv, SeenInv, RunningConnected, Joined
<1> QED
  BY <1>1, <1>2, <1>3, Invariance, PTL DEF Spec

\* A complete restart heals what went wrong before it: the start is given up
\* only because of a fault in its last attempt, a missing genesis block or Raft
\* ids that no longer agree (Quorum_Network.py:297-321).
THEOREM RestartHealsHolds == Spec => []RestartHeals
<1>1. Init => StartedInv /\ HealedInv
  BY DEF Init, StartedInv, Started, HealedInv, RestartHeals
<1>2. IInv /\ StartedInv /\ HealedInv /\ [Next]_vars => StartedInv' /\ HealedInv'
  BY StartedStep, HealedStep
<1>3. HealedInv => RestartHeals
  BY DEF HealedInv
<1> QED
  BY <1>1, <1>2, <1>3, Invariance, PTL DEF Spec
=============================================================================
