--------------------------- MODULE QuorumNetworkInv ---------------------------
(***************************************************************************)
(* The inductive invariant behind the safety properties of QuorumNetwork.  *)
(***************************************************************************)
EXTENDS QuorumNetwork

\* A process runs, or ran, under the id node + 1; before the first start there
\* is none.
ProcessInv ==
  /\ \A n \in Node : runId[n] \in {0, n + 1} /\ (geth[n] # "down" => runId[n] = n + 1)
  /\ pc \in {"keys", "genesis", "tessera"} =>
       flags = {} /\ \A n \in Node : runId[n] = 0 /\ geth[n] = "down"

\* As long as the cluster has refused no new node, the ids are handed out in the order of the nodes.
NumberedInv ==
  ~refused /\ consensus = "raft" =>
    /\ \A n \in Node : raftId[n] \in {0, n + 1}
    /\ \A m, n \in Node : m < n /\ raftId[n] # 0 => raftId[m] # 0
    /\ pc \notin {"keys", "genesis", "failed"} => raftId[0] # 0
    /\ pc = "start" /\ node > 0 => raftId[node - 1] # 0
    /\ pc = "startnode" => raftId[node] # 0
    /\ \A n \in Node : runId[n] # 0 => raftId[n] # 0

\* A node that was once seen connected can take part, whenever it runs.
SeenInv ==
  /\ \A n \in flags : n \in genesis /\ (consensus = "raft" => raftId[n] = n + 1)
  /\ pc \in {"unlock", "running"} => flags = Node

\* The processes that the current attempt has started so far.
Started(n) ==
  \/ pc \in {"start", "startnode"} /\ n < node
  \/ pc \in {"check", "poll", "unlock"}

\* They are on their way or there until a fault hits this attempt; the last poll
\* waits for all of them.
StartedInv ==
  late # attempt =>
    /\ \A n \in Node : Started(n) => geth[n] \in {"starting", "up"}
    /\ pc \in {"check", "poll", "unlock"} => \A n \in flags : geth[n] = "up"
    /\ pc = "poll" /\ round = Rounds => \A n \in Node : geth[n] = "up"

\* Without permanent damage the last poll then finds every node connected.
HealedInv ==
  /\ late # attempt /\ genesis = Node /\ ~Misnumbered /\ round = Rounds =>
       /\ pc = "poll" => \A n \in Node : n < node => n \in flags
       /\ pc = "check" => flags = Node
  /\ pc = "unlock" => flags = Node
  /\ RestartHeals

\* SeenInv needs a second node: a single one counts as connected by itself.
IInv == TypeOK /\ ProcessInv /\ NumberedInv
=============================================================================
