-------------------------- MODULE FabricLayoutInv --------------------------
(***************************************************************************)
(* The inductive invariant behind the theorems about FabricLayout: what    *)
(* every part of the start has computed, once it is over.                  *)
(***************************************************************************)
EXTENDS FabricLayout

\* The parts of the start after a given one, as long as it has not failed.
AfterScript == {"up"}
AfterPeer == {"script"} \cup AfterScript
AfterOrderer == {"peer"} \cup AfterPeer
AfterKafka == {"orderer"} \cup AfterOrderer
AfterZookeeper == {"kafka"} \cup AfterKafka
AfterCollections == {"zookeeper"} \cup AfterZookeeper
AfterConfigtx == {"collections"} \cup AfterCollections
AfterCrypto == {"configtx"} \cup AfterConfigtx
AfterSingles == {"crypto"} \cup AfterCrypto
AfterGroups == {"singles"} \cup AfterSingles
AfterRanges == {"groups"} \cup AfterGroups
AfterCheck == {"ranges"} \cup AfterRanges

\* Nothing has been computed before check_config and the ranges are done.
StartInv ==
  /\ pc = "check" => vmCount = 0 /\ members = <<>>
  /\ pc \in {"check", "ranges"} =>
       k = 0 /\ idx = [r \in Role |-> <<>>] /\ groups = <<>>

\* The settings have been accepted and the machines counted.
Accepted ==
  /\ ~Rejected
  /\ s.type = "solo" => s.orderers = 1
  /\ vmCount = Count(s)

AcceptedInv == pc \in AfterCheck => Accepted

RangesInv == pc \in AfterRanges => idx = Indices

\* All groups are disjoint, unless internal orderers are shared.
Shared == s.internal /\ s.orgs > 1 /\ s.orderers % s.orgs = 0
Disjoint ==
  \A i, j \in DOMAIN groups : i # j => groups[i] \cap groups[j] = {}

GroupsInv ==
  /\ groups \in Seq(SUBSET Int)
  /\ pc = "groups" =>
       /\ k = Len(groups)
       /\ \A i \in 1..k : groups[i] = GroupOf(i - 1)
  /\ pc \in AfterRanges /\ ~Shared => Disjoint
  /\ pc = "singles" => \A m \in Machine : m < k => m \in Grouped
  /\ pc \in AfterSingles => Machine \subseteq Grouped

CertsInv ==
  pc \in AfterCrypto =>
    /\ \A o \in 1..s.orderers : Orderer(o) \in certs
    /\ \A org \in Org : \A p \in 0..(s.peers - 1) : Peer(org, p) \in certs

TxInv ==
  pc \in AfterConfigtx =>
    /\ tx.anchors = Anchors
    /\ tx.consenters \cup tx.addresses \subseteq {Orderer(o) : o \in 1..s.orderers}
    /\ tx.brokers = IF s.type = "kafka" THEN Brokers ELSE {}
    /\ tx.rules \ tx.msps = OrgAdmins
    /\ tx.consortium \subseteq tx.msps
    /\ tx.acls \subseteq tx.policies

MembersInv ==
  pc \in AfterCollections =>
    /\ ValidPrivateFors
    /\ members = [org \in Org |-> {Member(org, index) : index \in 0..(PrivateFors - 1)}]

RequiredInv == pc = "up" => required \in 1..s.orgs

\* The entries that a loop has started so far.
Ran(loop) ==
  IF \/ loop = "zookeeper" /\ pc \in AfterZookeeper
     \/ loop = "kafka" /\ pc \in AfterKafka
     \/ loop = "orderer" /\ pc \in AfterOrderer
     \/ loop = "peer" /\ pc \in AfterPeer
  THEN DOMAIN idx[loop]
  ELSE IF pc = loop THEN 0..(k - 1) ELSE {}

Loop == {"zookeeper", "kafka", "orderer", "peer"}

RanInv ==
  /\ \A loop \in Loop : Ran(loop) \subseteq DOMAIN idx[loop]
  /\ \A loop \in Loop : \A i \in Ran(loop) : StartedAt(loop, i) \subseteq containers
  /\ \A c \in containers : \E loop \in Loop : \E i \in Ran(loop) : c \in StartedAt(loop, i)

ContainersInv ==
  /\ pc \in {"crypto", "configtx", "collections"} => k = 0
  /\ pc # "raised" => RanInv

IInv ==
  /\ TypeOK
  /\ AcceptedComesUp
  /\ StartInv
  /\ AcceptedInv
  /\ RangesInv
  /\ GroupsInv
  /\ CertsInv
  /\ TxInv
  /\ MembersInv
  /\ RequiredInv
  /\ ContainersInv
=============================================================================
