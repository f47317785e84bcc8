------------------------- MODULE FabricLayoutProofs -------------------------
(***************************************************************************)
(* Theorems about FabricLayout: settings that are accepted come up, on     *)
(* exactly the machines they need, with names that agree, for any number   *)
(* of organisations, peers, orderers, Zookeeper and Kafka nodes.           *)
(***************************************************************************)
EXTENDS FabricLayoutInv, FiniteSetTheorems, TLAPS

-----------------------------------------------------------------------------
(* Arithmetic of indices                                                   *)

LEMMA ProductPositive ==
  ASSUME NEW a \in Count1, NEW b \in Count1
  PROVE  a * b \in Count1
BY DEF Count1

\* Blocks of the same length follow each other.
LEMMA BlocksInOrder ==
  ASSUME NEW n \in Nat, NEW a \in Nat, NEW b \in Nat, a < b
  PROVE  /\ a * n \in Nat /\ b * n \in Nat
         /\ (a + 1) * n = a * n + n
         /\ (a + 1) * n <= b * n
OBVIOUS

LEMMA Division ==
  ASSUME NEW a \in Int, NEW b \in Count1
  PROVE  /\ a \div b \in Int
         /\ a % b \in 0..(b - 1)
         /\ a = b * (a \div b) + (a % b)
         /\ a \in Nat => a \div b \in Nat
BY DEF Count1

LEMMA DivisionUnique ==
  ASSUME NEW b \in Count1, NEW q \in Int, NEW r \in 0..(b - 1)
  PROVE  /\ (q * b + r) \div b = q
         /\ (q * b + r) % b = r
BY DEF Count1

LEMMA Negated ==
  ASSUME NEW a \in Int, NEW b \in Int
  PROVE  b * a \in Int /\ (-a) * b = -(b * a)
OBVIOUS

\* Two numbers less than b apart with the same remainder are the same.
LEMMA SameRemainder ==
  ASSUME NEW b \in Count1, NEW x \in Int, NEW y \in Int,
         x % b = y % b, x - y < b, y - x < b
  PROVE  x = y
<1>1. /\ x = b * (x \div b) + (x % b) /\ x \div b \in Int
      /\ y = b * (y \div b) + (y % b) /\ y \div b \in Int
      /\ x % b \in Int
  BY Division, SMT
<1>2. x - y = b * ((x \div b) - (y \div b))
  BY <1>1 DEF Count1
<1>3. (x \div b) - (y \div b) < 1 /\ (x \div b) - (y \div b) > -1
  <2> DEFINE d == (x \div b) - (y \div b)
  <2>1. d \in Int /\ b \in Nat /\ b > 0 /\ b * d < b /\ b * d > -b
    BY <1>1, <1>2 DEF Count1
  <2> HIDE DEF d
  <2>2. d < 1 /\ d > -1
    BY <2>1
  <2> QED  BY <2>2 DEF d
<1> QED  BY <1>1, <1>2, <1>3 DEF Count1

-----------------------------------------------------------------------------
(* What the ranges say about the machines                                  *)

DatabaseFactor == IF External THEN 2 ELSE 1
ZookeeperCount == IF s.type = "kafka" THEN s.zookeepers ELSE 0
KafkaCount == IF s.type = "kafka" THEN s.kafkas ELSE 0
NextIndex == StartIndex + DatabaseFactor * Peers(s)

LEMMA SettingFacts ==
  ASSUME s \in Setting
  PROVE  /\ s.orgs \in Count1 /\ s.peers \in Count1 /\ s.orderers \in Count1
         /\ s.zookeepers \in Count1 /\ s.kafkas \in Count1
         /\ s.internal \in BOOLEAN /\ s.couch \in BOOLEAN
         /\ s.type \in {"solo", "raft", "kafka"}
         /\ s.privateFors \in Count1 \cup {all, ALL}
         /\ Peers(s) \in Count1
         /\ StartIndex \in Nat
         /\ ZookeeperCount \in Nat /\ KafkaCount \in Nat
         /\ Org \subseteq Nat
<1>1. /\ s.orgs \in Count1 /\ s.peers \in Count1 /\ s.orderers \in Count1
      /\ s.zookeepers \in Count1 /\ s.kafkas \in Count1
      /\ s.internal \in BOOLEAN /\ s.couch \in BOOLEAN
      /\ s.type \in {"solo", "raft", "kafka"}
      /\ s.privateFors \in Count1 \cup {all, ALL}
  BY DEF Setting
<1>2. Peers(s) \in Count1
  BY <1>1, ProductPositive DEF Peers
<1> QED  BY <1>1, <1>2 DEF StartIndex, ZookeeperCount, KafkaCount, Org, Count1

\* The machines that check_config counts are those up to the last index.
LEMMA Counted ==
  ASSUME s \in Setting, ~Rejected, s.type = "solo" => s.orderers = 1
  PROVE  /\ Count(s) = NextIndex + ZookeeperCount + KafkaCount
         /\ NextIndex \in Nat
         /\ StartIndex + Peers(s) <= NextIndex
         /\ External => NextIndex = StartIndex + Peers(s) + Peers(s)
         /\ s.orderers <= NextIndex
         /\ Count(s) \in Count1
<1>1. /\ s.orderers \in Count1 /\ Peers(s) \in Count1 /\ StartIndex \in Nat
      /\ s.zookeepers \in Count1 /\ s.kafkas \in Count1
      /\ s.internal \in BOOLEAN
      /\ ZookeeperCount \in Nat /\ KafkaCount \in Nat
      /\ s.type \in {"solo", "raft", "kafka"}
  BY SettingFacts
<1>2. s.internal => s.orderers <= Peers(s)
  BY <1>1 DEF Rejected, Count1
<1>3. NextIndex = StartIndex + (IF External THEN Peers(s) + Peers(s) ELSE Peers(s))
  BY <1>1 DEF NextIndex, DatabaseFactor, Count1
<1>4. Count(s) = (IF External THEN Peers(s) + Peers(s) ELSE Peers(s))
                   + s.orderers + ZookeeperCount + KafkaCount
                   - (IF s.internal THEN s.orderers ELSE 0)
  BY <1>1 DEF Count, Ordering, ZookeeperCount, KafkaCount, Count1
<1> DEFINE N == Peers(s)
          Z == ZookeeperCount
          K == KafkaCount
<1>5. /\ Count(s) = NextIndex + Z + K
      /\ NextIndex \in Nat
      /\ StartIndex + N <= NextIndex
      /\ s.orderers <= NextIndex
      /\ NextIndex > 0
  <2> HIDE DEF N, Z, K
  <2>1. CASE External
    BY <1>1, <1>2, <1>3, <1>4, <2>1 DEF StartIndex, Count1, N, Z, K
  <2>2. CASE ~External
    BY <1>1, <1>2, <1>3, <1>4, <2>2 DEF StartIndex, Count1, N, Z, K
  <2> QED  BY <2>1, <2>2
<1>6. External => NextIndex = StartIndex + N + N
  BY <1>1, <1>3 DEF Count1
<1>7. Count(s) \in Count1
  BY <1>1, <1>5 DEF Count1
<1> QED  BY <1>5, <1>6, <1>7

Laid ==
  /\ DOMAIN idx["orderer"] = 0..(s.orderers - 1)
  /\ \A i \in 0..(s.orderers - 1) : idx["orderer"][i] = i
  /\ DOMAIN idx["peer"] = 0..(Peers(s) - 1)
  /\ \A i \in 0..(Peers(s) - 1) : idx["peer"][i] = StartIndex + i
  /\ DOMAIN idx["db"] = 0..(Peers(s) - 1)
  /\ \A i \in 0..(Peers(s) - 1) :
       idx["db"][i] = IF External THEN StartIndex + Peers(s) + i ELSE StartIndex + i
  /\ DOMAIN idx["zookeeper"] = 0..(ZookeeperCount - 1)
  /\ \A i \in 0..(ZookeeperCount - 1) : idx["zookeeper"][i] = NextIndex + i
  /\ DOMAIN idx["kafka"] = 0..(KafkaCount - 1)
  /\ \A i \in 0..(KafkaCount - 1) : idx["kafka"][i] = NextIndex + ZookeeperCount + i

LEMMA IndicesLaid ==
  ASSUME s \in Setting, idx = Indices
  PROVE  Laid
<1>1. /\ s.orderers \in Count1 /\ Peers(s) \in Count1 /\ StartIndex \in Nat
      /\ ZookeeperCount \in Nat /\ KafkaCount \in Nat
  BY SettingFacts
<1>2. /\ idx["orderer"] = From(0, s.orderers)
      /\ idx["peer"] = From(StartIndex, Peers(s))
      /\ idx["db"] = IF External THEN From(StartIndex + Peers(s), Peers(s))
                                 ELSE From(StartIndex, Peers(s))
      /\ idx["zookeeper"] = From(NextIndex, ZookeeperCount)
      /\ idx["kafka"] = From(NextIndex + ZookeeperCount, KafkaCount)
  BY DEF Indices, NextIndex, DatabaseFactor, ZookeeperCount, KafkaCount
<1> QED  BY <1>1, <1>2 DEF From, Laid, Count1

\* Every index is the index of a machine.
LEMMA IndicesAreMachines ==
  ASSUME s \in Setting, Laid, Accepted
  PROVE  \A r \in Role : \A i \in DOMAIN idx[r] : idx[r][i] \in Machine
<1>1. /\ s.orderers \in Count1 /\ Peers(s) \in Count1 /\ StartIndex \in Nat
      /\ ZookeeperCount \in Nat /\ KafkaCount \in Nat
  BY SettingFacts
<1>2. /\ vmCount = NextIndex + ZookeeperCount + KafkaCount
      /\ NextIndex \in Nat
      /\ StartIndex + Peers(s) <= NextIndex
      /\ External => NextIndex = StartIndex + Peers(s) + Peers(s)
      /\ s.orderers <= NextIndex
  BY Counted DEF Accepted
<1> SUFFICES ASSUME NEW r \in Role, NEW i \in DOMAIN idx[r]
             PROVE  idx[r][i] \in Machine
  OBVIOUS
<1>3. CASE r = "orderer"
  <2>1. i \in 0..(s.orderers - 1) /\ idx[r][i] = i
    BY <1>3 DEF Laid
  <2> QED  BY <1>1, <1>2, <2>1 DEF Machine, Count1
<1>4. CASE r = "peer"
  <2>1. i \in 0..(Peers(s) - 1)
    BY <1>4 DEF Laid
  <2>2. \/ idx[r][i] = StartIndex + i
        \/ External /\ idx[r][i] = StartIndex + Peers(s) + i
    BY <1>4, <2>1 DEF Laid
  <2> QED  BY <1>1, <1>2, <2>1, <2>2 DEF Machine, Count1
<1>5. CASE r = "db"
  <2>1. i \in 0..(Peers(s) - 1)
    BY <1>5 DEF Laid
  <2>2. \/ idx[r][i] = StartIndex + i
        \/ External /\ idx[r][i] = StartIndex + Peers(s) + i
    BY <1>5, <2>1 DEF Laid
  <2> QED  BY <1>1, <1>2, <2>1, <2>2 DEF Machine, Count1
<1>6. CASE r = "zookeeper"
  <2>1. i \in 0..(ZookeeperCount - 1) /\ idx[r][i] = NextIndex + i
    BY <1>6 DEF Laid
  <2> QED  BY <1>1, <1>2, <2>1 DEF Machine
<1>7. CASE r = "kafka"
  <2>1. i \in 0..(KafkaCount - 1) /\ idx[r][i] = NextIndex + ZookeeperCount + i
    BY <1>7 DEF Laid
  <2> QED  BY <1>1, <1>2, <2>1 DEF Machine
<1> QED  BY <1>3, <1>4, <1>5, <1>6, <1>7 DEF Role

-----------------------------------------------------------------------------
(* Groups and containers stay within the lists and the machines            *)

LEMMA PeerRangeBound ==
  ASSUME s \in Setting, NEW org \in 0..(s.orgs - 1), NEW n \in PeerRange(org)
  PROVE  n \in 0..(Peers(s) - 1)
<1>1. s.orgs \in Count1 /\ s.peers \in Count1
  BY SettingFacts
<1>2. PICK i \in 0..(s.peers - 1) : n = org + i * s.orgs
  BY DEF PeerRange
<1>3. /\ i * s.orgs \in Nat /\ s.peers * s.orgs \in Nat
      /\ (i + 1) * s.orgs = i * s.orgs + s.orgs
      /\ (i + 1) * s.orgs <= s.peers * s.orgs
  <2>1. s.orgs \in Nat /\ i \in Nat /\ s.peers \in Nat /\ i < s.peers
    BY <1>1 DEF Count1
  <2> QED  BY <2>1, BlocksInOrder
<1>4. Peers(s) = s.peers * s.orgs
  BY <1>1 DEF Peers, Count1
<1> QED  BY <1>1, <1>2, <1>3, <1>4 DEF Count1

LEMMA ShareBound ==
  ASSUME s \in Setting, NEW org \in 0..(s.orgs - 1), NEW n \in Share(org)
  PROVE  n \in 0..(s.orderers - 1)
<1> DEFINE m == s.orderers \div s.orgs
<1>1. s.orgs \in Count1 /\ s.orderers \in Count1
  BY SettingFacts
<1>2. s.orderers % s.orgs = 0 /\ n \in (org * m)..((org + 1) * m - 1)
  BY DEF Share
<1>3. m \in Nat /\ s.orderers = s.orgs * m
  <2>1. s.orderers \in Int /\ s.orderers \in Nat
    BY <1>1 DEF Count1
  <2>2. m \in Nat /\ s.orderers = s.orgs * m + (s.orderers % s.orgs)
    BY <1>1, <2>1, Division
  <2>3. s.orgs * m \in Int
    BY <1>1, <2>2 DEF Count1
  <2> QED  BY <1>2, <2>2, <2>3
<1>4. /\ org * m \in Nat /\ s.orgs * m \in Nat
      /\ (org + 1) * m = org * m + m
      /\ (org + 1) * m <= s.orgs * m
  <2>1. org \in Nat /\ s.orgs \in Nat /\ org < s.orgs
    BY <1>1 DEF Count1
  <2> HIDE DEF m
  <2> QED  BY <2>1, <1>3, BlocksInOrder
<1> HIDE DEF m
<1> QED  BY <1>1, <1>2, <1>3, <1>4 DEF Count1

LEMMA GroupInRange ==
  ASSUME s \in Setting, Laid, Accepted, NEW org \in 0..(s.orgs - 1)
  PROVE  InRange(org)
<1>1. /\ \A n \in PeerRange(org) : n \in 0..(Peers(s) - 1)
      /\ \A n \in Share(org) : n \in 0..(s.orderers - 1)
  BY PeerRangeBound, ShareBound
<1>2. /\ PeerRange(org) \subseteq DOMAIN idx["peer"]
      /\ PeerRange(org) \subseteq DOMAIN idx["db"]
      /\ Share(org) \subseteq DOMAIN idx["orderer"]
  BY <1>1 DEF Laid
<1>3. \A r \in Role : \A i \in DOMAIN idx[r] : idx[r][i] \in Machine
  BY IndicesAreMachines
<1>4. /\ Lookup("peer", PeerRange(org)) \subseteq Machine
      /\ Lookup("orderer", Share(org)) \subseteq Machine
      /\ Lookup("db", PeerRange(org)) \subseteq Machine
  BY <1>2, <1>3 DEF Lookup, Role
<1>5. GroupOf(org) \subseteq Machine
  BY <1>4 DEF GroupOf
<1> QED  BY <1>2, <1>5 DEF InRange

\* The loop over the peers visits the list in order.
LEMMA SlotOfEntry ==
  ASSUME s \in Setting, NEW i \in Nat
  PROVE  /\ Slot(1 + i \div s.peers, i % s.peers) = i
         /\ i \div s.peers \in Nat
         /\ i % s.peers \in 0..(s.peers - 1)
<1>1. s.peers \in Count1
  BY SettingFacts
<1>2. /\ i \div s.peers \in Nat
      /\ i % s.peers \in 0..(s.peers - 1)
      /\ i = s.peers * (i \div s.peers) + (i % s.peers)
  BY <1>1, Division, i \in Int
<1>3. 1 + i \div s.peers - 1 = i \div s.peers
  BY <1>2
<1>4. s.peers * (i \div s.peers) = (i \div s.peers) * s.peers
  BY <1>1, <1>2 DEF Count1
<1> QED  BY <1>2, <1>3, <1>4 DEF Slot

LEMMA StartedAtLoop ==
  ASSUME NEW i
  PROVE  /\ StartedAt("zookeeper", i) = ZookeeperAt(i)
         /\ StartedAt("kafka", i) = KafkaAt(i)
         /\ StartedAt("orderer", i) = OrdererAt(i)
         /\ StartedAt("peer", i) = PeerAt(i)
BY DEF StartedAt

\* What one entry of a loop starts.
EntryPeer(i) == Peer(1 + i \div s.peers, i % s.peers)
EntryCouch(i) == Couch(1 + i \div s.peers, i % s.peers)

CouchOf(i) == IF s.couch THEN {EntryCouch(i)} ELSE {}
PeerContainer(i) ==
  Container(EntryPeer(i), idx["peer"][i], {7051, 7053, 9443}, {EntryPeer(i)}, CouchOf(i))
CouchContainer(i) == Container(EntryCouch(i), idx["db"][i], {5984}, {}, {})

LEMMA PeerEntry ==
  ASSUME s \in Setting, NEW i \in Nat
  PROVE  PeerAt(i) = {PeerContainer(i)} \cup (IF s.couch THEN {CouchContainer(i)} ELSE {})
<1>1. Slot(1 + i \div s.peers, i % s.peers) = i
  BY SlotOfEntry
<1>2. CASE s.couch
  BY <1>1, <1>2 DEF PeerAt, PeerContainer, CouchContainer, EntryPeer, EntryCouch, CouchOf
<1>3. CASE ~s.couch
  BY <1>1, <1>3 DEF PeerAt, PeerContainer, CouchContainer, EntryPeer, EntryCouch, CouchOf
<1> QED  BY <1>2, <1>3

LEMMA EntriesPlaceable ==
  ASSUME s \in Setting, Laid, Accepted,
         NEW loop \in Loop, NEW i \in DOMAIN idx[loop]
  PROVE  \A c \in StartedAt(loop, i) : c.on \in Machine
<1>1. \A r \in Role : \A j \in DOMAIN idx[r] : idx[r][j] \in Machine
  BY IndicesAreMachines
<1>2. CASE loop = "zookeeper"
  <2>1. idx["zookeeper"][i] \in Machine
    BY <1>1, <1>2 DEF Role
  <2> QED  BY <2>1, <1>2, StartedAtLoop DEF ZookeeperAt, Container
<1>3. CASE loop = "kafka"
  <2>1. idx["kafka"][i] \in Machine
    BY <1>1, <1>3 DEF Role
  <2> QED  BY <2>1, <1>3, StartedAtLoop DEF KafkaAt, Container
<1>4. CASE loop = "orderer"
  <2>1. idx["orderer"][i] \in Machine
    BY <1>1, <1>4 DEF Role
  <2> QED  BY <2>1, <1>4, StartedAtLoop DEF OrdererAt, Container
<1>5. CASE loop = "peer"
  <2>1. i \in DOMAIN idx["peer"] /\ i \in DOMAIN idx["db"] /\ i \in Nat
    BY <1>5, SettingFacts DEF Laid, Count1
  <2>2. idx["peer"][i] \in Machine /\ idx["db"][i] \in Machine
    BY <1>1, <2>1 DEF Role
  <2>3. \A c \in PeerAt(i) : c.on \in {idx["peer"][i], idx["db"][i]}
    <3>1. i \in Nat
      BY <2>1
    <3>2. \A c \in PeerAt(i) : c \in {PeerContainer(i), CouchContainer(i)}
      BY <3>1, PeerEntry
    <3>3. /\ PeerContainer(i).on = idx["peer"][i]
          /\ CouchContainer(i).on = idx["db"][i]
      BY DEF PeerContainer, CouchContainer, Container
    <3> QED  BY <3>2, <3>3
  <2> QED  BY <2>2, <2>3, <1>5, StartedAtLoop
<1> QED  BY <1>2, <1>3, <1>4, <1>5 DEF Loop

-----------------------------------------------------------------------------
(* Steps                                                                   *)

LEMMA NextLoops ==
  /\ NextLoop("zookeeper") = "kafka"
  /\ NextLoop("kafka") = "orderer"
  /\ NextLoop("orderer") = "peer"
  /\ NextLoop("peer") = "script"
<1>1. /\ Loops[1] = "zookeeper" /\ Loops[2] = "kafka" /\ Loops[3] = "orderer"
      /\ Loops[4] = "peer" /\ Loops[5] = "script"
  BY DEF Loops
<1>2. /\ (CHOOSE i \in 1..4 : Loops[i] = "zookeeper") = 1
      /\ (CHOOSE i \in 1..4 : Loops[i] = "kafka") = 2
      /\ (CHOOSE i \in 1..4 : Loops[i] = "orderer") = 3
      /\ (CHOOSE i \in 1..4 : Loops[i] = "peer") = 4
  BY <1>1
<1> QED  BY <1>1, <1>2 DEF NextLoop

\* The part of the start a step is in, for the actions that do not raise.
LEMMA GroupGoesOn ==
  ASSUME TypeOK, AcceptedInv, RangesInv, Group
  PROVE  /\ groups' = Append(groups, GroupOf(k))
         /\ k' = k + 1 /\ k \in 0..(s.orgs - 1)
         /\ GroupOf(k) \subseteq Machine
         /\ UNCHANGED <<s, vmCount, pc, idx, certs, tx, members, required, containers>>
<1>1. /\ s \in Setting /\ k \in Nat
      /\ Accepted /\ idx = Indices /\ k < s.orgs
  BY DEF TypeOK, AcceptedInv, RangesInv, Group, AfterCheck, AfterRanges
<1>2. k \in 0..(s.orgs - 1)
  BY <1>1, SettingFacts DEF Count1
<1>3. InRange(k)
  BY <1>1, <1>2, IndicesLaid, GroupInRange
<1> QED  BY <1>2, <1>3 DEF Group, InRange

LEMMA StartGoesOn ==
  ASSUME TypeOK, AcceptedInv, RangesInv, Start
  PROVE  /\ pc \in Loop /\ k \in DOMAIN idx[pc] /\ k' = k + 1
         /\ \A c \in StartedAt(pc, k) : c.on \in Machine
         /\ containers' = containers \cup StartedAt(pc, k)
         /\ UNCHANGED <<s, vmCount, pc, idx, groups, certs, tx, members, required>>
<1>1. pc \in Loop /\ k \in DOMAIN idx[pc]
  BY DEF Start, InLoop, Loop
<1>2. s \in Setting /\ Accepted /\ idx = Indices
  BY <1>1 DEF TypeOK, AcceptedInv, RangesInv, AfterCheck, AfterRanges, AfterGroups,
     AfterSingles, AfterCrypto, AfterConfigtx, AfterCollections, AfterZookeeper,
     AfterKafka, AfterOrderer, Loop
<1>3. \A c \in StartedAt(pc, k) : c.on \in Machine
  BY <1>1, <1>2, IndicesLaid, EntriesPlaceable
<1> QED  BY <1>1, <1>3 DEF Start, Placeable

LEMMA EndLoopGoesOn ==
  ASSUME EndLoop
  PROVE  /\ k' = 0
         /\ UNCHANGED <<s, vmCount, idx, groups, certs, tx, members, required, containers>>
         /\ pc \in Loop /\ k \notin DOMAIN idx[pc]
         /\ \/ pc = "zookeeper" /\ pc' = "kafka"
            \/ pc = "kafka" /\ pc' = "orderer"
            \/ pc = "orderer" /\ pc' = "peer"
            \/ pc = "peer" /\ pc' = "script"
BY NextLoops DEF EndLoop, InLoop, Loop

-----------------------------------------------------------------------------
(* The settings, the number of machines and the ranges                     *)

\* The parts of the start are told apart by their names everywhere below.
USE DEF AfterCheck, AfterRanges, AfterGroups, AfterSingles, AfterCrypto,
        AfterConfigtx, AfterCollections, AfterZookeeper, AfterKafka,
        AfterOrderer, AfterPeer, AfterScript

LEMMA SettingsKept ==
  ASSUME Next, ~CheckConfig
  PROVE  s' = s /\ vmCount' = vmCount
<1>1. CASE Over
  BY <1>1 DEF Over, vars
<1>2. CASE Reject \/ RaftWithoutTls \/ InvalidPrivateFors \/ InvalidPolicy
  BY <1>2 DEF Reject, RaftWithoutTls, InvalidPrivateFors, InvalidPolicy, Raise
<1>3. CASE Group
  BY <1>3 DEF Group, Raise
<1>4. CASE Start
  BY <1>4 DEF Start, Raise
<1>5. CASE Ranges \/ GroupsDone \/ Single \/ SinglesDone
  BY <1>5 DEF Ranges, GroupsDone, Single, SinglesDone
<1>6. CASE WriteCryptoConfig \/ WriteConfigtx \/ WriteCollections
  BY <1>6 DEF WriteCryptoConfig, WriteConfigtx, WriteCollections
<1>7. CASE EndLoop \/ WriteScript
  BY <1>7 DEF EndLoop, WriteScript
<1> QED  BY <1>1, <1>2, <1>3, <1>4, <1>5, <1>6, <1>7 DEF Next

LEMMA Frame ==
  ASSUME s' = s, vmCount' = vmCount
  PROVE  /\ Machine' = Machine /\ Org' = Org
         /\ Indices' = Indices
         /\ Accepted => Accepted'
         /\ ValidPolicy' => ValidPolicy
         /\ ValidPrivateFors' => ValidPrivateFors
<1>1. Indices' = Indices
  BY DEF Indices, StartIndex, External
<1>2. Accepted => Accepted'
  BY DEF Accepted, Rejected, Count, External
<1>3. (ValidPolicy' => ValidPolicy) /\ (ValidPrivateFors' => ValidPrivateFors)
  BY DEF ValidPolicy, ValidPrivateFors
<1> QED  BY <1>1, <1>2, <1>3 DEF Machine, Org

LEMMA CheckAccepts ==
  ASSUME TypeOK, CheckConfig
  PROVE  Accepted' /\ s' \in Setting
<1>1. /\ s \in Setting /\ ~Rejected /\ vmCount' = Count(s')
      /\ s' = IF s.type = "solo" THEN [s EXCEPT !.orderers = 1] ELSE s
  BY DEF TypeOK, CheckConfig
<1>2. s' \in Setting
  <2>1. CASE s.type = "solo"
    BY <1>1, <2>1 DEF Setting, Count1
  <2> QED  BY <1>1, <2>1
<1>3. /\ s'.orgs = s.orgs /\ s'.peers = s.peers /\ s'.couch = s.couch
      /\ s'.external = s.external /\ s'.internal = s.internal
      /\ s'.type = s.type
      /\ s.type = "solo" => s'.orderers = 1
      /\ s.type # "solo" => s'.orderers = s.orderers
  BY <1>1 DEF Setting
<1>4. ~Rejected'
  BY <1>1, <1>3 DEF Rejected, Peers
<1>5. vmCount' = Count(s)'
  BY <1>1, <1>3 DEF Count, External
<1> QED  BY <1>2, <1>3, <1>4, <1>5 DEF Accepted

\* How the start goes from one part to the next.
LEMMA Parts ==
  ASSUME TypeOK, AcceptedInv, RangesInv, Next
  PROVE  \/ pc' = pc /\ pc # "check"
         \/ CheckConfig /\ pc = "check" /\ pc' = "ranges"
         \/ Reject /\ pc = "check" /\ pc' = "raised"
         \/ RaftWithoutTls /\ pc = "configtx" /\ pc' = "raised"
         \/ InvalidPrivateFors /\ pc = "collections" /\ pc' = "raised"
         \/ InvalidPolicy /\ pc = "script" /\ pc' = "raised"
         \/ Ranges /\ pc = "ranges" /\ pc' = "groups"
         \/ GroupsDone /\ pc = "groups" /\ pc' = "singles"
         \/ SinglesDone /\ pc = "singles" /\ pc' = "crypto"
         \/ WriteCryptoConfig /\ pc = "crypto" /\ pc' = "configtx"
         \/ WriteConfigtx /\ pc = "configtx" /\ pc' = "collections"
         \/ WriteCollections /\ pc = "collections" /\ pc' = "zookeeper"
         \/ EndLoop /\ pc = "zookeeper" /\ pc' = "kafka"
         \/ EndLoop /\ pc = "kafka" /\ pc' = "orderer"
         \/ EndLoop /\ pc = "orderer" /\ pc' = "peer"
         \/ EndLoop /\ pc = "peer" /\ pc' = "script"
         \/ WriteScript /\ pc = "script" /\ pc' = "up"
<1>1. CASE Over
  BY <1>1 DEF Over, vars
<1>2. CASE Reject \/ RaftWithoutTls \/ InvalidPrivateFors \/ InvalidPolicy
  BY <1>2 DEF Reject, RaftWithoutTls, InvalidPrivateFors, InvalidPolicy, Raise
<1>3. CASE Group
  BY <1>3, GroupGoesOn DEF Group
<1>4. CASE Start
  BY <1>4, StartGoesOn DEF Loop
<1>5. CASE CheckConfig \/ Ranges \/ GroupsDone \/ Single \/ SinglesDone
  BY <1>5 DEF CheckConfig, Ranges, GroupsDone, Single, SinglesDone
<1>6. CASE WriteCryptoConfig \/ WriteConfigtx \/ WriteCollections \/ WriteScript
  BY <1>6 DEF WriteCryptoConfig, WriteConfigtx, WriteCollections, WriteScript
<1>7. CASE EndLoop
  BY <1>7, EndLoopGoesOn
<1> QED  BY <1>1, <1>2, <1>3, <1>4, <1>5, <1>6, <1>7 DEF Next

\* The ranges are computed once, in startup.
LEMMA IndicesKept ==
  ASSUME Next, ~Ranges
  PROVE  idx' = idx
<1>1. CASE Over
  BY <1>1 DEF Over, vars
<1>2. CASE Reject \/ RaftWithoutTls \/ InvalidPrivateFors \/ InvalidPolicy
  BY <1>2 DEF Reject, RaftWithoutTls, InvalidPrivateFors, InvalidPolicy, Raise
<1>3. CASE Group
  BY <1>3 DEF Group, Raise
<1>4. CASE Start
  BY <1>4 DEF Start, Raise
<1>5. CASE CheckConfig \/ GroupsDone \/ Single \/ SinglesDone
  BY <1>5 DEF CheckConfig, GroupsDone, Single, SinglesDone
<1>6. CASE WriteCryptoConfig \/ WriteConfigtx \/ WriteCollections
  BY <1>6 DEF WriteCryptoConfig, WriteConfigtx, WriteCollections
<1>7. CASE EndLoop \/ WriteScript
  BY <1>7 DEF EndLoop, WriteScript
<1> QED  BY <1>1, <1>2, <1>3, <1>4, <1>5, <1>6, <1>7 DEF Next

LEMMA AcceptedStep ==
  ASSUME TypeOK, StartInv, AcceptedInv, RangesInv, AcceptedComesUp, Next
  PROVE  AcceptedInv' /\ RangesInv' /\ AcceptedComesUp'
<1>1. AcceptedInv'
  <2>1. CASE CheckConfig
    BY <2>1, CheckAccepts DEF AcceptedInv
  <2>2. CASE ~CheckConfig
    <3>1. Accepted => Accepted'
      BY <2>2, SettingsKept, Frame
    <3>2. pc' \in AfterCheck => pc \in AfterCheck
      BY <2>2, Parts
    <3> QED  BY <3>1, <3>2 DEF AcceptedInv
  <2> QED  BY <2>1, <2>2
<1>2. RangesInv'
  <2>1. CASE Ranges
    BY <2>1, Frame DEF RangesInv, Ranges
  <2>2. CASE ~Ranges /\ pc' \in AfterRanges
    <3>1. pc \in AfterRanges /\ ~CheckConfig
      BY <2>2, Parts DEF CheckConfig
    <3> QED  BY <2>2, <3>1, SettingsKept, Frame, IndicesKept DEF RangesInv
  <2> QED  BY <2>1, <2>2 DEF RangesInv
<1>3. AcceptedComesUp'
  <2> SUFFICES ASSUME pc' = "raised", vmCount' > 0
               PROVE  (s'.type = "raft" /\ ~s'.tls) \/ ~ValidPrivateFors' \/ ~ValidPolicy'
    BY DEF AcceptedComesUp
  <2>1. s' = s /\ vmCount' = vmCount
    BY SettingsKept DEF CheckConfig
  <2>2. CASE pc = "raised"
    BY <2>1, <2>2, Frame DEF AcceptedComesUp
  <2>3. CASE Reject
    BY <2>1, <2>3 DEF Reject, StartInv
  <2>4. CASE RaftWithoutTls
    BY <2>1, <2>4 DEF RaftWithoutTls
  <2>5. CASE InvalidPolicy
    BY <2>1, <2>5, Frame DEF InvalidPolicy
  <2>6. CASE InvalidPrivateFors
    BY <2>1, <2>6, Frame DEF InvalidPrivateFors
  <2> QED  BY <2>2, <2>3, <2>4, <2>5, <2>6, Parts
<1> QED  BY <1>1, <1>2, <1>3

LEMMA StartStep ==
  ASSUME TypeOK, StartInv, AcceptedInv, RangesInv, Next
  PROVE  StartInv'
<1>1. pc' # "check"
  BY Parts
<1>2. ASSUME pc' = "ranges"
      PROVE  CheckConfig
  <2>1. ~Group /\ ~Start /\ ~Over /\ ~Single
    BY <1>2, GroupGoesOn, StartGoesOn DEF Group, Single, Over, vars, Loop
  <2>2. ~Reject /\ ~Ranges /\ ~GroupsDone /\ ~SinglesDone /\ ~RaftWithoutTls
        /\ ~InvalidPrivateFors /\ ~InvalidPolicy
    BY <1>2 DEF Reject, Ranges, GroupsDone, SinglesDone, RaftWithoutTls,
                InvalidPrivateFors, InvalidPolicy, Raise
  <2>3. ~WriteCryptoConfig /\ ~WriteConfigtx /\ ~WriteCollections /\ ~WriteScript /\ ~EndLoop
    BY <1>2, EndLoopGoesOn DEF WriteCryptoConfig, WriteConfigtx, WriteCollections, WriteScript
  <2> QED  BY <2>1, <2>2, <2>3 DEF Next
<1>3. CheckConfig => k' = k /\ idx' = idx /\ groups' = groups /\ pc = "check"
  BY DEF CheckConfig
<1> QED  BY <1>1, <1>2, <1>3 DEF StartInv

-----------------------------------------------------------------------------
(* The types                                                               *)

LEMMA MemberIsOrg ==
  ASSUME s \in Setting, NEW org \in Int, NEW index \in Int
  PROVE  Member(org, index) \in Org
<1>1. s.orgs \in Count1 /\ org + index \in Int
  BY SettingFacts
<1>2. (org + index) % s.orgs \in 0..(s.orgs - 1)
  BY <1>1, Division
<1> QED  BY <1>1, <1>2 DEF Member, Org, Count1

KBound == s.orderers + 2 * Peers(s) + s.zookeepers + s.kafkas

LEMMA CountersBounded ==
  ASSUME s \in Setting, Accepted
  PROVE  /\ KBound \in Nat
         /\ s.orgs <= KBound
         /\ vmCount \in Nat /\ vmCount <= KBound
         /\ s.orderers <= KBound /\ Peers(s) <= KBound
         /\ ZookeeperCount <= KBound /\ KafkaCount <= KBound
<1>1. /\ s.orgs \in Count1 /\ s.peers \in Count1 /\ s.orderers \in Count1
      /\ s.zookeepers \in Count1 /\ s.kafkas \in Count1
      /\ Peers(s) \in Count1
      /\ ZookeeperCount \in Nat /\ KafkaCount \in Nat
  BY SettingFacts
<1>2. s.orgs <= Peers(s)
  BY <1>1 DEF Peers, Count1
<1>3. ZookeeperCount <= s.zookeepers /\ KafkaCount <= s.kafkas
  BY <1>1 DEF ZookeeperCount, KafkaCount, Count1
<1>4. /\ vmCount = NextIndex + ZookeeperCount + KafkaCount
      /\ vmCount \in Count1
  BY Counted DEF Accepted
<1>5. NextIndex <= s.orderers + 2 * Peers(s) /\ NextIndex \in Nat
  <2>1. StartIndex \in Nat /\ StartIndex <= s.orderers
    BY <1>1 DEF StartIndex, Count1
  <2>2. DatabaseFactor = 1 \/ DatabaseFactor = 2
    BY DEF DatabaseFactor
  <2> QED  BY <1>1, <2>1, <2>2 DEF NextIndex, Count1
<1>6. KBound = s.orderers + 2 * Peers(s) + s.zookeepers + s.kafkas
  BY DEF KBound
<1> QED  BY <1>1, <1>2, <1>3, <1>4, <1>5, <1>6 DEF Count1

LEMMA NoContainersYet ==
  ASSUME ContainersInv, pc \in {"check", "ranges", "groups", "singles", "crypto",
                                "configtx", "collections"}
  PROVE  containers = {}
<1>1. \A loop \in Loop : Ran(loop) = {}
  BY DEF Ran, Loop
<1> QED  BY <1>1 DEF ContainersInv, RanInv

LEMMA TypeStep ==
  ASSUME TypeOK, StartInv, AcceptedInv, RangesInv, ContainersInv, Next
  PROVE  TypeOK'
<1>0. /\ s \in Setting /\ vmCount \in Nat /\ k \in 0..KBound
      /\ \A r \in Role : \A i \in DOMAIN idx[r] : idx[r][i] \in Machine
      /\ \A i \in DOMAIN groups : groups[i] \subseteq Machine
      /\ \A org \in DOMAIN members : members[org] \subseteq Org
      /\ required \in Nat
      /\ \A c \in containers : c.on \in Machine
  BY DEF TypeOK, KBound
<1>1. CASE CheckConfig
  <2>1. /\ pc' = "ranges" /\ k' = 0 /\ idx' = [r \in Role |-> <<>>] /\ groups' = <<>>
        /\ members' = <<>> /\ required' \in Nat
    BY <1>0, <1>1 DEF CheckConfig, StartInv
  <2>2. containers' = {}
    BY <1>1, NoContainersYet DEF CheckConfig
  <2>3. s' \in Setting /\ Accepted'
    BY <1>1, CheckAccepts
  <2>4. (s \in Setting /\ Accepted => KBound \in Nat /\ vmCount \in Nat)'
    BY CountersBounded, PTL
  <2>5. KBound' = s'.orderers + 2 * Peers(s') + s'.zookeepers + s'.kafkas
    BY DEF KBound, Peers
  <2> QED  BY <2>1, <2>2, <2>3, <2>4, <2>5 DEF TypeOK
<1>2. CASE ~CheckConfig
  <2>1. s' = s /\ vmCount' = vmCount
    BY <1>2, SettingsKept
  <2>2. /\ Machine' = Machine /\ Org' = Org /\ KBound' = KBound /\ KBound \in Int
        /\ 0 \in 0..KBound
    BY <1>0, <2>1, SettingFacts DEF Machine, Org, KBound, Peers, Count1
  <2>3. pc' \in {"check", "ranges", "groups", "singles", "crypto", "configtx",
                 "collections", "zookeeper", "kafka", "orderer", "peer", "script",
                 "up", "raised"}
    BY Parts DEF TypeOK
  <2> SUFFICES /\ k' \in 0..KBound
               /\ \A r \in Role : \A i \in DOMAIN idx'[r] : idx'[r][i] \in Machine
               /\ \A i \in DOMAIN groups' : groups'[i] \subseteq Machine
               /\ \A org \in DOMAIN members' : members'[org] \subseteq Org
               /\ required' \in Nat
               /\ \A c \in containers' : c.on \in Machine
    BY <1>0, <2>1, <2>2, <2>3 DEF TypeOK, KBound
  <2>4. CASE Over
    BY <1>0, <2>4 DEF Over, vars
  <2>5. CASE Reject \/ RaftWithoutTls \/ InvalidPrivateFors \/ InvalidPolicy
    BY <1>0, <2>5 DEF Reject, RaftWithoutTls, InvalidPrivateFors, InvalidPolicy, Raise
  <2>6. CASE Ranges
    <3>1. Accepted /\ idx' = Indices
      BY <2>6 DEF Ranges, AcceptedInv
    <3>2. (s \in Setting /\ idx = Indices => Laid)'
      BY IndicesLaid, PTL
    <3>3. (s \in Setting /\ Laid /\ Accepted
             => \A r \in Role : \A i \in DOMAIN idx[r] : idx[r][i] \in Machine)'
      BY IndicesAreMachines, PTL
    <3>4. \A r \in Role : \A i \in DOMAIN idx'[r] : idx'[r][i] \in Machine
      BY <1>0, <2>1, <2>2, <3>1, <3>2, <3>3, Frame
    <3> QED  BY <1>0, <2>6, <3>4 DEF Ranges
  <2>7. CASE Group
    <3>1. k' \in 0..KBound
      <4>1. Accepted /\ k + 1 <= s.orgs /\ k' = k + 1 /\ k \in Nat
        BY <1>0, <2>7, GroupGoesOn, SettingFacts DEF Group, AcceptedInv, Count1
      <4>2. s.orgs \in Nat /\ s.orgs <= KBound
        BY <1>0, <4>1, SettingFacts, CountersBounded DEF Count1
      <4> QED  BY <2>2, <4>1, <4>2
    <3>2. groups' = Append(groups, GroupOf(k)) /\ GroupOf(k) \subseteq Machine
      BY <2>7, GroupGoesOn
    <3>3. \A i \in DOMAIN groups' : groups'[i] \subseteq Machine
      BY <1>0, <3>2
    <3> QED  BY <1>0, <2>7, <3>1, <3>3, GroupGoesOn
  <2>8. CASE GroupsDone \/ SinglesDone
    BY <1>0, <2>2, <2>8 DEF GroupsDone, SinglesDone
  <2>9. CASE Single
    <3>1. k' \in 0..KBound
      <4>1. Accepted /\ k + 1 <= vmCount /\ k' = k + 1 /\ k \in Nat
        BY <1>0, <2>9 DEF Single, AcceptedInv, Machine
      <4> QED  BY <1>0, <2>2, <4>1, CountersBounded
    <3>2. \/ groups' = groups
          \/ groups' = Append(groups, {k}) /\ {k} \subseteq Machine
      BY <2>9 DEF Single
    <3>3. \A i \in DOMAIN groups' : groups'[i] \subseteq Machine
      BY <1>0, <3>2
    <3> QED  BY <1>0, <2>9, <3>1, <3>3 DEF Single
  <2>10. CASE WriteCryptoConfig \/ WriteConfigtx
    BY <1>0, <2>10 DEF WriteCryptoConfig, WriteConfigtx
  <2>11. CASE WriteCollections
    <3>1. \A org \in Org : \A index \in 0..(PrivateFors - 1) : Member(org, index) \in Org
      <4> SUFFICES ASSUME NEW org \in Org, NEW index \in 0..(PrivateFors - 1)
                   PROVE  Member(org, index) \in Org
        OBVIOUS
      <4>1. org \in Int /\ index \in Int
        BY DEF Org
      <4> QED  BY <1>0, <4>1, MemberIsOrg
    <3> QED  BY <1>0, <2>11, <3>1 DEF WriteCollections
  <2>12. CASE Start
    <3>1. k' \in 0..KBound
      <4>1. Accepted /\ k' = k + 1 /\ pc \in Loop /\ k \in DOMAIN idx[pc] /\ Laid
        BY <1>0, <2>12, StartGoesOn, IndicesLaid DEF AcceptedInv, RangesInv, Loop
      <4>2. /\ s.orderers \in Nat /\ Peers(s) \in Nat /\ ZookeeperCount \in Nat
            /\ KafkaCount \in Nat
        BY <1>0, SettingFacts DEF Count1
      <4>3. k + 1 \in {0} \cup (1..s.orderers) \cup (1..Peers(s)) \cup (1..ZookeeperCount) \cup (1..KafkaCount)
        BY <4>1, <4>2 DEF Laid, Loop
      <4> QED  BY <1>0, <2>2, <4>1, <4>2, <4>3, CountersBounded
    <3> QED  BY <1>0, <2>12, <3>1, StartGoesOn
  <2>13. CASE EndLoop
    BY <1>0, <2>2, <2>13, EndLoopGoesOn
  <2>14. CASE WriteScript
    <3>1. required' \in Nat
      BY <1>0, <2>14, SettingFacts DEF WriteScript, ValidPolicy, Count1
    <3> QED  BY <1>0, <2>14, <3>1 DEF WriteScript
  <2> QED  BY <1>2, <2>4, <2>5, <2>6, <2>7, <2>8, <2>9, <2>10, <2>11, <2>12, <2>13,
              <2>14 DEF Next
<1> QED  BY <1>1, <1>2

-----------------------------------------------------------------------------
(* The files                                                               *)

LEMMA FilesKept ==
  ASSUME Next
  PROVE  /\ ~WriteCryptoConfig => certs' = certs
         /\ ~WriteConfigtx => tx' = tx
         /\ ~WriteCollections => members' = members
         /\ ~WriteScript => required' = required
<1>1. CASE Over
  BY <1>1 DEF Over, vars
<1>2. CASE Reject \/ RaftWithoutTls \/ InvalidPrivateFors \/ InvalidPolicy
  BY <1>2 DEF Reject, RaftWithoutTls, InvalidPrivateFors, InvalidPolicy, Raise
<1>3. CASE Group
  BY <1>3 DEF Group, Raise
<1>4. CASE Start
  BY <1>4 DEF Start, Raise
<1>5. CASE CheckConfig \/ Ranges \/ GroupsDone \/ Single \/ SinglesDone
  BY <1>5 DEF CheckConfig, Ranges, GroupsDone, Single, SinglesDone
<1>6. CASE WriteCryptoConfig
  BY <1>6 DEF WriteCryptoConfig
<1>7. CASE WriteConfigtx
  BY <1>7 DEF WriteConfigtx
<1>8. CASE WriteCollections
  BY <1>8 DEF WriteCollections
<1>9. CASE EndLoop
  BY <1>9 DEF EndLoop
<1>10. CASE WriteScript
  BY <1>10 DEF WriteScript
<1> QED  BY <1>1, <1>2, <1>3, <1>4, <1>5, <1>6, <1>7, <1>8, <1>9, <1>10 DEF Next

LEMMA FilesStep ==
  ASSUME TypeOK, AcceptedInv, RangesInv, Next,
         CertsInv, TxInv, MembersInv, RequiredInv
  PROVE  CertsInv' /\ TxInv' /\ MembersInv' /\ RequiredInv'
<1>1. CertsInv'
  <2>1. CASE WriteCryptoConfig
    BY <2>1 DEF WriteCryptoConfig, CertsInv, Org
  <2>2. CASE ~WriteCryptoConfig /\ pc' \in AfterCrypto
    <3>1. pc \in AfterCrypto /\ ~CheckConfig
      BY <2>2, Parts DEF CheckConfig
    <3> QED  BY <2>2, <3>1, SettingsKept, FilesKept DEF CertsInv, Org
  <2> QED  BY <2>1, <2>2 DEF CertsInv
<1>2. TxInv'
  <2>1. CASE WriteConfigtx
    <3>1. /\ s' = s /\ tx'.anchors = Anchors
          /\ tx'.consenters = IF s.type = "raft" THEN Consenters ELSE {}
          /\ tx'.addresses = Addresses
          /\ tx'.brokers = IF s.type = "kafka" THEN Brokers ELSE {}
          /\ tx'.rules = Rules /\ tx'.consortium = Consortium /\ tx'.msps = Msps
          /\ tx'.acls = Acls /\ tx'.policies = Policies
      BY <2>1 DEF WriteConfigtx
    <3>2. Anchors' = Anchors /\ Brokers' = Brokers /\ OrgAdmins' = OrgAdmins
      BY <3>1 DEF Anchors, Brokers, OrgAdmins, Org
    <3>3. tx'.consenters \cup tx'.addresses \subseteq {Orderer(o) : o \in 1..s'.orderers}
      BY <3>1 DEF Consenters, Addresses
    <3>4. tx'.rules \ tx'.msps = OrgAdmins /\ tx'.consortium \subseteq tx'.msps
      BY <3>1 DEF Rules, OrgAdmins, Consortium, Msps
    <3>5. tx'.acls \subseteq tx'.policies
      BY <3>1 DEF Acls, Policies
    <3> QED  BY <3>1, <3>2, <3>3, <3>4, <3>5 DEF TxInv
  <2>2. CASE ~WriteConfigtx /\ pc' \in AfterConfigtx
    <3>1. pc \in AfterConfigtx /\ ~CheckConfig
      BY <2>2, Parts DEF CheckConfig
    <3>2. s' = s /\ tx' = tx
      BY <2>2, <3>1, SettingsKept, FilesKept
    <3>3. Anchors' = Anchors /\ Brokers' = Brokers /\ OrgAdmins' = OrgAdmins
      BY <3>2 DEF Anchors, Brokers, OrgAdmins, Org
    <3> QED  BY <3>1, <3>2, <3>3 DEF TxInv
  <2> QED  BY <2>1, <2>2 DEF TxInv
<1>3. MembersInv'
  <2>1. CASE WriteCollections
    BY <2>1 DEF WriteCollections, MembersInv, Org, Member, ValidPrivateFors,
              PrivateFors
  <2>2. CASE ~WriteCollections /\ pc' \in AfterCollections
    <3>1. pc \in AfterCollections /\ ~CheckConfig
      BY <2>2, Parts DEF CheckConfig
    <3> QED  BY <2>2, <3>1, SettingsKept, FilesKept DEF MembersInv, Org, Member, ValidPrivateFors,
              PrivateFors
  <2> QED  BY <2>1, <2>2 DEF MembersInv
<1>4. RequiredInv'
  <2>1. CASE WriteScript
    <3>1. s.orgs \in Nat \ {0} /\ s' = s /\ ValidPolicy
      BY <2>1, SettingFacts DEF TypeOK, WriteScript, Count1
    <3>2. required' \in 1..s.orgs
      BY <2>1, <3>1 DEF WriteScript, ValidPolicy
    <3> QED  BY <3>1, <3>2 DEF RequiredInv
  <2>2. CASE ~WriteScript /\ pc' = "up"
    <3>1. pc = "up" /\ ~CheckConfig
      BY <2>2, Parts DEF CheckConfig
    <3> QED  BY <2>2, <3>1, SettingsKept, FilesKept DEF RequiredInv
  <2> QED  BY <2>1, <2>2 DEF RequiredInv
<1> QED  BY <1>1, <1>2, <1>3, <1>4

-----------------------------------------------------------------------------
(* The containers                                                          *)

LEMMA StartedAtKept ==
  ASSUME s' = s, idx' = idx, NEW loop \in Loop, NEW i
  PROVE  StartedAt(loop, i)' = StartedAt(loop, i)
<1>1. /\ ZookeeperAt(i)' = ZookeeperAt(i)
      /\ KafkaAt(i)' = KafkaAt(i)
  BY DEF ZookeeperAt, KafkaAt, Zookeepers
<1>2. OrdererAt(i)' = OrdererAt(i)
  BY DEF OrdererAt
<1>3. PeerAt(i)' = PeerAt(i)
  BY DEF PeerAt, Slot
<1> QED  BY <1>1, <1>2, <1>3 DEF StartedAt

LEMMA LoopLists ==
  ASSUME s \in Setting, Laid, NEW loop \in Loop
  PROVE  \E n \in Nat : DOMAIN idx[loop] = 0..(n - 1)
<1>1. /\ s.orderers \in Nat /\ Peers(s) \in Nat /\ ZookeeperCount \in Nat
      /\ KafkaCount \in Nat
  BY SettingFacts DEF Count1
<1> QED  BY <1>1 DEF Laid, Loop

\* What was started is the same when no loop moves.
LEMMA RanKept ==
  ASSUME RanInv, s' = s, idx' = idx, containers' = containers,
         \A loop \in Loop : Ran(loop)' = Ran(loop)
  PROVE  RanInv'
<1>1. \A loop \in Loop : \A i : StartedAt(loop, i)' = StartedAt(loop, i)
  BY StartedAtKept
<1> QED  BY <1>1 DEF RanInv

LEMMA ContainersKept ==
  ASSUME Next, ~Start
  PROVE  containers' = containers
<1>1. CASE Over
  BY <1>1 DEF Over, vars
<1>2. CASE Reject \/ RaftWithoutTls \/ InvalidPrivateFors \/ InvalidPolicy
  BY <1>2 DEF Reject, RaftWithoutTls, InvalidPrivateFors, InvalidPolicy, Raise
<1>3. CASE Group
  BY <1>3 DEF Group, Raise
<1>5. CASE CheckConfig \/ Ranges \/ GroupsDone \/ Single \/ SinglesDone
  BY <1>5 DEF CheckConfig, Ranges, GroupsDone, Single, SinglesDone
<1>6. CASE WriteCryptoConfig \/ WriteConfigtx \/ WriteCollections
  BY <1>6 DEF WriteCryptoConfig, WriteConfigtx, WriteCollections
<1>7. CASE EndLoop \/ WriteScript
  BY <1>7 DEF EndLoop, WriteScript
<1> QED  BY <1>1, <1>2, <1>3, <1>5, <1>6, <1>7 DEF Next

LEMMA ContainersStep ==
  ASSUME TypeOK, StartInv, AcceptedInv, RangesInv, ContainersInv, Next
  PROVE  ContainersInv'
<1>1. pc' \in {"crypto", "configtx", "collections"} => k' = 0
  <2> SUFFICES ASSUME pc' \in {"crypto", "configtx", "collections"}
               PROVE  k' = 0
    OBVIOUS
  <2>1. SinglesDone => k' = 0
    BY DEF SinglesDone
  <2>2. WriteCryptoConfig \/ WriteConfigtx => k' = 0
    BY DEF WriteCryptoConfig, WriteConfigtx, ContainersInv
  <2>3. ~Group /\ ~Start /\ ~EndLoop
    BY GroupGoesOn, StartGoesOn, EndLoopGoesOn DEF Group, Loop
  <2>4. ~(CheckConfig \/ Reject \/ Ranges \/ GroupsDone \/ Single \/ Over)
    BY DEF CheckConfig, Reject, Ranges, GroupsDone, Single, Raise, Over, vars
  <2>5. ~(RaftWithoutTls \/ WriteCollections \/ WriteScript \/ InvalidPrivateFors \/ InvalidPolicy)
    BY DEF RaftWithoutTls, WriteCollections, WriteScript, InvalidPrivateFors,
           InvalidPolicy, Raise
  <2> QED  BY <2>1, <2>2, <2>3, <2>4, <2>5 DEF Next
<1>2. ASSUME pc' # "raised"
      PROVE  RanInv'
  <2>1. RanInv /\ pc # "raised"
    BY <1>2, Parts DEF ContainersInv, Next, Over, vars
  <2>2. CASE Start
    <3>1. /\ pc \in Loop /\ k \in DOMAIN idx[pc] /\ k' = k + 1 /\ pc' = pc
          /\ containers' = containers \cup StartedAt(pc, k)
          /\ s' = s /\ idx' = idx
      BY <2>2, StartGoesOn
    <3>2. k \in Nat
      BY <2>1, <3>1 DEF TypeOK
    <3>3. Ran(pc) = 0..(k - 1) /\ Ran(pc)' = 0..k
      BY <3>1, <3>2 DEF Ran, Loop
    <3>4. Ran(pc)' = Ran(pc) \cup {k}
      BY <3>2, <3>3
    <3>5. \A loop \in Loop \ {pc} : Ran(loop)' = Ran(loop)
      BY <3>1 DEF Ran, Loop
    <3>6. \A loop \in Loop : \A i : StartedAt(loop, i)' = StartedAt(loop, i)
      BY <3>1, StartedAtKept
    <3> QED  BY <2>1, <3>1, <3>4, <3>5, <3>6 DEF RanInv
  <2>3. CASE EndLoop
    <3>1. /\ pc \in Loop /\ k \notin DOMAIN idx[pc] /\ k' = 0
          /\ containers' = containers /\ s' = s /\ idx' = idx
          /\ \/ pc = "zookeeper" /\ pc' = "kafka"
             \/ pc = "kafka" /\ pc' = "orderer"
             \/ pc = "orderer" /\ pc' = "peer"
             \/ pc = "peer" /\ pc' = "script"
      BY <2>3, EndLoopGoesOn
    <3>2. k \in Nat /\ Ran(pc) = 0..(k - 1) /\ Ran(pc) \subseteq DOMAIN idx[pc]
      BY <2>1, <3>1 DEF TypeOK, Ran, Loop, RanInv
    <3>3. PICK n \in Nat : DOMAIN idx[pc] = 0..(n - 1)
      BY <3>1, IndicesLaid, LoopLists DEF TypeOK, RangesInv, Loop
    <3>4. DOMAIN idx[pc] = 0..(k - 1)
      <4>1. k >= n
        BY <3>1, <3>2, <3>3
      <4>2. k <= n
        <5>1. CASE k = 0
          BY <5>1, <3>3
        <5>2. CASE k > 0
          BY <5>2, <3>2, <3>3, k - 1 \in 0..(k - 1)
        <5> QED  BY <5>1, <5>2, <3>2
      <4> QED  BY <4>1, <4>2, <3>2, <3>3
    <3>5. \A loop \in Loop : Ran(loop)' = Ran(loop)
      <4>1. 0..(k' - 1) = {}
        BY <3>1
      <4> SUFFICES ASSUME NEW loop \in Loop
                   PROVE  Ran(loop)' = Ran(loop)
        OBVIOUS
      <4>2. CASE loop = pc
        <5>1. Ran(loop) = DOMAIN idx[loop]
          BY <3>2, <3>4, <4>2
        <5>2. Ran(loop)' = DOMAIN idx'[loop]
          BY <3>1, <4>2 DEF Ran, Loop
        <5> QED  BY <3>1, <5>1, <5>2
      <4>3. CASE loop # pc
        BY <3>1, <4>1, <4>3 DEF Ran, Loop
      <4> QED  BY <4>2, <4>3
    <3> QED  BY <2>1, <3>1, <3>5, RanKept
  <2>4. CASE pc \in {"check", "ranges", "groups", "singles", "crypto", "configtx",
                     "collections"}
    <3>1. containers' = {}
      BY <2>4, ContainersKept, NoContainersYet DEF Start, InLoop
    <3>2. \A loop \in Loop : Ran(loop)' = {}
      <4>1. pc' \in {"ranges", "groups", "singles", "crypto", "configtx", "collections",
                     "zookeeper"}
        BY <1>2, <2>4, Parts
      <4>2. pc' = "zookeeper" => WriteCollections
        BY <1>2, <2>4, Parts
      <4>3. WriteCollections => k' = 0
        BY DEF WriteCollections, ContainersInv
      <4>4. pc' = "zookeeper" => 0..(k' - 1) = {}
        BY <4>2, <4>3
      <4> QED  BY <4>1, <4>4 DEF Ran, Loop
    <3> QED  BY <3>1, <3>2 DEF RanInv
  <2>5. CASE Over \/ WriteScript
    <3>1. /\ s' = s /\ idx' = idx /\ containers' = containers /\ k' = k
          /\ pc \in {"script", "up"} /\ pc' = "up"
      BY <2>1, <2>5 DEF Over, vars, WriteScript
    <3>2. \A loop \in Loop : Ran(loop)' = Ran(loop)
      BY <3>1 DEF Ran, Loop
    <3> QED  BY <2>1, <3>1, <3>2, RanKept
  <2>6. Start \/ EndLoop \/ Over \/ WriteScript
          \/ pc \in {"check", "ranges", "groups", "singles", "crypto", "configtx",
                     "collections"}
    BY <1>2 DEF Next, CheckConfig, Reject, Ranges, Group, GroupsDone, Single, SinglesDone,
       WriteCryptoConfig, WriteConfigtx, RaftWithoutTls, WriteCollections, InvalidPrivateFors,
       InvalidPolicy, Raise
  <2> QED  BY <2>2, <2>3, <2>4, <2>5, <2>6
<1> QED  BY <1>1, <1>2 DEF ContainersInv

-----------------------------------------------------------------------------
(* The groups                                                              *)

LEMMA PeerRangeRemainder ==
  ASSUME s \in Setting, NEW org \in 0..(s.orgs - 1), NEW n \in PeerRange(org)
  PROVE  n % s.orgs = org
<1>1. s.orgs \in Count1
  BY SettingFacts
<1>2. PICK i \in 0..(s.peers - 1) : n = org + i * s.orgs
  BY DEF PeerRange
<1>3. n = i * s.orgs + org /\ i \in Int
  BY <1>1, <1>2 DEF Count1
<1> QED  BY <1>1, <1>3, DivisionUnique

LEMMA SharesApart ==
  ASSUME s \in Setting, NEW a \in 0..(s.orgs - 1), NEW b \in 0..(s.orgs - 1), a < b
  PROVE  Share(a) \cap Share(b) = {}
<1> DEFINE n == s.orderers \div s.orgs
<1>1. n \in Nat
  BY SettingFacts, Division, s.orderers \in Int DEF Count1
<1>2. /\ (a + 1) * n \in Int /\ b * n \in Int
      /\ (a + 1) * n <= b * n
  <2> HIDE DEF n
  <2>1. a \in Nat /\ b \in Nat
    OBVIOUS
  <2> QED  BY <1>1, <2>1, BlocksInOrder
<1>3. ASSUME NEW m \in Share(a), m \in Share(b)
      PROVE  FALSE
  <2>1. m \in (a * n)..((a + 1) * n - 1) /\ m \in (b * n)..((b + 1) * n - 1)
    BY <1>3 DEF Share
  <2> HIDE DEF n
  <2> QED  BY <1>2, <2>1
<1> QED  BY <1>3

\* A machine of a group is there as a peer, a database or an orderer.
LEMMA GroupMember ==
  ASSUME s \in Setting, Laid, NEW org \in 0..(s.orgs - 1), NEW m \in GroupOf(org)
  PROVE  \/ \E n \in PeerRange(org) : m = StartIndex + n
         \/ External /\ \E n \in PeerRange(org) : m = StartIndex + Peers(s) + n
         \/ m \in Share(org)
<1>1. /\ \A n \in PeerRange(org) : n \in 0..(Peers(s) - 1)
      /\ \A n \in Share(org) : n \in 0..(s.orderers - 1)
  BY PeerRangeBound, ShareBound
<1>2. /\ \A n \in PeerRange(org) : idx["peer"][n] = StartIndex + n
      /\ External => \A n \in PeerRange(org) : idx["db"][n] = StartIndex + Peers(s) + n
      /\ \A n \in Share(org) : idx["orderer"][n] = n
  BY <1>1 DEF Laid
<1>3. CASE m \in Lookup("peer", PeerRange(org))
  BY <1>2, <1>3 DEF Lookup
<1>4. CASE m \in Lookup("orderer", Share(org))
  BY <1>2, <1>4 DEF Lookup
<1>5. CASE External /\ m \in Lookup("db", PeerRange(org))
  BY <1>2, <1>5 DEF Lookup
<1> QED  BY <1>3, <1>4, <1>5 DEF GroupOf

\* Different groups share no machine.
LEMMA GroupsApart ==
  ASSUME s \in Setting, Laid, ~Shared,
         NEW a \in 0..(s.orgs - 1), NEW b \in 0..(s.orgs - 1), a < b
  PROVE  GroupOf(a) \cap GroupOf(b) = {}
<1>1. /\ s.orgs \in Count1 /\ s.orderers \in Count1 /\ Peers(s) \in Count1
      /\ StartIndex \in Nat /\ s.internal \in BOOLEAN
  BY SettingFacts
<1>2. ASSUME NEW org \in {a, b}, NEW n \in PeerRange(org)
      PROVE  n \in 0..(Peers(s) - 1) /\ n % s.orgs = org
  BY PeerRangeBound, PeerRangeRemainder
<1>3. ASSUME NEW org \in {a, b}, NEW n \in Share(org)
      PROVE  n \in 0..(StartIndex - 1)
  <2>1. n \in 0..(s.orderers - 1)
    BY ShareBound
  <2>2. s.orderers % s.orgs = 0
    BY DEF Share
  <2>3. ~s.internal
    BY <1>1, <2>2 DEF Shared, Count1
  <2> QED  BY <2>1, <2>3 DEF StartIndex
<1>4. Share(a) \cap Share(b) = {}
  BY SharesApart
<1>5. ASSUME NEW m \in GroupOf(a), m \in GroupOf(b)
      PROVE  FALSE
  <2> DEFINE N == Peers(s)
  <2>1. ASSUME NEW org \in {a, b}, m \in GroupOf(org)
        PROVE  \/ \E n \in 0..(N - 1) : m = StartIndex + n /\ n % s.orgs = org
               \/ \E n \in 0..(N - 1) : m = StartIndex + N + n /\ n % s.orgs = org
               \/ m \in 0..(StartIndex - 1) /\ m \in Share(org)
    <3>1. \/ \E n \in PeerRange(org) : m = StartIndex + n
          \/ External /\ \E n \in PeerRange(org) : m = StartIndex + Peers(s) + n
          \/ m \in Share(org)
      BY <2>1, GroupMember
    <3> QED  BY <3>1, <1>2, <1>3
  <2>2. N \in Nat /\ a # b
    BY <1>1 DEF Count1
  <2> HIDE DEF N
  <2>3. CASE m < StartIndex
    <3>1. m \in Share(a) /\ m \in Share(b)
      BY <1>1, <1>5, <2>1, <2>2, <2>3
    <3> QED  BY <3>1, <1>4
  <2>4. CASE m >= StartIndex /\ m < StartIndex + N
    <3>1. /\ \E n \in 0..(N - 1) : m = StartIndex + n /\ n % s.orgs = a
          /\ \E n \in 0..(N - 1) : m = StartIndex + n /\ n % s.orgs = b
      BY <1>1, <1>5, <2>1, <2>2, <2>4
    <3>2. PICK x \in 0..(N - 1) : m = StartIndex + x /\ x % s.orgs = a
      BY <3>1
    <3>3. PICK y \in 0..(N - 1) : m = StartIndex + y /\ y % s.orgs = b
      BY <3>1
    <3>4. x = y
      BY <1>1, <3>2, <3>3
    <3> QED  BY <2>2, <3>2, <3>3, <3>4
  <2>5. CASE m >= StartIndex + N
    <3>1. /\ \E n \in 0..(N - 1) : m = StartIndex + N + n /\ n % s.orgs = a
          /\ \E n \in 0..(N - 1) : m = StartIndex + N + n /\ n % s.orgs = b
      BY <1>1, <1>5, <2>1, <2>2, <2>5
    <3>2. PICK x \in 0..(N - 1) : m = StartIndex + N + x /\ x % s.orgs = a
      BY <3>1
    <3>3. PICK y \in 0..(N - 1) : m = StartIndex + N + y /\ y % s.orgs = b
      BY <3>1
    <3>4. x = y
      BY <1>1, <2>2, <3>2, <3>3
    <3> QED  BY <2>2, <3>2, <3>3, <3>4
  <2>6. m \in Int
    BY <1>1, <1>5, <2>1, <2>2
  <2> QED  BY <1>1, <2>2, <2>3, <2>4, <2>5, <2>6
<1> QED  BY <1>5

LEMMA GroupsKept ==
  ASSUME Next, ~Group, ~Single
  PROVE  groups' = groups
<1>1. CASE Over
  BY <1>1 DEF Over, vars
<1>2. CASE Reject \/ RaftWithoutTls \/ InvalidPrivateFors \/ InvalidPolicy
  BY <1>2 DEF Reject, RaftWithoutTls, InvalidPrivateFors, InvalidPolicy, Raise
<1>3. CASE Start
  BY <1>3 DEF Start, Raise
<1>4. CASE CheckConfig \/ Ranges \/ GroupsDone \/ SinglesDone
  BY <1>4 DEF CheckConfig, Ranges, GroupsDone, SinglesDone
<1>5. CASE WriteCryptoConfig \/ WriteConfigtx \/ WriteCollections
  BY <1>5 DEF WriteCryptoConfig, WriteConfigtx, WriteCollections
<1>6. CASE EndLoop \/ WriteScript
  BY <1>6 DEF EndLoop, WriteScript
<1> QED  BY <1>1, <1>2, <1>3, <1>4, <1>5, <1>6 DEF Next

LEMMA GroupOfKept ==
  ASSUME s' = s, idx' = idx, NEW i
  PROVE  GroupOf(i)' = GroupOf(i)
<1>1. /\ PeerRange(i)' = PeerRange(i) /\ Share(i)' = Share(i)
      /\ External' = External
  BY DEF PeerRange, Share, External
<1> QED  BY <1>1 DEF GroupOf, Lookup

\* One more group, apart from the others, leaves them disjoint.
LEMMA DisjointAppend ==
  ASSUME groups \in Seq(SUBSET Int), NEW g \in SUBSET Int, groups' = Append(groups, g),
         Disjoint, \A i \in DOMAIN groups : groups[i] \cap g = {}
  PROVE  Disjoint'
<1>1. /\ DOMAIN groups = 1..Len(groups) /\ Len(groups) \in Nat
      /\ DOMAIN groups' = 1..(Len(groups) + 1)
      /\ \A i \in DOMAIN groups : groups'[i] = groups[i]
      /\ groups'[Len(groups) + 1] = g
  OBVIOUS
<1>2. \A i \in DOMAIN groups' : i \in DOMAIN groups \/ i = Len(groups) + 1
  BY <1>1
<1> QED  BY <1>1, <1>2 DEF Disjoint

LEMMA GroupsStep ==
  ASSUME TypeOK, StartInv, AcceptedInv, RangesInv, GroupsInv, Next
  PROVE  GroupsInv'
<1>0. s \in Setting /\ groups \in Seq(SUBSET Int) /\ k \in Nat /\ vmCount \in Nat
  BY DEF TypeOK, GroupsInv
<1>1. CASE Ranges
  <2>1. groups' = <<>> /\ k' = 0 /\ pc' = "groups"
    BY <1>1 DEF Ranges, StartInv
  <2> QED  BY <2>1 DEF GroupsInv, Disjoint
<1>2. CASE Group
  <2>1. /\ groups' = Append(groups, GroupOf(k)) /\ k' = k + 1
        /\ k \in 0..(s.orgs - 1) /\ GroupOf(k) \subseteq Machine
        /\ s' = s /\ vmCount' = vmCount /\ idx' = idx /\ pc' = "groups" /\ pc = "groups"
    BY <1>2, GroupGoesOn DEF Group
  <2>2. k = Len(groups) /\ \A i \in 1..k : groups[i] = GroupOf(i - 1)
    BY <2>1 DEF GroupsInv
  <2>3. GroupOf(k) \in SUBSET Int
    BY <2>1 DEF Machine
  <2> DEFINE g == GroupOf(k)
  <2>4. /\ groups' \in Seq(SUBSET Int) /\ Len(groups') = k + 1
        /\ \A i \in 1..k : groups'[i] = groups[i]
        /\ groups'[k + 1] = g
    <3>1. g \in SUBSET Int /\ groups' = Append(groups, g)
      BY <2>1, <2>3
    <3> HIDE DEF g
    <3> QED  BY <1>0, <2>2, <3>1
  <2>5. \A i \in 1..(k + 1) : groups'[i] = GroupOf(i - 1)
    <3> SUFFICES ASSUME NEW i \in 1..(k + 1)
                 PROVE  groups'[i] = GroupOf(i - 1)
      OBVIOUS
    <3>1. CASE i = k + 1
      <4>1. i - 1 = k
        BY <1>0, <3>1
      <4> QED  BY <2>4, <3>1, <4>1
    <3>2. CASE i \in 1..k
      BY <2>2, <2>4, <3>2
    <3> QED  BY <1>0, <3>1, <3>2
  <2>6. \A i : GroupOf(i)' = GroupOf(i)
    BY <2>1, GroupOfKept
  <2>7. ~Shared' => Disjoint'
    <3> SUFFICES ASSUME ~Shared
                 PROVE  Disjoint'
      BY <2>1 DEF Shared
    <3>1. Laid
      BY <1>0, <2>1, IndicesLaid DEF RangesInv
    <3>2. \A i \in DOMAIN groups : groups[i] \cap GroupOf(k) = {}
      <4> SUFFICES ASSUME NEW i \in DOMAIN groups
                   PROVE  groups[i] \cap GroupOf(k) = {}
        OBVIOUS
      <4>1. i \in 1..k /\ groups[i] = GroupOf(i - 1)
        BY <1>0, <2>2
      <4>2. i - 1 \in 0..(s.orgs - 1) /\ i - 1 < k
        BY <1>0, <2>1, <4>1, SettingFacts DEF Count1
      <4>3. GroupOf(i - 1) \cap GroupOf(k) = {}
        BY <1>0, <2>1, <3>1, <4>2, GroupsApart
      <4> QED  BY <4>1, <4>3
    <3>3. Disjoint
      BY <2>1 DEF GroupsInv
    <3> QED  BY <1>0, <2>1, <2>3, <3>2, <3>3, DisjointAppend
  <2> QED  BY <2>1, <2>4, <2>5, <2>6, <2>7 DEF GroupsInv
<1>3. CASE GroupsDone
  <2>1. /\ groups' = groups /\ s' = s /\ vmCount' = vmCount /\ k' = 0
        /\ pc = "groups" /\ pc' = "singles"
    BY <1>3 DEF GroupsDone
  <2>2. Machine' \subseteq Nat
    BY DEF Machine
  <2> QED  BY <1>0, <2>1, <2>2 DEF GroupsInv, Shared, Disjoint
<1>4. CASE Single
  <2>1. /\ pc = "singles" /\ pc' = "singles" /\ k \in Machine /\ k' = k + 1
        /\ s' = s /\ vmCount' = vmCount
        /\ groups' = IF k \in Grouped THEN groups ELSE Append(groups, {k})
    BY <1>4 DEF Single
  <2>2. /\ ~Shared => Disjoint
        /\ \A m \in Machine : m < k => m \in Grouped
    BY <2>1 DEF GroupsInv
  <2>3. Machine' = Machine /\ Machine \subseteq Int
    BY <2>1 DEF Machine
  <2>4. CASE k \in Grouped
    <3>1. groups' = groups /\ Grouped' = Grouped
      BY <2>1, <2>4 DEF Grouped
    <3>2. \A m \in Machine : m < k + 1 => m < k \/ m = k
      BY <1>0, <2>3
    <3> QED  BY <1>0, <2>1, <2>2, <2>3, <2>4, <3>1, <3>2 DEF GroupsInv, Shared, Disjoint
  <2>5. CASE k \notin Grouped
    <3>1. groups' = Append(groups, {k}) /\ {k} \in SUBSET Int
      BY <1>0, <2>1, <2>5
    <3>2. /\ groups' \in Seq(SUBSET Int)
          /\ DOMAIN groups = 1..Len(groups) /\ DOMAIN groups' = 1..(Len(groups) + 1)
          /\ \A i \in DOMAIN groups : groups'[i] = groups[i]
          /\ groups'[Len(groups) + 1] = {k}
          /\ Len(groups) + 1 \in DOMAIN groups'
      BY <1>0, <3>1
    <3>3. Grouped \subseteq Grouped' /\ k \in Grouped'
      BY <3>2 DEF Grouped
    <3>4. \A m \in Machine : m < k + 1 => m \in Grouped'
      BY <1>0, <2>2, <2>3, <3>3
    <3>5. \A i \in DOMAIN groups : groups[i] \cap {k} = {}
      BY <2>5 DEF Grouped
    <3>6. ~Shared => Disjoint'
      BY <1>0, <2>2, <3>1, <3>5, DisjointAppend
    <3> QED  BY <2>1, <2>3, <3>2, <3>4, <3>6 DEF GroupsInv, Shared
  <2> QED  BY <2>4, <2>5
<1>5. CASE SinglesDone
  <2>1. /\ groups' = groups /\ s' = s /\ vmCount' = vmCount
        /\ pc = "singles" /\ pc' = "crypto" /\ k \notin Machine
    BY <1>5 DEF SinglesDone
  <2>2. Machine \subseteq Grouped
    BY <1>0, <2>1 DEF GroupsInv, Machine
  <2> QED  BY <2>1, <2>2 DEF GroupsInv, Shared, Disjoint, Machine, Grouped
<1>6. CASE ~Ranges /\ ~Group /\ ~GroupsDone /\ ~Single /\ ~SinglesDone
  <2>1. groups' = groups
    BY <1>6, GroupsKept
  <2>2. \/ pc' \in {"ranges", "raised"}
        \/ pc \in AfterSingles /\ pc' \in AfterSingles
    <3>1. pc \notin {"ranges", "groups", "singles"} \/ pc' = "raised"
      BY <1>6, GroupGoesOn DEF Next, CheckConfig, Reject, WriteCryptoConfig, WriteConfigtx,
         RaftWithoutTls, WriteCollections, Start, EndLoop, InLoop, WriteScript,
         InvalidPrivateFors, InvalidPolicy,
         Raise, Over
    <3>2. pc \in {"check", "raised"} \/ pc \in AfterSingles \/ pc' = "raised"
      BY <3>1 DEF TypeOK
    <3>3. pc = "raised" => pc' = "raised"
      BY <1>6, Parts
    <3>4. pc = "check" => pc' \in {"ranges", "raised"}
      BY <1>6, Parts
    <3>5. pc \in AfterSingles => pc' \in AfterSingles \/ pc' = "raised"
      BY <1>6, Parts
    <3> QED  BY <3>2, <3>3, <3>4, <3>5
  <2>3. CASE pc' \in {"ranges", "raised"}
    BY <1>0, <2>1, <2>3 DEF GroupsInv
  <2>4. CASE pc \in AfterSingles /\ pc' \in AfterSingles
    <3>1. s' = s /\ vmCount' = vmCount
      BY <2>4, SettingsKept DEF CheckConfig
    <3> QED  BY <1>0, <2>1, <2>4, <3>1 DEF GroupsInv, Shared, Disjoint, Machine, Grouped
  <2> QED  BY <2>2, <2>3, <2>4
<1> QED  BY <1>1, <1>2, <1>3, <1>4, <1>5, <1>6

-----------------------------------------------------------------------------
(* The invariant and what follows from it                                  *)

LEMMA InitIInv == Init => IInv
<1> SUFFICES ASSUME Init  PROVE  IInv
  OBVIOUS
<1>1. /\ s \in Setting /\ vmCount = 0 /\ pc = "check" /\ k = 0
      /\ idx = [r \in Role |-> <<>>] /\ groups = <<>> /\ certs = {} /\ members = <<>>
      /\ required = 0 /\ containers = {}
  BY SettingsAssumption DEF Init
<1>2. TypeOK
  <2>1. 0 \in 0..KBound
    BY <1>1, SettingFacts DEF KBound, Count1
  <2> QED  BY <1>1, <2>1 DEF TypeOK, KBound
<1>3. RanInv
  BY <1>1 DEF RanInv, Ran, Loop
<1>4. GroupsInv
  BY <1>1 DEF GroupsInv
<1> QED  BY <1>1, <1>2, <1>3, <1>4 DEF IInv, AcceptedComesUp, StartInv, AcceptedInv,
            RangesInv, CertsInv, TxInv, MembersInv, RequiredInv, ContainersInv

LEMMA NextIInv == IInv /\ [Next]_vars => IInv'
<1> SUFFICES ASSUME IInv, [Next]_vars  PROVE  IInv'
  OBVIOUS
<1> USE DEF IInv
<1>1. CASE Next
  BY <1>1, TypeStep, StartStep, AcceptedStep, GroupsStep, FilesStep, ContainersStep
<1>2. CASE UNCHANGED vars
  <2>1. /\ s' = s /\ vmCount' = vmCount /\ pc' = pc /\ k' = k /\ idx' = idx
        /\ groups' = groups /\ certs' = certs /\ tx' = tx /\ members' = members
        /\ required' = required /\ containers' = containers
    BY <1>2 DEF vars
  <2>2. TypeOK' /\ StartInv'
    BY <2>1 DEF TypeOK, StartInv, Machine, Org
  <2>3. AcceptedComesUp' /\ AcceptedInv' /\ RangesInv'
    BY <2>1, Frame DEF AcceptedComesUp, AcceptedInv, RangesInv
  <2>4. GroupsInv'
    BY <2>1, GroupOfKept DEF GroupsInv, Disjoint, Shared, Machine, Grouped
  <2>5. CertsInv' /\ MembersInv' /\ RequiredInv'
    BY <2>1 DEF CertsInv, MembersInv, RequiredInv, Org, Member, ValidPrivateFors,
           PrivateFors
  <2>6. TxInv'
    BY <2>1 DEF TxInv, Anchors, Brokers, OrgAdmins, Org
  <2>7. ContainersInv'
    <3>1. \A loop \in Loop : Ran(loop)' = Ran(loop)
      BY <2>1 DEF Ran
    <3> QED  BY <2>1, <3>1, RanKept DEF ContainersInv
  <2> QED  BY <2>2, <2>3, <2>4, <2>5, <2>6, <2>7
<1> QED  BY <1>1, <1>2

LEMMA InvGroupsPartition == IInv => GroupsPartition
<1> SUFFICES ASSUME IInv, pc \notin {"check", "ranges", "groups", "singles", "raised"},
                    ~Shared
             PROVE  \A m \in Machine : \E i \in DOMAIN groups :
                      m \in groups[i] /\ \A j \in DOMAIN groups : m \in groups[j] => j = i
  BY DEF GroupsPartition, Shared
<1>1. pc \in AfterSingles
  BY DEF IInv, TypeOK
<1>2. Machine \subseteq Grouped /\ Disjoint
  BY <1>1 DEF IInv, GroupsInv
<1> QED  BY <1>2 DEF Grouped, Disjoint

\* The peer p of organisation org is entry Slot(org, p) of the list.
LEMMA EntryOfPeer ==
  ASSUME s \in Setting, NEW org \in Org, NEW p \in 0..(s.peers - 1)
  PROVE  /\ Slot(org, p) \in 0..(Peers(s) - 1)
         /\ EntryPeer(Slot(org, p)) = Peer(org, p)
<1>1. s.orgs \in Count1 /\ s.peers \in Count1
  BY SettingFacts
<1> DEFINE q == org - 1
<1>2. q \in Nat /\ q < s.orgs /\ s.peers \in Nat /\ s.orgs \in Nat /\ p \in Nat /\ p < s.peers
  BY <1>1 DEF Org, Count1
<1>3. /\ q * s.peers \in Nat /\ s.orgs * s.peers \in Nat
      /\ (q + 1) * s.peers = q * s.peers + s.peers
      /\ (q + 1) * s.peers <= s.orgs * s.peers
  <2> HIDE DEF q
  <2> QED  BY <1>2, BlocksInOrder
<1>4. Slot(org, p) = q * s.peers + p
  BY DEF Slot
<1>5. (q * s.peers + p) \div s.peers = q /\ (q * s.peers + p) % s.peers = p
  <2> HIDE DEF q
  <2> QED  BY <1>1, <1>2, DivisionUnique
<1>6. 1 + q = org
  BY <1>1 DEF Org, Count1
<1>7. EntryPeer(Slot(org, p)) = Peer(org, p)
  BY <1>4, <1>5, <1>6 DEF EntryPeer
<1>8. Slot(org, p) \in 0..(Peers(s) - 1)
  <2>1. Peers(s) = s.orgs * s.peers
    BY DEF Peers
  <2> HIDE DEF q
  <2> QED  BY <1>2, <1>3, <1>4, <2>1
<1> QED  BY <1>7, <1>8

\* Every entry is a peer of an organisation.
LEMMA PeerOfEntry ==
  ASSUME s \in Setting, NEW i \in 0..(Peers(s) - 1)
  PROVE  1 + i \div s.peers \in Org /\ i % s.peers \in 0..(s.peers - 1)
<1>1. s.orgs \in Count1 /\ s.peers \in Count1 /\ Peers(s) = s.orgs * s.peers
  BY SettingFacts DEF Peers
<1> DEFINE q == i \div s.peers
           r == i % s.peers
<1>2. i \in Nat /\ q \in Nat /\ r \in 0..(s.peers - 1) /\ i = s.peers * q + r
  BY <1>1, Division, i \in Nat, i \in Int
<1>3. q < s.orgs
  <2> HIDE DEF q, r
  <2>1. ASSUME s.orgs <= q
        PROVE  FALSE
    <3>1. s.orgs * s.peers <= q * s.peers
      <4>1. CASE s.orgs = q
        BY <1>1, <1>2, <4>1 DEF Count1
      <4>2. CASE s.orgs < q
        <5>1. s.peers \in Nat /\ s.orgs \in Nat
          BY <1>1 DEF Count1
        <5>2. (s.orgs + 1) * s.peers = s.orgs * s.peers + s.peers
              /\ (s.orgs + 1) * s.peers <= q * s.peers
              /\ s.orgs * s.peers \in Nat /\ q * s.peers \in Nat
          BY <1>2, <4>2, <5>1, BlocksInOrder
        <5> QED  BY <5>1, <5>2
      <4> QED  BY <1>1, <1>2, <2>1, <4>1, <4>2 DEF Count1
    <3>2. q * s.peers = s.peers * q /\ q * s.peers \in Nat /\ s.orgs * s.peers \in Nat
      BY <1>1, <1>2 DEF Count1
    <3>3. i <= s.orgs * s.peers - 1 /\ i >= s.peers * q
      BY <1>1, <1>2, <3>2
    <3> QED  BY <1>2, <3>1, <3>2, <3>3
  <2> QED  BY <1>1, <1>2, <2>1 DEF Count1
<1> QED  BY <1>1, <1>2, <1>3 DEF Org, Count1

-----------------------------------------------------------------------------
(* The network that is up                                                  *)

ZookeeperContainer(i) == Container(Zookeeper(i), idx["zookeeper"][i], {}, {}, Zookeepers)
KafkaContainer(i) == Container(Kafka(i), idx["kafka"][i], {}, {}, Zookeepers)
OrdererContainer(i) ==
  Container(Orderer(i + 1), idx["orderer"][i], {7050, 9442}, {Orderer(i + 1)},
            {Kafka(b) : b \in DOMAIN idx["kafka"]})

\* The containers that run are those of the entries of the lists.
LEMMA UpContainers ==
  ASSUME IInv, pc = "up"
  PROVE  /\ \A i \in 0..(ZookeeperCount - 1) : ZookeeperContainer(i) \in containers
         /\ \A i \in 0..(KafkaCount - 1) : KafkaContainer(i) \in containers
         /\ \A i \in 0..(s.orderers - 1) : OrdererContainer(i) \in containers
         /\ \A i \in 0..(Peers(s) - 1) : PeerContainer(i) \in containers
         /\ \A i \in 0..(Peers(s) - 1) : s.couch => CouchContainer(i) \in containers
         /\ \A c \in containers :
              \/ \E i \in 0..(ZookeeperCount - 1) : c = ZookeeperContainer(i)
              \/ \E i \in 0..(KafkaCount - 1) : c = KafkaContainer(i)
              \/ \E i \in 0..(s.orderers - 1) : c = OrdererContainer(i)
              \/ \E i \in 0..(Peers(s) - 1) : c = PeerContainer(i)
              \/ s.couch /\ \E i \in 0..(Peers(s) - 1) : c = CouchContainer(i)
<1>1. s \in Setting /\ RanInv /\ idx = Indices
  BY DEF IInv, TypeOK, ContainersInv, RangesInv
<1>2. Laid
  BY <1>1, IndicesLaid
<1>3. /\ Ran("zookeeper") = 0..(ZookeeperCount - 1)
      /\ Ran("kafka") = 0..(KafkaCount - 1)
      /\ Ran("orderer") = 0..(s.orderers - 1)
      /\ Ran("peer") = 0..(Peers(s) - 1)
  BY <1>2 DEF Ran, Laid
<1>4. \A i : /\ StartedAt("zookeeper", i) = {ZookeeperContainer(i)}
             /\ StartedAt("kafka", i) = {KafkaContainer(i)}
             /\ StartedAt("orderer", i) = {OrdererContainer(i)}
  <2>1. \A i : StartedAt("zookeeper", i) = {ZookeeperContainer(i)}
    BY StartedAtLoop DEF ZookeeperAt, ZookeeperContainer
  <2>2. \A i : StartedAt("kafka", i) = {KafkaContainer(i)}
    BY StartedAtLoop DEF KafkaAt, KafkaContainer
  <2>3. \A i : OrdererAt(i) = {OrdererContainer(i)}
    BY Zenon DEF OrdererAt, OrdererContainer
  <2>4. \A i : StartedAt("orderer", i) = {OrdererContainer(i)}
    BY <2>3, StartedAtLoop
  <2> QED  BY <2>1, <2>2, <2>4
<1>5. \A i \in 0..(Peers(s) - 1) :
        StartedAt("peer", i) = {PeerContainer(i)} \cup (IF s.couch THEN {CouchContainer(i)} ELSE {})
  <2> SUFFICES ASSUME NEW i \in 0..(Peers(s) - 1)
               PROVE  StartedAt("peer", i)
                        = {PeerContainer(i)} \cup (IF s.couch THEN {CouchContainer(i)} ELSE {})
    OBVIOUS
  <2>1. i \in Nat
    BY <1>1, SettingFacts DEF Count1
  <2> QED  BY <1>1, <2>1, StartedAtLoop, PeerEntry
<1>6. \A loop \in Loop : \A i \in Ran(loop) : StartedAt(loop, i) \subseteq containers
  BY <1>1 DEF RanInv
<1>7. /\ \A i \in 0..(ZookeeperCount - 1) : ZookeeperContainer(i) \in containers
      /\ \A i \in 0..(KafkaCount - 1) : KafkaContainer(i) \in containers
      /\ \A i \in 0..(s.orderers - 1) : OrdererContainer(i) \in containers
  <2>1. \A i \in 0..(ZookeeperCount - 1) : StartedAt("zookeeper", i) \subseteq containers
    BY <1>3, <1>6 DEF Loop
  <2>2. \A i \in 0..(KafkaCount - 1) : StartedAt("kafka", i) \subseteq containers
    BY <1>3, <1>6 DEF Loop
  <2>3. \A i \in 0..(s.orderers - 1) : StartedAt("orderer", i) \subseteq containers
    BY <1>3, <1>6 DEF Loop
  <2> QED  BY <1>4, <2>1, <2>2, <2>3
<1>8. \A i \in 0..(Peers(s) - 1) :
        PeerContainer(i) \in containers /\ (s.couch => CouchContainer(i) \in containers)
  <2>1. \A i \in 0..(Peers(s) - 1) : StartedAt("peer", i) \subseteq containers
    BY <1>3, <1>6 DEF Loop
  <2> QED  BY <1>5, <2>1
<1>9. ASSUME NEW c \in containers
      PROVE  \/ \E i \in 0..(ZookeeperCount - 1) : c = ZookeeperContainer(i)
             \/ \E i \in 0..(KafkaCount - 1) : c = KafkaContainer(i)
             \/ \E i \in 0..(s.orderers - 1) : c = OrdererContainer(i)
             \/ \E i \in 0..(Peers(s) - 1) : c = PeerContainer(i)
             \/ s.couch /\ \E i \in 0..(Peers(s) - 1) : c = CouchContainer(i)
  <2>1. PICK loop \in Loop : \E i \in Ran(loop) : c \in StartedAt(loop, i)
    BY <1>1 DEF RanInv
  <2>2. PICK i \in Ran(loop) : c \in StartedAt(loop, i)
    BY <2>1
  <2>3. CASE loop = "zookeeper"
    BY <1>3, <1>4, <2>2, <2>3
  <2>4. CASE loop = "kafka"
    BY <1>3, <1>4, <2>2, <2>4
  <2>5. CASE loop = "orderer"
    <3>1. i \in 0..(s.orderers - 1) /\ c \in StartedAt("orderer", i)
      BY <1>3, <2>2, <2>5
    <3>2. StartedAt("orderer", i) = {OrdererContainer(i)}
      BY <1>4
    <3> QED  BY <3>1, <3>2
  <2>6. CASE loop = "peer"
    <3>1. i \in 0..(Peers(s) - 1) /\ c \in StartedAt("peer", i)
      BY <1>3, <2>2, <2>6
    <3>2. StartedAt("peer", i) = {PeerContainer(i)} \cup (IF s.couch THEN {CouchContainer(i)} ELSE {})
      BY <1>5, <3>1
    <3>3. c = PeerContainer(i) \/ (s.couch /\ c = CouchContainer(i))
      BY <3>1, <3>2
    <3> QED  BY <3>1, <3>3
  <2> QED  BY <2>3, <2>4, <2>5, <2>6 DEF Loop
<1> QED  BY <1>7, <1>8, <1>9

\* The network is laid out as the settings say.
LEMMA UpLayout ==
  ASSUME IInv, pc = "up"
  PROVE  /\ s \in Setting /\ Laid /\ Accepted
         /\ s.orderers \in Count1 /\ Peers(s) \in Count1 /\ StartIndex \in Nat
         /\ ZookeeperCount \in Nat /\ KafkaCount \in Nat
         /\ vmCount = NextIndex + ZookeeperCount + KafkaCount
         /\ NextIndex \in Nat
         /\ StartIndex + Peers(s) <= NextIndex
         /\ External => NextIndex = StartIndex + Peers(s) + Peers(s)
<1>1. s \in Setting /\ Accepted /\ idx = Indices
  BY DEF IInv, TypeOK, AcceptedInv, RangesInv
<1>2. Laid
  BY <1>1, IndicesLaid
<1> QED  BY <1>1, <1>2, SettingFacts, Counted DEF Accepted

LEMMA UpNeeded ==
  ASSUME IInv, pc = "up"
  PROVE  Machine = {c.on : c \in containers}
<1>1. /\ Laid /\ s.internal \in BOOLEAN
      /\ s.orderers \in Count1 /\ Peers(s) \in Count1 /\ StartIndex \in Nat
      /\ ZookeeperCount \in Nat /\ KafkaCount \in Nat
      /\ vmCount = NextIndex + ZookeeperCount + KafkaCount
      /\ NextIndex \in Nat
      /\ StartIndex + Peers(s) <= NextIndex
      /\ External => NextIndex = StartIndex + Peers(s) + Peers(s)
  BY UpLayout, SettingFacts
<1>2. ~External => NextIndex = StartIndex + Peers(s)
  BY <1>1 DEF NextIndex, DatabaseFactor, Count1
<1>3. {c.on : c \in containers} \subseteq Machine
  BY DEF IInv, TypeOK
<1>4. ASSUME NEW m \in Machine
      PROVE  \E c \in containers : c.on = m
  <2> DEFINE N == Peers(s)
             Z == ZookeeperCount
             K == KafkaCount
  <2>0. m \in Int /\ 0 <= m /\ m < NextIndex + Z + K
    BY <1>1 DEF Machine
  <2>1. CASE m < StartIndex
    <3>1. m \in 0..(s.orderers - 1)
      BY <1>1, <2>0, <2>1 DEF StartIndex, Count1
    <3>2. OrdererContainer(m) \in containers
      BY <3>1, UpContainers
    <3>3. OrdererContainer(m).on = m
      BY <1>1, <3>1 DEF OrdererContainer, Container, Laid
    <3> QED  BY <3>2, <3>3
  <2>2. CASE m >= StartIndex /\ m < StartIndex + N
    <3> DEFINE i == m - StartIndex
    <3>1. i \in 0..(N - 1) /\ StartIndex + i = m
      BY <1>1, <2>0, <2>2 DEF Count1
    <3> HIDE DEF i
    <3>2. PeerContainer(i) \in containers
      BY <3>1, UpContainers
    <3>3. PeerContainer(i).on = m
      BY <1>1, <3>1 DEF PeerContainer, Container, Laid
    <3> QED  BY <3>2, <3>3
  <2>3. CASE m >= StartIndex + N /\ m < NextIndex
    <3>1. External
      BY <1>1, <1>2, <2>0, <2>3 DEF Count1
    <3>2. s.couch /\ NextIndex = StartIndex + N + N
      BY <1>1, <3>1 DEF External
    <3> DEFINE i == m - (StartIndex + N)
    <3>3. i \in 0..(N - 1) /\ StartIndex + N + i = m
      BY <1>1, <2>0, <2>3, <3>2 DEF Count1
    <3> HIDE DEF i
    <3>4. CouchContainer(i) \in containers
      BY <3>2, <3>3, UpContainers
    <3>5. idx["db"][i] = StartIndex + Peers(s) + i
      BY <1>1, <3>1, <3>3 DEF Laid
    <3>6. CouchContainer(i).on = m
      BY <3>3, <3>5 DEF CouchContainer, Container
    <3> QED  BY <3>4, <3>6
  <2>4. CASE m >= NextIndex /\ m < NextIndex + Z
    <3> DEFINE i == m - NextIndex
    <3>1. i \in 0..(Z - 1) /\ NextIndex + i = m
      BY <1>1, <2>0, <2>4
    <3> HIDE DEF i
    <3>2. ZookeeperContainer(i) \in containers
      BY <3>1, UpContainers
    <3>3. ZookeeperContainer(i).on = m
      BY <1>1, <3>1 DEF ZookeeperContainer, Container, Laid
    <3> QED  BY <3>2, <3>3
  <2>5. CASE m >= NextIndex + Z
    <3> DEFINE i == m - (NextIndex + Z)
    <3>1. i \in 0..(K - 1) /\ NextIndex + Z + i = m
      BY <1>1, <2>0, <2>5
    <3> HIDE DEF i
    <3>2. KafkaContainer(i) \in containers
      BY <3>1, UpContainers
    <3>3. KafkaContainer(i).on = m
      BY <1>1, <3>1 DEF KafkaContainer, Container, Laid
    <3> QED  BY <3>2, <3>3
  <2> QED  BY <1>1, <2>0, <2>1, <2>2, <2>3, <2>4, <2>5 DEF Count1
<1> QED  BY <1>3, <1>4

LEMMA UpPortsApart ==
  ASSUME IInv, pc = "up", NEW c \in containers, NEW d \in containers, c # d, c.on = d.on
  PROVE  c.ports \cap d.ports = {}
<1>1. Laid /\ StartIndex \in Nat /\ Peers(s) \in Nat
  BY UpLayout DEF Count1
<1> DEFINE First == IF External THEN StartIndex + Peers(s) ELSE StartIndex
           IsOrderer(x) == \E i \in 0..(s.orderers - 1) : x = OrdererContainer(i) /\ x.on = i
           IsPeer(x) == \E i \in 0..(Peers(s) - 1) : x = PeerContainer(i) /\ x.on = StartIndex + i
           IsCouch(x) == \E i \in 0..(Peers(s) - 1) : x = CouchContainer(i) /\ x.on = First + i
           OrdererPorts == {7050, 9442}
           PeerPorts == {7051, 7053, 9443}
           CouchPorts == {5984}
<1>2. ASSUME NEW x \in containers
      PROVE  \/ x.ports = {}
             \/ x.ports = OrdererPorts /\ IsOrderer(x)
             \/ x.ports = PeerPorts /\ IsPeer(x)
             \/ x.ports = CouchPorts /\ IsCouch(x)
  <2>1. \/ \E i \in 0..(ZookeeperCount - 1) : x = ZookeeperContainer(i)
        \/ \E i \in 0..(KafkaCount - 1) : x = KafkaContainer(i)
        \/ \E i \in 0..(s.orderers - 1) : x = OrdererContainer(i)
        \/ \E i \in 0..(Peers(s) - 1) : x = PeerContainer(i)
        \/ s.couch /\ \E i \in 0..(Peers(s) - 1) : x = CouchContainer(i)
    BY UpContainers
  <2>2. CASE \E i \in 0..(ZookeeperCount - 1) : x = ZookeeperContainer(i)
    BY <2>2 DEF ZookeeperContainer, Container
  <2>3. CASE \E i \in 0..(KafkaCount - 1) : x = KafkaContainer(i)
    BY <2>3 DEF KafkaContainer, Container
  <2>4. CASE \E i \in 0..(s.orderers - 1) : x = OrdererContainer(i)
    <3>1. PICK i \in 0..(s.orderers - 1) : x = OrdererContainer(i)
      BY <2>4
    <3>2. x.ports = {7050, 9442} /\ x.on = i
      BY <1>1, <3>1 DEF OrdererContainer, Container, Laid
    <3> QED  BY <3>1, <3>2
  <2>5. CASE \E i \in 0..(Peers(s) - 1) : x = PeerContainer(i)
    <3>1. PICK i \in 0..(Peers(s) - 1) : x = PeerContainer(i)
      BY <2>5
    <3>2. x.ports = {7051, 7053, 9443} /\ x.on = StartIndex + i
      BY <1>1, <3>1 DEF PeerContainer, Container, Laid
    <3> QED  BY <3>1, <3>2
  <2>6. CASE \E i \in 0..(Peers(s) - 1) : x = CouchContainer(i)
    <3>1. PICK i \in 0..(Peers(s) - 1) : x = CouchContainer(i)
      BY <2>6
    <3>2. x.ports = {5984} /\ x.on = idx["db"][i]
      BY <3>1 DEF CouchContainer, Container
    <3>3. idx["db"][i] = First + i
      BY <1>1, <3>1 DEF Laid
    <3> QED  BY <3>1, <3>2, <3>3
  <2> QED  BY <2>1, <2>2, <2>3, <2>4, <2>5, <2>6
<1>3. OrdererPorts \cap PeerPorts = {} /\ OrdererPorts \cap CouchPorts = {}
        /\ PeerPorts \cap CouchPorts = {}
  OBVIOUS
<1>4. IsOrderer(c) /\ IsOrderer(d) => c = d
  OBVIOUS
<1>5. ASSUME IsPeer(c), IsPeer(d)
      PROVE  c = d
  <2>1. PICK i \in 0..(Peers(s) - 1) : c = PeerContainer(i) /\ c.on = StartIndex + i
    BY <1>5
  <2>2. PICK j \in 0..(Peers(s) - 1) : d = PeerContainer(j) /\ d.on = StartIndex + j
    BY <1>5
  <2>3. i = j
    BY <1>1, <2>1, <2>2
  <2> QED  BY <2>1, <2>2, <2>3
<1>6. ASSUME IsCouch(c), IsCouch(d)
      PROVE  c = d
  <2>1. PICK i \in 0..(Peers(s) - 1) : c = CouchContainer(i) /\ c.on = First + i
    BY <1>6
  <2>2. PICK j \in 0..(Peers(s) - 1) : d = CouchContainer(j) /\ d.on = First + j
    BY <1>6
  <2>3. First \in Nat
    BY <1>1
  <2> HIDE DEF First
  <2>4. i = j
    BY <2>1, <2>2, <2>3
  <2> QED  BY <2>1, <2>2, <2>4
<1>7. /\ \/ c.ports = {}
         \/ c.ports = OrdererPorts /\ IsOrderer(c)
         \/ c.ports = PeerPorts /\ IsPeer(c)
         \/ c.ports = CouchPorts /\ IsCouch(c)
      /\ \/ d.ports = {}
         \/ d.ports = OrdererPorts /\ IsOrderer(d)
         \/ d.ports = PeerPorts /\ IsPeer(d)
         \/ d.ports = CouchPorts /\ IsCouch(d)
  <2> HIDE DEF IsOrderer, IsPeer, IsCouch, OrdererPorts, PeerPorts, CouchPorts
  <2> QED  BY <1>2
<1> HIDE DEF IsOrderer, IsPeer, IsCouch, OrdererPorts, PeerPorts, CouchPorts
<1> QED  BY <1>3, <1>4, <1>5, <1>6, <1>7

LEMMA InvMachinesFit == IInv => MachinesFit
BY UpNeeded, UpPortsApart DEF MachinesFit

LEMMA InvReferencesResolve == IInv => ReferencesResolve
<1> DEFINE names == {c.name : c \in containers}
<1> SUFFICES ASSUME IInv, pc = "up"
             PROVE  /\ tx.anchors \cup tx.consenters \cup tx.addresses \subseteq names
                    /\ s.type = "kafka" => (tx.brokers \subseteq names <=> s.orderers <= s.kafkas)
                    /\ \A c \in containers : c.names \subseteq names /\ c.mounts \subseteq certs
                    /\ tx.rules \ tx.msps = {<<"Org", org>> : org \in Org}
                    /\ tx.consortium \subseteq tx.msps
                    /\ tx.acls \subseteq tx.policies
  BY DEF ReferencesResolve
<1>1. /\ s \in Setting /\ Laid /\ s.orgs \in Count1 /\ s.peers \in Count1
      /\ s.orderers \in Nat /\ Peers(s) \in Nat /\ ZookeeperCount \in Nat /\ KafkaCount \in Nat
      /\ s.kafkas \in Nat
  BY UpLayout, SettingFacts DEF Count1
<1>2. /\ tx.anchors = Anchors
      /\ tx.consenters \cup tx.addresses \subseteq {Orderer(o) : o \in 1..s.orderers}
      /\ tx.brokers = IF s.type = "kafka" THEN Brokers ELSE {}
      /\ tx.rules \ tx.msps = {<<"Org", org>> : org \in Org}
      /\ tx.consortium \subseteq tx.msps
      /\ tx.acls \subseteq tx.policies
  BY DEF IInv, TxInv, OrgAdmins
<1>3. /\ \A o \in 1..s.orderers : Orderer(o) \in certs
      /\ \A org \in Org : \A p \in 0..(s.peers - 1) : Peer(org, p) \in certs
  BY DEF IInv, CertsInv
<1>4. \A i \in 0..(ZookeeperCount - 1) : Zookeeper(i) \in names
  <2>1. \A i : ZookeeperContainer(i).name = Zookeeper(i)
    BY DEF ZookeeperContainer, Container
  <2> QED  BY <2>1, UpContainers
<1>5. \A i \in 0..(KafkaCount - 1) : Kafka(i) \in names
  <2>1. \A i : KafkaContainer(i).name = Kafka(i)
    BY DEF KafkaContainer, Container
  <2> QED  BY <2>1, UpContainers
<1>6. \A o \in 1..s.orderers : Orderer(o) \in names
  <2> SUFFICES ASSUME NEW o \in 1..s.orderers
               PROVE  Orderer(o) \in names
    OBVIOUS
  <2>1. o - 1 \in 0..(s.orderers - 1) /\ (o - 1) + 1 = o
    BY <1>1
  <2>2. OrdererContainer(o - 1).name = Orderer((o - 1) + 1)
    BY DEF OrdererContainer, Container
  <2>3. OrdererContainer(o - 1) \in containers
    BY <2>1, UpContainers
  <2> QED  BY <2>1, <2>2, <2>3
<1>7. \A i \in 0..(Peers(s) - 1) : EntryPeer(i) \in names
  <2>1. \A i : PeerContainer(i).name = EntryPeer(i)
    BY DEF PeerContainer, Container
  <2> QED  BY <2>1, UpContainers
<1>8. s.couch => \A i \in 0..(Peers(s) - 1) : EntryCouch(i) \in names
  <2>1. \A i : CouchContainer(i).name = EntryCouch(i)
    BY DEF CouchContainer, Container
  <2> QED  BY <2>1, UpContainers
<1>9. Anchors \subseteq names
  <2> SUFFICES ASSUME NEW org \in Org
               PROVE  Peer(org, 0) \in names
    BY DEF Anchors
  <2>1. 0 \in 0..(s.peers - 1)
    BY <1>1 DEF Count1
  <2>2. Slot(org, 0) \in 0..(Peers(s) - 1) /\ EntryPeer(Slot(org, 0)) = Peer(org, 0)
    BY <1>1, <2>1, EntryOfPeer
  <2> HIDE DEF names
  <2> QED  BY <1>7, <2>2
<1>10. ASSUME s.type = "kafka", s.orderers <= s.kafkas
       PROVE  tx.brokers \subseteq names
  <2> SUFFICES ASSUME NEW o \in 1..s.orderers
               PROVE  Kafka(o - 1) \in names
    BY <1>2, <1>10 DEF Brokers
  <2>1. o - 1 \in 0..(KafkaCount - 1)
    BY <1>1, <1>10 DEF KafkaCount
  <2> HIDE DEF names
  <2> QED  BY <1>5, <2>1
<1>12. ASSUME s.type = "kafka", tx.brokers \subseteq names
       PROVE  s.orderers <= s.kafkas
  <2>1. s.orderers \in 1..s.orderers /\ KafkaCount = s.kafkas
    BY <1>1, <1>12, SettingFacts DEF KafkaCount, Count1
  <2>2. Kafka(s.orderers - 1) \in tx.brokers
    BY <1>2, <1>12, <2>1 DEF Brokers
  <2>3. PICK c \in containers : c.name = Kafka(s.orderers - 1)
    BY <1>12, <2>2
  <2>4. PICK i \in 0..(KafkaCount - 1) : c = KafkaContainer(i)
    <3>1. /\ \A i : ZookeeperContainer(i).name # c.name
          /\ \A i : OrdererContainer(i).name # c.name
      BY <2>3 DEF ZookeeperContainer, OrdererContainer, Container, Zookeeper, Orderer, Kafka
    <3>2. /\ \A i : PeerContainer(i).name # c.name
          /\ \A i : CouchContainer(i).name # c.name
      BY <2>3 DEF PeerContainer, CouchContainer, Container, EntryPeer, EntryCouch, Peer,
                  Couch, Kafka
    <3> QED  BY <3>1, <3>2, UpContainers
  <2>5. Kafka(i) = Kafka(s.orderers - 1)
    BY <2>3, <2>4 DEF KafkaContainer, Container
  <2>6. i = s.orderers - 1
    BY <2>5 DEF Kafka
  <2> QED  BY <1>1, <2>1, <2>4, <2>6
<1>11. ASSUME NEW c \in containers
       PROVE  c.names \subseteq names /\ c.mounts \subseteq certs
  <2>0. /\ DOMAIN idx["zookeeper"] = 0..(ZookeeperCount - 1)
        /\ DOMAIN idx["kafka"] = 0..(KafkaCount - 1)
    BY <1>1 DEF Laid
  <2>1. \/ \E i \in 0..(ZookeeperCount - 1) : c = ZookeeperContainer(i)
        \/ \E i \in 0..(KafkaCount - 1) : c = KafkaContainer(i)
        \/ \E i \in 0..(s.orderers - 1) : c = OrdererContainer(i)
        \/ \E i \in 0..(Peers(s) - 1) : c = PeerContainer(i)
        \/ s.couch /\ \E i \in 0..(Peers(s) - 1) : c = CouchContainer(i)
    BY UpContainers
  <2> HIDE DEF names
  <2>2. Zookeepers \subseteq names
    BY <1>4, <2>0 DEF Zookeepers
  <2>3. CASE \E i \in 0..(ZookeeperCount - 1) : c = ZookeeperContainer(i)
    BY <2>2, <2>3 DEF ZookeeperContainer, Container
  <2>4. CASE \E i \in 0..(KafkaCount - 1) : c = KafkaContainer(i)
    BY <2>2, <2>4 DEF KafkaContainer, Container
  <2>5. CASE \E i \in 0..(s.orderers - 1) : c = OrdererContainer(i)
    <3>1. PICK i \in 0..(s.orderers - 1) : c = OrdererContainer(i)
      BY <2>5
    <3>2. c.mounts = {Orderer(i + 1)} /\ c.names = {Kafka(b) : b \in DOMAIN idx["kafka"]}
      BY <3>1 DEF OrdererContainer, Container
    <3>3. i + 1 \in 1..s.orderers
      BY <1>1
    <3> QED  BY <1>3, <1>5, <2>0, <3>2, <3>3
  <2>6. CASE \E i \in 0..(Peers(s) - 1) : c = PeerContainer(i)
    <3>1. PICK i \in 0..(Peers(s) - 1) : c = PeerContainer(i)
      BY <2>6
    <3>2. c.mounts = {EntryPeer(i)} /\ c.names = CouchOf(i)
      BY <3>1 DEF PeerContainer, Container
    <3>3. EntryPeer(i) \in certs
      BY <1>1, <1>3, PeerOfEntry DEF EntryPeer
    <3>4. CouchOf(i) \subseteq names
      BY <1>8 DEF CouchOf
    <3> QED  BY <3>2, <3>3, <3>4
  <2>7. CASE s.couch /\ \E i \in 0..(Peers(s) - 1) : c = CouchContainer(i)
    BY <2>7 DEF CouchContainer, Container
  <2> QED  BY <2>1, <2>3, <2>4, <2>5, <2>6, <2>7
<1> QED
  <2>1. tx.anchors \cup tx.consenters \cup tx.addresses \subseteq names
    <3> HIDE DEF names
    <3> QED  BY <1>2, <1>6, <1>9
  <2>2. s.type = "kafka" => (tx.brokers \subseteq names <=> s.orderers <= s.kafkas)
    <3> HIDE DEF names
    <3> QED  BY <1>10, <1>12
  <2> QED  BY <1>2, <1>11, <2>1, <2>2

-----------------------------------------------------------------------------
(* The rotation of the collections                                         *)

\* A function that is one to one and onto counts its range.
LEMMA CountedBy ==
  ASSUME NEW P \in Nat, NEW T, NEW f,
         f \in [0..(P - 1) -> T],
         \A i, j \in 0..(P - 1) : f[i] = f[j] => i = j,
         \A t \in T : \E i \in 0..(P - 1) : f[i] = t
  PROVE  Cardinality(T) = P
<1>1. IsFiniteSet(0..(P - 1)) /\ Cardinality(0..(P - 1)) = P
  <2>1. 0 \in Int /\ P - 1 \in Int
    OBVIOUS
  <2>2. /\ IsFiniteSet(0..(P - 1))
        /\ Cardinality(0..(P - 1)) = IF 0 > P - 1 THEN 0 ELSE (P - 1) - 0 + 1
    BY <2>1, FS_Interval
  <2> QED  BY <2>2
<1>2. f \in Bijection(0..(P - 1), T)
  BY DEF Bijection, Injection, Surjection, IsInjective
<1>3. ExistsBijection(0..(P - 1), T)
  BY <1>2 DEF ExistsBijection
<1> QED  BY <1>1, <1>3, FS_Bijection

LEMMA MembersCounted ==
  ASSUME s \in Setting, NEW org \in Org, NEW P \in Nat, P <= s.orgs
  PROVE  Cardinality({Member(org, index) : index \in 0..(P - 1)}) = P
<1>1. s.orgs \in Count1 /\ org \in Int
  BY SettingFacts DEF Org
<1> DEFINE T == {Member(org, index) : index \in 0..(P - 1)}
           f == [index \in 0..(P - 1) |-> Member(org, index)]
<1>2. f \in [0..(P - 1) -> T] /\ \A t \in T : \E i \in 0..(P - 1) : f[i] = t
  OBVIOUS
<1>3. ASSUME NEW i \in 0..(P - 1), NEW j \in 0..(P - 1), f[i] = f[j]
      PROVE  i = j
  <2>1. Member(org, i) = Member(org, j)
    BY <1>3
  <2>2. /\ (org + i) % s.orgs \in Int /\ (org + j) % s.orgs \in Int
        /\ org + i \in Int /\ org + j \in Int
    <3>1. org + i \in Int /\ org + j \in Int
      BY <1>1
    <3> QED  BY <1>1, <3>1, Division
  <2>3. (org + i) % s.orgs = (org + j) % s.orgs
    BY <2>1, <2>2 DEF Member
  <2>4. (org + i) - (org + j) < s.orgs /\ (org + j) - (org + i) < s.orgs
    BY <1>1 DEF Count1
  <2>5. org + i = org + j
    BY <1>1, <2>2, <2>3, <2>4, SameRemainder
  <2> QED  BY <1>1, <2>5
<1> HIDE DEF T, f
<1>4. Cardinality(T) = P
  BY <1>2, <1>3, CountedBy
<1> QED  BY <1>4 DEF T

LEMMA CollectionsCounted ==
  ASSUME s \in Setting, NEW org \in Org, NEW P \in Nat, P <= s.orgs
  PROVE  Cardinality({c \in Org : org \in {Member(c, index) : index \in 0..(P - 1)}}) = P
<1>1. s.orgs \in Count1 /\ org \in 1..s.orgs /\ s.orgs \in Int
  BY SettingFacts DEF Org, Count1
<1> DEFINE T == {c \in Org : org \in {Member(c, index) : index \in 0..(P - 1)}}
           f == [index \in 0..(P - 1) |-> 1 + ((org - 2 - index) % s.orgs)]
<1>2. ASSUME NEW i \in 0..(P - 1)
      PROVE  f[i] \in T
  <2> DEFINE x == org - 2 - i
             q == x \div s.orgs
             r == x % s.orgs
  <2>1. x \in Int /\ q \in Int /\ r \in 0..(s.orgs - 1) /\ x = s.orgs * q + r
    <3>1. x \in Int
      BY <1>1
    <3> HIDE DEF x
    <3> QED  BY <1>1, <3>1, Division
  <2>2. f[i] = 1 + r
    OBVIOUS
  <2>3. x = org - 2 - i
    OBVIOUS
  <2> HIDE DEF x, q, r, f
  <2>4. f[i] \in Org
    BY <1>1, <2>1, <2>2 DEF Org
  <2>5. f[i] + i = (-q) * s.orgs + (org - 1)
    <3>1. s.orgs * q \in Int /\ (-q) * s.orgs = -(s.orgs * q)
      BY <1>1, <2>1, Negated
    <3>2. f[i] + i = 1 + r + i /\ r \in Int /\ i \in Int
      BY <2>1, <2>2
    <3> QED  BY <1>1, <2>1, <2>3, <3>1, <3>2
  <2>6. (f[i] + i) % s.orgs = org - 1
    <3>1. -q \in Int /\ org - 1 \in 0..(s.orgs - 1)
      BY <1>1, <2>1
    <3> QED  BY <1>1, <2>5, <3>1, DivisionUnique
  <2>7. Member(f[i], i) = org
    BY <1>1, <2>6 DEF Member
  <2> QED  BY <2>4, <2>7
<1>3. ASSUME NEW i \in 0..(P - 1), NEW j \in 0..(P - 1), f[i] = f[j]
      PROVE  i = j
  <2>1. org - 2 - i \in Int /\ org - 2 - j \in Int
    BY <1>1
  <2>2. (org - 2 - i) % s.orgs \in Int /\ (org - 2 - j) % s.orgs \in Int
    BY <1>1, <2>1, Division
  <2>3. (org - 2 - i) % s.orgs = (org - 2 - j) % s.orgs
    BY <1>3, <2>2
  <2>4. (org - 2 - i) - (org - 2 - j) < s.orgs /\ (org - 2 - j) - (org - 2 - i) < s.orgs
    BY <1>1
  <2>5. org - 2 - i = org - 2 - j
    BY <1>1, <2>1, <2>3, <2>4, SameRemainder
  <2> QED  BY <1>1, <2>5
<1>4. ASSUME NEW c \in T
      PROVE  \E i \in 0..(P - 1) : f[i] = c
  <2>1. PICK i \in 0..(P - 1) : org = Member(c, i)
    OBVIOUS
  <2>2. c \in 1..s.orgs /\ c + i \in Int
    BY DEF Org
  <2> DEFINE q == (c + i) \div s.orgs
             r == (c + i) % s.orgs
  <2>3. q \in Int /\ r \in 0..(s.orgs - 1) /\ c + i = s.orgs * q + r
    BY <1>1, <2>2, Division
  <2>4. org = r + 1
    BY <2>1 DEF Member
  <2> HIDE DEF q, r
  <2>5. org - 2 - i = (-q) * s.orgs + (c - 1)
    <3>1. s.orgs * q \in Int /\ (-q) * s.orgs = -(s.orgs * q)
      BY <1>1, <2>3, Negated
    <3>2. i \in Int /\ c \in Int /\ r \in Int
      BY <2>2, <2>3
    <3>3. r = org - 1 /\ s.orgs * q = c + i - r
      BY <1>1, <2>3, <2>4, <3>1, <3>2
    <3> QED  BY <1>1, <3>1, <3>2, <3>3
  <2>6. (org - 2 - i) % s.orgs = c - 1
    <3>1. -q \in Int /\ c - 1 \in 0..(s.orgs - 1)
      BY <1>1, <2>2, <2>3
    <3> QED  BY <1>1, <2>5, <3>1, DivisionUnique
  <2>7. 1 + (c - 1) = c
    BY <2>2
  <2>8. f[i] = c
    BY <2>6, <2>7
  <2> QED  BY <2>8
<1>5. f \in [0..(P - 1) -> T]
  <2>1. f = [i \in 0..(P - 1) |-> f[i]]
    OBVIOUS
  <2> HIDE DEF f, T
  <2> QED  BY <1>2, <2>1
<1> HIDE DEF T, f
<1>6. Cardinality(T) = P
  BY <1>3, <1>4, <1>5, CountedBy
<1> QED  BY <1>6 DEF T

LEMMA InvPoliciesEven == IInv => PoliciesEven
<1> SUFFICES ASSUME IInv, pc = "up"
             PROVE  /\ required \in 1..s.orgs
                    /\ PrivateFors <= s.orgs =>
                         \A org \in Org :
                           /\ Cardinality(members[org]) = PrivateFors
                           /\ Cardinality({c \in Org : org \in members[c]}) = PrivateFors
  BY DEF PoliciesEven
<1>1. required \in 1..s.orgs
  BY DEF IInv, RequiredInv
<1>2. s \in Setting /\ PrivateFors \in Nat
  BY SettingFacts DEF IInv, TypeOK, MembersInv, ValidPrivateFors, PrivateFors, Count1
<1>3. members = [org \in Org |-> {Member(org, index) : index \in 0..(PrivateFors - 1)}]
  BY DEF IInv, MembersInv
<1>4. ASSUME PrivateFors <= s.orgs, NEW org \in Org
      PROVE  /\ Cardinality(members[org]) = PrivateFors
             /\ Cardinality({c \in Org : org \in members[c]}) = PrivateFors
  <2>1. Cardinality({Member(org, index) : index \in 0..(PrivateFors - 1)}) = PrivateFors
    BY <1>2, <1>4, MembersCounted
  <2>2. Cardinality({c \in Org : org \in {Member(c, index) : index \in 0..(PrivateFors - 1)}})
          = PrivateFors
    BY <1>2, <1>4, CollectionsCounted
  <2>3. members[org] = {Member(org, index) : index \in 0..(PrivateFors - 1)}
    BY <1>3
  <2>4. {c \in Org : org \in members[c]}
          = {c \in Org : org \in {Member(c, index) : index \in 0..(PrivateFors - 1)}}
    BY <1>3
  <2> QED  BY <2>1, <2>2, <2>3, <2>4
<1> QED  BY <1>1, <1>4

-----------------------------------------------------------------------------
(* Theorems                                                                *)

\* The inductive invariant holds in every reachable state.
THEOREM Invariance == Spec => []IInv
BY InitIInv, NextIInv, PTL DEF Spec

\* The variables keep their types: every index, group and container is on a
\* machine that was launched.
THEOREM TypeCorrect == Spec => []TypeOK
<1>1. IInv => TypeOK
  BY DEF IInv
<1> QED  BY <1>1, Invariance, PTL

\* Once check_config has accepted the settings, only Raft without TLS and an
\* endorsement policy out of range end the start (Fabric_Network.py:28-78).
THEOREM AcceptedComesUpHolds == Spec => []AcceptedComesUp
<1>1. IInv => AcceptedComesUp
  BY DEF IInv
<1> QED  BY <1>1, Invariance, PTL

\* The machines counted by check_config are those that run containers, and no
\* two containers publish the same port of a machine (Fabric_Network.py:28-168).
THEOREM MachinesFitHolds == Spec => []MachinesFit
BY Invariance, InvMachinesFit, PTL

\* The groups partition the machines unless internal orderers are shared
\* (Fabric_Network.py:173-224).
THEOREM GroupsPartitionHolds == Spec => []GroupsPartition
BY Invariance, InvGroupsPartition, PTL

\* The names in the channel configuration and in the containers' settings are
\* those of containers that run and identities that exist
\* (Fabric_Network.py:399-890, 1011-1312).
THEOREM ReferencesResolveHolds == Spec => []ReferencesResolve
BY Invariance, InvReferencesResolve, PTL

\* Private data are shared evenly and the endorsement policy can be met
\* (Fabric_Network.py:893-1000).
THEOREM PoliciesEvenHolds == Spec => []PoliciesEven
BY Invariance, InvPoliciesEven, PTL
=============================================================================
