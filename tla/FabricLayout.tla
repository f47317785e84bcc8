----------------------------- MODULE FabricLayout -----------------------------
(***************************************************************************)
(* How Fabric_Network turns its settings into a network: the number of     *)
(* machines, the machines of every role, the groups, the certificates, the *)
(* channel configuration, the collections, and which container runs where  *)
(* under which name.  The same numbers are computed in a dozen places that *)
(* have to agree.                                                          *)
(*                                                                         *)
(* The files are modelled by the names they mention.  What happens on the  *)
(* machines is in FabricPush and FabricDeploy.                             *)
(***************************************************************************)
EXTENDS Integers, Sequences, FiniteSets

CONSTANTS
  Settings,      \* the values of fabric_settings to consider
  all, ALL, OR   \* the words "all", "ALL" and "OR"

Count1 == Nat \ {0}
Setting ==
  [orgs : Count1, peers : Count1, orderers : Count1, zookeepers : Count1,
   kafkas : Count1, type : {"solo", "raft", "kafka"}, couch : BOOLEAN,
   external : {"yes", "no", "unset"}, internal : BOOLEAN, tls : BOOLEAN,
   privateFors : Count1 \cup {all, ALL}, policy : Int \cup {all, ALL, OR}]

ASSUME SettingsAssumption == Settings \subseteq Setting

VARIABLES
  s,          \* config['fabric_settings']
  vmCount,    \* config['vm_count'], 0 until check_config has set it
  pc,         \* the part of the start that runs next
  k,          \* the counter of the loop it is in
  idx,        \* the lists of indices, one per role
  groups,     \* config['groups'], each as a set
  certs,      \* the identities that crypto-config.yaml asks for
  tx,         \* what configtx.yaml names
  members,    \* the organisations that may read each collection
  required,   \* endorsements a transaction needs
  containers  \* the containers started so far

vars == <<s, vmCount, pc, k, idx, groups, certs, tx, members, required, containers>>

Machine == 0..(vmCount - 1)
Org == 1..s.orgs
Role == {"orderer", "peer", "db", "zookeeper", "kafka"}

\* range(a, a + n)
Through(a, n) == [i \in 0..n |-> a + i]
From(a, n) == [i \in 0..(n - 1) |-> a + i]
NoTx == [msps |-> {}, anchors |-> {}, consenters |-> {}, brokers |-> {},
         addresses |-> {}, rules |-> {}, acls |-> {}, policies |-> {},
         consortium |-> {}]

Init ==
  /\ s \in Settings
  /\ vmCount = 0
  /\ pc = "check"
  /\ k = 0
  /\ idx = [r \in Role |-> <<>>]
  /\ groups = <<>>
  /\ certs = {}
  /\ tx = NoTx
  /\ members = <<>>
  /\ required = 0
  /\ containers = {}

Raise ==
  /\ pc' = "raised"
  /\ UNCHANGED <<s, vmCount, k, idx, groups, certs, tx, members, required, containers>>

-----------------------------------------------------------------------------
(* check_config and the ranges of startup                                  *)

External == s.couch /\ s.external = "yes"
Peers(f) == f.orgs * f.peers
Ordering(f) == f.orderers + (IF f.type = "kafka" THEN f.zookeepers + f.kafkas ELSE 0)

CountWithoutDatabases(f) ==
  Peers(f) + Ordering(f) - (IF f.internal THEN f.orderers ELSE 0)
Count(f) ==
  Peers(f) * (IF External THEN 2 ELSE 1)
    + Ordering(f) - (IF f.internal THEN f.orderers ELSE 0)

\* Unset, external_database is a NameError when CouchDB makes the code ask.
Rejected ==
  \/ s.couch /\ s.external = "unset"
  \/ s.internal /\ s.type # "solo" /\ Peers(s) < s.orderers

CheckConfig ==
  /\ pc = "check"
  /\ ~Rejected
  /\ s' = IF s.type = "solo" THEN [s EXCEPT !.orderers = 1] ELSE s
  /\ vmCount' = Count(s')
  /\ pc' = "ranges"
  /\ UNCHANGED <<k, idx, groups, certs, tx, members, required, containers>>

Reject == pc = "check" /\ Rejected /\ Raise

StartAtZero == 0
StartIndex == IF s.internal THEN 0 ELSE s.orderers

Indices ==
  LET peer == From(StartIndex, Peers(s))
      next == StartIndex + (IF External THEN 2 ELSE 1) * Peers(s)
      n(c) == IF s.type = "kafka" THEN c ELSE 0
  IN [orderer |-> From(0, s.orderers),
      peer |-> peer,
      db |-> IF External THEN From(StartIndex + Peers(s), Peers(s)) ELSE peer,
      zookeeper |-> From(next, n(s.zookeepers)),
      kafka |-> From(next + n(s.zookeepers), n(s.kafkas))]

Ranges ==
  /\ pc = "ranges"
  /\ idx' = Indices
  /\ pc' = "groups"
  /\ UNCHANGED <<s, vmCount, k, groups, certs, tx, members, required, containers>>

-----------------------------------------------------------------------------
(* The groups: the peers of an organisation, their databases, its share of *)
(* the orderers; every other machine on its own                            *)

StrideOfPeers(org) == {org + i * s.peers : i \in 0..(s.peers - 1)}
PeerRange(org) == {org + i * s.orgs : i \in 0..(s.peers - 1)}

Share(org) ==
  LET n == s.orderers \div s.orgs
  IN IF s.orderers % s.orgs = 0 THEN (org * n)..((org + 1) * n - 1) ELSE {}

Lookup(r, nodes) == {idx[r][n] : n \in nodes}
GroupOf(org) ==
  Lookup("peer", PeerRange(org)) \cup Lookup("orderer", Share(org))
    \cup (IF External THEN Lookup("db", PeerRange(org)) ELSE {})

\* Every list is long enough and every index has an address.
InRange(org) ==
  /\ PeerRange(org) \subseteq DOMAIN idx["peer"] \cap DOMAIN idx["db"]
  /\ Share(org) \subseteq DOMAIN idx["orderer"]
  /\ GroupOf(org) \subseteq Machine

Group ==
  /\ pc = "groups"
  /\ k < s.orgs
  /\ IF InRange(k)
     THEN /\ groups' = Append(groups, GroupOf(k))
          /\ k' = k + 1
          /\ UNCHANGED <<s, vmCount, pc, idx, certs, tx, members, required, containers>>
     ELSE Raise

\* A machine that is on its own already is below k, so Grouped may be taken
\* afresh at every machine.
Grouped == UNION {groups[i] : i \in DOMAIN groups}

GroupsDone ==
  /\ pc = "groups"
  /\ k = s.orgs
  /\ pc' = "singles"
  /\ k' = 0
  /\ UNCHANGED <<s, vmCount, idx, groups, certs, tx, members, required, containers>>

Single ==
  /\ pc = "singles"
  /\ k \in Machine
  /\ groups' = IF k \in Grouped THEN groups ELSE Append(groups, {k})
  /\ k' = k + 1
  /\ UNCHANGED <<s, vmCount, pc, idx, certs, tx, members, required, containers>>

SinglesDone ==
  /\ pc = "singles"
  /\ k \notin Machine
  /\ pc' = "crypto"
  /\ k' = 0
  /\ UNCHANGED <<s, vmCount, idx, groups, certs, tx, members, required, containers>>

-----------------------------------------------------------------------------
(* The files                                                               *)

Orderer(o) == <<"orderer", o>>
Peer(org, p) == <<"peer", org, p>>
Couch(org, p) == <<"couchdb", org, p>>
Zookeeper(z) == <<"zookeeper", z>>
Kafka(b) == <<"kafka", b>>

WriteCryptoConfig ==
  /\ pc = "crypto"
  /\ certs' = {Orderer(o) : o \in 1..s.orderers}
                \cup {Peer(org, p) : org \in Org, p \in 0..(s.peers - 1)}
  /\ pc' = "configtx"
  /\ UNCHANGED <<s, vmCount, k, idx, groups, tx, members, required, containers>>

\* Organizations, with the anchor peers
Msps == {<<"OrdererMSP">>} \cup {<<"OrgMSP", org>> : org \in Org}
Anchors == {Peer(org, 0) : org \in Org}

\* Orderer: the type, its consenters or brokers, the addresses
ConsentersFromZero == {Orderer(o) : o \in 0..(s.orderers - 1)}
Consenters == {Orderer(o) : o \in 1..s.orderers}
Brokers == {Kafka(o - 1) : o \in 1..s.orderers}
Addresses == {Orderer(o) : o \in 1..s.orderers}

\* The rules of the policies of the sections Organizations, Orderer, Channel and
\* Application.  All but one name the members of an MSP: an organisation's own
\* admins are those of 'Org{n}', not of 'Org{n}MSP'.
OrgAdmins == {<<"Org", org>> : org \in Org}
Rules == {<<"OrdererMSP">>} \cup {<<"OrgMSP", org>> : org \in Org} \cup OrgAdmins

\* Application: the policies that guard its resources, and those it defines
Acls == {"Readers", "Writers"}
Policies == {"LifecycleEndorsement", "Endorsement", "Readers", "Writers", "Admins"}

\* Profiles: the consortium has rules of its own for the admins, which may
\* create a channel; the channel takes the organisations as they are
Consortium == {<<"OrgMSP", org>> : org \in Org}

WriteConfigtx ==
  /\ pc = "configtx"
  /\ s.type = "raft" => s.tls
  /\ tx' = [msps |-> Msps,
            anchors |-> Anchors,
            consenters |-> IF s.type = "raft" THEN Consenters ELSE {},
            brokers |-> IF s.type = "kafka" THEN Brokers ELSE {},
            addresses |-> Addresses,
            rules |-> Rules,
            acls |-> Acls,
            policies |-> Policies,
            consortium |-> Consortium]
  /\ pc' = "collections"
  /\ UNCHANGED <<s, vmCount, k, idx, groups, certs, members, required, containers>>

RaftWithoutTls == pc = "configtx" /\ s.type = "raft" /\ ~s.tls /\ Raise

\* Any other word than "all" is no number of organisations: a TypeError.
ValidPrivateFors == s.privateFors # ALL
PrivateFors == IF s.privateFors = all THEN s.orgs ELSE s.privateFors

MemberUnrotated(org, index) == (index % s.orgs) + 1
Member(org, index) == ((org + index) % s.orgs) + 1

WriteCollections ==
  /\ pc = "collections"
  /\ ValidPrivateFors
  /\ members' = [org \in Org |-> {Member(org, index) : index \in 0..(PrivateFors - 1)}]
  /\ pc' = "zookeeper"
  /\ UNCHANGED <<s, vmCount, k, idx, groups, certs, tx, required, containers>>

InvalidPrivateFors == pc = "collections" /\ ~ValidPrivateFors /\ Raise

-----------------------------------------------------------------------------
(* The containers.  Each loop runs over a list of indices and starts the   *)
(* containers of one entry; then the next loop begins.                     *)

Loops == <<"zookeeper", "kafka", "orderer", "peer", "script">>
NextLoop(p) == Loops[1 + CHOOSE i \in 1..4 : Loops[i] = p]

\* mounts: identities of crypto-config; names: containers it will talk to
Container(name, on, ports, mounts, names) ==
  [name |-> name, on |-> on, ports |-> ports, mounts |-> mounts, names |-> names]

Zookeepers == {Zookeeper(z) : z \in DOMAIN idx["zookeeper"]}
ZookeeperAt(i) == {Container(Zookeeper(i), idx["zookeeper"][i], {}, {}, Zookeepers)}

\* -p 9092 leaves the choice of the host's port to docker.
KafkaAt(i) == {Container(Kafka(i), idx["kafka"][i], {}, {}, Zookeepers)}

OrdererAt(i) ==
  {Container(Orderer(i + 1), idx["orderer"][i], {7050, 9442}, {Orderer(i + 1)},
             {Kafka(b) : b \in DOMAIN idx["kafka"]})}

\* The peers of an organisation follow each other here.
Slot(org, p) == (org - 1) * s.peers + p
PeerAt(i) ==
  LET org == 1 + i \div s.peers
      p == i % s.peers
      couch == IF s.couch THEN {Couch(org, p)} ELSE {}
  IN {Container(Peer(org, p), idx["peer"][Slot(org, p)], {7051, 7053, 9443},
                {Peer(org, p)}, couch)}
     \cup {Container(c, idx["db"][Slot(org, p)], {5984}, {}, {}) : c \in couch}

StartedAt(loop, i) ==
  CASE loop = "zookeeper" -> ZookeeperAt(i)
    [] loop = "kafka" -> KafkaAt(i)
    [] loop = "orderer" -> OrdererAt(i)
    [] loop = "peer" -> PeerAt(i)

InLoop == pc \in {"zookeeper", "kafka", "orderer", "peer"}
Placeable == \A c \in StartedAt(pc, k) : c.on \in Machine

Start ==
  /\ InLoop
  /\ k \in DOMAIN idx[pc]
  /\ IF Placeable
     THEN /\ containers' = containers \cup StartedAt(pc, k)
          /\ k' = k + 1
          /\ UNCHANGED <<s, vmCount, pc, idx, groups, certs, tx, members, required>>
     ELSE Raise

EndLoop ==
  /\ InLoop
  /\ k \notin DOMAIN idx[pc]
  /\ pc' = NextLoop(pc)
  /\ k' = 0
  /\ UNCHANGED <<s, vmCount, idx, groups, certs, tx, members, required, containers>>

-----------------------------------------------------------------------------
(* write_script, for the script that sets the channels up                  *)

ValidPolicy == s.policy \in {ALL, OR} \/ s.policy \in 1..s.orgs

WriteScript ==
  /\ pc = "script"
  /\ ValidPolicy
  /\ required' = CASE s.policy = OR -> 1
                   [] s.policy = ALL -> s.orgs
                   [] OTHER -> s.policy
  /\ pc' = "up"
  /\ UNCHANGED <<s, vmCount, k, idx, groups, certs, tx, members, containers>>

InvalidPolicy == pc = "script" /\ ~ValidPolicy /\ Raise

Over == pc \in {"up", "raised"} /\ UNCHANGED vars

Next ==
  \/ CheckConfig \/ Reject \/ Ranges
  \/ Group \/ GroupsDone \/ Single \/ SinglesDone
  \/ WriteCryptoConfig \/ WriteConfigtx \/ RaftWithoutTls
  \/ WriteCollections \/ InvalidPrivateFors
  \/ Start \/ EndLoop \/ WriteScript \/ InvalidPolicy
  \/ Over

Spec == Init /\ [][Next]_vars

-----------------------------------------------------------------------------
(* Properties                                                              *)

TypeOK ==
  /\ s \in Setting
  /\ vmCount \in Nat
  /\ pc \in {"check", "ranges", "groups", "singles", "crypto", "configtx",
             "collections", "zookeeper", "kafka", "orderer", "peer", "script", "up", "raised"}
  /\ k \in 0..(s.orderers + 2 * Peers(s) + s.zookeepers + s.kafkas)
  /\ \A r \in Role : \A i \in DOMAIN idx[r] : idx[r][i] \in Machine
  /\ \A i \in DOMAIN groups : groups[i] \subseteq Machine
  /\ \A org \in DOMAIN members : members[org] \subseteq Org
  /\ required \in Nat
  /\ \A c \in containers : c.on \in Machine

\* Settings that check_config accepted come up: after the machines have been
\* launched the start fails only for Raft without TLS, for private_fors that is
\* neither a number nor "all" and for an endorsement policy out of range, and no
\* list or address is ever indexed beyond its end (Fabric_Network.py:28-78
\* against 111-224, 893-925 and 1011-1312).
AcceptedComesUp ==
  pc = "raised" /\ vmCount > 0 =>
    (s.type = "raft" /\ ~s.tls) \/ ~ValidPrivateFors \/ ~ValidPolicy

\* check_config's number of machines is the one that is needed: every machine
\* runs a container, and containers that share a machine publish different
\* ports (Fabric_Network.py:28-168, 1014-1312).
MachinesFit ==
  pc = "up" =>
    /\ Machine = {c.on : c \in containers}
    /\ \A c, d \in containers : c # d /\ c.on = d.on => c.ports \cap d.ports = {}

\* Groups, as the network emulation uses them, partition the machines; internal
\* orderers shared evenly by several organisations are the exception, since
\* they are peers of other groups (Fabric_Network.py:173-224).
GroupsPartition ==
  pc \notin {"check", "ranges", "groups", "singles", "raised"}
    /\ ~(s.internal /\ s.orgs > 1 /\ s.orderers % s.orgs = 0)
    => \A m \in Machine : \E i \in DOMAIN groups :
         m \in groups[i] /\ \A j \in DOMAIN groups : m \in groups[j] => j = i

\* The names agree: what the channel configuration and the containers refer to
\* is a container that runs, mounts an identity that was generated, or is an
\* MSP or a policy of the file, with exactly two exceptions: the admins of every
\* organisation are those of an MSP that does not exist (line 555), and the
\* brokers, which are counted by the orderers, exist only when there are as
\* many Kafka nodes (line 627; Fabric_Network.py:399-432, 515-890, 1011-1312).
ReferencesResolve ==
  LET names == {c.name : c \in containers}
  IN pc = "up" =>
       /\ tx.anchors \cup tx.consenters \cup tx.addresses \subseteq names
       /\ s.type = "kafka" => (tx.brokers \subseteq names <=> s.orderers <= s.kafkas)
       /\ \A c \in containers : c.names \subseteq names /\ c.mounts \subseteq certs
       /\ tx.rules \ tx.msps = {<<"Org", org>> : org \in Org}
       /\ tx.consortium \subseteq tx.msps
       /\ tx.acls \subseteq tx.policies

\* Private data are shared evenly and the endorsement policy can be met: every
\* organisation is in private_fors collections, each collection has as many
\* members, and no more endorsements are asked for than there are
\* organisations (Fabric_Network.py:893-925, 984-1000).
PoliciesEven ==
  pc = "up" =>
    /\ required \in 1..s.orgs
    /\ PrivateFors <= s.orgs =>
         \A org \in Org :
           /\ Cardinality(members[org]) = PrivateFors
           /\ Cardinality({c \in Org : org \in members[c]}) = PrivateFors
=============================================================================
