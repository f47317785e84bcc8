---------------------------- MODULE MCFabricLayout ----------------------------
(* Instances of FabricLayout for TLC.                                      *)
EXTENDS FabricLayout

\* Up to three organisations of up to two peers, up to four orderers, every
\* ordering service and every place for the database.
SmallSettings ==
  {f \in [orgs : 1..3, peers : 1..2, orderers : {1, 2, 4}, zookeepers : {1},
          kafkas : {2}, type : {"solo", "raft", "kafka"}, couch : BOOLEAN,
          external : {"yes", "no", "unset"}, internal : BOOLEAN,
          tls : BOOLEAN, privateFors : {1, 2, all, ALL},
          policy : {all, ALL, OR, 0, 2}] :
     \* the settings that do not touch the machines vary on their own
     \/ f.tls /\ f.privateFors = 2 /\ f.policy = ALL
     \/ f.orderers = 1 /\ f.type # "kafka" /\ ~f.couch /\ ~f.internal /\ f.external = "no"}
=============================================================================
