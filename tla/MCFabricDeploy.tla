---------------------------- MODULE MCFabricDeploy ----------------------------
(* Instances of FabricDeploy for TLC.                                      *)
EXTENDS FabricDeploy, TLC

CONSTANTS p1, p2, o1

TwoPeers == <<p1, p2>>
TwoPeersPolled == <<p1, p2, o1>>
OnePeer == <<p1>>
OnePeerPolled == <<p1, o1>>
=============================================================================
