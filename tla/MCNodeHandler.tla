---------------------------- MODULE MCNodeHandler ----------------------------
(* NodeHandler with two regions of at most two instances.  (1,1) and (2,1)  *)
(* fit into vm_count addresses, (1,2) runs past the array; the framework    *)
(* keeps vm_count, or lowers or raises it as Fabric's check_config may.     *)
EXTENDS NodeHandler

MCDistributions == {<<1, 1>>, <<2, 1>>, <<1, 2>>}
MCEvenDistribution == {<<1, 1>>}
=============================================================================
