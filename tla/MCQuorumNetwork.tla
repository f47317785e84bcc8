---------------------------- MODULE MCQuorumNetwork ----------------------------
(* Instances of QuorumNetwork for TLC.                                     *)
EXTENDS QuorumNetwork
=============================================================================
