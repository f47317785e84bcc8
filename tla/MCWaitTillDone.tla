---------------------------- MODULE MCWaitTillDone ----------------------------
(* Instances of WaitTillDone for TLC.                                      *)
EXTENDS WaitTillDone

AllWaits == Wait

\* The waits for a file of the boot that came before.
StaleWaits == {"reboot"}
=============================================================================
