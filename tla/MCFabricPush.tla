----------------------------- MODULE MCFabricPush -----------------------------
(* Six machines: two full rounds and a last one that serves fewer machines    *)
(* than are finished.                                                         *)
EXTENDS FabricPush
=============================================================================
