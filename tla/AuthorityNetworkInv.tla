-------------------------- MODULE AuthorityNetworkInv --------------------------
(***************************************************************************)
(* The inductive invariant behind the safety properties of                 *)
(* AuthorityNetwork.                                                       *)
(***************************************************************************)
EXTENDS AuthorityNetwork

Before == {"install", "accounts", "assign"}
Sequel == {"collect", "static", "peers", "report", "watch", "running", "kill", "revive",
          "probe"}

\* The nodes that have their roles: those before the loop counter of Configure.
Configured(n) == CASE pc \in Before -> FALSE
                   [] pc = "configure" -> n < node
                   [] OTHER -> TRUE

NumAccounts == IF numAcc = 0 THEN 1 ELSE numAcc

\* The accounts are drawn once, all different.
Undrawn == chosen = <<>> /\ i = 0

Drawn ==
  /\ numAcc \in 0..NumNodes
  /\ chosen \in [1..numAcc -> Node]
  /\ \A j, k \in 1..numAcc : chosen[j] = chosen[k] => j = k
  /\ i \in 0..(NumAccounts - 1)

ChosenInv ==
  \/ pc \in Before \cup {"failed"} /\ Undrawn
  \/ pc \notin Before /\ Drawn

\* A node that has its role seals with an account it unlocks, or not at all.
RolesInv ==
  /\ signers \in Seq(Node) /\ Len(signers) <= NumNodes
  /\ pc \in Before => signers = <<>>
  /\ pc = "configure" => Len(signers) <= node
  /\ ToSet(signers) = {sealer[n] : n \in Node} \ {-1}
  /\ pc # "failed" => \A n \in Node : ~Configured(n) => sealer[n] = -1
  /\ \A n \in Node : sealer[n] # -1 => sealer[n] \in ToSet(AccountsOf(n))

\* The rotation begins with the second account, so the accounts that the current
\* lap has reached have one node more than the first; i tells how far it got,
\* until all sealers are named.
SpreadInv ==
  pc \notin Before \cup {"failed"} =>
    IF numAcc = 0
    THEN \A n \in Node : sealer[n] \in {n, -1}
    ELSE \E last \in 0..(numAcc - 1) :
           /\ pc = "configure" /\ node <= NumberOfSigners => last = i
           /\ \A j \in 1..numAcc :
                SealedBy(chosen[j]) = SealedBy(chosen[1]) + (IF j \in 2..(last + 1) THEN 1 ELSE 0)

-----------------------------------------------------------------------------
(* Where an undisturbed machine is                                         *)

Pushed(n) == pc \in {"bounce"} \cup Sequel \/ (pc = "push" /\ n < node)

Runs(n) ==
  CASE pc = "kill" -> n >= node
    [] pc = "revive" -> n < node
    [] pc = "probe" -> n <= node
    [] OTHER -> Pushed(n)

HasStatic(n) == pc \in Sequel \ {"collect", "static"} \/ (pc = "static" /\ n < node)

Introduced(n) ==
  /\ HasStatic(n)
  /\ pc = "static" => client = "parity"
  /\ pc = "peers" => n < node

\* Only the machines that were hit have commands still to come, and before the
\* start nothing is on any of them.
HitInv ==
  /\ \A n \in Node \ hit : late[n] = {}
  /\ pc \in Before => \A n \in Node : machine[n] = Fresh(client) /\ late[n] = {}

\* What a machine with all keys that is told in time has got.
InPlace(n) ==
  /\ machine[n].keys
  /\ machine[n].disk = IF Pushed(n) THEN "common" ELSE Fresh(client).disk
  /\ machine[n].run = IF Runs(n) THEN "common" ELSE "down"
  /\ HasStatic(n) => machine[n].static
  /\ Introduced(n) /\ Runs(n) => machine[n].knows

MachineInv ==
  pc \notin Before \cup {"failed"} =>
    \A n \in Node \ hit : HasAllKeys(n) => InPlace(n)

IInv == TypeOK /\ ChosenInv /\ RolesInv /\ SpreadInv /\ HitInv /\ MachineInv
=============================================================================
