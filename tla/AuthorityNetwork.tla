---------------------------- MODULE AuthorityNetwork ---------------------------
(***************************************************************************)
(* Geth_Network and Parity_Network: proof-of-authority networks.  The      *)
(* operator fetches one account per machine, decides which accounts each   *)
(* machine unlocks and which nodes seal, distributes keys and genesis,     *)
(* starts the services, connects the nodes and watches for blocks; restart *)
(* stops all services and revives them one by one.                         *)
(*                                                                         *)
(* Nearly all commands are sent with exec_command and not awaited.  Here a *)
(* command takes effect at once, or it is late and takes effect at any     *)
(* later moment, overtaken by what was sent after it.                      *)
(*                                                                         *)
(* systemd, geth and parity are external: modelled by what the setup       *)
(* relies on.  The file of pending transactions is left out, and the       *)
(* service files, passwords and node.toml are taken to be written in time. *)
(***************************************************************************)
EXTENDS Integers, FiniteSets, SequencesExt

CONSTANTS
  NumNodes,    \* vm_count
  Shares,      \* the values of 'signers' to explore, in tenths; 0: not set
  Installs,    \* attempts to install Parity, 15 in the code
  Watches,     \* looks at the block numbers: 5 for Geth, 50 for Parity
  MaxFaults,   \* bound: late commands, crashes, accounts that go wrong
  MaxRestarts  \* bound: calls of restart

ASSUME AuthorityAssumption ==
  /\ NumNodes \in Nat \ {0}
  /\ Shares \subseteq 0..10
  /\ Installs \in Nat \ {0} /\ Watches \in Nat \ {0}
  /\ MaxFaults \in Nat /\ MaxRestarts \in Nat

Node == 0..(NumNodes - 1)

VARIABLES
  client,   \* blockchain_type
  share,    \* <client>_settings['signers']
  numAcc,   \* <client>_settings['num_acc'], 0 for None
  pc, node, \* the phase and its loop counter
  count,    \* tries of install, or looks at the block numbers
  made,     \* the account of each machine: "ok", "nokey" or "empty"
  chosen,   \* rnd_accounts
  i,        \* the rotation over the accounts of a machine
  sealer,   \* engine_signer or etherbase of each node, -1 if it does not mine
  signers,  \* signer_accounts
  machine,  \* what is on each machine
  late,     \* the commands still to take effect on each machine
  blocks,   \* the nodes whose chain has a block
  hit,      \* history: the machines a fault has hit
  restarts, budget

settings == <<client, share, numAcc>>
roles == <<chosen, i, sealer, signers>>
work == <<machine, late>>
vars == <<settings, pc, node, count, made, roles, work, blocks, hit, restarts, budget>>

\* disk: the chain the next start runs on; genesis: genesis.json is in place;
\* run: the chain the service runs on; static and knows: the other nodes are
\* in the file of peers, and known to the service.
Machine == [disk : {"none", "other", "common"}, genesis : BOOLEAN, keys : BOOLEAN,
            run : {"down", "other", "common"}, static : BOOLEAN, knows : BOOLEAN]

Fresh(c) == [disk |-> IF c = "geth" THEN "none" ELSE "other", genesis |-> FALSE,
             keys |-> TRUE, run |-> "down", static |-> FALSE, knows |-> FALSE]

Init ==
  /\ client \in {"geth", "parity"}
  /\ share \in Shares
  /\ numAcc \in 0..(NumNodes + 1)
  /\ pc = IF client = "geth" THEN "accounts" ELSE "install"
  /\ node = 0
  /\ count = 1
  /\ made = [n \in Node |-> "ok"]
  /\ chosen = <<>>
  /\ i = 0
  /\ sealer = [n \in Node |-> -1]
  /\ signers = <<>>
  /\ machine = [n \in Node |-> Fresh(client)]
  /\ late = [n \in Node |-> {}]
  /\ blocks = {}
  /\ hit = {}
  /\ restarts = 0
  /\ budget = MaxFaults

Goto(p) == pc' = p /\ node' = 0
Raise == pc' = "failed" /\ UNCHANGED node
Loop(p) == IF node + 1 < NumNodes THEN node' = node + 1 /\ UNCHANGED pc ELSE Goto(p)

-----------------------------------------------------------------------------
(* Commands                                                                *)

\* The unit has no Restart=: a service that cannot start stays down.  geth
\* creates the chain it knows by default where init has not been run.
Start(m) ==
  IF m.run # "down" THEN m
  ELSE IF ~m.keys \/ (client = "parity" /\ m.disk = "none") THEN m
  ELSE LET d == IF m.disk = "none" THEN "other" ELSE m.disk
       IN  [m EXCEPT !.disk = d, !.run = d, !.knows = m.static]

Stop(m) == [m EXCEPT !.run = "down", !.knows = FALSE]

Effect(m, c) ==
  CASE c = "rmkeys"  -> [m EXCEPT !.keys = FALSE]
    [] c = "genesis" -> [m EXCEPT !.genesis = TRUE]
    [] c = "init"    -> IF m.genesis /\ m.disk = "none" THEN [m EXCEPT !.disk = "common"] ELSE m
    [] c = "rmspec"  -> [m EXCEPT !.disk = "none"]
    [] c = "mvspec"  -> [m EXCEPT !.disk = "common"]
    [] c = "static"  -> [m EXCEPT !.static = TRUE]
    [] c = "start"   -> Start(m)
    [] c = "stop"    -> Stop(m)
    [] c = "restart" -> Start(Stop(m))

Commands == {"rmkeys", "genesis", "init", "rmspec", "mvspec", "static", "start", "stop", "restart"}

\* One command, or three in a row, without those that are slow.
DoOne(m, c, slow) == IF c \in slow THEN m ELSE Effect(m, c)

Do(m, cmds, slow) ==
  IF Len(cmds) = 1 THEN DoOne(m, cmds[1], slow)
  ELSE DoOne(DoOne(DoOne(m, cmds[1], slow), cmds[2], slow), cmds[3], slow)

\* exec_command for each of cmds, some of them late
Delay(n, slow) ==
  /\ Cardinality(slow) <= budget
  /\ budget' = budget - Cardinality(slow)
  /\ late' = [late EXCEPT ![n] = @ \cup slow]
  /\ hit' = IF slow = {} THEN hit ELSE hit \cup {n}

Launch(n, cmds) ==
  \E slow \in SUBSET ToSet(cmds) :
    /\ Delay(n, slow)
    /\ machine' = [machine EXCEPT ![n] = Do(@, cmds, slow)]

Catch ==
  \E n \in Node : \E c \in late[n] :
    /\ late' = [late EXCEPT ![n] = @ \ {c}]
    /\ machine' = [machine EXCEPT ![n] = Effect(@, c)]
    /\ UNCHANGED <<settings, pc, node, count, made, roles, blocks, hit, restarts, budget>>

Quiet == UNCHANGED <<work, hit, budget>>

-----------------------------------------------------------------------------
(* Accounts                                                                *)

\* Parity only: install until the binary is there, or raise ParityInstallFailed.
OneTryMore == count <= Installs
TryLeft == count < Installs

Install ==
  /\ pc = "install"
  /\ \/ Loop("accounts") /\ count' = 1
     \/ TryLeft /\ count' = count + 1 /\ UNCHANGED <<pc, node>>
     \/ ~TryLeft /\ Raise /\ UNCHANGED count
  /\ Quiet
  /\ UNCHANGED <<settings, made, roles, blocks, restarts>>

\* The file of the account may be empty.  Parity's "account new", and the copy
\* of the key store, are not awaited: the copy may come too early, or what is
\* fetched may not be there.
Fault == budget > 0 /\ budget' = budget - 1

FetchAccount ==
  /\ pc = "accounts"
  /\ \/ UNCHANGED <<made, budget>> /\ Loop("assign")
     \/ /\ Fault
        /\ \E bad \in {"empty"} \cup (IF client = "parity" THEN {"nokey"} ELSE {}) :
             made' = [made EXCEPT ![node] = bad]
        /\ Loop("assign")
     \/ client = "parity" /\ Fault /\ Raise /\ UNCHANGED made
  /\ UNCHANGED <<settings, count, roles, work, blocks, hit, restarts>>

\* Python's round: half to even
Rounded(tenths) ==
  LET q == tenths \div 10
      r == tenths % 10
  IN  IF r > 5 \/ (r = 5 /\ q % 2 = 1) THEN q + 1 ELSE q

NumberOfSigners == IF share = 0 THEN NumNodes ELSE Rounded(NumNodes * share)

\* get_relevant_account_mapping; num_acc is capped in the configuration
Assign ==
  /\ pc = "assign"
  /\ numAcc' = IF numAcc > NumNodes THEN NumNodes ELSE numAcc
  /\ chosen' \in {s \in [1..numAcc' -> Node] : IsInjective(s)}
  /\ Goto("configure")
  /\ Quiet
  /\ UNCHANGED <<client, share, count, made, i, sealer, signers, blocks, restarts>>

AccountsOf(n) == IF numAcc = 0 THEN <<n>> ELSE chosen
HasAllKeys(n) == \A a \in ToSet(AccountsOf(n)) : made[a] = "ok"

\* The first node takes the second account.  Geth with one account per machine
\* does not rotate.
StayAtEnd(n) == IF Len(AccountsOf(n)) = i + 1 THEN i ELSE i + 1
Rotated(n) == IF Len(AccountsOf(n)) = i + 1 THEN 0 ELSE i + 1
SealerOf(n) == AccountsOf(n)[Rotated(n) + 1]

FirstAccount(n) == AccountsOf(n)[1]
SignerOf(n) == SealerOf(n)

\* Geth, when the accounts are shared, clears and refills the key store of all
\* machines once per node; only the last round is told apart.
Refill(n) ==
  \E slow \in SUBSET (Node \X {"rmkeys"}) :
    /\ slow # {} => n = NumNodes - 1
    /\ Cardinality(slow) <= budget
    /\ budget' = budget - Cardinality(slow)
    /\ late' = [m \in Node |-> late[m] \cup {c \in {"rmkeys"} : <<m, c>> \in slow}]
    /\ hit' = hit \cup {m \in Node : <<m, "rmkeys">> \in slow}
    /\ machine' = [m \in Node |-> [machine[m] EXCEPT !.keys = HasAllKeys(m)]]

\* The service file of a node, or its node.toml.  An empty account is no address.
Configure ==
  /\ pc = "configure"
  /\ IF \E a \in ToSet(AccountsOf(node)) : made[a] = "empty"
     THEN Raise /\ Quiet /\ UNCHANGED <<i, sealer, signers>>
     ELSE /\ i' = Rotated(node)
          /\ IF node < NumberOfSigners
             THEN /\ sealer' = [sealer EXCEPT ![node] = SealerOf(node)]
                  /\ signers' = Append(signers, SignerOf(node))
             ELSE UNCHANGED <<sealer, signers>>
          /\ IF client = "geth" /\ numAcc > 0 THEN Refill(node) ELSE Quiet
          /\ Loop("push")
  /\ UNCHANGED <<settings, count, made, chosen, blocks, restarts>>

-----------------------------------------------------------------------------
(* Genesis and start                                                       *)

StartBeforeInit == <<"genesis", "start", "init">>
GethCommands == <<"genesis", "init", "start">>
ParityCommands == <<"rmspec", "mvspec", "start">>

PushGeth ==
  /\ client = "geth"
  /\ Launch(node, GethCommands)

\* The copy of the keys is synchronous, the removal before it is not.
PushParity ==
  /\ client = "parity"
  /\ \E slow \in SUBSET ({"rmkeys"} \cup ToSet(ParityCommands)) :
       /\ Delay(node, slow)
       /\ machine' = [machine EXCEPT ![node] =
            Do([@ EXCEPT !.keys = HasAllKeys(node)], ParityCommands, slow)]

Push ==
  /\ pc = "push"
  /\ PushGeth \/ PushParity
  /\ Loop(IF client = "geth" THEN "collect" ELSE "bounce")
  /\ UNCHANGED <<settings, count, made, roles, blocks, restarts>>

\* service parity restart, after ten seconds
Bounce ==
  /\ pc = "bounce"
  /\ Launch(node, <<"restart">>)
  /\ Loop("collect")
  /\ UNCHANGED <<settings, count, made, roles, blocks, restarts>>

\* A call of web3 to a service that is down raises, after ten connects.
Ask(n, p) == IF machine[n].run = "down" THEN Raise ELSE Loop(p)

CollectEnode ==
  /\ pc = "collect"
  /\ Ask(node, "static")
  /\ Quiet
  /\ UNCHANGED <<settings, count, made, roles, blocks, restarts>>

\* static-nodes.json for Geth; peers.txt and another restart for Parity
PlaceStatic ==
  /\ pc = "static"
  /\ Launch(node, IF client = "geth" THEN <<"static">> ELSE <<"static", "stop", "start">>)
  /\ Loop(IF client = "geth" THEN "peers" ELSE "report")
  /\ UNCHANGED <<settings, count, made, roles, blocks, restarts>>

\* Geth only: admin.add_peer of all others
AddPeers ==
  /\ pc = "peers"
  /\ Ask(node, "report")
  /\ machine' = IF machine[node].run = "down" THEN machine
                ELSE [machine EXCEPT ![node].knows = TRUE]
  /\ UNCHANGED <<settings, count, made, roles, late, blocks, hit, restarts, budget>>

\* The balances of all accounts, drawn or not: an empty one is no address.  The
\* file with the version comes from a command that is not awaited.
Report ==
  /\ pc = "report"
  /\ \/ /\ IF \E a \in Node : made[a] = "empty" THEN Raise ELSE Ask(node, "watch")
        /\ UNCHANGED budget
     \/ node = 0 /\ Fault /\ Raise
  /\ count' = 1
  /\ UNCHANGED <<settings, made, roles, work, hit, blocks, restarts>>

\* Geth looks at all nodes a fixed number of times, Parity at node 0 until it
\* has a block; neither draws a conclusion.
Watch ==
  /\ pc = "watch"
  /\ IF \E n \in IF client = "geth" THEN Node ELSE {0} : machine[n].run = "down"
     THEN Raise /\ UNCHANGED count
     ELSE IF count < Watches /\ (client = "geth" \/ 0 \notin blocks)
     THEN count' = count + 1 /\ UNCHANGED <<pc, node>>
     ELSE count' = 1 /\ Goto("running")
  /\ Quiet
  /\ UNCHANGED <<settings, made, roles, blocks, restarts>>

-----------------------------------------------------------------------------
(* restart                                                                 *)

Restart ==
  /\ pc = "running"
  /\ restarts < MaxRestarts
  /\ restarts' = restarts + 1
  /\ Goto("kill")
  /\ Quiet
  /\ UNCHANGED <<settings, count, made, roles, blocks>>

KillNode ==
  /\ pc = "kill"
  /\ Launch(node, <<"stop">>)
  /\ Loop("revive")
  /\ UNCHANGED <<settings, count, made, roles, blocks, restarts>>

ReviveNode ==
  /\ pc = "revive"
  /\ Launch(node, <<"start">>)
  /\ pc' = "probe" /\ UNCHANGED node
  /\ UNCHANGED <<settings, count, made, roles, blocks, restarts>>

RevivedNext(n) == (n + 1) % NumNodes \in blocks
Revived(n) == n \in blocks

\* restart_count stays 0: a node without a block is stopped and started forever.
Probe ==
  /\ pc = "probe"
  /\ \/ /\ machine[node].run = "down"
        /\ Raise /\ Quiet
     \/ /\ machine[node].run # "down" /\ Revived(node)
        /\ IF node + 1 < NumNodes THEN pc' = "revive" /\ node' = node + 1 ELSE Goto("running")
        /\ Quiet
     \/ /\ machine[node].run # "down" /\ ~Revived(node)
        /\ Launch(node, <<"stop">>)
        /\ pc' = "revive" /\ UNCHANGED node
  /\ UNCHANGED <<settings, count, made, roles, blocks, restarts>>

-----------------------------------------------------------------------------
(* The services                                                            *)

Crash ==
  /\ pc # "failed"
  /\ budget > 0
  /\ budget' = budget - 1
  /\ \E n \in Node :
       /\ machine[n].run # "down"
       /\ machine' = [machine EXCEPT ![n] = Stop(@)]
       /\ hit' = hit \cup {n}
  /\ UNCHANGED <<settings, pc, node, count, made, roles, late, blocks, restarts>>

\* A sealer of the common chain makes a block, a node gets it from another.
Linked(n, m) == machine[n].knows \/ machine[m].knows
OnChain(n) == machine[n].run = "common"
CanSeal(n) == OnChain(n) /\ sealer[n] \in ToSet(signers)

Block ==
  /\ pc # "failed"
  /\ \E n \in Node \ blocks :
       /\ CanSeal(n) \/ (OnChain(n) /\ \E m \in blocks : OnChain(m) /\ Linked(n, m))
       /\ blocks' = blocks \cup {n}
  /\ UNCHANGED <<settings, pc, node, count, made, roles, work, hit, restarts, budget>>

Operator ==
  \/ Install \/ FetchAccount \/ Assign \/ Configure \/ Push \/ Bounce \/ CollectEnode
  \/ PlaceStatic \/ AddPeers \/ Report \/ Watch \/ KillNode \/ ReviveNode \/ Probe

Over == pc \in {"running", "failed"} /\ UNCHANGED vars

Next == Operator \/ Restart \/ Catch \/ Crash \/ Block \/ Over

Spec == Init /\ [][Next]_vars

\* The operator's process goes on.
FairSpec == Spec /\ WF_vars(Operator)

-----------------------------------------------------------------------------
(* Properties                                                              *)

TypeOK ==
  /\ client \in {"geth", "parity"}
  /\ share \in Shares
  /\ numAcc \in 0..(NumNodes + 1)
  /\ pc \in {"install", "accounts", "assign", "configure", "push", "bounce", "collect",
             "static", "peers", "report", "watch", "running", "kill", "revive", "probe",
             "failed"}
  /\ node \in Node
  /\ \/ count \in 1..Installs
     \/ pc \in {"watch", "failed"} /\ count \in 1..Watches
  /\ made \in [Node -> {"ok", "nokey", "empty"}]
  /\ Len(chosen) <= NumNodes
  /\ i \in Node
  /\ sealer \in [Node -> Node \cup {-1}]
  /\ Len(signers) <= NumNodes
  /\ machine \in [Node -> Machine]
  /\ late \in [Node -> SUBSET Commands]
  /\ blocks \subseteq Node
  /\ hit \subseteq Node
  /\ restarts \in 0..MaxRestarts
  /\ budget \in 0..MaxFaults

\* Once the genesis block is written, the accounts in it are exactly those that
\* the mining nodes seal with, and each of those nodes unlocks its account
\* (Geth_Network.py:139-196, Parity_Network.py:245-262).
SealersAreSigners ==
  pc \notin {"install", "accounts", "assign", "configure", "failed"} =>
    /\ ToSet(signers) = {sealer[n] : n \in Node} \ {-1}
    /\ \A n \in Node : sealer[n] # -1 => sealer[n] \in ToSet(AccountsOf(n))

\* The rotation spreads the sealing nodes evenly over the accounts: no account
\* has two nodes more than another, and as long as there are enough accounts no
\* two nodes seal with the same key.
SealedBy(a) == Cardinality({n \in Node : sealer[n] = a})

SignersSpread ==
  pc \notin {"install", "accounts", "assign", "configure", "failed"} =>
    LET used == UNION {ToSet(AccountsOf(n)) : n \in 0..(NumberOfSigners - 1)}
    IN  \A a, b \in used : SealedBy(a) <= SealedBy(b) + 1

\* Late commands and crashes hurt only the machine they hit: when the setup or
\* a restart is over, a machine none of them hit, and whose accounts all have
\* keys, runs on the common chain and has the others as peers.
Undisturbed ==
  pc = "running" =>
    \A n \in Node \ hit :
      HasAllKeys(n) => OnChain(n) /\ machine[n].knows

\* Setup and restart end, unless the restart has met a node whose chain has no
\* block, which it stops and starts forever (Geth_Network.py:436-456,
\* Parity_Network.py:608-633).
RestartEnds ==
  []<>(pc \in {"running", "failed"}) \/ <>[](pc \in {"probe", "revive"} /\ node \notin blocks)
=============================================================================
