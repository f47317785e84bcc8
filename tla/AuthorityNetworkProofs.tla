------------------------- MODULE AuthorityNetworkProofs -------------------------
(***************************************************************************)
(* Proofs about AuthorityNetwork, for any number of nodes, accounts,       *)
(* shares of signers, tries, faults and restarts.                          *)
(***************************************************************************)
EXTENDS AuthorityNetworkInv, FiniteSetTheorems, TLAPS

LEMMA NodeFacts ==
  /\ NumNodes \in Nat \ {0} /\ 0 \in Node /\ Node \subseteq Nat /\ -1 \notin Node
  /\ \A n \in Node : n + 1 \in Nat /\ (n + 1 < NumNodes => n + 1 \in Node)
  /\ IsFiniteSet(Node)
<1>1. NumNodes \in Nat \ {0}
  BY AuthorityAssumption
<1>2. IsFiniteSet(Node)
  BY <1>1, FS_Interval DEF Node
<1> QED
  BY <1>1, <1>2 DEF Node

\* A loop over the nodes: who has had its turn.
LEMMA LoopStep ==
  ASSUME NEW p, Loop(p), node \in Node
  PROVE  /\ node' \in Node
         /\ \/ pc' = pc /\ node' = node + 1 /\ \A m \in Node : m < node' <=> m < node \/ m = node
            \/ pc' = p /\ node' = 0 /\ \A m \in Node : (m < node \/ m = node) /\ ~(m < node')
<1>1. CASE node + 1 < NumNodes
  BY <1>1, NodeFacts DEF Loop
<1>2. CASE ~(node + 1 < NumNodes)
  <2>1. pc' = p /\ node' = 0
    BY <1>2 DEF Loop, Goto
  <2>2. \A m \in Node : (m < node \/ m = node) /\ ~(m < node')
    BY <1>2, <2>1, NodeFacts DEF Node
  <2> QED
    BY <2>1, <2>2, NodeFacts
<1> QED
  BY <1>1, <1>2

-----------------------------------------------------------------------------
(* Commands                                                                *)

LEMMA CommandsFinite == IsFiniteSet(Commands)
<1> DEFINE A == {"rmkeys", "genesis", "init"} B == {"rmspec", "mvspec", "static"}
           C == {"start", "stop", "restart"}
<1>1. ASSUME NEW x, NEW y, NEW z
      PROVE  IsFiniteSet({x, y, z})
  <2>1. {x, y, z} = {x} \cup ({y} \cup {z})
    OBVIOUS
  <2>2. IsFiniteSet({x}) /\ IsFiniteSet({y}) /\ IsFiniteSet({z})
    BY FS_Singleton
  <2>3. IsFiniteSet({y} \cup {z})
    BY <2>2, FS_Union
  <2>4. IsFiniteSet({x} \cup ({y} \cup {z}))
    BY <2>2, <2>3, FS_Union
  <2> QED
    BY <2>1, <2>4
<1>2. Commands = A \cup (B \cup C)
  BY DEF Commands
<1> QED
  BY <1>1, <1>2, FS_Union

LEMMA SlowFacts ==
  ASSUME NEW slow \in SUBSET Commands
  PROVE  Cardinality(slow) \in Nat
BY CommandsFinite, FS_Subset, FS_CardinalityType

\* What each command does.
LEMMA StartIs ==
  ASSUME NEW m \in Machine
  PROVE  /\ Start(m) \in Machine /\ Stop(m) \in Machine
         /\ Start(m).keys = m.keys /\ Start(m).static = m.static
         /\ m.run = "down" /\ m.keys /\ m.disk = "common" =>
              Start(m).run = "common" /\ Start(m).disk = "common" /\ Start(m).knows = m.static
         /\ Stop(m).run = "down" /\ Stop(m).keys = m.keys /\ Stop(m).static = m.static
         /\ Stop(m).disk = m.disk
BY DEF Machine, Start, Stop

LEMMA EffectIs ==
  ASSUME NEW m
  PROVE  /\ Effect(m, "rmkeys") = [m EXCEPT !.keys = FALSE]
         /\ Effect(m, "genesis") = [m EXCEPT !.genesis = TRUE]
         /\ Effect(m, "init") = IF m.genesis /\ m.disk = "none" THEN [m EXCEPT !.disk = "common"] ELSE m
         /\ Effect(m, "rmspec") = [m EXCEPT !.disk = "none"]
         /\ Effect(m, "mvspec") = [m EXCEPT !.disk = "common"]
         /\ Effect(m, "static") = [m EXCEPT !.static = TRUE]
         /\ Effect(m, "start") = Start(m)
         /\ Effect(m, "stop") = Stop(m)
         /\ Effect(m, "restart") = Start(Stop(m))
BY DEF Effect

LEMMA EffectTyped ==
  ASSUME NEW m \in Machine, NEW c \in Commands
  PROVE  Effect(m, c) \in Machine
<1> DEFINE E == Effect(m, c)
<1>1. CASE c \in {"rmkeys", "genesis", "init"}
  <2>1. E \in {m, [m EXCEPT !.keys = FALSE], [m EXCEPT !.genesis = TRUE], [m EXCEPT !.disk = "common"]}
    BY <1>1, EffectIs
  <2> QED
    BY <2>1 DEF Machine
<1>2. CASE c \in {"rmspec", "mvspec", "static"}
  <2>1. E \in {[m EXCEPT !.disk = "none"], [m EXCEPT !.disk = "common"], [m EXCEPT !.static = TRUE]}
    BY <1>2, EffectIs
  <2> QED
    BY <2>1 DEF Machine
<1>3. CASE c \in {"start", "stop", "restart"}
  BY <1>3, EffectIs, StartIs
<1> QED
  BY <1>1, <1>2, <1>3 DEF Commands

\* The lists of commands that the operator sends.
Listed(cmds) ==
  /\ ToSet(cmds) \subseteq Commands
  /\ \/ Len(cmds) = 1 /\ cmds[1] \in Commands
     \/ Len(cmds) # 1 /\ cmds[1] \in Commands /\ cmds[2] \in Commands /\ cmds[3] \in Commands

LEMMA ListedCommands ==
  /\ Listed(GethCommands) /\ Listed(ParityCommands)
  /\ Listed(<<"static", "stop", "start">>) /\ Listed(<<"static">>)
  /\ Listed(<<"restart">>) /\ Listed(<<"start">>) /\ Listed(<<"stop">>)
BY DEF Listed, GethCommands, ParityCommands, Commands, ToSet

LEMMA DoTyped ==
  ASSUME NEW m \in Machine, NEW cmds, Listed(cmds), NEW slow
  PROVE  Do(m, cmds, slow) \in Machine
<1>1. \A r \in Machine, c \in Commands : DoOne(r, c, slow) \in Machine
  BY EffectTyped DEF DoOne
<1> QED
  BY <1>1 DEF Do, Listed

\* What the lists do when no command is late.
LEMMA AtOnce ==
  ASSUME NEW m \in Machine, NEW cmds
  PROVE  /\ Len(cmds) = 1 => Do(m, cmds, {}) = Effect(m, cmds[1])
         /\ Len(cmds) # 1 => Do(m, cmds, {}) = Effect(Effect(Effect(m, cmds[1]), cmds[2]), cmds[3])
BY DEF Do, DoOne

LEMMA GethPushed ==
  ASSUME NEW m \in Machine, m.keys, m.disk = "none", m.run = "down"
  PROVE  LET r == Do(m, GethCommands, {})
         IN  r.keys /\ r.disk = "common" /\ r.run = "common"
<1> DEFINE g == [m EXCEPT !.genesis = TRUE]
           d == [g EXCEPT !.disk = "common"]
<1>1. Do(m, GethCommands, {}) = Effect(Effect(Effect(m, "genesis"), "init"), "start")
  BY AtOnce DEF GethCommands
<1>2. Effect(m, "genesis") = g
  BY EffectIs
<1>3. g \in Machine /\ g.keys /\ g.disk = "none" /\ g.run = "down" /\ g.genesis
  BY DEF Machine
<1>4. Effect(g, "init") = d
  BY <1>3, EffectIs
<1>5. d \in Machine /\ d.keys /\ d.disk = "common" /\ d.run = "down"
  BY <1>3 DEF Machine
<1>6. Effect(d, "start") = Start(d)
  BY EffectIs
<1> HIDE DEF g, d
<1> QED
  BY <1>1, <1>2, <1>4, <1>5, <1>6, StartIs

LEMMA ParityPushed ==
  ASSUME NEW m \in Machine, m.keys, m.run = "down"
  PROVE  LET r == Do(m, ParityCommands, {})
         IN  r.keys /\ r.disk = "common" /\ r.run = "common"
<1> DEFINE g == [m EXCEPT !.disk = "none"]
           d == [g EXCEPT !.disk = "common"]
<1>1. Do(m, ParityCommands, {}) = Effect(Effect(Effect(m, "rmspec"), "mvspec"), "start")
  BY AtOnce DEF ParityCommands
<1>2. Effect(m, "rmspec") = g
  BY EffectIs
<1>4. Effect(g, "mvspec") = d
  BY EffectIs
<1>5. d \in Machine /\ d.keys /\ d.disk = "common" /\ d.run = "down"
  BY DEF Machine
<1>6. Effect(d, "start") = Start(d)
  BY EffectIs
<1> HIDE DEF g, d
<1> QED
  BY <1>1, <1>2, <1>4, <1>5, <1>6, StartIs

\* The service is stopped, started or restarted on a machine in order.
LEMMA ServiceTold ==
  ASSUME NEW m \in Machine, m.keys, m.disk = "common"
  PROVE  /\ LET r == Do(m, <<"stop">>, {})
             IN  r.keys /\ r.disk = "common" /\ r.run = "down" /\ r.static = m.static
         /\ m.run = "down" =>
              LET r == Do(m, <<"start">>, {})
              IN  /\ r.keys /\ r.disk = "common" /\ r.run = "common"
                  /\ r.static = m.static /\ r.knows = m.static
         /\ LET r == Do(m, <<"restart">>, {})
             IN  r.keys /\ r.disk = "common" /\ r.run = "common"
<1>1. /\ Do(m, <<"stop">>, {}) = Stop(m)
      /\ Do(m, <<"start">>, {}) = Start(m)
      /\ Do(m, <<"restart">>, {}) = Start(Stop(m))
  <2>1. \A c : Do(m, <<c>>, {}) = Effect(m, c)
    BY AtOnce
  <2> QED
    BY <2>1, EffectIs
<1>2. Stop(m) \in Machine /\ Stop(m).keys /\ Stop(m).disk = "common" /\ Stop(m).run = "down"
  BY StartIs
<1>3. Start(Stop(m)).keys /\ Start(Stop(m)).disk = "common" /\ Start(Stop(m)).run = "common"
  BY <1>2, StartIs
<1> QED
  BY <1>1, <1>2, <1>3, StartIs

\* static-nodes.json, or peers.txt and a restart.
LEMMA PeersTold ==
  ASSUME NEW m \in Machine, m.keys, m.disk = "common", m.run = "common"
  PROVE  /\ LET r == Do(m, <<"static">>, {})
             IN  r.keys /\ r.disk = "common" /\ r.run = "common" /\ r.static
         /\ LET r == Do(m, <<"static", "stop", "start">>, {})
             IN  r.keys /\ r.disk = "common" /\ r.run = "common" /\ r.static /\ r.knows
<1> DEFINE g == [m EXCEPT !.static = TRUE]
<1>1. /\ Do(m, <<"static">>, {}) = g
      /\ Do(m, <<"static", "stop", "start">>, {}) = Effect(Effect(g, "stop"), "start")
  <2>1. /\ Do(m, <<"static">>, {}) = Effect(m, "static")
        /\ Do(m, <<"static", "stop", "start">>, {}) = Effect(Effect(Effect(m, "static"), "stop"), "start")
    BY AtOnce
  <2>2. Effect(m, "static") = g
    BY EffectIs
  <2> HIDE DEF g
  <2> QED
    BY <2>1, <2>2
<1>2. g \in Machine /\ g.keys /\ g.disk = "common" /\ g.run = "common" /\ g.static
  BY DEF Machine
<1>3. Effect(Effect(g, "stop"), "start") = Start(Stop(g))
  BY EffectIs
<1> HIDE DEF g
<1>4. /\ Stop(g) \in Machine /\ Stop(g).keys /\ Stop(g).disk = "common" /\ Stop(g).run = "down"
      /\ Stop(g).static
  BY <1>2, StartIs
<1> QED
  BY <1>1, <1>2, <1>3, <1>4, StartIs

-----------------------------------------------------------------------------
(* Machines                                                                *)

WorkTyped ==
  /\ machine \in [Node -> Machine]
  /\ late \in [Node -> SUBSET Commands]
  /\ hit \subseteq Node
  /\ budget \in 0..MaxFaults

\* Nothing but machine n changes, and that one not behind the back of hit.
OnlyAt(n) ==
  /\ hit \subseteq hit'
  /\ \A m \in Node \ {n} : machine'[m] = machine[m] /\ late'[m] = late[m]

LEMMA DelayTyped ==
  ASSUME WorkTyped, NEW n \in Node, NEW slow \in SUBSET Commands, Delay(n, slow)
  PROVE  /\ late' \in [Node -> SUBSET Commands] /\ hit' \subseteq Node /\ budget' \in 0..MaxFaults
         /\ hit \subseteq hit' /\ \A m \in Node \ {n} : late'[m] = late[m]
         /\ n \notin hit' => slow = {} /\ late'[n] = late[n]
<1>1. budget' \in 0..MaxFaults
  BY SlowFacts, AuthorityAssumption DEF WorkTyped, Delay
<1>2. hit' = IF slow = {} THEN hit ELSE hit \cup {n}
  BY DEF Delay
<1>3. hit' \subseteq Node /\ hit \subseteq hit' /\ (n \notin hit' => slow = {})
  BY <1>2 DEF WorkTyped
<1>4. /\ late' \in [Node -> SUBSET Commands]
      /\ late'[n] = late[n] \cup slow
      /\ \A m \in Node \ {n} : late'[m] = late[m]
  BY DEF WorkTyped, Delay
<1> QED
  BY <1>1, <1>3, <1>4

LEMMA LaunchStep ==
  ASSUME WorkTyped, NEW n \in Node, NEW cmds, Listed(cmds), Launch(n, cmds)
  PROVE  /\ WorkTyped' /\ OnlyAt(n)
         /\ n \notin hit' => late'[n] = late[n] /\ machine'[n] = Do(machine[n], cmds, {})
<1>1. PICK slow \in SUBSET ToSet(cmds) :
        /\ Delay(n, slow)
        /\ machine' = [machine EXCEPT ![n] = Do(@, cmds, slow)]
  BY DEF Launch
<1>2. slow \in SUBSET Commands
  BY DEF Listed
<1>3. Do(machine[n], cmds, slow) \in Machine
  BY DoTyped DEF WorkTyped
<1>4. machine' \in [Node -> Machine] /\ machine'[n] = Do(machine[n], cmds, slow)
      /\ \A m \in Node \ {n} : machine'[m] = machine[m]
  BY <1>1, <1>3 DEF WorkTyped
<1>5. /\ late' \in [Node -> SUBSET Commands] /\ hit' \subseteq Node /\ budget' \in 0..MaxFaults
      /\ hit \subseteq hit' /\ \A m \in Node \ {n} : late'[m] = late[m]
      /\ n \notin hit' => slow = {} /\ late'[n] = late[n]
  BY <1>1, <1>2, DelayTyped
<1> QED
  BY <1>4, <1>5 DEF WorkTyped, OnlyAt
-----------------------------------------------------------------------------
(* Accounts and roles                                                      *)

RolesTyped == share \in 0..10 /\ node \in Node /\ sealer \in [Node -> Node \cup {-1}]

LEMMA SignersNumber ==
  ASSUME RolesTyped
  PROVE  NumberOfSigners \in Int
<1>1. \A t \in Int : Rounded(t) \in Int
  BY DEF Rounded
<1>2. NumNodes * share \in Int
  BY NodeFacts DEF RolesTyped
<1> QED
  BY <1>1, <1>2, NodeFacts DEF NumberOfSigners

LEMMA AccountFacts ==
  ASSUME Drawn, NEW n \in Node
  PROVE  /\ NumAccounts \in 1..NumNodes
         /\ Len(AccountsOf(n)) = NumAccounts
         /\ AccountsOf(n) \in [1..NumAccounts -> Node]
         /\ numAcc = 0 => AccountsOf(n)[1] = n
         /\ numAcc # 0 => AccountsOf(n) = chosen /\ numAcc = NumAccounts
         /\ \A k \in 1..NumAccounts : AccountsOf(n)[k] \in ToSet(AccountsOf(n))
<1>1. CASE numAcc = 0
  BY <1>1, NodeFacts DEF Drawn, NumAccounts, AccountsOf, ToSet
<1>2. CASE numAcc # 0
  BY <1>2, NodeFacts DEF Drawn, NumAccounts, AccountsOf, ToSet
<1> QED
  BY <1>1, <1>2

\* The rotation stays on the list, and the account it reaches is on it.
LEMMA RotationFacts ==
  ASSUME Drawn, NEW n \in Node
  PROVE  /\ Rotated(n) = IF i + 1 = NumAccounts THEN 0 ELSE i + 1
         /\ Rotated(n) \in 0..(NumAccounts - 1)
         /\ SealerOf(n) \in Node /\ SealerOf(n) \in ToSet(AccountsOf(n))
         /\ numAcc = 0 => SealerOf(n) = n
         /\ numAcc # 0 => SealerOf(n) = chosen[Rotated(n) + 1]
<1>1. Rotated(n) = IF i + 1 = NumAccounts THEN 0 ELSE i + 1
  BY AccountFacts DEF Rotated
<1>2. Rotated(n) \in 0..(NumAccounts - 1) /\ Rotated(n) + 1 \in 1..NumAccounts
  BY <1>1, AccountFacts, NodeFacts DEF Drawn
<1>3. numAcc = 0 => Rotated(n) + 1 = 1
  BY <1>2 DEF NumAccounts
<1> QED
  BY <1>1, <1>2, <1>3, AccountFacts DEF SealerOf

\* The steps that leave accounts and roles alone.
LEMMA RolesFrame ==
  ASSUME ChosenInv, RolesInv, SpreadInv, UNCHANGED <<share, numAcc, roles>>,
         \/ UNCHANGED <<pc, node>>
         \/ pc \in Before \cup {"configure"} /\ pc' = "failed"
         \/ pc \in Before /\ pc' \in Before
         \/ pc \notin Before \cup {"configure", "failed"} /\ pc' \notin Before \cup {"configure"}
  PROVE  ChosenInv' /\ RolesInv' /\ SpreadInv'
<1>1. UNCHANGED <<share, numAcc, chosen, i, sealer, signers>>
  BY DEF roles
<1>2. ChosenInv'
  BY <1>1 DEF ChosenInv, Undrawn, Drawn, NumAccounts, Before
<1>3. \A n \in Node : pc' # "failed" /\ Configured(n) => Configured(n)'
  BY DEF Configured, Before
<1>4. RolesInv'
  <2>1. \A n \in Node : AccountsOf(n)' = AccountsOf(n)
    BY <1>1 DEF AccountsOf
  <2>2. pc' # "failed" => pc # "failed"
    BY DEF Before
  <2>3. pc' \in Before => pc \in Before
    BY DEF Before
  <2>4. pc' = "configure" => pc = "configure" /\ node' = node
    BY DEF Before
  <2> QED
    BY <1>1, <1>3, <2>1, <2>2, <2>3, <2>4 DEF RolesInv
<1>5. SpreadInv'
  <2>1. \A a : SealedBy(a)' = SealedBy(a)
    BY <1>1 DEF SealedBy
  <2>2. NumberOfSigners' = NumberOfSigners
    BY <1>1 DEF NumberOfSigners
  <2>3. pc' \notin Before \cup {"failed"} => pc \notin Before \cup {"failed"}
    BY DEF Before
  <2>4. pc' = "configure" => pc = "configure" /\ node' = node
    BY DEF Before
  <2> QED
    BY <1>1, <2>1, <2>2, <2>3, <2>4 DEF SpreadInv
<1> QED
  BY <1>2, <1>4, <1>5
LEMMA FirstOf ==
  ASSUME NEW k \in Nat, k # 0
  PROVE  0 \in 0..(k - 1) /\ 1 \in 1..k
OBVIOUS

\* get_relevant_account_mapping: nobody seals yet.
LEMMA AssignRoles ==
  ASSUME RolesTyped, numAcc \in 0..(NumNodes + 1), ChosenInv, RolesInv, Assign
  PROVE  ChosenInv' /\ RolesInv' /\ SpreadInv' /\ numAcc' \in 0..NumNodes
<1>1. /\ pc \in Before /\ pc' = "configure" /\ node' = 0 /\ UNCHANGED <<i, sealer, signers>>
      /\ numAcc' \in 0..NumNodes
      /\ chosen' \in [1..numAcc' -> Node] /\ IsInjective(chosen')
  BY NodeFacts DEF Assign, Goto, Before
<1>2. i' = 0
  BY <1>1 DEF ChosenInv, Undrawn
<1>3. numAcc' \in Nat
  BY <1>1, NodeFacts
<1>4. ChosenInv'
  <2>1. \A j, k \in 1..numAcc' : chosen'[j] = chosen'[k] => j = k
    BY <1>1 DEF IsInjective
  <2>2. Drawn'
    <3>1. NumAccounts' \in Nat /\ NumAccounts' # 0
      BY <1>3 DEF NumAccounts
    <3>2. i' \in 0..(NumAccounts' - 1)
      BY <3>1, <1>2, FirstOf
    <3> QED
      BY <1>1, <2>1, <3>2 DEF Drawn
  <2> QED
    BY <1>1, <2>2 DEF ChosenInv, Before
<1>5. \A n \in Node : sealer'[n] = -1
  BY <1>1 DEF RolesInv, Configured, Before
<1>6. RolesInv'
  <2>1. signers = <<>>
    BY <1>1 DEF RolesInv
  <2>2. Len(signers') = 0
    BY <1>1, <2>1
  <2> QED
    BY <1>1, <1>5, <2>2, NodeFacts DEF RolesInv, Before
<1>7. SpreadInv'
  <2>1. \A a \in Node : SealedBy(a)' = 0
    <3> TAKE a \in Node
    <3>1. {n \in Node : sealer'[n] = a} = {}
      BY <1>5, NodeFacts
    <3>2. Cardinality({}) = 0
      BY FS_EmptySet
    <3> QED
      BY <3>1, <3>2 DEF SealedBy
  <2>2. CASE numAcc' = 0
    BY <1>5, <2>2 DEF SpreadInv
  <2>3. CASE numAcc' # 0
    <3>1. 0 \in 0..(numAcc' - 1) /\ 1 \in 1..numAcc'
      BY <1>3, <2>3, FirstOf
    <3>2. \A j \in 1..numAcc' : SealedBy(chosen[j])' = 0
      BY <1>1, <2>1
    <3>3. \A j \in 1..numAcc' : SealedBy(chosen[j])' =
            SealedBy(chosen[1])' + (IF j \in 2..(0 + 1) THEN 1 ELSE 0)
      BY <3>1, <3>2
    <3> QED
      BY <1>1, <1>2, <2>3, <3>1, <3>3 DEF SpreadInv
  <2> QED
    BY <2>2, <2>3
<1> QED
  BY <1>1, <1>4, <1>6, <1>7

\* A node joins those that seal with an account.
LEMMA OneMoreSealer ==
  ASSUME NEW n \in Node, NEW a \in Node, NEW b \in Node,
         sealer \in [Node -> Node \cup {-1}], sealer[n] = -1,
         sealer' = [sealer EXCEPT ![n] = b]
  PROVE  SealedBy(a) \in Nat /\ SealedBy(a)' = SealedBy(a) + (IF a = b THEN 1 ELSE 0)
<1> DEFINE S == {m \in Node : sealer[m] = a}
           T == {m \in Node : sealer'[m] = a}
<1>1. IsFiniteSet(S) /\ Cardinality(S) \in Nat
  BY NodeFacts, FS_Subset, FS_CardinalityType
<1>2. n \notin S
  BY NodeFacts
<1>3. CASE a = b
  <2>1. T = S \cup {n}
    BY <1>3
  <2>2. Cardinality(S \cup {n}) = Cardinality(S) + 1
    BY <1>1, <1>2, FS_AddElement
  <2> QED
    BY <1>1, <1>3, <2>1, <2>2 DEF SealedBy
<1>4. CASE a # b
  <2>1. T = S
    BY <1>2, <1>4
  <2> QED
    BY <1>1, <1>4, <2>1 DEF SealedBy
<1> QED
  BY <1>3, <1>4

\* Configure, when no account is empty
ConfigureOne ==
  /\ pc = "configure"
  /\ i' = Rotated(node)
  /\ IF node < NumberOfSigners
     THEN /\ sealer' = [sealer EXCEPT ![node] = SealerOf(node)]
          /\ signers' = Append(signers, SignerOf(node))
     ELSE UNCHANGED <<sealer, signers>>
  /\ Loop("push")
  /\ UNCHANGED <<settings, made, chosen>>

LEMMA ConfigureFacts ==
  ASSUME RolesTyped, ChosenInv, RolesInv, ConfigureOne
  PROVE  /\ Drawn /\ Drawn' /\ i' = Rotated(node)
         /\ node \in Node /\ sealer[node] = -1 /\ SealerOf(node) \in Node
         /\ UNCHANGED <<share, numAcc, chosen, NumAccounts>>
         /\ \A n \in Node : AccountsOf(n)' = AccountsOf(n)
         /\ node' \in Node
         /\ \/ pc' = "configure" /\ node' = node + 1
            \/ pc' = "push"
         /\ \A n \in Node : Configured(n)' <=> Configured(n) \/ n = node
<1>1. UNCHANGED <<share, numAcc, chosen, NumAccounts>> /\ node \in Node
  BY DEF ConfigureOne, settings, NumAccounts, RolesTyped
<1>2. Drawn /\ pc = "configure"
  BY DEF ConfigureOne, ChosenInv, Before
<1>3. i' = Rotated(node) /\ Rotated(node) \in 0..(NumAccounts - 1)
  BY <1>1, <1>2, RotationFacts DEF ConfigureOne
<1>4. Drawn'
  BY <1>1, <1>2, <1>3 DEF Drawn
<1>5. sealer[node] = -1
  BY <1>1, <1>2, NodeFacts DEF RolesInv, Configured, Before
<1>6. Loop("push")
  BY DEF ConfigureOne
<1>7. /\ node' \in Node
      /\ \/ pc' = "configure" /\ node' = node + 1 /\ \A m \in Node : m < node' <=> m < node \/ m = node
         \/ pc' = "push" /\ node' = 0 /\ \A m \in Node : (m < node \/ m = node) /\ ~(m < node')
  BY <1>1, <1>2, <1>6, LoopStep
<1>8. \A n \in Node : Configured(n)' <=> Configured(n) \/ n = node
  BY <1>2, <1>7 DEF Configured, Before
<1>9. \A n \in Node : AccountsOf(n)' = AccountsOf(n)
  BY <1>1 DEF AccountsOf
<1> QED
  BY <1>1, <1>2, <1>3, <1>4, <1>5, <1>7, <1>8, <1>9, RotationFacts

LEMMA ConfigureRoles ==
  ASSUME RolesTyped, ChosenInv, RolesInv, ConfigureOne
  PROVE  ChosenInv' /\ RolesInv' /\ sealer' \in [Node -> Node \cup {-1}]
<1>1. ChosenInv'
  BY ConfigureFacts DEF ChosenInv, Before
<1> DEFINE a == SealerOf(node)
<1>2. /\ signers \in Seq(Node) /\ Len(signers) <= node /\ node \in Nat
      /\ node + 1 <= NumNodes /\ (pc' = "configure" => node' = node + 1)
  BY ConfigureFacts, NodeFacts DEF ConfigureOne, RolesInv, Node
<1>3. CASE ~(node < NumberOfSigners)
  <2>1. UNCHANGED <<sealer, signers>>
    BY <1>3 DEF ConfigureOne
  <2>2. \A n \in Node : ~Configured(n)' => sealer'[n] = -1
    BY <2>1, ConfigureFacts DEF RolesInv, ConfigureOne
  <2>3. \A n \in Node : sealer'[n] # -1 => sealer'[n] \in ToSet(AccountsOf(n))'
    BY <2>1, ConfigureFacts DEF RolesInv
  <2>4. signers' \in Seq(Node) /\ Len(signers') <= NumNodes /\ (pc' = "configure" => Len(signers') <= node')
    BY <1>2, <2>1, NodeFacts
  <2>5. ToSet(signers') = {sealer'[n] : n \in Node} \ {-1}
    BY <2>1 DEF RolesInv
  <2> QED
    BY <1>1, <2>1, <2>2, <2>3, <2>4, <2>5, ConfigureFacts DEF RolesInv, RolesTyped, Before
<1>4. CASE node < NumberOfSigners
  <2>1. /\ sealer' = [sealer EXCEPT ![node] = a]
        /\ signers' = Append(signers, a) /\ a \in Node
    BY <1>4, ConfigureFacts DEF ConfigureOne, SignerOf
  <2>2. /\ sealer'[node] = a /\ \A n \in Node \ {node} : sealer'[n] = sealer[n]
        /\ sealer' \in [Node -> Node \cup {-1}]
    BY <2>1, ConfigureFacts DEF RolesTyped
  <2>3. \A n \in Node : ~Configured(n)' => sealer'[n] = -1
    BY <2>2, ConfigureFacts DEF RolesInv, ConfigureOne
  <2>4. \A n \in Node : sealer'[n] # -1 => sealer'[n] \in ToSet(AccountsOf(n))'
    BY <2>2, ConfigureFacts, RotationFacts DEF RolesInv
  <2>5. /\ signers' \in Seq(Node) /\ Len(signers') = Len(signers) + 1 /\ Len(signers) \in Nat
    BY <1>2, <2>1
  <2>6. Len(signers') <= NumNodes /\ (pc' = "configure" => Len(signers') <= node')
    BY <1>2, <2>5, NodeFacts
  <2>7. ToSet(signers') = ToSet(signers) \cup {a}
    <3>1. /\ DOMAIN signers = 1..Len(signers) /\ DOMAIN signers' = 1..(Len(signers) + 1)
          /\ \A k \in 1..Len(signers) : signers'[k] = signers[k]
          /\ signers'[Len(signers) + 1] = a
      BY <1>2, <2>1
    <3>2. 1..(Len(signers) + 1) = (1..Len(signers)) \cup {Len(signers) + 1}
      BY <2>5
    <3> QED
      BY <3>1, <3>2 DEF ToSet
  <2>8. {sealer'[n] : n \in Node} \ {-1} = ({sealer[n] : n \in Node} \ {-1}) \cup {a}
    <3>1. \A v : v \in {sealer'[n] : n \in Node} \ {-1} => v \in ({sealer[n] : n \in Node} \ {-1}) \cup {a}
      BY <2>2
    <3>2. \A n \in Node : sealer[n] # -1 => sealer'[n] = sealer[n]
      BY <2>2, ConfigureFacts
    <3>3. a # -1 /\ a \in {sealer'[n] : n \in Node}
      BY <2>1, <2>2, ConfigureFacts, NodeFacts
    <3>4. \A v : v \in ({sealer[n] : n \in Node} \ {-1}) \cup {a} => v \in {sealer'[n] : n \in Node} \ {-1}
      BY <3>2, <3>3
    <3> QED
      BY <3>1, <3>4
  <2>9. ToSet(signers') = {sealer'[n] : n \in Node} \ {-1}
    BY <2>7, <2>8 DEF RolesInv
  <2> QED
    BY <1>1, <2>2, <2>3, <2>4, <2>5, <2>6, <2>9, ConfigureFacts DEF RolesInv, Before
<1> QED
  BY <1>3, <1>4

\* The account that the rotation reaches has been served least.
LEMMA ConfigureSpread ==
  ASSUME RolesTyped, ChosenInv, RolesInv, SpreadInv, ConfigureOne
  PROVE  SpreadInv'
<1>1. /\ pc = "configure" /\ Drawn /\ UNCHANGED <<share, numAcc, chosen>> /\ node \in Nat
      /\ NumberOfSigners \in Int /\ NumberOfSigners' = NumberOfSigners
      /\ pc' = "configure" => node' = node + 1
  BY ConfigureFacts, SignersNumber, NodeFacts DEF ConfigureOne, NumberOfSigners
<1>2. CASE numAcc = 0
  <2>1. \A n \in Node : sealer[n] \in {n, -1}
    BY <1>1, <1>2 DEF SpreadInv, Before
  <2>2. SealerOf(node) = node
    BY <1>1, <1>2, ConfigureFacts, RotationFacts
  <2>3. \A n \in Node : sealer'[n] \in {n, -1}
    BY <2>1, <2>2 DEF ConfigureOne, RolesTyped
  <2> QED
    BY <1>1, <1>2, <2>3 DEF SpreadInv
<1>3. CASE numAcc # 0 /\ ~(node < NumberOfSigners)
  <2>1. UNCHANGED sealer
    BY <1>3 DEF ConfigureOne
  <2>2. \A a : SealedBy(a)' = SealedBy(a)
    BY <2>1 DEF SealedBy
  <2>3. ~(pc' = "configure" /\ node' <= NumberOfSigners')
    BY <1>1, <1>3
  <2>4. \E last \in 0..(numAcc - 1) : \A j \in 1..numAcc :
          SealedBy(chosen[j]) = SealedBy(chosen[1]) + (IF j \in 2..(last + 1) THEN 1 ELSE 0)
    BY <1>1, <1>3 DEF SpreadInv, Before
  <2> QED
    BY <1>1, <1>3, <2>2, <2>3, <2>4 DEF SpreadInv
<1>4. CASE numAcc # 0 /\ node < NumberOfSigners
  <2> DEFINE s(j) == SealedBy(chosen[j])
             r == Rotated(node)
  <2>1. \A j \in 1..numAcc : s(j) = s(1) + (IF j \in 2..(i + 1) THEN 1 ELSE 0)
    BY <1>1, <1>4 DEF SpreadInv, Before
  <2>2. /\ numAcc \in Nat /\ numAcc = NumAccounts /\ r = IF i + 1 = numAcc THEN 0 ELSE i + 1
        /\ r \in 0..(numAcc - 1) /\ r + 1 \in 1..numAcc /\ 1 \in 1..numAcc
        /\ SealerOf(node) = chosen[r + 1] /\ i \in 0..(numAcc - 1) /\ i' = r
    BY <1>1, <1>4, ConfigureFacts, RotationFacts, NodeFacts DEF Drawn, NumAccounts
  <2>3. \A j \in 1..numAcc : s(j) \in Nat /\ s(j)' = s(j) + (IF j = r + 1 THEN 1 ELSE 0)
    <3> TAKE j \in 1..numAcc
    <3>1. chosen[j] \in Node /\ chosen[r + 1] \in Node /\ (chosen[j] = chosen[r + 1] <=> j = r + 1)
      BY <1>1, <2>2 DEF Drawn
    <3>2. sealer' = [sealer EXCEPT ![node] = chosen[r + 1]]
      BY <1>4, <2>2 DEF ConfigureOne
    <3>3. /\ SealedBy(chosen[j]) \in Nat
          /\ SealedBy(chosen[j])' = SealedBy(chosen[j]) + (IF chosen[j] = chosen[r + 1] THEN 1 ELSE 0)
      <4>1. sealer[node] = -1 /\ node \in Node /\ sealer \in [Node -> Node \cup {-1}]
        BY ConfigureFacts DEF RolesTyped
      <4> DEFINE a == chosen[j]
      <4>2. SealedBy(a) \in Nat /\ Cardinality({n \in Node : sealer'[n] = a}) = SealedBy(a) + (IF a = chosen[r + 1] THEN 1 ELSE 0)
        BY <3>1, <3>2, <4>1, OneMoreSealer DEF SealedBy
      <4> QED
        BY <1>1, <4>2 DEF SealedBy
    <3> QED
      BY <3>1, <3>3
  <2> HIDE DEF s, r
  <2>4. \A j \in 1..numAcc : s(j)' = s(1)' + (IF j \in 2..(r + 1) THEN 1 ELSE 0)
    BY <2>1, <2>2, <2>3
  <2> QED
    BY <1>1, <1>4, <2>2, <2>4 DEF SpreadInv, s
<1> QED
  BY <1>2, <1>3, <1>4
-----------------------------------------------------------------------------
(* Types                                                                   *)

RoleTypes ==
  /\ client \in {"geth", "parity"}
  /\ share \in Shares
  /\ numAcc \in 0..(NumNodes + 1)
  /\ made \in [Node -> {"ok", "nokey", "empty"}]
  /\ sealer \in [Node -> Node \cup {-1}]

ControlTypes ==
  /\ pc \in Before \cup Sequel \cup {"configure", "push", "bounce", "failed"}
  /\ node \in Node
  /\ \/ count \in 1..Installs
     \/ pc \in {"watch", "failed"} /\ count \in 1..Watches
  /\ blocks \subseteq Node
  /\ restarts \in 0..MaxRestarts

LEMMA TypeParts ==
  /\ TypeOK => RoleTypes /\ ControlTypes /\ WorkTyped /\ RolesTyped
  /\ RoleTypes /\ ControlTypes /\ WorkTyped /\ ChosenInv /\ RolesInv => TypeOK
<1>1. TypeOK => RoleTypes /\ ControlTypes /\ WorkTyped
  BY DEF TypeOK, RoleTypes, ControlTypes, WorkTyped, Before, Sequel
<1>2. TypeOK => RolesTyped
  BY AuthorityAssumption DEF TypeOK, RolesTyped
<1>3. ASSUME RoleTypes, ControlTypes, WorkTyped, ChosenInv, RolesInv
      PROVE  TypeOK
  <2>1. Len(chosen) <= NumNodes /\ i \in Node
    <3>1. CASE Undrawn
      BY <3>1, NodeFacts DEF Undrawn
    <3>2. CASE Drawn
      <4>1. NumAccounts \in 1..NumNodes /\ i \in 0..(NumAccounts - 1)
        BY <3>2, NodeFacts, AccountFacts DEF Drawn
      <4>2. numAcc \in Nat /\ numAcc <= NumNodes /\ Len(chosen) = numAcc
        BY <3>2, NodeFacts DEF Drawn
      <4> QED
        BY <4>1, <4>2, NodeFacts DEF Node
    <3> QED
      BY <1>3, <3>1, <3>2 DEF ChosenInv
  <2>2. pc \in {"install", "accounts", "assign", "configure", "push", "bounce", "collect",
                "static", "peers", "report", "watch", "running", "kill", "revive", "probe",
                "failed"}
    BY <1>3 DEF ControlTypes, Before, Sequel
  <2> QED
    BY <1>3, <2>1, <2>2 DEF TypeOK, RoleTypes, ControlTypes, WorkTyped, RolesInv
<1> QED
  BY <1>1, <1>2, <1>3

\* What is left to show of a step that leaves accounts and roles alone.
LEMMA Assembly ==
  ASSUME IInv, UNCHANGED <<settings, made, roles>>,
         ControlTypes', WorkTyped', HitInv', MachineInv',
         \/ UNCHANGED <<pc, node>>
         \/ pc \notin Before \cup {"configure", "failed"} /\ pc' \notin Before \cup {"configure"}
  PROVE  IInv'
<1>1. RoleTypes' /\ UNCHANGED <<share, numAcc, roles>>
  BY TypeParts DEF IInv, RoleTypes, settings, roles
<1>2. ChosenInv' /\ RolesInv' /\ SpreadInv'
  BY <1>1, RolesFrame DEF IInv
<1>3. TypeOK'
  <2>1. (RoleTypes /\ ControlTypes /\ WorkTyped /\ ChosenInv /\ RolesInv => TypeOK)'
    BY TypeParts, PTL
  <2> QED
    BY <1>1, <1>2, <2>1
<1> QED
  BY <1>2, <1>3 DEF IInv
-----------------------------------------------------------------------------
(* The steps of the operator                                               *)

\* The step asks no more of machine m than it had before.
SameStage(m) ==
  /\ Pushed(m)' <=> Pushed(m)
  /\ Runs(m)' <=> Runs(m)
  /\ HasStatic(m)' => HasStatic(m)
  /\ Introduced(m)' /\ Runs(m)' => Introduced(m)

\* A step that concerns machine k; what it does there is shown for each action.
LEMMA OneMachine ==
  ASSUME HitInv, MachineInv, UNCHANGED <<settings, made, chosen>>, NEW k \in Node, OnlyAt(k),
         pc \notin Before \cup {"failed"}, pc' \notin Before,
         k \notin hit' => late'[k] = late[k],
         pc' # "failed" => \A m \in Node \ {k} : SameStage(m),
         pc' # "failed" /\ k \notin hit' /\ HasAllKeys(k) /\ InPlace(k) => InPlace(k)'
  PROVE  HitInv' /\ MachineInv'
<1>1. hit \subseteq hit' /\ \A m \in Node \ {k} : machine'[m] = machine[m] /\ late'[m] = late[m]
  BY DEF OnlyAt
<1>2. HitInv'
  BY <1>1 DEF HitInv
<1>3. ASSUME pc' # "failed", NEW m \in Node \ hit', HasAllKeys(m)'
      PROVE  InPlace(m)'
  <2>1. m \notin hit /\ HasAllKeys(m)
    BY <1>1, <1>3 DEF HasAllKeys, AccountsOf, settings
  <2>2. InPlace(m)
    BY <2>1 DEF MachineInv
  <2>3. CASE m = k
    BY <1>3, <2>1, <2>2, <2>3
  <2>4. CASE m # k
    <3>1. machine'[m] = machine[m] /\ SameStage(m) /\ Fresh(client)' = Fresh(client)
      BY <1>1, <1>3, <2>4 DEF Fresh, settings
    <3> QED
      BY <2>2, <3>1 DEF InPlace, SameStage
  <2> QED
    BY <2>3, <2>4
<1> QED
  BY <1>2, <1>3 DEF MachineInv

\* Nothing changes on the machines.
LEMMA NoMachine ==
  ASSUME HitInv, MachineInv, UNCHANGED <<settings, made, chosen, machine, late, hit>>,
         \/ UNCHANGED <<pc, node>>
         \/ /\ pc \notin Before \cup {"failed"} /\ pc' \notin Before
            /\ pc' # "failed" => \A m \in Node : SameStage(m)
  PROVE  HitInv' /\ MachineInv'
<1>1. Fresh(client)' = Fresh(client) /\ \A m \in Node : HasAllKeys(m)' <=> HasAllKeys(m)
  BY DEF HasAllKeys, AccountsOf, settings, Fresh
<1>2. HitInv'
  BY <1>1 DEF HitInv
<1>3. CASE UNCHANGED <<pc, node>>
  <2>1. \A m \in Node : InPlace(m)' <=> InPlace(m)
    BY <1>1, <1>3 DEF InPlace, Pushed, Runs, HasStatic, Introduced, settings
  <2> QED
    BY <1>1, <1>2, <1>3, <2>1 DEF MachineInv
<1>4. CASE /\ pc \notin Before \cup {"failed"}
           /\ pc' # "failed" => \A m \in Node : SameStage(m)
  <2>1. pc' # "failed" => \A m \in Node : InPlace(m) => InPlace(m)'
    BY <1>1, <1>4 DEF InPlace, SameStage
  <2> QED
    BY <1>1, <1>2, <1>4, <2>1 DEF MachineInv
<1> QED
  BY <1>3, <1>4

\* A step that sends commands to machine k; what they lead to, when none of them
\* is late, is shown for each action.
LEMMA Told ==
  ASSUME IInv, UNCHANGED <<settings, made, roles>>, ControlTypes',
         pc \notin Before \cup {"configure", "failed"}, pc' \notin Before \cup {"configure"},
         NEW k \in Node, NEW cmds, Listed(cmds), Launch(k, cmds),
         \A m \in Node \ {k} : SameStage(m),
         InPlace(k) /\ machine[k] \in Machine /\ machine'[k] = Do(machine[k], cmds, {})
           => InPlace(k)'
  PROVE  IInv'
<1>1. /\ WorkTyped' /\ OnlyAt(k) /\ machine[k] \in Machine
      /\ k \notin hit' => late'[k] = late[k] /\ machine'[k] = Do(machine[k], cmds, {})
  BY LaunchStep, TypeParts DEF IInv, WorkTyped
<1>2. HitInv' /\ MachineInv'
  BY <1>1, OneMachine DEF IInv, roles
<1> QED
  BY <1>1, <1>2, Assembly

\* node has its turn: k is its value before the step.
LEMMA TurnStep ==
  ASSUME IInv, NEW p, Loop(p), NEW k \in Node, k = node
  PROVE  /\ node' \in Node
         /\ \/ pc' = pc /\ \A m \in Node : m < node' <=> m < k \/ m = k
            \/ pc' = p /\ \A m \in Node : (m < k \/ m = k) /\ ~(m < node')
         /\ ~(k < k)
<1>1. /\ node' \in Node
      /\ \/ pc' = pc /\ node' = node + 1 /\ \A m \in Node : m < node' <=> m < node \/ m = node
         \/ pc' = p /\ node' = 0 /\ \A m \in Node : (m < node \/ m = node) /\ ~(m < node')
  BY LoopStep
<1> QED
  BY <1>1, NodeFacts

LEMMA PushGethStep ==
  ASSUME IInv, Push, client = "geth"
  PROVE  IInv'
<1>1. PICK k \in Node : k = node
  BY TypeParts DEF IInv, ControlTypes
<1>2. /\ pc = "push" /\ Launch(k, GethCommands) /\ Loop("collect")
      /\ UNCHANGED <<settings, count, made, roles, blocks, restarts>>
  BY <1>1 DEF Push, PushGeth, PushParity
<1>3. /\ node' \in Node /\ ~(k < k)
      /\ \/ pc' = "push" /\ \A m \in Node : m < node' <=> m < k \/ m = k
         \/ pc' = "collect" /\ \A m \in Node : m < k \/ m = k
  BY <1>1, <1>2, TurnStep
<1>4. ControlTypes'
  BY <1>2, <1>3, TypeParts DEF IInv, ControlTypes, Sequel
<1>5. \A m \in Node \ {k} : SameStage(m)
  BY <1>1, <1>2, <1>3 DEF SameStage, Pushed, Runs, HasStatic, Introduced, Sequel
<1>6. ASSUME InPlace(k), machine[k] \in Machine, machine'[k] = Do(machine[k], GethCommands, {})
      PROVE  InPlace(k)'
  <2>1. ~Pushed(k) /\ ~Runs(k)
    BY <1>1, <1>2, <1>3 DEF Pushed, Runs, Sequel
  <2>2. machine[k].keys /\ machine[k].disk = "none" /\ machine[k].run = "down"
    BY <1>6, <2>1 DEF InPlace, Fresh
  <2>3. machine'[k].keys /\ machine'[k].disk = "common" /\ machine'[k].run = "common"
    BY <1>6, <2>2, GethPushed
  <2>4. Pushed(k)' /\ Runs(k)' /\ ~HasStatic(k)' /\ ~Introduced(k)'
    BY <1>3 DEF Pushed, Runs, HasStatic, Introduced, Sequel
  <2> QED
    BY <2>3, <2>4 DEF InPlace
<1>7. pc \notin Before \cup {"configure", "failed"} /\ pc' \notin Before \cup {"configure"}
  BY <1>2, <1>3 DEF Before
<1> QED
  BY <1>2, <1>4, <1>5, <1>6, <1>7, Told, ListedCommands

LEMMA BounceStep ==
  ASSUME IInv, Bounce
  PROVE  IInv'
<1>1. PICK k \in Node : k = node
  BY TypeParts DEF IInv, ControlTypes
<1>2. /\ pc = "bounce" /\ Launch(k, <<"restart">>) /\ Loop("collect")
      /\ UNCHANGED <<settings, count, made, roles, blocks, restarts>>
  BY <1>1 DEF Bounce
<1>3. node' \in Node /\ pc' \in {"bounce", "collect"}
  BY <1>1, <1>2, TurnStep
<1>4. ControlTypes'
  BY <1>2, <1>3, TypeParts DEF IInv, ControlTypes, Sequel
<1>5. \A m \in Node : SameStage(m) /\ Pushed(m) /\ Runs(m)' /\ ~HasStatic(m)'
  BY <1>2, <1>3 DEF SameStage, Pushed, Runs, HasStatic, Introduced, Sequel
<1>6. ASSUME InPlace(k), machine[k] \in Machine, machine'[k] = Do(machine[k], <<"restart">>, {})
      PROVE  InPlace(k)'
  <2>1. machine[k].keys /\ machine[k].disk = "common"
    BY <1>5, <1>6 DEF InPlace
  <2>2. machine'[k].keys /\ machine'[k].disk = "common" /\ machine'[k].run = "common"
    BY <1>6, <2>1, ServiceTold
  <2> QED
    BY <1>5, <2>2 DEF InPlace, SameStage, Introduced
<1>7. pc \notin Before \cup {"configure", "failed"} /\ pc' \notin Before \cup {"configure"}
  BY <1>2, <1>3 DEF Before
<1> QED
  BY <1>2, <1>4, <1>5, <1>6, <1>7, Told, ListedCommands

LEMMA PlaceStaticStep ==
  ASSUME IInv, PlaceStatic
  PROVE  IInv'
<1>1. PICK k \in Node : k = node
  BY TypeParts DEF IInv, ControlTypes
<1> DEFINE cmds == IF client = "geth" THEN <<"static">> ELSE <<"static", "stop", "start">>
<1>2. /\ pc = "static" /\ Launch(k, cmds) /\ Loop(IF client = "geth" THEN "peers" ELSE "report")
      /\ UNCHANGED <<settings, count, made, roles, blocks, restarts>> /\ UNCHANGED client
  BY <1>1 DEF PlaceStatic, settings
<1>3. /\ node' \in Node /\ ~(k < k)
      /\ \/ pc' = "static" /\ \A m \in Node : m < node' <=> m < k \/ m = k
         \/ /\ pc' = IF client = "geth" THEN "peers" ELSE "report"
            /\ \A m \in Node : (m < k \/ m = k) /\ ~(m < node')
  BY <1>1, <1>2, TurnStep
<1>4. ControlTypes'
  BY <1>2, <1>3, TypeParts DEF IInv, ControlTypes, Sequel
<1>5. client \in {"geth", "parity"}
  BY TypeParts DEF IInv, RoleTypes
<1>6. \A m \in Node \ {k} : SameStage(m)
  BY <1>1, <1>2, <1>3, <1>5 DEF SameStage, Pushed, Runs, HasStatic, Introduced, Sequel
<1>7. ASSUME InPlace(k), machine[k] \in Machine, machine'[k] = Do(machine[k], cmds, {})
      PROVE  InPlace(k)'
  <2>1. Pushed(k) /\ Runs(k)
    BY <1>2 DEF Pushed, Runs, Sequel
  <2>2. machine[k].keys /\ machine[k].disk = "common" /\ machine[k].run = "common"
    BY <1>7, <2>1 DEF InPlace
  <2>3. Pushed(k)' /\ Runs(k)' /\ HasStatic(k)' /\ (Introduced(k)' => client = "parity")
    BY <1>2, <1>3, <1>5 DEF Pushed, Runs, HasStatic, Introduced, Sequel
  <2>4. CASE client = "geth"
    BY <1>7, <2>2, <2>3, <2>4, PeersTold DEF InPlace
  <2>5. CASE client = "parity"
    BY <1>7, <2>2, <2>3, <2>5, PeersTold DEF InPlace
  <2> QED
    BY <1>5, <2>4, <2>5
<1>8. pc \notin Before \cup {"configure", "failed"} /\ pc' \notin Before \cup {"configure"}
  BY <1>2, <1>3 DEF Before
<1>9. Listed(cmds)
  BY ListedCommands
<1> HIDE DEF cmds
<1> QED
  BY <1>2, <1>4, <1>6, <1>7, <1>8, <1>9, Told

LEMMA KillNodeStep ==
  ASSUME IInv, KillNode
  PROVE  IInv'
<1>1. PICK k \in Node : k = node
  BY TypeParts DEF IInv, ControlTypes
<1>2. /\ pc = "kill" /\ Launch(k, <<"stop">>) /\ Loop("revive")
      /\ UNCHANGED <<settings, count, made, roles, blocks, restarts>>
  BY <1>1 DEF KillNode
<1>3. /\ node' \in Node
      /\ \/ pc' = "kill" /\ \A m \in Node : m < node' <=> m < k \/ m = k
         \/ pc' = "revive" /\ \A m \in Node : (m < k \/ m = k) /\ ~(m < node')
      /\ \A m \in Node : m >= k <=> ~(m < k)
      /\ \A m \in Node : m >= node' <=> ~(m < node')
  <2>1. /\ node' \in Node
        /\ \/ pc' = "kill" /\ \A m \in Node : m < node' <=> m < k \/ m = k
           \/ pc' = "revive" /\ \A m \in Node : (m < k \/ m = k) /\ ~(m < node')
    BY <1>1, <1>2, TurnStep
  <2> QED
    BY <2>1, NodeFacts
<1>4. ControlTypes'
  BY <1>2, <1>3, TypeParts DEF IInv, ControlTypes, Sequel
<1>5. /\ \A m \in Node : Pushed(m) /\ Pushed(m)' /\ HasStatic(m) /\ HasStatic(m)' /\ Introduced(m)
      /\ \A m \in Node \ {k} : Runs(m)' <=> Runs(m)
      /\ ~Runs(k)'
  BY <1>1, <1>2, <1>3 DEF Pushed, Runs, HasStatic, Introduced, Sequel
<1>6. ASSUME InPlace(k), machine[k] \in Machine, machine'[k] = Do(machine[k], <<"stop">>, {})
      PROVE  InPlace(k)'
  <2>1. machine[k].keys /\ machine[k].disk = "common" /\ machine[k].static
    BY <1>5, <1>6 DEF InPlace
  <2>2. machine'[k].keys /\ machine'[k].disk = "common" /\ machine'[k].run = "down" /\ machine'[k].static
    BY <1>6, <2>1, ServiceTold
  <2> QED
    BY <1>5, <2>2 DEF InPlace
<1>7. pc \notin Before \cup {"configure", "failed"} /\ pc' \notin Before \cup {"configure"}
  BY <1>2, <1>3 DEF Before
<1>8. \A m \in Node \ {k} : SameStage(m)
  BY <1>5 DEF SameStage
<1> QED
  BY <1>2, <1>4, <1>6, <1>7, <1>8, Told, ListedCommands

LEMMA ReviveNodeStep ==
  ASSUME IInv, ReviveNode
  PROVE  IInv'
<1>1. PICK k \in Node : k = node
  BY TypeParts DEF IInv, ControlTypes
<1>2. /\ pc = "revive" /\ Launch(k, <<"start">>) /\ pc' = "probe" /\ node' = k
      /\ UNCHANGED <<settings, count, made, roles, blocks, restarts>>
  BY <1>1 DEF ReviveNode
<1>3. ControlTypes'
  BY <1>2, TypeParts DEF IInv, ControlTypes, Sequel
<1>4. /\ \A m \in Node : Pushed(m) /\ Pushed(m)' /\ HasStatic(m) /\ HasStatic(m)' /\ Introduced(m)
      /\ \A m \in Node \ {k} : Runs(m)' <=> Runs(m)
      /\ Runs(k)' /\ ~Runs(k)
  BY <1>1, <1>2, NodeFacts DEF Pushed, Runs, HasStatic, Introduced, Sequel
<1>5. ASSUME InPlace(k), machine[k] \in Machine, machine'[k] = Do(machine[k], <<"start">>, {})
      PROVE  InPlace(k)'
  <2>1. machine[k].keys /\ machine[k].disk = "common" /\ machine[k].static /\ machine[k].run = "down"
    BY <1>4, <1>5 DEF InPlace
  <2>2. /\ machine'[k].keys /\ machine'[k].disk = "common" /\ machine'[k].run = "common"
        /\ machine'[k].static /\ machine'[k].knows
    BY <1>5, <2>1, ServiceTold
  <2> QED
    BY <1>4, <2>2 DEF InPlace
<1>6. pc \notin Before \cup {"configure", "failed"} /\ pc' \notin Before \cup {"configure"}
  BY <1>2 DEF Before
<1>7. \A m \in Node \ {k} : SameStage(m)
  BY <1>4 DEF SameStage
<1> QED
  BY <1>2, <1>3, <1>5, <1>6, <1>7, Told, ListedCommands
LEMMA PushParityStep ==
  ASSUME IInv, Push, client = "parity"
  PROVE  IInv'
<1>1. PICK k \in Node : k = node
  BY TypeParts DEF IInv, ControlTypes
<1> DEFINE m0 == [machine[k] EXCEPT !.keys = HasAllKeys(k)]
<1>2. /\ pc = "push" /\ Loop("bounce")
      /\ UNCHANGED <<settings, count, made, roles, blocks, restarts>>
      /\ \E slow \in SUBSET ({"rmkeys"} \cup ToSet(ParityCommands)) :
           Delay(k, slow) /\ machine' = [machine EXCEPT ![k] = Do(m0, ParityCommands, slow)]
  BY <1>1 DEF Push, PushGeth, PushParity
<1>3. PICK slow \in SUBSET Commands :
        Delay(k, slow) /\ machine' = [machine EXCEPT ![k] = Do(m0, ParityCommands, slow)]
  <2>1. {"rmkeys"} \cup ToSet(ParityCommands) \subseteq Commands
    BY ListedCommands DEF Listed, Commands
  <2> QED
    BY <1>2, <2>1
<1>4. /\ WorkTyped /\ machine[k] \in Machine /\ HasAllKeys(k) \in BOOLEAN
      /\ m0 \in Machine /\ m0.keys = HasAllKeys(k) /\ m0.run = machine[k].run
  <2>1. WorkTyped /\ machine[k] \in Machine
    BY TypeParts DEF IInv, WorkTyped
  <2>2. HasAllKeys(k) \in BOOLEAN
    BY DEF HasAllKeys
  <2> QED
    BY <2>1, <2>2 DEF Machine
<1>5. Do(m0, ParityCommands, slow) \in Machine
  BY <1>4, DoTyped, ListedCommands
<1>6. /\ machine' \in [Node -> Machine]
      /\ machine'[k] = Do(m0, ParityCommands, slow)
      /\ \A m \in Node \ {k} : machine'[m] = machine[m]
  BY <1>3, <1>4, <1>5 DEF WorkTyped
<1>7. /\ late' \in [Node -> SUBSET Commands] /\ hit' \subseteq Node /\ budget' \in 0..MaxFaults
      /\ hit \subseteq hit' /\ \A m \in Node \ {k} : late'[m] = late[m]
      /\ k \notin hit' => slow = {} /\ late'[k] = late[k]
  BY <1>3, <1>4, DelayTyped
<1>8. WorkTyped' /\ OnlyAt(k)
  BY <1>6, <1>7 DEF WorkTyped, OnlyAt
<1>9. /\ node' \in Node /\ ~(k < k)
      /\ \/ pc' = "push" /\ \A m \in Node : m < node' <=> m < k \/ m = k
         \/ pc' = "bounce" /\ \A m \in Node : m < k \/ m = k
  BY <1>1, <1>2, TurnStep
<1>10. ControlTypes'
  BY <1>2, <1>9, TypeParts DEF IInv, ControlTypes, Sequel
<1>11. \A m \in Node \ {k} : SameStage(m)
  BY <1>1, <1>2, <1>9 DEF SameStage, Pushed, Runs, HasStatic, Introduced, Sequel
<1>12. ASSUME k \notin hit', HasAllKeys(k), InPlace(k)
       PROVE  InPlace(k)'
  <2>1. ~Runs(k)
    BY <1>1, <1>2, <1>9 DEF Pushed, Runs, Sequel
  <2>2. m0.keys /\ m0.run = "down" /\ machine'[k] = Do(m0, ParityCommands, {})
    BY <1>4, <1>6, <1>7, <1>12, <2>1 DEF InPlace
  <2>3. machine'[k].keys /\ machine'[k].disk = "common" /\ machine'[k].run = "common"
    BY <1>4, <2>2, ParityPushed
  <2>4. Pushed(k)' /\ Runs(k)' /\ ~HasStatic(k)' /\ ~Introduced(k)'
    BY <1>9 DEF Pushed, Runs, HasStatic, Introduced, Sequel
  <2> QED
    BY <2>3, <2>4 DEF InPlace
<1>13. pc \notin Before \cup {"configure", "failed"} /\ pc' \notin Before \cup {"configure"}
  BY <1>2, <1>9 DEF Before
<1>14. HitInv' /\ MachineInv'
  BY <1>2, <1>7, <1>8, <1>11, <1>12, <1>13, OneMachine DEF IInv, roles
<1> QED
  BY <1>2, <1>8, <1>10, <1>13, <1>14, Assembly

\* The calls of web3, the waits and the call of restart tell no machine anything.
LEMMA QuietStep ==
  ASSUME IInv, CollectEnode \/ Report \/ Watch \/ Restart
  PROVE  IInv'
<1>1. PICK k \in Node : k = node
  BY TypeParts DEF IInv, ControlTypes
<1>2. /\ pc \in {"collect", "report", "watch", "running"}
      /\ UNCHANGED <<settings, made, roles, machine, late, hit, blocks>>
      /\ budget' = budget \/ Fault
  BY DEF CollectEnode, Report, Watch, Restart, Quiet, work
<1>3. /\ node' \in Node
      /\ \/ pc' = pc
         \/ pc' = "failed"
         \/ pc = "collect" /\ pc' = "static" /\ \A m \in Node : ~(m < node')
         \/ pc = "report" /\ pc' = "watch"
         \/ pc = "watch" /\ pc' = "running"
         \/ pc = "running" /\ pc' = "kill" /\ node' = 0
  <2>1. CASE CollectEnode
    BY <1>1, <2>1, TurnStep DEF CollectEnode, Ask, Raise
  <2>2. CASE Report
    BY <1>1, <2>2, TurnStep DEF Report, Ask, Raise
  <2>3. CASE Watch \/ Restart
    BY <1>1, <2>3, NodeFacts DEF Watch, Restart, Goto, Raise
  <2> QED
    BY <2>1, <2>2, <2>3
<1>4. ControlTypes'
  <2>1. /\ restarts' \in 0..MaxRestarts
        /\ \/ count' \in 1..Installs
           \/ pc' \in {"watch", "failed"} /\ count' \in 1..Watches
    <3>1. CASE CollectEnode \/ Restart
      BY <3>1, TypeParts, AuthorityAssumption DEF IInv, ControlTypes, CollectEnode, Restart
    <3>2. CASE Report \/ Watch
      BY <3>2, TypeParts, AuthorityAssumption DEF IInv, ControlTypes, Report, Watch, Goto, Raise
    <3> QED
      BY <3>1, <3>2
  <2> QED
    BY <1>2, <1>3, <2>1, TypeParts DEF IInv, ControlTypes, Sequel
<1>5. pc' # "failed" => \A m \in Node : SameStage(m)
  BY <1>2, <1>3, NodeFacts DEF SameStage, Pushed, Runs, HasStatic, Introduced, Sequel, Node
<1>6. pc \notin Before \cup {"configure", "failed"} /\ pc' \notin Before \cup {"configure"}
  BY <1>2, <1>3 DEF Before
<1>7. HitInv' /\ MachineInv'
  BY <1>2, <1>5, <1>6, NoMachine DEF IInv, roles
<1>8. WorkTyped'
  <2>1. budget' \in 0..MaxFaults
    BY <1>2, TypeParts, AuthorityAssumption DEF IInv, WorkTyped, Fault
  <2> QED
    BY <1>2, <2>1, TypeParts DEF IInv, WorkTyped
<1> QED
  BY <1>2, <1>4, <1>6, <1>7, <1>8, Assembly

LEMMA AddPeersStep ==
  ASSUME IInv, AddPeers
  PROVE  IInv'
<1>1. PICK k \in Node : k = node
  BY TypeParts DEF IInv, ControlTypes
<1>2. /\ pc = "peers" /\ Ask(k, "report")
      /\ machine' = IF machine[k].run = "down" THEN machine
                    ELSE [machine EXCEPT ![k].knows = TRUE]
      /\ UNCHANGED <<settings, count, made, roles, late, blocks, hit, restarts, budget>>
  BY <1>1 DEF AddPeers
<1>3. /\ node' \in Node /\ ~(k < k)
      /\ \/ pc' = "failed"
         \/ /\ machine[k].run # "down"
            /\ \/ pc' = "peers" /\ \A m \in Node : m < node' <=> m < k \/ m = k
               \/ pc' = "report" /\ \A m \in Node : m < k \/ m = k
  <2>1. CASE machine[k].run = "down"
    BY <1>1, <1>2, <2>1, NodeFacts DEF Ask, Raise
  <2>2. CASE machine[k].run # "down"
    BY <1>1, <1>2, <2>2, TurnStep DEF Ask
  <2> QED
    BY <2>1, <2>2
<1>4. ControlTypes'
  BY <1>2, <1>3, TypeParts DEF IInv, ControlTypes, Sequel
<1>5. /\ WorkTyped /\ machine[k] \in Machine
      /\ [machine[k] EXCEPT !.knows = TRUE] \in Machine
  <2>1. WorkTyped /\ machine[k] \in Machine
    BY TypeParts DEF IInv, WorkTyped
  <2> QED
    BY <2>1 DEF Machine
<1>6. /\ machine' \in [Node -> Machine] /\ \A m \in Node \ {k} : machine'[m] = machine[m]
      /\ machine[k].run # "down" => machine'[k] = [machine[k] EXCEPT !.knows = TRUE]
  BY <1>2, <1>5 DEF WorkTyped
<1>7. WorkTyped' /\ OnlyAt(k)
  BY <1>2, <1>5, <1>6 DEF WorkTyped, OnlyAt
<1>8. pc' # "failed" => \A m \in Node \ {k} : SameStage(m)
  BY <1>1, <1>2, <1>3 DEF SameStage, Pushed, Runs, HasStatic, Introduced, Sequel
<1>9. ASSUME pc' # "failed", InPlace(k)
      PROVE  InPlace(k)'
  <2>1. Pushed(k) /\ Runs(k) /\ HasStatic(k) /\ Pushed(k)' /\ Runs(k)' /\ HasStatic(k)'
    BY <1>2, <1>3, <1>9 DEF Pushed, Runs, HasStatic, Sequel
  <2>2. machine'[k] = [machine[k] EXCEPT !.knows = TRUE]
    BY <1>3, <1>6, <1>9
  <2>3. /\ machine'[k].keys = machine[k].keys /\ machine'[k].disk = machine[k].disk
        /\ machine'[k].run = machine[k].run /\ machine'[k].static = machine[k].static
        /\ machine'[k].knows
    BY <1>5, <2>2 DEF Machine
  <2> QED
    BY <1>9, <2>1, <2>3 DEF InPlace
<1>10. pc \notin Before \cup {"configure", "failed"} /\ pc' \notin Before \cup {"configure"}
  BY <1>2, <1>3 DEF Before
<1>11. HitInv' /\ MachineInv'
  BY <1>2, <1>7, <1>8, <1>9, <1>10, OneMachine DEF IInv, roles
<1> QED
  BY <1>2, <1>4, <1>7, <1>10, <1>11, Assembly

\* revive_node looks for a block, and tries again without end.
LEMMA ProbeStep ==
  ASSUME IInv, Probe
  PROVE  IInv'
<1>1. PICK k \in Node : k = node
  BY TypeParts DEF IInv, ControlTypes
<1>2. /\ pc = "probe" /\ UNCHANGED <<settings, count, made, roles, blocks, restarts>>
      /\ \/ Raise /\ Quiet
         \/ /\ IF k + 1 < NumNodes THEN pc' = "revive" /\ node' = k + 1 ELSE Goto("running")
            /\ Quiet
         \/ Launch(k, <<"stop">>) /\ pc' = "revive" /\ node' = k
  BY <1>1 DEF Probe
<1>3. node' \in Node /\ pc' \in {"failed", "revive", "running"}
  BY <1>1, <1>2, NodeFacts DEF Raise, Goto
<1>4. ControlTypes'
  BY <1>2, <1>3, TypeParts DEF IInv, ControlTypes, Sequel
<1>5. pc \notin Before \cup {"configure", "failed"} /\ pc' \notin Before \cup {"configure"}
  BY <1>2, <1>3 DEF Before
<1>6. /\ \A m \in Node : Pushed(m) /\ HasStatic(m) /\ Introduced(m)
      /\ pc' # "failed" => \A m \in Node : Pushed(m)' /\ HasStatic(m)'
      /\ \A m \in Node : Runs(m) <=> m <= k
  BY <1>1, <1>2, <1>3 DEF Pushed, Runs, HasStatic, Introduced, Sequel
<1>7. CASE Quiet /\ pc' = "failed"
  <2>1. HitInv' /\ MachineInv' /\ WorkTyped'
    BY <1>2, <1>5, <1>7, NoMachine, TypeParts DEF IInv, roles, Quiet, work, WorkTyped
  <2> QED
    BY <1>2, <1>4, <1>5, <2>1, Assembly
<1>8. CASE Quiet /\ IF k + 1 < NumNodes THEN pc' = "revive" /\ node' = k + 1 ELSE Goto("running")
  <2>1. \A m \in Node : (m < k + 1 <=> m <= k) /\ (~(k + 1 < NumNodes) => m <= k)
    BY NodeFacts DEF Node
  <2>2. pc' # "failed" /\ \A m \in Node : Runs(m)' <=> Runs(m)
    <3>1. CASE k + 1 < NumNodes
      BY <1>6, <1>8, <2>1, <3>1 DEF Runs
    <3>2. CASE ~(k + 1 < NumNodes)
      BY <1>6, <1>8, <2>1, <3>2 DEF Runs, Goto, Pushed, Sequel
    <3> QED
      BY <3>1, <3>2
  <2>3. \A m \in Node : SameStage(m)
    BY <1>6, <2>2 DEF SameStage
  <2>4. HitInv' /\ MachineInv' /\ WorkTyped'
    BY <1>2, <1>5, <1>8, <2>3, NoMachine, TypeParts DEF IInv, roles, Quiet, work, WorkTyped
  <2> QED
    BY <1>2, <1>4, <1>5, <2>4, Assembly
<1>9. CASE Launch(k, <<"stop">>) /\ pc' = "revive" /\ node' = k
  <2>1. \A m \in Node : Runs(m)' <=> m < k
    BY <1>9 DEF Runs
  <2>2. ~(k < k) /\ \A m \in Node \ {k} : m < k <=> m <= k
    BY NodeFacts
  <2>3. \A m \in Node \ {k} : SameStage(m)
    BY <1>6, <1>9, <2>1, <2>2 DEF SameStage
  <2>4. ASSUME InPlace(k), machine[k] \in Machine, machine'[k] = Do(machine[k], <<"stop">>, {})
        PROVE  InPlace(k)'
    <3>1. machine[k].keys /\ machine[k].disk = "common" /\ machine[k].static
      BY <1>6, <2>4 DEF InPlace
    <3>2. machine'[k].keys /\ machine'[k].disk = "common" /\ machine'[k].run = "down" /\ machine'[k].static
      BY <2>4, <3>1, ServiceTold
    <3> QED
      BY <1>6, <1>9, <2>1, <2>2, <3>2 DEF InPlace
  <2> QED
    BY <1>2, <1>4, <1>5, <1>9, <2>3, <2>4, Told, ListedCommands
<1> QED
  BY <1>2, <1>7, <1>8, <1>9 DEF Raise
-----------------------------------------------------------------------------
(* Faults, blocks and the preparation                                      *)

\* Only a machine that was hit has a late command to catch up with.
LEMMA CatchStep ==
  ASSUME IInv, Catch
  PROVE  IInv'
<1>1. PICK k \in Node : \E c \in late[k] :
        /\ late' = [late EXCEPT ![k] = @ \ {c}]
        /\ machine' = [machine EXCEPT ![k] = Effect(@, c)]
        /\ UNCHANGED <<settings, pc, node, count, made, roles, blocks, hit, restarts, budget>>
  BY DEF Catch
<1>2. PICK c \in late[k] :
        /\ late' = [late EXCEPT ![k] = @ \ {c}]
        /\ machine' = [machine EXCEPT ![k] = Effect(@, c)]
        /\ UNCHANGED <<settings, pc, node, count, made, roles, blocks, hit, restarts, budget>>
  BY <1>1
<1>3. WorkTyped /\ c \in Commands /\ Effect(machine[k], c) \in Machine
  BY EffectTyped, TypeParts DEF IInv, WorkTyped
<1>4. /\ machine' \in [Node -> Machine] /\ late' \in [Node -> SUBSET Commands]
      /\ \A m \in Node \ {k} : machine'[m] = machine[m] /\ late'[m] = late[m]
  BY <1>2, <1>3 DEF WorkTyped
<1>5. WorkTyped' /\ OnlyAt(k)
  BY <1>2, <1>3, <1>4 DEF WorkTyped, OnlyAt
<1>6. k \in hit /\ pc \notin Before
  BY <1>2 DEF IInv, HitInv
<1>7. \A m \in Node : SameStage(m)
  BY <1>2 DEF SameStage, Pushed, Runs, HasStatic, Introduced, settings
<1>8. HitInv' /\ MachineInv'
  <2>1. CASE pc = "failed"
    BY <1>2, <1>4, <1>6, <2>1 DEF IInv, HitInv, MachineInv
  <2>2. CASE pc # "failed"
    BY <1>2, <1>5, <1>6, <1>7, <2>2, OneMachine DEF IInv, roles
  <2> QED
    BY <2>1, <2>2
<1>9. ControlTypes'
  BY <1>2, TypeParts DEF IInv, ControlTypes
<1> QED
  BY <1>2, <1>5, <1>8, <1>9, Assembly

LEMMA CrashStep ==
  ASSUME IInv, Crash
  PROVE  IInv'
<1>1. PICK k \in Node : /\ machine[k].run # "down"
                       /\ machine' = [machine EXCEPT ![k] = Stop(@)]
                       /\ hit' = hit \cup {k}
  BY DEF Crash
<1>2. /\ pc # "failed" /\ budget > 0 /\ budget' = budget - 1
      /\ UNCHANGED <<settings, pc, node, count, made, roles, late, blocks, restarts>>
  BY DEF Crash
<1>3. WorkTyped /\ Stop(machine[k]) \in Machine
  BY StartIs, TypeParts DEF IInv, WorkTyped
<1>4. machine' \in [Node -> Machine] /\ \A m \in Node \ {k} : machine'[m] = machine[m]
  BY <1>1, <1>3 DEF WorkTyped
<1>5. WorkTyped' /\ OnlyAt(k)
  <2>1. budget' \in 0..MaxFaults
    BY <1>2, <1>3, AuthorityAssumption DEF WorkTyped
  <2> QED
    BY <1>1, <1>2, <1>3, <1>4, <2>1 DEF WorkTyped, OnlyAt
<1>6. pc \notin Before
  BY <1>1 DEF IInv, HitInv, Fresh
<1>7. \A m \in Node : SameStage(m)
  BY <1>2 DEF SameStage, Pushed, Runs, HasStatic, Introduced, settings
<1>8. k \in hit'
  BY <1>1
<1>9. HitInv' /\ MachineInv'
  BY <1>2, <1>5, <1>6, <1>7, <1>8, OneMachine DEF IInv, roles
<1>10. ControlTypes'
  BY <1>2, TypeParts DEF IInv, ControlTypes
<1> QED
  BY <1>2, <1>5, <1>9, <1>10, Assembly

LEMMA BlockStep ==
  ASSUME IInv, Block \/ UNCHANGED vars
  PROVE  IInv'
<1>1. /\ UNCHANGED <<settings, pc, node, count, made, roles, machine, late, hit, restarts, budget>>
      /\ \/ UNCHANGED blocks
         \/ \E n \in Node : blocks' = blocks \cup {n}
  BY DEF Block, vars, work
<1>2. blocks' \subseteq Node
  BY <1>1, TypeParts DEF IInv, ControlTypes
<1>3. ControlTypes' /\ WorkTyped'
  BY <1>1, <1>2, TypeParts DEF IInv, ControlTypes, WorkTyped
<1>4. HitInv' /\ MachineInv'
  BY <1>1, NoMachine DEF IInv, roles
<1> QED
  BY <1>1, <1>3, <1>4, Assembly

\* Before the accounts are known nothing is done to the machines.
LEMMA PreparationStep ==
  ASSUME IInv, Install \/ FetchAccount
  PROVE  IInv'
<1>1. PICK k \in Node : k = node
  BY TypeParts DEF IInv, ControlTypes
<1>2. /\ pc \in {"install", "accounts"}
      /\ UNCHANGED <<settings, roles, machine, late, hit, blocks, restarts>>
  BY DEF Install, FetchAccount, Quiet, work
<1>3. node' \in Node /\ pc' \in Before \cup {"failed"}
  <2>1. Raise \/ (UNCHANGED <<pc, node>>) \/ Loop("accounts") \/ Loop("assign")
    BY DEF Install, FetchAccount
  <2> QED
    BY <1>1, <1>2, <2>1, TurnStep DEF Raise, Before
<1>4. ControlTypes'
  <2>1. count' \in 1..Installs
    BY <1>2, TypeParts, AuthorityAssumption DEF IInv, ControlTypes, Install, FetchAccount, TryLeft
  <2> QED
    BY <1>2, <1>3, <2>1, TypeParts DEF IInv, ControlTypes
<1>5. budget' \in 0..MaxFaults /\ made' \in [Node -> {"ok", "nokey", "empty"}]
  <2>1. budget \in 0..MaxFaults /\ made \in [Node -> {"ok", "nokey", "empty"}]
    BY TypeParts DEF IInv, WorkTyped, RoleTypes
  <2>2. CASE Install
    BY <2>1, <2>2 DEF Install, Quiet
  <2>3. CASE FetchAccount
    <3>1. budget' \in 0..MaxFaults
      BY <2>1, <2>3, AuthorityAssumption DEF FetchAccount, Fault
    <3>2. made' \in [Node -> {"ok", "nokey", "empty"}]
      BY <2>1, <2>3 DEF FetchAccount
    <3> QED
      BY <3>1, <3>2
  <2> QED
    BY <2>2, <2>3
<1>6. WorkTyped'
  BY <1>2, <1>5, TypeParts DEF IInv, WorkTyped
<1>7. HitInv' /\ MachineInv'
  BY <1>2, <1>3 DEF IInv, HitInv, MachineInv, Fresh, settings, Before
<1>8. ChosenInv' /\ RolesInv' /\ SpreadInv'
  <2>1. UNCHANGED <<share, numAcc, roles>> /\ pc \in Before
    BY <1>2 DEF settings, Before
  <2> QED
    BY <1>3, <2>1, RolesFrame DEF IInv
<1>9. RoleTypes'
  BY <1>2, <1>5, TypeParts DEF IInv, RoleTypes, settings, roles
<1>10. (RoleTypes /\ ControlTypes /\ WorkTyped /\ ChosenInv /\ RolesInv => TypeOK)'
  BY TypeParts, PTL
<1> QED
  BY <1>4, <1>6, <1>7, <1>8, <1>9, <1>10 DEF IInv

LEMMA AssignStep ==
  ASSUME IInv, Assign
  PROVE  IInv'
<1>1. /\ pc = "assign" /\ pc' = "configure" /\ node' = 0
      /\ UNCHANGED <<client, share, count, made, sealer, machine, late, hit, budget, blocks, restarts>>
  BY DEF Assign, Goto, Quiet, work
<1>2. ChosenInv' /\ RolesInv' /\ SpreadInv' /\ numAcc' \in 0..NumNodes
  BY AssignRoles, TypeParts DEF IInv, RoleTypes
<1>3. RoleTypes' /\ WorkTyped'
  BY <1>1, <1>2, TypeParts, NodeFacts DEF IInv, RoleTypes, WorkTyped
<1>4. ControlTypes'
  BY <1>1, TypeParts, NodeFacts DEF IInv, ControlTypes
<1>5. (RoleTypes /\ ControlTypes /\ WorkTyped /\ ChosenInv /\ RolesInv => TypeOK)'
  BY TypeParts, PTL
<1>6. \A n \in Node : machine'[n] = Fresh(client)' /\ late'[n] = {}
  BY <1>1 DEF IInv, HitInv, Before, Fresh
<1>7. HitInv' /\ MachineInv'
  <2>1. \A n \in Node : ~Pushed(n)' /\ ~Runs(n)' /\ ~HasStatic(n)' /\ ~Introduced(n)'
    BY <1>1 DEF Pushed, Runs, HasStatic, Introduced, Sequel
  <2>2. \A n \in Node : machine'[n].keys /\ machine'[n].run = "down" /\ machine'[n].disk = Fresh(client)'.disk
    BY <1>1, <1>6 DEF Fresh
  <2> QED
    BY <1>1, <1>6, <2>1, <2>2 DEF HitInv, MachineInv, InPlace, Before
<1> QED
  BY <1>2, <1>3, <1>4, <1>5, <1>7 DEF IInv
\* The key stores of all machines are cleared and filled again.
LEMMA RefillFacts ==
  ASSUME WorkTyped, NEW n \in Node, Refill(n)
  PROVE  /\ WorkTyped' /\ hit \subseteq hit'
         /\ \A m \in Node \ hit' : late'[m] = late[m]
         /\ \A m \in Node : machine'[m] = [machine[m] EXCEPT !.keys = HasAllKeys(m)]
<1>1. PICK slow \in SUBSET (Node \X {"rmkeys"}) :
        /\ Cardinality(slow) <= budget
        /\ budget' = budget - Cardinality(slow)
        /\ late' = [m \in Node |-> late[m] \cup {c \in {"rmkeys"} : <<m, c>> \in slow}]
        /\ hit' = hit \cup {m \in Node : <<m, "rmkeys">> \in slow}
        /\ machine' = [m \in Node |-> [machine[m] EXCEPT !.keys = HasAllKeys(m)]]
  BY DEF Refill
<1>2. Cardinality(slow) \in Nat
  <2>1. IsFiniteSet({"rmkeys"})
    BY FS_Singleton
  <2>2. IsFiniteSet(Node \X {"rmkeys"})
    BY <2>1, NodeFacts, FS_Product
  <2> QED
    BY <2>2, FS_Subset, FS_CardinalityType
<1>3. budget' \in 0..MaxFaults
  BY <1>1, <1>2, AuthorityAssumption DEF WorkTyped
<1>4. late' \in [Node -> SUBSET Commands]
  BY <1>1 DEF WorkTyped, Commands
<1>5. hit' \subseteq Node /\ hit \subseteq hit'
  BY <1>1 DEF WorkTyped
<1>6. \A m \in Node \ hit' : late'[m] = late[m]
  BY <1>1
<1>7. \A m \in Node : machine'[m] = [machine[m] EXCEPT !.keys = HasAllKeys(m)]
  BY <1>1
<1>8. \A m \in Node : [machine[m] EXCEPT !.keys = HasAllKeys(m)] \in Machine
  <2> TAKE m \in Node
  <2>1. machine[m] \in Machine /\ HasAllKeys(m) \in BOOLEAN
    BY DEF WorkTyped, HasAllKeys
  <2> QED
    BY <2>1 DEF Machine
<1>9. machine' \in [Node -> Machine]
  BY <1>1, <1>8
<1> QED
  BY <1>3, <1>4, <1>5, <1>6, <1>7, <1>9 DEF WorkTyped

LEMMA ConfigureStep ==
  ASSUME IInv, Configure
  PROVE  IInv'
<1>1. PICK k \in Node : k = node
  BY TypeParts DEF IInv, ControlTypes
<1>2. pc = "configure" /\ UNCHANGED <<settings, count, made, chosen, blocks, restarts>>
  BY DEF Configure
<1>3. CASE Raise /\ Quiet /\ UNCHANGED <<i, sealer, signers>>
  <2>1. /\ pc' = "failed" /\ UNCHANGED <<node, roles, machine, late, hit, budget>>
    BY <1>2, <1>3 DEF Raise, Quiet, roles, work
  <2>2. ControlTypes' /\ WorkTyped'
    BY <1>2, <2>1, TypeParts DEF IInv, ControlTypes, WorkTyped
  <2>3. HitInv' /\ MachineInv'
    BY <1>2, <2>1 DEF IInv, HitInv, MachineInv, Before
  <2>4. ChosenInv' /\ RolesInv' /\ SpreadInv'
    <3>1. UNCHANGED <<share, numAcc, roles>>
      BY <1>2, <2>1 DEF settings
    <3> QED
      BY <1>2, <2>1, <3>1, RolesFrame DEF IInv
  <2>5. RoleTypes'
    BY <1>2, <2>1, TypeParts DEF IInv, RoleTypes, settings, roles
  <2>6. (RoleTypes /\ ControlTypes /\ WorkTyped /\ ChosenInv /\ RolesInv => TypeOK)'
    BY TypeParts, PTL
  <2> QED
    BY <2>2, <2>3, <2>4, <2>5, <2>6 DEF IInv
<1>4. CASE ConfigureOne /\ IF client = "geth" /\ numAcc > 0 THEN Refill(k) ELSE Quiet
  <2>1. /\ node' \in Node
        /\ \/ pc' = "configure"
           \/ pc' = "push" /\ \A m \in Node : ~(m < node')
    BY <1>1, <1>2, <1>4, TurnStep DEF ConfigureOne
  <2>2. /\ ChosenInv' /\ RolesInv' /\ SpreadInv'
        /\ sealer' \in [Node -> Node \cup {-1}]
    BY <1>4, ConfigureRoles, ConfigureSpread, TypeParts DEF IInv
  <2>3. RoleTypes' /\ ControlTypes'
    BY <1>2, <2>1, <2>2, TypeParts DEF IInv, RoleTypes, ControlTypes, settings
  <2>4. WorkTyped /\ \A m \in Node : machine[m] \in Machine
    BY TypeParts DEF IInv, WorkTyped
  <2>5. /\ WorkTyped' /\ hit \subseteq hit'
        /\ \A m \in Node \ hit' : late'[m] = late[m]
        /\ \A m \in Node : machine'[m] \in {machine[m], [machine[m] EXCEPT !.keys = HasAllKeys(m)]}
    <3>1. CASE Refill(k)
      BY <2>4, <3>1, RefillFacts
    <3>2. CASE Quiet
      BY <2>4, <3>2 DEF Quiet, work, WorkTyped
    <3> QED
      BY <1>4, <3>1, <3>2
  <2>6. HitInv'
    BY <1>2, <2>1, <2>5 DEF IInv, HitInv, Before
  <2>7. MachineInv'
    <3>1. \A m \in Node : HasAllKeys(m)' = HasAllKeys(m)
      BY <1>2 DEF HasAllKeys, AccountsOf, settings
    <3>2. Fresh(client)' = Fresh(client) /\ pc \notin Before \cup {"failed"}
      BY <1>2 DEF Fresh, settings, Before
    <3> SUFFICES ASSUME NEW m \in Node \ hit', HasAllKeys(m) PROVE InPlace(m)'
      BY <3>1 DEF MachineInv
    <3>3. InPlace(m) /\ machine[m].keys
      BY <2>5, <3>2 DEF IInv, MachineInv, InPlace
    <3>4. machine'[m] = machine[m]
      <4>1. machine[m] \in Machine /\ HasAllKeys(m) = TRUE
        BY <2>4 DEF HasAllKeys
      <4>2. [machine[m] EXCEPT !.keys = HasAllKeys(m)] = machine[m]
        BY <3>3, <4>1 DEF Machine
      <4> QED
        BY <2>5, <4>2
    <3>5. SameStage(m)
      BY <1>2, <2>1 DEF SameStage, Pushed, Runs, HasStatic, Introduced, Sequel
    <3> QED
      BY <3>2, <3>3, <3>4, <3>5 DEF InPlace, SameStage
  <2>8. (RoleTypes /\ ControlTypes /\ WorkTyped /\ ChosenInv /\ RolesInv => TypeOK)'
    BY TypeParts, PTL
  <2> QED
    BY <2>2, <2>3, <2>5, <2>6, <2>7, <2>8 DEF IInv
<1> QED
  BY <1>1, <1>2, <1>3, <1>4 DEF Configure, ConfigureOne

-----------------------------------------------------------------------------
(* The properties                                                          *)

LEMMA Initially == Init => IInv
<1> SUFFICES ASSUME Init PROVE IInv
  OBVIOUS
<1>1. /\ pc \in Before /\ node = 0 /\ count = 1 /\ chosen = <<>> /\ i = 0
      /\ signers = <<>> /\ \A n \in Node : sealer[n] = -1
  BY DEF Init, Before
<1>2. RoleTypes /\ ControlTypes
  BY <1>1, NodeFacts, AuthorityAssumption DEF Init, RoleTypes, ControlTypes
<1>3. WorkTyped /\ HitInv
  <2>1. Fresh(client) \in Machine
    BY DEF Fresh, Machine
  <2> QED
    BY <2>1, AuthorityAssumption DEF Init, WorkTyped, HitInv
<1>4. ChosenInv /\ SpreadInv /\ MachineInv
  BY <1>1 DEF ChosenInv, Undrawn, SpreadInv, MachineInv
<1>5. RolesInv
  <2>1. signers \in Seq(Node) /\ Len(signers) = 0 /\ ToSet(signers) = {}
    BY <1>1 DEF ToSet
  <2>2. pc # "configure" /\ {sealer[n] : n \in Node} \ {-1} = {}
    BY <1>1 DEF Before
  <2>3. ToSet(signers) = {sealer[n] : n \in Node} \ {-1}
    BY <2>1, <2>2
  <2>4. Len(signers) <= NumNodes
    BY <2>1, NodeFacts
  <2> QED
    BY <1>1, <2>1, <2>2, <2>3, <2>4 DEF RolesInv
<1> QED
  BY <1>2, <1>3, <1>4, <1>5, TypeParts DEF IInv

LEMMA Step == IInv /\ [Next]_vars => IInv'
<1> SUFFICES ASSUME IInv, [Next]_vars PROVE IInv'
  OBVIOUS
<1>1. CASE Push
  BY <1>1, PushGethStep, PushParityStep DEF IInv, TypeOK
<1>2. CASE Bounce \/ PlaceStatic \/ AddPeers
  BY <1>2, BounceStep, PlaceStaticStep, AddPeersStep
<1>3. CASE CollectEnode \/ Report \/ Watch \/ Restart
  BY <1>3, QuietStep
<1>4. CASE KillNode \/ ReviveNode \/ Probe
  BY <1>4, KillNodeStep, ReviveNodeStep, ProbeStep
<1>5. CASE Install \/ FetchAccount \/ Assign \/ Configure
  BY <1>5, PreparationStep, AssignStep, ConfigureStep
<1>6. CASE Catch \/ Crash \/ Block \/ UNCHANGED vars
  BY <1>6, CatchStep, CrashStep, BlockStep
<1> QED
  BY <1>1, <1>2, <1>3, <1>4, <1>5, <1>6 DEF Next, Operator, Over

\* The strengthened invariant holds in every reachable state.
THEOREM Invariance == Spec => []IInv
BY Initially, Step, PTL DEF Spec

\* Every reachable state has the declared types (AuthorityNetwork, TypeOK).
THEOREM TypeCorrect == Spec => []TypeOK
<1>1. IInv => TypeOK
  BY DEF IInv
<1> QED
  BY <1>1, Invariance, PTL

\* The accounts in the genesis block are exactly those that the mining nodes
\* seal with, and each of these nodes unlocks its own
\* (Geth_Network.py:139-196, Parity_Network.py:245-262).
THEOREM SealersAreSignersHolds == Spec => []SealersAreSigners
<1>1. IInv => SealersAreSigners
  BY DEF IInv, RolesInv, SealersAreSigners
<1> QED
  BY <1>1, Invariance, PTL

\* No account has two sealing nodes more than another
\* (Geth_Network.py:158-162, Parity_Network.py:255-262).
THEOREM SignersSpreadHolds == Spec => []SignersSpread
<1>1. ASSUME IInv PROVE SignersSpread
  <2> DEFINE used == UNION {ToSet(AccountsOf(n)) : n \in 0..(NumberOfSigners - 1)}
  <2> SUFFICES ASSUME pc \notin Before \cup {"configure", "failed"}, NEW a \in used, NEW b \in used
               PROVE  SealedBy(a) <= SealedBy(b) + 1
    BY DEF SignersSpread, Before
  <2>1. \A x : /\ IsFiniteSet({n \in Node : sealer[n] = x})
               /\ SealedBy(x) \in Nat
    BY NodeFacts, FS_Subset, FS_CardinalityType DEF SealedBy
  <2>2. CASE numAcc = 0
    <3>1. NumberOfSigners \in Int
      BY <1>1, SignersNumber, TypeParts DEF IInv
    <3>2. a \in Nat
      <4>1. PICK n \in 0..(NumberOfSigners - 1) : a \in ToSet(AccountsOf(n))
        OBVIOUS
      <4>2. ToSet(<<n>>) = {n}
        BY DEF ToSet
      <4> QED
        BY <2>2, <3>1, <4>1, <4>2 DEF AccountsOf
    <3>3. {n \in Node : sealer[n] = a} \subseteq {a}
      BY <1>1, <2>2, <3>2 DEF IInv, SpreadInv
    <3>4. IsFiniteSet({a}) /\ Cardinality({a}) = 1
      BY FS_Singleton
    <3>5. SealedBy(a) <= 1
      <4>1. Cardinality({n \in Node : sealer[n] = a}) <= Cardinality({a})
        BY <3>3, <3>4, FS_Subset
      <4> QED
        BY <3>4, <4>1 DEF SealedBy
    <3>6. SealedBy(a) \in Nat /\ SealedBy(b) \in Nat
      BY <2>1
    <3> HIDE DEF used
    <3> QED
      BY <3>5, <3>6
  <2>3. CASE numAcc # 0
    <3>1. Drawn
      BY <1>1 DEF IInv, ChosenInv
    <3>2. \A c \in used : \E j \in 1..numAcc : c = chosen[j]
      BY <2>3, <3>1 DEF AccountsOf, ToSet, Drawn
    <3>3. PICK j \in 1..numAcc, l \in 1..numAcc : a = chosen[j] /\ b = chosen[l]
      BY <3>2
    <3>4. PICK last \in 0..(numAcc - 1) : \A h \in 1..numAcc :
            SealedBy(chosen[h]) = SealedBy(chosen[1]) + (IF h \in 2..(last + 1) THEN 1 ELSE 0)
      BY <1>1, <2>3 DEF IInv, SpreadInv
    <3>5. SealedBy(chosen[1]) \in Nat
      BY <2>1
    <3> QED
      BY <3>3, <3>4, <3>5
  <2> QED
    BY <2>2, <2>3
<1> QED
  BY <1>1, Invariance, PTL

\* When the setup or a restart is over, a machine that no late command and no
\* crash has hit, and that has its keys, runs on the common chain and knows the
\* others (Geth_Network.py:212-296, Parity_Network.py:269-400).
THEOREM UndisturbedHolds == Spec => []Undisturbed
<1>1. ASSUME IInv PROVE Undisturbed
  <2> SUFFICES ASSUME pc = "running", NEW n \in Node \ hit, HasAllKeys(n)
               PROVE  OnChain(n) /\ machine[n].knows
    BY DEF Undisturbed
  <2>1. Runs(n) /\ Introduced(n)
    BY DEF Pushed, Runs, HasStatic, Introduced, Sequel
  <2> QED
    BY <1>1, <2>1 DEF IInv, MachineInv, InPlace, OnChain, Before
<1> QED
  BY <1>1, Invariance, PTL
=============================================================================
