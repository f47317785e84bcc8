--------------------------- MODULE FabricPushProofs ---------------------------
(***************************************************************************)
(* Proofs of the properties of FabricPush for any number of machines and   *)
(* of failed commands.                                                     *)
(***************************************************************************)
EXTENDS FabricPushInv, FiniteSetTheorems, TLAPS

LEMMA FirstMachine == 0 \in VM /\ VM \subseteq Nat /\ \A v \in VM : v < NumVMs
BY NumVMsAssumption DEF VM

\* The source of a push is a served machine, the target the next one.
LEMMA PushPair ==
  ASSUME TypeOK, CountInv, pc = "push"
  PROVE  /\ Source \in VM /\ Target \in VM /\ Source < Target
         /\ sent \in Nat /\ width \in Nat /\ pair \in Nat /\ Target = sent + pair
         /\ pair < width
BY NumVMsAssumption DEF TypeOK, CountInv, VM, Source, Target

\* What a push command does to the counters.
LEMMA CommandEnds ==
  ASSUME TypeOK, CountInv, pc = "push", EndCommand, width' = width
  PROVE  \/ /\ cmd # "chaincode" /\ cmd' = Following[cmd]
            /\ UNCHANGED <<pc, sent, pair>>
         \/ /\ cmd = "chaincode" /\ cmd' = "wipe" /\ UNCHANGED <<pc, sent>>
            /\ pair + 1 < width /\ pair' = pair + 1
         \/ /\ cmd = "chaincode" /\ cmd' = "wipe" /\ pc' = "round"
            /\ ~(pair + 1 < width) /\ pair' = 0 /\ sent' = Target + 1
<1>1. CASE cmd = "chaincode" /\ ~(pair + 1 < width)
  <2>1. pair + 1 = width
    BY <1>1, PushPair
  <2> QED
    BY <1>1, <2>1, PushPair DEF EndCommand, RoundFinished
<1>2. CASE ~(cmd = "chaincode" /\ ~(pair + 1 < width))
  BY <1>2 DEF EndCommand
<1> QED
  BY <1>1, <1>2

LEMMA FollowingCommand ==
  /\ Following["wipe"] = "crypto"
  /\ Following["crypto"] = "artifacts"
  /\ Following["artifacts"] = "chaincode"
BY DEF Following

\* A push command changes the files of its target only.
LEMMA CommandWrites ==
  ASSUME TypeOK, CountInv, NEW d \in Content, NEW part \in SUBSET {"key", "oldcrypto"},
         Wipe \/ Copy(d) \/ CommandFails(part)
  PROVE  /\ pc = "push" /\ EndCommand /\ UNCHANGED <<width, rounds, kept>>
         /\ files' \in [VM -> SUBSET File]
         /\ \A v \in VM : v # Target => files'[v] = files[v]
         /\ sender' \in [VM -> VM]
         /\ \A v \in VM : v # Target => sender'[v] = sender[v]
         /\ cmd = "wipe" => sender'[Target] = Source
         /\ sender'[Target] \in {sender[Target], Source}
         /\ hit' \in {hit, hit \cup {Target}}
         /\ budget' \in 0..MaxFaults
<1>1. CASE Wipe
  BY <1>1, PushPair DEF Wipe, TypeOK, File
<1>2. CASE Copy(d)
  BY <1>2, PushPair DEF Copy, Put, TypeOK, Content
<1>3. CASE CommandFails(part)
  <2>1. budget' \in 0..MaxFaults
    BY <1>3, FaultsAssumption DEF CommandFails, TypeOK
  <2>2. /\ pc = "push" /\ EndCommand /\ UNCHANGED <<width, rounds, kept>>
        /\ files' = [files EXCEPT ![Target] = @ \cup part]
        /\ sender' = [sender EXCEPT ![Target] = Source]
        /\ hit' = hit \cup {Target}
    BY <1>3 DEF CommandFails, Put
  <2> QED
    BY <2>1, <2>2, PushPair DEF TypeOK, File
<1> QED
  BY <1>1, <1>2, <1>3

\* What it brings to the target.
LEMMA CommandBrings ==
  ASSUME TypeOK, CountInv, NEW d \in Content, NEW part \in SUBSET {"key", "oldcrypto"}
  PROVE  /\ Wipe => files'[Target] =
              IF KeyAtSource THEN files[Target] \ {"crypto", "artifacts", "key", "oldcrypto"}
              ELSE files[Target]
         /\ Copy(d) => /\ cmd = d /\ hit' = hit
                       /\ files'[Target] =
                            IF KeyAtSource
                            THEN files[Target] \cup (files[Source] \cap ({d} \cup Beside(d)))
                            ELSE files[Target]
         /\ CommandFails(part) => /\ hit' = hit \cup {Target}
                                  /\ part \subseteq files[Source] \cap Beside(cmd)
                                  /\ files'[Target] = files[Target] \cup part
<1>1. Wipe => files'[Target] =
        IF KeyAtSource THEN files[Target] \ {"crypto", "artifacts", "key", "oldcrypto"}
        ELSE files[Target]
  BY PushPair DEF Wipe, TypeOK
<1>2. Copy(d) => /\ cmd = d /\ hit' = hit
                 /\ files'[Target] =
                      IF KeyAtSource
                      THEN files[Target] \cup (files[Source] \cap ({d} \cup Beside(d)))
                      ELSE files[Target]
  BY PushPair DEF Copy, Put, TypeOK
<1>3. CommandFails(part) => /\ hit' = hit \cup {Target}
                            /\ part \subseteq files[Source] \cap Beside(cmd)
                            /\ files'[Target] = files[Target] \cup part
  BY PushPair DEF CommandFails, Put, TypeOK
<1> QED
  BY <1>1, <1>2, <1>3

-----------------------------------------------------------------------------
(* The inductive invariant                                                 *)

LEMMA InitHolds ==
  ASSUME Init
  PROVE  IInv
<1>1. TypeOK
  BY FirstMachine, NumVMsAssumption
     DEF Init, TypeOK, Label, File, Command, VM
<1>2. UnservedInv
  BY FirstMachine DEF Init, UnservedInv, Broadcasting
<1> QED
  BY <1>1, <1>2 DEF Init, IInv, CountInv, PushInv, KeyInv, DamageInv,
     UnharmedInv, Broadcasting, Seeded

\* The commands of a push, taken together, preserve the invariant.
LEMMA PushKeepsType ==
  ASSUME IInv, NEW d \in Content, NEW part \in SUBSET {"key", "oldcrypto"},
         Wipe \/ Copy(d) \/ CommandFails(part)
  PROVE  TypeOK' /\ CountInv'
<1> USE DEF IInv
<1>1. pc = "push" /\ EndCommand /\ width' = width /\ rounds' = rounds
  BY CommandWrites
<1>2. /\ sent' \in 1..NumVMs /\ pair' \in 0..NumVMs /\ cmd' \in Command
      /\ pc' \in Label
  BY <1>1, CommandEnds, PushPair, FollowingCommand, NumVMsAssumption
     DEF TypeOK, CountInv, Label, Command, Content
<1>3. TypeOK'
  BY <1>1, <1>2, CommandWrites, PushPair DEF TypeOK
<1>4. CountInv'
  BY <1>1, CommandEnds, PushPair DEF CountInv, TypeOK
<1> QED
  BY <1>3, <1>4

LEMMA PushKeepsUnserved ==
  ASSUME IInv, NEW d \in Content, NEW part \in SUBSET {"key", "oldcrypto"},
         Wipe \/ Copy(d) \/ CommandFails(part)
  PROVE  UnservedInv'
<1> USE DEF IInv
<1>1. pc = "push" /\ EndCommand /\ width' = width
      /\ \A v \in VM : v # Target => files'[v] = files[v]
  BY CommandWrites
<1>2. \A v \in VM : v > Target => files'[v] \subseteq {"oldcrypto"}
  BY <1>1, PushPair, FirstMachine DEF UnservedInv, Broadcasting, Served
<1>3. \/ pc' = "push" /\ Target' = Target
      \/ pc' = "push" /\ Target' = Target + 1
      \/ pc' = "round" /\ sent' = Target + 1
  BY <1>1, CommandEnds, PushPair DEF Target
<1>4. pc' \in {"push", "round"}
  BY <1>3
<1>5. ASSUME NEW v \in VM, pc' = "push" => v > Target', pc' = "round" => v >= sent'
      PROVE  files'[v] \subseteq {"oldcrypto"}
  <2>1. v > Target
    BY <1>1, <1>3, <1>5, FirstMachine, PushPair
  <2> QED
    BY <1>2, <2>1
<1>6. Served' = IF pc' = "push" THEN Target' ELSE sent'
  BY DEF Served
<1>7. \A v \in VM : v > Served' => v >= Served'
  <2>1. /\ Served' \in Nat
        /\ pc' = "push" => Served' = Target'
        /\ pc' = "round" => Served' = sent'
    BY <1>1, <1>3, <1>6, PushPair
  <2> QED
    BY <2>1, FirstMachine
<1> QED
  BY <1>4, <1>5, <1>6, <1>7 DEF UnservedInv, Broadcasting

\* At the next machine nothing has arrived; at the same one, what PushInv says.
LEMMA PushKeepsPush ==
  ASSUME IInv, NEW d \in Content, NEW part \in SUBSET {"key", "oldcrypto"},
         Wipe \/ Copy(d) \/ CommandFails(part)
  PROVE  PushInv'
<1> USE DEF IInv
<1>1. pc = "push" /\ EndCommand /\ width' = width
      /\ \A v \in VM : v # Target => files'[v] = files[v]
  BY CommandWrites
<1>2. CASE cmd # "chaincode"
  <2>1. Target' = Target /\ Source' = Source /\ cmd' = Following[cmd]
    BY <1>1, <1>2, CommandEnds DEF Target, Source
  <2>2. files'[Source] = files[Source] /\ Complete(Source)' = Complete(Source)
    BY <1>1, <2>1, PushPair DEF Complete
  <2>3. cmd \in {"wipe", "crypto", "artifacts"}
    BY <1>2 DEF TypeOK, Command, Content
  <2>4. sender'[Target] = Source
    BY <1>1, CommandWrites, PushPair DEF PushInv
  <2>5. Complete(Source) => KeyAtSource
    BY <1>1, PushPair DEF KeyInv, Broadcasting, Complete, KeyAtSource, Content
  <2>6. CASE Wipe
    <3>1. cmd = "wipe" /\ cmd' = "crypto" /\ hit' = hit
      BY <2>1, <2>6, FollowingCommand DEF Wipe
    <3>2. files'[Target] = IF KeyAtSource THEN files[Target] \ {"crypto", "artifacts", "key", "oldcrypto"} ELSE files[Target]
      BY <2>6, CommandBrings
    <3> QED
      BY <1>1, <2>1, <2>2, <2>4, <2>5, <3>1, <3>2 DEF PushInv
  <2>7. CASE Copy(d)
    <3>1. /\ cmd = d /\ hit' = hit
          /\ files'[Target] = IF KeyAtSource
                THEN files[Target] \cup (files[Source] \cap ({d} \cup Beside(d)))
                ELSE files[Target]
      BY <2>7, CommandBrings
    <3>2. CASE d = "crypto"
      <4>1. cmd' = "artifacts" /\ files[Target] \subseteq {"oldcrypto"}
        BY <1>1, <2>1, <3>1, <3>2, FollowingCommand DEF PushInv
      <4>2. files'[Target] = IF KeyAtSource
                THEN files[Target] \cup (files[Source] \cap {"crypto", "key", "oldcrypto"})
                ELSE files[Target]
        BY <3>1, <3>2 DEF Beside
      <4> QED
        BY <1>1, <2>1, <2>2, <2>4, <2>5, <3>1, <3>2, <4>1, <4>2
           DEF PushInv, Complete, Content
    <3>3. CASE d = "artifacts"
      <4>1. cmd' = "chaincode" /\ files[Target] \subseteq {"oldcrypto", "key", "crypto"}
        BY <1>1, <2>1, <3>1, <3>3, FollowingCommand DEF PushInv
      <4>2. files'[Target] = IF KeyAtSource
                THEN files[Target] \cup (files[Source] \cap {"artifacts"})
                ELSE files[Target]
        BY <3>1, <3>3 DEF Beside
      <4> QED
        BY <1>1, <2>1, <2>2, <2>4, <2>5, <3>1, <3>3, <4>1, <4>2
           DEF PushInv, Complete, Content
    <3> QED
      BY <1>2, <3>1, <3>2, <3>3 DEF Content
  <2>8. CASE CommandFails(part)
    <3>1. /\ Target \in hit' /\ part \subseteq files[Source] \cap Beside(cmd)
          /\ files'[Target] = files[Target] \cup part
      BY <2>8, CommandBrings
    <3>2. cmd # "crypto" => part = {}
      BY <3>1 DEF Beside
    <3>3. /\ cmd = "wipe" => cmd' = "crypto"
          /\ cmd = "crypto" => cmd' = "artifacts"
          /\ cmd = "artifacts" => cmd' = "chaincode"
      BY <2>1, FollowingCommand
    <3>4. part \subseteq {"key", "oldcrypto"}
      OBVIOUS
    <3>5. /\ "oldcrypto" \in files[Target] => "oldcrypto" \in files'[Target]
          /\ "crypto" \in files'[Target] => "crypto" \in files[Target]
          /\ "artifacts" \in files'[Target] => "artifacts" \in files[Target]
          /\ "chaincode" \in files'[Target] => "chaincode" \in files[Target]
      BY <3>1, <3>4
    <3>6. cmd' # "wipe"
      BY <2>3, <3>3
    <3>7. ASSUME cmd' \in {"wipe", "crypto"}
          PROVE  files'[Target] \subseteq {"oldcrypto"}
      <4>1. cmd = "wipe" /\ part = {}
        BY <2>3, <3>2, <3>3, <3>7
      <4>2. files[Target] \subseteq {"oldcrypto"}
        BY <1>1, <4>1 DEF PushInv
      <4> QED
        BY <3>1, <4>1, <4>2
    <3>8. ASSUME cmd' = "artifacts"
          PROVE  files'[Target] \subseteq {"oldcrypto", "key", "crypto"}
      <4>1. cmd = "crypto"
        BY <2>3, <3>3, <3>8
      <4>2. files[Target] \subseteq {"oldcrypto"}
        BY <1>1, <4>1 DEF PushInv
      <4> QED
        BY <3>1, <3>4, <4>2
    <3>9. ASSUME cmd' = "chaincode"
          PROVE  "chaincode" \notin files'[Target]
      <4>1. cmd = "artifacts" /\ part = {}
        BY <2>3, <3>2, <3>3, <3>9
      <4>2. files[Target] \subseteq {"oldcrypto", "key", "crypto"}
        BY <1>1, <4>1 DEF PushInv
      <4> QED
        BY <3>1, <4>1, <4>2
    <3>10. /\ "crypto" \in files'[Target] =>
                "crypto" \in files[Source]
                /\ ("oldcrypto" \in files[Source] => "oldcrypto" \in files'[Target])
           /\ "artifacts" \in files'[Target] => "artifacts" \in files[Source]
      BY <1>1, <3>5 DEF PushInv
    <3>11. Target' = Target /\ Source' = Source /\ files'[Source] = files[Source]
      BY <2>1, <2>2
    <3> QED
      BY <2>4, <3>1, <3>7, <3>8, <3>9, <3>10, <3>11 DEF PushInv
  <2> QED
    BY <2>6, <2>7, <2>8
<1>3. CASE cmd = "chaincode" /\ pair + 1 < width
  <2>1. /\ pair' = pair + 1 /\ sent' = sent /\ cmd' = "wipe" /\ pc' = "push"
    BY <1>1, <1>3, CommandEnds
  <2>2. sent + width <= NumVMs /\ pair + 1 < width /\ NumVMs \in Nat
    BY <1>1, <1>3, NumVMsAssumption DEF CountInv
  <2>3. Target' = Target + 1 /\ Target' \in VM /\ Source' \in VM
    BY <1>1, <2>1, <2>2, PushPair DEF Target, Source, VM
  <2>4. files'[Target'] \subseteq {"oldcrypto"}
    BY <1>1, <2>1, <2>3, PushPair, FirstMachine DEF UnservedInv, Broadcasting, Served
  <2> QED
    BY <2>1, <2>3, <2>4 DEF PushInv
<1>4. CASE cmd = "chaincode" /\ ~(pair + 1 < width)
  BY <1>1, <1>4, CommandEnds DEF PushInv
<1> QED
  BY <1>2, <1>3, <1>4

LEMMA PushKeepsKey ==
  ASSUME IInv, NEW d \in Content, NEW part \in SUBSET {"key", "oldcrypto"},
         Wipe \/ Copy(d) \/ CommandFails(part)
  PROVE  KeyInv'
<1> USE DEF IInv
<1>1. pc = "push" /\ EndCommand /\ width' = width
      /\ \A v \in VM : v # Target => files'[v] = files[v]
  BY CommandWrites
<1>2. pc' \in {"push", "round"}
  BY <1>1, CommandEnds
<1>3. \A v \in VM : "crypto" \in files[v] => "key" \in files[v]
  BY <1>1 DEF KeyInv, Broadcasting
<1>4. Target \in VM
  BY <1>1, PushPair
<1>5. "crypto" \in files'[Target] => "key" \in files'[Target]
  <2>1. CASE Wipe
    <3>1. cmd = "wipe"
      BY <2>1 DEF Wipe
    <3>2. "crypto" \notin files[Target]
      BY <1>1, <3>1 DEF PushInv
    <3> QED
      BY <2>1, <3>2, CommandBrings
  <2>2. CASE Copy(d)
    <3>1. files'[Target] = IF KeyAtSource
                THEN files[Target] \cup (files[Source] \cap ({d} \cup Beside(d)))
                ELSE files[Target]
      BY <2>2, CommandBrings
    <3>2. CASE d = "crypto"
      BY <1>3, <1>4, <3>1, <3>2 DEF Beside, KeyAtSource
    <3>3. CASE d # "crypto"
      BY <1>3, <1>4, <3>1, <3>3 DEF Beside
    <3> QED
      BY <3>2, <3>3
  <2>3. CASE CommandFails(part)
    BY <1>3, <1>4, <2>3, CommandBrings
  <2> QED
    BY <2>1, <2>2, <2>3
<1> QED
  BY <1>1, <1>2, <1>3, <1>5 DEF KeyInv

\* The last command of a push leaves the target complete, unless a command of
\* the push failed or the source was not complete.
LEMMA PushCompletes ==
  ASSUME IInv, NEW d \in Content, NEW part \in SUBSET {"key", "oldcrypto"},
         Wipe \/ Copy(d) \/ CommandFails(part), cmd = "chaincode",
         Target \notin hit', Complete(Source)
  PROVE  \A v \in VM : v = Target => Complete(v)'
<1> USE DEF IInv
<1>1. Copy(d)
  BY CommandBrings DEF Wipe
<1>2. pc = "push" /\ d = "chaincode" /\ hit' = hit
  BY <1>1, CommandBrings DEF Copy
<1>3. KeyAtSource
  BY <1>2, PushPair DEF KeyInv, Broadcasting, Complete, KeyAtSource, Content
<1>4. files'[Target] = files[Target] \cup (files[Source] \cap {"chaincode"})
  BY <1>1, <1>2, <1>3, CommandBrings DEF Beside
<1>5. {"crypto", "artifacts"} \subseteq files[Target] /\ "oldcrypto" \notin files[Target]
  BY <1>2 DEF PushInv
<1>6. Content \subseteq files'[Target] /\ "oldcrypto" \notin files'[Target]
  BY <1>4, <1>5 DEF Complete, Content
<1> QED
  BY <1>6 DEF Complete

\* What the commands do to the machines that have been served.
LEMMA PushServes ==
  ASSUME IInv, NEW d \in Content, NEW part \in SUBSET {"key", "oldcrypto"},
         Wipe \/ Copy(d) \/ CommandFails(part),
         NEW v \in VM, v < Served'
  PROVE  \/ v < Target
         \/ v = Target /\ cmd = "chaincode"
<1> USE DEF IInv
<1>1. pc = "push" /\ EndCommand /\ width' = width
  BY CommandWrites
<1>2. \/ Served' = Target
      \/ Served' = Target + 1 /\ cmd = "chaincode"
  BY <1>1, CommandEnds, PushPair DEF Served, Target
<1> QED
  BY <1>1, <1>2, PushPair, FirstMachine

\* A served machine stays as it is.
LEMMA PushLeaves ==
  ASSUME IInv, NEW d \in Content, NEW part \in SUBSET {"key", "oldcrypto"},
         Wipe \/ Copy(d) \/ CommandFails(part),
         NEW v \in VM, v < Target
  PROVE  Complete(v)' = Complete(v) /\ sender'[v] = sender[v]
<1> USE DEF IInv
<1>1. v # Target
  BY CommandWrites, PushPair, FirstMachine
<1> QED
  BY <1>1, CommandWrites DEF Complete

LEMMA PushKeepsDamage ==
  ASSUME IInv, NEW d \in Content, NEW part \in SUBSET {"key", "oldcrypto"},
         Wipe \/ Copy(d) \/ CommandFails(part)
  PROVE  DamageInv'
<1> USE DEF IInv
<1>1. pc = "push" /\ Served = Target /\ hit \subseteq hit'
  BY CommandWrites DEF Served
<1>2. ASSUME NEW v \in VM, v < Served', ~Complete(v)'
      PROVE  v \in hit' \/ (v > 0 /\ sender'[v] < v /\ ~Complete(sender[v])')
  <2>1. CASE v < Target
    <3>1. ~Complete(v) /\ sender'[v] = sender[v]
      BY <1>2, <2>1, PushLeaves
    <3>2. v \in hit \/ (v > 0 /\ sender[v] < v /\ ~Complete(sender[v]))
      BY <1>1, <2>1, <3>1 DEF DamageInv, Seeded
    <3>3. CASE v \in hit
      BY <1>1, <3>3
    <3>4. CASE v > 0 /\ sender[v] < v /\ ~Complete(sender[v])
      <4>1. sender[v] \in VM /\ v \in Nat /\ Target \in Nat
        BY <1>1, PushPair, FirstMachine DEF TypeOK
      <4>2. sender[v] # Target
        BY <2>1, <3>4, <4>1, FirstMachine
      <4>3. files'[sender[v]] = files[sender[v]]
        BY <4>1, <4>2, CommandWrites
      <4> QED
        BY <3>1, <3>4, <4>3 DEF Complete
    <3> QED
      BY <3>2, <3>3, <3>4
  <2>2. CASE v = Target /\ cmd = "chaincode"
    <3>1. Source \in VM /\ Source < v /\ v \in Nat /\ Source \in Nat
      BY <1>1, <2>2, PushPair, FirstMachine
    <3>2. sender'[v] = Source
      BY <1>1, <2>2, CommandWrites DEF PushInv
    <3>3. files'[Source] = files[Source]
      BY <2>2, <3>1, CommandWrites
    <3>4. v \in hit' \/ ~Complete(Source)
      BY <1>2, <2>2, PushCompletes
    <3> QED
      BY <3>1, <3>2, <3>4, <3>3 DEF Complete
  <2> QED
    BY <1>2, <2>1, <2>2, PushServes
<1> QED
  BY <1>2 DEF DamageInv

LEMMA PushKeepsUnharmed ==
  ASSUME IInv, NEW d \in Content, NEW part \in SUBSET {"key", "oldcrypto"},
         Wipe \/ Copy(d) \/ CommandFails(part)
  PROVE  UnharmedInv'
<1> USE DEF IInv
<1>1. pc = "push" /\ Served = Target /\ hit \subseteq hit'
  BY CommandWrites DEF Served
<1>2. ASSUME hit' = {}, NEW v \in VM, v < Served'
      PROVE  Complete(v)'
  <2>1. \A w \in VM : w < Target => Complete(w)
    BY <1>1, <1>2 DEF UnharmedInv, Seeded
  <2>2. CASE v < Target
    BY <2>1, <2>2, PushLeaves
  <2>3. CASE v = Target /\ cmd = "chaincode"
    BY <1>1, <1>2, <2>1, <2>3, PushCompletes, PushPair
  <2> QED
    BY <1>2, <2>2, <2>3, PushServes
<1> QED
  BY <1>2 DEF UnharmedInv

\* The machines other than the first have nothing before the broadcast.
LEMMA GenerateKeeps ==
  ASSUME IInv, Generate
  PROVE  IInv'
<1> USE DEF IInv
<1>1. /\ pc = "generate" /\ pc' = "seed" /\ sent = 1
      /\ UNCHANGED <<sent, width, pair, cmd, rounds, sender, kept>>
      /\ \A v \in VM : files[v] \subseteq {"oldcrypto"}
  BY DEF Generate, UnservedInv, CountInv
<1>2. /\ files' \in [VM -> SUBSET File]
      /\ \A v \in VM \ {0} : files'[v] = files[v]
      /\ files'[0] \in {{"crypto"}, {"crypto", "artifacts"}}
      /\ "artifacts" \in files'[0] \/ 0 \in hit'
      /\ hit' \in SUBSET VM /\ budget' \in 0..MaxFaults
  <2>1. 0 \in VM /\ files \in [VM -> SUBSET File] /\ hit \in SUBSET VM
        /\ budget \in 0..MaxFaults
    BY FirstMachine DEF TypeOK
  <2>2. CASE budget' = budget /\ hit' = hit
             /\ files' = [files EXCEPT ![0] = (@ \ {"oldcrypto"}) \cup {"crypto", "artifacts"}]
    BY <1>1, <2>1, <2>2 DEF File, Content
  <2>3. CASE budget > 0 /\ budget' = budget - 1 /\ hit' = hit \cup {0}
             /\ files' = [files EXCEPT ![0] = (@ \ {"oldcrypto"}) \cup {"crypto"}]
    <3>1. budget' \in 0..MaxFaults
      BY <2>1, <2>3, FaultsAssumption
    <3> QED
      BY <1>1, <2>1, <2>3, <3>1 DEF File, Content
  <2> QED
    BY <2>2, <2>3 DEF Generate
<1>3. TypeOK'
  BY <1>1, <1>2 DEF TypeOK, Label
<1>4. UnservedInv'
  BY <1>1, <1>2 DEF UnservedInv, Broadcasting
<1> QED
  BY <1>1, <1>3, <1>4
     DEF CountInv, PushInv, KeyInv, DamageInv, UnharmedInv, Broadcasting, Seeded

LEMMA SeedKeeps ==
  ASSUME IInv, Seed
  PROVE  IInv'
<1> USE DEF IInv
<1>1. /\ pc = "seed" /\ pc' = "round" /\ sent = 1
      /\ UNCHANGED <<sent, width, pair, cmd, rounds, sender, hit, kept, budget>>
      /\ \A v \in VM \ {0} : files[v] \subseteq {"oldcrypto"}
  BY DEF Seed, UnservedInv, CountInv
<1>2. /\ files' \in [VM -> SUBSET File]
      /\ \A v \in VM \ {0} : files'[v] = files[v]
      /\ files'[0] = files[0] \cup {"key", "chaincode"}
  BY FirstMachine DEF Seed, Put, TypeOK, File, Content
<1>3. TypeOK'
  BY <1>1, <1>2 DEF TypeOK, Label
<1>4. Served' = 1
  BY <1>1 DEF Served
<1>5. UnservedInv'
  BY <1>1, <1>2, <1>4, FirstMachine DEF UnservedInv, Broadcasting
<1>6. KeyInv'
  BY <1>1, <1>2 DEF KeyInv
<1>7. 0 \notin hit => Complete(0)'
  BY <1>1, <1>2 DEF UnservedInv, Complete, Content
<1>8. \A v \in VM : v < 1 => v = 0
  BY FirstMachine
<1> QED
  BY <1>1, <1>3, <1>4, <1>5, <1>6, <1>7, <1>8
     DEF CountInv, PushInv, DamageInv, UnharmedInv

LEMMA StartRoundKeeps ==
  ASSUME IInv, StartRound
  PROVE  IInv'
<1> USE DEF IInv
<1>1. /\ pc = "round" /\ pc' = "push" /\ pair' = 0 /\ cmd' = "wipe"
      /\ width' = Targets /\ rounds' = rounds + 1
      /\ UNCHANGED <<files, sent, sender, hit, kept, budget>>
  BY DEF StartRound
<1>2. /\ width' \in 1..sent' /\ width' \in 0..NumVMs /\ sent' + width' <= NumVMs
      /\ pair' \in 0..(width' - 1)
  BY <1>1, NumVMsAssumption DEF StartRound, Targets, TypeOK
<1>3. TypeOK'
  BY <1>1, <1>2, NumVMsAssumption DEF TypeOK, Label, Command
<1>4. CountInv'
  BY <1>1, <1>2 DEF CountInv
<1>5. Target' = sent /\ Served' = sent /\ Served = sent
  BY <1>1 DEF Target, Served, TypeOK
<1>6. \A v \in VM : v >= sent => files[v] \subseteq {"oldcrypto"}
  BY <1>1, <1>5 DEF UnservedInv
<1>7. UnservedInv'
  BY <1>1, <1>5, <1>6, FirstMachine DEF UnservedInv, Broadcasting, TypeOK
<1>8. PushInv'
  <2>1. Target' \in VM /\ Target' >= sent
    BY <1>1, <1>5, NumVMsAssumption DEF StartRound, TypeOK, VM
  <2>2. files'[Target'] \subseteq {"oldcrypto"}
    BY <1>1, <1>5, <1>6, <2>1
  <2> QED
    BY <1>1, <2>2 DEF PushInv
<1>9. KeyInv'
  BY <1>1 DEF KeyInv, Broadcasting
<1>10. \A v : Complete(v)' = Complete(v)
  BY <1>1 DEF Complete
<1>11. DamageInv' /\ UnharmedInv'
  BY <1>1, <1>5, <1>10 DEF DamageInv, UnharmedInv, Seeded, Complete
<1> QED
  BY <1>3, <1>4, <1>7, <1>8, <1>9, <1>11

LEMMA BeginCleanupKeeps ==
  ASSUME IInv, BeginCleanup
  PROVE  IInv'
<1> USE DEF IInv
<1>1. /\ pc = "round" /\ pc' = "unkey" /\ pair' = 0 /\ sent = NumVMs
      /\ UNCHANGED <<files, sent, width, cmd, rounds, sender, hit, kept, budget>>
  BY DEF BeginCleanup
<1>2. TypeOK'
  BY <1>1, NumVMsAssumption DEF TypeOK, Label
<1>3. CountInv' /\ UnservedInv' /\ PushInv' /\ KeyInv'
  BY <1>1, FirstMachine DEF CountInv, UnservedInv, PushInv, KeyInv, Broadcasting
<1>4. DamageInv' /\ UnharmedInv'
  BY <1>1 DEF DamageInv, UnharmedInv, Seeded, Served, Complete
<1> QED
  BY <1>2, <1>3, <1>4

\* The key is not part of what makes a machine complete.
LEMMA RemoveKeyKeeps ==
  ASSUME IInv, RemoveKey
  PROVE  IInv'
<1> USE DEF IInv
<1>1. /\ pc = "unkey" /\ sent = NumVMs /\ pair \in VM
      /\ UNCHANGED <<sent, width, cmd, rounds, sender, hit>>
  BY DEF RemoveKey, CountInv
<1>2. \/ pc' = "unkey" /\ pair' = pair + 1 /\ pair + 1 < NumVMs
      \/ pc' = "containers" /\ pair' = pair /\ pair + 1 >= NumVMs
  BY <1>1, NumVMsAssumption DEF RemoveKey, Indices, VM
<1>3. /\ files' \in [VM -> SUBSET File] /\ kept' \in SUBSET VM
      /\ kept \subseteq kept' /\ budget' \in 0..MaxFaults
      /\ \A v \in VM : v # pair => files'[v] = files[v]
      /\ files'[pair] \in {files[pair], files[pair] \ {"key"}}
      /\ "key" \in files'[pair] => pair \in kept'
  <2>1. CASE files' = [files EXCEPT ![pair] = @ \ {"key"}] /\ UNCHANGED <<kept, budget>>
    BY <1>1, <2>1 DEF TypeOK
  <2>2. CASE /\ budget > 0 /\ budget' = budget - 1
             /\ kept' = kept \cup {pair} /\ UNCHANGED files
    <3>1. budget' \in 0..MaxFaults
      BY <2>2, FaultsAssumption DEF TypeOK
    <3> QED
      BY <1>1, <2>2, <3>1 DEF TypeOK
  <2> QED
    BY <2>1, <2>2 DEF RemoveKey
<1>4. TypeOK'
  <2>1. pair' \in 0..NumVMs /\ pc' \in Label
    BY <1>1, <1>2, NumVMsAssumption DEF Label, VM
  <2> QED
    BY <1>1, <1>3, <2>1 DEF TypeOK
<1>5. CountInv' /\ UnservedInv' /\ PushInv'
  BY <1>1, <1>2, NumVMsAssumption
     DEF CountInv, UnservedInv, PushInv, Broadcasting, VM
<1>6. KeyInv'
  <2>1. \A v \in VM : v < pair + 1 /\ "key" \in files'[v] => v \in kept'
    <3>1. ASSUME NEW v \in VM, v < pair + 1, "key" \in files'[v]
          PROVE  v \in kept'
      <4>1. v < pair \/ v = pair
        BY <1>1, <3>1, FirstMachine
      <4>2. v < pair /\ v # pair => v \in kept
        BY <1>1, <1>3, <3>1 DEF KeyInv
      <4>3. v < pair => v # pair
        BY <1>1, FirstMachine
      <4> QED
        BY <1>3, <3>1, <4>1, <4>2, <4>3
    <3> QED
      BY <3>1
  <2>2. \A v \in VM : pair + 1 >= NumVMs => v < pair + 1
    BY <1>1, NumVMsAssumption DEF VM
  <2> QED
    BY <1>2, <2>1, <2>2 DEF KeyInv, Broadcasting
<1>7. \A v \in VM : Complete(v)' = Complete(v)
  BY <1>3 DEF Complete, Content
<1>8. UnharmedInv'
  BY <1>1, <1>2, <1>7 DEF UnharmedInv, Seeded, Served
<1>9. DamageInv'
  <2>1. Served = NumVMs /\ Served' = NumVMs
    BY <1>1, <1>2 DEF Served
  <2>2. \A v \in VM : sender[v] \in VM
    BY DEF TypeOK
  <2> QED
    BY <1>1, <1>2, <1>7, <2>1, <2>2 DEF DamageInv, Seeded
<1> QED
  BY <1>4, <1>5, <1>6, <1>8, <1>9

LEMMA RaiseKeeps ==
  ASSUME IInv, Raise
  PROVE  IInv'
<1> USE DEF IInv
<1>1. /\ pc' = "aborted" /\ budget > 0 /\ budget' = budget - 1
      /\ UNCHANGED <<files, sent, width, pair, cmd, rounds, sender, hit, kept>>
  BY DEF Raise
<1>2. TypeOK'
  BY <1>1, FaultsAssumption DEF TypeOK, Label
<1> QED
  BY <1>1, <1>2 DEF CountInv, UnservedInv, PushInv, KeyInv, DamageInv,
     UnharmedInv, Broadcasting, Seeded

LEMMA StutterKeeps ==
  ASSUME IInv, UNCHANGED vars
  PROVE  IInv'
<1> USE DEF IInv
<1>1. UNCHANGED <<pc, files, sent, width, pair, cmd, rounds, sender, hit, kept, budget>>
  BY DEF vars
<1>2. TypeOK' /\ CountInv' /\ UnservedInv' /\ PushInv'
  BY <1>1 DEF TypeOK, CountInv, UnservedInv, PushInv, Served, Broadcasting,
     Source, Target, Complete
<1>3. KeyInv' /\ DamageInv' /\ UnharmedInv'
  BY <1>1 DEF KeyInv, DamageInv, UnharmedInv, Served, Broadcasting, Seeded,
     Target, Complete
<1> QED
  BY <1>2, <1>3

LEMMA StepHolds ==
  ASSUME IInv, [Next]_vars
  PROVE  IInv'
<1>1. ASSUME NEW d \in Content, NEW part \in SUBSET {"key", "oldcrypto"},
             Wipe \/ Copy(d) \/ CommandFails(part)
      PROVE  IInv'
  BY <1>1, PushKeepsType, PushKeepsUnserved, PushKeepsPush, PushKeepsKey,
     PushKeepsDamage, PushKeepsUnharmed DEF IInv
<1>2. "crypto" \in Content /\ {} \in SUBSET {"key", "oldcrypto"}
  BY DEF Content
<1> QED
  BY <1>1, <1>2, GenerateKeeps, SeedKeeps, StartRoundKeeps, BeginCleanupKeeps,
     RemoveKeyKeeps, RaiseKeeps, StutterKeeps DEF Next, Over

LEMMA Invariance == Spec => []IInv
<1>1. Init => IInv
  BY InitHolds
<1>2. IInv /\ [Next]_vars => IInv'
  BY StepHolds
<1> QED
  BY <1>1, <1>2, PTL DEF Spec

-----------------------------------------------------------------------------
(* The properties                                                          *)

\* The variables of the broadcast keep their types.
THEOREM TypeCorrect == Spec => []TypeOK
BY Invariance, PTL DEF IInv

\* If no command fails, every machine has the three directories, whole, when
\* the containers are started.
THEOREM AllServedHolds == Spec => []AllServed
<1>1. IInv => AllServed
  <2>1. ASSUME IInv, pc = "containers", hit = {}, NEW v \in VM
        PROVE  Complete(v)
    <3>1. v < Served
      BY <2>1, FirstMachine DEF IInv, CountInv, Served
    <3> QED
      BY <2>1, <3>1 DEF IInv, UnharmedInv, Seeded
  <2> QED
    BY <2>1 DEF AllServed, Holders
<1> QED
  BY <1>1, Invariance, PTL

\* The key of the broadcast is in the end on no machine but those whose own
\* removal failed.
THEOREM KeysRemovedHolds == Spec => []KeysRemoved
<1>1. IInv => KeysRemoved
  BY DEF IInv, KeyInv, KeysRemoved
<1> QED
  BY <1>1, Invariance, PTL

\* What a machine lacks is traced to failed commands along the tree of pushes.
THEOREM DamageTracedHolds == Spec => []DamageTraced
<1>1. IInv => DamageTraced
  <2>1. ASSUME IInv, pc \in {"round", "unkey", "containers"},
               NEW v \in 0..(sent - 1), ~Complete(v)
        PROVE  v \in hit \/ (v > 0 /\ sender[v] < v /\ ~Complete(sender[v]))
    <3>1. Served = sent /\ Seeded
      BY <2>1 DEF Served, Seeded
    <3>2. v \in VM /\ v < sent
      BY <2>1, NumVMsAssumption DEF IInv, TypeOK, VM
    <3> QED
      BY <2>1, <3>1, <3>2 DEF IInv, DamageInv
  <2> QED
    BY <2>1 DEF DamageTraced
<1> QED
  BY <1>1, Invariance, PTL

\* While a push is under way its target is not complete.
LEMMA TargetIncomplete ==
  ASSUME IInv, pc = "push"
  PROVE  "chaincode" \notin files[Target]
<1>1. cmd \in {"wipe", "crypto", "artifacts", "chaincode"}
  BY DEF IInv, TypeOK, Command, Content
<1> QED
  BY <1>1 DEF IInv, PushInv

\* The commands of a push, by their place: the first one, one in between, and
\* the last one, after which the target counts as served.
LEMMA PushPlace ==
  ASSUME IInv, NEW d \in Content, NEW part \in SUBSET {"key", "oldcrypto"},
         Wipe \/ Copy(d) \/ CommandFails(part)
  PROVE  \A v \in VM : Pushed(v)' <=> Pushed(v) \/ v = Target
<1> USE DEF IInv
<1>1. pc = "push" /\ EndCommand /\ width' = width
  BY CommandWrites
<1>2. /\ Served = Target /\ Target > 0
      /\ \A v \in VM : Pushed(v) <=> v > 0 /\ (v < Target \/ (v = Target /\ cmd # "wipe"))
  BY <1>1, PushPair DEF Served, Pushed, Source
<1>3. CASE cmd # "chaincode"
  <2>1. cmd' = Following[cmd] /\ UNCHANGED <<pc, sent, pair>>
    BY <1>1, <1>3, CommandEnds
  <2>2. cmd' # "wipe"
    BY <1>3, <2>1, FollowingCommand DEF TypeOK, Command, Content
  <2>3. Target' = Target /\ Served' = Target
    BY <1>1, <2>1 DEF Target, Served
  <2>4. \A v \in VM : Pushed(v)' <=> v > 0 /\ (v < Target \/ v = Target)
    BY <1>1, <2>1, <2>2, <2>3 DEF Pushed
  <2> QED
    BY <1>2, <2>4
<1>4. CASE cmd = "chaincode"
  <2>1. \/ pc' = "push" /\ cmd' = "wipe" /\ Target' = Target + 1
        \/ pc' = "round" /\ cmd' = "wipe" /\ sent' = Target + 1
    BY <1>1, <1>4, CommandEnds, PushPair DEF Target
  <2>2. Served' = Target + 1
    BY <2>1 DEF Served
  <2>3. \A v \in VM : Pushed(v)' <=> v > 0 /\ v < Target + 1
    BY <2>1, <2>2 DEF Pushed
  <2>4. \A v \in VM : v < Target + 1 <=> v < Target \/ v = Target
    BY <1>1, PushPair, FirstMachine
  <2> QED
    BY <1>2, <1>4, <2>3, <2>4
<1> QED
  BY <1>3, <1>4

\* The pusher of the target is the source of the push from its first command on.
LEMMA PushSends ==
  ASSUME IInv, SenderInv, NEW d \in Content, NEW part \in SUBSET {"key", "oldcrypto"},
         Wipe \/ Copy(d) \/ CommandFails(part)
  PROVE  /\ sender'[Target] = Source
         /\ cmd = "wipe" => sender[Target] = Target
         /\ cmd # "wipe" => sender' = sender
         /\ Source = 0 \/ sender[Source] # Source
<1> USE DEF IInv
<1>1. /\ pc = "push" /\ Source \in VM /\ Target \in VM /\ Source < Target
      /\ Source \in Nat /\ Target \in Nat
  BY CommandWrites, PushPair, FirstMachine
<1>2. /\ cmd # "wipe" => sender[Target] = Source
      /\ sender'[Target] \in {sender[Target], Source}
      /\ cmd = "wipe" => sender'[Target] = Source
      /\ sender' \in [VM -> VM] /\ sender \in [VM -> VM]
      /\ \A v \in VM : v # Target => sender'[v] = sender[v]
  BY <1>1, CommandWrites DEF PushInv, TypeOK
<1>3. cmd # "wipe" => \A v \in VM : sender'[v] = sender[v]
  BY <1>2
<1>4. Served = Target /\ pc # "aborted"
  BY <1>1 DEF Served
<1>5. cmd = "wipe" => ~Pushed(Target)
  BY <1>1, <1>4 DEF Pushed
<1>6. Source # 0 => Pushed(Source)
  BY <1>1, <1>4 DEF Pushed
<1>7. Source # 0 => sender[Source] < Source
  BY <1>1, <1>4, <1>6 DEF SenderInv
<1>8. cmd = "wipe" => sender[Target] = Target
  BY <1>1, <1>4, <1>5 DEF SenderInv
<1>9. cmd # "wipe" => sender' = sender
  BY <1>2, <1>3
<1>10. sender[Source] < Source => sender[Source] # Source
  BY <1>1
<1> QED
  BY <1>2, <1>7, <1>8, <1>9, <1>10

LEMMA SenderStep ==
  ASSUME IInv, SenderInv, [Next]_vars
  PROVE  SenderInv'
<1> USE DEF IInv
<1>1. ASSUME NEW d \in Content, NEW part \in SUBSET {"key", "oldcrypto"},
             Wipe \/ Copy(d) \/ CommandFails(part)
      PROVE  SenderInv'
  <2>1. pc = "push" /\ Source < Target
    BY <1>1, CommandWrites, PushPair
  <2>2. ASSUME NEW v \in VM
        PROVE  IF Pushed(v)' THEN sender'[v] < v ELSE sender'[v] = v
    <3>1. CASE v = Target
      BY <1>1, <2>1, <3>1, PushPlace, PushSends
    <3>2. CASE v # Target
      <4>1. (Pushed(v)' <=> Pushed(v)) /\ sender'[v] = sender[v]
        BY <1>1, <3>2, PushPlace, CommandWrites
      <4>2. IF Pushed(v) THEN sender[v] < v ELSE sender[v] = v
        BY <2>1 DEF SenderInv
      <4> QED
        BY <4>1, <4>2
    <3> QED
      BY <3>1, <3>2
  <2> QED
    BY <2>2 DEF SenderInv
<1>2. ASSUME pc' # "aborted", pc # "aborted", sender' = sender,
             \A v \in VM : Pushed(v)' <=> Pushed(v)
      PROVE  SenderInv'
  BY <1>2 DEF SenderInv
<1>3. CASE Generate \/ Seed \/ BeginCleanup \/ RemoveKey
  <2>1. /\ pc # "push" /\ pc' # "push" /\ pc # "aborted" /\ pc' # "aborted"
        /\ sent' = sent /\ sender' = sender
    BY <1>3 DEF Generate, Seed, BeginCleanup, RemoveKey
  <2>2. \A v \in VM : Pushed(v)' <=> Pushed(v)
    BY <2>1 DEF Pushed, Served
  <2> QED
    BY <1>2, <2>1, <2>2
<1>4. CASE StartRound
  <2>1. /\ pc = "round" /\ pc' = "push" /\ cmd' = "wipe" /\ pair' = 0
        /\ sent' = sent /\ sender' = sender
    BY <1>4 DEF StartRound
  <2>2. Served = sent /\ Served' = sent
    BY <2>1 DEF Served, Target, TypeOK
  <2>3. \A v \in VM : Pushed(v)' <=> Pushed(v)
    BY <2>1, <2>2 DEF Pushed
  <2> QED
    BY <1>2, <2>1, <2>3
<1>5. CASE Raise
  BY <1>5 DEF Raise, SenderInv
<1>6. CASE UNCHANGED vars
  BY <1>6 DEF vars, SenderInv, Pushed, Served, Target
<1>7. "crypto" \in Content /\ {} \in SUBSET {"key", "oldcrypto"}
  BY DEF Content
<1> QED
  BY <1>1, <1>3, <1>4, <1>5, <1>6, <1>7 DEF Next, Over

LEMMA SenderInvariance == Spec => []SenderInv
<1>1. Init => SenderInv
  <2>1. ASSUME Init, NEW v \in VM
        PROVE  sender[v] = v /\ ~Pushed(v)
    BY <2>1, FirstMachine DEF Init, Pushed, Served
  <2> QED
    BY <2>1 DEF SenderInv
<1>2. IInv /\ SenderInv /\ [Next]_vars => SenderInv'
  BY SenderStep
<1> QED
  BY <1>1, <1>2, Invariance, PTL DEF Spec

\* The first command of a push puts its target into the tree; one that
\* completes the target copies from the target's pusher, which is complete.
LEMMA PushHands ==
  ASSUME IInv, SenderInv, NEW d \in Content, NEW part \in SUBSET {"key", "oldcrypto"},
         Wipe \/ Copy(d) \/ CommandFails(part)
  PROVE  UNCHANGED <<Holders, sender>> \/ F!Next
<1> USE DEF IInv
<1>1. pc = "push" /\ \A v \in VM : v # Target => files'[v] = files[v]
  BY CommandWrites
<1>2. Source \in VM /\ Target \in VM /\ Source # Target /\ Target # 0
  BY <1>1, PushPair, FirstMachine DEF Source
<1>3. Target \notin Holders
  BY <1>1, TargetIncomplete DEF Holders, Complete, Content
<1>4. Holders' = Holders \/ Holders' = Holders \cup {Target}
  BY <1>1, <1>2, <1>3 DEF Holders, Complete
<1>5. ASSUME Target \in Holders'
      PROVE  Source \in Holders /\ cmd # "wipe"
  <2>1. Content \subseteq files'[Target] /\ "oldcrypto" \notin files'[Target]
    BY <1>5 DEF Holders, Complete
  <2>2. "chaincode" \notin files[Target]
    BY <1>1, TargetIncomplete
  <2>3. Copy(d) /\ d = "chaincode" /\ cmd = "chaincode" /\ KeyAtSource
    <3>1. Copy(d)
      BY <2>1, <2>2, CommandBrings DEF Content
    <3>2. KeyAtSource /\ "chaincode" \in files[Source] \cap ({d} \cup Beside(d))
      BY <2>1, <2>2, <3>1, CommandBrings DEF Content
    <3> QED
      BY <3>1, <3>2, CommandBrings DEF Beside
  <2>4. files'[Target] = files[Target] \cup (files[Source] \cap {"chaincode"})
    BY <2>3, CommandBrings DEF Beside
  <2>5. /\ "crypto" \in files[Target] /\ "artifacts" \in files[Target]
        /\ "oldcrypto" \notin files[Target] /\ "chaincode" \in files[Source]
    BY <2>1, <2>2, <2>4 DEF Content
  <2>6. "crypto" \in files[Source] /\ "artifacts" \in files[Source]
        /\ "oldcrypto" \notin files[Source]
    BY <1>1, <2>5 DEF PushInv
  <2> QED
    BY <1>2, <2>3, <2>5, <2>6 DEF Holders, Complete, Content
<1>6. CASE cmd = "wipe"
  <2>1. Holders' = Holders
    BY <1>3, <1>4, <1>5, <1>6
  <2>2. sender[Target] = Target /\ (Source = 0 \/ sender[Source] # Source)
    BY <1>6, PushSends
  <2>3. sender' = [sender EXCEPT ![Target] = Source]
    <3>1. /\ sender \in [VM -> VM] /\ sender' \in [VM -> VM]
          /\ sender'[Target] = Source
          /\ \A v \in VM : v # Target => sender'[v] = sender[v]
      BY PushSends, CommandWrites DEF TypeOK
    <3> QED
      BY <1>2, <3>1
  <2> QED
    BY <1>2, <2>1, <2>2, <2>3 DEF F!Next, F!Assign
<1>7. CASE cmd # "wipe"
  <2>1. sender' = sender /\ sender[Target] = Source
    BY <1>7, PushSends
  <2> QED
    BY <1>2, <1>3, <1>4, <1>5, <2>1 DEF F!Next, F!Hand
<1> QED
  BY <1>6, <1>7

\* Whatever fails, every step of the code is a step of the abstract broadcast
\* or changes nothing in it: the pushes form a tree, and a machine becomes
\* complete by a copy from its own pusher while that one is complete.
THEOREM FloodsHolds == Spec => Floods
<1>1. Init => F!Init
  <2>1. ASSUME Init
        PROVE  Holders = {} /\ sender = [v \in VM |-> v]
    BY <2>1 DEF Init, Holders, Complete, Content
  <2> QED
    BY <2>1 DEF F!Init
<1>2. IInv /\ SenderInv /\ [Next]_vars => [F!Next]_<<Holders, sender>>
  <2> SUFFICES ASSUME IInv, SenderInv, [Next]_vars
               PROVE  UNCHANGED <<Holders, sender>> \/ F!Next
    OBVIOUS
  <2>1. CASE Generate
    <3>1. \A v \in VM : "chaincode" \notin files[v] /\ "chaincode" \notin files'[v]
      BY <2>1, FirstMachine DEF Generate, IInv, UnservedInv, TypeOK
    <3>2. sender' = sender
      BY <2>1 DEF Generate
    <3> QED
      BY <3>1, <3>2 DEF Holders, Complete, Content
  <2>2. CASE Seed
    <3>1. /\ \A v \in VM : "chaincode" \notin files[v]
          /\ \A v \in VM \ {0} : files'[v] = files[v]
          /\ sender' = sender
      BY <2>2, FirstMachine DEF Seed, Put, IInv, UnservedInv, TypeOK
    <3>2. Holders = {} /\ Holders' \in {{}, {0}}
      BY <3>1 DEF Holders, Complete, Content
    <3> QED
      BY <3>1, <3>2 DEF F!Next, F!Plant
  <2>3. ASSUME NEW d \in Content, NEW part \in SUBSET {"key", "oldcrypto"},
               Wipe \/ Copy(d) \/ CommandFails(part)
        PROVE  UNCHANGED <<Holders, sender>> \/ F!Next
    BY <2>3, PushHands
  <2>4. CASE RemoveKey
    <3>1. \A v \in VM : Complete(v)' = Complete(v)
      BY <2>4 DEF RemoveKey, IInv, CountInv, TypeOK, Complete, Content
    <3>2. sender' = sender
      BY <2>4 DEF RemoveKey
    <3> QED
      BY <3>1, <3>2 DEF Holders
  <2>5. CASE StartRound \/ BeginCleanup \/ Raise \/ UNCHANGED vars
    BY <2>5 DEF StartRound, BeginCleanup, Raise, vars, Holders, Complete
  <2>6. "crypto" \in Content /\ {} \in SUBSET {"key", "oldcrypto"}
    BY DEF Content
  <2> QED
    BY <2>1, <2>2, <2>3, <2>4, <2>5, <2>6 DEF Next, Over
<1> QED
  BY <1>1, <1>2, Invariance, SenderInvariance, PTL DEF Spec, Floods, F!Spec

-----------------------------------------------------------------------------
(* The number of rounds                                                    *)

\* 2 ^ n is the number of subsets of 1..n; adding n + 1 to each of them gives
\* as many again.
LEMMA PowerOfTwo ==
  ASSUME NEW n \in Nat
  PROVE  /\ IsFiniteSet(SUBSET (1..n))
         /\ 2 ^ n = Cardinality(SUBSET (1..n))
         /\ 2 ^ n \in Nat
<1>1. IsFiniteSet(1..n) /\ Cardinality(1..n) = n
  BY FS_Interval
<1>2. IsFiniteSet(SUBSET (1..n)) /\ Cardinality(SUBSET (1..n)) = 2 ^ n
  BY <1>1, FS_SUBSET
<1> QED
  BY <1>2, FS_CardinalityType

LEMMA PowerDoubles ==
  ASSUME NEW n \in Nat
  PROVE  2 ^ (n + 1) = 2 ^ n + 2 ^ n
<1> DEFINE Old == SUBSET (1..n)
           More == {A \cup {n + 1} : A \in Old}
           f == [A \in Old |-> A \cup {n + 1}]
<1>1. /\ IsFiniteSet(Old) /\ 2 ^ n = Cardinality(Old) /\ 2 ^ n \in Nat
      /\ 2 ^ (n + 1) = Cardinality(SUBSET (1..(n + 1)))
  <2>1. n + 1 \in Nat
    OBVIOUS
  <2>2. 2 ^ (n + 1) = Cardinality(SUBSET (1..(n + 1)))
    BY <2>1, PowerOfTwo
  <2> QED
    BY <2>2, PowerOfTwo
<1>2. \A A \in Old : n + 1 \notin A
  OBVIOUS
<1>3. f \in Bijection(Old, More)
  <2>1. f \in Injection(Old, More)
    <3>1. f \in [Old -> More]
      OBVIOUS
    <3>2. ASSUME NEW A \in Old, NEW B \in Old, f[A] = f[B]
          PROVE  A = B
      <4>1. A = f[A] \ {n + 1} /\ B = f[B] \ {n + 1}
        BY <1>2
      <4> QED
        BY <3>2, <4>1
    <3> QED
      BY <3>1, <3>2 DEF Injection, IsInjective
  <2>2. f \in Surjection(Old, More)
    BY DEF Surjection
  <2> QED
    BY <2>1, <2>2 DEF Bijection
<1>4. IsFiniteSet(More) /\ Cardinality(More) = 2 ^ n
  BY <1>1, <1>3, FS_Bijection DEF ExistsBijection
<1>5. Old \cap More = {}
  BY <1>2
<1>6. SUBSET (1..(n + 1)) = Old \cup More
  <2>1. ASSUME NEW B \in SUBSET (1..(n + 1))
        PROVE  B \in Old \cup More
    <3>1. B \ {n + 1} \in Old
      OBVIOUS
    <3>2. n + 1 \in B => B = (B \ {n + 1}) \cup {n + 1}
      OBVIOUS
    <3> QED
      BY <3>1, <3>2
  <2>2. ASSUME NEW B \in Old \cup More
        PROVE  B \in SUBSET (1..(n + 1))
    BY <2>2
  <2> QED
    BY <2>1, <2>2
<1>7. Cardinality(Old \cap More) = 0
  BY <1>5, FS_EmptySet
<1> HIDE DEF Old, More, f
<1>8. Cardinality(Old \cup More) =
        Cardinality(Old) + Cardinality(More) - Cardinality(Old \cap More)
  BY <1>1, <1>4, FS_Union
<1> DEFINE p == 2 ^ n
           q == 2 ^ (n + 1)
<1>9. /\ q = Cardinality(Old \cup More) /\ p \in Nat
      /\ Cardinality(Old) = p /\ Cardinality(More) = p
  BY <1>1, <1>4, <1>6
<1> HIDE DEF p, q
<1>10. q = p + p
  BY <1>7, <1>8, <1>9
<1> QED
  BY <1>10, Zenon DEF p, q

\* What the rounds need of powers of two.
Power(r) == 2 ^ r

LEMMA Powers ==
  /\ Power(0) = 1
  /\ \A r \in Nat : Power(r) \in Nat
  /\ \A r \in Nat : Power(r + 1) = Power(r) + Power(r)
<1>1. Power(0) = 1
  BY DEF Power
<1>2. ASSUME NEW r \in Nat
      PROVE  Power(r) \in Nat /\ Power(r + 1) = Power(r) + Power(r)
  BY PowerOfTwo, PowerDoubles, Zenon DEF Power
<1> QED
  BY <1>1, <1>2

\* RoundsInv in terms of Power.
LEMMA RoundsInPowers ==
  RoundsInv <=>
    /\ pc \in {"generate", "seed"} => rounds = 0
    /\ pc = "round" /\ sent < NumVMs => sent = Power(rounds)
    /\ pc = "push" => rounds > 0 /\ sent = Power(rounds - 1) /\ sent < NumVMs
                      /\ width = Targets
    /\ pc \in {"round", "unkey", "containers"} /\ sent = NumVMs =>
         /\ NumVMs <= Power(rounds)
         /\ rounds > 0 => Power(rounds - 1) < NumVMs
BY DEF RoundsInv, Power

\* A command changes the number of finished machines only if it ends the round.
LEMMA PushKeepsRounds ==
  ASSUME IInv, RoundsInv, NEW d \in Content, NEW part \in SUBSET {"key", "oldcrypto"},
         Wipe \/ Copy(d) \/ CommandFails(part)
  PROVE  RoundsInv'
<1> USE DEF IInv
<1>1. pc = "push" /\ EndCommand /\ width' = width /\ rounds' = rounds
  BY CommandWrites
<1>2. /\ rounds \in Nat /\ rounds > 0 /\ sent = Power(rounds - 1) /\ sent < NumVMs
      /\ width = Targets
  BY <1>1, RoundsInPowers DEF TypeOK
<1>3. CASE UNCHANGED <<pc, sent>>
  <2>1. Targets' = Targets
    BY <1>3 DEF Targets
  <2> QED
    BY <1>1, <1>2, <1>3, <2>1 DEF RoundsInv
<1>4. CASE pc' = "round" /\ ~(pair + 1 < width) /\ sent' = Target + 1
  <2>1. /\ sent' = sent + width /\ sent \in Nat /\ NumVMs \in Nat
    BY <1>1, <1>4, PushPair, NumVMsAssumption
  <2>2. rounds - 1 \in Nat /\ rounds = (rounds - 1) + 1
    BY <1>2
  <2>3. Power(rounds) = sent + sent
    BY <1>2, <2>2, Powers
  <2>4. \/ sent <= NumVMs - sent /\ sent' = Power(rounds)
        \/ sent' = NumVMs /\ NumVMs < Power(rounds)
    BY <1>2, <2>1, <2>3 DEF Targets
  <2>5. sent' < NumVMs => sent' = Power(rounds)
    BY <2>1, <2>4
  <2>6. sent' = NumVMs => NumVMs <= Power(rounds) /\ Power(rounds - 1) < NumVMs
    BY <1>2, <2>1, <2>3, <2>4
  <2>7. RoundsInv' <=>
          /\ sent' < NumVMs => sent' = Power(rounds)
          /\ sent' = NumVMs => /\ NumVMs <= Power(rounds)
                               /\ rounds > 0 => Power(rounds - 1) < NumVMs
    BY <1>1, <1>4 DEF RoundsInv, Power
  <2> QED
    BY <2>5, <2>6, <2>7
<1> QED
  BY <1>1, <1>3, <1>4, CommandEnds

LEMMA RoundsStep ==
  ASSUME IInv, RoundsInv, [Next]_vars
  PROVE  RoundsInv'
<1> USE DEF IInv
<1>1. /\ NumVMs \in Nat /\ sent \in 1..NumVMs /\ rounds \in Nat
      /\ pc \in {"generate", "seed"} => sent = 1
  BY NumVMsAssumption DEF TypeOK, CountInv
<1>2. CASE Generate
  BY <1>2 DEF Generate, RoundsInv
<1>3. CASE Seed
  <2>1. pc' = "round" /\ sent' = 1 /\ rounds' = 0
    BY <1>1, <1>3 DEF Seed, RoundsInv
  <2>2. RoundsInv' <=>
          /\ sent' < NumVMs => sent' = Power(0)
          /\ sent' = NumVMs => NumVMs <= Power(0)
    BY <2>1 DEF RoundsInv, Power
  <2> QED
    BY <2>1, <2>2, Powers
<1>4. CASE StartRound
  <2>1. /\ pc = "round" /\ pc' = "push" /\ sent < NumVMs /\ sent' = sent
        /\ width' = Targets /\ rounds' = rounds + 1
    BY <1>4 DEF StartRound
  <2>2. Targets' = Targets
    BY <2>1 DEF Targets
  <2>3. sent = Power(rounds) /\ rounds' - 1 = rounds /\ rounds' > 0
    BY <1>1, <2>1, RoundsInPowers
  <2> QED
    BY <2>1, <2>2, <2>3 DEF RoundsInv, Power
<1>5. ASSUME NEW d \in Content, NEW part \in SUBSET {"key", "oldcrypto"},
             Wipe \/ Copy(d) \/ CommandFails(part)
      PROVE  RoundsInv'
  BY <1>5, PushKeepsRounds
<1>6. CASE BeginCleanup
  BY <1>6 DEF BeginCleanup, RoundsInv
<1>7. CASE RemoveKey
  BY <1>7 DEF RemoveKey, RoundsInv
<1>8. CASE Raise
  BY <1>8 DEF Raise, RoundsInv
<1>9. CASE UNCHANGED vars
  BY <1>9 DEF vars, RoundsInv, Targets
<1>10. "crypto" \in Content /\ {} \in SUBSET {"key", "oldcrypto"}
  BY DEF Content
<1> QED
  BY <1>2, <1>3, <1>4, <1>5, <1>6, <1>7, <1>8, <1>9, <1>10 DEF Next, Over

\* The broadcast takes no more rounds than doubling needs, for any number of
\* machines.
THEOREM RoundsMinimalHolds == Spec => []RoundsMinimal
<1>1. Init => RoundsInv
  BY DEF Init, RoundsInv
<1>2. IInv /\ RoundsInv /\ [Next]_vars => RoundsInv'
  BY RoundsStep
<1>3. IInv /\ RoundsInv => RoundsMinimal
  BY DEF IInv, CountInv, RoundsInv, RoundsMinimal
<1> QED
  BY <1>1, <1>2, <1>3, Invariance, PTL DEF Spec
=============================================================================
