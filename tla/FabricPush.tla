------------------------------ MODULE FabricPush ------------------------------
(***************************************************************************)
(* Fabric_Network.startup generates the crypto material on the first       *)
(* machine and spreads it, the channel artifacts and the chaincode from    *)
(* machine to machine: in each round every finished machine pushes to one  *)
(* remaining machine, so the finished ones double.  Pushes are commands    *)
(* run on the source over ssh, with a key that travels inside the pushed   *)
(* directory; what they print and whether they fail is not looked at.      *)
(*                                                                         *)
(* The indices are unique(orderer_indices + peer_indices), which is        *)
(* 0..NumVMs-1 in order: finished_indices is always 0..(sent - 1) and      *)
(* remaining_indices the rest.  The threads of a round run one after the   *)
(* other, since threading.Thread gets the result of the push as target.    *)
(***************************************************************************)
EXTENDS Integers, FiniteSets

CONSTANTS
  NumVMs,    \* number of orderer and peer machines
  MaxFaults  \* bound: commands that fail in one behaviour

ASSUME NumVMsAssumption == NumVMs \in Nat \ {0}
ASSUME FaultsAssumption == MaxFaults \in Nat

VM == 0..(NumVMs - 1)

\* On a machine's disk: the three new directories when they are complete, the
\* ssh key inside crypto-config, and what crypto-config held before (the
\* cloned helper repository may bring one).
Content == {"crypto", "artifacts", "chaincode"}
File == Content \cup {"key", "oldcrypto"}

\* What else lies in a directory that is copied.
Beside(d) == IF d = "crypto" THEN {"key", "oldcrypto"} ELSE {}

Command == {"wipe"} \cup Content

VARIABLES
  pc,      \* where startup is
  files,   \* files[v] \subseteq File: what is on the machines
  sent,    \* len(finished_indices)
  width,   \* n_targets of the round
  pair,    \* position in the round; in the end, position in the clean-up
  cmd,     \* next command of push_stuff_single
  rounds,  \* history: rounds begun
  sender,  \* history: the machine that pushed to a machine; itself when none did
  hit,     \* history: machines whose own commands failed
  kept,    \* history: machines whose own removal of the key failed
  budget   \* failures still to come

vars == <<pc, files, sent, width, pair, cmd, rounds, sender, hit, kept, budget>>

Label == {"generate", "seed", "round", "push", "unkey", "containers", "aborted"}

Complete(v) == Content \subseteq files[v] /\ "oldcrypto" \notin files[v]
Holders == {v \in VM : Complete(v)}

TypeOK ==
  /\ pc \in Label
  /\ files \in [VM -> SUBSET File]
  /\ sent \in 1..NumVMs
  /\ width \in 0..NumVMs
  /\ pair \in 0..NumVMs
  /\ cmd \in Command
  /\ rounds \in Nat
  /\ sender \in [VM -> VM]
  /\ hit \in SUBSET VM
  /\ kept \in SUBSET VM
  /\ budget \in 0..MaxFaults

Init ==
  /\ pc = "generate"
  /\ \E old \in SUBSET {"oldcrypto"} : files = [v \in VM |-> old]
  /\ sent = 1
  /\ width = 0
  /\ pair = 0
  /\ cmd = "wipe"
  /\ rounds = 0
  /\ sender = [v \in VM |-> v]
  /\ hit = {}
  /\ kept = {}
  /\ budget \in 0..MaxFaults

Put(v, S) == files' = [files EXCEPT ![v] = @ \cup S]

-----------------------------------------------------------------------------

\* bmhn.sh on the first machine: the old crypto-config is removed, certificates
\* and channel artifacts are generated and fetched.  A configtxgen that fails
\* goes unnoticed.
Generate ==
  /\ pc = "generate"
  /\ \/ /\ files' = [files EXCEPT ![0] = (@ \ {"oldcrypto"}) \cup {"crypto", "artifacts"}]
        /\ UNCHANGED <<hit, budget>>
     \/ /\ budget > 0
        /\ budget' = budget - 1
        /\ hit' = hit \cup {0}
        /\ files' = [files EXCEPT ![0] = (@ \ {"oldcrypto"}) \cup {"crypto"}]
  /\ pc' = "seed"
  /\ UNCHANGED <<sent, width, pair, cmd, rounds, sender, kept>>

\* The ssh key, the chaincode and collections.json are put on it.
Seed ==
  /\ pc = "seed"
  /\ Put(0, {"key", "chaincode"})
  /\ pc' = "round"
  /\ UNCHANGED <<sent, width, pair, cmd, rounds, sender, hit, kept, budget>>

\* n_targets = min(len(finished_indices), len(remaining_indices))
OneTarget == 1
Targets == IF sent <= NumVMs - sent THEN sent ELSE NumVMs - sent

StartRound ==
  /\ pc = "round"
  /\ sent < NumVMs
  /\ width' = Targets
  /\ pair' = 0
  /\ cmd' = "wipe"
  /\ rounds' = rounds + 1
  /\ pc' = "push"
  /\ UNCHANGED <<files, sent, sender, hit, kept, budget>>

\* indices_sources = finished_indices[0:n_targets],
\* indices_targets = remaining_indices[0:n_targets]
NextSource == pair + 1
Source == pair
Target == sent + pair

\* ssh and scp on the source need its key.pem.
KeyAtSource == "key" \in files[Source]

Following == [wipe |-> "crypto", crypto |-> "artifacts", artifacts |-> "chaincode"]

\* finished_indices = indices_sources + indices_targets
AllDoubled == sent' = sent + sent
RoundFinished == sent' = sent + width

EndCommand ==
  IF cmd # "chaincode"
  THEN cmd' = Following[cmd] /\ UNCHANGED <<pc, sent, pair>>
  ELSE /\ cmd' = "wipe"
       /\ IF pair + 1 < width
          THEN pair' = pair + 1 /\ UNCHANGED <<pc, sent>>
          ELSE pair' = 0 /\ RoundFinished /\ pc' = "round"

\* rm -rf of the two directories on the target.
WipeSource ==
  /\ pc = "push"
  /\ cmd = "wipe"
  /\ files' = IF KeyAtSource
              THEN [files EXCEPT ![Source] = @ \ {"crypto", "artifacts", "key", "oldcrypto"}]
              ELSE files
  /\ sender' = [sender EXCEPT ![Target] = Source]
  /\ EndCommand
  /\ UNCHANGED <<width, rounds, hit, kept, budget>>
Wipe ==
  /\ pc = "push"
  /\ cmd = "wipe"
  /\ files' = IF KeyAtSource
              THEN [files EXCEPT ![Target] = @ \ {"crypto", "artifacts", "key", "oldcrypto"}]
              ELSE files
  /\ sender' = [sender EXCEPT ![Target] = Source]
  /\ EndCommand
  /\ UNCHANGED <<width, rounds, hit, kept, budget>>

\* scp -r of one directory, with all that lies in it.
CopyBare(d) ==
  /\ pc = "push"
  /\ cmd = d
  /\ IF KeyAtSource THEN Put(Target, files[Source] \cap {d}) ELSE UNCHANGED files
  /\ EndCommand
  /\ UNCHANGED <<width, rounds, sender, hit, kept, budget>>
Copy(d) ==
  /\ pc = "push"
  /\ cmd = d
  /\ IF KeyAtSource
     THEN Put(Target, files[Source] \cap ({d} \cup Beside(d)))
     ELSE UNCHANGED files
  /\ EndCommand
  /\ UNCHANGED <<width, rounds, sender, hit, kept, budget>>

\* The command fails on the source or on the way, which nobody notices.  A
\* copy that fails may have brought a part of its directory.
CommandFails(part) ==
  /\ pc = "push"
  /\ budget > 0
  /\ budget' = budget - 1
  /\ part \subseteq files[Source] \cap Beside(cmd)
  /\ Put(Target, part)
  /\ hit' = hit \cup {Target}
  /\ sender' = [sender EXCEPT ![Target] = Source]
  /\ EndCommand
  /\ UNCHANGED <<width, rounds, kept>>

\* remaining_indices == []
BeginCleanup ==
  /\ pc = "round"
  /\ sent = NumVMs
  /\ pair' = 0
  /\ pc' = "unkey"
  /\ UNCHANGED <<files, sent, width, cmd, rounds, sender, hit, kept, budget>>

\* rm key.pem on every machine, over the operator's own connections.  Whether
\* the command succeeded is not looked at.
LastFinished == 2 * width
Indices == NumVMs
RemoveKey ==
  /\ pc = "unkey"
  /\ \/ /\ files' = [files EXCEPT ![pair] = @ \ {"key"}]
        /\ UNCHANGED <<kept, budget>>
     \/ /\ budget > 0
        /\ budget' = budget - 1
        /\ kept' = kept \cup {pair}
        /\ UNCHANGED files
  /\ IF pair + 1 < Indices
     THEN pair' = pair + 1 /\ UNCHANGED pc
     ELSE pc' = "containers" /\ UNCHANGED pair
  /\ UNCHANGED <<sent, width, cmd, rounds, sender, hit>>

\* One of the operator's own connections fails: an exception ends startup.
Raise ==
  /\ pc \notin {"containers", "aborted"}
  /\ budget > 0
  /\ budget' = budget - 1
  /\ pc' = "aborted"
  /\ UNCHANGED <<files, sent, width, pair, cmd, rounds, sender, hit, kept>>

\* The pushes are over.
Over == pc \in {"containers", "aborted"} /\ UNCHANGED vars

Next ==
  \/ Generate \/ Seed \/ StartRound \/ Wipe
  \/ \E d \in Content : Copy(d)
  \/ \E part \in SUBSET {"key", "oldcrypto"} : CommandFails(part)
  \/ BeginCleanup \/ RemoveKey \/ Raise \/ Over

Spec == Init /\ [][Next]_vars

-----------------------------------------------------------------------------
(* Properties                                                              *)

\* When the containers are started and no command has failed, every machine
\* has all three directories and nothing old in crypto-config (lines 355-365).
AllServed ==
  pc = "containers" /\ hit = {} => Holders = VM

\* The key that the broadcast spreads over the machines is in the end on none
\* of them but those whose own removal failed, whichever pushes failed: no
\* machine is forgotten (lines 367-370).
KeysRemoved ==
  pc = "containers" => \A v \in VM : "key" \in files[v] => v \in kept

\* A machine that was served lacks something only if a command of its own push
\* failed or the machine that pushed to it lacked something: a failure that
\* push_stuff_single ignores spreads along the tree of pushes, and only there.
DamageTraced ==
  pc \in {"round", "unkey", "containers"} =>
    \A v \in 0..(sent - 1) :
      ~Complete(v) => v \in hit \/ (v > 0 /\ sender[v] < v /\ ~Complete(sender[v]))

\* The broadcast takes as few rounds as any that lets each machine push to one
\* other per round: the min() of line 358 wastes no source.
RoundsMinimal ==
  pc = "containers" =>
    /\ NumVMs <= 2 ^ rounds
    /\ rounds > 0 => 2 ^ (rounds - 1) < NumVMs

\* Whatever fails, the pushes form a tree with the first machine as its root,
\* and a machine becomes complete only by a push of its own pusher, which is
\* complete at that moment; none loses what it has (lines 355-365, 1563-1600).
F == INSTANCE Flood
       WITH Machine <- VM, Root <- 0, holders <- Holders, source <- sender
Floods == F!Spec
=============================================================================
