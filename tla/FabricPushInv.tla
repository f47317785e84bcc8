----------------------------- MODULE FabricPushInv -----------------------------
(***************************************************************************)
(* The inductive invariant behind the properties of FabricPush, proved in  *)
(* FabricPushProofs.                                                       *)
(***************************************************************************)
EXTENDS FabricPush

\* Machines 0..(Served - 1) have been served, or were given up.
Served == IF pc = "push" THEN Target ELSE sent

Broadcasting == pc \in {"round", "push"}
Seeded == pc \in {"round", "push", "unkey", "containers"}

CountInv ==
  /\ pc \in {"generate", "seed"} => sent = 1
  /\ pc = "push" => /\ width \in 1..sent
                    /\ sent + width <= NumVMs
                    /\ pair \in 0..(width - 1)
  /\ pc = "unkey" => pair \in VM
  /\ pc \in {"unkey", "containers"} => sent = NumVMs

\* Machines still to be served have nothing of the new content.
UnservedInv ==
  /\ pc = "generate" => \A v \in VM : files[v] \subseteq {"oldcrypto"}
  /\ pc = "seed" => \A v \in VM \ {0} : files[v] \subseteq {"oldcrypto"}
  /\ pc = "seed" => /\ "chaincode" \notin files[0] /\ "oldcrypto" \notin files[0]
                    /\ "crypto" \in files[0]
                    /\ "artifacts" \in files[0] \/ 0 \in hit
  /\ Broadcasting => \A v \in VM : v > Served => files[v] \subseteq {"oldcrypto"}
  /\ pc = "round" => \A v \in VM : v >= Served => files[v] \subseteq {"oldcrypto"}

\* The machine a push is serving has at most what the commands so far brought,
\* all of it from the source, and has all of that if no command failed.
PushInv ==
  pc = "push" =>
    LET from == files[Source]
        to == files[Target] IN
    /\ cmd \in {"wipe", "crypto"} => to \subseteq {"oldcrypto"}
    /\ cmd = "artifacts" => to \subseteq {"oldcrypto", "key", "crypto"}
    /\ cmd = "chaincode" => "chaincode" \notin to
    /\ "crypto" \in to =>
         "crypto" \in from /\ ("oldcrypto" \in from => "oldcrypto" \in to)
    /\ "artifacts" \in to => "artifacts" \in from
    /\ cmd # "wipe" => sender[Target] = Source
    /\ Target \notin hit /\ Complete(Source) =>
         /\ cmd # "wipe" => "oldcrypto" \notin to
         /\ cmd \in {"artifacts", "chaincode"} => "crypto" \in to
         /\ cmd = "chaincode" => "artifacts" \in to

\* Where the certificates went, the key went.
KeyInv ==
  /\ Broadcasting => \A v \in VM : "crypto" \in files[v] => "key" \in files[v]
  /\ pc = "unkey" => \A v \in VM : v < pair /\ "key" \in files[v] => v \in kept
  /\ pc = "containers" => \A v \in VM : "key" \in files[v] => v \in kept

DamageInv ==
  Seeded =>
    \A v \in VM : v < Served /\ ~Complete(v) =>
      v \in hit \/ (v > 0 /\ sender[v] < v /\ ~Complete(sender[v]))

UnharmedInv == Seeded /\ hit = {} => \A v \in VM : v < Served => Complete(v)

IInv ==
  /\ TypeOK /\ CountInv /\ UnservedInv /\ PushInv /\ KeyInv /\ DamageInv
  /\ UnharmedInv

\* The pushes form a tree: who was served, or is being served after the first
\* command, got it from an earlier machine, the others from nobody yet.  It rests on
\* IInv and is proved after it.
Pushed(v) == v > 0 /\ (v < Served \/ (pc = "push" /\ v = Target /\ cmd # "wipe"))
SenderInv ==
  pc # "aborted" =>
    \A v \in VM : IF Pushed(v) THEN sender[v] < v ELSE sender[v] = v

\* Each full round doubles the finished machines: before a round they are as
\* many as the subsets of the rounds so far, and in the end the last round was
\* needed.  It rests on IInv and is proved after it.
RoundsInv ==
  /\ pc \in {"generate", "seed"} => rounds = 0
  /\ pc = "round" /\ sent < NumVMs => sent = 2 ^ rounds
  /\ pc = "push" => /\ rounds > 0
                    /\ sent = 2 ^ (rounds - 1)
                    /\ sent < NumVMs
                    /\ width = Targets
  /\ pc \in {"round", "unkey", "containers"} /\ sent = NumVMs =>
       /\ NumVMs <= 2 ^ rounds
       /\ rounds > 0 => 2 ^ (rounds - 1) < NumVMs
=============================================================================
