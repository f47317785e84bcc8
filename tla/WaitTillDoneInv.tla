--------------------------- MODULE WaitTillDoneInv ---------------------------
(***************************************************************************)
(* The inductive invariant behind the safety properties of WaitTillDone,   *)
(* and behind its refinement of Completion.                                *)
(***************************************************************************)
EXTENDS WaitTillDone

\* The type invariant, with an index that is a host while there is polling.
Typed ==
  /\ TypeOK
  /\ pc = "poll" => index \in Host

\* What the file tells of the job: outside of reboots success is exactly a job
\* that is done; a machine that has gone down, or come up again, has the file.
FileTells ==
  \A h \in Host :
    /\ ~Reboots(wait) => /\ job[h] # "down"
                         /\ (file[h] = "success" <=> job[h] = "done")
    /\ Reboots(wait) /\ job[h] \in {"down", "done"} => file[h] = "success"
    /\ file[h] = "other" => wait = "install"

\* A flag is set only for a host whose file was right, and it stays right.
FlagsReady == flags \subseteq {h \in Host : file[h] = "success"}

\* Done at the beginning of the round, and hit by no fault: the flag is set or
\* the host's turn is still to come.
Prompt ==
  /\ early \subseteq Done
  /\ early \ faulty \subseteq
       IF pc = "poll" THEN flags \cup {h \in Host : h >= index} ELSE flags

Accepted == pc = "proceed" => Accepts

IInv == Typed /\ FileTells /\ FlagsReady /\ Prompt /\ Accepted
=============================================================================
