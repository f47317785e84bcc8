------------------------------ MODULE Completion ------------------------------
(***************************************************************************)
(* What a wait for a job on many hosts promises: a host counts as ready    *)
(* only after its job is done there, and the wait ends well only when all  *)
(* of them are ready.                                                      *)
(***************************************************************************)
CONSTANT Host

VARIABLES
  done,    \* hosts on which the job is done
  ready,   \* hosts known to be ready
  verdict  \* "waiting", "ready" or "timeout"

vars == <<done, ready, verdict>>

Init == done \in SUBSET Host /\ ready = {} /\ verdict = "waiting"

Finish(h) ==
  /\ h \in Host \ done
  /\ done' = done \cup {h}
  /\ UNCHANGED <<ready, verdict>>

Notice(h) ==
  /\ verdict = "waiting"
  /\ h \in done \ ready
  /\ ready' = ready \cup {h}
  /\ UNCHANGED <<done, verdict>>

Conclude ==
  /\ verdict = "waiting"
  /\ verdict' \in (IF ready = Host THEN {"ready"} ELSE {"timeout"})
  /\ UNCHANGED <<done, ready>>

Next == Conclude \/ \E h \in Host : Finish(h) \/ Notice(h)

Spec == Init /\ [][Next]_vars
=============================================================================
