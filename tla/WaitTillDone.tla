----------------------------- MODULE WaitTillDone -----------------------------
(***************************************************************************)
(* wait_till_done of utils.py with its callers.  A job runs on every host  *)
(* and leaves a file; the operator's process polls for that file over ssh, *)
(* host after host, until all have it or the time is up.  Jobs, reboots    *)
(* and broken connections go on between two polls.                         *)
(*                                                                         *)
(* All callers pass config['ips'], a path, and the default commands, so    *)
(* that reading the last line and reading the first line of the last line  *)
(* are the same check.                                                     *)
(***************************************************************************)
EXTENDS Integers, FiniteSets

CONSTANTS
  NumHosts,   \* number of hosts
  Rounds,     \* total_time / delta
  Waits,      \* the waits to consider, a subset of Wait
  MaxFaults   \* bound: failed jobs, broken connections, failed attempts

\* boot     Node_Handler, for user_data_success.log
\* bootfab  the same for Fabric, whose script reboots after touching the file
\* reboot   Fabric's restart: reboot, wait for that file
\* couchdb  CouchDB's shutdown: the same, but only the first host reboots
\* install  LevelDB: install on the first host, wait on every host for the line
\*          Success in install.log
\* tessera  Quorum: wait for tm.ipc
Wait == {"boot", "bootfab", "reboot", "couchdb", "install", "tessera"}

ASSUME HostsAssumption == NumHosts \in Nat \ {0}
ASSUME RoundsAssumption == Rounds \in Nat \ {0}
ASSUME WaitsAssumption == Waits \subseteq Wait
ASSUME WaitFaultsAssumption == MaxFaults \in Nat

Host == 0..(NumHosts - 1)

VARIABLES
  wait,    \* the wait under way
  pc,      \* "sleep", "poll", "returned"; "proceed" or "error" of the caller
  round,   \* timer / delta
  index,   \* the host polled next
  flags,   \* status_flags, as the set of hosts with True
  job,     \* "busy", "down" (rebooting), "done", "failed" or "idle" (no job was
           \* started) on each host
  file,    \* what the path holds: "none", "other" or "success"
  link,    \* hosts whose ssh connection is alive
  hung,    \* hosts that let a request over ssh wait without an answer
  early,   \* history: hosts whose job was done when the round began
  faulty,  \* history: hosts that a fault hit
  budget   \* faults still to come

vars ==
  <<wait, pc, round, index, flags, job, file, link, hung, early, faulty, budget>>

Done == {h \in Host : job[h] = "done"}
Reboots(w) == w \in {"reboot", "bootfab", "couchdb"}
OnFirst(w) == w \in {"install", "couchdb"}
Booted(w) == w \in {"reboot", "couchdb"}

TypeOK ==
  /\ wait \in Waits
  /\ pc \in {"sleep", "poll", "returned", "proceed", "error"}
  /\ round \in 0..Rounds
  /\ index \in 0..NumHosts
  /\ flags \subseteq Host
  /\ job \in [Host -> {"busy", "down", "done", "failed", "idle"}]
  /\ file \in [Host -> {"none", "other", "success"}]
  /\ link \subseteq Host
  /\ hung \subseteq Host
  /\ early \subseteq Host
  /\ faulty \subseteq Host
  /\ budget \in 0..MaxFaults

\* A host that is told to reboot has booted before: its file is there.
Init ==
  /\ wait \in Waits
  /\ pc = "sleep"
  /\ round = 0
  /\ index = 0
  /\ flags = {}
  /\ job = [h \in Host |-> IF OnFirst(wait) /\ h # 0 THEN "idle" ELSE "busy"]
  /\ file = [h \in Host |-> IF Booted(wait) THEN "success" ELSE "none"]
  /\ link = Host
  /\ hung = {}
  /\ early = {}
  /\ faulty = {}
  /\ budget \in 0..MaxFaults

-----------------------------------------------------------------------------
(* The jobs                                                                *)

\* npm install appends to install.log while it works.
Write(h) ==
  /\ wait = "install"
  /\ job[h] = "busy"
  /\ file[h] = "none"
  /\ file' = [file EXCEPT ![h] = "other"]
  /\ UNCHANGED <<wait, pc, round, index, flags, job, link, hung, early, faulty, budget>>

\* The last command of the job writes the file.
Finish(h) ==
  /\ ~Reboots(wait)
  /\ job[h] = "busy"
  /\ job' = [job EXCEPT ![h] = "done"]
  /\ file' = [file EXCEPT ![h] = "success"]
  /\ UNCHANGED <<wait, pc, round, index, flags, link, hung, early, faulty, budget>>

\* bootstrap_fabric.sh touches the file, then reboots.
Touch(h) ==
  /\ wait = "bootfab"
  /\ job[h] = "busy"
  /\ file[h] = "none"
  /\ file' = [file EXCEPT ![h] = "success"]
  /\ UNCHANGED <<wait, pc, round, index, flags, job, link, hung, early, faulty, budget>>

GoDown(h) ==
  /\ Reboots(wait)
  /\ job[h] = "busy"
  /\ file[h] = "success"
  /\ job' = [job EXCEPT ![h] = "down"]
  /\ link' = link \ {h}
  /\ UNCHANGED <<wait, pc, round, index, flags, file, hung, early, faulty, budget>>

ComeUp(h) ==
  /\ job[h] = "down"
  /\ job' = [job EXCEPT ![h] = "done"]
  /\ UNCHANGED <<wait, pc, round, index, flags, file, link, hung, early, faulty, budget>>

Fault(h) ==
  /\ budget > 0
  /\ budget' = budget - 1
  /\ faulty' = faulty \cup {h}

\* The job dies: a failed install, a bootstrap script that ends early, a
\* reboot command that raised an exception, which is only logged.
Fail(h) ==
  /\ job[h] = "busy"
  /\ Fault(h)
  /\ job' = [job EXCEPT ![h] = "failed"]
  /\ UNCHANGED <<wait, pc, round, index, flags, file, link, hung, early>>

Break(h) ==
  /\ h \in link
  /\ Fault(h)
  /\ link' = link \ {h}
  /\ UNCHANGED <<wait, pc, round, index, flags, job, file, hung, early>>

\* A machine or its network stops answering, for a while or for good.
Hang(h) ==
  /\ h \notin hung
  /\ Fault(h)
  /\ hung' = hung \cup {h}
  /\ UNCHANGED <<wait, pc, round, index, flags, job, file, link, early>>

Recover(h) ==
  /\ h \in hung
  /\ hung' = hung \ {h}
  /\ UNCHANGED <<wait, pc, round, index, flags, job, file, link, early, faulty, budget>>

-----------------------------------------------------------------------------
(* The polling                                                             *)

OneRoundMore == round <= Rounds
TimeLeft == round < Rounds

TimerStands == round' = round
Tick == round' = round + 1

\* while (False in status_flags and timer < total_time)
Sleep ==
  /\ pc = "sleep"
  /\ flags # Host
  /\ TimeLeft
  /\ Tick
  /\ index' = 0
  /\ early' = Done
  /\ pc' = "poll"
  /\ UNCHANGED <<wait, flags, job, file, link, hung, faulty, budget>>

\* With a message (LevelDB's install) the last line must be it, without one
\* the file must be there.
ReadyAtSight(h) == file[h] # "none"
Ready(h) == IF wait = "install" THEN file[h] = "success" ELSE file[h] # "none"

\* enumerate(ips), to the end or, with this slip, to the first not ready
StopAtFirst == IF file[index] = "none" THEN index' = NumHosts ELSE index' = index + 1
Advance == index' = index + 1

EndRound == IF index' < NumHosts THEN UNCHANGED pc ELSE pc' = "sleep"

Mark(h, ok) == flags' = IF ok THEN flags \cup {h} ELSE flags

Skip ==
  /\ pc = "poll"
  /\ index \in flags
  /\ Advance
  /\ EndRound
  /\ UNCHANGED <<wait, round, flags, job, file, link, hung, early, faulty, budget>>

\* The connection is alive: sftp stat and tail.  No call has a time limit: a
\* host that does not answer keeps the loop waiting, and the timer, which adds
\* up the sleeps only, stands.
Poll ==
  /\ pc = "poll"
  /\ index \in link \ (flags \cup hung)
  /\ Mark(index, Ready(index))
  /\ Advance
  /\ EndRound
  /\ UNCHANGED <<wait, round, job, file, link, hung, early, faulty, budget>>

\* It is not: an SSHException, a new connection and the same check again.  A
\* host that is down refuses the connection, one that hangs leaves it pending.
Reconnect ==
  /\ pc = "poll"
  /\ index \in Host \ (link \cup flags \cup hung)
  /\ IF job[index] = "down"
     THEN UNCHANGED <<flags, link>>
     ELSE Mark(index, Ready(index)) /\ link' = link \cup {index}
  /\ Advance
  /\ EndRound
  /\ UNCHANGED <<wait, round, job, file, hung, early, faulty, budget>>

\* Any other exception, or one while reconnecting: not ready this time.
PollFails ==
  /\ pc = "poll"
  /\ index \in Host \ flags
  /\ Fault(index)
  /\ Advance
  /\ EndRound
  /\ UNCHANGED <<wait, round, flags, job, file, link, hung, early>>

Return ==
  /\ pc = "sleep"
  /\ flags = Host \/ ~TimeLeft
  /\ pc' = "returned"
  /\ UNCHANGED <<wait, round, index, flags, job, file, link, hung, early, faulty, budget>>

\* Node_Handler asks whether to shut down, the others raise an exception when a
\* flag is False; LevelDB goes on (its check is commented out).
AcceptsAny == TRUE
Accepts == wait = "install" \/ flags = Host
React ==
  /\ pc = "returned"
  /\ pc' = IF Accepts THEN "proceed" ELSE "error"
  /\ UNCHANGED <<wait, round, index, flags, job, file, link, hung, early, faulty, budget>>

Over == pc \in {"proceed", "error"} /\ UNCHANGED vars

Jobs == \E h \in Host : Write(h) \/ Finish(h) \/ Touch(h) \/ GoDown(h) \/ ComeUp(h)
Faults == \E h \in Host : Fail(h) \/ Break(h) \/ Hang(h) \/ Recover(h)
Loop == Sleep \/ Skip \/ Poll \/ Reconnect \/ Return \/ React

Next == Jobs \/ Faults \/ Loop \/ PollFails \/ Over

Spec == Init /\ [][Next]_vars

\* The operator's process goes on, unless a host keeps it waiting; jobs and
\* reboots of hosts come to an end.  Nobody promises that a host recovers.
FairSpec ==
  /\ Spec
  /\ WF_vars(Loop)
  /\ \A h \in Host : WF_vars(Finish(h)) /\ WF_vars(GoDown(h)) /\ WF_vars(ComeUp(h))

-----------------------------------------------------------------------------
(* Properties                                                              *)

\* The caller goes on only when the job is done on every host, LevelDB and the
\* waits across a reboot apart (utils.py:52, Node_Handler.py:437,
\* Quorum_Network.py:254).
ProceedsWhenDone ==
  pc = "proceed" /\ wait \in {"boot", "tessera"} => Done = Host

\* The log line "Waiting till all machines have rebooted" says that the restart
\* goes on only after every machine has (Fabric_Network.py:1502).
RebootsAwaited ==
  pc = "proceed" /\ wait = "reboot" => Done = Host

\* A host that no fault hit and whose job was done when the last round began
\* is reported as ready: nothing else on the way, such as an exception on
\* another host, makes the poll miss it (utils.py:54-119).
InTime ==
  pc \in {"returned", "proceed", "error"} => early \ faulty \subseteq flags

\* Polling, with reconnections and lost attempts, implements the abstract wait:
\* a flag is set only for a job that is done, and never taken back.
\* Where a reboot is awaited, the job is no more than the file.
Settled == IF Reboots(wait) THEN {h \in Host : file[h] = "success"} ELSE Done
Verdict ==
  IF pc \notin {"returned", "proceed", "error"} THEN "waiting"
  ELSE IF flags = Host THEN "ready" ELSE "timeout"
C == INSTANCE Completion WITH done <- Settled, ready <- flags, verdict <- Verdict
Detects == C!Spec

\* Whatever fails, the wait ends (utils.py:52, the time limit), with one
\* exception: it is for ever at a host that accepts a request and does not
\* answer it, since no call has a time limit (utils.py:59, 69 and 91).
Stuck == pc = "poll" /\ index \in hung \ flags
WaitEnds == <>(pc \in {"proceed", "error"}) \/ <>[]Stuck
=============================================================================
