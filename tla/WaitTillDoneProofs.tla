-------------------------- MODULE WaitTillDoneProofs --------------------------
(***************************************************************************)
(* Proofs about WaitTillDone, for any number of hosts and rounds, any      *)
(* choice of waits and any number of faults.                               *)
(***************************************************************************)
EXTENDS WaitTillDoneInv, TLAPS

LEMMA Hosts ==
  /\ Host \subseteq Nat
  /\ \A h \in Host : h >= 0
  /\ 0 \in Host
  /\ NumHosts \notin Host
BY HostsAssumption DEF Host

LEMMA Initially == Init => IInv
<1> SUFFICES ASSUME Init PROVE IInv
  OBVIOUS
<1> USE DEF Init
<1>1. Typed
  BY Hosts, HostsAssumption, RoundsAssumption, WaitFaultsAssumption DEF Typed, TypeOK
<1>2. FileTells
  BY WaitsAssumption DEF FileTells, Reboots, OnFirst, Booted, Wait
<1>3. FlagsReady /\ Prompt /\ Accepted
  BY DEF FlagsReady, Prompt, Accepted, Done
<1> QED
  BY <1>1, <1>2, <1>3 DEF IInv

\* A step of a job or a fault of a host leaves the poll where it is.
LEMMA JobKeeps ==
  ASSUME IInv, Jobs \/ Faults
  PROVE  IInv'
<1>1. PICK h \in Host : \/ Write(h) \/ Finish(h) \/ Touch(h) \/ GoDown(h)
                        \/ ComeUp(h) \/ Fail(h) \/ Break(h) \/ Hang(h) \/ Recover(h)
  BY DEF Jobs, Faults
<1>2. UNCHANGED <<wait, pc, round, index, flags, early>>
  BY <1>1 DEF Write, Finish, Touch, GoDown, ComeUp, Fail, Break, Hang, Recover
<1>3. /\ job' \in [Host -> {"busy", "down", "done", "failed", "idle"}]
      /\ file' \in [Host -> {"none", "other", "success"}]
      /\ link' \subseteq Host /\ hung' \subseteq Host
  BY <1>1 DEF IInv, Typed, TypeOK, Write, Finish, Touch, GoDown, ComeUp, Fail, Break, Hang, Recover, Fault
<1>4. faulty' \subseteq Host /\ faulty \subseteq faulty' /\ budget' \in 0..MaxFaults
  BY <1>1, WaitFaultsAssumption
  DEF IInv, Typed, TypeOK, Write, Finish, Touch, GoDown, ComeUp, Fail, Break, Hang, Recover, Fault
<1>5. Typed'
  BY <1>2, <1>3, <1>4 DEF IInv, Typed, TypeOK
<1>6. FileTells'
  BY <1>1, <1>2, <1>3
  DEF IInv, Typed, TypeOK, FileTells, Reboots, Write, Finish, Touch, GoDown, ComeUp,
      Fail, Break, Hang, Recover
<1>7. \A g \in Host : /\ file[g] = "success" => file'[g] = "success"
                      /\ job[g] = "done" => job'[g] = "done"
  BY <1>1 DEF IInv, Typed, TypeOK, Write, Finish, Touch, GoDown, ComeUp, Fail, Break, Hang, Recover
<1>8. FlagsReady'
  BY <1>2, <1>7 DEF IInv, FlagsReady
<1>9. early' \subseteq Done'
  BY <1>2, <1>7 DEF IInv, Prompt, Done
<1>10. early' \ faulty' \subseteq early \ faulty
  BY <1>2, <1>4
<1>11. Prompt'
  BY <1>2, <1>9, <1>10 DEF IInv, Prompt
<1>12. Accepted'
  BY <1>2 DEF IInv, Accepted, Accepts
<1> QED
  BY <1>5, <1>6, <1>8, <1>11, <1>12 DEF IInv

\* The file that a poll takes for a sign of success is one.
LEMMA ReadyMeansSuccess ==
  ASSUME IInv, NEW h \in Host
  PROVE  /\ Ready(h) <=> file[h] = "success"
         /\ job[h] = "done" => Ready(h)
BY DEF IInv, Typed, TypeOK, FileTells, Ready

\* What a visit of the poll to a host may do: set its flag if the file is
\* right, count a fault, go on to the next host.
LEMMA VisitKeeps ==
  ASSUME IInv, pc = "poll", Advance, EndRound,
         UNCHANGED <<wait, round, job, file, hung, early>>,
         link' \subseteq Host, budget' \in 0..MaxFaults,
         faulty' \in {faulty, faulty \cup {index}},
         flags' \in {flags, flags \cup {index}},
         index \in flags' => index \in flags \/ Ready(index),
         index \in early => index \in flags' \cup faulty'
  PROVE  IInv'
<1>1. index \in Host /\ index' = index + 1
  BY DEF IInv, Typed, Advance
<1>2. pc' = IF index' \in Host THEN "poll" ELSE "sleep"
  BY <1>1, HostsAssumption DEF EndRound, Host
<1>3. Typed'
  BY <1>1, <1>2, HostsAssumption DEF IInv, Typed, TypeOK, Host
<1>4. FileTells'
  BY DEF IInv, FileTells, Reboots
<1>5. FlagsReady'
  BY <1>1, ReadyMeansSuccess DEF IInv, FlagsReady
<1>6. early' \subseteq Done'
  BY DEF IInv, Prompt, Done
<1>7. ASSUME NEW h \in early \ faulty'
      PROVE  h \in flags' \/ (h \in Host /\ h >= index')
  <2>1. h \in flags \/ (h \in Host /\ h >= index)
    BY <1>7 DEF IInv, Prompt
  <2>2. CASE h \in flags
    BY <2>2
  <2>3. CASE h \in Host /\ h >= index /\ h # index
    BY <1>1, <2>3, Hosts
  <2>4. CASE h = index
    BY <1>7, <2>4
  <2> QED
    BY <2>1, <2>2, <2>3, <2>4
<1>8. pc' # "poll" => \A h \in Host : ~(h >= index')
  BY <1>1, <1>2, HostsAssumption DEF Host
<1>9. Prompt'
  BY <1>6, <1>7, <1>8 DEF Prompt
<1>10. Accepted'
  BY <1>2 DEF Accepted
<1> QED
  BY <1>3, <1>4, <1>5, <1>9, <1>10 DEF IInv

LEMMA PollingKeeps ==
  ASSUME IInv, Skip \/ Poll \/ Reconnect \/ PollFails
  PROVE  IInv'
<1>1. index \in Host /\ pc = "poll" /\ flags \subseteq Host /\ link \subseteq Host
  BY DEF IInv, Typed, TypeOK, Skip, Poll, Reconnect, PollFails
<1>2. index \in early => job[index] = "done"
  BY DEF IInv, Prompt, Done
<1>3. budget \in 0..MaxFaults
  BY DEF IInv, Typed, TypeOK
<1>4. CASE Skip
  BY <1>1, <1>3, <1>4, VisitKeeps DEF Skip
<1>5. CASE Poll
  BY <1>1, <1>2, <1>3, <1>5, VisitKeeps, ReadyMeansSuccess DEF Poll, Mark
<1>6. CASE Reconnect
  <2>1. CASE job[index] = "down"
    BY <1>1, <1>2, <1>3, <1>6, <2>1, VisitKeeps DEF Reconnect
  <2>2. CASE job[index] # "down"
    BY <1>1, <1>2, <1>3, <1>6, <2>2, VisitKeeps, ReadyMeansSuccess DEF Reconnect, Mark
  <2> QED
    BY <2>1, <2>2
<1>7. CASE PollFails
  <2>1. budget' \in 0..MaxFaults
    BY <1>3, <1>7, WaitFaultsAssumption DEF PollFails, Fault
  <2> QED
    BY <1>1, <1>7, <2>1, VisitKeeps DEF PollFails, Fault
<1> QED
  BY <1>4, <1>5, <1>6, <1>7

\* Beginning a round, and ending the wait.
LEMMA RoundKeeps ==
  ASSUME IInv, Sleep \/ Return \/ React
  PROVE  IInv'
<1>1. UNCHANGED <<wait, flags, job, file, link, hung, faulty, budget>> /\ pc # "poll"
  BY DEF Sleep, Return, React
<1>2. Typed'
  <2>1. round' \in 0..Rounds /\ index' \in 0..NumHosts
    BY RoundsAssumption, HostsAssumption
    DEF IInv, Typed, TypeOK, Sleep, TimeLeft, Tick, Return, React
  <2>2. early' \subseteq Host /\ (pc' = "poll" => index' = 0)
    BY DEF IInv, Typed, TypeOK, Sleep, Return, React, Done
  <2>3. pc' \in {"sleep", "poll", "returned", "proceed", "error"}
    BY DEF Sleep, Return, React
  <2> QED
    BY <1>1, <2>1, <2>2, <2>3, Hosts DEF IInv, Typed, TypeOK
<1>3. FileTells' /\ FlagsReady'
  BY <1>1 DEF IInv, FileTells, FlagsReady, Reboots
<1>4. Prompt'
  <2>1. CASE Sleep
    <3>1. early' = Done /\ index' = 0 /\ pc' = "poll" /\ Done' = Done /\ Done \subseteq Host
      BY <1>1, <2>1 DEF Sleep, Done
    <3> QED
      BY <3>1, Hosts DEF Prompt
  <2>2. CASE Return \/ React
    BY <1>1, <2>2 DEF IInv, Prompt, Return, React, Done
  <2> QED
    BY <2>1, <2>2
<1>5. Accepted'
  BY <1>1 DEF Accepted, Accepts, Sleep, Return, React
<1> QED
  BY <1>2, <1>3, <1>4, <1>5 DEF IInv

LEMMA Unchanged == IInv /\ UNCHANGED vars => IInv'
BY DEF vars, IInv, Typed, TypeOK, FileTells, FlagsReady, Prompt, Accepted, Accepts,
       Reboots, Done

\* The strengthened invariant is inductive.
THEOREM Invariance == Spec => []IInv
<1>1. IInv /\ [Next]_vars => IInv'
  BY JobKeeps, PollingKeeps, RoundKeeps, Unchanged DEF Next, Loop, Over
<1> QED
  BY Initially, <1>1, PTL DEF Spec

-----------------------------------------------------------------------------

\* Every reachable state has the declared types (WaitTillDone, TypeOK).
THEOREM TypeCorrect == Spec => []TypeOK
<1>1. IInv => TypeOK
  BY DEF IInv, Typed
<1> QED
  BY <1>1, Invariance, PTL

\* The caller of wait_till_done goes on only when the job is done on every
\* host, LevelDB and the waits across a reboot apart (utils.py:52).
THEOREM ProceedingIsSafe == Spec => []ProceedsWhenDone
<1>1. IInv => ProceedsWhenDone
  BY DEF IInv, Accepted, Accepts, FlagsReady, FileTells, Reboots, ProceedsWhenDone, Done
<1> QED
  BY <1>1, Invariance, PTL

\* No exception on one host makes the poll miss another one that was ready when
\* the last round began (utils.py:54-119).
THEOREM PollingIsPrompt == Spec => []InTime
<1>1. IInv => InTime
  BY DEF IInv, Prompt, InTime
<1> QED
  BY <1>1, Invariance, PTL

-----------------------------------------------------------------------------
(* The refinement of Completion                                            *)

LEMMA AbstractInit == IInv /\ Init => C!Init
BY DEF Init, C!Init, Settled, Verdict, Done

\* The jobs that count are those on hosts whose file says success.
LEMMA SettledIsSuccess ==
  ASSUME FileTells
  PROVE  Settled = {h \in Host : file[h] = "success"}
BY DEF FileTells, Settled, Done

\* A step of a job is the end of one, or nothing that the wait can see.
LEMMA AbstractJob ==
  ASSUME IInv, IInv', Jobs \/ Faults
  PROVE  [C!Next]_C!vars
<1>1. PICK h \in Host : \/ Write(h) \/ Finish(h) \/ Touch(h) \/ GoDown(h)
                        \/ ComeUp(h) \/ Fail(h) \/ Break(h) \/ Hang(h) \/ Recover(h)
  BY DEF Jobs, Faults
<1>2. UNCHANGED <<wait, pc, flags>>
  BY <1>1 DEF Write, Finish, Touch, GoDown, ComeUp, Fail, Break, Hang, Recover
<1>3. UNCHANGED Verdict
  BY <1>2 DEF Verdict
<1>4. /\ Settled = {g \in Host : file[g] = "success"}
      /\ Settled' = {g \in Host : file'[g] = "success"}
  BY DEF IInv, FileTells, Settled, Done
<1>5. CASE Finish(h) \/ Touch(h)
  <2>1. file' = [file EXCEPT ![h] = "success"] /\ file[h] # "success"
    BY <1>5 DEF IInv, FileTells, Finish, Touch
  <2>2. h \in Host \ Settled /\ Settled' = Settled \cup {h}
    BY <1>4, <2>1 DEF IInv, Typed, TypeOK
  <2> QED
    BY <1>2, <1>3, <2>2 DEF C!Next, C!Finish
<1>6. CASE Write(h) \/ GoDown(h) \/ ComeUp(h) \/ Fail(h) \/ Break(h) \/ Hang(h) \/ Recover(h)
  <2>1. \A g \in Host : file[g] = "success" <=> file'[g] = "success"
    BY <1>6 DEF IInv, Typed, TypeOK, Write, GoDown, ComeUp, Fail, Break, Hang, Recover
  <2> QED
    BY <1>2, <1>3, <1>4, <2>1 DEF C!vars
<1> QED
  BY <1>1, <1>5, <1>6

\* A visit notices that a job is done, or nothing.
LEMMA AbstractPolling ==
  ASSUME IInv, IInv', Skip \/ Poll \/ Reconnect \/ PollFails
  PROVE  [C!Next]_C!vars
<1>1. pc = "poll" /\ index \in Host
  BY DEF IInv, Typed, Skip, Poll, Reconnect, PollFails
<1>2. pc' \in {"poll", "sleep"} /\ UNCHANGED <<wait, job, file>>
  BY <1>1 DEF Skip, Poll, Reconnect, PollFails, EndRound
<1>3. flags' = flags \/ (flags' = flags \cup {index} /\ index \notin flags /\ Ready(index))
  BY DEF Skip, Poll, Reconnect, PollFails, Mark
<1>4. UNCHANGED Settled /\ Verdict = "waiting" /\ Verdict' = "waiting"
  BY <1>1, <1>2 DEF Settled, Verdict, Done, Reboots
<1>5. Ready(index) => index \in Settled
  BY <1>1, ReadyMeansSuccess, SettledIsSuccess DEF IInv
<1> QED
  BY <1>1, <1>3, <1>4, <1>5 DEF C!Next, C!Notice, C!vars

LEMMA AbstractRound ==
  ASSUME IInv, Sleep \/ Return \/ React
  PROVE  [C!Next]_C!vars
<1>1. UNCHANGED <<wait, flags, job, file>>
  BY DEF Sleep, Return, React
<1>2. UNCHANGED Settled
  BY <1>1 DEF Settled, Done, Reboots
<1>3. CASE Sleep \/ React
  BY <1>1, <1>2, <1>3 DEF Sleep, React, Verdict, C!vars
<1>4. CASE Return
  BY <1>1, <1>2, <1>4 DEF Return, Verdict, C!Next, C!Conclude
<1> QED
  BY <1>3, <1>4

\* Polling with reconnections and lost attempts implements the abstract wait:
\* a flag is set only for a job that is done, and never taken back.
THEOREM ImplementsCompletion == Spec => Detects
<1>1. IInv /\ IInv' /\ [Next]_vars => [C!Next]_C!vars
  <2> SUFFICES ASSUME IInv, IInv', [Next]_vars PROVE [C!Next]_C!vars
    OBVIOUS
  <2>1. CASE UNCHANGED vars
    BY <2>1 DEF vars, C!vars, Settled, Verdict, Done, Reboots
  <2> QED
    BY <2>1, AbstractJob, AbstractPolling, AbstractRound DEF Next, Loop, Over
<1>2. Init => C!Init
  BY AbstractInit, Initially
<1> QED
  BY <1>1, <1>2, Invariance, PTL DEF Detects, C!Spec, Spec
=============================================================================
