--------------------------------- MODULE Flood ---------------------------------
(***************************************************************************)
(* What a broadcast from machine to machine promises: the content starts   *)
(* on the root, every other machine is given one machine to get it from,   *)
(* once and for all, such that these form a tree, and gets it only from    *)
(* that one, and only while that one has it whole.                         *)
(***************************************************************************)
CONSTANTS Machine, Root

VARIABLES
  holders,  \* the machines that have the whole content
  source    \* the machine that one gets it from; itself when none is given yet

Init ==
  /\ holders = {}
  /\ source = [m \in Machine |-> m]

\* The content is put on the root.
Plant == holders = {} /\ holders' = {Root} /\ UNCHANGED source

\* s is in the tree, t enters it.
Assign(s, t) ==
  /\ s = Root \/ source[s] # s
  /\ t # Root /\ t # s /\ source[t] = t
  /\ source' = [source EXCEPT ![t] = s]
  /\ UNCHANGED holders

Hand(t) ==
  /\ t \notin holders
  /\ source[t] \in holders
  /\ holders' = holders \cup {t}
  /\ UNCHANGED source

Next == Plant \/ \E t \in Machine : Hand(t) \/ \E s \in Machine : Assign(s, t)

Spec == Init /\ [][Next]_<<holders, source>>
=============================================================================
