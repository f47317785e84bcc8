---------------------------- MODULE NodeHandlerInv ----------------------------
(***************************************************************************)
(* The inductive invariant behind the safety properties of NodeHandler.    *)
(* Each part strengthens the properties with what the steps before them    *)
(* establish; NodeHandlerProofs proves that the parts are inductive.       *)
(***************************************************************************)
EXTENDS NodeHandler

\* Steps that read the two recorded entries of the run's own config.
WithRecord == {"tag", "dump", "write", "connect", "boot", "bootfailed",
               "refresh", "startup", "redump", "rewrite", "balancer"}
                \cup ShutdownSteps

\* Steps of the start run up to the recording of the instances.
BeforeRecord == {"check", "prepare", "launch", "place"}

\* A config that holds the two entries holds all requested instances, all of
\* them launched, each at its own position.
Placed(rec) ==
  /\ rec.ids = Requested
  /\ \A i \in Requested : SlotOf(i) \in DOMAIN rec.ips /\ rec.ips[SlotOf(i)] = i
  /\ \A n \in DOMAIN rec.ips :
       rec.ips[n] = NoHost \/ (rec.ips[n] \in Requested /\ SlotOf(rec.ips[n]) = n)
  /\ DOMAIN rec.ips = 0..(config.required - 1)

RecordInv ==
  /\ \A p \in Procs : pc[p] \in WithRecord => mem[p] # NoRecord
  /\ \A p \in Procs : mem[p] # NoRecord => Placed(mem[p])
  /\ Readable => Placed(disk)
  /\ (disk # NoRecord \/ \E p \in Procs : mem[p] # NoRecord) =>
       pc[Starter] \notin BeforeRecord

\* How far launching has come.
LaunchInv ==
  /\ pc[Starter] \in {"check", "prepare"} => Launched = {} /\ region[Starter] = 1
  /\ pc[Starter] = "check" => vmCount = config.vm
  /\ pc[Starter] = "prepare" => Cardinality(Requested) = config.vm
  /\ pc[Starter] = "launch" =>
       Launched = {i \in Requested : i[1] < region[Starter]}
  /\ pc[Starter] \in {"launch", "place"} =>
       Cardinality(Requested) = config.vm /\ vmCount = config.required
  /\ pc[Starter] = "place" => Launched = Requested
  /\ (disk # NoRecord \/ \E p \in Procs : mem[p] # NoRecord) =>
       Launched = Requested /\ Cardinality(Requested) = config.vm

\* How far placing has come: the positions written so far.
PlaceInv ==
  pc[Starter] = "place" =>
    /\ todo[Starter] \subseteq Requested
    /\ DOMAIN ips = 0..(vmCount - 1)
    /\ \A i \in Requested \ todo[Starter] :
         SlotOf(i) \in DOMAIN ips /\ ips[SlotOf(i)] = i
    /\ \A n \in DOMAIN ips :
         \/ ips[n] = NoHost
         \/ ips[n] \in Requested \ todo[Starter] /\ SlotOf(ips[n]) = n

\* The loops of a shutdown stay within the instances of its config.
LoopInv ==
  \A p \in Procs :
    /\ pc[p] \in {"lookup", "stop", "wait", "terminate"} =>
         handle[p] \subseteq mem[p].ids
    /\ pc[p] \in {"stop", "terminate"} => todo[p] \subseteq handle[p]
    /\ pc[p] = "wait" => todo[p] \subseteq mem[p].ids

\* The barrier between stopping and terminating.
BarrierInv ==
  \A p \in Procs :
    /\ pc[p] = "wait" =>
         \A i \in mem[p].ids \ todo[p] : cloud[i] \in {"stopped", "terminated"}
    /\ pc[p] = "terminate" =>
         \A i \in mem[p].ids : cloud[i] \in {"stopped", "terminated"} /\ i \in bill

\* Without overlap one run is alive at a time, and what a shutdown could not
\* find it cannot see stopped either.
ExclusiveInv ==
  ~config.overlap =>
    /\ \A p, q \in Procs : Alive(p) /\ Alive(q) => p = q
    /\ \A p \in Procs :
         /\ pc[p] = "attach" =>
              \A i \in mem[p].ids \ todo[p] : cloud[i] \in {"running", "terminated"}
         /\ pc[p] = "netdown" =>
              \A i \in mem[p].ids : cloud[i] \in {"running", "terminated"}
         /\ pc[p] \in {"lookup", "stop", "wait"} =>
              \A i \in mem[p].ids \ handle[p] : cloud[i] \in {"running", "terminated"}
         /\ pc[p] = "wait" =>
              \A i \in mem[p].ids \ todo[p] : i \in handle[p]
         /\ pc[p] = "terminate" =>
              \A i \in mem[p].ids : i \in todo[p] \/ cloud[i] = "terminated"
         /\ pc[p] = "shutdown" =>
              mem[p] # NoRecord /\ \A i \in mem[p].ids : cloud[i] = "terminated"

IInv ==
  /\ TypeOK /\ RecordInv /\ LaunchInv /\ PlaceInv /\ LoopInv /\ BarrierInv
  /\ ExclusiveInv

\* Where config.json is whole.
WrittenInv == pc[Starter] \in Written => Readable

\* Once a run has recorded its instances, vm_count is what the framework's
\* check_config made of it.
VmCountInv ==
  (disk # NoRecord \/ \E p \in Procs : mem[p] # NoRecord) => vmCount = config.required
=============================================================================
