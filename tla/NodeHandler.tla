----------------------------- MODULE NodeHandler -----------------------------
(***************************************************************************)
(* The life of one experiment on AWS: `run.py start` (Node_Handler's       *)
(* run_general_startup) launches instances region by region, places their  *)
(* addresses into config['ips'], writes config.json, waits for the boot    *)
(* and starts the network; `run.py terminate` (run_general_shutdown) reads *)
(* config.json, stops the instances, bills them and terminates them.  The  *)
(* start run calls the same shutdown itself when the operator asks for it. *)
(*                                                                         *)
(* Every run of run.py is a process with its own memory (its `config` and  *)
(* handler object).  The runs share the cloud and the file config.json.    *)
(* AWS is external: an instance is pending, running, stopping, stopped or  *)
(* terminated.  Exceptions raised by the environment, interrupts, kills,   *)
(* swallowed lookups, boot time-outs and spot interruptions each use one   *)
(* unit of `budget`.                                                       *)
(***************************************************************************)
EXTENDS Integers, FiniteSets

CONSTANTS
  NumRegions,    \* number of regions in config['aws_region'], in dict order
  MaxCount,      \* bound: instances asked for in one region
  Distributions, \* values of config['aws_region']: functions Region -> count
  VmCounts,      \* values of config['vm_count'], as written or as reassigned
  Starter,       \* the `run.py start` process
  Terminators,   \* the `run.py terminate` processes
  MaxFaults,     \* bound: environment failures in one behaviour
  NoRecord,      \* no 'ips' / 'instance_ids' in a config, or no config.json
  Torn,          \* a config.json that is truncated, or written in part
  NoHost         \* the integer 0 left in a hole of config['ips']

Region == 1..NumRegions
Instance == Region \X (1..MaxCount)
Procs == Terminators \cup {Starter}
Status == {"none", "pending", "running", "stopping", "stopped", "terminated"}

ASSUME RegionsAssumption == NumRegions \in Nat \ {0} /\ MaxCount \in Nat \ {0}
ASSUME InputsAssumption ==
  /\ Distributions \subseteq [Region -> 1..MaxCount]
  /\ VmCounts \subseteq Nat \ {0}
ASSUME ProcsAssumption == Starter \notin Terminators
ASSUME FaultsAssumption == MaxFaults \in Nat
ASSUME NoHostAssumption == NoHost \notin Instance
ASSUME NoRecordAssumption ==
  /\ NoRecord # Torn
  /\ \A ids \in SUBSET Instance, timed \in BOOLEAN,
        ips \in UNION {[0..(n - 1) -> Instance \cup {NoHost}] : n \in VmCounts} :
       {NoRecord, Torn} \cap {[ids |-> ids, ips |-> ips, timed |-> timed]} = {}

VARIABLES
  config,   \* the input: distribution, vm_count, framework's vm_count, options
  vmCount,  \* config['vm_count'] of the start run
  cloud,    \* external: status of every instance
  pc,       \* where each run is
  guarded,  \* is the run inside the try of run.py (lines 109-115)?
  mem,      \* config['ips'], config['instance_ids'] and whether there are
            \* config['launch_times'], in the run's memory
  disk,     \* the same entries in config.json
  ips,      \* the local array `ips` of run_general_startup
  todo,     \* what is left of the loop the run is in
  region,   \* the region a region-by-region loop has reached
  handle,   \* self.ec2_instances of a shutdown
  bill,     \* instances whose uptime is in aws_costs.json
  budget    \* environment failures still to come

vars == <<config, vmCount, cloud, pc, guarded, mem, disk, ips, todo, region,
          handle, bill, budget>>

StartSteps == {"check", "prepare", "launch", "place", "tag", "dump", "write",
               "connect", "boot", "refresh", "startup", "redump", "rewrite",
               "balancer"}
ShutdownSteps == {"attach", "netdown", "lookup", "stop", "wait", "terminate"}
Ended == {"ready", "left", "exited", "killed", "shutdown"}
Label == StartSteps \cup ShutdownSteps \cup Ended \cup {"idle", "asked", "bootfailed"}

Requested == {i \in Instance : i[2] <= config.count[i[1]]}
Launched == {i \in Instance : cloud[i] # "none"}

Config == [count : Distributions, vm : VmCounts, required : VmCounts,
           balancer : BOOLEAN, overlap : BOOLEAN]
IpArray == UNION {[0..(n - 1) -> Instance \cup {NoHost}] : n \in VmCounts}
Record == [ids : SUBSET Instance, ips : IpArray, timed : BOOLEAN]

HostsOf(rec) == {rec.ips[n] : n \in DOMAIN rec.ips}

\* The hosts that answer to ssh.
Reachable == {i \in Instance : cloud[i] = "running"}

\* Loops over self.ec2_instances go region by region, in launch order.
Earliest(i, S) ==
  /\ i \in S
  /\ \A j \in S : i[1] < j[1] \/ (i[1] = j[1] /\ i[2] <= j[2])

\* pos = index1 + index2 * len(regions), both indices counted from 0.  (The
\* operator before it, as before others below, is the same code with a
\* plausible slip in it, used to see that a property notices.)
SlotsAdjacent(i) == (i[1] - 1) + (i[2] - 1)
SlotOf(i) == (i[1] - 1) + (i[2] - 1) * NumRegions

TypeOK ==
  /\ config \in Config
  /\ vmCount \in VmCounts
  /\ cloud \in [Instance -> Status]
  /\ pc \in [Procs -> Label]
  /\ guarded \in [Procs -> BOOLEAN]
  /\ mem \in [Procs -> Record \cup {NoRecord}]
  /\ disk \in Record \cup {NoRecord, Torn}
  /\ ips \in IpArray
  /\ todo \in [Procs -> SUBSET (Instance \cup {NoHost})]
  /\ region \in [Procs -> Region]
  /\ handle \in [Procs -> SUBSET Instance]
  /\ bill \in SUBSET Instance
  /\ budget \in 0..MaxFaults

Init ==
  /\ config \in Config
  /\ vmCount = config.vm
  /\ cloud = [i \in Instance |-> "none"]
  /\ pc = [p \in Procs |-> IF p = Starter THEN "check" ELSE "idle"]
  /\ guarded = [p \in Procs |-> p = Starter]
  /\ mem = [p \in Procs |-> NoRecord]
  /\ disk = NoRecord
  /\ ips = [n \in 0..(config.vm - 1) |-> NoHost]
  /\ todo = [p \in Procs |-> {}]
  /\ region = [p \in Procs |-> 1]
  /\ handle = [p \in Procs |-> {}]
  /\ bill = {}
  /\ budget \in 0..MaxFaults

-----------------------------------------------------------------------------
(* Control flow shared by the steps below.                                 *)

Goto(p, label) == pc' = [pc EXCEPT ![p] = label]

\* An exception: run.py's handler asks the operator when it is around the
\* call; anywhere else it ends the process.
Raise(p) == Goto(p, IF guarded[p] THEN "asked" ELSE "exited")

Loop(p, S) == todo' = [todo EXCEPT ![p] = S]
LoopDone(p, i) == todo' = [todo EXCEPT ![p] = @ \ {i}]
SetCloud(i, s) == cloud' = [cloud EXCEPT ![i] = s]

NeverFirstRegion(r) == r + 1
NextRegion(r) == IF r = NumRegions THEN 1 ELSE r + 1

OfRegion(S, r) == {i \in S : i[1] = r}

\* run_general_shutdown starts with create_ssh_scp_clients over the config's
\* 'ips' entry: a KeyError when the config has none.
BeginShutdown(p, rec) ==
  IF rec = NoRecord
  THEN Raise(p) /\ UNCHANGED todo
  ELSE Goto(p, "attach") /\ Loop(p, HostsOf(rec))

-----------------------------------------------------------------------------
(* run_general_startup                                                     *)

\* The total of the regions' counts must be vm_count.
CheckRegions ==
  /\ pc[Starter] = "check"
  /\ IF Cardinality(Requested) # vmCount
     THEN Raise(Starter)
     ELSE Goto(Starter, "prepare")
  /\ UNCHANGED <<config, vmCount, cloud, guarded, mem, disk, ips, todo, region,
                 handle, bill, budget>>

\* The framework's check_config, which for Fabric overwrites vm_count, and
\* get_image_ids.
PrepareLaunch ==
  /\ pc[Starter] = "prepare"
  /\ vmCount' = config.required
  /\ Goto(Starter, "launch")
  /\ UNCHANGED <<config, cloud, guarded, mem, disk, ips, todo, region, handle,
                 bill, budget>>

\* A region's counts are the ones of aws_region, whatever vm_count became.
LaunchFromRegions(r) ==
  cloud' = [i \in Instance |->
              IF i[1] = r /\ i \in Requested THEN "pending" ELSE cloud[i]]

\* create_instances for one region: MinCount = MaxCount, all or none.  After
\* the last region the arrays are allocated with vm_count entries of 0.
LaunchRegion ==
  LET r == region[Starter]
      last == r = NumRegions IN
  /\ pc[Starter] = "launch"
  /\ LaunchFromRegions(r)
  /\ region' = [region EXCEPT ![Starter] = NextRegion(r)]
  /\ IF last
     THEN /\ Goto(Starter, "place")
          /\ Loop(Starter, Requested)
          /\ ips' = [n \in 0..(vmCount - 1) |-> NoHost]
     ELSE UNCHANGED <<pc, todo, ips>>
  /\ UNCHANGED <<config, vmCount, guarded, mem, disk, handle, bill, budget>>

\* wait_until_running for the next instance, then ips[pos] = its address: an
\* IndexError when pos is past the array.
PlaceInstance(i) ==
  /\ pc[Starter] = "place"
  /\ Earliest(i, todo[Starter])
  /\ cloud[i] \in {"running", "terminated"}
  /\ IF cloud[i] = "running" /\ SlotOf(i) < vmCount
     THEN /\ ips' = [ips EXCEPT ![SlotOf(i)] = i]
          /\ LoopDone(Starter, i)
          /\ UNCHANGED pc
     ELSE Raise(Starter) /\ UNCHANGED <<ips, todo>>
  /\ UNCHANGED <<config, vmCount, cloud, guarded, mem, disk, region, handle,
                 bill, budget>>

\* instance_ids collects the ids of every region.
LastRegionIds == OfRegion(Requested, NumRegions)
RecordedIds == Requested

\* config['ips'] and config['instance_ids'] are set, in memory only.
RecordInstances ==
  /\ pc[Starter] = "place"
  /\ todo[Starter] = {}
  /\ mem' = [mem EXCEPT ![Starter] =
                [ids |-> RecordedIds, ips |-> ips, timed |-> FALSE]]
  /\ Goto(Starter, "tag")
  /\ UNCHANGED <<config, vmCount, cloud, guarded, disk, ips, todo, region,
                 handle, bill, budget>>

\* create_tags, and config['launch_times'], which the bill needs.
TagInstances ==
  /\ pc[Starter] = "tag"
  /\ mem' = [mem EXCEPT ![Starter] =
                [ids |-> mem[Starter].ids, ips |-> mem[Starter].ips, timed |-> TRUE]]
  /\ Goto(Starter, "dump")
  /\ UNCHANGED <<config, vmCount, cloud, guarded, disk, ips, todo, region,
                 handle, bill, budget>>

\* open(..., 'w') truncates config.json, json.dump fills it: the first time
\* when the instances are recorded, the second time after startup_network.
OpenConfig ==
  /\ pc[Starter] \in {"dump", "redump"}
  /\ disk' = Torn
  /\ Goto(Starter, IF pc[Starter] = "dump" THEN "write" ELSE "rewrite")
  /\ UNCHANGED <<config, vmCount, cloud, guarded, mem, ips, todo, region,
                 handle, bill, budget>>

\* After the first time, one client per host.
DumpConfig ==
  /\ pc[Starter] = "write"
  /\ disk' = mem[Starter]
  /\ Goto(Starter, "connect")
  /\ Loop(Starter, HostsOf(mem[Starter]))
  /\ UNCHANGED <<config, vmCount, cloud, guarded, mem, ips, region, handle,
                 bill, budget>>

\* create_ssh_scp_clients retries a host forever until it answers; a hole in
\* `ips` is a host that never does.
Connect(p, h) ==
  /\ pc[p] \in {"connect", "refresh", "attach"}
  /\ h \in todo[p] \cap Reachable
  /\ LoopDone(p, h)
  /\ UNCHANGED <<config, vmCount, cloud, pc, guarded, mem, disk, ips, region,
                 handle, bill, budget>>

\* The retry: a host does not answer, so the loop goes round.
RetryConnect(p) ==
  /\ pc[p] \in {"connect", "refresh", "attach"}
  /\ todo[p] \ Reachable # {}
  /\ UNCHANGED vars

AfterConnect ==
  [connect |-> "boot", refresh |-> "startup", attach |-> "netdown"]

Connected(p) ==
  /\ pc[p] \in {"connect", "refresh", "attach"}
  /\ todo[p] = {}
  /\ Goto(p, AfterConnect[pc[p]])
  /\ UNCHANGED <<config, vmCount, cloud, guarded, mem, disk, ips, todo, region,
                 handle, bill, budget>>

\* wait_till_done saw user_data_success.log everywhere: refresh the clients.
BootDone ==
  /\ pc[Starter] = "boot"
  /\ Goto(Starter, "refresh")
  /\ Loop(Starter, HostsOf(mem[Starter]))
  /\ UNCHANGED <<config, vmCount, cloud, guarded, mem, disk, ips, region,
                 handle, bill, budget>>

\* wait_till_done gave up: a host is gone, or its bootstrap failed.
BootTimedOut ==
  /\ pc[Starter] = "boot"
  /\ Goto(Starter, "bootfailed")
  /\ \/ /\ HostsOf(mem[Starter]) \ Reachable # {}
        /\ UNCHANGED budget
     \/ /\ budget > 0
        /\ budget' = budget - 1
  /\ UNCHANGED <<config, vmCount, cloud, guarded, mem, disk, ips, todo, region,
                 handle, bill>>

\* "Do you want to shut down the VMs?", still inside the try of run.py.
AnswerBootFailed(yes) ==
  /\ pc[Starter] = "bootfailed"
  /\ IF yes
     THEN BeginShutdown(Starter, mem[Starter])
     ELSE Goto(Starter, "left") /\ UNCHANGED todo
  /\ UNCHANGED <<config, vmCount, cloud, guarded, mem, disk, ips, region,
                 handle, bill, budget>>

\* startup_network; its failure is the exception "Network startup failed".
StartupNetwork ==
  /\ pc[Starter] = "startup"
  /\ Goto(Starter, "redump")
  /\ UNCHANGED <<config, vmCount, cloud, guarded, mem, disk, ips, todo, region,
                 handle, bill, budget>>

RedumpConfig ==
  /\ pc[Starter] = "rewrite"
  /\ disk' = mem[Starter]
  /\ Goto(Starter, "balancer")
  /\ UNCHANGED <<config, vmCount, cloud, guarded, mem, ips, todo, region,
                 handle, bill, budget>>

\* With add_loadbalancer the name LBHandler is undefined: a NameError.
FinishStartup ==
  /\ pc[Starter] = "balancer"
  /\ IF config.balancer THEN Raise(Starter) ELSE Goto(Starter, "ready")
  /\ UNCHANGED <<config, vmCount, cloud, guarded, mem, disk, ips, todo, region,
                 handle, bill, budget>>

\* run.py's handler: "Do you want to shut down the whole network?"
AnswerAbort(yes) ==
  /\ pc[Starter] = "asked"
  /\ guarded' = [guarded EXCEPT ![Starter] = FALSE]
  /\ IF yes /\ mem[Starter] # NoRecord
     THEN Goto(Starter, "attach") /\ Loop(Starter, HostsOf(mem[Starter]))
     ELSE Goto(Starter, "exited") /\ UNCHANGED todo
  /\ UNCHANGED <<config, vmCount, cloud, mem, disk, ips, region, handle, bill,
                 budget>>

-----------------------------------------------------------------------------
(* run.py terminate and run_general_shutdown                               *)

Alive(p) == pc[p] \notin Ended \cup {"idle"}

\* `run.py terminate --config <exp_dir>/config.json`.  Unless the operator
\* overlaps runs, it is started when no other run is alive.  A file that is not
\* whole is no JSON: load_config logs that and returns None, and the run ends.
StartTerminate(t) ==
  /\ pc[t] = "idle"
  /\ disk # NoRecord
  /\ config.overlap \/ \A p \in Procs : ~Alive(p)
  /\ mem' = [mem EXCEPT ![t] = IF disk = Torn THEN NoRecord ELSE disk]
  /\ BeginShutdown(t, mem'[t])
  /\ UNCHANGED <<config, vmCount, cloud, guarded, disk, ips, region, handle,
                 bill, budget>>

\* The framework's shutdown and the logs, whose failures are swallowed.
ShutdownNetwork(p) ==
  /\ pc[p] = "netdown"
  /\ Goto(p, "lookup")
  /\ region' = [region EXCEPT ![p] = 1]
  /\ handle' = [handle EXCEPT ![p] = {}]
  /\ UNCHANGED <<config, vmCount, cloud, guarded, mem, disk, ips, todo, bill,
                 budget>>

\* self.ec2_instances[region] is the region's recorded instances, or [] when
\* the query raises (AWS fails, or has already forgotten a terminated id).
LookupRegion(p) ==
  LET r == region[p]
      mine == OfRegion(mem[p].ids, r)
      last == r = NumRegions IN
  /\ pc[p] = "lookup"
  /\ \/ /\ handle' = [handle EXCEPT ![p] = @ \cup mine]
        /\ UNCHANGED budget
     \/ /\ UNCHANGED handle
        /\ \E i \in mine : cloud[i] = "terminated"
        /\ UNCHANGED budget
     \/ /\ UNCHANGED handle
        /\ budget > 0
        /\ budget' = budget - 1
  /\ region' = [region EXCEPT ![p] = NextRegion(r)]
  /\ IF last
     THEN Goto(p, "stop") /\ Loop(p, handle'[p])
     ELSE UNCHANGED <<pc, todo>>
  /\ UNCHANGED <<config, vmCount, cloud, guarded, mem, disk, ips, bill>>

\* instance.stop(): an error on an instance that cannot be stopped.
StopInstance(p, i) ==
  /\ pc[p] = "stop"
  /\ Earliest(i, OfRegion(todo[p], region[p]))
  /\ IF cloud[i] \in {"running", "stopping", "stopped"}
     THEN /\ SetCloud(i, IF cloud[i] = "running" THEN "stopping" ELSE cloud[i])
          /\ LoopDone(p, i)
          /\ UNCHANGED pc
     ELSE Raise(p) /\ UNCHANGED <<cloud, todo>>
  /\ UNCHANGED <<config, vmCount, guarded, mem, disk, ips, region, handle,
                 bill, budget>>

\* calculate_uptime_costs goes through the ids of the config, not through the
\* instances the shutdown found.
FoundInstances(p) == handle[p]
BilledInstances(p) == mem[p].ids

\* The region's instances are stopped: its load balancer (a NameError again),
\* the next region, or after the last one calculate_uptime_costs, which waits
\* for every instance of the config, not only for those that were stopped; a
\* KeyError before that when tagging failed and there are no launch times.
FinishRegion(p) ==
  LET last == region[p] = NumRegions IN
  /\ pc[p] = "stop"
  /\ OfRegion(todo[p], region[p]) = {}
  /\ IF config.balancer \/ (last /\ ~mem[p].timed)
     THEN Raise(p) /\ UNCHANGED <<todo, region>>
     ELSE IF last
          THEN /\ Goto(p, "wait")
               /\ Loop(p, BilledInstances(p))
               /\ UNCHANGED region
          ELSE /\ region' = [region EXCEPT ![p] = @ + 1]
               /\ UNCHANGED <<pc, todo>>
  /\ UNCHANGED <<config, vmCount, cloud, guarded, mem, disk, ips, handle, bill,
                 budget>>

\* wait_until_stopped and _calculate_transition_time for the next instance.
\* The waiter raises on a terminated instance, and after ten minutes on one
\* that nobody is stopping.
AwaitStopRequested(p, i) ==
  /\ pc[p] = "wait"
  /\ Earliest(i, todo[p])
  /\ IF cloud[i] \in {"stopping", "stopped"}
     THEN LoopDone(p, i) /\ UNCHANGED pc
     ELSE Raise(p) /\ UNCHANGED todo
  /\ UNCHANGED <<config, vmCount, cloud, guarded, mem, disk, ips, region,
                 handle, bill, budget>>
CheckStoppedOnce(p, i) ==
  /\ pc[p] = "wait"
  /\ Earliest(i, todo[p])
  /\ IF cloud[i] = "stopped"
     THEN LoopDone(p, i) /\ UNCHANGED pc
     ELSE Raise(p) /\ UNCHANGED todo
  /\ UNCHANGED <<config, vmCount, cloud, guarded, mem, disk, ips, region,
                 handle, bill, budget>>
AwaitStopped(p, i) ==
  /\ pc[p] = "wait"
  /\ Earliest(i, todo[p])
  /\ IF cloud[i] = "stopped"
     THEN LoopDone(p, i) /\ UNCHANGED pc
     ELSE cloud[i] # "stopping" /\ Raise(p) /\ UNCHANGED todo
  /\ UNCHANGED <<config, vmCount, cloud, guarded, mem, disk, ips, region,
                 handle, bill, budget>>

BillWithoutWaiting(p) ==
  /\ pc[p] = "wait"
  /\ bill' = bill \cup BilledInstances(p)
  /\ Goto(p, "terminate")
  /\ Loop(p, handle[p])
  /\ UNCHANGED <<config, vmCount, cloud, guarded, mem, disk, ips, region,
                 handle, budget>>

\* The prices are read and aws_costs.json is written.
WriteBill(p) ==
  /\ pc[p] = "wait"
  /\ todo[p] = {}
  /\ bill' = bill \cup BilledInstances(p)
  /\ Goto(p, "terminate")
  /\ Loop(p, handle[p])
  /\ UNCHANGED <<config, vmCount, cloud, guarded, mem, disk, ips, region,
                 handle, budget>>

TerminateInstance(p, i) ==
  /\ pc[p] = "terminate"
  /\ Earliest(i, todo[p])
  /\ SetCloud(i, "terminated")
  /\ LoopDone(p, i)
  /\ UNCHANGED <<config, vmCount, pc, guarded, mem, disk, ips, region, handle,
                 bill, budget>>

\* "All instances terminated -  script is finished"
ReportShutdown(p) ==
  /\ pc[p] = "terminate"
  /\ todo[p] = {}
  /\ Goto(p, "shutdown")
  /\ UNCHANGED <<config, vmCount, cloud, guarded, mem, disk, ips, todo, region,
                 handle, bill, budget>>

-----------------------------------------------------------------------------
(* The environment                                                         *)

\* A call of the step the run is in raises, or the operator interrupts it.
Fail(p) ==
  /\ pc[p] \in StartSteps \cup ShutdownSteps \cup {"bootfailed"}
  /\ budget > 0
  /\ budget' = budget - 1
  /\ Raise(p)
  /\ UNCHANGED <<config, vmCount, cloud, guarded, mem, disk, ips, todo, region,
                 handle, bill>>

\* The process is killed; its memory is gone, what it did stays done.
Kill(p) ==
  /\ Alive(p)
  /\ budget > 0
  /\ budget' = budget - 1
  /\ Goto(p, "killed")
  /\ UNCHANGED <<config, vmCount, cloud, guarded, mem, disk, ips, todo, region,
                 handle, bill>>

InstanceRuns(i) ==
  /\ cloud[i] = "pending"
  /\ SetCloud(i, "running")
  /\ UNCHANGED <<config, vmCount, pc, guarded, mem, disk, ips, todo, region,
                 handle, bill, budget>>

InstanceStops(i) ==
  /\ cloud[i] = "stopping"
  /\ SetCloud(i, "stopped")
  /\ UNCHANGED <<config, vmCount, pc, guarded, mem, disk, ips, todo, region,
                 handle, bill, budget>>

\* A spot instance is taken back ('InstanceInterruptionBehavior': 'terminate').
Interrupt(i) ==
  /\ cloud[i] \in {"pending", "running"}
  /\ budget > 0
  /\ budget' = budget - 1
  /\ SetCloud(i, "terminated")
  /\ UNCHANGED <<config, vmCount, pc, guarded, mem, disk, ips, todo, region,
                 handle, bill>>

-----------------------------------------------------------------------------

StartStep ==
  \/ CheckRegions \/ PrepareLaunch \/ LaunchRegion
  \/ \E i \in Instance : PlaceInstance(i)
  \/ RecordInstances \/ TagInstances \/ OpenConfig \/ DumpConfig
  \/ BootDone \/ BootTimedOut
  \/ \E yes \in BOOLEAN : AnswerBootFailed(yes)
  \/ StartupNetwork \/ RedumpConfig \/ FinishStartup
  \/ \E yes \in BOOLEAN : AnswerAbort(yes)

ShutdownStep(p) ==
  \/ \E h \in Instance : Connect(p, h)
  \/ Connected(p) \/ ShutdownNetwork(p) \/ LookupRegion(p)
  \/ \E i \in Instance : StopInstance(p, i)
  \/ FinishRegion(p)
  \/ \E i \in Instance : AwaitStopped(p, i)
  \/ WriteBill(p)
  \/ \E i \in Instance : TerminateInstance(p, i)
  \/ ReportShutdown(p)

\* Every run has ended or was never started: nothing is left to do.
Over ==
  /\ \A p \in Procs : ~Alive(p)
  /\ UNCHANGED vars

Next ==
  \/ StartStep
  \/ \E p \in Procs : ShutdownStep(p) \/ RetryConnect(p) \/ Fail(p) \/ Kill(p)
  \/ \E t \in Terminators : StartTerminate(t)
  \/ \E i \in Instance : InstanceRuns(i) \/ InstanceStops(i) \/ Interrupt(i)
  \/ Over

Spec == Init /\ [][Next]_vars

(***************************************************************************)
(* Fairness: a run that can take its next step takes it (python executes   *)
(* it, and the operator answers a question that run.py asks); AWS finishes *)
(* starting and stopping an instance.  No fairness on failures, nor on the *)
(* operator starting a terminate run.                                      *)
(***************************************************************************)
RunStep(p) == ShutdownStep(p) \/ (p = Starter /\ StartStep)

FairSpec ==
  /\ Spec
  /\ \A p \in Procs : WF_vars(RunStep(p))
  /\ \A i \in Instance : WF_vars(InstanceRuns(i) \/ InstanceStops(i))

-----------------------------------------------------------------------------
(* Properties                                                              *)

Readable == disk \notin {NoRecord, Torn}

\* Where the start run is while config.json must be whole: past the first
\* writing of it and not inside the second, or ended by itself.
Written == {"connect", "boot", "bootfailed", "refresh", "startup", "redump",
            "balancer", "ready", "left"}

\* Whenever config.json can be read it names exactly the instances that were
\* launched, in whatever region and however the start run went on or died, so
\* that `terminate` can reach them all; and from the first complete writing on
\* it can be read, except inside the second writing or after a failure (lines
\* 329-331, 413-414 and 477-478 against start_instances).
LaunchRecorded ==
  /\ Readable => disk.ids = Launched
  /\ pc[Starter] \in Written => Readable

\* The positions index1 + index2 * len(regions) give every launched instance
\* one entry of config['ips'] and no two the same one; when check_config did
\* not change vm_count they also leave no hole (lines 292-306).
PlacementExact ==
  Readable =>
    /\ \A i \in Launched : \E n \in DOMAIN disk.ips :
         disk.ips[n] = i /\ \A m \in DOMAIN disk.ips : disk.ips[m] = i => m = n
    /\ config.required = config.vm => NoHost \notin HostsOf(disk)

\* When a shutdown reaches its terminate loop, every instance of its config,
\* of all regions, is stopped or gone and is in the bill: the waiting inside
\* calculate_uptime_costs is a barrier between the two loops (lines 525-542).
StoppedAndBilled ==
  \A p \in Procs : pc[p] = "terminate" =>
    \A i \in mem[p].ids : cloud[i] \in {"stopped", "terminated"} /\ i \in bill

\* Whatever runs overlap or die, run.py terminates an instance only after its
\* uptime was billed, and never a running one; only AWS itself takes back a
\* pending or running instance.
BilledBeforeTerminated ==
  [][\A i \in Instance :
       cloud[i] # "terminated" /\ cloud'[i] = "terminated" =>
         \/ cloud[i] = "stopped" /\ i \in bill
         \/ cloud[i] \in {"pending", "running"} /\ budget' < budget]_vars

\* A shutdown that reports "All instances terminated" has terminated every
\* instance of its config even if a lookup failed and was swallowed (lines
\* 517-519), provided that runs do not overlap: the instances it could not
\* find are never stopped, so the bill's wait fails before anything ends.
ShutdownComplete ==
  ~config.overlap =>
    \A p \in Procs : pc[p] = "shutdown" =>
      \A i \in mem[p].ids : cloud[i] = "terminated"

\* The end of failures: what happens from here on is the program's own doing.
Quiet == budget = 0 /\ ~config.overlap

\* Without further failures, a terminate run that finds its instances running
\* terminates all of them (unless a load balancer is configured: see README).
TerminateCompletes ==
  \A t \in Terminators :
    (/\ Quiet /\ ~config.balancer
     /\ pc[t] = "attach" /\ HostsOf(mem[t]) \subseteq Reachable)
      ~> (\A i \in Launched : cloud[i] = "terminated")

\* Without failures a start run whose vm_count is not changed by check_config
\* ends: no loop of run_general_startup, each of which can retry forever,
\* waits for something that does not come.
StartEnds ==
  (Quiet /\ pc[Starter] = "check" /\ config.required = config.vm)
    ~> (pc[Starter] \in Ended)

\* Claims of the code that it does not keep (see README, "Findings").

\* Line 521: stopped instances are terminated "in the next step".
StoppedAreTerminated ==
  \A t \in Terminators :
    (/\ Quiet /\ ~config.balancer
     /\ pc[t] = "attach" /\ \A i \in mem[t].ids : cloud[i] = "stopped")
      ~> (\A i \in Launched : cloud[i] = "terminated")

\* run.py:109: an operator who answers yes to "Do you want to shut down the
\* whole network?" gets the shutdown of what the run has launched.
RequestStartsShutdown ==
  [][AnswerAbort(TRUE) /\ Launched # {} => pc'[Starter] = "attach"]_vars

\* README.MD:14: vm_count instances are started.
VmCountLaunched ==
  Readable => Cardinality(Launched) = vmCount
=============================================================================
