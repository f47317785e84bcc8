-------------------------- MODULE NodeHandlerProofs --------------------------
(***************************************************************************)
(* Proofs of the safety properties of NodeHandler for any number of        *)
(* regions, instances, terminate runs and failures.                        *)
(***************************************************************************)
EXTENDS NodeHandlerInv, FiniteSetTheorems, TLAPS

-----------------------------------------------------------------------------
(* Facts about the data                                                    *)

\* No two instances get the same position in config['ips'].
LEMMA SlotInjective ==
  ASSUME NEW i \in Instance, NEW j \in Instance, SlotOf(i) = SlotOf(j)
  PROVE  i = j
<1> DEFINE R == NumRegions
<1>1. R \in Nat \ {0} /\ i[1] \in 1..R /\ j[1] \in 1..R
      /\ i[2] \in Nat /\ j[2] \in Nat /\ i = <<i[1], i[2]>> /\ j = <<j[1], j[2]>>
  BY RegionsAssumption DEF Instance, Region
<1>2. i[1] - j[1] = (j[2] - i[2]) * R
  BY <1>1 DEF SlotOf
<1>3. ~(j[2] > i[2])
  <2> SUFFICES ASSUME j[2] > i[2] PROVE FALSE
    OBVIOUS
  <2>1. j[2] - i[2] >= 1
    BY <1>1
  <2>2. (j[2] - i[2]) * R >= R
    BY <1>1, <2>1
  <2> QED
    BY <1>1, <1>2, <2>2
<1>4. ~(i[2] > j[2])
  <2> SUFFICES ASSUME i[2] > j[2] PROVE FALSE
    OBVIOUS
  <2>1. i[2] - j[2] >= 1
    BY <1>1
  <2>2. (i[2] - j[2]) * R >= R
    BY <1>1, <2>1
  <2>3. j[1] - i[1] = (i[2] - j[2]) * R
    BY <1>1, <1>2
  <2> QED
    BY <1>1, <2>2, <2>3
<1> QED
  BY <1>1, <1>2, <1>3, <1>4

LEMMA SlotIsNat ==
  ASSUME NEW i \in Instance
  PROVE  SlotOf(i) \in Nat
<1>1. NumRegions \in Nat /\ i[1] \in 1..NumRegions /\ i[2] \in Nat \ {0}
  BY RegionsAssumption DEF Instance, Region
<1>2. i[1] - 1 \in Nat /\ i[2] - 1 \in Nat
  BY <1>1
<1> QED
  BY <1>1, <1>2 DEF SlotOf

LEMMA RecordIsThere ==
  ASSUME NEW rec \in Record
  PROVE  rec # NoRecord /\ rec # Torn
BY NoRecordAssumption DEF Record, IpArray

LEMMA IpArrayDomain ==
  ASSUME NEW a \in IpArray
  PROVE  /\ \A n \in DOMAIN a : a[n] \in Instance \cup {NoHost}
         /\ \A n, i : i \in Instance => [a EXCEPT ![n] = i] \in IpArray
BY DEF IpArray

\* The array of vm_count zeros that placing starts from.
LEMMA EmptyArray ==
  ASSUME NEW n \in VmCounts
  PROVE  [k \in 0..(n - 1) |-> NoHost] \in IpArray
BY DEF IpArray

LEMMA HostsInstances ==
  ASSUME NEW rec \in Record
  PROVE  HostsOf(rec) \subseteq Instance \cup {NoHost}
BY IpArrayDomain DEF HostsOf, Record

LEMMA RequestedFinite ==
  ASSUME config \in Config
  PROVE  /\ Requested \subseteq Instance
         /\ IsFiniteSet(Requested)
<1>1. IsFiniteSet(Region) /\ IsFiniteSet(1..MaxCount)
  BY RegionsAssumption, FS_Interval DEF Region
<1>2. IsFiniteSet(Instance)
  BY <1>1, FS_Product DEF Instance
<1> QED
  BY <1>2, FS_Subset DEF Requested

-----------------------------------------------------------------------------
(* Type correctness                                                        *)

LEMMA StarterIsProc == Starter \in Procs /\ Terminators \subseteq Procs
BY DEF Procs

\* Type correctness, by groups of variables.
ControlType ==
  /\ pc \in [Procs -> Label]
  /\ guarded \in [Procs -> BOOLEAN]
  /\ region \in [Procs -> Region]

CloudType ==
  /\ config \in Config
  /\ vmCount \in VmCounts
  /\ cloud \in [Instance -> Status]
  /\ budget \in 0..MaxFaults

RecordType ==
  /\ mem \in [Procs -> Record \cup {NoRecord}]
  /\ disk \in Record \cup {NoRecord, Torn}
  /\ ips \in IpArray

LoopType ==
  /\ todo \in [Procs -> SUBSET (Instance \cup {NoHost})]
  /\ handle \in [Procs -> SUBSET Instance]
  /\ bill \in SUBSET Instance

LEMMA TypeGroups == TypeOK <=> ControlType /\ CloudType /\ RecordType /\ LoopType
BY DEF TypeOK, ControlType, CloudType, RecordType, LoopType

LEMMA LabelSets ==
  /\ Label = StartSteps \cup ShutdownSteps \cup Ended \cup {"idle", "asked", "bootfailed"}
  /\ WithRecord \subseteq Label
BY DEF Label, WithRecord, StartSteps

\* A run at a step that reads the recorded entries has them.
LEMMA RecordOfRun ==
  ASSUME TypeOK, RecordInv, NEW p \in Procs, pc[p] \in WithRecord
  PROVE  mem[p] \in Record /\ mem[p].ids \subseteq Instance
BY DEF TypeOK, RecordInv, Record

\* Tagging adds the launch times to the start run's record.
LEMMA Tagged ==
  ASSUME TypeOK, RecordInv, TagInstances
  PROVE  /\ pc[Starter] = "tag" /\ pc' = [pc EXCEPT ![Starter] = "dump"]
         /\ mem' \in [Procs -> Record \cup {NoRecord}]
         /\ \A p \in Procs : /\ mem'[p].ids = mem[p].ids /\ mem'[p].ips = mem[p].ips
                             /\ (mem'[p] = NoRecord) <=> (mem[p] = NoRecord)
                             /\ pc'[p] = IF p = Starter THEN "dump" ELSE pc[p]
         /\ (\E p \in Procs : mem'[p] # NoRecord) <=> (\E p \in Procs : mem[p] # NoRecord)
         /\ UNCHANGED <<config, vmCount, cloud, guarded, disk, ips, todo, region,
                        handle, bill, budget>>
<1> DEFINE rec == [ids |-> mem[Starter].ids, ips |-> mem[Starter].ips, timed |-> TRUE]
<1>1. mem[Starter] \in Record
  BY StarterIsProc, RecordOfRun DEF TagInstances, OpenConfig, WithRecord
<1>2. rec \in Record /\ rec.ids = mem[Starter].ids /\ rec.ips = mem[Starter].ips
  BY <1>1 DEF Record
<1>3. rec # NoRecord /\ mem[Starter] # NoRecord
  BY <1>1, <1>2, RecordIsThere
<1>4. mem' = [mem EXCEPT ![Starter] = rec]
  BY DEF TagInstances
<1>5. mem \in [Procs -> Record \cup {NoRecord}]
  BY DEF TypeOK
<1> HIDE DEF rec
<1>6. \A p \in Procs : mem'[p] = IF p = Starter THEN rec ELSE mem[p]
  BY <1>4, <1>5
<1>7. mem' \in [Procs -> Record \cup {NoRecord}]
  BY <1>2, <1>4, <1>5
<1>8. \A p \in Procs : /\ mem'[p].ids = mem[p].ids /\ mem'[p].ips = mem[p].ips
                      /\ (mem'[p] = NoRecord) <=> (mem[p] = NoRecord)
  BY <1>2, <1>3, <1>6
<1>9. \A p \in Procs : pc'[p] = IF p = Starter THEN "dump" ELSE pc[p]
  BY DEF TagInstances, Goto, TypeOK
<1> QED
  BY <1>7, <1>8, <1>9 DEF TagInstances, Goto

\* A terminate run starts with the record of config.json, or, if that is not
\* whole, ends without one.
LEMMA Terminating ==
  ASSUME TypeOK, NEW t \in Terminators, StartTerminate(t)
  PROVE  /\ t \in Procs /\ pc[t] = "idle" /\ disk # NoRecord
         /\ config.overlap \/ \A q \in Procs : ~Alive(q)
         /\ UNCHANGED <<config, vmCount, cloud, guarded, disk, ips, region, handle,
                        bill, budget>>
         /\ \/ /\ disk \in Record /\ Readable
               /\ mem' = [mem EXCEPT ![t] = disk]
               /\ pc' = [pc EXCEPT ![t] = "attach"]
               /\ todo' = [todo EXCEPT ![t] = HostsOf(disk)]
            \/ /\ disk = Torn
               /\ mem' = [mem EXCEPT ![t] = NoRecord]
               /\ \E label \in {"asked", "exited"} : pc' = [pc EXCEPT ![t] = label]
               /\ UNCHANGED todo
<1>1. t \in Procs /\ mem'[t] = IF disk = Torn THEN NoRecord ELSE disk
  BY StarterIsProc DEF StartTerminate, TypeOK
<1>2. CASE disk = Torn
  <2>1. mem'[t] = NoRecord /\ mem' = [mem EXCEPT ![t] = NoRecord]
    BY <1>1, <1>2 DEF StartTerminate
  <2>2. pc' = [pc EXCEPT ![t] = IF guarded[t] THEN "asked" ELSE "exited"]
        /\ UNCHANGED todo
    BY <2>1 DEF StartTerminate, BeginShutdown, Raise, Goto
  <2> QED
    BY <1>1, <1>2, <2>1, <2>2 DEF StartTerminate
<1>3. CASE disk # Torn
  <2>1. disk \in Record /\ disk # NoRecord
    BY <1>3 DEF StartTerminate, TypeOK
  <2>2. mem'[t] = disk /\ mem' = [mem EXCEPT ![t] = disk]
    BY <1>1, <1>3 DEF StartTerminate
  <2>3. /\ pc' = [pc EXCEPT ![t] = "attach"]
        /\ todo' = [todo EXCEPT ![t] = HostsOf(disk)]
    BY <2>1, <2>2 DEF StartTerminate, BeginShutdown, Goto, Loop
  <2> QED
    BY <1>1, <1>3, <2>1, <2>2, <2>3 DEF StartTerminate, Readable
<1> QED
  BY <1>2, <1>3

LEMMA ControlStep ==
  ASSUME ControlType, [Next]_vars
  PROVE  ControlType'
<1>1. CASE CheckRegions
  BY <1>1 DEF CheckRegions, Goto, Raise, ControlType, Label, Ended, StartSteps
<1>2. CASE PrepareLaunch
  BY <1>2 DEF PrepareLaunch, Goto, ControlType, Label, StartSteps
<1>3. CASE LaunchRegion
  <2>1. region[Starter] \in 1..NumRegions /\ NumRegions \in Nat
    BY StarterIsProc, RegionsAssumption DEF ControlType, Region
  <2>2. NextRegion(region[Starter]) \in Region
    BY <2>1 DEF NextRegion, Region
  <2>3. region' \in [Procs -> Region]
    BY <1>3, <2>2 DEF LaunchRegion, ControlType
  <2>4. pc' \in [Procs -> Label]
    BY <1>3 DEF LaunchRegion, Goto, ControlType, Label, StartSteps
  <2> QED
    BY <1>3, <2>3, <2>4 DEF LaunchRegion, ControlType
<1>4. ASSUME NEW i \in Instance, PlaceInstance(i)
      PROVE  ControlType'
  BY <1>4 DEF PlaceInstance, Raise, Goto, ControlType, Label, Ended
<1>5. CASE RecordInstances
  BY <1>5 DEF RecordInstances, Goto, ControlType, Label, StartSteps
<1>6. CASE TagInstances
  BY <1>6 DEF TagInstances, Goto, ControlType, Label, StartSteps
<1>7. CASE DumpConfig
  BY <1>7 DEF DumpConfig, Goto, ControlType, Label, StartSteps
<1>8. CASE BootDone
  BY <1>8 DEF BootDone, Goto, ControlType, Label, StartSteps
<1>9. CASE BootTimedOut
  BY <1>9 DEF BootTimedOut, Goto, ControlType, Label
<1>10. ASSUME NEW yes \in BOOLEAN, AnswerBootFailed(yes)
      PROVE  ControlType'
  BY <1>10
     DEF AnswerBootFailed, BeginShutdown, Raise, Goto, ControlType,
         Label, Ended, ShutdownSteps
<1>11. CASE StartupNetwork
  BY <1>11 DEF StartupNetwork, Goto, ControlType, Label, StartSteps
<1>12. CASE RedumpConfig
  BY <1>12 DEF RedumpConfig, Goto, ControlType, Label, StartSteps
<1>13. CASE FinishStartup
  BY <1>13 DEF FinishStartup, Raise, Goto, ControlType, Label, Ended
<1>14. ASSUME NEW yes \in BOOLEAN, AnswerAbort(yes)
      PROVE  ControlType'
  BY <1>14 DEF AnswerAbort, Goto, ControlType, Label, Ended, ShutdownSteps
<1>15. ASSUME NEW p \in Procs, NEW h \in Instance, Connect(p, h)
      PROVE  ControlType'
  BY <1>15 DEF Connect, ControlType
<1>16. ASSUME NEW p \in Procs, Connected(p)
      PROVE  ControlType'
  BY <1>16
     DEF Connected, Goto, AfterConnect, ControlType, Label, StartSteps,
         ShutdownSteps
<1>17. ASSUME NEW p \in Procs, ShutdownNetwork(p)
      PROVE  ControlType'
  BY <1>17, RegionsAssumption
     DEF ShutdownNetwork, Goto, ControlType, Region, Label, ShutdownSteps
<1>18. ASSUME NEW p \in Procs, LookupRegion(p)
      PROVE  ControlType'
  BY <1>18, RegionsAssumption
     DEF LookupRegion, Goto, NextRegion, ControlType, Region, Label,
         ShutdownSteps
<1>19. ASSUME NEW p \in Procs, NEW i \in Instance, StopInstance(p, i)
      PROVE  ControlType'
  BY <1>19 DEF StopInstance, Raise, Goto, ControlType, Label, Ended
<1>20. ASSUME NEW p \in Procs, FinishRegion(p)
      PROVE  ControlType'
  BY <1>20, RegionsAssumption
     DEF FinishRegion, Raise, Goto, ControlType, Region, Label, Ended,
         ShutdownSteps
<1>21. ASSUME NEW p \in Procs, NEW i \in Instance, AwaitStopped(p, i)
      PROVE  ControlType'
  BY <1>21 DEF AwaitStopped, Raise, Goto, ControlType, Label, Ended
<1>22. ASSUME NEW p \in Procs, WriteBill(p)
      PROVE  ControlType'
  BY <1>22 DEF WriteBill, Goto, ControlType, Label, ShutdownSteps
<1>23. ASSUME NEW p \in Procs, NEW i \in Instance, TerminateInstance(p, i)
      PROVE  ControlType'
  BY <1>23 DEF TerminateInstance, ControlType
<1>24. ASSUME NEW p \in Procs, ReportShutdown(p)
      PROVE  ControlType'
  BY <1>24 DEF ReportShutdown, Goto, ControlType, Label, Ended
<1>25. ASSUME NEW p \in Procs, Fail(p)
      PROVE  ControlType'
  BY <1>25 DEF Fail, Raise, Goto, ControlType, Label, Ended
<1>26. ASSUME NEW p \in Procs, Kill(p)
      PROVE  ControlType'
  BY <1>26 DEF Kill, Goto, ControlType, Label, Ended
<1>27. ASSUME NEW t \in Terminators, StartTerminate(t)
      PROVE  ControlType'
  BY <1>27
     DEF StartTerminate, BeginShutdown, Raise, Goto, ControlType, Label,
         ShutdownSteps, Ended
<1>28. ASSUME NEW i \in Instance, InstanceRuns(i)
      PROVE  ControlType'
  BY <1>28 DEF InstanceRuns, ControlType
<1>29. ASSUME NEW i \in Instance, InstanceStops(i)
      PROVE  ControlType'
  BY <1>29 DEF InstanceStops, ControlType
<1>30. ASSUME NEW i \in Instance, Interrupt(i)
      PROVE  ControlType'
  BY <1>30 DEF Interrupt, ControlType
<1>31. CASE UNCHANGED vars
  BY <1>31 DEF vars, ControlType
<1>32. CASE OpenConfig
  BY <1>32 DEF OpenConfig, Goto, ControlType, Label, StartSteps
<1> QED
  BY <1>1, <1>2, <1>3, <1>4, <1>5, <1>6, <1>7, <1>8, <1>9, <1>10, <1>11,
     <1>12, <1>13, <1>14, <1>15, <1>16, <1>17, <1>18, <1>19, <1>20, <1>21,
     <1>22, <1>23, <1>24, <1>25, <1>26, <1>27, <1>28, <1>29, <1>30, <1>31, <1>32
     DEF Next, StartStep, ShutdownStep, RetryConnect, Over

LEMMA CloudStep ==
  ASSUME ControlType, CloudType, [Next]_vars
  PROVE  CloudType'
<1>1. CASE UNCHANGED <<config, vmCount, cloud, budget>>
  BY <1>1 DEF CloudType
<1>2. CASE PrepareLaunch
  BY <1>2 DEF PrepareLaunch, CloudType, Config
<1>3. CASE LaunchRegion
  BY <1>3 DEF LaunchRegion, LaunchFromRegions, CloudType, Status
<1>4. CASE BootTimedOut
  BY <1>4, FaultsAssumption DEF BootTimedOut, CloudType
<1>5. ASSUME NEW p \in Procs, LookupRegion(p)
      PROVE  CloudType'
  BY <1>5, FaultsAssumption DEF LookupRegion, CloudType
<1>6. ASSUME NEW p \in Procs, NEW i \in Instance, StopInstance(p, i)
      PROVE  CloudType'
  BY <1>6 DEF StopInstance, SetCloud, CloudType, Status
<1>7. ASSUME NEW p \in Procs, NEW i \in Instance, TerminateInstance(p, i)
      PROVE  CloudType'
  BY <1>7 DEF TerminateInstance, SetCloud, CloudType, Status
<1>8. ASSUME NEW p \in Procs, Fail(p)
      PROVE  CloudType'
  BY <1>8, FaultsAssumption DEF Fail, CloudType
<1>9. ASSUME NEW p \in Procs, Kill(p)
      PROVE  CloudType'
  BY <1>9, FaultsAssumption DEF Kill, CloudType
<1>10. ASSUME NEW i \in Instance, InstanceRuns(i)
      PROVE  CloudType'
  BY <1>10 DEF InstanceRuns, SetCloud, CloudType, Status
<1>11. ASSUME NEW i \in Instance, InstanceStops(i)
      PROVE  CloudType'
  BY <1>11 DEF InstanceStops, SetCloud, CloudType, Status
<1>12. ASSUME NEW i \in Instance, Interrupt(i)
      PROVE  CloudType'
  BY <1>12, FaultsAssumption DEF Interrupt, SetCloud, CloudType, Status
<1> QED
  BY <1>1, <1>2, <1>3, <1>4, <1>5, <1>6, <1>7, <1>8, <1>9, <1>10, <1>11,
     <1>12
     DEF Next, StartStep, ShutdownStep, RetryConnect, Over, CheckRegions,
         PlaceInstance, RecordInstances, TagInstances, OpenConfig, DumpConfig,
         BootDone, AnswerBootFailed, StartupNetwork, RedumpConfig,
         FinishStartup, AnswerAbort, Connect, Connected, ShutdownNetwork,
         FinishRegion, AwaitStopped, WriteBill, ReportShutdown,
         StartTerminate, vars

LEMMA RecordStep ==
  ASSUME TypeOK, RecordInv, [Next]_vars
  PROVE  RecordType'
<1>1. CASE UNCHANGED <<mem, disk, ips>>
  BY <1>1 DEF TypeOK, RecordType
<1>2. CASE LaunchRegion
  BY <1>2, TypeGroups, EmptyArray DEF LaunchRegion, RecordType, CloudType
<1>3. ASSUME NEW i \in Instance, PlaceInstance(i)
      PROVE  RecordType'
  <2>1. ips' \in IpArray
    <3>1. [ips EXCEPT ![SlotOf(i)] = i] \in IpArray
      BY IpArrayDomain, TypeGroups DEF RecordType
    <3> QED
      BY <1>3, <3>1, TypeGroups DEF PlaceInstance, RecordType
  <2> QED
    BY <1>3, <2>1, TypeGroups DEF PlaceInstance, RecordType
<1>4. CASE RecordInstances
  BY <1>4, TypeGroups, RequestedFinite
     DEF RecordInstances, RecordedIds, RecordType, CloudType, Record
<1>5. CASE DumpConfig
  BY <1>5, StarterIsProc, TypeGroups DEF DumpConfig, RecordType
<1>6. CASE RedumpConfig
  BY <1>6, StarterIsProc, TypeGroups DEF RedumpConfig, RecordType
<1>7. ASSUME NEW t \in Terminators, StartTerminate(t)
      PROVE  RecordType'
  BY <1>7, TypeGroups DEF StartTerminate, RecordType
<1>8. CASE TagInstances
  BY <1>8, Tagged, TypeGroups DEF RecordType
<1>9. CASE OpenConfig
  BY <1>9, TypeGroups DEF OpenConfig, RecordType
<1> QED
  BY <1>1, <1>2, <1>3, <1>4, <1>5, <1>6, <1>7, <1>8, <1>9
     DEF Next, StartStep, ShutdownStep, RetryConnect, Over, CheckRegions,
         PrepareLaunch, BootDone, BootTimedOut,
         AnswerBootFailed, StartupNetwork, FinishStartup, AnswerAbort,
         Connect, Connected, ShutdownNetwork, LookupRegion, StopInstance,
         FinishRegion, AwaitStopped, WriteBill, TerminateInstance,
         ReportShutdown, Fail, Kill, InstanceRuns, InstanceStops,
         Interrupt, vars

LEMMA LoopStep ==
  ASSUME TypeOK, RecordInv, [Next]_vars
  PROVE  LoopType'
<1>1. CASE UNCHANGED <<todo, handle, bill>>
  BY <1>1 DEF TypeOK, LoopType
<1>2. CASE LaunchRegion
  BY <1>2, TypeGroups, RequestedFinite
     DEF LaunchRegion, Loop, LoopType, CloudType
<1>3. ASSUME NEW i \in Instance, PlaceInstance(i)
      PROVE  LoopType'
  BY <1>3, TypeGroups DEF PlaceInstance, LoopDone, LoopType
<1>4. CASE DumpConfig
  BY <1>4, TypeGroups, HostsInstances
     DEF DumpConfig, Loop, LoopType, RecordType, RecordInv, WithRecord
<1>5. CASE BootDone
  BY <1>5, TypeGroups, HostsInstances
     DEF BootDone, Loop, LoopType, RecordType, RecordInv, WithRecord
<1>6. ASSUME NEW yes \in BOOLEAN, AnswerBootFailed(yes)
      PROVE  LoopType'
  BY <1>6, TypeGroups, HostsInstances
     DEF AnswerBootFailed, BeginShutdown, Loop, LoopType, RecordType
<1>7. ASSUME NEW yes \in BOOLEAN, AnswerAbort(yes)
      PROVE  LoopType'
  BY <1>7, TypeGroups, HostsInstances
     DEF AnswerAbort, Loop, LoopType, RecordType
<1>8. ASSUME NEW p \in Procs, NEW h \in Instance, Connect(p, h)
      PROVE  LoopType'
  BY <1>8, TypeGroups DEF Connect, LoopDone, LoopType
<1>9. ASSUME NEW p \in Procs, ShutdownNetwork(p)
      PROVE  LoopType'
  BY <1>9, TypeGroups DEF ShutdownNetwork, LoopType
<1>10. ASSUME NEW p \in Procs, LookupRegion(p)
      PROVE  LoopType'
  <2>1. mem[p] \in Record /\ mem[p].ids \subseteq Instance
    BY <1>10, RecordOfRun DEF LookupRegion, WithRecord, ShutdownSteps
  <2> QED
    BY <1>10, <2>1, TypeGroups DEF LookupRegion, Loop, OfRegion, LoopType
<1>11. ASSUME NEW p \in Procs, NEW i \in Instance, StopInstance(p, i)
      PROVE  LoopType'
  BY <1>11, TypeGroups DEF StopInstance, LoopDone, LoopType
<1>12. ASSUME NEW p \in Procs, FinishRegion(p)
      PROVE  LoopType'
  <2>1. mem[p] \in Record /\ mem[p].ids \subseteq Instance
    BY <1>12, RecordOfRun DEF FinishRegion, WithRecord, ShutdownSteps
  <2> QED
    BY <1>12, <2>1, TypeGroups
       DEF FinishRegion, Loop, BilledInstances, LoopType
<1>13. ASSUME NEW p \in Procs, NEW i \in Instance, AwaitStopped(p, i)
      PROVE  LoopType'
  BY <1>13, TypeGroups DEF AwaitStopped, LoopDone, LoopType
<1>14. ASSUME NEW p \in Procs, WriteBill(p)
      PROVE  LoopType'
  <2>1. mem[p] \in Record /\ mem[p].ids \subseteq Instance
    BY <1>14, RecordOfRun DEF WriteBill, WithRecord, ShutdownSteps
  <2> QED
    BY <1>14, <2>1, TypeGroups DEF WriteBill, Loop, BilledInstances, LoopType
<1>15. ASSUME NEW p \in Procs, NEW i \in Instance, TerminateInstance(p, i)
      PROVE  LoopType'
  BY <1>15, TypeGroups DEF TerminateInstance, LoopDone, LoopType
<1>16. ASSUME NEW t \in Terminators, StartTerminate(t)
      PROVE  LoopType'
  BY <1>16, TypeGroups, HostsInstances
     DEF StartTerminate, BeginShutdown, Loop, LoopType, RecordType
<1> QED
  BY <1>1, <1>2, <1>3, <1>4, <1>5, <1>6, <1>7, <1>8, <1>9, <1>10, <1>11,
     <1>12, <1>13, <1>14, <1>15, <1>16
     DEF Next, StartStep, ShutdownStep, RetryConnect, Over, CheckRegions,
         PrepareLaunch, RecordInstances, TagInstances, OpenConfig, BootTimedOut,
         StartupNetwork, RedumpConfig, FinishStartup, Connected,
         ReportShutdown, Fail, Kill, InstanceRuns, InstanceStops,
         Interrupt, vars

-----------------------------------------------------------------------------
(* The parts of the inductive invariant                                    *)

\* No step changes the input.
LEMMA ConfigFixed ==
  ASSUME [Next]_vars
  PROVE  config' = config /\ Requested' = Requested
<1>1. config' = config
  BY DEF Next, vars, StartStep, CheckRegions, PrepareLaunch, LaunchRegion,
         PlaceInstance, RecordInstances, TagInstances, OpenConfig, DumpConfig, BootDone,
         BootTimedOut, AnswerBootFailed, StartupNetwork, RedumpConfig,
         FinishStartup, AnswerAbort, ShutdownStep, Connect, Connected,
         ShutdownNetwork, LookupRegion, StopInstance, FinishRegion,
         AwaitStopped, WriteBill, TerminateInstance, ReportShutdown,
         RetryConnect, Fail, Kill, StartTerminate, InstanceRuns,
         InstanceStops, Interrupt, Over
<1> QED
  BY <1>1 DEF Requested

LEMMA RecordInvStep ==
  ASSUME TypeOK, RecordInv, LaunchInv, PlaceInv, [Next]_vars
  PROVE  RecordInv'
<1> USE DEF Readable
<1>1. CASE CheckRegions
  BY <1>1, TypeGroups
     DEF CheckRegions, Goto, Raise, RecordInv, WithRecord, ShutdownSteps,
         BeforeRecord, ControlType
<1>2. CASE PrepareLaunch
  BY <1>2
     DEF PrepareLaunch, Goto, RecordInv, WithRecord, ShutdownSteps,
         BeforeRecord
<1>3. CASE LaunchRegion
  BY <1>3, TypeGroups
     DEF LaunchRegion, Goto, RecordInv, WithRecord, ShutdownSteps,
         BeforeRecord, ControlType
<1>4. ASSUME NEW i \in Instance, PlaceInstance(i)
      PROVE  RecordInv'
  BY <1>4, TypeGroups
     DEF PlaceInstance, Raise, Goto, RecordInv, WithRecord,
         ShutdownSteps, BeforeRecord, ControlType
<1>5. CASE RecordInstances
  <2>1. Placed([ids |-> Requested, ips |-> ips, timed |-> FALSE])
    BY <1>5 DEF RecordInstances, PlaceInv, LaunchInv, Placed
  <2>2. [ids |-> Requested, ips |-> ips, timed |-> FALSE] # NoRecord
    BY RecordIsThere, RequestedFinite, TypeGroups
       DEF Record, RecordType, CloudType
  <2>3. mem' = [mem EXCEPT ![Starter] = [ids |-> Requested, ips |-> ips, timed |-> FALSE]]
    BY <1>5 DEF RecordInstances, RecordedIds
  <2> QED
    BY <1>5, <2>1, <2>2, <2>3, ConfigFixed, TypeGroups
       DEF RecordInstances, Goto, RecordInv, BeforeRecord, ControlType,
           RecordType, Placed
<1>6. CASE TagInstances
  <2>1. \A p \in Procs : Placed(mem[p]) => Placed(mem[p])'
    <3>1. Requested' = Requested /\ config' = config
      BY ConfigFixed
    <3> QED
      BY <1>6, <3>1, Tagged DEF Placed
  <2>2. Placed(disk) => Placed(disk)'
    BY <1>6, ConfigFixed, Tagged DEF Placed
  <2>3. /\ \A p \in Procs : pc'[p] \in WithRecord => mem'[p] # NoRecord
        /\ \A p \in Procs : mem'[p] # NoRecord => Placed(mem[p])'
    BY <1>6, <2>1, Tagged DEF RecordInv, WithRecord
  <2>4. /\ disk' = disk /\ (disk \notin {NoRecord, Torn} => Placed(disk)')
        /\ pc'[Starter] = "dump"
    BY <1>6, <2>2, Tagged, StarterIsProc DEF RecordInv
  <2> QED
    BY <2>3, <2>4 DEF RecordInv, BeforeRecord
<1>7. CASE DumpConfig
  BY <1>7, StarterIsProc, ConfigFixed
     DEF DumpConfig, Goto, RecordInv, WithRecord, BeforeRecord, Placed
<1>8. CASE BootDone
  BY <1>8, ConfigFixed
     DEF BootDone, Goto, RecordInv, WithRecord, BeforeRecord, Placed
<1>9. CASE BootTimedOut
  BY <1>9, ConfigFixed
     DEF BootTimedOut, Goto, RecordInv, WithRecord, BeforeRecord, Placed
<1>10. ASSUME NEW yes \in BOOLEAN, AnswerBootFailed(yes)
      PROVE  RecordInv'
  BY <1>10, StarterIsProc, ConfigFixed, TypeGroups
     DEF AnswerBootFailed, BeginShutdown, Goto, RecordInv, WithRecord,
         BeforeRecord, ControlType, Placed
<1>11. CASE StartupNetwork
  BY <1>11, ConfigFixed
     DEF StartupNetwork, Goto, RecordInv, WithRecord, BeforeRecord,
         Placed
<1>12. CASE RedumpConfig
  BY <1>12, StarterIsProc, ConfigFixed
     DEF RedumpConfig, Goto, RecordInv, WithRecord, BeforeRecord, Placed
<1>13. CASE FinishStartup
  BY <1>13, ConfigFixed, TypeGroups
     DEF FinishStartup, Raise, Goto, RecordInv, WithRecord, BeforeRecord,
         ControlType, Placed
<1>14. ASSUME NEW yes \in BOOLEAN, AnswerAbort(yes)
      PROVE  RecordInv'
  BY <1>14, ConfigFixed, TypeGroups
     DEF AnswerAbort, Goto, RecordInv, WithRecord, ShutdownSteps,
         BeforeRecord, ControlType, Placed
<1>15. ASSUME NEW p \in Procs, NEW h \in Instance, Connect(p, h)
      PROVE  RecordInv'
  BY <1>15, ConfigFixed DEF Connect, RecordInv, Placed
<1>16. ASSUME NEW p \in Procs, Connected(p)
      PROVE  RecordInv'
  BY <1>16, ConfigFixed
     DEF Connected, Goto, AfterConnect, RecordInv, WithRecord,
         ShutdownSteps, BeforeRecord, Placed
<1>17. ASSUME NEW p \in Procs, ShutdownNetwork(p)
      PROVE  RecordInv'
  BY <1>17, ConfigFixed
     DEF ShutdownNetwork, Goto, RecordInv, WithRecord, ShutdownSteps,
         BeforeRecord, Placed
<1>18. ASSUME NEW p \in Procs, LookupRegion(p)
      PROVE  RecordInv'
  BY <1>18, StarterIsProc, ConfigFixed, TypeGroups
     DEF LookupRegion, Goto, RecordInv, WithRecord, ShutdownSteps,
         BeforeRecord, ControlType, Placed
<1>19. ASSUME NEW p \in Procs, NEW i \in Instance, StopInstance(p, i)
      PROVE  RecordInv'
  BY <1>19, StarterIsProc, ConfigFixed, TypeGroups
     DEF StopInstance, Raise, Goto, RecordInv, WithRecord, ShutdownSteps,
         BeforeRecord, ControlType, Placed
<1>20. ASSUME NEW p \in Procs, FinishRegion(p)
      PROVE  RecordInv'
  BY <1>20, StarterIsProc, ConfigFixed, TypeGroups
     DEF FinishRegion, Raise, Goto, RecordInv, WithRecord, ShutdownSteps,
         BeforeRecord, ControlType, Placed
<1>21. ASSUME NEW p \in Procs, NEW i \in Instance, AwaitStopped(p, i)
      PROVE  RecordInv'
  BY <1>21, StarterIsProc, ConfigFixed, TypeGroups
     DEF AwaitStopped, Raise, Goto, RecordInv, WithRecord, ShutdownSteps,
         BeforeRecord, ControlType, Placed
<1>22. ASSUME NEW p \in Procs, WriteBill(p)
      PROVE  RecordInv'
  BY <1>22, ConfigFixed
     DEF WriteBill, Goto, RecordInv, WithRecord, ShutdownSteps,
         BeforeRecord, Placed
<1>23. ASSUME NEW p \in Procs, NEW i \in Instance, TerminateInstance(p, i)
      PROVE  RecordInv'
  BY <1>23, ConfigFixed DEF TerminateInstance, RecordInv, Placed
<1>24. ASSUME NEW p \in Procs, ReportShutdown(p)
      PROVE  RecordInv'
  BY <1>24, ConfigFixed
     DEF ReportShutdown, Goto, RecordInv, WithRecord, ShutdownSteps,
         BeforeRecord, Placed
<1>25. ASSUME NEW p \in Procs, Fail(p)
      PROVE  RecordInv'
  BY <1>25, ConfigFixed
     DEF Fail, Raise, Goto, RecordInv, WithRecord, ShutdownSteps,
         BeforeRecord, Placed
<1>26. ASSUME NEW p \in Procs, Kill(p)
      PROVE  RecordInv'
  BY <1>26, ConfigFixed
     DEF Kill, Goto, RecordInv, WithRecord, ShutdownSteps, BeforeRecord,
         Placed
<1>27. ASSUME NEW t \in Terminators, StartTerminate(t)
      PROVE  RecordInv'
  BY <1>27, Terminating, StarterIsProc, ConfigFixed, TypeGroups
     DEF RecordInv, WithRecord, ShutdownSteps, BeforeRecord, ControlType,
         RecordType, Placed
<1>28. ASSUME NEW i \in Instance, InstanceRuns(i)
      PROVE  RecordInv'
  BY <1>28, ConfigFixed DEF InstanceRuns, RecordInv, Placed
<1>29. ASSUME NEW i \in Instance, InstanceStops(i)
      PROVE  RecordInv'
  BY <1>29, ConfigFixed DEF InstanceStops, RecordInv, Placed
<1>30. ASSUME NEW i \in Instance, Interrupt(i)
      PROVE  RecordInv'
  BY <1>30, ConfigFixed DEF Interrupt, RecordInv, Placed
<1>31. CASE UNCHANGED vars
  BY <1>31, ConfigFixed DEF vars, RecordInv, Placed
<1>32. CASE OpenConfig
  BY <1>32, ConfigFixed, TypeGroups
     DEF OpenConfig, Goto, RecordInv, WithRecord, BeforeRecord, ControlType, Placed, Readable
<1> QED
  BY <1>1, <1>2, <1>3, <1>4, <1>5, <1>6, <1>7, <1>8, <1>9, <1>10, <1>11,
     <1>12, <1>13, <1>14, <1>15, <1>16, <1>17, <1>18, <1>19, <1>20, <1>21,
     <1>22, <1>23, <1>24, <1>25, <1>26, <1>27, <1>28, <1>29, <1>30, <1>31, <1>32
     DEF Next, StartStep, ShutdownStep, RetryConnect, Over

LEMMA LaunchInvStep ==
  ASSUME TypeOK, RecordInv, LaunchInv, LoopInv, [Next]_vars
  PROVE  LaunchInv'
<1>1. CASE CheckRegions
  BY <1>1, ConfigFixed, TypeGroups
     DEF CheckRegions, Goto, Raise, LaunchInv, ControlType, Launched
<1>2. CASE PrepareLaunch
  <2>1. \A i \in Requested : ~(i[1] < 1)
    BY DEF Requested, Instance, Region
  <2>2. Launched' = Launched /\ region' = region
    BY <1>2 DEF PrepareLaunch, Launched
  <2> QED
    BY <1>2, <2>1, <2>2, ConfigFixed DEF PrepareLaunch, Goto, LaunchInv
<1>3. CASE LaunchRegion
  <2> DEFINE r == region[Starter]
  <2>1. r \in 1..NumRegions /\ NumRegions \in Nat
    BY StarterIsProc, RegionsAssumption, TypeGroups DEF ControlType, Region
  <2>2. Launched = {i \in Requested : i[1] < r}
    BY <1>3 DEF LaunchRegion, LaunchInv
  <2>3. Launched' = Launched \cup {i \in Requested : i[1] = r}
    BY <1>3, RequestedFinite, TypeGroups
       DEF LaunchRegion, LaunchFromRegions, Launched, CloudType
  <2>4. \A i \in Requested : i[1] \in 1..NumRegions
    BY DEF Requested, Instance, Region
  <2>5. Launched' = {i \in Requested : i[1] < r + 1}
    BY <2>1, <2>2, <2>3, <2>4
  <2>6. CASE r = NumRegions
    <3>1. Launched' = Requested
      BY <2>1, <2>4, <2>5, <2>6
    <3> QED
      BY <1>3, <3>1, <2>6, StarterIsProc, ConfigFixed, TypeGroups
         DEF LaunchRegion, Goto, LaunchInv, ControlType
  <2>7. CASE r # NumRegions
    <3>1. region'[Starter] = r + 1 /\ pc' = pc
      BY <1>3, <2>7, StarterIsProc, TypeGroups
         DEF LaunchRegion, NextRegion, ControlType
    <3> QED
      BY <1>3, <2>5, <3>1, ConfigFixed
         DEF LaunchRegion, LaunchInv, RecordInv, BeforeRecord
  <2> QED
    BY <2>6, <2>7
<1>4. ASSUME NEW i \in Instance, PlaceInstance(i)
      PROVE  LaunchInv'
  BY <1>4, ConfigFixed, TypeGroups
     DEF PlaceInstance, Raise, Goto, LaunchInv, ControlType, Launched
<1>5. CASE RecordInstances
  BY <1>5, ConfigFixed DEF RecordInstances, Goto, LaunchInv, Launched
<1>6. CASE TagInstances
  BY <1>6, Tagged, StarterIsProc, ConfigFixed, TypeGroups
     DEF LaunchInv, Launched, ControlType
<1>7. CASE DumpConfig
  BY <1>7, StarterIsProc, ConfigFixed
     DEF DumpConfig, Goto, LaunchInv, Launched
<1>8. CASE BootDone
  BY <1>8, ConfigFixed DEF BootDone, Goto, LaunchInv, Launched
<1>9. CASE BootTimedOut
  BY <1>9, ConfigFixed DEF BootTimedOut, Goto, LaunchInv, Launched
<1>10. ASSUME NEW yes \in BOOLEAN, AnswerBootFailed(yes)
      PROVE  LaunchInv'
  BY <1>10, ConfigFixed, TypeGroups
     DEF AnswerBootFailed, BeginShutdown, Raise, Goto, LaunchInv,
         ControlType, Launched
<1>11. CASE StartupNetwork
  BY <1>11, ConfigFixed DEF StartupNetwork, Goto, LaunchInv, Launched
<1>12. CASE RedumpConfig
  BY <1>12, StarterIsProc, ConfigFixed
     DEF RedumpConfig, Goto, LaunchInv, Launched
<1>13. CASE FinishStartup
  BY <1>13, ConfigFixed, TypeGroups
     DEF FinishStartup, Raise, Goto, LaunchInv, ControlType, Launched
<1>14. ASSUME NEW yes \in BOOLEAN, AnswerAbort(yes)
      PROVE  LaunchInv'
  BY <1>14, ConfigFixed, TypeGroups
     DEF AnswerAbort, Goto, LaunchInv, ControlType, Launched
<1>15. ASSUME NEW p \in Procs, NEW h \in Instance, Connect(p, h)
      PROVE  LaunchInv'
  BY <1>15, ConfigFixed DEF Connect, LaunchInv, Launched
<1>16. ASSUME NEW p \in Procs, Connected(p)
      PROVE  LaunchInv'
  BY <1>16, ConfigFixed DEF Connected, Goto, AfterConnect, LaunchInv, Launched
<1>17. ASSUME NEW p \in Procs, ShutdownNetwork(p)
      PROVE  LaunchInv'
  BY <1>17, ConfigFixed DEF ShutdownNetwork, Goto, LaunchInv, Launched
<1>18. ASSUME NEW p \in Procs, LookupRegion(p)
      PROVE  LaunchInv'
  BY <1>18, StarterIsProc, ConfigFixed, TypeGroups
     DEF LookupRegion, Goto, LaunchInv, ControlType, Launched
<1>19. ASSUME NEW p \in Procs, NEW i \in Instance, StopInstance(p, i)
      PROVE  LaunchInv'
  BY <1>19, StarterIsProc, ConfigFixed, TypeGroups
     DEF StopInstance, Raise, Goto, SetCloud, LaunchInv, ControlType,
         CloudType, Launched
<1>20. ASSUME NEW p \in Procs, FinishRegion(p)
      PROVE  LaunchInv'
  BY <1>20, StarterIsProc, ConfigFixed, TypeGroups
     DEF FinishRegion, Raise, Goto, LaunchInv, ControlType, Launched
<1>21. ASSUME NEW p \in Procs, NEW i \in Instance, AwaitStopped(p, i)
      PROVE  LaunchInv'
  BY <1>21, StarterIsProc, ConfigFixed, TypeGroups
     DEF AwaitStopped, Raise, Goto, LaunchInv, ControlType, Launched
<1>22. ASSUME NEW p \in Procs, WriteBill(p)
      PROVE  LaunchInv'
  BY <1>22, ConfigFixed DEF WriteBill, Goto, LaunchInv, Launched
<1>23. ASSUME NEW p \in Procs, NEW i \in Instance, TerminateInstance(p, i)
      PROVE  LaunchInv'
  <2>1. i \in mem[p].ids /\ mem[p] # NoRecord
    BY <1>23
       DEF TerminateInstance, Earliest, LoopInv, RecordInv, WithRecord,
           ShutdownSteps
  <2>2. i \in Launched
    BY <2>1 DEF RecordInv, Placed, LaunchInv
  <2>3. Launched' = Launched
    BY <1>23, <2>2 DEF TerminateInstance, SetCloud, Launched
  <2> QED
    BY <1>23, <2>3, ConfigFixed DEF TerminateInstance, LaunchInv
<1>24. ASSUME NEW p \in Procs, ReportShutdown(p)
      PROVE  LaunchInv'
  BY <1>24, ConfigFixed DEF ReportShutdown, Goto, LaunchInv, Launched
<1>25. ASSUME NEW p \in Procs, Fail(p)
      PROVE  LaunchInv'
  BY <1>25, ConfigFixed DEF Fail, Raise, Goto, LaunchInv, Launched
<1>26. ASSUME NEW p \in Procs, Kill(p)
      PROVE  LaunchInv'
  BY <1>26, ConfigFixed DEF Kill, Goto, LaunchInv, Launched
<1>27. ASSUME NEW t \in Terminators, StartTerminate(t)
      PROVE  LaunchInv'
  BY <1>27, Terminating, StarterIsProc, ConfigFixed, TypeGroups
     DEF LaunchInv, ControlType, RecordType, Launched
<1>28. ASSUME NEW i \in Instance, InstanceRuns(i)
      PROVE  LaunchInv'
  BY <1>28, ConfigFixed DEF InstanceRuns, SetCloud, LaunchInv, Launched
<1>29. ASSUME NEW i \in Instance, InstanceStops(i)
      PROVE  LaunchInv'
  BY <1>29, ConfigFixed DEF InstanceStops, SetCloud, LaunchInv, Launched
<1>30. ASSUME NEW i \in Instance, Interrupt(i)
      PROVE  LaunchInv'
  BY <1>30, ConfigFixed DEF Interrupt, SetCloud, LaunchInv, Launched
<1>31. CASE UNCHANGED vars
  BY <1>31, ConfigFixed DEF vars, LaunchInv, Launched
<1>32. CASE OpenConfig
  BY <1>32, StarterIsProc, ConfigFixed, TypeGroups
     DEF OpenConfig, Goto, LaunchInv, Launched, RecordInv, WithRecord, ControlType
<1> QED
  BY <1>1, <1>2, <1>3, <1>4, <1>5, <1>6, <1>7, <1>8, <1>9, <1>10, <1>11,
     <1>12, <1>13, <1>14, <1>15, <1>16, <1>17, <1>18, <1>19, <1>20, <1>21,
     <1>22, <1>23, <1>24, <1>25, <1>26, <1>27, <1>28, <1>29, <1>30, <1>31, <1>32
     DEF Next, StartStep, ShutdownStep, RetryConnect, Over

LEMMA LoopInvStep ==
  ASSUME TypeOK, RecordInv, LoopInv, [Next]_vars
  PROVE  LoopInv'
<1>1. CASE CheckRegions
  BY <1>1, TypeGroups DEF CheckRegions, Goto, Raise, LoopInv, ControlType
<1>2. CASE PrepareLaunch
  BY <1>2 DEF PrepareLaunch, Goto, LoopInv
<1>3. CASE LaunchRegion
  BY <1>3, TypeGroups
     DEF LaunchRegion, Goto, Loop, LoopInv, ControlType, LoopType
<1>4. ASSUME NEW i \in Instance, PlaceInstance(i)
      PROVE  LoopInv'
  BY <1>4, TypeGroups
     DEF PlaceInstance, Raise, Goto, LoopDone, LoopInv, ControlType,
         LoopType
<1>5. CASE RecordInstances
  BY <1>5 DEF RecordInstances, Goto, LoopInv
<1>6. CASE TagInstances
  <2>1. \A p \in Procs : /\ mem'[p].ids = mem[p].ids /\ mem'[p].ips = mem[p].ips
                         /\ (mem'[p] = NoRecord) <=> (mem[p] = NoRecord)
                         /\ pc'[p] = IF p = Starter THEN "dump" ELSE pc[p]
    BY <1>6, Tagged
  <2>2. pc[Starter] = "tag" /\ UNCHANGED <<config, cloud, todo, handle, bill>>
    BY <1>6, Tagged
  <2> QED
    BY <2>1, <2>2 DEF LoopInv
<1>7. CASE DumpConfig
  BY <1>7 DEF DumpConfig, Goto, Loop, LoopInv
<1>8. CASE BootDone
  BY <1>8 DEF BootDone, Goto, Loop, LoopInv
<1>9. CASE BootTimedOut
  BY <1>9 DEF BootTimedOut, Goto, LoopInv
<1>10. ASSUME NEW yes \in BOOLEAN, AnswerBootFailed(yes)
      PROVE  LoopInv'
  BY <1>10, TypeGroups
     DEF AnswerBootFailed, BeginShutdown, Raise, Goto, Loop, LoopInv,
         ControlType, LoopType
<1>11. CASE StartupNetwork
  BY <1>11 DEF StartupNetwork, Goto, LoopInv
<1>12. CASE RedumpConfig
  BY <1>12 DEF RedumpConfig, Goto, LoopInv
<1>13. CASE FinishStartup
  BY <1>13, TypeGroups DEF FinishStartup, Raise, Goto, LoopInv, ControlType
<1>14. ASSUME NEW yes \in BOOLEAN, AnswerAbort(yes)
      PROVE  LoopInv'
  BY <1>14, TypeGroups
     DEF AnswerAbort, Goto, Loop, LoopInv, ControlType, LoopType
<1>15. ASSUME NEW p \in Procs, NEW h \in Instance, Connect(p, h)
      PROVE  LoopInv'
  BY <1>15 DEF Connect, LoopDone, LoopInv
<1>16. ASSUME NEW p \in Procs, Connected(p)
      PROVE  LoopInv'
  BY <1>16 DEF Connected, Goto, AfterConnect, LoopInv
<1>17. ASSUME NEW p \in Procs, ShutdownNetwork(p)
      PROVE  LoopInv'
  BY <1>17, TypeGroups DEF ShutdownNetwork, Goto, LoopInv, LoopType
<1>18. ASSUME NEW p \in Procs, LookupRegion(p)
      PROVE  LoopInv'
  BY <1>18, TypeGroups
     DEF LookupRegion, Goto, Loop, OfRegion, LoopInv, ControlType,
         LoopType
<1>19. ASSUME NEW p \in Procs, NEW i \in Instance, StopInstance(p, i)
      PROVE  LoopInv'
  BY <1>19, TypeGroups
     DEF StopInstance, Raise, Goto, LoopDone, LoopInv, ControlType,
         LoopType
<1>20. ASSUME NEW p \in Procs, FinishRegion(p)
      PROVE  LoopInv'
  BY <1>20, TypeGroups
     DEF FinishRegion, Raise, Goto, Loop, BilledInstances, LoopInv,
         ControlType, LoopType
<1>21. ASSUME NEW p \in Procs, NEW i \in Instance, AwaitStopped(p, i)
      PROVE  LoopInv'
  BY <1>21, TypeGroups
     DEF AwaitStopped, Raise, Goto, LoopDone, LoopInv, ControlType,
         LoopType
<1>22. ASSUME NEW p \in Procs, WriteBill(p)
      PROVE  LoopInv'
  BY <1>22 DEF WriteBill, Goto, Loop, LoopInv
<1>23. ASSUME NEW p \in Procs, NEW i \in Instance, TerminateInstance(p, i)
      PROVE  LoopInv'
  BY <1>23 DEF TerminateInstance, LoopDone, LoopInv
<1>24. ASSUME NEW p \in Procs, ReportShutdown(p)
      PROVE  LoopInv'
  BY <1>24 DEF ReportShutdown, Goto, LoopInv
<1>25. ASSUME NEW p \in Procs, Fail(p)
      PROVE  LoopInv'
  BY <1>25 DEF Fail, Raise, Goto, LoopInv
<1>26. ASSUME NEW p \in Procs, Kill(p)
      PROVE  LoopInv'
  BY <1>26 DEF Kill, Goto, LoopInv
<1>27. ASSUME NEW t \in Terminators, StartTerminate(t)
      PROVE  LoopInv'
  BY <1>27, Terminating, TypeGroups
     DEF LoopInv, ControlType, LoopType, RecordType
<1>28. ASSUME NEW i \in Instance, InstanceRuns(i)
      PROVE  LoopInv'
  BY <1>28 DEF InstanceRuns, LoopInv
<1>29. ASSUME NEW i \in Instance, InstanceStops(i)
      PROVE  LoopInv'
  BY <1>29 DEF InstanceStops, LoopInv
<1>30. ASSUME NEW i \in Instance, Interrupt(i)
      PROVE  LoopInv'
  BY <1>30 DEF Interrupt, LoopInv
<1>31. CASE UNCHANGED vars
  BY <1>31 DEF vars, LoopInv
<1>32. CASE OpenConfig
  BY <1>32, TypeGroups DEF OpenConfig, Goto, LoopInv, ControlType
<1> QED
  BY <1>1, <1>2, <1>3, <1>4, <1>5, <1>6, <1>7, <1>8, <1>9, <1>10, <1>11,
     <1>12, <1>13, <1>14, <1>15, <1>16, <1>17, <1>18, <1>19, <1>20, <1>21,
     <1>22, <1>23, <1>24, <1>25, <1>26, <1>27, <1>28, <1>29, <1>30, <1>31, <1>32
     DEF Next, StartStep, ShutdownStep, RetryConnect, Over

LEMMA BarrierInvStep ==
  ASSUME TypeOK, RecordInv, LaunchInv, LoopInv, BarrierInv, [Next]_vars
  PROVE  BarrierInv'
<1>1. CASE CheckRegions
  BY <1>1, TypeGroups DEF CheckRegions, Goto, Raise, BarrierInv, ControlType
<1>2. CASE PrepareLaunch
  BY <1>2 DEF PrepareLaunch, Goto, BarrierInv
<1>3. CASE LaunchRegion
  <2>1. \A p \in Procs : pc[p] \notin {"wait", "terminate"}
    BY <1>3
       DEF LaunchRegion, RecordInv, WithRecord, ShutdownSteps,
           BeforeRecord
  <2> QED
    BY <1>3, <2>1, TypeGroups DEF LaunchRegion, Goto, BarrierInv, ControlType
<1>4. ASSUME NEW i \in Instance, PlaceInstance(i)
      PROVE  BarrierInv'
  BY <1>4, TypeGroups
     DEF PlaceInstance, Raise, Goto, LoopDone, BarrierInv, ControlType,
         LoopType
<1>5. CASE RecordInstances
  BY <1>5 DEF RecordInstances, Goto, BarrierInv
<1>6. CASE TagInstances
  <2>1. \A p \in Procs : /\ mem'[p].ids = mem[p].ids /\ mem'[p].ips = mem[p].ips
                         /\ (mem'[p] = NoRecord) <=> (mem[p] = NoRecord)
                         /\ pc'[p] = IF p = Starter THEN "dump" ELSE pc[p]
    BY <1>6, Tagged
  <2>2. pc[Starter] = "tag" /\ UNCHANGED <<config, cloud, todo, handle, bill>>
    BY <1>6, Tagged
  <2> QED
    BY <2>1, <2>2 DEF BarrierInv
<1>7. CASE DumpConfig
  BY <1>7 DEF DumpConfig, Goto, Loop, BarrierInv
<1>8. CASE BootDone
  BY <1>8 DEF BootDone, Goto, Loop, BarrierInv
<1>9. CASE BootTimedOut
  BY <1>9 DEF BootTimedOut, Goto, BarrierInv
<1>10. ASSUME NEW yes \in BOOLEAN, AnswerBootFailed(yes)
      PROVE  BarrierInv'
  BY <1>10, TypeGroups
     DEF AnswerBootFailed, BeginShutdown, Raise, Goto, Loop, BarrierInv,
         ControlType, LoopType
<1>11. CASE StartupNetwork
  BY <1>11 DEF StartupNetwork, Goto, BarrierInv
<1>12. CASE RedumpConfig
  BY <1>12 DEF RedumpConfig, Goto, BarrierInv
<1>13. CASE FinishStartup
  BY <1>13, TypeGroups DEF FinishStartup, Raise, Goto, BarrierInv, ControlType
<1>14. ASSUME NEW yes \in BOOLEAN, AnswerAbort(yes)
      PROVE  BarrierInv'
  BY <1>14, TypeGroups
     DEF AnswerAbort, Goto, Loop, BarrierInv, ControlType, LoopType
<1>15. ASSUME NEW p \in Procs, NEW h \in Instance, Connect(p, h)
      PROVE  BarrierInv'
  BY <1>15 DEF Connect, LoopDone, BarrierInv
<1>16. ASSUME NEW p \in Procs, Connected(p)
      PROVE  BarrierInv'
  BY <1>16 DEF Connected, Goto, AfterConnect, BarrierInv
<1>17. ASSUME NEW p \in Procs, ShutdownNetwork(p)
      PROVE  BarrierInv'
  BY <1>17 DEF ShutdownNetwork, Goto, BarrierInv
<1>18. ASSUME NEW p \in Procs, LookupRegion(p)
      PROVE  BarrierInv'
  BY <1>18, TypeGroups
     DEF LookupRegion, Goto, Loop, BarrierInv, ControlType, LoopType
<1>19. ASSUME NEW p \in Procs, NEW i \in Instance, StopInstance(p, i)
      PROVE  BarrierInv'
  <2>1. \A j \in Instance :
          cloud[j] \in {"stopped", "terminated"} => cloud'[j] = cloud[j]
    BY <1>19, TypeGroups DEF StopInstance, SetCloud, CloudType
  <2>2. \A q \in Procs : pc'[q] \in {"wait", "terminate"} =>
          pc'[q] = pc[q] /\ todo'[q] = todo[q] /\ mem[q].ids \subseteq Instance
    BY <1>19, RecordOfRun, TypeGroups
       DEF StopInstance, Raise, Goto, LoopDone, ControlType, LoopType,
           WithRecord, ShutdownSteps
  <2> QED
    BY <1>19, <2>1, <2>2 DEF StopInstance, BarrierInv
<1>20. ASSUME NEW p \in Procs, FinishRegion(p)
      PROVE  BarrierInv'
  BY <1>20, TypeGroups
     DEF FinishRegion, Raise, Goto, Loop, BilledInstances, BarrierInv,
         ControlType, LoopType
<1>21. ASSUME NEW p \in Procs, NEW i \in Instance, AwaitStopped(p, i)
      PROVE  BarrierInv'
  BY <1>21, TypeGroups
     DEF AwaitStopped, Raise, Goto, LoopDone, BarrierInv, ControlType,
         LoopType
<1>22. ASSUME NEW p \in Procs, WriteBill(p)
      PROVE  BarrierInv'
  BY <1>22 DEF WriteBill, Goto, Loop, BilledInstances, BarrierInv
<1>23. ASSUME NEW p \in Procs, NEW i \in Instance, TerminateInstance(p, i)
      PROVE  BarrierInv'
  BY <1>23 DEF TerminateInstance, SetCloud, LoopDone, BarrierInv
<1>24. ASSUME NEW p \in Procs, ReportShutdown(p)
      PROVE  BarrierInv'
  BY <1>24 DEF ReportShutdown, Goto, BarrierInv
<1>25. ASSUME NEW p \in Procs, Fail(p)
      PROVE  BarrierInv'
  BY <1>25 DEF Fail, Raise, Goto, BarrierInv
<1>26. ASSUME NEW p \in Procs, Kill(p)
      PROVE  BarrierInv'
  BY <1>26 DEF Kill, Goto, BarrierInv
<1>27. ASSUME NEW t \in Terminators, StartTerminate(t)
      PROVE  BarrierInv'
  BY <1>27, Terminating, TypeGroups
     DEF BarrierInv, ControlType, LoopType, RecordType
<1>28. ASSUME NEW i \in Instance, InstanceRuns(i)
      PROVE  BarrierInv'
  BY <1>28 DEF InstanceRuns, SetCloud, BarrierInv
<1>29. ASSUME NEW i \in Instance, InstanceStops(i)
      PROVE  BarrierInv'
  BY <1>29 DEF InstanceStops, SetCloud, BarrierInv
<1>30. ASSUME NEW i \in Instance, Interrupt(i)
      PROVE  BarrierInv'
  BY <1>30 DEF Interrupt, SetCloud, BarrierInv
<1>31. CASE UNCHANGED vars
  BY <1>31 DEF vars, BarrierInv
<1>32. CASE OpenConfig
  BY <1>32, TypeGroups DEF OpenConfig, Goto, BarrierInv, ControlType
<1> QED
  BY <1>1, <1>2, <1>3, <1>4, <1>5, <1>6, <1>7, <1>8, <1>9, <1>10, <1>11,
     <1>12, <1>13, <1>14, <1>15, <1>16, <1>17, <1>18, <1>19, <1>20, <1>21,
     <1>22, <1>23, <1>24, <1>25, <1>26, <1>27, <1>28, <1>29, <1>30, <1>31, <1>32
     DEF Next, StartStep, ShutdownStep, RetryConnect, Over

LEMMA PlaceInvStep ==
  ASSUME TypeOK, RecordInv, LaunchInv, PlaceInv, [Next]_vars
  PROVE  PlaceInv'
<1>1. CASE CheckRegions
  BY <1>1, TypeGroups DEF CheckRegions, Goto, Raise, PlaceInv, ControlType
<1>2. CASE PrepareLaunch
  BY <1>2 DEF PrepareLaunch, Goto, PlaceInv
<1>3. CASE LaunchRegion
  <2>1. CASE region[Starter] = NumRegions
    <3>1. todo'[Starter] = Requested
      BY <1>3, <2>1, StarterIsProc, TypeGroups
         DEF LaunchRegion, Loop, LoopType
    <3>2. ips' = [n \in 0..(vmCount - 1) |-> NoHost] /\ vmCount' = vmCount
      BY <1>3, <2>1 DEF LaunchRegion
    <3> QED
      BY <3>1, <3>2, ConfigFixed DEF PlaceInv
  <2>2. CASE region[Starter] # NumRegions
    BY <1>3, <2>2 DEF LaunchRegion, PlaceInv
  <2> QED
    BY <2>1, <2>2
<1>4. ASSUME NEW i \in Instance, PlaceInstance(i)
      PROVE  PlaceInv'
  <2>1. CASE cloud[i] = "running" /\ SlotOf(i) < vmCount
    <3>1. /\ i \in Requested /\ i \in todo[Starter]
          /\ todo[Starter] \subseteq Requested /\ Requested \subseteq Instance
          /\ pc[Starter] = "place"
      <4>1. i \in todo[Starter] /\ pc[Starter] = "place"
        BY <1>4 DEF PlaceInstance, Earliest
      <4>2. Requested \subseteq Instance
        BY DEF Requested
      <4> QED
        BY <4>1, <4>2 DEF PlaceInv
    <3>2. vmCount \in Nat /\ SlotOf(i) \in 0..(vmCount - 1)
      <4>1. vmCount \in Nat
        BY InputsAssumption DEF TypeOK
      <4>2. SlotOf(i) \in Nat
        BY <3>1, SlotIsNat
      <4> QED
        BY <2>1, <4>1, <4>2
    <3>3. /\ todo'[Starter] = todo[Starter] \ {i}
          /\ ips' = [ips EXCEPT ![SlotOf(i)] = i]
          /\ vmCount' = vmCount
      BY <1>4, <2>1, StarterIsProc, TypeGroups
         DEF PlaceInstance, LoopDone, LoopType
    <3>4. DOMAIN ips = 0..(vmCount - 1) /\ DOMAIN ips' = 0..(vmCount' - 1)
      BY <3>1, <3>3 DEF PlaceInv
    <3>5. ips'[SlotOf(i)] = i
      BY <3>2, <3>3, <3>4
    <3>6. ASSUME NEW j \in Requested \ todo[Starter]
          PROVE  SlotOf(j) \in DOMAIN ips /\ ips'[SlotOf(j)] = j
      <4>1. SlotOf(j) # SlotOf(i)
        BY <3>1, <3>6, SlotInjective
      <4> QED
        BY <3>1, <3>3, <3>6, <4>1 DEF PlaceInv
    <3>7. ASSUME NEW n \in DOMAIN ips, n # SlotOf(i)
          PROVE  \/ ips'[n] = NoHost
                 \/ ips'[n] \in Requested \ todo'[Starter] /\ SlotOf(ips'[n]) = n
      BY <3>1, <3>3, <3>7 DEF PlaceInv
    <3> QED
      BY <3>1, <3>2, <3>3, <3>4, <3>5, <3>6, <3>7, ConfigFixed DEF PlaceInv
  <2>2. CASE ~(cloud[i] = "running" /\ SlotOf(i) < vmCount)
    BY <1>4, <2>2, StarterIsProc, TypeGroups
       DEF PlaceInstance, Raise, Goto, PlaceInv, ControlType
  <2> QED
    BY <2>1, <2>2
<1>5. CASE RecordInstances
  BY <1>5, ConfigFixed DEF RecordInstances, PlaceInv
<1>6. CASE TagInstances
  BY <1>6, Tagged, TypeGroups DEF PlaceInv, ControlType
<1>7. CASE DumpConfig
  BY <1>7 DEF DumpConfig, Goto, PlaceInv
<1>8. CASE BootDone
  BY <1>8 DEF BootDone, Goto, PlaceInv
<1>9. CASE BootTimedOut
  BY <1>9 DEF BootTimedOut, Goto, PlaceInv
<1>10. ASSUME NEW yes \in BOOLEAN, AnswerBootFailed(yes)
      PROVE  PlaceInv'
  BY <1>10, TypeGroups
     DEF AnswerBootFailed, BeginShutdown, Raise, Goto, PlaceInv,
         ControlType
<1>11. CASE StartupNetwork
  BY <1>11 DEF StartupNetwork, Goto, PlaceInv
<1>12. CASE RedumpConfig
  BY <1>12 DEF RedumpConfig, Goto, PlaceInv
<1>13. CASE FinishStartup
  BY <1>13, TypeGroups DEF FinishStartup, Raise, Goto, PlaceInv, ControlType
<1>14. ASSUME NEW yes \in BOOLEAN, AnswerAbort(yes)
      PROVE  PlaceInv'
  BY <1>14, TypeGroups DEF AnswerAbort, Goto, PlaceInv, ControlType
<1>15. ASSUME NEW p \in Procs, NEW h \in Instance, Connect(p, h)
      PROVE  PlaceInv'
  BY <1>15, ConfigFixed DEF Connect, LoopDone, PlaceInv
<1>16. ASSUME NEW p \in Procs, Connected(p)
      PROVE  PlaceInv'
  BY <1>16, ConfigFixed DEF Connected, Goto, AfterConnect, PlaceInv
<1>17. ASSUME NEW p \in Procs, ShutdownNetwork(p)
      PROVE  PlaceInv'
  BY <1>17, ConfigFixed DEF ShutdownNetwork, Goto, PlaceInv
<1>18. ASSUME NEW p \in Procs, LookupRegion(p)
      PROVE  PlaceInv'
  BY <1>18, StarterIsProc, ConfigFixed, TypeGroups
     DEF LookupRegion, Goto, Loop, PlaceInv, ControlType, LoopType
<1>19. ASSUME NEW p \in Procs, NEW i \in Instance, StopInstance(p, i)
      PROVE  PlaceInv'
  BY <1>19, StarterIsProc, ConfigFixed, TypeGroups
     DEF StopInstance, Raise, Goto, LoopDone, PlaceInv, ControlType,
         LoopType
<1>20. ASSUME NEW p \in Procs, FinishRegion(p)
      PROVE  PlaceInv'
  BY <1>20, StarterIsProc, ConfigFixed, TypeGroups
     DEF FinishRegion, Raise, Goto, Loop, PlaceInv, ControlType, LoopType
<1>21. ASSUME NEW p \in Procs, NEW i \in Instance, AwaitStopped(p, i)
      PROVE  PlaceInv'
  BY <1>21, StarterIsProc, ConfigFixed, TypeGroups
     DEF AwaitStopped, Raise, Goto, LoopDone, PlaceInv, ControlType,
         LoopType
<1>22. ASSUME NEW p \in Procs, WriteBill(p)
      PROVE  PlaceInv'
  BY <1>22, ConfigFixed DEF WriteBill, Goto, Loop, PlaceInv
<1>23. ASSUME NEW p \in Procs, NEW i \in Instance, TerminateInstance(p, i)
      PROVE  PlaceInv'
  BY <1>23, ConfigFixed DEF TerminateInstance, LoopDone, PlaceInv
<1>24. ASSUME NEW p \in Procs, ReportShutdown(p)
      PROVE  PlaceInv'
  BY <1>24, ConfigFixed DEF ReportShutdown, Goto, PlaceInv
<1>25. ASSUME NEW p \in Procs, Fail(p)
      PROVE  PlaceInv'
  BY <1>25, ConfigFixed DEF Fail, Raise, Goto, PlaceInv
<1>26. ASSUME NEW p \in Procs, Kill(p)
      PROVE  PlaceInv'
  BY <1>26, ConfigFixed DEF Kill, Goto, PlaceInv
<1>27. ASSUME NEW t \in Terminators, StartTerminate(t)
      PROVE  PlaceInv'
  BY <1>27, Terminating, StarterIsProc, ConfigFixed, TypeGroups
     DEF PlaceInv, ControlType, LoopType
<1>28. ASSUME NEW i \in Instance, InstanceRuns(i)
      PROVE  PlaceInv'
  BY <1>28, ConfigFixed DEF InstanceRuns, PlaceInv
<1>29. ASSUME NEW i \in Instance, InstanceStops(i)
      PROVE  PlaceInv'
  BY <1>29, ConfigFixed DEF InstanceStops, PlaceInv
<1>30. ASSUME NEW i \in Instance, Interrupt(i)
      PROVE  PlaceInv'
  BY <1>30, ConfigFixed DEF Interrupt, PlaceInv
<1>31. CASE UNCHANGED vars
  BY <1>31, ConfigFixed DEF vars, PlaceInv
<1>32. CASE OpenConfig
  BY <1>32, TypeGroups DEF OpenConfig, Goto, PlaceInv, ControlType
<1> QED
  BY <1>1, <1>2, <1>3, <1>4, <1>5, <1>6, <1>7, <1>8, <1>9, <1>10, <1>11,
     <1>12, <1>13, <1>14, <1>15, <1>16, <1>17, <1>18, <1>19, <1>20, <1>21,
     <1>22, <1>23, <1>24, <1>25, <1>26, <1>27, <1>28, <1>29, <1>30, <1>31, <1>32
     DEF Next, StartStep, ShutdownStep, RetryConnect, Over

\* The hosts of a recorded config are its instances.
LEMMA HostsOfPlaced ==
  ASSUME NEW rec, Placed(rec)
  PROVE  rec.ids \subseteq HostsOf(rec)
BY DEF Placed, HostsOf

\* A step that no shutdown is in, before or after, keeps ExclusiveInv.
LEMMA ExclusiveElsewhere ==
  ASSUME NEW p \in Procs, TypeOK, ExclusiveInv, [Next]_vars, ~config.overlap,
         pc' = [pc EXCEPT ![p] = pc'[p]],
         Alive(p)' => Alive(p) \/ \A q \in Procs : ~Alive(q),
         UNCHANGED <<mem, handle, cloud>>,
         todo' = [todo EXCEPT ![p] = todo'[p]],
         pc'[p] = "attach" => mem[p].ids \subseteq todo'[p],
         pc'[p] \notin (ShutdownSteps \ {"attach"}) \cup {"shutdown"}
  PROVE  ExclusiveInv'
<1>1. \A q \in Procs : q # p => pc'[q] = pc[q] /\ todo'[q] = todo[q]
  BY TypeGroups DEF ControlType, LoopType
<1>2. \A q, u \in Procs : Alive(q)' /\ Alive(u)' => q = u
  BY <1>1 DEF Alive, ExclusiveInv
<1> QED
  BY <1>1, <1>2 DEF ExclusiveInv, ShutdownSteps

LEMMA ExclusiveInvStep ==
  ASSUME TypeOK, RecordInv, LaunchInv, LoopInv, BarrierInv, ExclusiveInv, [Next]_vars
  PROVE  ExclusiveInv'
<1>1. CASE CheckRegions
  BY <1>1, TypeGroups
     DEF CheckRegions, Goto, Raise, ExclusiveInv, Alive, Ended,
         ControlType
<1>2. CASE PrepareLaunch
  BY <1>2 DEF PrepareLaunch, Goto, ExclusiveInv, Alive, Ended
<1>3. CASE LaunchRegion
  <2> SUFFICES ASSUME ~config.overlap PROVE ExclusiveInv'
    BY ConfigFixed DEF ExclusiveInv
  <2>1. \A p \in Procs : mem[p] = NoRecord
    BY <1>3 DEF LaunchRegion, RecordInv, BeforeRecord
  <2>2. \A p \in Procs : pc[p] \notin ShutdownSteps \cup {"shutdown"}
    BY <2>1 DEF RecordInv, WithRecord, ExclusiveInv
  <2>3. pc' = pc \/ pc' = [pc EXCEPT ![Starter] = "place"]
    BY <1>3 DEF LaunchRegion, Goto
  <2>4. \A p \in Procs :
          pc'[p] = pc[p] \/ (p = Starter /\ pc'[p] = "place" /\ pc[p] = "launch")
    BY <1>3, <2>3, TypeGroups DEF LaunchRegion, ControlType
  <2>5. \A p, q \in Procs : Alive(p)' /\ Alive(q)' => p = q
    BY <2>4 DEF Alive, Ended, ExclusiveInv
  <2> QED
    BY <2>2, <2>4, <2>5 DEF ExclusiveInv, ShutdownSteps
<1>4. ASSUME NEW i \in Instance, PlaceInstance(i)
      PROVE  ExclusiveInv'
  BY <1>4, StarterIsProc, TypeGroups
     DEF PlaceInstance, Raise, Goto, ExclusiveInv, Alive, Ended,
         ControlType
<1>5. CASE RecordInstances
  BY <1>5 DEF RecordInstances, Goto, ExclusiveInv, Alive, Ended
<1>6. CASE TagInstances
  <2>1. \A p \in Procs : /\ mem'[p].ids = mem[p].ids /\ mem'[p].ips = mem[p].ips
                         /\ (mem'[p] = NoRecord) <=> (mem[p] = NoRecord)
                         /\ pc'[p] = IF p = Starter THEN "dump" ELSE pc[p]
    BY <1>6, Tagged
  <2>2. pc[Starter] = "tag" /\ UNCHANGED <<config, cloud, todo, handle, bill>>
    BY <1>6, Tagged
  <2> QED
    BY <2>1, <2>2 DEF ExclusiveInv, Alive, Ended
<1>7. CASE DumpConfig
  BY <1>7, StarterIsProc DEF DumpConfig, Goto, ExclusiveInv, Alive, Ended
<1>8. CASE BootDone
  BY <1>8, StarterIsProc DEF BootDone, Goto, ExclusiveInv, Alive, Ended
<1>9. CASE BootTimedOut
  BY <1>9 DEF BootTimedOut, Goto, ExclusiveInv, Alive, Ended
<1>10. ASSUME NEW yes \in BOOLEAN, AnswerBootFailed(yes)
      PROVE  ExclusiveInv'
  <2>1. mem[Starter].ids \subseteq HostsOf(mem[Starter]) /\ mem[Starter] # NoRecord
    BY <1>10, StarterIsProc, HostsOfPlaced
       DEF AnswerBootFailed, RecordInv, WithRecord
  <2>2. CASE yes
    <3>1. /\ pc' = [pc EXCEPT ![Starter] = "attach"]
          /\ todo' = [todo EXCEPT ![Starter] = HostsOf(mem[Starter])]
          /\ UNCHANGED <<mem, handle, cloud>> /\ pc[Starter] = "bootfailed"
      BY <1>10, <2>1, <2>2 DEF AnswerBootFailed, BeginShutdown, Goto, Loop
    <3>2. /\ pc'[Starter] = "attach" /\ todo'[Starter] = HostsOf(mem[Starter])
          /\ Alive(Starter)
      BY <3>1, StarterIsProc, TypeGroups
         DEF ControlType, LoopType, Alive, Ended
    <3> QED
      BY <2>1, <3>1, <3>2, StarterIsProc, ExclusiveElsewhere,
         ConfigFixed
         DEF ShutdownSteps, ExclusiveInv
  <2>3. CASE ~yes
    BY <1>10, <2>3, TypeGroups
       DEF AnswerBootFailed, Goto, ExclusiveInv, Alive, Ended,
           ControlType
  <2> QED
    BY <2>2, <2>3
<1>11. CASE StartupNetwork
  BY <1>11 DEF StartupNetwork, Goto, ExclusiveInv, Alive, Ended
<1>12. CASE RedumpConfig
  BY <1>12 DEF RedumpConfig, Goto, ExclusiveInv, Alive, Ended
<1>13. CASE FinishStartup
  BY <1>13, TypeGroups
     DEF FinishStartup, Raise, Goto, ExclusiveInv, Alive, Ended,
         ControlType
<1>14. ASSUME NEW yes \in BOOLEAN, AnswerAbort(yes)
      PROVE  ExclusiveInv'
  <2>1. CASE yes /\ mem[Starter] # NoRecord
    <3>1. /\ pc' = [pc EXCEPT ![Starter] = "attach"]
          /\ todo' = [todo EXCEPT ![Starter] = HostsOf(mem[Starter])]
          /\ UNCHANGED <<mem, handle, cloud>> /\ pc[Starter] = "asked"
      BY <1>14, <2>1 DEF AnswerAbort, Goto, Loop
    <3>2. /\ pc'[Starter] = "attach" /\ todo'[Starter] = HostsOf(mem[Starter])
          /\ Alive(Starter)
      BY <3>1, StarterIsProc, TypeGroups
         DEF ControlType, LoopType, Alive, Ended
    <3>3. mem[Starter].ids \subseteq HostsOf(mem[Starter])
      BY <2>1, StarterIsProc, HostsOfPlaced DEF RecordInv
    <3> QED
      BY <3>1, <3>2, <3>3, StarterIsProc, ExclusiveElsewhere,
         ConfigFixed
         DEF ShutdownSteps, ExclusiveInv
  <2>2. CASE ~(yes /\ mem[Starter] # NoRecord)
    BY <1>14, <2>2, TypeGroups
       DEF AnswerAbort, Goto, ExclusiveInv, Alive, Ended, ControlType
  <2> QED
    BY <2>1, <2>2
<1>15. ASSUME NEW p \in Procs, NEW h \in Instance, Connect(p, h)
      PROVE  ExclusiveInv'
  BY <1>15 DEF Connect, LoopDone, Reachable, ExclusiveInv, Alive
<1>16. ASSUME NEW p \in Procs, Connected(p)
      PROVE  ExclusiveInv'
  BY <1>16 DEF Connected, Goto, AfterConnect, ExclusiveInv, Alive, Ended
<1>17. ASSUME NEW p \in Procs, ShutdownNetwork(p)
      PROVE  ExclusiveInv'
  BY <1>17 DEF ShutdownNetwork, Goto, ExclusiveInv, Alive, Ended
<1>18. ASSUME NEW p \in Procs, LookupRegion(p)
      PROVE  ExclusiveInv'
  BY <1>18, TypeGroups
     DEF LookupRegion, Goto, ExclusiveInv, Alive, Ended, ControlType,
         LoopType
<1>19. ASSUME NEW p \in Procs, NEW i \in Instance, StopInstance(p, i)
      PROVE  ExclusiveInv'
  <2> SUFFICES ASSUME ~config.overlap PROVE ExclusiveInv'
    BY ConfigFixed DEF ExclusiveInv
  <2>1. i \in handle[p] /\ pc[p] = "stop" /\ UNCHANGED <<mem, handle>>
    BY <1>19 DEF StopInstance, Earliest, OfRegion, LoopInv
  <2>2. \A q \in Procs : Alive(q) => q = p
    BY <2>1 DEF ExclusiveInv, Alive, Ended
  <2>3. \A j \in Instance :
          /\ cloud[j] = "terminated" => cloud'[j] = "terminated"
          /\ j # i => cloud'[j] = cloud[j]
    BY <1>19, TypeGroups DEF StopInstance, SetCloud, CloudType
  <2>4. \A q \in Procs : mem[q] # NoRecord => mem[q].ids \subseteq Instance
    BY DEF TypeOK, Record
  <2>5. /\ \A q \in Procs : q # p => pc'[q] = pc[q] /\ todo'[q] = todo[q]
        /\ pc'[p] \in {"stop", "asked", "exited"}
    BY <1>19, TypeGroups
       DEF StopInstance, Raise, Goto, LoopDone, ControlType, LoopType
  <2>6. \A q, u \in Procs : Alive(q)' /\ Alive(u)' => q = u
    BY <2>2, <2>5 DEF Alive
  <2>7. \A q \in Procs : q # p => pc[q] \in Ended \cup {"idle"}
    BY <2>2 DEF Alive
  <2>8. mem[p] # NoRecord
    BY <2>1 DEF RecordInv, WithRecord, ShutdownSteps
  <2> QED
    BY <2>1, <2>3, <2>4, <2>5, <2>6, <2>7, <2>8 DEF ExclusiveInv, Ended
<1>20. ASSUME NEW p \in Procs, FinishRegion(p)
      PROVE  ExclusiveInv'
  BY <1>20, TypeGroups
     DEF FinishRegion, Raise, Goto, Loop, BilledInstances, ExclusiveInv,
         Alive, Ended, ControlType, LoopType
<1>21. ASSUME NEW p \in Procs, NEW i \in Instance, AwaitStopped(p, i)
      PROVE  ExclusiveInv'
  BY <1>21, TypeGroups
     DEF AwaitStopped, Raise, Goto, LoopDone, ExclusiveInv, Alive, Ended,
         ControlType, LoopType
<1>22. ASSUME NEW p \in Procs, WriteBill(p)
      PROVE  ExclusiveInv'
  BY <1>22, TypeGroups
     DEF WriteBill, Goto, Loop, ExclusiveInv, Alive, Ended, LoopType
<1>23. ASSUME NEW p \in Procs, NEW i \in Instance, TerminateInstance(p, i)
      PROVE  ExclusiveInv'
  BY <1>23, TypeGroups
     DEF TerminateInstance, SetCloud, LoopDone, ExclusiveInv, Alive,
         CloudType
<1>24. ASSUME NEW p \in Procs, ReportShutdown(p)
      PROVE  ExclusiveInv'
  <2> SUFFICES ASSUME ~config.overlap PROVE ExclusiveInv'
    BY ConfigFixed DEF ExclusiveInv
  <2>1. /\ pc[p] = "terminate" /\ todo[p] = {}
        /\ UNCHANGED <<mem, handle, cloud, todo>>
    BY <1>24 DEF ReportShutdown
  <2>2. /\ \A q \in Procs : q # p => pc'[q] = pc[q]
        /\ pc'[p] = "shutdown"
    BY <1>24, TypeGroups DEF ReportShutdown, Goto, ControlType
  <2>3. mem[p] # NoRecord /\ \A i \in mem[p].ids : cloud[i] = "terminated"
    BY <2>1 DEF RecordInv, WithRecord, ShutdownSteps, ExclusiveInv
  <2>4. \A q, u \in Procs : Alive(q)' /\ Alive(u)' => q = u
    BY <2>2 DEF Alive, Ended, ExclusiveInv
  <2> QED
    BY <2>1, <2>2, <2>3, <2>4 DEF ExclusiveInv
<1>25. ASSUME NEW p \in Procs, Fail(p)
      PROVE  ExclusiveInv'
  <2> SUFFICES ASSUME ~config.overlap PROVE ExclusiveInv'
    BY ConfigFixed DEF ExclusiveInv
  <2>1. Alive(p) /\ UNCHANGED <<mem, handle, cloud, todo>>
    BY <1>25 DEF Fail, Alive, Ended, StartSteps, ShutdownSteps
  <2>2. /\ \A q \in Procs : q # p => pc'[q] = pc[q]
        /\ pc'[p] \in {"asked", "exited"}
    BY <1>25, TypeGroups DEF Fail, Raise, Goto, ControlType
  <2>3. \A q, u \in Procs : Alive(q)' /\ Alive(u)' => q = u
    BY <2>1, <2>2 DEF Alive, ExclusiveInv
  <2> QED
    BY <2>1, <2>2, <2>3 DEF ExclusiveInv
<1>26. ASSUME NEW p \in Procs, Kill(p)
      PROVE  ExclusiveInv'
  BY <1>26 DEF Kill, Goto, ExclusiveInv, Alive
<1>27. ASSUME NEW t \in Terminators, StartTerminate(t)
      PROVE  ExclusiveInv'
  <2> SUFFICES ASSUME ~config.overlap PROVE ExclusiveInv'
    BY ConfigFixed DEF ExclusiveInv
  <2>1. t \in Procs /\ \A q \in Procs : ~Alive(q)
    BY <1>27, Terminating
  <2>2. \A q \in Procs : q # t => /\ pc'[q] = pc[q] /\ todo'[q] = todo[q]
                                 /\ mem'[q] = mem[q] /\ handle'[q] = handle[q]
    BY <1>27, Terminating, TypeGroups DEF ControlType, LoopType, RecordType
  <2>3. cloud' = cloud
    BY <1>27, Terminating
  <2>4. \A p, q \in Procs : Alive(p)' /\ Alive(q)' => p = q
    BY <2>1, <2>2 DEF Alive
  <2>5. CASE pc'[t] \in {"asked", "exited"}
    BY <2>2, <2>3, <2>4, <2>5 DEF ExclusiveInv
  <2>6. CASE /\ disk \in Record /\ Readable
             /\ mem' = [mem EXCEPT ![t] = disk]
             /\ pc' = [pc EXCEPT ![t] = "attach"]
             /\ todo' = [todo EXCEPT ![t] = HostsOf(disk)]
    <3>1. disk.ids \subseteq HostsOf(disk)
      BY <2>6, HostsOfPlaced DEF RecordInv
    <3>2. pc'[t] = "attach" /\ todo'[t] = HostsOf(disk) /\ mem'[t] = disk
      BY <2>1, <2>6, TypeGroups DEF ControlType, LoopType, RecordType
    <3> QED
      BY <2>2, <2>3, <2>4, <3>1, <3>2 DEF ExclusiveInv
  <2>7. disk = Torn => pc'[t] \in {"asked", "exited"}
    BY <1>27, <2>1, Terminating, RecordIsThere, TypeGroups DEF ControlType
  <2> QED
    BY <1>27, <2>5, <2>6, <2>7, Terminating
<1>28. ASSUME NEW i \in Instance, InstanceRuns(i)
      PROVE  ExclusiveInv'
  BY <1>28 DEF InstanceRuns, SetCloud, ExclusiveInv, Alive
<1>29. ASSUME NEW i \in Instance, InstanceStops(i)
      PROVE  ExclusiveInv'
  BY <1>29 DEF InstanceStops, SetCloud, ExclusiveInv, Alive
<1>30. ASSUME NEW i \in Instance, Interrupt(i)
      PROVE  ExclusiveInv'
  BY <1>30 DEF Interrupt, SetCloud, ExclusiveInv, Alive
<1>31. CASE UNCHANGED vars
  BY <1>31 DEF vars, ExclusiveInv, Alive
<1>32. CASE OpenConfig
  BY <1>32, TypeGroups DEF OpenConfig, Goto, ExclusiveInv, Alive, Ended, ControlType
<1> QED
  BY <1>1, <1>2, <1>3, <1>4, <1>5, <1>6, <1>7, <1>8, <1>9, <1>10, <1>11,
     <1>12, <1>13, <1>14, <1>15, <1>16, <1>17, <1>18, <1>19, <1>20, <1>21,
     <1>22, <1>23, <1>24, <1>25, <1>26, <1>27, <1>28, <1>29, <1>30, <1>31, <1>32
     DEF Next, StartStep, ShutdownStep, RetryConnect, Over

-----------------------------------------------------------------------------
(* The inductive invariant                                                 *)

LEMMA InitHolds ==
  ASSUME Init
  PROVE  IInv
<1>1. vmCount \in VmCounts /\ ips \in IpArray
  BY EmptyArray DEF Init, Config
<1>2. TypeOK
  BY <1>1, RegionsAssumption
     DEF Init, TypeOK, Label, Status, StartSteps, Region
<1>3. \A p \in Procs : mem[p] = NoRecord /\ pc[p] \in {"check", "idle"}
  BY DEF Init
<1>4. pc[Starter] = "check" /\ Launched = {} /\ region[Starter] = 1
  BY StarterIsProc DEF Init, Launched
<1>5. RecordInv
  BY <1>3, StarterIsProc DEF RecordInv, WithRecord, ShutdownSteps, Readable, Init
<1>6. LaunchInv
  BY <1>3, <1>4 DEF LaunchInv, Init
<1>7. PlaceInv /\ LoopInv /\ BarrierInv
  BY <1>3, <1>4 DEF PlaceInv, LoopInv, BarrierInv
<1>8. ExclusiveInv
  BY <1>3 DEF ExclusiveInv, Alive, Init
<1> QED
  BY <1>2, <1>5, <1>6, <1>7, <1>8 DEF IInv

LEMMA StepHolds ==
  ASSUME IInv, [Next]_vars
  PROVE  IInv'
<1> USE DEF IInv
<1>1. TypeOK'
  <2>1. ControlType' /\ CloudType'
    BY TypeGroups, ControlStep, CloudStep
  <2>2. RecordType' /\ LoopType'
    BY RecordStep, LoopStep
  <2> QED
    BY <2>1, <2>2 DEF TypeOK, ControlType, CloudType, RecordType, LoopType
<1>2. RecordInv' /\ LaunchInv' /\ PlaceInv'
  BY RecordInvStep, LaunchInvStep, PlaceInvStep
<1>3. LoopInv' /\ BarrierInv' /\ ExclusiveInv'
  BY LoopInvStep, BarrierInvStep, ExclusiveInvStep
<1> QED
  BY <1>1, <1>2, <1>3

\* The invariant of the whole lifecycle: what launching, placing, recording,
\* stopping, billing and terminating have established at each label.
THEOREM Invariance == Spec => []IInv
<1>1. Init => IInv
  BY InitHolds
<1>2. IInv /\ [Next]_vars => IInv'
  BY StepHolds
<1> QED
  BY <1>1, <1>2, PTL DEF Spec

-----------------------------------------------------------------------------
(* The properties                                                          *)

\* Every variable keeps its type, `ips` included: placing never writes past
\* the array that vm_count allocated.
THEOREM TypeCorrect == Spec => []TypeOK
<1>1. IInv => TypeOK
  BY DEF IInv
<1> QED
  BY <1>1, Invariance, PTL

LEMMA WrittenStep ==
  ASSUME IInv, WrittenInv, [Next]_vars
  PROVE  WrittenInv'
<1> USE DEF IInv
<1>1. CASE DumpConfig \/ RedumpConfig
  <2>1. pc[Starter] \in WithRecord /\ disk' = mem[Starter]
    BY <1>1 DEF DumpConfig, RedumpConfig, WithRecord
  <2> QED
    BY <2>1, StarterIsProc, RecordOfRun, RecordIsThere DEF WrittenInv, Readable
<1>2. CASE OpenConfig
  BY <1>2, StarterIsProc DEF OpenConfig, Goto, WrittenInv, Written, TypeOK
<1>3. ASSUME disk' = disk, pc'[Starter] \in Written => pc[Starter] \in Written
      PROVE  WrittenInv'
  BY <1>3 DEF WrittenInv, Readable
<1>4. ASSUME NEW p \in Procs, Raise(p), disk' = disk
      PROVE  WrittenInv'
  <2>1. pc'[Starter] \in {pc[Starter], "asked", "exited"}
    BY <1>4, StarterIsProc DEF Raise, Goto, TypeOK
  <2> QED
    BY <1>3, <1>4, <2>1 DEF Written
<1>5. ASSUME NEW p \in Procs, NEW label, label \notin Written, Goto(p, label), disk' = disk
      PROVE  WrittenInv'
  <2>1. pc'[Starter] \in {pc[Starter], label}
    BY <1>5, StarterIsProc DEF Goto, TypeOK
  <2> QED
    BY <1>3, <1>5, <2>1
<1>6. ASSUME NEW p \in Procs, NEW label \in Written, pc[p] \in Written,
             Goto(p, label), disk' = disk
      PROVE  WrittenInv'
  <2>1. pc'[Starter] = pc[Starter] \/ p = Starter
    BY <1>6, StarterIsProc DEF Goto, TypeOK
  <2> QED
    BY <1>3, <1>6, <2>1
<1>7. CASE UNCHANGED <<pc, disk>>
  BY <1>7, <1>3
<1>8. CASE CheckRegions \/ PrepareLaunch \/ LaunchRegion \/ RecordInstances \/ TagInstances
  BY <1>8, <1>4, <1>5, <1>7, StarterIsProc
     DEF CheckRegions, PrepareLaunch, LaunchRegion, RecordInstances,
         TagInstances, Written
<1>9. CASE BootDone \/ BootTimedOut \/ StartupNetwork \/ FinishStartup
  BY <1>9, <1>4, <1>6, StarterIsProc
     DEF BootDone, BootTimedOut, StartupNetwork, FinishStartup, Written
<1>10. ASSUME NEW yes \in BOOLEAN, AnswerBootFailed(yes) \/ AnswerAbort(yes)
       PROVE  WrittenInv'
  BY <1>10, <1>4, <1>5, <1>6, StarterIsProc
     DEF AnswerBootFailed, AnswerAbort, BeginShutdown, Written
<1>11. ASSUME NEW p \in Procs, Connected(p)
       PROVE  WrittenInv'
  BY <1>11, <1>5, <1>6 DEF Connected, AfterConnect, Written
<1>12. ASSUME NEW i \in Instance, NEW p \in Procs,
              \/ PlaceInstance(i) \/ StopInstance(p, i) \/ AwaitStopped(p, i)
              \/ TerminateInstance(p, i) \/ Connect(p, i)
       PROVE  WrittenInv'
  BY <1>12, <1>4, <1>7, StarterIsProc
     DEF PlaceInstance, StopInstance, AwaitStopped, TerminateInstance, Connect
<1>13. ASSUME NEW p \in Procs,
              \/ ShutdownNetwork(p) \/ LookupRegion(p) \/ FinishRegion(p)
              \/ WriteBill(p) \/ ReportShutdown(p) \/ Fail(p) \/ Kill(p)
       PROVE  WrittenInv'
  BY <1>13, <1>4, <1>5, <1>7
     DEF ShutdownNetwork, LookupRegion, FinishRegion, WriteBill,
         ReportShutdown, Fail, Kill, Written
<1>14. ASSUME NEW t \in Terminators, StartTerminate(t)
       PROVE  WrittenInv'
  <2>1. t \in Procs /\ disk' = disk /\ \E label : label \notin Written /\ Goto(t, label)
    BY <1>14, Terminating DEF Goto, Written
  <2> QED
    BY <1>5, <2>1
<1>15. ASSUME NEW i \in Instance, InstanceRuns(i) \/ InstanceStops(i) \/ Interrupt(i)
       PROVE  WrittenInv'
  BY <1>15, <1>7 DEF InstanceRuns, InstanceStops, Interrupt
<1>16. CASE UNCHANGED vars
  BY <1>16, <1>7 DEF vars
<1> QED
  BY <1>1, <1>2, <1>8, <1>9, <1>10, <1>11, <1>12, <1>13, <1>14, <1>15, <1>16,
     StarterIsProc
     DEF Next, StartStep, ShutdownStep, RetryConnect, Over

\* However a start run goes on or dies, a config.json that can be read names
\* exactly the instances it launched, for any number of regions; and from the
\* first complete writing on it can be read, except while it is written again
\* or after the run has failed.
THEOREM LaunchRecordedHolds == Spec => []LaunchRecorded
<1>1. Init => WrittenInv
  BY StarterIsProc DEF Init, WrittenInv, Written
<1>2. IInv /\ WrittenInv /\ [Next]_vars => WrittenInv'
  BY WrittenStep
<1>3. IInv /\ WrittenInv => LaunchRecorded
  BY DEF IInv, RecordInv, LaunchInv, Placed, WrittenInv, Readable, LaunchRecorded
<1> QED
  BY <1>1, <1>2, <1>3, Invariance, PTL DEF Spec

\* As many distinct positions as entries leave no hole (pigeonhole).
LEMMA NoHole ==
  ASSUME NEW rec, Placed(rec), config \in Config,
         Cardinality(Requested) = config.required
  PROVE  NoHost \notin HostsOf(rec)
<1> DEFINE n == config.required
           slot == [i \in Requested |-> SlotOf(i)]
<1>1. n \in Nat \ {0}
  BY InputsAssumption DEF Config
<1>2. DOMAIN rec.ips = 0..(n - 1)
  BY DEF Placed
<1>3. slot \in Injection(Requested, 0..(n - 1))
  <2>1. slot \in [Requested -> 0..(n - 1)]
    BY <1>2 DEF Placed
  <2>2. ASSUME NEW i \in Requested, NEW j \in Requested, slot[i] = slot[j]
        PROVE  i = j
    BY <2>2, SlotInjective DEF Requested
  <2> QED
    BY <2>1, <2>2 DEF Injection, IsInjective
<1>4. IsFiniteSet(0..(n - 1)) /\ Cardinality(0..(n - 1)) = n
  <2>1. 0 \in Int /\ n - 1 \in Int /\ ~(0 > n - 1) /\ (n - 1) - 0 + 1 = n
    BY <1>1
  <2>2. /\ IsFiniteSet(0..(n - 1))
        /\ Cardinality(0..(n - 1)) = IF 0 > n - 1 THEN 0 ELSE (n - 1) - 0 + 1
    BY ONLY <2>1, FS_Interval
  <2> QED
    BY ONLY <2>1, <2>2
<1>5. slot \in Surjection(Requested, 0..(n - 1))
  BY <1>3, <1>4, FS_Injection
<1>6. ASSUME NEW k \in DOMAIN rec.ips
      PROVE  rec.ips[k] # NoHost
  <2>1. PICK i \in Requested : SlotOf(i) = k
    BY <1>2, <1>5 DEF Surjection
  <2> QED
    BY <2>1, NoHostAssumption DEF Placed, Requested
<1> QED
  BY <1>6 DEF HostsOf

\* index1 + index2 * len(regions) gives each launched instance exactly one
\* entry, and fills all of them when the regions' counts add up to vm_count.
THEOREM PlacementExactHolds == Spec => []PlacementExact
<1>1. IInv => PlacementExact
  <2> SUFFICES ASSUME IInv, Readable
               PROVE  /\ \A i \in Launched : \E n \in DOMAIN disk.ips :
                           /\ disk.ips[n] = i
                           /\ \A m \in DOMAIN disk.ips : disk.ips[m] = i => m = n
                      /\ config.required = config.vm => NoHost \notin HostsOf(disk)
    BY DEF PlacementExact
  <2>1. Placed(disk) /\ Launched = Requested /\ Cardinality(Requested) = config.vm
    BY DEF IInv, RecordInv, LaunchInv, Readable
  <2>2. ASSUME NEW i \in Launched
        PROVE  \E n \in DOMAIN disk.ips :
                 disk.ips[n] = i /\ \A m \in DOMAIN disk.ips : disk.ips[m] = i => m = n
    <3>1. SlotOf(i) \in DOMAIN disk.ips /\ disk.ips[SlotOf(i)] = i
      BY <2>1, <2>2 DEF Placed
    <3>2. \A m \in DOMAIN disk.ips : disk.ips[m] = i => m = SlotOf(i)
      BY <2>1, <2>2, NoHostAssumption DEF Placed, Requested
    <3> QED
      BY <3>1, <3>2
  <2>3. config.required = config.vm => NoHost \notin HostsOf(disk)
    BY <2>1, NoHole DEF IInv, TypeOK
  <2> QED
    BY <2>2, <2>3
<1> QED
  BY <1>1, Invariance, PTL

\* Whoever reaches the terminate loop has every instance of its config
\* stopped or gone, and billed.
THEOREM StoppedAndBilledHolds == Spec => []StoppedAndBilled
<1>1. IInv => StoppedAndBilled
  BY DEF IInv, BarrierInv, StoppedAndBilled
<1> QED
  BY <1>1, Invariance, PTL

\* A swallowed lookup never makes a shutdown report more than it did.
THEOREM ShutdownCompleteHolds == Spec => []ShutdownComplete
<1>1. IInv => ShutdownComplete
  BY DEF IInv, ExclusiveInv, ShutdownComplete
<1> QED
  BY <1>1, Invariance, PTL

\* Only a terminate loop, or AWS taking an instance back, terminates.
LEMMA WhoTerminates ==
  ASSUME IInv, NEW k \in Instance, cloud[k] # "terminated", cloud'[k] = "terminated", [Next]_vars
  PROVE  (\E u \in Procs : TerminateInstance(u, k)) \/ Interrupt(k)
<1>1. CASE UNCHANGED <<cloud>>
  BY <1>1 DEF TypeOK
<1>2. CASE LaunchRegion
  BY <1>2 DEF LaunchRegion, LaunchFromRegions
<1>3. ASSUME NEW p \in Procs, NEW i \in Instance, StopInstance(p, i)
      PROVE  (\E u \in Procs : TerminateInstance(u, k)) \/ Interrupt(k)
  BY <1>3 DEF StopInstance, SetCloud, IInv, TypeOK
<1>4. ASSUME NEW p \in Procs, NEW i \in Instance, TerminateInstance(p, i)
      PROVE  (\E u \in Procs : TerminateInstance(u, k)) \/ Interrupt(k)
  BY <1>4 DEF TerminateInstance, SetCloud, IInv, TypeOK
<1>5. ASSUME NEW i \in Instance, InstanceRuns(i)
      PROVE  (\E u \in Procs : TerminateInstance(u, k)) \/ Interrupt(k)
  BY <1>5 DEF InstanceRuns, SetCloud
<1>6. ASSUME NEW i \in Instance, InstanceStops(i)
      PROVE  (\E u \in Procs : TerminateInstance(u, k)) \/ Interrupt(k)
  BY <1>6 DEF InstanceStops, SetCloud
<1>7. ASSUME NEW i \in Instance, Interrupt(i)
      PROVE  (\E u \in Procs : TerminateInstance(u, k)) \/ Interrupt(k)
  BY <1>7 DEF Interrupt, SetCloud, IInv, TypeOK
<1> QED
  BY <1>1, <1>2, <1>3, <1>4, <1>5, <1>6, <1>7
     DEF Next, StartStep, ShutdownStep, RetryConnect, Over, CheckRegions,
         PrepareLaunch, PlaceInstance, RecordInstances, TagInstances, OpenConfig,
         DumpConfig, BootDone, BootTimedOut, AnswerBootFailed,
         StartupNetwork, RedumpConfig, FinishStartup, AnswerAbort,
         Connect, Connected, ShutdownNetwork, LookupRegion, FinishRegion,
         AwaitStopped, WriteBill, ReportShutdown, Fail, Kill,
         StartTerminate, vars

\* Across all runs, overlapping or dying: no instance is terminated by the
\* program before it was stopped and its uptime billed.
THEOREM BilledBeforeTerminatedHolds == Spec => BilledBeforeTerminated
<1> DEFINE Step ==
      \A i \in Instance :
        cloud[i] # "terminated" /\ cloud'[i] = "terminated" =>
          \/ cloud[i] = "stopped" /\ i \in bill
          \/ cloud[i] \in {"pending", "running"} /\ budget' < budget
<1>1. IInv /\ [Next]_vars => Step
  <2> SUFFICES ASSUME IInv, [Next]_vars, NEW i \in Instance,
                      cloud[i] # "terminated", cloud'[i] = "terminated"
               PROVE  \/ cloud[i] = "stopped" /\ i \in bill
                      \/ cloud[i] \in {"pending", "running"} /\ budget' < budget
    OBVIOUS
  <2>1. CASE \E p \in Procs : TerminateInstance(p, i)
    <3>1. PICK p \in Procs : TerminateInstance(p, i)
      BY <2>1
    <3>2. i \in mem[p].ids /\ pc[p] = "terminate"
      BY <3>1 DEF IInv, LoopInv, TerminateInstance, Earliest
    <3> QED
      BY <3>2 DEF IInv, BarrierInv
  <2>2. CASE Interrupt(i)
    BY <2>2 DEF Interrupt, IInv, TypeOK
  <2> QED
    BY <2>1, <2>2, WhoTerminates
<1>2. [][Step]_vars => BilledBeforeTerminated
  BY PTL DEF BilledBeforeTerminated
<1> QED
  BY <1>1, <1>2, Invariance, PTL DEF Spec

LEMMA VmCountStep ==
  ASSUME IInv, VmCountInv, [Next]_vars
  PROVE  VmCountInv'
<1>1. config' = config
  BY ConfigFixed
<1>2. CASE UNCHANGED <<vmCount, mem, disk>>
  BY <1>1, <1>2 DEF VmCountInv
<1>3. CASE PrepareLaunch
  BY <1>1, <1>3 DEF PrepareLaunch, VmCountInv
<1>4. CASE RecordInstances
  BY <1>1, <1>4 DEF RecordInstances, VmCountInv, IInv, LaunchInv
<1>5. CASE OpenConfig \/ DumpConfig \/ RedumpConfig
  <2>1. /\ pc[Starter] \in {"dump", "write", "redump", "rewrite"}
        /\ UNCHANGED <<vmCount, mem>>
    BY <1>5 DEF OpenConfig, DumpConfig, RedumpConfig
  <2>2. mem[Starter] # NoRecord
    BY <2>1, StarterIsProc DEF IInv, RecordInv, WithRecord
  <2> QED
    BY <1>1, <2>1, <2>2, StarterIsProc DEF VmCountInv
<1>6. ASSUME NEW t \in Terminators, StartTerminate(t)
      PROVE  VmCountInv'
  BY <1>1, <1>6, Terminating DEF VmCountInv, IInv
<1>7. CASE TagInstances
  BY <1>1, <1>7, Tagged DEF VmCountInv, IInv
<1> QED
  BY <1>2, <1>3, <1>4, <1>5, <1>6, <1>7
     DEF Next, StartStep, ShutdownStep, RetryConnect, Over, CheckRegions,
         LaunchRegion, PlaceInstance, BootDone, BootTimedOut,
         AnswerBootFailed, StartupNetwork, FinishStartup, AnswerAbort,
         Connect, Connected, ShutdownNetwork, LookupRegion, StopInstance,
         FinishRegion, AwaitStopped, WriteBill, TerminateInstance,
         ReportShutdown, Fail, Kill, InstanceRuns, InstanceStops, Interrupt,
         vars

\* README.MD:14 says that vm_count instances are started.  Of a network that was
\* recorded this is true exactly if the framework's check_config has left
\* vm_count as it was (Node_Handler.py:241-269): the overwritten count is the
\* only way to the violation that the run vmcount shows.
THEOREM VmCountLaunchedWhenKept ==
  Spec => [](Readable => (VmCountLaunched <=> config.required = config.vm))
<1>1. Init => VmCountInv
  BY DEF Init, VmCountInv
<1>2. IInv /\ VmCountInv /\ [Next]_vars => VmCountInv'
  BY VmCountStep
<1>3. IInv /\ VmCountInv =>
        (Readable => (VmCountLaunched <=> config.required = config.vm))
  <2> SUFFICES ASSUME IInv, VmCountInv, Readable
               PROVE  VmCountLaunched <=> config.required = config.vm
    OBVIOUS
  <2>1. Cardinality(Launched) = config.vm /\ vmCount = config.required
    BY DEF IInv, LaunchInv, VmCountInv, Readable
  <2> QED
    BY <2>1 DEF VmCountLaunched
<1> QED
  BY <1>1, <1>2, <1>3, Invariance, PTL DEF Spec
=============================================================================
