# A TLA+ verification of BlockchainFormation

BlockchainFormation deploys blockchain networks on AWS (or on given machines):
one Python process on the operator's computer drives many virtual machines over
ssh and scp.  There is no server and no database; the state is spread over the
memory of the running script, the file `config.json` of the experiment, and the
machines themselves.  What is hard about the program follows from that: runs die
half-way, machines answer late or not at all, steps on many machines must happen
in an order, failures are swallowed, and loops retry without end.

Paths below are relative to `src/BlockchainFormation/`.

## 1. Inventory

| component | state it keeps | operations | interacts with | what makes it correct |
|---|---|---|---|---|
| Lifecycle: `Node_Handler.py`, `run.py`, the barrier of `cost_calculator.py` | `self.config` in memory, `config.json`, `self.ec2_instances`, `aws_costs.json` | launch by region, place addresses, record, wait for boot, start network, stop, bill, terminate | EC2 (external), the networks' `startup`/`shutdown`, `wait_till_done` | nothing launched is ever unrecorded; stop, bill, terminate in that order over all regions; loops end |
| Completion polling: `utils/utils.py` `wait_till_done` | sticky flag per machine, timer | poll a file on every machine, reconnect on an ssh error | every network, the machines' log files | a flag means the job of *this* wait is done; ends within the time limit |
| Fabric layout: `check_config`, index ranges, groups, `write_*` | ranges of VM indices, organisations | compute them in several places | launch (vm_count), containers, groups | the ranges are disjoint, cover what was launched, and all places agree |
| Fabric push: `push_stuff`, doubling broadcast, `push_chaincode` | finished / remaining indices, files and `key.pem` on the VMs | rounds of machine-to-machine copies | VMs | every VM gets everything, a source has what it copies, keys are removed |
| Fabric deployment: `start_docker_containers`, `script_raw_2.sh`, `script_raw_3.sh`, leader shutdown, restart | containers, channels, chaincodes | start with retries, join, install, stop a leader, restart | VMs, docker swarm | success is reported only if everything is up |
| Quorum | peers, raft ids, per-node status | start with retries, add peers, kill and restart nodes, restart | VMs, `wait_till_done` | retries restart what failed; raft ids agree with the cluster's |
| Geth, Parity | signers/authorities, enode list, transaction-pool files | account and genesis generation, `add_peer`, kill, revive, restart | VMs | every signer has its account; a revived node joins; loops end |
| Sawtooth + transaction processor | validators, consensus roster, addressed state | start, stop, restart, `apply` | VMs, validator | set-up is complete before it is checked; addresses are disjoint |
| CouchDB, LevelDB | containers, one store | start, restart, HTTP requests | VMs | one answer per request, a restart waits for the reboot |
| Benchmark chaincode | ledger keys | reads, writes, arithmetic | Fabric peer | writes finish before the transaction does |
| Load balancer, bootstrap scripts, Tezos, Indy, client, Prometheus, empty | - | straight-line I/O | AWS, VMs | not modelled, see section 13 |

`PROJECT.json` lists the hazards at their lines, with the properties that cover
them, or the reason why none does.

## 2. The core: `NodeHandler`

One experiment: one `run.py start` process (`Starter`) and several
`run.py terminate` processes (`Terminators`).  Each has its own memory; they
share only the cloud and `config.json`.

| variable | code |
|---|---|
| `config` | the input config: counts per region, `vm_count`, what the framework's `check_config` makes of it, load balancer, whether the operator overlaps runs |
| `vmCount` | `config['vm_count']` as it is now |
| `cloud` | status of every EC2 instance (external) |
| `pc`, `guarded` | the step a run is in, and whether run.py's `try` is around it |
| `mem`, `disk` | `config['ips']`, `config['instance_ids']` and whether there are `config['launch_times']`, in memory and in `config.json`; the file may also be `Torn`, truncated or written in part |
| `ips` | the local array that placing fills |
| `todo`, `region` | the rest of the loop the run is in |
| `handle` | `self.ec2_instances` of a shutdown |
| `bill` | the instances in `aws_costs.json` |
| `budget` | failures the environment may still inject |

An instance is a pair (region, number), an address is the instance it belongs
to, and `NoHost` is the 0 that the array was filled with.  Actions are the
steps of `run_general_startup` and `run_general_shutdown`, in the code's order:
regions are checked *before* `check_config` changes `vm_count`; a region is
launched all or nothing; an address is put at
`index1 + index2 * len(regions)`, an `IndexError` when that is past the array;
ids are recorded in memory after everything runs; tagging adds the launch times,
without which the bill is a `KeyError` (`FinishRegion`); writing `config.json`
takes two steps, `OpenConfig` truncates the file and `DumpConfig` writes it (lines
413-414), and after the network's start both are done again (`RedumpConfig`, lines
477-478);
connecting retries forever (`RetryConnect`); a shutdown connects, looks up its
instances per region (an exception gives `[]`), stops region by region, waits
for every *recorded* instance to be stopped, bills, terminates.  `Fail` is any
exception or Ctrl-C inside a step, `Kill` the end of the process, `Interrupt`
the loss of a spot instance, the third disjunct of `LookupRegion` a swallowed
query; each uses `budget`.  An exception inside the `try` of run.py leads to its
question (`asked`), and "yes" to the same shutdown.

The framework's own `startup` and `shutdown` are one step here: they change
nothing in the state this module keeps.  `instance_provision = 'own'` and
`vm_count = 0` (lines 364-395) are not modelled.

### Properties

Checked by run `nodehandler` (all hold):

* `LaunchRecorded`: whenever `config.json` can be read it names exactly what was
  launched, however the runs go on or die; and it can be read from the first
  complete writing on, except inside the second one or after a failure.
* `PlacementExact`: the positions are injective and leave no hole if `vm_count`
  was not changed.
* `StoppedAndBilled`: who reaches the terminate loop has everything in its
  config stopped or gone, and billed.
* `BilledBeforeTerminated` (action property): no step of the program terminates
  an instance that is not stopped and billed, runs overlapping included.
* `ShutdownComplete`: without overlap, a shutdown that reports success has
  terminated all its instances although lookups are swallowed.  It holds because
  the bill goes through the recorded ids and not through the instances found:
  the waiter fails on one that nobody stopped.
* `TerminateCompletes`, `StartEnds` (liveness): without further failures a
  terminate run that finds its instances running terminates them, and a start
  run ends.

### Bounds and fairness

Two regions with at most two instances each are the smallest system with unequal
regions, so that positions collide or run over if the formula is wrong, and a
loop over regions has a first and a last one.  `VmCounts = {2, 3}` has the
framework keep, lower and raise `vm_count`.  `MaxFaults = 2` lets a failure
hit the recovery from another one.  One terminator overlaps with the starter's
own shutdown; the run `stopped` uses two.  The theorems of section 10 remove
these bounds for safety.

`FairSpec` has weak fairness for every run's next step (Python executes it, and
the operator answers a question he is asked) and for AWS finishing a start or a
stop.  Failures are not fair, nor is the operator's decision to start a
terminate run, nor `RetryConnect`, which changes nothing.

## 3. `FabricPush`, an implementation of `Flood`

`Fabric_Network.startup` generates certificates and channel artifacts on the
first machine (`Generate`), adds the ssh key and the chaincode (`Seed`), and
spreads them by doubling: a round (`StartRound`) pairs the finished machines
with as many remaining ones, and `push_stuff` runs four commands per pair on the
source: remove the old directories of the target (`Wipe`), then copy three
directories (`Copy`).  In the end the key is removed everywhere (`RemoveKey`).

| variable | code |
|---|---|
| `files` | what is on each machine's disk; `oldcrypto` is what `crypto-config` held before |
| `sent`, `width`, `pair` | `len(finished_indices)`, `n_targets`, the position in the round |
| `cmd` | next command of `push_stuff_single` and `push_chaincode_single` |
| `rounds`, `sender`, `hit`, `kept` | history: rounds begun, who pushed to whom, where a command failed, where the removal of the key failed |

A machine that ssh cannot log in from (no `key.pem`) runs its commands without
effect.  `CommandFails` is a command that fails and may leave a part of
`crypto-config` on the target; nobody looks at it, nor at the outcome of the
`rm` of `RemoveKey`, which may fail too.  `Raise` is an exception on
one of the operator's own connections.  Pushes are sequential in the model
because they are in the code: `threading.Thread(target=push(...))` runs the push
before there is a thread.

* `AllServed`: without failures every machine has everything.
* `KeysRemoved`: when the containers start, the key is on no machine but those
  whose own removal failed, whichever pushes failed.
* `DamageTraced`: a machine lacks something only if a command of its own push
  failed or the machine that pushed to it lacked something.
* `RoundsMinimal`: as few rounds as doubling allows; the list of finished
  machines, rebuilt in line 364, loses one only in the last round.
* `Floods`: the refinement.  `Flood` gives every machine one source, once and for
  all, such that the sources form a tree; a machine gets the whole content only
  while its own source has it whole, and keeps it.  `holders` is the set of
  machines with all three directories and nothing old, `source` is `sender`.

Six machines take three rounds (1, 2, 4 finished), the last one not full; two
failures let one hit a machine and another the machine that serves it.

## 4. `WaitTillDone`, an implementation of `Completion`

`wait_till_done` (`utils/utils.py`) with its callers and the hosts it polls.  The
six waits of the program differ in the file, the message, the hosts that do
something and what the caller does with the answer: `boot` and `bootfab` (the
start; Fabric's script touches the file and then reboots), `reboot` (Fabric's
restart), `couchdb` (its shutdown, which reboots the first host only), `install`
(LevelDB, last line of a log; the first host installs, all are polled) and
`tessera` (Quorum).

| variable | code |
|---|---|
| `round`, `index`, `flags` | `timer / delta`, the host of the inner loop, `status_flags` |
| `job`, `file`, `link` | what runs on a host, what the path holds there, whether the ssh connection is alive |
| `hung` | hosts that take a request and do not answer it |
| `early`, `faulty` | history: who was done when the round began, whom a fault hit |

`Sleep` and `Return` are the condition of the outer loop; `Poll`, `Reconnect` and
`PollFails` are the three ways through the nested exception handlers.  Jobs,
reboots and breaks happen between any two of them.  No call has a time limit
(`open_sftp` in line 59, reading in line 69, `connect` in line 91) and the timer
counts the sleeps only: `Poll` and `Reconnect` do not happen at a host that hangs
(`Hang`) until it answers again (`Recover`), which nobody promises.

* `ProceedsWhenDone`: a caller that raises or asks on a False goes on only when
  every job is done.
* `InTime`: a host that was done when the last round began, and that no fault
  hit, is reported: no exception on one host makes the poll miss another.
* `Detects`: the refinement.  `Completion` sets a flag only for a finished job,
  never takes it back, and reports readiness only if all are set.  Across a
  reboot the "job" can only be the file; `RebootsAwaited`, which asks for the
  reboot itself, is violated (finding 6).
* `WaitEnds`: the wait ends whatever fails, unless it is for ever at a host that
  hangs (`Stuck`).  It needs fairness of the operator's loop only; `FairSpec` also
  has the jobs of the hosts end.

Three hosts and three rounds let a host be first, between others and last, and
be late for one round and for all; two faults can hit the host and its new
connection.

## 5. `FabricLayout`

How the settings of a Fabric network become machines, groups, certificates, the
channel configuration, collections and containers.  A file is the set of names
it mentions; a container is its name, machine, published ports, mounted
identities and the names it will talk to.  The actions follow `check_config`,
`startup`, `write_crypto_config`, `write_configtx`, `write_collections`, the
loops of `start_docker_containers`, and `write_script`.  The loops go step by
step: one organisation's group, one machine looked at for a group of its own
(lines 220-222), one index of a container loop.  Nothing runs in
parallel here: the hazard is that a dozen places compute the same numbers.

* `AcceptedComesUp`: settings that `check_config` accepts never index a list or
  an address past its end; the start fails only for Raft without TLS, for
  `private_fors` that is neither a number nor "all" and for a bad endorsement
  policy (a number out of range, or not the word "ALL" or "OR"), all of them
  noticed after launching.
* `MachinesFit`: every launched machine runs a container, and containers that
  share a machine publish different ports.
* `GroupsPartition`: every machine is in exactly one group, internal orderers
  shared by several organisations apart (finding 9).
* `ReferencesResolve`: anchors, consenters, addresses, brokers, links, mounts,
  rules and access-control policies refer to something that exists, with exactly
  two exceptions: the Admins rule of every organisation names an MSP that does not
  exist (finding 10), and all brokers exist exactly if there are no more orderers
  than Kafka nodes (finding 8).
* `PoliciesEven`: collections are spread evenly, endorsement can be met.

The run enumerates settings instead of schedules: one to three organisations,
one or two peers, 1, 2 or 4 orderers (fewer than, equal to and more than the
organisations and peers; divisible or not), every ordering service, both places
of database and orderers, set or not.  The words `all` (line 896) and `ALL` (line
990) are different constants, each of them also a value of the other setting.

## 6. `FabricDeploy`

The swarm, the start scripts, up to ten passes over the logs, channels with
joins and anchors (`script_raw_3.sh`), chaincode (`script_raw_2.sh`), restart.

| variable | code |
|---|---|
| `machine` | the machine of a container: on, told to reboot, away, or lost for good |
| `box`, `errors` | docker's view of a container; those not running whose log may end with an error |
| `dialed`, `stuck` | history: the running container whose log a pass found to end with a dial error; containers that a pass could not stop and remove |
| `lines`, `procs`, `behind` | lines of the start script; scripts about to run a line; lines left behind a running container |
| `counter`, `retry`, `i` | those of the loops |
| `channel`, `tries`, `done`, `unserved` | the channel, attempts of a join, what was achieved, which queries failed |

`docker run` (`Run`), the death of containers (`Crash`) and, in a restart, machines
that go down and come back (`Reboot`, `Back`) interleave with the operator's steps.
A pass reads one log at a time (`ReadError`, `ReadFine`, `ReadRaises`).  Running
peers and orderers write "Error while dialing dial tcp" themselves, so the log of
any container that is up may end with an error at any time; the pass then stops and
removes it and starts its script again (`StartAgain`, lines 1348-1381 and
1438-1456).  Whether docker did stop and remove it is not looked at: both may fail,
the script being started anyway, and an exception leaves the container as it is.
A restart stops the containers of one machine after the other and has it reboot
(`StopMachine`, an exception is passed over), waits for a file that is there from
the first boot (`AwaitReboot`), and retries every machine until it answers
(`RefreshClient`, `RetryClient`, lines 1505-1513).  Start scripts are appended to,
so after a restart a script runs its container again when the first one ends; this
is why `lines` and `behind` are there.

* `SingleRun`: in a first start no container is started twice at a time, though the
  passes read logs while containers still come up.  Exceptions are containers
  that docker did not remove, and a restart, after which scripts have two lines.
* `RunningKept` (action property): in a first start a pass takes a running container
  down only for a line that this container has written since it came up, never for
  one of an earlier attempt.
* `FormedIsComplete`: a network reported as formed has all peers in all channels
  and all anchors; with the chaincode reported, it is installed on every peer
  and instantiated on every channel.
* `DeployEnds`: starting and restarting end, whatever fails, unless a restart waits
  for a machine that was counted before it went down and does not come back
  (`WaitsForLost`).
* `AllGood`, the script's own claim, is violated (finding 7).

A restart that fails starts the containers once more, without channels, and
returns normally; this is the state `returned`, about which nothing is promised.
Two peers and one orderer, two channels (only the first installs the chaincode),
two passes for ten and two attempts for ten: the loops are the same but for
their bound, and two faults, together with dial errors, which cost none, use up
either.  Remote commands are taken to return (ssh has no time limit here either),
and a machine that was told to reboot has gone down and come back, or is still
away, when the containers are started again.

## 7. `QuorumNetwork`

Preparation, the start of the nodes one after another (with Raft each is
announced to node 0 and joins with `--raftjoinexisting node+1`), `check_network`,
three complete restarts, unlocking, `restart`.

| variable | code |
|---|---|
| `pc`, `node`, `attempt`, `round`, `flags` | function, loop counters, `status_flags` |
| `genesis` | nodes that were initialised with the common genesis |
| `geth` | the process: down, starting, up or stopping |
| `runId`, `raftId` | the id a node was started with, the id the cluster gave it |
| `refused`, `late` | history: a new node was refused by the cluster; the attempt a fault hit last |

geth is external: a second process cannot use a directory in use, `addPeer` takes
effect or is refused, and a node takes part under the cluster's id only.

* `IdsAgree`: over all retries and restarts, nodes that die, starts that break off
  and processes that are late, `node + 1` is the cluster's id, as long as the
  cluster has refused no new node.  It holds because known members are refused and
  the Raft state survives a "complete" restart; one refused `addPeer` of a new node
  breaks it for good.
* `RunningConnected`: a network reported as running has every live node
  connected.
* `RestartHeals`: the start is given up only for a fault in its last attempt, a
  missing genesis or disagreeing ids.
* `QuorumStartEnds`: starting ends, whatever fails.

## 8. `AuthorityNetwork`

Geth and Parity, which share the choice of accounts and the shape of the set-up.
Almost all commands are sent and not awaited.  `Launch` sends a list of commands,
some of which are late and take effect at any later moment (`Catch`), overtaken
by what was sent after them; each costs a fault.  What the operator fetches right
after an unawaited command may not be there yet, which raises: the accounts of
Parity (`FetchAccount`) and its version file (`Report`); `Report` also raises if any
account is empty, used or not.  The service files, passwords and `node.toml` are
taken to be written in time: a machine where they are late would count as hit.

| variable | code |
|---|---|
| `share`, `numAcc`, `chosen`, `i`, `sealer`, `signers` | the settings, `rnd_accounts`, the rotation, the signer of a node, `signer_accounts` |
| `made` | the account that was fetched from a machine |
| `machine`, `late` | chain on disk, genesis, keys, running chain, peers; the commands still to come |
| `blocks`, `hit` | nodes with a block; history: machines a fault has hit |

* `SealersAreSigners`: the accounts in the genesis are those the mining nodes
  seal with, and every node unlocks its own.
* `SignersSpread`: the rotation gives no account two nodes more than another.
* `Undisturbed`: a late command or a crash hurts only the machine it hits; any
  other ends on the common chain with the others as peers.  It says nothing of
  the machine that was hit: nothing in the code notices that it is missing.
* `RestartEnds`: set-up and restart end, unless restart meets a node without a
  block (finding 12).  The exception is the code's endless loop; without it the
  property is violated.

Three nodes with shared accounts from none to more than there are nodes, the
share of signers not set, rounding to 0 and to 2; one fault at any command of any
machine, one restart.  Two faults exceed the time limit of a run.
`FairSpec` has weak fairness of the operator's process only: blocks may never
come.

In `FabricDeploy` and `QuorumNetwork`, too, fairness is that the operator's
process goes on.  In the former a machine that was told to reboot goes down, and
comes back unless it is lost; in the latter a process that was told to start or stop
does so.  Faults and restarts are never fair.

## 9. Runs

| run | result | shows |
|---|---|---|
| `nodehandler` | pass | the seven properties of section 2 and its type invariant, 186,696 states |
| `fabricpush` | pass | the five properties of section 3 and its type invariant, 9,780 states |
| `stopped` | violation of `StoppedAreTerminated` | finding 1 |
| `leak` | violation of `RequestStartsShutdown` | finding 2 |
| `vmcount` | violation of `VmCountLaunched` | finding 3 |
| `polling` | pass | section 4, 848,684 states |
| `restartwait` | violation of `RebootsAwaited` | finding 6 |
| `layout` | pass | section 5, 19,434 states |
| `deploy` | pass | section 6, 3,337,451 states |
| `allgood` | violation of `AllGood` | finding 7 |
| `quorum` | pass | section 7, 87,330 states |
| `authority` | pass | section 8, 311,880 states |

Every property of the passing runs has a mutant in `PROJECT.json`: a plausible slip
in the code (the other index of the position formula, billing without waiting,
billing what was found instead of what was recorded, and so on), defined in the
module just before the definition it replaces, which makes TLC report exactly
that property.

### Findings

1. `Node_Handler.py:521` logs that stopped instances are terminated "in the next
   step".  The step before, `create_ssh_scp_clients` (line 489), never gets past
   a stopped instance.  A terminate run that dies after stopping the instances
   leaves them to be terminated by hand.
2. `run.py:114` asks "Do you want to shut down the whole network?".  If the start
   failed after launching and before `config['ips']` was set, the answer "yes"
   ends in a `KeyError` with the instances running.
3. README.MD:14 says `vm_count` instances are started.  The regions' counts are
   checked before Fabric's `check_config` overwrites `vm_count`, so another
   number may be launched.
4. `close_ssh_scp_clients` (line 634) closes nothing: `map` is lazy (no run).
5. `Fabric_Network.upload_chaincode` raises a `TypeError` in its logging (line
   1610) before it pushes anything, and would find the key on one machine only
   (no run; nothing calls it).
6. `Fabric_Network.py:1502` logs that the restart waits "till all machines have
   rebooted".  It waits for a file that the first boot has left, and can go on
   before a machine has gone down; CouchDB does the same.
7. `script_raw_2.sh:144` prints "All GOOD" although queries and invocations, which
   run in the background, have failed; the program takes it for success.

Without a run:

8. The brokers in `configtx.yaml` are counted by the orderers
   (`Fabric_Network.py:627`); with more orderers than Kafka nodes some do not exist.
   `ReferencesResolve` states it.
9. A group takes every `org_count`-th peer (line 179) while an organisation's
   containers are contiguous (line 1209); groups overlap with internal orderers.
   No property compares the two: they differ for every network of two
   organisations with two peers each.
10. An organisation's Admins rule names `Org1.admin`; the MSP is `Org1MSP`
    (line 555).  `ReferencesResolve` states it.
11. `except exception` (line 103) is a `NameError`; `wait_till_done` returns an
    array where its docstring says True or False.
12. `restart_count` of `revive_node` is never increased (Geth and Parity), so
    "Restart was NOT successful" is never logged.
13. Quorum's "Restarting failed VMs" (line 284) restarts none: a `TypeError` is
    swallowed.  Its "Deleting relevant files" (line 523) looks in the wrong
    directory.
14. Geth: initialising and starting are not awaited; a start on the wrong chain
    is only logged.
15. A start that is killed inside the second writing of `config.json`
    (`Node_Handler.py:477-478`) has destroyed the only record of its running
    instances.
16. A failure while tagging, answered with "yes", stops all instances and then ends
    in a `KeyError` for the launch times (`cost_calculator.py:68`).
17. The passes stop and remove running peers and orderers whose last line is a dial
    error (`Fabric_Network.py:1348`, `1438`), such as one that could not reach an
    orderer that is not up yet.
18. `wait_till_done` and the remote commands have no time limit for a host that
    accepts a request and does not answer, and `refresh_ssh_scp_clients` none for
    one that does not come back.

With `add_loadbalancer`, the name `LBHandler` is not imported in
`Node_Handler.py`: the shutdown stops the first region and fails.  The model has
the branch, and `TerminateCompletes` excludes it.

## 10. Proofs

`NodeHandlerInv` states the inductive invariant, `NodeHandlerProofs` proves, for
any number of regions, instances, terminate runs and failures:

| theorem | property |
|---|---|
| `TypeCorrect` | `[]TypeOK` |
| `LaunchRecordedHolds` | `[]LaunchRecorded` |
| `PlacementExactHolds` | `[]PlacementExact` |
| `StoppedAndBilledHolds` | `[]StoppedAndBilled` |
| `ShutdownCompleteHolds` | `[]ShutdownComplete` |
| `BilledBeforeTerminatedHolds` | `BilledBeforeTerminated` |
| `VmCountLaunchedWhenKept` | once recorded, `VmCountLaunched` exactly if `check_config` kept `vm_count` |

Assumptions, all on constants: there is at least one region and a bound on the
instances per region; counts are positive (the constructor drops regions with
0); `Starter` is not a terminator; `MaxFaults` is a natural number; `NoHost` is not
an instance, and `NoRecord` and `Torn` are different and not records.

The properties are not inductive.  `IInv` adds:

* `RecordInv`: a run has the recorded entries at every step that reads them, and
  any record, in memory or on disk, holds all requested instances at their
  positions (`Placed`).
* `LaunchInv`, `PlaceInv`: how far launching and placing have come.
* `LoopInv`: the loops of a shutdown stay within its config's instances.
* `BarrierInv`: during the wait, what is no longer to do is stopped or gone; it
  stays so because nothing restarts an instance.
* `ExclusiveInv`: without overlap one run is alive, and an instance that a
  shutdown did not find is running or terminated, so its wait cannot succeed
  (the argument for `ShutdownComplete`).

Type correctness goes by groups of variables, each other part has one lemma with
one step per action.  `SlotInjective` is the arithmetic of the position formula;
`NoHole` is a pigeonhole argument over it, the second half of `PlacementExact`.
`LaunchRecorded` takes its second half from `WrittenInv`, which says where
`config.json` is whole and rests on one run only writing it.
The last theorem is about finding 3: `VmCountInv` (a recorded run has the
framework's count) shows that nothing else makes the numbers differ.

`FabricPushProofs` proves, for any number of machines and of failed commands:

| theorem | property |
|---|---|
| `TypeCorrect` | `[]TypeOK` |
| `AllServedHolds` | `[]AllServed` |
| `KeysRemovedHolds` | `[]KeysRemoved` |
| `DamageTracedHolds` | `[]DamageTraced` |
| `RoundsMinimalHolds` | `[]RoundsMinimal` |
| `FloodsHolds` | `Floods`, the refinement of `Flood` |

It assumes at least one machine.  Its invariant (`FabricPushInv`) needs what is
on the machines that were not served yet (`UnservedInv`: nothing new), what a
push has brought so far (`PushInv`: nothing that the source lacks, and all of it
if no command failed) and that the key went where the certificates went
(`KeyInv`, so that a complete machine can act as a source).  The three kinds of
push command are treated together: `CommandWrites`, `CommandBrings` and
`CommandEnds` say what a command does to the target and to the counters.
For `Floods`, `SenderInv` says that the pushes form a tree: every machine served
so far was served by an earlier one, and the others by nobody yet.
`RoundsMinimal` has an invariant of its own, `RoundsInv`: before round r + 1 the
finished machines are 2^r or all, and in the latter case the last round was
needed.  The prover knows nothing of powers; `PowerDoubles` gets 2^(n+1) =
2^n + 2^n by counting: 2^n is the number of subsets of 1..n, and adding n + 1 to
each gives as many again.

`WaitTillDoneProofs` proves, for any number of hosts, rounds and faults and any
choice of waits:

| theorem | property |
|---|---|
| `TypeCorrect` | `[]TypeOK` |
| `ProceedingIsSafe` | `[]ProceedsWhenDone` |
| `PollingIsPrompt` | `[]InTime` |
| `ImplementsCompletion` | `Detects`, the refinement of `Completion` |

`WaitTillDoneInv` adds what a file tells of the job (`FileTells`: outside of
reboots, success is exactly a job that is done) and where in a round a host that
was ready before it is (`Prompt`: its flag is set, or its turn is still to come).
All four ways through a visit of the poll are instances of `VisitKeeps`.

`FabricDeployProofs` proves, for any containers, channels, bounds and faults:

| theorem | property |
|---|---|
| `TypeCorrect` | `[]TypeOK` |
| `SingleRunHolds` | `[]SingleRun` |
| `RunningKeptHolds` | `RunningKept` |
| `FormedIsCompleteHolds` | `[]FormedIsComplete` |

It assumes that the peers are among the polled containers, in sequences of which
that of the peers is not the longer one.  `StartInv` says of a first start that a
container's line is under way, its container runs, or its log tells how it ended,
one at a time, unless docker did not remove it: this is why a pass that goes by the
logs starts nothing twice.  `AgainInv` carries that from the log that was read to
the container that is started again: no script of it is under way, and if it runs,
the line was its own.  `LinesInv` bounds the lines of a script.
`ScriptInv` says what has succeeded when a script reaches a line; `SetsGrow` is how
that set grows from line to line.

`QuorumNetworkProofs` proves, for any number of nodes, retries, polls, faults and
restarts:

| theorem | property |
|---|---|
| `TypeCorrect` | `[]TypeOK` |
| `IdsAgreeHolds` | `[]IdsAgree` |
| `RunningConnectedHolds` | `[]RunningConnected` if there are at least two nodes |
| `RestartHealsHolds` | `[]RestartHeals` |

A single node counts as connected whatever its genesis block is, so
`RunningConnectedHolds` needs the second node (`ConnectedTakesPart`).  `NumberedInv`
says that, as long as no new node was refused, the members are the nodes up to some
node, whatever else fails, so that the cardinality that becomes the next id is the
node's number plus one (`NextIds`); `SeenInv` carries
what a flag told on to the end of the start and over restarts.
`RestartHeals` rests on what an attempt without a fault has brought about:
`StartedInv` (the nodes started so far are on their way or up, and all are up at
the last poll) and `HealedInv` (with a genesis block on every node and ids that
agree, that poll finds all of them connected, so the start is not given up).

`AuthorityNetworkProofs` proves, for any number of nodes, any shares of signers,
any number of accounts, and any bounds on tries, faults and restarts:

| theorem | property |
|---|---|
| `Invariance` | `[]IInv` |
| `TypeCorrect` | `[]TypeOK` |
| `SealersAreSignersHolds` | `[]SealersAreSigners` |
| `SignersSpreadHolds` | `[]SignersSpread` |
| `UndisturbedHolds` | `[]Undisturbed` |

It assumes at least one node, shares from 0 to 10 tenths, and at least one try of
the installation and one look at the block numbers.

* `ChosenInv`: the accounts are drawn once and are all different.
* `RolesInv`: a node that has its role seals with an account that it unlocks, or
  does not seal; the list in the genesis is the set of these.
* `SpreadInv` is the argument for the rotation.  The counter `i` starts past the
  first account, so at any time the accounts 2 to i + 1 of the present lap have
  one node more than the first one, and the others have as many.  Two accounts
  therefore never differ by more than one, whatever the number of sealers is.
* `HitInv`, `MachineInv`: only machines hit by a fault have commands still to
  come, and any other, if all its keys were fetched, has exactly what the phase
  has brought to it so far (`InPlace`).  A late command is confined to its machine.

The effect of a list of commands is written out for one and for three commands
(`Do`, `DoOne`), the lengths the code sends, since a fold over a sequence is
induction over data.

`FabricLayoutProofs` proves, for any numbers of organisations, peers, orderers,
Zookeeper and Kafka nodes, every ordering service and place:

| theorem | property |
|---|---|
| `Invariance` | `[]IInv` |
| `TypeCorrect` | `[]TypeOK` |
| `AcceptedComesUpHolds` | `[]AcceptedComesUp` |
| `MachinesFitHolds` | `[]MachinesFit` |
| `GroupsPartitionHolds` | `[]GroupsPartition` |
| `ReferencesResolveHolds` | `[]ReferencesResolve` |
| `PoliciesEvenHolds` | `[]PoliciesEven` |

It assumes only that the settings are settings (`SettingsAssumption`).
`FabricLayoutInv` says, part by part, what has been computed: `RangesInv` the
indices, `GroupsInv` the groups so far, `CertsInv`, `TxInv`, `MembersInv` and
`RequiredInv` the files, and `RanInv` that the containers are exactly those of the
loop entries that have run.  The properties then follow from arithmetic:

* `Division`, `SameRemainder` and `BlocksInOrder` are about quotients, remainders
  and consecutive blocks.  `EntryOfPeer` and `PeerOfEntry` are the two directions of
  the peers' numbering, index to (organisation, peer) and back.
* `AcceptedComesUp`: `Counted` gives the number of machines, `GroupInRange` and
  `EntriesPlaceable` that no loop reads past the end of a list.
* `MachinesFit`: the ranges follow one another and end at the last machine
  (`IndicesLaid`); two containers on one machine come from entries whose ports
  differ (`UpPortsApart`).
* `GroupsPartition`: `GroupsApart` compares the remainders of the peers of two
  organisations and the blocks of their orderers.  The loop for the other machines
  (`SinglesDone`) leaves none out and adds none twice.
* `PoliciesEven`: the rotation is a bijection between offsets and organisations in
  both directions, the members of a collection and the collections of a member
  (`CountedBy`).

Only model-checked, in all modules: the liveness properties `TerminateCompletes`,
`StartEnds`, `WaitEnds`, `DeployEnds`, `QuorumStartEnds` and `RestartEnds`, since
fairness and `ENABLED` are out of the prover's reach.  Every invariant and action
property of the passing runs, and both refinements, are proved.

## 11. Files

* `NodeHandler.tla`, `NodeHandlerInv.tla`, `NodeHandlerProofs.tla`
* `MCNodeHandler.tla` with `MCNodeHandler.cfg`, `MCNodeHandlerStopped.cfg`,
  `MCNodeHandlerLeak.cfg`, `MCNodeHandlerCount.cfg`
* `Flood.tla`, `FabricPush.tla`, `FabricPushInv.tla`, `FabricPushProofs.tla`,
  `MCFabricPush.tla` with `MCFabricPush.cfg`
* `Completion.tla`, `WaitTillDone.tla`, `WaitTillDoneInv.tla`,
  `WaitTillDoneProofs.tla`, `MCWaitTillDone.tla` with `MCWaitTillDone.cfg`, `MCWaitTillDoneReboot.cfg`
* `FabricLayout.tla`, `FabricLayoutInv.tla`, `FabricLayoutProofs.tla`,
  `MCFabricLayout.tla` with `MCFabricLayout.cfg`
* `FabricDeploy.tla`, `FabricDeployInv.tla`, `FabricDeployProofs.tla`,
  `MCFabricDeploy.tla` with `MCFabricDeploy.cfg`, `MCFabricDeployGood.cfg`
* `QuorumNetwork.tla`, `QuorumNetworkInv.tla`, `QuorumNetworkProofs.tla`,
  `MCQuorumNetwork.tla` with `MCQuorumNetwork.cfg`
* `AuthorityNetwork.tla`, `AuthorityNetworkInv.tla`, `AuthorityNetworkProofs.tla`,
  `MCAuthorityNetwork.tla` with `MCAuthorityNetwork.cfg`
* `PROJECT.json`: components, runs, mutants, source map, findings, hazards,
  theorems

## 12. Plan

Done: `NodeHandler`, `FabricPush`, `WaitTillDone`, `FabricLayout`,
`FabricDeploy`, `QuorumNetwork`, `AuthorityNetwork`, and the proofs of all their
invariants, action properties and refinements.  Next:

1. Under which conditions the other violated claims are true (`AllGood`,
   `RebootsAwaited`), as theorems.
2. A module for Sawtooth, then the LevelDB server.

## 13. Not modelled

* Load balancer: nothing reaches the class from `Node_Handler.py` (see findings).
* Sawtooth: straight-line commands, the same for a restart, and one look at the
  peers that is not repeated; the transaction processor keeps no state of its own.
* Tezos, Indy, client, Prometheus, empty networks, bootstrap scripts:
  straight-line remote commands; Tezos is announced as not working.
* The rest of CouchDB and LevelDB, LevelDB's server, the benchmark chaincode:
  what interleaves there is decided by express and Fabric.
* Fabric's leader shutdown and restart of single orderers (lines 1731-1845):
  nothing calls them.  Quorum's `split_funds`: its outcome is not looked at.
* Argument parsing, the `own` provision, prices and amounts of the bill, log
  output, timings and settings that are only passed on.
