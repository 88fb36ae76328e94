# Verification of mod_cpg

mod_cpg makes a FreeSWITCH server highly available: a *virtual IP* floats over a
few nodes, the node that holds it (the MASTER) serves the calls, and when that
node falls another takes the address over and recovers the calls. The nodes agree
through a closed process group (CPG) of corosync. This directory holds TLA+
modules of that program, the TLC configurations that check them, and proofs of
their safety properties checked by TLAPS. The reference of every definition is the source
in `src/`; `PROJECT.json` gives, definition by definition, the lines it translates.

## 1. Inventory

### Components

| component | source | state | operations |
|---|---|---|---|
| priority list | `node.c` | linked list of (nodeid, priority), highest priority first | `node_add`, `node_remove`, `node_remove_all`, `node_first`, `node_search`, `list_entries` |
| state machine | `fsm.c`, `virtual_ip_types.h` | `virtual_ip_t`: state, node_id, master_id, rollback_node_id, node_list, member_list_entries, two thread handles | the table of actions: `go_up`, `go_down`, `act`, `react`, `observe`, `rollback`, `rback_stop`, `noop`, `nodeup`, `backupup`, `dup_warn`, `error` |
| its events | `fsm_input.c` | writes list, master and rollback target before the transaction | start, stop, node down, node up, state message |
| vip_thread and the group | `cpg_virtual_ip.c` | CPG handle, group membership | join, dispatch (callbacks), leave; `rollback_thread`; state and SQL messages |
| control and arbiter | `mod_cpg.c`, `arbiter.sh` | `globals.running`, `globals.is_connected` | load, unload, `cpg vip ... start/stop`, status, the ping of the gateway every 5 s |
| address and calls | `cpg_utils.c` | the address on the device; the recovery table of Sofia | add and remove the address, recover, hang up, clean the table |
| gratuitous ARP | `arpator.c` | two static ring buffers for formatted addresses | build and send one frame |
| configuration | `cpg_config.c` | one `virtual_ip_t` per `<virtual_ip>` | read `cpg.conf.xml`, once |
| monitor | `tools/fs_monitor` | none | take the address off, launch FreeSWITCH, wait for its end, take the address off |
| Sofia patch | `patches/` | table `sip_recovery` | the replication and the recovery of calls |

### How they interact

On every node four kinds of thread share one `virtual_ip_t` without a lock:

- **vip_thread**, created by `go_up`. It joins the group and runs the callbacks of
  `cpg_dispatch`: a configuration change becomes *node down* (one per node that
  left) and *node up* events, a delivered message a *state message* event. Each
  event is resolved by (event, state) in `table` and may send messages to the group.
- **API threads** (`cpg vip <address> start|stop`, unload), which run `go_up` and
  `go_down` themselves; `go_down` blocks until vip_thread has ended and takes the
  address off the device after that.
- **the arbiter** (`mod_cpg_runtime`), which stops the virtual IP each time the
  gateway does not answer and starts it again when it does.
- **rollback_thread**, created when a MASTER meets a better node: when the delay
  ends it stops the virtual IP and starts it again.

Between nodes there is only the group: messages and configuration changes,
delivered in one order to all members that can reach each other. Outside
FreeSWITCH, `fs_monitor` removes a leftover address.

### What is hard

- **Ordering.** What a node knows (its list, its master) comes from messages that
  arrive between configuration changes. A node may act on a master's fall before it
  has heard everybody, or hear nobody ever again.
- **Stop is not atomic.** The state is reset first, the thread goes on dispatching
  (in IDLE, and still writing the list), leaves, and only then is the address removed.
- **Failures.** The address or its announcement fails after the state is MASTER; the
  process dies and leaves the address on the device; CPG fails once.
- **Partitions.** Each side elects its master; they meet again later.
- **Timers.** The end of a rollback races the fall of its target, a stop, the arbiter.
- **Shared memory.** Handlers and `go_down` write one structure without a lock, and
  join threads in which they may be running.
- **Two queues.** The rows of the calls pass through the event queue of the master's
  FreeSWITCH, the group, and the event queue of the backup's; the fall of the master
  passes through the group only.

`PROJECT.json` lists each hazard at its line, with the properties that watch it.

### What makes each component correct

- *Priority list*: an ordered set, never reordered behind the users' back; a node
  is where its priority puts it. A newcomer goes before its equals, so where equals stand depends
  on the order in which a node heard them: nodes of distinct priorities agree on who is next to
  serve, equals need not.
- *State machine and group*: at most one node serves; the device has the address
  exactly when the node serves, up to a stop in progress; a node becomes BACKUP only
  when it knows all; when all is delivered the lists equal the membership and all expect the same
  node to serve next; a rollback waits for the right node; equals do not coexist.
- *Its progress*: a fallen master is replaced; a stop releases the address; a
  rollback swaps the roles; an isolated node yields; a split brain ends.
- *Threads*: whatever the threads do to each other, a node at rest has the address
  exactly when it serves; no threads wait for each other in a circle; a stop returns.
- *Calls*: a backup could recover every call in progress, those its peers had given it
  survive the master's fall, those that are over are forgotten, none is held twice, and a
  node that serves no more has ended its own.
- *Configuration*: the profiles are the first valid ones, each once, whatever the file says.

## 2. Modules

| module | what it is |
|---|---|
| `NodeList` | the operators of `node.c`. A list is the sequence of its node ids; the priority of a node is the constant `Priority`, since it is read once from the configuration |
| `NodeListSpec` | the list under any sequence of the calls `fsm_input.c` and `fsm.c` make, beside the set it should represent |
| `FloatingIp` | the abstract promise: at most one node serves, a device gains the address only when its node begins to serve |
| `Fsm` | the states and the lookup `table`, shared by all that follow |
| `VirtualIp` | the `virtual_ip_t` and the handlers of its events as pure operators: `fsm.c`, `fsm_input.c`, the callbacks |
| `VipGroup` | the whole group: a `virtual_ip_t`, `vip_thread`, commands, arbiter and monitor on every node, and the group between them |
| `Config` | the profiles of `cpg.conf.xml` as `do_config` reads them, and the reference they are compared with |
| `CallRecovery` | the calls: the group of `VirtualIp` composed with Sofia's table, its sessions and the event queue of FreeSWITCH, with profiles from `Config` |
| `VipThreads` | one node, its threads interleaved at every access to what they share |
| `VirtualIpProofs` | lemmas about the operators of the list and a contract for each handler, used by all proofs about nodes |
| `NodeListSpecProofs` | theorems about the list |
| `VipGroupProofs` | theorems about each node of a group (types, lists, device, rollback), about a group of any size (how its nodes come to know each other and whom they expect to serve next) and about two nodes (who serves, `FloatingIp`, equals) |
| `FoldProofs` | what a loop over a sequence computes, turn by turn, for any body |
| `CallRecoveryProofs` | theorems about the configuration, the calls of a node, and who of two nodes holds a call |
| `CallReplicationProofs` | theorems about the rows of the backups while the first master serves, for any number of nodes |
| `CallTakeOverProofs` | the theorem about the calls of a master that falls |
| `VipThreadsProofs` | theorems about the threads |
| `MCNodeList`, `MCVipGroup2`, `MCVipGroup3`, `MCCallRecovery`, `MCVipThreads` | the instances for TLC |

`VipGroup` and `CallRecovery` run the same handlers (`Dispatch` of `VirtualIp`, on
`NodeList` and `Fsm`); `VipThreads` uses the same `table` and takes the handlers apart.

### VipGroup

State, per node: `vip` (the fields of `virtual_ip_t` the election reads),
`vip_thread` (none, init, running, leaving), `stopper` (who waits inside `go_down`),
`restarting` (rollback_thread between its stop and its start), `ip` (the address is on the
device), `alive`, `is_connected`, `inbox` (what the group has delivered to the node and
the node has not dispatched); and `cut`, the nodes off the network. `spent` counts
environment events against their bounds.

| action | code |
|---|---|
| `Handle` | one callback of `cpg_dispatch`: `Dispatch` is `ConfchgCallback` / `DeliverCallback`, then `fsm_input_*`, `fsm_do_transaction` and the action found in `table`, with all its writes and messages. The choice `works` is the result of setting the address and announcing it |
| `JoinGroup`, `InitFails`, `DispatchFails`, `LeaveGroup` | the stages and the error exits of `vip_thread` |
| `Start`, `Stop`, `StopReturns` | the commands; `go_down` up to its joins (`BeginStop`) and after them |
| `RollbackExpires`, `RollbackRestarts` | `rollback_thread` |
| `ArbiterFails`, `ArbiterRecovers` | one turn of `mod_cpg_runtime` with each result of `arbiter.sh` |
| `Load`, `Unload`, `Crash`, `MonitorRemovesIp` | the process and `fs_monitor` |
| `CutOff`, `Heal` | the network |

What the model takes as given:

- **A callback is atomic**, and so are the steps of the other threads with respect
  to it. The races inside a callback are the subject of `VipThreads`.
- **The group is virtually synchronous**: a message is appended, when sent, to the
  inbox of every member the sender reaches, in one order for all. What was sent
  before a crash is not lost. A configuration change with several departures is one
  "down" per node, as the callback's loop makes it; with one change per node the member counts in
  between are those of the successive configurations.
- **A start finds the previous vip_thread gone.** All callers leave it ample time
  (a second in `rollback_thread`, seconds in the arbiter, a human at the CLI). The
  exception, a start while the old thread is still leaving, is what `VipThreads` calls `defied`.
- **The rollback delay may end at any time**; without the parameter it is 0.
- **A node that is cut off loses its peers and the gateway together**:
  `corosync.conf` and `arbiter.sh` name the same network. A ping that fails with the network
  up behaves as a stop and a later start, which are in the model.
- **`go_down` run by vip_thread joins nothing**: a join of the calling thread returns
  an error at once.
- **One virtual IP per node.** Two virtual IPs share no state but `globals`.

Left out of the model: the failure of `utils_remove_vip` (its result is ignored by the code),
allocation failures, `runtime_uuid`, the element `node_remove_all` leaks, and the calls, which
`CallRecovery` has.

### CallRecovery

State, per node: `vip`, `inbox` and `phase` (the process, its vip_thread and the `go_down` that
waits for it) as above, but without timers, arbiter, device and partitions; `profiles`, as read at
the last launch; `launch`, from which the `uuid` of the process; `master_uuid` (the field
`runtime_uuid`: the last master heard); and `sofia`: the table `sip_recovery`, the calls in
progress, the queue of events not yet handled. History: `made`, `over`, `owed` (calls every backup
had in its table when their master fell), `past` (whether a node has been BACKUP all along, or was stopped).

| action | code |
|---|---|
| `HandleEvent` | a configuration change or a state message, as in `VipGroup`, and what its action does to the calls (`OnCalls`): `backupup` asks Sofia for all rows, `react` recovers or cleans up, `go_down` hangs up |
| `DeliverSql` | the SQL branch of `DeliverCallback`: the statement becomes an event for Sofia |
| `HandleFsEvent` | one event of the queue: `event_handler` sends the statement to the group; `TrackEvent`, the patch's handler, executes one or fires every row |
| `CallBegins`, `CallEnds` | a party calls or hangs up; Sofia tracks the call |
| `Stop`, `LeaveGroup`, `StopReturns`, `Start`, `Load`, `Crash` | as in `VipGroup` |

What the model takes as given:

- **FreeSWITCH handles events in the order they are fired**, in a thread of its own, one at a
  time; vip_thread and that thread interleave freely.
- **A statement may carry several rows** where the patch fires one event per row: the rows are
  read at once and nothing of the table changes between those events of one queue.
- **`hupall` and `recover` take effect at once.** A session that ends removes the row of its own
  process and fires the statement that does the same elsewhere.
- **A behaviour begins with a settled group** (`Settled`): the first member serves, the others are
  BACKUP, all have heard each other and list each other by priority (`Ranked`). How a group comes to that is
  `VipGroup`'s subject.
- **A process that ends loses its sessions and its events; its table stays**, in a database.

### VipThreads

State: `state`, the two thread handles and the address of one node; `pc` and `joined`, where each
thread is and for whom it waits; `started`, a bound. Two histories: `overtaken`, the threads in
`go_down` whose IDLE another thread has written over, and `defied`, that a rollback_thread has
started the node over its last run.

| action | code |
|---|---|
| `Dispatch`, `LoopEnds` | a turn of vip_thread's loop: any event of the group, or the end once the state is IDLE |
| `TakeOver`, `AddVip`, `Announce` | `act` and `react`: MASTER is written, the address added, announced; each may fail and go down |
| `Observe`, `Rollback`, `CreateRollbackThread`, `RbackStop` | the other actions that write the state |
| `GoUp`, `CreateVipThread` | `go_up` |
| `GoDown`, `JoinRollbackThread`, `RollbackThreadJoined`, `JoinVipThread`, `VipThreadJoined`, `RemoveVip` | `go_down`, by whichever thread runs it |
| `Look`, `RollbackStops`, `RollbackStarts` | `rollback_thread` |
| `Stop`, `Start` | the console and the arbiter |

What the model takes as given:

- **One access to a field is atomic** and all threads see it at once.
- **The peers are an environment**: any event may come in any state of the node; the head of the
  list is the node or another.
- **A rollback_thread waits or does not** (`CreateRollbackThread`): with a `rollback_delay` of 0 its loop makes
  no turn, and it goes straight to its stop (`cpg_virtual_ip.c:181`).
- **A second outlasts any thread's way between two accesses that do not wait** (`SecondPasses`).
- **A caller starts the node only when nothing of its last run is under way** (`AtRest`). A stop
  may come at any time, from both callers.
- **A join of the calling thread returns at once** (EDEADLK); when two threads join one, which POSIX
  leaves undefined, a join may return at any time.
- The failures of CPG, and the end of the process, are left out.
- **The model stops where two runs overlap** (`defied`): from there on two vip_threads share the
  structure, and each property below can be violated. That is why they carry it.

## 3. Runs

| run | instance | question | result |
|---|---|---|---|
| `node_list` | six nodes, priorities 100, 100, 80, 50, 50, 50 | is the list an ordered set, are two nodes that stay ever exchanged, where do equals go | holds |
| `pair` | two nodes, always connected; operators, unloads, a crash, a failing address | types, device and role, one master, rollback target, `FloatingIp` | holds |
| `pair_live` | two nodes, a stop, a crash, fairness | a stop releases, a rollback swaps the roles, a lone backup takes over | holds |
| `partition` | two nodes, one cut off and healed, fairness | an isolated node yields, a split brain ends | holds |
| `equals` | two nodes of one priority, stop, crash, CPG failures | no two equals are left in one group | holds |
| `trio` | three nodes, a crash, reloads | lists agree with the membership at rest, and on who serves next; a BACKUP knows everybody | holds |
| `calls` | two and three nodes, up to two calls, a fall of each kind, a restart, a failing address | can a backup recover the calls in progress, do they survive, are the others forgotten, has each one holder, does a node that serves no more end its own, which profiles are read | holds |
| `threads` | two callers, two rollbacks, two starts, fairness | do device and state agree at rest, can joins wait in a circle, does a stop return | holds, up to `defied` |
| `alone_in_start` | two nodes, a crash | "if I am alone I become MASTER directly" | violated |
| `two_masters` | three nodes, a crash | at most one master | violated |
| `orphan_rollback` | two nodes, a cut and a crash | a pending rollback has a target | violated |
| `stale_duplicate` | two equals, a stop and a start | no two equals are left in one group | violated |

What some of the runs say, with their limits:

- **trio.** `OneSuccessor`: take any member away, and the others find the same one of them at the head of
  their lists, of the highest priority. Each list is built from messages in an order of its own, over joins and a
  crash between two announcements, and `node_add` is what makes the order not matter. It holds for distinct
  priorities; of equals the one heard last stands first (`NewcomerLeadsItsEquals`), so lists may differ
  when equals stay in one group (see `two_masters` below).
- **pair_live.** `RollbackSwapsRoles` follows the hand-over through all of its steps: the stop of the master, which
  leaves the group; the take-over of the better node, which may be in START still, since the delay may end at once;
  the new start of the old master a second later, and its way through START to BACKUP. The exceptions are a
  better node that leaves the group and a stop or the end of the process of the one that rolls back. The premise
  is that it waits for a node that lives (`HandsOver`): a better node that crashes and returns while its peer rolls back on
  account of its last life may be left alone in START (`alone_in_start`), and when the peer is back both complete their
  lists in START and become BACKUP (the hazard at `fsm_input.c:94`). A third, still better node that joins during the
  wait needs three nodes: that the target is the head of the list then too is the theorem `RollbackWaitsForFirst`.
- **calls.** `BackupsCanRecover` is the purpose of the request for all rows (`fsm.c:136`): a third
  node that joins in the middle ends with every row, while calls begin and end. It leaves out a node
  that was stopped and started again in one process: `go_down` has reset its `node_id`, so it applies
  its own late statements, which can stand in the way of a row (`cpg_virtual_ip.c:321`).
  `OwedCallsSurvive` counts only calls that every backup had: what is still in a queue when the master
  falls is lost. `SteadyBackupsHoldNoGhosts` is about nodes that were BACKUP all along: a table that
  outlives its process keeps old rows. `OneHolderPerCall` excepts the time until the old master's
  `go_down` returns: the new one recovers first. `OnlyServersHoldCalls` is about the calls of the profiles a
  virtual IP names: those of another are none of its business, and `go_down` hangs up none of them
  (`fsm.c:283`). `ProfilesAreFirstValid` compares the loop of `do_config` with a predicate (`IsFirstValid`) that
  says which entries are kept and has no loop.
- **threads.** `go_down` of a caller and a handler may write the state in either order. Whoever
  loses, the address ends up in agreement with the state, since the `go_down` that finds the state
  overwritten removes the address only after its join, that is, after the handler's run has ended.
  The price is `overtaken`: such a stop waits until the node is stopped otherwise. All of it depends
  on there being one vip_thread, which the end of a rollback does not ensure (`cpg_virtual_ip.c:193-195`):
  it ignores whether its stop was accepted. When it was refused, because the console stops
  the node in the instant between the last look and the stop, the node is started again, and
  the console's join waits for the new vip_thread.

### What the violated runs show

- **alone_in_start** (`fsm_input.c:88`). The test "am I alone" is made only when a state
  message arrives. Node 2 joins while node 1 is a member, node 1 dies before it
  answers: the departure is BACKUP_DOWN, a `noop` in START, and no message follows.
  `fsm.c:53` says a node that is alone becomes MASTER directly.
- **two_masters** (`fsm.c:170`). In a group of three, the master announces itself to a
  newcomer and dies before the backup has announced itself too. The newcomer, whose list is now
  itself alone, runs `act`; the backup, at the head of its own, runs `react`. Both
  serve. On two nodes `pair` shows that this cannot happen. The same rule lets two equals stay in a group of three:
  give the backup and the newcomer of this story one priority, and let the newcomer have heard the master and itself when the
  master dies. It becomes MASTER in START before it hears its equal, each then hears of the other in a state
  in which a duplicate is only a warning, and each lists the other first. Hence `OneSuccessor` is about distinct
  priorities, and `equals` about two nodes.
- **orphan_rollback** (`fsm.c:78`). Two masters meet after a partition; the
  target of the rollback is also recorded as master, so its fall is MASTER_DOWN, which
  the table answers with `error` in RBACK. The rollback goes on without a target and the
  last serving node stops. `fsm.c:68` says it stays master.
- **stale_duplicate** (`fsm_input.c:72`). The thread of a stopped node dispatches a last
  message in IDLE and records list and master; `go_up` does not reset them. Started
  again, the node finds its list complete at its first message, becomes BACKUP, and
  its equal is then only a warning. `fsm.c:52` says it switches itself off.

### Bounds

Data are finite without bounds. `Limit` says how often each *kind* of
environment event may occur in a behaviour: a load, a start or stop command, an unload, a crash, a
cut, a failure of CPG, a failure to set the address. Everything else (handlers, messages, timers,
arbiter, monitor, healing) is unbounded. The instances:

- `StopLimit` (`pair`): three loads, so a node comes back after its crash or unload;
  one each of start, stop, unload, crash, failing address. No cut: the properties are about connected nodes.
- `LiveLimit` (`pair_live`), `EqualsLimit` (the same plus one CPG failure): three
  loads, one stop, one crash.
- `CutLimit` (`partition`), `CutCrashLimit`: both nodes loaded, one cut, which may
  heal at any time or never; both sides can elect a master before and after.
- `RestartLimit`, `TinyLimit`: the least that reaches the two counterexamples.
- `CrashLimit` (`trio`, `two_masters`): three nodes loaded once, one crash. A fourth load would
  let the dead node return; on two nodes that case is covered. `AutoRollback` is empty there,
  and the lists are built by messages, joins and departures alone.

- `Scenarios` (`calls`): each says who is a member, who may make which calls under which file, and which
  *nodes* an event may still strike: `fall` (a stop or a crash), `up` (a start or a launch), `ip` (a failing
  address). Five are checked: two profiles, one of them not to be recovered, and the fall of the master;
  three nodes and a file with unknown, repeated and surplus profiles (the array holds 2 here, 8 in the code);
  master and first backup falling in turn, or the first backup failing to take over; a master that comes back;
  a third node that joins. Each is the least in which its case happens; together 1.7 million states.
- `Starts`, `VipThreadIds`, `RollbackThreadIds` (`threads`): two starts of the callers and two rollbacks, with
  a vip_thread for each start. Two rollbacks are what it takes for the handle of one to be overwritten by the other, two callers
  for two joins of one thread.

Two nodes is the deployment the module is written for (the
README of the repository); three is the least at which a node can have heard one peer
and not another.

`CHECK_DEADLOCK FALSE` is set for `VipGroup` and `CallRecovery` because a group whose environment
events are spent and that has delivered everything has nothing left to do, and for
`VipThreads` because a node whose starts are used up stays idle; its deadlocks are the subject of
`NoJoinCycle` and `StopEnds`.

### Fairness

`FairSpec` assumes weak fairness, per node, of: the stages and callbacks of vip_thread
(its loop polls once a second), the rollback thread (a counted loop of one-second sleeps), the
arbiter (an endless loop with a 5 s pause), the return of `go_down` (a join of a
thread that has ended), the monitor (polls twice a second). Nothing is assumed
of operators, loads, crashes, cuts, healing, or the failures of CPG and of the address.
`InitFails`, `DispatchFails` are never forced.

`VipThreads` assumes weak fairness of each thread: a handler, a `go_down` or a `go_up` that can go on
goes on, the loop ends once it sees IDLE, rollback_thread counts its seconds. Nothing is assumed of
events of the group (`Dispatch`) nor of the callers' decisions to stop or start.

## 4. Proofs

TLAPS proves, of the list and the group for every finite set of node ids, every assignment of
priorities, every `AutoRollback` and `AutoLoad` and every `Limit`; of the calls for every set of nodes,
calls and profiles, every file and every scenario; of the threads for every set of callers, every finite
set of threads and every number of starts:

| theorem | property | beyond the assumptions on the constants it needs |
|---|---|---|
| `ListStaysOrderedSet` | `ListIsOrderedSet` | |
| `ListIsNeverReordered` | `OrderIsStable` | |
| `NewcomerGoesFirst` | `NewcomerLeadsItsEquals` | |
| `TypeCorrectness` of `VipGroupProofs` | `TypeOK` of `VipGroup` | |
| `DeviceMatchesRole` | `IpMatchesRole` | |
| `RollbackWaitsForFirst` | `RollbackTargetIsFirst` | |
| `ListsAgree` | `QuiescentListsAgree` | `[]StartsAfresh` |
| `BackupsKnowEveryone` | `BackupKnowsEveryone` | `[]StartsAfresh` |
| `GroupsOfFreshProcesses` | both | `StartsWithItsProcess` |
| `SuccessorIsAgreed` | `OneSuccessor` | `PrioritiesDistinct`, `[]StartsAfresh` |
| `FreshSuccessorIsAgreed` | the same | `PrioritiesDistinct`, `StartsWithItsProcess` |
| `OneServesAtATime` | `AtMostOneMaster` | `AtMostTwoNodes`, `NeverCutOff`, `CpgWorks` |
| `PairFloatsTheAddress` | `ImplementsFloatingIp` | the same |
| `PrioritiesDiffer` | `QuiescentPrioritiesDiffer` | `AtMostTwoNodes`, `NeverCutOff`, `[]StartsAfresh` |
| `FreshPrioritiesDiffer` | the same | `AtMostTwoNodes`, `StartsWithItsProcess` |
| `TypeCorrectness` of `CallRecoveryProofs` | `TypeOK` of `CallRecovery` | |
| `ProfilesStayFirstValid` | `ProfilesAreFirstValid` | |
| `CallsEndWithTheRole` | `OnlyServersHoldCalls` | |
| `CallsHaveOneHolder` | `OneHolderPerCall` | `AtMostTwoNodes`; in the states where `NamedAlike` |
| `BackupsKeepUp` | `BackupsCanRecover` | `[](m \in Serving)` for some node `m` |
| `BackupsForget` | `SteadyBackupsHoldNoGhosts` | the same |
| `CallsOutliveTheirMaster` | `OwedCallsSurvive` | `AtMostTwoNodes`, `OneFall(m)`, `[]NamedAlike` |
| `ThreadsTypeCorrectness` | `TypeOK` of `VipThreads` | |
| `StopsJoinInNoCircle` | `NoJoinCycle` | |
| `StoppedNodeReleasesAddress` | `NoAddressLeft` | |
| `ServingNodeKeepsAddress` | `ServingNodeHasAddress` | |

Assumptions on the constants, which TLC evaluates in every run: `NodesAssumption` (ids are positive, as
corosync's are, and finitely many), `PriorityAssumption`, `ConfigAssumption`, `LimitAssumption`;
`ProfilesAssumption` (the array holds at least one profile), `FilesAssumption` (a file is a sequence of
entries), `ScenariosAssumption`; `ThreadsAssumption` (the three kinds of thread are disjoint and there are
enough of them to launch).

Further hypotheses, each of which the code needs:

- `AtMostTwoNodes`, `NeverCutOff`, `CpgWorks`. Three connected nodes may have two masters (`two_masters`).
  Two nodes cut off from each other take each other for dead, and both serve. When `cpg_dispatch` fails,
  vip_thread leaves the group and the state stays MASTER: the peer sees a departure and takes over.
  Operators, unloads, crashes, failures of the address, the arbiter and the rollback are unrestricted.
- `StartsAfresh`: a vip_thread about to join finds its list empty. The code does not ensure it: `go_up` does
  not empty the list which a stopped vip_thread wrote in IDLE (`stale_duplicate`), so it is a
  hypothesis on the behaviour. `StartsWithItsProcess` (no command to start, nobody rolls back, no
  cut, hence no turn of the arbiter) is a hypothesis on the constants that implies it: then a virtual IP
  starts only when its module is loaded. The corollaries show that the hypothesis is not vacuous.
- `PrioritiesDistinct`: no two nodes have one priority. Equals that stay in one group may list each other in
  different orders (see `two_masters`).
- `NamedAlike`: the processes that live have read files of the same profiles (which of them are to be recovered
  may differ). Each process reads its own file, and a call of a profile that its node does not name is never hung
  up by that node, so a second node that names it would hold it too.
- `[](m \in Serving)`: `m`, the first master, serves all along. Any beginning of a behaviour in which `m` serves goes on
  by stuttering, so the theorems speak of every state of the first reign, whatever the others do: they join, fall,
  come back, fail to set the address. What a later master inherits is left to TLC.
- `OneFall(m)`: at first `m` serves, nobody else falls, `m` falls at most once, and no address fails. With a second
  fall the new master may go before its calls are in any table; when the address fails at the take-over nobody takes
  them over. Four of the five scenarios of `calls` satisfy it.

The argument, from the bottom:

1. *Lists* (`VirtualIpProofs`). `WalkStops`: the walk of node.c's loops is well defined (a set of naturals has
   a least element). `InsertAtElements`, `RemoveAtElements`: what the community
   operators return, index by index. From these, `node_add` and `node_remove` keep
   `NodeLists`, the head of a non-empty list is a listed node of the highest priority, and what each operation does to the head.
2. *Handlers* (`VirtualIpProofs`), without a group: a *contract* between the `virtual_ip_t` and device before and
   after, proved for each action of the table (`TransactionContract`), then each event (`NodeDownContract`,
   `NewStateMessageContract`), then `Dispatch` (`DispatchContract`). `VipGroup` and `CallRecovery` both use it.
3. *The list alone* (`NodeListSpecProofs`). The invariant is that the list is sound and its elements are the
   announced nodes (`ListInv`). Its length is their number because a list without duplicates is a bijection
   (`LengthCountsElements`). A call embeds the shorter of the two lists in the longer one by an increasing map, and such an
   embedding keeps the order (`EmbeddingKeepsOrder`); this gives the two action properties.
4. *Each node of a group* (`VipGroupProofs`). `HandleEffect` lifts the contract to the action `Handle`. Types and
   lists are one invariant: a list is sound only if what is added is a node id, which the type of the inbox says.
   - `IpMatchesRole` is not inductive: when a stop returns it takes the address off, and nothing in the property forbids
     the node to have become MASTER meanwhile. `DeviceInv` adds `StoppedIsIdle`: while somebody
     waits in `go_down`, the node is IDLE.
   - `RollbackTargetIsFirst` needs that the node in RBACK has autorollback configured and that its target is a
     *listed* head, through changes of the list by nodes that join and leave (`PendingRollback`):
     a better node that joins becomes the head, and the request it raises ends the rollback.
5. *The whole group* (`VipGroupProofs`). What a node knows is its list, its member list and whatever its inbox
   will still make of them; the invariant relates them by position in the inbox (`View`): the last
   members it learns are its group, whoever sends is a member when heard, whoever is named is a member
   from then on or is reported lost, and whoever is never reported lost is in the group. `AllAreHeard` adds the other
   direction: every pair of nodes has heard each other, or the message is on its way, or an "up" is pending that will make
   the other speak. One lemma per kind of step: departure, join, callback, cut, merge. When the inboxes
   are empty, `View` and `AllAreHeard` say that the list is the group. A node becomes
   BACKUP when its list is as long as its member list; it is contained in it (`View` at position 0), so they are equal, though
   both may be behind the group.
   - *The next to serve* (`SuccessorIsHighest`): at rest a list is sound and its elements are the group, so with any member
     removed its head is a node of the highest priority among the rest. Where priorities are distinct there is one such
     node, the same for all.
6. *Two nodes* (`VipGroupProofs`). A node is *ahead* of the other if it serves, or if it knows or is about to learn of a
   configuration without the other (`Ahead`, `ViewLacks`). Of two nodes not both are ahead (`OneIsAhead`). This is
   inductive: a node takes over only at a departure of the other or when it is its only member, and is ahead
   before it does; whoever joins later learns of no configuration without the other until that falls. With three nodes the departure of the
   third makes both take over. `CpgWorks` is needed only for `ActivesRun`: a node that serves has a vip_thread.
   - *Refinement*: every step moves the role of at most one node, as `Moves` says of a callback (`StepMovesRole`),
     and each such move is a step of `FloatingIp` or a stutter (`StepFloats`), given `OneServesAtATime` and `IpMatchesRole`.
   - *Equals*: of two followers of one priority, one is in START and has not heard the other, and if one is ahead, it is
     the other that is new (`OneIsNew`). A node hears an equal in START by a DUPLICATE event, and goes down.
7. *Loops* (`FoldProofs`). The models write the loops over the profiles with `FoldLeft`, which unfolds to a recursive
   function. The provers cannot instantiate an induction theorem that takes an operator; here the body of the loop is
   a *constant* of the module, replaced in a named `INSTANCE` for each loop. `LoopIsDefined` and `LoopTurns` turn the recursion into a
   finite table of turns, `LoopInvariant` carries one set of allowed values per turn from the first to the last.
8. *Calls* (`CallRecoveryProofs`). Types go through the loops by `LoopInvariant`, each loop with its own
   instance; a settled group exists because a set of nodes can be ranked, adding one member at a time (`RankingExists`).
   - *Profiles*: after i turns of `do_config` the array is what `IsFirstValid` says of the first i entries
     (`ReadUpTo`). The delicate turn is a name not in the array: it has not come before, since its first entry would have
     been kept while there was room (`NewNameIsValid`).
   - *Calls*: the invariant (`NodeInv`) adds that a node is IDLE outside its group and once another thread has begun
     its `go_down`, and that a dead process holds no call. No event of the group takes the role from a node that
     serves (`RoleAfterDispatch`), so it ends with a `go_down` of another thread or with the process; the loop that hangs up leaves no call of any profile
     and the other loops add none (`CallsAfterLoops`), but for the recovery, and that makes its node MASTER.
   - *One holder*: `OneIsAhead` of item 6, restated over `CallRecovery`, says that two nodes do not both serve; who does not
     serve holds no call of a profile it names. `SharedNamed` adds that a call held twice is of a profile one
     of the two names: only a recovery makes a second holder, and that goes over the profiles of its node.
9. *Replication* (`CallReplicationProofs`), while `m` serves. Nobody takes `m` for fallen, or hears of another master
   (`Reigns`): a follower would need to know, or be about to learn of, a group without `m`, and `m` has never left. So
   only `m` has calls, its table is exactly the rows of its calls, and all statements are its own (`Holdings`).
   - *Nothing is missed*: each row of a call is in the table of the follower, in a statement under way to it, or still to be
     asked for (`Coming`). A row passes through three queues: the events of the master's FreeSWITCH, the inbox, and the
     events of the follower's. Whoever has just joined is served by the "up" that is pending at `m`, whose answer, all rows,
     comes behind every statement it missed. At rest the queues are empty, and the row is in the table.
   - *Nothing stays*: wherever a row of a call that is over is, or may come from, what removes it comes behind (`Fading`, over
     `Closed` for one queue). A node may miss the removal before it joins, so this is of those that have backed up the group
     all along (`past`), and of rows of profiles that the node names: it does not apply a statement of another.
10. *Take-over* (`CallTakeOverProofs`). The invariant (`FallInv`) has two halves.
   - *Before* the fall: item 9, and that whoever backs `m` up lists both nodes and takes `m` for its master (`Known`), and that
     what is on the way to it removes no row of a call in progress (`HandsOver`).
   - *The fall* (`MasterFalls`): what a crash or the end of a `go_down` puts last in the inbox is the news of the
     departure, and nothing before it makes the backup leave its state or lose a row (`FallAhead`). What was owed
     was in its table already, so what is lost in the queues does not matter.
   - *After*: the backup either has yet to hear the news, with everything it needs to recover what is owed (`Taking`), or serves
     and holds whatever of it is not over (`Keeping`). The first turns into the second in one event
     (`BackupTakesOver`, `RecoverCallsRecovers`): the list without `m` has the backup at its head, it sets the
     address, and the loop over its profiles recovers the rows. Nothing ends the second, since nobody else falls.
11. *Threads* (`VipThreadsProofs`). The invariant is `Types /\ (defied \/ Core)`, with one lemma for each action. None of
   the three properties is inductive, and their strengthenings need each other:
   - *One run* (`OneRun`): one thread at most is a live vip_thread or about to launch one. It makes each
     handler the only one, and is what `defied` gives up.
   - *Calm*: while the node is not yet serving, and while vip_thread itself stops or one of its first handlers runs, the state is not
     RBACK and no rollback_thread stops it. So vip_thread and a rollback_thread never
     stop the node together, and since a rollback_thread in the handle joins itself
     (`HandleJoinsItself`), a new join closes no circle (`NoCycle`). A rollback_thread with no delay is about to stop the node
     as soon as it is launched; `HandlersFit` says that the node is past START and BACKUP by then.
   - *Watched or quiet* (`LostHandle`, `PastJoin`): a vip_thread whose handle has been cleared, or that lives while a
     `go_down` is past its join, is being joined by another thread or can only end. So the address is removed after
     the last handler (`Released`), and not under a node that serves (`Held`).

Every invariant of the passing runs, every action property and the refinement is the subject of a theorem. Only
model-checked:

- the liveness properties, out of reach of the prover as is ENABLED: `StopReleasesIp`, `RollbackSwapsRoles`,
  `BackupTakesOver`, `IsolatedNodeYields`, `SplitBrainEnds`, `StopEnds`;
- what the hypotheses above exclude and a run includes: for `BackupsCanRecover` and `SteadyBackupsHoldNoGhosts` the reigns
  after the first; for `OwedCallsSurvive` three nodes, a second fall and an address that cannot be set; for
  `OneHolderPerCall` three nodes, which in other circumstances than those of the scenarios have two masters. These are checked
  for the scenarios of `calls` and are not claims about all.

## 5. Not modelled, and why

- **cmd_status** walks `node_list` while vip_thread frees its elements (`mod_cpg.c:95`). It only
  reads: what goes wrong is a read of freed memory, which no state of these models shows.
- **Two virtual IPs on one node.** Each has its own structure, thread and group; what they can do to each
  other (a profile that two of them name, the static buffers, the monitor's list) is among the hazards.
- **The election from START as a liveness property.** `alone_in_start` and `two_masters` show two ways in which it fails;
  what remains is true only of histories without a departure, where `BackupKnowsEveryone` and
  `AtMostOneMaster` already say how it ends.
- **send_message's endless retry** (`cpg_virtual_ip.c:502`): its end is a matter of corosync's flow
  control, of which the code assumes nothing.
- **Allocation failures**: `node_add` returns NULL and loses the list; the callers do not go on in any defined way.
- **arpator.c**: the frame of the ARP request and the raw socket are I/O; the models keep whether it succeeds.
- **The parsing of XML** and the checks of addresses, devices and numbers run once, before any thread.
- **Functions nothing calls**: `virtual_ip_profile_index`, starting and stopping a profile, counting channels, the flush of Sofia's table.
- **Sofia and FreeSWITCH themselves**: what the patches and mod_cpg rely on is modelled as external, from their use.
- **Build, service and corosync files**: no behaviour of their own.
