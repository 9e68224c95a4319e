# TLA+ models of the Arora SDK

Models of the core of the Arora SDK (`src/`), the Rust kit a robot's software
runs on: its data store, the step of the device, the task runs its behavior tree
interpreter hosts, the graph that interpreter runs, the traces it reports, and the
ROS 2 bridge's node task and actions. TLC checks the models on small instances;
TLAPS proves their safety properties for every instance, under the conditions each theorem
names.

- [The system](#the-system)
- [Modules and the code they model](#modules-and-the-code-they-model)
- [Runs](#runs)
- [Fairness](#fairness)
- [What disagrees with the code's own documentation](#what-disagrees-with-the-codes-own-documentation)
- [Proofs](#proofs)
- [What is not modelled](#what-is-not-modelled)
- [Plan](#plan)

`PROJECT.json` is the index: components, runs, the source lines of every
definition, the hazards of the code and the properties that answer them. To run
a check: `tlc -config RuntimeStep.cfg MCRuntime`; to check the proofs:
`tlapm RuntimeProofs.tla`.

## The system

A *device* (`Arora`, crate `arora`) owns a *store* of keyed values, drives the
hardware through a *HAL*, speaks to remotes through *bridges*, runs one
*behavior interpreter* and calls functions of *guest modules* through an
*engine*. It advances in steps, at a rate. All of a step is synchronous, on one
thread; everything around it (hardware feeds, bridges, in-process callers, the
embedding program, which holds a clone of the store) runs beside it.

```
 HAL  --readings, descriptions-->  +--------------------------+
 HAL  <--what changed------------  |  Arora::step             |  --calls--> engine, modules
 bridges --commands, notices---->  |  sweep, describe, clock, |  --tick---> interpreter
 bridges <--replies, changes-----  |  readings, events, tick, |                 |
 callers --calls---------------->  |  flush, write, report    |                 |
                                   +------------+-------------+                 |
                                                | reads, writes, subscription   |
 embedder, bridges --clones-->          the data store  <-----------------------+

 a bridge, of ROS 2:
 device --changes--> outbound seam --> node task --> publishers, subscriptions
                                          |  forwards changes, resolves, retires
                                          v
 ROS 2 clients --goals, cancels, results--> action tasks --spawn, stop--> device
```

| Component | State | Operations | What makes it correct |
|---|---|---|---|
| Data store (`arora-simple-data-store`) | a lock per cell, the map of cells, the subscriber list | batch `write`, `slot` and `Slot::set`, `subscribe_prefix`, receive, drop | a subscriber ends on the store's values, whatever interleaved |
| Device step (`arora/src/runtime.rs`) | clock, buffered readings and events, keys the HAL stated, endpoints that asked, standing error | the phases of `step`; `run` buffers between steps | hardware and endpoints learn every change; commands are answered; the clock never goes back; key statements come before the writes they govern, and the host's stand |
| Modules (`arora/src/lib.rs`) | loaded headers, runs followed and what they call | `load_module`, `reload_module`, `unload_module`, `call` | one owner per function id; nothing sent to a module outlives its change; the runs calling it are halted |
| Interpreter (`arora-behavior-tree/src/behavior.rs`) | graph, main root, live and finished runs, halted keys, lowered tree, fresh nodes, revision, traces | `load`, `apply`, `read`, `spawn`, `spawn_graph`, `trace`, `halt`, `tick` | an outcome once published stands; a halt takes effect; a run leaves whole and changes nobody else's nodes; a revision tells main behaviors apart |
| Graphs and diffs (`arora-behavior/src/graph.rs`) | none | `Graph::apply`, `Graph::diff` | applying the diff of two graphs gives the second |
| Traces (`trace.rs`) | the running traces, what each told its reader, what the previous tick did | `start`, `halt`, `restart`, `arm`, `report` | the reports of a trace fold to what the ticks did |
| Tree (`behavior_tree.rs`, `detached.rs`) | latches, node state, cells, caches | lowering, node ticks, detached evaluation | the lowered tree is the graph's; kept state is of unchanged nodes |
| ROS 2 actions (`arora-bridge-ros2/src/actions.rs`) | a task's book of goals, its outboxes, pending result requests | goal, cancel and result requests; changes, resolutions and the retirement from the node task | the ROS 2 life cycle of goals; nothing a run reported is lost or told late; a bound action has one run |
| ROS 2 node task (`arora-bridge-ros2/src/bridge.rs`) | the outbound seam, publishers and their topics, typed outputs, subscriptions, served skills | merge and wake, take and publish, expose what the device describes | never publishes where it subscribes; the newest value goes out; every skill is served, by one task |
| Engine (`arora-engine`) | instances of modules, budgets | load, call, interrupt | a call ends, within its budget |
| Other bridges and HALs (`arora-bridge-ws`, `arora-hal*`) | sockets, queues, topics | transport of the contracts | what the contracts say |
| Registries, values, macros, animation, web, command line | files, bytes, generated code | | |

The behaviours that are hard to test, which the properties are aimed at:

- **Between two locks.** The store releases a cell before it notifies, and opens
  a subscription cell by cell, while other threads write. The bridge's seam merges
  a change and wakes the node in two steps, through a channel of one item.
- **Between two phases.** A reading, a description, a command or an embedder's
  write may arrive at any point of a step; what the hardware and an endpoint are
  sent is computed from several of them.
- **Across an await.** An action's task asks the device to stop one run and spawn
  another; while it awaits the answers the runs write and end, and the node task
  forwards, resolves and retires.
- **A failed step of several.** A tick that fails is not swept; a graph that does
  not lower is retried; a pruning that is refused has already taken its runs off
  their list; a report that is not written has already been told; a publisher that
  cannot be created leaves its topic to others.
- **Changes under way.** A module is replaced while calls to it wait in two
  queues and runs call it; a run is halted, taken over or edited while it ticks;
  a load replaces nodes a run holds too; a key is opened to remotes, or a skill
  lost and found again, while the bridge publishes and serves.
- **At a limit.** The result cache is full, the window of unacknowledged messages
  is full, the wake channel is full, the clock saturates.
- **What must happen.** Every command is answered and every halt takes effect,
  though the main behavior fails at every tick; every result asked for arrives,
  every cancel takes effect and every retired task ends.

## Modules and the code they model

### DataStore

One action per atomic piece of `SimpleDataStore`: a batch begins, sets or unsets
one cell under its lock (recording the effective change), and notifies after
every lock is released; a slot creates its cell when it is resolved and is set on
its own; a subscription takes the subscriber list's lock and then the map's,
reads the opening state one cell at a time, sends it and is listed; a dropped one
stays listed until the next notification. Setting a value already held does
nothing. Keys, values and prefixes (the sets of keys they cover) are abstract.

### Runtime

The phases of `Arora::step` in order, as actions of one program counter:
`SweepNow` takes in what arrived, `ReadHalKeys` and `StateHalKeys` state what the HAL
said of keys, `TickClock` advances the clock, then `ApplySensor`, one action per kind of
event, the behavior's tick, `Flush` and `WriteOut`. Arrivals, host writes and host
statements are actions enabled at any point, `BufferReading` and `BufferEvent` are
`run`'s draining between steps.

The step and the embedder are two threads on one store. A `Write` stores the cells and
leaves what it changed in the thread's `flight`; `Notify` takes it to the device's feed,
which is kept coalesced. The other thread may store the same key, and notify it, in
between. `raced` marks a key from such a crossing until its next write that crosses no
other: what the parties are promised of it then, and what not, is what `UpToDate` says.
In the same way `describe_hal_keys` reads all metas (`ReadHalKeys`, which keeps in
`describing` what it is about to state) and states them later (`StateHalKeys`), and
`crossed` marks a key the host stated in between. That a remote's update is checked and
then written is one action: a host statement in between would only matter to a key whose
type changes, which the runs and the theorem about types exclude.

The clock is a u64 of `ClockMax + 1` values: a step's nanoseconds are cut to it (`Nanos`,
the code's `as u64`) and added with saturation (`Advance`). A bridge, the HAL and the
host are environment actions; `mirror`, `halKnows`, `hostMeta` and `awaiting` record what
each of them knows. The commands of task runs are TaskRuns' matter and appear as calls
that write.

### TaskRuns

The life of a run: spawned from a call or a graph, taken over by a graph with its
root, edited, ticked, ended, latched, swept, pruned, or halted, by its handle or
because a module it calls changed. Runs are numbered in the order they were
spawned, which is the order the runner ticks them in. A step is split where the
code may stop early: `BeginTick` writes the halts' statuses and lowers (or fails),
`TickMain` and `TickRun` tick the runner's children in order and stop at the first
error, `EndTick` sweeps unless the tick failed, `ReportTaskRuns` forgets the runs
whose status is terminal. `Interrupt` is `Arora::interrupt`: everything received is
swept in, commands calling the module fail, runs calling it are halted. Where
`MayRefuse` holds, the graph may refuse any pruning: a halt then fails, is answered or
logged so, and leaves the run `lost`, off the list and still ticked; a request, or a tick,
that was to prune finished runs fails and forgets them. A run's
program is the functions its nodes name and the calls bound in it; what it
returns when it ticks is any of `Outcomes`. A trace is a run that ticks nothing.

A lost run's fragment is the main behavior's to an edit, which is left out, and the
fragment of a finished run that could not be pruned, latched and inert, is not kept track
of. When a pruning is refused, and what becomes of the graph, is Scaffold's matter.

### Scaffold

The graph itself, and every way to change it. `bt` is the interpreter's struct,
with the code's field names; operators compute the next struct from one, as the
methods do, so that a request that first prunes and then changes is one action.
Nodes have children, a flag for a module call, and one port, unbound, bound to
data or reading another node's. `Reach`, `Acyclic`, `IsTree` and `Lowers` are the
walks and checks (`reach`, `check_acyclic`, `check_tree`, and the chain of reads
`load_behavior_tree_nodes_with` follows); `ApplyDiff` and `Diff` are
`Graph::apply` and `Graph::diff`; `MainGraph` is what a read answers. A refused
request keeps what pruning the finished runs had made of the graph, as the code
does. Node order is left out ("Their order means nothing to an interpreter",
`graph.rs`). Fresh ids are drawn from ids no node has. The revision counts modulo
`Revisions`, of which a step advances at most two.

Left out of a port: that it may write (`_ret`, mutable parameters), selections,
and so what `check_selections` and the lowering of detached nodes' outputs refuse.

### Traces

What each tick did, turned into what changed since the previous tick and reported
to every running trace at its own pace. `Start`, `Halt` and `Edit` come between
ticks; `Tick` is `BehaviorTreeInterpreter::tick` as the traces see it: the graph is
lowered if it changed (restarted nodes are forgotten by the traces that reported,
what nodes returned is kept where they stay), the tree ticks, every trace notes the
changes, and each that is due and has something to say writes a report or, when
the write fails, starts over. `TickFails` and `TickFailsLowered` are the two places
a tick may end early. What a tick does with a node (its status, whether a detached
one was called or answered from its cache) is one mark. A node that ends in an error
returns nothing and what it returned before stands. A reader folds the reports
it gets as the documentation of a report says; `seen` is what it ought to have.

TaskRuns, Scaffold and Traces are three views of one interpreter: the first keeps
the runs, their latches and statuses; the second the graph and the lists; the third
what is told of the ticks. Their shared actions have the same names in the code
(`graft`, `respawn`, `halt`, `prune_finished`, `sweep_terminal_runs`).

### ActionGoals and ActionServer

`ActionGoals` is the abstract specification: the life cycle of ROS 2 goals
(accepted, canceling, ended, forgotten) and the answers to result requests.
`ActionServer` is one action of the bridge in detail: `action_task`, its `GoalBook`
and its outboxes. The task takes one thing at a time (`ReceiveGoal`, `ReceiveCancel`,
`ReceiveResult`, `TakeWatched`); before it handles a goal it drains what the node
task sent (`HandleGoal`), and then awaits, one action each, the stop of a preempted
run, the spawn and the stops of a cancel (`Stop`, `Spawn`, `Accept`, `FinishCancel`),
while `RunWrites`, `Forward`, `Resolve` and `Retire` go on beside it. `Observe`
applies a change to the book: results, feedback, ends, the eviction of the oldest
ended goals beyond `Capacity`. An outbox takes a message or holds it until `Retry`; a
message that cannot be built, encoded or delivered is dropped by the code, after a
warning, and counts as written here. A spawn succeeds, is refused, or answers something
that is no handle: the run then goes on and is nobody's.
`ServesGoals` says that ActionServer implements ActionGoals, the state of a goal
being its status in the book.

### Ros2Node

The node task of the ROS 2 bridge and the seam to it. `TrySend` merges a change on
the device's thread and `Wake` fills the channel of one item; `Receive` and `Take`
are the node's side. `PublishKey` publishes one key of the change taken: it feeds
the typed outputs the key is routed to, or decides whether the key has its topic
(`Decide`, which may take the topic from a key that sorts later) and publishes;
`PublishDirty` publishes the typed outputs. A key's publisher is of the message kind of
the first value it published and drops a value of another, unless it is JSON (`Takes`);
a value its field of a typed output does not take leaves the field as it was (`Lands`),
and a message that does not encode is dropped (`Sends`). Which value fits and which
message encodes are the constants `Fits` and `Encodes`. A key has one field in an output
it is routed to. `Expose` asks the device what it
describes, subscribes the inputs, serves and retires skills, and frees or silences
the publishers whose topics changed side (`FollowSubscriptions`). A skill's task is
`ActionServer`; here it is alive, serving or retired. Any endpoint may fail to be
created.

## Runs

| Run | Checks | Shows |
|---|---|---|
| `store_own_keys` | StaysCurrent, EventuallyCurrent | no two threads writing one key, every subscriber stays current and converges |
| `runtime_step` | HalInformed, MirrorsInSync, ClockForward | hardware and endpoints have the store's values between steps, though each writer writes the same key, but for a key two threads crossed on; the clock never goes back |
| `runtime_descriptions` | DescribedFirst, HostMetaKept, TypedKeysConform, CommandsAnswered | statements about keys precede the writes they govern and leave the host's, but for one made while they were being read; every command is replied to, the behavior failing or dropped |
| `runs_outcomes` | LiveRunsRun, OutcomeStands | no run's tick failing: outcomes stand, live runs run |
| `runs_faults` | RunsFollowed, HaltsTakeEffect | ticks failing and prunings refused: runs are followed, halts granted take effect |
| `runs_modules` | NoStaleCommand, CallersHalted | modules changing under queued commands and runs, which other graphs take over; no pruning refused |
| `scaffold_surgery` | TypeOK, AnsweredTruly, RunsLeaveWhole, RunsStayPut, RevisionTells, ChangedNodesRestart | surgery on the shared graph |
| `scaffold_lost_run` | RunsLeaveWhole, violated | a refused pruning loses the run and keeps its fragment |
| `traces` | ReadsTrue | the reports of a trace add up, across paces, edits and failed writes |
| `actions` | OneRunAtATime, NoLateFeedback, StatusTold, OutcomeOnItsWay, HaltedIsStopped, ResultsKept, NoStaleSpawn, ServesGoals | an action, on both wires, implements the life cycle of goals; nothing is lost or late |
| `actions_liveness` | ResultArrives, CancelTakesEffect, RetiredEnds | what a client or the node asks for happens |
| `ros2_node` | NoEcho, FirstKeyHasTopic, NewestPublished, NewestComposed, NoLostWake, OneTaskPerSkill, SkillsServed | publishing, subscribing and serving while the device changes |

The type invariants of the modules but Scaffold are only proved (below); of TaskRuns'
its proofs state the part they need (`RunTypes`). `OneOwner`, `RecordsWhileTraced`
and `FirstCauseStays` are proved and no run's property.

### Bounds, and why they are enough

- **Store** (53 thousand states): two threads, three keys, one subscriber, three
  writes. Two threads are what a race takes; a batch that sets one key and unsets
  another shows half-made batches; a whole and a partial prefix show filtering.
  Subscribers do not interact but through the list's lock, so one suffices. The
  run says `CHECK_DEADLOCK FALSE`: when the writes are used up nothing is left to
  do. The same holds of Traces, ActionServer and Ros2Node, whose ticks, runs, writes
  and asks are counted.
- **Runtime** (2.1 million and 755 thousand states): one data key and the clock's,
  three values of two types, one endpoint and the in-process queue, one reading and one
  event waiting. In `runtime_step` every writer writes the same key, so each order of two
  writes within and across phases, and of their notifications, happens; a second key
  would only be written beside it. The clock has two values, and a step of 2 is beyond
  them. `runtime_descriptions` has two descriptions, one stated before the other is
  read, which open and close the key as the host does; readings play no part in it.
- **TaskRuns** (1.6 million, 430 thousand and 1.9 million states): two runs or traces,
  one client root, one or two modules and functions, one or two commands waiting, two
  changes of each module. Two runs show that one's error stops the other, or that one is
  lost and the other not; two changes are a load and a replacement or an unload, of two
  modules, with a command sent and a run taken over between any two.
- **Scaffold** (49 thousand states): the client ids `m` of the main behavior and
  `r`, `x` of runs, three fresh ids, which allow a run of a graph beside a run of
  a call; three fragments (a node, a node over one that reads it, a node reading
  a detached one), and edits by which the main behavior reads, holds or is rooted
  at a run's node, a run reads the main behavior, and nodes go or are set anew.
  Fresh ids are interchangeable and form the symmetry set; the edits naming them
  name each of them. `Revisions = 3` is the least that tells two steps apart.
  No read of a surviving node goes through another surviving node that reads a
  leaving one: `scaffold_lost_run` adds exactly that.
- **Traces** (458 thousand states): two traces, one paced and one not, two nodes of
  which each trace watches some, one mark and one value besides none, three ticks,
  two edits, time to 1. Three ticks are a first report, one the paced trace misses
  and one that must make up for it; two edits are a removal and the same node back.
- **ActionServer** (3.0 million states; 107 thousand for liveness): two goals of
  different priorities, one result request, a cache of one, two runs, one item of the
  node task ahead. Two goals preempt one another and evict one another's results; a
  second item ahead would be drained like the first. Liveness has one goal, on the
  bound wire, whose runs write no result: it is the reply that must come.
- **Ros2Node** (1.0 million states): two keys that share a topic and a third, routed
  to a field of one output, on a skill's topic, and the whole message of another; three
  values, one of them of another kind, which the field does not take and which does not
  encode; two writes, four asks. Two writes coalesce, set and unset, or change the kind;
  four asks are a skill served, lost, found again while its task still runs, and served
  anew. The two values of one kind are interchangeable, and the symmetry set.

## Fairness

- `DataStore!FairSpec`: a thread inside the store runs on, since no lock is held
  while waiting on another thread, and an observer drains its subscription, as
  the runtime does each step and bridges do in a loop.
- `Runtime!FairSpec`, `TaskRuns!FairSpec`: weak fairness of `Step` alone. `run`
  polls its tick before its feeds, so arrivals cannot keep a step from starting,
  and a step, once begun, runs to its end in one poll. Nothing is assumed of the
  HAL, remotes, hosts, clients or of what behaviors return.
- `ActionServer!FairSpec`: strong fairness of what the task's `select!` may choose
  among several ready branches, which it does at random (`TakeWatched`, `End`,
  `HandleGoal`), and of `Forward`, the node task's own loop; weak fairness of what the
  task does next with nothing to choose (`Accept`, `FinishCancel`) and of the device's
  answers to its calls (`Spawn`, `Stop`), which every step gives; and, since a reader
  acknowledges in the end or is dropped, of a retry that empties the outboxes. Nothing
  is assumed of the clients or of the runs.

Scaffold, Traces and Ros2Node state safety only.

## What disagrees with the code's own documentation

Checked by a run that is expected to be violated:

1. **A run lost, its fragment kept** (`scaffold_lost_run`; `behavior.rs:1217`). `halt`
   takes the run off the list, then prunes. When a main node `n` reads the run's node
   and a main node `m` reads `n`'s port, removing the run unbinds `n`, `m` then reads
   an unbound port, the graph does not lower and the pruning is refused. The fragment
   ticks on under the runner, halting it again is a no-op, its status is never
   written, and a read counts its nodes as the main behavior's, at an unchanged
   revision. `prune_finished` loses finished runs the same way, from inside whatever
   request or tick pruned them.

Seen while modelling, and kept out of the passing runs' instances:

- **A subscriber left behind** (`arora-simple-data-store/src/lib.rs:151`). A write
  releases its cell before it notifies: two threads writing one key may notify in the
  other order. `subscribe` promises a subscriber "stays current". `StaysCurrent` is
  checked, and proved, for keys of one writer each. In Runtime the embedder and the step
  do write one key: a crossing can leave the hardware and the endpoints on the older value
  until the next write, and `HalInformed` and `MirrorsInSync` pass the key over until then.
- **A statement of the host overwritten** (`runtime.rs:247`). `describe_hal_keys` reads
  every meta, then states the HAL's: what the host states of a key in between is lost,
  though "A key whose own meta someone else stated — the host, before or after the build —
  keeps it". `HostMetaKept` passes such a key over until the host states it again.
- **An outcome overwritten** (`behavior.rs:917`). A tick that fails is not swept, so a
  run that succeeded in it is still live; halting it writes `Failure` over `Success`.
  "A terminal *run* latches — its status key holds the outcome." For the same reason
  a run that ended in a failed tick is still found by its root and taken over, inert
  (`behavior.rs:1152`). `OutcomeStands` and `LiveRunsRun` are checked, and proved,
  where no run's tick ends in an error.
- **A caller not halted** (`arora/src/lib.rs:1551`). The device notes the functions a
  graph's nodes name, not the calls bound in it, so replacing a module does not halt a
  run that reaches it through such a call, nor one that an edit gave a call to it, and
  does not fail a queued request for such a graph. `CallersHalted` and `NoStaleCommand`
  are checked, and proved, where graphs bind no calls and edits bring none. Nor does it
  halt a run whose pruning is refused (`arora/src/lib.rs:430`): the failure is logged, the
  run goes on, and `CallersHalted` is stated where the graph lets every fragment leave.
- A host that states of a key exactly what the HAL stated is taken for the HAL, whose
  next description replaces the statement (`runtime.rs:239`). `HostStatementsKept` is
  therefore proved for hosts and HALs that never state the same.
- A key given a type after a remote wrote it keeps a value of another type
  (`runtime.rs:374`); `TypedKeysConform` is checked, and proved, where the types are
  settled from the start.
- `respawn` sets the run's list of detached nodes without a revision when nothing else
  differs (`behavior.rs:768`): a detached node that an unrooted main node holds passes
  to the main behavior unannounced. No fragment of `scaffold_surgery` differs from
  another in a detached node alone. The list itself is kept as spawned
  (`behavior.rs:152`), whatever edits do to the run.
- A main behavior that errors at every tick keeps every task run from ticking
  (`behavior_tree.rs:719`), and an interpreter that ends leaves the runs it had in the
  device's list (`runtime.rs:790`).

Seen in the ROS 2 bridge, and part of its models: the properties say what holds in spite
of it.

- A goal whose id is known spawns, and on a bound action preempts, before it is
  rejected, and its run is nobody's, as is one whose handle does not decode ("A bound action serves one goal at a time",
  `arora-bridge-ros2/README.md:134`): `OneRunAtATime` leaves out such a run, and one
  whose stop failed. A goal whose spawn is refused has stopped the one it preempted.
- The retirement leaves the result requests that wait unanswered. More goals than the
  cache keeps, ending in one change, can make the result of one of them unknown to a
  request that waited for it.
- A task whose endpoint stops receiving ends, and its name stays taken, so that the
  skill is not served again while the device keeps it.
- A key that takes a topic over and whose publisher then cannot be created leaves both
  keys without one. An input or a skill whose endpoint could not be created is tried
  again only when the description changes. A service that is made again drops the
  request in flight.
- A key whose values change their type keeps the publisher of the first one, which drops
  the later ones (`conversions.rs:1212`); a typed output's message that does not encode
  is dropped once its change was taken note of (`bridge.rs:418`). The topic then shows an
  older value. `NewestPublished` and `NewestComposed` speak of the values that are taken,
  land and encode.

## Proofs

Seven modules, for every value of the constants that satisfies the named assumptions.
Every safety property of a passing run has a theorem; the runs' instances satisfy what
the theorems assume.

| Theorem | States | Assumes besides the constants' types |
|---|---|---|
| `DataStoreProofs`: `StoreTypeCorrect` | `Spec => []TypeOK` | |
| `SubscribersStayCurrent` | `Spec => []StaysCurrent` | `OneWriterPerKey` |
| `RuntimeProofs`: `RuntimeTypeCorrect` | `Spec => []TypeOK` | |
| `HardwareInformed` | `Spec => []HalInformed` | |
| `EndpointsInSync` | `Spec => []MirrorsInSync` | |
| `HostStatementsKept` | `Spec => []HostMetaKept` | `HalMetas \cap HostMetas = {}` |
| `ClockNeverGoesBack` | `Spec => ClockForward` | `ClockOwned` |
| `DescriptionsFirst` | `Spec => []DescribedFirst` | |
| `TypedKeysKeepTheirType` | `Spec => []TypedKeysConform` | `TypesSettled(declared)`, of some `declared` |
| `TaskRunsProofs`: `NoneEscapes` | `Spec => []RunsFollowed` | |
| `TakenOverRunsRun` | `Spec => []LiveRunsRun` | `"error" \notin Outcomes` |
| `OutcomesStand` | `Spec => OutcomeStands` | `"error" \notin Outcomes` |
| `FunctionsHaveOneOwner` | `Spec => []OneOwner` | |
| `NoCommandOutlivesItsModule` | `Spec => []NoStaleCommand` | no program of `Programs` binds calls |
| `ChangesHaltCallers` | `Spec /\ [][EditsAddNoCall]_vars => CallersHalted` | the same, `"error" \notin Outcomes` and `~MayRefuse` |
| `ScaffoldProofs`: `TypeCorrect` | `Spec => []TypeOK` | |
| `ChangesRestart` | `Spec => ChangedNodesRestart` | |
| `SpawnsDoAsTold` | `Spec => []SpawnTrue` | |
| `RequestsDoAsTold` | `Spec => []AnsweredTruly` | `BehaviorsRooted` |
| `RunsGoWhole` | `Spec /\ []PruningSucceeds => RunsLeaveWhole` | `RunnerPrivate` |
| `RevisionIsKept` | `Spec /\ []PruningSucceeds /\ []StrandsNone => RevisionTells` | |
| `RunsKeepTheirPlace` | `Spec /\ []Apart => RunsStayPut` | |
| `TracesProofs`: `TypeCorrect` | `Spec => []TypeOK` | |
| `ReportsAddUp` | `Spec => []ReadsTrue` | |
| `RecordsOnlyTraced` | `Spec => []RecordsWhileTraced` | |
| `ActionServerProofs`: `TypeCorrect` | `Spec => []TypeOK` | |
| `BoundServesOne` | `Spec => []OneRunAtATime` | |
| `FeedbackInTime` | `Spec => []NoLateFeedback` | |
| `StatusesTold` | `Spec => []StatusTold` | |
| `HaltsReachTheRun` | `Spec => []HaltedIsStopped` | |
| `SpawnsUpToDate` | `Spec => []NoStaleSpawn` | |
| `CauseStays` | `Spec => FirstCauseStays` | |
| `Refinement` | `Spec => ServesGoals` | |
| `OutcomesReachTheBook` | `Spec => []OutcomeOnItsWay` | |
| `ResultsReachTheGoal` | `Spec => []ResultsKept` | |
| `Ros2NodeProofs`: `TypeCorrect` | `Spec => []TypeOK` | |
| `NeverEchoes` | `Spec => []NoEcho` | |
| `FirstKeysHaveTopics` | `Spec => []FirstKeyHasTopic` | |
| `NewestIsPublished` | `Spec => []NewestPublished` | |
| `NewestIsComposed` | `Spec => []NewestComposed` | |
| `WakesAreKept` | `Spec => []NoLostWake` | |
| `TasksNeverShare` | `Spec => []OneTaskPerSkill` | |
| `SkillsStayServed` | `Spec => []SkillsServed` | |

**`SubscribersStayCurrent`.** StaysCurrent speaks of keys with no write in flight and
of subscriptions that are on, and is not inductive: nothing in it keeps an opening in
progress from missing a write. `StoreInv` adds that what a thread has in hand is of its
own keys (`OwnKeysOnly`), that what is in flight is what the cell holds
(`FlightIsCurrent`: here the one-writer discipline is used, no other thread can
overwrite it), that a key without a cell has no value (`UnmadeIsAbsent`) and that an
opening read so far is current but for writes in flight (`OpeningIsCurrent`). The
lemmas `AppendNaming`, `AppendOther` and `TakeHead` say what a channel will show once
drained after a change is sent or received.

**`HardwareInformed`, `EndpointsInSync`.** Both are about the idle device; the invariants
follow a change through the step, of the keys the two threads did not cross on: what a
thread has yet to notify is the store's value and no other thread's too
(`FlightIsCurrent`), the feed holds the store's values but for those (`FeedIsCurrent`), so
does the outbound change but for keys written since the flush (`OutIsCurrent`), and what a
party lacks is being notified, in the feed or going out (`WillKnow`). The hardware needs
`ReadingsKnown` besides: what is left out of the push is what the hardware itself said.
An endpoint needs that it is still asking.

**`HostStatementsKept`.** `MetaInv` types what the HAL has stated by what it may state,
so that a key's meta equal to the HAL's statement is never the host's; and the
description in hand names keys the host has not stated, but for those it stated since.

**`ClockNeverGoesBack`.** `ClockOwned`: the clock's subtree is closed, and no reading, call,
behavior, embedder or HAL description names it, so that the step alone writes it. Then the
store's clock is `Clock::time_ns` or, before the first step, absent, and `Advance`,
which saturates, never takes it back.

**`DescriptionsFirst`.** Counts: an event is stamped with the descriptions sent before
it, and those not stated yet are in the feed.

**`TypedKeysKeepTheirType`.** `TypesSettled` gives each key a type before the device runs:
what covers the key and what the HAL may say of it state that type, the readings, the
called functions, the behavior and the embedder keep to it, and the host either states
it too or takes types off and never puts one back. Remotes may ask for anything. By
`Settled`, a key that nobody, or only the HAL, has stated holds a value of its type, so
that a statement is true when it is made; one whose type the host took off is out of the
HAL's reach, which tells its own statements by their value. Without the hypothesis the
property fails: a type put on after a write does not look at the value there.

**`NoneEscapes`, `TakenOverRunsRun`, `OutcomesStand`.** `RunInv`: a number is of one live
run, lost run, halted run or trace at most, and untouched before it is given out (`Apart`,
`Untouched`); a run in the graph is latched exactly when its status is terminal
(`LatchAgrees`), so a tick, which reaches live and lost runs only (`TreeCurrent`), never
turns an ended one back. That much holds whatever fails, and keeps every run followed. Where no
run's tick ends in an error, `OutcomeInv` adds that outside a tick no live run is
latched, because every tick that reached the runs was swept, and so that no halted run
has an outcome to lose.

**`NoCommandOutlivesItsModule`, `ChangesHaltCallers`.** `QueueInv`: a queued command asks
of modules as they are loaded now, and calls each of them as the device tells a call
(`CallsModule`). So what a change filters out of the queues is all that asked of the
module. That the filter gives commands of the queue and no others (`SparedCommands`) is
an induction over the queue. `NoteInv`: what a live run's program calls is in the
device's note of it, and the run was not interrupted; so every live caller is among those
halted. The note is refreshed by a takeover and not by an edit, which is why edits that
bring calls are excluded; a run that ended in a failed tick is live and no longer
followed, which is why errors are; and a run that is not let go stays in the graph, which
is why refusals are (`NoneLost`).

**`ScaffoldProofs`.** `ScaffoldInv`: the state is `Typed`, the runner holds the main root
and every run's decorator, and no node under the runner is its own descendant
(`Standing`). It rests on what the walks over the graph give: the code's walk is a
recursion over the nodes found so far, and `WalksAreHulls` shows it to be the least set
closed under children, by a largest counterexample among finitely many sets; the diff
and its application are characterised by what they do to each node (`IsApplied`).
`ChangesRestart` then needs only that every request marks what its diff sets or unbinds,
pruning included. `SpawnsDoAsTold` shows that a diff of the run's nodes against the
fragment, applied, gives the fragment, and that nothing else comes under the decorator.
Each of the other theorems says under which condition the property holds, and each
condition is about a case the code really has:

- `BehaviorsRooted`, all of a loaded graph hangs under its root: a node that is loaded
  beside the root and that a run also detaches is read as the run's.
- `PruningSucceeds`, no pruning is refused: the case of `scaffold_lost_run`.
- `RunnerPrivate`, no loaded graph names the runner, whose id is drawn at random.
- `StrandsNone`, no respawn with an empty diff leaves a detached node of the run to
  nobody: it is then the main behavior's, and no revision is made (`behavior.rs:768`).
- `Apart`, no node but the runner has a decorator as a child, and no run's detached node
  is another run's: an edit may put one run's detached node under another run, whose
  halt then takes it.

The conditions on states are invariants of the instance of `scaffold_surgery`.

**`ReportsAddUp`.** `InStep` relates a trace to its reader and to what the previous tick
did: what the trace remembers to have told is what the reader has, but for the nodes
restarted since, which the trace has forgotten and the reader is told to forget; and it
is what the previous tick did, but for the nodes that changed since the last report.
The lemma `ReportsTrue` shows from it that a report, folded, gives all that the tick
did, and that one with nothing to say finds the reader there already; `ReportedOne`
that a trace is in step again whatever becomes of the report. `ReturnsTrue` does the same
for the watched nodes' returns across lowerings.

**`ActionServerProofs`.** `IInv` says of the book that its entries are well made and name
the runs they were accepted with (`BookOK`), of the runs who owns each and which are
stopped (`RunsOwned`, `Vacated`), of the queue that what it reports is true
(`TrueReports`) and that what was unread when a goal came is counted down (`Counted`),
and of the status array that it is the book's (`Told`). `OneRunAtATime` follows since a
bound action spawns only when its active goal's run is stopped or over. `Refinement`
shows that every step changes the book by one of a few operations (`ChangesBook`), each
of which is a step of ActionGoals or none.

A second invariant, `Delivery`, follows what a run wrote to its goal. `OutcomeOnItsWay`
is not inductive: a run may end before the task has it in its book, so `OutcomesPending`
speaks of the run in hand too. `ResultsKept` needs that a result the goal lacks is in the
seam or the queue and never behind the outcome (`ResultsPending`), across merges in the
seam, forwarding and the retirement, which drops the seam but not what was sent; that
only what was written is reported or recorded (`TrueResults`); and that a goal which
ended is of a run that did, so that it writes no more (`EndedRuns`).

**`Ros2NodeProofs`.** What is pending or in the batch is the newest value of its key
(`SeamIsCurrent`); a topic's owner is a key that escapes to it, was decided, publishes,
and whose topic is not subscribed (`Ownership`); a key routed to a typed output is
published by it alone (`RoutedApart`), so that what its publisher takes does not matter;
a retired task is remembered until it ended
(`TasksKept`); inputs are subscribed for the first key (`InputsFirst`).

Only model-checked: the liveness properties (EventuallyCurrent, CommandsAnswered,
HaltsTakeEffect, ResultArrives, CancelTakesEffect and RetiredEnds), since the prover does
not do fairness.

## What is not modelled

- **The other transports** (WebSocket, REST): pure I/O against external middleware; what
  they carry is the environment of Runtime. Of the ROS 2 bridge: services and the
  delivery of input topics, which hand each message to the device; the log of refusals;
  topic skills, which are a run replaced by each message; how messages are encoded
  (which values a publisher or a field takes, and that a message may not encode, are in
  Ros2Node); signatures and profiles.
- **The WebSocket bridge's hand-over** of one client to the next (`server.rs:482`) and
  its lagging receivers (`server.rs:464`) depend on the runtime's channels and are next
  to be modelled.
- **Guest code and its executors**: any outcome, in TaskRuns. The engine's budgets, and
  the instance made afresh after an interrupted call (`engine.rs:576`), are on the plan.
- **Real time**: the Metronome's cadence. Traces' intervals are modelled over a small
  range of times, the retries of outboxes without their delays.
- **The store refusing a write**: `SimpleDataStore` never does; a step would then stop
  in its middle. Traces models it for the reports, which a wrapping store may refuse.
- **Data**: values, key paths, type registries, selections, serialization, Groot XML and
  the readable text forms, animation curves, buffers, message types. They are functions
  of their input and keep no state.
- **Nodes of the tree** other than the runner, the run-call leaf and the run-status
  decorator, and the state nodes keep from one lowering to the next.
- Code generation, registries, the command line and the web host. They are most of the
  repository's lines: code that transforms data or generates code, with no state
  between calls.

## Plan

In order of importance.

1. *Done*: DataStore, Runtime, TaskRuns, Scaffold, Traces, ActionServer (with ActionGoals)
   and Ros2Node, each with its proofs.
2. **Weaker hypotheses**: `RunsLeaveWhole` where pruning is refused for one run only;
   `Apart` from a condition on the edits themselves, rather than on the states.
3. **WebSocket bridge**: one client at a time, handed over, with a lagging receiver.
4. **Detached** (`detached.rs`): evaluation on demand, with caches; each detached node
   runs at most once a tick and before what reads it.
5. **Lowering**: node state kept over a lowering (`keep_state`), composed with Scaffold's
   fresh nodes.
6. **Engine limits**: budgets, interruption, the module instantiated afresh.
7. **Metronome**, **NamespacedStore**, **topic skills**: small modules.
8. **Composition**: Ros2Node with several ActionServers for its skills; an abstract device
   that answers commands in order, which Runtime implements; an abstract store of whole
   writes, which DataStore implements under the one-writer discipline and Runtime assumes.
