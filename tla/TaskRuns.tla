------------------------------ MODULE TaskRuns ------------------------------
(***************************************************************************)
(* Task runs on the behavior tree interpreter                              *)
(* (crates/arora-behavior-tree/src/behavior.rs), followed by the device    *)
(* that hosts it (crates/arora/src/runtime.rs) and interrupted by changes  *)
(* to the guest modules they call (crates/arora/src/lib.rs).               *)
(*                                                                         *)
(* A run is a fragment of the interpreter's graph under a decorator that   *)
(* publishes its status to a key and latches a terminal one.  Runs are     *)
(* numbered in spawn order, which is the order the runner ticks them in,   *)
(* after the main behavior.  A trace is a run that ticks nothing.          *)
(*                                                                         *)
(* A program is the functions its nodes name, each of the module exporting *)
(* it, and the calls bound to its run-call leaves, each naming its module. *)
(* What a program returns when it ticks is any of Outcomes.                *)
(***************************************************************************)
EXTENDS Naturals, Sequences, SequencesExt

CONSTANTS
    MaxRuns,     \* bound: runs and traces ever started
    Roots,       \* root nodes of spawned graphs
    NoRoot,      \* a fresh root, of a run spawned from a call
    Modules,     \* guest module ids
    NoModule,    \* a run that is not of one module's function
    Functions,   \* function ids
    Headers,     \* the versions a host may load: [id, exports]
    Programs,    \* the graphs a client may spawn: [nodes, bound]
    Edits,       \* the programs an edit may turn a run's into
    Mains,       \* main behaviors: "fine", "failing", "unlowerable"
    Outcomes,    \* what a run's tick ends in
    MayRefuse,   \* whether the graph may refuse to let a fragment leave
    MaxCommands, \* bound: commands received and not applied
    MaxChanges   \* bound: changes of one module

Runs == 1..MaxRuns
Terminal == {"success", "failure"}
Program == [nodes : SUBSET Functions, bound : SUBSET (Modules \X Functions)]
NoProgram == [nodes |-> {}, bound |-> {}]

ASSUME TaskRunsAssumption ==
    /\ MaxRuns \in Nat /\ MaxCommands \in Nat /\ MaxChanges \in Nat
    /\ NoRoot \notin Roots
    /\ NoModule \notin Modules
    /\ Headers \subseteq [id : Modules, exports : SUBSET Functions]
    /\ Programs \subseteq Program /\ Edits \subseteq Program
    /\ Mains \subseteq {"fine", "failing", "unlowerable"}
    /\ MayRefuse \in BOOLEAN
    /\ Outcomes \subseteq {"running", "success", "failure", "error"}

VARIABLES
    pc,        \* the phase of the device's step, "idle" between steps
    made,      \* runs and traces started so far
    \* BehaviorTreeInterpreter
    live,      \* runs: the live task runs, numbered in the order they were spawned
    lost,      \* runs taken off that list whose fragments are in the graph still
    finished,  \* finished: ended, their fragments not pruned yet
    halted,    \* halted: the runs whose Failure the next tick writes
    traces,    \* traces: the running traces
    begun,     \* the traces that have reported, and so have a status
    dirty,     \* the graph changed since the last lowering
    lowered,   \* the runs of the lowered tree, ticked in that order
    latch,     \* each decorator's latch
    program,   \* each run's program
    root,      \* its root node
    main,      \* the main behavior
    \* The tick in progress
    todo,      \* the runs it has yet to reach
    failed,    \* it ended in an error
    \* The store
    status,    \* each run's status key
    \* Arora
    task,      \* task_runs: the runs the device follows, what it knows of them
    inbound,   \* commands sent
    pending,   \* commands received
    exports,   \* guest_modules: what each loaded module exports
    epoch      \* how many times each module was loaded, replaced or unloaded

graphVars == <<live, lost, finished, dirty, lowered, latch, program, root, main>>
traceVars == <<traces, begun>>
tickVars == <<todo, failed>>
moduleVars == <<exports, epoch>>
vars == <<pc, made, live, lost, finished, halted, traces, begun, dirty, lowered, latch,
          program, root, main, todo, failed, status, task, inbound, pending,
          exports, epoch>>

\* What a run calls, as the device notes it when it starts: RunCalls.
RunCalls == [module : Modules \cup {NoModule}, functions : SUBSET Functions]
TaskRun == [calls : RunCalls, halted : BOOLEAN, interrupted : BOOLEAN]

NoCalls == [module |-> NoModule, functions |-> {}]

Started(calls) == [calls |-> calls, halted |-> FALSE, interrupted |-> FALSE]

\* A function with the entry k set.
Put(f, k, v) == [x \in DOMAIN f \cup {k} |-> IF x = k THEN v ELSE f[x]]


Init ==
    /\ pc = "idle"
    /\ made = 0
    /\ live = {} /\ lost = {} /\ finished = {} /\ halted = {}
    /\ traces = {} /\ begun = {}
    /\ dirty = TRUE
    /\ lowered = {}
    /\ latch = [r \in Runs |-> "unset"]
    /\ program = [r \in Runs |-> NoProgram]
    /\ root = [r \in Runs |-> NoRoot]
    /\ main \in Mains
    /\ todo = {} /\ failed = FALSE
    /\ status = [r \in Runs |-> "unset"]
    /\ task = [r \in {} |-> Started(NoCalls)]
    /\ inbound = <<>> /\ pending = <<>>
    /\ exports = [m \in {} |-> {}]
    /\ epoch = [m \in Modules |-> 0]

------------------------------------------------------------------------------
(* The interpreter module's functions *)

\* graft: a fragment under a new decorator, whose latch is empty.  Finished
\* fragments leave with the change.
Graft(x, p, calls) ==
    /\ made < MaxRuns
    /\ made' = made + 1
    /\ live' = live \cup {made + 1}
    /\ finished' = {}
    /\ dirty' = TRUE
    /\ program' = [program EXCEPT ![made + 1] = p]
    /\ root' = [root EXCEPT ![made + 1] = x]
    /\ task' = Put(task, made + 1, Started(calls))
    /\ UNCHANGED <<lost, halted, traceVars, lowered, latch, main>>

\* Mutant: the device's note of what the run calls stays.
RespawnUnnoted(r, p, calls) ==
    /\ program' = [program EXCEPT ![r] = p]
    /\ dirty' = (dirty \/ finished # {} \/ program[r] # p)
    /\ finished' = {}
    /\ task' = IF r \in DOMAIN task THEN task ELSE Put(task, r, Started(calls))
    /\ UNCHANGED <<made, live, lost, halted, traceVars, lowered, latch, root, main>>

\* respawn: the live run r runs p from now on.  The device notes what it now
\* calls, or follows it anew.
Respawn(r, p, calls) ==
    /\ program' = [program EXCEPT ![r] = p]
    /\ dirty' = (dirty \/ finished # {} \/ program[r] # p)
    /\ finished' = {}
    /\ task' = IF r \in DOMAIN task THEN [task EXCEPT ![r].calls = calls]
                                    ELSE Put(task, r, Started(calls))
    /\ UNCHANGED <<made, live, lost, halted, traceVars, lowered, latch, root, main>>

\* spawn: one call, as a run of its own.
Spawn(m, f) ==
    Graft(NoRoot, [nodes |-> {}, bound |-> {<<m, f>>}],
          [module |-> m, functions |-> {f}])

\* spawn_graph: the live run that has this root takes the graph over; nodes that
\* are in the graph already are not grafted.
SpawnGraph(x, p) ==
    LET calls == [module |-> NoModule, functions |-> p.nodes]
        rooted == {r \in live : root[r] = x}
    IN  \/ \E r \in rooted : Respawn(r, p, calls)
        \/ rooted = {} /\ (\A r \in lost : root[r] # x) /\ Graft(x, p, calls)

\* trace: followed and stopped like a run.
StartTrace ==
    /\ made < MaxRuns
    /\ made' = made + 1
    /\ traces' = traces \cup {made + 1}
    /\ task' = Put(task, made + 1, Started(NoCalls))
    /\ UNCHANGED <<graphVars, halted, begun>>

\* The runs of S whose fragments the graph may refuse to let go.
Refusable(S) == IF MayRefuse THEN SUBSET (S \cap live) ELSE {{}}

\* Mutant: a run that finished is halted too.
HaltAllFinished(S, R) ==
    /\ live' = live \ S
    /\ lost' = lost \cup R
    /\ traces' = traces \ S
    /\ halted' = halted \cup ((S \cap (live \cup traces \cup finished)) \ R)
    /\ dirty' = (dirty \/ (S \cap live) \ R # {})
    /\ UNCHANGED <<made, finished, begun, lowered, latch, program, root, main>>

\* halt, of each run of S: it is off the list, its fragment leaves at once and its
\* status is written at the next tick; the fragments of R are not let go, and
\* those runs go on.  An unknown or finished run is left alone.
HaltAll(S, R) ==
    /\ live' = live \ S
    /\ lost' = lost \cup R
    /\ traces' = traces \ S
    /\ halted' = halted \cup ((S \cap (live \cup traces)) \ R)
    /\ dirty' = (dirty \/ (S \cap live) \ R # {})
    /\ UNCHANGED <<made, finished, begun, lowered, latch, program, root, main>>

\* A halt that fails is answered so, and the device notes none.
Halt(r) ==
    \E R \in Refusable({r}) :
       /\ HaltAll({r}, R)
       /\ task' = IF R = {} /\ r \in DOMAIN task THEN [task EXCEPT ![r].halted = TRUE]
                  ELSE task

\* apply, to a live run's nodes: the device's note of what it calls stays.
Edit(r, p) ==
    /\ r \in live
    /\ program' = [program EXCEPT ![r] = p]
    /\ finished' = {}
    /\ dirty' = TRUE
    /\ UNCHANGED <<made, live, lost, halted, traceVars, lowered, latch, root, main, task>>

\* load, or apply to the main behavior's nodes.
Load(b) ==
    /\ main' = b
    /\ finished' = {}
    /\ dirty' = TRUE
    /\ UNCHANGED <<made, live, lost, halted, traceVars, lowered, latch, program, root, task>>

\* A graph that does not lower, or an edit of the scaffold, is refused; what
\* had finished is pruned before it is known.  So is any request while it cannot be
\* pruned: it is forgotten, its latched fragment left in the graph.
Refuse ==
    /\ finished' = {}
    /\ dirty' = (dirty \/ finished # {})
    /\ UNCHANGED <<made, live, lost, halted, traceVars, lowered, latch, program, root,
                   main, task>>

\* What a remote may ask.
Ops ==
    [op : {"call"}, module : Modules]
    \cup [op : {"spawn"}, module : Modules, function : Functions]
    \cup [op : {"graph"}, root : Roots, program : Programs]
    \cup [op : {"halt"}, run : Runs]
    \cup [op : {"edit"}, run : Runs, program : Edits]
    \cup [op : {"load"}, main : Mains]
    \cup [op : {"trace"}]

\* A call to a module's function changes nothing here, nor does a request the
\* interpreter module refuses before it reaches the graph.
Perform(o) ==
    \/ UNCHANGED <<graphVars, halted, traceVars, made, task>>
    \/ o.op = "spawn" /\ Spawn(o.module, o.function)
    \/ o.op = "graph" /\ SpawnGraph(o.root, o.program)
    \/ o.op = "halt" /\ Halt(o.run)
    \/ o.op = "edit" /\ Edit(o.run, o.program)
    \/ o.op = "load" /\ Load(o.main)
    \/ o.op = "trace" /\ StartTrace
    \/ o.op \in {"graph", "edit", "load"} /\ Refuse
    \/ o.op = "spawn" /\ MayRefuse /\ Refuse

------------------------------------------------------------------------------
(* Commands *)

\* Whether an operation calls a module of these exports: a call to it, or a
\* request to start a run calling it.
CallsModule(o, m, E) ==
    \/ o.op \in {"call", "spawn"} /\ o.module = m
    \/ o.op = "graph" /\ o.program.nodes \cap E # {}

\* The modules an operation really reaches.
Reaches(p, m, E) == \E f \in E : f \in p.nodes \/ <<m, f>> \in p.bound
Reached(o) ==
    {m \in DOMAIN exports : \/ o.op \in {"call", "spawn"} /\ o.module = m
                            \/ o.op = "graph" /\ Reaches(o.program, m, exports[m])}

\* Bounds: a halt names a run that was started, and a run to start has a number.
Bounded(o) ==
    /\ o.op = "halt" => o.run <= made
    /\ o.op \in {"spawn", "graph", "trace"} =>
          made + Len(inbound) + Len(pending) < MaxRuns

\* A command arrives; `since` is what it asks of each module it reaches.
Send(o) ==
    /\ Len(inbound) + Len(pending) < MaxCommands
    /\ Bounded(o)
    /\ inbound' = Append(inbound, [o |-> o, since |-> [m \in Reached(o) |-> epoch[m]]])
    /\ UNCHANGED <<pc, made, graphVars, halted, traceVars, tickVars, status, task,
                   pending, moduleVars>>

\* The embedder calls between steps.
HostCall(o) ==
    /\ pc = "idle"
    /\ Bounded(o)
    /\ Perform(o)
    /\ UNCHANGED <<pc, tickVars, status, inbound, pending, moduleVars>>

\* The step sweeps the commands in, then applies each and replies.
BeginStep ==
    /\ pc = "idle"
    /\ pc' = "commands"
    /\ pending' = pending \o inbound
    /\ inbound' = <<>>
    /\ UNCHANGED <<made, graphVars, halted, traceVars, tickVars, status, task,
                   moduleVars>>

ApplyCommand ==
    /\ pc = "commands"
    /\ pending # <<>>
    /\ Perform(Head(pending).o)
    /\ pending' = Tail(pending)
    /\ UNCHANGED <<pc, tickVars, status, inbound, moduleVars>>

------------------------------------------------------------------------------
(* The interpreter's tick *)

Ending(r) == status[r] \in Terminal

\* Mutant: the halts are written after the lowering.
BeginTickHaltsLast ==
    /\ pc = "commands"
    /\ pending = <<>>
    /\ finished' = IF dirty THEN {} ELSE finished
    /\ IF dirty /\ main = "unlowerable"
       THEN /\ pc' = "report"
            /\ UNCHANGED <<dirty, lowered, todo, halted, status>>
       ELSE /\ pc' = "main"
            /\ lowered' = IF dirty THEN live \cup lost ELSE lowered
            /\ todo' = lowered'
            /\ dirty' = FALSE
            /\ halted' = {}
            /\ status' = [r \in Runs |-> IF r \in halted THEN "failure" ELSE status[r]]
    /\ failed' = FALSE
    /\ UNCHANGED <<made, live, lost, traceVars, latch, program, root, main, task,
                   inbound, pending, moduleVars>>

\* The halted runs' status first; then, if the graph changed, the finished
\* fragments leave and the tree is lowered again, keeping its latches.  A
\* graph that does not lower, or does not let them leave, fails the tick, which the
\* next one retries.
BeginTick ==
    /\ pc = "commands"
    /\ pending = <<>>
    /\ status' = [r \in Runs |-> IF r \in halted THEN "failure" ELSE status[r]]
    /\ halted' = {}
    /\ finished' = IF dirty THEN {} ELSE finished
    /\ \/ /\ dirty /\ (main = "unlowerable" \/ (MayRefuse /\ finished # {}))
          /\ pc' = "report"
          /\ UNCHANGED <<dirty, lowered, todo>>
       \/ /\ ~(dirty /\ main = "unlowerable")
          /\ pc' = "main"
          /\ lowered' = IF dirty THEN live \cup lost ELSE lowered
          /\ todo' = lowered'
          /\ dirty' = FALSE
    /\ failed' = FALSE
    /\ UNCHANGED <<made, live, lost, traceVars, latch, program, root, main, task,
                   inbound, pending, moduleVars>>

\* The runner ticks the main behavior; an error goes up and ends the tick.
TickMain ==
    /\ pc = "main"
    /\ \/ pc' = "runs" /\ UNCHANGED failed
       \/ main = "failing" /\ pc' = "end" /\ failed' = TRUE
    /\ UNCHANGED <<made, graphVars, halted, traceVars, todo, status, task, inbound,
                   pending, moduleVars>>


\* A terminal status is latched.
Latched(r, s) == [latch EXCEPT ![r] = IF s \in Terminal THEN s ELSE latch[r]]

\* Then each run's decorator: a latched run is inert; another publishes its
\* program's status, latching a terminal one; an error is a Failure that goes
\* up and ends the tick before the later runs.
TickRun ==
    /\ pc = "runs"
    /\ \E r \in todo :
       /\ \A q \in todo : r <= q
       /\ todo' = todo \ {r}
       /\ \/ /\ latch[r] \in Terminal
             /\ UNCHANGED <<pc, failed, status, latch>>
          \/ /\ latch[r] \notin Terminal
             /\ \E s \in Outcomes \ {"error"} :
                   /\ status' = [status EXCEPT ![r] = s]
                   /\ latch' = Latched(r, s)
             /\ UNCHANGED <<pc, failed>>
          \/ /\ latch[r] \notin Terminal
             /\ "error" \in Outcomes
             /\ status' = [status EXCEPT ![r] = "failure"]
             /\ latch' = Latched(r, "failure")
             /\ failed' = TRUE
             /\ pc' = "end"
    /\ UNCHANGED <<made, live, lost, finished, halted, traceVars, dirty, lowered, program,
                   root, main, task, inbound, pending, moduleVars>>

\* The traces report, a first report with the trace's status.
ReportTraces ==
    /\ begun' = begun \cup traces
    /\ status' = [r \in Runs |-> IF r \in traces \ begun THEN "running" ELSE status[r]]

\* Mutant: the graph is not changed for the runs that ended.
SweepLate ==
    /\ finished' = finished \cup {r \in live : Ending(r)}
    /\ UNCHANGED <<live, dirty>>

\* sweep_terminal_runs: the ended runs await pruning and stop resolving.
Sweep ==
    LET over == {r \in live : Ending(r)}
    IN  /\ live' = live \ over
        /\ finished' = finished \cup over
        /\ dirty' = (dirty \/ over # {})

\* A failed tick is reported to the traces too, and not swept.
EndTick ==
    /\ \/ pc = "runs" /\ todo = {}
       \/ pc = "end"
    /\ pc' = "report"
    /\ ReportTraces
    /\ IF failed THEN UNCHANGED <<live, finished, dirty>> ELSE Sweep
    /\ UNCHANGED <<made, lost, halted, traces, lowered, latch, program, root, main, tickVars,
                   task, inbound, pending, moduleVars>>

\* Mutant: so it does those that have no status yet.
ReportTaskRunsUnset ==
    /\ pc = "report"
    /\ pc' = "idle"
    /\ task' = [r \in {x \in DOMAIN task : status[x] = "running"} |-> task[r]]
    /\ UNCHANGED <<made, graphVars, halted, traceVars, tickVars, status, inbound,
                   pending, moduleVars>>

\* report_task_runs: the device stops following the runs that ended.
ReportTaskRuns ==
    /\ pc = "report"
    /\ pc' = "idle"
    /\ task' = [r \in {x \in DOMAIN task : ~Ending(x)} |-> task[r]]
    /\ UNCHANGED <<made, graphVars, halted, traceVars, tickVars, status, inbound,
                   pending, moduleVars>>

------------------------------------------------------------------------------
(* Modules *)


\* check_function_ids: one function id is one function.
FunctionsFree(h) ==
    \A m \in DOMAIN exports \ {h.id} : exports[m] \cap h.exports = {}

Changed(m) ==
    /\ epoch[m] < MaxChanges
    /\ epoch' = [epoch EXCEPT ![m] = epoch[m] + 1]

LoadModule(h) ==
    /\ pc = "idle"
    /\ h.id \notin DOMAIN exports
    /\ FunctionsFree(h)
    /\ Changed(h.id)
    /\ exports' = Put(exports, h.id, h.exports)
    /\ UNCHANGED <<pc, made, graphVars, halted, traceVars, tickVars, status, task,
                   inbound, pending>>

\* The runs the device notes as calling module m.
Callers(m, E) ==
    {r \in DOMAIN task : /\ ~task[r].interrupted
                         /\ task[r].calls.module \in {m, NoModule}
                         /\ task[r].calls.functions \cap E # {}}

\* The commands of q that do not call module m, in their order: the others fail.
Spared(q, m, E) ==
    LET spared[n \in 0 .. Len(q)] ==
           IF n = 0 THEN <<>>
           ELSE IF CallsModule(q[n].o, m, E) THEN spared[n - 1]
                ELSE Append(spared[n - 1], q[n])
    IN  spared[Len(q)]

\* The runs of H noted as halted for a module.
Noted(H) ==
    [r \in DOMAIN task |-> IF r \in H THEN [task[r] EXCEPT !.halted = TRUE, !.interrupted = TRUE]
                           ELSE task[r]]

\* Mutant: only the commands swept in already are failed.
InterruptPendingOnly(m, E) ==
    LET hit == Callers(m, E)
    IN  /\ pending' = Spared(pending, m, E)
        /\ inbound' = inbound
        /\ \E R \in Refusable(hit) : HaltAll(hit, R) /\ task' = Noted(hit \ R)
        /\ UNCHANGED <<pc, tickVars, status>>

\* interrupt: everything received is swept in; the commands calling the module
\* fail and the runs calling it are halted, but for those that cannot be.
Interrupt(m, E) ==
    LET hit == Callers(m, E)
    IN  /\ pending' = Spared(pending \o inbound, m, E)
        /\ inbound' = <<>>
        /\ \E R \in Refusable(hit) : HaltAll(hit, R) /\ task' = Noted(hit \ R)
        /\ UNCHANGED <<pc, tickVars, status>>

ReloadModule(h) ==
    /\ pc = "idle"
    /\ h.id \in DOMAIN exports
    /\ FunctionsFree(h)
    /\ Changed(h.id)
    /\ exports' = [exports EXCEPT ![h.id] = h.exports]
    /\ Interrupt(h.id, exports[h.id])

UnloadModule(m) ==
    /\ pc = "idle"
    /\ m \in DOMAIN exports
    /\ Changed(m)
    /\ exports' = [x \in DOMAIN exports \ {m} |-> exports[x]]
    /\ Interrupt(m, exports[m])

------------------------------------------------------------------------------
Step ==
    \/ BeginStep \/ ApplyCommand
    \/ BeginTick \/ TickMain \/ TickRun \/ EndTick
    \/ ReportTaskRuns

Next ==
    \/ Step
    \/ \E o \in Ops : Send(o) \/ HostCall(o)
    \/ \E h \in Headers : LoadModule(h) \/ ReloadModule(h)
    \/ \E m \in Modules : UnloadModule(m)

Spec == Init /\ [][Next]_vars

\* The device steps at its rate, and a step runs to its end.
FairSpec == Spec /\ WF_vars(Step)

------------------------------------------------------------------------------
(* Properties *)

Command == [o : Ops, since : UNION {[M -> 0..MaxChanges] : M \in SUBSET Modules}]

\* The values in the model have the types the code gives them.
TypeOK ==
    /\ pc \in {"idle", "commands", "main", "runs", "end", "report"}
    /\ made \in 0..MaxRuns
    /\ live \subseteq Runs /\ lost \subseteq Runs /\ lowered \subseteq Runs /\ todo \subseteq Runs
    /\ finished \subseteq Runs /\ halted \subseteq Runs
    /\ traces \subseteq Runs /\ begun \subseteq Runs
    /\ dirty \in BOOLEAN /\ failed \in BOOLEAN
    /\ latch \in [Runs -> {"unset"} \cup Terminal]
    /\ status \in [Runs -> {"unset", "running"} \cup Terminal]
    /\ program \in [Runs -> Program]
    /\ root \in [Runs -> Roots \cup {NoRoot}]
    /\ main \in Mains
    /\ DOMAIN task \subseteq Runs /\ task \in [DOMAIN task -> TaskRun]
    /\ inbound \in Seq(Command) /\ pending \in Seq(Command)
    /\ DOMAIN exports \subseteq Modules
    /\ exports \in [DOMAIN exports -> SUBSET Functions]
    /\ epoch \in [Modules -> 0..MaxChanges]

\* "A terminal run latches - its status key holds the outcome" (behavior.rs):
\* no halt, interrupt, respawn or lowering rewrites an outcome once published.
OutcomeStands ==
    [][\A r \in Runs : Ending(r) => status'[r] = status[r]]_vars

\* "The handle answered always names the run that runs the graph spawned"
\* (BehaviorInterpreter::spawn_graph): between ticks, no live run, which a
\* spawn of its root's graph takes over, is latched and so inert.
LiveRunsRun == pc \in {"idle", "commands"} => \A r \in live : latch[r] \notin Terminal

\* A halt granted of a run, by its handle or for a change to a module it calls,
\* ends it and the device sees it end, though the main behavior fails at every
\* tick or does not lower, and the fragments of other runs are not let go.
HaltsTakeEffect ==
    \A r \in Runs : r \in DOMAIN task /\ task[r].halted /\ r \notin lost ~> r \notin DOMAIN task

\* The device follows every run that may still call a module, also one whose halt
\* failed and that goes on without being live.
RunsFollowed ==
    \A r \in live \cup lost \cup halted \cup traces : r \in DOMAIN task \/ Ending(r)

\* "A task run calling it is halted" (Arora::reload_module): a run whose
\* program calls a module does not outlive a change of the module.
CallersHalted ==
    [][\A m \in DOMAIN exports : epoch'[m] # epoch[m] =>
          \A r \in live \cup lost : Reaches(program[r], m, exports[m]) =>
             r \notin live' \cup lost']_vars

\* "A call to it received before the reload and not yet applied fails, and so
\* does a request to start a task run calling it" (Arora::reload_module): no
\* command in a queue was sent to a module that has changed since.
NoStaleCommand ==
    \A c \in Range(inbound) \cup Range(pending) :
        \A m \in DOMAIN c.since : c.since[m] = epoch[m]

\* A function id is one module's (check_function_ids), however loads, reloads
\* and unloads follow one another: a call by function id has one target.
OneOwner ==
    \A m, n \in DOMAIN exports : m # n => exports[m] \cap exports[n] = {}
=============================================================================
