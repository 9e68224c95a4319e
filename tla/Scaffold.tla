------------------------------ MODULE Scaffold ------------------------------
(***************************************************************************)
(* The graph the behavior tree interpreter runs                            *)
(* (crates/arora-behavior-tree/src/behavior.rs), and the diffs that change *)
(* it (crates/arora-behavior/src/graph.rs).                                *)
(*                                                                         *)
(* One graph holds everything that ticks: the runner, under it the main    *)
(* behavior and each task run's fragment behind a decorator of its own.    *)
(* Loads, edits, spawns, halts and the pruning of finished runs are        *)
(* surgery on that one graph, by clients who each know a part of it.       *)
(*                                                                         *)
(* A node has its children, whether it calls a module function, and one    *)
(* port, which is unbound, bound to a value or reads another node's.  The  *)
(* order of nodes and of children is left out: it decides in which order   *)
(* nodes tick, not what the graph holds.                                   *)
(***************************************************************************)
EXTENDS Naturals, FiniteSets, Functions

CONSTANTS
    Ids,         \* the node ids clients use
    FreshIds,    \* the ids the interpreter draws: decorators and call leaves
    Runner,      \* the runner's id
    NoRoot,      \* a graph without a root
    Unbound,     \* a port nothing is bound to
    Data,        \* a port bound to a value or a key
    Behaviors,   \* the graphs a client may load
    Fragments,   \* the graphs a client may spawn
    Edits,       \* the diffs a client may apply
    Revisions    \* bound: the revisions told apart, of a counter that wraps

AllIds == Ids \cup FreshIds \cup {Runner}
Node == [kids : SUBSET AllIds, call : BOOLEAN, bind : AllIds \cup {Unbound, Data}]

\* Nodes by id.
IsNodes(f, ids) == DOMAIN f \subseteq ids /\ f \in [DOMAIN f -> Node]

\* A graph's nodes and its root.
IsGraph(g) == IsNodes(g.nodes, Ids) /\ g.root \in Ids \cup {NoRoot}

\* GraphDiff: nodes to remove and to set, ports to unbind and to bind, and the
\* root to set.
IsDiff(d) ==
    /\ DOMAIN d = {"remove", "set", "unbind", "bind", "root"}
    /\ IsNodes(d.set, Ids)
    /\ d.remove \cup d.unbind \cup DOMAIN d.bind \subseteq AllIds
    /\ Range(d.bind) \subseteq AllIds \cup {Data}
    /\ d.root \in Ids \cup {NoRoot}

ASSUME ScaffoldAssumption ==
    /\ IsFiniteSet(AllIds)
    /\ Ids \cap FreshIds = {} /\ Runner \notin Ids \cup FreshIds
    /\ NoRoot \notin AllIds /\ {Unbound, Data} \cap AllIds = {} /\ Unbound # Data
    /\ \A g \in Behaviors \cup Fragments : IsGraph(g)
    /\ \A d \in Edits : IsDiff(d)
    /\ Revisions \in Nat /\ Revisions > 2   \* a step advances by two at most

VARIABLES
    bt,    \* the interpreter: BehaviorTreeInterpreter's fields
    told   \* the last request answered with success, and its answer

vars == <<bt, told>>

None == [x \in {} |-> {}]

\* f, and g where f is not defined.
Over(f, g) == [x \in DOMAIN f \cup DOMAIN g |-> IF x \in DOMAIN f THEN f[x] ELSE g[x]]
Without(f, S) == Restrict(f, DOMAIN f \ S)

------------------------------------------------------------------------------
(* Walking a graph *)

\* reach: starts, and what they reach through the children of nodes.
Reach(nodes, starts) ==
    LET walk[found \in SUBSET AllIds] ==
            LET next == found \cup UNION {nodes[x].kids : x \in found \cap DOMAIN nodes}
            IN  IF next = found THEN found ELSE walk[next]
    IN  walk[starts]

\* check_acyclic: under root, children are nodes and no node is its own
\* descendant.  A node may have several parents.
Acyclic(nodes, root) ==
    \A x \in Reach(nodes, {root}) :
        x \in DOMAIN nodes /\ x \notin Reach(nodes, nodes[x].kids)

\* is_detachable: a call without children runs detached when no node holds it.
Detachable(node) == node.call /\ node.kids = {}

\* The nodes no node has as a child.
Parentless(nodes) == DOMAIN nodes \ UNION {nodes[x].kids : x \in DOMAIN nodes}

DetachedOf(g) == Parentless(g.nodes) \ {g.root}

\* check_tree: one tree under the root, beside which stand detached nodes.
IsTree(g) ==
    /\ \A x \in DOMAIN g.nodes :
          /\ g.nodes[x].kids \subseteq DOMAIN g.nodes \ {g.root}
          /\ \A y \in DOMAIN g.nodes \ {x} : g.nodes[x].kids \cap g.nodes[y].kids = {}
    /\ \A x \in DetachedOf(g) : Detachable(g.nodes[x])
    /\ Reach(g.nodes, {g.root}) \cup DetachedOf(g) = DOMAIN g.nodes

\* build_behavior_tree: a port reading another's takes its cell, so every
\* chain of reads must end at a port that is bound.
Lowers(nodes) ==
    LET Bound == {x \in DOMAIN nodes : nodes[x].bind # Unbound}
        sweep[cells \in SUBSET AllIds] ==
            LET next == {x \in Bound : nodes[x].bind \in cells \cup {Data}}
            IN  IF next = cells THEN cells ELSE sweep[next]
    IN  sweep[{}] = Bound

------------------------------------------------------------------------------
(* Diffs *)

NoDiff == [remove |-> {}, set |-> None, unbind |-> {}, bind |-> None, root |-> NoRoot]

\* A node whose port no longer reads a removed node.
Unread(node, removed) == IF node.bind \in removed THEN [node EXCEPT !.bind = Unbound] ELSE node

\* Graph::apply: removals, with the bindings reading what they remove, then
\* whole nodes, then single bindings.
ApplyDiff(nodes, d) ==
    LET kept == [x \in DOMAIN nodes \ d.remove |-> Unread(nodes[x], d.remove)]
        set == Over(d.set, kept)
    IN  [x \in DOMAIN set |->
            IF x \in DOMAIN d.bind THEN [set[x] EXCEPT !.bind = d.bind[x]]
            ELSE IF x \in d.unbind THEN [set[x] EXCEPT !.bind = Unbound]
            ELSE set[x]]

\* Graph::apply refuses a binding onto no node.
Applies(nodes, d) == DOMAIN d.bind \subseteq (DOMAIN nodes \ d.remove) \cup DOMAIN d.set

\* Mutant: a node that calls another function, with the children it had, is not set.
DiffOfChildren(ours, theirs) ==
    LET removed == DOMAIN ours \ DOMAIN theirs
        same == {x \in DOMAIN ours \cap DOMAIN theirs : ours[x].kids = theirs[x].kids}
        rebound == {x \in same : theirs[x].bind # Unbound /\ theirs[x].bind # ours[x].bind}
    IN  [remove |-> removed,
         set    |-> Restrict(theirs, DOMAIN theirs \ same),
         unbind |-> {x \in same : theirs[x].bind = Unbound
                                  /\ ours[x].bind \notin removed \cup {Unbound}},
         bind   |-> [x \in rebound |-> theirs[x].bind],
         root   |-> NoRoot]

\* Graph::diff, of two graphs with one root: from the nodes ours to theirs.
Diff(ours, theirs) ==
    LET removed == DOMAIN ours \ DOMAIN theirs
        same == {x \in DOMAIN ours \cap DOMAIN theirs :
                    ours[x].call = theirs[x].call /\ ours[x].kids = theirs[x].kids}
        rebound == {x \in same : theirs[x].bind # Unbound /\ theirs[x].bind # ours[x].bind}
    IN  [remove |-> removed,
         set    |-> Restrict(theirs, DOMAIN theirs \ same),
         unbind |-> {x \in same : theirs[x].bind = Unbound
                                  /\ ours[x].bind \notin removed \cup {Unbound}},
         bind   |-> [x \in rebound |-> theirs[x].bind],
         root   |-> NoRoot]

\* Mutant: only the nodes the diff names.
ChangedByName(nodes, d) == DOMAIN d.set \cup d.unbind \cup DOMAIN d.bind

\* changed_nodes, unbound_by_removal: the nodes d changes and leaves.
Changed(nodes, d) ==
    DOMAIN d.set \cup d.unbind \cup DOMAIN d.bind
        \cup {x \in DOMAIN nodes \ d.remove : nodes[x].bind \in d.remove}

------------------------------------------------------------------------------
(* The interpreter's view of the graph *)

\* all_runs: each run's decorator, with the run's detached nodes.
AllRuns(b) == Over(b.runs, b.finished)

\* runner_node
RunnerNode(b) ==
    [kids |-> ({b.main_root} \ {NoRoot}) \cup DOMAIN AllRuns(b),
     call |-> FALSE, bind |-> Unbound]

\* nodes_of: the decorator's subtree, and the run's detached nodes.
NodesOf(nodes, d, detached) == Reach(nodes, {d}) \cup detached

HeldByRuns(nodes, runs) == UNION {NodesOf(nodes, d, runs[d]) : d \in DOMAIN runs}

HeldByMain(b) == Reach(b.graph, {b.main_root} \ {NoRoot})

\* not_main_beside: the runner, and what only runs hold, others among them.
NotMain(b, others) ==
    (HeldByRuns(b.graph, Over(AllRuns(b), others)) \ HeldByMain(b)) \cup {Runner}

\* main_graph_beside: what a read answers.
MainGraph(b, others) == [root |-> b.main_root, nodes |-> Without(b.graph, NotMain(b, others))]

\* root_of: the node under the decorator d.
RootOf(b, d) == b.graph[d].kids

\* held_outside: what anything but leaving holds, the main behavior always.
HeldOutside(b, leaving) ==
    Reach(b.graph, (DOMAIN b.graph \ (leaving \cup {Runner})) \cup ({b.main_root} \ {NoRoot}))

------------------------------------------------------------------------------
(* Changing the graph *)

\* edit_lowering: a diff applies whole or not at all.
Accepts(b, d) ==
    /\ Applies(b.graph, d)
    /\ Acyclic(ApplyDiff(b.graph, d), Runner)
    /\ Lowers(ApplyDiff(b.graph, d))

Edited(b, d) ==
    [b EXCEPT !.graph = ApplyDiff(b.graph, d),
              !.dirty = TRUE,
              !.fresh = @ \cup Changed(b.graph, d)]

Advanced(b) == [b EXCEPT !.revision = (@ + 1) % Revisions]

\* revise_since
Revised(b, before) == IF MainGraph(b, None) = before THEN b ELSE Advanced(b)

\* Mutant: the runs' detached nodes are left behind.
PruneTrees(b, gone) ==
    LET leaving == Reach(b.graph, DOMAIN gone)
    IN  [NoDiff EXCEPT !.remove = leaving \ HeldOutside(b, leaving),
                       !.set = [x \in {Runner} |-> RunnerNode(b)]]

\* prune: the runs gone, off b's lists already, leave the graph.
PruneDiff(b, gone) ==
    LET leaving == HeldByRuns(b.graph, gone)
    IN  [NoDiff EXCEPT !.remove = leaving \ HeldOutside(b, leaving),
                       !.set = [x \in {Runner} |-> RunnerNode(b)]]

Prunes(b, gone) == gone = None \/ Accepts(b, PruneDiff(b, gone))

\* Mutant: what pruning does to the main behavior is not a revision of it.
PrunedUnrevised(b, gone) ==
    IF gone # None /\ Prunes(b, gone) THEN Edited(b, PruneDiff(b, gone)) ELSE b

Pruned(b, gone) ==
    IF gone # None /\ Prunes(b, gone)
    THEN Revised(Edited(b, PruneDiff(b, gone)), MainGraph(b, gone))
    ELSE b

\* prune_finished
Swept(b) == [b EXCEPT !.finished = None]
FinishedLeave(b) == Prunes(Swept(b), b.finished)
PruneFinished(b) == Pruned(Swept(b), b.finished)

------------------------------------------------------------------------------
(* The interpreter's functions *)

Nothing == [op |-> "nothing", decorator |-> Runner, nodes |-> None]
Told(op, d, nodes) == [op |-> op, decorator |-> d, nodes |-> nodes]

Init ==
    /\ bt = [graph     |-> [x \in {Runner} |-> [kids |-> {}, call |-> FALSE, bind |-> Unbound]],
             main_root |-> NoRoot,
             runs      |-> None,
             finished  |-> None,
             dirty     |-> TRUE,
             fresh     |-> {},
             revision  |-> 0]
    /\ told = Nothing

\* A request's answer, once the finished runs have left: the change when it is
\* accepted, what pruning them made of the graph when it is not.
Answer(accepted, b, reply) ==
    \/ FinishedLeave(bt) /\ accepted /\ bt' = b /\ told' = reply
    \/ ~(FinishedLeave(bt) /\ accepted) /\ bt' = PruneFinished(bt) /\ told' = Nothing

\* Mutant: the runs' detached nodes are taken for the main behavior's.
LoadDiffOfTrees(b, g) ==
    LET after == ApplyDiff(b.graph, [NoDiff EXCEPT !.set = g.nodes])
    IN  [NoDiff EXCEPT
            !.remove = DOMAIN b.graph \ ({Runner} \cup Reach(after, DOMAIN AllRuns(b))),
            !.set = Over([x \in {Runner} |-> RunnerNode([b EXCEPT !.main_root = g.root])],
                         g.nodes)]

\* load: what only the runs hold stays, once the new nodes are set.
LoadDiff(b, g) ==
    LET after == ApplyDiff(b.graph, [NoDiff EXCEPT !.set = g.nodes])
    IN  [NoDiff EXCEPT
            !.remove = DOMAIN b.graph \ ({Runner} \cup HeldByRuns(after, AllRuns(b))),
            !.set = Over([x \in {Runner} |-> RunnerNode([b EXCEPT !.main_root = g.root])],
                         g.nodes)]

Load(g) ==
    LET b == PruneFinished(bt)
        rooted == [b EXCEPT !.main_root = g.root]
        d == LoadDiff(b, g)
    IN  Answer(/\ DOMAIN g.nodes \cap NotMain(b, None) = {}
               /\ Accepts(rooted, d),
               Advanced(Edited(rooted, d)),
               Told("load", Runner, g.nodes))

\* apply: an edit keeps the runner, the decorators and the runs' roots.
KeepsScaffold(b, d) ==
    LET scaffold == {Runner} \cup DOMAIN AllRuns(b)
        named == {d.root} \cup UNION {d.set[x].kids : x \in DOMAIN d.set}
        touched == DOMAIN d.set \cup d.unbind \cup DOMAIN d.bind \cup d.remove
    IN  /\ scaffold \cap named = {}
        /\ DOMAIN AllRuns(b) \cap touched = {}
        /\ \A r \in DOMAIN AllRuns(b) : RootOf(b, r) \cap (d.remove \ DOMAIN d.set) = {}

Apply(diff) ==
    LET b == PruneFinished(bt)
        removed == IF b.main_root \in diff.remove THEN NoRoot ELSE b.main_root
        rooted == [b EXCEPT !.main_root = IF diff.root # NoRoot THEN diff.root ELSE removed]
        d == [diff EXCEPT !.remove = @ \ {Runner},
                          !.set = Over([x \in {Runner} |-> RunnerNode(rooted)], @)]
    IN  Answer(KeepsScaffold(b, diff) /\ Accepts(rooted, d),
               Revised(Edited(rooted, d), MainGraph(b, None)),
               Told("edit", Runner, None))

\* graft: the fragment nodes under a new decorator d.
GraftDiff(b, d, root, nodes) ==
    [NoDiff EXCEPT
        !.set = Over([x \in {d} |-> [kids |-> {root}, call |-> FALSE, bind |-> Data]],
                     Over([x \in {Runner} |-> RunnerNode(b)], nodes))]

Grafted(b, d, detached) == [b EXCEPT !.runs = Over([x \in {d} |-> detached], @)]

\* Ids drawn at random: of no node the interpreter knows.
Unused == FreshIds \ (DOMAIN bt.graph \cup bt.fresh)

\* spawn: one run-call leaf under its decorator.
SpawnCall ==
    LET b == PruneFinished(bt)
    IN  \E d, leaf \in Unused :
          LET nodes == [x \in {leaf} |-> [kids |-> {}, call |-> FALSE, bind |-> Data]]
              g == Grafted(b, d, {})
              diff == GraftDiff(g, d, leaf, nodes)
          IN  d # leaf /\ Answer(Accepts(g, diff), Edited(g, diff), Told("spawn", d, nodes))

\* spawn_graph's checks of the graph by itself.
Spawnable(g) ==
    /\ g.root \in DOMAIN g.nodes
    /\ IsTree(g)
    /\ \A x \in DOMAIN g.nodes : g.nodes[x].bind \in DOMAIN g.nodes \cup {Unbound, Data}
    /\ Lowers(g.nodes)

\* respawn: the live run d runs g from now on.
Respawn(b, d, g) ==
    LET held == NodesOf(b.graph, d, b.runs[d]) \ {d}
        staying == HeldOutside(b, held \cup {d})
        own == Restrict(b.graph, (held \ staying) \cap DOMAIN b.graph)
        diff == Diff(own, g.nodes)
        detached == [b.runs EXCEPT ![d] = DetachedOf(g)]
        respawned == [Edited(b, diff) EXCEPT !.runs = detached]
    IN  Answer(/\ DOMAIN g.nodes \cap DOMAIN b.graph \subseteq held
               /\ DOMAIN g.nodes \cap staying = {}
               /\ diff = NoDiff \/ Accepts(b, diff),
               IF diff = NoDiff THEN [b EXCEPT !.runs = detached]
               ELSE Revised(respawned, MainGraph(b, None)),
               Told("spawn", d, g.nodes))

\* spawn_graph: the live run with this root takes the graph over; no two have
\* one root, as no edit changes a decorator.
SpawnGraph(g) ==
    LET b == PruneFinished(bt)
        rooted == {d \in DOMAIN b.runs : RootOf(b, d) = {g.root}}
    IN  /\ Spawnable(g)
        /\ \/ \E d \in rooted : Respawn(b, d, g)
           \/ /\ rooted = {}
              /\ \E d \in Unused :
                   LET grafted == Grafted(b, d, DetachedOf(g))
                       diff == GraftDiff(grafted, d, g.root, g.nodes)
                   IN  Answer(/\ DOMAIN g.nodes \cap DOMAIN b.graph = {}
                              /\ Accepts(grafted, diff),
                              Edited(grafted, diff),
                              Told("spawn", d, g.nodes))

\* halt: the run leaves the list, then the graph.
Halt(d) ==
    LET b == [bt EXCEPT !.runs = Without(@, {d})]
        gone == Restrict(bt.runs, {d})
    IN  /\ d \in DOMAIN bt.runs
        /\ bt' = Pruned(b, gone)
        /\ told' = Nothing

\* tick: a changed graph is lowered, once the finished runs have left it; then
\* the runs that ended wait to be pruned.
Ticked(b) ==
    IF b.dirty
    THEN [PruneFinished(b) EXCEPT !.dirty = FALSE, !.fresh = {}]
    ELSE b

\* Mutant: a run that ended stays in the list of live ones.
EndedStaysLive(b, E) ==
    [b EXCEPT !.finished = Over(@, Restrict(b.runs, E)), !.dirty = @ \/ E # {}]

\* sweep_terminal_runs
Ended(b, E) ==
    [b EXCEPT !.runs = Without(@, E),
              !.finished = Over(@, Restrict(b.runs, E)),
              !.dirty = @ \/ E # {}]

Tick ==
    /\ bt.dirty => FinishedLeave(bt) /\ Lowers(PruneFinished(bt).graph)
    /\ \E E \in SUBSET DOMAIN bt.runs : bt' = Ended(Ticked(bt), E)
    /\ told' = Told("tick", Runner, None)

\* tick, failing to lower: the finished runs have left, and no more.
TickFails ==
    /\ bt.dirty
    /\ bt' = PruneFinished(bt)
    /\ told' = Nothing

Next ==
    \/ \E g \in Behaviors : Load(g)
    \/ \E d \in Edits : Apply(d)
    \/ SpawnCall
    \/ \E g \in Fragments : SpawnGraph(g)
    \/ \E d \in FreshIds : Halt(d)
    \/ Tick
    \/ TickFails

Spec == Init /\ [][Next]_vars

------------------------------------------------------------------------------
(* Properties *)

\* The interpreter's fields have their types, and a run is live or finished,
\* never both (behavior.rs, the runs and finished lists).
TypeOK ==
    /\ IsNodes(bt.graph, AllIds)
    /\ bt.main_root \in Ids \cup {NoRoot}
    /\ \A runs \in {bt.runs, bt.finished} :
          /\ DOMAIN runs \subseteq FreshIds
          /\ \A d \in DOMAIN runs : runs[d] \subseteq Ids
    /\ DOMAIN bt.runs \cap DOMAIN bt.finished = {}
    /\ bt.dirty \in BOOLEAN
    /\ bt.fresh \subseteq AllIds
    /\ bt.revision \in 0..(Revisions - 1)

\* A run that a halt, a tick or a refused request takes off the lists leaves
\* the graph whole: of its decorator, its subtree and its detached nodes, what
\* remains is held by the main behavior or by a node that is not the run's.  "A
\* halted run's fragment leaves the graph at once" (behavior.rs, module doc).
RunsLeaveWhole ==
    [][told'.op \in {"nothing", "tick"} =>
         \A d \in DOMAIN AllRuns(bt) \ DOMAIN AllRuns(bt') :
            LET left == NodesOf(bt.graph, d, AllRuns(bt)[d])
            IN  left \cap DOMAIN bt'.graph \subseteq HeldOutside(bt', left)]_vars

\* Changing one run, or loading a main behavior, leaves every other run where
\* it was: its own nodes stay, as they were but for a binding that reads
\* another's node, and one that stays as it was does not restart.
RunsStayPut ==
    [][told'.op # "edit" =>
         \A d \in DOMAIN bt.runs \cap DOMAIN AllRuns(bt') :
            LET own == (NodesOf(bt.graph, d, bt.runs[d]) \cap DOMAIN bt.graph)
                          \ HeldByMain(bt)
            IN  told'.decorator # d =>
                  \A x \in own :
                     /\ x \in DOMAIN bt'.graph
                     /\ \/ bt'.graph[x] = bt.graph[x] /\ (x \in bt'.fresh => x \in bt.fresh)
                        \/ /\ bt.graph[x].bind \notin own
                           /\ bt'.graph[x] = [bt.graph[x] EXCEPT !.bind = Unbound]]_vars

\* The revision a read answers tells the main behaviors apart: no step changes
\* what a read answers and leaves the revision, whoever takes it.
RevisionTells ==
    [][bt'.revision = bt.revision => MainGraph(bt', None) = MainGraph(bt, None)]_vars

\* A request answered with success has done what it says: the run's nodes are
\* the spawned graph's, also for a live run brought to it by a diff, and a read
\* answers the loaded graph.
AnsweredTruly ==
    /\ told.op = "spawn" =>
          LET held == NodesOf(bt.graph, told.decorator, bt.runs[told.decorator])
          IN  Restrict(bt.graph, held \ {told.decorator}) = told.nodes
    /\ told.op = "load" => MainGraph(bt, None).nodes = told.nodes

\* A node a change leaves otherwise than it was restarts at the next lowering,
\* also when the change only took away what it read.  (A tick has lowered what
\* it pruned by the time it ends.)
ChangedNodesRestart ==
    [][told'.op # "tick" =>
         \A x \in DOMAIN bt.graph \cap DOMAIN bt'.graph :
            bt'.graph[x] # bt.graph[x] => bt'.dirty /\ x \in bt'.fresh]_vars
=============================================================================
