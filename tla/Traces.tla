------------------------------- MODULE Traces -------------------------------
(***************************************************************************)
(* The traces of the behavior-tree interpreter: what each tick did, as     *)
(* recorded by the lowered tree, is turned into what changed since the     *)
(* previous tick and reported to every running trace at its own pace.      *)
(*                                                                         *)
(* An id is a node or a detached node, and what a tick does with it a mark *)
(* (the status it returned, whether it was called or answered from its     *)
(* cache): the two are kept, compared and reported in the same way.  A     *)
(* watched node has one output, its unbound return.  The reader of a trace *)
(* folds its reports as the trace's documentation says; it and the outputs *)
(* are here to state what the reports must add up to.                      *)
(***************************************************************************)
EXTENDS Naturals, FiniteSets

CONSTANTS
    Traces,      \* the traces that may run at once
    Ids,         \* nodes and detached nodes of the behavior
    Marks,       \* what a tick may do with one it reaches
    Values,      \* what a watched node may return
    None,        \* no mark (not reached, idle), no value, no time
    Watches,     \* the nodes whose outputs each trace follows
    Interval,    \* the least time between two reports of each, 0 for none
    MaxTicks,    \* bound on the ticks
    MaxEdits,    \* bound on the edits
    MaxTime      \* bound on the device's time

ASSUME ConstantsAssumption ==
    /\ None \notin Marks \cup Values /\ None \notin Nat
    /\ Watches \in [Traces -> SUBSET Ids]
    /\ Interval \in [Traces -> Nat]
    /\ MaxTicks \in Nat /\ MaxEdits \in Nat /\ MaxTime \in Nat

VARIABLES
    graph,     \* the ids of the edited behavior
    revision,  \* the edits so far
    fresh,     \* the ids the edits set since the last lowering
    dirty,     \* the graph is to be lowered again
    tree,      \* the ids of the lowered tree, None before the first lowering
    record,    \* whether the tree's nodes record their ticks, and who is watched
    prev,      \* Traces.statuses and activity: what the previous tick did
    returns,   \* Traces.returns: what each watched node last returned
    traces,    \* Traces.traces: the running traces, None for the others
    ticks,     \* the ticks so far
    time,      \* the device's time, None when the store has none
    reader,    \* what the reader of each trace has folded
    seen,      \* what each reader ought to have
    output     \* what each watched node's return really is

treeVars == <<graph, revision, fresh, dirty, tree>>
traceVars == <<record, prev, returns, traces>>
vars == <<treeVars, traceVars, ticks, time, reader, seen, output>>

NoMarks == [id \in Ids |-> None]

\* A trace that starts, or starts over.
NewTrace == [started |-> FALSE, at |-> None, told |-> NoMarks, values |-> NoMarks,
             changed |-> {}, restarted |-> {}, last |-> 0, revision |-> None]

NoPicture == [marks |-> NoMarks, values |-> NoMarks, revision |-> None]
NewReader == [picture |-> NoPicture, tick |-> 0, at |-> None]

Running == {t \in Traces : traces[t] # None}
WatchedBy(T) == UNION {Watches[t] : t \in T}

Init ==
    /\ graph \in SUBSET Ids /\ revision = 0 /\ fresh = {} /\ dirty = TRUE /\ tree = None
    /\ record = [on |-> FALSE, watched |-> {}]
    /\ prev = NoMarks /\ returns = NoMarks
    /\ traces = [t \in Traces |-> None]
    /\ ticks = 0 /\ time \in {None, 0}
    /\ reader = [t \in Traces |-> NewReader]
    /\ seen = [t \in Traces |-> NoPicture]
    /\ output = NoMarks

-----------------------------------------------------------------------------
(* Starting, halting and editing, between two ticks.                       *)

\* The record of the lowered tree records while one of T runs, and a node none
\* of T watches forgets what it returned.
Arm(T, held) ==
    IF tree = None
    THEN UNCHANGED record /\ returns' = held
    ELSE /\ record' = [on |-> T # {}, watched |-> WatchedBy(T)]
         /\ returns' = [id \in Ids |-> IF id \in WatchedBy(T) THEN held[id] ELSE None]

Start(t) ==
    /\ traces[t] = None
    /\ traces' = [traces EXCEPT ![t] = NewTrace]
    /\ Arm(Running \cup {t}, returns)
    /\ UNCHANGED <<treeVars, prev, ticks, time, reader, seen, output>>

\* The reader of a trace that ends leaves with it.
Forgotten(t) ==
    /\ reader' = [reader EXCEPT ![t] = NewReader]
    /\ seen' = [seen EXCEPT ![t] = NoPicture]
    /\ output' = [id \in Ids |-> IF id \in WatchedBy(Running \ {t}) THEN output[id] ELSE None]

\* With the last trace gone, what the previous tick did is forgotten.
Halt(t) ==
    /\ traces[t] # None
    /\ traces' = [traces EXCEPT ![t] = None]
    /\ LET last == Running = {t}
       IN  /\ prev' = IF last THEN NoMarks ELSE prev
           /\ Arm(Running \ {t}, IF last THEN NoMarks ELSE returns)
    /\ Forgotten(t)
    /\ UNCHANGED <<treeVars, ticks, time>>

\* An edit that sets the nodes S and removes the nodes R.
Edit(S, R) ==
    /\ revision < MaxEdits
    /\ S \cup R # {} /\ R \subseteq graph /\ S \cap R = {}
    /\ graph' = (graph \cup S) \ R
    /\ revision' = revision + 1
    /\ fresh' = fresh \cup S
    /\ dirty' = TRUE
    /\ UNCHANGED <<tree, traceVars, ticks, time, reader, seen, output>>

-----------------------------------------------------------------------------
(* A tick.  Its parts are functions of what they start from, which the     *)
(* tick composes.                                                          *)

\* The nodes a lowering restarts: set by an edit, in the old tree and the new.
Restarted == IF tree = None \/ Running = {} THEN {} ELSE fresh \cap tree \cap graph

\* A trace that has reported forgets what it told of them.
Restart(tr) ==
    IF ~tr.started THEN tr
    ELSE [tr EXCEPT !.told = [id \in Ids |-> IF id \in Restarted THEN None ELSE @[id]],
                    !.values = [id \in Ids |-> IF id \in Restarted THEN None ELSE @[id]],
                    !.changed = @ \cup Restarted,
                    !.restarted = @ \cup Restarted]

\* The traces, and what the nodes returned, once the graph is lowered again.
Lowered(t) == IF dirty /\ traces[t] # None THEN Restart(traces[t]) ELSE traces[t]

KeptReturns ==
    IF ~dirty THEN returns
    ELSE [id \in Ids |-> IF id \in (WatchedBy(Running) \cap graph) \ Restarted
                         THEN returns[id] ELSE None]

Lowering ==
    IF dirty
    THEN /\ tree' = graph /\ fresh' = {} /\ dirty' = FALSE
         /\ record' = [on |-> Running # {}, watched |-> WatchedBy(Running)]
         /\ UNCHANGED <<graph, revision>>
    ELSE UNCHANGED <<treeVars, record>>

\* The ids with which the tick did something else than the previous one.
Changes(before, after) == {id \in Ids : before[id] # after[id]}

\* Mutant: the changes of the ticks a trace was not due at are forgotten.
NotedLast(tr, did) ==
    [tr EXCEPT !.changed = IF tr.started THEN Changes(prev, did) ELSE {id \in Ids : did[id] # None}]
\* A trace takes the changes of the tick, a new one all that the tick did.
Noted(tr, did) ==
    [tr EXCEPT !.changed = @ \cup (IF tr.started THEN Changes(prev, did)
                                   ELSE {id \in Ids : did[id] # None})]

Due(tr, t, now) ==
    tr.at = None \/ now = None \/ now - tr.at >= Interval[t]

\* The report of trace tr: what differs from the last, as the tick leaves it.
Report(tr, t, did, ret) ==
    [since |-> tr.last,
     marks |-> [id \in {i \in tr.changed : tr.told[i] # did[i]} |-> did[id]],
     values |-> [id \in {i \in Watches[t] : tr.values[i] # ret[i]} |-> ret[id]],
     restarted |-> tr.restarted,
     revision |-> IF tr.revision = revision THEN None ELSE revision]

IsEmpty(r) == DOMAIN r.marks = {} /\ DOMAIN r.values = {} /\ r.restarted = {} /\ r.revision = None

\* The trace once the report is made, and once it is written.
Told(tr, t, did, ret) ==
    [tr EXCEPT !.told = [id \in Ids |-> IF id \in tr.changed THEN did[id] ELSE @[id]],
               !.values = [id \in Ids |-> IF id \in Watches[t] THEN ret[id] ELSE @[id]],
               !.changed = {}, !.restarted = {}]
Published(tr, now) ==
    [tr EXCEPT !.started = TRUE, !.at = now, !.last = ticks + 1, !.revision = revision]

\* What the reader of a trace has once it read report r: it starts afresh with a
\* first report, and with the nodes restarted.
Fold(p, r) ==
    LET base == IF r.since = 0 THEN NoPicture
                ELSE [p EXCEPT !.marks = [id \in Ids |-> IF id \in r.restarted THEN None ELSE @[id]],
                               !.values = [id \in Ids |-> IF id \in r.restarted THEN None ELSE @[id]]]
    IN  [marks |-> [id \in Ids |-> IF id \in DOMAIN r.marks THEN r.marks[id] ELSE base.marks[id]],
         values |-> [id \in Ids |-> IF id \in DOMAIN r.values THEN r.values[id] ELSE base.values[id]],
         revision |-> IF r.revision = None THEN base.revision ELSE r.revision]

\* A report that is due and says something is written, or the trace starts over.
Outcome(t, tr, due, told, r, failed, now) ==
    IF ~due THEN [trace |-> tr, reader |-> reader[t]]
    ELSE IF tr.started /\ IsEmpty(r) THEN [trace |-> told, reader |-> reader[t]]
    ELSE IF failed THEN [trace |-> NewTrace, reader |-> reader[t]]
    ELSE [trace |-> Published(told, now),
          reader |-> [picture |-> Fold(reader[t].picture, r), tick |-> ticks + 1, at |-> now]]

Reported(t, did, ret, failed, now) ==
    LET due == Due(Lowered(t), t, now)
        tr == Noted(Lowered(t), did)
    IN  Outcome(t, tr, due, Told(tr, t, did, ret), Report(tr, t, did, ret), failed, now)

\* What the reader of t ought to have after a tick that did `did`: all of it, when
\* a report is written, and when one may be and its write does not fail.
OughtToSee(t, did, out, failed, now) ==
    LET last == reader[t].at
        early == last # None /\ now # None /\ now - last < Interval[t]
    IN  IF reader'[t].tick # ticks' /\ (failed \/ early)
        THEN seen[t]
        ELSE [marks |-> did,
              values |-> [id \in Ids |-> IF id \in Watches[t] THEN out[id] ELSE None],
              revision |-> revision]

\* A tick that did `did` with the nodes and in which those watched that it reached
\* returned `ret`, but for the ones that ended in an error, of which what they
\* returned before stands; the writes of the reports of F fail.
Tick(did, ret, F, now) ==
    /\ ticks < MaxTicks /\ ticks' = ticks + 1
    /\ time' = now
    /\ Lowering
    /\ \A id \in Ids : did[id] # None => id \in tree'
    /\ \A id \in DOMAIN ret : did[id] # None
    /\ LET marked == IF record'.on THEN did ELSE NoMarks
           said == [id \in Ids |-> IF record'.on /\ id \in record'.watched \cap DOMAIN ret
                                   THEN ret[id] ELSE KeptReturns[id]]
           made == [t \in Running |-> Reported(t, marked, said, t \in F, now)]
       IN  /\ returns' = said
           /\ prev' = IF Running # {} THEN marked ELSE prev
           /\ traces' = [t \in Traces |-> IF t \in Running THEN made[t].trace ELSE None]
           /\ reader' = [t \in Traces |-> IF t \in Running THEN made[t].reader ELSE reader[t]]
    /\ output' = [id \in Ids |-> IF id \notin tree' \/ id \notin WatchedBy(Running) THEN None
                                 ELSE IF id \in DOMAIN ret THEN ret[id]
                                 ELSE IF dirty /\ id \in fresh THEN None
                                 ELSE output[id]]
    /\ seen' = [t \in Traces |-> IF t \in Running THEN OughtToSee(t, did, output', t \in F, now)
                                ELSE seen[t]]

\* A tick that ends before its tree ticks: a halted run's status or the revision
\* is not written, or the graph cannot be lowered.
TickFails(now) ==
    /\ ticks < MaxTicks /\ ticks' = ticks + 1
    /\ time' = now
    /\ UNCHANGED <<treeVars, traceVars, reader, seen, output>>

\* One that ends once the graph is lowered: the revision is not written.
TickFailsLowered(now) ==
    /\ ticks < MaxTicks /\ ticks' = ticks + 1
    /\ time' = now
    /\ dirty /\ Lowering
    /\ traces' = [t \in Traces |-> Lowered(t)]
    /\ returns' = KeptReturns
    /\ output' = [id \in Ids |-> IF id \in graph \ fresh THEN output[id] ELSE None]
    /\ UNCHANGED <<prev, reader, seen>>

Next ==
    \/ \E t \in Traces : Start(t) \/ Halt(t)
    \/ \E S, R \in SUBSET Ids : Edit(S, R)
    \/ \E now \in IF time = None THEN {None} ELSE time .. MaxTime :
          \/ \E did \in [Ids -> Marks \cup {None}], S \in SUBSET WatchedBy(Running),
                F \in SUBSET Running :
                   \E ret \in [S -> Values \cup {None}] : Tick(did, ret, F, now)
          \/ TickFails(now) \/ TickFailsLowered(now)

Spec == Init /\ [][Next]_vars

-----------------------------------------------------------------------------
Picture == [marks : [Ids -> Marks \cup {None}], values : [Ids -> Values \cup {None}],
            revision : 0 .. MaxEdits \cup {None}]
Trace == [started : BOOLEAN, at : Nat \cup {None}, told : [Ids -> Marks \cup {None}],
          values : [Ids -> Values \cup {None}], changed : SUBSET Ids, restarted : SUBSET Ids,
          last : 0 .. MaxTicks, revision : 0 .. MaxEdits \cup {None}]

\* None stands for no trace and for no tree.
ASSUME NoneAssumption == None \notin Trace /\ \A S \in SUBSET Ids : None # S

TypeOK ==
    /\ graph \in SUBSET Ids /\ revision \in 0 .. MaxEdits /\ fresh \in SUBSET Ids
    /\ dirty \in BOOLEAN /\ tree \in (SUBSET Ids) \cup {None}
    /\ record \in [on : BOOLEAN, watched : SUBSET Ids]
    /\ prev \in [Ids -> Marks \cup {None}] /\ returns \in [Ids -> Values \cup {None}]
    /\ traces \in [Traces -> Trace \cup {None}]
    /\ ticks \in 0 .. MaxTicks /\ time \in Nat \cup {None}
    /\ reader \in [Traces -> [picture : Picture, tick : 0 .. MaxTicks, at : Nat \cup {None}]]
    /\ seen \in [Traces -> Picture] /\ output \in [Ids -> Values \cup {None}]

\* The reports of a trace add up, for a reader that folds them, to what the tick
\* of the last one did: its marks, the outputs of the nodes watched and the
\* revision, across paced ticks, edits that restart nodes, removals, reports that
\* were not written and traces that come and go; and each report states the tick
\* of the one before, so that no reader misses one unawares (Traces::report).
ReadsTrue ==
    \A t \in Running :
       /\ reader[t].picture = seen[t]
       /\ traces[t].started => traces[t].last = reader[t].tick

\* The nodes record their ticks while a trace runs and, so that a tick costs one
\* test per node, only then; the nodes watched are those some trace watches
\* (Traces::arm, after every start, halt and lowering).
RecordsWhileTraced ==
    tree # None => record = [on |-> Running # {}, watched |-> WatchedBy(Running)]
=============================================================================
