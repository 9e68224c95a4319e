--------------------------- MODULE TaskRunsProofs ---------------------------
(* Theorems about TaskRuns, for any runs, modules, programs and bounds.      *)
EXTENDS TaskRuns, WellFoundedInduction, TLAPS

USE TaskRunsAssumption

-----------------------------------------------------------------------------
(* The inductive invariant.                                                  *)

\* What the theorems need of the types.
RunTypes ==
    /\ pc \in {"idle", "commands", "main", "runs", "end", "report"}
    /\ made \in 0 .. MaxRuns
    /\ dirty \in BOOLEAN /\ failed \in BOOLEAN
    /\ latch \in [Runs -> {"unset"} \cup Terminal]
    /\ status \in [Runs -> {"unset", "running"} \cup Terminal]

\* A run is live, lost, halted or a trace, and was made.
Apart ==
    /\ live \subseteq 1 .. made /\ lost \subseteq 1 .. made
    /\ halted \subseteq 1 .. made /\ traces \subseteq 1 .. made
    /\ live \cap halted = {} /\ live \cap traces = {} /\ halted \cap traces = {}
    /\ lost \cap live = {} /\ lost \cap halted = {} /\ lost \cap traces = {}

\* Where the graph lets every fragment leave, no run is lost.
NoneLost == ~MayRefuse => lost = {}

\* A number not given out has neither latch nor status.
Untouched == \A r \in Runs : r > made => latch[r] = "unset" /\ status[r] = "unset"

\* A run in the graph is latched when its status is terminal, and only then; a
\* trace's is not while it runs.
LatchAgrees ==
    /\ \A r \in live \cup lost : latch[r] \in Terminal <=> Ending(r)
    /\ \A r \in traces : ~Ending(r)

\* The lowered tree has the live and the lost runs unless it is to be lowered
\* again; a tick reaches those only.
TreeCurrent ==
    /\ ~dirty => lowered = live \cup lost
    /\ pc \in {"main", "runs", "end"} => ~dirty /\ todo \subseteq live \cup lost

RunInv ==
    /\ RunTypes /\ Apart /\ NoneLost /\ Untouched /\ LatchAgrees /\ TreeCurrent
    /\ RunsFollowed

\* Where no run's tick ends in an error, only a tick under way leaves a live run
\* latched, it has not failed once it reaches the runs, and no outcome is to be
\* overwritten by a halt.
OutcomeInv ==
    /\ pc # "runs" => \A r \in live : latch[r] \notin Terminal
    /\ pc \in {"main", "runs"} => ~failed
    /\ \A r \in halted : ~Ending(r)

-----------------------------------------------------------------------------
(* Requests and module changes, between two ticks.                           *)

\* A step that leaves the tick and the statuses alone, between two ticks.
Between ==
    /\ pc \in {"idle", "commands"}
    /\ pc' \in {"idle", "commands"}
    /\ failed' = failed /\ todo' = todo /\ status' = status

\* A request that changes which runs there are in no way: a takeover, an edit, a
\* load, a refusal, a call (respawn, apply, load).
LEMMA SameRuns ==
    ASSUME RunInv, Between,
           made' = made, live' = live, lost' = lost, halted' = halted, traces' = traces,
           latch' = latch, lowered' = lowered, dirty' \in BOOLEAN, dirty => dirty',
           DOMAIN task \subseteq DOMAIN task'
    PROVE  RunInv' /\ (OutcomeInv => OutcomeInv')
<1> USE DEF Between
<1>1. RunTypes'
  BY DEF RunInv, RunTypes
<1>2. Apart' /\ NoneLost'
  BY DEF RunInv, Apart, NoneLost
<1>3. Untouched'
  BY DEF RunInv, Untouched
<1>4. LatchAgrees'
  BY DEF RunInv, LatchAgrees, Ending
<1>5. TreeCurrent'
  BY DEF RunInv, TreeCurrent
<1>6. RunsFollowed'
  BY DEF RunInv, RunsFollowed, Ending
<1>7. OutcomeInv => OutcomeInv'
  BY DEF OutcomeInv, Ending
<1> QED
  BY <1>1, <1>2, <1>3, <1>4, <1>5, <1>6, <1>7 DEF RunInv

\* A new run or trace takes a number that was not given out (graft, trace).
LEMMA NewRun ==
    ASSUME RunInv, Between, made < MaxRuns, made' = made + 1,
           \/ live' = live \cup {made + 1} /\ traces' = traces /\ dirty' = TRUE
           \/ live' = live /\ traces' = traces \cup {made + 1} /\ dirty' = dirty,
           lost' = lost, halted' = halted, latch' = latch, lowered' = lowered,
           DOMAIN task' = DOMAIN task \cup {made + 1}
    PROVE  RunInv' /\ (OutcomeInv => OutcomeInv')
<1> USE DEF Between
<1> DEFINE new == made + 1
<1>1. /\ new \in Runs /\ new \notin 1 .. made /\ made \in Nat
      /\ 1 .. made \subseteq 1 .. new /\ new \in 1 .. new
      /\ latch[new] = "unset" /\ status[new] = "unset"
  BY DEF RunInv, RunTypes, Untouched, Runs
<1>2. new \notin live /\ new \notin lost /\ new \notin halted /\ new \notin traces
  BY <1>1 DEF RunInv, Apart
<1>3. RunTypes'
  <2>1. made' \in 0 .. MaxRuns
    BY DEF RunInv, RunTypes
  <2>2. dirty' = TRUE \/ dirty' = dirty
    OBVIOUS
  <2>3. dirty' \in BOOLEAN
    BY <2>2, Zenon DEF RunInv, RunTypes
  <2> QED
    BY <2>1, <2>3 DEF RunInv, RunTypes
<1>4. Apart' /\ NoneLost'
  <2>1. made' = new /\ (live' = live \cup {new} \/ live' = live) /\ lost' = lost
        /\ (traces' = traces \cup {new} \/ traces' = traces) /\ halted' = halted
        /\ (live' = live \/ traces' = traces)
    OBVIOUS
  <2> HIDE DEF new
  <2>2. /\ live \subseteq 1 .. made /\ lost \subseteq 1 .. made
        /\ halted \subseteq 1 .. made /\ traces \subseteq 1 .. made
    BY DEF RunInv, Apart
  <2>3. /\ live' \subseteq 1 .. made' /\ lost' \subseteq 1 .. made'
        /\ halted' \subseteq 1 .. made' /\ traces' \subseteq 1 .. made'
    BY <1>1, <2>1, <2>2
  <2>4. /\ live' \cap halted' = {} /\ live' \cap traces' = {} /\ halted' \cap traces' = {}
        /\ lost' \cap live' = {} /\ lost' \cap halted' = {} /\ lost' \cap traces' = {}
    BY <1>2, <2>1 DEF RunInv, Apart
  <2>5. NoneLost'
    BY DEF RunInv, NoneLost
  <2> QED
    BY <2>3, <2>4, <2>5 DEF Apart
<1>5. Untouched'
  BY DEF RunInv, Untouched, RunTypes, Runs
<1>6. "unset" \notin Terminal
  BY DEF Terminal
<1> HIDE DEF new
<1>7. live' \subseteq live \cup {new} /\ traces' \subseteq traces \cup {new}
  BY DEF new
<1>8. LatchAgrees'
  <2>1. \A r \in live' \cup lost' : latch'[r] \in Terminal <=> status'[r] \in Terminal
    BY <1>1, <1>6, <1>7 DEF RunInv, LatchAgrees, Ending
  <2>2. \A r \in traces' : ~(status'[r] \in Terminal)
    BY <1>1, <1>6, <1>7 DEF RunInv, LatchAgrees, Ending
  <2> QED
    BY <2>1, <2>2 DEF LatchAgrees, Ending
<1>9. TreeCurrent'
  BY DEF RunInv, TreeCurrent
<1>10. RunsFollowed'
  <2>1. DOMAIN task' = DOMAIN task \cup {new}
    BY DEF new
  <2> QED
    BY <1>7, <2>1 DEF RunInv, RunsFollowed, Ending
<1>11. OutcomeInv => OutcomeInv'
  BY <1>1, <1>6, <1>7 DEF OutcomeInv, Ending
<1> QED
  BY <1>3, <1>4, <1>5, <1>8, <1>9, <1>10, <1>11 DEF RunInv

\* Halting some runs, by their handles or for a module (halt, Arora::interrupt).
LEMMA HaltAllKeeps ==
    ASSUME RunInv, Between, NEW S, NEW R \in Refusable(S), HaltAll(S, R),
           DOMAIN task' = DOMAIN task
    PROVE  RunInv' /\ (OutcomeInv => OutcomeInv')
<1> USE DEF Between
<1>0. R \subseteq S \cap live /\ (~MayRefuse => R = {})
  BY DEF Refusable
<1>1. /\ live' = live \ S /\ lost' = lost \cup R /\ traces' = traces \ S
      /\ halted' = halted \cup ((S \cap (live \cup traces)) \ R)
      /\ dirty' = (dirty \/ (S \cap live) \ R # {})
      /\ made' = made /\ lowered' = lowered /\ latch' = latch
  BY DEF HaltAll
<1>2. RunTypes'
  BY <1>1 DEF RunInv, RunTypes
<1>3. Apart' /\ NoneLost'
  BY <1>0, <1>1 DEF RunInv, Apart, NoneLost
<1>4. Untouched'
  BY <1>1 DEF RunInv, Untouched
<1>5. LatchAgrees'
  BY <1>0, <1>1 DEF RunInv, LatchAgrees, Ending
<1>6. TreeCurrent'
  <2>1. ~dirty' => ~dirty /\ live' \cup lost' = live \cup lost
    BY <1>0, <1>1
  <2> QED
    BY <1>1, <2>1 DEF RunInv, TreeCurrent
<1>7. RunsFollowed'
  BY <1>0, <1>1 DEF RunInv, RunsFollowed, Ending
<1>8. OutcomeInv => OutcomeInv'
  BY <1>1 DEF OutcomeInv, Ending, RunInv, LatchAgrees
<1> QED
  BY <1>2, <1>3, <1>4, <1>5, <1>6, <1>7, <1>8 DEF RunInv

\* An entry set is an entry there is.
LEMMA PutDomain ==
    ASSUME NEW f, NEW k, NEW v
    PROVE  DOMAIN Put(f, k, v) = DOMAIN f \cup {k}
  BY DEF Put

\* A graph or a call grafted (BehaviorTreeInterpreter::graft).
LEMMA GraftKeeps ==
    ASSUME RunInv, Between, NEW x, NEW p, NEW calls, Graft(x, p, calls)
    PROVE  RunInv' /\ (OutcomeInv => OutcomeInv')
<1>1. /\ made < MaxRuns /\ made' = made + 1 /\ live' = live \cup {made + 1} /\ lost' = lost
      /\ traces' = traces /\ dirty' = TRUE /\ halted' = halted /\ latch' = latch
      /\ lowered' = lowered /\ task' = Put(task, made + 1, Started(calls))
  BY DEF Graft, traceVars
<1>2. DOMAIN task' = DOMAIN task \cup {made + 1}
  BY <1>1, PutDomain
<1> QED
  BY <1>1, <1>2, NewRun

\* What a request does to the runs (Arora::call, the interpreter module).
LEMMA PerformKeeps ==
    ASSUME RunInv, Between, NEW o, Perform(o)
    PROVE  RunInv' /\ (OutcomeInv => OutcomeInv')
<1>0. dirty \in BOOLEAN
  BY DEF RunInv, RunTypes
<1>1. CASE UNCHANGED <<graphVars, halted, traceVars, made, task>>
  BY <1>0, <1>1, SameRuns DEF graphVars, traceVars
<1>2. CASE Spawn(o.module, o.function)
  BY <1>2, GraftKeeps DEF Spawn
<1>3. CASE SpawnGraph(o.root, o.program)
  <2>1. ASSUME NEW r, NEW p, NEW calls, Respawn(r, p, calls)
        PROVE  RunInv' /\ (OutcomeInv => OutcomeInv')
    <3>1. /\ made' = made /\ live' = live /\ lost' = lost /\ halted' = halted
          /\ traces' = traces /\ latch' = latch /\ lowered' = lowered
          /\ dirty' = (dirty \/ finished # {} \/ program[r] # p)
          /\ task' = IF r \in DOMAIN task THEN [task EXCEPT ![r].calls = calls]
                                          ELSE Put(task, r, Started(calls))
      BY <2>1 DEF Respawn, traceVars
    <3>2. DOMAIN task \subseteq DOMAIN task'
      <4>1. CASE r \in DOMAIN task
        BY <3>1, <4>1
      <4>2. CASE r \notin DOMAIN task
        <5>1. task' = Put(task, r, Started(calls))
          BY <3>1, <4>2
        <5>2. DOMAIN task' = DOMAIN task \cup {r}
          BY <5>1, PutDomain
        <5> QED
          BY <5>2
      <4> QED
        BY <4>1, <4>2
    <3>3. dirty' \in BOOLEAN /\ (dirty => dirty')
      BY <3>1
    <3> QED
      BY <3>1, <3>2, <3>3, SameRuns
  <2> QED
    BY <1>3, <2>1, GraftKeeps DEF SpawnGraph
<1>4. CASE Halt(o.run)
  <2>1. PICK R \in Refusable({o.run}) :
           /\ HaltAll({o.run}, R)
           /\ task' = IF R = {} /\ o.run \in DOMAIN task THEN [task EXCEPT ![o.run].halted = TRUE]
                      ELSE task
    BY <1>4 DEF Halt
  <2>2. DOMAIN task' = DOMAIN task
    BY <2>1
  <2> QED
    BY <2>1, <2>2, HaltAllKeeps
<1>5. CASE Edit(o.run, o.program)
  BY <1>5, SameRuns DEF Edit, traceVars
<1>6. CASE Load(o.main)
  BY <1>6, SameRuns DEF Load, traceVars
<1>7. CASE StartTrace
  <2>1. /\ made < MaxRuns /\ made' = made + 1 /\ live' = live /\ lost' = lost
        /\ traces' = traces \cup {made + 1} /\ dirty' = dirty /\ halted' = halted
        /\ latch' = latch /\ lowered' = lowered
        /\ task' = Put(task, made + 1, Started(NoCalls))
    BY <1>7 DEF StartTrace, graphVars
  <2>2. DOMAIN task' = DOMAIN task \cup {made + 1}
    BY <2>1, PutDomain
  <2> QED
    BY <2>1, <2>2, NewRun
<1>8. CASE Refuse
  <2>1. dirty' = (dirty \/ finished # {})
    BY <1>8 DEF Refuse
  <2>2. dirty' \in BOOLEAN /\ (dirty => dirty')
    BY <2>1
  <2> QED
    BY <1>8, <2>2, SameRuns DEF Refuse, traceVars
<1> QED
  BY <1>1, <1>2, <1>3, <1>4, <1>5, <1>6, <1>7, <1>8 DEF Perform

-----------------------------------------------------------------------------
(* A tick.                                                                   *)

\* The halts are written and the tree is lowered, or is not (tick).
LEMMA BeginTickKeeps ==
    ASSUME RunInv, BeginTick
    PROVE  /\ RunInv' /\ (OutcomeInv => OutcomeInv')
           /\ OutcomeInv => \A r \in Runs : Ending(r) => status'[r] = status[r]
<1>1. /\ pc = "commands" /\ halted' = {} /\ failed' = FALSE
      /\ status' = [r \in Runs |-> IF r \in halted THEN "failure" ELSE status[r]]
      /\ made' = made /\ live' = live /\ lost' = lost /\ traces' = traces /\ latch' = latch
      /\ task' = task
  BY DEF BeginTick, traceVars
<1>2. \/ pc' = "report" /\ dirty' = dirty /\ lowered' = lowered /\ dirty
      \/ /\ pc' = "main" /\ lowered' = (IF dirty THEN live \cup lost ELSE lowered)
         /\ todo' = lowered' /\ dirty' = FALSE
  BY DEF BeginTick
<1>3. /\ made \in 0 .. MaxRuns /\ dirty \in BOOLEAN
      /\ latch \in [Runs -> {"unset"} \cup Terminal]
      /\ status \in [Runs -> {"unset", "running"} \cup Terminal]
      /\ live \cup lost \subseteq Runs /\ traces \subseteq Runs /\ halted \subseteq Runs
  BY DEF RunInv, RunTypes, Apart, Runs
<1>4. \A r \in live \cup lost \cup traces : status'[r] = status[r]
  BY <1>1, <1>3 DEF RunInv, Apart
<1>5. RunTypes'
  <2>1. status' \in [Runs -> {"unset", "running"} \cup Terminal]
    BY <1>1, <1>3 DEF Terminal
  <2>2. dirty' \in BOOLEAN
    BY <1>2, <1>3
  <2>3. pc' \in {"main", "report"}
    BY <1>2
  <2> QED
    BY <1>1, <1>3, <2>1, <2>2, <2>3 DEF RunTypes
<1>6. Apart' /\ NoneLost'
  BY <1>1 DEF RunInv, Apart, NoneLost
<1>7. Untouched'
  <2>1. \A r \in Runs : r > made => r \notin halted
    BY <1>3 DEF RunInv, Apart, Runs
  <2> QED
    BY <1>1, <2>1 DEF RunInv, Untouched
<1>8. LatchAgrees'
  BY <1>1, <1>4 DEF RunInv, LatchAgrees, Ending
<1>9. TreeCurrent'
  <2>1. CASE dirty
    BY <1>1, <1>2, <2>1 DEF TreeCurrent
  <2>2. CASE ~dirty
    BY <1>1, <1>2, <2>2 DEF RunInv, TreeCurrent
  <2> QED
    BY <2>1, <2>2
<1>10. RunsFollowed'
  BY <1>1, <1>4 DEF RunInv, RunsFollowed, Ending
<1>11. OutcomeInv => OutcomeInv'
  BY <1>1, <1>2 DEF OutcomeInv
<1>12. OutcomeInv => \A r \in Runs : Ending(r) => status'[r] = status[r]
  BY <1>1 DEF OutcomeInv
<1> QED
  BY <1>5, <1>6, <1>7, <1>8, <1>9, <1>10, <1>11, <1>12 DEF RunInv

\* The main behavior ticks (the runner).
LEMMA TickMainKeeps ==
    ASSUME RunInv, TickMain
    PROVE  RunInv' /\ (OutcomeInv => OutcomeInv')
<1>1. /\ pc = "main"
      /\ \/ pc' = "runs" /\ failed' = failed
         \/ pc' = "end" /\ failed' = TRUE
      /\ made' = made /\ live' = live /\ lost' = lost /\ halted' = halted /\ traces' = traces
      /\ dirty' = dirty /\ lowered' = lowered /\ latch' = latch /\ todo' = todo
      /\ status' = status /\ task' = task
  BY DEF TickMain, graphVars, traceVars
<1>2. RunTypes'
  <2>1. failed' = TRUE \/ failed' = failed
    BY <1>1
  <2>2. failed' \in BOOLEAN
    BY <2>1, Zenon DEF RunInv, RunTypes
  <2> QED
    BY <1>1, <2>2 DEF RunInv, RunTypes
<1>3. Apart' /\ NoneLost' /\ Untouched' /\ TreeCurrent'
  BY <1>1 DEF RunInv, Apart, NoneLost, Untouched, TreeCurrent
<1>4. LatchAgrees' /\ RunsFollowed'
  BY <1>1 DEF RunInv, LatchAgrees, RunsFollowed, Ending
<1>5. OutcomeInv => OutcomeInv'
  BY <1>1 DEF OutcomeInv, Ending
<1> QED
  BY <1>2, <1>3, <1>4, <1>5 DEF RunInv

\* A run ticks (the run-status decorator).
LEMMA TickRunKeeps ==
    ASSUME RunInv, TickRun
    PROVE  /\ RunInv'
           /\ "error" \notin Outcomes /\ OutcomeInv => OutcomeInv'
           /\ \A r \in Runs : Ending(r) => status'[r] = status[r]
<1>1. PICK r \in todo :
         /\ todo' = todo \ {r}
         /\ \/ pc' = pc /\ failed' = failed /\ status' = status /\ latch' = latch
            \/ /\ latch[r] \notin Terminal /\ pc' = pc /\ failed' = failed
               /\ \E s \in Outcomes \ {"error"} : /\ status' = [status EXCEPT ![r] = s]
                                                  /\ latch' = Latched(r, s)
            \/ /\ latch[r] \notin Terminal /\ "error" \in Outcomes /\ failed' = TRUE /\ pc' = "end"
               /\ status' = [status EXCEPT ![r] = "failure"] /\ latch' = Latched(r, "failure")
  BY DEF TickRun
<1>2. /\ pc = "runs" /\ made' = made /\ live' = live /\ lost' = lost /\ halted' = halted
      /\ traces' = traces /\ dirty' = dirty /\ lowered' = lowered /\ task' = task
  BY DEF TickRun, traceVars
<1>3. /\ made \in 0 .. MaxRuns /\ dirty \in BOOLEAN /\ failed \in BOOLEAN
      /\ latch \in [Runs -> {"unset"} \cup Terminal]
      /\ status \in [Runs -> {"unset", "running"} \cup Terminal]
      /\ live \cup lost \subseteq 1 .. made /\ live \cup lost \subseteq Runs
      /\ traces \subseteq Runs
  BY DEF RunInv, RunTypes, Apart, Runs
<1>4. ~dirty /\ todo \subseteq live \cup lost /\ r \in live \cup lost /\ r \in Runs /\ ~(r > made)
  <2>1. ~dirty /\ todo \subseteq live \cup lost
    BY <1>2 DEF RunInv, TreeCurrent
  <2>2. r \in live \cup lost /\ r \in 1 .. made /\ r \in Runs
    BY <1>1, <1>3, <2>1
  <2> QED
    BY <1>3, <2>1, <2>2
<1>5. r \notin halted /\ r \notin traces
  BY <1>4 DEF RunInv, Apart
<1>6. CASE status' = status /\ latch' = latch /\ pc' = pc /\ failed' = failed
  <2>1. RunTypes' /\ Apart' /\ NoneLost' /\ Untouched'
    BY <1>2, <1>6 DEF RunInv, RunTypes, Apart, NoneLost, Untouched
  <2>2. TreeCurrent'
    BY <1>1, <1>2, <1>6 DEF RunInv, TreeCurrent
  <2>3. LatchAgrees' /\ RunsFollowed'
    BY <1>2, <1>6 DEF RunInv, LatchAgrees, RunsFollowed, Ending
  <2>4. OutcomeInv => OutcomeInv'
    BY <1>2, <1>6 DEF OutcomeInv, Ending
  <2> QED
    BY <1>6, <2>1, <2>2, <2>3, <2>4 DEF RunInv
<1>7. ASSUME NEW s \in {"running"} \cup Terminal, latch[r] \notin Terminal,
             status' = [status EXCEPT ![r] = s], latch' = Latched(r, s),
             \/ pc' = pc /\ failed' = failed
             \/ pc' = "end" /\ failed' = TRUE /\ "error" \in Outcomes
      PROVE  /\ RunInv'
             /\ "error" \notin Outcomes /\ OutcomeInv => OutcomeInv'
             /\ \A q \in Runs : Ending(q) => status'[q] = status[q]
  <2>1. ~Ending(r)
    BY <1>4, <1>7 DEF RunInv, LatchAgrees
  <2>2. /\ latch' = [latch EXCEPT ![r] = IF s \in Terminal THEN s ELSE latch[r]]
        /\ status'[r] = s /\ latch'[r] = IF s \in Terminal THEN s ELSE latch[r]
        /\ \A q \in Runs \ {r} : status'[q] = status[q] /\ latch'[q] = latch[q]
    BY <1>3, <1>4, <1>7 DEF Latched
  <2>3. RunTypes'
    <3>1. /\ status' \in [Runs -> {"unset", "running"} \cup Terminal]
          /\ latch' \in [Runs -> {"unset"} \cup Terminal]
      BY <1>3, <1>4, <1>7, <2>2
    <3>2. failed' = TRUE \/ failed' = failed
      BY <1>7
    <3>3. failed' \in BOOLEAN
      BY <1>3, <3>2, Zenon
    <3>4. pc' \in {"runs", "end"}
      BY <1>2, <1>7
    <3> QED
      BY <1>2, <1>3, <3>1, <3>3, <3>4 DEF RunTypes
  <2>4. Apart' /\ NoneLost'
    BY <1>2 DEF RunInv, Apart, NoneLost
  <2>5. Untouched'
    BY <1>2, <1>4, <2>2 DEF RunInv, Untouched
  <2>6. LatchAgrees'
    <3>1. \A q \in live \cup lost : latch'[q] \in Terminal <=> status'[q] \in Terminal
      BY <1>3, <1>7, <2>2 DEF RunInv, LatchAgrees, Ending
    <3>2. \A q \in traces : status'[q] \notin Terminal
      BY <1>3, <1>5, <2>2 DEF RunInv, LatchAgrees, Ending
    <3> QED
      BY <1>2, <3>1, <3>2 DEF LatchAgrees, Ending
  <2>7. TreeCurrent'
    <3>1. todo' \subseteq live \cup lost
      BY <1>1, <1>4
    <3> QED
      BY <1>2, <1>4, <3>1 DEF RunInv, TreeCurrent
  <2>8. RunsFollowed'
    <3>1. \A q \in live \cup lost \cup halted \cup traces : q \in Runs
      BY <1>3 DEF RunInv, Apart, Runs
    <3>2. \A q \in Runs : Ending(q) => status'[q] \in Terminal
      BY <2>1, <2>2 DEF Ending
    <3> QED
      BY <1>2, <3>1, <3>2 DEF RunInv, RunsFollowed, Ending
  <2>9. "error" \notin Outcomes /\ OutcomeInv => OutcomeInv'
    <3> SUFFICES ASSUME "error" \notin Outcomes, OutcomeInv
                 PROVE  OutcomeInv'
      OBVIOUS
    <3>1. pc' = "runs" /\ failed' = failed
      BY <1>2, <1>7
    <3>2. \A q \in halted : q \in Runs \ {r}
      BY <1>3, <1>5 DEF RunInv, Apart, Runs
    <3>3. \A q \in halted : status'[q] \notin Terminal
      BY <2>2, <3>2 DEF OutcomeInv, Ending
    <3> QED
      BY <1>2, <3>1, <3>3 DEF OutcomeInv, Ending
  <2>10. \A q \in Runs : Ending(q) => status'[q] = status[q]
    BY <2>1, <2>2
  <2> QED
    BY <2>3, <2>4, <2>5, <2>6, <2>7, <2>8, <2>9, <2>10 DEF RunInv
<1>8. ASSUME NEW s \in Outcomes \ {"error"}
      PROVE  s \in {"running"} \cup Terminal
  BY DEF Terminal
<1>9. "failure" \in {"running"} \cup Terminal
  BY DEF Terminal
<1> QED
  BY <1>1, <1>6, <1>7, <1>8, <1>9

\* The traces report and the runs that ended are swept (sweep_terminal_runs).
LEMMA EndTickKeeps ==
    ASSUME RunInv, EndTick
    PROVE  /\ RunInv' /\ (OutcomeInv => OutcomeInv')
           /\ \A r \in Runs : Ending(r) => status'[r] = status[r]
<1>1. /\ pc \in {"runs", "end"} /\ pc' = "report"
      /\ status' = [r \in Runs |-> IF r \in traces \ begun THEN "running" ELSE status[r]]
      /\ made' = made /\ lost' = lost /\ halted' = halted /\ traces' = traces
      /\ lowered' = lowered /\ latch' = latch /\ failed' = failed /\ todo' = todo /\ task' = task
  BY DEF EndTick, ReportTraces, tickVars
<1>2. \/ failed /\ live' = live /\ dirty' = dirty
      \/ /\ ~failed /\ live' = live \ {r \in live : Ending(r)}
         /\ dirty' = (dirty \/ {r \in live : Ending(r)} # {})
  BY DEF EndTick, Sweep
<1>3. /\ made \in 0 .. MaxRuns /\ dirty \in BOOLEAN /\ failed \in BOOLEAN
      /\ latch \in [Runs -> {"unset"} \cup Terminal]
      /\ status \in [Runs -> {"unset", "running"} \cup Terminal]
      /\ live \cup lost \subseteq Runs /\ traces \subseteq Runs /\ halted \subseteq Runs
      /\ traces \subseteq 1 .. made
  BY DEF RunInv, RunTypes, Apart, Runs
<1>4. live' \subseteq live
  BY <1>2
<1>5. \A r \in Runs \ traces : status'[r] = status[r]
  BY <1>1
<1>6. "running" \notin Terminal
  BY DEF Terminal
<1>7. \A r \in traces : ~Ending(r) /\ status'[r] \notin Terminal
  BY <1>1, <1>3, <1>6 DEF RunInv, LatchAgrees, Ending
<1>8. \A r \in Runs : Ending(r) => status'[r] = status[r]
  BY <1>5, <1>7
<1>9. RunTypes'
  <2>1. status' \in [Runs -> {"unset", "running"} \cup Terminal]
    BY <1>1, <1>3
  <2>2. dirty' \in BOOLEAN
    BY <1>2, <1>3
  <2> QED
    BY <1>1, <1>3, <2>1, <2>2 DEF RunTypes
<1>10. Apart' /\ NoneLost'
  BY <1>1, <1>4 DEF RunInv, Apart, NoneLost
<1>11. Untouched'
  <2>1. \A r \in Runs : r > made => r \notin traces
    BY <1>3
  <2> QED
    BY <1>1, <2>1 DEF RunInv, Untouched
<1>12. LatchAgrees'
  <2>1. \A r \in live \cup lost : r \in Runs \ traces
    BY <1>3 DEF RunInv, Apart
  <2> QED
    BY <1>1, <1>4, <1>5, <1>7, <2>1 DEF RunInv, LatchAgrees, Ending
<1>13. TreeCurrent'
  <2>1. ~dirty' => ~dirty /\ live' = live
    BY <1>2
  <2> QED
    BY <1>1, <2>1 DEF RunInv, TreeCurrent
<1>14. RunsFollowed'
  <2>1. \A r \in live \cup lost \cup halted \cup traces : r \in Runs
    BY <1>3
  <2> QED
    BY <1>1, <1>4, <1>8, <2>1 DEF RunInv, RunsFollowed, Ending
<1>15. ASSUME OutcomeInv
       PROVE  OutcomeInv'
  <2>1. \A r \in live' : latch[r] \notin Terminal
    <3>1. CASE failed
      <4>1. pc = "end"
        BY <1>1, <1>15, <3>1 DEF OutcomeInv
      <4> QED
        BY <1>4, <1>15, <4>1 DEF OutcomeInv
    <3>2. CASE ~failed
      BY <1>2, <3>2 DEF RunInv, LatchAgrees
    <3> QED
      BY <3>1, <3>2
  <2>2. \A r \in halted : r \in Runs \ traces
    BY <1>3 DEF RunInv, Apart
  <2>3. \A r \in halted : status'[r] \notin Terminal
    BY <1>5, <1>15, <2>2 DEF OutcomeInv, Ending
  <2> QED
    BY <1>1, <2>1, <2>3 DEF OutcomeInv, Ending
<1> QED
  BY <1>8, <1>9, <1>10, <1>11, <1>12, <1>13, <1>14, <1>15 DEF RunInv

\* The device stops following the runs that ended (report_task_runs).
LEMMA ReportTaskRunsKeeps ==
    ASSUME RunInv, ReportTaskRuns
    PROVE  RunInv' /\ (OutcomeInv => OutcomeInv')
<1>1. /\ pc = "report" /\ pc' = "idle" /\ made' = made /\ live' = live /\ lost' = lost
      /\ halted' = halted /\ traces' = traces /\ dirty' = dirty /\ lowered' = lowered /\ latch' = latch
      /\ failed' = failed /\ todo' = todo /\ status' = status
      /\ DOMAIN task' = {r \in DOMAIN task : ~Ending(r)}
  BY DEF ReportTaskRuns, graphVars, traceVars, tickVars
<1>2. RunTypes' /\ Apart' /\ NoneLost' /\ Untouched' /\ TreeCurrent'
  BY <1>1 DEF RunInv, RunTypes, Apart, NoneLost, Untouched, TreeCurrent
<1>3. LatchAgrees'
  BY <1>1 DEF RunInv, LatchAgrees, Ending
<1>4. RunsFollowed'
  BY <1>1 DEF RunInv, RunsFollowed, Ending
<1>5. OutcomeInv => OutcomeInv'
  BY <1>1 DEF OutcomeInv, Ending
<1> QED
  BY <1>2, <1>3, <1>4, <1>5 DEF RunInv

-----------------------------------------------------------------------------
(* All of the steps.                                                         *)

\* The first state.
LEMMA InitHolds == Init => RunInv /\ OutcomeInv
<1> SUFFICES ASSUME Init
             PROVE  RunInv /\ OutcomeInv
  OBVIOUS
<1>1. RunTypes
  <2>1. made \in 0 .. MaxRuns /\ pc = "idle"
    BY DEF Init
  <2>2. dirty \in BOOLEAN /\ failed \in BOOLEAN
    BY Zenon DEF Init
  <2>3. /\ latch \in [Runs -> {"unset"} \cup Terminal]
        /\ status \in [Runs -> {"unset", "running"} \cup Terminal]
    BY DEF Init
  <2> QED
    BY <2>1, <2>2, <2>3 DEF RunTypes
<1>2. Apart /\ NoneLost /\ Untouched /\ LatchAgrees /\ TreeCurrent /\ RunsFollowed
  BY DEF Init, Apart, NoneLost, Untouched, LatchAgrees, TreeCurrent, RunsFollowed
<1>3. OutcomeInv
  BY DEF Init, OutcomeInv
<1> QED
  BY <1>1, <1>2, <1>3 DEF RunInv

\* A module changes under the runs (Arora::interrupt).
LEMMA InterruptKeeps ==
    ASSUME RunInv, pc = "idle", NEW m, NEW E, Interrupt(m, E)
    PROVE  RunInv' /\ (OutcomeInv => OutcomeInv') /\ status' = status
<1> PICK hit : hit = Callers(m, E)
  OBVIOUS
<1>1. PICK R \in Refusable(hit) : HaltAll(hit, R) /\ task' = Noted(hit \ R)
  BY DEF Interrupt
<1>2. pc' = pc /\ failed' = failed /\ todo' = todo /\ status' = status
  BY DEF Interrupt, tickVars
<1>3. Between
  BY <1>2 DEF Between
<1>4. DOMAIN task' = DOMAIN task
  BY <1>1 DEF Noted
<1> QED
  BY <1>1, <1>2, <1>3, <1>4, HaltAllKeeps

\* Every step keeps the invariants, the second where no run's tick ends in an
\* error, and then rewrites no outcome.
LEMMA NextKeeps ==
    ASSUME RunInv, [Next]_vars
    PROVE  /\ RunInv'
           /\ OutcomeInv /\ "error" \notin Outcomes =>
                 OutcomeInv' /\ \A r \in Runs : Ending(r) => status'[r] = status[r]
<1>0. dirty \in BOOLEAN
  BY DEF RunInv, RunTypes
<1>1. ASSUME pc' \in {"idle", "commands"}, pc \in {"idle", "commands"},
             UNCHANGED <<made, graphVars, halted, traceVars, tickVars, status, task>>
      PROVE  RunInv' /\ (OutcomeInv => OutcomeInv') /\ status' = status
  <2>1. Between
    BY <1>1 DEF Between, tickVars
  <2> QED
    BY <1>0, <1>1, <2>1, SameRuns DEF graphVars, traceVars
<1>2. CASE BeginStep
  BY <1>1, <1>2 DEF BeginStep
<1>3. CASE ApplyCommand
  <2>1. Between /\ Perform(Head(pending).o) /\ status' = status
    BY <1>3 DEF ApplyCommand, Between, tickVars
  <2> QED
    BY <2>1, PerformKeeps
<1>4. CASE BeginTick \/ TickMain \/ TickRun \/ EndTick \/ ReportTaskRuns
  <2>1. TickMain \/ ReportTaskRuns => status' = status
    BY DEF TickMain, ReportTaskRuns
  <2> QED
    BY <1>4, <2>1, BeginTickKeeps, TickMainKeeps, TickRunKeeps, EndTickKeeps, ReportTaskRunsKeeps
<1>5. ASSUME NEW o \in Ops, HostCall(o)
      PROVE  RunInv' /\ (OutcomeInv => OutcomeInv') /\ status' = status
  <2>1. Between /\ Perform(o) /\ status' = status
    BY <1>5 DEF HostCall, Between, tickVars
  <2> QED
    BY <2>1, PerformKeeps
<1>6. ASSUME NEW h \in Headers, LoadModule(h)
      PROVE  RunInv' /\ (OutcomeInv => OutcomeInv') /\ status' = status
  BY <1>1, <1>6 DEF LoadModule
<1>7. ASSUME NEW h \in Headers, ReloadModule(h)
      PROVE  RunInv' /\ (OutcomeInv => OutcomeInv') /\ status' = status
  BY <1>7, InterruptKeeps DEF ReloadModule
<1>8. ASSUME NEW m \in Modules, UnloadModule(m)
      PROVE  RunInv' /\ (OutcomeInv => OutcomeInv') /\ status' = status
  BY <1>8, InterruptKeeps DEF UnloadModule
<1>9. ASSUME UNCHANGED <<pc, made, graphVars, halted, traceVars, tickVars, status, task>>
      PROVE  RunInv' /\ (OutcomeInv => OutcomeInv') /\ status' = status
  <2>1. /\ pc' = pc /\ made' = made /\ live' = live /\ lost' = lost /\ halted' = halted /\ traces' = traces
        /\ dirty' = dirty /\ lowered' = lowered /\ latch' = latch /\ failed' = failed
        /\ todo' = todo /\ status' = status /\ task' = task
    BY <1>9 DEF graphVars, traceVars, tickVars
  <2>2. RunTypes' /\ Apart' /\ NoneLost' /\ Untouched' /\ TreeCurrent'
    BY <2>1 DEF RunInv, RunTypes, Apart, NoneLost, Untouched, TreeCurrent
  <2>3. LatchAgrees' /\ RunsFollowed' /\ (OutcomeInv => OutcomeInv')
    BY <2>1 DEF RunInv, LatchAgrees, RunsFollowed, Ending, OutcomeInv
  <2> QED
    BY <2>1, <2>2, <2>3 DEF RunInv
<1>10. ASSUME NEW o \in Ops, Send(o)
       PROVE  RunInv' /\ (OutcomeInv => OutcomeInv') /\ status' = status
  BY <1>9, <1>10 DEF Send
<1>11. CASE UNCHANGED vars
  BY <1>9, <1>11 DEF vars, graphVars, traceVars, tickVars
<1> QED
  BY <1>2, <1>3, <1>4, <1>5, <1>6, <1>7, <1>8, <1>10, <1>11 DEF Next, Step

\* No two modules export one function, whatever is loaded, replaced or unloaded.
LEMMA OwnersKept ==
    ASSUME OneOwner, [Next]_vars
    PROVE  OneOwner'
<1>1. CASE UNCHANGED exports
  BY <1>1 DEF OneOwner
<1>2. ASSUME NEW h \in Headers, LoadModule(h)
      PROVE  OneOwner'
  <2>1. /\ exports' = Put(exports, h.id, h.exports)
        /\ \A m \in DOMAIN exports \ {h.id} : exports[m] \cap h.exports = {}
    BY <1>2 DEF LoadModule, FunctionsFree
  <2>2. /\ DOMAIN exports' = DOMAIN exports \cup {h.id} /\ exports'[h.id] = h.exports
        /\ \A m \in DOMAIN exports \ {h.id} : exports'[m] = exports[m]
    BY <2>1 DEF Put
  <2> QED
    BY <2>1, <2>2 DEF OneOwner
<1>3. ASSUME NEW h \in Headers, ReloadModule(h)
      PROVE  OneOwner'
  <2>1. /\ exports' = [exports EXCEPT ![h.id] = h.exports] /\ h.id \in DOMAIN exports
        /\ \A m \in DOMAIN exports \ {h.id} : exports[m] \cap h.exports = {}
    BY <1>3 DEF ReloadModule, FunctionsFree
  <2>2. /\ DOMAIN exports' = DOMAIN exports /\ exports'[h.id] = h.exports
        /\ \A m \in DOMAIN exports \ {h.id} : exports'[m] = exports[m]
    BY <2>1
  <2> QED
    BY <2>1, <2>2 DEF OneOwner
<1>4. ASSUME NEW m \in Modules, UnloadModule(m)
      PROVE  OneOwner'
  <2>1. exports' = [x \in DOMAIN exports \ {m} |-> exports[x]]
    BY <1>4 DEF UnloadModule
  <2> QED
    BY <2>1 DEF OneOwner
<1>5. ASSUME Step \/ (\E o \in Ops : Send(o) \/ HostCall(o)) \/ UNCHANGED vars
      PROVE  UNCHANGED exports
  BY <1>5 DEF Step, BeginStep, ApplyCommand, BeginTick, TickMain, TickRun, EndTick,
              ReportTaskRuns, Send, HostCall, moduleVars, vars
<1> QED
  BY <1>1, <1>2, <1>3, <1>4, <1>5 DEF Next

-----------------------------------------------------------------------------
(* The commands a change of a module spares.                                 *)

\* A set of numbers that is not empty has a least one.
LEMMA LeastNumber ==
    ASSUME NEW T, T \subseteq Nat, T # {}
    PROVE  \E n \in T : \A k \in T : n <= k
<1>1. PICK n \in T : \A k \in T : <<k, n>> \notin OpToRel(<, Nat)
  BY WFMin, NatLessThanWellFounded
<1>2. \A k \in T : ~(k < n)
  BY <1>1 DEF OpToRel
<1> QED BY <1>2

\* The items of s are commands of q that do not call module m.
SparesOf(s, q, m, E) ==
    \A i \in 1 .. Len(s) : \E k \in 1 .. Len(q) : s[i] = q[k] /\ ~CallsModule(q[k].o, m, E)

\* What Spared gives is commands of the queue that do not call the module.
LEMMA SparedCommands ==
    ASSUME NEW S, NEW q \in Seq(S), NEW m, NEW E
    PROVE  Spared(q, m, E) \in Seq(S) /\ SparesOf(Spared(q, m, E), q, m, E)
<1> DEFINE Calls(k) == CallsModule(q[k].o, m, E)
           Body(f, n) == IF n = 0 THEN <<>>
                         ELSE IF Calls(n) THEN f[n - 1] ELSE Append(f[n - 1], q[n])
           Kept(s) == /\ s \in Seq(S)
                      /\ \A i \in 1 .. Len(s) : \E k \in 1 .. Len(q) : s[i] = q[k] /\ ~Calls(k)
           Good(f, n) == /\ f \in [0 .. n -> Seq(S)]
                         /\ \A i \in 0 .. n : f[i] = Body(f, i) /\ Kept(f[i])
           c == CHOOSE f : f = [n \in 0 .. Len(q) |-> Body(f, n)]
<1>1. Spared(q, m, E) = c[Len(q)]
  BY DEF Spared
<1>2. Len(q) \in Nat /\ \A k \in 1 .. Len(q) : q[k] \in S
  OBVIOUS
<1> HIDE DEF Calls
<1>3. ASSUME NEW s, Kept(s), NEW n \in 1 .. Len(q), ~Calls(n)
      PROVE  Kept(Append(s, q[n]))
  <2>1. /\ Append(s, q[n]) \in Seq(S) /\ Len(Append(s, q[n])) = Len(s) + 1 /\ Len(s) \in Nat
        /\ \A i \in 1 .. Len(s) : Append(s, q[n])[i] = s[i]
        /\ Append(s, q[n])[Len(s) + 1] = q[n]
    BY <1>2, <1>3
  <2>2. \A i \in 1 .. Len(s) + 1 : i \in 1 .. Len(s) \/ i = Len(s) + 1
    BY <2>1
  <2> QED BY <1>3, <2>1, <2>2
<1>4. Kept(<<>>)
  OBVIOUS
<1> HIDE DEF Kept
<1>5. \A n \in 0 .. Len(q) : \E f : Good(f, n)
  <2> SUFFICES ASSUME {n \in 0 .. Len(q) : ~\E f : Good(f, n)} # {}
               PROVE  FALSE
    OBVIOUS
  <2>1. PICK n \in 0 .. Len(q) :
           /\ ~\E f : Good(f, n)
           /\ \A k \in 0 .. Len(q) : (~\E f : Good(f, k)) => n <= k
    <3> DEFINE T == {k \in 0 .. Len(q) : ~\E f : Good(f, k)}
    <3>1. T \subseteq Nat /\ T # {}
      OBVIOUS
    <3> HIDE DEF T
    <3>2. PICK k \in T : \A j \in T : k <= j
      BY <3>1, LeastNumber
    <3> QED BY <3>2 DEF T
  <2>2. CASE n = 0
    <3> DEFINE g == [i \in 0 .. 0 |-> <<>>]
    <3>1. g \in [0 .. 0 -> Seq(S)] /\ \A i \in 0 .. 0 : i = 0 /\ g[i] = <<>>
      OBVIOUS
    <3>2. Good(g, 0)
      BY <1>4, <3>1
    <3> QED BY <2>1, <2>2, <3>2
  <2>3. CASE n # 0
    <3>1. n - 1 \in 0 .. Len(q) /\ n \in 1 .. Len(q) /\ ~(n <= n - 1)
      BY <1>2, <2>3
    <3>2. PICK f : Good(f, n - 1)
      BY <2>1, <3>1
    <3> DEFINE last == IF Calls(n) THEN f[n - 1] ELSE Append(f[n - 1], q[n])
               g == [i \in 0 .. n |-> IF i = n THEN last ELSE f[i]]
    <3>3. Kept(f[n - 1])
      BY <3>1, <3>2
    <3>4. Kept(last)
      BY <1>3, <3>1, <3>3
    <3>5. last \in Seq(S)
      BY <3>4 DEF Kept
    <3> HIDE DEF last
    <3>6. \A i \in 0 .. n : i # n => i \in 0 .. n - 1 /\ (i # 0 => i - 1 \in 0 .. n - 1 /\ i - 1 # n)
      BY <3>1
    <3>7. g \in [0 .. n -> Seq(S)]
      BY <3>2, <3>5, <3>6
    <3>8. g[n] = last /\ \A i \in 0 .. n - 1 : g[i] = f[i]
      BY <3>1
    <3> HIDE DEF g
    <3>9. ASSUME NEW i \in 0 .. n  PROVE g[i] = Body(g, i) /\ Kept(g[i])
      <4>1. CASE i = n
        <5>1. g[n - 1] = f[n - 1]
          BY <3>1, <3>8
        <5> QED BY <2>3, <3>4, <3>8, <4>1, <5>1 DEF last
      <4>2. CASE i # n
        <5>1. i \in 0 .. n - 1 /\ g[i] = f[i] /\ f[i] = Body(f, i) /\ Kept(f[i])
          BY <3>2, <3>6, <3>8, <4>2
        <5>2. i # 0 => g[i - 1] = f[i - 1]
          BY <3>6, <3>8, <4>2
        <5> QED BY <5>1, <5>2
      <4> QED BY <4>1, <4>2
    <3>10. Good(g, n)
      BY <3>7, <3>9
    <3> QED BY <2>1, <3>10
  <2> QED BY <2>2, <2>3
<1>6. PICK f : Good(f, Len(q))
  <2>1. Len(q) \in 0 .. Len(q)
    BY <1>2
  <2> HIDE DEF Good
  <2> QED BY <1>5, <2>1
<1>7. f = [n \in 0 .. Len(q) |-> Body(f, n)]
  BY <1>6
<1>8. c = [n \in 0 .. Len(q) |-> Body(c, n)]
  BY <1>7
<1> HIDE DEF c
<1>9. \A n \in 0 .. Len(q) : c[n] = f[n]
  <2> SUFFICES ASSUME {n \in 0 .. Len(q) : c[n] # f[n]} # {}
               PROVE  FALSE
    OBVIOUS
  <2>1. PICK n \in 0 .. Len(q) :
           c[n] # f[n] /\ \A k \in 0 .. Len(q) : c[k] # f[k] => n <= k
    <3> DEFINE T == {k \in 0 .. Len(q) : c[k] # f[k]}
    <3>1. T \subseteq Nat /\ T # {}
      OBVIOUS
    <3> HIDE DEF T
    <3>2. PICK k \in T : \A j \in T : k <= j
      BY <3>1, LeastNumber
    <3> QED BY <3>2 DEF T
  <2>2. c[n] = Body(c, n) /\ f[n] = Body(f, n)
    BY <1>6, <1>8
  <2>3. n # 0 => n - 1 \in 0 .. Len(q) /\ ~(n <= n - 1)
    BY <1>2
  <2> QED BY <2>1, <2>2, <2>3
<1>10. Kept(c[Len(q)])
  <2>1. Len(q) \in 0 .. Len(q)
    BY <1>2
  <2>2. c[Len(q)] = f[Len(q)] /\ Kept(f[Len(q)])
    BY <1>6, <1>9, <2>1
  <2> QED BY <2>2
<1> QED BY <1>1, <1>10 DEF Kept, Calls, SparesOf

-----------------------------------------------------------------------------
(* Commands to modules that change.                                          *)

\* What command c asks of a module, it asks of the module as loaded now.
Fresh(c) ==
    \A m \in DOMAIN c.since :
       m \in DOMAIN exports /\ c.since[m] = epoch[m] /\ CallsModule(c.o, m, exports[m])

\* The queues hold commands, each asking of the modules as they are now.
QueueInv ==
    /\ inbound \in Seq(Command) /\ pending \in Seq(Command)
    /\ DOMAIN exports \subseteq Modules /\ epoch \in [Modules -> 0 .. MaxChanges]
    /\ \A i \in 1 .. Len(inbound) : Fresh(inbound[i])
    /\ \A i \in 1 .. Len(pending) : Fresh(pending[i])

\* A step that changes no module, and takes commands from one queue to the
\* other or out of both, leaves fresh ones.
LEMMA QueuesMove ==
    ASSUME QueueInv, UNCHANGED moduleVars,
           inbound' \in Seq(Command), pending' \in Seq(Command),
           \A i \in 1 .. Len(inbound') : \E k \in 1 .. Len(inbound) : inbound'[i] = inbound[k],
           \A i \in 1 .. Len(pending') :
              \/ \E k \in 1 .. Len(inbound) : pending'[i] = inbound[k]
              \/ \E k \in 1 .. Len(pending) : pending'[i] = pending[k]
    PROVE  QueueInv'
<1>1. ASSUME NEW i \in 1 .. Len(inbound')  PROVE Fresh(inbound'[i])
  BY <1>1 DEF QueueInv
<1>2. ASSUME NEW i \in 1 .. Len(pending')  PROVE Fresh(pending'[i])
  BY <1>2 DEF QueueInv
<1> DEFINE Still(c) == \A m \in DOMAIN c.since :
              m \in DOMAIN exports' /\ c.since[m] = epoch'[m] /\ CallsModule(c.o, m, exports'[m])
<1>3. /\ \A i \in 1 .. Len(inbound') : Still(inbound'[i])
      /\ \A i \in 1 .. Len(pending') : Still(pending'[i])
  BY <1>1, <1>2 DEF Fresh, moduleVars
<1> QED BY <1>3 DEF QueueInv, Fresh, moduleVars

\* A command sent is one to the modules as they are.
LEMMA SendQueues ==
    ASSUME \A p \in Programs : p.bound = {}, QueueInv, NEW o \in Ops, Send(o)
    PROVE  QueueInv'
<1> DEFINE c == [o |-> o, since |-> [m \in Reached(o) |-> epoch[m]]]
<1>1. inbound' = Append(inbound, c) /\ pending' = pending /\ UNCHANGED moduleVars
  BY DEF Send
<1>2. Reached(o) \subseteq DOMAIN exports /\ Reached(o) \in SUBSET Modules
  BY DEF Reached, QueueInv
<1>3. c \in Command
  <2>1. c.since \in [Reached(o) -> 0 .. MaxChanges]
    BY <1>2 DEF QueueInv
  <2>2. c.since \in UNION {[M -> 0 .. MaxChanges] : M \in SUBSET Modules}
    BY <1>2, <2>1
  <2> QED BY <2>2 DEF Command
<1>4. ASSUME NEW m \in Reached(o)  PROVE CallsModule(o, m, exports[m])
  <2>1. CASE o.op \in {"call", "spawn"} /\ o.module = m
    BY <2>1 DEF CallsModule
  <2>2. CASE o.op = "graph" /\ Reaches(o.program, m, exports[m])
    <3>1. o.program \in Programs
      BY <2>2 DEF Ops
    <3> QED BY <2>2, <3>1 DEF CallsModule, Reaches
  <2> QED BY <1>4, <2>1, <2>2 DEF Reached
<1>5. Fresh(c)
  BY <1>2, <1>4 DEF Fresh
<1>6. c.o = o /\ DOMAIN c.since = Reached(o) /\ \A m \in Reached(o) : c.since[m] = epoch[m]
  OBVIOUS
<1> HIDE DEF c
<1>7. /\ inbound' \in Seq(Command) /\ Len(inbound') = Len(inbound) + 1 /\ Len(inbound) \in Nat
      /\ inbound'[Len(inbound) + 1] = c
      /\ \A i \in 1 .. Len(inbound) : inbound'[i] = inbound[i]
      /\ \A i \in 1 .. Len(inbound') : i \in 1 .. Len(inbound) \/ i = Len(inbound) + 1
  BY <1>1, <1>3 DEF QueueInv
<1>8. \A i \in 1 .. Len(inbound') : Fresh(inbound'[i])
  BY <1>5, <1>7 DEF QueueInv
<1>9. \A i \in 1 .. Len(pending') : Fresh(pending'[i])
  BY <1>1 DEF QueueInv
<1> QED BY <1>1, <1>7, <1>8, <1>9 DEF QueueInv, Fresh, moduleVars

\* A module that is replaced or unloaded takes the commands to it out of the
\* queues (interrupt); the others ask of other modules.
LEMMA InterruptQueues ==
    ASSUME QueueInv, NEW m \in DOMAIN exports, Interrupt(m, exports[m]),
           Changed(m), DOMAIN exports \ {m} \subseteq DOMAIN exports',
           DOMAIN exports' \subseteq DOMAIN exports,
           \A x \in DOMAIN exports \ {m} : exports'[x] = exports[x]
    PROVE  QueueInv'
<1> PICK q : q = pending \o inbound
  OBVIOUS
<1> PICK E : E = exports[m]
  OBVIOUS
<1>1. q \in Seq(Command) /\ \A k \in 1 .. Len(q) : Fresh(q[k])
  <2>1. /\ q \in Seq(Command) /\ Len(q) = Len(pending) + Len(inbound)
        /\ Len(pending) \in Nat /\ Len(inbound) \in Nat
        /\ \A k \in 1 .. Len(q) : q[k] = IF k <= Len(pending) THEN pending[k] ELSE inbound[k - Len(pending)]
    BY DEF QueueInv
  <2>2. ASSUME NEW k \in 1 .. Len(q)  PROVE Fresh(q[k])
    <3>1. CASE k <= Len(pending)
      BY <2>1, <3>1 DEF QueueInv
    <3>2. CASE ~(k <= Len(pending))
      <4>1. k - Len(pending) \in 1 .. Len(inbound) /\ q[k] = inbound[k - Len(pending)]
        BY <2>1, <3>2
      <4> QED BY <4>1 DEF QueueInv
    <3> QED BY <3>1, <3>2
  <2> QED BY <2>1, <2>2
<1>2. inbound' = <<>> /\ pending' = Spared(q, m, E)
  BY DEF Interrupt
<1>3. /\ pending' \in Seq(Command)
      /\ \A i \in 1 .. Len(pending') : \E k \in 1 .. Len(q) :
            pending'[i] = q[k] /\ ~CallsModule(q[k].o, m, E)
  <2>1. Spared(q, m, E) \in Seq(Command) /\ SparesOf(Spared(q, m, E), q, m, E)
    BY <1>1, SparedCommands
  <2> QED BY <1>2, <2>1 DEF SparesOf
<1>4. /\ epoch' \in [Modules -> 0 .. MaxChanges] /\ m \in Modules
      /\ \A x \in Modules \ {m} : epoch'[x] = epoch[x]
  <2>1. m \in Modules /\ epoch[m] \in 0 .. MaxChanges /\ epoch[m] + 1 \in 0 .. MaxChanges
    BY DEF QueueInv, Changed
  <2> QED BY <2>1 DEF QueueInv, Changed
<1>5. ASSUME NEW i \in 1 .. Len(pending')
      PROVE  \A x \in DOMAIN pending'[i].since :
                /\ x \in DOMAIN exports' /\ pending'[i].since[x] = epoch'[x]
                /\ CallsModule(pending'[i].o, x, exports'[x])
  <2>1. PICK k \in 1 .. Len(q) : pending'[i] = q[k] /\ ~CallsModule(q[k].o, m, E)
    BY <1>3
  <2>2. \A x \in DOMAIN q[k].since :
           x \in DOMAIN exports /\ q[k].since[x] = epoch[x] /\ CallsModule(q[k].o, x, exports[x])
    BY <1>1 DEF Fresh
  <2>3. \A x \in DOMAIN q[k].since : x # m /\ x \in Modules
    BY <2>1, <2>2 DEF QueueInv
  <2> QED BY <1>4, <2>1, <2>2, <2>3
<1>6. 1 .. Len(inbound') = {} /\ inbound' \in Seq(Command)
  BY <1>2
<1> QED BY <1>3, <1>4, <1>5, <1>6 DEF QueueInv, Fresh

\* Every step keeps the queues' commands fresh.
LEMMA NextQueues ==
    ASSUME \A p \in Programs : p.bound = {}, QueueInv, [Next]_vars
    PROVE  QueueInv'
<1>1. CASE UNCHANGED <<inbound, pending, moduleVars>>
  BY <1>1, QueuesMove DEF QueueInv
<1>2. CASE BeginStep
  <2>1. inbound' = <<>> /\ pending' = pending \o inbound /\ UNCHANGED moduleVars
    BY <1>2 DEF BeginStep
  <2>2. /\ pending' \in Seq(Command) /\ Len(pending') = Len(pending) + Len(inbound)
        /\ Len(pending) \in Nat /\ Len(inbound) \in Nat
        /\ \A k \in 1 .. Len(pending') :
              pending'[k] = IF k <= Len(pending) THEN pending[k] ELSE inbound[k - Len(pending)]
    BY <2>1 DEF QueueInv
  <2>3. ASSUME NEW i \in 1 .. Len(pending')
        PROVE  \/ \E k \in 1 .. Len(inbound) : pending'[i] = inbound[k]
               \/ \E k \in 1 .. Len(pending) : pending'[i] = pending[k]
    <3>1. CASE i <= Len(pending)
      BY <2>2, <3>1
    <3>2. CASE ~(i <= Len(pending))
      <4>1. i - Len(pending) \in 1 .. Len(inbound) /\ pending'[i] = inbound[i - Len(pending)]
        BY <2>2, <3>2
      <4> QED BY <4>1
    <3> QED BY <3>1, <3>2
  <2>4. 1 .. Len(inbound') = {} /\ inbound' \in Seq(Command)
    BY <2>1
  <2> QED BY <2>1, <2>2, <2>3, <2>4, QueuesMove
<1>3. CASE ApplyCommand
  <2>1. pending # <<>> /\ pending' = Tail(pending) /\ inbound' = inbound /\ UNCHANGED moduleVars
    BY <1>3 DEF ApplyCommand
  <2>2. /\ pending' \in Seq(Command) /\ inbound' \in Seq(Command)
        /\ \A i \in 1 .. Len(pending') : i + 1 \in 1 .. Len(pending) /\ pending'[i] = pending[i + 1]
    BY <2>1 DEF QueueInv
  <2> QED BY <2>1, <2>2, QueuesMove
<1>4. ASSUME NEW o \in Ops, Send(o)  PROVE QueueInv'
  BY <1>4, SendQueues
<1>5. ASSUME NEW h \in Headers, LoadModule(h)  PROVE QueueInv'
  <2>1. /\ h.id \in Modules /\ h.id \notin DOMAIN exports /\ exports' = Put(exports, h.id, h.exports)
        /\ inbound' = inbound /\ pending' = pending
        /\ epoch[h.id] < MaxChanges /\ epoch' = [epoch EXCEPT ![h.id] = epoch[h.id] + 1]
    BY <1>5 DEF LoadModule, Changed
  <2>2. /\ DOMAIN exports' = DOMAIN exports \cup {h.id}
        /\ \A x \in DOMAIN exports : exports'[x] = exports[x]
    BY <2>1 DEF Put
  <2>3. /\ epoch' \in [Modules -> 0 .. MaxChanges]
        /\ \A x \in DOMAIN exports : epoch'[x] = epoch[x]
    <3>1. epoch[h.id] + 1 \in 0 .. MaxChanges
      BY <2>1 DEF QueueInv
    <3> QED BY <2>1, <3>1 DEF QueueInv
  <2>4. ASSUME NEW c, Fresh(c)
        PROVE  \A m \in DOMAIN c.since :
                  m \in DOMAIN exports' /\ c.since[m] = epoch'[m] /\ CallsModule(c.o, m, exports'[m])
    BY <2>2, <2>3, <2>4 DEF Fresh
  <2>5. /\ \A i \in 1 .. Len(inbound) : Fresh(inbound[i])
        /\ \A i \in 1 .. Len(pending) : Fresh(pending[i])
    BY DEF QueueInv
  <2>6. /\ \A i \in 1 .. Len(inbound) : \A m \in DOMAIN inbound[i].since :
              /\ m \in DOMAIN exports' /\ inbound[i].since[m] = epoch'[m]
              /\ CallsModule(inbound[i].o, m, exports'[m])
        /\ \A i \in 1 .. Len(pending) : \A m \in DOMAIN pending[i].since :
              /\ m \in DOMAIN exports' /\ pending[i].since[m] = epoch'[m]
              /\ CallsModule(pending[i].o, m, exports'[m])
    BY <2>4, <2>5
  <2> QED BY <2>1, <2>2, <2>3, <2>6 DEF QueueInv, Fresh
<1>6. ASSUME NEW h \in Headers, ReloadModule(h)  PROVE QueueInv'
  <2>1. /\ h.id \in DOMAIN exports /\ Interrupt(h.id, exports[h.id]) /\ Changed(h.id)
        /\ exports' = [exports EXCEPT ![h.id] = h.exports]
    BY <1>6 DEF ReloadModule
  <2>2. /\ DOMAIN exports' = DOMAIN exports
        /\ \A x \in DOMAIN exports \ {h.id} : exports'[x] = exports[x]
    BY <2>1
  <2> QED BY <2>1, <2>2, InterruptQueues
<1>7. ASSUME NEW m \in Modules, UnloadModule(m)  PROVE QueueInv'
  <2>1. /\ m \in DOMAIN exports /\ Interrupt(m, exports[m]) /\ Changed(m)
        /\ exports' = [x \in DOMAIN exports \ {m} |-> exports[x]]
    BY <1>7 DEF UnloadModule
  <2>2. /\ DOMAIN exports' = DOMAIN exports \ {m}
        /\ \A x \in DOMAIN exports \ {m} : exports'[x] = exports[x]
    BY <2>1
  <2> QED BY <2>1, <2>2, InterruptQueues
<1>8. ASSUME \/ BeginTick \/ TickMain \/ TickRun \/ EndTick \/ ReportTaskRuns
             \/ UNCHANGED vars \/ \E o \in Ops : HostCall(o)
      PROVE  UNCHANGED <<inbound, pending, moduleVars>>
  BY <1>8 DEF BeginTick, TickMain, TickRun, EndTick, ReportTaskRuns, HostCall, moduleVars, vars
<1> QED BY <1>1, <1>2, <1>3, <1>4, <1>5, <1>6, <1>7, <1>8 DEF Next, Step

-----------------------------------------------------------------------------
(* What the device notes that its runs call.                                 *)

\* The note of run r has all that its program calls, and r was not interrupted.
Covered(r) ==
    /\ ~task[r].interrupted
    /\ \A f \in program[r].nodes :
          task[r].calls.module = NoModule /\ f \in task[r].calls.functions
    /\ \A m, f : <<m, f>> \in program[r].bound =>
          task[r].calls.module = m /\ f \in task[r].calls.functions

\* What the device notes of a live run it follows is true of it.
NoteInv ==
    /\ task \in [DOMAIN task -> TaskRun] /\ program \in [Runs -> Program]
    /\ \A r \in live : r \in DOMAIN task => Covered(r)

\* An edit brings no call that the run it edits did not make.
EditsAddNoCall ==
    \A r \in Runs, p \in Edits :
       Edit(r, p) => p.nodes \subseteq program[r].nodes /\ p.bound \subseteq program[r].bound

\* A note and a program that say what they did before, of a run that was live.
LEMMA CoverKept ==
    ASSUME NEW r, Covered(r), task'[r].calls = task[r].calls,
           task'[r].interrupted = task[r].interrupted, program'[r] = program[r]
    PROVE  Covered(r)'
BY DEF Covered

\* The notes of a new run and of one taken over are of the program they run.
LEMMA PerformNotes ==
    ASSUME \A p \in Programs : p.bound = {}, RunInv, NoteInv,
           NEW o \in Ops, Perform(o), EditsAddNoCall
    PROVE  /\ task' \in [DOMAIN task' -> TaskRun] /\ program' \in [Runs -> Program]
           /\ \A r \in live' : r \in DOMAIN task' => Covered(r)'
<1> DEFINE Goal == /\ task' \in [DOMAIN task' -> TaskRun] /\ program' \in [Runs -> Program]
                   /\ \A r \in live' : r \in DOMAIN task' => Covered(r)'
<1>0. /\ task \in [DOMAIN task -> TaskRun] /\ program \in [Runs -> Program]
      /\ \A r \in live : r \in DOMAIN task => Covered(r)
      /\ live \subseteq 1 .. made /\ made \in 0 .. MaxRuns /\ live \subseteq Runs
  BY DEF NoteInv, RunInv, Apart, RunTypes, Runs
<1>1. CASE live' \subseteq live /\ UNCHANGED <<program, task>>
  BY <1>0, <1>1 DEF Covered
<1>2. ASSUME NEW p \in Program, NEW c \in RunCalls,
             \A f \in p.nodes : c.module = NoModule /\ f \in c.functions,
             \A m, f : <<m, f>> \in p.bound => c.module = m /\ f \in c.functions
      PROVE  /\ \A x : Graft(x, p, c) => Goal
             /\ \A r \in live : Respawn(r, p, c) => Goal
  <2>1. Started(c) \in TaskRun /\ Started(c).calls = c /\ ~Started(c).interrupted
    BY <1>2 DEF Started, TaskRun
  <2>2. ASSUME NEW x, Graft(x, p, c)
        PROVE  Goal
    <3> PICK n : n = made + 1
      OBVIOUS
    <3>1. /\ n \in Runs /\ live' = live \cup {n} /\ n \notin live
          /\ program' = [program EXCEPT ![n] = p]
          /\ task' = Put(task, n, Started(c))
      BY <1>0, <2>2 DEF Graft, Runs
    <3>2. /\ DOMAIN task' = DOMAIN task \cup {n} /\ task'[n] = Started(c)
          /\ \A r \in DOMAIN task : r # n => task'[r] = task[r]
          /\ task' \in [DOMAIN task' -> TaskRun]
      BY <1>0, <2>1, <3>1 DEF Put
    <3>3. /\ program' \in [Runs -> Program] /\ program'[n] = p
          /\ \A r \in Runs : r # n => program'[r] = program[r]
      BY <1>0, <3>1
    <3>4. Covered(n)'
      BY <1>2, <2>1, <3>2, <3>3 DEF Covered
    <3>5. ASSUME NEW r \in live, r \in DOMAIN task'  PROVE Covered(r)'
      <4>1. r # n /\ r \in DOMAIN task /\ r \in Runs
        BY <1>0, <3>1, <3>2, <3>5
      <4> QED BY <1>0, <3>2, <3>3, <4>1, CoverKept
    <3> QED BY <3>1, <3>2, <3>3, <3>4, <3>5
  <2>3. ASSUME NEW r \in live, Respawn(r, p, c)
        PROVE  Goal
    <3>1. /\ r \in Runs /\ live' = live /\ program' = [program EXCEPT ![r] = p]
          /\ task' = IF r \in DOMAIN task THEN [task EXCEPT ![r].calls = c]
                                          ELSE Put(task, r, Started(c))
      BY <1>0, <2>3 DEF Respawn
    <3>2. /\ DOMAIN task' = DOMAIN task \cup {r} /\ task'[r].calls = c /\ ~task'[r].interrupted
          /\ \A q \in DOMAIN task : q # r => task'[q] = task[q]
          /\ task' \in [DOMAIN task' -> TaskRun]
      <4>1. CASE r \in DOMAIN task
        <5>1. ~task[r].interrupted /\ task[r] \in TaskRun
          BY <1>0, <4>1 DEF Covered
        <5> PICK t : t = [task[r] EXCEPT !.calls = c]
          OBVIOUS
        <5>2. t \in TaskRun /\ t.calls = c /\ ~t.interrupted
          BY <1>2, <5>1 DEF TaskRun
        <5>3. task' = [task EXCEPT ![r] = t]
          BY <3>1, <4>1
        <5> QED BY <1>0, <4>1, <5>2, <5>3
      <4>2. CASE r \notin DOMAIN task
        BY <1>0, <2>1, <3>1, <4>2 DEF Put
      <4> QED BY <4>1, <4>2
    <3>3. /\ program' \in [Runs -> Program] /\ program'[r] = p
          /\ \A q \in Runs : q # r => program'[q] = program[q]
      BY <1>0, <3>1
    <3>4. Covered(r)'
      BY <1>2, <3>2, <3>3 DEF Covered
    <3>5. ASSUME NEW q \in live, q \in DOMAIN task', q # r  PROVE Covered(q)'
      <4>1. q \in DOMAIN task /\ q \in Runs
        BY <1>0, <3>2, <3>5
      <4> QED BY <1>0, <3>2, <3>3, <3>5, <4>1, CoverKept
    <3> QED BY <3>1, <3>2, <3>3, <3>4, <3>5
  <2> QED BY <2>2, <2>3
<1>3. CASE o.op = "spawn" /\ Spawn(o.module, o.function)
  <2>1. o.module \in Modules /\ o.function \in Functions
    BY <1>3 DEF Ops
  <2> DEFINE p == [nodes |-> {}, bound |-> {<<o.module, o.function>>}]
             c == [module |-> o.module, functions |-> {o.function}]
  <2>2. /\ p \in Program /\ c \in RunCalls /\ p.nodes = {}
        /\ \A m, f : <<m, f>> \in p.bound => c.module = m /\ f \in c.functions
    BY <2>1 DEF Program, RunCalls
  <2>3. Graft(NoRoot, p, c)
    BY <1>3 DEF Spawn
  <2> HIDE DEF p, c
  <2> QED BY <1>2, <2>2, <2>3
<1>4. CASE o.op = "graph" /\ SpawnGraph(o.root, o.program)
  <2> PICK p : p = o.program
    OBVIOUS
  <2>1. p \in Programs
    BY <1>4 DEF Ops
  <2> DEFINE c == [module |-> NoModule, functions |-> p.nodes]
  <2>2. /\ p \in Program /\ c \in RunCalls /\ p.bound = {}
        /\ \A f \in p.nodes : c.module = NoModule /\ f \in c.functions
    BY <2>1 DEF Program, RunCalls
  <2>3. Graft(o.root, p, c) \/ \E r \in live : Respawn(r, p, c)
    BY <1>4 DEF SpawnGraph
  <2> HIDE DEF c
  <2> QED BY <1>2, <2>2, <2>3
<1>5. CASE o.op = "halt" /\ Halt(o.run)
  <2> PICK r : r = o.run
    OBVIOUS
  <2>1. /\ live' \subseteq live /\ program' = program
        /\ \/ task' = task
           \/ r \in DOMAIN task /\ task' = [task EXCEPT ![r].halted = TRUE]
    BY <1>5 DEF Halt, HaltAll
  <2>2. CASE task' = task
    BY <1>1, <2>1, <2>2
  <2>3. CASE r \in DOMAIN task /\ task' = [task EXCEPT ![r].halted = TRUE]
    <3> PICK t : t = [task[r] EXCEPT !.halted = TRUE]
      OBVIOUS
    <3>1. task[r] \in TaskRun
      BY <1>0, <2>3
    <3>2. t \in TaskRun /\ t.calls = task[r].calls /\ t.interrupted = task[r].interrupted
      BY <3>1 DEF TaskRun
    <3>3. task' = [task EXCEPT ![r] = t]
      BY <2>1, <2>3
    <3>4. /\ DOMAIN task' = DOMAIN task /\ task' \in [DOMAIN task' -> TaskRun]
          /\ \A q \in DOMAIN task : task'[q].calls = task[q].calls
                                    /\ task'[q].interrupted = task[q].interrupted
      BY <1>0, <3>2, <3>3
    <3>5. ASSUME NEW q \in live', q \in DOMAIN task'  PROVE Covered(q)'
      BY <1>0, <2>1, <3>4, <3>5, CoverKept
    <3> QED BY <1>0, <2>1, <3>4, <3>5
  <2> QED BY <2>1, <2>2, <2>3
<1>6. CASE o.op = "edit" /\ Edit(o.run, o.program)
  <2> PICK r, p : r = o.run /\ p = o.program
    OBVIOUS
  <2>1. p \in Edits /\ r \in live /\ Edit(r, p)
    BY <1>6 DEF Ops, Edit
  <2>2. /\ r \in Runs /\ live' = live /\ task' = task /\ program' = [program EXCEPT ![r] = p]
        /\ p \in Program
    BY <1>0, <2>1 DEF Edit
  <2>3. p.nodes \subseteq program[r].nodes /\ p.bound \subseteq program[r].bound
    BY <2>1, <2>2 DEF EditsAddNoCall
  <2>4. /\ program' \in [Runs -> Program] /\ program'[r] = p
        /\ \A q \in Runs : q # r => program'[q] = program[q]
    BY <1>0, <2>2
  <2>5. r \in DOMAIN task => Covered(r)'
    BY <1>0, <2>1, <2>2, <2>3, <2>4 DEF Covered
  <2>6. ASSUME NEW q \in live, q # r, q \in DOMAIN task  PROVE Covered(q)'
    BY <1>0, <2>2, <2>4, <2>6, CoverKept
  <2> QED BY <1>0, <2>2, <2>4, <2>5, <2>6
<1>7. CASE o.op = "load" /\ Load(o.main)
  BY <1>1, <1>7 DEF Load
<1>8. CASE o.op = "trace" /\ StartTrace
  <2>1. /\ made + 1 \notin live /\ live' = live /\ program' = program
        /\ task' = Put(task, made + 1, Started(NoCalls))
    BY <1>0, <1>8 DEF StartTrace, graphVars
  <2>2. Started(NoCalls) \in TaskRun
    BY DEF Started, NoCalls, TaskRun, RunCalls
  <2>3. /\ DOMAIN task' = DOMAIN task \cup {made + 1}
        /\ \A r \in DOMAIN task : r # made + 1 => task'[r] = task[r]
        /\ task' \in [DOMAIN task' -> TaskRun]
    BY <1>0, <2>1, <2>2 DEF Put
  <2>4. ASSUME NEW r \in live, r \in DOMAIN task'  PROVE Covered(r)'
    <3>1. r # made + 1 /\ r \in DOMAIN task
      BY <2>1, <2>3, <2>4
    <3> QED BY <1>0, <2>1, <2>3, <3>1, CoverKept
  <2> QED BY <1>0, <2>1, <2>3, <2>4
<1>9. CASE Refuse
  BY <1>1, <1>9 DEF Refuse
<1>10. CASE UNCHANGED <<graphVars, halted, traceVars, made, task>>
  BY <1>1, <1>10 DEF graphVars
<1> QED BY <1>3, <1>4, <1>5, <1>6, <1>7, <1>8, <1>9, <1>10 DEF Perform

\* A module that changes halts the runs noted as calling it, which are live no
\* more; the notes of the others stay (interrupt).
LEMMA InterruptNotes ==
    ASSUME NoteInv, NEW m, NEW E, Interrupt(m, E)
    PROVE  NoteInv' /\ live' = live \ Callers(m, E)
<1> PICK hit : hit = Callers(m, E)
  OBVIOUS
<1>0. PICK R : HaltAll(hit, R) /\ task' = Noted(hit \ R)
  BY DEF Interrupt
<1>1. /\ live' = live \ hit /\ program' = program
      /\ task' = [r \in DOMAIN task |->
                    IF r \in hit \ R THEN [task[r] EXCEPT !.halted = TRUE, !.interrupted = TRUE]
                    ELSE task[r]]
  BY <1>0 DEF HaltAll, Noted
<1>2. /\ task \in [DOMAIN task -> TaskRun] /\ program \in [Runs -> Program]
      /\ \A r \in live : r \in DOMAIN task => Covered(r)
  BY DEF NoteInv
<1>3. ASSUME NEW r \in DOMAIN task
      PROVE  [task[r] EXCEPT !.halted = TRUE, !.interrupted = TRUE] \in TaskRun
  BY <1>2 DEF TaskRun
<1>4. /\ DOMAIN task' = DOMAIN task /\ task' \in [DOMAIN task' -> TaskRun]
      /\ \A r \in DOMAIN task \ hit : task'[r] = task[r]
  BY <1>1, <1>2, <1>3
<1>5. ASSUME NEW r \in live', r \in DOMAIN task'  PROVE Covered(r)'
  <2>1. r \in live /\ r \in DOMAIN task \ hit
    BY <1>1, <1>4, <1>5
  <2> QED BY <1>1, <1>2, <1>4, <2>1, CoverKept
<1> QED BY <1>1, <1>2, <1>4, <1>5 DEF NoteInv

\* The device's notes stay true, where an edit brings no call.
LEMMA NextNotes ==
    ASSUME \A p \in Programs : p.bound = {}, RunInv, QueueInv, NoteInv,
           [Next]_vars, [EditsAddNoCall]_vars
    PROVE  NoteInv'
<1>1. /\ task \in [DOMAIN task -> TaskRun] /\ program \in [Runs -> Program]
      /\ \A r \in live : r \in DOMAIN task => Covered(r)
  BY DEF NoteInv
<1>2. ASSUME live' \subseteq live, UNCHANGED <<program, task>>  PROVE NoteInv'
  BY <1>1, <1>2 DEF NoteInv, Covered
<1>3. CASE UNCHANGED vars
  BY <1>2, <1>3 DEF vars
<1>4. CASE BeginStep \/ BeginTick \/ TickMain \/ TickRun \/ EndTick
           \/ (\E o \in Ops : Send(o)) \/ \E h \in Headers : LoadModule(h)
  <2>1. live' \subseteq live /\ UNCHANGED <<program, task>>
    BY <1>4 DEF BeginStep, BeginTick, TickMain, TickRun, EndTick, Sweep, Send, LoadModule,
                graphVars
  <2> QED BY <1>2, <2>1
<1>5. ASSUME NEW o \in Ops, Perform(o), ~UNCHANGED vars  PROVE NoteInv'
  <2>1. EditsAddNoCall
    BY <1>5
  <2> QED BY <1>5, <2>1, PerformNotes DEF NoteInv
<1>6. CASE ApplyCommand
  <2>1. /\ Perform(Head(pending).o) /\ pending # <<>> /\ pending' = Tail(pending)
    BY <1>6 DEF ApplyCommand
  <2>2. Head(pending) \in Command /\ Tail(pending) # pending
    BY <2>1 DEF QueueInv
  <2>3. Head(pending).o \in Ops
    BY <2>2 DEF Command
  <2>4. ~UNCHANGED vars
    BY <2>1, <2>2 DEF vars
  <2> QED BY <1>5, <2>1, <2>3, <2>4
<1>7. ASSUME NEW o \in Ops, HostCall(o)  PROVE NoteInv'
  BY <1>3, <1>5, <1>7 DEF HostCall
<1>8. CASE ReportTaskRuns
  <2>1. /\ task' = [r \in {x \in DOMAIN task : ~Ending(x)} |-> task[r]]
        /\ live' = live /\ program' = program
    BY <1>8 DEF ReportTaskRuns, graphVars
  <2>2. /\ DOMAIN task' \subseteq DOMAIN task /\ \A r \in DOMAIN task' : task'[r] = task[r]
        /\ task' \in [DOMAIN task' -> TaskRun]
    BY <1>1, <2>1
  <2>3. ASSUME NEW r \in live, r \in DOMAIN task'  PROVE Covered(r)'
    BY <1>1, <2>1, <2>2, <2>3, CoverKept
  <2> QED BY <1>1, <2>1, <2>2, <2>3 DEF NoteInv
<1>9. ASSUME NEW h \in Headers, ReloadModule(h)  PROVE NoteInv'
  BY <1>9, InterruptNotes DEF ReloadModule
<1>10. ASSUME NEW m \in Modules, UnloadModule(m)  PROVE NoteInv'
  BY <1>10, InterruptNotes DEF UnloadModule
<1> QED BY <1>3, <1>4, <1>6, <1>7, <1>8, <1>9, <1>10 DEF Next, Step

\* A run that calls a module is noted as one of its callers, and so does not
\* outlive a change of it.
LEMMA ChangeHalts ==
    ASSUME ~MayRefuse, RunInv, OutcomeInv, QueueInv, NoteInv, RunInv', [Next]_vars,
           NEW m \in DOMAIN exports, epoch'[m] # epoch[m],
           NEW r \in live \cup lost, Reaches(program[r], m, exports[m])
    PROVE  r \notin live' \cup lost'
<1>0. lost = {} /\ lost' = {} /\ r \in live
  BY DEF RunInv, NoneLost
<1>1. epoch \in [Modules -> 0 .. MaxChanges] /\ m \in Modules
  BY DEF QueueInv
<1>2. pc = "idle" /\ Interrupt(m, exports[m])
  <2>1. ASSUME NEW h \in Headers, LoadModule(h)  PROVE FALSE
    <3>1. h.id \in Modules /\ h.id # m /\ epoch' = [epoch EXCEPT ![h.id] = epoch[h.id] + 1]
      BY <2>1 DEF LoadModule, Changed
    <3> QED BY <1>1, <3>1
  <2>2. ASSUME NEW h \in Headers, ReloadModule(h)
        PROVE  pc = "idle" /\ Interrupt(m, exports[m])
    <3>1. /\ pc = "idle" /\ Interrupt(h.id, exports[h.id]) /\ h.id \in Modules
          /\ epoch' = [epoch EXCEPT ![h.id] = epoch[h.id] + 1]
      BY <2>2 DEF ReloadModule, Changed
    <3>2. h.id = m
      BY <1>1, <3>1
    <3> QED BY <3>1, <3>2
  <2>3. ASSUME NEW n \in Modules, UnloadModule(n)
        PROVE  pc = "idle" /\ Interrupt(m, exports[m])
    <3>1. /\ pc = "idle" /\ Interrupt(n, exports[n])
          /\ epoch' = [epoch EXCEPT ![n] = epoch[n] + 1]
      BY <2>3 DEF UnloadModule, Changed
    <3>2. n = m
      BY <1>1, <3>1
    <3> QED BY <3>1, <3>2
  <2>4. CASE Step \/ (\E o \in Ops : Send(o) \/ HostCall(o)) \/ UNCHANGED vars
    <3>1. epoch' = epoch
      BY <2>4 DEF Step, BeginStep, ApplyCommand, BeginTick, TickMain, TickRun, EndTick,
                  ReportTaskRuns, Send, HostCall, moduleVars, vars
    <3> QED BY <3>1
  <2> QED BY <2>1, <2>2, <2>3, <2>4 DEF Next
<1>3. r \in DOMAIN task
  BY <1>0, <1>2 DEF OutcomeInv, RunInv, LatchAgrees, RunsFollowed
<1>4. Covered(r)
  BY <1>0, <1>3 DEF NoteInv
<1>5. PICK f \in exports[m] : f \in program[r].nodes \/ <<m, f>> \in program[r].bound
  BY DEF Reaches
<1>6. /\ ~task[r].interrupted /\ task[r].calls.module \in {m, NoModule}
      /\ f \in task[r].calls.functions
  BY <1>4, <1>5 DEF Covered
<1>7. r \in Callers(m, exports[m])
  BY <1>3, <1>5, <1>6 DEF Callers
<1> QED BY <1>0, <1>2, <1>7, InterruptNotes

-----------------------------------------------------------------------------
(* The theorems.                                                             *)

\* The device follows every run that may still call a module, whatever fails,
\* and a run's latch agrees with its status (report_task_runs, spawn, halt).
THEOREM RunInvariant == Spec => []RunInv
<1>1. RunInv /\ [Next]_vars => RunInv'
  BY NextKeeps
<1> QED
  BY InitHolds, <1>1, PTL DEF Spec

\* No run that may still call a module escapes the device, whatever fails
\* (report_task_runs, spawn, halt).
THEOREM NoneEscapes == Spec => []RunsFollowed
<1>1. RunInv => RunsFollowed
  BY DEF RunInv
<1> QED
  BY RunInvariant, <1>1, PTL

\* Where no run's tick ends in an error, a live run between ticks is one that
\* runs, so that a spawn of its graph answers the run of it (spawn_graph).
THEOREM TakenOverRunsRun ==
    ASSUME "error" \notin Outcomes
    PROVE  Spec => []LiveRunsRun
<1>1. (RunInv /\ OutcomeInv) /\ [Next]_vars => (RunInv /\ OutcomeInv)'
  BY NextKeeps
<1>2. OutcomeInv => LiveRunsRun
  BY DEF OutcomeInv, LiveRunsRun
<1> QED
  BY InitHolds, <1>1, <1>2, PTL DEF Spec

\* And an outcome once published stands (tick, halt, the run-status decorator).
THEOREM OutcomesStand ==
    ASSUME "error" \notin Outcomes
    PROVE  Spec => OutcomeStands
<1>1. (RunInv /\ OutcomeInv) /\ [Next]_vars => (RunInv /\ OutcomeInv)'
  BY NextKeeps
<1>2. RunInv /\ OutcomeInv /\ [Next]_vars =>
         [\A r \in Runs : Ending(r) => status'[r] = status[r]]_vars
  BY NextKeeps
<1> QED
  BY InitHolds, <1>1, <1>2, PTL DEF Spec, OutcomeStands

\* However loads, reloads and unloads follow one another, a function id is one
\* module's (check_function_ids).
THEOREM FunctionsHaveOneOwner == Spec => []OneOwner
<1>1. Init => OneOwner
  BY DEF Init, OneOwner
<1>2. OneOwner /\ [Next]_vars => OneOwner'
  BY OwnersKept
<1> QED
  BY <1>1, <1>2, PTL DEF Spec

\* Where graphs bind no calls, no command waits that was sent to a module which
\* has changed since: a call or a request to start a run fails with the change,
\* wherever it was queued (Arora::interrupt).
THEOREM NoCommandOutlivesItsModule ==
    ASSUME \A p \in Programs : p.bound = {}
    PROVE  Spec => []NoStaleCommand
<1>1. Init => QueueInv
  BY DEF Init, QueueInv
<1>2. QueueInv /\ [Next]_vars => QueueInv'
  BY NextQueues
<1>3. QueueInv => NoStaleCommand
  <2> SUFFICES ASSUME QueueInv, NEW c \in Range(inbound) \cup Range(pending),
                      NEW m \in DOMAIN c.since
               PROVE  c.since[m] = epoch[m]
    BY DEF NoStaleCommand
  <2>1. \/ \E i \in 1 .. Len(inbound) : c = inbound[i]
        \/ \E i \in 1 .. Len(pending) : c = pending[i]
    BY DEF Range, QueueInv
  <2> QED BY <2>1 DEF QueueInv, Fresh
<1> QED
  BY <1>1, <1>2, <1>3, PTL DEF Spec

\* Where graphs bind no calls, edits bring none, no run's tick ends in an error
\* and the graph lets every fragment leave, a run whose program calls a module does not outlive a change of the
\* module, though others took it over in between (Arora::interrupt, respawn).
THEOREM ChangesHaltCallers ==
    ASSUME "error" \notin Outcomes, ~MayRefuse, \A p \in Programs : p.bound = {}
    PROVE  Spec /\ [][EditsAddNoCall]_vars => CallersHalted
<1>1. Init => RunInv /\ OutcomeInv /\ QueueInv /\ NoteInv
  <2>1. Init => QueueInv
    BY DEF Init, QueueInv
  <2>2. NoProgram \in Program
    BY DEF NoProgram, Program
  <2>3. Init => NoteInv
    BY <2>2 DEF Init, NoteInv
  <2> QED BY InitHolds, <2>1, <2>3
<1>2. (RunInv /\ OutcomeInv) /\ [Next]_vars => (RunInv /\ OutcomeInv)'
  BY NextKeeps
<1>3. QueueInv /\ [Next]_vars => QueueInv'
  BY NextQueues
<1>4. RunInv /\ QueueInv /\ NoteInv /\ [Next]_vars /\ [EditsAddNoCall]_vars => NoteInv'
  BY NextNotes
<1>5. RunInv /\ OutcomeInv /\ QueueInv /\ NoteInv /\ [Next]_vars =>
         [\A m \in DOMAIN exports : epoch'[m] # epoch[m] =>
             \A r \in live \cup lost : Reaches(program[r], m, exports[m]) =>
                r \notin live' \cup lost']_vars
  BY ChangeHalts, NextKeeps
<1> QED
  BY <1>1, <1>2, <1>3, <1>4, <1>5, PTL DEF Spec, CallersHalted
=============================================================================
