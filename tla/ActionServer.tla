---------------------------- MODULE ActionServer ----------------------------
(***************************************************************************)
(* One ROS 2 action of the bridge: the task that serves it (action_task),  *)
(* its book of goals (GoalBook), and the outboxes it writes through        *)
(* without ever waiting on a reader (Outbox).  The task takes one thing at *)
(* a time: a SendGoal, CancelGoal or GetResult request, or an item the     *)
(* node task sent it, in the order sent.  While it awaits the device's     *)
(* answer to a spawn or a stop it takes nothing, and the device's runs and *)
(* the node task go on.                                                    *)
(*                                                                         *)
(* A run is numbered in the order spawned, and its number is the stamp of  *)
(* the goal accepted for it.  What a run writes reaches the task as a      *)
(* change: the pairs of a run and what it wrote since the last one.        *)
(***************************************************************************)
EXTENDS Naturals, Sequences, FiniteSets, Functions

CONSTANTS
    Goals,       \* goal ids
    NoGoal,      \* no goal id: the zero id of a cancel, a malformed goal
    Requests,    \* GetResult requests
    Priority,    \* the priority each goal of a bound action states
    Wires,       \* the wires the action may have
    RunWriteSets, \* what a run may write in a device step
    Capacity,    \* how many ended goals the book keeps
    MaxRuns,     \* bound on the runs spawned
    MaxWatch     \* bound on the items the node task is ahead

\* What a run may write: on its feedback, its result and its status key.
Writes == {"feedback", "result", "success", "failure"}

ASSUME ConstantsAssumption ==
    /\ IsFiniteSet(Goals) /\ NoGoal \notin Goals
    /\ Priority \in [Goals -> Nat]
    /\ RunWriteSets \subseteq SUBSET Writes
    /\ Wires \subseteq {"synthesised", "bound"}
    /\ Capacity \in Nat /\ MaxRuns \in Nat /\ MaxWatch \in Nat

VARIABLES
    wire,      \* the action's wire: a bound one serves one goal at a time
    pc,        \* what the task is doing
    hand,      \* the goal request it is handling, and what was unread when it came
    todo,      \* the goals whose stop call it has yet to make
    book,      \* GoalBook.goals
    finished,  \* GoalBook.finished: the ended goals, oldest first
    asked,     \* the goal each GetResult request asks about
    reply,     \* what each request is answered, once that is decided
    box,       \* the feedback and the replies the outboxes hold
    told,      \* the newest status array offered, written or held
    watch,     \* what the node task sent and the task has not taken
    closed,    \* the node task retired the action
    seam,      \* what the runs wrote and the node task has not forwarded
    runs       \* the device's runs

taskVars == <<pc, hand, todo, book, finished, asked, reply, box, told>>
vars == <<wire, taskVars, watch, closed, seam, runs>>

Live == {"executing", "canceling"}
Outcomes == {"succeeded", "canceled", "aborted"}
RunIds == 1 .. MaxRuns

NoEntry == [status |-> "none", cause |-> "none", run |-> 0, result |-> FALSE]
NoMessages == [feedback |-> {}, results |-> {}]
NoHand == [goal |-> NoGoal, unread |-> 0, late |-> FALSE, run |-> 0]

Entry == [status : {"none"} \cup Live \cup Outcomes, cause : {"none", "cancel", "preempt"},
          run : 0 .. MaxRuns, result : BOOLEAN]

Known(g) == book[g].status # "none"
Ongoing(g) == book[g].status \in Live
Statuses(b) == [g \in Goals |-> b[g].status]

\* GetResult requests no reply is decided for yet (pending_results).
Waiting == {q \in Requests : asked[q] # NoGoal /\ reply[q] = "none"}

Change(C) == [kind |-> "change", change |-> C]
Resolved == [kind |-> "resolved"]

Init ==
    /\ wire \in Wires
    /\ pc = "idle" /\ hand = NoHand /\ todo = {}
    /\ book = [g \in Goals |-> NoEntry]
    /\ finished = <<>>
    /\ asked = [q \in Requests |-> NoGoal]
    /\ reply = [q \in Requests |-> "none"]
    /\ box = NoMessages
    /\ told = [g \in Goals |-> "none"]
    /\ closed = FALSE /\ watch = <<>> /\ seam = {} /\ runs = <<>>

-----------------------------------------------------------------------------
(* The book and the outboxes.                                              *)

\* A flush writes what the readers' windows take and keeps the rest.  A write
\* that fails is dropped, which to the task is as if it were written.
Flush(b) ==
    box' \in [feedback : SUBSET b.feedback, results : SUBSET b.results]

\* The requests whose goal has ended in book b, or is not in it.
Ready(b, waiting) == {q \in waiting : b[asked[q]].status \notin Live}

\* What the requests of a goal are answered.  A reply that cannot be built or does
\* not encode is logged and dropped: the request is then done with, as if the
\* flush that follows had written it.
\* Mutant: a reply is built from the book as it was before the change.
ReplyStale(b, q) == IF book[asked[q]].status \in Outcomes THEN book[asked[q]].status ELSE "unknown"
Reply(b, q) == IF b[asked[q]].status = "none" THEN "unknown" ELSE b[asked[q]].status

Answer(b, Q) == reply' = [q \in Requests |-> IF q \in Q THEN Reply(b, q) ELSE reply[q]]

\* The goal that owns a bound action's run.
Active == {g \in Goals : Ongoing(g) /\ book[g].cause = "none"}

\* Mutant: the result of a run is taken only with the change that precedes its end.
ObservedEndOnly(g, C) ==
    LET r == book[g].run
        ended == {<<r, "success">>, <<r, "failure">>} \cap C # {}
    IN  [book[g] EXCEPT
           !.result = @ \/ (<<r, "result">> \in C /\ ~ended),
           !.status = IF <<r, "success">> \in C THEN "succeeded"
                      ELSE IF <<r, "failure">> \in C
                           THEN IF book[g].cause = "cancel" THEN "canceled" ELSE "aborted"
                           ELSE @]
Observed(g, C) ==
    LET r == book[g].run
    IN  [book[g] EXCEPT
           !.result = @ \/ <<r, "result">> \in C,
           !.status = IF <<r, "success">> \in C THEN "succeeded"
                      ELSE IF <<r, "failure">> \in C
                           THEN IF book[g].cause = "cancel" THEN "canceled" ELSE "aborted"
                           ELSE @]

\* The goals that change C ends, and the ones it brings feedback of.
Ending(C) == {g \in Goals : Ongoing(g) /\ Observed(g, C).status \in Outcomes}
Fed(C) == {g \in Goals : Ongoing(g) /\ <<book[g].run, "feedback">> \in C}

\* How many of the ended goals are over the capacity of the result cache.
Excess(ended) == IF Len(ended) > Capacity THEN Len(ended) - Capacity ELSE 0

\* The book after the change: goals advance, and the oldest ended ones beyond
\* the capacity are forgotten.  The goals a change ends are recorded in any order.
Observe(C) ==
    \E order \in Bijection(1 .. Cardinality(Ending(C)), Ending(C)) :
       LET ended == finished \o order
           evicted == {ended[i] : i \in 1 .. Excess(ended)}
       IN  /\ finished' = SubSeq(ended, Excess(ended) + 1, Len(ended))
           /\ book' = [g \in Goals |-> IF g \in evicted THEN NoEntry
                                       ELSE IF Ongoing(g) THEN Observed(g, C) ELSE book[g]]

\* Mutant: the feedback held for an ended goal is not dropped.
KeptFeedbackAll(C) == box.feedback \cup Fed(C)
\* A goal's outcome supersedes its feedback: what is still held is dropped.
KeptFeedback(C) == (box.feedback \cup Fed(C)) \ Ending(C)

\* Mutant: an ended goal's status is not offered.
ObserveChangeSilent(C) ==
    /\ Observe(C)
    /\ Answer(book', IF Ending(C) = {} THEN {} ELSE Ready(book', Waiting))
    /\ UNCHANGED told
    /\ Flush([feedback |-> KeptFeedback(C),
              results |-> box.results \cup (IF Ending(C) = {} THEN {} ELSE Ready(book', Waiting))])
\* Mutant: the requests that wait on an ended goal are left waiting.
ObserveChangeUnanswered(C) ==
    /\ Observe(C)
    /\ told' = IF Ending(C) = {} THEN told ELSE Statuses(book')
    /\ UNCHANGED reply
    /\ Flush([box EXCEPT !.feedback = KeptFeedback(C)])
ObserveChange(C) ==
    /\ Observe(C)
    /\ IF Fed(C) \cup Ending(C) = {}
       THEN UNCHANGED <<reply, told, box>>
       ELSE LET ready == IF Ending(C) = {} THEN {} ELSE Ready(book', Waiting)
            IN  /\ Answer(book', ready)
                /\ told' = IF Ending(C) = {} THEN told ELSE Statuses(book')
                /\ Flush([feedback |-> KeptFeedback(C), results |-> box.results \cup ready])

-----------------------------------------------------------------------------
(* The task.                                                               *)

\* Mutant: the drain for a goal discards what it reads.
TakeWatchedDiscard ==
    /\ pc \in {"idle", "draining"} /\ watch # <<>>
    /\ watch' = Tail(watch)
    /\ \/ /\ Head(watch).kind = "change" /\ pc = "idle"
          /\ ObserveChange(Head(watch).change)
       \/ /\ Head(watch).kind = "resolved" \/ pc = "draining"
          /\ UNCHANGED <<book, finished, reply, box, told>>
    /\ hand' = [hand EXCEPT !.unread = IF @ = 0 THEN 0 ELSE @ - 1]
    /\ UNCHANGED <<wire, pc, todo, asked, closed, seam, runs>>
\* It takes the next item the node task sent, in its select or while it
\* drains them for the goal in hand.
TakeWatched ==
    /\ pc \in {"idle", "draining"} /\ watch # <<>>
    /\ watch' = Tail(watch)
    /\ \/ /\ Head(watch).kind = "change"
          /\ ObserveChange(Head(watch).change)
       \/ /\ Head(watch).kind = "resolved"
          /\ UNCHANGED <<book, finished, reply, box, told>>
    /\ hand' = [hand EXCEPT !.unread = IF @ = 0 THEN 0 ELSE @ - 1]
    /\ UNCHANGED <<wire, pc, todo, asked, closed, seam, runs>>

ReceiveGoal(g) ==
    /\ pc = "idle" /\ Len(runs) < MaxRuns
    /\ pc' = "draining"
    /\ hand' = [goal |-> g, unread |-> Len(watch), late |-> closed, run |-> 0]
    /\ UNCHANGED <<wire, todo, book, finished, asked, reply, box, told, watch, closed,
                   seam, runs>>

Reject ==
    /\ pc' = "idle" /\ hand' = NoHand
    /\ UNCHANGED <<todo, book>>

\* A bound action serves one goal at a time: one of equal or higher priority
\* replaces the active one.
Arbitrate ==
    IF wire = "bound" /\ Active # {}
    THEN \E g \in Active :
            IF Priority[hand.goal] >= Priority[g]
            THEN /\ book' = [book EXCEPT ![g].cause = "preempt"]
                 /\ todo' = {g} /\ pc' = "preempting"
                 /\ UNCHANGED hand
            ELSE Reject
    ELSE /\ pc' = "spawning"
         /\ UNCHANGED <<hand, todo, book>>

\* Mutant: the goal is handled with what the node task sent still unread.
HandleGoalUndrained ==
    /\ pc = "draining"
    /\ IF hand.goal = NoGoal THEN Reject ELSE Arbitrate
    /\ UNCHANGED <<wire, finished, asked, reply, box, told, watch, closed, seam, runs>>
\* Mutant: a replacement is spawned beside the active run.
HandleGoalBeside ==
    /\ pc = "draining" /\ watch = <<>> /\ ~closed
    /\ pc' = IF hand.goal = NoGoal THEN "idle" ELSE "spawning"
    /\ hand' = IF hand.goal = NoGoal THEN NoHand ELSE hand
    /\ UNCHANGED <<todo, book>>
    /\ UNCHANGED <<wire, finished, asked, reply, box, told, watch, closed, seam, runs>>
\* The goal in hand, once all that was sent before it is applied; an action
\* retired meanwhile takes none.  A request that does not decode has no goal.
HandleGoal ==
    /\ pc = "draining" /\ watch = <<>> /\ ~closed
    /\ IF hand.goal = NoGoal THEN Reject ELSE Arbitrate
    /\ UNCHANGED <<wire, finished, asked, reply, box, told, watch, closed, seam, runs>>

\* The device spawned the run of the goal in hand: the goal is accepted, unless
\* its id is one the book has.  The run is then nobody's.
Accept ==
    /\ pc = "spawned"
    /\ pc' = "idle" /\ hand' = NoHand
    /\ IF Known(hand.goal)
       THEN /\ runs' = [runs EXCEPT ![hand.run].loose = "stray"]
            /\ UNCHANGED <<book, told, box>>
       ELSE /\ book' = [book EXCEPT ![hand.goal] =
                          [NoEntry EXCEPT !.status = "executing", !.run = hand.run]]
            /\ told' = Statuses(book')
            /\ Flush(box)
            /\ UNCHANGED runs
    /\ UNCHANGED <<wire, todo, finished, asked, reply, watch, closed, seam>>

\* The goals a cancel selects: by id, by the stamp they were accepted at or
\* before, or all of them.
Selected(id, stamp) ==
    {g \in Goals :
       /\ book[g].status = "executing"
       /\ \/ id = NoGoal /\ stamp = 0
          \/ id = g
          \/ stamp # 0 /\ book[g].run <= stamp}

\* Mutant: a cancel takes no stop for the goals selected by their stamp.
ReceiveCancelById(id, stamp) ==
    /\ pc = "idle"
    /\ pc' = "stopping" /\ todo' = Selected(id, stamp) \cap {id}
    /\ book' = [g \in Goals |->
                  IF g \in Selected(id, stamp)
                  THEN [book[g] EXCEPT !.status = "canceling",
                                       !.cause = IF @ = "none" THEN "cancel" ELSE @]
                  ELSE book[g]]
    /\ UNCHANGED <<wire, hand, finished, asked, reply, box, told, watch, closed, seam, runs>>
ReceiveCancel(id, stamp) ==
    /\ pc = "idle"
    /\ pc' = "stopping" /\ todo' = Selected(id, stamp)
    /\ book' = [g \in Goals |->
                  IF g \in Selected(id, stamp)
                  THEN [book[g] EXCEPT !.status = "canceling",
                                       !.cause = IF @ = "none" THEN "cancel" ELSE @]
                  ELSE book[g]]
    /\ UNCHANGED <<wire, hand, finished, asked, reply, box, told, watch, closed, seam, runs>>

FinishCancel ==
    /\ pc = "stopping" /\ todo = {}
    /\ pc' = "idle"
    /\ told' = Statuses(book)
    /\ Flush(box)
    /\ UNCHANGED <<wire, hand, todo, book, finished, asked, reply, watch, closed, seam, runs>>

ReceiveResult(q, g) ==
    /\ pc = "idle" /\ asked[q] = NoGoal
    /\ asked' = [asked EXCEPT ![q] = g]
    /\ LET ready == {p \in Waiting \cup {q} : book[asked'[p]].status \notin Live}
       IN  /\ reply' = [p \in Requests |->
                          IF p \notin ready THEN reply[p]
                          ELSE IF ~Known(asked'[p]) THEN "unknown" ELSE book[asked'[p]].status]
           /\ Flush([box EXCEPT !.results = @ \cup ready])
    /\ UNCHANGED <<wire, pc, hand, todo, book, finished, told, watch, closed, seam, runs>>

\* An outbox whose window was full is tried again.
Retry ==
    /\ pc = "idle"
    /\ box # NoMessages
    /\ Flush(box)
    /\ UNCHANGED <<wire, pc, hand, todo, book, finished, asked, reply, told, watch, closed,
                   seam, runs>>

\* The task's book and outboxes end with it.
EndTask ==
    /\ pc' = "ended" /\ hand' = NoHand
    /\ book' = [g \in Goals |-> NoEntry] /\ finished' = <<>>
    /\ box' = NoMessages
    /\ watch' = <<>> /\ seam' = {}
    /\ UNCHANGED <<wire, todo, asked, reply, told, closed, runs>>

\* Mutant: only a goal that comes finds the channel closed.
EndOnGoal ==
    /\ pc = "draining" /\ closed /\ watch = <<>>
    /\ EndTask
\* It ends once it took all that was sent before its channel closed.
End ==
    /\ pc \in {"idle", "draining"} /\ closed /\ watch = <<>>
    /\ EndTask

\* Its endpoints stop receiving.
ReceiveFails ==
    /\ pc = "idle"
    /\ EndTask

-----------------------------------------------------------------------------
(* The device, as the task's calls and its runs' writes show it.           *)

\* What the runs write reaches the task until it ends or is retired.
Served == ~closed /\ pc # "ended"

NewRun(loose) == [state |-> "running", wrote |-> FALSE, loose |-> loose]

\* The device spawns the run of the goal in hand, or refuses.  A handle it answers
\* that is not one rejects the goal too, and the run goes on as nobody's.
Spawn ==
    /\ pc = "spawning"
    /\ \/ /\ runs' = Append(runs, NewRun("no"))
          /\ pc' = "spawned" /\ hand' = [hand EXCEPT !.run = Len(runs) + 1]
       \/ /\ runs' = Append(runs, NewRun("stray"))
          /\ pc' = "idle" /\ hand' = NoHand
       \/ /\ pc' = "idle" /\ hand' = NoHand
          /\ UNCHANGED runs
    /\ UNCHANGED <<wire, todo, book, finished, asked, reply, box, told, watch, closed, seam>>

\* A stop ends a running run with a failure, or fails and leaves it running.
Stop(g) ==
    /\ pc \in {"preempting", "stopping"} /\ g \in todo
    /\ LET r == book[g].run
       IN  IF runs[r].state # "running"
           THEN UNCHANGED <<seam, runs>>
           ELSE \/ /\ runs' = [runs EXCEPT ![r].state = "failure"]
                   /\ seam' = IF Served THEN seam \cup {<<r, "failure">>} ELSE seam
                \/ /\ runs' = [runs EXCEPT ![r].loose = "stuck"]
                   /\ UNCHANGED seam
    /\ todo' = todo \ {g}
    /\ pc' = IF pc = "preempting" THEN "spawning" ELSE pc
    /\ UNCHANGED <<wire, hand, book, finished, asked, reply, box, told, watch, closed>>

\* A device step in which a run writes (its result once: a bound).
RunWrites(r, W) ==
    /\ Served
    /\ r \in 1 .. Len(runs) /\ runs[r].state = "running"
    /\ "result" \in W => ~runs[r].wrote
    /\ runs' = [runs EXCEPT ![r].wrote = @ \/ "result" \in W,
                            ![r].state = IF "success" \in W THEN "success"
                                         ELSE IF "failure" \in W THEN "failure" ELSE @]
    /\ seam' = seam \cup {<<r, w>> : w \in W}
    /\ UNCHANGED <<wire, taskVars, watch, closed>>

-----------------------------------------------------------------------------
(* The node task.                                                          *)

\* What the seam merged since the last time.
Forward ==
    /\ Served /\ seam # {} /\ Len(watch) < MaxWatch
    /\ seam' = {}
    /\ watch' = Append(watch, Change(seam))
    /\ UNCHANGED <<wire, taskVars, closed, runs>>

Resolve ==
    /\ Served /\ Len(watch) < MaxWatch
    /\ watch' = Append(watch, Resolved)
    /\ UNCHANGED <<wire, taskVars, closed, seam, runs>>

Retire ==
    /\ Served
    /\ closed' = TRUE /\ seam' = {}
    /\ UNCHANGED <<wire, taskVars, watch, runs>>

-----------------------------------------------------------------------------
Next ==
    \/ TakeWatched
    \/ \E g \in Goals \cup {NoGoal} : ReceiveGoal(g)
    \/ HandleGoal \/ Accept
    \/ \E id \in Goals \cup {NoGoal}, stamp \in 0 .. Len(runs) : ReceiveCancel(id, stamp)
    \/ FinishCancel
    \/ \E q \in Requests, g \in Goals : ReceiveResult(q, g)
    \/ Retry \/ End \/ ReceiveFails
    \/ Spawn
    \/ \E g \in Goals : Stop(g)
    \/ \E r \in RunIds, W \in RunWriteSets : RunWrites(r, W)
    \/ Forward \/ Resolve \/ Retire

\* The select takes any branch that is ready time and again, a drain catches up
\* with the node task, the device answers its calls, and the readers acknowledge
\* in the end.
Fairness ==
    /\ SF_vars(TakeWatched) /\ SF_vars(End) /\ SF_vars(HandleGoal)
    /\ WF_vars(Accept) /\ WF_vars(FinishCancel)
    /\ WF_vars(Spawn) /\ \A g \in Goals : WF_vars(Stop(g))
    /\ SF_vars(Forward)
    /\ SF_vars(Retry /\ box' = NoMessages)

Spec == Init /\ [][Next]_vars
FairSpec == Spec /\ Fairness

-----------------------------------------------------------------------------
TypeOK ==
    /\ wire \in Wires
    /\ pc \in {"idle", "draining", "preempting", "spawning", "spawned", "stopping", "ended"}
    /\ hand \in [goal : Goals \cup {NoGoal}, unread : 0 .. MaxWatch,
                 late : BOOLEAN, run : 0 .. MaxRuns]
    /\ todo \in SUBSET Goals
    /\ book \in [Goals -> Entry]
    /\ finished \in Seq(Goals)
    /\ asked \in [Requests -> Goals \cup {NoGoal}]
    /\ reply \in [Requests -> {"none", "unknown"} \cup Outcomes]
    /\ box \in [feedback : SUBSET Goals, results : SUBSET Requests]
    /\ told \in [Goals -> {"none"} \cup Live \cup Outcomes]
    /\ closed \in BOOLEAN
    /\ watch \in Seq([kind : {"change"}, change : SUBSET (RunIds \X Writes)]
                       \cup [kind : {"resolved"}])
    /\ seam \in SUBSET (RunIds \X Writes)
    /\ runs \in Seq([state : {"running", "success", "failure"}, wrote : BOOLEAN,
                     loose : {"no", "stuck", "stray"}])

-----------------------------------------------------------------------------
(* What the action does right.                                             *)

\* The goals' life as ROS 2 clients see it is the one ActionGoals describes:
\* a goal executes from its acceptance, is canceling before it is canceled,
\* keeps the outcome its run ended in until the cache forgets it, and each
\* GetResult request is answered once, with the outcome or as unknown.
Abstract == INSTANCE ActionGoals WITH state <- Statuses(book)
ServesGoals == Abstract!Spec

\* A bound action has at most one run going, whatever comes while the task
\* awaits a preemption or a spawn (handle_goal), except runs whose stop failed
\* and runs of goals rejected once spawned, as duplicates or for their handle.
OneRunAtATime ==
    wire = "bound" =>
       \A r, s \in 1 .. Len(runs) :
          (\A t \in {r, s} : runs[t].state = "running" /\ runs[t].loose = "no") => r = s

\* No feedback of a goal is held to go out after its outcome, not even what a
\* full window refused before the run ended (observe_change).
NoLateFeedback == \A g \in box.feedback : Ongoing(g)

\* Between two requests the newest status array offered is the book's, evictions
\* included: no transition is left for the next one to tell (action_task).
StatusTold == pc \in {"idle", "draining"} => told = Statuses(book)

\* The outcome of a run that ended is never lost before its goal has it, also
\* when the run ends before the task learns it was spawned: it is in the seam
\* or among what the node task sent, until the action is retired.
OutcomeOnItsWay ==
    \A g \in Goals :
       Ongoing(g) /\ runs[book[g].run].state # "running" /\ ~closed /\ pc # "ended" =>
          LET outcome == <<book[g].run, runs[book[g].run].state>>
          IN  \/ outcome \in seam
              \/ \E i \in 1 .. Len(watch) : watch[i].kind = "change" /\ outcome \in watch[i].change

\* A goal marked halted is one whose run ended, is about to be stopped, or could
\* not be: none waits on a stop nobody makes (handle_goal, handle_cancel).
HaltedIsStopped ==
    \A g \in Goals :
       Ongoing(g) /\ book[g].cause # "none" =>
          \/ runs[book[g].run].state # "running"
          \/ g \in todo
          \/ runs[book[g].run].loose = "stuck"

\* An ended goal has its run's result exactly when the run wrote one, in an
\* earlier change or in the one that ended it (GoalBook::observe).
ResultsKept ==
    \A g \in Goals :
       book[g].status \in Outcomes => book[g].result = runs[book[g].run].wrote

\* A goal is spawned only once all the node task sent before it came is applied,
\* the function's last resolution included, and none that came after the
\* retirement is (action_task).
NoStaleSpawn ==
    pc \in {"preempting", "spawning", "spawned"} => hand.unread = 0 /\ ~hand.late

\* A goal that is preempted and then canceled still answers as preempted: the
\* first cause of its halt stays its cause (GoalBook::cancel).
FirstCauseStays ==
    [][\A g \in Goals :
         book[g].cause # "none" /\ book'[g].run = book[g].run => book'[g].cause = book[g].cause]_vars

\* A request for the result of a goal whose run ended is answered, and its reply
\* written, or dropped if it could not be built, encoded or delivered, unless the
\* action is retired or fails (offer_ready_results).
Due(q) ==
    /\ asked[q] # NoGoal /\ (reply[q] = "none" \/ q \in box.results)
    /\ Ongoing(asked[q]) => runs[book[asked[q]].run].state # "running"
Written(q) == reply[q] # "none" /\ q \notin box.results
ResultArrives == \A q \in Requests : Due(q) ~> (Written(q) \/ closed \/ pc = "ended")

\* A canceled goal does not stay canceling, unless its stop failed
\* (handle_cancel, then GoalBook::observe).
CancelTakesEffect ==
    \A g \in Goals :
       book[g].status = "canceling" ~>
          \/ book[g].status # "canceling" \/ closed \/ pc = "ended"
          \/ runs[book[g].run].loose = "stuck"

\* The task of a retired action ends, whatever goals are sent to it.
RetiredEnds == closed ~> pc = "ended"

=============================================================================
