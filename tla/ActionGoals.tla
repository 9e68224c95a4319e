----------------------------- MODULE ActionGoals -----------------------------
(***************************************************************************)
(* What a ROS 2 action promises its clients of their goals: each goes      *)
(* through the life cycle of the ROS 2 action interface, and a request for *)
(* its result is answered once, with the outcome it ended in, or as        *)
(* unknown when the action has no such goal.  ActionServer implements it.  *)
(***************************************************************************)
CONSTANTS
    Goals,     \* goal ids
    NoGoal,    \* no goal id
    Requests   \* GetResult requests

VARIABLES
    state,     \* each goal's status, "none" when the action has no such goal
    asked,     \* the goal each request asks about, once it is made
    reply      \* the status each request is answered with, once decided

vars == <<state, asked, reply>>

Live == {"executing", "canceling"}
Outcomes == {"succeeded", "canceled", "aborted"}

Init ==
    /\ state = [g \in Goals |-> "none"]
    /\ asked = [q \in Requests |-> NoGoal]
    /\ reply = [q \in Requests |-> "none"]

Accept(g) ==
    /\ state[g] = "none"
    /\ state' = [state EXCEPT ![g] = "executing"]
    /\ UNCHANGED <<asked, reply>>

\* A goal is canceling before it is canceled.
Cancel(S) ==
    /\ \A g \in S : state[g] = "executing"
    /\ state' = [g \in Goals |-> IF g \in S THEN "canceling" ELSE state[g]]
    /\ UNCHANGED <<asked, reply>>

\* From one status to the next, when the runs progress.  An outcome never
\* changes: the goal keeps it until it is forgotten.
Progress(from, to) ==
    \/ to = from
    \/ from = "executing" /\ to \in {"succeeded", "aborted"}
    \/ from = "canceling" /\ to \in Outcomes
    \/ from # "none" /\ to = "none"

Answer(A) ==
    /\ \A q \in A :
          /\ asked[q] # NoGoal /\ reply[q] = "none"
          /\ state'[asked[q]] \notin Live
    /\ reply' = [q \in Requests |->
                   IF q \notin A THEN reply[q]
                   ELSE IF state'[asked[q]] = "none" THEN "unknown" ELSE state'[asked[q]]]

Advance(A) ==
    /\ state' \in [Goals -> {"none"} \cup Live \cup Outcomes]
    /\ \A g \in Goals : Progress(state[g], state'[g])
    /\ UNCHANGED asked
    /\ Answer(A)

\* A request about a goal is answered at once when its outcome is known; so
\* may be the others that wait.
Ask(q, g) ==
    /\ asked[q] = NoGoal
    /\ asked' = [asked EXCEPT ![q] = g]
    /\ UNCHANGED state
    /\ reply' \in [Requests -> {"none", "unknown"} \cup Outcomes]
    /\ \A p \in Requests :
          \/ reply'[p] = reply[p]
          \/ /\ reply[p] = "none" /\ asked'[p] # NoGoal
             /\ \/ state[asked'[p]] = "none" /\ reply'[p] = "unknown"
                \/ state[asked'[p]] \in Outcomes /\ reply'[p] = state[asked'[p]]

Next ==
    \/ \E g \in Goals : Accept(g)
    \/ \E S \in SUBSET Goals : Cancel(S)
    \/ \E A \in SUBSET Requests : Advance(A)
    \/ \E q \in Requests, g \in Goals : Ask(q, g)

Spec == Init /\ [][Next]_vars
=============================================================================
