------------------------- MODULE ActionServerProofs -------------------------
(* Theorems about ActionServer, for any goals, requests and bounds.          *)
EXTENDS ActionServer, FiniteSetTheorems, TLAPS

-----------------------------------------------------------------------------
(* The inductive invariant.                                                  *)

\* Where the task stands: what it has in hand, and whom it has yet to stop.
Control ==
    /\ Len(runs) <= MaxRuns /\ Len(watch) <= MaxWatch
    /\ pc \in {"draining", "preempting", "spawning"} => Len(runs) < MaxRuns
    /\ pc \in {"preempting", "spawning", "spawned"} => hand.goal \in Goals
    /\ pc = "spawned" =>
          hand.run \in 1 .. Len(runs) /\ \A g \in Goals : Known(g) => book[g].run # hand.run
    /\ pc \notin {"preempting", "stopping"} => todo = {}
    /\ pc = "preempting" => \E g \in Goals : todo = {g}
    /\ \A g \in todo : Ongoing(g)

\* A goal of the book has a run; the ended ones not yet forgotten are each
\* recorded once, within the capacity; and a cancel is what leaves "executing".
BookOK ==
    /\ \A g \in Goals : Known(g) => book[g].run \in 1 .. Len(runs)
    /\ \A i \in 1 .. Len(finished) : book[finished[i]].status \in Outcomes
    /\ \A i, j \in 1 .. Len(finished) : finished[i] = finished[j] => i = j
    /\ Len(finished) <= Capacity
    /\ \A g \in Goals : book[g].status = "executing" => book[g].cause # "cancel"
    /\ \A g \in Goals : ~Known(g) => book[g].cause = "none"

\* Only a run that ended is reported ended.
Ended(C) ==
    \A p \in C : p[2] \in {"success", "failure"} =>
                    p[1] \in 1 .. Len(runs) /\ runs[p[1]].state # "running"
TrueReports ==
    /\ Ended(seam)
    /\ \A i \in 1 .. Len(watch) : watch[i].kind = "change" => Ended(watch[i].change)

\* A run that is going, and was neither left over nor failed to stop, is the one
\* just spawned, or a goal's that owns the action or is about to be stopped.
RunsOwned ==
    pc # "ended" =>
       \A r \in 1 .. Len(runs) :
          runs[r].state = "running" /\ runs[r].loose = "no" =>
             \/ pc = "spawned" /\ hand.run = r
             \/ \E g \in Goals : /\ Ongoing(g) /\ book[g].run = r
                                 /\ book[g].cause = "none" \/ g \in todo

\* One goal at most owns a bound action, and none while it spawns.
Vacated ==
    wire = "bound" =>
       /\ \A g, h \in Active : g = h
       /\ pc \in {"preempting", "spawning", "spawned"} => Active = {}

\* What was unread when the goal in hand came is read in the order sent.
Counted == pc = "draining" => hand.unread <= Len(watch) /\ (hand.late => closed)

\* The newest status array is the book's, but while a cancel is under way.
Told == pc \notin {"stopping", "ended"} => told = Statuses(book)

IInv ==
    /\ TypeOK /\ Control /\ BookOK /\ TrueReports
    /\ RunsOwned /\ Vacated /\ OneRunAtATime
    /\ NoLateFeedback /\ HaltedIsStopped /\ Counted /\ NoStaleSpawn /\ Told

-----------------------------------------------------------------------------
(* What observing a change does to the book.                                 *)

\* An ongoing goal that a change does not end keeps its status and its halt, one
\* that it ends gets an outcome its status and its halt allow.
LEMMA ObservedGoal ==
    ASSUME TypeOK, BookOK, NEW g \in Goals, Ongoing(g), NEW C
    PROVE  /\ Observed(g, C) \in Entry
           /\ Observed(g, C).cause = book[g].cause /\ Observed(g, C).run = book[g].run
           /\ g \notin Ending(C) => Observed(g, C).status = book[g].status
           /\ g \in Ending(C) => Observed(g, C).status \in Outcomes
           /\ g \in Ending(C) /\ book[g].status = "executing" =>
                 Observed(g, C).status \in {"succeeded", "aborted"}
           /\ g \in Ending(C) => \E w \in {"success", "failure"} : <<book[g].run, w>> \in C
<1>1. book[g] \in Entry
  BY DEF TypeOK
<1>2. CASE <<book[g].run, "success">> \in C
  BY <1>1, <1>2 DEF Observed, Ending, Entry, Ongoing, Live, Outcomes
<1>3. CASE <<book[g].run, "success">> \notin C /\ <<book[g].run, "failure">> \in C
  BY <1>1, <1>3 DEF Observed, Ending, Entry, Ongoing, Live, Outcomes, BookOK
<1>4. CASE <<book[g].run, "success">> \notin C /\ <<book[g].run, "failure">> \notin C
  BY <1>1, <1>4 DEF Observed, Ending, Entry, Ongoing, Live, Outcomes
<1> QED BY <1>2, <1>3, <1>4

\* Finitely many goals end at once.
LEMMA EndingFinite ==
    ASSUME NEW C
    PROVE  Cardinality(Ending(C)) \in Nat /\ (Ending(C) = {} => Cardinality(Ending(C)) = 0)
<1>1. Ending(C) \in SUBSET Goals
  BY DEF Ending
<1>2. IsFiniteSet(Ending(C))
  BY <1>1, FS_Subset, ConstantsAssumption
<1> QED BY <1>2, FS_CardinalityType, FS_EmptySet

\* The goals recorded as ended, those the change ends last: each once, and none
\* ongoing after it.
LEMMA EndedSequence ==
    ASSUME TypeOK, BookOK, NEW C,
           NEW order \in Bijection(1 .. Cardinality(Ending(C)), Ending(C))
    PROVE  LET ended == finished \o order
           IN  /\ ended \in Seq(Goals)
               /\ Len(ended) = Len(finished) + Cardinality(Ending(C))
               /\ \A i \in 1 .. Len(ended) :
                     book[ended[i]].status \in Outcomes \/ ended[i] \in Ending(C)
               /\ \A i, j \in 1 .. Len(ended) : ended[i] = ended[j] => i = j
               /\ \A g \in Ending(C) : \E i \in 1 .. Len(ended) : ended[i] = g
<1> DEFINE n == Cardinality(Ending(C))
           ended == finished \o order
<1>1. n \in Nat
  BY EndingFinite
<1>2. order \in [1 .. n -> Ending(C)] /\ Ending(C) \subseteq Goals
  BY DEF Bijection, Injection, Surjection, Ending
<1>3. \A i, j \in 1 .. n : order[i] = order[j] => i = j
  BY <1>2 DEF Bijection, Injection, IsInjective
<1>4. \A g \in Ending(C) : \E i \in 1 .. n : order[i] = g
  BY <1>2 DEF Bijection, Surjection
<1>5. order \in Seq(Goals) /\ Len(order) = n
  BY <1>1, <1>2
<1>6. finished \in Seq(Goals) /\ Len(finished) \in Nat
  BY DEF TypeOK
<1>7. /\ ended \in Seq(Goals) /\ Len(ended) = Len(finished) + n
      /\ \A i \in 1 .. Len(finished) : ended[i] = finished[i]
      /\ \A i \in 1 .. n : ended[Len(finished) + i] = order[i]
  BY <1>1, <1>5, <1>6
<1>8. \A i \in 1 .. Len(ended) : i > Len(finished) =>
         i - Len(finished) \in 1 .. n /\ ended[i] = order[i - Len(finished)]
  BY <1>1, <1>6, <1>7
<1> HIDE DEF ended, n
<1>9. ASSUME NEW i \in 1 .. Len(ended)
      PROVE  IF i > Len(finished) THEN ended[i] \in Ending(C) ELSE book[ended[i]].status \in Outcomes
  <2>1. CASE i > Len(finished)
    BY <1>2, <1>8, <2>1
  <2>2. CASE ~(i > Len(finished))
    <3>1. i \in 1 .. Len(finished)
      BY <1>1, <1>6, <1>7, <2>2
    <3> QED BY <1>7, <2>2, <3>1 DEF BookOK
  <2> QED BY <2>1, <2>2
<1>10. \A g \in Ending(C) : book[g].status \notin Outcomes
  BY DEF Ending, Ongoing, Live, Outcomes
<1>11. ASSUME NEW i \in 1 .. Len(ended), NEW j \in 1 .. Len(ended), ended[i] = ended[j]
       PROVE  i = j
  <2>1. CASE i > Len(finished) /\ j > Len(finished)
    <3>1. i - Len(finished) = j - Len(finished)
      BY <1>3, <1>8, <1>11, <2>1
    <3> QED BY <1>6, <1>7, <1>1, <3>1
  <2>2. CASE i <= Len(finished) /\ j <= Len(finished)
    BY <1>1, <1>6, <1>7, <1>11, <2>2 DEF BookOK
  <2>3. CASE ~(i > Len(finished) <=> j > Len(finished))
    BY <1>9, <1>10, <1>11, <2>3
  <2> QED BY <1>1, <1>6, <1>7, <2>1, <2>2, <2>3
<1>12. ASSUME NEW g \in Ending(C)
       PROVE  \E i \in 1 .. Len(ended) : ended[i] = g
  <2>1. PICK i \in 1 .. n : order[i] = g
    BY <1>4
  <2>2. Len(finished) + i \in 1 .. Len(ended) /\ ended[Len(finished) + i] = g
    BY <1>1, <1>6, <1>7, <2>1
  <2> QED BY <2>2
<1> QED BY <1>7, <1>9, <1>11, <1>12 DEF ended, n

\* A sequence without its first x items.
LEMMA TailAfter ==
    ASSUME NEW S, NEW e \in Seq(S), NEW x \in 0 .. Len(e)
    PROVE  /\ SubSeq(e, x + 1, Len(e)) \in Seq(S)
           /\ Len(SubSeq(e, x + 1, Len(e))) = Len(e) - x
           /\ \A i \in 1 .. Len(SubSeq(e, x + 1, Len(e))) :
                 i + x \in 1 .. Len(e) /\ SubSeq(e, x + 1, Len(e))[i] = e[i + x]
<1> PICK n : n = Len(e)
  OBVIOUS
<1>1. n \in Nat /\ x \in Nat /\ x <= n /\ n - x \in Nat /\ \A i \in 1 .. n : e[i] \in S
  OBVIOUS
<1>2. \A i \in 1 .. n - x : i + x \in 1 .. n
  BY <1>1
<1> PICK t : t = SubSeq(e, x + 1, n)
  OBVIOUS
<1>3. t \in Seq(S) /\ Len(t) = n - x
  BY <1>1
<1>4. \A i \in 1 .. n - x : t[i] = e[i + x]
  BY <1>1
<1> QED BY <1>2, <1>3, <1>4

\* A goal ongoing after the change was ongoing before it, as it is, and the
\* change does not end it; no goal is new; and the record of ended goals stays
\* in order.
LEMMA ObserveStep ==
    ASSUME TypeOK, BookOK, NEW C, Observe(C), runs' = runs
    PROVE  /\ book' \in [Goals -> Entry] /\ finished' \in Seq(Goals)
           /\ BookOK'
           /\ \A g \in Goals : Ongoing(g)' =>
                 /\ Ongoing(g) /\ g \notin Ending(C)
                 /\ book'[g].status = book[g].status /\ book'[g].cause = book[g].cause
                 /\ book'[g].run = book[g].run
           /\ \A g \in Goals : Ongoing(g) =>
                 IF g \in Ending(C)
                 THEN book'[g] = NoEntry \/ book'[g] = Observed(g, C)
                 ELSE book'[g] = Observed(g, C)
           /\ \A g \in Goals : ~Ongoing(g) => book'[g] = NoEntry \/ book'[g] = book[g]
           /\ Ending(C) = {} => \A g \in Goals : book'[g].status = book[g].status
<1>1. PICK order \in Bijection(1 .. Cardinality(Ending(C)), Ending(C)) :
         LET ended == finished \o order
             evicted == {ended[i] : i \in 1 .. Excess(ended)}
         IN  /\ finished' = SubSeq(ended, Excess(ended) + 1, Len(ended))
             /\ book' = [g \in Goals |-> IF g \in evicted THEN NoEntry
                                         ELSE IF Ongoing(g) THEN Observed(g, C) ELSE book[g]]
  BY DEF Observe
<1> DEFINE ended == finished \o order
           x == Excess(ended)
           evicted == {ended[i] : i \in 1 .. x}
<1>2. /\ ended \in Seq(Goals)
      /\ Len(ended) = Len(finished) + Cardinality(Ending(C))
      /\ \A i \in 1 .. Len(ended) : book[ended[i]].status \in Outcomes \/ ended[i] \in Ending(C)
      /\ \A i, j \in 1 .. Len(ended) : ended[i] = ended[j] => i = j
  BY EndedSequence
<1>3. finished' = SubSeq(ended, x + 1, Len(ended))
  BY <1>1
<1>4. book' = [g \in Goals |-> IF g \in evicted THEN NoEntry
                              ELSE IF Ongoing(g) THEN Observed(g, C) ELSE book[g]]
  BY <1>1
<1> HIDE DEF ended
<1>5. Len(ended) \in Nat /\ Capacity \in Nat
  BY <1>2, ConstantsAssumption
<1>6. x \in 0 .. Len(ended) /\ Len(ended) - x <= Capacity
  BY <1>5 DEF Excess
<1>7. Ending(C) = {} => x = 0
  <2>1. Len(finished) \in Nat
    BY DEF TypeOK
  <2>2. Ending(C) = {} => Cardinality(Ending(C)) = 0
    BY EndingFinite
  <2>3. Ending(C) = {} => Len(ended) = Len(finished)
    BY <1>2, <2>1, <2>2
  <2> QED BY <2>3, <1>5 DEF BookOK, Excess
<1> HIDE DEF x
<1>8. /\ finished' \in Seq(Goals) /\ Len(finished') = Len(ended) - x
      /\ \A i \in 1 .. Len(finished') : i + x \in 1 .. Len(ended) /\ finished'[i] = ended[i + x]
  BY <1>2, <1>3, <1>6, TailAfter
<1>9. \A g \in evicted : book[g].status \in Outcomes \/ g \in Ending(C)
  BY <1>2, <1>5, <1>6
<1>10. \A g \in evicted : Ongoing(g) => g \in Ending(C)
  BY <1>9 DEF Ongoing, Live, Outcomes
<1>11. \A i \in 1 .. Len(finished') : finished'[i] \notin evicted
  BY <1>2, <1>5, <1>6, <1>8
<1>12. \A g \in Goals : Ongoing(g) => Observed(g, C) \in Entry
  BY ObservedGoal
<1>13. NoEntry \in Entry
  BY ConstantsAssumption DEF NoEntry, Entry
<1>14. book' \in [Goals -> Entry]
  BY <1>4, <1>12, <1>13 DEF TypeOK
<1>15. ASSUME NEW g \in Goals, Ongoing(g)
       PROVE  IF g \in Ending(C)
              THEN book'[g] = NoEntry \/ book'[g] = Observed(g, C)
              ELSE book'[g] = Observed(g, C)
  BY <1>4, <1>10, <1>15
<1>16. ASSUME NEW g \in Goals, ~Ongoing(g)
       PROVE  book'[g] = NoEntry \/ book'[g] = book[g]
  BY <1>4, <1>16
<1>17. ASSUME NEW g \in Goals, Ongoing(g)'
       PROVE  /\ Ongoing(g) /\ g \notin Ending(C)
              /\ book'[g].status = book[g].status /\ book'[g].cause = book[g].cause
              /\ book'[g].run = book[g].run
  <2>1. book'[g].status \in Live
    BY <1>17 DEF Ongoing
  <2>2. NoEntry.status \notin Live
    BY DEF NoEntry, Live
  <2>3. Ongoing(g)
    BY <2>1, <2>2, <1>16 DEF Ongoing
  <2>4. book'[g] = Observed(g, C)
    BY <2>1, <2>2, <2>3, <1>15
  <2>5. g \notin Ending(C)
    BY <2>1, <2>3, <2>4, ObservedGoal DEF Live, Outcomes
  <2>6. /\ Observed(g, C).status = book[g].status /\ Observed(g, C).cause = book[g].cause
        /\ Observed(g, C).run = book[g].run
    BY <2>3, <2>5, ObservedGoal
  <2> QED BY <2>3, <2>4, <2>5, <2>6
<1>18. Ending(C) = {} => \A g \in Goals : book'[g].status = book[g].status
  <2> SUFFICES ASSUME Ending(C) = {}, NEW g \in Goals
               PROVE  book'[g].status = book[g].status
    OBVIOUS
  <2>1. g \notin evicted
    BY <1>7
  <2>2. CASE Ongoing(g)
    BY <1>4, <2>1, <2>2, ObservedGoal
  <2>3. CASE ~Ongoing(g)
    BY <1>4, <2>1, <2>3
  <2> QED BY <2>2, <2>3
<1>19. BookOK'
  <2>1. ASSUME NEW g \in Goals, Known(g)'
        PROVE  book'[g].run \in 1 .. Len(runs')
    <3>1. book'[g] # NoEntry
      BY <2>1 DEF Known, NoEntry
    <3>2. CASE Ongoing(g)
      <4>1. book'[g] = Observed(g, C) /\ Known(g)
        BY <3>1, <3>2, <1>15 DEF Known, Ongoing, Live
      <4>2. Observed(g, C).run = book[g].run
        BY <3>2, ObservedGoal
      <4> QED BY <4>1, <4>2 DEF BookOK
    <3>3. CASE ~Ongoing(g)
      <4>1. book'[g] = book[g] /\ Known(g)
        BY <2>1, <3>1, <3>3, <1>16 DEF Known
      <4> QED BY <4>1 DEF BookOK
    <3> QED BY <3>2, <3>3
  <2>2. ASSUME NEW i \in 1 .. Len(finished')
        PROVE  book'[finished'[i]].status \in Outcomes
    <3> DEFINE g == finished'[i]
    <3>1. g \in Goals /\ g \notin evicted
      BY <1>8, <1>11
    <3>2. book[g].status \in Outcomes \/ g \in Ending(C)
      BY <1>2, <1>8
    <3>3. CASE g \in Ending(C)
      BY <1>4, <3>1, <3>3, ObservedGoal DEF Ending
    <3>4. CASE book[g].status \in Outcomes
      BY <1>4, <3>1, <3>4 DEF Ongoing, Live, Outcomes
    <3> QED BY <3>2, <3>3, <3>4
  <2>3. \A i, j \in 1 .. Len(finished') : finished'[i] = finished'[j] => i = j
    BY <1>2, <1>5, <1>6, <1>8
  <2>4. Len(finished') <= Capacity
    BY <1>6, <1>8
  <2>5. ASSUME NEW g \in Goals, book'[g].status = "executing"
        PROVE  book'[g].cause # "cancel"
    BY <2>5, <1>17 DEF Ongoing, Live, BookOK
  <2>6. ASSUME NEW g \in Goals, ~Known(g)'
        PROVE  book'[g].cause = "none"
    <3>1. NoEntry.cause = "none"
      BY DEF NoEntry
    <3>2. CASE Ongoing(g)
      <4>1. Observed(g, C).status # "none"
        BY <3>2, ObservedGoal DEF Ongoing, Live, Outcomes
      <4> QED BY <1>15, <2>6, <3>1, <3>2, <4>1 DEF Known
    <3>3. CASE ~Ongoing(g)
      BY <1>16, <2>6, <3>1, <3>3 DEF Known, BookOK
    <3> QED BY <3>2, <3>3
  <2> QED BY <2>1, <2>2, <2>3, <2>4, <2>5, <2>6 DEF BookOK
<1> QED BY <1>8, <1>14, <1>15, <1>16, <1>17, <1>18, <1>19

-----------------------------------------------------------------------------
(* Every step keeps the invariant.                                           *)


\* What replacing one item of a sequence leaves.
LEMMA UpdateSequence ==
    ASSUME NEW T, NEW s \in Seq(T), NEW i \in 1 .. Len(s), NEW v \in T
    PROVE  LET t == [s EXCEPT ![i] = v]
           IN  t \in Seq(T) /\ Len(t) = Len(s) /\ \A j \in 1 .. Len(s) : t[j] = IF j = i THEN v ELSE s[j]
OBVIOUS

MarkPreempted(g) == book' = [book EXCEPT ![g].cause = "preempt"]
Run == [state : {"running", "success", "failure"}, wrote : BOOLEAN, loose : {"no", "stuck", "stray"}]

\* A goal is received.
LEMMA ReceiveGoalStep ==
    ASSUME IInv, NEW g \in Goals \cup {NoGoal}, ReceiveGoal(g)
    PROVE  IInv'
<1>1. TypeOK'
  <2>1. Len(watch) \in 0 .. MaxWatch /\ closed \in BOOLEAN /\ 0 \in 0 .. MaxRuns
    BY ConstantsAssumption DEF IInv, TypeOK, Control
  <2>2. hand' \in [goal : Goals \cup {NoGoal}, unread : 0 .. MaxWatch, late : BOOLEAN,
                   run : 0 .. MaxRuns]
    BY <2>1 DEF ReceiveGoal
  <2> QED BY <2>2 DEF IInv, TypeOK, ReceiveGoal
<1>2. Control'
  BY DEF IInv, ReceiveGoal, Control, Known, NoHand
<1>3. BookOK'
  BY DEF IInv, ReceiveGoal, BookOK, Known, Ongoing
<1>4. TrueReports'
  BY DEF IInv, ReceiveGoal, TrueReports, Ended
<1>5. RunsOwned'
  BY DEF IInv, ReceiveGoal, RunsOwned, Ongoing
<1>6. Vacated'
  BY DEF IInv, ReceiveGoal, Vacated, Active, Ongoing
<1>7. OneRunAtATime'
  BY DEF IInv, ReceiveGoal, OneRunAtATime
<1>8. NoLateFeedback'
  BY DEF IInv, ReceiveGoal, NoLateFeedback, Ongoing
<1>9. HaltedIsStopped'
  BY DEF IInv, ReceiveGoal, HaltedIsStopped, Ongoing
<1>10. Counted'
  BY DEF IInv, ReceiveGoal, TypeOK, Counted, NoHand
<1>11. NoStaleSpawn'
  BY DEF IInv, ReceiveGoal, NoStaleSpawn
<1>12. Told'
  BY DEF IInv, ReceiveGoal, Told, Statuses
<1> QED BY <1>1, <1>2, <1>3, <1>4, <1>5, <1>6, <1>7, <1>8, <1>9, <1>10, <1>11, <1>12 DEF IInv

\* A goal in hand is rejected.
LEMMA RejectStep ==
    ASSUME IInv, pc \in {"draining", "spawning"}, pc' = "idle", hand' = NoHand,
           UNCHANGED <<wire, todo, book, finished, asked, reply, box, told, watch, closed, seam, runs>>
    PROVE  IInv'
<1>1. TypeOK'
  BY ConstantsAssumption DEF IInv, NoHand, TypeOK
<1>2. Control'
  BY DEF IInv, Control, Known, NoHand
<1>3. BookOK'
  BY DEF IInv, BookOK, Known, Ongoing
<1>4. TrueReports'
  BY DEF IInv, TrueReports, Ended
<1>5. RunsOwned'
  BY DEF IInv, RunsOwned, Ongoing
<1>6. Vacated'
  BY DEF IInv, Vacated, Active, Ongoing
<1>7. OneRunAtATime'
  BY DEF IInv, OneRunAtATime
<1>8. NoLateFeedback'
  BY DEF IInv, NoLateFeedback, Ongoing
<1>9. HaltedIsStopped'
  BY DEF IInv, HaltedIsStopped, Ongoing
<1>10. Counted'
  BY DEF IInv, Counted, NoHand
<1>11. NoStaleSpawn'
  BY DEF IInv, NoStaleSpawn
<1>12. Told'
  BY DEF IInv, Told, Statuses
<1> QED BY <1>1, <1>2, <1>3, <1>4, <1>5, <1>6, <1>7, <1>8, <1>9, <1>10, <1>11, <1>12 DEF IInv

\* The active goal of a bound action is marked preempted.
LEMMA PreemptStep ==
    ASSUME IInv, pc = "draining", NEW g \in Active, pc' = "preempting", todo' = {g},
           MarkPreempted(g), hand.goal \in Goals, wire = "bound",
           watch = <<>>, ~closed,
           UNCHANGED <<wire, hand, finished, asked, reply, box, told, watch, closed, seam, runs>>
    PROVE  IInv'
<1>a. /\ g \in Goals /\ book' \in [Goals -> Entry]
      /\ \A h \in Goals : /\ book'[h].status = book[h].status /\ book'[h].run = book[h].run
                          /\ h # g => book'[h].cause = book[h].cause
      /\ book'[g].cause = "preempt"
  BY DEF IInv, TypeOK, Entry, Active, MarkPreempted
<1>1. TypeOK'
  BY <1>a DEF IInv, Active, TypeOK
<1>2. Control'
  BY <1>a DEF IInv, Control, Active, Ongoing
<1>3. BookOK'
  <2>1. \A i \in 1 .. Len(finished) : finished[i] \in Goals
    BY DEF IInv, TypeOK
  <2>2. ASSUME NEW h \in Goals, book'[h].status = "executing"
        PROVE  book'[h].cause # "cancel"
    BY <1>a, <2>2 DEF IInv, BookOK
  <2>3. \A h \in Goals : ~Known(h)' => book'[h].cause = "none"
    <3>1. Known(g)
      BY DEF Active, Ongoing, Known, Live
    <3> QED BY <1>a, <3>1 DEF IInv, BookOK, Known
  <2> QED BY <1>a, <2>1, <2>2, <2>3 DEF IInv, BookOK, Known
<1>4. TrueReports'
  BY DEF IInv, TrueReports, Ended
<1>5. RunsOwned'
  <2>1. ASSUME NEW r \in 1 .. Len(runs), runs[r].state = "running", runs[r].loose = "no"
        PROVE  \E h \in Goals : /\ book'[h].status \in Live /\ book'[h].run = r
                                /\ book'[h].cause = "none" \/ h \in todo'
    <3>1. PICK h \in Goals : Ongoing(h) /\ book[h].run = r /\ book[h].cause = "none"
      BY <2>1 DEF IInv, RunsOwned, Control
    <3> QED BY <1>a, <3>1 DEF Ongoing
  <2> QED BY <2>1 DEF RunsOwned, Ongoing
<1>6. Vacated'
  BY <1>a DEF IInv, Vacated, Active, Ongoing
<1>7. OneRunAtATime'
  BY DEF IInv, OneRunAtATime
<1>8. NoLateFeedback'
  BY <1>a DEF IInv, TypeOK, NoLateFeedback, Ongoing
<1>9. HaltedIsStopped'
  <2> SUFFICES ASSUME NEW h \in Goals, Ongoing(h)', book'[h].cause # "none"
               PROVE  \/ runs[book[h].run].state # "running"
                      \/ h \in todo'
                      \/ runs[book[h].run].loose = "stuck"
    BY <1>a DEF HaltedIsStopped
  <2>1. CASE h = g
    BY <2>1
  <2>2. CASE h # g
    <3>1. Ongoing(h) /\ book[h].cause # "none" /\ todo = {}
      BY <1>a, <2>2 DEF Ongoing, IInv, Control
    <3> QED BY <3>1 DEF IInv, HaltedIsStopped
  <2> QED BY <2>1, <2>2
<1>10. Counted'
  BY DEF IInv, TypeOK, Counted, NoHand
<1>11. NoStaleSpawn'
  BY DEF IInv, TypeOK, Counted, NoStaleSpawn
<1>12. Told'
  BY <1>a DEF IInv, Told, Statuses
<1> QED BY <1>1, <1>2, <1>3, <1>4, <1>5, <1>6, <1>7, <1>8, <1>9, <1>10, <1>11, <1>12 DEF IInv

\* The run of the goal in hand is called for.
LEMMA CallSpawnStep ==
    ASSUME IInv, pc = "draining", pc' = "spawning", hand.goal \in Goals,
           wire = "bound" => Active = {}, watch = <<>>, ~closed,
           UNCHANGED <<wire, hand, todo, book, finished, asked, reply, box, told, watch, closed,
                       seam, runs>>
    PROVE  IInv'
<1>1. TypeOK'
  BY DEF IInv, TypeOK
<1>2. Control'
  BY DEF IInv, Control, Known, NoHand
<1>3. BookOK'
  BY DEF IInv, BookOK, Known, Ongoing
<1>4. TrueReports'
  BY DEF IInv, TrueReports, Ended
<1>5. RunsOwned'
  BY DEF IInv, RunsOwned, Ongoing
<1>6. Vacated'
  BY DEF IInv, Vacated, Active, Ongoing
<1>7. OneRunAtATime'
  BY DEF IInv, OneRunAtATime
<1>8. NoLateFeedback'
  BY DEF IInv, NoLateFeedback, Ongoing
<1>9. HaltedIsStopped'
  BY DEF IInv, HaltedIsStopped, Ongoing
<1>10. Counted'
  BY DEF IInv, TypeOK, Counted, NoHand
<1>11. NoStaleSpawn'
  BY DEF IInv, TypeOK, Counted, NoStaleSpawn
<1>12. Told'
  BY DEF IInv, Told, Statuses
<1> QED BY <1>1, <1>2, <1>3, <1>4, <1>5, <1>6, <1>7, <1>8, <1>9, <1>10, <1>11, <1>12 DEF IInv

\* A goal is rejected, preempts the active one, or is spawned.
LEMMA HandleGoalStep ==
    ASSUME IInv, HandleGoal
    PROVE  IInv'
<1>1. CASE pc' = "idle" /\ hand' = NoHand /\ UNCHANGED <<todo, book>>
  BY <1>1, RejectStep DEF HandleGoal
<1>2. CASE hand.goal # NoGoal /\ Arbitrate
  <2>1. hand.goal \in Goals
    BY <1>2 DEF IInv, TypeOK
  <2>2. CASE wire = "bound" /\ Active # {}
    <3>1. PICK g \in Active :
             IF Priority[hand.goal] >= Priority[g]
             THEN /\ book' = [book EXCEPT ![g].cause = "preempt"]
                  /\ todo' = {g} /\ pc' = "preempting"
                  /\ UNCHANGED hand
             ELSE Reject
      BY <1>2, <2>2 DEF Arbitrate
    <3>2. CASE Priority[hand.goal] >= Priority[g]
      BY <2>1, <2>2, <3>1, <3>2, PreemptStep DEF HandleGoal, MarkPreempted
    <3>3. CASE ~(Priority[hand.goal] >= Priority[g])
      BY <1>1, <3>1, <3>3 DEF Reject
    <3> QED BY <3>2, <3>3
  <2>3. CASE ~(wire = "bound" /\ Active # {})
    <3>1. pc' = "spawning" /\ UNCHANGED <<hand, todo, book>>
      BY <1>2, <2>3 DEF Arbitrate
    <3>2. /\ pc = "draining" /\ watch = <<>> /\ ~closed
          /\ UNCHANGED <<wire, finished, asked, reply, box, told, watch, closed, seam, runs>>
      BY DEF HandleGoal
    <3>3. UNCHANGED <<wire, hand, todo, book, finished, asked, reply, box, told, watch, closed,
                      seam, runs>>
      BY <3>1, <3>2
    <3> QED BY <2>1, <2>3, <3>1, <3>2, <3>3, CallSpawnStep
  <2> QED BY <2>2, <2>3
<1> QED BY <1>1, <1>2 DEF HandleGoal, Reject

\* A goal is accepted for the run just spawned.
LEMMA AcceptNewStep ==
    ASSUME IInv, Accept, ~Known(hand.goal)
    PROVE  IInv'
<1> DEFINE g == hand.goal
           e == [NoEntry EXCEPT !.status = "executing", !.run = hand.run]
<1>e. book' = [book EXCEPT ![g] = e]
  BY DEF Accept
<1>b. /\ pc = "spawned" /\ pc' = "idle" /\ hand' = NoHand
      /\ told' = Statuses(book') /\ Flush(box)
      /\ UNCHANGED <<wire, todo, finished, asked, reply, watch, closed, seam, runs>>
  BY DEF Accept
<1>c. g \in Goals /\ hand.run \in 1 .. Len(runs) /\ hand.run \in 0 .. MaxRuns /\ todo = {}
  BY <1>b DEF IInv, Control, TypeOK
<1>d. e \in Entry /\ e.status = "executing" /\ e.cause = "none" /\ e.run = hand.run
  BY <1>c DEF NoEntry, Entry, Live
<1> HIDE DEF e
<1>a. /\ book' \in [Goals -> Entry] /\ g \in Goals /\ ~Known(g)
      /\ \A h \in Goals : h # g => book'[h] = book[h]
      /\ book'[g].status = "executing" /\ book'[g].cause = "none" /\ book'[g].run = hand.run
  BY <1>e, <1>c, <1>d DEF IInv, TypeOK
<1> HIDE DEF g
<1>1. TypeOK'
  <2>1. told' \in [Goals -> {"none"} \cup Live \cup Outcomes]
    BY <1>a, <1>b DEF Statuses, Entry
  <2>2. box' \in [feedback : SUBSET Goals, results : SUBSET Requests]
    BY <1>b DEF Flush, IInv, TypeOK
  <2>3. hand' \in [goal : Goals \cup {NoGoal}, unread : 0 .. MaxWatch, late : BOOLEAN,
                   run : 0 .. MaxRuns]
    BY <1>b, ConstantsAssumption DEF NoHand
  <2> QED BY <1>a, <1>b, <2>1, <2>2, <2>3 DEF IInv, TypeOK
<1>2. Control'
  BY <1>b DEF IInv, Control, Known, NoHand
<1>3. BookOK'
  <2>0. \A i \in 1 .. Len(finished) : finished[i] \in Goals
    BY DEF IInv, TypeOK
  <2>1. \A i \in 1 .. Len(finished) : book[finished[i]].status # "none"
    BY DEF IInv, BookOK, Outcomes
  <2>2. \A i \in 1 .. Len(finished) : finished[i] \in Goals /\ finished[i] # g
    BY <1>a, <2>0, <2>1 DEF Known
  <2> QED BY <1>a, <1>b, <1>c, <2>2 DEF IInv, BookOK, Known
<1>4. TrueReports'
  BY <1>b DEF IInv, TrueReports, Ended
<1>5. RunsOwned'
  <2> SUFFICES ASSUME NEW r \in 1 .. Len(runs),
                      runs[r].state = "running" /\ runs[r].loose = "no"
               PROVE  \E h \in Goals : Ongoing(h)' /\ book'[h].run = r /\ book'[h].cause = "none"
    BY <1>b DEF RunsOwned, Ongoing
  <2>1. CASE hand.run = r
    BY <1>a, <2>1 DEF Ongoing, Live
  <2>2. CASE hand.run # r
    <3>1. PICK h \in Goals : Ongoing(h) /\ book[h].run = r /\ book[h].cause = "none"
      BY <1>b, <1>c, <2>2 DEF IInv, RunsOwned
    <3>2. h # g
      BY <1>a, <3>1 DEF Known, Ongoing, Live
    <3> QED BY <1>a, <3>1, <3>2 DEF Ongoing
  <2> QED BY <2>1, <2>2
<1>6. Vacated'
  BY <1>a, <1>b DEF IInv, Vacated, Active, Ongoing
<1>7. OneRunAtATime'
  BY <1>b DEF IInv, OneRunAtATime
<1>8. NoLateFeedback'
  BY <1>a, <1>b DEF IInv, TypeOK, Flush, Live, NoLateFeedback, Ongoing
<1>9. HaltedIsStopped'
  BY <1>a, <1>b DEF IInv, Known, Live, HaltedIsStopped, Ongoing
<1>10. Counted'
  BY <1>b DEF IInv, Counted, NoHand
<1>11. NoStaleSpawn'
  BY <1>b DEF IInv, NoStaleSpawn
<1>12. Told'
  BY <1>b DEF IInv, Told, Statuses
<1> QED BY <1>1, <1>2, <1>3, <1>4, <1>5, <1>6, <1>7, <1>8, <1>9, <1>10, <1>11, <1>12 DEF IInv

\* A goal whose id is known is rejected; the run spawned for it is nobody's.
LEMMA RejectKnownStep ==
    ASSUME IInv, Accept, Known(hand.goal)
    PROVE  IInv'
<1>b. /\ pc = "spawned" /\ pc' = "idle" /\ hand' = NoHand
      /\ runs' = [runs EXCEPT ![hand.run].loose = "stray"]
      /\ UNCHANGED <<wire, todo, book, finished, asked, reply, box, told, watch, closed, seam>>
  BY DEF Accept
<1>c. hand.run \in 1 .. Len(runs)
  BY <1>b DEF IInv, Control
<1>a. /\ runs' \in Seq(Run) /\ Len(runs') = Len(runs)
      /\ \A r \in 1 .. Len(runs) : /\ runs'[r].state = runs[r].state
                                   /\ r # hand.run => runs'[r] = runs[r]
      /\ runs'[hand.run].loose = "stray"
  <2> DEFINE v == [runs[hand.run] EXCEPT !.loose = "stray"]
  <2>0. runs \in Seq(Run)
    BY DEF IInv, TypeOK, Run
  <2>1. runs[hand.run] \in Run
    BY <1>c, <2>0
  <2>2. v \in Run /\ v.state = runs[hand.run].state /\ v.loose = "stray"
    BY <2>1 DEF Run
  <2>3. runs' = [runs EXCEPT ![hand.run] = v]
    BY <1>b
  <2> HIDE DEF v
  <2> QED BY <1>c, <2>0, <2>2, <2>3, UpdateSequence
<1>1. TypeOK'
  BY <1>a, <1>b, ConstantsAssumption DEF IInv, NoHand, Run, TypeOK
<1>2. Control'
  BY <1>a, <1>b DEF IInv, NoHand, Control, Known
<1>3. BookOK'
  BY <1>a, <1>b DEF IInv, BookOK, Known, Ongoing
<1>4. TrueReports'
  BY <1>a, <1>b DEF IInv, TrueReports, Ended
<1>5. RunsOwned'
  BY <1>a, <1>b DEF IInv, RunsOwned, Ongoing
<1>6. Vacated'
  BY <1>b DEF IInv, Vacated, Active, Ongoing
<1>7. OneRunAtATime'
  BY <1>a, <1>b DEF IInv, OneRunAtATime
<1>8. NoLateFeedback'
  BY <1>b DEF IInv, NoLateFeedback, Ongoing
<1>9. HaltedIsStopped'
  <2> SUFFICES ASSUME NEW h \in Goals, Ongoing(h), book[h].cause # "none"
               PROVE  \/ runs'[book[h].run].state # "running"
                      \/ h \in todo
                      \/ runs'[book[h].run].loose = "stuck"
    BY <1>b DEF HaltedIsStopped, Ongoing
  <2>1. book[h].run \in 1 .. Len(runs) /\ book[h].run # hand.run
    BY <1>b, <1>c DEF IInv, BookOK, Control, Known, Ongoing, Live
  <2>2. \A r \in 1 .. Len(runs) : r # hand.run => runs'[r] = runs[r]
    BY <1>a
  <2>3. runs'[book[h].run] = runs[book[h].run]
    BY <2>1, <2>2
  <2> QED BY <2>3 DEF IInv, HaltedIsStopped
<1>10. Counted'
  BY <1>b DEF IInv, Counted, NoHand
<1>11. NoStaleSpawn'
  BY <1>b DEF IInv, NoStaleSpawn
<1>12. Told'
  BY <1>b DEF IInv, Told, Statuses
<1> QED BY <1>1, <1>2, <1>3, <1>4, <1>5, <1>6, <1>7, <1>8, <1>9, <1>10, <1>11, <1>12 DEF IInv

\* A spawned goal is accepted, or its id is known.
LEMMA AcceptStep ==
    ASSUME IInv, Accept
    PROVE  IInv'
BY AcceptNewStep, RejectKnownStep

\* The goals a cancel selects are marked canceling.
LEMMA ReceiveCancelStep ==
    ASSUME IInv, NEW id \in Goals \cup {NoGoal}, NEW stamp \in Nat, ReceiveCancel(id, stamp)
    PROVE  IInv'
<1> DEFINE S == Selected(id, stamp)
<1>b. /\ pc = "idle" /\ pc' = "stopping" /\ todo' = S
      /\ UNCHANGED <<wire, hand, finished, asked, reply, box, told, watch, closed, seam, runs>>
  BY DEF ReceiveCancel
<1>c. S \subseteq Goals /\ \A g \in S : book[g].status = "executing"
  BY DEF Selected
<1>d. book' = [g \in Goals |->
                 IF g \in S
                 THEN [book[g] EXCEPT !.status = "canceling",
                                      !.cause = IF @ = "none" THEN "cancel" ELSE @]
                 ELSE book[g]]
  BY DEF ReceiveCancel
<1> HIDE DEF S
<1>a. /\ book' \in [Goals -> Entry]
      /\ \A g \in Goals : g \notin S => book'[g] = book[g]
      /\ \A g \in S : /\ book'[g].status = "canceling" /\ book'[g].run = book[g].run
                      /\ book'[g].cause # "none"
                      /\ book[g].cause # "none" => book'[g].cause = book[g].cause
  <2>1. \A g \in Goals : book[g] \in Entry
    BY DEF IInv, TypeOK
  <2> QED BY <1>c, <1>d, <2>1 DEF Entry, Live
<1>f. \A g \in Goals : (Ongoing(g)' <=> Ongoing(g)) /\ book'[g].run = book[g].run
                       /\ (Known(g)' <=> Known(g))
  BY <1>a, <1>c DEF Ongoing, Live, Known
<1>1. TypeOK'
  BY <1>a, <1>b, <1>c DEF IInv, TypeOK
<1>2. Control'
  <2>1. \A g \in S : Ongoing(g)'
    BY <1>c, <1>f DEF Ongoing, Live
  <2> QED BY <1>b, <2>1 DEF IInv, Control
<1>3. BookOK'
  <2>0. \A i \in 1 .. Len(finished) : finished[i] \in Goals
    BY DEF IInv, TypeOK
  <2>1. \A i \in 1 .. Len(finished) : finished[i] \notin S
    BY <1>c DEF IInv, BookOK, Outcomes
  <2>2. \A i \in 1 .. Len(finished) : book'[finished[i]] = book[finished[i]]
    BY <1>a, <2>0, <2>1
  <2>3. \A g \in Goals : book'[g].status = "executing" => book'[g].cause # "cancel"
    BY <1>a, <1>c DEF IInv, BookOK
  <2>4. \A g \in Goals : Known(g)' => book'[g].run \in 1 .. Len(runs)
    BY <1>f DEF IInv, BookOK
  <2>5. \A g \in Goals : ~Known(g)' => book'[g].cause = "none"
    <3>1. \A g \in S : Known(g)
      BY <1>c DEF Known
    <3> QED BY <1>a, <1>f, <3>1 DEF IInv, BookOK
  <2> QED BY <1>b, <2>2, <2>3, <2>4, <2>5 DEF IInv, BookOK
<1>4. TrueReports'
  BY <1>b DEF IInv, TrueReports, Ended
<1>5. RunsOwned'
  <2> SUFFICES ASSUME NEW r \in 1 .. Len(runs),
                      runs[r].state = "running" /\ runs[r].loose = "no"
               PROVE  \E g \in Goals : /\ Ongoing(g)' /\ book'[g].run = r
                                       /\ book'[g].cause = "none" \/ g \in todo'
    BY <1>b DEF RunsOwned
  <2>1. PICK g \in Goals : Ongoing(g) /\ book[g].run = r /\ book[g].cause = "none"
    BY <1>b DEF IInv, RunsOwned, Control
  <2>2. book'[g].cause = "none" \/ g \in todo'
    BY <1>a, <1>b, <2>1
  <2> QED BY <1>f, <2>1, <2>2
<1>6. Vacated'
  <2>1. \A g \in Active' : g \in Active
    BY <1>a, <1>f DEF Active
  <2> QED BY <1>b, <2>1 DEF IInv, Vacated
<1>7. OneRunAtATime'
  BY <1>b DEF IInv, OneRunAtATime
<1>8. NoLateFeedback'
  <2>1. box.feedback \subseteq Goals
    BY DEF IInv, TypeOK
  <2> QED BY <1>b, <1>f, <2>1 DEF IInv, NoLateFeedback
<1>9. HaltedIsStopped'
  <2> SUFFICES ASSUME NEW g \in Goals, Ongoing(g)', book'[g].cause # "none"
               PROVE  \/ runs[book[g].run].state # "running"
                      \/ g \in todo'
                      \/ runs[book[g].run].loose = "stuck"
    BY <1>b, <1>f DEF HaltedIsStopped
  <2>1. CASE g \in S
    BY <1>b, <2>1
  <2>2. CASE g \notin S
    BY <1>a, <1>b, <1>f, <2>2 DEF IInv, HaltedIsStopped, Control
  <2> QED BY <2>1, <2>2
<1>10. Counted'
  BY <1>b DEF IInv, Counted
<1>11. NoStaleSpawn'
  BY <1>b DEF IInv, NoStaleSpawn
<1>12. Told'
  BY <1>b DEF Told
<1> QED BY <1>1, <1>2, <1>3, <1>4, <1>5, <1>6, <1>7, <1>8, <1>9, <1>10, <1>11, <1>12 DEF IInv

\* A cancel whose stops are made is answered.
LEMMA FinishCancelStep ==
    ASSUME IInv, FinishCancel
    PROVE  IInv'
<1>1. TypeOK'
  <2>1. told' \in [Goals -> {"none"} \cup Live \cup Outcomes]
    BY DEF IInv, TypeOK, FinishCancel, Statuses, Entry
  <2>2. box' \in [feedback : SUBSET Goals, results : SUBSET Requests]
    BY DEF IInv, TypeOK, FinishCancel, Flush
  <2> QED BY <2>1, <2>2 DEF IInv, TypeOK, FinishCancel
<1>2. Control'
  BY DEF IInv, FinishCancel, Control, Known, NoHand
<1>3. BookOK'
  BY DEF IInv, FinishCancel, BookOK, Known, Ongoing
<1>4. TrueReports'
  BY DEF IInv, FinishCancel, TrueReports, Ended
<1>5. RunsOwned'
  BY DEF IInv, FinishCancel, RunsOwned, Ongoing
<1>6. Vacated'
  BY DEF IInv, FinishCancel, Vacated, Active, Ongoing
<1>7. OneRunAtATime'
  BY DEF IInv, FinishCancel, OneRunAtATime
<1>8. NoLateFeedback'
  BY DEF IInv, FinishCancel, Flush, NoLateFeedback, Ongoing
<1>9. HaltedIsStopped'
  BY DEF IInv, FinishCancel, HaltedIsStopped, Ongoing
<1>10. Counted'
  BY DEF IInv, FinishCancel, Counted, NoHand
<1>11. NoStaleSpawn'
  BY DEF IInv, FinishCancel, NoStaleSpawn
<1>12. Told'
  BY DEF IInv, FinishCancel, Told, Statuses
<1> QED BY <1>1, <1>2, <1>3, <1>4, <1>5, <1>6, <1>7, <1>8, <1>9, <1>10, <1>11, <1>12 DEF IInv

\* A result is asked for.
LEMMA ReceiveResultStep ==
    ASSUME IInv, NEW q \in Requests, NEW g \in Goals, ReceiveResult(q, g)
    PROVE  IInv'
<1> DEFINE ready == {p \in Waiting \cup {q} : book[asked'[p]].status \notin Live}
<1>b. /\ pc = "idle" /\ asked' = [asked EXCEPT ![q] = g]
      /\ reply' = [p \in Requests |->
                     IF p \notin ready THEN reply[p]
                     ELSE IF ~Known(asked'[p]) THEN "unknown" ELSE book[asked'[p]].status]
      /\ Flush([box EXCEPT !.results = @ \cup ready])
      /\ UNCHANGED <<wire, pc, hand, todo, book, finished, told, watch, closed, seam, runs>>
  BY DEF ReceiveResult
<1>c. ready \subseteq Requests /\ \A p \in ready : book[asked'[p]].status \notin Live
  BY DEF Waiting
<1> HIDE DEF ready
<1>d. asked' \in [Requests -> Goals \cup {NoGoal}]
      /\ \A p \in ready : asked'[p] \in Goals
  <2>1. \A p \in ready : p = q \/ asked[p] # NoGoal
    BY DEF ready, Waiting
  <2> QED BY <1>b, <1>c, <2>1 DEF IInv, TypeOK
<1>1. TypeOK'
  <2>1. box' \in [feedback : SUBSET Goals, results : SUBSET Requests]
    BY <1>b, <1>c DEF Flush, IInv, TypeOK
  <2>2. \A p \in ready : book[asked'[p]].status \in {"none"} \cup Outcomes
    BY <1>c, <1>d DEF IInv, TypeOK, Entry
  <2>3. reply' \in [Requests -> {"none", "unknown"} \cup Outcomes]
    BY <1>b, <1>c, <2>2 DEF IInv, TypeOK, Known
  <2> QED BY <1>b, <1>d, <2>1, <2>3 DEF IInv, TypeOK
<1>2. Control'
  BY <1>b DEF IInv, Control, Known, NoHand
<1>3. BookOK'
  BY <1>b DEF IInv, BookOK, Known, Ongoing
<1>4. TrueReports'
  BY <1>b DEF IInv, TrueReports, Ended
<1>5. RunsOwned'
  BY <1>b DEF IInv, RunsOwned, Ongoing
<1>6. Vacated'
  BY <1>b DEF IInv, Vacated, Active, Ongoing
<1>7. OneRunAtATime'
  BY <1>b DEF IInv, OneRunAtATime
<1>8. NoLateFeedback'
  <2>1. box'.feedback \subseteq box.feedback
    BY <1>b DEF Flush, IInv, TypeOK
  <2> QED BY <1>b, <2>1 DEF IInv, NoLateFeedback, Ongoing
<1>9. HaltedIsStopped'
  BY <1>b DEF IInv, HaltedIsStopped, Ongoing
<1>10. Counted'
  BY <1>b DEF IInv, Counted, NoHand
<1>11. NoStaleSpawn'
  BY <1>b DEF IInv, NoStaleSpawn
<1>12. Told'
  BY <1>b DEF IInv, Told, Statuses
<1> QED BY <1>1, <1>2, <1>3, <1>4, <1>5, <1>6, <1>7, <1>8, <1>9, <1>10, <1>11, <1>12 DEF IInv

\* The outboxes are tried again.
LEMMA RetryStep ==
    ASSUME IInv, Retry
    PROVE  IInv'
<1>1. TypeOK'
  <2>1. box' \in [feedback : SUBSET Goals, results : SUBSET Requests]
    BY DEF IInv, TypeOK, Retry, Flush
  <2> QED BY <2>1 DEF IInv, TypeOK, Retry
<1>2. Control'
  BY DEF IInv, Retry, Control, Known, NoHand
<1>3. BookOK'
  BY DEF IInv, Retry, BookOK, Known, Ongoing
<1>4. TrueReports'
  BY DEF IInv, Retry, TrueReports, Ended
<1>5. RunsOwned'
  BY DEF IInv, Retry, RunsOwned, Ongoing
<1>6. Vacated'
  BY DEF IInv, Retry, Vacated, Active, Ongoing
<1>7. OneRunAtATime'
  BY DEF IInv, Retry, OneRunAtATime
<1>8. NoLateFeedback'
  BY DEF IInv, Retry, Flush, NoLateFeedback, Ongoing
<1>9. HaltedIsStopped'
  BY DEF IInv, Retry, HaltedIsStopped, Ongoing
<1>10. Counted'
  BY DEF IInv, Retry, Counted, NoHand
<1>11. NoStaleSpawn'
  BY DEF IInv, Retry, NoStaleSpawn
<1>12. Told'
  BY DEF IInv, Retry, Told, Statuses
<1> QED BY <1>1, <1>2, <1>3, <1>4, <1>5, <1>6, <1>7, <1>8, <1>9, <1>10, <1>11, <1>12 DEF IInv

\* The task ends.
LEMMA EndTaskStep ==
    ASSUME IInv, pc \in {"idle", "draining"}, EndTask
    PROVE  IInv'
<1>a. book' \in [Goals -> Entry] /\ \A g \in Goals : book'[g].status = "none"
  <2>1. NoEntry \in Entry /\ NoEntry.status = "none"
    BY ConstantsAssumption DEF NoEntry, Entry
  <2>2. book' = [g \in Goals |-> NoEntry]
    BY DEF EndTask
  <2> HIDE DEF NoEntry
  <2> QED BY <2>1, <2>2
<1>b. /\ pc' = "ended" /\ hand' = NoHand /\ finished' = <<>> /\ box' = NoMessages
      /\ watch' = <<>> /\ seam' = {}
      /\ UNCHANGED <<wire, todo, asked, reply, told, closed, runs>>
  BY DEF EndTask
<1>c. \A g \in Goals : ~Known(g)' /\ ~Ongoing(g)'
  BY <1>a DEF Known, Ongoing, Live
<1>1. TypeOK'
  <2>1. hand' \in [goal : Goals \cup {NoGoal}, unread : 0 .. MaxWatch, late : BOOLEAN,
                   run : 0 .. MaxRuns]
    BY <1>b, ConstantsAssumption DEF NoHand
  <2>2. box' \in [feedback : SUBSET Goals, results : SUBSET Requests]
    BY <1>b DEF NoMessages
  <2> QED BY <1>a, <1>b, <2>1, <2>2 DEF IInv, TypeOK
<1>2. Control'
  BY <1>b, ConstantsAssumption DEF IInv, Control
<1>3. BookOK'
  <2>1. \A g \in Goals : book'[g].cause = "none"
    BY DEF EndTask, NoEntry
  <2> QED BY <1>a, <1>b, <1>c, <2>1, ConstantsAssumption DEF BookOK
<1>4. TrueReports'
  BY <1>b DEF TrueReports, Ended
<1>5. RunsOwned'
  BY <1>b DEF RunsOwned
<1>6. Vacated'
  BY <1>b, <1>c DEF Vacated, Active
<1>7. OneRunAtATime'
  BY <1>b DEF IInv, OneRunAtATime
<1>8. NoLateFeedback'
  BY <1>b DEF NoLateFeedback, NoMessages
<1>9. HaltedIsStopped'
  BY <1>c DEF HaltedIsStopped
<1>10. Counted'
  BY <1>b DEF IInv, Counted, NoHand
<1>11. NoStaleSpawn'
  BY <1>b DEF IInv, NoStaleSpawn
<1>12. Told'
  BY <1>b DEF Told
<1> QED BY <1>1, <1>2, <1>3, <1>4, <1>5, <1>6, <1>7, <1>8, <1>9, <1>10, <1>11, <1>12 DEF IInv

\* The device spawns the run of the goal in hand.
LEMMA NewRunStep ==
    ASSUME IInv, pc = "spawning", pc' = "spawned", hand' = [hand EXCEPT !.run = Len(runs) + 1],
           runs' = Append(runs, NewRun("no")),
           UNCHANGED <<wire, todo, book, finished, asked, reply, box, told, watch, closed, seam>>
    PROVE  IInv'
<1> DEFINE n == Len(runs) + 1
<1>b. UNCHANGED <<wire, todo, book, finished, asked, reply, box, told, watch, closed, seam>>
  OBVIOUS
<1>c. /\ n \in 1 .. MaxRuns /\ Len(runs) \in Nat /\ hand.goal \in Goals /\ todo = {}
      /\ hand.unread = 0 /\ ~hand.late
  <2>1. Len(runs) \in Nat
    BY DEF IInv, TypeOK
  <2> QED BY <2>1, ConstantsAssumption DEF IInv, Control, NoStaleSpawn
<1>a. /\ runs' \in Seq(Run) /\ Len(runs') = n
      /\ \A r \in 1 .. Len(runs) : runs'[r] = runs[r]
      /\ runs'[n].state = "running" /\ runs'[n].loose = "no"
      /\ \A r \in 1 .. n : r = n \/ r \in 1 .. Len(runs)
  <2>1. runs \in Seq(Run)
    BY DEF IInv, TypeOK, Run
  <2>2. NewRun("no") \in Run /\ NewRun("no").state = "running" /\ NewRun("no").loose = "no"
    BY DEF Run, NewRun
  <2> HIDE DEF NewRun
  <2> QED BY <1>c, <2>1, <2>2
<1>d. hand' \in [goal : Goals \cup {NoGoal}, unread : 0 .. MaxWatch, late : BOOLEAN,
                 run : 0 .. MaxRuns]
      /\ hand'.run = n /\ hand'.goal = hand.goal /\ hand'.unread = 0 /\ ~hand'.late
  <2>1. hand \in [goal : Goals \cup {NoGoal}, unread : 0 .. MaxWatch, late : BOOLEAN,
                  run : 0 .. MaxRuns]
    BY DEF IInv, TypeOK
  <2> QED BY <1>c, <2>1
<1>e. \A g \in Goals : Known(g) => book[g].run \in 1 .. Len(runs)
  BY DEF IInv, BookOK
<1>f. \A g \in Goals : Known(g) => book[g].run # n
  BY <1>c, <1>e
<1>g. \A g \in Goals : Ongoing(g) => Known(g)
  BY DEF Ongoing, Known, Live
<1> HIDE DEF n
<1>h. pc = "spawning" /\ pc' = "spawned"
  OBVIOUS
<1>1. TypeOK'
  BY <1>a, <1>b, <1>d, <1>h DEF IInv, TypeOK, Run
<1>2. Control'
  <2>1. hand'.run \in 1 .. Len(runs') /\ Len(runs') <= MaxRuns
    BY <1>a, <1>c, <1>d
  <2> QED BY <1>b, <1>c, <1>d, <1>f, <1>h, <2>1 DEF IInv, Control, Known
<1>3. BookOK'
  <2>1. \A g \in Goals : Known(g) => book[g].run \in 1 .. Len(runs')
    BY <1>a, <1>c, <1>e DEF n
  <2> QED BY <1>b, <2>1 DEF IInv, BookOK, Known
<1>4. TrueReports'
  <2>1. \A C : Ended(C) => Ended(C)'
    BY <1>a, <1>c DEF Ended, n
  <2> QED BY <1>b, <2>1 DEF IInv, TrueReports
<1>5. RunsOwned'
  <2> SUFFICES ASSUME NEW r \in 1 .. n, runs'[r].state = "running" /\ runs'[r].loose = "no"
               PROVE  \/ hand'.run = r
                      \/ \E g \in Goals : /\ Ongoing(g) /\ book[g].run = r
                                          /\ book[g].cause = "none" \/ g \in todo
    BY <1>a, <1>b, <1>h DEF RunsOwned, Ongoing
  <2>1. CASE r = n
    BY <1>d, <2>1
  <2>2. CASE r \in 1 .. Len(runs)
    BY <1>a, <1>h, <2>2 DEF IInv, RunsOwned
  <2> QED BY <1>a, <2>1, <2>2
<1>6. Vacated'
  BY <1>b, <1>h DEF IInv, Vacated, Active, Ongoing
<1>7. OneRunAtATime'
  <2> SUFFICES ASSUME wire = "bound", NEW r \in 1 .. Len(runs)
               PROVE  ~(runs[r].state = "running" /\ runs[r].loose = "no")
    <3>1. \A r, s \in 1 .. n : r = s \/ r \in 1 .. Len(runs) \/ s \in 1 .. Len(runs)
      BY <1>a
    <3> QED BY <1>a, <1>b, <3>1 DEF OneRunAtATime
  <2>1. Active = {}
    BY <1>h DEF IInv, Vacated
  <2>2. \A g \in Goals : ~(Ongoing(g) /\ book[g].cause = "none")
    BY <2>1 DEF Active
  <2> QED BY <1>c, <1>h, <2>2 DEF IInv, RunsOwned
<1>8. NoLateFeedback'
  BY <1>b, <1>h DEF IInv, NoLateFeedback, Ongoing
<1>9. HaltedIsStopped'
  <2>1. \A g \in Goals : Ongoing(g) => runs'[book[g].run] = runs[book[g].run]
    BY <1>a, <1>e, <1>g
  <2>2. \A g \in Goals : Ongoing(g)' <=> Ongoing(g)
    BY <1>b DEF Ongoing
  <2> QED BY <1>b, <2>1, <2>2 DEF IInv, HaltedIsStopped
<1>10. Counted'
  BY <1>b, <1>h DEF IInv, Counted, NoHand
<1>11. NoStaleSpawn'
  BY <1>d DEF NoStaleSpawn
<1>12. Told'
  BY <1>b, <1>h DEF IInv, Told, Statuses
<1> QED BY <1>1, <1>2, <1>3, <1>4, <1>5, <1>6, <1>7, <1>8, <1>9, <1>10, <1>11, <1>12 DEF IInv

\* The device spawns a run whose handle is none: the goal is rejected.
LEMMA StrayRunStep ==
    ASSUME IInv, pc = "spawning", pc' = "idle", hand' = NoHand,
           runs' = Append(runs, NewRun("stray")),
           UNCHANGED <<wire, todo, book, finished, asked, reply, box, told, watch, closed, seam>>
    PROVE  IInv'
<1> DEFINE n == Len(runs) + 1
<1>b. UNCHANGED <<wire, todo, book, finished, asked, reply, box, told, watch, closed, seam>>
  OBVIOUS
<1>c. /\ n \in 1 .. MaxRuns /\ Len(runs) \in Nat /\ hand.goal \in Goals /\ todo = {}
      /\ hand.unread = 0 /\ ~hand.late
  <2>1. Len(runs) \in Nat
    BY DEF IInv, TypeOK
  <2> QED BY <2>1, ConstantsAssumption DEF IInv, Control, NoStaleSpawn
<1>a. /\ runs' \in Seq(Run) /\ Len(runs') = n
      /\ \A r \in 1 .. Len(runs) : runs'[r] = runs[r]
      /\ runs'[n].state = "running" /\ runs'[n].loose = "stray"
      /\ \A r \in 1 .. n : r = n \/ r \in 1 .. Len(runs)
  <2>1. runs \in Seq(Run)
    BY DEF IInv, TypeOK, Run
  <2>2. NewRun("stray") \in Run /\ NewRun("stray").state = "running" /\ NewRun("stray").loose = "stray"
    BY DEF Run, NewRun
  <2> HIDE DEF NewRun
  <2> QED BY <1>c, <2>1, <2>2
<1>d. hand' \in [goal : Goals \cup {NoGoal}, unread : 0 .. MaxWatch, late : BOOLEAN,
                 run : 0 .. MaxRuns]
      /\ hand' = NoHand
  BY ConstantsAssumption DEF NoHand
<1>e. \A g \in Goals : Known(g) => book[g].run \in 1 .. Len(runs)
  BY DEF IInv, BookOK
<1>f. \A g \in Goals : Known(g) => book[g].run # n
  BY <1>c, <1>e
<1>g. \A g \in Goals : Ongoing(g) => Known(g)
  BY DEF Ongoing, Known, Live
<1> HIDE DEF n
<1>h. pc = "spawning" /\ pc' = "idle"
  OBVIOUS
<1>1. TypeOK'
  BY <1>a, <1>b, <1>d, <1>h DEF IInv, TypeOK, Run
<1>2. Control'
  <2>1. Len(runs') <= MaxRuns
    BY <1>a, <1>c
  <2> QED BY <1>b, <1>c, <1>d, <1>h, <2>1 DEF IInv, Control, Known, NoHand
<1>3. BookOK'
  <2>1. \A g \in Goals : Known(g) => book[g].run \in 1 .. Len(runs')
    BY <1>a, <1>c, <1>e DEF n
  <2> QED BY <1>b, <2>1 DEF IInv, BookOK, Known
<1>4. TrueReports'
  <2>1. \A C : Ended(C) => Ended(C)'
    BY <1>a, <1>c DEF Ended, n
  <2> QED BY <1>b, <2>1 DEF IInv, TrueReports
<1>5. RunsOwned'
  <2> SUFFICES ASSUME NEW r \in 1 .. n, runs'[r].state = "running" /\ runs'[r].loose = "no"
               PROVE  \E g \in Goals : /\ Ongoing(g) /\ book[g].run = r
                                       /\ book[g].cause = "none" \/ g \in todo
    BY <1>a, <1>b, <1>h DEF RunsOwned, Ongoing
  <2>1. r \in 1 .. Len(runs)
    BY <1>a
  <2> QED BY <1>a, <1>h, <2>1 DEF IInv, RunsOwned
<1>6. Vacated'
  BY <1>b, <1>h DEF IInv, Vacated, Active, Ongoing
<1>7. OneRunAtATime'
  BY <1>a, <1>b DEF IInv, OneRunAtATime
<1>8. NoLateFeedback'
  BY <1>b, <1>h DEF IInv, NoLateFeedback, Ongoing
<1>9. HaltedIsStopped'
  <2>1. \A g \in Goals : Ongoing(g) => runs'[book[g].run] = runs[book[g].run]
    BY <1>a, <1>e, <1>g
  <2>2. \A g \in Goals : Ongoing(g)' <=> Ongoing(g)
    BY <1>b DEF Ongoing
  <2> QED BY <1>b, <2>1, <2>2 DEF IInv, HaltedIsStopped
<1>10. Counted'
  BY <1>b, <1>h DEF IInv, Counted, NoHand
<1>11. NoStaleSpawn'
  BY <1>h DEF NoStaleSpawn
<1>12. Told'
  BY <1>b, <1>h DEF IInv, Told, Statuses
<1> QED BY <1>1, <1>2, <1>3, <1>4, <1>5, <1>6, <1>7, <1>8, <1>9, <1>10, <1>11, <1>12 DEF IInv

\* The device spawns the run, or refuses.
LEMMA SpawnStep ==
    ASSUME IInv, Spawn
    PROVE  IInv'
<1>1. /\ pc = "spawning"
      /\ UNCHANGED <<wire, todo, book, finished, asked, reply, box, told, watch, closed, seam>>
  BY DEF Spawn
<1>2. CASE /\ runs' = Append(runs, NewRun("no"))
           /\ pc' = "spawned" /\ hand' = [hand EXCEPT !.run = Len(runs) + 1]
  BY <1>1, <1>2, NewRunStep
<1>3. CASE pc' = "idle" /\ hand' = NoHand /\ UNCHANGED runs
  BY <1>1, <1>3, RejectStep
<1>4. CASE pc' = "idle" /\ hand' = NoHand /\ runs' = Append(runs, NewRun("stray"))
  BY <1>1, <1>4, StrayRunStep
<1> QED BY <1>2, <1>3, <1>4 DEF Spawn

\* One run's record is replaced.
LEMMA RunUpdated ==
    ASSUME IInv, NEW r \in 1 .. Len(runs), NEW v \in Run, runs' = [runs EXCEPT ![r] = v]
    PROVE  /\ runs' \in Seq(Run) /\ Len(runs') = Len(runs)
           /\ \A s \in 1 .. Len(runs) : s # r => runs'[s] = runs[s]
           /\ runs'[r] = v
<1>1. runs \in Seq(Run)
  BY DEF IInv, TypeOK, Run
<1> QED BY <1>1, UpdateSequence

\* What a stop call does to the runs and to what they report.
LEMMA StoppedRun ==
    ASSUME IInv, NEW g \in todo, Stop(g)
    PROVE  LET r == book[g].run
           IN  /\ r \in 1 .. Len(runs) /\ runs' \in Seq(Run) /\ Len(runs') = Len(runs)
               /\ \A s \in 1 .. Len(runs) : s # r => runs'[s] = runs[s]
               /\ runs[r].state # "running" => runs'[r] = runs[r] /\ seam' = seam
               /\ runs'[r].state # "running" \/ runs'[r].loose = "stuck"
               /\ seam' # seam => /\ seam' = seam \cup {<<r, "failure">>}
                                  /\ runs'[r].state # "running"
<1> DEFINE r == book[g].run
<1>1. g \in Goals /\ Ongoing(g)
  BY DEF IInv, TypeOK, Control
<1>2. r \in 1 .. Len(runs)
  BY <1>1 DEF IInv, BookOK, Known, Ongoing, Live
<1>3. runs \in Seq(Run) /\ runs[r] \in Run
  <2>1. runs \in Seq(Run)
    BY DEF IInv, TypeOK, Run
  <2> QED BY <1>2, <2>1
<1>4. CASE runs[r].state # "running" /\ UNCHANGED <<seam, runs>>
  BY <1>2, <1>3, <1>4
<1>5. CASE /\ runs[r].state = "running"
           /\ runs' = [runs EXCEPT ![r].state = "failure"]
           /\ seam' = IF Served THEN seam \cup {<<r, "failure">>} ELSE seam
  <2> DEFINE v == [runs[r] EXCEPT !.state = "failure"]
  <2>1. v \in Run /\ v.state = "failure"
    BY <1>3 DEF Run
  <2>2. runs' = [runs EXCEPT ![r] = v]
    BY <1>5
  <2> HIDE DEF v, r
  <2>3. /\ runs' \in Seq(Run) /\ Len(runs') = Len(runs) /\ runs'[r] = v
        /\ \A s \in 1 .. Len(runs) : s # r => runs'[s] = runs[s]
    BY <1>2, <2>1, <2>2, RunUpdated
  <2> QED BY <1>2, <1>5, <2>1, <2>3 DEF r
<1>6. CASE /\ runs[r].state = "running"
           /\ runs' = [runs EXCEPT ![r].loose = "stuck"]
           /\ UNCHANGED seam
  <2> DEFINE v == [runs[r] EXCEPT !.loose = "stuck"]
  <2>1. v \in Run /\ v.loose = "stuck"
    BY <1>3 DEF Run
  <2>2. runs' = [runs EXCEPT ![r] = v]
    BY <1>6
  <2> HIDE DEF v, r
  <2>3. /\ runs' \in Seq(Run) /\ Len(runs') = Len(runs) /\ runs'[r] = v
        /\ \A s \in 1 .. Len(runs) : s # r => runs'[s] = runs[s]
    BY <1>2, <2>1, <2>2, RunUpdated
  <2> QED BY <1>2, <1>6, <2>1, <2>3 DEF r
<1> QED BY <1>4, <1>5, <1>6 DEF Stop

\* A stop call ends the run, finds it ended, or fails.
LEMMA StopStep ==
    ASSUME IInv, NEW g \in Goals, Stop(g)
    PROVE  IInv'
<1> DEFINE r == book[g].run
<1>b. /\ pc \in {"preempting", "stopping"} /\ g \in todo
      /\ pc' = IF pc = "preempting" THEN "spawning" ELSE pc
      /\ todo' = todo \ {g}
      /\ UNCHANGED <<wire, hand, book, finished, asked, reply, box, told, watch, closed>>
  BY DEF Stop
<1>a. /\ r \in 1 .. Len(runs) /\ runs' \in Seq(Run) /\ Len(runs') = Len(runs)
      /\ \A s \in 1 .. Len(runs) : s # r => runs'[s] = runs[s]
      /\ runs[r].state # "running" => runs'[r] = runs[r] /\ seam' = seam
      /\ runs'[r].state # "running" \/ runs'[r].loose = "stuck"
      /\ seam' # seam => seam' = seam \cup {<<r, "failure">>} /\ runs'[r].state # "running"
  BY <1>b, StoppedRun
<1>c. pc = "preempting" => todo = {g}
  BY <1>b DEF IInv, Control
<1>d. \A h \in Goals : Ongoing(h)' <=> Ongoing(h)
  BY <1>b DEF Ongoing
<1> HIDE DEF r
<1>e. \A s \in 1 .. Len(runs) : runs'[s].state = "running" /\ runs'[s].loose = "no" => s # r
  BY <1>a
<1>1. TypeOK'
  <2>1. r \in RunIds
    <3>1. Len(runs) \in Nat
      BY DEF IInv, TypeOK
    <3> QED BY <1>a, <3>1, ConstantsAssumption DEF IInv, Control, RunIds
  <2>2. seam' \in SUBSET (RunIds \X Writes)
    <3>1. seam \in SUBSET (RunIds \X Writes)
      BY DEF IInv, TypeOK
    <3> QED BY <1>a, <2>1, <3>1 DEF Writes
  <2> QED BY <1>a, <1>b, <2>2 DEF IInv, TypeOK, Run
<1>2. Control'
  BY <1>a, <1>b, <1>c DEF IInv, Control, Known, Ongoing
<1>3. BookOK'
  BY <1>a, <1>b DEF IInv, BookOK, Known, Ongoing
<1>4. TrueReports'
  <2>1. \A C : Ended(C) => Ended(C)'
    BY <1>a DEF Ended
  <2>2. Ended(seam)'
    <3>1. Ended(seam)
      BY DEF IInv, TrueReports
    <3>2. CASE seam' = seam
      BY <2>1, <3>1, <3>2 DEF Ended
    <3>3. CASE seam' # seam
      BY <1>a, <2>1, <3>1, <3>3 DEF Ended
    <3> QED BY <3>2, <3>3
  <2> QED BY <1>b, <2>1, <2>2 DEF IInv, TrueReports
<1>5. RunsOwned'
  <2> SUFFICES ASSUME NEW s \in 1 .. Len(runs), runs'[s].state = "running" /\ runs'[s].loose = "no"
               PROVE  \E h \in Goals : /\ Ongoing(h) /\ book[h].run = s
                                       /\ book[h].cause = "none" \/ h \in todo'
    BY <1>a, <1>b, <1>d DEF RunsOwned
  <2>1. s # r /\ runs[s] = runs'[s]
    BY <1>a, <1>e
  <2>2. PICK h \in Goals : /\ Ongoing(h) /\ book[h].run = s
                           /\ book[h].cause = "none" \/ h \in todo
    BY <1>b, <2>1 DEF IInv, RunsOwned
  <2> QED BY <1>b, <2>1, <2>2 DEF r
<1>6. Vacated'
  <2>1. Active' = Active
    BY <1>b DEF Active, Ongoing
  <2> QED BY <1>b, <2>1 DEF IInv, Vacated
<1>7. OneRunAtATime'
  <2>1. \A s \in 1 .. Len(runs) : runs'[s].state = "running" /\ runs'[s].loose = "no" =>
           runs[s].state = "running" /\ runs[s].loose = "no"
    BY <1>a, <1>e
  <2> QED BY <1>a, <1>b, <2>1 DEF IInv, OneRunAtATime
<1>8. NoLateFeedback'
  BY <1>a, <1>b DEF IInv, NoLateFeedback, Ongoing
<1>9. HaltedIsStopped'
  <2> SUFFICES ASSUME NEW h \in Goals, Ongoing(h), book[h].cause # "none"
               PROVE  \/ runs'[book[h].run].state # "running"
                      \/ h \in todo'
                      \/ runs'[book[h].run].loose = "stuck"
    BY <1>b, <1>d DEF HaltedIsStopped
  <2>1. CASE book[h].run = r
    BY <1>a, <2>1
  <2>2. CASE book[h].run # r
    <3>1. book[h].run \in 1 .. Len(runs)
      BY DEF IInv, BookOK, Known, Ongoing, Live
    <3>2. runs'[book[h].run] = runs[book[h].run]
      BY <1>a, <2>2, <3>1
    <3>3. h # g
      BY <2>2 DEF r
    <3> QED BY <1>b, <3>2, <3>3 DEF IInv, HaltedIsStopped
  <2> QED BY <2>1, <2>2
<1>10. Counted'
  BY <1>a, <1>b DEF IInv, Counted, NoHand
<1>11. NoStaleSpawn'
  BY <1>a, <1>b DEF IInv, NoStaleSpawn
<1>12. Told'
  BY <1>b DEF IInv, Told
<1> QED BY <1>1, <1>2, <1>3, <1>4, <1>5, <1>6, <1>7, <1>8, <1>9, <1>10, <1>11, <1>12 DEF IInv

\* A run writes, and may end.
LEMMA RunWritesStep ==
    ASSUME IInv, NEW r \in RunIds, NEW W \in RunWriteSets, RunWrites(r, W)
    PROVE  IInv'
<1>b. /\ r \in 1 .. Len(runs) /\ runs[r].state = "running"
      /\ seam' = seam \cup {<<r, w>> : w \in W}
      /\ UNCHANGED <<wire, pc, hand, todo, book, finished, asked, reply, box, told, watch, closed>>
  BY DEF RunWrites, taskVars
<1>c. W \subseteq Writes
  BY ConstantsAssumption
<1> DEFINE v == [runs[r] EXCEPT !.wrote = @ \/ "result" \in W,
                                !.state = IF "success" \in W THEN "success"
                                          ELSE IF "failure" \in W THEN "failure" ELSE @]
<1>d. runs \in Seq(Run) /\ runs[r] \in Run
  <2>1. runs \in Seq(Run)
    BY DEF IInv, TypeOK, Run
  <2> QED BY <1>b, <2>1
<1>e. /\ v \in Run /\ v.loose = runs[r].loose
      /\ "success" \in W \/ "failure" \in W => v.state # "running"
  BY <1>d DEF Run
<1>f. runs' = [runs EXCEPT ![r] = v]
  BY <1>d DEF RunWrites, Run
<1> HIDE DEF v
<1>a. /\ runs' \in Seq(Run) /\ Len(runs') = Len(runs) /\ runs'[r] = v
      /\ \A s \in 1 .. Len(runs) : s # r => runs'[s] = runs[s]
  BY <1>b, <1>e, <1>f, RunUpdated
<1>g. \A s \in 1 .. Len(runs) :
         /\ runs'[s].loose = runs[s].loose
         /\ runs[s].state # "running" => runs'[s].state # "running"
  BY <1>a, <1>b, <1>e
<1>1. TypeOK'
  <2>1. seam' \in SUBSET (RunIds \X Writes)
    <3>1. seam \in SUBSET (RunIds \X Writes)
      BY DEF IInv, TypeOK
    <3> QED BY <1>b, <1>c, <3>1
  <2> QED BY <1>a, <1>b, <2>1 DEF IInv, TypeOK, Run
<1>2. Control'
  BY <1>a, <1>b DEF IInv, Control, Known, Ongoing
<1>3. BookOK'
  BY <1>a, <1>b DEF IInv, BookOK, Known, Ongoing
<1>4. TrueReports'
  <2>1. \A C : Ended(C) => Ended(C)'
    BY <1>a, <1>g DEF Ended
  <2>2. Ended({<<r, w>> : w \in W})'
    BY <1>a, <1>b, <1>e DEF Ended
  <2>3. Ended(seam)'
    <3>1. Ended(seam)
      BY DEF IInv, TrueReports
    <3> QED BY <1>b, <2>1, <2>2, <3>1 DEF Ended
  <2> QED BY <1>b, <2>1, <2>3 DEF IInv, TrueReports
<1>5. RunsOwned'
  BY <1>a, <1>b, <1>g DEF IInv, RunsOwned, Ongoing
<1>6. Vacated'
  BY <1>a, <1>b DEF IInv, Vacated, Active, Ongoing
<1>7. OneRunAtATime'
  BY <1>a, <1>b, <1>g DEF IInv, OneRunAtATime
<1>8. NoLateFeedback'
  BY <1>a, <1>b DEF IInv, NoLateFeedback, Ongoing
<1>9. HaltedIsStopped'
  <2> SUFFICES ASSUME NEW h \in Goals, Ongoing(h), book[h].cause # "none"
               PROVE  \/ runs'[book[h].run].state # "running"
                      \/ h \in todo
                      \/ runs'[book[h].run].loose = "stuck"
    BY <1>b DEF HaltedIsStopped, Ongoing
  <2>1. book[h].run \in 1 .. Len(runs)
    BY DEF IInv, BookOK, Known, Ongoing, Live
  <2> QED BY <1>g, <2>1 DEF IInv, HaltedIsStopped
<1>10. Counted'
  BY <1>a, <1>b DEF IInv, Counted, NoHand
<1>11. NoStaleSpawn'
  BY <1>a, <1>b DEF IInv, NoStaleSpawn
<1>12. Told'
  BY <1>a, <1>b DEF IInv, Told, Statuses
<1> QED BY <1>1, <1>2, <1>3, <1>4, <1>5, <1>6, <1>7, <1>8, <1>9, <1>10, <1>11, <1>12 DEF IInv

\* The node task sends an item.
LEMMA SentStep ==
    ASSUME IInv, NEW item \in [kind : {"change"}, change : SUBSET (RunIds \X Writes)] \cup [kind : {"resolved"}],
           Served, Len(watch) < MaxWatch, watch' = Append(watch, item),
           item.kind = "change" => Ended(item.change),
           seam' \subseteq seam, UNCHANGED <<wire, taskVars, closed, runs>>
    PROVE  IInv'
<1>b. UNCHANGED <<wire, pc, hand, todo, book, finished, asked, reply, box, told, closed, runs>>
  BY DEF taskVars
<1>c. Len(watch) \in Nat
  BY DEF IInv, TypeOK
<1>a. /\ Len(watch') = Len(watch) + 1
      /\ \A i \in 1 .. Len(watch) : watch'[i] = watch[i]
      /\ watch'[Len(watch) + 1] = item
      /\ watch' \in Seq([kind : {"change"}, change : SUBSET (RunIds \X Writes)] \cup [kind : {"resolved"}])
  <2>1. watch \in Seq([kind : {"change"}, change : SUBSET (RunIds \X Writes)] \cup [kind : {"resolved"}])
    BY DEF IInv, TypeOK
  <2> QED BY <1>c, <2>1
<1>1. TypeOK'
  BY <1>a, <1>b DEF IInv, TypeOK
<1>2. Control'
  BY <1>a, <1>b, <1>c, ConstantsAssumption DEF IInv, Control, Known, Ongoing
<1>3. BookOK'
  BY <1>b DEF IInv, BookOK, Known, Ongoing
<1>4. TrueReports'
  <2>1. Ended(seam)'
    BY <1>b DEF IInv, TrueReports, Ended
  <2>2. \A i \in 1 .. Len(watch) + 1 : i \in 1 .. Len(watch) \/ i = Len(watch) + 1
    BY <1>c
  <2>3. \A C : Ended(C)' <=> Ended(C)
    BY <1>b DEF Ended
  <2> QED BY <1>a, <2>1, <2>2, <2>3 DEF IInv, TrueReports
<1>5. RunsOwned'
  BY <1>b DEF IInv, RunsOwned, Ongoing
<1>6. Vacated'
  BY <1>b DEF IInv, Vacated, Active, Ongoing
<1>7. OneRunAtATime'
  BY <1>b DEF IInv, OneRunAtATime
<1>8. NoLateFeedback'
  BY <1>b DEF IInv, NoLateFeedback, Ongoing
<1>9. HaltedIsStopped'
  BY <1>b DEF IInv, HaltedIsStopped, Ongoing
<1>10. Counted'
  <2>1. hand.unread \in Nat
    BY ConstantsAssumption DEF IInv, TypeOK
  <2> QED BY <1>a, <1>b, <1>c, <2>1 DEF IInv, Counted
<1>11. NoStaleSpawn'
  BY <1>b DEF IInv, NoStaleSpawn
<1>12. Told'
  BY <1>b DEF IInv, Told, Statuses
<1> QED BY <1>1, <1>2, <1>3, <1>4, <1>5, <1>6, <1>7, <1>8, <1>9, <1>10, <1>11, <1>12 DEF IInv

\* The node task forwards what the seam merged, or a resolution.
LEMMA ForwardStep ==
    ASSUME IInv, Forward \/ Resolve
    PROVE  IInv'
<1>1. CASE Forward
  <2>1. seam \in SUBSET (RunIds \X Writes) /\ Ended(seam)
    BY DEF IInv, TypeOK, TrueReports
  <2>2. Change(seam) \in [kind : {"change"}, change : SUBSET (RunIds \X Writes)]
    BY <2>1 DEF Change
  <2>3. Change(seam).change = seam
    BY DEF Change
  <2> QED BY <1>1, <2>1, <2>2, <2>3, SentStep DEF Forward
<1>2. CASE Resolve
  <2>1. Resolved \in [kind : {"resolved"}] /\ Resolved.kind # "change"
    BY DEF Resolved
  <2> QED BY <1>2, <2>1, SentStep DEF Resolve
<1> QED BY <1>1, <1>2

\* The node task retires the action.
LEMMA RetireStep ==
    ASSUME IInv, Retire
    PROVE  IInv'
<1>b. /\ closed' = TRUE /\ seam' = {}
      /\ UNCHANGED <<wire, pc, hand, todo, book, finished, asked, reply, box, told, watch, runs>>
  BY DEF Retire, taskVars
<1>1. TypeOK'
  BY <1>b DEF IInv, TypeOK
<1>2. Control'
  BY <1>b DEF IInv, Control, Known, Ongoing
<1>3. BookOK'
  BY <1>b DEF IInv, BookOK, Known, Ongoing
<1>4. TrueReports'
  BY <1>b DEF IInv, TrueReports, Ended
<1>5. RunsOwned'
  BY <1>b DEF IInv, RunsOwned, Ongoing
<1>6. Vacated'
  BY <1>b DEF IInv, Vacated, Active, Ongoing
<1>7. OneRunAtATime'
  BY <1>b DEF IInv, OneRunAtATime
<1>8. NoLateFeedback'
  BY <1>b DEF IInv, NoLateFeedback, Ongoing
<1>9. HaltedIsStopped'
  BY <1>b DEF IInv, HaltedIsStopped, Ongoing
<1>10. Counted'
  BY <1>b DEF IInv, Counted
<1>11. NoStaleSpawn'
  BY <1>b DEF IInv, NoStaleSpawn
<1>12. Told'
  BY <1>b DEF IInv, Told, Statuses
<1> QED BY <1>1, <1>2, <1>3, <1>4, <1>5, <1>6, <1>7, <1>8, <1>9, <1>10, <1>11, <1>12 DEF IInv

\* A reply is an outcome, or that the goal is unknown.
LEMMA ReplyType ==
    ASSUME TypeOK, NEW b \in [Goals -> Entry], NEW q \in Ready(b, Waiting)
    PROVE  q \in Requests /\ asked[q] \in Goals /\ reply[q] = "none"
           /\ Reply(b, q) \in {"unknown"} \cup Outcomes
<1>1. q \in Requests /\ asked[q] \in Goals /\ reply[q] = "none"
  BY DEF Ready, Waiting, TypeOK
<1>2. b[asked[q]].status \in {"none"} \cup Outcomes
  <2>1. b[asked[q]] \in Entry
    BY <1>1
  <2> QED BY <2>1 DEF Ready, Entry
<1> QED BY <1>1, <1>2 DEF Reply

\* A change applied leaves every goal whose run goes on as it was, and tells the
\* statuses it changed.
LEMMA ObserveChangeStep ==
    ASSUME IInv, NEW C, Ended(C), ObserveChange(C), pc \in {"idle", "draining"},
           UNCHANGED <<pc, asked, runs>>
    PROVE  /\ book' \in [Goals -> Entry] /\ finished' \in Seq(Goals) /\ BookOK'
           /\ \A g \in Goals : Ongoing(g)' =>
                 /\ Ongoing(g) /\ book'[g].cause = book[g].cause /\ book'[g].run = book[g].run
           /\ \A g \in Goals : Ongoing(g) /\ runs[book[g].run].state = "running" =>
                 /\ Ongoing(g)' /\ book'[g].cause = book[g].cause /\ book'[g].run = book[g].run
           /\ reply' \in [Requests -> {"none", "unknown"} \cup Outcomes]
           /\ box' \in [feedback : SUBSET Goals, results : SUBSET Requests]
           /\ \A g \in box'.feedback : Ongoing(g)'
           /\ told' = Statuses(book')
<1>1. Observe(C) /\ TypeOK /\ BookOK
  BY DEF ObserveChange, IInv
<1>2. /\ book' \in [Goals -> Entry] /\ finished' \in Seq(Goals) /\ BookOK'
      /\ \A g \in Goals : Ongoing(g)' =>
            /\ Ongoing(g) /\ g \notin Ending(C)
            /\ book'[g].status = book[g].status /\ book'[g].cause = book[g].cause
            /\ book'[g].run = book[g].run
      /\ \A g \in Goals : Ongoing(g) /\ g \notin Ending(C) => book'[g] = Observed(g, C)
      /\ Ending(C) = {} => \A g \in Goals : book'[g].status = book[g].status
  BY <1>1, ObserveStep
<1>3. ASSUME NEW g \in Goals, Ongoing(g), g \notin Ending(C)
      PROVE  Ongoing(g)' /\ book'[g].cause = book[g].cause /\ book'[g].run = book[g].run
  <2>1. /\ Observed(g, C).status = book[g].status /\ Observed(g, C).cause = book[g].cause
        /\ Observed(g, C).run = book[g].run
    BY <1>1, <1>3, ObservedGoal
  <2> QED BY <1>2, <1>3, <2>1 DEF Ongoing
<1>4. ASSUME NEW g \in Goals, Ongoing(g), runs[book[g].run].state = "running"
      PROVE  g \notin Ending(C)
  <2>1. g \in Ending(C) => \E w \in {"success", "failure"} : <<book[g].run, w>> \in C
    BY <1>1, <1>4, ObservedGoal
  <2> QED BY <1>4, <2>1 DEF Ended
<1>5. told = Statuses(book) /\ \A g \in box.feedback : Ongoing(g)
  BY DEF IInv, Told, NoLateFeedback
<1>6. /\ reply \in [Requests -> {"none", "unknown"} \cup Outcomes]
      /\ box \in [feedback : SUBSET Goals, results : SUBSET Requests]
  BY DEF IInv, TypeOK
<1>7. Ending(C) = {} => Statuses(book') = Statuses(book)
  BY <1>2 DEF Statuses
<1>8. CASE Fed(C) \cup Ending(C) = {}
  <2>1. UNCHANGED <<reply, told, box>>
    BY <1>8 DEF ObserveChange
  <2>2. \A g \in box.feedback : Ongoing(g)'
    BY <1>3, <1>5, <1>6, <1>8
  <2> QED BY <1>2, <1>3, <1>4, <1>5, <1>6, <1>7, <1>8, <2>1, <2>2
<1>9. CASE Fed(C) \cup Ending(C) # {}
  <2> DEFINE ready == IF Ending(C) = {} THEN {} ELSE Ready(book', Waiting)
  <2>1. /\ Answer(book', ready)
        /\ told' = IF Ending(C) = {} THEN told ELSE Statuses(book')
        /\ Flush([feedback |-> KeptFeedback(C), results |-> box.results \cup ready])
    BY <1>9 DEF ObserveChange
  <2>2. \A q \in ready : q \in Requests /\ Reply(book', q) \in {"unknown"} \cup Outcomes
    BY <1>1, <1>2, ReplyType
  <2> HIDE DEF ready
  <2>3. reply' \in [Requests -> {"none", "unknown"} \cup Outcomes]
    BY <1>6, <2>1, <2>2 DEF Answer
  <2>4. /\ box' \in [feedback : SUBSET Goals, results : SUBSET Requests]
        /\ box'.feedback \subseteq KeptFeedback(C)
    <3>1. KeptFeedback(C) \subseteq Goals
      BY <1>6 DEF KeptFeedback, Fed
    <3>2. box.results \cup ready \subseteq Requests
      BY <1>6, <2>2
    <3> QED BY <2>1, <3>1, <3>2 DEF Flush
  <2>5. \A g \in KeptFeedback(C) : g \in Goals /\ Ongoing(g) /\ g \notin Ending(C)
    BY <1>5, <1>6 DEF KeptFeedback, Fed
  <2>6. told' = Statuses(book')
    BY <1>5, <1>7, <2>1
  <2> QED BY <1>2, <1>3, <1>4, <2>3, <2>4, <2>5, <2>6
<1> QED BY <1>8, <1>9

\* The task takes the next item sent to it.
LEMMA TakeWatchedStep ==
    ASSUME IInv, TakeWatched
    PROVE  IInv'
<1>b. /\ pc \in {"idle", "draining"} /\ watch # <<>> /\ watch' = Tail(watch)
      /\ hand' = [hand EXCEPT !.unread = IF @ = 0 THEN 0 ELSE @ - 1]
      /\ UNCHANGED <<wire, pc, todo, asked, closed, seam, runs>>
  BY DEF TakeWatched
<1>c. watch \in Seq([kind : {"change"}, change : SUBSET (RunIds \X Writes)] \cup [kind : {"resolved"}]) /\ Len(watch) \in Nat \ {0}
  <2>1. watch \in Seq([kind : {"change"}, change : SUBSET (RunIds \X Writes)] \cup [kind : {"resolved"}])
    BY DEF IInv, TypeOK
  <2> QED BY <1>b, <2>1
<1>d. /\ Len(watch') = Len(watch) - 1 /\ watch' \in Seq([kind : {"change"}, change : SUBSET (RunIds \X Writes)] \cup [kind : {"resolved"}])
      /\ \A i \in 1 .. Len(watch') : i + 1 \in 1 .. Len(watch) /\ watch'[i] = watch[i + 1]
      /\ Head(watch) = watch[1] /\ 1 \in 1 .. Len(watch)
  BY <1>b, <1>c
<1>a. /\ book' \in [Goals -> Entry] /\ finished' \in Seq(Goals) /\ BookOK'
      /\ \A g \in Goals : Ongoing(g)' =>
            /\ Ongoing(g) /\ book'[g].cause = book[g].cause /\ book'[g].run = book[g].run
      /\ \A g \in Goals : Ongoing(g) /\ runs[book[g].run].state = "running" =>
            /\ Ongoing(g)' /\ book'[g].cause = book[g].cause /\ book'[g].run = book[g].run
      /\ reply' \in [Requests -> {"none", "unknown"} \cup Outcomes]
      /\ box' \in [feedback : SUBSET Goals, results : SUBSET Requests]
      /\ \A g \in box'.feedback : Ongoing(g)'
      /\ told' = Statuses(book')
  <2>1. CASE Head(watch).kind = "change" /\ ObserveChange(Head(watch).change)
    <3>1. Ended(Head(watch).change)
      BY <1>d, <2>1 DEF IInv, TrueReports
    <3> QED BY <1>b, <2>1, <3>1, ObserveChangeStep
  <2>2. CASE UNCHANGED <<book, finished, reply, box, told>>
    <3>1. /\ book \in [Goals -> Entry] /\ finished \in Seq(Goals)
          /\ reply \in [Requests -> {"none", "unknown"} \cup Outcomes]
          /\ box \in [feedback : SUBSET Goals, results : SUBSET Requests]
      BY DEF IInv, TypeOK
    <3>2. told = Statuses(book) /\ \A g \in box.feedback : Ongoing(g)
      BY <1>b DEF IInv, Told, NoLateFeedback
    <3>3. BookOK'
      BY <1>b, <2>2 DEF IInv, BookOK, Known
    <3>4. \A g \in Goals : Ongoing(g)' <=> Ongoing(g)
      BY <2>2 DEF Ongoing
    <3> QED BY <2>2, <3>1, <3>2, <3>3, <3>4
  <2> QED BY <2>1, <2>2 DEF TakeWatched
<1>e. /\ hand' \in [goal : Goals \cup {NoGoal}, unread : 0 .. MaxWatch, late : BOOLEAN,
                    run : 0 .. MaxRuns]
      /\ hand'.late = hand.late /\ hand'.unread <= (IF hand.unread = 0 THEN 0 ELSE hand.unread - 1)
      /\ hand.unread \in Nat
  <2>1. hand \in [goal : Goals \cup {NoGoal}, unread : 0 .. MaxWatch, late : BOOLEAN,
                  run : 0 .. MaxRuns]
    BY DEF IInv, TypeOK
  <2> DEFINE u == IF hand.unread = 0 THEN 0 ELSE hand.unread - 1
  <2>2. u \in 0 .. MaxWatch /\ hand.unread \in Nat
    BY <2>1, ConstantsAssumption
  <2>3. hand' = [hand EXCEPT !.unread = u]
    BY <1>b
  <2>4. u <= (IF hand.unread = 0 THEN 0 ELSE hand.unread - 1)
    BY <2>2
  <2> HIDE DEF u
  <2> QED BY <2>1, <2>2, <2>3, <2>4
<1>1. TypeOK'
  <2>1. told' \in [Goals -> {"none"} \cup Live \cup Outcomes]
    BY <1>a DEF Statuses, Entry
  <2> QED BY <1>a, <1>b, <1>d, <1>e, <2>1 DEF IInv, TypeOK
<1>2. Control'
  <2>1. todo = {} /\ Len(watch') <= MaxWatch
    BY <1>b, <1>c, <1>d, ConstantsAssumption DEF IInv, Control
  <2> QED BY <1>b, <2>1 DEF IInv, Control
<1>3. BookOK'
  BY <1>a
<1>4. TrueReports'
  <2>1. \A C : Ended(C)' <=> Ended(C)
    BY <1>b DEF Ended
  <2> QED BY <1>b, <1>d, <2>1 DEF IInv, TrueReports
<1>5. RunsOwned'
  <2> SUFFICES ASSUME NEW r \in 1 .. Len(runs), runs[r].state = "running" /\ runs[r].loose = "no"
               PROVE  \E g \in Goals : Ongoing(g)' /\ book'[g].run = r /\ book'[g].cause = "none"
    BY <1>b DEF RunsOwned
  <2>1. PICK g \in Goals : Ongoing(g) /\ book[g].run = r /\ book[g].cause = "none"
    BY <1>b DEF IInv, RunsOwned, Control
  <2> QED BY <1>a, <2>1
<1>6. Vacated'
  <2>1. \A g \in Active' : g \in Active
    BY <1>a DEF Active
  <2> QED BY <1>b, <2>1 DEF IInv, Vacated
<1>7. OneRunAtATime'
  BY <1>b DEF IInv, OneRunAtATime
<1>8. NoLateFeedback'
  BY <1>a DEF NoLateFeedback
<1>9. HaltedIsStopped'
  BY <1>a, <1>b DEF IInv, HaltedIsStopped
<1>10. Counted'
  <2>1. pc = "draining" => hand'.unread <= Len(watch') /\ (hand'.late => closed')
    BY <1>b, <1>c, <1>d, <1>e DEF IInv, Counted
  <2> QED BY <1>b, <2>1 DEF Counted
<1>11. NoStaleSpawn'
  BY <1>b DEF IInv, NoStaleSpawn
<1>12. Told'
  BY <1>a DEF Told
<1> QED BY <1>1, <1>2, <1>3, <1>4, <1>5, <1>6, <1>7, <1>8, <1>9, <1>10, <1>11, <1>12 DEF IInv

\* The inductive invariant does not speak of what a stuttering step changes.
LEMMA StutterStep ==
    ASSUME IInv, UNCHANGED vars
    PROVE  IInv'
<1> USE DEF vars, taskVars
<1>1. TypeOK' /\ Control' /\ BookOK'
  BY DEF IInv, TypeOK, Control, BookOK, Known, Ongoing
<1>2. TrueReports' /\ RunsOwned' /\ Vacated'
  BY DEF IInv, TrueReports, Ended, RunsOwned, Vacated, Active, Ongoing
<1>3. OneRunAtATime' /\ NoLateFeedback' /\ HaltedIsStopped'
  BY DEF IInv, OneRunAtATime, NoLateFeedback, HaltedIsStopped, Ongoing
<1>4. Counted' /\ NoStaleSpawn' /\ Told'
  BY DEF IInv, Counted, NoStaleSpawn, Told, Statuses
<1> QED BY <1>1, <1>2, <1>3, <1>4 DEF IInv

\* The inductive invariant holds initially.
LEMMA InitIInv == Init => IInv
<1> SUFFICES ASSUME Init PROVE IInv
  OBVIOUS
<1>0. NoEntry \in Entry /\ NoEntry.status = "none"
  BY ConstantsAssumption DEF NoEntry, Entry
<1>1. book \in [Goals -> Entry] /\ \A g \in Goals : book[g].status = "none"
  BY <1>0 DEF Init
<1>2. \A g \in Goals : ~Known(g) /\ ~Ongoing(g)
  BY <1>1 DEF Known, Ongoing, Live
<1>3. TypeOK
  <2>1. hand \in [goal : Goals \cup {NoGoal}, unread : 0 .. MaxWatch, late : BOOLEAN,
                  run : 0 .. MaxRuns]
    BY ConstantsAssumption DEF Init, NoHand
  <2>2. box \in [feedback : SUBSET Goals, results : SUBSET Requests]
    BY DEF Init, NoMessages
  <2>3. /\ asked \in [Requests -> Goals \cup {NoGoal}]
        /\ reply \in [Requests -> {"none", "unknown"} \cup Outcomes]
        /\ told \in [Goals -> {"none"} \cup Live \cup Outcomes]
    BY DEF Init
  <2>4. \A T : <<>> \in Seq(T)
    OBVIOUS
  <2>5. /\ finished = <<>> /\ watch = <<>> /\ runs = <<>> /\ seam = {} /\ closed = FALSE
        /\ wire \in Wires /\ pc = "idle" /\ todo = {}
    BY DEF Init
  <2> HIDE DEF Init
  <2> QED BY <1>1, <2>1, <2>2, <2>3, <2>4, <2>5 DEF TypeOK
<1>4. Control
  BY <1>2, ConstantsAssumption DEF Init, Control
<1>5. BookOK
  <2>1. \A g \in Goals : book[g].cause = "none"
    BY DEF Init, NoEntry
  <2> QED BY <1>1, <1>2, <2>1, ConstantsAssumption DEF Init, BookOK
<1>6. TrueReports /\ RunsOwned /\ OneRunAtATime
  BY DEF Init, TrueReports, Ended, RunsOwned, OneRunAtATime
<1>7. Vacated /\ HaltedIsStopped
  BY <1>2 DEF Vacated, Active, HaltedIsStopped
<1>8. NoLateFeedback
  BY DEF Init, NoLateFeedback, NoMessages
<1>9. Counted /\ NoStaleSpawn
  BY DEF Init, Counted, NoStaleSpawn
<1>10. Told
  BY <1>1 DEF Init, Told, Statuses
<1> QED BY <1>3, <1>4, <1>5, <1>6, <1>7, <1>8, <1>9, <1>10 DEF IInv

\* Every step of the task, the device and the node task keeps the inductive
\* invariant.
LEMMA NextIInv == IInv /\ [Next]_vars => IInv'
<1> SUFFICES ASSUME IInv, [Next]_vars PROVE IInv'
  OBVIOUS
<1>1. CASE TakeWatched
  BY <1>1, TakeWatchedStep
<1>2. ASSUME NEW g \in Goals \cup {NoGoal}, ReceiveGoal(g) PROVE IInv'
  BY <1>2, ReceiveGoalStep
<1>3. CASE HandleGoal
  BY <1>3, HandleGoalStep
<1>4. CASE Accept
  BY <1>4, AcceptStep
<1>5. ASSUME NEW id \in Goals \cup {NoGoal}, NEW stamp \in 0 .. Len(runs), ReceiveCancel(id, stamp)
      PROVE  IInv'
  BY <1>5, ReceiveCancelStep
<1>6. CASE FinishCancel
  BY <1>6, FinishCancelStep
<1>7. ASSUME NEW q \in Requests, NEW g \in Goals, ReceiveResult(q, g) PROVE IInv'
  BY <1>7, ReceiveResultStep
<1>8. CASE Retry
  BY <1>8, RetryStep
<1>9. CASE End \/ ReceiveFails
  BY <1>9, EndTaskStep DEF End, ReceiveFails
<1>10. CASE Spawn
  BY <1>10, SpawnStep
<1>11. ASSUME NEW g \in Goals, Stop(g) PROVE IInv'
  BY <1>11, StopStep
<1>12. ASSUME NEW r \in RunIds, NEW W \in RunWriteSets, RunWrites(r, W) PROVE IInv'
  BY <1>12, RunWritesStep
<1>13. CASE Forward \/ Resolve
  BY <1>13, ForwardStep
<1>14. CASE Retire
  BY <1>14, RetireStep
<1>15. CASE UNCHANGED vars
  BY <1>15, StutterStep
<1> QED BY <1>1, <1>2, <1>3, <1>4, <1>5, <1>6, <1>7, <1>8, <1>9, <1>10, <1>11, <1>12, <1>13,
           <1>14, <1>15 DEF Next

-----------------------------------------------------------------------------
(* The theorems.                                                             *)

\* The task, its book, its outboxes and the device's runs are well formed in
\* every reachable state, and the inductive invariant holds.
THEOREM Invariant == Spec => []IInv
<1>1. IInv /\ [Next]_vars => IInv'
  BY NextIInv
<1> QED BY <1>1, InitIInv, PTL DEF Spec

\* The state is well formed (TypeOK).
THEOREM TypeCorrect == Spec => []TypeOK
<1>1. IInv => TypeOK
  BY DEF IInv
<1> QED BY <1>1, Invariant, PTL

\* A bound action has at most one run going (handle_goal), whatever the number
\* of goals, requests, runs and items sent: no interleaving of a preemption's
\* stop, a spawn and the runs' own ends gives it a second.
THEOREM BoundServesOne == Spec => []OneRunAtATime
<1>1. IInv => OneRunAtATime
  BY DEF IInv
<1> QED BY <1>1, Invariant, PTL

\* No feedback is held for a goal that has its outcome (observe_change).
THEOREM FeedbackInTime == Spec => []NoLateFeedback
<1>1. IInv => NoLateFeedback
  BY DEF IInv
<1> QED BY <1>1, Invariant, PTL

\* The newest status array offered is the book's between two requests
\* (action_task).
THEOREM StatusesTold == Spec => []StatusTold
<1>1. IInv => StatusTold
  BY DEF IInv, Told, StatusTold
<1> QED BY <1>1, Invariant, PTL

\* A goal marked halted has its stop made or on its way (handle_goal,
\* handle_cancel).
THEOREM HaltsReachTheRun == Spec => []HaltedIsStopped
<1>1. IInv => HaltedIsStopped
  BY DEF IInv
<1> QED BY <1>1, Invariant, PTL

\* What is spawned is spawned with all that was sent before its goal applied
\* (action_task).
THEOREM SpawnsUpToDate == Spec => []NoStaleSpawn
<1>1. IInv => NoStaleSpawn
  BY DEF IInv
<1> QED BY <1>1, Invariant, PTL

-----------------------------------------------------------------------------
(* What a step may do to the book, and that it is one of ActionGoals.        *)

ChangesBook ==
    \/ UNCHANGED <<book, asked, reply>>
    \/ \E g \in Active : MarkPreempted(g) /\ UNCHANGED <<asked, reply>>
    \/ Accept /\ ~Known(hand.goal)
    \/ \E id, stamp : ReceiveCancel(id, stamp)
    \/ \E C : ObserveChange(C) /\ UNCHANGED <<asked, runs>>
    \/ \E q \in Requests, g \in Goals : ReceiveResult(q, g)
    \/ EndTask

\* Every step changes the goals as one of a few operations does.
LEMMA NextChangesBook ==
    ASSUME [Next]_vars
    PROVE  ChangesBook
<1>1. CASE TakeWatched
  BY <1>1 DEF TakeWatched, ChangesBook
<1>2. ASSUME NEW g \in Goals \cup {NoGoal}, ReceiveGoal(g) PROVE ChangesBook
  BY <1>2 DEF ReceiveGoal, ChangesBook
<1>3. CASE HandleGoal
  BY <1>3 DEF HandleGoal, Arbitrate, Reject, MarkPreempted, ChangesBook
<1>4. CASE Accept
  BY <1>4 DEF Accept, ChangesBook
<1>5. ASSUME NEW id \in Goals \cup {NoGoal}, NEW stamp \in 0 .. Len(runs), ReceiveCancel(id, stamp)
      PROVE  ChangesBook
  BY <1>5 DEF ChangesBook
<1>6. CASE FinishCancel
  BY <1>6 DEF FinishCancel, ChangesBook
<1>7. ASSUME NEW q \in Requests, NEW g \in Goals, ReceiveResult(q, g) PROVE ChangesBook
  BY <1>7 DEF ChangesBook
<1>8. CASE Retry
  BY <1>8 DEF Retry, ChangesBook
<1>9. CASE End \/ ReceiveFails
  BY <1>9 DEF End, ReceiveFails, ChangesBook
<1>10. CASE Spawn
  BY <1>10 DEF Spawn, ChangesBook
<1>11. ASSUME NEW g \in Goals, Stop(g) PROVE ChangesBook
  BY <1>11 DEF Stop, ChangesBook
<1>12. ASSUME NEW r \in RunIds, NEW W \in RunWriteSets, RunWrites(r, W) PROVE ChangesBook
  BY <1>12 DEF RunWrites, taskVars, ChangesBook
<1>13. CASE Forward \/ Resolve \/ Retire
  BY <1>13 DEF Forward, Resolve, Retire, taskVars, ChangesBook
<1>14. CASE UNCHANGED vars
  BY <1>14 DEF vars, taskVars, ChangesBook
<1> QED BY <1>1, <1>2, <1>3, <1>4, <1>5, <1>6, <1>7, <1>8, <1>9, <1>10, <1>11, <1>12, <1>13,
           <1>14 DEF Next

KeepsCauses ==
    \A g \in Goals :
       book[g].cause # "none" /\ book'[g].run = book[g].run => book'[g].cause = book[g].cause

\* No operation changes the cause of a halt that is recorded.
LEMMA StepKeepsCauses ==
    ASSUME IInv, ChangesBook
    PROVE  KeepsCauses
<1>0. TypeOK /\ BookOK /\ book \in [Goals -> Entry]
  BY DEF IInv, TypeOK
<1>1. \A g \in Goals : book[g].cause # "none" => book[g].run # 0
  BY DEF IInv, BookOK
<1>2. CASE UNCHANGED <<book, asked, reply>>
  BY <1>2 DEF KeepsCauses
<1>3. ASSUME NEW g \in Active, MarkPreempted(g) PROVE KeepsCauses
  BY <1>0, <1>3 DEF MarkPreempted, Active, KeepsCauses
<1>4. CASE Accept /\ ~Known(hand.goal)
  <2>1. book' = [book EXCEPT ![hand.goal] = [NoEntry EXCEPT !.status = "executing", !.run = hand.run]]
    BY <1>4 DEF Accept
  <2>2. \A g \in Goals : g # hand.goal => book'[g] = book[g]
    BY <1>0, <2>1
  <2>3. hand.goal \in Goals => book[hand.goal].cause = "none"
    BY <1>0, <1>4 DEF BookOK
  <2> QED BY <2>2, <2>3 DEF KeepsCauses
<1>5. ASSUME NEW id, NEW stamp, ReceiveCancel(id, stamp) PROVE KeepsCauses
  <2>1. \A g \in Goals : book[g] \in Entry
    BY <1>0
  <2>2. book' = [g \in Goals |->
                   IF g \in Selected(id, stamp)
                   THEN [book[g] EXCEPT !.status = "canceling",
                                        !.cause = IF @ = "none" THEN "cancel" ELSE @]
                   ELSE book[g]]
    BY <1>5 DEF ReceiveCancel
  <2> QED BY <2>1, <2>2 DEF Entry, KeepsCauses
<1>6. ASSUME NEW C, ObserveChange(C), UNCHANGED <<asked, runs>> PROVE KeepsCauses
  <2>1. Observe(C)
    BY <1>6 DEF ObserveChange
  <2>2. /\ \A g \in Goals : Ongoing(g) => book'[g] = NoEntry \/ book'[g] = Observed(g, C)
        /\ \A g \in Goals : ~Ongoing(g) => book'[g] = NoEntry \/ book'[g] = book[g]
    BY <1>0, <1>6, <2>1, ObserveStep
  <2>3. \A g \in Goals : Ongoing(g) => Observed(g, C).cause = book[g].cause
    BY <1>0, ObservedGoal
  <2>4. \A g \in Goals : book'[g] = NoEntry \/ book'[g].cause = book[g].cause
    BY <2>2, <2>3
  <2>5. NoEntry.run = 0
    BY DEF NoEntry
  <2> QED BY <1>1, <2>4, <2>5 DEF KeepsCauses
<1>7. ASSUME NEW q \in Requests, NEW g \in Goals, ReceiveResult(q, g) PROVE KeepsCauses
  BY <1>7 DEF ReceiveResult, KeepsCauses
<1>8. CASE EndTask
  <2>1. \A g \in Goals : book'[g].run = 0
    BY <1>8 DEF EndTask, NoEntry
  <2> QED BY <1>1, <2>1 DEF KeepsCauses
<1> QED BY <1>2, <1>3, <1>4, <1>5, <1>6, <1>7, <1>8 DEF ChangesBook

\* The first cause of a goal's halt stays its cause for as long as the goal has
\* its run (GoalBook::cancel, GoalBook::preempt, GoalBook::observe).
THEOREM CauseStays == Spec => FirstCauseStays
<1>1. IInv /\ [Next]_vars => KeepsCauses
  BY NextChangesBook, StepKeepsCauses
<1>2. IInv /\ [Next]_vars => [\A g \in Goals :
         book[g].cause # "none" /\ book'[g].run = book[g].run => book'[g].cause = book[g].cause]_vars
  BY <1>1 DEF KeepsCauses
<1> QED BY <1>2, Invariant, PTL DEF Spec, FirstCauseStays

-----------------------------------------------------------------------------
(* The refinement.                                                           *)

\* A request that was not made has no reply.
Unasked == \A q \in Requests : asked[q] = NoGoal => reply[q] = "none"

\* A request that was not made has no reply.
LEMMA StepUnasked ==
    ASSUME IInv, IInv', Unasked, ChangesBook
    PROVE  Unasked'
<1>0. TypeOK /\ book' \in [Goals -> Entry]
  BY DEF IInv, TypeOK
<1>1. CASE UNCHANGED <<asked, reply>>
  BY <1>1 DEF Unasked
<1>2. ASSUME NEW C, ObserveChange(C), UNCHANGED <<asked, runs>> PROVE Unasked'
  <2>1. \A q \in Ready(book', Waiting) : asked[q] # NoGoal
    BY DEF Ready, Waiting
  <2>2. UNCHANGED reply \/ \E Q \in SUBSET Ready(book', Waiting) : Answer(book', Q)
    BY <1>2 DEF ObserveChange
  <2> QED BY <1>2, <2>1, <2>2 DEF Unasked, Answer
<1>3. ASSUME NEW q \in Requests, NEW g \in Goals, ReceiveResult(q, g) PROVE Unasked'
  <2>1. asked' = [asked EXCEPT ![q] = g] /\ asked \in [Requests -> Goals \cup {NoGoal}]
    BY <1>0, <1>3 DEF ReceiveResult, TypeOK
  <2>2. \A p \in Requests : asked'[p] = NoGoal => p # q /\ p \notin Waiting
    BY <2>1, ConstantsAssumption DEF Waiting
  <2>3. \A p \in Requests : p # q /\ p \notin Waiting => reply'[p] = reply[p]
    BY <1>3 DEF ReceiveResult
  <2>4. \A p \in Requests : asked'[p] = NoGoal => asked[p] = NoGoal
    BY <2>1, ConstantsAssumption
  <2> QED BY <2>2, <2>3, <2>4 DEF Unasked
<1>4. CASE Accept \/ EndTask \/ \E id, stamp : ReceiveCancel(id, stamp)
  BY <1>1, <1>4 DEF Accept, EndTask, ReceiveCancel
<1> QED BY <1>1, <1>2, <1>3, <1>4 DEF ChangesBook

AbstractStep == [Abstract!Next]_(Abstract!vars)

\* Every operation is a step of the abstract specification, or stutters.
LEMMA StepRefines ==
    ASSUME IInv, IInv', Unasked, ChangesBook
    PROVE  AbstractStep
<1>0. /\ TypeOK /\ BookOK
      /\ book \in [Goals -> Entry] /\ book' \in [Goals -> Entry]
      /\ reply \in [Requests -> {"none", "unknown"} \cup Outcomes]
      /\ reply' \in [Requests -> {"none", "unknown"} \cup Outcomes]
      /\ asked \in [Requests -> Goals \cup {NoGoal}]
  BY DEF IInv, TypeOK
<1>s. /\ \A b : Statuses(b) = [g \in Goals |-> b[g].status]
      /\ \A b, c : (\A g \in Goals : b[g].status = c[g].status) => Statuses(b) = Statuses(c)
      /\ Statuses(book)' = Statuses(book')
  BY DEF Statuses
<1>1. CASE UNCHANGED <<Statuses(book), asked, reply>>
  BY <1>1 DEF AbstractStep, Abstract!vars
<1>2. CASE UNCHANGED <<book, asked, reply>>
  BY <1>2, <1>1, <1>s
<1>3. ASSUME NEW g \in Active, MarkPreempted(g), UNCHANGED <<asked, reply>> PROVE AbstractStep
  <2>1. \A h \in Goals : book'[h].status = book[h].status
    BY <1>0, <1>3 DEF MarkPreempted, Active
  <2> QED BY <1>1, <1>3, <1>s, <2>1
<1>4. CASE Accept /\ ~Known(hand.goal)
  <2> DEFINE e == [NoEntry EXCEPT !.status = "executing", !.run = hand.run]
  <2>1. hand.goal \in Goals
    BY <1>4 DEF Accept, IInv, Control
  <2>2. book' = [book EXCEPT ![hand.goal] = e] /\ UNCHANGED <<asked, reply>>
    BY <1>4 DEF Accept
  <2>3. e.status = "executing"
    BY DEF NoEntry
  <2> HIDE DEF e
  <2>4. /\ book'[hand.goal].status = "executing"
        /\ \A h \in Goals : h # hand.goal => book'[h].status = book[h].status
    BY <1>0, <2>1, <2>2, <2>3
  <2>5. Statuses(book') = [Statuses(book) EXCEPT ![hand.goal] = "executing"]
    BY <2>1, <2>4 DEF Statuses
  <2>6. Statuses(book)[hand.goal] = "none"
    BY <1>4, <2>1 DEF Known, Statuses
  <2>7. Abstract!Accept(hand.goal)
    BY <1>s, <2>2, <2>5, <2>6 DEF Abstract!Accept
  <2> QED BY <2>1, <2>7 DEF AbstractStep, Abstract!Next
<1>5. ASSUME NEW id, NEW stamp, ReceiveCancel(id, stamp) PROVE AbstractStep
  <2> DEFINE S == Selected(id, stamp)
  <2>1. S \in SUBSET Goals /\ \A g \in S : book[g].status = "executing"
    BY DEF Selected
  <2>2. UNCHANGED <<asked, reply>>
    BY <1>5 DEF ReceiveCancel
  <2>3. book' = [g \in Goals |->
                   IF g \in S
                   THEN [book[g] EXCEPT !.status = "canceling",
                                        !.cause = IF @ = "none" THEN "cancel" ELSE @]
                   ELSE book[g]]
    BY <1>5 DEF ReceiveCancel
  <2> HIDE DEF S
  <2>4. \A g \in Goals : book[g] \in Entry
    BY <1>0
  <2>5. \A g \in Goals : book'[g].status = IF g \in S THEN "canceling" ELSE book[g].status
    BY <2>3, <2>4 DEF Entry
  <2>6. Statuses(book') = [g \in Goals |-> IF g \in S THEN "canceling" ELSE Statuses(book)[g]]
    BY <2>5 DEF Statuses
  <2>7. \A g \in S : Statuses(book)[g] = "executing"
    BY <2>1 DEF Statuses
  <2>8. Abstract!Cancel(S)
    BY <1>s, <2>2, <2>6, <2>7 DEF Abstract!Cancel
  <2> QED BY <2>1, <2>8 DEF AbstractStep, Abstract!Next
<1>6. ASSUME NEW C, ObserveChange(C), UNCHANGED <<asked, runs>> PROVE AbstractStep
  <2> DEFINE ready == IF Fed(C) \cup Ending(C) = {} \/ Ending(C) = {}
                      THEN {} ELSE Ready(book', Waiting)
  <2>1. Observe(C)
    BY <1>6 DEF ObserveChange
  <2>2. /\ \A g \in Goals : Ongoing(g) =>
             IF g \in Ending(C)
             THEN book'[g] = NoEntry \/ book'[g] = Observed(g, C)
             ELSE book'[g] = Observed(g, C)
        /\ \A g \in Goals : ~Ongoing(g) => book'[g] = NoEntry \/ book'[g] = book[g]
    BY <1>0, <1>6, <2>1, ObserveStep
  <2>3. ASSUME NEW g \in Goals
        PROVE  Abstract!Progress(book[g].status, book'[g].status)
    <3>1. NoEntry.status = "none"
      BY DEF NoEntry
    <3>2. CASE ~Ongoing(g)
      BY <2>2, <3>1, <3>2 DEF Abstract!Progress
    <3>3. CASE Ongoing(g)
      <4>1. /\ g \notin Ending(C) => Observed(g, C).status = book[g].status
            /\ g \in Ending(C) => Observed(g, C).status \in Outcomes
            /\ g \in Ending(C) /\ book[g].status = "executing" =>
                  Observed(g, C).status \in {"succeeded", "aborted"}
        BY <1>0, <3>3, ObservedGoal
      <4>2. book[g].status \in {"executing", "canceling"}
        BY <3>3 DEF Ongoing, Live
      <4> QED BY <2>2, <3>1, <3>3, <4>1, <4>2 DEF Abstract!Progress, Abstract!Outcomes, Outcomes
    <3> QED BY <3>2, <3>3
  <2>4. reply' = [q \in Requests |-> IF q \in ready THEN Reply(book', q) ELSE reply[q]]
    <3>1. CASE Fed(C) \cup Ending(C) = {}
      BY <1>0, <1>6, <3>1 DEF ObserveChange
    <3>2. CASE Fed(C) \cup Ending(C) # {}
      BY <1>6, <3>2 DEF ObserveChange, Answer
    <3> QED BY <3>1, <3>2
  <2>5. \A q \in ready : /\ q \in Requests /\ asked[q] \in Goals /\ reply[q] = "none"
                        /\ book'[asked[q]].status \notin Live
    <3>1. \A q \in Ready(book', Waiting) : q \in Requests /\ asked[q] \in Goals /\ reply[q] = "none"
      BY <1>0, ReplyType
    <3> QED BY <3>1 DEF Ready
  <2> HIDE DEF ready
  <2>6. \A g \in Goals : Statuses(book)[g] = book[g].status /\ Statuses(book')[g] = book'[g].status
    BY DEF Statuses
  <2>7. Statuses(book') \in [Goals -> {"none"} \cup Abstract!Live \cup Abstract!Outcomes]
    BY <1>0 DEF Statuses, Entry, Live, Outcomes, Abstract!Live, Abstract!Outcomes
  <2>8. Abstract!Answer(ready)
    <3>1. \A q \in ready : asked[q] # NoGoal /\ reply[q] = "none"
                           /\ Statuses(book')[asked[q]] \notin Abstract!Live
      BY <2>5, <2>6, ConstantsAssumption DEF Live, Abstract!Live
    <3>2. \A q \in ready : Reply(book', q) =
             IF Statuses(book')[asked[q]] = "none" THEN "unknown" ELSE Statuses(book')[asked[q]]
      BY <2>5, <2>6 DEF Reply
    <3>3. reply' = [q \in Requests |->
                     IF q \notin ready THEN reply[q]
                     ELSE IF Statuses(book')[asked[q]] = "none" THEN "unknown"
                          ELSE Statuses(book')[asked[q]]]
      BY <2>4, <3>2
    <3> QED BY <1>s, <3>1, <3>3 DEF Abstract!Answer
  <2>9. Abstract!Advance(ready)
    BY <1>6, <1>s, <2>3, <2>6, <2>7, <2>8 DEF Abstract!Advance
  <2>10. ready \in SUBSET Requests
    BY <2>5
  <2> QED BY <2>9, <2>10 DEF AbstractStep, Abstract!Next
<1>7. ASSUME NEW q \in Requests, NEW g \in Goals, ReceiveResult(q, g) PROVE AbstractStep
  <2> DEFINE ready == {p \in Waiting \cup {q} : book[asked'[p]].status \notin Live}
  <2>1. /\ asked[q] = NoGoal /\ asked' = [asked EXCEPT ![q] = g] /\ UNCHANGED book
        /\ reply' = [p \in Requests |->
                       IF p \notin ready THEN reply[p]
                       ELSE IF ~Known(asked'[p]) THEN "unknown" ELSE book[asked'[p]].status]
    BY <1>7 DEF ReceiveResult
  <2>2. \A p \in ready : book[asked'[p]].status \notin Live /\ (p = q \/ p \in Waiting)
    OBVIOUS
  <2> HIDE DEF ready
  <2>3. ASSUME NEW p \in Requests
        PROVE  \/ reply'[p] = reply[p]
               \/ /\ reply[p] = "none" /\ asked'[p] # NoGoal
                  /\ \/ Statuses(book)[asked'[p]] = "none" /\ reply'[p] = "unknown"
                     \/ /\ Statuses(book)[asked'[p]] \in Abstract!Outcomes
                        /\ reply'[p] = Statuses(book)[asked'[p]]
    <3>1. CASE p \notin ready
      BY <2>1, <3>1
    <3>2. CASE p \in ready
      <4>1. asked'[p] \in Goals /\ asked'[p] # NoGoal
        BY <1>0, <2>1, <2>2, <3>2, ConstantsAssumption DEF Waiting
      <4>2. reply[p] = "none" \/ p = q
        BY <2>2, <3>2 DEF Waiting
      <4>3. reply[q] = "none"
        BY <2>1 DEF Unasked
      <4>4. Statuses(book)[asked'[p]] = book[asked'[p]].status
        BY <4>1 DEF Statuses
      <4>5. book[asked'[p]].status \in {"none"} \cup Outcomes
        BY <1>0, <2>2, <3>2, <4>1 DEF Entry
      <4>6. reply'[p] = IF ~Known(asked'[p]) THEN "unknown" ELSE book[asked'[p]].status
        BY <2>1, <3>2
      <4> QED BY <4>1, <4>2, <4>3, <4>4, <4>5, <4>6 DEF Known, Outcomes, Abstract!Outcomes
    <3> QED BY <3>1, <3>2
  <2>4. reply' \in [Requests -> {"none", "unknown"} \cup Abstract!Outcomes]
    BY <1>0 DEF Outcomes, Abstract!Outcomes
  <2>5. Abstract!Ask(q, g)
    BY <1>s, <2>1, <2>3, <2>4 DEF Abstract!Ask
  <2> QED BY <2>5 DEF AbstractStep, Abstract!Next
<1>8. CASE EndTask
  <2>1. \A g \in Goals : book'[g].status = "none"
    BY <1>8 DEF EndTask, NoEntry
  <2>2. UNCHANGED <<asked, reply>>
    BY <1>8 DEF EndTask
  <2>3. \A g \in Goals : Statuses(book')[g] = "none"
    BY <2>1 DEF Statuses
  <2>4. \A g \in Goals : Abstract!Progress(Statuses(book)[g], Statuses(book')[g])
    BY <2>3 DEF Abstract!Progress
  <2>5. Statuses(book') \in [Goals -> {"none"} \cup Abstract!Live \cup Abstract!Outcomes]
    BY <2>1 DEF Statuses
  <2>6. Abstract!Answer({})
    BY <1>0, <2>2 DEF Abstract!Answer
  <2>7. Abstract!Advance({})
    BY <1>s, <2>2, <2>4, <2>5, <2>6 DEF Abstract!Advance
  <2> QED BY <2>7 DEF AbstractStep, Abstract!Next
<1> QED BY <1>2, <1>3, <1>4, <1>5, <1>6, <1>7, <1>8 DEF ChangesBook

\* The action implements ActionGoals: for any goals and requests, every goal goes
\* through the life cycle of the ROS 2 action interface and every result request
\* is answered once, with the outcome or as unknown.
THEOREM Refinement == Spec => ServesGoals
<1>1. Init => Abstract!Init
  BY DEF Init, Abstract!Init, Statuses, NoEntry
<1>2. Init => Unasked
  BY DEF Init, Unasked
<1>3. IInv /\ IInv' /\ Unasked /\ [Next]_vars => Unasked'
  BY NextChangesBook, StepUnasked
<1>4. IInv /\ IInv' /\ Unasked /\ [Next]_vars => [Abstract!Next]_(Abstract!vars)
  BY NextChangesBook, StepRefines DEF AbstractStep
<1> QED BY <1>1, <1>2, <1>3, <1>4, Invariant, PTL DEF Spec, ServesGoals, Abstract!Spec

-----------------------------------------------------------------------------
(* What the runs wrote, on its way to the book.                              *)

\* The i-th item the node task sent reports p, a run and what it wrote.
Sent(i, p) == watch[i].kind = "change" /\ p \in watch[i].change

\* A run's write is in the seam, or among what the node task sent.
Pending(p) == p \in seam \/ \E i \in 1 .. Len(watch) : Sent(i, p)

\* The run the task will give to the goal in hand.
InHand(r) == pc = "spawned" /\ hand.run = r

\* A goal has run r, or is about to.
Owned(r) == InHand(r) \/ \E g \in Goals : Ongoing(g) /\ book[g].run = r

\* The outcome of a run that a goal has, or is about to have, is on its way.
OutcomesPending ==
    Served => \A r \in 1 .. Len(runs), w \in {"success", "failure"} :
                 Owned(r) /\ runs[r].state = w => Pending(<<r, w>>)

\* The result of run r is on its way, and not behind r's outcome.
ResultFirst(r) ==
    /\ Served => Pending(<<r, "result">>)
    /\ \A i \in 1 .. Len(watch), w \in {"success", "failure"} :
          Sent(i, <<r, w>>) => \E j \in 1 .. i : Sent(j, <<r, "result">>)

\* The goal of run r, now or soon, does not have the result of r.
Lacks(r) == InHand(r) \/ \E g \in Goals : Ongoing(g) /\ book[g].run = r /\ ~book[g].result

\* A result that its goal does not have yet comes with the outcome or before it.
ResultsPending == \A r \in 1 .. Len(runs) : runs[r].wrote /\ Lacks(r) => ResultFirst(r)

\* Only a result that was written is reported, or recorded.
TrueResults ==
    /\ \A r \in RunIds : Pending(<<r, "result">>) => r \in 1 .. Len(runs) /\ runs[r].wrote
    /\ \A g \in Goals : book[g].result => Known(g) /\ runs[book[g].run].wrote

\* A goal that ended is one whose run did.
EndedRuns == \A g \in Goals : book[g].status \in Outcomes => runs[book[g].run].state # "running"

\* The second inductive invariant: no write of a run is lost or overtaken between
\* the device and the goal it is for.
Delivery == OutcomesPending /\ ResultsPending /\ TrueResults /\ EndedRuns /\ ResultsKept

\* Reports tell of runs there are: no outcome of a run that goes on is sent.
LEMMA NoneSentOfRunning ==
    ASSUME IInv, NEW r \in 1 .. Len(runs), runs[r].state = "running",
           NEW i \in 1 .. Len(watch), NEW w \in {"success", "failure"}
    PROVE  ~Sent(i, <<r, w>>)
BY DEF IInv, TrueReports, Ended, Sent

\* A run is its state, whether it wrote its result, and why it is nobody's.
LEMMA RunsTyped ==
    ASSUME IInv
    PROVE  /\ runs \in Seq(Run) /\ Len(runs) \in Nat
           /\ \A r \in 1 .. Len(runs) : runs[r] \in Run
           /\ 1 .. Len(runs) \subseteq RunIds
<1>1. runs \in Seq(Run) /\ Len(runs) <= MaxRuns
  BY DEF IInv, TypeOK, Control, Run
<1> QED BY <1>1, ConstantsAssumption DEF RunIds

\* The run of a goal of the book is one of the device's.
LEMMA GoalRuns ==
    ASSUME IInv, NEW g \in Goals
    PROVE  /\ Known(g) => book[g].run \in 1 .. Len(runs)
           /\ Ongoing(g) => Known(g)
           /\ book[g].status \in Outcomes => Known(g) /\ ~Ongoing(g)
BY DEF IInv, BookOK, Known, Ongoing, Live, Outcomes

\* A step of the task that takes nothing: what is on its way stays, and a goal
\* that is new has the run that was in hand.
Quiet ==
    /\ UNCHANGED <<watch, closed, seam>>
    /\ pc = "ended" => pc' = "ended"
    /\ Len(runs') = Len(runs)
    /\ \A r \in 1 .. Len(runs) : runs'[r].state = runs[r].state /\ runs'[r].wrote = runs[r].wrote
    /\ \A r \in 1 .. Len(runs) : InHand(r)' => InHand(r)
    /\ \A g \in Goals : Ongoing(g)' =>
          \/ Ongoing(g) /\ book'[g].run = book[g].run /\ book'[g].result = book[g].result
          \/ InHand(book'[g].run) /\ ~book'[g].result
    /\ \A g \in Goals : book'[g].status \in Outcomes => book'[g] = book[g]
    /\ \A g \in Goals : book'[g].result =>
          book[g].result /\ book'[g].run = book[g].run /\ Known(g)'

\* Such a step loses nothing that is on its way.
LEMMA QuietDelivers ==
    ASSUME IInv, IInv', Delivery, Quiet
    PROVE  Delivery'
<1>1. Served' => Served
  BY DEF Quiet, Served
<1>2. \A p : Pending(p)' <=> Pending(p)
  BY DEF Quiet, Pending, Sent
<1>3. \A r : ResultFirst(r) => ResultFirst(r)'
  BY <1>1, <1>2 DEF Quiet, ResultFirst, Sent
<1>4. ASSUME NEW r \in 1 .. Len(runs), Owned(r)'  PROVE Owned(r)
  BY <1>4 DEF Quiet, Owned
<1>5. OutcomesPending'
  BY <1>1, <1>2, <1>4 DEF Delivery, Quiet, OutcomesPending
<1>6. ResultsPending'
  <2>1. ASSUME NEW r \in 1 .. Len(runs), Lacks(r)'  PROVE Lacks(r)
    BY <2>1 DEF Quiet, Lacks
  <2> QED BY <1>3, <2>1 DEF Quiet, Delivery, ResultsPending
<1>7. TrueResults'
  <2>1. ASSUME NEW r \in RunIds, Pending(<<r, "result">>)'
        PROVE  r \in 1 .. Len(runs') /\ runs'[r].wrote
    BY <1>2, <2>1 DEF Quiet, Delivery, TrueResults
  <2>2. ASSUME NEW g \in Goals, book'[g].result
        PROVE  Known(g)' /\ runs'[book'[g].run].wrote
    <3>1. Known(g) /\ runs[book[g].run].wrote /\ Known(g)' /\ book'[g].run = book[g].run
      BY <2>2 DEF Quiet, Delivery, TrueResults
    <3>2. book[g].run \in 1 .. Len(runs)
      BY <3>1, GoalRuns
    <3> QED BY <3>1, <3>2 DEF Quiet
  <2> QED BY <2>1, <2>2 DEF TrueResults
<1>8. EndedRuns' /\ ResultsKept'
  <2>1. ASSUME NEW g \in Goals, book'[g].status \in Outcomes
        PROVE  /\ runs'[book'[g].run].state # "running"
               /\ book'[g].result = runs'[book'[g].run].wrote
    <3>1. book'[g] = book[g]
      BY <2>1 DEF Quiet
    <3>2. book[g].run \in 1 .. Len(runs)
      BY <2>1, <3>1, GoalRuns
    <3>3. /\ runs[book[g].run].state # "running"
          /\ book[g].result = runs[book[g].run].wrote
      BY <2>1, <3>1 DEF Delivery, EndedRuns, ResultsKept
    <3> QED BY <3>1, <3>2, <3>3 DEF Quiet
  <2> QED BY <2>1 DEF EndedRuns, ResultsKept
<1> QED BY <1>5, <1>6, <1>7, <1>8 DEF Delivery

\* The run r goes on: it writes, ends or is stopped, and what it does is in the
\* seam while the action is served.
RunGoesOn(r) ==
    /\ r \in 1 .. Len(runs)
    /\ UNCHANGED <<watch, closed, book, hand>>
    /\ pc # "ended" /\ (pc' = "spawned" => pc = "spawned")
    /\ Len(runs') = Len(runs)
    /\ \A s \in 1 .. Len(runs) : s # r => runs'[s] = runs[s]
    /\ runs[r].state # "running" => runs'[r] = runs[r]
    /\ runs'[r].state = runs[r].state \/ (Served => <<r, runs'[r].state>> \in seam')
    /\ runs[r].wrote => runs'[r].wrote
    /\ runs'[r].wrote => runs[r].wrote \/ <<r, "result">> \in seam'
    /\ seam \subseteq seam'
    /\ \A s \in RunIds : <<s, "result">> \in seam' =>
          <<s, "result">> \in seam \/ (s = r /\ runs'[r].wrote)

\* What it does is on its way to the book.
LEMMA RunDelivers ==
    ASSUME IInv, IInv', Delivery, NEW r, RunGoesOn(r)
    PROVE  Delivery'
<1>1. Served' => Served
  BY DEF RunGoesOn, Served
<1>2. \A p : Pending(p) => Pending(p)'
  BY DEF RunGoesOn, Pending, Sent
<1>3. \A s : ResultFirst(s) => ResultFirst(s)'
  BY <1>1, <1>2 DEF RunGoesOn, ResultFirst, Sent
<1>4. \A s \in 1 .. Len(runs) : Owned(s)' => Owned(s)
  BY DEF RunGoesOn, Owned, InHand, Ongoing
<1>5. \A g \in Goals : /\ Ongoing(g)' <=> Ongoing(g)
                       /\ Known(g)' <=> Known(g)
  BY DEF RunGoesOn, Ongoing, Known
<1>6. OutcomesPending'
  <2> SUFFICES ASSUME Served, NEW s \in 1 .. Len(runs), NEW w \in {"success", "failure"},
                      Owned(s), runs'[s].state = w
               PROVE  Pending(<<s, w>>)'
    BY <1>1, <1>4 DEF OutcomesPending, RunGoesOn
  <2>1. CASE runs[s].state = w
    BY <1>2, <2>1 DEF Delivery, OutcomesPending
  <2>2. CASE runs[s].state # w
    <3>1. s = r /\ <<s, w>> \in seam'
      BY <2>2 DEF RunGoesOn
    <3> QED BY <3>1 DEF Pending
  <2> QED BY <2>1, <2>2
<1>7. ASSUME NEW s \in 1 .. Len(runs), runs'[s].wrote, ~runs[s].wrote
      PROVE  ResultFirst(s)'
  <2>1. s = r /\ runs[r].state = "running" /\ <<r, "result">> \in seam'
    BY <1>7 DEF RunGoesOn
  <2>2. \A i \in 1 .. Len(watch), w \in {"success", "failure"} : ~Sent(i, <<r, w>>)
    BY <1>7, <2>1, NoneSentOfRunning
  <2>3. Pending(<<r, "result">>)'
    BY <2>1 DEF Pending
  <2> QED BY <2>1, <2>2, <2>3 DEF ResultFirst, Sent, RunGoesOn
<1>8. ResultsPending'
  <2>1. ASSUME NEW s \in 1 .. Len(runs), Lacks(s)'  PROVE Lacks(s)
    BY <1>5, <2>1 DEF Lacks, InHand, RunGoesOn
  <2>2. ASSUME NEW s \in 1 .. Len(runs), Lacks(s)', runs'[s].wrote  PROVE ResultFirst(s)'
    BY <1>3, <1>7, <2>1, <2>2 DEF Delivery, ResultsPending
  <2> QED BY <2>2 DEF ResultsPending, RunGoesOn
<1>9. \A s \in 1 .. Len(runs) : runs[s].wrote => runs'[s].wrote
  BY DEF RunGoesOn
<1>10. TrueResults'
  <2>1. ASSUME NEW s \in RunIds, Pending(<<s, "result">>)'
        PROVE  s \in 1 .. Len(runs) /\ runs'[s].wrote
    <3>1. Pending(<<s, "result">>) \/ (s = r /\ runs'[r].wrote)
      BY <2>1 DEF Pending, RunGoesOn, Sent
    <3> QED BY <1>9, <3>1 DEF RunGoesOn, Delivery, TrueResults
  <2>2. ASSUME NEW g \in Goals, book[g].result
        PROVE  Known(g) /\ runs'[book[g].run].wrote
    BY <1>9, <2>2, GoalRuns DEF Delivery, TrueResults
  <2> QED BY <1>5, <2>1, <2>2 DEF TrueResults, RunGoesOn
<1>11. EndedRuns' /\ ResultsKept'
  <2>1. ASSUME NEW g \in Goals, book[g].status \in Outcomes
        PROVE  runs'[book[g].run] = runs[book[g].run]
    <3>1. book[g].run \in 1 .. Len(runs) /\ runs[book[g].run].state # "running"
      BY <2>1, GoalRuns DEF Delivery, EndedRuns
    <3> QED BY <3>1 DEF RunGoesOn
  <2> QED BY <2>1 DEF Delivery, EndedRuns, ResultsKept, RunGoesOn
<1> QED BY <1>6, <1>8, <1>10, <1>11 DEF Delivery

\* The requests the task takes, and what it makes of a goal in hand, leave what is
\* on its way.
LEMMA TaskDelivers ==
    ASSUME IInv, IInv', Delivery,
           \/ \E g \in Goals \cup {NoGoal} : ReceiveGoal(g)
           \/ HandleGoal
           \/ \E id \in Goals \cup {NoGoal}, stamp \in 0 .. Len(runs) : ReceiveCancel(id, stamp)
           \/ FinishCancel
           \/ \E q \in Requests, g \in Goals : ReceiveResult(q, g)
           \/ Retry
           \/ UNCHANGED vars
    PROVE  Delivery'
<1>1. ASSUME UNCHANGED <<watch, closed, seam, runs, book>>, pc = "ended" => pc' = "ended",
             pc' = "spawned" => pc = "spawned" /\ hand' = hand
      PROVE  Quiet
  BY <1>1, GoalRuns DEF Quiet, InHand, Ongoing, Known, Delivery, TrueResults
<1>2. ASSUME NEW g \in Goals \cup {NoGoal}, ReceiveGoal(g)  PROVE Quiet
  BY <1>1, <1>2 DEF ReceiveGoal
<1>3. CASE HandleGoal
  <2>1. /\ pc = "draining" /\ UNCHANGED <<watch, closed, seam, runs>>
        /\ Reject \/ Arbitrate
    BY <1>3 DEF HandleGoal
  <2>2. ASSUME Reject  PROVE Quiet
    BY <1>1, <2>1, <2>2 DEF Reject
  <2>3. ASSUME pc' = "spawning", UNCHANGED <<hand, todo, book>>  PROVE Quiet
    BY <1>1, <2>1, <2>3
  <2>4. ASSUME NEW g \in Active, book' = [book EXCEPT ![g].cause = "preempt"], pc' = "preempting"
        PROVE  Quiet
    <3>1. g \in Goals /\ book \in [Goals -> Entry]
      BY DEF Active, IInv, TypeOK
    <3>2. \A h \in Goals : /\ book'[h].status = book[h].status /\ book'[h].run = book[h].run
                           /\ book'[h].result = book[h].result
                           /\ h # g => book'[h] = book[h]
      BY <2>4, <3>1 DEF Entry
    <3>3. book[g].status \notin Outcomes
      BY DEF Active, Ongoing, Live, Outcomes
    <3>4. \A h \in Goals : /\ Ongoing(h)' <=> Ongoing(h)
                           /\ Known(h)' <=> Known(h)
                           /\ book[h].result => Known(h)
      BY <3>2 DEF Ongoing, Known, Delivery, TrueResults
    <3>5. \A r \in 1 .. Len(runs) : ~InHand(r)'
      BY <2>4 DEF InHand
    <3> QED BY <2>1, <2>4, <3>2, <3>3, <3>4, <3>5 DEF Quiet
  <2>5. Reject \/ (pc' = "spawning" /\ UNCHANGED <<hand, todo, book>>)
          \/ \E g \in Active : book' = [book EXCEPT ![g].cause = "preempt"] /\ pc' = "preempting"
    BY <2>1, Zenon DEF Arbitrate
  <2> QED BY <2>2, <2>3, <2>4, <2>5, QuietDelivers
<1>4. ASSUME NEW id \in Goals \cup {NoGoal}, NEW stamp \in 0 .. Len(runs), ReceiveCancel(id, stamp)
      PROVE  Quiet
  <2>1. /\ pc = "idle" /\ pc' = "stopping" /\ UNCHANGED <<watch, closed, seam, runs>>
        /\ book' = [g \in Goals |->
                      IF g \in Selected(id, stamp)
                      THEN [book[g] EXCEPT !.status = "canceling",
                                           !.cause = IF @ = "none" THEN "cancel" ELSE @]
                      ELSE book[g]]
    BY <1>4 DEF ReceiveCancel
  <2>2. ASSUME NEW g \in Goals
        PROVE  /\ book'[g].run = book[g].run /\ book'[g].result = book[g].result
               /\ g \notin Selected(id, stamp) => book'[g] = book[g]
               /\ g \in Selected(id, stamp) =>
                     book'[g].status = "canceling" /\ book[g].status = "executing"
    <3>1. book[g] \in Entry
      BY DEF IInv, TypeOK
    <3>2. CASE g \in Selected(id, stamp)
      <4> DEFINE c == IF book[g].cause = "none" THEN "cancel" ELSE book[g].cause
                 one == [book[g] EXCEPT !.status = "canceling"]
      <4>1. book'[g] = [one EXCEPT !.cause = c]
        BY <2>1, <3>1, <3>2 DEF Entry
      <4>2. one.status = "canceling" /\ one.run = book[g].run /\ one.result = book[g].result
            /\ one \in Entry
        BY <3>1 DEF Entry, Live
      <4> HIDE DEF one, c
      <4>3. book'[g].status = "canceling" /\ book'[g].run = book[g].run
            /\ book'[g].result = book[g].result
        BY <4>1, <4>2 DEF Entry
      <4> QED BY <3>2, <4>3 DEF Selected
    <3>3. CASE g \notin Selected(id, stamp)
      BY <2>1, <3>3
    <3> QED BY <3>2, <3>3
  <2>3. \A g \in Goals : /\ Ongoing(g)' <=> Ongoing(g)
                         /\ book'[g].status \in Outcomes => book'[g] = book[g]
                         /\ Known(g)' <=> Known(g)
    BY <2>2 DEF Ongoing, Known, Live, Outcomes
  <2>4. \A r \in 1 .. Len(runs) : ~InHand(r)'
    BY <2>1 DEF InHand
  <2>5. \A g \in Goals : book[g].result => Known(g)
    BY DEF Delivery, TrueResults
  <2> QED BY <2>1, <2>2, <2>3, <2>4, <2>5 DEF Quiet
<1>5. ASSUME FinishCancel \/ Retry \/ \E q \in Requests, g \in Goals : ReceiveResult(q, g)
      PROVE  Quiet
  BY <1>1, <1>5 DEF FinishCancel, Retry, ReceiveResult
<1>6. ASSUME UNCHANGED vars  PROVE Quiet
  BY <1>1, <1>6 DEF vars, taskVars
<1> QED BY <1>2, <1>3, <1>4, <1>5, <1>6, QuietDelivers

\* A goal accepted takes over the run in hand, with what is on its way from it.
LEMMA AcceptDelivers ==
    ASSUME IInv, IInv', Delivery, Accept
    PROVE  Delivery'
<1>1. /\ pc = "spawned" /\ pc' = "idle" /\ UNCHANGED <<watch, closed, seam>>
      /\ hand.goal \in Goals /\ hand.run \in 1 .. Len(runs)
  BY DEF Accept, IInv, Control
<1>2. \A r \in 1 .. Len(runs) : ~InHand(r)'
  BY <1>1 DEF InHand
<1>3. \A g \in Goals : book[g].result => Known(g)
  BY DEF Delivery, TrueResults
<1>4. CASE Known(hand.goal)
  <2>1. runs' = [runs EXCEPT ![hand.run].loose = "stray"] /\ UNCHANGED book
    BY <1>4 DEF Accept
  <2>2. /\ Len(runs') = Len(runs)
        /\ \A r \in 1 .. Len(runs) :
              runs'[r].state = runs[r].state /\ runs'[r].wrote = runs[r].wrote
    <3>1. runs \in Seq(Run) /\ runs[hand.run] \in Run
      BY <1>1, RunsTyped
    <3> DEFINE v == [runs[hand.run] EXCEPT !.loose = "stray"]
    <3>2. v \in Run /\ v.state = runs[hand.run].state /\ v.wrote = runs[hand.run].wrote
      BY <3>1 DEF Run
    <3>3. runs' = [runs EXCEPT ![hand.run] = v]
      BY <2>1
    <3> HIDE DEF v
    <3> QED BY <1>1, <3>1, <3>2, <3>3, UpdateSequence
  <2>3. Quiet
    BY <1>1, <1>2, <1>3, <2>1, <2>2 DEF Quiet, Ongoing, Known
  <2> QED BY <2>3, QuietDelivers
<1>5. CASE ~Known(hand.goal)
  <2>1. /\ UNCHANGED runs
        /\ book' = [book EXCEPT ![hand.goal] =
                      [NoEntry EXCEPT !.status = "executing", !.run = hand.run]]
    BY <1>5 DEF Accept
  <2> DEFINE e == [NoEntry EXCEPT !.status = "executing", !.run = hand.run]
  <2>4. book' = [book EXCEPT ![hand.goal] = e]
    BY <2>1
  <2>5. e.status = "executing" /\ e.run = hand.run /\ ~e.result
    BY DEF NoEntry
  <2> HIDE DEF e
  <2>6. book'[hand.goal] = e /\ \A g \in Goals : g # hand.goal => book'[g] = book[g]
    BY <1>1, <2>4 DEF IInv, TypeOK
  <2>7. Quiet
    BY <1>1, <1>2, <1>3, <2>1, <2>5, <2>6 DEF Quiet, Ongoing, Known, InHand, Outcomes
  <2> QED BY <2>7, QuietDelivers
<1> QED BY <1>4, <1>5

\* A run just spawned has written nothing.
LEMMA SpawnDelivers ==
    ASSUME IInv, IInv', Delivery, Spawn
    PROVE  Delivery'
<1>1. pc = "spawning" /\ UNCHANGED <<book, watch, closed, seam>>
  BY DEF Spawn
<1>2. CASE pc' = "idle" /\ UNCHANGED runs
  <2>1. Quiet
    BY <1>1, <1>2 DEF Quiet, InHand, Ongoing, Known, Delivery, TrueResults
  <2> QED BY <2>1, QuietDelivers
<1>3. ASSUME NEW loose, runs' = Append(runs, NewRun(loose)),
             pc' # "spawned" \/ hand' = [hand EXCEPT !.run = Len(runs) + 1]
      PROVE  Delivery'
  <2> PICK n : n = Len(runs) + 1
    OBVIOUS
  <2>0. NewRun(loose).state = "running" /\ ~NewRun(loose).wrote
    BY DEF NewRun
  <2>1. /\ Len(runs) \in Nat /\ Len(runs') = n
        /\ \A r \in 1 .. Len(runs) : runs'[r] = runs[r]
        /\ runs'[n].state = "running" /\ ~runs'[n].wrote
        /\ \A r \in 1 .. Len(runs') : r \in 1 .. Len(runs) \/ r = n
        /\ 1 .. Len(runs) \subseteq 1 .. Len(runs')
        /\ n \notin 1 .. Len(runs)
    BY <1>3, <2>0, RunsTyped
  <2>2. \A r \in 1 .. Len(runs) : ~InHand(r)'
    <3>1. pc' # "spawned" \/ hand'.run = n
      BY <1>3 DEF IInv, TypeOK
    <3> QED BY <2>1, <3>1 DEF InHand
  <2>3. \A g \in Goals : /\ Ongoing(g)' <=> Ongoing(g)
                         /\ Known(g)' <=> Known(g)
    BY <1>1 DEF Ongoing, Known
  <2>4. Served' => Served
    BY <1>1 DEF Served
  <2>5. \A p : Pending(p)' <=> Pending(p)
    BY <1>1 DEF Pending, Sent
  <2>6. \A r : ResultFirst(r) => ResultFirst(r)'
    BY <1>1, <2>4, <2>5 DEF ResultFirst, Sent
  <2>7. OutcomesPending'
    BY <1>1, <2>1, <2>2, <2>3, <2>4, <2>5 DEF OutcomesPending, Delivery, Owned
  <2>8. ResultsPending'
    BY <1>1, <2>1, <2>2, <2>3, <2>6 DEF ResultsPending, Delivery, Lacks
  <2>9. \A g \in Goals : Known(g) => runs'[book[g].run] = runs[book[g].run]
    BY <2>1, GoalRuns
  <2>10. TrueResults'
    BY <1>1, <2>1, <2>3, <2>5, <2>9 DEF TrueResults, Delivery
  <2>11. EndedRuns' /\ ResultsKept'
    BY <1>1, <2>9, GoalRuns DEF EndedRuns, ResultsKept, Delivery
  <2> QED BY <2>7, <2>8, <2>10, <2>11 DEF Delivery
<1> QED BY <1>2, <1>3 DEF Spawn

\* A stop that ends its run puts the failure in the seam.
LEMMA StopDelivers ==
    ASSUME IInv, IInv', Delivery, NEW g \in Goals, Stop(g)
    PROVE  Delivery'
<1> PICK r : r = book[g].run
  OBVIOUS
<1>1. /\ pc \in {"preempting", "stopping"} /\ g \in todo /\ UNCHANGED <<watch, closed, book, hand>>
      /\ pc' # "spawned"
  BY DEF Stop
<1>2. r \in 1 .. Len(runs)
  BY <1>1, GoalRuns DEF IInv, Control
<1>3. runs \in Seq(Run) /\ runs[r] \in Run
  BY <1>2, RunsTyped
<1>4. CASE UNCHANGED <<seam, runs>>
  BY <1>1, <1>2, <1>4, RunDelivers DEF RunGoesOn
<1>5. CASE /\ runs[r].state = "running"
           /\ runs' = [runs EXCEPT ![r].state = "failure"]
           /\ seam' = IF Served THEN seam \cup {<<r, "failure">>} ELSE seam
  <2> DEFINE v == [runs[r] EXCEPT !.state = "failure"]
  <2>1. v \in Run /\ v.state = "failure" /\ v.wrote = runs[r].wrote
    BY <1>3 DEF Run
  <2>2. runs' = [runs EXCEPT ![r] = v]
    BY <1>5
  <2> HIDE DEF v
  <2>3. /\ Len(runs') = Len(runs) /\ runs'[r] = v
        /\ \A s \in 1 .. Len(runs) : s # r => runs'[s] = runs[s]
    BY <1>2, <2>1, <2>2, RunUpdated
  <2>4. /\ seam \subseteq seam' /\ (Served => <<r, "failure">> \in seam')
        /\ \A s \in RunIds : <<s, "result">> \in seam' => <<s, "result">> \in seam
    BY <1>5
  <2>5. RunGoesOn(r)
    BY <1>1, <1>2, <1>5, <2>1, <2>3, <2>4 DEF RunGoesOn
  <2> QED BY <2>5, RunDelivers
<1>6. CASE /\ runs[r].state = "running"
           /\ runs' = [runs EXCEPT ![r].loose = "stuck"]
           /\ UNCHANGED seam
  <2> DEFINE v == [runs[r] EXCEPT !.loose = "stuck"]
  <2>1. v \in Run /\ v.state = runs[r].state /\ v.wrote = runs[r].wrote
    BY <1>3 DEF Run
  <2>2. runs' = [runs EXCEPT ![r] = v]
    BY <1>6
  <2> HIDE DEF v
  <2>3. /\ Len(runs') = Len(runs) /\ runs'[r] = v
        /\ \A s \in 1 .. Len(runs) : s # r => runs'[s] = runs[s]
    BY <1>2, <2>1, <2>2, RunUpdated
  <2>4. RunGoesOn(r)
    BY <1>1, <1>2, <1>6, <2>1, <2>3 DEF RunGoesOn
  <2> QED BY <2>4, RunDelivers
<1> QED BY <1>4, <1>5, <1>6 DEF Stop

\* What a run writes is in the seam.
LEMMA RunWritesDelivers ==
    ASSUME IInv, IInv', Delivery, NEW r \in RunIds, NEW W \in RunWriteSets, RunWrites(r, W)
    PROVE  Delivery'
<1>1. /\ r \in 1 .. Len(runs) /\ runs[r].state = "running" /\ Served
      /\ seam' = seam \cup {<<r, w>> : w \in W}
      /\ UNCHANGED <<pc, hand, book, watch, closed>>
  BY DEF RunWrites, taskVars
<1>2. runs \in Seq(Run) /\ runs[r] \in Run
  BY <1>1, RunsTyped
<1> DEFINE yes == runs[r].wrote \/ "result" \in W
           end == IF "success" \in W THEN "success"
                  ELSE IF "failure" \in W THEN "failure" ELSE runs[r].state
           one == [runs[r] EXCEPT !.wrote = yes]
           v == [one EXCEPT !.state = end]
<1>3. /\ yes \in BOOLEAN /\ (yes => runs[r].wrote \/ "result" \in W) /\ (runs[r].wrote => yes)
      /\ end \in {"running", "success", "failure"}
      /\ end = runs[r].state \/ end \in W
      /\ "result" \in W => yes
  BY <1>2 DEF Run
<1>4. runs' = [runs EXCEPT ![r] = v]
  BY <1>2 DEF RunWrites, Run
<1> HIDE DEF yes, end
<1>5. one \in Run /\ one.wrote = yes
  BY <1>2, <1>3 DEF Run
<1> HIDE DEF one
<1>6. v \in Run /\ v.wrote = yes /\ v.state = end
  BY <1>3, <1>5 DEF Run
<1> HIDE DEF v
<1>7. /\ Len(runs') = Len(runs) /\ runs'[r] = v
      /\ \A s \in 1 .. Len(runs) : s # r => runs'[s] = runs[s]
  BY <1>1, <1>4, <1>6, RunUpdated
<1>8. /\ seam \subseteq seam' /\ \A w \in W : <<r, w>> \in seam'
      /\ \A s \in RunIds : <<s, "result">> \in seam' =>
            <<s, "result">> \in seam \/ (s = r /\ "result" \in W)
  BY <1>1
<1>9. /\ end = runs[r].state \/ <<r, end>> \in seam'
      /\ yes => runs[r].wrote \/ <<r, "result">> \in seam'
      /\ \A s \in RunIds : <<s, "result">> \in seam' => <<s, "result">> \in seam \/ (s = r /\ yes)
  BY <1>3, <1>8
<1>10. runs[r].wrote => yes
  BY <1>3
<1>11. pc # "ended"
  BY <1>1 DEF Served
<1>12. RunGoesOn(r)
  BY <1>1, <1>6, <1>7, <1>8, <1>9, <1>10, <1>11 DEF RunGoesOn
<1> QED BY <1>12, RunDelivers

\* What the node task sends keeps its order: what was in the seam goes last.
LEMMA ForwardDelivers ==
    ASSUME IInv, IInv', Delivery, Forward \/ Resolve
    PROVE  Delivery'
<1> PICK n : n = Len(watch) + 1
  OBVIOUS
<1>1. Served /\ UNCHANGED <<pc, hand, book, closed, runs>>
  BY DEF Forward, Resolve, taskVars
<1>2. /\ Len(watch) \in Nat /\ Len(watch') = n
      /\ \A i \in 1 .. Len(watch) : watch'[i] = watch[i]
      /\ \A i \in 1 .. Len(watch') : i \in 1 .. Len(watch) \/ i = n
      /\ \A i \in 1 .. Len(watch) : i \in 1 .. Len(watch') /\ i \in 1 .. n
      /\ n \in 1 .. Len(watch')
  <2>1. PICK item : watch' = Append(watch, item)
    BY DEF Forward, Resolve
  <2>2. Len(watch) \in Nat /\ watch \in Seq([kind : {"change"}, change : SUBSET (RunIds \X Writes)]
                                              \cup [kind : {"resolved"}])
    BY DEF IInv, TypeOK
  <2> QED BY <2>1, <2>2
<1>3. \A p : \A i \in 1 .. Len(watch) : Sent(i, p)' <=> Sent(i, p)
  BY <1>2 DEF Sent
<1>4. \/ seam' = {} /\ \A p : Sent(n, p)' <=> p \in seam
      \/ seam' = seam /\ \A p : ~Sent(n, p)'
  <2>1. watch \in Seq([kind : {"change"}, change : SUBSET (RunIds \X Writes)]
                        \cup [kind : {"resolved"}])
    BY DEF IInv, TypeOK
  <2>2. CASE Forward
    <3>1. seam' = {} /\ watch'[n] = Change(seam)
      BY <2>1, <2>2 DEF Forward
    <3>2. Change(seam).kind = "change" /\ Change(seam).change = seam
      BY DEF Change
    <3> QED BY <3>1, <3>2 DEF Sent
  <2>3. CASE Resolve
    <3>1. seam' = seam /\ watch'[n] = Resolved
      BY <2>1, <2>3 DEF Resolve
    <3>2. Resolved.kind # "change"
      BY DEF Resolved
    <3> QED BY <3>1, <3>2 DEF Sent
  <2> QED BY <2>2, <2>3
<1>5. \A p : Pending(p)' <=> Pending(p)
  <2>1. ASSUME NEW p, Pending(p)'  PROVE Pending(p)
    BY <1>2, <1>3, <1>4, <2>1 DEF Pending
  <2>2. ASSUME NEW p, Pending(p)  PROVE Pending(p)'
    BY <1>2, <1>3, <1>4, <2>2 DEF Pending
  <2> QED BY <2>1, <2>2
<1>6. ASSUME NEW r, ResultFirst(r)  PROVE ResultFirst(r)'
  <2>1. Pending(<<r, "result">>)
    BY <1>1, <1>6 DEF ResultFirst
  <2>2. ASSUME NEW i \in 1 .. Len(watch'), NEW w \in {"success", "failure"}, Sent(i, <<r, w>>)'
        PROVE  \E j \in 1 .. i : Sent(j, <<r, "result">>)'
    <3>1. CASE i \in 1 .. Len(watch)
      <4>1. PICK j \in 1 .. i : Sent(j, <<r, "result">>)
        BY <1>3, <1>6, <2>2, <3>1 DEF ResultFirst
      <4>2. j \in 1 .. Len(watch)
        BY <1>2, <3>1
      <4> QED BY <1>3, <4>1, <4>2
    <3>2. CASE i = n
      <4>1. \A p : p \in seam => Sent(n, p)'
        BY <1>4, <2>2, <3>2
      <4>2. \/ <<r, "result">> \in seam
            \/ \E j \in 1 .. Len(watch) : Sent(j, <<r, "result">>)
        BY <2>1 DEF Pending
      <4>3. n \in 1 .. n
        BY <1>2
      <4> QED BY <1>2, <1>3, <3>2, <4>1, <4>2, <4>3
    <3> QED BY <1>2, <3>1, <3>2
  <2> QED BY <1>5, <2>1, <2>2 DEF ResultFirst
<1>7. \A r \in 1 .. Len(runs) : (Owned(r)' <=> Owned(r)) /\ (Lacks(r)' <=> Lacks(r))
  BY <1>1 DEF Owned, Lacks, InHand, Ongoing
<1>8. OutcomesPending'
  BY <1>1, <1>5, <1>7 DEF OutcomesPending, Delivery, Served
<1>9. ResultsPending'
  BY <1>1, <1>6, <1>7 DEF ResultsPending, Delivery
<1>10. TrueResults'
  BY <1>1, <1>5 DEF TrueResults, Delivery, Known
<1>11. EndedRuns' /\ ResultsKept'
  BY <1>1 DEF EndedRuns, ResultsKept, Delivery
<1> QED BY <1>8, <1>9, <1>10, <1>11 DEF Delivery

\* A retirement drops what is in the seam, and lets what was sent arrive.
LEMMA RetireDelivers ==
    ASSUME IInv, IInv', Delivery, Retire
    PROVE  Delivery'
<1>1. closed' = TRUE /\ seam' = {} /\ UNCHANGED <<pc, hand, book, watch, runs>>
  BY DEF Retire, taskVars
<1>2. ~Served'
  BY <1>1 DEF Served
<1>3. \A p : Pending(p)' => Pending(p)
  BY <1>1 DEF Pending, Sent
<1>4. OutcomesPending'
  BY <1>2 DEF OutcomesPending
<1>5. ResultsPending'
  <2>1. \A r : ResultFirst(r) => ResultFirst(r)'
    BY <1>1, <1>2 DEF ResultFirst, Sent
  <2>2. \A r \in 1 .. Len(runs) : Lacks(r)' <=> Lacks(r)
    BY <1>1 DEF Lacks, InHand, Ongoing
  <2> QED BY <1>1, <2>1, <2>2 DEF ResultsPending, Delivery
<1>6. TrueResults'
  BY <1>1, <1>3 DEF TrueResults, Delivery, Known
<1>7. EndedRuns' /\ ResultsKept'
  BY <1>1 DEF EndedRuns, ResultsKept, Delivery
<1> QED BY <1>4, <1>5, <1>6, <1>7 DEF Delivery

\* A task that ended has no goals, and nothing is on its way to it.
LEMMA EndDelivers ==
    ASSUME IInv, IInv', Delivery, EndTask
    PROVE  Delivery'
<1>1. /\ pc' = "ended" /\ watch' = <<>> /\ seam' = {}
      /\ book' = [g \in Goals |-> NoEntry]
  BY DEF EndTask
<1>2. \A g \in Goals : /\ ~Ongoing(g)' /\ ~book'[g].result /\ book'[g].status \notin Outcomes
  BY <1>1 DEF NoEntry, Ongoing, Live, Outcomes
<1>3. \A p : ~Pending(p)'
  BY <1>1 DEF Pending
<1>4. \A r : ~Lacks(r)'
  BY <1>1, <1>2 DEF Lacks, InHand
<1>5. ~Served'
  BY <1>1 DEF Served
<1> QED BY <1>2, <1>3, <1>4, <1>5 DEF Delivery, OutcomesPending, ResultsPending, TrueResults,
                                      EndedRuns, ResultsKept

\* A change that is observed: a goal goes on unless its run's outcome is in it, and
\* has its run's result if that is in it.
LEMMA ObservedResult ==
    ASSUME IInv, NEW g \in Goals, Ongoing(g), NEW C
    PROVE  /\ Observed(g, C).run = book[g].run
           /\ Observed(g, C).result = (book[g].result \/ <<book[g].run, "result">> \in C)
           /\ g \in Ending(C) <=> \E w \in {"success", "failure"} : <<book[g].run, w>> \in C
<1>1. book[g] \in Entry
  BY DEF IInv, TypeOK
<1>2. CASE <<book[g].run, "success">> \in C
  BY <1>1, <1>2 DEF Observed, Ending, Entry, Ongoing, Live, Outcomes
<1>3. CASE <<book[g].run, "success">> \notin C /\ <<book[g].run, "failure">> \in C
  BY <1>1, <1>3 DEF Observed, Ending, Entry, Ongoing, Live, Outcomes
<1>4. CASE <<book[g].run, "success">> \notin C /\ <<book[g].run, "failure">> \notin C
  BY <1>1, <1>4 DEF Observed, Ending, Entry, Ongoing, Live, Outcomes
<1> QED BY <1>2, <1>3, <1>4

\* What the task takes reaches its goal: the outcome ends it, with the result that
\* came before or comes with it.
LEMMA TakeDelivers ==
    ASSUME IInv, IInv', Delivery, TakeWatched
    PROVE  Delivery'
<1> PICK C : C = IF Head(watch).kind = "change" THEN Head(watch).change ELSE {}
  OBVIOUS
<1>1. /\ pc \in {"idle", "draining"} /\ watch # <<>> /\ watch' = Tail(watch)
      /\ UNCHANGED <<pc, closed, seam, runs>>
  BY DEF TakeWatched
<1>2. /\ Len(watch) \in Nat \ {0} /\ Len(watch') = Len(watch) - 1
      /\ \A i \in 1 .. Len(watch') : i + 1 \in 1 .. Len(watch) /\ watch'[i] = watch[i + 1]
      /\ \A i \in 1 .. Len(watch) : i # 1 => i - 1 \in 1 .. Len(watch') /\ watch'[i - 1] = watch[i]
      /\ Head(watch) = watch[1] /\ 1 \in 1 .. Len(watch)
  <2>1. watch \in Seq([kind : {"change"}, change : SUBSET (RunIds \X Writes)]
                        \cup [kind : {"resolved"}])
    BY DEF IInv, TypeOK
  <2> QED BY <1>1, <2>1
<1>3. \A p : Sent(1, p) <=> p \in C
  BY <1>2 DEF Sent
<1>4. ASSUME NEW p
      PROVE  /\ \A i \in 1 .. Len(watch') : i + 1 \in 1 .. Len(watch) /\ (Sent(i, p)' <=> Sent(i + 1, p))
             /\ \A i \in 1 .. Len(watch) : i # 1 =>
                   i - 1 \in 1 .. Len(watch') /\ (Sent(i - 1, p)' <=> Sent(i, p))
  BY <1>2 DEF Sent
<1>5. ASSUME NEW p
      PROVE  /\ Pending(p)' => Pending(p)
             /\ Pending(p) => p \in C \/ Pending(p)'
  <2>1. Pending(p)' => Pending(p)
    BY <1>1, <1>4 DEF Pending
  <2>2. Pending(p) => p \in C \/ Pending(p)'
    BY <1>1, <1>2, <1>3, <1>4 DEF Pending
  <2> QED BY <2>1, <2>2
<1>6. \A g \in Goals :
         /\ Ongoing(g) => \/ book'[g] = NoEntry /\ g \in Ending(C)
                          \/ book'[g].run = book[g].run
                             /\ book'[g].result = (book[g].result \/ <<book[g].run, "result">> \in C)
                             /\ (Ongoing(g)' <=> g \notin Ending(C))
         /\ ~Ongoing(g) => book'[g] = NoEntry \/ book'[g] = book[g]
  <2> SUFFICES ASSUME NEW g \in Goals
               PROVE  /\ Ongoing(g) => \/ book'[g] = NoEntry /\ g \in Ending(C)
                                       \/ /\ book'[g].run = book[g].run
                                          /\ book'[g].result = (book[g].result
                                                \/ <<book[g].run, "result">> \in C)
                                          /\ (Ongoing(g)' <=> g \notin Ending(C))
                      /\ ~Ongoing(g) => book'[g] = NoEntry \/ book'[g] = book[g]
    OBVIOUS
  <2>1. CASE Head(watch).kind = "change" /\ ObserveChange(C)
    <3>1. TypeOK /\ BookOK /\ Observe(C) /\ runs' = runs
      BY <1>1, <2>1 DEF IInv, ObserveChange
    <3>2. /\ Ongoing(g) => IF g \in Ending(C)
                           THEN book'[g] = NoEntry \/ book'[g] = Observed(g, C)
                           ELSE book'[g] = Observed(g, C)
          /\ ~Ongoing(g) => book'[g] = NoEntry \/ book'[g] = book[g]
          /\ Ongoing(g)' => g \notin Ending(C)
      BY <3>1, ObserveStep
    <3>3. ASSUME Ongoing(g), g \notin Ending(C)  PROVE Ongoing(g)'
      <4>1. Observed(g, C).status = book[g].status
        BY <3>1, <3>3, ObservedGoal
      <4> QED BY <3>2, <3>3, <4>1 DEF Ongoing
    <3>4. ASSUME Ongoing(g), book'[g] = Observed(g, C)
          PROVE  /\ book'[g].run = book[g].run
                 /\ book'[g].result = (book[g].result \/ <<book[g].run, "result">> \in C)
                 /\ (Ongoing(g)' <=> g \notin Ending(C))
      <4>1. /\ Observed(g, C).run = book[g].run
            /\ Observed(g, C).result = (book[g].result \/ <<book[g].run, "result">> \in C)
        BY <3>4, ObservedResult
      <4>2. Ongoing(g)' <=> g \notin Ending(C)
        BY <3>2, <3>3, <3>4
      <4> QED BY <3>4, <4>1, <4>2
    <3>5. CASE Ongoing(g)
      <4>1. \/ book'[g] = NoEntry /\ g \in Ending(C)
            \/ book'[g] = Observed(g, C)
        BY <3>2, <3>5
      <4> QED BY <3>4, <3>5, <4>1
    <3>6. CASE ~Ongoing(g)
      BY <3>2, <3>6
    <3> QED BY <3>5, <3>6
  <2>2. CASE Head(watch).kind = "resolved" /\ UNCHANGED book
    <3>1. C = {}
      BY <2>2
    <3>2. Ongoing(g)' <=> Ongoing(g)
      BY <2>2 DEF Ongoing
    <3>3. Ongoing(g) => g \notin Ending(C)
      BY <3>1, ObservedResult
    <3>4. book[g].result \in BOOLEAN
      BY DEF IInv, TypeOK, Entry
    <3> QED BY <2>2, <3>1, <3>2, <3>3, <3>4
  <2> QED BY <2>1, <2>2 DEF TakeWatched
<1>7. NoEntry.status = "none" /\ ~NoEntry.result
  BY DEF NoEntry
<1>8. \A r : ~InHand(r) /\ ~InHand(r)'
  BY <1>1 DEF InHand
<1>9. ASSUME NEW g \in Goals, Ongoing(g)'
      PROVE  /\ Ongoing(g) /\ book'[g].run = book[g].run
             /\ \A w \in {"success", "failure"} : <<book[g].run, w>> \notin C
             /\ ~book'[g].result => ~book[g].result /\ <<book[g].run, "result">> \notin C
  <2>1. book'[g] # NoEntry
    BY <1>7, <1>9 DEF Ongoing, Live
  <2>2. Ongoing(g)
    BY <1>6, <1>9, <2>1 DEF Ongoing
  <2>3. g \notin Ending(C) /\ book'[g].run = book[g].run
        /\ book'[g].result = (book[g].result \/ <<book[g].run, "result">> \in C)
    BY <1>6, <1>9, <2>1, <2>2
  <2> QED BY <2>2, <2>3, ObservedResult
<1>10. OutcomesPending'
  <2> SUFFICES ASSUME Served', NEW r \in 1 .. Len(runs), NEW w \in {"success", "failure"},
                      Owned(r)', runs[r].state = w
               PROVE  Pending(<<r, w>>)'
    BY <1>1 DEF OutcomesPending
  <2>1. PICK g \in Goals : Ongoing(g)' /\ book'[g].run = r
    BY <1>8 DEF Owned
  <2>2. Ongoing(g) /\ book[g].run = r /\ <<r, w>> \notin C
    BY <1>9, <2>1
  <2>3. Served /\ Owned(r)
    BY <1>1, <2>2 DEF Served, Owned
  <2> QED BY <1>5, <2>2, <2>3 DEF Delivery, OutcomesPending
<1>11. ResultsPending'
  <2> SUFFICES ASSUME NEW r \in 1 .. Len(runs), runs[r].wrote, Lacks(r)'
               PROVE  ResultFirst(r)'
    BY <1>1 DEF ResultsPending
  <2>1. PICK g \in Goals : Ongoing(g)' /\ book'[g].run = r /\ ~book'[g].result
    BY <1>8 DEF Lacks
  <2>2. Ongoing(g) /\ book[g].run = r /\ ~book[g].result /\ <<r, "result">> \notin C
    BY <1>9, <2>1
  <2>3. ResultFirst(r)
    BY <2>2 DEF Delivery, ResultsPending, Lacks
  <2>4. Served' => Pending(<<r, "result">>)'
    BY <1>1, <1>5, <2>2, <2>3 DEF ResultFirst, Served
  <2>5. ASSUME NEW i \in 1 .. Len(watch'), NEW w \in {"success", "failure"}, Sent(i, <<r, w>>)'
        PROVE  \E j \in 1 .. i : Sent(j, <<r, "result">>)'
    <3>1. i + 1 \in 1 .. Len(watch) /\ Sent(i + 1, <<r, w>>)
      BY <1>4, <2>5
    <3>2. PICK j \in 1 .. i + 1 : Sent(j, <<r, "result">>)
      BY <2>3, <3>1 DEF ResultFirst
    <3>3. j # 1
      BY <1>3, <2>2, <3>2
    <3>4. j \in 1 .. Len(watch) /\ j - 1 \in 1 .. i
      BY <1>2, <3>1, <3>2, <3>3
    <3> QED BY <1>4, <3>2, <3>3, <3>4
  <2> QED BY <2>4, <2>5 DEF ResultFirst
<1>12. TrueResults'
  <2>1. ASSUME NEW r \in RunIds, Pending(<<r, "result">>)'
        PROVE  r \in 1 .. Len(runs) /\ runs[r].wrote
    BY <1>5, <2>1 DEF Delivery, TrueResults
  <2>2. ASSUME NEW g \in Goals, book'[g].result
        PROVE  Known(g)' /\ runs[book'[g].run].wrote
    <3>1. book'[g] # NoEntry
      BY <1>7, <2>2
    <3>2. CASE Ongoing(g)
      <4>1. /\ book'[g].run = book[g].run
            /\ book[g].result \/ <<book[g].run, "result">> \in C
        BY <1>6, <2>2, <3>1, <3>2
      <4>2. book[g].run \in 1 .. Len(runs) /\ book[g].run \in RunIds
        BY <3>2, GoalRuns, RunsTyped
      <4>3. runs[book[g].run].wrote
        BY <1>2, <1>3, <4>1, <4>2 DEF Delivery, TrueResults, Pending
      <4>4. Known(g)'
        <5>1. CASE Ongoing(g)'
          BY <5>1 DEF Ongoing, Known, Live
        <5>2. CASE g \in Ending(C)
          <6>1. Head(watch).kind = "change" /\ ObserveChange(C)
            <7>1. C # {}
              BY <3>2, <5>2, ObservedResult
            <7> QED BY <7>1 DEF TakeWatched
          <6>2. TypeOK /\ BookOK /\ Observe(C) /\ runs' = runs
            BY <1>1, <6>1 DEF IInv, ObserveChange
          <6>3. book'[g] = Observed(g, C)
            BY <3>1, <3>2, <5>2, <6>2, ObserveStep
          <6>4. Observed(g, C).status \in Outcomes
            BY <3>2, <5>2, <6>2, ObservedGoal
          <6> QED BY <6>3, <6>4 DEF Known, Outcomes
        <5> QED BY <1>6, <3>1, <3>2, <5>1, <5>2
      <4> QED BY <4>1, <4>3, <4>4
    <3>3. CASE ~Ongoing(g)
      <4>1. book'[g] = book[g]
        BY <1>6, <3>1, <3>3
      <4> QED BY <2>2, <4>1 DEF Delivery, TrueResults, Known
    <3> QED BY <3>2, <3>3
  <2> QED BY <1>1, <2>1, <2>2 DEF TrueResults
<1>13. ASSUME NEW g \in Goals, book'[g].status \in Outcomes
       PROVE  /\ runs[book'[g].run].state # "running"
              /\ book'[g].result = runs[book'[g].run].wrote
  <2>1. book'[g] # NoEntry /\ ~Ongoing(g)'
    BY <1>7, <1>13 DEF Ongoing, Live, Outcomes
  <2>2. CASE Ongoing(g)
    <3> PICK r : r = book[g].run
      OBVIOUS
    <3>1. /\ g \in Ending(C) /\ book'[g].run = r
          /\ book'[g].result = (book[g].result \/ <<r, "result">> \in C)
      BY <1>6, <2>1, <2>2
    <3>2. PICK w \in {"success", "failure"} : <<r, w>> \in C
      BY <2>2, <3>1, ObservedResult
    <3>3. r \in 1 .. Len(runs) /\ r \in RunIds /\ runs[r] \in Run
      BY <2>2, GoalRuns, RunsTyped
    <3>4. runs[r].state # "running"
      BY <1>2, <1>3, <3>2, <3>3, NoneSentOfRunning
    <3>5. ASSUME runs[r].wrote, ~book[g].result  PROVE <<r, "result">> \in C
      <4>1. ResultFirst(r)
        BY <2>2, <3>3, <3>5 DEF Delivery, ResultsPending, Lacks
      <4>2. \E j \in 1 .. 1 : Sent(j, <<r, "result">>)
        BY <1>2, <1>3, <3>2, <4>1 DEF ResultFirst
      <4> QED BY <1>3, <4>2
    <3>6. ASSUME book[g].result \/ <<r, "result">> \in C  PROVE runs[r].wrote
      BY <1>2, <1>3, <3>3, <3>6 DEF Delivery, TrueResults, Pending
    <3>7. runs[r].wrote \in BOOLEAN /\ book[g].result \in BOOLEAN
      BY <3>3 DEF Run, IInv, TypeOK, Entry
    <3> QED BY <3>1, <3>4, <3>5, <3>6, <3>7
  <2>3. CASE ~Ongoing(g)
    <3>1. book'[g] = book[g]
      BY <1>6, <2>1, <2>3
    <3> QED BY <1>13, <3>1 DEF Delivery, EndedRuns, ResultsKept
  <2> QED BY <2>2, <2>3
<1>14. EndedRuns' /\ ResultsKept'
  BY <1>1, <1>13 DEF EndedRuns, ResultsKept
<1> QED BY <1>10, <1>11, <1>12, <1>14 DEF Delivery

\* No goal is known at the start, and nothing is on its way.
LEMMA InitDelivers == Init => Delivery
<1> SUFFICES ASSUME Init PROVE Delivery
  OBVIOUS
<1>1. Len(runs) = 0 /\ Len(watch) = 0 /\ seam = {}
  BY DEF Init
<1>2. \A g \in Goals : book[g].status = "none" /\ ~book[g].result
  BY DEF Init, NoEntry
<1>3. \A p : ~Pending(p)
  BY <1>1 DEF Pending
<1>4. 1 .. Len(runs) = {}
  BY <1>1
<1>5. OutcomesPending /\ ResultsPending
  BY <1>4 DEF OutcomesPending, ResultsPending
<1>6. TrueResults
  BY <1>2, <1>3 DEF TrueResults
<1>7. EndedRuns /\ ResultsKept
  BY <1>2 DEF EndedRuns, ResultsKept, Outcomes
<1> QED BY <1>5, <1>6, <1>7 DEF Delivery

\* Every step of the task, of the device and of the node task keeps what is on
\* its way, or hands it to the goal it is for.
LEMMA NextDelivers ==
    ASSUME IInv, IInv', Delivery, [Next]_vars
    PROVE  Delivery'
<1>1. CASE TakeWatched
  BY <1>1, TakeDelivers
<1>2. CASE \/ \E g \in Goals \cup {NoGoal} : ReceiveGoal(g)
           \/ HandleGoal
           \/ \E id \in Goals \cup {NoGoal}, stamp \in 0 .. Len(runs) : ReceiveCancel(id, stamp)
           \/ FinishCancel
           \/ \E q \in Requests, g \in Goals : ReceiveResult(q, g)
           \/ Retry
           \/ UNCHANGED vars
  BY <1>2, TaskDelivers
<1>3. CASE Accept
  BY <1>3, AcceptDelivers
<1>4. CASE End \/ ReceiveFails
  BY <1>4, EndDelivers DEF End, ReceiveFails
<1>5. CASE Spawn
  BY <1>5, SpawnDelivers
<1>6. CASE \E g \in Goals : Stop(g)
  BY <1>6, StopDelivers
<1>7. CASE \E r \in RunIds, W \in RunWriteSets : RunWrites(r, W)
  BY <1>7, RunWritesDelivers
<1>8. CASE Forward \/ Resolve
  BY <1>8, ForwardDelivers
<1>9. CASE Retire
  BY <1>9, RetireDelivers
<1> QED
  BY <1>1, <1>2, <1>3, <1>4, <1>5, <1>6, <1>7, <1>8, <1>9 DEF Next

\* What a run reports is on its way, in order, until its goal has it.
THEOREM DeliveryInvariant == Spec => []Delivery
<1>1. Init => Delivery
  BY InitDelivers
<1>2. IInv /\ IInv' /\ Delivery /\ [Next]_vars => Delivery'
  BY NextDelivers
<1> QED BY <1>1, <1>2, Invariant, PTL DEF Spec

\* The outcome of a run that ended is never lost before its goal has it: it is in
\* the seam or among what the node task sent, until the action is retired.  So it
\* is for a run that ends before the task learns that it was spawned.
THEOREM OutcomesReachTheBook == Spec => []OutcomeOnItsWay
<1>1. IInv /\ Delivery => OutcomeOnItsWay
  <2> SUFFICES ASSUME IInv, Delivery, NEW g \in Goals, Ongoing(g), Served,
                      runs[book[g].run].state # "running"
               PROVE  Pending(<<book[g].run, runs[book[g].run].state>>)
    BY DEF OutcomeOnItsWay, Served, Pending, Sent
  <2>1. Known(g)
    BY DEF Known, Ongoing, Live
  <2>2. book[g].run \in 1 .. Len(runs)
    BY <2>1, GoalRuns
  <2>3. runs[book[g].run].state \in {"success", "failure"}
    BY <2>2, RunsTyped DEF Run
  <2>4. Owned(book[g].run)
    BY DEF Owned
  <2> QED BY <2>2, <2>3, <2>4 DEF Delivery, OutcomesPending
<1> QED BY <1>1, Invariant, DeliveryInvariant, PTL

\* An ended goal has its run's result exactly when the run wrote one, whether it
\* came in an earlier change or in the one that ended the goal.
THEOREM ResultsReachTheGoal == Spec => []ResultsKept
<1>1. Delivery => ResultsKept
  BY DEF Delivery
<1> QED BY <1>1, DeliveryInvariant, PTL
=============================================================================
