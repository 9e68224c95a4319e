--------------------------- MODULE Ros2NodeProofs ---------------------------
(* Theorems about Ros2Node, for any keys, topics, outputs, skills and bounds. *)
EXTENDS Ros2Node, FiniteSetTheorems, WellFoundedInduction, TLAPS

-----------------------------------------------------------------------------
(* The inductive invariant.                                                  *)

\* What a change of key k says once it is written: its value, or that it has none.
Current(k) == IF held[k] = None THEN Unset ELSE held[k]

\* What is pending, and what was taken with nothing newer pending, is what the
\* device holds.
SeamIsCurrent ==
    /\ pc # "publishing" => batch = Nothing
    /\ \A k \in Keys : pending[k] # None => pending[k] = Current(k)
    /\ \A k \in Keys : pending[k] = None /\ batch[k] # None => batch[k] = Current(k)

\* The owner of a topic is one of its keys, decided, and a topic subscribed has
\* none; a key that publishes owns its topic and is not refused, and one refused a
\* topic that is not subscribed is broken or does not sort before the owner.
Ownership ==
    /\ \A t \in Topics : owners[t] # None =>
          /\ ScalarTopic[owners[t]] = t /\ t \notin subscribed
          /\ owners[t] \in publishers \cup refused
    /\ \A k \in publishers : owners[ScalarTopic[k]] = k /\ k \notin refused
    /\ \A k \in refused : ScalarTopic[k] \notin subscribed /\ k \notin broken =>
          owners[ScalarTopic[k]] # None /\ owners[ScalarTopic[k]] <= k

\* A key of a typed output has no topic of its own.
RoutedApart ==
    \A o \in Outputs : \A k \in Routes[o] :
       k \notin publishers \cup refused /\ \A t \in Topics : owners[t] # k

\* A task serves a skill that is served, or is one of those retired.
TasksKept ==
    \A s \in Skills :
       /\ "serving" \in alive[s] => s \in served
       /\ "retired" \in alive[s] => s \in retiring
       /\ ~("serving" \in alive[s] /\ "retired" \in alive[s])

\* The topics subscribed for inputs are those of the first keys (FirstKeyHasTopic).
InputsFirst ==
    \A t \in Topics : inputs[t] # None =>
       /\ KeyTopic[inputs[t]] = t /\ inputs[t] \in described.inputs
       /\ \A k \in described.inputs : KeyTopic[k] = t => inputs[t] <= k

IInv ==
    /\ TypeOK /\ SeamIsCurrent /\ Ownership /\ RoutedApart /\ TasksKept /\ InputsFirst
    /\ NoEcho /\ NewestPublished /\ NewestComposed /\ NoLostWake /\ SkillsServed

USE ConstantsAssumption

-----------------------------------------------------------------------------
(* The actions, by what they change.                                         *)

\* A nonempty set of keys has a first one, which is its Min (input_topics).
LEMMA FirstKey ==
    ASSUME NEW K \in SUBSET Keys, K # {}
    PROVE  Min(K) \in K /\ \A k \in K : Min(K) <= k
<1> DEFINE R == {p \in Nat \X Nat : p[1] < p[2]}
<1>1. IsWellFoundedOn(R, Nat)
  BY NatLessThanWellFounded DEF OpToRel
<1>2. K \subseteq Nat
  OBVIOUS
<1> HIDE DEF R
<1>3. \E x \in K : \A y \in K : ~(<<y, x>> \in R)
  BY <1>1, <1>2, WFMin
<1>4. PICK x \in K : \A y \in K : ~(<<y, x>> \in R)
  BY <1>3
<1>5. \A y \in K : x <= y
  <2> SUFFICES ASSUME NEW y \in K, ~(x <= y)
               PROVE  FALSE
    OBVIOUS
  <2>1. x \in Nat /\ y \in Nat /\ y < x
    BY <1>2
  <2>2. <<y, x>> \in R
    BY <2>1 DEF R
  <2> QED
    BY <1>4, <2>2
<1> QED
  BY <1>5 DEF Min

\* What an ask does to the inputs, the skills and their tasks (expose).
LEMMA Asked ==
    ASSUME TypeOK, NEW I \in (SUBSET Inputs) \cup {None}, NEW M \in (SUBSET Skills) \cup {None},
           NEW FI \in SUBSET {KeyTopic[k] : k \in Inputs}, NEW FM \in SUBSET Skills,
           Expose(I, M, FI, FM)
    PROVE  /\ inputs' \in [Topics -> Keys \cup {None}]
           /\ described' \in [inputs : SUBSET Keys, methods : SUBSET Skills]
           /\ methodsPending' \in BOOLEAN
           /\ served' \in SUBSET Skills /\ retiring' \in SUBSET Skills
           /\ alive' \in [Skills -> SUBSET {"serving", "retired"}]
           /\ subscribed' \in SUBSET Topics
<1>1. inputs' \in [Topics -> Keys \cup {None}]
  <2>1. CASE I \in {None, described.inputs}
    BY <2>1 DEF Expose, ExposeInputs, TypeOK
  <2>2. CASE I \notin {None, described.inputs}
    <3>1. \A t \in Topics : WantedInput(I, t) \in Keys \cup {None}
      <4> SUFFICES ASSUME NEW t \in Topics
                   PROVE  WantedInput(I, t) \in Keys \cup {None}
        OBVIOUS
      <4>1. {k \in I : KeyTopic[k] = t} \in SUBSET Keys
        BY <2>2
      <4> QED
        BY <4>1, FirstKey DEF WantedInput
    <3> QED
      BY <2>2, <3>1 DEF Expose, ExposeInputs
  <2> QED
    BY <2>1, <2>2
<1>2. described' \in [inputs : SUBSET Keys, methods : SUBSET Skills]
  BY DEF Expose, TypeOK
<1>3. /\ methodsPending' \in BOOLEAN
      /\ served' \in SUBSET Skills /\ retiring' \in SUBSET Skills
  BY DEF Expose, ExposeMethods, TypeOK, Waiting
<1>4. alive' \in [Skills -> SUBSET {"serving", "retired"}]
  <2>1. \A E, C : Tasks(E, C) \in [Skills -> SUBSET {"serving", "retired"}]
    BY DEF Tasks, TypeOK
  <2> QED
    BY <2>1 DEF Expose, ExposeMethods, TypeOK
<1>5. subscribed' \in SUBSET Topics
  BY DEF Expose
<1> QED
  BY <1>1, <1>2, <1>3, <1>4, <1>5

-----------------------------------------------------------------------------
(* Types.                                                                    *)

\* What a typed output is (TypedOutputs).
Output(o) == [message : Message(o), composing : BOOLEAN, publisher : BOOLEAN, dirty : BOOLEAN,
              refused : BOOLEAN, echo : BOOLEAN]

\* An output stays an output when a key lands on its message (feed).
LEMMA FedOutput ==
    ASSUME NEW o \in Outputs, NEW out \in Output(o), NEW k \in Routes[o], NEW v \in Values
    PROVE  [out EXCEPT !.composing = TRUE, !.message[k] = v, !.dirty = TRUE] \in Output(o)
<1>1. [out.message EXCEPT ![k] = v] \in Message(o)
  BY DEF Message, Output
<1> QED
  BY <1>1 DEF Output

\* Nor do its flags make it something else (follow_subscriptions, publish_dirty).
LEMMA FlaggedOutput ==
    ASSUME NEW o \in Outputs, NEW out \in Output(o)
    PROVE  /\ [out EXCEPT !.refused = TRUE] \in Output(o)
           /\ [out EXCEPT !.composing = TRUE] \in Output(o)
           /\ [out EXCEPT !.echo = TRUE] \in Output(o)
           /\ [out EXCEPT !.echo = FALSE] \in Output(o)
           /\ [out EXCEPT !.publisher = FALSE, !.echo = TRUE] \in Output(o)
           /\ [out EXCEPT !.publisher = TRUE, !.dirty = FALSE] \in Output(o)
  BY DEF Output

\* What the topics subscribed and freed do to who publishes (follow_subscriptions).
LEMMA FollowTypes ==
    ASSUME TypeOK, NEW newly \in SUBSET Topics, NEW freed, FollowSubscriptions(newly, freed)
    PROVE  /\ publishers' \in SUBSET Keys /\ refused' \in SUBSET Keys
           /\ owners' \in [Topics -> Keys \cup {None}]
           /\ DOMAIN typed' = Outputs /\ \A o \in Outputs : typed'[o] \in Output(o)
<1>1. /\ publishers' \in SUBSET Keys
      /\ owners' \in [Topics -> Keys \cup {None}]
  BY DEF FollowSubscriptions, TypeOK
<1>2. refused' \in SUBSET Keys
  <2>1. {owners[t] : t \in newly} \ {None} \subseteq Keys
    BY DEF TypeOK
  <2> QED
    BY <2>1 DEF FollowSubscriptions, TypeOK
<1>3. DOMAIN typed' = Outputs
  BY DEF FollowSubscriptions, FollowTyped
<1>4. ASSUME NEW o \in Outputs
      PROVE  typed'[o] \in Output(o)
  <2>1. typed[o] \in Output(o)
    BY DEF TypeOK, Output
  <2>2. typed'[o] \in {typed[o], [typed[o] EXCEPT !.publisher = FALSE, !.echo = TRUE],
                       [typed[o] EXCEPT !.echo = FALSE]}
    BY DEF FollowSubscriptions, FollowTyped
  <2>3. /\ [typed[o] EXCEPT !.publisher = FALSE, !.echo = TRUE] \in Output(o)
        /\ [typed[o] EXCEPT !.echo = FALSE] \in Output(o)
    BY <2>1, FlaggedOutput, Zenon
  <2> QED
    BY <2>1, <2>2, <2>3, Zenon
<1> QED
  BY <1>1, <1>2, <1>3, <1>4

\* The types hold at first (run_node).
LEMMA TypeInit == Init => TypeOK
<1> SUFFICES ASSUME Init
             PROVE  TypeOK
  OBVIOUS
<1>1. \A o \in Outputs : typed[o] \in Output(o)
  BY DEF Init, NewOutput, Output, Message
<1>2. shown \in [keys : [Keys -> Values \cup {None}],
                 outputs : [Outputs -> {None} \cup UNION {Message(o) : o \in Outputs}]]
  BY DEF Init, Nothing
<1>3. /\ held \in [Keys -> Values \cup {None}]
      /\ kinds \in [Keys -> {MsgKind[v] : v \in Values} \cup {None}]
      /\ pending \in [Keys -> Values \cup {Unset, None}]
      /\ batch \in [Keys -> Values \cup {Unset, None}]
  BY DEF Init, Nothing
<1>4. /\ inputs \in [Topics -> Keys \cup {None}] /\ owners \in [Topics -> Keys \cup {None}]
      /\ alive \in [Skills -> SUBSET {"serving", "retired"}]
      /\ described \in [inputs : SUBSET Keys, methods : SUBSET Skills]
  BY DEF Init
<1>5. /\ served = {} /\ retiring = {} /\ publishers = {} /\ refused = {} /\ broken = {}
      /\ DOMAIN typed = Outputs /\ subscribed = TypedTopics
      /\ writes = 0 /\ asks = 0 /\ ~sending /\ ~wake /\ ~methodsPending /\ pc = "starting"
      /\ sending \in BOOLEAN /\ wake \in BOOLEAN /\ methodsPending \in BOOLEAN
  BY DEF Init
<1> QED
  BY <1>1, <1>2, <1>3, <1>4, <1>5 DEF TypeOK, Output

\* And every step keeps them.
LEMMA TypeStep == TypeOK /\ [Next]_vars => TypeOK'
<1> SUFFICES ASSUME TypeOK, [Next]_vars
             PROVE  TypeOK'
  OBVIOUS
<1>1. ASSUME NEW k \in Keys, NEW v \in Values \cup {Unset}, TrySend(k, v)
      PROVE  TypeOK'
  BY <1>1 DEF TypeOK, TrySend, Merged, serveVars, outVars
<1>2. CASE Wake
  BY <1>2 DEF TypeOK, Wake, deviceVars, serveVars, outVars
<1>3. ASSUME NEW s \in Skills, NEW which \in {"serving", "retired"}, TaskEnds(s, which)
      PROVE  TypeOK'
  BY <1>3 DEF TypeOK, TaskEnds, deviceVars, seamVars, outVars
<1>4. ASSUME NEW I \in (SUBSET Inputs) \cup {None}, NEW M \in (SUBSET Skills) \cup {None},
             NEW FI \in SUBSET {KeyTopic[k] : k \in Inputs}, NEW FM \in SUBSET Skills,
             Expose(I, M, FI, FM)
      PROVE  TypeOK'
  <2>1. /\ inputs' \in [Topics -> Keys \cup {None}]
        /\ described' \in [inputs : SUBSET Keys, methods : SUBSET Skills]
        /\ methodsPending' \in BOOLEAN
        /\ served' \in SUBSET Skills /\ retiring' \in SUBSET Skills
        /\ alive' \in [Skills -> SUBSET {"serving", "retired"}]
        /\ subscribed' \in SUBSET Topics
    BY <1>4, Asked
  <2>2. /\ publishers' \in SUBSET Keys /\ refused' \in SUBSET Keys
        /\ owners' \in [Topics -> Keys \cup {None}]
        /\ DOMAIN typed' = Outputs /\ \A o \in Outputs : typed'[o] \in Output(o)
    <3>1. subscribed' \ subscribed \in SUBSET Topics
      BY <2>1
    <3>2. FollowSubscriptions(subscribed' \ subscribed, subscribed \ subscribed')
      BY <1>4 DEF Expose
    <3> QED
      BY <3>1, <3>2, FollowTypes
  <2>3. /\ held' = held /\ writes' = writes /\ batch' = batch /\ shown' = shown
        /\ kinds' = kinds
        /\ pending' = pending /\ sending' = sending /\ wake' = wake /\ pc' = "idle"
    BY <1>4 DEF Expose, seamVars
  <2>4. asks' \in 0 .. MaxAsks
    BY <1>4 DEF Expose, TypeOK
  <2>5. broken' \in SUBSET (Keys \cup Topics \cup Skills)
    BY <1>4 DEF Expose, TypeOK
  <2> QED
    BY <2>1, <2>2, <2>3, <2>4, <2>5 DEF TypeOK, Output
<1>5. CASE Receive
  BY <1>5 DEF TypeOK, Receive, deviceVars, serveVars, outVars
<1>6. CASE Take
  BY <1>6 DEF TypeOK, Take, Nothing, deviceVars, serveVars, outVars
<1>7. ASSUME NEW k \in Keys, NEW ok \in BOOLEAN, PublishKey(k, ok)
      PROVE  TypeOK'
  <2>1. /\ UNCHANGED <<deviceVars, seamVars, pc, serveVars>>
        /\ batch' \in [Keys -> Values \cup {Unset, None}]
    BY <1>7 DEF PublishKey, TypeOK
  <2>2. /\ publishers' \in SUBSET Keys /\ refused' \in SUBSET Keys
        /\ kinds' \in [Keys -> {MsgKind[v] : v \in Values} \cup {None}]
        /\ owners' \in [Topics -> Keys \cup {None}]
        /\ DOMAIN typed' = Outputs /\ \A o \in Outputs : typed'[o] \in Output(o)
        /\ shown' \in [keys : [Keys -> Values \cup {None}],
                       outputs : [Outputs -> {None} \cup UNION {Message(o) : o \in Outputs}]]
        /\ broken' \in SUBSET (Keys \cup Topics \cup Skills)
    <3>1. CASE UNCHANGED outVars
      BY <3>1 DEF TypeOK, outVars, Output
    <3>2. CASE batch[k] \in Values /\ Feed(k, batch[k], ok)
      <4>1. ASSUME NEW o \in Outputs
            PROVE  typed'[o] \in Output(o)
        <5>1. typed[o] \in Output(o)
          BY DEF TypeOK, Output
        <5>2. typed'[o] = IF k \notin Routes[o] \/ typed[o].refused THEN typed[o]
                          ELSE IF ~ok /\ o \notin Whole /\ ~typed[o].composing
                          THEN [typed[o] EXCEPT !.refused = TRUE]
                          ELSE IF Lands(o, k, batch[k])
                          THEN [typed[o] EXCEPT !.composing = TRUE, !.message[k] = batch[k],
                                                !.dirty = TRUE]
                          ELSE [typed[o] EXCEPT !.composing = TRUE]
          BY <3>2 DEF Feed
        <5>3. /\ [typed[o] EXCEPT !.refused = TRUE] \in Output(o)
              /\ [typed[o] EXCEPT !.composing = TRUE] \in Output(o)
          BY <5>1, FlaggedOutput, Zenon
        <5>4. k \in Routes[o] =>
                 [typed[o] EXCEPT !.composing = TRUE, !.message[k] = batch[k], !.dirty = TRUE]
                    \in Output(o)
          BY <3>2, <5>1, FedOutput
        <5> QED
          BY <5>1, <5>2, <5>3, <5>4
      <4>2. DOMAIN typed' = Outputs
        BY <3>2 DEF Feed
      <4> QED
        BY <3>2, <4>1, <4>2 DEF Feed, TypeOK
    <3>3. CASE batch[k] \in Values /\ Shows(k, kinds[k], batch[k])
                 /\ UNCHANGED <<publishers, kinds, owners, refused, typed, broken>>
      BY <3>3 DEF Shows, TypeOK, Output
    <3>4. CASE batch[k] \in Values /\ Decide(k, batch[k], ok) /\ UNCHANGED typed
      <4>0. /\ publishers \in SUBSET Keys /\ refused \in SUBSET Keys
            /\ owners \in [Topics -> Keys \cup {None}]
            /\ broken \in SUBSET (Keys \cup Topics \cup Skills)
            /\ shown \in [keys : [Keys -> Values \cup {None}],
                          outputs : [Outputs -> {None} \cup UNION {Message(o) : o \in Outputs}]]
        BY DEF TypeOK
      <4>1. /\ publishers' \in SUBSET Keys /\ refused' \in SUBSET Keys
            /\ owners' \in [Topics -> Keys \cup {None}]
            /\ broken' \in SUBSET (Keys \cup Topics \cup Skills)
        <5>1. owners[ScalarTopic[k]] \in Keys \cup {None}
          BY <4>0
        <5>2. /\ publishers' \subseteq publishers \cup {k}
              /\ refused' \subseteq refused \cup ({owners[ScalarTopic[k]]} \ {None}) \cup {k}
              /\ owners' = owners \/ owners' = [owners EXCEPT ![ScalarTopic[k]] = k]
              /\ broken' \subseteq broken \cup {k}
          BY <3>4 DEF Decide, Refuse
        <5> QED
          BY <4>0, <5>1, <5>2
      <4>2. kinds' \in [Keys -> {MsgKind[v] : v \in Values} \cup {None}]
        BY <3>4 DEF Decide, Refuse, TypeOK
      <4>3. shown' = shown \/ shown' = [shown EXCEPT !.keys[k] = batch[k]]
        BY <3>4 DEF Decide, Refuse, Shows
      <4>4. shown' \in [keys : [Keys -> Values \cup {None}],
                        outputs : [Outputs -> {None} \cup UNION {Message(o) : o \in Outputs}]]
        BY <3>4, <4>0, <4>3
      <4> QED
        BY <3>4, <4>1, <4>2, <4>4 DEF TypeOK, Output
    <3>5. batch[k] # None /\ batch[k] # Unset => batch[k] \in Values
      BY DEF TypeOK
    <3> QED
      BY <1>7, <3>1, <3>2, <3>3, <3>4, <3>5 DEF PublishKey
  <2> QED
    BY <2>1, <2>2 DEF TypeOK, Output, deviceVars, seamVars, serveVars
<1>8. ASSUME NEW F \in SUBSET Outputs, PublishDirty(F)
      PROVE  TypeOK'
  <2>1. \A o \in Outputs : Published(o, F) \in Output(o)
    <3> SUFFICES ASSUME NEW o \in Outputs
                 PROVE  Published(o, F) \in Output(o)
      OBVIOUS
    <3>1. typed[o] \in Output(o)
      BY DEF TypeOK, Output
    <3>2. Published(o, F) \in {typed[o], [typed[o] EXCEPT !.echo = TRUE],
                               [typed[o] EXCEPT !.refused = TRUE],
                               [typed[o] EXCEPT !.publisher = TRUE, !.dirty = FALSE]}
      BY DEF Published
    <3>3. /\ [typed[o] EXCEPT !.echo = TRUE] \in Output(o)
          /\ [typed[o] EXCEPT !.refused = TRUE] \in Output(o)
          /\ [typed[o] EXCEPT !.publisher = TRUE, !.dirty = FALSE] \in Output(o)
      BY <3>1, FlaggedOutput, Zenon
    <3> QED
      BY <3>1, <3>2, <3>3, Zenon
  <2>2. DOMAIN typed' = Outputs /\ \A o \in Outputs : typed'[o] \in Output(o)
    BY <1>8, <2>1 DEF PublishDirty
  <2>3. shown' \in [keys : [Keys -> Values \cup {None}],
                    outputs : [Outputs -> {None} \cup UNION {Message(o) : o \in Outputs}]]
    <3>1. \A o \in Outputs : typed[o].message \in Message(o)
      BY DEF TypeOK
    <3> DEFINE news == [o \in Outputs |-> IF Sends(o, F) THEN typed[o].message
                                          ELSE shown.outputs[o]]
    <3>2. news \in [Outputs -> {None} \cup UNION {Message(o) : o \in Outputs}]
      BY <3>1 DEF TypeOK
    <3>3. shown' = [shown EXCEPT !.outputs = news]
      BY <1>8 DEF PublishDirty
    <3> HIDE DEF news
    <3> QED
      BY <3>2, <3>3 DEF TypeOK
  <2> QED
    BY <1>8, <2>2, <2>3 DEF PublishDirty, TypeOK, Output, deviceVars, seamVars, serveVars
<1>9. CASE UNCHANGED vars
  BY <1>9 DEF TypeOK, vars, deviceVars, seamVars, serveVars, outVars
<1> QED
  BY <1>1, <1>2, <1>3, <1>4, <1>5, <1>6, <1>7, <1>8, <1>9 DEF Next

-----------------------------------------------------------------------------
(* The outbound seam.                                                        *)

\* What is pending or taken stays what the device holds (try_send, take).
LEMMA SeamStep ==
    ASSUME TypeOK, SeamIsCurrent, [Next]_vars
    PROVE  SeamIsCurrent'
<1>1. ASSUME NEW k \in Keys, NEW v \in Values \cup {Unset}, TrySend(k, v)
      PROVE  SeamIsCurrent'
  <2>1. /\ held' = [held EXCEPT ![k] = IF v = Unset THEN None ELSE v]
        /\ pending' = [pending EXCEPT ![k] = v] /\ batch' = batch /\ pc' = pc
    BY <1>1 DEF TrySend, Merged
  <2> QED
    BY <2>1 DEF SeamIsCurrent, Current, TypeOK, Nothing
<1>2. CASE Wake
  BY <1>2 DEF SeamIsCurrent, Current, Nothing, Wake, deviceVars, seamVars, serveVars, outVars
<1>3. ASSUME NEW s \in Skills, NEW which \in {"serving", "retired"}, TaskEnds(s, which)
      PROVE  SeamIsCurrent'
  BY <1>3 DEF SeamIsCurrent, Current, Nothing, TaskEnds, deviceVars, seamVars, serveVars, outVars
<1>4. ASSUME NEW I \in (SUBSET Inputs) \cup {None}, NEW M \in (SUBSET Skills) \cup {None},
             NEW FI \in SUBSET {KeyTopic[k] : k \in Inputs}, NEW FM \in SUBSET Skills,
             Expose(I, M, FI, FM)
      PROVE  SeamIsCurrent'
  <2>1. /\ held' = held /\ pending' = pending /\ batch' = batch
        /\ pc' # "publishing" /\ pc # "publishing"
    BY <1>4 DEF Expose, seamVars
  <2> QED
    BY <2>1 DEF SeamIsCurrent, Current
<1>5. CASE Receive
  BY <1>5 DEF SeamIsCurrent, Current, Nothing, Receive, deviceVars, seamVars, serveVars, outVars
<1>6. CASE Take
  <2>1. /\ held' = held /\ pending' = Nothing /\ batch' = pending
        /\ pc' # "publishing" => pending = Nothing
    BY <1>6 DEF Take, deviceVars
  <2> QED
    BY <2>1 DEF SeamIsCurrent, Current, Nothing
<1>7. ASSUME NEW k \in Keys, NEW ok \in BOOLEAN, PublishKey(k, ok)
      PROVE  SeamIsCurrent'
  <2>1. /\ held' = held /\ pending' = pending /\ pc' = pc /\ pc = "publishing"
        /\ batch' = [batch EXCEPT ![k] = None]
    BY <1>7 DEF PublishKey, deviceVars, seamVars
  <2> QED
    BY <2>1 DEF SeamIsCurrent, Current, TypeOK
<1>8. ASSUME NEW F \in SUBSET Outputs, PublishDirty(F)
      PROVE  SeamIsCurrent'
  BY <1>8 DEF SeamIsCurrent, Current, Nothing, PublishDirty, deviceVars, seamVars, serveVars, outVars
<1>9. CASE UNCHANGED vars
  BY <1>9 DEF SeamIsCurrent, Current, Nothing, vars, deviceVars, seamVars, serveVars, outVars
<1> QED
  BY <1>1, <1>2, <1>3, <1>4, <1>5, <1>6, <1>7, <1>8, <1>9 DEF Next

\* No wake is lost: what is merged after it was received is woken for again (run_node).
LEMMA WakeStep ==
    ASSUME NoLostWake, [Next]_vars
    PROVE  NoLostWake'
<1>1. ASSUME NEW k \in Keys, NEW v \in Values \cup {Unset}, TrySend(k, v)
      PROVE  NoLostWake'
  BY <1>1 DEF NoLostWake, TrySend
<1>2. CASE Wake
  BY <1>2 DEF NoLostWake, Wake
<1>3. ASSUME NEW s \in Skills, NEW which \in {"serving", "retired"}, TaskEnds(s, which)
      PROVE  NoLostWake'
  BY <1>3 DEF NoLostWake, Nothing, TaskEnds, deviceVars, seamVars, serveVars, outVars
<1>4. ASSUME NEW I \in (SUBSET Inputs) \cup {None}, NEW M \in (SUBSET Skills) \cup {None},
             NEW FI \in SUBSET {KeyTopic[k] : k \in Inputs}, NEW FM \in SUBSET Skills,
             Expose(I, M, FI, FM)
      PROVE  NoLostWake'
  <2>1. pending' = pending /\ wake' = wake /\ sending' = sending /\ pc # "woken"
    BY <1>4 DEF Expose, seamVars
  <2> QED
    BY <2>1 DEF NoLostWake, Nothing
<1>5. CASE Receive
  BY <1>5 DEF NoLostWake, Receive
<1>6. CASE Take
  BY <1>6 DEF NoLostWake, Take, Nothing
<1>7. ASSUME NEW k \in Keys, NEW ok \in BOOLEAN, PublishKey(k, ok)
      PROVE  NoLostWake'
  <2>1. pending' = pending /\ wake' = wake /\ sending' = sending /\ pc' = pc
    BY <1>7 DEF PublishKey, seamVars
  <2> QED
    BY <2>1 DEF NoLostWake, Nothing
<1>8. ASSUME NEW F \in SUBSET Outputs, PublishDirty(F)
      PROVE  NoLostWake'
  BY <1>8 DEF NoLostWake, Nothing, PublishDirty, deviceVars, seamVars, serveVars, outVars
<1>9. CASE UNCHANGED vars
  BY <1>9 DEF NoLostWake, Nothing, vars, deviceVars, seamVars, serveVars, outVars
<1> QED
  BY <1>1, <1>2, <1>3, <1>4, <1>5, <1>6, <1>7, <1>8, <1>9 DEF Next

-----------------------------------------------------------------------------
(* The skills and their tasks.                                               *)

\* A task serves a skill served, or is a retired one's (expose_methods).
LEMMA TasksStep ==
    ASSUME TypeOK, TasksKept, [Next]_vars
    PROVE  TasksKept'
<1>1. ASSUME NEW k \in Keys, NEW v \in Values \cup {Unset}, TrySend(k, v)
      PROVE  TasksKept'
  <2>1. served' = served /\ retiring' = retiring /\ alive' = alive
    BY <1>1 DEF TrySend, serveVars
  <2> QED
    BY <2>1 DEF TasksKept
<1>2. CASE Wake
  <2>1. served' = served /\ retiring' = retiring /\ alive' = alive
    BY <1>2 DEF Wake, serveVars
  <2> QED
    BY <2>1 DEF TasksKept
<1>3. ASSUME NEW s \in Skills, NEW which \in {"serving", "retired"}, TaskEnds(s, which)
      PROVE  TasksKept'
  BY <1>3 DEF TasksKept, TaskEnds, TypeOK
<1>4. ASSUME NEW I \in (SUBSET Inputs) \cup {None}, NEW M \in (SUBSET Skills) \cup {None},
             NEW FI \in SUBSET {KeyTopic[k] : k \in Inputs}, NEW FM \in SUBSET Skills,
             Expose(I, M, FI, FM)
      PROVE  TasksKept'
  <2>1. CASE M = None \/ (M = described.methods /\ ~methodsPending)
    BY <1>4, <2>1 DEF Expose, ExposeMethods, TasksKept
  <2>2. CASE ~(M = None \/ (M = described.methods /\ ~methodsPending))
    <3> DEFINE ended == served \ M
               create == M \ (served \cup Waiting)
    <3>1. /\ retiring' = Waiting \cup ended
          /\ served' = (served \ ended) \cup (create \ FM)
          /\ alive' = Tasks(ended, create \ FM)
      BY <1>4, <2>2 DEF Expose, ExposeMethods
    <3>2. ASSUME NEW s \in Skills
          PROVE  /\ "serving" \in alive'[s] => s \in served'
                 /\ "retired" \in alive'[s] => s \in retiring'
                 /\ ~("serving" \in alive'[s] /\ "retired" \in alive'[s])
      <4>1. CASE s \in ended
        <5>1. alive'[s] = {"retired" : x \in alive[s]}
          BY <3>1, <4>1 DEF Tasks
        <5> QED
          BY <3>1, <4>1, <5>1
      <4>2. CASE s \notin ended /\ s \in create \ FM
        <5>1. alive'[s] = alive[s] \cup {"serving"}
          BY <3>1, <4>2 DEF Tasks
        <5>2. "serving" \notin alive[s] /\ "retired" \notin alive[s]
          BY <4>2 DEF TasksKept, Waiting
        <5> QED
          BY <3>1, <4>2, <5>1, <5>2
      <4>3. CASE s \notin ended /\ s \notin create \ FM
        <5>1. alive'[s] = alive[s]
          BY <3>1, <4>3 DEF Tasks
        <5>2. "retired" \in alive[s] => s \in Waiting
          BY DEF TasksKept, Waiting
        <5> QED
          BY <3>1, <4>3, <5>1, <5>2 DEF TasksKept
      <4> QED
        BY <4>1, <4>2, <4>3
    <3> QED
      BY <3>2 DEF TasksKept
  <2> QED
    BY <2>1, <2>2
<1>5. CASE Receive
  <2>1. served' = served /\ retiring' = retiring /\ alive' = alive
    BY <1>5 DEF Receive, serveVars
  <2> QED
    BY <2>1 DEF TasksKept
<1>6. CASE Take
  <2>1. served' = served /\ retiring' = retiring /\ alive' = alive
    BY <1>6 DEF Take, serveVars
  <2> QED
    BY <2>1 DEF TasksKept
<1>7. ASSUME NEW k \in Keys, NEW ok \in BOOLEAN, PublishKey(k, ok)
      PROVE  TasksKept'
  <2>1. served' = served /\ retiring' = retiring /\ alive' = alive
    BY <1>7 DEF PublishKey, serveVars
  <2> QED
    BY <2>1 DEF TasksKept
<1>8. ASSUME NEW F \in SUBSET Outputs, PublishDirty(F)
      PROVE  TasksKept'
  <2>1. served' = served /\ retiring' = retiring /\ alive' = alive
    BY <1>8 DEF PublishDirty, serveVars
  <2> QED
    BY <2>1 DEF TasksKept
<1>9. CASE UNCHANGED vars
  <2>1. served' = served /\ retiring' = retiring /\ alive' = alive
    BY <1>9 DEF vars, serveVars
  <2> QED
    BY <2>1 DEF TasksKept
<1> QED
  BY <1>1, <1>2, <1>3, <1>4, <1>5, <1>6, <1>7, <1>8, <1>9 DEF Next

\* A skill described is served, waited for or could not be made (expose_methods).
LEMMA ServedStep ==
    ASSUME SkillsServed, [Next]_vars
    PROVE  SkillsServed'
<1>1. ASSUME NEW k \in Keys, NEW v \in Values \cup {Unset}, TrySend(k, v)
      PROVE  SkillsServed'
  <2>1. described' = described /\ served' = served /\ methodsPending' = methodsPending
        /\ broken \subseteq broken'
    BY <1>1 DEF TrySend, serveVars, outVars
  <2> QED
    BY <2>1 DEF SkillsServed
<1>2. CASE Wake
  <2>1. described' = described /\ served' = served /\ methodsPending' = methodsPending
        /\ broken \subseteq broken'
    BY <1>2 DEF Wake, serveVars, outVars
  <2> QED
    BY <2>1 DEF SkillsServed
<1>3. ASSUME NEW s \in Skills, NEW which \in {"serving", "retired"}, TaskEnds(s, which)
      PROVE  SkillsServed'
  <2>1. described' = described /\ served' = served /\ methodsPending' = methodsPending
        /\ broken \subseteq broken'
    BY <1>3 DEF TaskEnds, serveVars, outVars
  <2> QED
    BY <2>1 DEF SkillsServed
<1>4. ASSUME NEW I \in (SUBSET Inputs) \cup {None}, NEW M \in (SUBSET Skills) \cup {None},
             NEW FI \in SUBSET {KeyTopic[k] : k \in Inputs}, NEW FM \in SUBSET Skills,
             Expose(I, M, FI, FM)
      PROVE  SkillsServed'
  <2>1. broken' = broken \cup FM
        /\ described'.methods = IF M = None THEN described.methods ELSE M
    BY <1>4 DEF Expose
  <2>2. CASE M = None \/ (M = described.methods /\ ~methodsPending)
    BY <1>4, <2>1, <2>2 DEF Expose, ExposeMethods, SkillsServed
  <2>3. CASE ~(M = None \/ (M = described.methods /\ ~methodsPending))
    BY <1>4, <2>1, <2>3 DEF Expose, ExposeMethods, SkillsServed
  <2> QED
    BY <2>2, <2>3
<1>5. CASE Receive
  <2>1. described' = described /\ served' = served /\ methodsPending' = methodsPending
        /\ broken \subseteq broken'
    BY <1>5 DEF Receive, serveVars, outVars
  <2> QED
    BY <2>1 DEF SkillsServed
<1>6. CASE Take
  <2>1. described' = described /\ served' = served /\ methodsPending' = methodsPending
        /\ broken \subseteq broken'
    BY <1>6 DEF Take, serveVars, outVars
  <2> QED
    BY <2>1 DEF SkillsServed
<1>7. ASSUME NEW k \in Keys, NEW ok \in BOOLEAN, PublishKey(k, ok)
      PROVE  SkillsServed'
  <2>1. described' = described /\ served' = served /\ methodsPending' = methodsPending
        /\ broken \subseteq broken'
    BY <1>7 DEF PublishKey, Feed, Shows, Decide, Refuse, serveVars, outVars
  <2> QED
    BY <2>1 DEF SkillsServed
<1>8. ASSUME NEW F \in SUBSET Outputs, PublishDirty(F)
      PROVE  SkillsServed'
  <2>1. described' = described /\ served' = served /\ methodsPending' = methodsPending
        /\ broken \subseteq broken'
    BY <1>8 DEF PublishDirty, serveVars, outVars
  <2> QED
    BY <2>1 DEF SkillsServed
<1>9. CASE UNCHANGED vars
  <2>1. described' = described /\ served' = served /\ methodsPending' = methodsPending
        /\ broken \subseteq broken'
    BY <1>9 DEF vars, serveVars, outVars
  <2> QED
    BY <2>1 DEF SkillsServed
<1> QED
  BY <1>1, <1>2, <1>3, <1>4, <1>5, <1>6, <1>7, <1>8, <1>9 DEF Next

-----------------------------------------------------------------------------
(* The typed outputs.                                                        *)

\* What a key does to a typed output: its value lands on the message, or leaves
\* it as it was (feed).
LEMMA Fed ==
    ASSUME TypeOK, NEW k \in Keys, NEW v, NEW ok, Feed(k, v, ok), NEW o \in Outputs
    PROVE  /\ typed'[o].publisher = typed[o].publisher
           /\ typed[o].refused => typed'[o].refused
           /\ k \notin Routes[o] => typed'[o] = typed[o]
           /\ k \in Routes[o] /\ ~typed'[o].refused /\ Lands(o, k, v) =>
                 typed'[o].message = [typed[o].message EXCEPT ![k] = v] /\ typed'[o].dirty
           /\ k \in Routes[o] /\ ~typed'[o].refused /\ ~Lands(o, k, v) =>
                 typed'[o].message = typed[o].message /\ typed'[o].dirty = typed[o].dirty
<1>1. typed[o] \in Output(o)
  BY DEF TypeOK, Output
<1>2. typed'[o] = IF k \notin Routes[o] \/ typed[o].refused THEN typed[o]
                  ELSE IF ~ok /\ o \notin Whole /\ ~typed[o].composing
                  THEN [typed[o] EXCEPT !.refused = TRUE]
                  ELSE IF Lands(o, k, v)
                  THEN [typed[o] EXCEPT !.composing = TRUE, !.message[k] = v, !.dirty = TRUE]
                  ELSE [typed[o] EXCEPT !.composing = TRUE]
  BY DEF Feed
<1>3. CASE k \notin Routes[o] \/ typed[o].refused
  BY <1>2, <1>3
<1>4. CASE typed'[o] = [typed[o] EXCEPT !.refused = TRUE]
  BY <1>1, <1>2, <1>4 DEF Output
<1>5. CASE /\ k \in Routes[o] /\ ~typed[o].refused /\ Lands(o, k, v)
           /\ typed'[o] = [typed[o] EXCEPT !.composing = TRUE, !.message[k] = v, !.dirty = TRUE]
  <2> DEFINE new == [typed[o] EXCEPT !.composing = TRUE, !.message[k] = v, !.dirty = TRUE]
  <2>1. /\ new.publisher = typed[o].publisher /\ new.refused = typed[o].refused
        /\ new.message = [typed[o].message EXCEPT ![k] = v] /\ new.dirty = TRUE
    BY <1>1 DEF Output
  <2> HIDE DEF new
  <2>2. typed'[o] = new
    BY <1>5 DEF new
  <2> QED
    BY <1>5, <2>1, <2>2
<1>6. CASE /\ k \in Routes[o] /\ ~typed[o].refused /\ ~Lands(o, k, v)
           /\ typed'[o] = [typed[o] EXCEPT !.composing = TRUE]
  <2> DEFINE new == [typed[o] EXCEPT !.composing = TRUE]
  <2>1. /\ new.publisher = typed[o].publisher /\ new.refused = typed[o].refused
        /\ new.message = typed[o].message /\ new.dirty = typed[o].dirty
    BY <1>1 DEF Output
  <2> HIDE DEF new
  <2>2. typed'[o] = new
    BY <1>6 DEF new
  <2> QED
    BY <1>6, <2>1, <2>2
<1> QED
  BY <1>2, <1>3, <1>4, <1>5, <1>6

\* What the topics subscribed and freed leave of a typed output.
LEMMA Followed ==
    ASSUME TypeOK, NEW newly, NEW freed, FollowTyped(newly, freed), NEW o \in Outputs
    PROVE  /\ typed'[o].message = typed[o].message /\ typed'[o].dirty = typed[o].dirty
           /\ typed'[o].refused = typed[o].refused
<1>1. typed[o] \in Output(o)
  BY DEF TypeOK, Output
<1>2. typed'[o] \in {typed[o], [typed[o] EXCEPT !.publisher = FALSE, !.echo = TRUE],
                     [typed[o] EXCEPT !.echo = FALSE]}
  BY DEF FollowTyped
<1> QED
  BY <1>1, <1>2 DEF Output

\* What publishing leaves of one: it is done with, held back or given up.
LEMMA PublishedOne ==
    ASSUME TypeOK, NEW F, NEW o \in Outputs
    PROVE  /\ Published(o, F).message = typed[o].message
           /\ typed[o].refused => Published(o, F).refused
           /\ Published(o, F).dirty # typed[o].dirty => typed[o].dirty /\ Published(o, F).publisher
<1>1. typed[o] \in Output(o)
  BY DEF TypeOK, Output
<1>2. CASE Published(o, F) = typed[o]
  BY <1>2
<1>3. CASE Published(o, F) = [typed[o] EXCEPT !.echo = TRUE]
  BY <1>1, <1>3 DEF Output
<1>4. CASE Published(o, F) = [typed[o] EXCEPT !.refused = TRUE]
  BY <1>1, <1>4 DEF Output
<1>5. CASE typed[o].dirty /\ ~typed[o].refused
           /\ Published(o, F) = [typed[o] EXCEPT !.publisher = TRUE, !.dirty = FALSE]
  BY <1>1, <1>5 DEF Output
<1> QED
  BY <1>2, <1>3, <1>4, <1>5 DEF Published

-----------------------------------------------------------------------------
(* Who publishes where.                                                      *)

\* What a key of the change meets (publish_change): nothing to do, a typed output,
\* its publisher, or the decision whether it gets one.
LEMMA KeyCases ==
    ASSUME TypeOK, NEW k \in Keys, NEW ok \in BOOLEAN, PublishKey(k, ok)
    PROVE  \/ (batch[k] = Unset \/ k \in refused) /\ UNCHANGED outVars
           \/ /\ batch[k] \in Values /\ k \notin refused
              /\ \/ (\E o \in Outputs : k \in Routes[o]) /\ Feed(k, batch[k], ok)
                 \/ /\ k \in publishers /\ Shows(k, kinds[k], batch[k])
                    /\ UNCHANGED <<publishers, kinds, owners, refused, typed, broken>>
                 \/ /\ k \notin publishers /\ \A o \in Outputs : k \notin Routes[o]
                    /\ Decide(k, batch[k], ok) /\ UNCHANGED typed
<1>1. batch[k] # None /\ batch[k] # Unset => batch[k] \in Values
  BY DEF TypeOK
<1> QED
  BY <1>1 DEF PublishKey

\* What the decision leaves: the key refused, given its topic, or broken.
LEMMA DecideCases ==
    ASSUME TypeOK, NEW k \in Keys, NEW v, NEW ok \in BOOLEAN, Decide(k, v, ok),
           NEW t, t = ScalarTopic[k]
    PROVE  \/ /\ t \in subscribed \/ (owners[t] # None /\ owners[t] < k)
              /\ Refuse(k)
           \/ /\ t \notin subscribed /\ ~(owners[t] # None /\ owners[t] < k)
              /\ publishers' = (publishers \ {owners[t]}) \cup {k}
              /\ refused' = refused \cup ({owners[t]} \ {None})
              /\ owners' = [owners EXCEPT ![t] = k]
              /\ kinds' = [kinds EXCEPT ![k] = MsgKind[v]]
              /\ Shows(k, MsgKind[v], v) /\ broken' = broken
           \/ /\ t \notin subscribed /\ ~(owners[t] # None /\ owners[t] < k)
              /\ publishers' = publishers \ {owners[t]}
              /\ refused' = refused \cup ({owners[t]} \ {None}) \cup {k}
              /\ broken' = broken \cup {k}
              /\ owners' = owners /\ kinds' = kinds /\ shown' = shown
<1>1. None \notin publishers
  BY DEF TypeOK
<1> QED
  BY <1>1 DEF Decide

\* What an ask leaves of who publishes (follow_subscriptions).
LEMMA AskedOut ==
    ASSUME TypeOK, NEW I \in (SUBSET Inputs) \cup {None}, NEW M \in (SUBSET Skills) \cup {None},
           NEW FI \in SUBSET {KeyTopic[k] : k \in Inputs}, NEW FM \in SUBSET Skills,
           Expose(I, M, FI, FM)
    PROVE  LET newly == subscribed' \ subscribed
               freed == subscribed \ subscribed'
               stopped == {owners[t] : t \in newly} \ {None}
           IN  /\ publishers' = publishers \ stopped
               /\ refused' = {k \in refused \cup stopped : ScalarTopic[k] \notin freed}
               /\ owners' = [t \in Topics |-> IF t \in newly THEN None ELSE owners[t]]
               /\ FollowTyped(newly, freed)
               /\ newly \in SUBSET Topics /\ subscribed' \in SUBSET Topics
               /\ broken \subseteq broken' /\ kinds' = kinds /\ shown' = shown
<1>1. subscribed' \in SUBSET Topics
  BY Asked
<1> QED
  BY <1>1 DEF Expose, FollowSubscriptions

\* Owners, publishers and refusals stay in step (publish_change, follow_subscriptions).
LEMMA OwnershipStep ==
    ASSUME TypeOK, Ownership, [Next]_vars
    PROVE  Ownership'
<1>1. ASSUME NEW k \in Keys, NEW v \in Values \cup {Unset}, TrySend(k, v)
      PROVE  Ownership'
  <2>1. /\ publishers' = publishers /\ owners' = owners /\ refused' = refused
        /\ broken' = broken /\ subscribed' = subscribed
    BY <1>1 DEF TrySend, serveVars, outVars
  <2> QED
    BY <2>1 DEF Ownership
<1>2. CASE Wake
  <2>1. /\ publishers' = publishers /\ owners' = owners /\ refused' = refused
        /\ broken' = broken /\ subscribed' = subscribed
    BY <1>2 DEF Wake, serveVars, outVars
  <2> QED
    BY <2>1 DEF Ownership
<1>3. ASSUME NEW s \in Skills, NEW which \in {"serving", "retired"}, TaskEnds(s, which)
      PROVE  Ownership'
  <2>1. /\ publishers' = publishers /\ owners' = owners /\ refused' = refused
        /\ broken' = broken /\ subscribed' = subscribed
    BY <1>3 DEF TaskEnds, serveVars, outVars
  <2> QED
    BY <2>1 DEF Ownership
<1>4. ASSUME NEW I \in (SUBSET Inputs) \cup {None}, NEW M \in (SUBSET Skills) \cup {None},
             NEW FI \in SUBSET {KeyTopic[k] : k \in Inputs}, NEW FM \in SUBSET Skills,
             Expose(I, M, FI, FM)
      PROVE  Ownership'
  <2> DEFINE newly == subscribed' \ subscribed
             freed == subscribed \ subscribed'
             stopped == {owners[t] : t \in newly} \ {None}
  <2>1. /\ publishers' = publishers \ stopped
        /\ refused' = {k \in refused \cup stopped : ScalarTopic[k] \notin freed}
        /\ owners' = [t \in Topics |-> IF t \in newly THEN None ELSE owners[t]]
        /\ newly \in SUBSET Topics
        /\ broken \subseteq broken'
    BY <1>4, AskedOut
  <2>2. ASSUME NEW t \in Topics, owners'[t] # None
        PROVE  /\ ScalarTopic[owners'[t]] = t /\ t \notin subscribed'
               /\ owners'[t] \in publishers' \cup refused'
    <3>1. /\ t \notin newly /\ owners'[t] = owners[t]
          /\ ScalarTopic[owners[t]] = t /\ t \notin subscribed
          /\ owners[t] \in publishers \cup refused
      BY <2>1, <2>2 DEF Ownership
    <3>2. owners[t] \notin stopped
      <4> SUFFICES ASSUME NEW u \in newly, owners[u] = owners[t]
                   PROVE  FALSE
        OBVIOUS
      <4> QED
        BY <2>1, <2>2, <3>1 DEF Ownership
    <3> QED
      BY <2>1, <3>1, <3>2
  <2>3. \A k \in publishers' : owners'[ScalarTopic[k]] = k /\ k \notin refused'
    <3> SUFFICES ASSUME NEW k \in publishers'
                 PROVE  owners'[ScalarTopic[k]] = k /\ k \notin refused'
      OBVIOUS
    <3>1. /\ k \in Keys /\ k \in publishers /\ k \notin stopped /\ k # None
          /\ ScalarTopic[k] \in Topics /\ owners[ScalarTopic[k]] = k /\ k \notin refused
      <4>1. k \in publishers /\ k \notin stopped /\ publishers \subseteq Keys
        BY <2>1 DEF TypeOK
      <4>2. k \in Keys /\ k # None /\ ScalarTopic[k] \in Topics
        BY <4>1
      <4>3. owners[ScalarTopic[k]] = k /\ k \notin refused
        BY <4>1 DEF Ownership
      <4> QED
        BY <4>1, <4>2, <4>3
    <3>2. ScalarTopic[k] \notin newly
      BY <3>1
    <3> QED
      BY <2>1, <3>1, <3>2
  <2>4. ASSUME NEW k \in refused', ScalarTopic[k] \notin subscribed', k \notin broken'
        PROVE  owners'[ScalarTopic[k]] # None /\ owners'[ScalarTopic[k]] <= k
    <3>1. ScalarTopic[k] \notin subscribed
      BY <2>1, <2>4
    <3>2. k \notin stopped
      BY <2>1, <2>4 DEF Ownership
    <3>3. k \in refused /\ k \in Keys /\ ScalarTopic[k] \in Topics
      BY <2>1, <2>4, <3>2 DEF TypeOK
    <3>4. owners'[ScalarTopic[k]] = owners[ScalarTopic[k]]
      BY <2>1, <2>4, <3>3
    <3> QED
      BY <2>1, <2>4, <3>1, <3>3, <3>4 DEF Ownership
  <2> QED
    BY <2>2, <2>3, <2>4 DEF Ownership
<1>5. CASE Receive
  <2>1. /\ publishers' = publishers /\ owners' = owners /\ refused' = refused
        /\ broken' = broken /\ subscribed' = subscribed
    BY <1>5 DEF Receive, serveVars, outVars
  <2> QED
    BY <2>1 DEF Ownership
<1>6. CASE Take
  <2>1. /\ publishers' = publishers /\ owners' = owners /\ refused' = refused
        /\ broken' = broken /\ subscribed' = subscribed
    BY <1>6 DEF Take, serveVars, outVars
  <2> QED
    BY <2>1 DEF Ownership
<1>7. ASSUME NEW k \in Keys, NEW ok \in BOOLEAN, PublishKey(k, ok)
      PROVE  Ownership'
  <2> DEFINE t == ScalarTopic[k]
  <2>1. t \in Topics /\ k \in Nat /\ k # None /\ subscribed' = subscribed
    BY <1>7 DEF PublishKey, serveVars
  <2>2. CASE /\ publishers' = publishers /\ owners' = owners /\ refused' = refused
             /\ broken' = broken
    BY <2>1, <2>2 DEF Ownership
  <2>3. CASE k \notin publishers /\ k \notin refused /\ Decide(k, batch[k], ok)
    <3>1. CASE /\ t \in subscribed \/ (owners[t] # None /\ owners[t] < k)
               /\ Refuse(k)
      <4>1. /\ publishers' = publishers /\ owners' = owners /\ broken' = broken
            /\ refused' = refused \cup {k}
        BY <3>1 DEF Refuse
      <4>2. k \notin broken' /\ t \notin subscribed => owners'[t] # None /\ owners'[t] <= k
        <5>1. owners[t] # None => owners[t] \in Nat
          BY <2>1 DEF TypeOK
        <5> QED
          BY <2>1, <3>1, <4>1, <5>1
      <4> QED
        BY <2>1, <2>3, <4>1, <4>2 DEF Ownership
    <3>2. CASE /\ t \notin subscribed /\ ~(owners[t] # None /\ owners[t] < k)
               /\ publishers' = (publishers \ {owners[t]}) \cup {k}
               /\ refused' = refused \cup ({owners[t]} \ {None})
               /\ owners' = [owners EXCEPT ![t] = k]
               /\ kinds' = [kinds EXCEPT ![k] = MsgKind[batch[k]]]
               /\ Shows(k, MsgKind[batch[k]], batch[k]) /\ broken' = broken
      <4>1. owners[t] # k
        BY <2>1, <2>3 DEF Ownership
      <4>2. ASSUME NEW u \in Topics, owners'[u] # None
            PROVE  /\ ScalarTopic[owners'[u]] = u /\ u \notin subscribed'
                   /\ owners'[u] \in publishers' \cup refused'
        BY <2>1, <3>2, <4>2 DEF Ownership, TypeOK
      <4>3. ASSUME NEW j \in publishers'
            PROVE  owners'[ScalarTopic[j]] = j /\ j \notin refused'
        <5>1. CASE j = k
          BY <2>1, <2>3, <3>2, <4>1, <5>1 DEF TypeOK
        <5>2. CASE j # k
          <6>1. /\ j \in publishers /\ j # owners[t] /\ ScalarTopic[j] \in Topics
                /\ owners[ScalarTopic[j]] = j /\ j \notin refused
            BY <3>2, <5>2 DEF Ownership, TypeOK
          <6>2. ScalarTopic[j] # t
            BY <6>1
          <6> QED
            BY <2>1, <3>2, <6>1, <6>2 DEF TypeOK
        <5> QED
          BY <5>1, <5>2
      <4>4. ASSUME NEW j \in refused', ScalarTopic[j] \notin subscribed', j \notin broken'
            PROVE  owners'[ScalarTopic[j]] # None /\ owners'[ScalarTopic[j]] <= j
        <5>1. j \in Keys /\ j \in Nat /\ ScalarTopic[j] \in Topics
          <6>1. /\ refused \subseteq Keys /\ owners[t] \in Keys \cup {None}
            BY <2>1 DEF TypeOK
          <6> QED
            BY <3>2, <6>1
        <5>2. CASE ScalarTopic[j] = t
          <6>1. owners'[ScalarTopic[j]] = k
            BY <2>1, <3>2, <5>2 DEF TypeOK
          <6>2. owners[t] # None /\ owners[t] \in Nat /\ owners[t] <= j
            <7>1. owners[t] # None => owners[t] \in Nat
              BY <2>1 DEF TypeOK
            <7>2. CASE j \in refused
              BY <2>1, <3>2, <4>4, <5>2, <7>1, <7>2 DEF Ownership
            <7>3. CASE j = owners[t] /\ j # None
              BY <7>1, <7>3
            <7> QED
              BY <3>2, <4>4, <7>2, <7>3
          <6> QED
            BY <2>1, <3>2, <5>1, <6>1, <6>2
        <5>3. CASE ScalarTopic[j] # t
          <6>1. j \in refused
            BY <2>1, <3>2, <5>3 DEF Ownership
          <6>2. owners'[ScalarTopic[j]] = owners[ScalarTopic[j]]
            BY <3>2, <5>1, <5>3 DEF TypeOK
          <6> QED
            BY <2>1, <3>2, <4>4, <6>1, <6>2 DEF Ownership
        <5> QED
          BY <5>2, <5>3
      <4> QED
        BY <4>2, <4>3, <4>4 DEF Ownership
    <3>3. CASE /\ t \notin subscribed /\ ~(owners[t] # None /\ owners[t] < k)
               /\ publishers' = publishers \ {owners[t]}
               /\ refused' = refused \cup ({owners[t]} \ {None}) \cup {k}
               /\ broken' = broken \cup {k}
               /\ owners' = owners /\ kinds' = kinds /\ shown' = shown
      BY <2>1, <2>3, <3>3 DEF Ownership, TypeOK
    <3> QED
      BY <2>3, <3>1, <3>2, <3>3, DecideCases
  <2> QED
    BY <1>7, <2>2, <2>3, KeyCases DEF Feed, outVars
<1>8. ASSUME NEW F \in SUBSET Outputs, PublishDirty(F)
      PROVE  Ownership'
  <2>1. /\ publishers' = publishers /\ owners' = owners /\ refused' = refused
        /\ broken' = broken /\ subscribed' = subscribed
    BY <1>8 DEF PublishDirty, serveVars, outVars
  <2> QED
    BY <2>1 DEF Ownership
<1>9. CASE UNCHANGED vars
  <2>1. /\ publishers' = publishers /\ owners' = owners /\ refused' = refused
        /\ broken' = broken /\ subscribed' = subscribed
    BY <1>9 DEF vars, serveVars, outVars
  <2> QED
    BY <2>1 DEF Ownership
<1> QED
  BY <1>1, <1>2, <1>3, <1>4, <1>5, <1>6, <1>7, <1>8, <1>9 DEF Next

\* The keys of typed outputs get no topic of their own (publish_change).
LEMMA RoutedStep ==
    ASSUME TypeOK, RoutedApart, [Next]_vars
    PROVE  RoutedApart'
<1>1. ASSUME NEW k \in Keys, NEW v \in Values \cup {Unset}, TrySend(k, v)
      PROVE  RoutedApart'
  <2>1. publishers' = publishers /\ owners' = owners /\ refused' = refused
    BY <1>1 DEF TrySend, outVars
  <2> QED
    BY <2>1 DEF RoutedApart
<1>2. CASE Wake
  <2>1. publishers' = publishers /\ owners' = owners /\ refused' = refused
    BY <1>2 DEF Wake, outVars
  <2> QED
    BY <2>1 DEF RoutedApart
<1>3. ASSUME NEW s \in Skills, NEW which \in {"serving", "retired"}, TaskEnds(s, which)
      PROVE  RoutedApart'
  <2>1. publishers' = publishers /\ owners' = owners /\ refused' = refused
    BY <1>3 DEF TaskEnds, outVars
  <2> QED
    BY <2>1 DEF RoutedApart
<1>4. ASSUME NEW I \in (SUBSET Inputs) \cup {None}, NEW M \in (SUBSET Skills) \cup {None},
             NEW FI \in SUBSET {KeyTopic[k] : k \in Inputs}, NEW FM \in SUBSET Skills,
             Expose(I, M, FI, FM)
      PROVE  RoutedApart'
  <2>1. /\ publishers' \subseteq publishers
        /\ refused' \subseteq refused \cup {owners[t] : t \in subscribed' \ subscribed}
        /\ \A t \in Topics : owners'[t] \in {None, owners[t]}
        /\ subscribed' \ subscribed \subseteq Topics
    BY <1>4, AskedOut
  <2> QED
    BY <2>1 DEF RoutedApart
<1>5. CASE Receive
  <2>1. publishers' = publishers /\ owners' = owners /\ refused' = refused
    BY <1>5 DEF Receive, outVars
  <2> QED
    BY <2>1 DEF RoutedApart
<1>6. CASE Take
  <2>1. publishers' = publishers /\ owners' = owners /\ refused' = refused
    BY <1>6 DEF Take, outVars
  <2> QED
    BY <2>1 DEF RoutedApart
<1>7. ASSUME NEW k \in Keys, NEW ok \in BOOLEAN, PublishKey(k, ok)
      PROVE  RoutedApart'
  <2>1. CASE publishers' = publishers /\ owners' = owners /\ refused' = refused
    BY <2>1 DEF RoutedApart
  <2>2. CASE (\A o \in Outputs : k \notin Routes[o]) /\ Decide(k, batch[k], ok)
    <3> DEFINE t == ScalarTopic[k]
    <3>1. /\ publishers' \subseteq publishers \cup {k}
          /\ refused' \subseteq refused \cup {owners[t]} \cup {k}
          /\ owners' = owners \/ owners' = [owners EXCEPT ![t] = k]
      BY <2>2, DecideCases DEF Refuse
    <3>2. \A u \in Topics : owners'[u] \in {k, owners[u]}
      BY <3>1 DEF TypeOK
    <3> QED
      BY <2>2, <3>1, <3>2 DEF RoutedApart
  <2> QED
    BY <1>7, <2>1, <2>2, KeyCases DEF Feed, outVars
<1>8. ASSUME NEW F \in SUBSET Outputs, PublishDirty(F)
      PROVE  RoutedApart'
  <2>1. publishers' = publishers /\ owners' = owners /\ refused' = refused
    BY <1>8 DEF PublishDirty, outVars
  <2> QED
    BY <2>1 DEF RoutedApart
<1>9. CASE UNCHANGED vars
  <2>1. publishers' = publishers /\ owners' = owners /\ refused' = refused
    BY <1>9 DEF vars, outVars
  <2> QED
    BY <2>1 DEF RoutedApart
<1> QED
  BY <1>1, <1>2, <1>3, <1>4, <1>5, <1>6, <1>7, <1>8, <1>9 DEF Next

\* The bridge publishes on no topic it subscribes to (follow_subscriptions).
LEMMA EchoStep ==
    ASSUME TypeOK, Ownership, NoEcho, [Next]_vars
    PROVE  NoEcho'
<1>1. ASSUME NEW k \in Keys, NEW v \in Values \cup {Unset}, TrySend(k, v)
      PROVE  NoEcho'
  <2>1. publishers' = publishers /\ typed' = typed /\ subscribed' = subscribed
    BY <1>1 DEF TrySend, serveVars, outVars
  <2> QED
    BY <2>1 DEF NoEcho
<1>2. CASE Wake
  <2>1. publishers' = publishers /\ typed' = typed /\ subscribed' = subscribed
    BY <1>2 DEF Wake, serveVars, outVars
  <2> QED
    BY <2>1 DEF NoEcho
<1>3. ASSUME NEW s \in Skills, NEW which \in {"serving", "retired"}, TaskEnds(s, which)
      PROVE  NoEcho'
  <2>1. publishers' = publishers /\ typed' = typed /\ subscribed' = subscribed
    BY <1>3 DEF TaskEnds, serveVars, outVars
  <2> QED
    BY <2>1 DEF NoEcho
<1>4. ASSUME NEW I \in (SUBSET Inputs) \cup {None}, NEW M \in (SUBSET Skills) \cup {None},
             NEW FI \in SUBSET {KeyTopic[k] : k \in Inputs}, NEW FM \in SUBSET Skills,
             Expose(I, M, FI, FM)
      PROVE  NoEcho'
  <2> DEFINE newly == subscribed' \ subscribed
             freed == subscribed \ subscribed'
             stopped == {owners[t] : t \in newly} \ {None}
  <2>1. publishers' = publishers \ stopped /\ FollowTyped(newly, freed)
    BY <1>4, AskedOut
  <2>2. ASSUME NEW k \in publishers'
        PROVE  ScalarTopic[k] \notin subscribed'
    <3>1. k \in publishers /\ k # None /\ owners[ScalarTopic[k]] = k /\ k \notin stopped
      BY <2>1 DEF Ownership, TypeOK
    <3>2. ScalarTopic[k] \notin subscribed
      BY <3>1 DEF NoEcho
    <3> QED
      BY <3>1, <3>2
  <2>3. ASSUME NEW o \in Outputs, typed'[o].publisher
        PROVE  OutTopic[o] \notin subscribed'
    <3>1. typed[o].publisher /\ OutTopic[o] \notin newly
      BY <2>1, <2>3 DEF FollowTyped, TypeOK
    <3> QED
      BY <3>1 DEF NoEcho
  <2> QED
    BY <2>2, <2>3 DEF NoEcho
<1>5. CASE Receive
  <2>1. publishers' = publishers /\ typed' = typed /\ subscribed' = subscribed
    BY <1>5 DEF Receive, serveVars, outVars
  <2> QED
    BY <2>1 DEF NoEcho
<1>6. CASE Take
  <2>1. publishers' = publishers /\ typed' = typed /\ subscribed' = subscribed
    BY <1>6 DEF Take, serveVars, outVars
  <2> QED
    BY <2>1 DEF NoEcho
<1>7. ASSUME NEW k \in Keys, NEW ok \in BOOLEAN, PublishKey(k, ok)
      PROVE  NoEcho'
  <2>1. subscribed' = subscribed
    BY <1>7 DEF PublishKey, serveVars
  <2>2. CASE publishers' = publishers /\ typed' = typed
    BY <2>1, <2>2 DEF NoEcho
  <2>3. CASE Feed(k, batch[k], ok)
    <3>1. \A o \in Outputs : typed'[o].publisher = typed[o].publisher
      BY <2>3, Fed
    <3> QED
      BY <2>1, <2>3, <3>1 DEF Feed, NoEcho
  <2>4. CASE Decide(k, batch[k], ok) /\ UNCHANGED typed
    <3>1. \/ publishers' \subseteq publishers
          \/ publishers' \subseteq publishers \cup {k} /\ ScalarTopic[k] \notin subscribed
      BY <2>4, DecideCases DEF Refuse
    <3> QED
      BY <2>1, <2>4, <3>1 DEF NoEcho
  <2> QED
    BY <1>7, <2>2, <2>3, <2>4, KeyCases DEF outVars
<1>8. ASSUME NEW F \in SUBSET Outputs, PublishDirty(F)
      PROVE  NoEcho'
  <2>1. /\ publishers' = publishers /\ subscribed' = subscribed
        /\ \A o \in Outputs : typed'[o] = Published(o, F)
    BY <1>8 DEF PublishDirty, serveVars
  <2>2. ASSUME NEW o \in Outputs, Published(o, F).publisher
        PROVE  typed[o].publisher \/ OutTopic[o] \notin subscribed
    BY <2>2 DEF Published, TypeOK
  <2> QED
    BY <2>1, <2>2 DEF NoEcho
<1>9. CASE UNCHANGED vars
  <2>1. publishers' = publishers /\ typed' = typed /\ subscribed' = subscribed
    BY <1>9 DEF vars, serveVars, outVars
  <2> QED
    BY <2>1 DEF NoEcho
<1> QED
  BY <1>1, <1>2, <1>3, <1>4, <1>5, <1>6, <1>7, <1>8, <1>9 DEF Next

\* The inputs subscribed stay the first of those described (input_topics).
LEMMA InputsStep ==
    ASSUME InputsFirst, [Next]_vars
    PROVE  InputsFirst'
<1>1. ASSUME NEW k \in Keys, NEW v \in Values \cup {Unset}, TrySend(k, v)
      PROVE  InputsFirst'
  <2>1. inputs' = inputs /\ described' = described
    BY <1>1 DEF TrySend, serveVars
  <2> QED
    BY <2>1 DEF InputsFirst
<1>2. CASE Wake
  <2>1. inputs' = inputs /\ described' = described
    BY <1>2 DEF Wake, serveVars
  <2> QED
    BY <2>1 DEF InputsFirst
<1>3. ASSUME NEW s \in Skills, NEW which \in {"serving", "retired"}, TaskEnds(s, which)
      PROVE  InputsFirst'
  <2>1. inputs' = inputs /\ described' = described
    BY <1>3 DEF TaskEnds, serveVars
  <2> QED
    BY <2>1 DEF InputsFirst
<1>4. ASSUME NEW I \in (SUBSET Inputs) \cup {None}, NEW M \in (SUBSET Skills) \cup {None},
             NEW FI \in SUBSET {KeyTopic[k] : k \in Inputs}, NEW FM \in SUBSET Skills,
             Expose(I, M, FI, FM)
      PROVE  InputsFirst'
  <2>1. described'.inputs = IF I = None THEN described.inputs ELSE I
    BY <1>4 DEF Expose
  <2>2. CASE I \in {None, described.inputs}
    BY <1>4, <2>1, <2>2 DEF Expose, ExposeInputs, InputsFirst
  <2>3. CASE I \notin {None, described.inputs}
    <3> SUFFICES ASSUME NEW t \in Topics, inputs'[t] # None
                 PROVE  /\ KeyTopic[inputs'[t]] = t /\ inputs'[t] \in I
                        /\ \A k \in I : KeyTopic[k] = t => inputs'[t] <= k
      BY <2>1, <2>3 DEF InputsFirst
    <3> DEFINE K == {k \in I : KeyTopic[k] = t}
    <3>1. inputs'[t] = WantedInput(I, t)
      BY <1>4, <2>3 DEF Expose, ExposeInputs
    <3>2. K \in SUBSET Keys /\ K # {} /\ inputs'[t] = Min(K)
      BY <2>3, <3>1 DEF WantedInput
    <3>3. Min(K) \in K /\ \A k \in K : Min(K) <= k
      BY <3>2, FirstKey
    <3> QED
      BY <3>2, <3>3
  <2> QED
    BY <2>2, <2>3
<1>5. CASE Receive
  <2>1. inputs' = inputs /\ described' = described
    BY <1>5 DEF Receive, serveVars
  <2> QED
    BY <2>1 DEF InputsFirst
<1>6. CASE Take
  <2>1. inputs' = inputs /\ described' = described
    BY <1>6 DEF Take, serveVars
  <2> QED
    BY <2>1 DEF InputsFirst
<1>7. ASSUME NEW k \in Keys, NEW ok \in BOOLEAN, PublishKey(k, ok)
      PROVE  InputsFirst'
  <2>1. inputs' = inputs /\ described' = described
    BY <1>7 DEF PublishKey, serveVars
  <2> QED
    BY <2>1 DEF InputsFirst
<1>8. ASSUME NEW F \in SUBSET Outputs, PublishDirty(F)
      PROVE  InputsFirst'
  <2>1. inputs' = inputs /\ described' = described
    BY <1>8 DEF PublishDirty, serveVars
  <2> QED
    BY <2>1 DEF InputsFirst
<1>9. CASE UNCHANGED vars
  <2>1. inputs' = inputs /\ described' = described
    BY <1>9 DEF vars, serveVars
  <2> QED
    BY <2>1 DEF InputsFirst
<1> QED
  BY <1>1, <1>2, <1>3, <1>4, <1>5, <1>6, <1>7, <1>8, <1>9 DEF Next

\* Who owns a topic decides who has it (publish_change).
LEMMA FirstOwns ==
    ASSUME TypeOK, Ownership, NoEcho, InputsFirst
    PROVE  FirstKeyHasTopic
<1>1. ASSUME NEW j \in publishers, NEW k \in Keys, ScalarTopic[j] = ScalarTopic[k], k # j
      PROVE  k \notin publishers /\ (k \in refused /\ k < j => k \in broken)
  <2>1. j \in Nat /\ k \in Nat
    BY DEF TypeOK
  <2> QED
    BY <1>1, <2>1 DEF Ownership, NoEcho
<1> QED
  BY <1>1 DEF FirstKeyHasTopic, InputsFirst

-----------------------------------------------------------------------------
(* The newest values.                                                        *)

\* A key that publishes shows its newest value or is about to (publish_change).
LEMMA PublishedStep ==
    ASSUME TypeOK, SeamIsCurrent, Ownership, RoutedApart, NewestPublished, [Next]_vars
    PROVE  NewestPublished'
<1>1. ASSUME NEW k \in Keys, NEW v \in Values \cup {Unset}, TrySend(k, v)
      PROVE  NewestPublished'
  <2>1. /\ held' = [held EXCEPT ![k] = IF v = Unset THEN None ELSE v]
        /\ pending' = [pending EXCEPT ![k] = v] /\ batch' = batch
        /\ publishers' = publishers /\ shown' = shown /\ kinds' = kinds
    BY <1>1 DEF TrySend, Merged, outVars
  <2> QED
    BY <2>1 DEF NewestPublished, OnItsWay, TypeOK
<1>2. CASE Wake
  <2>1. /\ publishers' = publishers /\ held' = held /\ pending' = pending /\ batch' = batch
        /\ shown' = shown /\ kinds' = kinds
    BY <1>2 DEF Wake, deviceVars, seamVars, outVars
  <2> QED
    BY <2>1 DEF NewestPublished, OnItsWay
<1>3. ASSUME NEW s \in Skills, NEW which \in {"serving", "retired"}, TaskEnds(s, which)
      PROVE  NewestPublished'
  <2>1. /\ publishers' = publishers /\ held' = held /\ pending' = pending /\ batch' = batch
        /\ shown' = shown /\ kinds' = kinds
    BY <1>3 DEF TaskEnds, deviceVars, seamVars, outVars
  <2> QED
    BY <2>1 DEF NewestPublished, OnItsWay
<1>4. ASSUME NEW I \in (SUBSET Inputs) \cup {None}, NEW M \in (SUBSET Skills) \cup {None},
             NEW FI \in SUBSET {KeyTopic[k] : k \in Inputs}, NEW FM \in SUBSET Skills,
             Expose(I, M, FI, FM)
      PROVE  NewestPublished'
  <2>1. held' = held /\ pending' = pending /\ batch' = batch
    BY <1>4 DEF Expose, seamVars
  <2>2. publishers' \subseteq publishers /\ shown' = shown /\ kinds' = kinds
    BY <1>4, AskedOut
  <2> QED
    BY <2>1, <2>2 DEF NewestPublished, OnItsWay
<1>5. CASE Receive
  <2>1. /\ publishers' = publishers /\ held' = held /\ pending' = pending /\ batch' = batch
        /\ shown' = shown /\ kinds' = kinds
    BY <1>5 DEF Receive, deviceVars, seamVars, outVars
  <2> QED
    BY <2>1 DEF NewestPublished, OnItsWay
<1>6. CASE Take
  <2>1. /\ publishers' = publishers /\ held' = held /\ shown' = shown /\ kinds' = kinds
        /\ pending' = Nothing /\ batch' = pending /\ batch = Nothing
    BY <1>6 DEF Take, deviceVars, outVars, SeamIsCurrent
  <2> QED
    BY <2>1 DEF NewestPublished, OnItsWay, Nothing, TypeOK
<1>7. ASSUME NEW k \in Keys, NEW ok \in BOOLEAN, PublishKey(k, ok)
      PROVE  NewestPublished'
  <2>1. /\ held' = held /\ pending' = pending /\ batch' = [batch EXCEPT ![k] = None]
        /\ batch[k] # None
    BY <1>7 DEF PublishKey, deviceVars, seamVars
  <2> SUFFICES ASSUME NEW j \in publishers', held[j] # None, Takes(kinds'[j], held[j])
               PROVE  shown'.keys[j] = held[j] \/ OnItsWay(j)'
    BY <2>1 DEF NewestPublished
  <2>2. publishers \subseteq Keys /\ batch \in [Keys -> Values \cup {Unset, None}]
        /\ shown.keys \in [Keys -> Values \cup {None}]
    BY DEF TypeOK
  <2>3. CASE j \in publishers /\ j # k /\ shown'.keys[j] = shown.keys[j] /\ kinds'[j] = kinds[j]
    <3>1. batch'[j] = batch[j]
      BY <2>1, <2>2, <2>3
    <3> QED
      BY <2>1, <2>3, <3>1 DEF NewestPublished, OnItsWay
  <2>4. CASE j = k /\ Shows(k, kinds'[k], batch[k])
    <3>1. batch[k] = held[k] => shown'.keys[k] = held[k]
      BY <2>4 DEF Shows, TypeOK
    <3>2. pending[k] = None => batch[k] = held[k]
      BY <2>1, <2>4 DEF SeamIsCurrent, Current
    <3>3. pending[k] # None => pending[k] = held[k]
      BY <2>4 DEF SeamIsCurrent, Current
    <3> QED
      BY <2>1, <2>4, <3>1, <3>2, <3>3 DEF OnItsWay
  <2>5. CASE (batch[k] = Unset \/ k \in refused) /\ UNCHANGED outVars
    <3>1. j \in publishers /\ shown' = shown /\ kinds' = kinds
      BY <2>5 DEF outVars
    <3>2. CASE j = k
      <4>1. batch[k] = Unset /\ held[k] # Unset
        BY <2>5, <3>1, <3>2 DEF Ownership, TypeOK
      <4> QED
        BY <2>1, <3>1, <3>2, <4>1 DEF NewestPublished, OnItsWay
    <3> QED
      BY <2>3, <3>1, <3>2
  <2>6. CASE (\E o \in Outputs : k \in Routes[o]) /\ Feed(k, batch[k], ok)
    <3>1. publishers' = publishers /\ shown' = shown /\ kinds' = kinds
      BY <2>6 DEF Feed
    <3>2. j # k
      BY <2>6, <3>1 DEF RoutedApart
    <3> QED
      BY <2>3, <3>1, <3>2
  <2>7. CASE publishers' = publishers /\ kinds' = kinds /\ Shows(k, kinds[k], batch[k])
    <3>1. CASE j # k
      <4>1. shown'.keys[j] = shown.keys[j]
        BY <2>2, <2>7, <3>1 DEF Shows, TypeOK
      <4> QED
        BY <2>3, <2>7, <3>1, <4>1
    <3> QED
      BY <2>4, <2>7, <3>1
  <2>8. CASE k \notin publishers /\ Decide(k, batch[k], ok)
    <3>1. CASE publishers' \subseteq publishers /\ shown' = shown /\ kinds' = kinds
      BY <2>3, <2>8, <3>1
    <3>2. CASE /\ publishers' \subseteq publishers \cup {k}
               /\ kinds' = [kinds EXCEPT ![k] = MsgKind[batch[k]]]
               /\ Shows(k, MsgKind[batch[k]], batch[k])
      <4>1. CASE j # k
        <5>1. shown'.keys[j] = shown.keys[j] /\ j \in publishers /\ kinds'[j] = kinds[j]
          BY <2>2, <3>2, <4>1 DEF Shows, TypeOK
        <5> QED
          BY <2>3, <4>1, <5>1
      <4>2. kinds'[k] = MsgKind[batch[k]]
        BY <3>2 DEF TypeOK
      <4> QED
        BY <2>4, <3>2, <4>1, <4>2
    <3> QED
      BY <2>8, <3>1, <3>2, DecideCases DEF Refuse
  <2> QED
    BY <1>7, <2>5, <2>6, <2>7, <2>8, KeyCases
<1>8. ASSUME NEW F \in SUBSET Outputs, PublishDirty(F)
      PROVE  NewestPublished'
  <2>1. /\ publishers' = publishers /\ held' = held /\ pending' = pending /\ batch' = batch
        /\ shown'.keys = shown.keys /\ kinds' = kinds
    BY <1>8 DEF PublishDirty, deviceVars, seamVars, TypeOK
  <2> QED
    BY <2>1 DEF NewestPublished, OnItsWay
<1>9. CASE UNCHANGED vars
  <2>1. /\ publishers' = publishers /\ held' = held /\ pending' = pending /\ batch' = batch
        /\ shown' = shown /\ kinds' = kinds
    BY <1>9 DEF vars, deviceVars, seamVars, outVars
  <2> QED
    BY <2>1 DEF NewestPublished, OnItsWay
<1> QED
  BY <1>1, <1>2, <1>3, <1>4, <1>5, <1>6, <1>7, <1>8, <1>9 DEF Next

\* A typed output composes the newest values, and publishes them or is to (feed, publish_dirty).
LEMMA ComposedStep ==
    ASSUME TypeOK, TypeOK', SeamIsCurrent, RoutedApart, NewestComposed, [Next]_vars
    PROVE  NewestComposed'
<1>1. ASSUME NEW k \in Keys, NEW v \in Values \cup {Unset}, TrySend(k, v)
      PROVE  NewestComposed'
  <2>1. /\ held' = [held EXCEPT ![k] = IF v = Unset THEN None ELSE v]
        /\ pending' = [pending EXCEPT ![k] = v] /\ batch' = batch
        /\ typed' = typed /\ shown' = shown
    BY <1>1 DEF TrySend, Merged, outVars
  <2>2. \A j \in Keys : held'[j] # None =>
           OnItsWay(j)' \/ (held'[j] = held[j] /\ (OnItsWay(j) => OnItsWay(j)'))
    BY <2>1 DEF OnItsWay, TypeOK
  <2>3. \A o \in Outputs : Routes[o] \subseteq Keys
    OBVIOUS
  <2> QED
    BY <2>1, <2>2, <2>3 DEF NewestComposed
<1>2. CASE Wake
  <2>1. /\ typed' = typed /\ held' = held /\ pending' = pending /\ batch' = batch
        /\ shown' = shown
    BY <1>2 DEF Wake, deviceVars, seamVars, outVars
  <2> QED
    BY <2>1 DEF NewestComposed, OnItsWay
<1>3. ASSUME NEW s \in Skills, NEW which \in {"serving", "retired"}, TaskEnds(s, which)
      PROVE  NewestComposed'
  <2>1. /\ typed' = typed /\ held' = held /\ pending' = pending /\ batch' = batch
        /\ shown' = shown
    BY <1>3 DEF TaskEnds, deviceVars, seamVars, outVars
  <2> QED
    BY <2>1 DEF NewestComposed, OnItsWay
<1>4. ASSUME NEW I \in (SUBSET Inputs) \cup {None}, NEW M \in (SUBSET Skills) \cup {None},
             NEW FI \in SUBSET {KeyTopic[k] : k \in Inputs}, NEW FM \in SUBSET Skills,
             Expose(I, M, FI, FM)
      PROVE  NewestComposed'
  <2>1. held' = held /\ pending' = pending /\ batch' = batch
    BY <1>4 DEF Expose, seamVars
  <2>2. FollowTyped(subscribed' \ subscribed, subscribed \ subscribed') /\ shown' = shown
    BY <1>4, AskedOut
  <2>3. \A o \in Outputs :
           /\ typed'[o].message = typed[o].message /\ typed'[o].dirty = typed[o].dirty
           /\ typed'[o].refused = typed[o].refused
    BY <2>2, Followed
  <2> QED
    BY <2>1, <2>2, <2>3 DEF NewestComposed, OnItsWay
<1>5. CASE Receive
  <2>1. /\ typed' = typed /\ held' = held /\ pending' = pending /\ batch' = batch
        /\ shown' = shown
    BY <1>5 DEF Receive, deviceVars, seamVars, outVars
  <2> QED
    BY <2>1 DEF NewestComposed, OnItsWay
<1>6. CASE Take
  <2>1. /\ typed' = typed /\ held' = held /\ shown' = shown
        /\ pending' = Nothing /\ batch' = pending /\ batch = Nothing
    BY <1>6 DEF Take, deviceVars, outVars, SeamIsCurrent
  <2>2. \A j \in Keys : held[j] # None /\ OnItsWay(j) => OnItsWay(j)'
    BY <2>1 DEF OnItsWay, Nothing
  <2>3. \A o \in Outputs : Routes[o] \subseteq Keys
    OBVIOUS
  <2> QED
    BY <2>1, <2>2, <2>3 DEF NewestComposed
<1>7. ASSUME NEW k \in Keys, NEW ok \in BOOLEAN, PublishKey(k, ok)
      PROVE  NewestComposed'
  <2>1. /\ held' = held /\ pending' = pending /\ batch' = [batch EXCEPT ![k] = None]
        /\ batch[k] # None
    BY <1>7 DEF PublishKey, deviceVars, seamVars
  <2> SUFFICES ASSUME NEW o \in Outputs, ~typed'[o].refused
               PROVE  /\ \A j \in Routes[o] : held[j] # None /\ Lands(o, j, held[j]) =>
                            typed'[o].message[j] = held[j] \/ OnItsWay(j)'
                      /\ \A j \in Routes[o] :
                            typed'[o].message[j] # None /\ Encodes(o, typed'[o].message) =>
                            typed'[o].dirty \/ shown'.outputs[o] = typed'[o].message
    BY <2>1 DEF NewestComposed
  <2>2. \A j \in Routes[o] : j # k => OnItsWay(j)' = OnItsWay(j)
    <3>1. \A j \in Routes[o] : j # k => batch'[j] = batch[j]
      BY <2>1 DEF TypeOK
    <3> QED
      BY <2>1, <3>1 DEF OnItsWay
  <2>3. CASE k \notin Routes[o] /\ typed'[o] = typed[o] /\ shown'.outputs = shown.outputs
    BY <2>2, <2>3 DEF NewestComposed
  <2>4. CASE (batch[k] = Unset \/ k \in refused) /\ UNCHANGED outVars
    <3>1. typed' = typed /\ shown' = shown
      BY <2>4 DEF outVars
    <3>2. CASE k \in Routes[o]
      <4>1. batch[k] = Unset /\ held[k] # Unset
        BY <2>4, <3>2 DEF RoutedApart, TypeOK
      <4>2. OnItsWay(k) /\ held[k] # None => OnItsWay(k)'
        BY <2>1, <4>1 DEF OnItsWay
      <4> QED
        BY <2>2, <3>1, <4>2 DEF NewestComposed
    <3> QED
      BY <2>3, <3>1, <3>2
  <2>5. CASE batch[k] \in Values /\ Feed(k, batch[k], ok)
    <3>1. shown' = shown
      BY <2>5 DEF Feed
    <3>2. /\ ~typed[o].refused
          /\ k \notin Routes[o] => typed'[o] = typed[o]
      BY <2>5, Fed
    <3>3. CASE k \in Routes[o] /\ Lands(o, k, batch[k])
      <4>1. typed[o].message \in Message(o)
        BY DEF TypeOK
      <4>2. typed'[o].message = [typed[o].message EXCEPT ![k] = batch[k]] /\ typed'[o].dirty
        BY <2>5, <3>3, Fed
      <4>3. /\ typed'[o].message[k] = batch[k]
            /\ \A j \in Routes[o] : j # k => typed'[o].message[j] = typed[o].message[j]
        BY <3>3, <4>1, <4>2 DEF Message
      <4>4. held[k] # None => batch[k] = held[k] \/ OnItsWay(k)'
        BY <2>1 DEF SeamIsCurrent, Current, OnItsWay
      <4> QED
        BY <2>2, <3>2, <3>3, <4>2, <4>3, <4>4 DEF NewestComposed
    <3>4. CASE k \in Routes[o] /\ ~Lands(o, k, batch[k])
      <4>1. typed'[o].message = typed[o].message /\ typed'[o].dirty = typed[o].dirty
        BY <2>5, <3>4, Fed
      <4>2. held[k] # None => batch[k] = held[k] \/ OnItsWay(k)'
        BY <2>1 DEF SeamIsCurrent, Current, OnItsWay
      <4> QED
        BY <2>2, <3>1, <3>2, <3>4, <4>1, <4>2 DEF NewestComposed
    <3> QED
      BY <2>3, <3>1, <3>2, <3>3, <3>4
  <2>6. CASE k \in publishers /\ Shows(k, kinds[k], batch[k]) /\ UNCHANGED typed
    <3>1. k \notin Routes[o]
      BY <2>6 DEF RoutedApart
    <3>2. shown'.outputs = shown.outputs
      BY <2>6 DEF Shows, TypeOK
    <3> QED
      BY <2>3, <2>6, <3>1, <3>2
  <2>7. CASE k \notin Routes[o] /\ Decide(k, batch[k], ok) /\ UNCHANGED typed
    <3>1. shown' = shown \/ Shows(k, MsgKind[batch[k]], batch[k])
      BY <2>7, DecideCases DEF Refuse
    <3>2. shown'.outputs = shown.outputs
      BY <3>1 DEF Shows, TypeOK
    <3> QED
      BY <2>3, <2>7, <3>2
  <2> QED
    BY <1>7, <2>4, <2>5, <2>6, <2>7, KeyCases
<1>8. ASSUME NEW F \in SUBSET Outputs, PublishDirty(F)
      PROVE  NewestComposed'
  <2>1. /\ held' = held /\ pending' = pending /\ batch' = batch
        /\ \A o \in Outputs : typed'[o] = Published(o, F)
    BY <1>8 DEF PublishDirty, deviceVars, seamVars
  <2>2. ASSUME NEW o \in Outputs
        PROVE  shown'.outputs[o] = IF Sends(o, F) THEN typed[o].message ELSE shown.outputs[o]
    BY <1>8 DEF PublishDirty, TypeOK
  <2> SUFFICES ASSUME NEW o \in Outputs, ~typed'[o].refused
               PROVE  /\ \A k \in Routes[o] : held[k] # None /\ Lands(o, k, held[k]) =>
                            typed'[o].message[k] = held[k] \/ OnItsWay(k)'
                      /\ \A k \in Routes[o] :
                            typed'[o].message[k] # None /\ Encodes(o, typed'[o].message) =>
                            typed'[o].dirty \/ shown'.outputs[o] = typed'[o].message
    BY <2>1 DEF NewestComposed
  <2>3. /\ typed'[o].message = typed[o].message /\ ~typed[o].refused
        /\ typed'[o].dirty # typed[o].dirty => typed[o].dirty /\ Published(o, F).publisher
    BY <2>1, PublishedOne
  <2>4. \A k \in Routes[o] : OnItsWay(k)' = OnItsWay(k)
    BY <2>1 DEF OnItsWay
  <2>5. typed[o].dirty \in BOOLEAN /\ typed'[o].dirty \in BOOLEAN
    BY TypeOK, TypeOK' DEF TypeOK
  <2> QED
    BY <2>2, <2>3, <2>4, <2>5 DEF NewestComposed, Sends
<1>9. CASE UNCHANGED vars
  <2>1. /\ typed' = typed /\ held' = held /\ pending' = pending /\ batch' = batch
        /\ shown' = shown
    BY <1>9 DEF vars, deviceVars, seamVars, outVars
  <2> QED
    BY <2>1 DEF NewestComposed, OnItsWay
<1> QED
  BY <1>1, <1>2, <1>3, <1>4, <1>5, <1>6, <1>7, <1>8, <1>9 DEF Next

-----------------------------------------------------------------------------
(* The theorems.                                                             *)

\* The invariant holds at first (run_node).
LEMMA InitInvariant == Init => IInv
<1> SUFFICES ASSUME Init
             PROVE  IInv
  OBVIOUS
<1>1. TypeOK
  BY TypeInit
<1>2. SeamIsCurrent /\ NoLostWake
  BY DEF Init, SeamIsCurrent, NoLostWake, Nothing
<1>3. Ownership /\ RoutedApart /\ NewestPublished
  BY DEF Init, Ownership, RoutedApart, NewestPublished
<1>4. TasksKept /\ InputsFirst /\ SkillsServed
  BY DEF Init, TasksKept, InputsFirst, SkillsServed
<1>5. NoEcho /\ NewestComposed
  BY DEF Init, NoEcho, NewestComposed, NewOutput, Nothing
<1> QED
  BY <1>1, <1>2, <1>3, <1>4, <1>5 DEF IInv

\* The invariant is inductive: no interleaving of the device's writes, the skills'
\* tasks, asks and publishing breaks it (run_node).
THEOREM Invariant == Spec => []IInv
<1>1. IInv /\ [Next]_vars => IInv'
  <2> SUFFICES ASSUME IInv, [Next]_vars
               PROVE  IInv'
    OBVIOUS
  <2>1. /\ TypeOK /\ SeamIsCurrent /\ Ownership /\ RoutedApart /\ TasksKept /\ InputsFirst
        /\ NoEcho /\ NewestPublished /\ NewestComposed /\ NoLostWake /\ SkillsServed
    BY DEF IInv
  <2>2. TypeOK'
    BY <2>1, TypeStep
  <2>3. SeamIsCurrent' /\ NoLostWake'
    BY <2>1, SeamStep, WakeStep
  <2>4. Ownership' /\ RoutedApart' /\ NoEcho'
    BY <2>1, OwnershipStep, RoutedStep, EchoStep
  <2>5. TasksKept' /\ InputsFirst' /\ SkillsServed'
    BY <2>1, TasksStep, InputsStep, ServedStep
  <2>6. NewestPublished' /\ NewestComposed'
    BY <2>1, <2>2, PublishedStep, ComposedStep
  <2> QED
    BY <2>2, <2>3, <2>4, <2>5, <2>6 DEF IInv
<1> QED
  BY <1>1, InitInvariant, PTL DEF Spec

\* The node's state keeps its types, its bounds included (run_node).
THEOREM TypeCorrect == Spec => []TypeOK
<1>1. IInv => TypeOK
  BY DEF IInv
<1> QED
  BY <1>1, Invariant, PTL

\* The bridge never publishes on a topic it subscribes to, so that a value of the
\* device's never comes back to it as a command (follow_subscriptions).
THEOREM NeverEchoes == Spec => []NoEcho
<1>1. IInv => NoEcho
  BY DEF IInv
<1> QED
  BY <1>1, Invariant, PTL

\* The key that sorts first has the topic several escape to, to publish on as to
\* subscribe (publish_change, input_topics).
THEOREM FirstKeysHaveTopics == Spec => []FirstKeyHasTopic
<1>1. IInv => FirstKeyHasTopic
  BY FirstOwns DEF IInv
<1> QED
  BY <1>1, Invariant, PTL

\* A key that publishes shows its newest value of the type it was first published
\* with, or that value is on its way (Outbound::merge, publish_change).
THEOREM NewestIsPublished == Spec => []NewestPublished
<1>1. IInv => NewestPublished
  BY DEF IInv
<1> QED
  BY <1>1, Invariant, PTL

\* A typed output composes the newest values its fields take and publishes what
\* encodes of them, held back or not (feed, publish_dirty).
THEOREM NewestIsComposed == Spec => []NewestComposed
<1>1. IInv => NewestComposed
  BY DEF IInv
<1> QED
  BY <1>1, Invariant, PTL

\* The one-item wake channel loses no change (try_send, run_node).
THEOREM WakesAreKept == Spec => []NoLostWake
<1>1. IInv => NoLostWake
  BY DEF IInv
<1> QED
  BY <1>1, Invariant, PTL

\* A skill has one task at most, though it is lost and found again while its
\* retired task runs (expose_methods).
THEOREM TasksNeverShare == Spec => []OneTaskPerSkill
<1>1. IInv => OneTaskPerSkill
  <2> SUFFICES ASSUME TypeOK, TasksKept, NEW s \in Skills
               PROVE  Cardinality(alive[s]) <= 1
    BY DEF IInv, OneTaskPerSkill
  <2>1. alive[s] \in {{}, {"serving"}, {"retired"}}
    BY DEF TypeOK, TasksKept
  <2>2. Cardinality({}) = 0 /\ Cardinality({"serving"}) = 1 /\ Cardinality({"retired"}) = 1
    BY FS_EmptySet, FS_Singleton, Zenon
  <2>3. Cardinality(alive[s]) = 0 \/ Cardinality(alive[s]) = 1
    BY <2>1, <2>2, Zenon
  <2> QED
    BY <2>3
<1> QED
  BY <1>1, Invariant, PTL

\* A skill the device described is served, waited for, or could not be made
\* (expose_methods).
THEOREM SkillsStayServed == Spec => []SkillsServed
<1>1. IInv => SkillsServed
  BY DEF IInv
<1> QED
  BY <1>1, Invariant, PTL
=============================================================================
