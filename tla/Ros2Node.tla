------------------------------ MODULE Ros2Node ------------------------------
(***************************************************************************)
(* The node task of the ROS 2 bridge (run_node): it publishes what the     *)
(* device writes, which crosses the outbound seam on the device's thread,  *)
(* and keeps what it subscribes and serves in step with what the device    *)
(* describes of itself, asked again at an interval.                        *)
(*                                                                         *)
(* What an input topic delivers, and a service's requests, go straight to  *)
(* the device: neither is modelled.                                        *)
(*                                                                         *)
(* Keys are numbered in their sort order.  Two keys may escape to one      *)
(* topic.  A skill is an action or a topic skill: a task of its own, which *)
(* ActionServer models for an action.                                      *)
(***************************************************************************)
EXTENDS Naturals, FiniteSets, FiniteSetsExt

CONSTANTS
    Keys,         \* the device's keys, numbers in their sort order
    Values,       \* what a key may hold
    Topics,       \* topics of the ROS graph
    Inputs,       \* those the device may open that get a topic of their own: not
                  \* the ones only a typed input serves
    KeyTopic,     \* the topic each key's path escapes to
    ScalarTopic,  \* the topic each is published on: an include may rewrite it
    Outputs,      \* the typed outputs
    Routes,       \* the keys each composes its message from, each with a field
    Whole,        \* the outputs whose one key holds the whole message
    OutTopic,     \* the topic of each
    MsgKind,      \* the message a value is published in (ros_msg_kind)
    Json,         \* the one that carries any value
    Fits(_, _, _), \* an output's field for a key takes a value (place_route)
    Encodes(_, _), \* an output's message encodes as its type
    TypedTopics,  \* the topics of the typed inputs
    Skills,       \* names of actions and topics of topic skills
    None,         \* nothing: no value, no answer, no owner
    Unset,        \* a key's value is taken away
    MaxWrites,    \* bound on the changes the device writes
    MaxAsks       \* bound on the asks for what it describes

ASSUME ConstantsAssumption ==
    /\ Keys \subseteq Nat /\ Inputs \subseteq Keys
    /\ KeyTopic \in [Keys -> Topics] /\ ScalarTopic \in [Keys -> Topics]
    /\ None \notin Values \cup Keys \cup {Unset} /\ Unset \notin Values
    /\ Routes \in [Outputs -> SUBSET Keys] /\ OutTopic \in [Outputs -> Topics]
    /\ Whole \subseteq Outputs
    /\ TypedTopics \subseteq Topics
    /\ MaxWrites \in Nat /\ MaxAsks \in Nat

VARIABLES
    held,        \* what each of the device's keys holds
    writes, asks, \* how many changes and asks there were
    pending,     \* Outbound.pending, merged
    sending,     \* the device is between merging a change and its wake
    wake,        \* the wake channel holds its one item
    pc,          \* what the node task is doing
    batch,       \* the change it took and has yet to publish
    inputs,      \* the input key each topic is subscribed for
    described,   \* the inputs and methods as last described
    methodsPending, \* a skill waits for its retired task to end
    served,      \* the skills served
    retiring,    \* those whose retired task may not have ended
    alive,       \* the tasks of each skill that run: serving, retired
    subscribed,  \* the topics the bridge subscribes to
    publishers,  \* the keys that have a publisher
    kinds,       \* the message each key's last publisher was created for
    owners,      \* the key each topic is published for
    refused,     \* the keys not published
    typed,       \* the typed outputs
    shown,       \* what each key and each typed output last published
    broken       \* what could not be created so far

deviceVars == <<held, writes, asks>>
seamVars == <<pending, sending, wake>>
serveVars == <<inputs, described, methodsPending, served, retiring, alive, subscribed>>
outVars == <<publishers, kinds, owners, refused, typed, shown, broken>>
vars == <<deviceVars, seamVars, pc, batch, serveVars, outVars>>

Nothing == [k \in Keys |-> None]
NewOutput(o) == [message |-> [k \in Routes[o] |-> None], composing |-> FALSE,
                 publisher |-> FALSE, dirty |-> FALSE, refused |-> FALSE, echo |-> FALSE]

Init ==
    /\ held = Nothing /\ writes = 0 /\ asks = 0
    /\ pending = Nothing /\ sending = FALSE /\ wake = FALSE
    /\ pc = "starting" /\ batch = Nothing
    /\ inputs = [t \in Topics |-> None]
    /\ described = [inputs |-> {}, methods |-> {}]
    /\ methodsPending = FALSE /\ served = {} /\ retiring = {}
    /\ alive = [s \in Skills |-> {}]
    /\ subscribed = TypedTopics
    /\ publishers = {} /\ kinds = Nothing /\ owners = [t \in Topics |-> None] /\ refused = {}
    /\ typed = [o \in Outputs |-> NewOutput(o)]
    /\ shown = [keys |-> Nothing, outputs |-> [o \in Outputs |-> None]]
    /\ broken = {}

-----------------------------------------------------------------------------
(* The device's steps write; a skill's task runs on its own.               *)

\* A key merged into what is pending: its later value replaces the earlier, a set
\* an unset and an unset a set.
Merged(k, v) == [pending EXCEPT ![k] = v]

\* A step's change, of one key: one of several is several merged before a wake.
TrySend(k, v) ==
    /\ writes < MaxWrites /\ ~sending
    /\ writes' = writes + 1
    /\ held' = [held EXCEPT ![k] = IF v = Unset THEN None ELSE v]
    /\ pending' = Merged(k, v)
    /\ sending' = TRUE
    /\ UNCHANGED <<asks, wake, pc, batch, serveVars, outVars>>

Wake ==
    /\ sending
    /\ sending' = FALSE /\ wake' = TRUE
    /\ UNCHANGED <<deviceVars, pending, pc, batch, serveVars, outVars>>

\* A skill's task ends: once retired, or because its endpoint failed.
TaskEnds(s, which) ==
    /\ which \in alive[s]
    /\ alive' = [alive EXCEPT ![s] = @ \ {which}]
    /\ UNCHANGED <<deviceVars, seamVars, pc, batch, inputs, described, methodsPending,
                   served, retiring, subscribed, outVars>>

-----------------------------------------------------------------------------
(* What the bridge subscribes and serves.                                  *)

\* The input each topic is subscribed for: the key that sorts first.
WantedInput(keys, t) ==
    LET K == {k \in keys : KeyTopic[k] = t} IN IF K = {} THEN None ELSE Min(K)

\* The skills that wait for their retired task.
Waiting == {s \in retiring : "retired" \in alive[s]}

\* The topics of an input that stays are left subscribed, the others created,
\* which fails for those in F.
ExposeInputs(answer, F) ==
    IF answer \in {None, described.inputs} THEN F = {} /\ UNCHANGED inputs
    ELSE LET wanted == [t \in Topics |-> WantedInput(answer, t)]
         IN  /\ F \subseteq {t \in Topics : wanted[t] \notin {None, inputs[t]}}
             /\ inputs' = [t \in Topics |-> IF t \in F THEN None ELSE wanted[t]]

\* The tasks once those in E are retired and those in C created.
Tasks(E, C) ==
    [s \in Skills |-> IF s \in E THEN {"retired" : x \in alive[s]}
                      ELSE alive[s] \cup (IF s \in C THEN {"serving"} ELSE {})]

\* Mutant: a skill is served anew beside its retired task.
ExposeMethodsBeside(answer, F) ==
    IF answer = None \/ (answer = described.methods /\ ~methodsPending)
    THEN F = {} /\ UNCHANGED <<methodsPending, served, retiring, alive>>
    ELSE LET ended == served \ answer
             create == answer \ served
         IN  /\ F \subseteq create
             /\ retiring' = Waiting \cup ended
             /\ served' = (served \ ended) \cup (create \ F)
             /\ methodsPending' = FALSE
             /\ alive' = Tasks(ended, create \ F)
\* Mutant: a skill that waits for its retired task is forgotten.
ExposeMethodsForgets(answer, F) ==
    IF answer = None \/ (answer = described.methods /\ ~methodsPending)
    THEN F = {} /\ UNCHANGED <<methodsPending, served, retiring, alive>>
    ELSE LET ended == served \ answer
             create == answer \ (served \cup Waiting)
         IN  /\ F \subseteq create
             /\ retiring' = Waiting \cup ended
             /\ served' = (served \ ended) \cup (create \ F)
             /\ methodsPending' = FALSE
             /\ alive' = Tasks(ended, create \ F)
\* A skill the device lost is retired; one it has again waits, to the next ask,
\* for its retired task to end.  Those in F cannot be created.
ExposeMethods(answer, F) ==
    IF answer = None \/ (answer = described.methods /\ ~methodsPending)
    THEN F = {} /\ UNCHANGED <<methodsPending, served, retiring, alive>>
    ELSE LET ended == served \ answer
             create == answer \ (served \cup Waiting)
         IN  /\ F \subseteq create
             /\ retiring' = Waiting \cup ended
             /\ served' = (served \ ended) \cup (create \ F)
             /\ methodsPending' = ((answer \ served) \cap Waiting # {})
             /\ alive' = Tasks(ended, create \ F)

\* Mutant: a typed output that publishes keeps its publisher.
FollowTypedKept(newly, freed) ==
    typed' = [o \in Outputs |->
                IF typed[o].echo /\ OutTopic[o] \in freed THEN [typed[o] EXCEPT !.echo = FALSE]
                ELSE typed[o]]
\* A typed output holds back for a topic now subscribed, and no longer for one freed.
FollowTyped(newly, freed) ==
    typed' = [o \in Outputs |->
                IF typed[o].publisher /\ OutTopic[o] \in newly
                THEN [typed[o] EXCEPT !.publisher = FALSE, !.echo = TRUE]
                ELSE IF typed[o].echo /\ OutTopic[o] \in freed
                THEN [typed[o] EXCEPT !.echo = FALSE]
                ELSE typed[o]]

\* The keys published on a topic now subscribed stop; those refused a topic now
\* freed are decided again.
FollowSubscriptions(newly, freed) ==
    LET stopped == {owners[t] : t \in newly} \ {None}
    IN  /\ publishers' = publishers \ stopped
        /\ refused' = {k \in refused \cup stopped : ScalarTopic[k] \notin freed}
        /\ owners' = [t \in Topics |-> IF t \in newly THEN None ELSE owners[t]]
        /\ FollowTyped(newly, freed)

\* The device's answers to an ask: the inputs I it lists and the skills M its
\* functions make, either part None when it is not answered; FI and FM cannot be
\* created.
Expose(I, M, FI, FM) ==
    /\ pc \in {"starting", "idle"} /\ pc' = "idle"
    /\ asks < MaxAsks /\ asks' = asks + 1
    /\ ExposeInputs(I, FI)
    /\ ExposeMethods(M, FM)
    /\ described' = [inputs |-> IF I = None THEN described.inputs ELSE I,
                     methods |-> IF M = None THEN described.methods ELSE M]
    /\ subscribed' = TypedTopics \cup {t \in Topics : inputs'[t] # None} \cup (served' \cap Topics)
    /\ FollowSubscriptions(subscribed' \ subscribed, subscribed \ subscribed')
    /\ broken' = broken \cup FM
    /\ UNCHANGED <<held, writes, seamVars, batch, kinds, shown>>

-----------------------------------------------------------------------------
(* Publishing.                                                             *)

Receive ==
    /\ pc = "idle" /\ wake
    /\ wake' = FALSE /\ pc' = "woken"
    /\ UNCHANGED <<deviceVars, pending, sending, batch, serveVars, outVars>>

Take ==
    /\ pc = "woken"
    /\ batch' = pending /\ pending' = Nothing
    /\ pc' = IF pending = Nothing THEN "idle" ELSE "publishing"
    /\ UNCHANGED <<deviceVars, sending, wake, serveVars, outVars>>

\* A whole message is taken as it is; a field takes what is of its kind.
Lands(o, k, v) == o \in Whole \/ Fits(o, k, v)

\* A key that feeds typed outputs lands on their messages, held back or not; a
\* value a field does not take leaves the message, and what is to be published, as
\* they were.  A routed output has no default message to compose on, and is given
\* up, or it always has.
Feed(k, v, ok) ==
    /\ typed' = [o \in Outputs |->
                   IF k \notin Routes[o] \/ typed[o].refused THEN typed[o]
                   ELSE IF ~ok /\ o \notin Whole /\ ~typed[o].composing
                   THEN [typed[o] EXCEPT !.refused = TRUE]
                   ELSE IF Lands(o, k, v)
                   THEN [typed[o] EXCEPT !.composing = TRUE, !.message[k] = v, !.dirty = TRUE]
                   ELSE [typed[o] EXCEPT !.composing = TRUE]]
    /\ UNCHANGED <<publishers, kinds, owners, refused, shown, broken>>

\* A publisher takes the values of the kind it was created for, or any as JSON.
Takes(kind, v) == kind = Json \/ kind = MsgKind[v]

\* What the topic of a key shows once its publisher, of a kind, was given a value:
\* one it does not take is dropped.
Shows(k, kind, v) ==
    shown' = IF Takes(kind, v) THEN [shown EXCEPT !.keys[k] = v] ELSE shown

Refuse(k) ==
    /\ refused' = refused \cup {k}
    /\ UNCHANGED <<publishers, kinds, owners, shown, broken>>

\* Mutant: the value a publisher is created for is not published.
DecideUnpublished(k, v, ok) ==
    LET t == ScalarTopic[k]
        owner == owners[t]
        stopped == IF owner = None THEN {} ELSE {owner}
    IN  IF t \in subscribed \/ (owner # None /\ owner < k) THEN Refuse(k)
        ELSE IF ok
        THEN /\ publishers' = (publishers \ stopped) \cup {k}
             /\ refused' = refused \cup stopped
             /\ owners' = [owners EXCEPT ![t] = k]
             /\ kinds' = [kinds EXCEPT ![k] = MsgKind[v]]
             /\ UNCHANGED <<shown, broken>>
        ELSE Refuse(k)
\* Mutant: the owner of the topic keeps it.
DecideFirstCome(k, v, ok) ==
    LET t == ScalarTopic[k]
    IN  IF t \in subscribed \/ owners[t] # None THEN Refuse(k)
        ELSE IF ok
        THEN /\ publishers' = publishers \cup {k}
             /\ owners' = [owners EXCEPT ![t] = k]
             /\ kinds' = [kinds EXCEPT ![k] = MsgKind[v]]
             /\ Shows(k, MsgKind[v], v)
             /\ UNCHANGED <<refused, broken>>
        ELSE Refuse(k)
\* Whether a key is published, at its first change: not on a topic subscribed,
\* nor on one of a key that sorts before it; the owner of its topic that sorts
\* after it stops.  The publisher, which may not be created, is of the value's
\* kind.
Decide(k, v, ok) ==
    LET t == ScalarTopic[k]
        owner == owners[t]
        stopped == IF owner = None THEN {} ELSE {owner}
    IN  IF t \in subscribed \/ (owner # None /\ owner < k) THEN Refuse(k)
        ELSE IF ok
        THEN /\ publishers' = (publishers \ stopped) \cup {k}
             /\ refused' = refused \cup stopped
             /\ owners' = [owners EXCEPT ![t] = k]
             /\ kinds' = [kinds EXCEPT ![k] = MsgKind[v]]
             /\ Shows(k, MsgKind[v], v)
             /\ UNCHANGED broken
        ELSE /\ publishers' = publishers \ stopped
             /\ refused' = refused \cup stopped \cup {k}
             /\ broken' = broken \cup {k}
             /\ UNCHANGED <<kinds, owners, shown>>

\* One key of the change, in any order.
PublishKey(k, ok) ==
    /\ pc = "publishing" /\ batch[k] # None
    /\ batch' = [batch EXCEPT ![k] = None]
    /\ LET v == batch[k]
       IN  IF v = Unset \/ k \in refused THEN UNCHANGED outVars
           ELSE IF \E o \in Outputs : k \in Routes[o] THEN Feed(k, v, ok)
           ELSE IF k \in publishers
           THEN /\ Shows(k, kinds[k], v)
                /\ UNCHANGED <<publishers, kinds, owners, refused, typed, broken>>
           ELSE Decide(k, v, ok) /\ UNCHANGED typed
    /\ UNCHANGED <<deviceVars, seamVars, pc, serveVars>>

\* Mutant: a typed output that is held back is no longer to be published.
PublishedClean(o, F) ==
    IF ~typed[o].dirty \/ typed[o].refused \/ typed[o].echo THEN typed[o]
    ELSE IF ~typed[o].publisher /\ OutTopic[o] \in subscribed
    THEN [typed[o] EXCEPT !.echo = TRUE, !.dirty = FALSE]
    ELSE IF ~typed[o].publisher /\ o \in F THEN [typed[o] EXCEPT !.refused = TRUE]
    ELSE [typed[o] EXCEPT !.publisher = TRUE, !.dirty = FALSE]
\* The typed output o as the publishing of those that changed leaves it: held
\* back on a topic subscribed, or given up when its publisher is not created.
Published(o, F) ==
    IF ~typed[o].dirty \/ typed[o].refused \/ typed[o].echo THEN typed[o]
    ELSE IF ~typed[o].publisher /\ OutTopic[o] \in subscribed THEN [typed[o] EXCEPT !.echo = TRUE]
    ELSE IF ~typed[o].publisher /\ o \in F THEN [typed[o] EXCEPT !.refused = TRUE]
    ELSE [typed[o] EXCEPT !.publisher = TRUE, !.dirty = FALSE]

\* A message goes out that changed, has its publisher and encodes: one that does
\* not is dropped, and is no longer to be published.
Sends(o, F) == typed[o].dirty /\ Published(o, F).publisher /\ Encodes(o, typed[o].message)

\* Mutant: with everything published the wake is drained.
PublishDirtyDrains(F) ==
    /\ pc = "publishing" /\ batch = Nothing
    /\ pc' = "idle" /\ wake' = FALSE
    /\ typed' = [o \in Outputs |-> Published(o, F)]
    /\ shown' = [shown EXCEPT !.outputs =
                   [o \in Outputs |-> IF Sends(o, F) THEN typed[o].message ELSE @[o]]]
    /\ UNCHANGED <<deviceVars, pending, sending, batch, serveVars, publishers, kinds, owners,
                   refused, broken>>
PublishDirty(F) ==
    /\ pc = "publishing" /\ batch = Nothing
    /\ pc' = "idle"
    /\ typed' = [o \in Outputs |-> Published(o, F)]
    /\ shown' = [shown EXCEPT !.outputs =
                   [o \in Outputs |-> IF Sends(o, F) THEN typed[o].message ELSE @[o]]]
    /\ UNCHANGED <<deviceVars, seamVars, batch, serveVars, publishers, kinds, owners, refused,
                   broken>>

-----------------------------------------------------------------------------
Next ==
    \/ \E k \in Keys, v \in Values \cup {Unset} : TrySend(k, v)
    \/ Wake
    \/ \E s \in Skills, which \in {"serving", "retired"} : TaskEnds(s, which)
    \/ \E I \in (SUBSET Inputs) \cup {None}, M \in (SUBSET Skills) \cup {None},
          FI \in SUBSET {KeyTopic[k] : k \in Inputs}, FM \in SUBSET Skills : Expose(I, M, FI, FM)
    \/ Receive \/ Take
    \/ \E k \in Keys, ok \in BOOLEAN : PublishKey(k, ok)
    \/ \E F \in SUBSET Outputs : PublishDirty(F)

Spec == Init /\ [][Next]_vars

-----------------------------------------------------------------------------
Message(o) == [Routes[o] -> Values \cup {None}]

TypeOK ==
    /\ held \in [Keys -> Values \cup {None}]
    /\ writes \in 0 .. MaxWrites /\ asks \in 0 .. MaxAsks
    /\ pending \in [Keys -> Values \cup {Unset, None}]
    /\ batch \in [Keys -> Values \cup {Unset, None}]
    /\ sending \in BOOLEAN /\ wake \in BOOLEAN
    /\ pc \in {"starting", "idle", "woken", "publishing"}
    /\ inputs \in [Topics -> Keys \cup {None}]
    /\ described \in [inputs : SUBSET Keys, methods : SUBSET Skills]
    /\ methodsPending \in BOOLEAN
    /\ served \in SUBSET Skills /\ retiring \in SUBSET Skills
    /\ alive \in [Skills -> SUBSET {"serving", "retired"}]
    /\ subscribed \in SUBSET Topics
    /\ publishers \in SUBSET Keys /\ refused \in SUBSET Keys
    /\ kinds \in [Keys -> {MsgKind[v] : v \in Values} \cup {None}]
    /\ owners \in [Topics -> Keys \cup {None}]
    /\ DOMAIN typed = Outputs
    /\ \A o \in Outputs :
          typed[o] \in [message : Message(o), composing : BOOLEAN, publisher : BOOLEAN,
                        dirty : BOOLEAN, refused : BOOLEAN, echo : BOOLEAN]
    /\ shown \in [keys : [Keys -> Values \cup {None}],
                 outputs : [Outputs -> {None} \cup UNION {Message(o) : o \in Outputs}]]
    /\ broken \in SUBSET (Keys \cup Topics \cup Skills)

\* The bridge publishes on no topic it subscribes to, whatever keys the device
\* opens and functions it loads while it publishes: its own commands never come
\* back to it (publish_change, publish_dirty, follow_subscriptions).
NoEcho ==
    /\ \A k \in publishers : ScalarTopic[k] \notin subscribed
    /\ \A o \in Outputs : typed[o].publisher => OutTopic[o] \notin subscribed

\* Of the keys that escape to one topic at most one publishes there, and of those
\* decided since the topic was free the one that sorts first, whatever order they
\* were written in (publish_change); one whose publisher failed is out.  The topics
\* subscribed for inputs are those of the keys that sort first among the inputs
\* last described (input_topics).
FirstKeyHasTopic ==
    /\ \A j \in publishers, k \in Keys :
          ScalarTopic[j] = ScalarTopic[k] /\ k # j =>
             /\ k \notin publishers
             /\ k \in refused /\ k < j => k \in broken
    /\ \A t \in Topics : inputs[t] # None =>
          /\ KeyTopic[inputs[t]] = t /\ inputs[t] \in described.inputs
          /\ \A k \in described.inputs : KeyTopic[k] = t => inputs[t] <= k

\* The newest value of a key is the one that is published, or it is on its way,
\* pending in the seam or in the change being published (Outbound::merge), or the
\* key changed its type after its publisher was created and the publisher drops it
\* (KeyPublisher::publish).
OnItsWay(k) == pending[k] = held[k] \/ (pending[k] = None /\ batch[k] = held[k])
NewestPublished ==
    \A k \in publishers : held[k] # None /\ Takes(kinds[k], held[k]) =>
       shown.keys[k] = held[k] \/ OnItsWay(k)

\* A typed output composes the newest value of each of its keys, when its field
\* takes it, also while it is held back; and what it composed, when it encodes, is
\* published or is to be, at the next publishing after its topic is freed (feed,
\* place_route, publish_dirty).
NewestComposed ==
    \A o \in Outputs : ~typed[o].refused =>
       /\ \A k \in Routes[o] : held[k] # None /\ Lands(o, k, held[k]) =>
             typed[o].message[k] = held[k] \/ OnItsWay(k)
       /\ \A k \in Routes[o] : typed[o].message[k] # None /\ Encodes(o, typed[o].message) =>
             typed[o].dirty \/ shown.outputs[o] = typed[o].message

\* Nothing stays pending with nobody to take it: the wake of the one-item channel
\* is there, is about to be, or was just received (try_send, run_node).
NoLostWake == pending # Nothing => wake \/ sending \/ pc = "woken"

\* Two tasks never serve one skill: one the device has again is served anew only
\* once its retired task ended (expose_methods).
OneTaskPerSkill == \A s \in Skills : Cardinality(alive[s]) <= 1

\* A skill of the device's last description is served, or it is asked for again,
\* or its endpoint could not be created (expose, expose_methods).
SkillsServed ==
    \A s \in described.methods : s \in served \/ methodsPending \/ s \in broken

=============================================================================
