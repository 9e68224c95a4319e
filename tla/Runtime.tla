------------------------------- MODULE Runtime -------------------------------
(***************************************************************************)
(* The device's step (crates/arora/src/runtime.rs): one synchronous        *)
(* pipeline over the shared store, fed by the HAL's readings and key       *)
(* descriptions and by the bridges' events, which all arrive while it runs.*)
(*                                                                         *)
(*   sweep, describe keys, clock, readings, events, behavior, flush, write *)
(*                                                                         *)
(* Each phase is an action, so that arrivals and an embedder's writes      *)
(* through its own store handle fall between any two phases.  The step and *)
(* the embedder are two threads on one store: a write stores its cells,    *)
(* releases them, and only then notifies the feeds, so the other thread may*)
(* write the same key in between and notify first (module DataStore has    *)
(* the store in full).  The feed the device holds is kept already          *)
(* coalesced, in `changes`, the later change of a key replacing the earlier.*)
(*                                                                         *)
(* One key, Clock, stands for the two built-in keys, which are written     *)
(* together.  A key path's covering prefix statement is SubtreeMeta.       *)
(***************************************************************************)
EXTENDS Naturals, Sequences

CONSTANTS
    Keys,            \* key paths besides the clock's
    Clock,           \* built_in::TIME and built_in::DT
    Values,          \* values of Keys
    Absent,          \* no value
    ClockMax,        \* u64::MAX nanoseconds: where the clock saturates
    Steps,           \* the dt's a driver may pass
    Endpoints,       \* bridge endpoints
    Local,           \* the in-process callers' queue, no endpoint
    TypeOf,          \* TypeOf[v]: the type of value v
    NoMeta,          \* no statement about a key
    AnyType,         \* KeyMeta::ty = None
    SubtreeMeta,     \* SubtreeMeta[k]: what the deepest covering prefix says
    Readings,        \* changes the HAL may report
    Descriptions,    \* key descriptions the HAL may send
    HostMetas,       \* statements the host may make about a key
    Updates,         \* changes a remote may ask for
    CallWrites,      \* what a called function may write
    BehaviorWrites,  \* what a behavior tick may write
    HostWrites,      \* what the embedder writes through its own handle
    Messages,        \* errors a behavior tick may end in
    NoError,         \* no standing behavior error
    MaxReadings,     \* bound: readings sent and not applied
    MaxEvents,       \* bound: events sent and not applied
    MaxDescriptions  \* bound: descriptions the HAL sends

AllKeys == Keys \cup {Clock}
Val == Values \cup (0..ClockMax) \cup {Absent}
Change == UNION {[D -> Val] : D \in SUBSET AllKeys}
Types == {TypeOf[v] : v \in Values} \cup {AnyType}
KeyMeta == [editable : BOOLEAN, ty : Types]
Description == UNION {[D -> KeyMeta] : D \in SUBSET AllKeys}
Senders == Endpoints \cup {Local}

\* What a command asks for, and what an endpoint may say besides.
Commands ==
    [kind : {"get", "list"}]
    \cup [kind : {"update"}, change : Updates]
    \cup [kind : {"call"}, writes : CallWrites]
Notices == [kind : {"info"}] \cup [kind : {"request"}, on : BOOLEAN]
Event == [from : Senders, told : Nat, op : Commands]
         \cup [from : Endpoints, told : Nat, op : Notices]

ASSUME RuntimeAssumption ==
    /\ Clock \notin Keys
    /\ Absent \notin Values \cup (0..ClockMax)
    /\ Local \notin Endpoints
    /\ ClockMax \in Nat
    /\ Steps \subseteq Nat
    /\ NoMeta \notin KeyMeta
    /\ SubtreeMeta \in [AllKeys -> KeyMeta \cup {NoMeta}]
    /\ Readings \cup Updates \cup CallWrites \cup BehaviorWrites
         \cup HostWrites \subseteq Change
    /\ Descriptions \subseteq Description
    /\ HostMetas \subseteq KeyMeta
    /\ NoError \notin Messages
    /\ MaxReadings \in Nat /\ MaxEvents \in Nat /\ MaxDescriptions \in Nat

VARIABLES
    pc,            \* the phase of the step, "idle" between steps
    store,         \* the data store
    flight,        \* per thread, what it has stored and not yet notified
    changes,       \* the device's subscription to the store, coalesced
    time,          \* Clock::time_ns
    halFeed,       \* readings the HAL has sent
    halKeys,       \* descriptions the HAL has sent
    inbound,       \* events the bridges and in-process callers have sent
    sensors,       \* Pending::sensors
    events,        \* Pending::events
    sensorApplied, \* the coalesced readings of this step
    out,           \* the step's outbound change
    meta,          \* each key's own meta in the store
    describing,    \* the description describe_hal_keys has filtered and not stated
    stated,        \* hal_stated: the meta the HAL stated itself
    asked,         \* data_requested: the endpoints that want the data
    interp,        \* a behavior interpreter is installed
    standing,      \* the standing behavior error
    \* What the other parties know.
    awaiting,      \* senders with a command not replied to
    mirror,        \* each endpoint's copy: its last Get and what it was sent
    synced,        \* endpoints that were asking when that Get was answered
    halKnows,      \* the last value the HAL reported or was sent, per key
    told,          \* descriptions the HAL has sent so far
    hostMeta,      \* what the host last stated of each key
    \* Where the two threads crossed.
    raced,         \* keys last stored while the other thread had not notified its own
    crossed        \* keys last stated by the host while a description of them was held

stepVars == <<sensorApplied, out>>
storeVars == <<store, flight, changes, raced>>
metaVars == <<meta, describing, stated, told, hostMeta, crossed>>
queueVars == <<halFeed, inbound, sensors, events>>
behaviorVars == <<interp, standing>>
peerVars == <<awaiting, mirror, synced>>
vars == <<pc, store, flight, changes, time, halFeed, halKeys, inbound, sensors,
          events, sensorApplied, out, meta, describing, stated, asked, interp,
          standing, awaiting, mirror, synced, halKnows, told, hostMeta, raced,
          crossed>>

\* The two threads that write the store.
Threads == {"step", "host"}

NoChange == [k \in {} |-> Absent]
NoStatement == [k \in {} |-> NoMeta]

\* State::apply.
Apply(state, c) ==
    [k \in DOMAIN state |-> IF k \in DOMAIN c THEN c[k] ELSE state[k]]

\* Two changes coalesced: the later one wins its keys.
Merge(earlier, later) ==
    [k \in DOMAIN earlier \cup DOMAIN later |->
        IF k \in DOMAIN later THEN later[k] ELSE earlier[k]]

\* What a write changes: a key set to the value it holds is left out.
Effective(c) == [k \in {x \in DOMAIN c : c[x] # store[x]} |-> c[k]]

Other(w) == IF w = "step" THEN "host" ELSE "step"

\* The cells of a write: each is stored and released.  A key the other thread
\* has stored and not notified is raced: the two may notify in either order.
Write(w, c) ==
    /\ flight[w] = NoChange
    /\ store' = Apply(store, c)
    /\ flight' = [flight EXCEPT ![w] = Effective(c)]
    /\ raced' = (raced \ DOMAIN Effective(c))
                   \cup (DOMAIN Effective(c) \cap DOMAIN flight[Other(w)])
    /\ UNCHANGED changes

\* The end of a write: the feeds are sent what it changed.
Notify(w) ==
    /\ flight[w] # NoChange
    /\ changes' = Merge(changes, flight[w])
    /\ flight' = [flight EXCEPT ![w] = NoChange]
    /\ UNCHANGED <<pc, store, raced, time, queueVars, halKeys, stepVars, metaVars,
                   asked, behaviorVars, peerVars, halKnows>>

\* DataStore::meta: the key's own statement, else its subtree's.
MetaOf(k) == IF meta[k] # NoMeta THEN meta[k] ELSE SubtreeMeta[k]

\* One statement per key of d replaces the key's own.
State(m, d) == [k \in AllKeys |-> IF k \in DOMAIN d THEN d[k] ELSE m[k]]

\* AroraBuilder::build: the device subscribes to a store the embedder may
\* have filled, whose state is the feed's first change; the clock starts where
\* with_start_time says; no endpoint asks for the data yet.
Init ==
    /\ pc = "idle"
    /\ \E c \in HostWrites \cup {NoChange} :
          /\ store = Apply([k \in AllKeys |-> Absent], c)
          /\ changes = c
    /\ flight = [w \in Threads |-> NoChange] /\ raced = {}
    /\ time \in 0..ClockMax
    /\ halFeed = <<>> /\ halKeys = <<>> /\ inbound = <<>>
    /\ sensors = <<>> /\ events = <<>>
    /\ sensorApplied = NoChange /\ out = NoChange
    /\ meta = [k \in AllKeys |-> NoMeta]
    /\ stated = [k \in AllKeys |-> NoMeta]
    /\ describing = NoStatement /\ crossed = {}
    /\ asked = [e \in Endpoints |-> FALSE]
    /\ interp = TRUE
    /\ standing = NoError
    /\ awaiting = [s \in Senders |-> FALSE]
    /\ mirror = [e \in Endpoints |-> [k \in AllKeys |-> Absent]]
    /\ synced = [e \in Endpoints |-> FALSE]
    /\ halKnows = [k \in AllKeys |-> Absent]
    /\ told = 0
    /\ hostMeta = [k \in AllKeys |-> NoMeta]

------------------------------------------------------------------------------
(* The other parties *)

\* The HAL's updates feed.
HalReport(c) ==
    /\ Len(halFeed) + Len(sensors) < MaxReadings
    /\ halFeed' = Append(halFeed, c)
    /\ UNCHANGED <<pc, storeVars, time, halKeys, inbound, sensors, events,
                   stepVars, metaVars, asked, behaviorVars, peerVars, halKnows>>

\* The HAL's describe_keys feed.
HalDescribe(d) ==
    /\ told < MaxDescriptions
    /\ told' = told + 1
    /\ halKeys' = Append(halKeys, d)
    /\ UNCHANGED <<pc, storeVars, time, queueVars, stepVars, meta, describing,
                   stated, hostMeta, crossed, asked, behaviorVars, peerVars,
                   halKnows>>

\* A remote or an in-process caller sends a command and awaits its reply.
SendCommand(s, op) ==
    /\ ~awaiting[s]
    /\ Len(inbound) + Len(events) < MaxEvents
    /\ awaiting' = [awaiting EXCEPT ![s] = TRUE]
    /\ inbound' = Append(inbound, [from |-> s, told |-> told, op |-> op])
    /\ UNCHANGED <<pc, storeVars, time, halFeed, halKeys, sensors, events,
                   stepVars, metaVars, asked, behaviorVars, mirror, synced,
                   halKnows>>

\* An endpoint asks for the data or stops asking, or its device info changes.
SendNotice(e, op) ==
    /\ Len(inbound) + Len(events) < MaxEvents
    /\ inbound' = Append(inbound, [from |-> e, told |-> told, op |-> op])
    /\ UNCHANGED <<pc, storeVars, time, halFeed, halKeys, sensors, events,
                   stepVars, metaVars, asked, behaviorVars, peerVars, halKnows>>

\* The embedder writes through its own handle on the store, at any time.
HostWrite(c) ==
    /\ Write("host", c)
    /\ UNCHANGED <<pc, time, queueVars, halKeys, stepVars, metaVars, asked,
                   behaviorVars, peerVars, halKnows>>

\* The host states what a key is, at any time.
HostDescribe(k, m) ==
    /\ meta' = [meta EXCEPT ![k] = m]
    /\ hostMeta' = [hostMeta EXCEPT ![k] = m]
    /\ crossed' = IF k \in DOMAIN describing THEN crossed \cup {k} ELSE crossed \ {k}
    /\ UNCHANGED <<pc, storeVars, time, queueVars, halKeys, stepVars, describing,
                   stated, told, asked, behaviorVars, peerVars, halKnows>>

------------------------------------------------------------------------------
(* The device *)

\* Between ticks, run only buffers what arrives.
BufferReading ==
    /\ pc = "idle"
    /\ halFeed # <<>>
    /\ sensors' = Append(sensors, Head(halFeed))
    /\ halFeed' = Tail(halFeed)
    /\ UNCHANGED <<pc, storeVars, time, halKeys, inbound, events, stepVars,
                   metaVars, asked, behaviorVars, peerVars, halKnows>>

BufferEvent ==
    /\ pc = "idle"
    /\ inbound # <<>>
    /\ events' = Append(events, Head(inbound))
    /\ inbound' = Tail(inbound)
    /\ UNCHANGED <<pc, storeVars, time, halFeed, halKeys, sensors, stepVars,
                   metaVars, asked, behaviorVars, peerVars, halKnows>>

\* Phase 0: everything the feeds hold now.
SweepNow ==
    /\ pc = "idle"
    /\ pc' = "describe"
    /\ sensors' = sensors \o halFeed
    /\ events' = events \o inbound
    /\ halFeed' = <<>>
    /\ inbound' = <<>>
    /\ UNCHANGED <<storeVars, time, halKeys, stepVars, metaVars, asked,
                   behaviorVars, peerVars, halKnows>>

\* Mutant: a description replaces whatever was stated.
ReadHalKeysOverHost ==
    /\ pc = "describe"
    /\ describing = NoStatement
    /\ halKeys # <<>>
    /\ describing' = Head(halKeys)
    /\ halKeys' = Tail(halKeys)
    /\ UNCHANGED <<pc, storeVars, time, queueVars, stepVars, meta, stated, told,
                   hostMeta, crossed, asked, behaviorVars, peerVars, halKnows>>

\* Phase 0b, one description: what is stated now is read, and the keys nobody
\* stated, or the HAL itself did, are the ones it may state.
ReadHalKeys ==
    /\ pc = "describe"
    /\ describing = NoStatement
    /\ halKeys # <<>>
    /\ LET d == Head(halKeys)
           mine == {k \in DOMAIN d : meta[k] = NoMeta \/ meta[k] = stated[k]}
       IN  describing' = [k \in mine |-> d[k]]
    /\ halKeys' = Tail(halKeys)
    /\ UNCHANGED <<pc, storeVars, time, queueVars, stepVars, meta, stated, told,
                   hostMeta, crossed, asked, behaviorVars, peerVars, halKnows>>

\* They are stated afterwards, over whatever the host stated since.
StateHalKeys ==
    /\ pc = "describe"
    /\ describing # NoStatement
    /\ meta' = State(meta, describing)
    /\ stated' = State(stated, describing)
    /\ describing' = NoStatement
    /\ UNCHANGED <<pc, storeVars, time, queueVars, halKeys, stepVars, told,
                   hostMeta, crossed, asked, behaviorVars, peerVars, halKnows>>

\* The nanoseconds of a step, cast to u64: truncated.
Nanos(dt) == dt % (ClockMax + 1)

\* Mutant: the clock wraps.
AdvanceWrapping(dt) == (time + Nanos(dt)) % (ClockMax + 1)

\* saturating_add.
Advance(dt) ==
    IF time + Nanos(dt) > ClockMax THEN ClockMax ELSE time + Nanos(dt)

\* Mutant: the frame starts before the descriptions are all stated.
TickClockEarly(dt) ==
    /\ pc = "describe"
    /\ pc' = "apply"
    /\ time' = Advance(dt)
    /\ Write("step", [k \in {Clock} |-> time'])
    /\ sensorApplied' = NoChange
    /\ UNCHANGED <<queueVars, halKeys, out, metaVars, asked, behaviorVars,
                   peerVars, halKnows>>

\* Phase 1: the clock advances and is published.
TickClock(dt) ==
    /\ pc = "describe"
    /\ halKeys = <<>>
    /\ describing = NoStatement
    /\ pc' = "apply"
    /\ time' = Advance(dt)
    /\ Write("step", [k \in {Clock} |-> time'])
    /\ sensorApplied' = NoChange
    /\ UNCHANGED <<queueVars, halKeys, out, metaVars, asked, behaviorVars,
                   peerVars, halKnows>>

\* Phase 2, one reading, oldest first.
ApplySensor ==
    /\ pc = "apply"
    /\ sensors # <<>>
    /\ Write("step", Head(sensors))
    /\ sensorApplied' = Merge(sensorApplied, Head(sensors))
    /\ halKnows' = Apply(halKnows, Head(sensors))
    /\ sensors' = Tail(sensors)
    /\ UNCHANGED <<pc, time, halFeed, halKeys, inbound, events, out, metaVars,
                   asked, behaviorVars, peerVars>>

\* A value conforms to a key's declared type, when it states one.
Conforms(v, m) ==
    m.ty = AnyType \/ v = Absent \/ (v \in Values /\ TypeOf[v] = m.ty)

\* Mutant: the value's type is not checked.
AcceptedUntyped(c) ==
    \A k \in DOMAIN c :
        /\ MetaOf(k) # NoMeta
        /\ MetaOf(k).editable

\* A remote's change is whole or refused: every key an input of the device,
\* every value of its key's type.
Accepted(c) ==
    \A k \in DOMAIN c :
        /\ MetaOf(k) # NoMeta
        /\ MetaOf(k).editable
        /\ Conforms(c[k], MetaOf(k))

\* A write of the step ends before the step goes on.
Quiet == flight["step"] = NoChange

\* Phase 3: the readings are in; the events follow in arrival order.
NextEvent ==
    /\ pc = "apply"
    /\ Quiet
    /\ sensors = <<>>
    /\ events # <<>>
    /\ events' = Tail(events)

EventFrame ==
    UNCHANGED <<pc, time, halFeed, halKeys, inbound, sensors, stepVars,
                metaVars, behaviorVars, halKnows>>

Reply(s) == awaiting' = [awaiting EXCEPT ![s] = FALSE]

\* Get: the reply carries the values the store holds at this point.
ApplyGet ==
    LET from == Head(events).from IN
    /\ NextEvent
    /\ Head(events).op.kind = "get"
    /\ Reply(from)
    /\ mirror' = [e \in Endpoints |-> IF e = from THEN store ELSE mirror[e]]
    /\ synced' = [e \in Endpoints |-> IF e = from THEN asked[e] ELSE synced[e]]
    /\ UNCHANGED <<storeVars, asked>>
    /\ EventFrame

\* Mutant: a refused change is not replied to.
ApplyUpdateSilent ==
    LET c == Head(events).op.change IN
    /\ NextEvent
    /\ Head(events).op.kind = "update"
    /\ IF Accepted(c) THEN Write("step", c) ELSE UNCHANGED storeVars
    /\ IF Accepted(c) THEN Reply(Head(events).from) ELSE UNCHANGED awaiting
    /\ UNCHANGED <<asked, mirror, synced>>
    /\ EventFrame

ApplyUpdate ==
    LET c == Head(events).op.change IN
    /\ NextEvent
    /\ Head(events).op.kind = "update"
    /\ IF Accepted(c) THEN Write("step", c) ELSE UNCHANGED storeVars
    /\ Reply(Head(events).from)
    /\ UNCHANGED <<asked, mirror, synced>>
    /\ EventFrame

\* A module's function writes the store unchecked.
ApplyCall ==
    /\ NextEvent
    /\ Head(events).op.kind = "call"
    /\ Write("step", Head(events).op.writes)
    /\ Reply(Head(events).from)
    /\ UNCHANGED <<asked, mirror, synced>>
    /\ EventFrame

\* ListKeys, ListMethods, DescribeMethods.
ApplyList ==
    /\ NextEvent
    /\ Head(events).op.kind = "list"
    /\ Reply(Head(events).from)
    /\ UNCHANGED <<storeVars, asked, mirror, synced>>
    /\ EventFrame

ApplyDataRequested ==
    LET e == Head(events).from
        on == Head(events).op.on
    IN  /\ NextEvent
        /\ Head(events).op.kind = "request"
        /\ asked' = [asked EXCEPT ![e] = on]
        /\ synced' = [synced EXCEPT ![e] = synced[e] /\ on]
        /\ UNCHANGED <<storeVars, awaiting, mirror>>
        /\ EventFrame

\* An endpoint that disconnects or no longer knows the device changes nothing.
ApplyDeviceInfo ==
    /\ NextEvent
    /\ Head(events).op.kind = "info"
    /\ UNCHANGED <<storeVars, asked, peerVars>>
    /\ EventFrame

\* Phase 4: one tick of the behavior, whose writes stay whether or not it
\* fails.  Done drops the interpreter, an error keeps it for the next step.
BehaviorFrame ==
    /\ pc = "apply"
    /\ Quiet
    /\ sensors = <<>>
    /\ events = <<>>
    /\ pc' = "flush"
    /\ UNCHANGED <<time, queueVars, halKeys, stepVars, metaVars, asked,
                   peerVars, halKnows>>

TickBehavior(c) ==
    /\ BehaviorFrame
    /\ interp
    /\ Write("step", c)
    /\ \/ interp' = TRUE /\ standing' = NoError
       \/ interp' = FALSE /\ standing' = NoError
       \/ \E m \in Messages : interp' \in BOOLEAN /\ standing' = m

NoBehavior ==
    /\ BehaviorFrame
    /\ ~interp
    /\ UNCHANGED <<storeVars, behaviorVars>>

\* Phase 5: what the step changed, as one change.
Flush ==
    /\ pc = "flush"
    /\ Quiet
    /\ out' = changes
    /\ changes' = NoChange
    /\ pc' = "write"
    /\ UNCHANGED <<store, flight, raced, time, queueVars, halKeys, sensorApplied,
                   metaVars, asked, behaviorVars, peerVars, halKnows>>

\* Mutant: every key the hardware reported is left out, overwritten or not.
ForHalByKey == [k \in DOMAIN out \ DOMAIN sensorApplied |-> out[k]]

\* What the hardware is sent: not the keys whose final value it reported.
ForHal ==
    [k \in {x \in DOMAIN out :
              ~(x \in DOMAIN sensorApplied /\ sensorApplied[x] = out[x])}
       |-> out[k]]

\* Mutant: the endpoints are sent what the hardware is sent.
WriteOutForHal ==
    /\ pc = "write"
    /\ halKnows' = Apply(halKnows, ForHal)
    /\ mirror' = [e \in Endpoints |->
                    IF asked[e] THEN Apply(mirror[e], ForHal) ELSE mirror[e]]
    /\ out' = NoChange
    /\ sensorApplied' = NoChange
    /\ pc' = "idle"
    /\ UNCHANGED <<storeVars, time, queueVars, halKeys, metaVars, asked,
                   behaviorVars, awaiting, synced>>

\* Phase 6: the hardware, then every endpoint that asks.
WriteOut ==
    /\ pc = "write"
    /\ halKnows' = Apply(halKnows, ForHal)
    /\ mirror' = [e \in Endpoints |->
                    IF asked[e] THEN Apply(mirror[e], out) ELSE mirror[e]]
    /\ out' = NoChange
    /\ sensorApplied' = NoChange
    /\ pc' = "idle"
    /\ UNCHANGED <<storeVars, time, queueVars, halKeys, metaVars, asked,
                   behaviorVars, awaiting, synced>>

Step ==
    \/ Notify("step")
    \/ SweepNow
    \/ ReadHalKeys
    \/ StateHalKeys
    \/ \E dt \in Steps : TickClock(dt)
    \/ ApplySensor
    \/ ApplyGet \/ ApplyUpdate \/ ApplyCall \/ ApplyList
    \/ ApplyDataRequested \/ ApplyDeviceInfo
    \/ \E c \in BehaviorWrites : TickBehavior(c)
    \/ NoBehavior
    \/ Flush
    \/ WriteOut

Environment ==
    \/ \E c \in Readings : HalReport(c)
    \/ \E d \in Descriptions : HalDescribe(d)
    \/ \E s \in Senders : \E op \in Commands : SendCommand(s, op)
    \/ \E e \in Endpoints : \E op \in Notices : SendNotice(e, op)
    \/ \E c \in HostWrites : HostWrite(c)
    \/ Notify("host")
    \/ \E k \in Keys : \E m \in HostMetas : HostDescribe(k, m)

Next == Environment \/ BufferReading \/ BufferEvent \/ Step

Spec == Init /\ [][Next]_vars

\* run polls the tick first, so arrivals cannot keep a step from starting,
\* and a step runs to its end on one thread.
FairSpec == Spec /\ WF_vars(Step)

------------------------------------------------------------------------------
(* Properties *)

\* The values in the model have the types the code gives them.
TypeOK ==
    /\ pc \in {"idle", "describe", "apply", "flush", "write"}
    /\ store \in [AllKeys -> Val]
    /\ changes \in Change
    /\ flight \in [Threads -> Change]
    /\ raced \subseteq AllKeys /\ crossed \subseteq AllKeys
    /\ time \in 0..ClockMax
    /\ halFeed \in Seq(Change) /\ sensors \in Seq(Change)
    /\ halKeys \in Seq(Description)
    /\ inbound \in Seq(Event) /\ events \in Seq(Event)
    /\ sensorApplied \in Change /\ out \in Change
    /\ meta \in [AllKeys -> KeyMeta \cup {NoMeta}]
    /\ stated \in [AllKeys -> KeyMeta \cup {NoMeta}]
    /\ describing \in Description
    /\ asked \in [Endpoints -> BOOLEAN]
    /\ interp \in BOOLEAN
    /\ standing \in Messages \cup {NoError}
    /\ awaiting \in [Senders -> BOOLEAN]
    /\ mirror \in [Endpoints -> [AllKeys -> Val]]
    /\ synced \in [Endpoints -> BOOLEAN]
    /\ halKnows \in [AllKeys -> Val]
    /\ told \in Nat
    /\ hostMeta \in [AllKeys -> KeyMeta \cup {NoMeta}]

\* The store's value of k is in the device's feed, or about to be.
Arriving(k) ==
    \/ k \in DOMAIN changes /\ changes[k] = store[k]
    \/ \E w \in Threads : k \in DOMAIN flight[w] /\ flight[w][k] = store[k]

\* A party holding `known` has the store's value of every key, or the change
\* that gives it is arriving, for the next step to send.  A key is passed over
\* from the moment the embedder and the step cross on it until its next write
\* that crosses no other: the store may then have notified the older value
\* last, and nothing sends the newer one.
UpToDate(known) ==
    \A k \in AllKeys \ raced : known[k] = store[k] \/ Arriving(k)

\* Between steps the hardware has been told, or has itself reported, the
\* store's value of every key: leaving its own readings out of what it is
\* sent (write_hal) never leaves it behind what a remote, a call, the
\* behavior or the embedder wrote over them, also while another thread is
\* between storing a key and notifying it.
HalInformed == pc = "idle" => UpToDate(halKnows)

\* An endpoint that asked for the data and then read the keys holds the
\* device's state between steps from what it is sent, until it stops asking:
\* no change falls between the reply to its Get and the next outbound change.
MirrorsInSync ==
    pc = "idle" => \A e \in Endpoints : synced[e] => UpToDate(mirror[e])

\* "A remote write that arrived with a description is checked against it"
\* (describe_hal_keys): every description the HAL sent before an event was
\* sent has been stated when the step applies its events.
DescribedFirst ==
    pc = "apply" =>
        /\ describing = NoStatement
        /\ \A i \in 1..Len(events) : events[i].told + Len(halKeys) <= told

\* A typed key holds a value of its type or none, whatever remotes ask for
\* and however the HAL's and the host's statements interleave with the writes
\* ("every reader of a typed key can rely on its type", apply_command).
TypedKeysConform ==
    \A k \in Keys : MetaOf(k) # NoMeta => Conforms(store[k], MetaOf(k))

\* "A key whose own meta someone else stated - the host, before or after the
\* build - keeps it" (describe_hal_keys), through any later descriptions, unless
\* the host spoke between the device's reading of what is stated and its own
\* statement: that one is lost, until the host states the key again.
HostMetaKept ==
    \A k \in AllKeys \ crossed : hostMeta[k] # NoMeta => meta[k] = hostMeta[k]

\* "The monotonic accumulator" (tick_clock): the published clock never goes back
\* nor goes away, whatever dt a driver passes, at the end of its range, and
\* whatever remotes ask to write there (the subtree is closed at build).
ClockForward ==
    [][store[Clock] # Absent =>
          store'[Clock] # Absent /\ store'[Clock] >= store[Clock]]_vars

(* The parts of the inductive invariant. *)

Flying(k) == \E w \in Threads : k \in DOMAIN flight[w]

\* What a thread has stored and not notified is what the store holds, unless
\* the other stored the key since.
FlightIsCurrent ==
    \A w \in Threads : \A k \in DOMAIN flight[w] \ raced :
        flight[w][k] = store[k] /\ k \notin DOMAIN flight[Other(w)]

\* The feed holds the store's values, but for what is to be notified.
FeedIsCurrent ==
    \A k \in DOMAIN changes \ raced : changes[k] = store[k] \/ Flying(k)

\* So does the outbound change, but for keys written since the flush.
OutIsCurrent ==
    pc = "write" =>
        \A k \in DOMAIN out \ raced :
            k \in DOMAIN changes \/ Flying(k) \/ out[k] = store[k]

\* At any point of a step, what `known` lacks is arriving or going out.
WillKnow(known) ==
    \A k \in AllKeys \ raced : \/ known[k] = store[k]
                               \/ k \in DOMAIN changes
                               \/ Flying(k)
                               \/ pc = "write" /\ k \in DOMAIN out

\* The coalesced readings are what the hardware last said.
ReadingsKnown == \A k \in DOMAIN sensorApplied : halKnows[k] = sensorApplied[k]

FeedInv == FlightIsCurrent /\ FeedIsCurrent /\ OutIsCurrent

HalInv == FeedInv /\ ReadingsKnown /\ WillKnow(halKnows)

MirrorInv ==
    /\ FeedInv
    /\ \A e \in Endpoints : synced[e] => asked[e] /\ WillKnow(mirror[e])

\* What the HAL says of keys, and what is said of them.
HalMetas == UNION {{d[k] : k \in DOMAIN d} : d \in Descriptions}

MetaInv ==
    /\ halKeys \in Seq(Descriptions)
    /\ stated \in [AllKeys -> HalMetas \cup {NoMeta}]
    /\ hostMeta \in [AllKeys -> HostMetas \cup {NoMeta}]
    /\ describing \in UNION {[D -> HalMetas] : D \in SUBSET AllKeys}
    /\ HostMetaKept
    /\ \A k \in DOMAIN describing \ crossed : hostMeta[k] = NoMeta

\* Every command is replied to, though the behavior fails at every tick, is
\* dropped, or floods of readings and events keep arriving.
CommandsAnswered == \A s \in Senders : awaiting[s] ~> ~awaiting[s]
=============================================================================
