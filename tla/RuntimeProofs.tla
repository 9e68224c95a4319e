---------------------------- MODULE RuntimeProofs ----------------------------
(* Theorems about Runtime, for any keys, endpoints, inputs and bounds.       *)
EXTENDS Runtime, TLAPS

(* Changes and what applying, coalescing and filtering them gives.           *)
LEMMA ChangeIntro ==
    ASSUME NEW f, NEW D \in SUBSET AllKeys, f \in [D -> Val]
    PROVE  f \in Change
BY DEF Change

LEMMA ChangeElim ==
    ASSUME NEW f \in Change
    PROVE  /\ DOMAIN f \in SUBSET AllKeys
           /\ f \in [DOMAIN f -> Val]
           /\ \A k \in DOMAIN f : f[k] \in Val
BY DEF Change

LEMMA NoChangeType == NoChange \in Change /\ DOMAIN NoChange = {}
<1>1. NoChange \in [{} -> Val]
  BY DEF NoChange
<1>2. {} \in SUBSET AllKeys
  OBVIOUS
<1> QED BY <1>1, <1>2, ChangeIntro

LEMMA ApplyType ==
    ASSUME NEW state \in [AllKeys -> Val], NEW c \in Change
    PROVE  Apply(state, c) \in [AllKeys -> Val]
BY ChangeElim DEF Apply

LEMMA MergeType ==
    ASSUME NEW c \in Change, NEW d \in Change
    PROVE  Merge(c, d) \in Change
<1>1. Merge(c, d) \in [DOMAIN c \cup DOMAIN d -> Val]
  BY ChangeElim DEF Merge
<1>2. DOMAIN c \cup DOMAIN d \in SUBSET AllKeys
  BY ChangeElim
<1> QED BY <1>1, <1>2, ChangeIntro

LEMMA RestrictType ==
    ASSUME NEW c \in Change, NEW S \in SUBSET DOMAIN c
    PROVE  [k \in S |-> c[k]] \in Change
<1>1. [k \in S |-> c[k]] \in [S -> Val]
  BY ChangeElim
<1>2. S \in SUBSET AllKeys
  BY ChangeElim
<1> QED BY <1>1, <1>2, ChangeIntro

\* The store, what is being notified, the feed and the marks are well typed.
StoreTyped ==
    /\ store \in [AllKeys -> Val] /\ changes \in Change
    /\ flight \in [Threads -> Change] /\ raced \subseteq AllKeys

LEMMA TypedStore == TypeOK => StoreTyped
BY DEF TypeOK, StoreTyped

LEMMA OtherThread ==
    ASSUME NEW w \in Threads
    PROVE  /\ Other(w) \in Threads /\ Other(w) # w /\ Other(Other(w)) = w
           /\ \A x \in Threads : x = w \/ x = Other(w)
BY DEF Threads, Other

\* A write, spelled out.
LEMMA WriteStep ==
    ASSUME NEW w \in Threads, NEW c \in Change, StoreTyped, Write(w, c)
    PROVE  /\ StoreTyped'
           /\ flight[w] = NoChange /\ changes' = changes
           /\ \A k \in AllKeys : store'[k] = IF k \in DOMAIN c THEN c[k] ELSE store[k]
           /\ \A x \in Threads : x # w => flight'[x] = flight[x]
           /\ \A k \in AllKeys : k \in DOMAIN flight'[w] <=> k \in DOMAIN c /\ c[k] # store[k]
           /\ \A k \in DOMAIN flight'[w] : flight'[w][k] = c[k]
           /\ raced' = (raced \ DOMAIN flight'[w])
                          \cup (DOMAIN flight'[w] \cap DOMAIN flight[Other(w)])
<1>1. DOMAIN c \subseteq AllKeys
  BY ChangeElim
<1>2. store' = [k \in AllKeys |-> IF k \in DOMAIN c THEN c[k] ELSE store[k]]
  BY DEF Write, Apply, StoreTyped
<1> PICK ef : ef = Effective(c)
  OBVIOUS
<1>3. /\ DOMAIN ef = {x \in DOMAIN c : c[x] # store[x]}
      /\ \A k \in DOMAIN ef : ef[k] = c[k]
  BY DEF Effective
<1>4. ef \in Change
  BY RestrictType DEF Effective
<1>5. /\ flight' = [flight EXCEPT ![w] = ef] /\ changes' = changes
      /\ flight[w] = NoChange
      /\ raced' = (raced \ DOMAIN ef) \cup (DOMAIN ef \cap DOMAIN flight[Other(w)])
  BY DEF Write
<1>6. flight'[w] = ef /\ \A x \in Threads : x # w => flight'[x] = flight[x]
  BY <1>5 DEF StoreTyped
<1>7. store' \in [AllKeys -> Val]
  <2>1. Apply(store, c) \in [AllKeys -> Val]
    BY ApplyType DEF StoreTyped
  <2> QED BY <2>1 DEF Write
<1>8. flight' \in [Threads -> Change]
  BY <1>4, <1>5 DEF StoreTyped
<1>9. raced' \subseteq AllKeys
  BY <1>1, <1>3, <1>5 DEF StoreTyped
<1>10. StoreTyped'
  BY <1>5, <1>7, <1>8, <1>9 DEF StoreTyped
<1> QED BY <1>1, <1>2, <1>3, <1>5, <1>6, <1>10

\* A notification, spelled out.
LEMMA NotifyStep ==
    ASSUME NEW w \in Threads, StoreTyped, Notify(w)
    PROVE  /\ StoreTyped'
           /\ store' = store /\ raced' = raced
           /\ DOMAIN flight'[w] = {}
           /\ \A x \in Threads : x # w => flight'[x] = flight[x]
           /\ DOMAIN changes' = DOMAIN changes \cup DOMAIN flight[w]
           /\ \A k \in DOMAIN changes' :
                 changes'[k] = IF k \in DOMAIN flight[w] THEN flight[w][k] ELSE changes[k]
<1>1. /\ store' = store /\ raced' = raced
      /\ flight' = [flight EXCEPT ![w] = NoChange]
      /\ changes' = Merge(changes, flight[w])
  BY DEF Notify
<1>2. changes' \in Change
  BY <1>1, MergeType DEF StoreTyped
<1>3. flight' \in [Threads -> Change]
  BY <1>1, NoChangeType DEF StoreTyped
<1>4. DOMAIN flight'[w] = {} /\ \A x \in Threads : x # w => flight'[x] = flight[x]
  BY <1>1, NoChangeType DEF StoreTyped
<1>5. StoreTyped'
  BY <1>1, <1>2, <1>3 DEF StoreTyped
<1> QED BY <1>1, <1>4, <1>5 DEF Merge

------------------------------------------------------------------------------
(* Type correctness *)

LEMMA InitType == Init => TypeOK
<1> SUFFICES ASSUME Init PROVE TypeOK
  OBVIOUS
<1> USE RuntimeAssumption
<1>1. PICK c \in HostWrites \cup {NoChange} :
           store = Apply([k \in AllKeys |-> Absent], c) /\ changes = c
  BY DEF Init
<1>2. c \in Change
  BY <1>1, NoChangeType
<1>3. [k \in AllKeys |-> Absent] \in [AllKeys -> Val]
  BY DEF Val
<1>4. store \in [AllKeys -> Val] /\ changes \in Change
  BY <1>1, <1>2, <1>3, ApplyType
<1>5. flight \in [Threads -> Change] /\ describing \in Description
  <2>1. NoStatement \in [{} -> KeyMeta]
    BY DEF NoStatement
  <2>2. NoStatement \in Description
    BY <2>1 DEF Description
  <2> QED BY <2>2, NoChangeType DEF Init
<1> QED BY <1>3, <1>4, <1>5, NoChangeType DEF Init, TypeOK

\* The parts of the type invariant a write can disturb, for each writer.
LEMMA InputTypes ==
    /\ Readings \subseteq Change /\ Updates \subseteq Change
    /\ CallWrites \subseteq Change /\ BehaviorWrites \subseteq Change
    /\ HostWrites \subseteq Change
BY RuntimeAssumption

LEMMA EventTypes ==
    ASSUME NEW ev \in Event
    PROVE  /\ ev.from \in Senders
           /\ ev.told \in Nat
           /\ ev.op.kind = "update" => ev.op.change \in Change
           /\ ev.op.kind = "call" => ev.op.writes \in Change
           /\ ev.op.kind = "request" => ev.op.on \in BOOLEAN /\ ev.from \in Endpoints
BY InputTypes DEF Event, Commands, Notices, Senders

LEMMA AdvanceType ==
    ASSUME time \in 0..ClockMax, NEW dt \in Steps
    PROVE  Advance(dt) \in 0..ClockMax /\ Advance(dt) >= time
<1>1. ClockMax \in Nat /\ dt \in Nat
  BY RuntimeAssumption
<1>2. Nanos(dt) \in Nat
  BY <1>1 DEF Nanos
<1> QED BY <1>1, <1>2 DEF Advance

LEMMA NextType == TypeOK /\ [Next]_vars => TypeOK'
<1> SUFFICES ASSUME TypeOK, [Next]_vars PROVE TypeOK'
  OBVIOUS
<1> USE DEF storeVars, stepVars, metaVars, queueVars, behaviorVars, peerVars
<1>0. StoreTyped
  BY TypedStore
<1>00. "step" \in Threads /\ "host" \in Threads
  BY DEF Threads
<1>1. ASSUME NEW c \in Readings, HalReport(c) PROVE TypeOK'
  <2>1. Append(halFeed, c) \in Seq(Change)
    BY InputTypes DEF TypeOK
  <2> QED BY <1>1, <2>1 DEF HalReport, TypeOK
<1>2. ASSUME NEW d \in Descriptions, HalDescribe(d) PROVE TypeOK'
  <2>1. d \in Description
    BY RuntimeAssumption
  <2>2. Append(halKeys, d) \in Seq(Description)
    BY <2>1 DEF TypeOK
  <2> QED BY <1>2, <2>2 DEF HalDescribe, TypeOK
<1>3. ASSUME NEW s \in Senders, NEW op \in Commands, SendCommand(s, op)
      PROVE  TypeOK'
  <2>1. [from |-> s, told |-> told, op |-> op] \in Event
    BY DEF Event, TypeOK
  <2>2. inbound' \in Seq(Event)
    BY <1>3, <2>1 DEF SendCommand, TypeOK
  <2>3. awaiting' \in [Senders -> BOOLEAN]
    BY <1>3 DEF SendCommand, TypeOK
  <2> QED BY <1>3, <2>2, <2>3 DEF SendCommand, TypeOK
<1>4. ASSUME NEW e \in Endpoints, NEW op \in Notices, SendNotice(e, op)
      PROVE  TypeOK'
  <2>1. [from |-> e, told |-> told, op |-> op] \in Event
    BY DEF Event, TypeOK
  <2>2. inbound' \in Seq(Event)
    BY <1>4, <2>1 DEF SendNotice, TypeOK
  <2> QED BY <1>4, <2>2 DEF SendNotice, TypeOK
<1>5. ASSUME NEW c \in HostWrites, HostWrite(c) PROVE TypeOK'
  <2>1. StoreTyped'
    BY <1>0, <1>00, <1>5, InputTypes, WriteStep DEF HostWrite
  <2> QED BY <1>5, <2>1 DEF HostWrite, TypeOK, StoreTyped
<1>6. ASSUME NEW k \in Keys, NEW m \in HostMetas, HostDescribe(k, m)
      PROVE  TypeOK'
  BY <1>6, RuntimeAssumption DEF HostDescribe, TypeOK, AllKeys
<1>7. CASE BufferReading
  <2>1. Head(halFeed) \in Change /\ Tail(halFeed) \in Seq(Change)
    BY <1>7 DEF BufferReading, TypeOK
  <2> QED BY <1>7, <2>1 DEF BufferReading, TypeOK
<1>8. CASE BufferEvent
  <2>1. Head(inbound) \in Event /\ Tail(inbound) \in Seq(Event)
    BY <1>8 DEF BufferEvent, TypeOK
  <2> QED BY <1>8, <2>1 DEF BufferEvent, TypeOK
<1>9. CASE SweepNow
  BY <1>9 DEF SweepNow, TypeOK
<1>10. CASE ReadHalKeys
  <2> PICK d : d = Head(halKeys)
    OBVIOUS
  <2> DEFINE mine == {k \in DOMAIN d : meta[k] = NoMeta \/ meta[k] = stated[k]}
  <2>1. d \in Description /\ Tail(halKeys) \in Seq(Description)
    BY <1>10 DEF ReadHalKeys, TypeOK
  <2>2. mine \in SUBSET AllKeys /\ [k \in mine |-> d[k]] \in [mine -> KeyMeta]
    BY <2>1 DEF Description
  <2>3. [k \in mine |-> d[k]] \in Description
    BY <2>2 DEF Description
  <2>4. describing' = [k \in mine |-> d[k]]
    BY <1>10 DEF ReadHalKeys
  <2> HIDE DEF mine
  <2> QED BY <1>10, <2>1, <2>3, <2>4 DEF ReadHalKeys, TypeOK
<1>25. CASE StateHalKeys
  <2>1. \A k \in DOMAIN describing : describing[k] \in KeyMeta
    BY DEF Description, TypeOK
  <2>2. /\ meta' \in [AllKeys -> KeyMeta \cup {NoMeta}]
        /\ stated' \in [AllKeys -> KeyMeta \cup {NoMeta}]
    BY <1>25, <2>1 DEF StateHalKeys, State, TypeOK
  <2>3. NoStatement \in [{} -> KeyMeta]
    BY DEF NoStatement
  <2>4. describing' \in Description
    BY <1>25, <2>3 DEF StateHalKeys, Description
  <2> QED BY <1>25, <2>2, <2>4 DEF StateHalKeys, TypeOK
<1>26. ASSUME NEW w \in Threads, Notify(w) PROVE TypeOK'
  <2>1. StoreTyped'
    BY <1>0, <1>26, NotifyStep
  <2> QED BY <1>26, <2>1 DEF Notify, TypeOK, StoreTyped
<1>11. ASSUME NEW dt \in Steps, TickClock(dt) PROVE TypeOK'
  <2>1. time' \in 0..ClockMax
    BY <1>11, AdvanceType DEF TickClock, TypeOK
  <2>2. [k \in {Clock} |-> time'] \in Change
    <3>1. [k \in {Clock} |-> time'] \in [{Clock} -> Val]
      BY <2>1 DEF Val
    <3> QED BY <3>1, ChangeIntro DEF AllKeys
  <2>3. StoreTyped'
    BY <1>0, <1>00, <1>11, <2>2, WriteStep DEF TickClock
  <2> QED BY <1>11, <2>1, <2>3, NoChangeType DEF TickClock, TypeOK, StoreTyped
<1>12. CASE ApplySensor
  <2>1. Head(sensors) \in Change /\ Tail(sensors) \in Seq(Change)
    BY <1>12 DEF ApplySensor, TypeOK
  <2>2. StoreTyped'
    BY <1>0, <1>00, <1>12, <2>1, WriteStep DEF ApplySensor
  <2>3. sensorApplied' \in Change /\ halKnows' \in [AllKeys -> Val]
    BY <1>12, <2>1, MergeType, ApplyType DEF ApplySensor, TypeOK
  <2> QED BY <1>12, <2>1, <2>2, <2>3 DEF ApplySensor, TypeOK, StoreTyped
<1>13. ASSUME NextEvent
       PROVE  Head(events) \in Event /\ Tail(events) \in Seq(Event)
  BY <1>13 DEF NextEvent, TypeOK
<1>14. CASE ApplyGet
  <2>1. Tail(events) \in Seq(Event) /\ Head(events).from \in Senders
    BY <1>13, <1>14, EventTypes DEF ApplyGet
  <2> QED BY <1>0, <1>14, <2>1
        DEF ApplyGet, NextEvent, EventFrame, Reply, TypeOK, StoreTyped
<1>15. CASE ApplyUpdate
  <2>1. Head(events) \in Event /\ Tail(events) \in Seq(Event)
    BY <1>13, <1>15 DEF ApplyUpdate
  <2>2. Head(events).op.change \in Change
    BY <1>15, <2>1, EventTypes DEF ApplyUpdate
  <2>3. StoreTyped'
    <3>1. Write("step", Head(events).op.change) \/ UNCHANGED storeVars
      BY <1>15 DEF ApplyUpdate
    <3>2. CASE UNCHANGED storeVars
      BY <1>0, <3>2 DEF StoreTyped
    <3> QED BY <1>0, <1>00, <2>2, <3>1, <3>2, WriteStep
  <2> QED BY <1>15, <2>1, <2>3
        DEF ApplyUpdate, NextEvent, EventFrame, Reply, TypeOK, StoreTyped
<1>16. CASE ApplyCall
  <2>1. Head(events) \in Event /\ Tail(events) \in Seq(Event)
    BY <1>13, <1>16 DEF ApplyCall
  <2>2. Head(events).op.writes \in Change
    BY <1>16, <2>1, EventTypes DEF ApplyCall
  <2>3. StoreTyped'
    BY <1>0, <1>00, <1>16, <2>2, WriteStep DEF ApplyCall
  <2> QED BY <1>16, <2>1, <2>3
        DEF ApplyCall, NextEvent, EventFrame, Reply, TypeOK, StoreTyped
<1>17. CASE ApplyList
  <2>1. Tail(events) \in Seq(Event)
    BY <1>13, <1>17 DEF ApplyList
  <2> QED BY <1>17, <2>1 DEF ApplyList, NextEvent, EventFrame, Reply, TypeOK
<1>18. CASE ApplyDataRequested
  <2>1. Tail(events) \in Seq(Event) /\ Head(events).op.on \in BOOLEAN
    BY <1>13, <1>18, EventTypes DEF ApplyDataRequested
  <2> QED BY <1>18, <2>1
        DEF ApplyDataRequested, NextEvent, EventFrame, TypeOK
<1>19. CASE ApplyDeviceInfo
  <2>1. Tail(events) \in Seq(Event)
    BY <1>13, <1>19 DEF ApplyDeviceInfo
  <2> QED BY <1>19, <2>1 DEF ApplyDeviceInfo, NextEvent, EventFrame, TypeOK
<1>20. ASSUME NEW c \in BehaviorWrites, TickBehavior(c) PROVE TypeOK'
  <2>1. StoreTyped'
    BY <1>0, <1>00, <1>20, InputTypes, WriteStep DEF TickBehavior
  <2>2. interp' \in BOOLEAN /\ standing' \in Messages \cup {NoError}
    BY <1>20 DEF TickBehavior
  <2> QED BY <1>20, <2>1, <2>2 DEF TickBehavior, BehaviorFrame, TypeOK, StoreTyped
<1>21. CASE NoBehavior
  BY <1>21 DEF NoBehavior, BehaviorFrame, TypeOK
<1>22. CASE Flush
  BY <1>22, NoChangeType DEF Flush, TypeOK
<1>23. CASE WriteOut
  <2>1. ForHal \in Change
    BY RestrictType DEF ForHal, TypeOK
  <2>2. halKnows' \in [AllKeys -> Val]
    BY <1>23, <2>1, ApplyType DEF WriteOut, TypeOK
  <2>3. \A e \in Endpoints : Apply(mirror[e], out) \in [AllKeys -> Val]
    BY ApplyType DEF TypeOK
  <2> QED BY <1>23, <2>2, <2>3, NoChangeType DEF WriteOut, TypeOK
<1>24. CASE UNCHANGED vars
  BY <1>24 DEF vars, TypeOK
<1> QED BY <1>1, <1>2, <1>3, <1>4, <1>5, <1>6, <1>7, <1>8, <1>9, <1>10, <1>11,
           <1>12, <1>14, <1>15, <1>16, <1>17, <1>18, <1>19, <1>20, <1>21,
           <1>22, <1>23, <1>24, <1>25, <1>26, <1>00
     DEF Next, Environment, Step

\* Every state of the device is well typed: the clock never leaves its
\* width, whatever dt a driver passes.
THEOREM RuntimeTypeCorrect == Spec => []TypeOK
<1> QED BY InitType, NextType, PTL DEF Spec

------------------------------------------------------------------------------
(* What the hardware and the endpoints know *)

\* Steps that touch neither the store nor what goes out, steps that only store
\* cells, and steps that only notify: none enters nor leaves the write phase.
Idles == UNCHANGED <<storeVars, stepVars, halKnows>>
Writes == /\ UNCHANGED <<stepVars, halKnows>>
          /\ \E w \in Threads : \E c \in Change : Write(w, c)
Notifies == \E w \in Threads : Notify(w)
SamePhase == pc' = "write" <=> pc = "write"

\* Key k is in the feed, or about to be.
Awaited(k) == k \in DOMAIN changes \/ Flying(k)

\* What the steps of those three kinds do, as far as the peers are concerned: a
\* key that is not awaited afterwards was not before, and kept its value.
Grows ==
    /\ FeedInv'
    /\ out' = out
    /\ \A k \in AllKeys \ raced' :
          Awaited(k)' \/ (store'[k] = store[k] /\ k \notin raced /\ ~Awaited(k))

LEMMA WriteGrows ==
    ASSUME TypeOK, FeedInv, SamePhase, out' = out,
           NEW w \in Threads, NEW c \in Change, Write(w, c)
    PROVE  Grows
<1> PICK f : f = flight'[w]
  OBVIOUS
<1> PICK o : o = Other(w)
  OBVIOUS
<1>1. /\ changes' = changes /\ DOMAIN flight[w] = {}
      /\ \A k \in AllKeys : store'[k] = IF k \in DOMAIN c THEN c[k] ELSE store[k]
      /\ flight'[o] = flight[o]
      /\ \A k \in AllKeys : k \in DOMAIN f <=> k \in DOMAIN c /\ c[k] # store[k]
      /\ \A k \in DOMAIN f : f[k] = c[k]
      /\ raced' = (raced \ DOMAIN f) \cup (DOMAIN f \cap DOMAIN flight[o])
  BY WriteStep, OtherThread, TypedStore, NoChangeType
<1>2. /\ o \in Threads /\ o # w /\ Other(o) = w /\ \A x \in Threads : x = w \/ x = o
  BY OtherThread
<1>3. /\ DOMAIN f \subseteq AllKeys /\ DOMAIN flight[o] \subseteq AllKeys
      /\ DOMAIN changes \subseteq AllKeys /\ DOMAIN out \subseteq AllKeys
  <2>1. f \in Change /\ flight[o] \in Change /\ changes \in Change /\ out \in Change
    <3>1. StoreTyped /\ StoreTyped'
      BY WriteStep, TypedStore
    <3> QED BY <1>2, <3>1 DEF StoreTyped, TypeOK
  <2> QED BY <2>1, ChangeElim
<1>4. ASSUME NEW k \in AllKeys, k \notin DOMAIN f
      PROVE  /\ store'[k] = store[k] /\ (k \in raced' <=> k \in raced)
             /\ Flying(k)' <=> Flying(k)
  BY <1>1, <1>2, <1>4 DEF Flying
<1>5. ASSUME NEW k \in DOMAIN f
      PROVE  Flying(k)' /\ f[k] = store'[k] /\ (k \notin raced' => k \notin DOMAIN flight'[o])
  BY <1>1, <1>2, <1>3, <1>5 DEF Flying
<1>6. FlightIsCurrent'
  <2> SUFFICES ASSUME NEW x \in Threads, NEW k \in DOMAIN flight'[x], k \notin raced'
               PROVE  flight'[x][k] = store'[k] /\ k \notin DOMAIN flight'[Other(x)]
    BY DEF FlightIsCurrent
  <2>1. CASE x = w
    BY <1>5, <2>1
  <2>2. CASE x = o
    <3>1. k \in DOMAIN flight[o] /\ k \in AllKeys
      BY <1>1, <1>3, <2>2
    <3>2. k \notin DOMAIN f
      BY <1>1, <3>1
    <3>3. store'[k] = store[k] /\ k \notin raced
      BY <1>4, <3>1, <3>2
    <3>4. flight[o][k] = store[k]
      BY <1>2, <3>1, <3>3 DEF FeedInv, FlightIsCurrent
    <3> QED BY <1>1, <1>2, <2>2, <3>2, <3>3, <3>4
  <2> QED BY <1>2, <2>1, <2>2
<1>7. FeedIsCurrent'
  <2> SUFFICES ASSUME NEW k \in DOMAIN changes, k \notin raced'
               PROVE  changes[k] = store'[k] \/ Flying(k)'
    BY <1>1 DEF FeedIsCurrent
  <2> QED BY <1>3, <1>4, <1>5 DEF FeedInv, FeedIsCurrent
<1>8. OutIsCurrent'
  <2> SUFFICES ASSUME pc = "write", NEW k \in DOMAIN out, k \notin raced'
               PROVE  k \in DOMAIN changes \/ Flying(k)' \/ out[k] = store'[k]
    BY <1>1 DEF OutIsCurrent, SamePhase
  <2> QED BY <1>3, <1>4, <1>5 DEF FeedInv, OutIsCurrent
<1>9. ASSUME NEW k \in AllKeys, k \notin raced'
      PROVE  Awaited(k)' \/ (store'[k] = store[k] /\ k \notin raced /\ ~Awaited(k))
  BY <1>1, <1>4, <1>5, <1>9 DEF Awaited
<1> QED BY <1>6, <1>7, <1>8, <1>9 DEF Grows, FeedInv

LEMMA NotifyGrows ==
    ASSUME TypeOK, FeedInv, NEW w \in Threads, Notify(w)
    PROVE  Grows /\ SamePhase
<1> PICK f : f = flight[w]
  OBVIOUS
<1> PICK o : o = Other(w)
  OBVIOUS
<1>1. /\ store' = store /\ raced' = raced
      /\ DOMAIN flight'[w] = {} /\ flight'[o] = flight[o]
      /\ DOMAIN changes' = DOMAIN changes \cup DOMAIN f
      /\ \A k \in DOMAIN changes' : changes'[k] = IF k \in DOMAIN f THEN f[k] ELSE changes[k]
  BY NotifyStep, OtherThread, TypedStore
<1>2. /\ o \in Threads /\ o # w /\ Other(o) = w /\ \A x \in Threads : x = w \/ x = o
  BY OtherThread
<1>3. SamePhase /\ out' = out /\ pc' = pc
  BY DEF Notify, SamePhase, stepVars
<1>4. FlightIsCurrent'
  <2> SUFFICES ASSUME NEW x \in Threads, NEW k \in DOMAIN flight'[x], k \notin raced'
               PROVE  flight'[x][k] = store'[k] /\ k \notin DOMAIN flight'[Other(x)]
    BY DEF FlightIsCurrent
  <2>1. x = o
    BY <1>1, <1>2
  <2>2. flight[o][k] = store[k]
    BY <1>1, <1>2, <2>1 DEF FeedInv, FlightIsCurrent
  <2> QED BY <1>1, <1>2, <2>1, <2>2
<1>5. \A k \in AllKeys : Flying(k) => k \in DOMAIN f \/ Flying(k)'
  BY <1>1, <1>2 DEF Flying
<1>6. DOMAIN changes \subseteq AllKeys /\ DOMAIN f \subseteq AllKeys /\ DOMAIN out \subseteq AllKeys
  <2>1. f \in Change /\ changes \in Change /\ out \in Change
    BY TypedStore DEF StoreTyped, TypeOK
  <2> QED BY <2>1, ChangeElim
<1>7. FeedIsCurrent'
  <2> SUFFICES ASSUME NEW k \in DOMAIN changes', k \notin raced
               PROVE  changes'[k] = store[k] \/ Flying(k)'
    BY <1>1 DEF FeedIsCurrent
  <2>1. CASE k \in DOMAIN f
    <3>1. f[k] = store[k]
      BY <2>1 DEF FeedInv, FlightIsCurrent
    <3> QED BY <1>1, <2>1, <3>1
  <2>2. CASE k \notin DOMAIN f
    <3>1. changes'[k] = changes[k] /\ (changes[k] = store[k] \/ Flying(k)) /\ k \in AllKeys
      BY <1>1, <1>6, <2>2 DEF FeedInv, FeedIsCurrent
    <3> QED BY <1>5, <2>2, <3>1
  <2> QED BY <2>1, <2>2
<1>8. OutIsCurrent'
  <2> SUFFICES ASSUME pc = "write", NEW k \in DOMAIN out, k \notin raced
               PROVE  k \in DOMAIN changes' \/ Flying(k)' \/ out[k] = store[k]
    BY <1>1, <1>3 DEF OutIsCurrent
  <2>1. k \in DOMAIN changes \/ Flying(k) \/ out[k] = store[k]
    BY DEF FeedInv, OutIsCurrent
  <2> QED BY <1>1, <1>5, <1>6, <2>1
<1>9. \A k \in AllKeys \ raced' :
          Awaited(k)' \/ (store'[k] = store[k] /\ k \notin raced /\ ~Awaited(k))
  BY <1>1, <1>5 DEF Awaited
<1> QED BY <1>3, <1>4, <1>7, <1>8, <1>9 DEF Grows, FeedInv

\* What a peer lacks stays awaited while its copy does not change.
LEMMA StillWillKnow ==
    ASSUME Grows, SamePhase, NEW known, WillKnow(known)
    PROVE  \A k \in AllKeys \ raced' :
              known[k] = store'[k] \/ Awaited(k)' \/ (pc' = "write" /\ k \in DOMAIN out')
BY DEF Grows, SamePhase, WillKnow, Awaited

\* Every action is one of seven kinds, as far as the hardware is concerned.
LEMMA HalKinds ==
    ASSUME TypeOK, [Next]_vars
    PROVE  \/ SamePhase /\ Idles
           \/ SamePhase /\ Writes
           \/ Notifies
           \/ \E dt \in Steps : TickClock(dt)
           \/ ApplySensor
           \/ Flush
           \/ WriteOut
<1> USE DEF storeVars, stepVars, metaVars, queueVars, behaviorVars, peerVars
<1>0. "step" \in Threads /\ "host" \in Threads
  BY DEF Threads
<1>1. ASSUME NEW c \in Readings, HalReport(c) PROVE SamePhase /\ Idles
  BY <1>1 DEF HalReport, SamePhase, Idles
<1>2. ASSUME NEW d \in Descriptions, HalDescribe(d) PROVE SamePhase /\ Idles
  BY <1>2 DEF HalDescribe, SamePhase, Idles
<1>3. ASSUME NEW s \in Senders, NEW op \in Commands, SendCommand(s, op)
      PROVE  SamePhase /\ Idles
  BY <1>3 DEF SendCommand, SamePhase, Idles
<1>4. ASSUME NEW e \in Endpoints, NEW op \in Notices, SendNotice(e, op)
      PROVE  SamePhase /\ Idles
  BY <1>4 DEF SendNotice, SamePhase, Idles
<1>5. ASSUME NEW c \in HostWrites, HostWrite(c) PROVE SamePhase /\ Writes
  BY <1>0, <1>5, InputTypes DEF HostWrite, SamePhase, Writes
<1>6. ASSUME NEW k \in Keys, NEW m \in HostMetas, HostDescribe(k, m)
      PROVE  SamePhase /\ Idles
  BY <1>6 DEF HostDescribe, SamePhase, Idles
<1>7. ASSUME BufferReading \/ BufferEvent \/ SweepNow PROVE SamePhase /\ Idles
  BY <1>7 DEF BufferReading, BufferEvent, SweepNow, SamePhase, Idles
<1>8. ASSUME ReadHalKeys \/ StateHalKeys PROVE SamePhase /\ Idles
  BY <1>8 DEF ReadHalKeys, StateHalKeys, SamePhase, Idles
<1>9. ASSUME ApplyGet \/ ApplyList \/ ApplyDataRequested \/ ApplyDeviceInfo
      PROVE  SamePhase /\ Idles
  BY <1>9 DEF ApplyGet, ApplyList, ApplyDataRequested, ApplyDeviceInfo,
              EventFrame, SamePhase, Idles
<1>10. ASSUME NextEvent PROVE Head(events) \in Event
  BY <1>10 DEF NextEvent, TypeOK
<1>11. CASE ApplyUpdate
  <2>1. SamePhase /\ UNCHANGED <<stepVars, halKnows>>
    BY <1>11 DEF ApplyUpdate, EventFrame, SamePhase
  <2>2. Head(events).op.change \in Change
    BY <1>10, <1>11, EventTypes DEF ApplyUpdate
  <2>3. CASE Accepted(Head(events).op.change)
    BY <1>0, <1>11, <2>1, <2>2, <2>3 DEF ApplyUpdate, Writes
  <2>4. CASE ~Accepted(Head(events).op.change)
    BY <1>11, <2>1, <2>4 DEF ApplyUpdate, Idles
  <2> QED BY <2>3, <2>4
<1>12. CASE ApplyCall
  <2>1. SamePhase /\ UNCHANGED <<stepVars, halKnows>>
    BY <1>12 DEF ApplyCall, EventFrame, SamePhase
  <2>2. Head(events).op.writes \in Change
    BY <1>10, <1>12, EventTypes DEF ApplyCall
  <2> QED BY <1>0, <1>12, <2>1, <2>2 DEF ApplyCall, Writes
<1>13. ASSUME NEW c \in BehaviorWrites, TickBehavior(c)
       PROVE  SamePhase /\ Writes
  BY <1>0, <1>13, InputTypes DEF TickBehavior, BehaviorFrame, SamePhase, Writes
<1>14. ASSUME NoBehavior PROVE SamePhase /\ Idles
  BY <1>14 DEF NoBehavior, BehaviorFrame, SamePhase, Idles
<1>15. ASSUME UNCHANGED vars PROVE SamePhase /\ Idles
  BY <1>15 DEF vars, SamePhase, Idles
<1>16. ASSUME Notify("step") \/ Notify("host") PROVE Notifies
  BY <1>0, <1>16 DEF Notifies
<1> QED BY <1>1, <1>2, <1>3, <1>4, <1>5, <1>6, <1>7, <1>8, <1>9, <1>11, <1>12,
           <1>13, <1>14, <1>15, <1>16
     DEF Next, Environment, Step

\* The clock's change is a change.
LEMMA ClockChange ==
    ASSUME TypeOK, NEW dt \in Steps, TickClock(dt)
    PROVE  \E c \in Change : Write("step", c)
<1>1. time' \in 0..ClockMax
  BY AdvanceType DEF TickClock, TypeOK
<1>2. [k \in {Clock} |-> time'] \in [{Clock} -> Val]
  BY <1>1 DEF Val
<1>3. [k \in {Clock} |-> time'] \in Change
  BY <1>2, ChangeIntro DEF AllKeys
<1> QED BY <1>3 DEF TickClock

\* Every kind of step but the flush and the sending grows.
LEMMA KindsGrow ==
    ASSUME TypeOK, FeedInv,
           \/ SamePhase /\ Idles
           \/ SamePhase /\ Writes
           \/ Notifies
           \/ \E dt \in Steps : TickClock(dt)
           \/ ApplySensor
    PROVE  Grows /\ SamePhase
<1> USE DEF storeVars, stepVars
<1>0. "step" \in Threads
  BY DEF Threads
<1>1. CASE SamePhase /\ Idles
  BY <1>1 DEF SamePhase, Idles, Grows, FeedInv, FlightIsCurrent, FeedIsCurrent,
              OutIsCurrent, Awaited, Flying
<1>2. CASE SamePhase /\ Writes
  <2>1. PICK w \in Threads, c \in Change : Write(w, c)
    BY <1>2 DEF Writes
  <2>2. SamePhase /\ out' = out
    BY <1>2 DEF Writes
  <2> QED BY <2>1, <2>2, WriteGrows
<1>3. CASE Notifies
  BY <1>3, NotifyGrows DEF Notifies
<1>4. ASSUME NEW dt \in Steps, TickClock(dt) PROVE Grows /\ SamePhase
  <2>1. PICK c \in Change : Write("step", c)
    BY <1>4, ClockChange
  <2>2. SamePhase /\ out' = out
    BY <1>4 DEF TickClock, SamePhase
  <2> QED BY <1>0, <2>1, <2>2, WriteGrows
<1>5. CASE ApplySensor
  <2>1. Head(sensors) \in Change /\ Write("step", Head(sensors))
    BY <1>5 DEF ApplySensor, TypeOK
  <2>2. SamePhase /\ out' = out
    BY <1>5 DEF ApplySensor, SamePhase
  <2> QED BY <1>0, <2>1, <2>2, WriteGrows
<1> QED BY <1>1, <1>2, <1>3, <1>4, <1>5

\* The flush and the sending keep the feed's invariant.
LEMMA FeedNext == TypeOK /\ FeedInv /\ [Next]_vars => FeedInv'
<1> SUFFICES ASSUME TypeOK, FeedInv, [Next]_vars PROVE FeedInv'
  OBVIOUS
<1>1. CASE Flush
  <2>1. /\ out' = changes /\ DOMAIN changes' = {}
        /\ UNCHANGED <<store, flight, raced>>
    BY <1>1, NoChangeType DEF Flush
  <2> QED BY <2>1 DEF FeedInv, FlightIsCurrent, FeedIsCurrent, OutIsCurrent, Flying
<1>2. CASE WriteOut
  BY <1>2 DEF WriteOut, storeVars, FeedInv, FlightIsCurrent, FeedIsCurrent, OutIsCurrent, Flying
<1> QED BY <1>1, <1>2, HalKinds, KindsGrow DEF Grows

LEMMA HalNext == TypeOK /\ HalInv /\ [Next]_vars => HalInv'
<1> SUFFICES ASSUME TypeOK, HalInv, [Next]_vars PROVE HalInv'
  OBVIOUS
<1> USE DEF storeVars, stepVars
<1>0. /\ FeedInv /\ FeedInv' /\ ReadingsKnown /\ WillKnow(halKnows)
      /\ halKnows \in [AllKeys -> Val]
  BY FeedNext DEF HalInv, TypeOK
<1>1. ASSUME Grows, SamePhase, halKnows' = halKnows, ReadingsKnown' PROVE HalInv'
  <2>1. WillKnow(halKnows)'
    BY <1>0, <1>1, StillWillKnow DEF WillKnow, Awaited
  <2> QED BY <1>0, <1>1, <2>1 DEF HalInv
<1>2. CASE (SamePhase /\ Idles) \/ (SamePhase /\ Writes) \/ Notifies
  <2>1. UNCHANGED <<stepVars, halKnows>>
    BY <1>2 DEF Idles, Writes, Notifies, Notify
  <2>2. ReadingsKnown'
    BY <1>0, <2>1 DEF ReadingsKnown
  <2> QED BY <1>0, <1>1, <1>2, <2>1, <2>2, KindsGrow
<1>3. ASSUME NEW dt \in Steps, TickClock(dt) PROVE HalInv'
  <2>1. halKnows' = halKnows /\ ReadingsKnown'
    BY <1>3, NoChangeType DEF TickClock, ReadingsKnown
  <2> QED BY <1>0, <1>1, <1>3, <2>1, KindsGrow
<1>4. CASE ApplySensor
  <2> PICK c : c = Head(sensors)
    OBVIOUS
  <2>1. c \in Change /\ Write("step", c)
    BY <1>4 DEF ApplySensor, TypeOK
  <2>2. Grows /\ SamePhase
    BY <1>0, <1>4, KindsGrow
  <2>3. DOMAIN c \subseteq AllKeys /\ DOMAIN sensorApplied \subseteq AllKeys
    BY <2>1, ChangeElim DEF TypeOK
  <2>4. \A k \in DOMAIN c : store'[k] = c[k]
    <3>1. "step" \in Threads
      BY DEF Threads
    <3> QED BY <2>1, <2>3, <3>1, WriteStep, TypedStore
  <2>5. /\ halKnows' = [k \in AllKeys |->
                          IF k \in DOMAIN c THEN c[k] ELSE halKnows[k]]
        /\ sensorApplied' = [k \in DOMAIN sensorApplied \cup DOMAIN c |->
                               IF k \in DOMAIN c THEN c[k]
                                                 ELSE sensorApplied[k]]
    BY <1>0, <1>4 DEF ApplySensor, Apply, Merge
  <2>6. ReadingsKnown'
    BY <1>0, <2>3, <2>5 DEF ReadingsKnown
  <2>7. WillKnow(halKnows)'
    <3> SUFFICES ASSUME NEW k \in AllKeys \ raced'
                 PROVE  halKnows'[k] = store'[k] \/ Awaited(k)' \/ (pc' = "write" /\ k \in DOMAIN out')
      BY DEF WillKnow, Awaited
    <3>1. CASE k \in DOMAIN c
      BY <2>4, <2>5, <3>1
    <3>2. CASE k \notin DOMAIN c
      <4>1. halKnows'[k] = halKnows[k]
        BY <2>5, <3>2
      <4> QED BY <1>0, <2>2, <4>1, StillWillKnow
    <3> QED BY <3>1, <3>2
  <2> QED BY <1>0, <2>6, <2>7 DEF HalInv
<1>5. CASE Flush
  <2>1. ReadingsKnown'
    BY <1>0, <1>5 DEF Flush, ReadingsKnown
  <2>2. WillKnow(halKnows)'
    BY <1>0, <1>5 DEF Flush, WillKnow, Flying
  <2> QED BY <1>0, <2>1, <2>2 DEF HalInv
<1>6. CASE WriteOut
  <2>1. ReadingsKnown'
    BY <1>6, NoChangeType DEF WriteOut, ReadingsKnown
  <2>2. /\ UNCHANGED <<store, changes, raced, flight>>
        /\ halKnows' = [x \in AllKeys |-> IF x \in DOMAIN ForHal THEN ForHal[x]
                                                                ELSE halKnows[x]]
    BY <1>0, <1>6 DEF WriteOut, Apply
  <2>3. WillKnow(halKnows)'
    <3> SUFFICES ASSUME NEW k \in AllKeys, k \notin raced, ~Awaited(k)
                 PROVE  halKnows'[k] = store[k]
      BY <2>2 DEF WillKnow, Awaited, Flying
    <3>1. k \in DOMAIN out => out[k] = store[k]
      BY <1>0, <1>6 DEF WriteOut, FeedInv, OutIsCurrent, Awaited
    <3>2. CASE k \in DOMAIN ForHal
      BY <2>2, <3>1, <3>2 DEF ForHal
    <3>3. CASE k \in DOMAIN out \ DOMAIN ForHal
      <4>1. k \in DOMAIN sensorApplied /\ sensorApplied[k] = out[k]
        BY <3>3 DEF ForHal
      <4>2. halKnows[k] = sensorApplied[k]
        BY <1>0, <4>1 DEF ReadingsKnown
      <4> QED BY <2>2, <3>1, <3>3, <4>1, <4>2
    <3>4. CASE k \notin DOMAIN out
      <4>1. k \notin DOMAIN ForHal
        BY <3>4 DEF ForHal
      <4>2. halKnows[k] = store[k]
        BY <1>0, <3>4 DEF WillKnow, Awaited
      <4> QED BY <2>2, <4>1, <4>2
    <3> QED BY <3>2, <3>3, <3>4
  <2> QED BY <1>0, <2>1, <2>3 DEF HalInv
<1> QED BY <1>2, <1>3, <1>4, <1>5, <1>6, HalKinds

LEMMA HalInit == Init => HalInv
<1> SUFFICES ASSUME Init PROVE HalInv
  OBVIOUS
<1>1. PICK c \in HostWrites \cup {NoChange} :
           store = Apply([k \in AllKeys |-> Absent], c) /\ changes = c
  BY DEF Init
<1>2. c \in Change
  BY <1>1, NoChangeType, InputTypes
<1>3. DOMAIN c \subseteq AllKeys
  BY <1>2, ChangeElim
<1>4. store = [k \in AllKeys |-> IF k \in DOMAIN c THEN c[k] ELSE Absent]
  BY <1>1 DEF Apply
<1>5. FeedIsCurrent
  BY <1>1, <1>3, <1>4 DEF FeedIsCurrent
<1>6. WillKnow(halKnows)
  BY <1>1, <1>4 DEF Init, WillKnow
<1>7. OutIsCurrent /\ ReadingsKnown
  BY NoChangeType DEF Init, OutIsCurrent, ReadingsKnown
<1>8. FlightIsCurrent
  BY NoChangeType DEF Init, FlightIsCurrent
<1> QED BY <1>5, <1>6, <1>7, <1>8 DEF HalInv, FeedInv

\* What is awaited is arriving, where the threads did not cross.
LEMMA AwaitedArrives ==
    ASSUME FeedInv, NEW k \in AllKeys \ raced, Awaited(k)
    PROVE  Arriving(k)
BY DEF FeedInv, FlightIsCurrent, FeedIsCurrent, Awaited, Flying, Arriving

\* Between steps the hardware knows the store's value of every key the two
\* threads did not cross on, or is about to be sent it: suppressing its own
\* readings (write_hal) never leaves it behind another writer.  The readings of
\* a step are what it knows (ReadingsKnown), and what it lacks is stored and not
\* notified, in the feed or going out (WillKnow).
THEOREM HardwareInformed == Spec => []HalInformed
<1>1. HalInv => HalInformed
  BY AwaitedArrives DEF HalInv, WillKnow, HalInformed, UpToDate, Awaited
<1> QED BY <1>1, HalInit, HalNext, RuntimeTypeCorrect, PTL DEF Spec

\* As far as endpoint e is concerned: a step that leaves its copy alone, or
\* one that answers it, or one that sends.
LEMMA MirrorNext == TypeOK /\ MirrorInv /\ [Next]_vars => MirrorInv'
<1> SUFFICES ASSUME TypeOK, MirrorInv, [Next]_vars PROVE MirrorInv'
  OBVIOUS
<1> USE DEF storeVars, stepVars
<1>0. /\ FeedInv /\ FeedInv'
      /\ mirror \in [Endpoints -> [AllKeys -> Val]]
      /\ synced \in [Endpoints -> BOOLEAN]
      /\ asked \in [Endpoints -> BOOLEAN]
  BY FeedNext DEF MirrorInv, TypeOK
<1> DEFINE Keeps == UNCHANGED <<mirror, synced, asked>>
<1>1. ASSUME Grows, SamePhase, NEW known, WillKnow(known), NEW e \in Endpoints, mirror'[e] = known
      PROVE  WillKnow(mirror[e])'
  BY <1>1, StillWillKnow DEF WillKnow, Awaited
<1>2. ASSUME Grows, SamePhase, Keeps PROVE MirrorInv'
  <2>1. ASSUME NEW e \in Endpoints, synced[e] PROVE asked[e] /\ WillKnow(mirror[e])'
    BY <1>1, <1>2, <2>1 DEF MirrorInv
  <2> QED BY <1>0, <1>2, <2>1 DEF MirrorInv
<1>3. CASE ApplyGet
  <2>1. SamePhase /\ Idles
    BY <1>3 DEF ApplyGet, EventFrame, SamePhase, Idles
  <2>2. Grows
    BY <1>0, <2>1, KindsGrow
  <2>3. ASSUME NEW e \in Endpoints, synced'[e]
        PROVE  asked'[e] /\ WillKnow(mirror[e])'
    <3>1. asked' = asked /\ store' = store /\ changes' = changes /\ out' = out
      BY <1>3, <2>1 DEF ApplyGet, Idles
    <3>2. CASE e = Head(events).from
      <4>1. mirror'[e] = store /\ asked[e]
        BY <1>0, <1>3, <2>3, <3>2 DEF ApplyGet
      <4> QED BY <3>1, <4>1 DEF WillKnow
    <3>3. CASE e # Head(events).from
      <4>1. mirror'[e] = mirror[e] /\ synced[e]
        BY <1>0, <1>3, <2>3, <3>3 DEF ApplyGet
      <4>2. asked[e] /\ WillKnow(mirror[e])
        BY <4>1 DEF MirrorInv
      <4> QED BY <1>1, <2>1, <2>2, <3>1, <4>1, <4>2
    <3> QED BY <3>2, <3>3
  <2> QED BY <1>0, <2>3 DEF MirrorInv
<1>4. CASE ApplyDataRequested
  <2>1. SamePhase /\ Idles
    BY <1>4 DEF ApplyDataRequested, EventFrame, SamePhase, Idles
  <2>2. Grows
    BY <1>0, <2>1, KindsGrow
  <2>3. ASSUME NEW e \in Endpoints, synced'[e]
        PROVE  asked'[e] /\ WillKnow(mirror[e])'
    <3>1. mirror' = mirror
      BY <1>4 DEF ApplyDataRequested
    <3>2. synced[e] /\ (e = Head(events).from => Head(events).op.on)
      BY <1>0, <1>4, <2>3 DEF ApplyDataRequested
    <3>3. asked'[e]
      BY <1>0, <1>4, <3>2 DEF ApplyDataRequested, MirrorInv
    <3>4. WillKnow(mirror[e])
      BY <3>2 DEF MirrorInv
    <3> QED BY <1>1, <2>1, <2>2, <3>1, <3>3, <3>4
  <2> QED BY <1>0, <2>3 DEF MirrorInv
<1>5. CASE Flush
  <2>1. Keeps
    BY <1>5 DEF Flush, peerVars
  <2>2. ASSUME NEW e \in Endpoints, synced[e] PROVE WillKnow(mirror[e])'
    BY <1>5, <2>1, <2>2 DEF Flush, MirrorInv, WillKnow, Flying
  <2> QED BY <1>0, <2>1, <2>2 DEF MirrorInv
<1>6. CASE WriteOut
  <2>1. synced' = synced /\ asked' = asked /\ UNCHANGED <<store, changes, raced, flight>>
    BY <1>6 DEF WriteOut
  <2>2. ASSUME NEW e \in Endpoints, synced[e] PROVE WillKnow(mirror[e])'
    <3> SUFFICES ASSUME NEW k \in AllKeys, k \notin raced, ~Awaited(k)
                 PROVE  mirror'[e][k] = store[k]
      BY <2>1 DEF WillKnow, Awaited, Flying
    <3>1. asked[e]
      BY <2>2 DEF MirrorInv
    <3>2. mirror'[e] = [x \in AllKeys |-> IF x \in DOMAIN out THEN out[x]
                                                      ELSE mirror[e][x]]
      BY <1>0, <1>6, <3>1 DEF WriteOut, Apply
    <3>3. CASE k \in DOMAIN out
      BY <1>0, <1>6, <3>2, <3>3 DEF WriteOut, FeedInv, OutIsCurrent, Awaited
    <3>4. CASE k \notin DOMAIN out
      <4>1. mirror[e][k] = store[k]
        BY <2>2, <3>4 DEF MirrorInv, WillKnow, Awaited
      <4> QED BY <3>2, <3>4, <4>1
    <3> QED BY <3>3, <3>4
  <2> QED BY <1>0, <2>1, <2>2 DEF MirrorInv
<1>7. ~(ApplyGet \/ ApplyDataRequested \/ WriteOut) => Keeps
  BY DEF Next, Environment, Step, vars, metaVars, queueVars, behaviorVars,
         peerVars, HalReport, HalDescribe, SendCommand, SendNotice, HostWrite,
         HostDescribe, BufferReading, BufferEvent, SweepNow, ReadHalKeys,
         StateHalKeys, Notify, TickClock, ApplySensor, ApplyUpdate, ApplyCall,
         ApplyList, ApplyDeviceInfo, TickBehavior, NoBehavior, BehaviorFrame,
         Flush
<1> QED BY <1>0, <1>2, <1>3, <1>4, <1>5, <1>6, <1>7, HalKinds, KindsGrow

LEMMA MirrorInit == Init => MirrorInv
<1> SUFFICES ASSUME Init PROVE MirrorInv
  OBVIOUS
<1>1. FeedInv
  BY HalInit DEF HalInv
<1> QED BY <1>1 DEF Init, MirrorInv

\* An endpoint that asked and then read the keys stays in sync with the store
\* from what it is sent, for any endpoints and any interleaving of the writers,
\* on the keys their threads did not cross on.
THEOREM EndpointsInSync == Spec => []MirrorsInSync
<1>1. MirrorInv => MirrorsInSync
  BY AwaitedArrives DEF MirrorInv, WillKnow, MirrorsInSync, UpToDate, Awaited
<1> QED BY <1>1, MirrorInit, MirrorNext, RuntimeTypeCorrect, PTL DEF Spec

------------------------------------------------------------------------------
(* Who states what a key is *)

LEMMA MetaNext ==
    ASSUME HalMetas \cap HostMetas = {}, TypeOK, MetaInv, [Next]_vars
    PROVE  MetaInv'
<1>0. /\ halKeys \in Seq(Descriptions)
      /\ stated \in [AllKeys -> HalMetas \cup {NoMeta}]
      /\ hostMeta \in [AllKeys -> HostMetas \cup {NoMeta}]
      /\ meta \in [AllKeys -> KeyMeta \cup {NoMeta}]
      /\ DOMAIN describing \subseteq AllKeys
      /\ describing \in [DOMAIN describing -> HalMetas]
      /\ NoMeta \notin HostMetas
  BY RuntimeAssumption DEF MetaInv, TypeOK
<1>1. ASSUME NEW d \in Descriptions, HalDescribe(d) PROVE MetaInv'
  BY <1>0, <1>1 DEF HalDescribe, MetaInv, HostMetaKept
<1>2. ASSUME NEW k \in Keys, NEW m \in HostMetas, HostDescribe(k, m)
      PROVE  MetaInv'
  <2>1. k \in AllKeys
    BY DEF AllKeys
  <2>2. /\ meta' = [meta EXCEPT ![k] = m]
        /\ hostMeta' = [hostMeta EXCEPT ![k] = m]
        /\ UNCHANGED <<halKeys, stated, describing>>
        /\ crossed' = IF k \in DOMAIN describing THEN crossed \cup {k} ELSE crossed \ {k}
    BY <1>2 DEF HostDescribe
  <2>3. HostMetaKept'
    BY <1>0, <2>1, <2>2 DEF MetaInv, HostMetaKept
  <2>4. \A x \in DOMAIN describing \ crossed' : hostMeta'[x] = NoMeta
    BY <1>0, <2>1, <2>2 DEF MetaInv
  <2> QED BY <1>0, <2>1, <2>2, <2>3, <2>4 DEF MetaInv
<1>3. CASE ReadHalKeys
  <2> PICK d : d = Head(halKeys)
    OBVIOUS
  <2> DEFINE mine == {k \in DOMAIN d : meta[k] = NoMeta \/ meta[k] = stated[k]}
             kept == [k \in mine |-> d[k]]
  <2>1. d \in Descriptions /\ halKeys' \in Seq(Descriptions)
    BY <1>0, <1>3 DEF ReadHalKeys
  <2>2. describing' = kept /\ UNCHANGED <<meta, stated, hostMeta, crossed>>
    BY <1>3 DEF ReadHalKeys
  <2>3. \A k \in mine : d[k] \in HalMetas
    BY <2>1 DEF HalMetas
  <2>4. DOMAIN d \subseteq AllKeys
    BY <2>1, RuntimeAssumption DEF Description
  <2>5. describing' \in UNION {[D -> HalMetas] : D \in SUBSET AllKeys}
    <3>1. mine \in SUBSET AllKeys /\ kept \in [mine -> HalMetas]
      BY <2>3, <2>4
    <3> HIDE DEF mine, kept
    <3> QED BY <2>2, <3>1
  <2>6. ASSUME NEW k \in mine, k \notin crossed PROVE hostMeta[k] = NoMeta
    <3> SUFFICES ASSUME hostMeta[k] # NoMeta PROVE FALSE
      OBVIOUS
    <3>1. meta[k] = hostMeta[k] /\ hostMeta[k] \in HostMetas
      BY <1>0, <2>4, <2>6 DEF MetaInv, HostMetaKept
    <3>2. stated[k] # meta[k]
      BY <1>0, <2>4, <2>6, <3>1
    <3> QED BY <2>6, <3>1, <3>2
  <2>7. DOMAIN describing' = mine
    BY <2>2
  <2> HIDE DEF mine, kept
  <2> QED BY <1>0, <2>1, <2>2, <2>5, <2>6, <2>7 DEF MetaInv, HostMetaKept
<1>4. CASE StateHalKeys
  <2>1. /\ meta' = State(meta, describing) /\ stated' = State(stated, describing)
        /\ describing' = NoStatement /\ UNCHANGED <<hostMeta, crossed, halKeys>>
    BY <1>4 DEF StateHalKeys
  <2>2. stated' \in [AllKeys -> HalMetas \cup {NoMeta}]
    BY <1>0, <2>1 DEF State
  <2>3. HostMetaKept'
    BY <1>0, <2>1 DEF MetaInv, HostMetaKept, State
  <2>4. DOMAIN NoStatement = {} /\ NoStatement \in [{} -> HalMetas]
    BY DEF NoStatement
  <2>5. describing' \in UNION {[D -> HalMetas] : D \in SUBSET AllKeys}
    BY <2>1, <2>4
  <2> QED BY <1>0, <2>1, <2>2, <2>3, <2>4, <2>5 DEF MetaInv
<1>5. ASSUME UNCHANGED <<halKeys, meta, stated, hostMeta, describing, crossed>> PROVE MetaInv'
  BY <1>5 DEF MetaInv, HostMetaKept
<1> QED BY <1>1, <1>2, <1>3, <1>4, <1>5
    DEF Next, Environment, Step, vars, storeVars, stepVars, metaVars, queueVars,
        behaviorVars, peerVars, HalReport, SendCommand, SendNotice, HostWrite,
        Notify, BufferReading, BufferEvent, SweepNow, TickClock, ApplySensor,
        ApplyGet, ApplyUpdate, ApplyCall, ApplyList, ApplyDataRequested,
        ApplyDeviceInfo, EventFrame, TickBehavior, NoBehavior, BehaviorFrame,
        Flush, WriteOut

\* As long as no HAL description says of a key exactly what the host says,
\* what the host states of a key is never replaced by the HAL
\* (describe_hal_keys, which tells the two apart by value), unless the host
\* spoke while the device held a description of the key read before.
THEOREM HostStatementsKept ==
    ASSUME HalMetas \cap HostMetas = {}
    PROVE  Spec => []HostMetaKept
<1>1. Init => MetaInv
  <2>1. NoStatement \in [{} -> HalMetas] /\ DOMAIN NoStatement = {}
    BY DEF NoStatement
  <2>2. NoStatement \in UNION {[D -> HalMetas] : D \in SUBSET AllKeys}
    BY <2>1
  <2> SUFFICES ASSUME Init PROVE MetaInv
    OBVIOUS
  <2>3. describing = NoStatement /\ halKeys = <<>>
    BY DEF Init
  <2>4. /\ stated \in [AllKeys -> HalMetas \cup {NoMeta}]
        /\ hostMeta \in [AllKeys -> HostMetas \cup {NoMeta}]
        /\ \A k \in AllKeys : hostMeta[k] = NoMeta
    BY DEF Init
  <2>5. HostMetaKept
    BY <2>4 DEF HostMetaKept
  <2> QED BY <2>1, <2>2, <2>3, <2>4, <2>5 DEF MetaInv
<1>2. TypeOK /\ MetaInv /\ [Next]_vars => MetaInv'
  BY MetaNext
<1>3. MetaInv => HostMetaKept
  BY DEF MetaInv
<1> QED BY <1>1, <1>2, <1>3, RuntimeTypeCorrect, PTL DEF Spec

------------------------------------------------------------------------------
(* The clock *)

\* Nobody but the device's own clock writes it: the subtree is closed, the HAL
\* does not describe it, and neither the device's writers nor the host write it.
ClockOwned ==
    /\ SubtreeMeta[Clock] # NoMeta => ~SubtreeMeta[Clock].editable
    /\ \A d \in Descriptions : Clock \notin DOMAIN d
    /\ \A c \in Readings \cup CallWrites \cup BehaviorWrites \cup HostWrites :
          Clock \notin DOMAIN c

\* The HAL's queues hold what the HAL may send.
HalSends ==
    halFeed \in Seq(Readings) /\ sensors \in Seq(Readings) /\ halKeys \in Seq(Descriptions)

\* What the store holds of the clock is the clock, and nobody stated the key.
ClockInv ==
    /\ HalSends
    /\ store[Clock] # Absent => store[Clock] = time
    /\ meta[Clock] = NoMeta /\ Clock \notin DOMAIN describing

\* The HAL's queues stay its own.
LEMMA HalSendsNext ==
    ASSUME HalSends, [Next]_vars
    PROVE  HalSends'
<1> USE DEF HalSends
<1>1. ASSUME NEW c \in Readings, HalReport(c)  PROVE HalSends'
  BY <1>1 DEF HalReport
<1>2. ASSUME NEW d \in Descriptions, HalDescribe(d)  PROVE HalSends'
  BY <1>2 DEF HalDescribe, queueVars
<1>3. CASE BufferReading
  BY <1>3 DEF BufferReading
<1>4. CASE SweepNow
  BY <1>4 DEF SweepNow
<1>5. CASE ReadHalKeys
  BY <1>5 DEF ReadHalKeys, queueVars
<1>6. CASE ApplySensor
  BY <1>6 DEF ApplySensor
<1>7. ASSUME UNCHANGED <<halFeed, sensors, halKeys>>  PROVE HalSends'
  BY <1>7
<1> QED BY <1>1, <1>2, <1>3, <1>4, <1>5, <1>6, <1>7
    DEF Next, Environment, Step, vars, queueVars, SendCommand, SendNotice, HostWrite,
        Notify, HostDescribe, BufferEvent, StateHalKeys, TickClock, ApplyGet, ApplyUpdate,
        ApplyCall, ApplyList, ApplyDataRequested, ApplyDeviceInfo, EventFrame, TickBehavior,
        NoBehavior, BehaviorFrame, Flush, WriteOut

\* A write that does not name the clock leaves it.
LEMMA ClockUntouched ==
    ASSUME TypeOK, NEW w, NEW c, Write(w, c), Clock \notin DOMAIN c
    PROVE  store'[Clock] = store[Clock]
BY DEF Write, Apply, TypeOK, AllKeys

\* Every step leaves the stored clock, or publishes the advanced one.
LEMMA ClockSteps ==
    ASSUME ClockOwned, TypeOK, ClockInv, [Next]_vars
    PROVE  \/ store'[Clock] = store[Clock] /\ time' = time
           \/ store'[Clock] = time' /\ time' \in 0..ClockMax /\ time' >= time
<1> DEFINE Stays == store'[Clock] = store[Clock] /\ time' = time
<1>1. ASSUME NEW dt \in Steps, TickClock(dt)
      PROVE  store'[Clock] = time' /\ time' \in 0..ClockMax /\ time' >= time
  <2>1. time' \in 0..ClockMax /\ time' >= time
    BY <1>1, AdvanceType DEF TickClock, TypeOK
  <2>2. store' = Apply(store, [k \in {Clock} |-> time'])
    BY <1>1 DEF TickClock, Write
  <2> QED BY <2>1, <2>2 DEF Apply, TypeOK, AllKeys
<1>2. ASSUME NEW w, NEW c \in Readings \cup CallWrites \cup BehaviorWrites \cup HostWrites,
             Write(w, c), time' = time
      PROVE  Stays
  BY <1>2, ClockUntouched DEF ClockOwned
<1>3. CASE ApplySensor
  <2>1. Head(sensors) \in Readings /\ Write("step", Head(sensors)) /\ time' = time
    BY <1>3 DEF ApplySensor, ClockInv, HalSends
  <2> QED BY <1>2, <2>1
<1>4. CASE ApplyCall
  <2>1. /\ Head(events) \in Event /\ Head(events).op.kind = "call"
        /\ Write("step", Head(events).op.writes) /\ time' = time
    BY <1>4 DEF ApplyCall, NextEvent, EventFrame, TypeOK
  <2>2. Head(events).op.writes \in CallWrites
    BY <2>1 DEF Event, Commands, Notices
  <2> QED BY <1>2, <2>1, <2>2
<1>5. CASE ApplyUpdate
  <2> PICK c : c = Head(events).op.change
    OBVIOUS
  <2>1. time' = time /\ ((Accepted(c) /\ Write("step", c)) \/ UNCHANGED storeVars)
    BY <1>5 DEF ApplyUpdate, EventFrame
  <2>2. Accepted(c) => Clock \notin DOMAIN c
    BY DEF Accepted, MetaOf, ClockInv, ClockOwned
  <2> QED BY <2>1, <2>2, ClockUntouched DEF storeVars
<1>6. ASSUME \/ \E c \in HostWrites : HostWrite(c)
             \/ \E c \in BehaviorWrites : TickBehavior(c)
      PROVE  Stays
  BY <1>2, <1>6 DEF HostWrite, TickBehavior, BehaviorFrame
<1>7. ASSUME UNCHANGED <<store, time>> PROVE Stays
  BY <1>7
<1> QED BY <1>1, <1>3, <1>4, <1>5, <1>6, <1>7
    DEF Next, Environment, Step, vars, storeVars, HalReport, HalDescribe, SendCommand,
        SendNotice, Notify, HostDescribe, BufferReading, BufferEvent, SweepNow,
        ReadHalKeys, StateHalKeys, ApplyGet, ApplyList, ApplyDataRequested,
        ApplyDeviceInfo, EventFrame, NoBehavior, BehaviorFrame, Flush, WriteOut

\* Nobody ever states the clock's own key.
LEMMA ClockUnstated ==
    ASSUME ClockOwned, TypeOK, ClockInv, [Next]_vars
    PROVE  meta'[Clock] = NoMeta /\ Clock \notin DOMAIN describing'
<1>0. Clock \in AllKeys /\ meta[Clock] = NoMeta /\ Clock \notin DOMAIN describing
  BY DEF ClockInv, AllKeys
<1>1. CASE ReadHalKeys
  <2>1. Head(halKeys) \in Descriptions
    BY <1>1 DEF ReadHalKeys, ClockInv, HalSends
  <2>2. DOMAIN describing' \subseteq DOMAIN Head(halKeys) /\ meta' = meta
    BY <1>1 DEF ReadHalKeys
  <2> QED BY <1>0, <2>1, <2>2 DEF ClockOwned
<1>2. CASE StateHalKeys
  <2>1. DOMAIN NoStatement = {}
    BY DEF NoStatement
  <2> QED BY <1>0, <1>2, <2>1 DEF StateHalKeys, State
<1>3. ASSUME NEW k \in Keys, NEW m \in HostMetas, HostDescribe(k, m)
      PROVE  meta'[Clock] = NoMeta /\ describing' = describing
  <2>1. k # Clock
    BY RuntimeAssumption
  <2> QED BY <1>0, <1>3, <2>1 DEF HostDescribe, TypeOK
<1>4. ASSUME UNCHANGED <<meta, describing>>
      PROVE  meta'[Clock] = NoMeta /\ Clock \notin DOMAIN describing'
  BY <1>0, <1>4
<1> QED BY <1>0, <1>1, <1>2, <1>3, <1>4
    DEF Next, Environment, Step, vars, metaVars, HalReport, HalDescribe, SendCommand,
        SendNotice, HostWrite, Notify, BufferReading, BufferEvent, SweepNow, TickClock,
        ApplySensor, ApplyGet, ApplyUpdate, ApplyCall, ApplyList, ApplyDataRequested,
        ApplyDeviceInfo, EventFrame, TickBehavior, NoBehavior, BehaviorFrame, Flush, WriteOut

\* One step of the published clock.
ClockStep == store[Clock] # Absent => store'[Clock] # Absent /\ store'[Clock] >= store[Clock]

\* The published clock never goes back nor goes away, whatever dt a driver
\* passes and whatever remotes ask for: it is the accumulator (tick_clock),
\* which saturates, and its closed key refuses every other writer.
THEOREM ClockNeverGoesBack ==
    ASSUME ClockOwned
    PROVE  Spec => ClockForward
<1>1. Init => ClockInv
  <2> SUFFICES ASSUME Init PROVE ClockInv
    OBVIOUS
  <2>1. PICK c \in HostWrites \cup {NoChange} : store = Apply([k \in AllKeys |-> Absent], c)
    BY DEF Init
  <2>2. Clock \notin DOMAIN c
    BY NoChangeType DEF ClockOwned
  <2>3. store[Clock] = Absent
    BY <2>1, <2>2 DEF Apply, AllKeys
  <2>4. meta[Clock] = NoMeta /\ DOMAIN describing = {}
    BY DEF Init, AllKeys, NoStatement
  <2> QED BY <2>3, <2>4 DEF ClockInv, HalSends, Init
<1>2. TypeOK /\ ClockInv /\ [Next]_vars => ClockInv'
  <2> SUFFICES ASSUME TypeOK, ClockInv, [Next]_vars PROVE ClockInv'
    OBVIOUS
  <2>1. HalSends'
    BY HalSendsNext DEF ClockInv
  <2>2. store'[Clock] # Absent => store'[Clock] = time'
    BY ClockSteps DEF ClockInv
  <2> QED BY <2>1, <2>2, ClockUnstated DEF ClockInv
<1>3. TypeOK /\ ClockInv /\ [Next]_vars => [ClockStep]_vars
  <2> SUFFICES ASSUME TypeOK, ClockInv, [Next]_vars, store[Clock] # Absent
               PROVE  store'[Clock] # Absent /\ store'[Clock] >= store[Clock]
    BY DEF ClockStep
  <2>1. store[Clock] = time /\ time \in 0..ClockMax /\ Absent \notin 0..ClockMax
    BY RuntimeAssumption DEF ClockInv, TypeOK
  <2>2. ClockMax \in Nat
    BY RuntimeAssumption
  <2>3. CASE store'[Clock] = store[Clock]
    BY <2>1, <2>2, <2>3
  <2>4. CASE store'[Clock] = time' /\ time' \in 0..ClockMax /\ time' >= time
    BY <2>1, <2>2, <2>4
  <2> QED BY <2>3, <2>4, ClockSteps
<1> QED BY <1>1, <1>2, <1>3, RuntimeTypeCorrect, PTL DEF Spec, ClockForward, ClockStep

------------------------------------------------------------------------------
(* Descriptions before events *)

\* No event was sent after more descriptions than the HAL has sent so far.
ToldBefore(q) == \A i \in 1..Len(q) : q[i].told <= told

DescribedInv == ToldBefore(inbound) /\ ToldBefore(events) /\ DescribedFirst

\* An event of a queue's tail is an event of the queue.
LEMMA TailEvents ==
    ASSUME NEW q \in Seq(Event), q # <<>>
    PROVE  /\ Tail(q) \in Seq(Event)
           /\ \A i \in 1..Len(Tail(q)) : i + 1 \in 1..Len(q) /\ Tail(q)[i] = q[i + 1]
OBVIOUS

LEMMA DescribedNext ==
    ASSUME TypeOK, DescribedInv, [Next]_vars
    PROVE  DescribedInv'
<1>0. /\ inbound \in Seq(Event) /\ events \in Seq(Event)
      /\ halKeys \in Seq(Description)
      /\ told \in Nat /\ Len(halKeys) \in Nat
      /\ ToldBefore(inbound) /\ ToldBefore(events) /\ DescribedFirst
  BY DEF TypeOK, DescribedInv
<1>00. /\ \A i \in 1..Len(inbound) : inbound[i].told \in Nat
       /\ \A i \in 1..Len(events) : events[i].told \in Nat
  BY <1>0, EventTypes
<1> USE DEF storeVars, stepVars, metaVars, queueVars, behaviorVars, peerVars
<1>1. ASSUME NEW d \in Descriptions, HalDescribe(d) PROVE DescribedInv'
  <2>1. /\ told' = told + 1
        /\ inbound' = inbound /\ events' = events /\ pc' = pc
        /\ describing' = describing
    BY <1>1 DEF HalDescribe
  <2>2. Len(halKeys') = Len(halKeys) + 1
    <3>1. d \in Description
      BY RuntimeAssumption
    <3> QED BY <1>0, <1>1, <3>1 DEF HalDescribe
  <2>3. ToldBefore(inbound)' /\ ToldBefore(events)'
    BY <1>0, <1>00, <2>1 DEF ToldBefore
  <2>4. DescribedFirst'
    BY <1>0, <1>00, <2>1, <2>2 DEF DescribedFirst
  <2> QED BY <2>3, <2>4 DEF DescribedInv
<1>2. ASSUME NEW s \in Senders, NEW op, op \in Commands \/ op \in Notices,
             inbound' = Append(inbound, [from |-> s, told |-> told, op |-> op]),
             UNCHANGED <<told, events, halKeys, describing, pc>>
      PROVE  DescribedInv'
  <2> DEFINE ev == [from |-> s, told |-> told, op |-> op]
  <2>1. /\ Len(inbound') = Len(inbound) + 1
        /\ \A i \in 1..Len(inbound') : inbound'[i] = inbound[i] \/ inbound'[i] = ev
        /\ \A i \in 1..Len(inbound') : i # Len(inbound) + 1 =>
              inbound'[i] = inbound[i] /\ i \in 1..Len(inbound)
        /\ inbound'[Len(inbound) + 1] = ev
    BY <1>0, <1>2
  <2>2. ev.told = told
    OBVIOUS
  <2> HIDE DEF ev
  <2>3. ToldBefore(inbound)'
    BY <1>0, <1>2, <2>1, <2>2 DEF ToldBefore
  <2>4. ToldBefore(events)' /\ DescribedFirst'
    BY <1>0, <1>2 DEF ToldBefore, DescribedFirst
  <2> QED BY <2>3, <2>4 DEF DescribedInv
<1>3. CASE BufferEvent
  <2>1. /\ inbound # <<>> /\ told' = told /\ pc' # "apply"
        /\ inbound' = Tail(inbound) /\ events' = Append(events, Head(inbound))
    BY <1>3 DEF BufferEvent
  <2>2. ToldBefore(inbound)'
    BY <1>0, <2>1, TailEvents DEF ToldBefore
  <2>3. Head(inbound) \in Event /\ Head(inbound) = inbound[1] /\ 1 \in 1..Len(inbound)
    BY <1>0, <2>1
  <2>4. ToldBefore(events)'
    <3> SUFFICES ASSUME NEW i \in 1..Len(events') PROVE events'[i].told <= told'
      BY DEF ToldBefore
    <3>1. CASE i = Len(events) + 1
      BY <1>0, <2>1, <2>3, <3>1 DEF ToldBefore
    <3>2. CASE i # Len(events) + 1
      BY <1>0, <2>1, <2>3, <3>2 DEF ToldBefore
    <3> QED BY <3>1, <3>2
  <2> QED BY <2>1, <2>2, <2>4 DEF DescribedInv, DescribedFirst
<1>4. CASE SweepNow
  <2>1. /\ inbound' = <<>> /\ events' = events \o inbound
        /\ told' = told /\ pc' # "apply"
    BY <1>4 DEF SweepNow
  <2>2. ToldBefore(events)'
    <3> SUFFICES ASSUME NEW i \in 1..Len(events') PROVE events'[i].told <= told'
      BY DEF ToldBefore
    <3>1. CASE i <= Len(events)
      BY <1>0, <2>1, <3>1 DEF ToldBefore
    <3>2. CASE i > Len(events)
      <4>1. /\ i - Len(events) \in 1..Len(inbound)
            /\ events'[i] = inbound[i - Len(events)]
        BY <1>0, <2>1, <3>2
      <4> QED BY <1>0, <2>1, <4>1 DEF ToldBefore
    <3> QED BY <1>0, <2>1, <3>1, <3>2
  <2> QED BY <2>1, <2>2 DEF DescribedInv, DescribedFirst, ToldBefore
<1>5. ASSUME ReadHalKeys \/ StateHalKeys PROVE DescribedInv'
  BY <1>0, <1>5 DEF ReadHalKeys, StateHalKeys, DescribedInv, DescribedFirst, ToldBefore
<1>6. ASSUME NEW dt \in Steps, TickClock(dt) PROVE DescribedInv'
  BY <1>0, <1>00, <1>6 DEF TickClock, DescribedInv, DescribedFirst, ToldBefore
<1>7. ASSUME NextEvent, EventFrame PROVE DescribedInv'
  <2>1. /\ events # <<>> /\ events' = Tail(events) /\ inbound' = inbound
        /\ told' = told /\ pc' = pc /\ halKeys' = halKeys
        /\ describing' = describing
    BY <1>7 DEF NextEvent, EventFrame
  <2> QED BY <1>0, <2>1, TailEvents DEF DescribedInv, DescribedFirst, ToldBefore
<1>8. ASSUME UNCHANGED <<inbound, events, halKeys, told, describing>>,
             pc' = pc \/ pc' # "apply"
      PROVE  DescribedInv'
  BY <1>0, <1>8 DEF DescribedInv, DescribedFirst, ToldBefore
<1>9. ASSUME NEW s \in Senders, NEW op \in Commands, SendCommand(s, op)
      PROVE  DescribedInv'
  BY <1>2, <1>9 DEF SendCommand
<1>10. ASSUME NEW e \in Endpoints, NEW op \in Notices, SendNotice(e, op)
       PROVE  DescribedInv'
  BY <1>2, <1>10 DEF SendNotice, Senders
<1>11. ASSUME ApplyGet \/ ApplyUpdate \/ ApplyCall \/ ApplyList
              \/ ApplyDataRequested \/ ApplyDeviceInfo
       PROVE  DescribedInv'
  BY <1>7, <1>11 DEF ApplyGet, ApplyUpdate, ApplyCall, ApplyList,
                     ApplyDataRequested, ApplyDeviceInfo
<1> QED BY <1>1, <1>3, <1>4, <1>5, <1>6, <1>8, <1>9, <1>10, <1>11
    DEF Next, Environment, Step, vars, HalReport, HostWrite, Notify, HostDescribe,
        BufferReading, ApplySensor, TickBehavior, NoBehavior, BehaviorFrame,
        Flush, WriteOut

\* No event is applied before every description the HAL sent ahead of it.
THEOREM DescriptionsFirst == Spec => []DescribedFirst
<1>1. Init => DescribedInv
  BY DEF Init, DescribedInv, DescribedFirst, ToldBefore
<1>2. TypeOK /\ DescribedInv /\ [Next]_vars => DescribedInv'
  BY DescribedNext
<1>3. DescribedInv => DescribedFirst
  BY DEF DescribedInv
<1> QED BY <1>1, <1>2, <1>3, RuntimeTypeCorrect, PTL DEF Spec

------------------------------------------------------------------------------
(* Typed keys *)

\* A value is of type t, or is none.
Fits(v, t) == t = AnyType \/ v = Absent \/ (v \in Values /\ TypeOf[v] = t)

\* The host takes the types off the keys it states.
HostLoosens == \A m \in HostMetas : m.ty = AnyType

\* The types are settled before the device runs: what covers a key and what the
\* HAL says of it state its declared type, the device's own writers keep to it,
\* and so does the host, unless it takes types off and never puts them back.
TypesSettled(declared) ==
    /\ \A k \in Keys : SubtreeMeta[k] # NoMeta => SubtreeMeta[k].ty = declared[k]
    /\ \A d \in Descriptions : \A k \in Keys \cap DOMAIN d : d[k].ty = declared[k]
    /\ HostLoosens \/ \A m \in HostMetas, k \in Keys : m.ty = declared[k]
    /\ \A c \in Readings \cup CallWrites \cup BehaviorWrites \cup HostWrites :
          \A k \in Keys \cap DOMAIN c : Fits(c[k], declared[k])

\* A key is said to have its declared type, and holds a value of it, unless the
\* host took its type off: the HAL puts it back only where the value still has it,
\* from a description it held when the host spoke.
Settled(declared, k) ==
    /\ meta[k] # NoMeta => meta[k].ty = declared[k] \/ (HostLoosens /\ meta[k].ty = AnyType)
    /\ stated[k] # NoMeta => stated[k].ty = declared[k]
    /\ meta[k] = NoMeta \/ meta[k].ty = declared[k] => Fits(store[k], declared[k])
    /\ k \in DOMAIN describing =>
          describing[k].ty = declared[k] /\ Fits(store[k], declared[k])

TypedInv(declared) ==
    /\ HalSends
    /\ \A k \in Keys : Settled(declared, k)
    /\ pc # "describe" => describing = NoStatement

\* A write whose values fit, where types are on, leaves values that fit.
LEMMA FittingWrite ==
    ASSUME NEW declared, \A k \in Keys : Settled(declared, k), store \in [AllKeys -> Val],
           NEW w, NEW c, Write(w, c), UNCHANGED <<meta, stated, describing>>,
           \A k \in Keys \cap DOMAIN c :
              \/ meta[k] = NoMeta \/ meta[k].ty = declared[k] \/ k \in DOMAIN describing
              => Fits(c[k], declared[k])
    PROVE  (\A k \in Keys : Settled(declared, k))'
<1> SUFFICES ASSUME NEW k \in Keys  PROVE Settled(declared, k)'
  OBVIOUS
<1>1. store'[k] = IF k \in DOMAIN c THEN c[k] ELSE store[k]
  BY DEF Write, Apply, AllKeys
<1> QED BY <1>1 DEF Settled

\* An update that is accepted writes values of their keys' types.
LEMMA AcceptedFits ==
    ASSUME NEW declared, TypesSettled(declared), NEW c, Accepted(c), NEW k \in Keys \cap DOMAIN c,
           meta[k] = NoMeta \/ meta[k].ty = declared[k]
    PROVE  Fits(c[k], declared[k])
<1>1. MetaOf(k) # NoMeta /\ Conforms(c[k], MetaOf(k))
  BY DEF Accepted
<1>2. MetaOf(k).ty = declared[k]
  BY <1>1 DEF MetaOf, TypesSettled
<1> QED BY <1>1, <1>2 DEF Conforms, Fits

\* What the HAL says of keys nobody else stated is their declared type.
LEMMA ReadSettles ==
    ASSUME NEW declared, TypesSettled(declared), TypeOK, TypedInv(declared), ReadHalKeys
    PROVE  (\A k \in Keys : Settled(declared, k))'
<1> PICK d : d = Head(halKeys)
  OBVIOUS
<1> PICK mine : mine = {k \in DOMAIN d : meta[k] = NoMeta \/ meta[k] = stated[k]}
  OBVIOUS
<1>1. /\ d \in Descriptions /\ UNCHANGED <<store, meta, stated>>
      /\ describing' = [k \in mine |-> d[k]]
  BY DEF ReadHalKeys, TypedInv, HalSends, storeVars
<1> SUFFICES ASSUME NEW k \in Keys  PROVE Settled(declared, k)'
  OBVIOUS
<1>2. Settled(declared, k)
  BY DEF TypedInv
<1>3. ASSUME k \in DOMAIN describing'
      PROVE  describing'[k].ty = declared[k] /\ Fits(store[k], declared[k])
  <2>1. k \in mine /\ describing'[k] = d[k] /\ k \in DOMAIN d
    BY <1>1, <1>3
  <2>2. d[k].ty = declared[k]
    BY <1>1, <2>1 DEF TypesSettled
  <2>3. meta[k] = NoMeta \/ meta[k] = stated[k]
    BY <2>1
  <2> QED BY <1>2, <2>1, <2>2, <2>3 DEF Settled
<1> QED BY <1>1, <1>2, <1>3 DEF Settled

LEMMA StateSettles ==
    ASSUME NEW declared, TypeOK, TypedInv(declared), StateHalKeys
    PROVE  (\A k \in Keys : Settled(declared, k))'
<1>1. /\ meta' = State(meta, describing) /\ stated' = State(stated, describing)
      /\ store' = store /\ DOMAIN describing' = {}
  BY DEF StateHalKeys, storeVars, NoStatement
<1> SUFFICES ASSUME NEW k \in Keys  PROVE Settled(declared, k)'
  OBVIOUS
<1>2. Settled(declared, k) /\ k \in AllKeys
  BY DEF TypedInv, AllKeys
<1>3. CASE k \in DOMAIN describing
  <2>1. meta'[k] = describing[k] /\ stated'[k] = describing[k]
    BY <1>1, <1>2, <1>3 DEF State
  <2> QED BY <1>1, <1>2, <1>3, <2>1 DEF Settled
<1>4. CASE k \notin DOMAIN describing
  <2>1. meta'[k] = meta[k] /\ stated'[k] = stated[k]
    BY <1>1, <1>2, <1>4 DEF State
  <2> QED BY <1>1, <1>2, <2>1 DEF Settled
<1> QED BY <1>3, <1>4

\* The device holds a description only while it describes keys.
LEMMA DescribingPhase ==
    ASSUME pc # "describe" => describing = NoStatement, [Next]_vars
    PROVE  pc' # "describe" => describing' = NoStatement
BY DEF Next, Environment, Step, vars, metaVars, HalReport, HalDescribe, SendCommand,
       SendNotice, HostWrite, Notify, HostDescribe, BufferReading, BufferEvent, SweepNow,
       ReadHalKeys, StateHalKeys, TickClock, ApplySensor, ApplyGet, ApplyUpdate, ApplyCall,
       ApplyList, ApplyDataRequested, ApplyDeviceInfo, NextEvent, EventFrame, TickBehavior,
       NoBehavior, BehaviorFrame, Flush, WriteOut

\* What the host says of a key is its declared type, or takes it off for good.
LEMMA HostSettles ==
    ASSUME NEW declared, TypesSettled(declared), TypeOK, TypedInv(declared),
           NEW x \in Keys, NEW m \in HostMetas, HostDescribe(x, m)
    PROVE  (\A k \in Keys : Settled(declared, k))'
<1>1. /\ UNCHANGED <<store, stated, describing>> /\ meta' = [meta EXCEPT ![x] = m]
      /\ meta \in [AllKeys -> KeyMeta \cup {NoMeta}] /\ m # NoMeta
  BY RuntimeAssumption DEF HostDescribe, storeVars, queueVars, TypeOK
<1>2. ASSUME NEW k \in Keys  PROVE Settled(declared, k)'
  <2>1. Settled(declared, k) /\ k \in AllKeys
    BY DEF TypedInv, AllKeys
  <2>2. CASE k = x
    <3>1. meta'[k] = m
      BY <1>1, <2>1, <2>2
    <3>2. CASE HostLoosens
      <4>1. m.ty = AnyType
        BY <3>2 DEF HostLoosens
      <4>2. m.ty = declared[k] => Fits(store[k], declared[k])
        BY <4>1 DEF Fits
      <4> QED BY <1>1, <2>1, <3>1, <3>2, <4>1, <4>2 DEF Settled
    <3>3. CASE ~HostLoosens
      <4>1. m.ty = declared[k]
        BY <3>3 DEF TypesSettled
      <4> QED BY <1>1, <2>1, <3>1, <3>3, <4>1 DEF Settled
    <3> QED BY <3>2, <3>3
  <2>3. CASE k # x
    <3>1. meta'[k] = meta[k]
      BY <1>1, <2>1, <2>3
    <3> QED BY <1>1, <2>1, <3>1 DEF Settled
  <2> QED BY <2>2, <2>3
<1> QED BY <1>2

\* Every write keeps to the types that are on: the device's own writers always,
\* a remote because its update is checked.
LEMMA WritesFit ==
    ASSUME NEW declared, TypesSettled(declared), TypeOK, TypedInv(declared),
           \/ \E c \in HostWrites : HostWrite(c)
           \/ \E dt \in Steps : TickClock(dt)
           \/ ApplySensor \/ ApplyUpdate \/ ApplyCall
           \/ \E c \in BehaviorWrites : TickBehavior(c)
    PROVE  (\A k \in Keys : Settled(declared, k))'
<1>1. /\ \A k \in Keys : Settled(declared, k) /\ store \in [AllKeys -> Val]
      /\ sensors \in Seq(Readings) /\ events \in Seq(Event)
  BY DEF TypedInv, HalSends, TypeOK
<1>2. UNCHANGED <<meta, stated, describing>>
  BY DEF HostWrite, TickClock, ApplySensor, ApplyUpdate, ApplyCall, EventFrame, TickBehavior,
         BehaviorFrame, metaVars
<1>3. ASSUME NEW c \in Readings \cup CallWrites \cup BehaviorWrites \cup HostWrites,
             NEW w, Write(w, c)
      PROVE  (\A k \in Keys : Settled(declared, k))'
  <2>1. \A k \in Keys \cap DOMAIN c : Fits(c[k], declared[k])
    BY DEF TypesSettled
  <2> QED BY <1>1, <1>2, <1>3, <2>1, FittingWrite
<1>4. CASE \/ \E c \in HostWrites : HostWrite(c)
           \/ \E c \in BehaviorWrites : TickBehavior(c)
  BY <1>3, <1>4 DEF HostWrite, TickBehavior
<1>5. ASSUME NEW dt \in Steps, TickClock(dt)
      PROVE  (\A k \in Keys : Settled(declared, k))'
  <2> PICK c : c = [k \in {Clock} |-> time']
    OBVIOUS
  <2>1. Write("step", c) /\ Keys \cap DOMAIN c = {}
    BY <1>5, RuntimeAssumption DEF TickClock
  <2> QED BY <1>1, <1>2, <2>1, FittingWrite
<1>6. CASE ApplySensor
  <2>1. Head(sensors) \in Readings /\ Write("step", Head(sensors))
    BY <1>1, <1>6 DEF ApplySensor
  <2> QED BY <1>3, <2>1
<1>7. CASE ApplyCall
  <2>1. /\ Head(events) \in Event /\ Head(events).op.kind = "call"
        /\ Write("step", Head(events).op.writes)
    BY <1>1, <1>7 DEF ApplyCall, NextEvent
  <2>2. Head(events).op.writes \in CallWrites
    BY <2>1 DEF Event, Commands, Notices
  <2> QED BY <1>3, <2>1, <2>2
<1>8. CASE ApplyUpdate
  <2> PICK c : c = Head(events).op.change
    OBVIOUS
  <2>1. ((Accepted(c) /\ Write("step", c)) \/ UNCHANGED storeVars) /\ describing = NoStatement
    BY <1>8 DEF ApplyUpdate, NextEvent, TypedInv
  <2>2. CASE Accepted(c) /\ Write("step", c)
    <3>1. \A k \in Keys \cap DOMAIN c :
             \/ meta[k] = NoMeta \/ meta[k].ty = declared[k] \/ k \in DOMAIN describing
             => Fits(c[k], declared[k])
      BY <2>1, <2>2, AcceptedFits DEF NoStatement
    <3> QED BY <1>1, <1>2, <2>2, <3>1, FittingWrite
  <2>3. CASE UNCHANGED storeVars
    BY <1>1, <1>2, <2>3 DEF Settled, storeVars
  <2> QED BY <2>1, <2>2, <2>3
<1> QED BY <1>4, <1>5, <1>6, <1>7, <1>8

\* Every step keeps the keys to the types that are on.
LEMMA TypedNext ==
    ASSUME NEW declared, TypesSettled(declared), TypeOK, TypedInv(declared), [Next]_vars
    PROVE  TypedInv(declared)'
<1>1. HalSends' /\ (pc' # "describe" => describing' = NoStatement)
  BY HalSendsNext, DescribingPhase DEF TypedInv
<1> SUFFICES (\A k \in Keys : Settled(declared, k))'
  BY <1>1 DEF TypedInv
<1>2. CASE ReadHalKeys
  BY <1>2, ReadSettles
<1>3. CASE StateHalKeys
  BY <1>3, StateSettles
<1>4. ASSUME NEW x \in Keys, NEW m \in HostMetas, HostDescribe(x, m)
      PROVE  (\A k \in Keys : Settled(declared, k))'
  BY <1>4, HostSettles
<1>5. CASE \/ \E c \in HostWrites : HostWrite(c)
           \/ \E dt \in Steps : TickClock(dt)
           \/ ApplySensor \/ ApplyUpdate \/ ApplyCall
           \/ \E c \in BehaviorWrites : TickBehavior(c)
  BY <1>5, WritesFit
<1>6. ASSUME UNCHANGED <<store, meta, stated, describing>>
      PROVE  (\A k \in Keys : Settled(declared, k))'
  <2>1. \A k \in Keys : Settled(declared, k)
    BY DEF TypedInv
  <2> QED BY <1>6, <2>1 DEF Settled
<1> QED BY <1>2, <1>3, <1>4, <1>5, <1>6
    DEF Next, Environment, Step, vars, storeVars, metaVars, HalReport, HalDescribe,
        SendCommand, SendNotice, Notify, BufferReading, BufferEvent, SweepNow, ApplyGet,
        ApplyList, ApplyDataRequested, ApplyDeviceInfo, EventFrame, NoBehavior,
        BehaviorFrame, Flush, WriteOut

\* Where the types are settled before the device runs, a typed key holds a value
\* of its type or none, whatever remotes ask for and however the HAL's and the
\* host's statements interleave with the writes (apply_command, describe_hal_keys).
THEOREM TypedKeysKeepTheirType ==
    ASSUME NEW CONSTANT declared, TypesSettled(declared)
    PROVE  Spec => []TypedKeysConform
<1>1. Init => TypedInv(declared)
  <2> SUFFICES ASSUME Init PROVE TypedInv(declared)
    OBVIOUS
  <2>1. PICK c \in HostWrites \cup {NoChange} : store = Apply([k \in AllKeys |-> Absent], c)
    BY DEF Init
  <2>2. \A k \in Keys : \/ store[k] = Absent
                        \/ c \in HostWrites /\ k \in DOMAIN c /\ store[k] = c[k]
    BY <2>1, NoChangeType DEF Apply, AllKeys
  <2>3. \A k \in Keys : Fits(store[k], declared[k])
    <3>1. \A x \in HostWrites : \A k \in Keys \cap DOMAIN x : Fits(x[k], declared[k])
      BY DEF TypesSettled
    <3>2. \A k \in Keys : store[k] = Absent => Fits(store[k], declared[k])
      BY DEF Fits
    <3> QED BY <2>2, <3>1, <3>2
  <2>4. \A k \in Keys : Settled(declared, k)
    BY <2>3 DEF Settled, Init, AllKeys, NoStatement
  <2> QED BY <2>4 DEF TypedInv, HalSends, Init
<1>2. TypeOK /\ TypedInv(declared) /\ [Next]_vars => TypedInv(declared)'
  BY TypedNext
<1>3. TypedInv(declared) => TypedKeysConform
  <2> SUFFICES ASSUME TypedInv(declared), NEW k \in Keys, MetaOf(k) # NoMeta
               PROVE  Conforms(store[k], MetaOf(k))
    BY DEF TypedKeysConform
  <2>1. Settled(declared, k)
    BY DEF TypedInv
  <2>2. CASE MetaOf(k).ty = AnyType
    BY <2>2 DEF Conforms
  <2>3. CASE MetaOf(k).ty # AnyType
    <3>1. /\ MetaOf(k).ty = declared[k]
          /\ meta[k] = NoMeta \/ meta[k].ty = declared[k]
      BY <2>1, <2>3 DEF MetaOf, Settled, TypesSettled
    <3> QED BY <2>1, <3>1 DEF Settled, Fits, Conforms
  <2> QED BY <2>2, <2>3
<1> QED BY <1>1, <1>2, <1>3, RuntimeTypeCorrect, PTL DEF Spec
==============================================================================
