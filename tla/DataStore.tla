------------------------------ MODULE DataStore ------------------------------
(***************************************************************************)
(* The shared key-value store of a device (crate arora-simple-data-store): *)
(* cells behind a lock each, threads that write batches or single slots,   *)
(* and subscriptions that open with the current state and are then fed the *)
(* changes.  A write changes its cells one lock at a time and notifies the *)
(* subscribers only after every cell lock is released, so writes, openings *)
(* and notifications of several threads interleave.                        *)
(*                                                                         *)
(* A prefix is the set of keys it covers.  A change sent to a subscriber   *)
(* is a function from the keys it names to their new value, Absent for a   *)
(* key it unsets (State::apply sets first and unsets afterwards).          *)
(***************************************************************************)
EXTENDS Naturals, Sequences

CONSTANTS
    Keys,          \* key paths
    Values,        \* values a cell may hold
    Absent,        \* Option::None: the key has no value
    Writers,       \* threads holding a clone of the store
    Subscribers,   \* potential subscriptions
    Prefixes,      \* the subtrees a subscription may ask for
    Batches,       \* Batches[w]: the batches thread w may write
    Slots,         \* Slots[w]: the keys thread w holds a slot on
    MaxWrites      \* bound: write operations started in a behaviour

Cell == Values \cup {Absent}

\* A partial function from Keys to Cell: what a notification carries.
Change == UNION {[D -> Cell] : D \in SUBSET Keys}

\* StateChange, as a caller passes it to write.
Batch == [set : Change, unset : SUBSET Keys]

ASSUME StoreAssumption ==
    /\ Absent \notin Values
    /\ Prefixes \subseteq SUBSET Keys
    /\ Batches \in [Writers -> SUBSET Batch]
    /\ Slots \in [Writers -> SUBSET Keys]
    /\ MaxWrites \in Nat

VARIABLES
    cell,      \* the value in each key's cell
    made,      \* the keys whose cell exists in the map
    busy,      \* busy[w]: w is inside write or Slot::set
    toSet,     \* toSet[w]: the part of the batch's set still to apply
    toUnset,   \* toUnset[w]: the part of the batch's unset still to apply
    eff,       \* eff[w]: the effective change w has yet to notify
    phase,     \* phase[s]: off, opening, on, or dropped but not yet pruned
    prefix,    \* prefix[s]: the keys s asked for
    opening,   \* opening[s]: the cells read so far for s's opening state
    feed,      \* feed[s]: s's channel, oldest change first
    view,      \* view[s]: the changes s has received, applied in order
    writes     \* number of writes started (bounded by MaxWrites)

storeVars == <<cell, made>>
writerVars == <<busy, toSet, toUnset, eff, writes>>
subVars == <<phase, prefix, opening, feed, view>>
vars == <<cell, made, busy, toSet, toUnset, eff, phase, prefix, opening, feed,
          view, writes>>

NoChange == [k \in {} |-> Absent]
Nothing == [k \in Keys |-> Absent]

Put(f, k, v) == [x \in DOMAIN f \cup {k} |-> IF x = k THEN v ELSE f[x]]
Without(f, k) == [x \in DOMAIN f \ {k} |-> f[x]]

\* Subscriber::part_of: what a change holds of one subscriber's keys.
PartOf(change, keys) == [k \in DOMAIN change \cap keys |-> change[k]]


\* State::apply, on the subscriber's side.
Apply(state, change) ==
    [k \in Keys |-> IF k \in DOMAIN change THEN change[k] ELSE state[k]]

\* A subscription being opened holds the subscriber list and the cell map.
Opening == \E s \in Subscribers : phase[s] = "opening"

Init ==
    /\ cell = Nothing
    /\ made = {}
    /\ busy = [w \in Writers |-> FALSE]
    /\ toSet = [w \in Writers |-> NoChange]
    /\ toUnset = [w \in Writers |-> {}]
    /\ eff = [w \in Writers |-> NoChange]
    /\ phase = [s \in Subscribers |-> "off"]
    /\ prefix = [s \in Subscribers |-> {}]
    /\ opening = [s \in Subscribers |-> NoChange]
    /\ feed = [s \in Subscribers |-> <<>>]
    /\ view = [s \in Subscribers |-> Nothing]
    /\ writes = 0

------------------------------------------------------------------------------
(* Writers *)

\* SimpleDataStore::cell: a missing cell is created under the map's write
\* lock, which an opening subscription's read lock excludes.
CellReachable(k) == k \in made \/ ~Opening

\* Mutant: an unset is applied and not recorded.
StoreCellSilentUnset(w, k, v) ==
    /\ CellReachable(k)
    /\ made' = made \cup {k}
    /\ cell' = [cell EXCEPT ![k] = v]
    /\ eff' = IF cell[k] = v \/ v = Absent THEN eff
              ELSE [eff EXCEPT ![w] = Put(eff[w], k, v)]

\* One cell, under its own lock: changed, and recorded, only if it differs.
StoreCell(w, k, v) ==
    /\ CellReachable(k)
    /\ made' = made \cup {k}
    /\ cell' = [cell EXCEPT ![k] = v]
    /\ eff' = IF cell[k] = v THEN eff
              ELSE [eff EXCEPT ![w] = Put(eff[w], k, v)]

WriteBegin(w, b) ==
    /\ ~busy[w]
    /\ writes < MaxWrites
    /\ writes' = writes + 1
    /\ busy' = [busy EXCEPT ![w] = TRUE]
    /\ toSet' = [toSet EXCEPT ![w] = b.set]
    /\ toUnset' = [toUnset EXCEPT ![w] = b.unset]
    /\ UNCHANGED <<storeVars, eff, subVars>>

WriteSet(w, k) ==
    /\ busy[w]
    /\ k \in DOMAIN toSet[w]
    /\ StoreCell(w, k, toSet[w][k])
    /\ toSet' = [toSet EXCEPT ![w] = Without(toSet[w], k)]
    /\ UNCHANGED <<busy, toUnset, writes, subVars>>

\* The unset keys come after every set key.
WriteUnset(w, k) ==
    /\ busy[w]
    /\ DOMAIN toSet[w] = {}
    /\ k \in toUnset[w]
    /\ StoreCell(w, k, Absent)
    /\ toUnset' = [toUnset EXCEPT ![w] = @ \ {k}]
    /\ UNCHANGED <<busy, toSet, writes, subVars>>

Applied(w) == busy[w] /\ DOMAIN toSet[w] = {} /\ toUnset[w] = {}

\* A write that changed nothing returns without notifying.
WriteUnchanged(w) ==
    /\ Applied(w)
    /\ DOMAIN eff[w] = {}
    /\ busy' = [busy EXCEPT ![w] = FALSE]
    /\ UNCHANGED <<storeVars, toSet, toUnset, eff, writes, subVars>>

\* Mutant: an opening subscription does not hold the subscriber list.
NotifyUnlocked(w) ==
    /\ Applied(w)
    /\ DOMAIN eff[w] # {}
    /\ busy' = [busy EXCEPT ![w] = FALSE]
    /\ eff' = [eff EXCEPT ![w] = NoChange]
    /\ feed' = [s \in Subscribers |->
                  IF phase[s] = "on" /\ DOMAIN PartOf(eff[w], prefix[s]) # {}
                  THEN Append(feed[s], PartOf(eff[w], prefix[s]))
                  ELSE feed[s]]
    /\ phase' = [s \in Subscribers |->
                  IF phase[s] = "dropped" THEN "off" ELSE phase[s]]
    /\ UNCHANGED <<storeVars, toSet, toUnset, writes, prefix, opening, view>>

\* Inner::notify, under the subscriber list's lock: every live subscriber is
\* sent its part unless that is empty, a dropped one is pruned.
Notify(w) ==
    /\ Applied(w)
    /\ DOMAIN eff[w] # {}
    /\ ~Opening
    /\ busy' = [busy EXCEPT ![w] = FALSE]
    /\ eff' = [eff EXCEPT ![w] = NoChange]
    /\ feed' = [s \in Subscribers |->
                  IF phase[s] = "on" /\ DOMAIN PartOf(eff[w], prefix[s]) # {}
                  THEN Append(feed[s], PartOf(eff[w], prefix[s]))
                  ELSE feed[s]]
    /\ phase' = [s \in Subscribers |->
                  IF phase[s] = "dropped" THEN "off" ELSE phase[s]]
    /\ UNCHANGED <<storeVars, toSet, toUnset, writes, prefix, opening, view>>

\* DataStore::slot: resolving a slot creates the cell.
Slot(w, k) ==
    /\ ~busy[w]
    /\ k \notin made
    /\ ~Opening
    /\ made' = made \cup {k}
    /\ UNCHANGED <<cell, writerVars, subVars>>

\* SimpleSlot::set up to the release of the cell; the notification is Notify.
\* Setting the value already held returns at once and changes nothing.
SlotSet(w, k, v) ==
    /\ ~busy[w]
    /\ k \in made
    /\ cell[k] # v
    /\ writes < MaxWrites
    /\ writes' = writes + 1
    /\ busy' = [busy EXCEPT ![w] = TRUE]
    /\ cell' = [cell EXCEPT ![k] = v]
    /\ eff' = [eff EXCEPT ![w] = Put(NoChange, k, v)]
    /\ UNCHANGED <<made, toSet, toUnset, subVars>>

------------------------------------------------------------------------------
(* Subscribers *)

\* subscribe_prefix takes the subscriber list's lock, then the map's.
Subscribe(s, p) ==
    /\ phase[s] = "off"
    /\ ~Opening
    /\ phase' = [phase EXCEPT ![s] = "opening"]
    /\ prefix' = [prefix EXCEPT ![s] = p]
    /\ opening' = [opening EXCEPT ![s] = NoChange]
    /\ feed' = [feed EXCEPT ![s] = <<>>]
    /\ view' = [view EXCEPT ![s] = Nothing]
    /\ UNCHANGED <<storeVars, writerVars>>

\* The opening state is read one cell at a time.
OpenCell(s, k) ==
    /\ phase[s] = "opening"
    /\ k \in (made \cap prefix[s]) \ DOMAIN opening[s]
    /\ opening' = [opening EXCEPT ![s] = Put(opening[s], k, cell[k])]
    /\ UNCHANGED <<storeVars, writerVars, phase, prefix, feed, view>>

\* The opening state is the first change sent, and the subscriber is listed.
Opened(s) ==
    /\ phase[s] = "opening"
    /\ DOMAIN opening[s] = made \cap prefix[s]
    /\ feed' = [feed EXCEPT ![s] = <<opening[s]>>]
    /\ phase' = [phase EXCEPT ![s] = "on"]
    /\ UNCHANGED <<storeVars, writerVars, prefix, opening, view>>

\* Subscription::try_recv.
Receive(s) ==
    /\ phase[s] = "on"
    /\ feed[s] # <<>>
    /\ view' = [view EXCEPT ![s] = Apply(view[s], Head(feed[s]))]
    /\ feed' = [feed EXCEPT ![s] = Tail(feed[s])]
    /\ UNCHANGED <<storeVars, writerVars, phase, prefix, opening>>

\* The Subscription is dropped; its entry stays until the next change.
Drop(s) ==
    /\ phase[s] = "on"
    /\ phase' = [phase EXCEPT ![s] = "dropped"]
    /\ UNCHANGED <<storeVars, writerVars, prefix, opening, feed, view>>

WriterStep(w) ==
    \/ \E k \in Keys : WriteSet(w, k) \/ WriteUnset(w, k)
    \/ WriteUnchanged(w)
    \/ Notify(w)

SubscriberStep(s) ==
    \/ \E k \in Keys : OpenCell(s, k)
    \/ Opened(s)
    \/ Receive(s)

Next ==
    \/ \E w \in Writers : \E b \in Batches[w] : WriteBegin(w, b)
    \/ \E w \in Writers : \E k \in Slots[w] : Slot(w, k)
    \/ \E w \in Writers : \E k \in Slots[w] : \E v \in Cell : SlotSet(w, k, v)
    \/ \E w \in Writers : WriterStep(w)
    \/ \E s \in Subscribers : \E p \in Prefixes : Subscribe(s, p)
    \/ \E s \in Subscribers : SubscriberStep(s)
    \/ \E s \in Subscribers : Drop(s)

Spec == Init /\ [][Next]_vars

\* A thread inside the store runs on (no lock is held across a wait on
\* another), and an observer keeps draining its subscription: the runtime
\* and the bridges do so every step.
Fairness ==
    /\ \A w \in Writers : WF_vars(WriterStep(w))
    /\ \A s \in Subscribers : WF_vars(SubscriberStep(s))

FairSpec == Spec /\ Fairness

------------------------------------------------------------------------------
(* Properties *)

\* The keys thread w may write.
Written(w) ==
    Slots[w] \cup UNION {DOMAIN b.set \cup b.unset : b \in Batches[w]}

\* The discipline a device keeps: no two threads write one key.
OneWriterPerKey ==
    \A v, w \in Writers : v # w => Written(v) \cap Written(w) = {}

\* A thread has changed k's cell and not notified the change yet.
InFlight(k) == \E w \in Writers : k \in DOMAIN eff[w]

\* The last change of the channel q naming k carries v, or, when none names
\* it, the view f holds v: what a subscriber sees at k once q is drained.
SeesLast(q, f, k, v) ==
    IF \E i \in 1..Len(q) : k \in DOMAIN q[i]
    THEN \E i \in 1..Len(q) :
            /\ k \in DOMAIN q[i]
            /\ q[i][k] = v
            /\ \A j \in 1..Len(q) : j > i => k \notin DOMAIN q[j]
    ELSE f[k] = v

WillSee(s, k, v) == SeesLast(feed[s], view[s], k, v)

\* The values in the model have the types the code gives them.
TypeOK ==
    /\ cell \in [Keys -> Cell]
    /\ made \subseteq Keys
    /\ busy \in [Writers -> BOOLEAN]
    /\ toSet \in [Writers -> Change]
    /\ toUnset \in [Writers -> SUBSET Keys]
    /\ eff \in [Writers -> Change]
    /\ phase \in [Subscribers -> {"off", "opening", "on", "dropped"}]
    /\ prefix \in [Subscribers -> SUBSET Keys]
    /\ opening \in [Subscribers -> Change]
    /\ feed \in [Subscribers -> Seq(Change)]
    /\ view \in [Subscribers -> [Keys -> Cell]]
    /\ writes \in 0..MaxWrites

\* "A subscriber starts from the full picture and stays current from the
\* changes that follow" (the contract of DataStore::subscribe): at every key
\* with no write in flight, a subscriber that drains its channel holds the
\* store's value, whatever the opening and the writes interleaved.
StaysCurrent ==
    \A s \in Subscribers : phase[s] = "on" =>
        \A k \in prefix[s] : ~InFlight(k) => WillSee(s, k, cell[k])

(* The parts of the inductive invariant behind StaysCurrent. *)

\* What a thread has in hand is of keys it may write.
OwnKeysOnly ==
    \A w \in Writers :
        DOMAIN toSet[w] \cup toUnset[w] \cup DOMAIN eff[w] \subseteq Written(w)

\* What is in flight is what the cell holds.
FlightIsCurrent ==
    \A w \in Writers :
        /\ \A k \in DOMAIN eff[w] : eff[w][k] = cell[k]
        /\ ~busy[w] => DOMAIN eff[w] = {}

\* A key with no cell has no value.
UnmadeIsAbsent == \A k \in Keys \ made : cell[k] = Absent

\* An opening state read so far is the store's, but for writes in flight.
OpeningIsCurrent ==
    \A s \in Subscribers : phase[s] = "opening" =>
        /\ DOMAIN opening[s] \subseteq made \cap prefix[s]
        /\ view[s] = Nothing
        /\ \A k \in DOMAIN opening[s] : ~InFlight(k) => opening[s][k] = cell[k]

StoreInv ==
    /\ TypeOK
    /\ OwnKeysOnly
    /\ FlightIsCurrent
    /\ UnmadeIsAbsent
    /\ OpeningIsCurrent
    /\ StaysCurrent

\* Between its opening and its end a subscription observes every write it
\* covers: once writes end, what each subscriber has received is what the
\* store holds, for good.
EventuallyCurrent ==
    \A s \in Subscribers :
        <>[](phase[s] = "on" => \A k \in prefix[s] : view[s][k] = cell[k])

=============================================================================
