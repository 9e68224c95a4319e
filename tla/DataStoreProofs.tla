--------------------------- MODULE DataStoreProofs ---------------------------
(* Theorems about DataStore, for any keys, threads, batches and bounds.      *)
EXTENDS DataStore, TLAPS

(* The partial functions a notification is made of.                          *)
LEMMA ChangeIntro ==
    ASSUME NEW f, NEW D \in SUBSET Keys, f \in [D -> Cell]
    PROVE  f \in Change
BY DEF Change

LEMMA ChangeElim ==
    ASSUME NEW f \in Change
    PROVE  /\ DOMAIN f \in SUBSET Keys
           /\ f \in [DOMAIN f -> Cell]
           /\ \A k \in DOMAIN f : f[k] \in Cell
BY DEF Change

LEMMA NoChangeType == NoChange \in Change /\ DOMAIN NoChange = {}
<1>1. NoChange \in [{} -> Cell]
  BY DEF NoChange
<1>2. {} \in SUBSET Keys
  OBVIOUS
<1> QED BY <1>1, <1>2, ChangeIntro

LEMMA PutType ==
    ASSUME NEW f \in Change, NEW k \in Keys, NEW v \in Cell
    PROVE  Put(f, k, v) \in Change
<1>1. Put(f, k, v) \in [DOMAIN f \cup {k} -> Cell]
  BY ChangeElim DEF Put
<1>2. DOMAIN f \cup {k} \in SUBSET Keys
  BY ChangeElim
<1> QED BY <1>1, <1>2, ChangeIntro

LEMMA WithoutType ==
    ASSUME NEW f \in Change, NEW k
    PROVE  Without(f, k) \in Change
<1>1. Without(f, k) \in [DOMAIN f \ {k} -> Cell]
  BY ChangeElim DEF Without
<1>2. DOMAIN f \ {k} \in SUBSET Keys
  BY ChangeElim
<1> QED BY <1>1, <1>2, ChangeIntro

LEMMA PartOfType ==
    ASSUME NEW f \in Change, NEW S
    PROVE  PartOf(f, S) \in Change
<1>1. PartOf(f, S) \in [DOMAIN f \cap S -> Cell]
  BY ChangeElim DEF PartOf
<1>2. DOMAIN f \cap S \in SUBSET Keys
  BY ChangeElim
<1> QED BY <1>1, <1>2, ChangeIntro

LEMMA ApplyType ==
    ASSUME NEW state \in [Keys -> Cell], NEW f \in Change
    PROVE  Apply(state, f) \in [Keys -> Cell]
BY ChangeElim DEF Apply

LEMMA CellType == Absent \in Cell /\ Nothing \in [Keys -> Cell]
BY DEF Cell, Nothing

------------------------------------------------------------------------------
(* Type correctness *)

LEMMA InitType == Init => TypeOK
<1> SUFFICES ASSUME Init PROVE TypeOK
  OBVIOUS
<1> USE NoChangeType, CellType, StoreAssumption
<1> QED BY DEF Init, TypeOK

LEMMA StoreCellType ==
    ASSUME TypeOK, NEW w \in Writers, NEW k \in Keys, NEW v \in Cell,
           StoreCell(w, k, v)
    PROVE  /\ cell' \in [Keys -> Cell]
           /\ made' \subseteq Keys
           /\ eff' \in [Writers -> Change]
<1>1. Put(eff[w], k, v) \in Change
  BY PutType DEF TypeOK
<1> QED BY <1>1 DEF TypeOK, StoreCell

LEMMA NextType == TypeOK /\ [Next]_vars => TypeOK'
<1> SUFFICES ASSUME TypeOK, [Next]_vars PROVE TypeOK'
  OBVIOUS
<1> USE StoreAssumption
<1>1. ASSUME NEW w \in Writers, NEW b \in Batches[w], WriteBegin(w, b)
      PROVE  TypeOK'
  <2>1. b.set \in Change /\ b.unset \in SUBSET Keys
    BY DEF Batch
  <2> QED BY <1>1, <2>1
        DEF WriteBegin, TypeOK, storeVars, subVars
<1>2. ASSUME NEW w \in Writers, NEW k \in Slots[w], Slot(w, k)
      PROVE  TypeOK'
  BY <1>2 DEF Slot, TypeOK, writerVars, subVars
<1>3. ASSUME NEW w \in Writers, NEW k \in Slots[w], NEW v \in Cell,
             SlotSet(w, k, v)
      PROVE  TypeOK'
  <2>1. Put(NoChange, k, v) \in Change
    BY PutType, NoChangeType
  <2> QED BY <1>3, <2>1 DEF SlotSet, TypeOK, subVars
<1>4. ASSUME NEW w \in Writers, NEW k \in Keys, WriteSet(w, k)
      PROVE  TypeOK'
  <2>1. toSet[w] \in Change
    BY DEF TypeOK
  <2>2. toSet[w][k] \in Cell
    BY <1>4, <2>1, ChangeElim DEF WriteSet
  <2>3. StoreCell(w, k, toSet[w][k])
    BY <1>4 DEF WriteSet
  <2>4. /\ cell' \in [Keys -> Cell]
        /\ made' \subseteq Keys
        /\ eff' \in [Writers -> Change]
    BY <2>2, <2>3, StoreCellType
  <2>5. Without(toSet[w], k) \in Change
    BY <2>1, WithoutType
  <2> QED BY <1>4, <2>4, <2>5 DEF WriteSet, TypeOK, subVars
<1>5. ASSUME NEW w \in Writers, NEW k \in Keys, WriteUnset(w, k)
      PROVE  TypeOK'
  <2>1. StoreCell(w, k, Absent)
    BY <1>5 DEF WriteUnset
  <2>2. /\ cell' \in [Keys -> Cell]
        /\ made' \subseteq Keys
        /\ eff' \in [Writers -> Change]
    BY <2>1, CellType, StoreCellType
  <2> QED BY <1>5, <2>2 DEF WriteUnset, TypeOK, subVars
<1>6. ASSUME NEW w \in Writers, WriteUnchanged(w)
      PROVE  TypeOK'
  BY <1>6 DEF WriteUnchanged, TypeOK, storeVars, subVars
<1>7. ASSUME NEW w \in Writers, Notify(w)
      PROVE  TypeOK'
  <2>1. ASSUME NEW s \in Subscribers
        PROVE  Append(feed[s], PartOf(eff[w], prefix[s])) \in Seq(Change)
    <3>1. PartOf(eff[w], prefix[s]) \in Change
      BY PartOfType DEF TypeOK
    <3> QED BY <3>1 DEF TypeOK
  <2>2. feed' \in [Subscribers -> Seq(Change)]
    BY <1>7, <2>1 DEF Notify, TypeOK
  <2>3. phase' \in [Subscribers -> {"off", "opening", "on", "dropped"}]
    BY <1>7 DEF Notify, TypeOK
  <2>4. eff' \in [Writers -> Change]
    BY <1>7, NoChangeType DEF Notify, TypeOK
  <2> QED BY <1>7, <2>2, <2>3, <2>4 DEF Notify, TypeOK, storeVars
<1>8. ASSUME NEW s \in Subscribers, NEW p \in Prefixes, Subscribe(s, p)
      PROVE  TypeOK'
  BY <1>8, NoChangeType, CellType
     DEF Subscribe, TypeOK, storeVars, writerVars
<1>9. ASSUME NEW s \in Subscribers, NEW k \in Keys, OpenCell(s, k)
      PROVE  TypeOK'
  <2>1. Put(opening[s], k, cell[k]) \in Change
    BY PutType DEF TypeOK
  <2> QED BY <1>9, <2>1 DEF OpenCell, TypeOK, storeVars, writerVars
<1>10. ASSUME NEW s \in Subscribers, Opened(s)
       PROVE  TypeOK'
  BY <1>10 DEF Opened, TypeOK, storeVars, writerVars
<1>11. ASSUME NEW s \in Subscribers, Receive(s)
       PROVE  TypeOK'
  <2>1. feed[s] \in Seq(Change) /\ feed[s] # <<>>
    BY <1>11 DEF Receive, TypeOK
  <2>2. Head(feed[s]) \in Change /\ Tail(feed[s]) \in Seq(Change)
    BY <2>1
  <2>3. Apply(view[s], Head(feed[s])) \in [Keys -> Cell]
    BY <2>2, ApplyType DEF TypeOK
  <2> QED BY <1>11, <2>2, <2>3 DEF Receive, TypeOK, storeVars, writerVars
<1>12. ASSUME NEW s \in Subscribers, Drop(s)
       PROVE  TypeOK'
  BY <1>12 DEF Drop, TypeOK, storeVars, writerVars
<1>13. CASE UNCHANGED vars
  BY <1>13 DEF vars, TypeOK
<1> QED BY <1>1, <1>2, <1>3, <1>4, <1>5, <1>6, <1>7, <1>8, <1>9, <1>10,
           <1>11, <1>12, <1>13
     DEF Next, WriterStep, SubscriberStep

\* Every state of the store, its writers and its subscribers is well typed.
THEOREM StoreTypeCorrect == Spec => []TypeOK
<1> QED BY InitType, NextType, PTL DEF Spec

------------------------------------------------------------------------------
(* What a channel will show once drained *)

LEMMA AppendNaming ==
    ASSUME NEW q \in Seq(Change), NEW c \in Change, NEW f,
           NEW k \in DOMAIN c
    PROVE  SeesLast(Append(q, c), f, k, c[k])
<1> DEFINE r == Append(q, c)
           n == Len(q) + 1
<1>1. Len(r) = n /\ r[n] = c /\ n \in 1..Len(r)
  OBVIOUS
<1>2. \A j \in 1..Len(r) : ~(j > n)
  BY <1>1
<1> QED BY <1>1, <1>2 DEF SeesLast

LEMMA AppendOther ==
    ASSUME NEW q \in Seq(Change), NEW c \in Change, NEW f, NEW k, NEW v,
           k \notin DOMAIN c, SeesLast(q, f, k, v)
    PROVE  SeesLast(Append(q, c), f, k, v)
<1> DEFINE r == Append(q, c)
           n == Len(q) + 1
<1>1. /\ Len(r) = n
      /\ r[n] = c
      /\ \A i \in 1..Len(q) : r[i] = q[i]
      /\ 1..n = 1..Len(q) \cup {n}
  OBVIOUS
<1> HIDE DEF r
<1>2. CASE \E i \in 1..Len(q) : k \in DOMAIN q[i]
  <2>1. PICK i \in 1..Len(q) :
               /\ k \in DOMAIN q[i]
               /\ q[i][k] = v
               /\ \A j \in 1..Len(q) : j > i => k \notin DOMAIN q[j]
    BY <1>2 DEF SeesLast
  <2>2. \A j \in 1..Len(r) : j > i => k \notin DOMAIN r[j]
    BY <1>1, <2>1
  <2>3. i \in 1..Len(r) /\ k \in DOMAIN r[i] /\ r[i][k] = v
    BY <1>1, <2>1
  <2> QED BY <2>2, <2>3 DEF SeesLast, r
<1>3. CASE ~\E i \in 1..Len(q) : k \in DOMAIN q[i]
  <2>1. f[k] = v
    BY <1>3 DEF SeesLast
  <2>2. ~\E i \in 1..Len(r) : k \in DOMAIN r[i]
    BY <1>1, <1>3
  <2> QED BY <2>1, <2>2 DEF SeesLast, r
<1> QED BY <1>2, <1>3

LEMMA TakeHead ==
    ASSUME NEW q \in Seq(Change), q # <<>>, NEW f \in [Keys -> Cell],
           NEW k \in Keys, NEW v, SeesLast(q, f, k, v)
    PROVE  SeesLast(Tail(q), Apply(f, Head(q)), k, v)
<1> DEFINE r == Tail(q)
           g == Apply(f, Head(q))
<1>1. /\ Len(r) = Len(q) - 1
      /\ Len(q) \in Nat \ {0}
      /\ \A i \in 1..Len(r) : r[i] = q[i + 1]
      /\ Head(q) = q[1]
  OBVIOUS
<1>2. g[k] = IF k \in DOMAIN q[1] THEN q[1][k] ELSE f[k]
  BY <1>1 DEF Apply
<1> HIDE DEF r, g
<1>3. CASE \E i \in 1..Len(q) : k \in DOMAIN q[i]
  <2>1. PICK i \in 1..Len(q) :
               /\ k \in DOMAIN q[i]
               /\ q[i][k] = v
               /\ \A j \in 1..Len(q) : j > i => k \notin DOMAIN q[j]
    BY <1>3 DEF SeesLast
  <2>2. \A j \in 1..Len(r) : j + 1 \in 1..Len(q)
    BY <1>1
  <2>3. CASE i = 1
    <3>1. ~\E j \in 1..Len(r) : k \in DOMAIN r[j]
      BY <1>1, <2>1, <2>2, <2>3
    <3>2. g[k] = v
      BY <1>2, <2>1, <2>3
    <3> QED BY <3>1, <3>2 DEF SeesLast, r, g
  <2>4. CASE i # 1
    <3>1. i - 1 \in 1..Len(r) /\ r[i - 1] = q[i]
      BY <1>1, <2>1, <2>4
    <3>2. \A j \in 1..Len(r) : j > i - 1 => k \notin DOMAIN r[j]
      BY <1>1, <2>1, <2>2
    <3> QED BY <2>1, <3>1, <3>2 DEF SeesLast, r, g
  <2> QED BY <2>3, <2>4
<1>4. CASE ~\E i \in 1..Len(q) : k \in DOMAIN q[i]
  <2>1. f[k] = v
    BY <1>4 DEF SeesLast
  <2>2. ~\E i \in 1..Len(r) : k \in DOMAIN r[i]
    BY <1>1, <1>4
  <2>3. g[k] = v
    BY <1>1, <1>2, <1>4, <2>1
  <2> QED BY <2>2, <2>3 DEF SeesLast, r, g
<1> QED BY <1>3, <1>4

------------------------------------------------------------------------------
(* One writer per key: subscribers stay current *)

LEMMA InitInv == Init => StoreInv
<1> SUFFICES ASSUME Init PROVE StoreInv
  OBVIOUS
<1>1. TypeOK
  BY InitType
<1>2. OwnKeysOnly /\ FlightIsCurrent
  BY NoChangeType DEF Init, OwnKeysOnly, FlightIsCurrent
<1>3. UnmadeIsAbsent
  BY DEF Init, UnmadeIsAbsent, Nothing
<1>4. OpeningIsCurrent /\ StaysCurrent
  BY DEF Init, OpeningIsCurrent, StaysCurrent
<1> QED BY <1>1, <1>2, <1>3, <1>4 DEF StoreInv

\* A change of one cell by thread w, recorded as in flight if it is one.
LEMMA CellStep ==
    ASSUME OneWriterPerKey, StoreInv, TypeOK',
           NEW w \in Writers, NEW k \in Written(w), k \in Keys,
           NEW v \in Cell,
           cell' = [cell EXCEPT ![k] = v],
           made' = made \cup {k},
           k \in made \/ ~Opening,
           eff' = IF cell[k] = v THEN eff
                  ELSE [eff EXCEPT ![w] = Put(eff[w], k, v)],
           busy[w]', \A u \in Writers : u # w => busy[u]' = busy[u],
           \A u \in Writers :
              DOMAIN toSet'[u] \cup toUnset'[u] \subseteq Written(u),
           UNCHANGED subVars
    PROVE  StoreInv'
<1>1. \A u \in Writers : u # w => k \notin DOMAIN eff[u]
  BY DEF OneWriterPerKey, StoreInv, OwnKeysOnly
<1>2. OwnKeysOnly'
  BY DEF Put, OwnKeysOnly, StoreInv, TypeOK
<1>3. FlightIsCurrent'
  <2> SUFFICES ASSUME NEW u \in Writers
               PROVE  /\ \A x \in DOMAIN eff'[u] : eff'[u][x] = cell'[x]
                      /\ ~busy'[u] => DOMAIN eff'[u] = {}
    BY DEF FlightIsCurrent
  <2>1. eff[u] \in Change /\ DOMAIN eff[u] \subseteq Keys
    BY ChangeElim DEF StoreInv, TypeOK
  <2>2. CASE cell[k] = v
    <3>1. cell' = cell /\ eff' = eff
      BY <2>2 DEF StoreInv, TypeOK
    <3> QED BY <3>1 DEF StoreInv, FlightIsCurrent
  <2>3. CASE cell[k] # v /\ u # w
    <3>1. eff'[u] = eff[u] /\ k \notin DOMAIN eff[u]
      BY <1>1, <2>3 DEF StoreInv, TypeOK
    <3> QED BY <3>1, <2>1, <2>3 DEF StoreInv, FlightIsCurrent, TypeOK
  <2>4. CASE cell[k] # v /\ u = w
    <3>1. eff'[u] = Put(eff[w], k, v)
      BY <2>4 DEF StoreInv, TypeOK
    <3>2. \A x \in DOMAIN eff'[u] : eff'[u][x] = cell'[x]
      BY <3>1, <2>1, <2>4 DEF Put, StoreInv, FlightIsCurrent, TypeOK
    <3> QED BY <3>2, <2>4
  <2> QED BY <2>2, <2>3, <2>4
<1>4. UnmadeIsAbsent'
  BY DEF UnmadeIsAbsent, StoreInv, TypeOK
<1>5. \A x \in Keys : ~InFlight(x)' => ~InFlight(x) /\ cell'[x] = cell[x]
  <2> SUFFICES ASSUME NEW x \in Keys, ~InFlight(x)'
               PROVE  ~InFlight(x) /\ cell'[x] = cell[x]
    OBVIOUS
  <2>0. \A u \in Writers : DOMAIN eff[u] \subseteq DOMAIN eff'[u]
    BY DEF Put, StoreInv, TypeOK
  <2>1. ~InFlight(x)
    BY <2>0 DEF InFlight
  <2>2. x = k => cell[k] = v
    <3> SUFFICES ASSUME cell[k] # v PROVE k \in DOMAIN eff'[w]
      BY DEF InFlight
    <3>1. eff'[w] = Put(eff[w], k, v)
      BY DEF StoreInv, TypeOK
    <3> QED BY <3>1 DEF Put
  <2> QED BY <2>1, <2>2 DEF StoreInv, TypeOK
<1>6. OpeningIsCurrent'
  <2> SUFFICES ASSUME NEW s \in Subscribers, phase[s] = "opening"
               PROVE  /\ DOMAIN opening[s] \subseteq made' \cap prefix[s]
                      /\ view[s] = Nothing
                      /\ \A x \in DOMAIN opening[s] :
                            ~InFlight(x)' => opening[s][x] = cell'[x]
    BY DEF OpeningIsCurrent, subVars
  <2>1. /\ DOMAIN opening[s] \subseteq made \cap prefix[s]
        /\ view[s] = Nothing
        /\ \A x \in DOMAIN opening[s] : ~InFlight(x) => opening[s][x] = cell[x]
    BY DEF StoreInv, OpeningIsCurrent
  <2>2. DOMAIN opening[s] \subseteq Keys
    BY <2>1 DEF StoreInv, TypeOK
  <2> QED BY <2>1, <2>2, <1>5
<1>7. StaysCurrent'
  <2> SUFFICES ASSUME NEW s \in Subscribers, phase[s] = "on",
                      NEW x \in prefix[s], ~InFlight(x)'
               PROVE  SeesLast(feed[s], view[s], x, cell'[x])
    BY DEF StaysCurrent, WillSee, subVars
  <2>1. x \in Keys
    BY DEF StoreInv, TypeOK
  <2>2. ~InFlight(x) /\ cell'[x] = cell[x]
    BY <1>5, <2>1
  <2> QED BY <2>2 DEF StoreInv, StaysCurrent, WillSee
<1> QED BY <1>2, <1>3, <1>4, <1>6, <1>7 DEF StoreInv

\* A notification: what was in flight is now the last word in every channel
\* that covers it.
LEMMA NotifyStep ==
    ASSUME OneWriterPerKey, StoreInv, TypeOK', NEW w \in Writers, Notify(w)
    PROVE  StoreInv'
<1>1. /\ eff' = [eff EXCEPT ![w] = NoChange]
      /\ UNCHANGED <<cell, made, toSet, toUnset, prefix, opening, view>>
      /\ eff \in [Writers -> Change]
      /\ busy \in [Writers -> BOOLEAN]
      /\ busy' = [busy EXCEPT ![w] = FALSE]
  BY DEF Notify, storeVars, StoreInv, TypeOK
<1>2. \A u \in Writers : \/ u # w /\ eff'[u] = eff[u] /\ busy'[u] = busy[u]
                         \/ u = w /\ eff'[u] = NoChange /\ busy'[u] = FALSE
  BY <1>1
<1>3. OwnKeysOnly'
  BY <1>1, <1>2, NoChangeType DEF StoreInv, OwnKeysOnly
<1>4. FlightIsCurrent'
  BY <1>1, <1>2, NoChangeType DEF StoreInv, FlightIsCurrent
<1>5. UnmadeIsAbsent'
  BY <1>1 DEF StoreInv, UnmadeIsAbsent
<1>6. OpeningIsCurrent'
  BY DEF Notify, Opening, OpeningIsCurrent, StoreInv, TypeOK
<1>7. StaysCurrent'
  <2> SUFFICES ASSUME NEW s \in Subscribers, phase'[s] = "on",
                      NEW k \in prefix[s], ~InFlight(k)'
               PROVE  SeesLast(feed'[s], view[s], k, cell[k])
    BY <1>1 DEF StaysCurrent, WillSee
  <2> DEFINE c == PartOf(eff[w], prefix[s])
  <2>1. phase[s] = "on"
    BY DEF Notify, StoreInv, TypeOK
  <2>2. c \in Change /\ feed[s] \in Seq(Change)
    BY PartOfType DEF StoreInv, TypeOK
  <2>3. feed'[s] = IF DOMAIN c # {} THEN Append(feed[s], c) ELSE feed[s]
    BY <2>1 DEF Notify
  <2>4. DOMAIN c = DOMAIN eff[w] \cap prefix[s]
        /\ \A x \in DOMAIN c : c[x] = eff[w][x]
    BY DEF PartOf
  <2> HIDE DEF c
  <2>5. CASE k \in DOMAIN eff[w]
    <3>1. k \in DOMAIN c /\ c[k] = cell[k]
      BY <2>4, <2>5 DEF StoreInv, FlightIsCurrent
    <3>2. SeesLast(Append(feed[s], c), view[s], k, c[k])
      BY <2>2, <3>1, AppendNaming
    <3> QED BY <2>3, <3>1, <3>2
  <2>6. CASE k \notin DOMAIN eff[w]
    <3>1. ~InFlight(k)
      BY <1>2, <2>6 DEF InFlight
    <3>2. SeesLast(feed[s], view[s], k, cell[k])
      BY <2>1, <3>1 DEF StoreInv, StaysCurrent, WillSee
    <3>3. SeesLast(Append(feed[s], c), view[s], k, cell[k])
      BY <2>2, <2>4, <2>6, <3>2, AppendOther
    <3> QED BY <2>3, <3>2, <3>3
  <2> QED BY <2>5, <2>6
<1> QED BY <1>3, <1>4, <1>5, <1>6, <1>7 DEF StoreInv

\* The steps of a subscriber leave the cells and the writers alone.
LEMMA SubscriberOnly ==
    ASSUME StoreInv, UNCHANGED <<storeVars, writerVars>>
    PROVE  /\ OwnKeysOnly' /\ FlightIsCurrent' /\ UnmadeIsAbsent'
           /\ \A k : InFlight(k)' <=> InFlight(k)
BY DEF StoreInv, storeVars, writerVars, OwnKeysOnly, FlightIsCurrent,
       UnmadeIsAbsent, InFlight

LEMMA SubscribeStep ==
    ASSUME StoreInv, TypeOK', NEW s \in Subscribers, NEW p \in Prefixes,
           Subscribe(s, p)
    PROVE  StoreInv'
<1>1. OwnKeysOnly' /\ FlightIsCurrent' /\ UnmadeIsAbsent'
  BY SubscriberOnly DEF Subscribe
<1>2. OpeningIsCurrent'
  BY NoChangeType
     DEF Subscribe, Opening, OpeningIsCurrent, StoreInv, TypeOK
<1>3. StaysCurrent'
  BY DEF Subscribe, StaysCurrent, StoreInv, TypeOK, WillSee, InFlight,
         storeVars, writerVars
<1> QED BY <1>1, <1>2, <1>3 DEF StoreInv

LEMMA OpenCellStep ==
    ASSUME StoreInv, TypeOK', NEW s \in Subscribers, NEW k \in Keys,
           OpenCell(s, k)
    PROVE  StoreInv'
<1>1. /\ OwnKeysOnly' /\ FlightIsCurrent' /\ UnmadeIsAbsent'
      /\ \A x : InFlight(x)' <=> InFlight(x)
  BY SubscriberOnly DEF OpenCell
<1>2. /\ UNCHANGED <<cell, made, phase, prefix, feed, view>>
      /\ opening' = [opening EXCEPT ![s] = Put(opening[s], k, cell[k])]
      /\ k \in made \cap prefix[s]
  BY DEF OpenCell, storeVars
<1>3. OpeningIsCurrent'
  <2> SUFFICES ASSUME NEW t \in Subscribers, phase[t] = "opening"
               PROVE  /\ DOMAIN opening'[t] \subseteq made \cap prefix[t]
                      /\ view[t] = Nothing
                      /\ \A x \in DOMAIN opening'[t] :
                            ~InFlight(x) => opening'[t][x] = cell[x]
    BY <1>1, <1>2 DEF OpeningIsCurrent
  <2>1. /\ DOMAIN opening[t] \subseteq made \cap prefix[t]
        /\ view[t] = Nothing
        /\ \A x \in DOMAIN opening[t] : ~InFlight(x) => opening[t][x] = cell[x]
    BY DEF StoreInv, OpeningIsCurrent
  <2>2. CASE t = s
    <3>1. opening'[t] = Put(opening[t], k, cell[k])
      BY <1>2, <2>2 DEF StoreInv, TypeOK
    <3> QED BY <1>2, <2>1, <2>2, <3>1 DEF Put
  <2>3. CASE t # s
    <3>1. opening'[t] = opening[t]
      BY <1>2, <2>3 DEF StoreInv, TypeOK
    <3> QED BY <2>1, <3>1
  <2> QED BY <2>2, <2>3
<1>4. StaysCurrent'
  BY <1>1, <1>2 DEF StaysCurrent, StoreInv, WillSee
<1> QED BY <1>1, <1>3, <1>4 DEF StoreInv

\* The opening state becomes the channel's one change.
LEMMA OpenedStep ==
    ASSUME StoreInv, TypeOK', NEW s \in Subscribers, Opened(s)
    PROVE  StoreInv'
<1>1. /\ OwnKeysOnly' /\ FlightIsCurrent' /\ UnmadeIsAbsent'
      /\ \A x : InFlight(x)' <=> InFlight(x)
  BY SubscriberOnly DEF Opened
<1>2. /\ UNCHANGED <<cell, made, prefix, opening, view>>
      /\ feed' = [feed EXCEPT ![s] = <<opening[s]>>]
      /\ phase' = [phase EXCEPT ![s] = "on"]
      /\ phase[s] = "opening"
      /\ DOMAIN opening[s] = made \cap prefix[s]
  BY DEF Opened, storeVars
<1>3. OpeningIsCurrent'
  BY <1>1, <1>2 DEF OpeningIsCurrent, StoreInv, TypeOK
<1>4. StaysCurrent'
  <2> SUFFICES ASSUME NEW t \in Subscribers, phase'[t] = "on",
                      NEW k \in prefix[t], ~InFlight(k)
               PROVE  SeesLast(feed'[t], view[t], k, cell[k])
    BY <1>1, <1>2 DEF StaysCurrent, WillSee
  <2>1. k \in Keys
    BY DEF StoreInv, TypeOK
  <2>2. CASE t # s
    <3>1. feed'[t] = feed[t] /\ phase[t] = "on"
      BY <1>2, <2>2 DEF StoreInv, TypeOK
    <3> QED BY <3>1 DEF StoreInv, StaysCurrent, WillSee
  <2>3. CASE t = s
    <3>1. feed'[t] = <<opening[s]>>
      BY <1>2, <2>3 DEF StoreInv, TypeOK
    <3>2. view[t] = Nothing
          /\ \A x \in DOMAIN opening[s] : ~InFlight(x) => opening[s][x] = cell[x]
      BY <1>2, <2>3 DEF StoreInv, OpeningIsCurrent
    <3>3. CASE k \in made
      <4>1. k \in DOMAIN opening[s] /\ opening[s][k] = cell[k]
        BY <1>2, <2>3, <3>2, <3>3
      <4> QED BY <3>1, <4>1 DEF SeesLast
    <3>4. CASE k \notin made
      <4>1. k \notin DOMAIN opening[s] /\ cell[k] = Absent
        BY <1>2, <2>1, <3>4 DEF StoreInv, UnmadeIsAbsent
      <4>2. view[t][k] = Absent
        BY <2>1, <3>2 DEF Nothing
      <4> QED BY <3>1, <4>1, <4>2 DEF SeesLast
    <3> QED BY <3>3, <3>4
  <2> QED BY <2>2, <2>3
<1> QED BY <1>1, <1>3, <1>4 DEF StoreInv

LEMMA ReceiveStep ==
    ASSUME StoreInv, TypeOK', NEW s \in Subscribers, Receive(s)
    PROVE  StoreInv'
<1>1. /\ OwnKeysOnly' /\ FlightIsCurrent' /\ UnmadeIsAbsent'
      /\ \A x : InFlight(x)' <=> InFlight(x)
  BY SubscriberOnly DEF Receive
<1>2. /\ UNCHANGED <<cell, made, phase, prefix, opening>>
      /\ view' = [view EXCEPT ![s] = Apply(view[s], Head(feed[s]))]
      /\ feed' = [feed EXCEPT ![s] = Tail(feed[s])]
      /\ phase[s] = "on" /\ feed[s] # <<>>
  BY DEF Receive, storeVars
<1>3. OpeningIsCurrent'
  BY <1>1, <1>2 DEF OpeningIsCurrent, StoreInv, TypeOK
<1>4. StaysCurrent'
  <2> SUFFICES ASSUME NEW t \in Subscribers, phase[t] = "on",
                      NEW k \in prefix[t], ~InFlight(k)
               PROVE  SeesLast(feed'[t], view'[t], k, cell[k])
    BY <1>1, <1>2 DEF StaysCurrent, WillSee
  <2>1. SeesLast(feed[t], view[t], k, cell[k])
    BY DEF StoreInv, StaysCurrent, WillSee
  <2>2. CASE t # s
    <3>1. feed'[t] = feed[t] /\ view'[t] = view[t]
      BY <1>2, <2>2 DEF StoreInv, TypeOK
    <3> QED BY <2>1, <3>1
  <2>3. CASE t = s
    <3>1. feed'[t] = Tail(feed[t]) /\ view'[t] = Apply(view[t], Head(feed[t]))
      BY <1>2, <2>3 DEF StoreInv, TypeOK
    <3>2. /\ feed[t] \in Seq(Change) /\ feed[t] # <<>>
          /\ view[t] \in [Keys -> Cell] /\ k \in Keys
      BY <1>2, <2>3 DEF StoreInv, TypeOK
    <3>3. SeesLast(Tail(feed[t]), Apply(view[t], Head(feed[t])), k, cell[k])
      BY <2>1, <3>2, TakeHead
    <3> QED BY <3>1, <3>3
  <2> QED BY <2>2, <2>3
<1> QED BY <1>1, <1>3, <1>4 DEF StoreInv

LEMMA NextInv == OneWriterPerKey /\ StoreInv /\ [Next]_vars => StoreInv'
<1> SUFFICES ASSUME OneWriterPerKey, StoreInv, [Next]_vars PROVE StoreInv'
  OBVIOUS
<1>0. TypeOK /\ TypeOK'
  BY NextType DEF StoreInv
<1>1. ASSUME NEW w \in Writers, NEW b \in Batches[w], WriteBegin(w, b)
      PROVE  StoreInv'
  <2>1. DOMAIN b.set \cup b.unset \subseteq Written(w)
    BY DEF Written
  <2>2. /\ toSet' = [toSet EXCEPT ![w] = b.set]
        /\ toUnset' = [toUnset EXCEPT ![w] = b.unset]
        /\ busy' = [busy EXCEPT ![w] = TRUE]
        /\ UNCHANGED <<cell, made, eff, phase, prefix, opening, feed, view>>
    BY <1>1 DEF WriteBegin, storeVars, subVars
  <2>3. OwnKeysOnly'
    BY <1>0, <2>1, <2>2 DEF StoreInv, OwnKeysOnly, TypeOK
  <2>4. FlightIsCurrent'
    BY <1>0, <2>2 DEF StoreInv, FlightIsCurrent, TypeOK
  <2>5. UnmadeIsAbsent' /\ OpeningIsCurrent' /\ StaysCurrent'
    BY <2>2 DEF StoreInv, UnmadeIsAbsent, OpeningIsCurrent, StaysCurrent,
                InFlight, WillSee
  <2> QED BY <1>0, <2>3, <2>4, <2>5 DEF StoreInv
<1>2. ASSUME NEW w \in Writers, NEW k \in Slots[w], Slot(w, k)
      PROVE  StoreInv'
  <2>1. /\ made' = made \cup {k}
        /\ UNCHANGED <<cell, busy, toSet, toUnset, eff, phase, prefix,
                       opening, feed, view>>
    BY <1>2 DEF Slot, writerVars, subVars
  <2> QED BY <1>0, <2>1 DEF StoreInv, OwnKeysOnly, FlightIsCurrent,
        UnmadeIsAbsent, OpeningIsCurrent, StaysCurrent, InFlight, WillSee
<1>3. ASSUME NEW w \in Writers, NEW k \in Slots[w], NEW v \in Cell,
             SlotSet(w, k, v)
      PROVE  StoreInv'
  <2>1. k \in Written(w) /\ k \in Keys
    BY StoreAssumption DEF Written
  <2>2. eff[w] = NoChange
    <3>1. DOMAIN eff[w] = {} /\ eff[w] \in Change
      BY <1>3 DEF SlotSet, StoreInv, FlightIsCurrent, TypeOK
    <3>2. eff[w] \in [{} -> Cell]
      BY <3>1, ChangeElim
    <3> QED BY <3>2 DEF NoChange
  <2>3. /\ eff' = IF cell[k] = v THEN eff
                  ELSE [eff EXCEPT ![w] = Put(eff[w], k, v)]
        /\ made' = made \cup {k}
        /\ cell' = [cell EXCEPT ![k] = v]
        /\ k \in made
        /\ UNCHANGED <<toSet, toUnset, subVars>>
    BY <1>3, <2>2 DEF SlotSet
  <2>4. busy'[w] /\ \A u \in Writers : u # w => busy'[u] = busy[u]
    BY <1>0, <1>3 DEF SlotSet, TypeOK
  <2>5. \A u \in Writers :
           DOMAIN toSet'[u] \cup toUnset'[u] \subseteq Written(u)
    BY <2>3 DEF StoreInv, OwnKeysOnly
  <2> QED BY <1>0, <2>1, <2>3, <2>4, <2>5, CellStep
<1>4. ASSUME NEW w \in Writers, NEW k \in Keys, WriteSet(w, k)
      PROVE  StoreInv'
  <2>1. toSet[w] \in Change /\ k \in DOMAIN toSet[w] /\ busy[w]
    BY <1>0, <1>4 DEF WriteSet, TypeOK
  <2>2. toSet[w][k] \in Cell
    BY <2>1, ChangeElim
  <2>3. k \in Written(w)
    BY <2>1 DEF StoreInv, OwnKeysOnly
  <2>4. /\ StoreCell(w, k, toSet[w][k])
        /\ UNCHANGED <<busy, toUnset, subVars>>
        /\ toSet' = [toSet EXCEPT ![w] = Without(toSet[w], k)]
    BY <1>4 DEF WriteSet
  <2>5. \A u \in Writers :
           DOMAIN toSet'[u] \cup toUnset'[u] \subseteq Written(u)
    BY <1>0, <2>4 DEF StoreInv, OwnKeysOnly, TypeOK, Without
  <2> QED BY <1>0, <2>1, <2>2, <2>3, <2>4, <2>5, CellStep
        DEF StoreCell, CellReachable
<1>5. ASSUME NEW w \in Writers, NEW k \in Keys, WriteUnset(w, k)
      PROVE  StoreInv'
  <2>1. k \in Written(w) /\ busy[w] /\ Absent \in Cell
    BY <1>5, CellType DEF WriteUnset, StoreInv, OwnKeysOnly
  <2>2. /\ StoreCell(w, k, Absent)
        /\ UNCHANGED <<busy, toSet, subVars>>
        /\ toUnset' = [toUnset EXCEPT ![w] = @ \ {k}]
    BY <1>5 DEF WriteUnset
  <2>3. \A u \in Writers :
           DOMAIN toSet'[u] \cup toUnset'[u] \subseteq Written(u)
    BY <1>0, <2>2 DEF StoreInv, OwnKeysOnly, TypeOK
  <2> QED BY <1>0, <2>1, <2>2, <2>3, CellStep DEF StoreCell, CellReachable
<1>6. ASSUME NEW w \in Writers, WriteUnchanged(w)
      PROVE  StoreInv'
  <2>1. /\ UNCHANGED <<cell, made, toSet, toUnset, eff, phase, prefix, opening,
                       feed, view>>
        /\ DOMAIN eff[w] = {}
        /\ busy' = [busy EXCEPT ![w] = FALSE]
    BY <1>6 DEF WriteUnchanged, storeVars, subVars
  <2>2. FlightIsCurrent'
    BY <1>0, <2>1 DEF StoreInv, FlightIsCurrent, TypeOK
  <2> QED BY <1>0, <2>1, <2>2 DEF StoreInv, OwnKeysOnly, UnmadeIsAbsent,
        OpeningIsCurrent, StaysCurrent, InFlight, WillSee
<1>7. ASSUME NEW w \in Writers, Notify(w) PROVE StoreInv'
  BY <1>0, <1>7, NotifyStep
<1>8. ASSUME NEW s \in Subscribers, NEW p \in Prefixes, Subscribe(s, p)
      PROVE  StoreInv'
  BY <1>0, <1>8, SubscribeStep
<1>9. ASSUME NEW s \in Subscribers, NEW k \in Keys, OpenCell(s, k)
      PROVE  StoreInv'
  BY <1>0, <1>9, OpenCellStep
<1>10. ASSUME NEW s \in Subscribers, Opened(s) PROVE StoreInv'
  BY <1>0, <1>10, OpenedStep
<1>11. ASSUME NEW s \in Subscribers, Receive(s) PROVE StoreInv'
  BY <1>0, <1>11, ReceiveStep
<1>12. ASSUME NEW s \in Subscribers, Drop(s) PROVE StoreInv'
  <2>1. OwnKeysOnly' /\ FlightIsCurrent' /\ UnmadeIsAbsent'
    BY <1>12, SubscriberOnly DEF Drop
  <2>2. OpeningIsCurrent' /\ StaysCurrent'
    BY <1>0, <1>12 DEF Drop, StoreInv, TypeOK, OpeningIsCurrent, StaysCurrent,
       InFlight, WillSee, storeVars, writerVars
  <2> QED BY <1>0, <2>1, <2>2 DEF StoreInv
<1>13. CASE UNCHANGED vars
  BY <1>0, <1>13 DEF vars, StoreInv, OwnKeysOnly, FlightIsCurrent,
     UnmadeIsAbsent, OpeningIsCurrent, StaysCurrent, InFlight, WillSee
<1> QED BY <1>1, <1>2, <1>3, <1>4, <1>5, <1>6, <1>7, <1>8, <1>9, <1>10,
           <1>11, <1>12, <1>13
     DEF Next, WriterStep, SubscriberStep

\* When no two threads write one key, a subscriber that drains its channel
\* holds the store's value of every key it covers that is not in flight,
\* however its opening and the writes interleave: the promise of
\* DataStore::subscribe, for any number of keys, threads and subscribers.
THEOREM SubscribersStayCurrent ==
    ASSUME OneWriterPerKey
    PROVE  Spec => []StaysCurrent
<1>1. Init => StoreInv
  BY InitInv
<1>2. StoreInv /\ [Next]_vars => StoreInv'
  BY NextInv
<1>3. StoreInv => StaysCurrent
  BY DEF StoreInv
<1> QED BY <1>1, <1>2, <1>3, PTL DEF Spec

=============================================================================
