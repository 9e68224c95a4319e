---------------------------- MODULE TracesProofs ----------------------------
(* Theorems about Traces, for any traces, nodes, marks, intervals and bounds. *)
EXTENDS Traces, TLAPS

USE ConstantsAssumption, NoneAssumption

-----------------------------------------------------------------------------
(* The inductive invariant.                                                  *)

\* A trace that has not reported is new; one that has told its reader what it
\* remembers to have told, but for the nodes restarted since, which it has
\* forgotten; and it remembers the previous tick's marks but for those that
\* changed since its last report.  Here p is what the previous tick did.
InStep(tr, rd, p, t) ==
    /\ ~tr.started => tr = NewTrace
    /\ tr.started =>
          /\ tr.restarted \subseteq tr.changed
          /\ \A id \in Ids \ tr.changed : tr.told[id] = p[id]
          /\ \A id \in Ids \ tr.restarted : /\ rd.picture.marks[id] = tr.told[id]
                                            /\ rd.picture.values[id] = tr.values[id]
          /\ \A id \in tr.restarted : tr.told[id] = None /\ tr.values[id] = None
          /\ \A id \in Ids \ Watches[t] : tr.values[id] = None
          /\ tr.last = rd.tick /\ tr.last # 0
          /\ tr.at = rd.at /\ tr.revision = rd.picture.revision

\* The traces and their readers are in step.
TracesInStep == \A t \in Running : InStep(traces[t], reader[t], prev, t)

\* What the traces keep of the watched nodes' returns is what these are, and a
\* node has one only in the lowered tree and while it is watched.
ReturnsTrue ==
    /\ returns = output
    /\ \A id \in Ids : returns[id] # None =>
          tree # None /\ id \in tree /\ id \in WatchedBy(Running)

\* There is a tree unless one is to be lowered, and no reader is ahead of time.
Control == (tree = None => dirty) /\ \A t \in Traces : reader[t].tick <= ticks

IInv ==
    /\ TypeOK /\ Control /\ RecordsWhileTraced /\ ReturnsTrue /\ TracesInStep
    /\ \A t \in Traces : reader[t].picture = seen[t]

-----------------------------------------------------------------------------
(* Pictures and traces as records.                                           *)

\* Pictures are equal that agree in what they show (TraceReport).
LEMMA PictureParts ==
    ASSUME NEW p \in Picture, NEW q \in Picture,
           p.marks = q.marks, p.values = q.values, p.revision = q.revision
    PROVE  p = q
  BY DEF Picture

\* A new trace, part by part (Traces::start).
LEMMA NewTraceParts ==
    /\ NewTrace.started = FALSE /\ NewTrace.at = None /\ NewTrace.told = NoMarks
    /\ NewTrace.values = NoMarks /\ NewTrace.changed = {} /\ NewTrace.restarted = {}
    /\ NewTrace.last = 0 /\ NewTrace.revision = None
  BY DEF NewTrace

\* A new trace is one.
LEMMA NewTraceType == NewTrace \in Trace
  BY NewTraceParts DEF NewTrace, Trace, NoMarks

\* What a reader has.
Reader == [picture : Picture, tick : 0 .. MaxTicks, at : Nat \cup {None}]
MarksOf == [Ids -> Marks \cup {None}]
ValuesOf == [Ids -> Values \cup {None}]

\* A trace that reported, once some of its nodes restarted (Traces::restart).
LEMMA RestartParts ==
    ASSUME TypeOK, NEW tr \in Trace, tr.started
    PROVE  /\ Restart(tr) \in Trace
           /\ Restart(tr).started /\ Restart(tr).at = tr.at /\ Restart(tr).last = tr.last
           /\ Restart(tr).revision = tr.revision
           /\ Restart(tr).told = [id \in Ids |-> IF id \in Restarted THEN None ELSE tr.told[id]]
           /\ Restart(tr).values = [id \in Ids |-> IF id \in Restarted THEN None ELSE tr.values[id]]
           /\ Restart(tr).changed = tr.changed \cup Restarted
           /\ Restart(tr).restarted = tr.restarted \cup Restarted
<1>1. Restarted \in SUBSET Ids
  BY DEF Restarted, TypeOK
<1> DEFINE new == [tr EXCEPT !.told = [id \in Ids |-> IF id \in Restarted THEN None ELSE @[id]],
                             !.values = [id \in Ids |-> IF id \in Restarted THEN None ELSE @[id]],
                             !.changed = @ \cup Restarted,
                             !.restarted = @ \cup Restarted]
<1>2. Restart(tr) = new
  BY DEF Restart
<1>3. /\ new.started = tr.started /\ new.at = tr.at /\ new.last = tr.last
      /\ new.revision = tr.revision
      /\ new.told = [id \in Ids |-> IF id \in Restarted THEN None ELSE tr.told[id]]
      /\ new.values = [id \in Ids |-> IF id \in Restarted THEN None ELSE tr.values[id]]
      /\ new.changed = tr.changed \cup Restarted
      /\ new.restarted = tr.restarted \cup Restarted
  BY DEF Trace
<1>4. new \in Trace
  BY <1>1 DEF Trace
<1> HIDE DEF new
<1> QED
  BY <1>2, <1>3, <1>4

\* A trace that took in a tick (Traces::report).
LEMMA NotedParts ==
    ASSUME TypeOK, NEW tr \in Trace, NEW did \in MarksOf
    PROVE  /\ Noted(tr, did) \in Trace
           /\ Noted(tr, did).started = tr.started /\ Noted(tr, did).at = tr.at
           /\ Noted(tr, did).last = tr.last /\ Noted(tr, did).revision = tr.revision
           /\ Noted(tr, did).told = tr.told /\ Noted(tr, did).values = tr.values
           /\ Noted(tr, did).restarted = tr.restarted
           /\ Noted(tr, did).changed =
                 tr.changed \cup (IF tr.started THEN Changes(prev, did)
                                  ELSE {id \in Ids : did[id] # None})
<1> DEFINE more == IF tr.started THEN Changes(prev, did) ELSE {id \in Ids : did[id] # None}
           new == [tr EXCEPT !.changed = @ \cup more]
<1>1. more \in SUBSET Ids
  BY DEF Changes
<1>2. Noted(tr, did) = new
  BY DEF Noted
<1> HIDE DEF more
<1>3. /\ new.started = tr.started /\ new.at = tr.at /\ new.last = tr.last
      /\ new.revision = tr.revision /\ new.told = tr.told /\ new.values = tr.values
      /\ new.restarted = tr.restarted /\ new.changed = tr.changed \cup more
      /\ new \in Trace
  BY <1>1 DEF Trace
<1> HIDE DEF new
<1> QED
  BY <1>2, <1>3 DEF more

\* A trace whose report is made (Trace::report).
LEMMA ToldParts ==
    ASSUME TypeOK, NEW tr \in Trace, NEW t \in Traces, NEW did \in MarksOf, NEW ret \in ValuesOf
    PROVE  /\ Told(tr, t, did, ret) \in Trace
           /\ Told(tr, t, did, ret).started = tr.started /\ Told(tr, t, did, ret).at = tr.at
           /\ Told(tr, t, did, ret).last = tr.last /\ Told(tr, t, did, ret).revision = tr.revision
           /\ Told(tr, t, did, ret).told =
                 [id \in Ids |-> IF id \in tr.changed THEN did[id] ELSE tr.told[id]]
           /\ Told(tr, t, did, ret).values =
                 [id \in Ids |-> IF id \in Watches[t] THEN ret[id] ELSE tr.values[id]]
           /\ Told(tr, t, did, ret).changed = {} /\ Told(tr, t, did, ret).restarted = {}
<1> DEFINE marks == [id \in Ids |-> IF id \in tr.changed THEN did[id] ELSE tr.told[id]]
           vals == [id \in Ids |-> IF id \in Watches[t] THEN ret[id] ELSE tr.values[id]]
           new == [tr EXCEPT !.told = marks, !.values = vals, !.changed = {}, !.restarted = {}]
<1>1. Told(tr, t, did, ret) = new
  BY DEF Told
<1>2. marks \in MarksOf /\ vals \in ValuesOf
  BY DEF Trace, MarksOf, ValuesOf
<1> HIDE DEF marks, vals
<1>3. /\ new.started = tr.started /\ new.at = tr.at /\ new.last = tr.last
      /\ new.revision = tr.revision /\ new.told = marks /\ new.values = vals
      /\ new.changed = {} /\ new.restarted = {}
      /\ new \in Trace
  BY <1>2 DEF Trace, MarksOf, ValuesOf
<1> HIDE DEF new
<1> QED
  BY <1>1, <1>3 DEF marks, vals

\* And once it is written (Traces::report).
LEMMA PublishedParts ==
    ASSUME TypeOK, ticks < MaxTicks, NEW tr \in Trace, NEW now \in Nat \cup {None}
    PROVE  /\ Published(tr, now) \in Trace
           /\ Published(tr, now).started /\ Published(tr, now).at = now
           /\ Published(tr, now).last = ticks + 1 /\ Published(tr, now).revision = revision
           /\ Published(tr, now).told = tr.told /\ Published(tr, now).values = tr.values
           /\ Published(tr, now).changed = tr.changed
           /\ Published(tr, now).restarted = tr.restarted
<1>1. ticks + 1 \in 0 .. MaxTicks /\ revision \in 0 .. MaxEdits
  BY DEF TypeOK
<1> DEFINE new == [tr EXCEPT !.started = TRUE, !.at = now, !.last = ticks + 1,
                             !.revision = revision]
<1>2. Published(tr, now) = new
  BY DEF Published
<1>3. /\ new.started = TRUE /\ new.at = now /\ new.last = ticks + 1
      /\ new.revision = revision /\ new.told = tr.told /\ new.values = tr.values
      /\ new.changed = tr.changed /\ new.restarted = tr.restarted
  BY DEF Trace
<1>4. new \in Trace
  BY <1>1 DEF Trace
<1> HIDE DEF new
<1> QED
  BY <1>2, <1>3, <1>4

-----------------------------------------------------------------------------
(* One trace and its reader.                                                 *)

\* All that a tick did with the nodes, and what those t watches return.
Full(t, did, ret) ==
    [marks |-> did,
     values |-> [id \in Ids |-> IF id \in Watches[t] THEN ret[id] ELSE None],
     revision |-> revision]

\* A lowering leaves a trace in step with its reader (Traces::restart).
LEMMA RestartInStep ==
    ASSUME TypeOK, NEW tr \in Trace, NEW rd, NEW p, NEW t \in Traces, InStep(tr, rd, p, t)
    PROVE  Restart(tr) \in Trace /\ InStep(Restart(tr), rd, p, t)
<1>1. CASE ~tr.started
  BY <1>1 DEF Restart
<1>2. CASE tr.started
  <2> DEFINE new == Restart(tr)
  <2>1. /\ new \in Trace
        /\ new.started /\ new.at = tr.at /\ new.last = tr.last
        /\ new.revision = tr.revision
        /\ new.told = [id \in Ids |-> IF id \in Restarted THEN None ELSE tr.told[id]]
        /\ new.values = [id \in Ids |-> IF id \in Restarted THEN None ELSE tr.values[id]]
        /\ new.changed = tr.changed \cup Restarted
        /\ new.restarted = tr.restarted \cup Restarted
    BY <1>2, RestartParts
  <2>2. tr.restarted \subseteq Ids /\ Restarted \subseteq Ids
    BY DEF Trace, Restarted, TypeOK
  <2> HIDE DEF new
  <2>3. /\ new.restarted \subseteq new.changed
        /\ \A id \in Ids \ new.changed : new.told[id] = p[id]
        /\ \A id \in Ids \ new.restarted : /\ rd.picture.marks[id] = new.told[id]
                                           /\ rd.picture.values[id] = new.values[id]
    BY <1>2, <2>1 DEF InStep
  <2>4. \A id \in new.restarted : new.told[id] = None /\ new.values[id] = None
    BY <1>2, <2>1, <2>2 DEF InStep
  <2>5. \A id \in Ids \ Watches[t] : new.values[id] = None
    BY <1>2, <2>1 DEF InStep
  <2>6. /\ new.last = rd.tick /\ new.last # 0
        /\ new.at = rd.at /\ new.revision = rd.picture.revision
    BY <1>2, <2>1 DEF InStep
  <2>7. InStep(new, rd, p, t)
    BY <2>1, <2>3, <2>4, <2>5, <2>6 DEF InStep
  <2> QED
    BY <2>1, <2>7 DEF new
<1> QED
  BY <1>1, <1>2 DEF Trace

\* What a report says, folded into what its reader has, is all that the tick did;
\* and when it has nothing to say the reader has that already (Trace::report).
LEMMA ReportsTrue ==
    ASSUME TypeOK, NEW t \in Traces, NEW tr \in Trace, NEW rd \in Reader,
           NEW did \in MarksOf, NEW ret \in ValuesOf, InStep(tr, rd, prev, t),
           NEW n, n = Noted(tr, did), NEW r, r = Report(n, t, did, ret)
    PROVE  /\ Fold(rd.picture, r) = Full(t, did, ret)
           /\ tr.started /\ IsEmpty(r) => rd.picture = Full(t, did, ret)
<1>1. /\ n.last = tr.last /\ n.revision = tr.revision /\ n.told = tr.told
      /\ n.values = tr.values /\ n.restarted = tr.restarted
      /\ n.changed = tr.changed \cup (IF tr.started THEN Changes(prev, did)
                                      ELSE {id \in Ids : did[id] # None})
  BY NotedParts
<1>2. /\ r.since = tr.last /\ r.restarted = tr.restarted
      /\ r.revision = IF tr.revision = revision THEN None ELSE revision
      /\ r.marks = [id \in {i \in n.changed : tr.told[i] # did[i]} |-> did[id]]
      /\ r.values = [id \in {i \in Watches[t] : tr.values[i] # ret[i]} |-> ret[id]]
  BY <1>1 DEF Report
<1>3. /\ revision # None /\ did \in MarksOf /\ Watches[t] \subseteq Ids
      /\ rd.picture \in Picture
  BY DEF TypeOK, Reader
<1>4. CASE ~tr.started
  <2>1. /\ r.since = 0 /\ tr.revision = None /\ r.revision = revision
        /\ \A id \in Ids : tr.told[id] = None /\ tr.values[id] = None
        /\ n.changed = {id \in Ids : did[id] # None}
    BY <1>1, <1>2, <1>3, <1>4, NewTraceParts DEF InStep, NoMarks
  <2>2. [id \in Ids |-> IF id \in DOMAIN r.marks THEN r.marks[id] ELSE NoPicture.marks[id]] = did
    BY <1>2, <1>3, <2>1 DEF NoPicture, NoMarks, MarksOf
  <2>3. [id \in Ids |-> IF id \in DOMAIN r.values THEN r.values[id] ELSE NoPicture.values[id]]
          = [id \in Ids |-> IF id \in Watches[t] THEN ret[id] ELSE None]
    BY <1>2, <1>3, <2>1 DEF NoPicture, NoMarks
  <2> QED
    BY <1>3, <1>4, <2>1, <2>2, <2>3 DEF Fold, Full
<1>5. CASE tr.started
  <2> DEFINE p == rd.picture
             base == [p EXCEPT !.marks = [id \in Ids |-> IF id \in r.restarted THEN None ELSE @[id]],
                               !.values = [id \in Ids |-> IF id \in r.restarted THEN None ELSE @[id]]]
  <2>1. /\ base.marks = [id \in Ids |-> IF id \in r.restarted THEN None ELSE p.marks[id]]
        /\ base.values = [id \in Ids |-> IF id \in r.restarted THEN None ELSE p.values[id]]
        /\ base.revision = p.revision
    BY <1>3 DEF Picture
  <2>2. Fold(p, r) =
          [marks |-> [id \in Ids |-> IF id \in DOMAIN r.marks THEN r.marks[id] ELSE base.marks[id]],
           values |-> [id \in Ids |-> IF id \in DOMAIN r.values THEN r.values[id] ELSE base.values[id]],
           revision |-> IF r.revision = None THEN base.revision ELSE r.revision]
    BY <1>2, <1>5 DEF Fold, InStep
  <2> HIDE DEF base
  <2>3. ASSUME NEW id \in Ids
        PROVE  /\ id \notin DOMAIN r.marks => base.marks[id] = did[id]
               /\ id \notin DOMAIN r.values =>
                     base.values[id] = IF id \in Watches[t] THEN ret[id] ELSE None
    <3>1. id \notin tr.restarted => p.marks[id] = tr.told[id] /\ p.values[id] = tr.values[id]
      BY <1>5 DEF InStep
    <3>2. id \in tr.restarted => tr.told[id] = None /\ tr.values[id] = None
      BY <1>5 DEF InStep
    <3>3. base.marks[id] = tr.told[id] /\ base.values[id] = tr.values[id]
      BY <1>2, <2>1, <3>1, <3>2
    <3>4. id \notin n.changed => tr.told[id] = did[id]
      BY <1>1, <1>5 DEF InStep, Changes
    <3>5. id \notin DOMAIN r.marks => tr.told[id] = did[id]
      BY <1>2, <3>4
    <3>6. id \notin DOMAIN r.values =>
             tr.values[id] = IF id \in Watches[t] THEN ret[id] ELSE None
      BY <1>2, <1>5 DEF InStep
    <3> QED
      BY <3>3, <3>5, <3>6
  <2>4. [id \in Ids |-> IF id \in DOMAIN r.marks THEN r.marks[id] ELSE base.marks[id]] = did
    BY <1>2, <2>3 DEF MarksOf
  <2>5. [id \in Ids |-> IF id \in DOMAIN r.values THEN r.values[id] ELSE base.values[id]]
          = [id \in Ids |-> IF id \in Watches[t] THEN ret[id] ELSE None]
    <3>1. \A id \in DOMAIN r.values : id \in Watches[t] /\ r.values[id] = ret[id]
      BY <1>2
    <3> QED
      BY <2>3, <3>1
  <2>6. (IF r.revision = None THEN base.revision ELSE r.revision) = revision
    BY <1>2, <1>3, <1>5, <2>1 DEF InStep
  <2>7. Fold(p, r) = Full(t, did, ret)
    BY <2>2, <2>4, <2>5, <2>6 DEF Full
  <2>8. ASSUME IsEmpty(r)
        PROVE  p = Full(t, did, ret)
    <3>1. DOMAIN r.marks = {} /\ DOMAIN r.values = {} /\ r.restarted = {} /\ r.revision = None
      BY <2>8 DEF IsEmpty
    <3>2. Full(t, did, ret) \in Picture
      BY <1>3 DEF Full, Picture, MarksOf, ValuesOf, TypeOK
    <3>3. p.marks = did
      <4>1. \A id \in Ids : p.marks[id] = did[id]
        BY <2>1, <2>3, <3>1
      <4> QED
        BY <1>3, <4>1 DEF Picture, MarksOf
    <3>4. p.values = [id \in Ids |-> IF id \in Watches[t] THEN ret[id] ELSE None]
      <4>1. \A id \in Ids : p.values[id] = IF id \in Watches[t] THEN ret[id] ELSE None
        BY <2>1, <2>3, <3>1
      <4> QED
        BY <1>3, <4>1 DEF Picture
    <3>5. p.revision = revision
      BY <2>1, <2>6, <3>1
    <3> QED
      BY <1>3, <3>2, <3>3, <3>4, <3>5, PictureParts DEF Full
  <2> QED
    BY <2>7, <2>8
<1> QED
  BY <1>4, <1>5

\* A trace that made its report remembers all that the tick did (Trace::report).
LEMMA ToldAll ==
    ASSUME TypeOK, NEW t \in Traces, NEW tr \in Trace, NEW rd \in Reader,
           NEW did \in MarksOf, NEW ret \in ValuesOf, InStep(tr, rd, prev, t),
           NEW n, n = Noted(tr, did), NEW told, told = Told(n, t, did, ret)
    PROVE  /\ told \in Trace
           /\ told.started = tr.started /\ told.at = tr.at /\ told.last = tr.last
           /\ told.revision = tr.revision /\ told.changed = {} /\ told.restarted = {}
           /\ \A id \in Ids : /\ told.told[id] = did[id]
                              /\ told.values[id] = IF id \in Watches[t] THEN ret[id] ELSE None
<1>1. /\ n \in Trace /\ n.started = tr.started /\ n.at = tr.at
      /\ n.last = tr.last /\ n.revision = tr.revision /\ n.told = tr.told
      /\ n.values = tr.values
      /\ n.changed = tr.changed \cup (IF tr.started THEN Changes(prev, did)
                                      ELSE {id \in Ids : did[id] # None})
  BY NotedParts
<1>2. /\ told \in Trace
      /\ told.started = n.started /\ told.at = n.at /\ told.last = n.last
      /\ told.revision = n.revision /\ told.changed = {} /\ told.restarted = {}
      /\ told.told = [id \in Ids |-> IF id \in n.changed THEN did[id] ELSE n.told[id]]
      /\ told.values = [id \in Ids |-> IF id \in Watches[t] THEN ret[id] ELSE n.values[id]]
  BY <1>1, ToldParts
<1>3. ASSUME NEW id \in Ids
      PROVE  /\ id \notin n.changed => tr.told[id] = did[id]
             /\ id \notin Watches[t] => tr.values[id] = None
  <2>1. CASE tr.started
    BY <1>1, <2>1 DEF InStep, Changes
  <2>2. CASE ~tr.started
    <3>1. tr.told[id] = None /\ tr.values[id] = None
      BY <2>2, NewTraceParts DEF InStep, NoMarks
    <3> QED
      BY <1>1, <2>2, <3>1
  <2> QED
    BY <2>1, <2>2
<1> QED
  BY <1>1, <1>2, <1>3

\* The interval since the last report of t is not over.
Early(t, now) ==
    reader[t].at # None /\ now # None /\ now - reader[t].at < Interval[t]

\* A tick leaves every trace in step with its reader, which then has all that the
\* tick did, unless it has to wait or its report is not written (Traces::report).
LEMMA ReportedOne ==
    ASSUME TypeOK, ticks < MaxTicks, NEW t \in Traces, reader[t].tick <= ticks,
           Lowered(t) \in Trace, InStep(Lowered(t), reader[t], prev, t),
           NEW did \in MarksOf, NEW ret \in ValuesOf, NEW failed \in BOOLEAN,
           NEW now \in Nat \cup {None},
           NEW out, out = Reported(t, did, ret, failed, now)
    PROVE  /\ out.trace \in Trace /\ out.reader \in Reader
           /\ InStep(out.trace, out.reader, did, t)
           /\ \/ out.reader = reader[t] /\ (failed \/ Early(t, now))
              \/ /\ out.reader = reader[t] /\ ~failed /\ ~Early(t, now)
                 /\ out.reader.picture = Full(t, did, ret)
              \/ out.reader.tick = ticks + 1 /\ out.reader.picture = Full(t, did, ret)
<1> DEFINE tr == Lowered(t)
           rd == reader[t]
           n == Noted(tr, did)
           told == Told(n, t, did, ret)
           r == Report(n, t, did, ret)
           due == Due(tr, t, now)
<1>1. out = Outcome(t, n, due, told, r, failed, now)
  BY DEF Reported
<1>2. rd \in Reader
  BY DEF TypeOK, Reader
<1>3. /\ n \in Trace
      /\ n.started = tr.started /\ n.at = tr.at
      /\ n.last = tr.last /\ n.revision = tr.revision
      /\ n.told = tr.told /\ n.values = tr.values
      /\ n.restarted = tr.restarted
      /\ n.changed = tr.changed \cup (IF tr.started THEN Changes(prev, did)
                                      ELSE {id \in Ids : did[id] # None})
  BY NotedParts
<1>4. /\ told \in Trace
      /\ told.started = tr.started /\ told.at = tr.at /\ told.last = tr.last
      /\ told.revision = tr.revision /\ told.changed = {} /\ told.restarted = {}
      /\ \A id \in Ids : /\ told.told[id] = did[id]
                         /\ told.values[id] = IF id \in Watches[t] THEN ret[id] ELSE None
  BY <1>2, ToldAll
<1>5. /\ Fold(rd.picture, r) = Full(t, did, ret)
      /\ tr.started /\ IsEmpty(r) => rd.picture = Full(t, did, ret)
  BY <1>2, ReportsTrue
<1>6. IsEmpty(r) => tr.revision = revision
  <2>1. r.revision = IF n.revision = revision THEN None ELSE revision
    BY DEF Report
  <2> QED
    BY <1>3, <2>1 DEF IsEmpty, TypeOK
<1>7. ~due => tr.started
  BY NewTraceParts DEF Due, InStep
<1>8. tr.started => (due <=> ~Early(t, now))
  <2>1. tr.started => tr.at = rd.at
    BY DEF InStep
  <2>2. rd.at \in Nat \cup {None} /\ Interval[t] \in Nat
    BY <1>2 DEF Reader
  <2> QED
    BY <2>1, <2>2 DEF Due, Early
<1>9. /\ Full(t, did, ret) \in Picture /\ Full(t, did, ret).marks = did
      /\ Full(t, did, ret).values = [id \in Ids |-> IF id \in Watches[t] THEN ret[id] ELSE None]
      /\ Full(t, did, ret).revision = revision
  BY DEF Full, Picture, MarksOf, ValuesOf, TypeOK
<1> HIDE DEF n, told, r, due
<1>10. CASE ~due
  <2>1. out.trace = n /\ out.reader = rd
    BY <1>1, <1>10 DEF Outcome
  <2>2. tr.started /\ n.started
    BY <1>3, <1>7, <1>10
  <2>3. n.changed = tr.changed \cup Changes(prev, did)
    BY <1>3, <2>2
  <2>4. n.restarted \subseteq n.changed
    BY <1>3, <2>2, <2>3 DEF InStep
  <2>5. \A id \in Ids \ n.changed : n.told[id] = did[id]
    BY <1>3, <2>2, <2>3 DEF InStep, Changes
  <2>6. InStep(n, rd, did, t)
    BY <1>3, <2>2, <2>4, <2>5 DEF InStep
  <2> QED
    BY <1>2, <1>3, <1>8, <1>10, <2>1, <2>2, <2>6
<1>11. CASE due /\ tr.started /\ IsEmpty(r)
  <2>1. out.trace = told /\ out.reader = rd
    BY <1>1, <1>3, <1>11 DEF Outcome
  <2>2. rd.picture = Full(t, did, ret) /\ told.revision = revision /\ told.started
    BY <1>4, <1>5, <1>6, <1>11
  <2>3. told.last = rd.tick /\ told.last # 0 /\ told.at = rd.at
    BY <1>4, <1>11 DEF InStep
  <2>4. InStep(told, rd, did, t)
    BY <1>4, <1>9, <2>2, <2>3 DEF InStep
  <2> QED
    BY <1>2, <1>4, <1>8, <1>11, <2>1, <2>2, <2>4
<1>12. CASE due /\ ~(tr.started /\ IsEmpty(r)) /\ failed
  <2>1. out.trace = NewTrace /\ out.reader = rd
    BY <1>1, <1>3, <1>12 DEF Outcome
  <2>2. InStep(NewTrace, rd, did, t)
    BY NewTraceParts DEF InStep
  <2> QED
    BY <1>2, <1>12, <2>1, <2>2, NewTraceType
<1>13. CASE due /\ ~(tr.started /\ IsEmpty(r)) /\ ~failed
  <2> DEFINE pub == Published(told, now)
             full == Full(t, did, ret)
  <2>1. out = [trace |-> pub, reader |-> [picture |-> full, tick |-> ticks + 1, at |-> now]]
    BY <1>1, <1>3, <1>5, <1>13 DEF Outcome
  <2>2. /\ pub \in Trace
        /\ pub.started /\ pub.at = now /\ pub.last = ticks + 1 /\ pub.revision = revision
        /\ pub.told = told.told /\ pub.values = told.values
        /\ pub.changed = told.changed /\ pub.restarted = told.restarted
    BY <1>4, PublishedParts
  <2> HIDE DEF pub, full
  <2>3. /\ out.trace = pub /\ out.reader.picture = full
        /\ out.reader.tick = ticks + 1 /\ out.reader.at = now
    BY <2>1
  <2>4. ticks + 1 \in 0 .. MaxTicks /\ ticks + 1 # 0
    BY DEF TypeOK
  <2>5. out.reader \in Reader
    BY <1>9, <2>1, <2>4 DEF Reader, full
  <2>6. InStep(pub, out.reader, did, t)
    BY <1>4, <1>9, <2>2, <2>3, <2>4 DEF InStep, full
  <2> QED
    BY <2>2, <2>3, <2>5, <2>6 DEF full
<1> QED
  BY <1>10, <1>11, <1>12, <1>13

-----------------------------------------------------------------------------
(* The steps.                                                                *)

\* What some trace of T watches.
LEMMA WatchedByAny ==
    ASSUME NEW T \in SUBSET Traces
    PROVE  /\ WatchedBy(T) \in SUBSET Ids
           /\ \A id : id \in WatchedBy(T) <=> \E t \in T : id \in Watches[t]
  BY DEF WatchedBy

\* The traces that run are traces.
LEMMA RunningTraces ==
    ASSUME TypeOK
    PROVE  /\ Running \in SUBSET Traces
           /\ \A t \in Traces : t \in Running <=> traces[t] # None
           /\ \A t \in Running : traces[t] \in Trace
  BY DEF Running, TypeOK

\* The traces that run after a step that decides for each whether it does.
LEMMA RunningNext ==
    ASSUME NEW T \in SUBSET Traces, \A t \in Traces : t \in T <=> traces'[t] # None
    PROVE  Running' = T
  BY DEF Running

\* The device's time at a tick.
LEMMA NowType ==
    ASSUME TypeOK, NEW now \in IF time = None THEN {None} ELSE time .. MaxTime
    PROVE  now \in Nat \cup {None}
  BY DEF TypeOK

\* A lowering leaves the traces in step with their readers.
LEMMA LoweredInStep ==
    ASSUME TypeOK, TracesInStep, NEW t \in Running
    PROVE  Lowered(t) \in Trace /\ InStep(Lowered(t), reader[t], prev, t)
<1>1. /\ t \in Traces /\ traces[t] \in Trace /\ traces[t] # None
      /\ InStep(traces[t], reader[t], prev, t)
  BY RunningTraces DEF TracesInStep
<1>2. /\ Restart(traces[t]) \in Trace
      /\ InStep(Restart(traces[t]), reader[t], prev, t)
  BY <1>1, RestartInStep
<1> QED
  BY <1>1, <1>2 DEF Lowered

\* The tree and the record once the graph is lowered (BehaviorTree::tick).
LEMMA LoweringDone ==
    ASSUME TypeOK, Control, RecordsWhileTraced, Lowering
    PROVE  /\ tree' = IF dirty THEN graph ELSE tree
           /\ tree' # None /\ tree' \in SUBSET Ids /\ graph' = graph /\ revision' = revision
           /\ fresh' \in SUBSET Ids /\ dirty' \in BOOLEAN
           /\ record' = [on |-> Running # {}, watched |-> WatchedBy(Running)]
<1>1. CASE dirty
  BY <1>1 DEF Lowering, TypeOK
<1>2. CASE ~dirty
  BY <1>2 DEF Lowering, treeVars, TypeOK, Control, RecordsWhileTraced
<1> QED
  BY <1>1, <1>2

\* What the traces keep of a node's return across a lowering (Traces::restart).
LEMMA KeptOne ==
    ASSUME TypeOK, ReturnsTrue, NEW id \in Ids
    PROVE  /\ KeptReturns[id] \in Values \cup {None}
           /\ KeptReturns[id] # None => id \in WatchedBy(Running)
           /\ KeptReturns[id] # None => id \in (IF dirty THEN graph ELSE tree)
           /\ dirty /\ id \in fresh => KeptReturns[id] = None
           /\ dirty /\ id \in graph \ fresh => KeptReturns[id] = output[id]
           /\ ~dirty => KeptReturns[id] = output[id]
<1>1. /\ returns[id] = output[id] /\ returns[id] \in Values \cup {None}
      /\ returns[id] # None => tree # None /\ id \in tree /\ id \in WatchedBy(Running)
  BY DEF ReturnsTrue, TypeOK
<1>2. CASE ~dirty
  <2>1. KeptReturns[id] = returns[id]
    BY <1>2 DEF KeptReturns
  <2> QED
    BY <1>1, <1>2, <2>1
<1>3. CASE dirty
  <2>1. KeptReturns[id] = IF id \in (WatchedBy(Running) \cap graph) \ Restarted
                          THEN returns[id] ELSE None
    BY <1>3 DEF KeptReturns
  <2>2. Restarted \subseteq fresh
    BY DEF Restarted
  <2>3. ASSUME id \in fresh, id \in WatchedBy(Running), id \in graph, returns[id] # None
        PROVE  id \in Restarted
    <3>1. Running # {}
      BY <2>3, RunningTraces, WatchedByAny
    <3> QED
      BY <1>1, <2>3, <3>1 DEF Restarted
  <2> QED
    BY <1>1, <1>3, <2>1, <2>2, <2>3
<1> QED
  BY <1>2, <1>3

\* The first state.
LEMMA InitHolds == Init => IInv
<1> SUFFICES ASSUME Init
             PROVE  IInv
  OBVIOUS
<1>1. NoMarks \in MarksOf /\ NoMarks \in ValuesOf
  BY DEF NoMarks, MarksOf, ValuesOf
<1>2. /\ NoPicture \in Picture /\ NewReader \in Reader
      /\ NewReader.picture = NoPicture /\ NewReader.tick = 0
  BY <1>1 DEF NoPicture, Picture, NewReader, Reader, MarksOf, ValuesOf
<1>3. Running = {}
  BY DEF Init, Running
<1>4. TypeOK
  <2>1. /\ prev \in MarksOf /\ returns \in ValuesOf /\ output \in ValuesOf
    BY <1>1 DEF Init
  <2>2. /\ reader \in [Traces -> Reader] /\ seen \in [Traces -> Picture]
        /\ traces \in [Traces -> Trace \cup {None}]
    BY <1>2 DEF Init
  <2>3. record \in [on : BOOLEAN, watched : SUBSET Ids]
    BY DEF Init
  <2> QED
    BY <2>1, <2>2, <2>3 DEF Init, TypeOK, MarksOf, ValuesOf, Reader
<1>5. Control
  BY <1>2 DEF Init, Control
<1>6. RecordsWhileTraced
  BY DEF Init, RecordsWhileTraced
<1>7. ReturnsTrue
  BY DEF Init, ReturnsTrue, NoMarks
<1>8. TracesInStep
  BY <1>3 DEF TracesInStep
<1>9. \A t \in Traces : reader[t].picture = seen[t]
  BY <1>2 DEF Init
<1> QED
  BY <1>4, <1>5, <1>6, <1>7, <1>8, <1>9 DEF IInv

\* A trace starts (Traces::start).
LEMMA StartKeeps ==
    ASSUME IInv, NEW t \in Traces, Start(t)
    PROVE  IInv'
<1> USE DEF IInv
<1>1. /\ traces[t] = None /\ traces' = [traces EXCEPT ![t] = NewTrace]
      /\ Arm(Running \cup {t}, returns)
      /\ graph' = graph /\ revision' = revision /\ fresh' = fresh /\ dirty' = dirty
      /\ tree' = tree /\ prev' = prev /\ ticks' = ticks /\ time' = time
      /\ reader' = reader /\ seen' = seen /\ output' = output
  BY DEF Start, treeVars
<1>2. /\ traces'[t] = NewTrace /\ \A u \in Traces \ {t} : traces'[u] = traces[u]
      /\ traces' \in [Traces -> Trace \cup {None}]
  BY <1>1, NewTraceType DEF TypeOK
<1>3. Running \in SUBSET Traces /\ Running' = Running \cup {t}
  <2>1. \A u \in Traces : u \in Running \cup {t} <=> traces'[u] # None
    BY <1>2, RunningTraces, NewTraceType
  <2>2. Running \cup {t} \in SUBSET Traces
    BY RunningTraces
  <2>3. Running' = Running \cup {t}
    BY <2>1, <2>2, RunningNext
  <2> QED
    BY <2>3, RunningTraces
<1>4. /\ WatchedBy(Running \cup {t}) \in SUBSET Ids
      /\ \A id \in WatchedBy(Running) : id \in WatchedBy(Running \cup {t})
  BY <1>3, WatchedByAny
<1>5. returns' = returns
  <2>1. CASE tree = None
    BY <1>1, <2>1 DEF Arm
  <2>2. CASE tree # None
    <3>1. returns' = [id \in Ids |-> IF id \in WatchedBy(Running \cup {t}) THEN returns[id] ELSE None]
      BY <1>1, <2>2 DEF Arm
    <3>2. \A id \in Ids : returns'[id] = returns[id]
      BY <1>4, <3>1 DEF ReturnsTrue
    <3> QED
      BY <3>1, <3>2 DEF TypeOK
  <2> QED
    BY <2>1, <2>2
<1>6. /\ record' \in [on : BOOLEAN, watched : SUBSET Ids]
      /\ tree # None => record' = [on |-> Running \cup {t} # {}, watched |-> WatchedBy(Running \cup {t})]
  <2>1. CASE tree = None
    BY <1>1, <2>1 DEF Arm, TypeOK
  <2>2. CASE tree # None
    <3>1. record' = [on |-> Running \cup {t} # {}, watched |-> WatchedBy(Running \cup {t})]
      BY <1>1, <2>2 DEF Arm
    <3>2. (Running \cup {t} # {}) \in BOOLEAN
      OBVIOUS
    <3> QED
      BY <1>4, <3>1, <3>2, Zenon
  <2> QED
    BY <2>1, <2>2
<1>7. TypeOK'
  BY <1>1, <1>2, <1>5, <1>6 DEF TypeOK
<1>8. Control'
  BY <1>1 DEF Control
<1>9. RecordsWhileTraced'
  BY <1>1, <1>3, <1>6 DEF RecordsWhileTraced
<1>10. ReturnsTrue'
  BY <1>1, <1>3, <1>4, <1>5 DEF ReturnsTrue
<1>11. TracesInStep'
  <2>1. InStep(NewTrace, reader[t], prev, t)
    BY NewTraceParts DEF InStep
  <2>2. ASSUME NEW u \in Running'
        PROVE  InStep(traces'[u], reader'[u], prev', u)
    <3>1. CASE u = t
      BY <1>1, <1>2, <2>1, <3>1
    <3>2. CASE u # t
      BY <1>1, <1>2, <1>3, <2>2, <3>2 DEF TracesInStep
    <3> QED
      BY <3>1, <3>2
  <2> QED
    BY <2>2 DEF TracesInStep
<1> QED
  BY <1>1, <1>7, <1>8, <1>9, <1>10, <1>11

\* A trace is halted (Traces::halt).
LEMMA HaltKeeps ==
    ASSUME IInv, NEW t \in Traces, Halt(t)
    PROVE  IInv'
<1> USE DEF IInv
<1> DEFINE held == IF Running = {t} THEN NoMarks ELSE returns
<1>1. /\ traces[t] # None /\ traces' = [traces EXCEPT ![t] = None]
      /\ prev' = IF Running = {t} THEN NoMarks ELSE prev
      /\ Arm(Running \ {t}, held)
      /\ reader' = [reader EXCEPT ![t] = NewReader]
      /\ seen' = [seen EXCEPT ![t] = NoPicture]
      /\ output' = [id \in Ids |-> IF id \in WatchedBy(Running \ {t}) THEN output[id] ELSE None]
      /\ graph' = graph /\ revision' = revision /\ fresh' = fresh /\ dirty' = dirty
      /\ tree' = tree /\ ticks' = ticks /\ time' = time
  BY DEF Halt, Forgotten, treeVars
<1>2. /\ traces'[t] = None /\ \A u \in Traces \ {t} : traces'[u] = traces[u]
      /\ traces' \in [Traces -> Trace \cup {None}]
  BY <1>1 DEF TypeOK
<1>3. Running \in SUBSET Traces /\ Running' = Running \ {t}
  <2>1. \A u \in Traces : u \in Running \ {t} <=> traces'[u] # None
    BY <1>2, RunningTraces
  <2> QED
    BY <2>1, RunningTraces, RunningNext
<1>4. WatchedBy(Running \ {t}) \in SUBSET Ids
  BY <1>3, WatchedByAny
<1>5. NoMarks \in MarksOf /\ NoMarks \in ValuesOf /\ \A id \in Ids : NoMarks[id] = None
  BY DEF NoMarks, MarksOf, ValuesOf
<1>6. Running = {t} => \A id \in Ids : id \notin WatchedBy(Running \ {t})
  BY <1>3, WatchedByAny
<1>7. returns' \in ValuesOf /\ returns' = output'
  <2>1. CASE tree = None
    <3>1. returns' = held
      BY <1>1, <2>1 DEF Arm
    <3>2. \A id \in Ids : returns[id] = None /\ output[id] = None
      BY <2>1 DEF ReturnsTrue
    <3>3. \A id \in Ids : returns'[id] = None /\ output'[id] = None
      BY <1>1, <1>5, <3>1, <3>2
    <3>4. returns' \in ValuesOf
      BY <1>5, <3>1 DEF TypeOK, ValuesOf
    <3> QED
      BY <1>1, <3>3, <3>4 DEF ValuesOf
  <2>2. CASE tree # None
    <3>1. returns' = [id \in Ids |-> IF id \in WatchedBy(Running \ {t}) THEN held[id] ELSE None]
      BY <1>1, <2>2 DEF Arm
    <3>2. \A id \in Ids : /\ returns'[id] = output'[id]
                          /\ returns'[id] \in Values \cup {None}
      BY <1>1, <1>6, <3>1 DEF ReturnsTrue, TypeOK
    <3> QED
      BY <1>1, <3>1, <3>2 DEF ValuesOf
  <2> QED
    BY <2>1, <2>2
<1>8. /\ record' \in [on : BOOLEAN, watched : SUBSET Ids]
      /\ tree # None => record' = [on |-> Running \ {t} # {}, watched |-> WatchedBy(Running \ {t})]
  <2>1. CASE tree = None
    BY <1>1, <2>1 DEF Arm, TypeOK
  <2>2. CASE tree # None
    <3>1. record' = [on |-> Running \ {t} # {}, watched |-> WatchedBy(Running \ {t})]
      BY <1>1, <2>2 DEF Arm
    <3>2. (Running \ {t} # {}) \in BOOLEAN
      OBVIOUS
    <3> QED
      BY <1>4, <3>1, <3>2, Zenon
  <2> QED
    BY <2>1, <2>2
<1>9. /\ NoPicture \in Picture /\ NewReader \in Reader
      /\ NewReader.picture = NoPicture /\ NewReader.tick = 0
  BY <1>5 DEF NoPicture, Picture, NewReader, Reader, MarksOf, ValuesOf
<1>10. /\ reader' \in [Traces -> Reader] /\ seen' \in [Traces -> Picture]
       /\ reader'[t] = NewReader /\ seen'[t] = NoPicture
       /\ \A u \in Traces \ {t} : reader'[u] = reader[u] /\ seen'[u] = seen[u]
  BY <1>1, <1>9 DEF TypeOK, Reader
<1>11. prev' \in MarksOf
  BY <1>1, <1>5 DEF TypeOK, MarksOf
<1>12. TypeOK'
  BY <1>1, <1>2, <1>7, <1>8, <1>10, <1>11 DEF TypeOK, MarksOf, ValuesOf, Reader
<1>13. Control'
  <2>1. \A u \in Traces : reader'[u].tick <= ticks
    BY <1>9, <1>10 DEF Control, TypeOK
  <2> QED
    BY <1>1, <2>1 DEF Control
<1>14. RecordsWhileTraced'
  BY <1>1, <1>3, <1>8 DEF RecordsWhileTraced
<1>15. ReturnsTrue'
  BY <1>1, <1>3, <1>7 DEF ReturnsTrue
<1>16. TracesInStep'
  <2>1. ASSUME NEW u \in Running'
        PROVE  InStep(traces'[u], reader'[u], prev', u)
    <3>1. u \in Running /\ u # t /\ u \in Traces /\ Running # {t}
      BY <1>3, <2>1
    <3> QED
      BY <1>1, <1>2, <1>10, <3>1 DEF TracesInStep
  <2> QED
    BY <2>1 DEF TracesInStep
<1>17. \A u \in Traces : reader'[u].picture = seen'[u]
  BY <1>9, <1>10
<1> QED
  BY <1>12, <1>13, <1>14, <1>15, <1>16, <1>17

\* The behavior is edited (BehaviorTree::edit).
LEMMA EditKeeps ==
    ASSUME IInv, NEW S \in SUBSET Ids, NEW R \in SUBSET Ids, Edit(S, R)
    PROVE  IInv'
<1> USE DEF IInv
<1>1. /\ graph' = (graph \cup S) \ R /\ revision < MaxEdits /\ revision' = revision + 1
      /\ fresh' = fresh \cup S /\ dirty' = TRUE /\ tree' = tree
      /\ record' = record /\ prev' = prev /\ returns' = returns /\ traces' = traces
      /\ ticks' = ticks /\ time' = time /\ reader' = reader /\ seen' = seen /\ output' = output
  BY DEF Edit, traceVars
<1>2. Running' = Running
  BY <1>1 DEF Running
<1>3. TypeOK'
  <2>1. revision' \in 0 .. MaxEdits /\ graph' \in SUBSET Ids /\ fresh' \in SUBSET Ids
    BY <1>1 DEF TypeOK
  <2> QED
    BY <1>1, <2>1 DEF TypeOK
<1>4. Control' /\ RecordsWhileTraced' /\ ReturnsTrue' /\ TracesInStep'
  BY <1>1, <1>2 DEF Control, RecordsWhileTraced, ReturnsTrue, TracesInStep
<1> QED
  BY <1>1, <1>3, <1>4

\* A tick ends before its tree is lowered (BehaviorTree::tick).
LEMMA TickFailsKeeps ==
    ASSUME IInv, NEW now \in Nat \cup {None}, TickFails(now)
    PROVE  IInv'
<1> USE DEF IInv
<1>1. /\ graph' = graph /\ revision' = revision /\ fresh' = fresh /\ dirty' = dirty
      /\ tree' = tree /\ record' = record /\ prev' = prev /\ returns' = returns
      /\ traces' = traces /\ ticks < MaxTicks /\ ticks' = ticks + 1 /\ time' = now
      /\ reader' = reader /\ seen' = seen /\ output' = output
  BY DEF TickFails, treeVars, traceVars
<1>2. Running' = Running
  BY <1>1 DEF Running
<1>3. TypeOK'
  <2>1. ticks' \in 0 .. MaxTicks
    BY <1>1 DEF TypeOK
  <2> QED
    BY <1>1, <2>1 DEF TypeOK
<1>4. Control'
  BY <1>1 DEF Control, TypeOK
<1>5. RecordsWhileTraced' /\ ReturnsTrue' /\ TracesInStep'
  BY <1>1, <1>2 DEF RecordsWhileTraced, ReturnsTrue, TracesInStep
<1> QED
  BY <1>1, <1>3, <1>4, <1>5

\* One ends once its tree is lowered (BehaviorTree::tick).
LEMMA TickFailsLoweredKeeps ==
    ASSUME IInv, NEW now \in Nat \cup {None}, TickFailsLowered(now)
    PROVE  IInv'
<1> USE DEF IInv
<1>1. /\ ticks < MaxTicks /\ ticks' = ticks + 1 /\ time' = now /\ dirty /\ Lowering
      /\ traces' = [t \in Traces |-> Lowered(t)] /\ returns' = KeptReturns
      /\ output' = [id \in Ids |-> IF id \in graph \ fresh THEN output[id] ELSE None]
      /\ prev' = prev /\ reader' = reader /\ seen' = seen
  BY DEF TickFailsLowered
<1>2. /\ tree' = graph /\ tree' # None /\ tree' \in SUBSET Ids
      /\ graph' = graph /\ revision' = revision
      /\ fresh' \in SUBSET Ids /\ dirty' \in BOOLEAN
      /\ record' = [on |-> Running # {}, watched |-> WatchedBy(Running)]
  BY <1>1, LoweringDone
<1>3. /\ \A t \in Running : /\ t \in Traces /\ Lowered(t) \in Trace
                            /\ InStep(Lowered(t), reader[t], prev, t)
      /\ \A t \in Traces \ Running : Lowered(t) = None
  BY LoweredInStep, RunningTraces DEF Lowered
<1>4. Running \in SUBSET Traces /\ Running' = Running
  <2>1. \A t \in Traces : t \in Running <=> traces'[t] # None
    BY <1>1, <1>3
  <2> QED
    BY <2>1, RunningTraces, RunningNext
<1>5. traces' \in [Traces -> Trace \cup {None}]
  BY <1>1, <1>3
<1>6. ASSUME NEW id \in Ids
      PROVE  /\ KeptReturns[id] = output'[id] /\ KeptReturns[id] \in Values \cup {None}
             /\ KeptReturns[id] # None => id \in graph /\ id \in WatchedBy(Running)
  BY <1>1, KeptOne
<1>7. returns' = output' /\ returns' \in ValuesOf
  <2>1. returns' = [id \in Ids |-> IF id \in (WatchedBy(Running) \cap graph) \ Restarted
                                   THEN returns[id] ELSE None]
    BY <1>1 DEF KeptReturns
  <2>2. \A id \in Ids : returns'[id] = output'[id] /\ returns'[id] \in Values \cup {None}
    BY <1>1, <1>6
  <2> QED
    BY <1>1, <2>1, <2>2 DEF ValuesOf
<1>8. record' \in [on : BOOLEAN, watched : SUBSET Ids]
  <2>1. (Running # {}) \in BOOLEAN /\ WatchedBy(Running) \in SUBSET Ids
    BY <1>4, WatchedByAny
  <2> QED
    BY <1>2, <2>1, Zenon
<1>9. TypeOK'
  <2>1. ticks' \in 0 .. MaxTicks
    BY <1>1 DEF TypeOK
  <2> QED
    BY <1>1, <1>2, <1>5, <1>7, <1>8, <2>1 DEF TypeOK, ValuesOf
<1>10. Control'
  BY <1>1, <1>2 DEF Control, TypeOK
<1>11. RecordsWhileTraced'
  BY <1>2, <1>4 DEF RecordsWhileTraced
<1>12. ReturnsTrue'
  BY <1>1, <1>2, <1>4, <1>6, <1>7 DEF ReturnsTrue
<1>13. TracesInStep'
  BY <1>1, <1>3, <1>4 DEF TracesInStep
<1> QED
  BY <1>1, <1>9, <1>10, <1>11, <1>12, <1>13

\* What the nodes returned, as a tick leaves it (Record::take).
Said(did, ret) ==
    [id \in Ids |-> IF record'.on /\ id \in record'.watched \cap DOMAIN ret
                    THEN ret[id] ELSE KeptReturns[id]]

\* After a tick, what the traces keep of the nodes' returns is what these are.
LEMMA SaidTrue ==
    ASSUME IInv, NEW did \in MarksOf, NEW S \in SUBSET Ids, NEW ret \in [S -> Values \cup {None}],
           NEW F, NEW now, Tick(did, ret, F, now)
    PROVE  /\ Said(did, ret) \in ValuesOf
           /\ returns' = Said(did, ret) /\ Said(did, ret) = output'
           /\ \A id \in Ids : output'[id] # None => id \in tree' /\ id \in WatchedBy(Running)
<1> USE DEF IInv
<1>1. /\ Lowering /\ returns' = Said(did, ret)
      /\ \A id \in Ids : did[id] # None => id \in tree'
      /\ \A id \in S : did[id] # None
      /\ output' = [id \in Ids |-> IF id \notin tree' \/ id \notin WatchedBy(Running) THEN None
                                   ELSE IF id \in S THEN ret[id]
                                   ELSE IF dirty /\ id \in fresh THEN None
                                   ELSE output[id]]
  BY DEF Tick, Said
<1>2. /\ tree' = IF dirty THEN graph ELSE tree
      /\ record' = [on |-> Running # {}, watched |-> WatchedBy(Running)]
  BY <1>1, LoweringDone
<1>3. record'.watched = WatchedBy(Running) /\ record'.on = (Running # {})
  BY <1>2
<1>4. \A id \in Ids : id \in WatchedBy(Running) => Running # {}
  BY RunningTraces, WatchedByAny
<1>5. ASSUME NEW id \in Ids
      PROVE  /\ Said(did, ret)[id] = output'[id] /\ Said(did, ret)[id] \in Values \cup {None}
             /\ output'[id] # None => id \in tree' /\ id \in WatchedBy(Running)
  <2>1. Said(did, ret)[id] = IF id \in WatchedBy(Running) /\ id \in S
                             THEN ret[id] ELSE KeptReturns[id]
    BY <1>3, <1>4 DEF Said
  <2>2. output'[id] = IF id \notin tree' \/ id \notin WatchedBy(Running) THEN None
                      ELSE IF id \in S THEN ret[id]
                      ELSE IF dirty /\ id \in fresh THEN None
                      ELSE output[id]
    BY <1>1
  <2>3. id \in S => ret[id] \in Values \cup {None}
    OBVIOUS
  <2>4. /\ KeptReturns[id] \in Values \cup {None}
        /\ KeptReturns[id] # None => id \in WatchedBy(Running)
        /\ KeptReturns[id] # None => id \in tree'
        /\ dirty /\ id \in fresh => KeptReturns[id] = None
        /\ dirty /\ id \in tree' /\ id \notin fresh => KeptReturns[id] = output[id]
        /\ ~dirty => KeptReturns[id] = output[id]
    BY <1>2, KeptOne
  <2> QED
    BY <1>1, <2>1, <2>2, <2>3, <2>4
<1>6. /\ Said(did, ret) = output' /\ Said(did, ret) \in ValuesOf
  BY <1>1, <1>5 DEF Said, ValuesOf
<1> QED
  BY <1>1, <1>5, <1>6

\* A tick (BehaviorTree::tick, Traces::report).
LEMMA TickKeeps ==
    ASSUME IInv, NEW did \in MarksOf, NEW S \in SUBSET Ids, NEW ret \in [S -> Values \cup {None}],
           NEW F \in SUBSET Running, NEW now \in Nat \cup {None}, Tick(did, ret, F, now)
    PROVE  IInv'
<1> USE DEF IInv
<1> DEFINE said == Said(did, ret)
           out(t) == Reported(t, did, said, t \in F, now)
<1>1. /\ ticks < MaxTicks /\ ticks' = ticks + 1 /\ time' = now /\ Lowering
  BY DEF Tick
<1>2. /\ said \in ValuesOf /\ returns' = said /\ said = output'
      /\ \A id \in Ids : output'[id] # None => id \in tree' /\ id \in WatchedBy(Running)
  BY SaidTrue
<1>3. /\ tree' # None /\ tree' \in SUBSET Ids
      /\ graph' = graph /\ revision' = revision
      /\ fresh' \in SUBSET Ids /\ dirty' \in BOOLEAN
      /\ record' = [on |-> Running # {}, watched |-> WatchedBy(Running)]
  BY <1>1, LoweringDone
<1>4. /\ Running # {} => prev' = did
      /\ Running = {} => prev' = prev
      /\ \A t \in Traces : traces'[t] = IF t \in Running THEN out(t).trace ELSE None
      /\ \A t \in Traces : reader'[t] = IF t \in Running THEN out(t).reader ELSE reader[t]
      /\ traces' = [t \in Traces |-> traces'[t]] /\ reader' = [t \in Traces |-> reader'[t]]
      /\ seen' = [t \in Traces |-> IF t \in Running
                                   THEN OughtToSee(t, did, output', t \in F, now) ELSE seen[t]]
  <2> DEFINE marked == IF record'.on THEN did ELSE NoMarks
             made == [t \in Running |-> Reported(t, marked, said, t \in F, now)]
  <2>1. /\ prev' = IF Running # {} THEN marked ELSE prev
        /\ traces' = [t \in Traces |-> IF t \in Running THEN made[t].trace ELSE None]
        /\ reader' = [t \in Traces |-> IF t \in Running THEN made[t].reader ELSE reader[t]]
        /\ seen' = [t \in Traces |-> IF t \in Running
                                     THEN OughtToSee(t, did, output', t \in F, now) ELSE seen[t]]
    BY DEF Tick, Said
  <2>2. Running # {} => marked = did
    BY <1>3
  <2>3. \A t \in Running : made[t] = out(t)
    BY <2>2
  <2> HIDE DEF made, marked, out
  <2> QED
    BY <2>1, <2>2, <2>3
<1>5. ASSUME NEW t \in Running
      PROVE  /\ t \in Traces /\ traces'[t] \in Trace /\ reader'[t] \in Reader
             /\ InStep(traces'[t], reader'[t], did, t)
             /\ reader'[t].tick <= ticks + 1
             /\ seen'[t] \in Picture /\ reader'[t].picture = seen'[t]
  <2>1. /\ t \in Traces /\ Lowered(t) \in Trace
        /\ InStep(Lowered(t), reader[t], prev, t)
    BY LoweredInStep, RunningTraces
  <2>2. reader[t].tick <= ticks /\ reader[t] \in Reader /\ reader[t].picture = seen[t]
    BY <2>1 DEF Control, TypeOK, Reader
  <2>3. /\ out(t).trace \in Trace /\ out(t).reader \in Reader
        /\ InStep(out(t).trace, out(t).reader, did, t)
        /\ \/ out(t).reader = reader[t] /\ (t \in F \/ Early(t, now))
           \/ /\ out(t).reader = reader[t] /\ ~(t \in F) /\ ~Early(t, now)
              /\ out(t).reader.picture = Full(t, did, said)
           \/ out(t).reader.tick = ticks + 1 /\ out(t).reader.picture = Full(t, did, said)
    <3>1. PICK f \in BOOLEAN, v \in ValuesOf : f = (t \in F) /\ v = said
      <4>1. (t \in F) \in BOOLEAN
        OBVIOUS
      <4> HIDE DEF said, out
      <4> QED
        BY <1>2, <4>1, Zenon
    <3>2. PICK o : o = Reported(t, did, v, f, now)
      OBVIOUS
    <3>3. TypeOK
      OBVIOUS
    <3>4. o = out(t)
      BY <3>1, <3>2
    <3> HIDE DEF said, out, IInv
    <3>5. /\ o.trace \in Trace /\ o.reader \in Reader
          /\ InStep(o.trace, o.reader, did, t)
          /\ \/ o.reader = reader[t] /\ (f \/ Early(t, now))
             \/ /\ o.reader = reader[t] /\ ~f /\ ~Early(t, now)
                /\ o.reader.picture = Full(t, did, v)
             \/ o.reader.tick = ticks + 1 /\ o.reader.picture = Full(t, did, v)
      BY <1>1, <2>1, <2>2, <3>2, <3>3, ReportedOne
    <3> QED
      BY <3>1, <3>4, <3>5
  <2>4. traces'[t] = out(t).trace /\ reader'[t] = out(t).reader
    BY <1>4, <2>1
  <2>5. ticks \in Nat /\ reader[t].tick \in Nat
    BY <2>2 DEF TypeOK, Reader
  <2>6. seen'[t] = IF reader'[t].tick # ticks' /\ (t \in F \/ Early(t, now))
                   THEN seen[t] ELSE Full(t, did, output')
    BY <1>4, <2>1 DEF OughtToSee, Early, Full
  <2>7. Full(t, did, said) \in Picture /\ seen[t] \in Picture
    BY <1>2, <2>1 DEF Full, Picture, MarksOf, ValuesOf, TypeOK
  <2> HIDE DEF out, said
  <2>8. reader'[t].tick <= ticks + 1
    BY <2>2, <2>3, <2>4, <2>5
  <2>9. reader'[t].picture = seen'[t]
    <3>1. CASE out(t).reader = reader[t] /\ (t \in F \/ Early(t, now))
      BY <1>1, <2>2, <2>4, <2>5, <2>6, <3>1
    <3>2. CASE /\ out(t).reader = reader[t] /\ ~(t \in F) /\ ~Early(t, now)
               /\ out(t).reader.picture = Full(t, did, said)
      BY <1>2, <2>4, <2>6, <3>2
    <3>3. CASE out(t).reader.tick = ticks + 1 /\ out(t).reader.picture = Full(t, did, said)
      BY <1>1, <1>2, <2>4, <2>6, <3>3
    <3> QED
      BY <2>3, <3>1, <3>2, <3>3
  <2>10. seen'[t] \in Picture
    BY <1>2, <2>6, <2>7
  <2> QED
    BY <2>1, <2>3, <2>4, <2>8, <2>9, <2>10
<1> HIDE DEF out, said
<1>6. ASSUME NEW t \in Traces \ Running
      PROVE  traces'[t] = None /\ reader'[t] = reader[t] /\ seen'[t] = seen[t]
  BY <1>4
<1>7. Running \in SUBSET Traces /\ Running' = Running
  <2>1. \A t \in Traces : t \in Running <=> traces'[t] # None
    BY <1>5, <1>6
  <2> QED
    BY <2>1, RunningTraces, RunningNext
<1>8. record' \in [on : BOOLEAN, watched : SUBSET Ids]
  <2>1. (Running # {}) \in BOOLEAN /\ WatchedBy(Running) \in SUBSET Ids
    BY <1>7, WatchedByAny
  <2> QED
    BY <1>3, <2>1, Zenon
<1>9. TypeOK'
  <2>1. ticks' \in 0 .. MaxTicks
    BY <1>1 DEF TypeOK
  <2>2. /\ \A t \in Traces : traces'[t] \in Trace \cup {None} /\ reader'[t] \in Reader
        /\ \A t \in Traces : seen'[t] \in Picture
    BY <1>5, <1>6 DEF TypeOK, Reader
  <2>3. /\ traces' \in [Traces -> Trace \cup {None}] /\ reader' \in [Traces -> Reader]
        /\ seen' \in [Traces -> Picture]
    BY <1>4, <2>2
  <2>4. prev' \in MarksOf
    BY <1>4 DEF TypeOK, MarksOf
  <2> QED
    BY <1>1, <1>2, <1>3, <1>8, <2>1, <2>3, <2>4 DEF TypeOK, MarksOf, ValuesOf, Reader
<1>10. Control'
  <2>1. \A t \in Traces : reader'[t].tick <= ticks + 1
    <3>1. ASSUME NEW t \in Traces \ Running
          PROVE  reader'[t].tick <= ticks + 1
      BY <1>6 DEF Control, TypeOK
    <3> QED
      BY <1>5, <3>1
  <2> QED
    BY <1>1, <1>3, <2>1 DEF Control
<1>11. RecordsWhileTraced'
  BY <1>3, <1>7 DEF RecordsWhileTraced
<1>12. ReturnsTrue'
  BY <1>2, <1>3, <1>7 DEF ReturnsTrue
<1>13. TracesInStep'
  <2>1. ASSUME NEW t \in Running'
        PROVE  InStep(traces'[t], reader'[t], prev', t)
    <3>1. t \in Running /\ prev' = did
      BY <1>4, <1>7, <2>1
    <3> QED
      BY <1>5, <3>1
  <2> QED
    BY <2>1 DEF TracesInStep
<1>14. \A t \in Traces : reader'[t].picture = seen'[t]
  BY <1>5, <1>6
<1> QED
  BY <1>9, <1>10, <1>11, <1>12, <1>13, <1>14

\* Every step keeps the invariant.
LEMMA NextKeeps ==
    ASSUME IInv, [Next]_vars
    PROVE  IInv'
<1>1. CASE Next
  <2>1. ASSUME NEW t \in Traces, Start(t) \/ Halt(t)
        PROVE  IInv'
    BY <2>1, StartKeeps, HaltKeeps
  <2>2. ASSUME NEW S \in SUBSET Ids, NEW R \in SUBSET Ids, Edit(S, R)
        PROVE  IInv'
    BY <2>2, EditKeeps
  <2>3. ASSUME NEW now \in IF time = None THEN {None} ELSE time .. MaxTime,
               \/ \E did \in [Ids -> Marks \cup {None}], S \in SUBSET WatchedBy(Running),
                     F \in SUBSET Running :
                        \E ret \in [S -> Values \cup {None}] : Tick(did, ret, F, now)
               \/ TickFails(now) \/ TickFailsLowered(now)
        PROVE  IInv'
    <3>1. now \in Nat \cup {None}
      BY NowType DEF IInv
    <3>2. ASSUME NEW did \in MarksOf, NEW S \in SUBSET WatchedBy(Running),
                 NEW ret \in [S -> Values \cup {None}], NEW F \in SUBSET Running,
                 Tick(did, ret, F, now)
          PROVE  IInv'
      <4>1. S \in SUBSET Ids
        BY RunningTraces, WatchedByAny DEF IInv
      <4> QED
        BY <3>1, <3>2, <4>1, TickKeeps
    <3> QED
      BY <2>3, <3>1, <3>2, TickFailsKeeps, TickFailsLoweredKeeps DEF MarksOf
  <2> QED
    BY <1>1, <2>1, <2>2, <2>3 DEF Next
<1>2. CASE UNCHANGED vars
  <2>1. Running' = Running
    BY <1>2 DEF vars, traceVars, Running
  <2>2. TypeOK' /\ Control'
    BY <1>2 DEF IInv, vars, treeVars, traceVars, TypeOK, Control
  <2>3. RecordsWhileTraced' /\ ReturnsTrue' /\ TracesInStep'
    BY <1>2, <2>1 DEF IInv, vars, treeVars, traceVars, RecordsWhileTraced, ReturnsTrue, TracesInStep
  <2> QED
    BY <1>2, <2>2, <2>3 DEF IInv, vars
<1> QED
  BY <1>1, <1>2

-----------------------------------------------------------------------------
(* The theorems.                                                             *)

\* The invariant that carries the others: traces and readers are in step, and the
\* returns kept are the nodes' own (Traces).
THEOREM Invariant == Spec => []IInv
<1>1. IInv /\ [Next]_vars => IInv'
  BY NextKeeps
<1> QED
  BY InitHolds, <1>1, PTL DEF Spec

\* Every variable keeps its type (Traces, Trace, Record).
THEOREM TypeCorrect == Spec => []TypeOK
<1>1. IInv => TypeOK
  BY DEF IInv
<1> QED
  BY Invariant, <1>1, PTL

\* For any traces, at any pace, the reports of each add up to what the tick of the
\* last one did, each naming the tick of the one before it (Traces::report).
THEOREM ReportsAddUp == Spec => []ReadsTrue
<1>1. IInv => ReadsTrue
  <2> SUFFICES ASSUME IInv, NEW t \in Running
               PROVE  /\ reader[t].picture = seen[t]
                      /\ traces[t].started => traces[t].last = reader[t].tick
    BY DEF ReadsTrue
  <2>1. t \in Traces
    BY RunningTraces DEF IInv
  <2> QED
    BY <2>1 DEF IInv, TracesInStep, InStep
<1> QED
  BY Invariant, <1>1, PTL

\* The nodes record their ticks exactly while a trace runs (Traces::arm).
THEOREM RecordsOnlyTraced == Spec => []RecordsWhileTraced
<1>1. IInv => RecordsWhileTraced
  BY DEF IInv
<1> QED
  BY Invariant, <1>1, PTL
=============================================================================
