--------------------------- MODULE ScaffoldProofs ---------------------------
(***************************************************************************)
(* What holds of the interpreter's one graph for every set of ids, every   *)
(* behavior, fragment and edit that clients may send, and every revision   *)
(* counter that has more than two values.                                  *)
(*                                                                         *)
(* A walk over the graph is a recursive function.  WalksAreHulls says what *)
(* it finds, the least set closed under children, by induction on the      *)
(* finite sets of ids; every later fact about walks rests on ReachHolds,   *)
(* ReachLeast and ReachAgrees.                                             *)
(*                                                                         *)
(* The inductive invariant is ScaffoldInv: the fields are typed, the       *)
(* runner has the main root and every decorator among its children, and    *)
(* the graph under it has no cycle.  Each function of the interpreter is   *)
(* described by a lemma of its own, as a relation between the interpreter  *)
(* before and after it; the theorems compose those.                        *)
(***************************************************************************)
EXTENDS Scaffold, FiniteSetTheorems, TLAPS

------------------------------------------------------------------------------
(* What a walk finds *)

\* The sets a walk over the children of nodes does not leave.
Closed(nodes, C) == \A x \in C \cap DOMAIN nodes : nodes[x].kids \subseteq C

\* The least closed set that holds S.
Hull(nodes, S) ==
    {x \in AllIds : \A C \in SUBSET AllIds : S \subseteq C /\ Closed(nodes, C) => x \in C}

\* Children are ids.
KidsKnown(nodes) == \A x \in DOMAIN nodes : nodes[x].kids \subseteq AllIds

\* One step of a walk, and a function that takes such steps until none finds more.
Stepped(nodes, found) == found \cup UNION {nodes[x].kids : x \in found \cap DOMAIN nodes}

IsWalk(nodes, walk) ==
    walk = [found \in SUBSET AllIds |->
                IF Stepped(nodes, found) = found THEN found ELSE walk[Stepped(nodes, found)]]

\* The function that maps a set to its hull is a walk: a step of reach does not
\* change the hull, and a set that no step changes is its own hull.
LEMMA HullWalks ==
    ASSUME NEW nodes, KidsKnown(nodes)
    PROVE  IsWalk(nodes, [found \in SUBSET AllIds |-> Hull(nodes, found)])
<1> DEFINE hull == [found \in SUBSET AllIds |-> Hull(nodes, found)]
<1>1. ASSUME NEW found \in SUBSET AllIds
      PROVE  /\ Stepped(nodes, found) \in SUBSET AllIds
             /\ found \subseteq Stepped(nodes, found)
      BY DEF Stepped, KidsKnown
<1>2. ASSUME NEW found \in SUBSET AllIds, Stepped(nodes, found) = found
      PROVE  Hull(nodes, found) = found
  <2>1. Closed(nodes, found)
    BY <1>2 DEF Stepped, Closed
  <2> QED  BY <2>1 DEF Hull
<1>3. ASSUME NEW found \in SUBSET AllIds
      PROVE  Hull(nodes, found) = Hull(nodes, Stepped(nodes, found))
  <2>1. ASSUME NEW C \in SUBSET AllIds, Closed(nodes, C)
        PROVE  found \subseteq C <=> Stepped(nodes, found) \subseteq C
    BY <2>1, <1>1 DEF Closed, Stepped
  <2> QED  BY <2>1 DEF Hull
<1>4. ASSUME NEW found \in SUBSET AllIds
      PROVE  hull[found] = IF Stepped(nodes, found) = found THEN found
                           ELSE hull[Stepped(nodes, found)]
  BY <1>1, <1>2, <1>3
<1> QED  BY <1>4 DEF IsWalk

\* Every walk finds the hull.  A largest set where it did not would grow by a
\* step, to a set where it does: the ids are finitely many.
LEMMA WalksAreHulls ==
    ASSUME NEW nodes, KidsKnown(nodes), NEW walk, IsWalk(nodes, walk),
           NEW S \in SUBSET AllIds
    PROVE  walk[S] = Hull(nodes, S)
<1> DEFINE hull == [found \in SUBSET AllIds |-> Hull(nodes, found)]
           Odd == {found \in SUBSET AllIds : walk[found] # hull[found]}
           Rest == {AllIds \ found : found \in Odd}
<1>1. ASSUME NEW found \in SUBSET AllIds
      PROVE  /\ walk[found] = IF Stepped(nodes, found) = found THEN found
                              ELSE walk[Stepped(nodes, found)]
             /\ hull[found] = IF Stepped(nodes, found) = found THEN found
                              ELSE hull[Stepped(nodes, found)]
             /\ Stepped(nodes, found) \in SUBSET AllIds
             /\ found \subseteq Stepped(nodes, found)
  <2>1. IsWalk(nodes, hull)
    BY HullWalks
  <2>2. Stepped(nodes, found) \in SUBSET AllIds /\ found \subseteq Stepped(nodes, found)
    BY DEF Stepped, KidsKnown
  <2> HIDE DEF hull
  <2> QED  BY <2>1, <2>2 DEF IsWalk
<1>2. ASSUME Odd # {}  PROVE FALSE
  <2>1. IsFiniteSet(AllIds)
    BY ScaffoldAssumption
  <2>2. IsWellFoundedOn(StrictSubsetOrdering(AllIds), SUBSET AllIds)
    BY <2>1, FS_FiniteSubsetsOfFinite, FS_StrictSubsetOrderingWellFounded
  <2>3. Rest \subseteq SUBSET AllIds /\ Rest # {}
    BY <1>2
  <2>4. PICK rest \in Rest : \A other \in Rest : <<other, rest>> \notin StrictSubsetOrdering(AllIds)
    <3> HIDE DEF Rest
    <3> QED  BY <2>2, <2>3, WFMin
  <2>5. PICK found \in Odd : rest = AllIds \ found
    OBVIOUS
  <2>6. Stepped(nodes, found) # found /\ Stepped(nodes, found) \in Odd
    BY <1>1
  <2>7. AllIds \ Stepped(nodes, found) \in Rest
    BY <2>6
  <2>8. AllIds \ Stepped(nodes, found) \subseteq rest /\ AllIds \ Stepped(nodes, found) # rest
    BY <2>5, <2>6, <1>1
  <2>9. <<AllIds \ Stepped(nodes, found), rest>> \in StrictSubsetOrdering(AllIds)
    BY <2>8, <2>3 DEF StrictSubsetOrdering
  <2> QED  BY <2>4, <2>7, <2>9
<1> QED  BY <1>2

\* reach finds the least set that holds the starts and the children of its nodes.
LEMMA ReachIsHull ==
    ASSUME NEW nodes, KidsKnown(nodes), NEW S \in SUBSET AllIds
    PROVE  Reach(nodes, S) = Hull(nodes, S)
<1> DEFINE W == CHOOSE walk : IsWalk(nodes, walk)
<1>1. Reach(nodes, S) = W[S]
  BY DEF Reach, IsWalk, Stepped
<1>2. IsWalk(nodes, W)
  BY HullWalks, Zenon
<1> QED  BY <1>1, <1>2, WalksAreHulls

\* What reach finds holds the starts, and the children of the nodes it found.
LEMMA ReachHolds ==
    ASSUME NEW nodes, KidsKnown(nodes), NEW S \in SUBSET AllIds
    PROVE  /\ Reach(nodes, S) \subseteq AllIds
           /\ S \subseteq Reach(nodes, S)
           /\ Closed(nodes, Reach(nodes, S))
<1>1. Reach(nodes, S) = Hull(nodes, S)
  BY ReachIsHull
<1>2. Closed(nodes, Hull(nodes, S))
  BY DEF Closed, Hull, KidsKnown
<1> QED  BY <1>1, <1>2 DEF Hull

\* Every closed set that holds the starts holds all that reach finds.
LEMMA ReachLeast ==
    ASSUME NEW nodes, KidsKnown(nodes), NEW S \in SUBSET AllIds,
           NEW C, S \subseteq C, Closed(nodes, C)
    PROVE  Reach(nodes, S) \subseteq C
<1>1. Reach(nodes, S) = Hull(nodes, S)
  BY ReachIsHull
<1>2. Closed(nodes, C \cap AllIds)
  BY DEF Closed, KidsKnown
<1> QED  BY <1>1, <1>2 DEF Hull

\* Two graphs that agree on what one walk finds are walked alike.
LEMMA ReachAgrees ==
    ASSUME NEW m, KidsKnown(m), NEW n, KidsKnown(n), NEW S \in SUBSET AllIds,
           \A x \in Reach(m, S) : /\ x \in DOMAIN m <=> x \in DOMAIN n
                                  /\ x \in DOMAIN m => m[x].kids = n[x].kids
    PROVE  Reach(n, S) = Reach(m, S)
<1>1. Reach(n, S) \subseteq Reach(m, S)
  <2>1. Closed(n, Reach(m, S)) /\ S \subseteq Reach(m, S)
    BY ReachHolds DEF Closed
  <2> QED  BY <2>1, ReachLeast
<1>2. Reach(m, S) \subseteq Reach(n, S)
  <2>1. Closed(m, Reach(n, S)) /\ S \subseteq Reach(n, S)
    BY <1>1, ReachHolds DEF Closed
  <2> QED  BY <2>1, ReachLeast
<1> QED  BY <1>1, <1>2

------------------------------------------------------------------------------
(* The interpreter's fields *)

\* b has the interpreter's fields, and no other.
Fields(b) ==
    b = [graph |-> b.graph, main_root |-> b.main_root, runs |-> b.runs,
         finished |-> b.finished, dirty |-> b.dirty, fresh |-> b.fresh,
         revision |-> b.revision]

\* Decorators, with the runs' detached nodes.
IsRuns(runs) == DOMAIN runs \subseteq FreshIds /\ \A d \in DOMAIN runs : runs[d] \subseteq Ids

\* TypeOK, of any interpreter.
Typed(b) ==
    /\ Fields(b)
    /\ IsNodes(b.graph, AllIds)
    /\ b.main_root \in Ids \cup {NoRoot}
    /\ IsRuns(b.runs)
    /\ IsRuns(b.finished)
    /\ DOMAIN b.runs \cap DOMAIN b.finished = {}
    /\ b.dirty \in BOOLEAN
    /\ b.fresh \subseteq AllIds
    /\ b.revision \in 0..(Revisions - 1)

\* A diff that leaves nodes of the node type.
Sane(d) ==
    /\ IsNodes(d.set, AllIds)
    /\ d.unbind \cup DOMAIN d.bind \subseteq AllIds
    /\ \A x \in DOMAIN d.bind : d.bind[x] \in AllIds \cup {Data}

\* Every node of c is as it was in b, or will restart.
Restarts(b, c) ==
    /\ b.fresh \subseteq c.fresh
    /\ b.dirty => c.dirty
    /\ \A x \in DOMAIN c.graph :
          \/ x \in DOMAIN b.graph /\ c.graph[x] = b.graph[x]
          \/ c.dirty /\ x \in c.fresh

\* What restarts by two changes, one after the other, restarts by both.
LEMMA RestartsComposes ==
    ASSUME NEW a, NEW b, NEW c, Restarts(a, b), Restarts(b, c)
    PROVE  Restarts(a, c)
BY DEF Restarts

\* The children of typed nodes are ids.
LEMMA TypedKids ==
    ASSUME NEW nodes, IsNodes(nodes, AllIds)
    PROVE  KidsKnown(nodes)
BY DEF IsNodes, KidsKnown, Node

\* new is nodes with d applied, attribute by attribute.
IsApplied(nodes, d, new) ==
    /\ IsNodes(new, AllIds)
    /\ DOMAIN new = (DOMAIN nodes \ d.remove) \cup DOMAIN d.set
    /\ \A x \in DOMAIN new :
          /\ new[x].kids = IF x \in DOMAIN d.set THEN d.set[x].kids ELSE nodes[x].kids
          /\ new[x].call = IF x \in DOMAIN d.set THEN d.set[x].call ELSE nodes[x].call
          /\ new[x].bind = IF x \in DOMAIN d.bind THEN d.bind[x]
                           ELSE IF x \in d.unbind THEN Unbound
                           ELSE IF x \in DOMAIN d.set THEN d.set[x].bind
                           ELSE IF nodes[x].bind \in d.remove THEN Unbound
                           ELSE nodes[x].bind

\* Graph::apply, attribute by attribute.
LEMMA AppliedNodes ==
    ASSUME NEW nodes, IsNodes(nodes, AllIds), NEW d, Sane(d)
    PROVE  IsApplied(nodes, d, ApplyDiff(nodes, d))
<1> DEFINE kept == [x \in DOMAIN nodes \ d.remove |-> Unread(nodes[x], d.remove)]
           set == Over(d.set, kept)
           new == ApplyDiff(nodes, d)
<1>1. kept \in [DOMAIN nodes \ d.remove -> Node]
      /\ \A x \in DOMAIN nodes \ d.remove :
            /\ kept[x].kids = nodes[x].kids /\ kept[x].call = nodes[x].call
            /\ kept[x].bind = IF nodes[x].bind \in d.remove THEN Unbound ELSE nodes[x].bind
  BY DEF IsNodes, Node, Unread
<1>2. /\ DOMAIN set = (DOMAIN nodes \ d.remove) \cup DOMAIN d.set
      /\ \A x \in DOMAIN set : set[x] = IF x \in DOMAIN d.set THEN d.set[x] ELSE kept[x]
  BY DEF Over
<1>3. \A x \in DOMAIN set : set[x] \in Node
  BY <1>1, <1>2 DEF Sane, IsNodes
<1>4. /\ DOMAIN new = DOMAIN set
      /\ new = [x \in DOMAIN set |-> new[x]]
      /\ \A x \in DOMAIN set :
            new[x] = IF x \in DOMAIN d.bind THEN [set[x] EXCEPT !.bind = d.bind[x]]
                     ELSE IF x \in d.unbind THEN [set[x] EXCEPT !.bind = Unbound]
                     ELSE set[x]
  BY DEF ApplyDiff
<1> HIDE DEF kept, set, new
<1>5. \A x \in DOMAIN set :
        /\ new[x] \in Node
        /\ new[x].kids = set[x].kids /\ new[x].call = set[x].call
        /\ new[x].bind = IF x \in DOMAIN d.bind THEN d.bind[x]
                         ELSE IF x \in d.unbind THEN Unbound ELSE set[x].bind
  BY <1>3, <1>4 DEF Node, Sane
<1>6. DOMAIN set \subseteq AllIds
  BY <1>2 DEF Sane, IsNodes
<1>7. IsNodes(new, AllIds)
  BY <1>4, <1>5, <1>6 DEF IsNodes
<1>8. \A x \in DOMAIN set : x \in DOMAIN d.set \/ x \in DOMAIN nodes \ d.remove
  BY <1>2
<1>9. ASSUME NEW x \in DOMAIN new
      PROVE  /\ new[x].kids = IF x \in DOMAIN d.set THEN d.set[x].kids ELSE nodes[x].kids
             /\ new[x].call = IF x \in DOMAIN d.set THEN d.set[x].call ELSE nodes[x].call
             /\ new[x].bind = IF x \in DOMAIN d.bind THEN d.bind[x]
                              ELSE IF x \in d.unbind THEN Unbound
                              ELSE IF x \in DOMAIN d.set THEN d.set[x].bind
                              ELSE IF nodes[x].bind \in d.remove THEN Unbound
                              ELSE nodes[x].bind
  <2>1. CASE x \in DOMAIN d.set
    BY <2>1, <1>2, <1>4, <1>5
  <2>2. CASE x \notin DOMAIN d.set
    <3>1. x \in DOMAIN set /\ x \in DOMAIN nodes \ d.remove /\ set[x] = kept[x]
      BY <2>2, <1>2, <1>4, <1>8
    <3>2. /\ set[x].kids = nodes[x].kids /\ set[x].call = nodes[x].call
          /\ set[x].bind = IF nodes[x].bind \in d.remove THEN Unbound ELSE nodes[x].bind
      BY <3>1, <1>1
    <3> QED  BY <2>2, <3>1, <3>2, <1>5
  <2> QED  BY <2>1, <2>2
<1> QED  BY <1>2, <1>4, <1>7, <1>9 DEF new, IsApplied

\* What an edit leaves, field by field.
LEMMA EditedIs ==
    ASSUME NEW b, Fields(b), NEW d
    PROVE  Edited(b, d) =
             [graph |-> ApplyDiff(b.graph, d), main_root |-> b.main_root, runs |-> b.runs,
              finished |-> b.finished, dirty |-> TRUE,
              fresh |-> b.fresh \cup Changed(b.graph, d), revision |-> b.revision]
<1> DEFINE g == ApplyDiff(b.graph, d)
           f == b.fresh \cup Changed(b.graph, d)
           yes == TRUE
           one == [b EXCEPT !.graph = g]
           two == [one EXCEPT !.dirty = yes]
<1>1. Edited(b, d) = [two EXCEPT !.fresh = f]
  BY Zenon DEF Edited
<1> HIDE DEF g, f, yes
<1>2. one = [graph |-> g, main_root |-> b.main_root, runs |-> b.runs, finished |-> b.finished,
             dirty |-> b.dirty, fresh |-> b.fresh, revision |-> b.revision]
  BY DEF Fields
<1> HIDE DEF one
<1>3. two = [graph |-> g, main_root |-> b.main_root, runs |-> b.runs, finished |-> b.finished,
             dirty |-> yes, fresh |-> b.fresh, revision |-> b.revision]
  BY <1>2
<1> HIDE DEF two
<1> QED BY <1>1, <1>3 DEF g, f, yes

\* A diff that removes and sets, and no more.
LEMMA NoDiffExcept ==
    ASSUME NEW R, NEW S
    PROVE  [NoDiff EXCEPT !.remove = R, !.set = S] =
             [remove |-> R, set |-> S, unbind |-> {}, bind |-> None, root |-> NoRoot]
<1> DEFINE one == [NoDiff EXCEPT !.remove = R]
<1>1. one = [remove |-> R, set |-> None, unbind |-> {}, bind |-> None, root |-> NoRoot]
  BY DEF NoDiff
<1> HIDE DEF one
<1>2. [one EXCEPT !.set = S] = [remove |-> R, set |-> S, unbind |-> {}, bind |-> None, root |-> NoRoot]
  BY <1>1
<1> QED BY <1>2, Zenon DEF one

\* An edit keeps the types, and restarts every node it changes.
LEMMA EditedTyped ==
    ASSUME NEW b, Typed(b), NEW d, Sane(d)
    PROVE  Typed(Edited(b, d)) /\ Restarts(b, Edited(b, d))
<1> DEFINE c == Edited(b, d)
           new == ApplyDiff(b.graph, d)
<1>1. c = [graph |-> new, main_root |-> b.main_root, runs |-> b.runs,
           finished |-> b.finished, dirty |-> TRUE,
           fresh |-> b.fresh \cup Changed(b.graph, d), revision |-> b.revision]
  BY EditedIs DEF Typed
<1>2. IsNodes(b.graph, AllIds)
  BY DEF Typed
<1>3. IsApplied(b.graph, d, new)
  BY <1>2, AppliedNodes
<1>4. Changed(b.graph, d) \subseteq AllIds
  BY <1>2 DEF Changed, Sane, IsNodes
<1> HIDE DEF c, new
<1>5. Typed(c)
  BY <1>1, <1>3, <1>4 DEF Typed, Fields, IsApplied
<1>6. ASSUME NEW x \in DOMAIN new, x \notin Changed(b.graph, d)
      PROVE  x \in DOMAIN b.graph /\ new[x] = b.graph[x]
  <2>1. /\ x \in DOMAIN b.graph /\ new[x].kids = b.graph[x].kids
        /\ new[x].call = b.graph[x].call /\ new[x].bind = b.graph[x].bind
    BY <1>3, <1>6 DEF Changed, IsApplied
  <2>2. new[x] \in Node /\ b.graph[x] \in Node
    BY <2>1, <1>2, <1>3 DEF IsNodes, IsApplied
  <2> QED  BY <2>1, <2>2 DEF Node
<1>7. Restarts(b, c)
  BY <1>1, <1>6 DEF Restarts
<1> QED  BY <1>5, <1>7 DEF c

\* What advancing the revision leaves, field by field.
LEMMA AdvancedIs ==
    ASSUME NEW b, Typed(b)
    PROVE  /\ Typed(Advanced(b))
           /\ Advanced(b) =
                [graph |-> b.graph, main_root |-> b.main_root, runs |-> b.runs,
                 finished |-> b.finished, dirty |-> b.dirty, fresh |-> b.fresh,
                 revision |-> (b.revision + 1) % Revisions]
<1>1. Advanced(b) = [graph |-> b.graph, main_root |-> b.main_root, runs |-> b.runs,
                     finished |-> b.finished, dirty |-> b.dirty, fresh |-> b.fresh,
                     revision |-> (b.revision + 1) % Revisions]
  BY DEF Advanced, Typed, Fields
<1>2. b.revision \in Nat /\ Revisions \in Nat /\ Revisions > 2
  BY ScaffoldAssumption DEF Typed
<1>3. (b.revision + 1) % Revisions \in 0..(Revisions - 1)
  BY <1>2
<1> QED  BY <1>1, <1>3 DEF Typed, Fields

\* revise_since changes the revision alone, and only if a read's answer changed.
LEMMA RevisedIs ==
    ASSUME NEW b, Typed(b), NEW before
    PROVE  LET c == Revised(b, before)
           IN  /\ Typed(c)
               /\ c.graph = b.graph /\ c.main_root = b.main_root
               /\ c.runs = b.runs /\ c.finished = b.finished
               /\ c.dirty = b.dirty /\ c.fresh = b.fresh
               /\ \/ c = b /\ MainGraph(b, None) = before
                  \/ c.revision = (b.revision + 1) % Revisions
<1>1. CASE MainGraph(b, None) = before
  BY <1>1 DEF Revised
<1>2. CASE MainGraph(b, None) # before
  BY <1>2, AdvancedIs DEF Revised
<1> QED  BY <1>1, <1>2

\* The runner, over the main behavior and the runs, is a node.
LEMMA RunnerNodeTyped ==
    ASSUME NEW b, Typed(b)
    PROVE  RunnerNode(b) \in Node
<1>1. DOMAIN AllRuns(b) = DOMAIN b.runs \cup DOMAIN b.finished
  BY DEF AllRuns, Over
<1> QED  BY <1>1 DEF RunnerNode, Node, Typed, IsRuns, AllIds

\* The diff that prunes: what leaves, and the runner over what stays.
LEMMA PruneDiffIs ==
    ASSUME NEW b, Typed(b), NEW gone
    PROVE  LET d == PruneDiff(b, gone)
               leaving == HeldByRuns(b.graph, gone)
           IN  /\ Sane(d)
               /\ d.remove = leaving \ HeldOutside(b, leaving)
               /\ DOMAIN d.set = {Runner} /\ d.set[Runner] = RunnerNode(b)
               /\ d.unbind = {} /\ DOMAIN d.bind = {}
<1> DEFINE leaving == HeldByRuns(b.graph, gone)
           d == PruneDiff(b, gone)
<1>1. d = [remove |-> leaving \ HeldOutside(b, leaving),
           set |-> [x \in {Runner} |-> RunnerNode(b)], unbind |-> {},
           bind |-> None, root |-> NoRoot]
  BY NoDiffExcept DEF PruneDiff
<1>2. IsNodes([x \in {Runner} |-> RunnerNode(b)], AllIds)
  BY RunnerNodeTyped DEF IsNodes, AllIds
<1> HIDE DEF d, leaving
<1>3. Sane(d) /\ DOMAIN d.bind = {}
  BY <1>1, <1>2 DEF Sane, None
<1> QED  BY <1>1, <1>3 DEF d, leaving

\* prune keeps the lists; it applies its diff whole, or leaves all as it was.
LEMMA PrunedIs ==
    ASSUME NEW b, Typed(b), NEW gone
    PROVE  LET p == Pruned(b, gone)
           IN  /\ Typed(p) /\ Restarts(b, p)
               /\ p.main_root = b.main_root /\ p.runs = b.runs /\ p.finished = b.finished
               /\ \/ p = b /\ (gone = None \/ ~Prunes(b, gone))
                  \/ /\ Accepts(b, PruneDiff(b, gone))
                     /\ p.graph = ApplyDiff(b.graph, PruneDiff(b, gone))
                     /\ \/ p.revision = b.revision /\ MainGraph(p, None) = MainGraph(b, gone)
                        \/ p.revision = (b.revision + 1) % Revisions
<1> DEFINE d == PruneDiff(b, gone)
           c == Edited(b, d)
           p == Pruned(b, gone)
<1>1. CASE gone # None /\ Prunes(b, gone)
  <2>1. p = Revised(c, MainGraph(b, gone)) /\ Accepts(b, d)
    BY <1>1 DEF Pruned, Prunes
  <2>2. Typed(c) /\ Restarts(b, c)
    BY PruneDiffIs, EditedTyped
  <2>3. /\ c.graph = ApplyDiff(b.graph, d) /\ c.main_root = b.main_root /\ c.runs = b.runs
        /\ c.finished = b.finished /\ c.revision = b.revision
    BY EditedIs DEF Typed
  <2> HIDE DEF c, d, p
  <2>4. /\ Typed(p)
        /\ p.graph = c.graph /\ p.main_root = c.main_root /\ p.runs = c.runs
        /\ p.finished = c.finished /\ p.dirty = c.dirty /\ p.fresh = c.fresh
        /\ \/ p = c /\ MainGraph(c, None) = MainGraph(b, gone)
           \/ p.revision = (c.revision + 1) % Revisions
    BY <2>1, <2>2, RevisedIs
  <2>5. Restarts(b, p)
    BY <2>2, <2>4 DEF Restarts
  <2> QED  BY <2>1, <2>3, <2>4, <2>5 DEF p, d
<1>2. CASE ~(gone # None /\ Prunes(b, gone))
  <2>1. p = b
    BY <1>2 DEF Pruned
  <2> QED  BY <1>2, <2>1 DEF Restarts
<1> QED  BY <1>1, <1>2

\* The interpreter with another main root.
\* b, with another main root.
Rooted(b, root) == [b EXCEPT !.main_root = root]

\* Another main root leaves the interpreter typed.
LEMMA WithMainRoot ==
    ASSUME NEW b, Typed(b), NEW r \in Ids \cup {NoRoot}
    PROVE  LET c == Rooted(b, r)
           IN  /\ c = [graph |-> b.graph, main_root |-> r, runs |-> b.runs,
                       finished |-> b.finished, dirty |-> b.dirty, fresh |-> b.fresh,
                       revision |-> b.revision]
               /\ Typed(c)
<1> DEFINE c == Rooted(b, r)
<1>1. c = [graph |-> b.graph, main_root |-> r, runs |-> b.runs, finished |-> b.finished,
           dirty |-> b.dirty, fresh |-> b.fresh, revision |-> b.revision]
  BY DEF Typed, Fields, Rooted
<1> HIDE DEF c
<1>2. Typed(c)
  BY <1>1 DEF Typed, Fields
<1> QED  BY <1>1, <1>2 DEF c

\* Another list of live runs leaves the interpreter typed.
LEMMA WithRuns ==
    ASSUME NEW b, Typed(b), NEW runs, IsRuns(runs), DOMAIN runs \cap DOMAIN b.finished = {}
    PROVE  LET c == [b EXCEPT !.runs = runs]
           IN  /\ c = [graph |-> b.graph, main_root |-> b.main_root, runs |-> runs,
                       finished |-> b.finished, dirty |-> b.dirty, fresh |-> b.fresh,
                       revision |-> b.revision]
               /\ Typed(c)
<1> DEFINE c == [b EXCEPT !.runs = runs]
<1>1. c = [graph |-> b.graph, main_root |-> b.main_root, runs |-> runs, finished |-> b.finished,
           dirty |-> b.dirty, fresh |-> b.fresh, revision |-> b.revision]
  BY DEF Typed, Fields
<1> HIDE DEF c
<1>2. Typed(c)
  BY <1>1 DEF Typed, Fields
<1> QED  BY <1>1, <1>2 DEF c

\* An emptied list of finished runs leaves the interpreter typed.
LEMMA SweptIs ==
    ASSUME NEW b, Typed(b)
    PROVE  /\ Swept(b) = [graph |-> b.graph, main_root |-> b.main_root, runs |-> b.runs,
                          finished |-> None, dirty |-> b.dirty, fresh |-> b.fresh,
                          revision |-> b.revision]
           /\ Typed(Swept(b))
           /\ Restarts(b, Swept(b))
<1> DEFINE c == Swept(b)
<1>1. c = [graph |-> b.graph, main_root |-> b.main_root, runs |-> b.runs,
           finished |-> None, dirty |-> b.dirty, fresh |-> b.fresh, revision |-> b.revision]
  BY DEF Swept, Typed, Fields
<1>2. IsRuns(None) /\ DOMAIN None = {}
  BY DEF IsRuns, None
<1> HIDE DEF c
<1>3. Typed(c)
  BY <1>1, <1>2 DEF Typed, Fields
<1>4. Restarts(b, c)
  BY <1>1 DEF Restarts
<1> QED  BY <1>1, <1>3, <1>4 DEF c

\* prune_finished keeps the live runs and the main root, and empties the list of
\* finished ones.
LEMMA PruneFinishedIs ==
    ASSUME NEW b, Typed(b)
    PROVE  LET p == PruneFinished(b)
           IN  /\ Typed(p) /\ Restarts(b, p)
               /\ p.main_root = b.main_root /\ p.runs = b.runs /\ p.finished = None
<1>1. /\ Typed(Swept(b)) /\ Restarts(b, Swept(b))
      /\ Swept(b).main_root = b.main_root /\ Swept(b).runs = b.runs
      /\ Swept(b).finished = None
  BY SweptIs
<1> PICK c : c = Swept(b)
  OBVIOUS
<1> PICK p : p = PruneFinished(b)
  OBVIOUS
<1>2. /\ Typed(p) /\ Restarts(c, p)
      /\ p.main_root = c.main_root /\ p.runs = c.runs /\ p.finished = c.finished
  BY <1>1, PrunedIs DEF PruneFinished
<1>3. Restarts(b, p)
  BY <1>1, <1>2, RestartsComposes
<1> QED  BY <1>1, <1>2, <1>3

\* Nodes over nodes: the first where they are, the second elsewhere.
LEMMA OverNodes ==
    ASSUME NEW f, NEW g, IsNodes(f, AllIds), IsNodes(g, AllIds)
    PROVE  /\ IsNodes(Over(f, g), AllIds)
           /\ DOMAIN Over(f, g) = DOMAIN f \cup DOMAIN g
           /\ \A x \in DOMAIN f : Over(f, g)[x] = f[x]
           /\ \A x \in DOMAIN g \ DOMAIN f : Over(f, g)[x] = g[x]
BY DEF IsNodes, Over

\* A client's nodes are nodes, none of them the runner or an id the interpreter
\* draws.
LEMMA WiderNodes ==
    ASSUME NEW f, IsNodes(f, Ids)
    PROVE  IsNodes(f, AllIds) /\ Runner \notin DOMAIN f /\ DOMAIN f \cap FreshIds = {}
BY ScaffoldAssumption DEF IsNodes, AllIds

\* One node, by its id.
LEMMA OneNode ==
    ASSUME NEW x \in AllIds, NEW v \in Node
    PROVE  IsNodes([y \in {x} |-> v], AllIds)
BY DEF IsNodes

\* The graph with g's nodes set.
\* The graph a load measures the runs on: b's, with g's nodes set.
After(b, g) == ApplyDiff(b.graph, [NoDiff EXCEPT !.set = g.nodes])

\* The diff of a load: it removes what no run holds, and sets the runner and the
\* new main behavior.
LEMMA LoadDiffIs ==
    ASSUME NEW b, Typed(b), NEW g, IsGraph(g), NEW d, d = LoadDiff(b, g),
           NEW after, after = After(b, g)
    PROVE  /\ Sane(d)
           /\ d.remove = DOMAIN b.graph \ ({Runner} \cup HeldByRuns(after, AllRuns(b)))
           /\ DOMAIN d.set = {Runner} \cup DOMAIN g.nodes
           /\ d.set[Runner] = RunnerNode(Rooted(b, g.root))
           /\ \A x \in DOMAIN g.nodes : d.set[x] = g.nodes[x]
           /\ d.unbind = {} /\ DOMAIN d.bind = {}
<1> DEFINE remove == DOMAIN b.graph \ ({Runner} \cup HeldByRuns(after, AllRuns(b)))
           node == RunnerNode(Rooted(b, g.root))
           one == [x \in {Runner} |-> node]
           set == Over(one, g.nodes)
<1>1. d = [NoDiff EXCEPT !.remove = remove, !.set = set]
  BY Zenon DEF LoadDiff, After, Rooted
<1>2. node \in Node
  BY WithMainRoot, RunnerNodeTyped DEF IsGraph
<1>3. IsNodes(g.nodes, AllIds) /\ Runner \notin DOMAIN g.nodes
  BY WiderNodes DEF IsGraph
<1> HIDE DEF remove, node
<1>4. IsNodes(one, AllIds) /\ DOMAIN one = {Runner} /\ one[Runner] = node
  BY <1>2, OneNode DEF AllIds
<1> HIDE DEF one
<1>5. /\ IsNodes(set, AllIds) /\ DOMAIN set = {Runner} \cup DOMAIN g.nodes
      /\ set[Runner] = node /\ \A x \in DOMAIN g.nodes : set[x] = g.nodes[x]
  <2>1. /\ IsNodes(set, AllIds) /\ DOMAIN set = DOMAIN one \cup DOMAIN g.nodes
        /\ \A x \in DOMAIN one : set[x] = one[x]
        /\ \A x \in DOMAIN g.nodes \ DOMAIN one : set[x] = g.nodes[x]
    BY <1>3, <1>4, OverNodes
  <2> QED  BY <2>1, <1>3, <1>4
<1> HIDE DEF set
<1>6. d = [remove |-> remove, set |-> set, unbind |-> {}, bind |-> None, root |-> NoRoot]
  BY <1>1, NoDiffExcept
<1>7. Sane(d) /\ DOMAIN d.bind = {}
  BY <1>5, <1>6 DEF Sane, None
<1> QED  BY <1>5, <1>6, <1>7 DEF remove, node

\* The diff of a graft: it sets the fragment, its decorator and the runner.
LEMMA GraftDiffIs ==
    ASSUME NEW b, Typed(b), NEW dec \in AllIds \ {Runner}, NEW root \in AllIds,
           NEW nodes, IsNodes(nodes, AllIds), DOMAIN nodes \cap {dec, Runner} = {},
           NEW d, d = GraftDiff(b, dec, root, nodes)
    PROVE  /\ Sane(d)
           /\ d.remove = {} /\ d.unbind = {} /\ DOMAIN d.bind = {}
           /\ DOMAIN d.set = {dec, Runner} \cup DOMAIN nodes
           /\ Runner \in DOMAIN d.set /\ d.set[Runner] = RunnerNode(b)
           /\ d.set[dec].kids = {root}
           /\ \A x \in DOMAIN nodes : d.set[x] = nodes[x]
<1> DEFINE v == [kids |-> {root}, call |-> FALSE, bind |-> Data]
           top == [x \in {dec} |-> v]
           runner == [x \in {Runner} |-> RunnerNode(b)]
           under == Over(runner, nodes)
           set == Over(top, under)
<1>1. d = [NoDiff EXCEPT !.set = set]
  BY Zenon DEF GraftDiff
<1>2. v \in Node /\ v.kids = {root}
  BY DEF Node
<1> HIDE DEF v
<1>3. /\ IsNodes(top, AllIds) /\ DOMAIN top = {dec} /\ top[dec] = v
      /\ IsNodes(runner, AllIds) /\ DOMAIN runner = {Runner} /\ runner[Runner] = RunnerNode(b)
  BY <1>2, OneNode, RunnerNodeTyped DEF AllIds
<1> HIDE DEF top, runner
<1>4. /\ IsNodes(under, AllIds) /\ DOMAIN under = {Runner} \cup DOMAIN nodes
      /\ under[Runner] = RunnerNode(b) /\ \A x \in DOMAIN nodes : under[x] = nodes[x]
  <2>1. /\ IsNodes(under, AllIds) /\ DOMAIN under = DOMAIN runner \cup DOMAIN nodes
        /\ \A x \in DOMAIN runner : under[x] = runner[x]
        /\ \A x \in DOMAIN nodes \ DOMAIN runner : under[x] = nodes[x]
    <3>1. IsNodes(runner, AllIds) /\ IsNodes(nodes, AllIds)
      BY <1>3
    <3> QED  BY ONLY <3>1, OverNodes
  <2> HIDE DEF under
  <2> QED  BY <2>1, <1>3
<1> HIDE DEF under
<1>5. /\ IsNodes(set, AllIds) /\ DOMAIN set = {dec, Runner} \cup DOMAIN nodes
      /\ set[dec] = v /\ set[Runner] = RunnerNode(b) /\ \A x \in DOMAIN nodes : set[x] = nodes[x]
  <2>1. /\ IsNodes(set, AllIds) /\ DOMAIN set = DOMAIN top \cup DOMAIN under
        /\ \A x \in DOMAIN top : set[x] = top[x]
        /\ \A x \in DOMAIN under \ DOMAIN top : set[x] = under[x]
    <3>1. IsNodes(top, AllIds) /\ IsNodes(under, AllIds)
      BY <1>3, <1>4
    <3> QED  BY ONLY <3>1, OverNodes
  <2> HIDE DEF set
  <2> QED  BY <2>1, <1>3, <1>4
<1> HIDE DEF set
<1>6. d = [remove |-> {}, set |-> set, unbind |-> {}, bind |-> None, root |-> NoRoot]
  BY <1>1 DEF NoDiff
<1>7. Sane(d) /\ DOMAIN d.bind = {}
  BY <1>5, <1>6 DEF Sane, None
<1> QED  BY <1>2, <1>5, <1>6, <1>7

\* A client's diff as apply edits the graph by it: the runner stays, with the
\* children it should have.
ClientDiff(b, diff) ==
    [diff EXCEPT !.remove = @ \ {Runner},
                 !.set = Over([x \in {Runner} |-> RunnerNode(b)], @)]

\* The diff of an apply: the client's, with the runner set and never removed.
LEMMA ClientDiffIs ==
    ASSUME NEW b, Typed(b), NEW diff, IsDiff(diff),
           NEW d, d = ClientDiff(b, diff)
    PROVE  /\ Sane(d)
           /\ d.remove = diff.remove \ {Runner}
           /\ DOMAIN d.set = {Runner} \cup DOMAIN diff.set
           /\ Runner \in DOMAIN d.set /\ d.set[Runner] = RunnerNode(b)
           /\ \A x \in DOMAIN diff.set : d.set[x] = diff.set[x]
           /\ d.unbind = diff.unbind /\ d.bind = diff.bind /\ d.root = diff.root
<1> DEFINE remove == diff.remove \ {Runner}
           runner == [x \in {Runner} |-> RunnerNode(b)]
           set == Over(runner, diff.set)
           one == [diff EXCEPT !.remove = remove]
<1>0. "remove" \in DOMAIN diff /\ "set" \in DOMAIN diff /\ "unbind" \in DOMAIN diff
      /\ "bind" \in DOMAIN diff /\ "root" \in DOMAIN diff
  BY DEF IsDiff
<1>1. /\ one.remove = remove /\ one.set = diff.set /\ one.unbind = diff.unbind
      /\ one.bind = diff.bind /\ one.root = diff.root /\ DOMAIN one = DOMAIN diff
  <2> HIDE DEF remove
  <2> QED  BY <1>0
<1>2. d = [one EXCEPT !.set = set]
  <2>1. one.set = diff.set
    BY <1>1
  <2> QED  BY <1>1, Zenon DEF ClientDiff
<1>3. /\ IsNodes(runner, AllIds) /\ DOMAIN runner = {Runner} /\ runner[Runner] = RunnerNode(b)
  BY OneNode, RunnerNodeTyped DEF AllIds
<1>4. IsNodes(diff.set, AllIds) /\ Runner \notin DOMAIN diff.set
  BY WiderNodes DEF IsDiff
<1> HIDE DEF remove, runner, one
<1>5. /\ IsNodes(set, AllIds) /\ DOMAIN set = {Runner} \cup DOMAIN diff.set
      /\ set[Runner] = RunnerNode(b) /\ \A x \in DOMAIN diff.set : set[x] = diff.set[x]
  <2>1. /\ IsNodes(set, AllIds) /\ DOMAIN set = DOMAIN runner \cup DOMAIN diff.set
        /\ \A x \in DOMAIN runner : set[x] = runner[x]
        /\ \A x \in DOMAIN diff.set \ DOMAIN runner : set[x] = diff.set[x]
    BY <1>3, <1>4, OverNodes
  <2> QED  BY <2>1, <1>3, <1>4
<1> HIDE DEF set
<1>6. /\ d.remove = remove /\ d.set = set /\ d.unbind = diff.unbind
      /\ d.bind = diff.bind /\ d.root = diff.root
  BY <1>0, <1>1, <1>2
<1>7. Sane(d)
  BY <1>5, <1>6 DEF Sane, IsDiff, Range
<1> QED  BY <1>5, <1>6, <1>7 DEF remove

\* Graph::diff, part by part.
LEMMA DiffIs ==
    ASSUME NEW ours, NEW theirs, IsNodes(ours, AllIds), IsNodes(theirs, AllIds)
    PROVE  LET d == Diff(ours, theirs)
               same == {x \in DOMAIN ours \cap DOMAIN theirs :
                           ours[x].call = theirs[x].call /\ ours[x].kids = theirs[x].kids}
           IN  /\ Sane(d)
               /\ d.remove = DOMAIN ours \ DOMAIN theirs
               /\ DOMAIN d.set = DOMAIN theirs \ same
               /\ \A x \in DOMAIN d.set : d.set[x] = theirs[x]
               /\ d.unbind = {x \in same : theirs[x].bind = Unbound
                                            /\ ours[x].bind \notin d.remove \cup {Unbound}}
               /\ DOMAIN d.bind = {x \in same : theirs[x].bind # Unbound
                                                 /\ theirs[x].bind # ours[x].bind}
               /\ \A x \in DOMAIN d.bind : d.bind[x] = theirs[x].bind
<1> DEFINE removed == DOMAIN ours \ DOMAIN theirs
           same == {x \in DOMAIN ours \cap DOMAIN theirs :
                       ours[x].call = theirs[x].call /\ ours[x].kids = theirs[x].kids}
           rebound == {x \in same : theirs[x].bind # Unbound /\ theirs[x].bind # ours[x].bind}
           set == Restrict(theirs, DOMAIN theirs \ same)
           unbind == {x \in same : theirs[x].bind = Unbound
                                   /\ ours[x].bind \notin removed \cup {Unbound}}
           bind == [x \in rebound |-> theirs[x].bind]
           d == Diff(ours, theirs)
<1>1. d = [remove |-> removed, set |-> set, unbind |-> unbind, bind |-> bind, root |-> NoRoot]
  BY Zenon DEF Diff
<1>2. /\ IsNodes(set, AllIds) /\ DOMAIN set = DOMAIN theirs \ same
      /\ \A x \in DOMAIN set : set[x] = theirs[x]
  BY DEF Restrict, IsNodes
<1>3. same \subseteq DOMAIN ours /\ same \subseteq DOMAIN theirs /\ DOMAIN ours \subseteq AllIds
  BY DEF IsNodes
<1>4. unbind \subseteq AllIds /\ rebound \subseteq AllIds
  BY <1>3
<1>5. DOMAIN bind = rebound /\ \A x \in rebound : bind[x] = theirs[x].bind
  OBVIOUS
<1>6. \A x \in rebound : theirs[x].bind \in AllIds \cup {Data}
  BY <1>3 DEF IsNodes, Node
<1> HIDE DEF removed, same, rebound, set, unbind, bind, d
<1>7. Sane(d)
  BY <1>1, <1>2, <1>4, <1>5, <1>6 DEF Sane
<1>8. /\ d.remove = removed /\ d.set = set /\ d.unbind = unbind /\ d.bind = bind
  BY <1>1
<1> QED  BY <1>2, <1>5, <1>7, <1>8 DEF removed, same, rebound, unbind, d

\* Some of the nodes are nodes.
LEMMA RestrictNodes ==
    ASSUME NEW nodes, IsNodes(nodes, AllIds), NEW S \in SUBSET DOMAIN nodes
    PROVE  IsNodes(Restrict(nodes, S), AllIds) /\ DOMAIN Restrict(nodes, S) = S
BY DEF IsNodes, Restrict

------------------------------------------------------------------------------
(* The scaffold stands *)

\* Whatever ticks hangs under the runner: the main behavior, and every run on a list.
RunnerHolds(b) ==
    /\ Runner \in DOMAIN b.graph
    /\ DOMAIN AllRuns(b) \cup ({b.main_root} \ {NoRoot}) \subseteq b.graph[Runner].kids

Standing(b) == RunnerHolds(b) /\ Acyclic(b.graph, Runner)

\* A node is held by runs when it is under a decorator or detached by one.
LEMMA HeldByRunsIs ==
    ASSUME NEW nodes, NEW runs
    PROVE  \A x : x \in HeldByRuns(nodes, runs)
                  <=> \E d \in DOMAIN runs : x \in Reach(nodes, {d}) \/ x \in runs[d]
<1> SUFFICES ASSUME NEW x
             PROVE  x \in HeldByRuns(nodes, runs)
                    <=> \E d \in DOMAIN runs : x \in Reach(nodes, {d}) \/ x \in runs[d]
  OBVIOUS
<1>1. x \in HeldByRuns(nodes, runs)
      <=> \E d \in DOMAIN runs : x \in NodesOf(nodes, d, runs[d])
  BY DEF HeldByRuns
<1> QED  BY <1>1 DEF NodesOf

\* all_runs, run by run.
LEMMA AllRunsIs ==
    ASSUME NEW b
    PROVE  /\ DOMAIN AllRuns(b) = DOMAIN b.runs \cup DOMAIN b.finished
           /\ \A d \in DOMAIN b.runs : AllRuns(b)[d] = b.runs[d]
           /\ \A d \in DOMAIN b.finished \ DOMAIN b.runs : AllRuns(b)[d] = b.finished[d]
BY DEF AllRuns, Over

\* In an acyclic graph, what the runner's children reach is nodes, and not the
\* runner.
LEMMA UnderRunner ==
    ASSUME NEW nodes, IsNodes(nodes, AllIds), Acyclic(nodes, Runner),
           NEW S \in SUBSET nodes[Runner].kids
    PROVE  /\ Runner \in DOMAIN nodes
           /\ S \subseteq AllIds
           /\ S \subseteq Reach(nodes, S)
           /\ Reach(nodes, S) \subseteq DOMAIN nodes \ {Runner}
<1>1. KidsKnown(nodes) /\ {Runner} \in SUBSET AllIds
  BY TypedKids DEF AllIds
<1> DEFINE R == Reach(nodes, {Runner})
           K == nodes[Runner].kids
<1>2. Runner \in R /\ Closed(nodes, R) /\ R \subseteq AllIds
  BY <1>1, ReachHolds
<1>3. R \subseteq DOMAIN nodes /\ Runner \notin Reach(nodes, K)
  BY <1>2 DEF Acyclic
<1> HIDE DEF R
<1>4. K \subseteq R /\ S \subseteq R /\ S \in SUBSET AllIds /\ K \in SUBSET AllIds
  BY <1>2, <1>3 DEF Closed
<1> HIDE DEF K
<1>5. Reach(nodes, S) \subseteq R
  BY <1>1, <1>2, <1>4, ReachLeast
<1>6. Reach(nodes, S) \subseteq Reach(nodes, K)
  <2>1. K \subseteq Reach(nodes, K) /\ Closed(nodes, Reach(nodes, K))
    BY <1>1, <1>4, ReachHolds
  <2>2. S \subseteq Reach(nodes, K)
    BY <2>1 DEF K
  <2> QED  BY <1>1, <1>4, <2>1, <2>2, ReachLeast
<1> QED  BY <1>1, <1>2, <1>3, <1>4, <1>5, <1>6, ReachHolds

\* The scaffold stands as long as no run is added to it.
LEMMA StandingKept ==
    ASSUME NEW b, Standing(b), NEW c, c.graph = b.graph, c.main_root = b.main_root,
           DOMAIN AllRuns(c) \subseteq DOMAIN AllRuns(b)
    PROVE  Standing(c)
BY DEF Standing, RunnerHolds

\* An accepted edit that sets the runner, or leaves it, leaves a scaffold that
\* stands.
LEMMA EditedStands ==
    ASSUME NEW b, Typed(b), NEW d, Sane(d), Accepts(b, d),
           \/ Runner \in DOMAIN d.set /\ d.set[Runner] = RunnerNode(b)
           \/ Runner \notin DOMAIN d.set /\ Standing(b)
    PROVE  Standing(Edited(b, d))
<1> DEFINE c == Edited(b, d)
           new == ApplyDiff(b.graph, d)
           held == DOMAIN AllRuns(b) \cup ({b.main_root} \ {NoRoot})
<1>1. IsNodes(b.graph, AllIds)
  BY DEF Typed
<1>2. IsApplied(b.graph, d, new)
  BY <1>1, AppliedNodes
<1>3. /\ c.graph = new /\ c.main_root = b.main_root
      /\ c.runs = b.runs /\ c.finished = b.finished
  BY EditedIs DEF Typed
<1>4. Acyclic(new, Runner)
  BY DEF Accepts
<1> HIDE DEF c, new
<1>5. Runner \in DOMAIN new
  BY <1>2, <1>4, UnderRunner DEF IsApplied
<1>6. held \subseteq new[Runner].kids
  <2>1. CASE Runner \in DOMAIN d.set /\ d.set[Runner] = RunnerNode(b)
    <3>1. new[Runner].kids = RunnerNode(b).kids
      BY <1>2, <1>5, <2>1 DEF IsApplied
    <3> QED  BY <3>1 DEF RunnerNode
  <2>2. CASE Runner \notin DOMAIN d.set /\ Standing(b)
    <3>1. new[Runner].kids = b.graph[Runner].kids
      BY <1>2, <1>5, <2>2 DEF IsApplied
    <3> QED  BY <2>2, <3>1 DEF Standing, RunnerHolds
  <2> QED  BY <2>1, <2>2
<1>7. DOMAIN AllRuns(c) = DOMAIN AllRuns(b)
  BY <1>3, AllRunsIs
<1>8. Standing(c)
  BY <1>3, <1>4, <1>5, <1>6, <1>7 DEF Standing, RunnerHolds
<1> QED  BY <1>8 DEF c

\* A revision leaves the scaffold alone.
LEMMA RevisedStands ==
    ASSUME NEW b, Typed(b), Standing(b), NEW before
    PROVE  Standing(Revised(b, before))
<1> PICK c : c = Revised(b, before)
  OBVIOUS
<1>1. /\ c.graph = b.graph /\ c.main_root = b.main_root
      /\ c.runs = b.runs /\ c.finished = b.finished
  BY RevisedIs
<1>2. DOMAIN AllRuns(c) = DOMAIN AllRuns(b)
  BY <1>1, AllRunsIs
<1> QED  BY <1>1, <1>2, StandingKept

\* prune leaves a scaffold that stands.
LEMMA PrunedStands ==
    ASSUME NEW b, Typed(b), Standing(b), NEW gone
    PROVE  Standing(Pruned(b, gone))
<1>1. CASE gone # None /\ Prunes(b, gone)
  <2> PICK d : d = PruneDiff(b, gone)
    OBVIOUS
  <2>1. Sane(d) /\ DOMAIN d.set = {Runner} /\ d.set[Runner] = RunnerNode(b)
    BY PruneDiffIs
  <2>2. Accepts(b, d) /\ Pruned(b, gone) = Revised(Edited(b, d), MainGraph(b, gone))
    BY <1>1 DEF Prunes, Pruned
  <2>3. Typed(Edited(b, d)) /\ Standing(Edited(b, d))
    BY <2>1, <2>2, EditedTyped, EditedStands
  <2> QED  BY <2>2, <2>3, RevisedStands
<1>2. CASE ~(gone # None /\ Prunes(b, gone))
  BY <1>2 DEF Pruned
<1> QED  BY <1>1, <1>2

\* prune_finished leaves a scaffold that stands.
LEMMA PruneFinishedStands ==
    ASSUME NEW b, Typed(b), Standing(b)
    PROVE  Standing(PruneFinished(b))
<1> PICK c : c = Swept(b)
  OBVIOUS
<1>1. /\ Typed(c) /\ c.graph = b.graph /\ c.main_root = b.main_root
      /\ c.runs = b.runs /\ c.finished = None
  BY SweptIs
<1>2. DOMAIN AllRuns(c) \subseteq DOMAIN AllRuns(b)
  BY <1>1, AllRunsIs DEF None
<1>3. Standing(c)
  BY <1>1, <1>2, StandingKept
<1> QED  BY <1>1, <1>3, PrunedStands DEF PruneFinished

------------------------------------------------------------------------------
(* What the actions do to the interpreter *)

\* A refused request, which has only pruned the finished runs, keeps the invariant.
LEMMA PruneFinishedStep ==
    ASSUME Typed(bt), Standing(bt), bt' = PruneFinished(bt)
    PROVE  Typed(bt') /\ Standing(bt') /\ Restarts(bt, bt')
BY PruneFinishedIs, PruneFinishedStands

\* load keeps the invariant, and restarts what it changes.
LEMMA LoadStep ==
    ASSUME Typed(bt), Standing(bt), NEW g \in Behaviors, Load(g)
    PROVE  Typed(bt') /\ Standing(bt') /\ Restarts(bt, bt')
<1> DEFINE b == PruneFinished(bt)
           rooted == Rooted(b, g.root)
           d == LoadDiff(b, g)
<1>1. \/ Accepts(rooted, d) /\ bt' = Advanced(Edited(rooted, d))
      \/ bt' = PruneFinished(bt)
  BY Zenon DEF Load, Answer, Rooted
<1>2. Typed(b) /\ Restarts(bt, b)
  BY PruneFinishedIs
<1>3. IsGraph(g) /\ g.root \in Ids \cup {NoRoot}
  BY ScaffoldAssumption DEF IsGraph
<1> HIDE DEF b
<1>4. Typed(rooted) /\ Restarts(b, rooted)
  <2>1. /\ Typed(rooted) /\ rooted.graph = b.graph
        /\ rooted.dirty = b.dirty /\ rooted.fresh = b.fresh
    <3>1. /\ rooted = [graph |-> b.graph, main_root |-> g.root, runs |-> b.runs,
                       finished |-> b.finished, dirty |-> b.dirty, fresh |-> b.fresh,
                       revision |-> b.revision]
          /\ Typed(rooted)
      BY <1>2, <1>3, WithMainRoot
    <3> HIDE DEF rooted
    <3> QED  BY <3>1
  <2> QED  BY <2>1 DEF Restarts
<1>5. Sane(d) /\ Runner \in DOMAIN d.set /\ d.set[Runner] = RunnerNode(rooted)
  BY <1>2, <1>3, LoadDiffIs
<1> HIDE DEF rooted, d
<1>6. /\ Typed(Edited(rooted, d)) /\ Restarts(rooted, Edited(rooted, d))
      /\ Accepts(rooted, d) => Standing(Edited(rooted, d))
  BY <1>4, <1>5, EditedTyped, EditedStands
<1> PICK e : e = Edited(rooted, d)
  OBVIOUS
<1>7. /\ Typed(Advanced(e)) /\ Restarts(e, Advanced(e))
      /\ Standing(e) => Standing(Advanced(e))
  <2> PICK v : v = Advanced(e)
    OBVIOUS
  <2>1. /\ Typed(v) /\ v.graph = e.graph /\ v.dirty = e.dirty /\ v.fresh = e.fresh
        /\ v.main_root = e.main_root /\ v.runs = e.runs /\ v.finished = e.finished
    BY <1>6, AdvancedIs
  <2>2. DOMAIN AllRuns(v) = DOMAIN AllRuns(e)
    BY <2>1, AllRunsIs
  <2> QED  BY <2>1, <2>2, StandingKept DEF Restarts
<1>8. Restarts(bt, Advanced(e))
  BY <1>2, <1>4, <1>6, <1>7, RestartsComposes
<1> QED  BY <1>1, <1>6, <1>7, <1>8, PruneFinishedStep DEF b

\* apply keeps the invariant, and restarts what it changes.
LEMMA ApplyStep ==
    ASSUME Typed(bt), Standing(bt), NEW diff \in Edits, Apply(diff)
    PROVE  Typed(bt') /\ Standing(bt') /\ Restarts(bt, bt')
<1> DEFINE b == PruneFinished(bt)
           removed == IF b.main_root \in diff.remove THEN NoRoot ELSE b.main_root
           root == IF diff.root # NoRoot THEN diff.root ELSE removed
           rooted == Rooted(b, root)
           d == ClientDiff(rooted, diff)
<1>1. \/ Accepts(rooted, d) /\ bt' = Revised(Edited(rooted, d), MainGraph(b, None))
      \/ bt' = PruneFinished(bt)
  BY Zenon DEF Apply, Answer, ClientDiff, Rooted
<1>2. Typed(b) /\ Restarts(bt, b)
  BY PruneFinishedIs
<1>3. IsDiff(diff)
  BY ScaffoldAssumption
<1> HIDE DEF b
<1>4. root \in Ids \cup {NoRoot}
  BY <1>2, <1>3 DEF Typed, IsDiff
<1> HIDE DEF root
<1>5. Typed(rooted) /\ Restarts(b, rooted)
  <2>1. /\ Typed(rooted) /\ rooted.graph = b.graph
        /\ rooted.dirty = b.dirty /\ rooted.fresh = b.fresh
    <3>1. /\ rooted = [graph |-> b.graph, main_root |-> root, runs |-> b.runs,
                       finished |-> b.finished, dirty |-> b.dirty, fresh |-> b.fresh,
                       revision |-> b.revision]
          /\ Typed(rooted)
      BY <1>2, <1>4, WithMainRoot
    <3> HIDE DEF rooted
    <3> QED  BY <3>1
  <2> QED  BY <2>1 DEF Restarts
<1> HIDE DEF rooted
<1>6. Sane(d) /\ Runner \in DOMAIN d.set /\ d.set[Runner] = RunnerNode(rooted)
  BY <1>3, <1>5, ClientDiffIs
<1> HIDE DEF d
<1>7. /\ Typed(Edited(rooted, d)) /\ Restarts(rooted, Edited(rooted, d))
      /\ Accepts(rooted, d) => Standing(Edited(rooted, d))
  BY <1>5, <1>6, EditedTyped, EditedStands
<1> PICK e : e = Edited(rooted, d)
  OBVIOUS
<1> PICK v : v = Revised(e, MainGraph(b, None))
  OBVIOUS
<1>8. Typed(v) /\ Restarts(e, v) /\ (Standing(e) => Standing(v))
  <2>1. Typed(v) /\ v.graph = e.graph /\ v.dirty = e.dirty /\ v.fresh = e.fresh
    BY <1>7, RevisedIs
  <2> QED  BY <1>7, <2>1, RevisedStands DEF Restarts
<1>9. Restarts(bt, v)
  BY <1>2, <1>5, <1>7, <1>8, RestartsComposes
<1> QED  BY <1>1, <1>7, <1>8, <1>9, PruneFinishedStep DEF b

\* A run d grafted beside b's.
LEMMA GraftedIs ==
    ASSUME NEW b, Typed(b), b.finished = None, NEW d \in FreshIds,
           NEW detached \in SUBSET Ids
    PROVE  LET c == Grafted(b, d, detached)
           IN  /\ Typed(c) /\ Restarts(b, c)
               /\ c.graph = b.graph /\ c.main_root = b.main_root
               /\ c.finished = b.finished /\ c.dirty = b.dirty /\ c.fresh = b.fresh
               /\ c.revision = b.revision
               /\ DOMAIN c.runs = DOMAIN b.runs \cup {d}
               /\ c.runs[d] = detached
               /\ \A e \in DOMAIN b.runs \ {d} : c.runs[e] = b.runs[e]
<1> DEFINE runs == Over([x \in {d} |-> detached], b.runs)
           c == Grafted(b, d, detached)
<1>1. c = [b EXCEPT !.runs = runs]
  BY Zenon DEF Grafted
<1>2. /\ DOMAIN runs = DOMAIN b.runs \cup {d} /\ runs[d] = detached
      /\ \A e \in DOMAIN b.runs \ {d} : runs[e] = b.runs[e]
  BY DEF Over
<1>3. IsRuns(runs)
  <2> HIDE DEF runs
  <2> QED  BY <1>2 DEF Typed, IsRuns
<1>4. DOMAIN runs \cap DOMAIN b.finished = {}
  BY DEF None
<1> HIDE DEF runs, c
<1>5. /\ c = [graph |-> b.graph, main_root |-> b.main_root, runs |-> runs,
              finished |-> b.finished, dirty |-> b.dirty, fresh |-> b.fresh,
              revision |-> b.revision]
      /\ Typed(c)
  BY <1>1, <1>3, <1>4, WithRuns
<1>6. Restarts(b, c)
  BY <1>5 DEF Restarts
<1> QED  BY <1>2, <1>5, <1>6 DEF c

\* spawn keeps the invariant, and restarts what it changes.
LEMMA SpawnCallStep ==
    ASSUME Typed(bt), Standing(bt), SpawnCall
    PROVE  Typed(bt') /\ Standing(bt') /\ Restarts(bt, bt')
<1> DEFINE b == PruneFinished(bt)
<1>1. PICK d \in Unused, leaf \in Unused :
        LET nodes == [x \in {leaf} |-> [kids |-> {}, call |-> FALSE, bind |-> Data]]
            g == Grafted(b, d, {})
            diff == GraftDiff(g, d, leaf, nodes)
        IN  d # leaf /\ Answer(Accepts(g, diff), Edited(g, diff), Told("spawn", d, nodes))
  BY Zenon DEF SpawnCall
<1> DEFINE nodes == [x \in {leaf} |-> [kids |-> {}, call |-> FALSE, bind |-> Data]]
           g == Grafted(b, d, {})
           diff == GraftDiff(g, d, leaf, nodes)
<1>2. \/ Accepts(g, diff) /\ bt' = Edited(g, diff)
      \/ bt' = PruneFinished(bt)
  BY <1>1 DEF Answer
<1>3. Typed(b) /\ Restarts(bt, b) /\ b.finished = None
  BY PruneFinishedIs
<1> HIDE DEF b
<1>4. d \in FreshIds /\ leaf \in FreshIds /\ d # leaf /\ Runner \notin {d, leaf}
      /\ d \in AllIds /\ leaf \in AllIds
  BY <1>1, ScaffoldAssumption DEF Unused, AllIds
<1>5. Typed(g) /\ Restarts(b, g)
  BY <1>3, <1>4, GraftedIs
<1>6. IsNodes(nodes, AllIds) /\ DOMAIN nodes = {leaf}
  <2>1. [kids |-> {}, call |-> FALSE, bind |-> Data] \in Node
    BY DEF Node
  <2> QED  BY <1>4, <2>1, OneNode
<1> HIDE DEF nodes, g
<1>7. Sane(diff) /\ Runner \in DOMAIN diff.set /\ diff.set[Runner] = RunnerNode(g)
  <2>1. d \in AllIds \ {Runner} /\ DOMAIN nodes \cap {d, Runner} = {}
    BY <1>4, <1>6
  <2> PICK e : e = diff
    OBVIOUS
  <2>2. Sane(e) /\ Runner \in DOMAIN e.set /\ e.set[Runner] = RunnerNode(g)
    BY <1>4, <1>5, <1>6, <2>1, GraftDiffIs
  <2> QED  BY <2>2
<1> HIDE DEF diff
<1>8. /\ Typed(Edited(g, diff)) /\ Restarts(g, Edited(g, diff))
      /\ Accepts(g, diff) => Standing(Edited(g, diff))
  BY <1>5, <1>7, EditedTyped, EditedStands
<1>9. Restarts(bt, Edited(g, diff))
  <2> PICK e : e = Edited(g, diff)
    OBVIOUS
  <2> QED  BY <1>3, <1>5, <1>8, RestartsComposes
<1> QED  BY <1>2, <1>8, <1>9, PruneFinishedStep DEF b

\* A graph's detached nodes are nodes of its own.
LEMMA DetachedTyped ==
    ASSUME NEW g, IsGraph(g)
    PROVE  DetachedOf(g) \subseteq DOMAIN g.nodes /\ DetachedOf(g) \subseteq Ids
BY DEF DetachedOf, Parentless, IsGraph, IsNodes

\* The detached nodes of b's run d replaced.
\* b, with other detached nodes of its run d.
Redetached(b, d, detached) == [b EXCEPT !.runs = [b.runs EXCEPT ![d] = detached]]

\* A run given other detached nodes is the same run.
LEMMA WithDetached ==
    ASSUME NEW b, Typed(b), NEW d \in DOMAIN b.runs, NEW detached \in SUBSET Ids,
           NEW c, c = Redetached(b, d, detached)
    PROVE  /\ Typed(c) /\ Restarts(b, c)
           /\ c.graph = b.graph /\ c.main_root = b.main_root
           /\ c.finished = b.finished /\ c.dirty = b.dirty /\ c.fresh = b.fresh
           /\ c.revision = b.revision
           /\ DOMAIN c.runs = DOMAIN b.runs /\ c.runs[d] = detached
           /\ \A e \in DOMAIN b.runs \ {d} : c.runs[e] = b.runs[e]
<1> DEFINE runs == [b.runs EXCEPT ![d] = detached]
<1>1. /\ DOMAIN runs = DOMAIN b.runs /\ runs[d] = detached
      /\ \A e \in DOMAIN b.runs \ {d} : runs[e] = b.runs[e]
  OBVIOUS
<1> HIDE DEF runs
<1>2. IsRuns(runs) /\ DOMAIN runs \cap DOMAIN b.finished = {}
  BY <1>1 DEF Typed, IsRuns
<1>3. /\ c = [graph |-> b.graph, main_root |-> b.main_root, runs |-> runs,
              finished |-> b.finished, dirty |-> b.dirty, fresh |-> b.fresh,
              revision |-> b.revision]
      /\ Typed(c)
  BY <1>2, WithRuns DEF runs, Redetached
<1>4. Restarts(b, c)
  BY <1>3 DEF Restarts
<1> QED  BY <1>1, <1>3, <1>4

\* respawn keeps the invariant, and restarts what it changes.
LEMMA RespawnStep ==
    ASSUME Typed(bt), Standing(bt), NEW g \in Fragments, NEW b, b = PruneFinished(bt),
           NEW d \in DOMAIN b.runs, Respawn(b, d, g)
    PROVE  Typed(bt') /\ Standing(bt') /\ Restarts(bt, bt')
<1> DEFINE held == NodesOf(b.graph, d, b.runs[d]) \ {d}
           staying == HeldOutside(b, held \cup {d})
           S == (held \ staying) \cap DOMAIN b.graph
           own == Restrict(b.graph, S)
           diff == Diff(own, g.nodes)
           detached == [b.runs EXCEPT ![d] = DetachedOf(g)]
           respawned == [Edited(b, diff) EXCEPT !.runs = detached]
<1>1. \/ bt' = [b EXCEPT !.runs = detached]
      \/ Accepts(b, diff) /\ bt' = Revised(respawned, MainGraph(b, None))
      \/ bt' = PruneFinished(bt)
  BY Zenon DEF Respawn, Answer
<1>2. Typed(b) /\ Restarts(bt, b) /\ Standing(b)
  BY PruneFinishedIs, PruneFinishedStands
<1>3. IsGraph(g) /\ DetachedOf(g) \in SUBSET Ids /\ IsNodes(g.nodes, AllIds)
  BY ScaffoldAssumption, DetachedTyped, WiderNodes DEF IsGraph
<1>4. ASSUME bt' = [b EXCEPT !.runs = detached]
      PROVE  Typed(bt') /\ Standing(bt') /\ Restarts(bt, bt')
  <2> PICK c : c = bt'
    OBVIOUS
  <2>1. /\ Typed(c) /\ Restarts(b, c)
        /\ c.graph = b.graph /\ c.main_root = b.main_root
        /\ c.finished = b.finished /\ DOMAIN c.runs = DOMAIN b.runs
    <3>1. c = Redetached(b, d, DetachedOf(g))
      BY <1>4 DEF Redetached
    <3> QED  BY <1>2, <1>3, <3>1, WithDetached
  <2>2. DOMAIN AllRuns(c) = DOMAIN AllRuns(b)
    BY <2>1, AllRunsIs
  <2>3. Standing(c)
    BY <1>2, <2>1, <2>2, StandingKept
  <2> QED  BY <1>2, <2>1, <2>3, RestartsComposes
<1>5. ASSUME Accepts(b, diff), bt' = Revised(respawned, MainGraph(b, None))
      PROVE  Typed(bt') /\ Standing(bt') /\ Restarts(bt, bt')
  <2>1. S \in SUBSET DOMAIN b.graph /\ IsNodes(b.graph, AllIds)
    BY <1>2 DEF Typed
  <2> HIDE DEF S
  <2>2. IsNodes(own, AllIds)
    BY <2>1, RestrictNodes
  <2> HIDE DEF own
  <2>3. Sane(diff) /\ Runner \notin DOMAIN diff.set
    <3>1. Sane(diff) /\ DOMAIN diff.set \subseteq DOMAIN g.nodes
      BY <1>3, <2>2, DiffIs
    <3> QED  BY <1>3, <3>1, WiderNodes DEF IsGraph
  <2> HIDE DEF diff
  <2>4. /\ Typed(Edited(b, diff)) /\ Restarts(b, Edited(b, diff))
        /\ Edited(b, diff).runs = b.runs
        /\ Standing(Edited(b, diff))
    BY <1>2, <1>5, <2>3, EditedTyped, EditedStands, EditedIs DEF Typed
  <2> PICK e : e = Edited(b, diff)
    OBVIOUS
  <2> PICK c : c = respawned
    OBVIOUS
  <2>5. c = Redetached(e, d, DetachedOf(g)) /\ d \in DOMAIN e.runs
    BY <2>4 DEF Redetached
  <2> HIDE DEF respawned
  <2>6. /\ Typed(c) /\ Restarts(e, c)
        /\ c.graph = e.graph /\ c.main_root = e.main_root
        /\ c.finished = e.finished /\ DOMAIN c.runs = DOMAIN e.runs
    BY <1>3, <2>4, <2>5, WithDetached
  <2>9. Standing(c)
    <3>1. DOMAIN AllRuns(c) = DOMAIN AllRuns(e)
      BY <2>6, AllRunsIs
    <3> QED  BY <2>4, <2>6, <3>1, StandingKept
  <2> PICK v : v = bt'
    OBVIOUS
  <2>7. Typed(v) /\ v.graph = c.graph /\ v.dirty = c.dirty /\ v.fresh = c.fresh
    BY <1>5, <2>6, RevisedIs
  <2>8. Restarts(c, v) /\ Standing(v)
    BY <1>5, <2>6, <2>7, <2>9, RevisedStands DEF Restarts
  <2> QED  BY <1>2, <2>4, <2>6, <2>7, <2>8, RestartsComposes
<1> QED  BY <1>1, <1>4, <1>5, PruneFinishedStep

\* spawn_graph keeps the invariant, and restarts what it changes.
LEMMA SpawnGraphStep ==
    ASSUME Typed(bt), Standing(bt), NEW g \in Fragments, SpawnGraph(g)
    PROVE  Typed(bt') /\ Standing(bt') /\ Restarts(bt, bt')
<1> DEFINE b == PruneFinished(bt)
<1>1. \/ \E d \in DOMAIN b.runs : Respawn(b, d, g)
      \/ \E d \in Unused :
           LET grafted == Grafted(b, d, DetachedOf(g))
               diff == GraftDiff(grafted, d, g.root, g.nodes)
           IN  Answer(/\ DOMAIN g.nodes \cap DOMAIN b.graph = {}
                      /\ Accepts(grafted, diff),
                      Edited(grafted, diff),
                      Told("spawn", d, g.nodes))
  BY Zenon DEF SpawnGraph
<1>2. ASSUME NEW d \in DOMAIN b.runs, Respawn(b, d, g)
      PROVE  Typed(bt') /\ Standing(bt') /\ Restarts(bt, bt')
  <2> PICK c : c = b
    OBVIOUS
  <2> QED  BY <1>2, RespawnStep
<1>3. ASSUME NEW d \in Unused,
             LET grafted == Grafted(b, d, DetachedOf(g))
                 diff == GraftDiff(grafted, d, g.root, g.nodes)
             IN  Answer(/\ DOMAIN g.nodes \cap DOMAIN b.graph = {}
                        /\ Accepts(grafted, diff),
                        Edited(grafted, diff),
                        Told("spawn", d, g.nodes))
      PROVE  Typed(bt') /\ Standing(bt') /\ Restarts(bt, bt')
  <2> DEFINE grafted == Grafted(b, d, DetachedOf(g))
             diff == GraftDiff(grafted, d, g.root, g.nodes)
  <2>1. \/ Accepts(grafted, diff) /\ bt' = Edited(grafted, diff)
        \/ bt' = PruneFinished(bt)
    BY <1>3 DEF Answer
  <2>2. Typed(b) /\ Restarts(bt, b) /\ b.finished = None
    BY PruneFinishedIs
  <2> HIDE DEF b
  <2>3. d \in FreshIds /\ d \in AllIds \ {Runner}
    BY ScaffoldAssumption DEF Unused, AllIds
  <2>4. /\ IsGraph(g) /\ DetachedOf(g) \in SUBSET Ids /\ IsNodes(g.nodes, AllIds)
        /\ DOMAIN g.nodes \cap {d, Runner} = {}
    BY <2>3, ScaffoldAssumption, DetachedTyped, WiderNodes DEF IsGraph
  <2>5. Typed(grafted) /\ Restarts(b, grafted)
    BY <2>2, <2>3, <2>4, GraftedIs
  <2> HIDE DEF grafted
  <2>6. CASE Accepts(grafted, diff) /\ bt' = Edited(grafted, diff)
    <3>1. CASE g.root \in AllIds
      <4>1. Sane(diff) /\ Runner \in DOMAIN diff.set /\ diff.set[Runner] = RunnerNode(grafted)
        <5> PICK e : e = diff
          OBVIOUS
        <5> PICK nodes, root : nodes = g.nodes /\ root = g.root
          OBVIOUS
        <5>1. Sane(e) /\ Runner \in DOMAIN e.set /\ e.set[Runner] = RunnerNode(grafted)
          BY <2>3, <2>4, <2>5, <3>1, GraftDiffIs
        <5> QED  BY <5>1
      <4> HIDE DEF diff
      <4>2. Typed(bt') /\ Restarts(grafted, bt') /\ Standing(bt')
        BY <2>5, <2>6, <4>1, EditedTyped, EditedStands
      <4> PICK e : e = bt'
        OBVIOUS
      <4> QED  BY <2>2, <2>5, <4>2, RestartsComposes
    <3>2. g.root \in AllIds
      <4>1. g.root \in DOMAIN g.nodes
        BY DEF SpawnGraph, Spawnable
      <4> QED  BY <2>4, <4>1 DEF IsNodes
    <3> QED  BY <3>1, <3>2
  <2> QED  BY <2>1, <2>6, PruneFinishedStep
<1> QED  BY <1>1, <1>2, <1>3

\* halt keeps the invariant, and restarts what it changes.
LEMMA HaltStep ==
    ASSUME Typed(bt), Standing(bt), NEW d, Halt(d)
    PROVE  Typed(bt') /\ Standing(bt') /\ Restarts(bt, bt')
<1> DEFINE runs == Without(bt.runs, {d})
           b == [bt EXCEPT !.runs = runs]
           gone == Restrict(bt.runs, {d})
<1>1. bt' = Pruned(b, gone)
  BY DEF Halt
<1>2. DOMAIN runs = DOMAIN bt.runs \ {d} /\ \A e \in DOMAIN runs : runs[e] = bt.runs[e]
  BY DEF Without, Restrict
<1> HIDE DEF runs, gone
<1>3. IsRuns(runs) /\ DOMAIN runs \cap DOMAIN bt.finished = {}
  BY <1>2 DEF Typed, IsRuns
<1>4. /\ b = [graph |-> bt.graph, main_root |-> bt.main_root, runs |-> runs,
              finished |-> bt.finished, dirty |-> bt.dirty, fresh |-> bt.fresh,
              revision |-> bt.revision]
      /\ Typed(b)
  BY <1>3, WithRuns
<1> HIDE DEF b
<1>5. Restarts(bt, b)
  BY <1>4 DEF Restarts
<1>6. Standing(b)
  <2>1. DOMAIN AllRuns(b) \subseteq DOMAIN AllRuns(bt)
    BY <1>2, <1>4, AllRunsIs
  <2> QED  BY <1>4, <2>1, StandingKept
<1>7. Typed(bt') /\ Restarts(b, bt') /\ Standing(bt')
  BY <1>1, <1>4, <1>6, PrunedIs, PrunedStands
<1> PICK p : p = bt'
  OBVIOUS
<1> QED  BY <1>5, <1>7, RestartsComposes

\* What lowering a changed graph leaves: the finished runs pruned, and nothing to
\* restart.
LEMMA TickedIs ==
    ASSUME NEW b, Typed(b)
    PROVE  LET c == Ticked(b)
           IN  /\ Typed(c)
               /\ \/ ~b.dirty /\ c = b
                  \/ /\ b.dirty
                     /\ c.graph = PruneFinished(b).graph
                     /\ c.main_root = b.main_root /\ c.runs = b.runs /\ c.finished = None
                     /\ c.revision = PruneFinished(b).revision
                     /\ c.fresh = {}
<1>1. CASE ~b.dirty
  BY <1>1 DEF Ticked
<1>2. CASE b.dirty
  <2> DEFINE p == PruneFinished(b)
             no == FALSE
             c == Ticked(b)
             one == [p EXCEPT !.dirty = no]
  <2>1. c = [one EXCEPT !.fresh = {}]
    BY <1>2, Zenon DEF Ticked
  <2>2. Typed(p) /\ p.main_root = b.main_root /\ p.runs = b.runs /\ p.finished = None
    BY PruneFinishedIs
  <2> HIDE DEF p, c
  <2>3. no \in BOOLEAN
    OBVIOUS
  <2> HIDE DEF no
  <2>4. one = [graph |-> p.graph, main_root |-> p.main_root, runs |-> p.runs,
               finished |-> p.finished, dirty |-> no, fresh |-> p.fresh,
               revision |-> p.revision]
    BY <2>2 DEF Typed, Fields
  <2> HIDE DEF one
  <2>5. c = [graph |-> p.graph, main_root |-> p.main_root, runs |-> p.runs,
             finished |-> p.finished, dirty |-> no, fresh |-> {}, revision |-> p.revision]
    BY <2>1, <2>4
  <2>6. Typed(c)
    BY <2>2, <2>3, <2>5 DEF Typed, Fields
  <2> QED  BY <1>2, <2>2, <2>5, <2>6 DEF c, p
<1> QED  BY <1>1, <1>2

\* The runs that ended move from the list of live ones to that of finished ones.
LEMMA EndedIs ==
    ASSUME NEW b, Typed(b), NEW E \in SUBSET DOMAIN b.runs
    PROVE  LET c == Ended(b, E)
           IN  /\ Typed(c)
               /\ c.graph = b.graph /\ c.main_root = b.main_root
               /\ c.revision = b.revision /\ c.fresh = b.fresh
               /\ DOMAIN c.runs = DOMAIN b.runs \ E
               /\ DOMAIN c.finished = DOMAIN b.finished \cup E
               /\ \A d \in DOMAIN b.runs \ E : c.runs[d] = b.runs[d]
               /\ \A d \in DOMAIN b.finished : c.finished[d] = b.finished[d]
               /\ \A d \in E : c.finished[d] = b.runs[d]
<1> DEFINE runs == Without(b.runs, E)
           finished == Over(b.finished, Restrict(b.runs, E))
           dirty == b.dirty \/ E # {}
           one == [b EXCEPT !.runs = runs]
           two == [one EXCEPT !.finished = finished]
           c == Ended(b, E)
<1>1. /\ DOMAIN runs = DOMAIN b.runs \ E
      /\ \A d \in DOMAIN runs : runs[d] = b.runs[d]
  BY DEF Without, Restrict
<1>2. /\ DOMAIN finished = DOMAIN b.finished \cup E
      /\ \A d \in DOMAIN b.finished : finished[d] = b.finished[d]
      /\ \A d \in E \ DOMAIN b.finished : finished[d] = b.runs[d]
  BY DEF Over, Restrict
<1>3. DOMAIN b.runs \cap DOMAIN b.finished = {} /\ IsRuns(b.runs) /\ IsRuns(b.finished)
  BY DEF Typed
<1>4. c = [two EXCEPT !.dirty = dirty]
  BY Zenon DEF Ended
<1>5. dirty \in BOOLEAN
  BY Zenon DEF Typed
<1> HIDE DEF runs, finished, dirty, c
<1>6. IsRuns(runs) /\ IsRuns(finished) /\ DOMAIN runs \cap DOMAIN finished = {}
  BY <1>1, <1>2, <1>3 DEF IsRuns
<1>7. one = [graph |-> b.graph, main_root |-> b.main_root, runs |-> runs,
             finished |-> b.finished, dirty |-> b.dirty, fresh |-> b.fresh,
             revision |-> b.revision]
  BY DEF Typed, Fields
<1> HIDE DEF one
<1>8. two = [graph |-> b.graph, main_root |-> b.main_root, runs |-> runs,
             finished |-> finished, dirty |-> b.dirty, fresh |-> b.fresh,
             revision |-> b.revision]
  BY <1>7
<1> HIDE DEF two
<1>9. c = [graph |-> b.graph, main_root |-> b.main_root, runs |-> runs,
           finished |-> finished, dirty |-> dirty, fresh |-> b.fresh, revision |-> b.revision]
  BY <1>4, <1>8
<1>10. Typed(c)
  BY <1>5, <1>6, <1>9 DEF Typed, Fields
<1> QED  BY <1>1, <1>2, <1>3, <1>9, <1>10 DEF c

\* tick keeps the invariant.
LEMMA TickStep ==
    ASSUME Typed(bt), Standing(bt), Tick
    PROVE  Typed(bt') /\ Standing(bt')
<1>1. PICK E \in SUBSET DOMAIN bt.runs : bt' = Ended(Ticked(bt), E)
  BY DEF Tick
<1> PICK c : c = Ticked(bt)
  OBVIOUS
<1>2. Typed(c) /\ c.runs = bt.runs
  BY TickedIs
<1>3. Standing(c)
  <2>1. CASE ~bt.dirty
    BY <2>1, TickedIs
  <2>2. CASE bt.dirty
    <3> PICK p : p = PruneFinished(bt)
      OBVIOUS
    <3>1. Standing(p) /\ p.main_root = bt.main_root /\ p.runs = bt.runs /\ p.finished = None
      BY PruneFinishedIs, PruneFinishedStands
    <3>2. /\ c.graph = p.graph /\ c.main_root = p.main_root
          /\ c.runs = p.runs /\ c.finished = p.finished
      BY <2>2, <3>1, TickedIs
    <3>3. DOMAIN AllRuns(c) = DOMAIN AllRuns(p)
      BY <3>2, AllRunsIs
    <3> QED  BY <3>1, <3>2, <3>3, StandingKept
  <2> QED  BY <2>1, <2>2
<1> PICK v : v = bt'
  OBVIOUS
<1>4. /\ Typed(v) /\ v.graph = c.graph /\ v.main_root = c.main_root
      /\ DOMAIN v.runs = DOMAIN c.runs \ E
      /\ DOMAIN v.finished = DOMAIN c.finished \cup E
  BY <1>1, <1>2, EndedIs
<1>5. DOMAIN AllRuns(v) \subseteq DOMAIN AllRuns(c)
  BY <1>2, <1>4, AllRunsIs
<1> QED  BY <1>3, <1>4, <1>5, StandingKept

\* The invariant holds of an interpreter just made.
LEMMA InitTyped == Init => Typed(bt) /\ Standing(bt)
<1> SUFFICES ASSUME Init  PROVE Typed(bt) /\ Standing(bt)
  OBVIOUS
<1> DEFINE node == [kids |-> {}, call |-> FALSE, bind |-> Unbound]
           graph == [x \in {Runner} |-> node]
<1>1. bt = [graph |-> graph, main_root |-> NoRoot, runs |-> None, finished |-> None,
            dirty |-> TRUE, fresh |-> {}, revision |-> 0]
  BY Zenon DEF Init
<1>2. node \in Node
  BY DEF Node
<1> HIDE DEF node
<1>3. IsNodes(graph, AllIds)
  BY <1>2, OneNode DEF AllIds
<1>4. IsRuns(None) /\ DOMAIN None = {}
  BY DEF IsRuns, None
<1>5. 0 \in 0..(Revisions - 1)
  BY ScaffoldAssumption
<1> HIDE DEF graph
<1>6. Fields(bt) /\ bt.dirty \in BOOLEAN
  BY <1>1 DEF Fields
<1>7. Typed(bt)
  BY <1>1, <1>3, <1>4, <1>5, <1>6 DEF Typed
<1>8. DOMAIN graph = {Runner} /\ graph[Runner].kids = {}
  BY DEF graph, node
<1>9. Reach(graph, {Runner}) = {Runner} /\ Reach(graph, {}) = {}
  <2>1. KidsKnown(graph) /\ {Runner} \in SUBSET AllIds
    BY <1>3, TypedKids DEF AllIds
  <2>2. Closed(graph, {Runner}) /\ Closed(graph, {})
    BY <1>8 DEF Closed
  <2> QED  BY <2>1, <2>2, ReachHolds, ReachLeast
<1>10. DOMAIN AllRuns(bt) = {}
  BY <1>1, <1>4, AllRunsIs
<1>11. Standing(bt)
  BY <1>1, <1>8, <1>9, <1>10 DEF Standing, RunnerHolds, Acyclic
<1> QED  BY <1>7, <1>11

\* Every step keeps the invariant, and all but a tick restart what they change.
LEMMA NextStep ==
    ASSUME Typed(bt), Standing(bt), Next
    PROVE  Typed(bt') /\ Standing(bt') /\ (told'.op # "tick" => Restarts(bt, bt'))
<1>1. ASSUME NEW g \in Behaviors, Load(g)  PROVE Typed(bt') /\ Standing(bt') /\ Restarts(bt, bt')
  BY <1>1, LoadStep
<1>2. ASSUME NEW d \in Edits, Apply(d)  PROVE Typed(bt') /\ Standing(bt') /\ Restarts(bt, bt')
  BY <1>2, ApplyStep
<1>3. ASSUME SpawnCall  PROVE Typed(bt') /\ Standing(bt') /\ Restarts(bt, bt')
  BY <1>3, SpawnCallStep
<1>4. ASSUME NEW g \in Fragments, SpawnGraph(g)  PROVE Typed(bt') /\ Standing(bt') /\ Restarts(bt, bt')
  BY <1>4, SpawnGraphStep
<1>5. ASSUME NEW d \in FreshIds, Halt(d)  PROVE Typed(bt') /\ Standing(bt') /\ Restarts(bt, bt')
  BY <1>5, HaltStep
<1>6. ASSUME Tick  PROVE Typed(bt') /\ Standing(bt') /\ told'.op = "tick"
  BY <1>6, TickStep DEF Tick, Told
<1>7. ASSUME TickFails  PROVE Typed(bt') /\ Standing(bt') /\ Restarts(bt, bt')
  BY <1>7, PruneFinishedStep DEF TickFails
<1> QED  BY <1>1, <1>2, <1>3, <1>4, <1>5, <1>6, <1>7 DEF Next

\* A step that changes nothing keeps the invariant.
LEMMA StutterTyped ==
    ASSUME Typed(bt), Standing(bt), UNCHANGED vars
    PROVE  Typed(bt') /\ Standing(bt')
BY DEF vars

\* The inductive invariant.
ScaffoldInv == Typed(bt) /\ Standing(bt)

\* The interpreter's fields are typed and its scaffold stands, always.
LEMMA Invariant == Spec => []ScaffoldInv
<1>1. Init => ScaffoldInv
  BY InitTyped DEF ScaffoldInv
<1>2. ASSUME ScaffoldInv, [Next]_vars  PROVE ScaffoldInv'
  BY <1>2, NextStep, StutterTyped DEF ScaffoldInv
<1> QED  BY <1>1, <1>2, PTL DEF Spec

\* The interpreter's fields keep their types, and a run is live or finished, never
\* both (behavior.rs, the runs and finished lists).
THEOREM TypeCorrect == Spec => []TypeOK
<1>1. ScaffoldInv => TypeOK
  BY DEF ScaffoldInv, Typed, TypeOK, IsRuns
<1> QED  BY <1>1, Invariant, PTL

\* A node that a request changes, and leaves in the graph, is marked to restart
\* and the graph to be lowered, whichever request it is and whatever pruning it did
\* on its way (behavior.rs, edit_lowering, changed_nodes and unbound_by_removal).
THEOREM ChangesRestart == Spec => ChangedNodesRestart
<1>1. ASSUME ScaffoldInv, [Next]_vars
      PROVE  [told'.op # "tick" =>
                \A x \in DOMAIN bt.graph \cap DOMAIN bt'.graph :
                   bt'.graph[x] # bt.graph[x] => bt'.dirty /\ x \in bt'.fresh]_vars
  <2>1. CASE Next
    BY <1>1, <2>1, NextStep DEF Restarts, ScaffoldInv
  <2>2. CASE UNCHANGED vars
    BY <2>2
  <2> QED  BY <1>1, <2>1, <2>2
<1> QED  BY <1>1, Invariant, PTL DEF Spec, ChangedNodesRestart

------------------------------------------------------------------------------
(* Fragments under their decorators *)

\* Nodes a diff sets whole, and binds no further, are as it sets them.
LEMMA SetApplied ==
    ASSUME NEW nodes, NEW d, Sane(d), NEW new, IsApplied(nodes, d, new),
           d.unbind = {}, DOMAIN d.bind = {}, NEW x \in DOMAIN d.set
    PROVE  x \in DOMAIN new /\ new[x] = d.set[x]
<1>1. /\ x \in DOMAIN new
      /\ new[x].kids = d.set[x].kids /\ new[x].call = d.set[x].call
      /\ new[x].bind = d.set[x].bind
  BY DEF IsApplied
<1>2. new[x] \in Node /\ d.set[x] \in Node
  BY <1>1 DEF IsApplied, Sane, IsNodes
<1> QED  BY <1>1, <1>2 DEF Node

\* The empty diff changes nothing.
LEMMA NoDiffApplied ==
    ASSUME NEW nodes, IsNodes(nodes, AllIds), NEW new, IsApplied(nodes, NoDiff, new)
    PROVE  new = nodes
<1>1. /\ NoDiff.remove = {} /\ DOMAIN NoDiff.set = {} /\ NoDiff.unbind = {}
      /\ DOMAIN NoDiff.bind = {}
  BY DEF NoDiff, None
<1>2. DOMAIN new = DOMAIN nodes /\ IsNodes(new, AllIds)
  BY <1>1 DEF IsApplied
<1>3. ASSUME NEW x \in DOMAIN nodes  PROVE new[x] = nodes[x]
  <2>1. /\ new[x].kids = nodes[x].kids /\ new[x].call = nodes[x].call
        /\ new[x].bind = nodes[x].bind
    BY <1>1, <1>2 DEF IsApplied
  <2>2. new[x] \in Node /\ nodes[x] \in Node
    BY <1>2 DEF IsNodes
  <2> QED  BY <2>1, <2>2 DEF Node
<1> QED  BY <1>2, <1>3 DEF IsNodes

\* A tree under its root, beside detached nodes.
IsFragment(nodes, root, detached) ==
    /\ IsNodes(nodes, AllIds)
    /\ root \in DOMAIN nodes
    /\ DOMAIN nodes = Reach(nodes, {root}) \cup detached

\* N has nodes, under the decorator d.
Sits(N, d, root, nodes) ==
    /\ IsNodes(N, AllIds)
    /\ d \in DOMAIN N \ DOMAIN nodes
    /\ N[d].kids = {root}
    /\ \A x \in DOMAIN nodes : x \in DOMAIN N /\ N[x] = nodes[x]

\* A fragment that is one tree beside its detached nodes, set under the
\* decorator d, is what d holds.
LEMMA HeldIs ==
    ASSUME NEW N, NEW d, NEW nodes, NEW root, NEW detached,
           IsFragment(nodes, root, detached), Sits(N, d, root, nodes)
    PROVE  Restrict(N, NodesOf(N, d, detached) \ {d}) = nodes
<1> USE DEF IsFragment, Sits
<1> DEFINE R == Reach(nodes, {root})
<1>1. KidsKnown(N) /\ KidsKnown(nodes) /\ {root} \in SUBSET AllIds /\ {d} \in SUBSET AllIds
  BY TypedKids DEF IsNodes
<1>2. R \subseteq DOMAIN nodes
  OBVIOUS
<1>3. Reach(N, {root}) = R
  BY <1>1, <1>2, ReachAgrees
<1>4. root \in R /\ Closed(N, R)
  BY <1>1, <1>3, ReachHolds
<1> HIDE DEF R
<1>5. Reach(N, {d}) \subseteq {d} \cup R
  <2>1. Closed(N, {d} \cup R)
    BY <1>4 DEF Closed
  <2> QED  BY <1>1, <2>1, ReachLeast
<1>6. {d} \cup R \subseteq Reach(N, {d})
  <2>1. d \in Reach(N, {d}) /\ Closed(N, Reach(N, {d}))
    BY <1>1, ReachHolds
  <2>2. {root} \subseteq Reach(N, {d})
    BY <2>1 DEF Closed
  <2> QED  BY <1>1, <1>3, <2>1, <2>2, ReachLeast
<1>7. NodesOf(N, d, detached) \ {d} = DOMAIN nodes
  BY <1>5, <1>6 DEF NodesOf, R
<1> QED  BY <1>7 DEF Restrict, IsNodes

\* Applying the diff of the nodes ours to theirs leaves theirs.
LEMMA DiffReaches ==
    ASSUME NEW nodes, IsNodes(nodes, AllIds), NEW S \in SUBSET DOMAIN nodes,
           NEW theirs, IsNodes(theirs, AllIds),
           \A x \in DOMAIN theirs : theirs[x].bind \in DOMAIN theirs \cup {Unbound, Data},
           NEW d, d = Diff(Restrict(nodes, S), theirs),
           NEW new, IsApplied(nodes, d, new)
    PROVE  \A x \in DOMAIN theirs : x \in DOMAIN new /\ new[x] = theirs[x]
<1> PICK ours : ours = Restrict(nodes, S)
  OBVIOUS
<1> DEFINE same == {x \in DOMAIN ours \cap DOMAIN theirs :
                       ours[x].call = theirs[x].call /\ ours[x].kids = theirs[x].kids}
<1>1. IsNodes(ours, AllIds) /\ DOMAIN ours = S /\ \A x \in S : ours[x] = nodes[x]
  BY RestrictNodes DEF Restrict
<1>2. /\ d.remove = DOMAIN ours \ DOMAIN theirs
      /\ DOMAIN d.set = DOMAIN theirs \ same
      /\ \A x \in DOMAIN d.set : d.set[x] = theirs[x]
      /\ d.unbind = {x \in same : theirs[x].bind = Unbound
                                   /\ ours[x].bind \notin d.remove \cup {Unbound}}
      /\ DOMAIN d.bind = {x \in same : theirs[x].bind # Unbound
                                        /\ theirs[x].bind # ours[x].bind}
      /\ \A x \in DOMAIN d.bind : d.bind[x] = theirs[x].bind
  BY <1>1, DiffIs
<1>3. SUFFICES ASSUME NEW x \in DOMAIN theirs
               PROVE  /\ x \in DOMAIN new
                      /\ new[x].kids = theirs[x].kids /\ new[x].call = theirs[x].call
                      /\ new[x].bind = theirs[x].bind
  <2>1. ASSUME NEW x \in DOMAIN theirs, x \in DOMAIN new
        PROVE  new[x] \in Node /\ theirs[x] \in Node
    BY <2>1 DEF IsApplied, IsNodes
  <2> QED  BY <2>1 DEF Node
<1>4. CASE x \notin same
  <2>1. x \in DOMAIN d.set /\ x \notin d.unbind /\ x \notin DOMAIN d.bind
    BY <1>2, <1>4
  <2> QED  BY <1>2, <2>1 DEF IsApplied
<1>5. CASE x \in same
  <2>1. /\ x \in DOMAIN nodes /\ x \notin d.remove /\ x \notin DOMAIN d.set
        /\ nodes[x].kids = theirs[x].kids /\ nodes[x].call = theirs[x].call
        /\ ours[x] = nodes[x]
    BY <1>1, <1>2, <1>5
  <2>2. x \in DOMAIN new /\ new[x].kids = theirs[x].kids /\ new[x].call = theirs[x].call
    BY <2>1 DEF IsApplied
  <2>3. theirs[x].bind \notin d.remove
    BY <1>1, <1>2, ScaffoldAssumption DEF IsNodes
  <2>4. new[x].bind = IF x \in DOMAIN d.bind THEN d.bind[x]
                      ELSE IF x \in d.unbind THEN Unbound
                      ELSE IF nodes[x].bind \in d.remove THEN Unbound
                      ELSE nodes[x].bind
    BY <2>1, <2>2 DEF IsApplied
  <2>5. CASE x \in DOMAIN d.bind
    BY <1>2, <2>2, <2>4, <2>5
  <2>6. CASE x \notin DOMAIN d.bind /\ theirs[x].bind = Unbound
    BY <1>2, <1>5, <2>1, <2>2, <2>4, <2>6
  <2>7. CASE x \notin DOMAIN d.bind /\ theirs[x].bind # Unbound
    BY <1>2, <1>5, <2>1, <2>2, <2>3, <2>4, <2>7
  <2> QED  BY <2>5, <2>6, <2>7
<1> QED  BY <1>4, <1>5

------------------------------------------------------------------------------
(* What a spawn leaves *)

\* The runner is nobody's child.
RunnerFree(nodes) == \A x \in DOMAIN nodes : Runner \notin nodes[x].kids

\* The runner's id is drawn at random: no graph that is loaded names it.
RunnerPrivate == \A g \in Behaviors : RunnerFree(g.nodes)

\* Applying a diff that has the runner under no node puts it under none.
LEMMA AppliedFree ==
    ASSUME NEW nodes, RunnerFree(nodes), NEW d, RunnerFree(d.set),
           NEW new, IsApplied(nodes, d, new)
    PROVE  RunnerFree(new)
BY DEF RunnerFree, IsApplied

\* The runner is not its own child.
LEMMA RunnerNodeFree ==
    ASSUME NEW b, Typed(b)
    PROVE  Runner \notin RunnerNode(b).kids
<1>1. DOMAIN AllRuns(b) \subseteq FreshIds
  BY AllRunsIs DEF Typed, IsRuns
<1> QED  BY <1>1, ScaffoldAssumption DEF RunnerNode, Typed

\* Nor does an edit put it under a node.
LEMMA EditedFree ==
    ASSUME NEW b, Typed(b), RunnerFree(b.graph), NEW d, Sane(d), RunnerFree(d.set),
           NEW c, c = Edited(b, d)
    PROVE  RunnerFree(c.graph)
<1> PICK new : new = ApplyDiff(b.graph, d)
  OBVIOUS
<1>1. IsApplied(b.graph, d, new)
  BY AppliedNodes DEF Typed
<1>2. c.graph = new
  BY EditedIs DEF Typed
<1> QED  BY <1>1, <1>2, AppliedFree

\* Nor does pruning.
LEMMA PrunedFree ==
    ASSUME NEW b, Typed(b), RunnerFree(b.graph), NEW gone, NEW p, p = Pruned(b, gone)
    PROVE  RunnerFree(p.graph)
<1> PICK d : d = PruneDiff(b, gone)
  OBVIOUS
<1>1. Sane(d) /\ DOMAIN d.set = {Runner} /\ d.set[Runner] = RunnerNode(b)
  BY PruneDiffIs
<1>2. RunnerFree(d.set)
  BY <1>1, RunnerNodeFree DEF RunnerFree
<1>3. RunnerFree(ApplyDiff(b.graph, d))
  <2>1. IsApplied(b.graph, d, ApplyDiff(b.graph, d))
    BY <1>1, AppliedNodes DEF Typed
  <2> QED  BY <1>2, <2>1, AppliedFree
<1>4. p = b \/ p.graph = ApplyDiff(b.graph, d)
  BY PrunedIs
<1> QED  BY <1>3, <1>4

\* Nor does pruning the finished runs.
LEMMA PruneFinishedFree ==
    ASSUME NEW b, Typed(b), RunnerFree(b.graph), NEW p, p = PruneFinished(b)
    PROVE  RunnerFree(p.graph)
<1> PICK c : c = Swept(b)
  OBVIOUS
<1>1. Typed(c) /\ c.graph = b.graph
  BY SweptIs
<1> QED  BY <1>1, PrunedFree DEF PruneFinished

\* A request refused.
Refused == bt' = PruneFinished(bt) /\ told' = Nothing

\* The fragment nodes is spawned under a decorator d of its own.
Grafts(b, d, root, nodes, detached) ==
    LET grafted == Grafted(b, d, detached)
        diff == GraftDiff(grafted, d, root, nodes)
    IN  /\ d \in FreshIds
        /\ detached \in SUBSET Ids
        /\ IsFragment(nodes, root, detached)
        /\ RunnerFree(nodes)
        /\ d \notin DOMAIN b.graph
        /\ DOMAIN nodes \cap ({d, Runner} \cup DOMAIN b.graph) = {}
        /\ Accepts(grafted, diff)
        /\ bt' = Edited(grafted, diff)
        /\ told' = Told("spawn", d, nodes)

\* The run d, rooted as the fragment g is, runs g from now on.
Respawns(b, d, g) ==
    /\ d \in DOMAIN b.runs
    /\ RootOf(b, d) = {g.root}
    /\ Spawnable(g)
    /\ Respawn(b, d, g)

\* prune adds no node and changes no node's children but the runner's.
LEMMA PruneShrinks ==
    ASSUME NEW b, Typed(b), NEW gone, NEW p, p = Pruned(b, gone)
    PROVE  /\ DOMAIN p.graph \subseteq DOMAIN b.graph \cup {Runner}
           /\ \A x \in DOMAIN p.graph \ {Runner} : p.graph[x].kids = b.graph[x].kids
<1> PICK d, N : d = PruneDiff(b, gone) /\ N = ApplyDiff(b.graph, d)
  OBVIOUS
<1>1. Sane(d) /\ DOMAIN d.set = {Runner}
  BY PruneDiffIs
<1>2. IsApplied(b.graph, d, N)
  BY <1>1, AppliedNodes DEF Typed
<1>3. p = b \/ p.graph = N
  BY PrunedIs
<1> QED  BY <1>1, <1>2, <1>3 DEF IsApplied

\* Nor does prune_finished.
LEMMA PruneFinishedShrinks ==
    ASSUME NEW b, Typed(b), NEW p, p = PruneFinished(b)
    PROVE  /\ DOMAIN p.graph \subseteq DOMAIN b.graph \cup {Runner}
           /\ \A x \in DOMAIN p.graph \ {Runner} : p.graph[x].kids = b.graph[x].kids
<1> PICK c : c = Swept(b)
  OBVIOUS
<1>1. Typed(c) /\ c.graph = b.graph
  BY SweptIs
<1>2. p = Pruned(c, b.finished)
  BY DEF PruneFinished
<1> QED  BY <1>1, <1>2, PruneShrinks

\* An id just drawn is no node's, before the finished runs leave or after.
LEMMA UnusedIs ==
    ASSUME Typed(bt), Standing(bt), NEW d \in Unused, NEW b, b = PruneFinished(bt)
    PROVE  d \in FreshIds /\ d \in AllIds \ {Runner} /\ d \notin DOMAIN b.graph
<1>1. d \in FreshIds /\ d \notin DOMAIN bt.graph /\ d # Runner
  BY ScaffoldAssumption DEF Unused
<1>2. DOMAIN b.graph \subseteq DOMAIN bt.graph \cup {Runner}
  BY PruneFinishedShrinks
<1> QED  BY <1>1, <1>2 DEF AllIds

\* A spawn is refused, or grafts a leaf.
LEMMA SpawnCallIs ==
    ASSUME Typed(bt), Standing(bt), SpawnCall, NEW b, b = PruneFinished(bt)
    PROVE  Refused \/ \E d, root, nodes, detached : Grafts(b, d, root, nodes, detached)
<1>1. PICK d \in Unused, leaf \in Unused :
        LET nodes == [x \in {leaf} |-> [kids |-> {}, call |-> FALSE, bind |-> Data]]
            g == Grafted(b, d, {})
            diff == GraftDiff(g, d, leaf, nodes)
        IN  d # leaf /\ Answer(Accepts(g, diff), Edited(g, diff), Told("spawn", d, nodes))
  BY Zenon DEF SpawnCall
<1> DEFINE v == [kids |-> {}, call |-> FALSE, bind |-> Data]
           nodes == [x \in {leaf} |-> v]
           g == Grafted(b, d, {})
           diff == GraftDiff(g, d, leaf, nodes)
<1>2. \/ Accepts(g, diff) /\ bt' = Edited(g, diff) /\ told' = Told("spawn", d, nodes)
      \/ Refused
  BY <1>1 DEF Answer, Refused
<1>4. /\ d \in FreshIds /\ leaf \in AllIds /\ d # leaf /\ Runner # leaf
      /\ d \notin DOMAIN b.graph /\ leaf \notin DOMAIN b.graph
  BY <1>1, UnusedIs
<1>5. v \in Node /\ v.kids = {}
  BY DEF Node
<1> HIDE DEF v
<1>6. IsNodes(nodes, AllIds) /\ DOMAIN nodes = {leaf} /\ nodes[leaf] = v
  BY <1>4, <1>5, OneNode
<1> HIDE DEF nodes
<1>7. Reach(nodes, {leaf}) = {leaf}
  <2>1. Closed(nodes, {leaf}) /\ KidsKnown(nodes)
    BY <1>5, <1>6, TypedKids DEF Closed
  <2> QED  BY <1>4, <2>1, ReachHolds, ReachLeast
<1>8. IsFragment(nodes, leaf, {}) /\ RunnerFree(nodes)
  BY <1>4, <1>5, <1>6, <1>7 DEF IsFragment, RunnerFree
<1>9. DOMAIN nodes \cap ({d, Runner} \cup DOMAIN b.graph) = {}
  BY <1>4, <1>6
<1>10. ASSUME Accepts(g, diff), bt' = Edited(g, diff), told' = Told("spawn", d, nodes)
       PROVE  Grafts(b, d, leaf, nodes, {})
  BY <1>4, <1>8, <1>9, <1>10 DEF Grafts
<1> QED  BY <1>2, <1>10

\* A spawn of a graph is refused, grafts it, or brings a live run to it.
LEMMA SpawnGraphIs ==
    ASSUME Typed(bt), Standing(bt), NEW g \in Fragments, SpawnGraph(g),
           NEW b, b = PruneFinished(bt)
    PROVE  \/ Refused
           \/ \E d, root, nodes, detached : Grafts(b, d, root, nodes, detached)
           \/ \E d : Respawns(b, d, g)
<1>1. \/ \E d \in DOMAIN b.runs : RootOf(b, d) = {g.root} /\ Respawn(b, d, g)
      \/ \E d \in Unused :
           LET grafted == Grafted(b, d, DetachedOf(g))
               diff == GraftDiff(grafted, d, g.root, g.nodes)
           IN  Answer(/\ DOMAIN g.nodes \cap DOMAIN b.graph = {}
                      /\ Accepts(grafted, diff),
                      Edited(grafted, diff),
                      Told("spawn", d, g.nodes))
  BY Zenon DEF SpawnGraph
<1>2. Spawnable(g)
  BY DEF SpawnGraph
<1>3. ASSUME NEW d \in DOMAIN b.runs, RootOf(b, d) = {g.root}, Respawn(b, d, g)
      PROVE  Respawns(b, d, g)
  BY <1>2, <1>3 DEF Respawns
<1>4. ASSUME NEW d \in Unused,
             LET grafted == Grafted(b, d, DetachedOf(g))
                 diff == GraftDiff(grafted, d, g.root, g.nodes)
             IN  Answer(/\ DOMAIN g.nodes \cap DOMAIN b.graph = {}
                        /\ Accepts(grafted, diff),
                        Edited(grafted, diff),
                        Told("spawn", d, g.nodes))
      PROVE  Refused \/ Grafts(b, d, g.root, g.nodes, DetachedOf(g))
  <2> DEFINE grafted == Grafted(b, d, DetachedOf(g))
             diff == GraftDiff(grafted, d, g.root, g.nodes)
  <2>1. \/ /\ DOMAIN g.nodes \cap DOMAIN b.graph = {} /\ Accepts(grafted, diff)
           /\ bt' = Edited(grafted, diff) /\ told' = Told("spawn", d, g.nodes)
        \/ Refused
    BY <1>4, Zenon DEF Answer, Refused
  <2>2. d \in FreshIds /\ d \notin DOMAIN b.graph
    BY UnusedIs
  <2>3. /\ DetachedOf(g) \in SUBSET Ids /\ IsNodes(g.nodes, AllIds)
        /\ DOMAIN g.nodes \cap {d, Runner} = {}
    BY <2>2, ScaffoldAssumption, DetachedTyped, WiderNodes DEF IsGraph
  <2>4. IsFragment(g.nodes, g.root, DetachedOf(g)) /\ RunnerFree(g.nodes)
    BY <1>2, <2>3 DEF IsFragment, Spawnable, IsTree, RunnerFree
  <2>5. ASSUME /\ DOMAIN g.nodes \cap DOMAIN b.graph = {} /\ Accepts(grafted, diff)
               /\ bt' = Edited(grafted, diff) /\ told' = Told("spawn", d, g.nodes)
        PROVE  Grafts(b, d, g.root, g.nodes, DetachedOf(g))
    <3>1. DOMAIN g.nodes \cap ({d, Runner} \cup DOMAIN b.graph) = {}
      BY <2>3, <2>5
    <3> QED  BY <2>2, <2>3, <2>4, <2>5, <3>1 DEF Grafts
  <2> QED  BY <2>1, <2>5
<1> QED  BY <1>1, <1>3, <1>4

\* What a graft leaves: the graph it found, with the runner over one more run.
LEMMA GraftIs ==
    ASSUME NEW b, Typed(b), b.finished = None, NEW d, NEW root, NEW nodes, NEW detached,
           Grafts(b, d, root, nodes, detached), NEW c, c = bt'
    PROVE  /\ Sits(c.graph, d, root, nodes)
           /\ Runner \in DOMAIN c.graph /\ Runner \notin c.graph[Runner].kids
           /\ DOMAIN c.graph = DOMAIN b.graph \cup {d, Runner} \cup DOMAIN nodes
           /\ \A x \in DOMAIN b.graph \ {Runner} : c.graph[x] = b.graph[x]
           /\ DOMAIN c.runs = DOMAIN b.runs \cup {d} /\ c.runs[d] = detached
           /\ \A e \in DOMAIN b.runs \ {d} : c.runs[e] = b.runs[e]
           /\ c.finished = None /\ c.main_root = b.main_root /\ c.revision = b.revision
           /\ c.fresh = b.fresh \cup {d, Runner} \cup DOMAIN nodes
<1> PICK grafted : grafted = Grafted(b, d, detached)
  OBVIOUS
<1> PICK diff : diff = GraftDiff(grafted, d, root, nodes)
  OBVIOUS
<1>0. /\ d \in FreshIds /\ detached \in SUBSET Ids /\ IsFragment(nodes, root, detached)
      /\ d \notin DOMAIN b.graph /\ DOMAIN nodes \cap ({d, Runner} \cup DOMAIN b.graph) = {}
      /\ c = Edited(grafted, diff)
  BY DEF Grafts
<1>1. /\ Typed(grafted) /\ grafted.graph = b.graph /\ grafted.main_root = b.main_root
      /\ grafted.finished = b.finished /\ grafted.fresh = b.fresh
      /\ grafted.revision = b.revision
      /\ DOMAIN grafted.runs = DOMAIN b.runs \cup {d}
      /\ grafted.runs[d] = detached
      /\ \A e \in DOMAIN b.runs \ {d} : grafted.runs[e] = b.runs[e]
  BY <1>0, GraftedIs
<1>2. /\ d \in AllIds \ {Runner} /\ root \in AllIds /\ IsNodes(nodes, AllIds)
      /\ DOMAIN nodes \cap {d, Runner} = {}
  BY <1>0, ScaffoldAssumption DEF AllIds, IsNodes, IsFragment
<1>3. /\ Sane(diff)
      /\ diff.remove = {} /\ diff.unbind = {} /\ DOMAIN diff.bind = {}
      /\ DOMAIN diff.set = {d, Runner} \cup DOMAIN nodes
      /\ diff.set[Runner] = RunnerNode(grafted)
      /\ diff.set[d].kids = {root}
      /\ \A x \in DOMAIN nodes : diff.set[x] = nodes[x]
  <2>1. Typed(grafted) /\ diff = GraftDiff(grafted, d, root, nodes)
    BY <1>1
  <2> QED  BY ONLY <1>2, <2>1, GraftDiffIs
<1> PICK N : N = ApplyDiff(b.graph, diff)
  OBVIOUS
<1>4. IsApplied(b.graph, diff, N) /\ IsNodes(N, AllIds)
  <2>1. IsApplied(b.graph, diff, N)
    BY <1>1, <1>3, AppliedNodes DEF Typed
  <2> QED  BY <2>1 DEF IsApplied
<1>5. /\ c.graph = N /\ c.main_root = b.main_root /\ c.runs = grafted.runs
      /\ c.finished = b.finished /\ c.revision = b.revision
      /\ c.fresh = b.fresh \cup Changed(b.graph, diff)
  BY <1>0, <1>1, EditedIs DEF Typed
<1>6. Changed(b.graph, diff) = {d, Runner} \cup DOMAIN nodes
  BY <1>3 DEF Changed
<1>7. /\ \A x \in DOMAIN diff.set : x \in DOMAIN N /\ N[x] = diff.set[x]
      /\ \A x \in DOMAIN b.graph \ DOMAIN diff.set : N[x] = b.graph[x]
      /\ DOMAIN N = DOMAIN b.graph \cup DOMAIN diff.set
  <2>1. Sane(diff) /\ diff.unbind = {} /\ DOMAIN diff.bind = {}
    BY <1>3
  <2>2. \A x \in DOMAIN diff.set : x \in DOMAIN N /\ N[x] = diff.set[x]
    BY ONLY <1>4, <2>1, SetApplied
  <2>3. DOMAIN N = DOMAIN b.graph \cup DOMAIN diff.set
    BY <1>3, <1>4 DEF IsApplied
  <2>4. ASSUME NEW x \in DOMAIN b.graph \ DOMAIN diff.set  PROVE N[x] = b.graph[x]
    <3>1. /\ x \in DOMAIN N /\ N[x].kids = b.graph[x].kids /\ N[x].call = b.graph[x].call
          /\ N[x].bind = b.graph[x].bind
      BY <1>3, <1>4, <2>3 DEF IsApplied
    <3>2. N[x] \in Node /\ b.graph[x] \in Node
      BY <1>4, <2>3 DEF IsNodes, Typed
    <3> QED  BY <3>1, <3>2 DEF Node
  <2> QED  BY <2>2, <2>3, <2>4
<1>8. Sits(N, d, root, nodes)
  BY <1>2, <1>3, <1>4, <1>7 DEF Sits
<1>9. Runner \in DOMAIN N /\ Runner \notin N[Runner].kids
  BY <1>1, <1>3, <1>7, RunnerNodeFree
<1>10. \A x \in DOMAIN b.graph \ {Runner} : x \notin DOMAIN diff.set
  BY <1>0, <1>3
<1> QED  BY <1>1, <1>3, <1>5, <1>6, <1>7, <1>8, <1>9, <1>10

\* What a run holds, what of it stays when the run goes, and the rest: the
\* nodes a respawn may change.
Held(b, d) == NodesOf(b.graph, d, b.runs[d]) \ {d}
Staying(b, d) == HeldOutside(b, Held(b, d) \cup {d})
Own(b, d) == (Held(b, d) \ Staying(b, d)) \cap DOMAIN b.graph
RespawnDiff(b, d, g) == Diff(Restrict(b.graph, Own(b, d)), g.nodes)

\* c is b with its run d brought to g.
IsRespawned(b, d, g, c) ==
    /\ told' = Told("spawn", d, g.nodes)
    /\ DOMAIN g.nodes \cap DOMAIN b.graph \subseteq Held(b, d)
    /\ DOMAIN g.nodes \cap Staying(b, d) = {}
    /\ IsApplied(b.graph, RespawnDiff(b, d, g), c.graph)
    /\ DOMAIN c.runs = DOMAIN b.runs /\ c.runs[d] = DetachedOf(g)
    /\ \A e \in DOMAIN b.runs \ {d} : c.runs[e] = b.runs[e]
    /\ c.finished = None /\ c.main_root = b.main_root
    /\ \/ /\ RespawnDiff(b, d, g) = NoDiff
          /\ c.graph = b.graph /\ c.fresh = b.fresh /\ c.revision = b.revision
       \/ /\ c.fresh = b.fresh \cup Changed(b.graph, RespawnDiff(b, d, g))
          /\ \/ c.revision = b.revision /\ MainGraph(c, None) = MainGraph(b, None)
             \/ c.revision = (b.revision + 1) % Revisions

\* The diff of a respawn touches the run's own nodes and the fragment's, and no
\* other.
LEMMA RespawnDiffIs ==
    ASSUME NEW b, Typed(b), NEW d, NEW g, IsGraph(g), NEW diff, diff = RespawnDiff(b, d, g)
    PROVE  /\ Sane(diff)
           /\ diff.remove = Own(b, d) \ DOMAIN g.nodes
           /\ DOMAIN diff.set \subseteq DOMAIN g.nodes
           /\ \A x \in DOMAIN diff.set : diff.set[x] = g.nodes[x]
           /\ diff.unbind \cup DOMAIN diff.bind \subseteq Own(b, d) \cap DOMAIN g.nodes
<1> PICK own : own = Restrict(b.graph, Own(b, d))
  OBVIOUS
<1>1. Own(b, d) \in SUBSET DOMAIN b.graph /\ IsNodes(b.graph, AllIds)
  BY DEF Own, Typed
<1>2. IsNodes(own, AllIds) /\ DOMAIN own = Own(b, d)
  BY <1>1, RestrictNodes
<1>3. IsNodes(g.nodes, AllIds)
  BY WiderNodes DEF IsGraph
<1>4. diff = Diff(own, g.nodes)
  BY DEF RespawnDiff
<1> QED  BY <1>2, <1>3, <1>4, DiffIs

\* A respawn is refused, or brings the run to the fragment.
LEMMA RespawnIs ==
    ASSUME Typed(bt), Standing(bt), NEW b, b = PruneFinished(bt), NEW g \in Fragments, NEW d,
           Respawns(b, d, g), NEW c, c = bt'
    PROVE  Refused \/ IsRespawned(b, d, g, c)
<1> DEFINE detached == [b.runs EXCEPT ![d] = DetachedOf(g)]
           said == Told("spawn", d, g.nodes)
<1> PICK diff : diff = RespawnDiff(b, d, g)
  OBVIOUS
<1> DEFINE respawned == [Edited(b, diff) EXCEPT !.runs = detached]
           sound == /\ DOMAIN g.nodes \cap DOMAIN b.graph \subseteq Held(b, d)
                    /\ DOMAIN g.nodes \cap Staying(b, d) = {}
<1>1. \/ sound /\ diff = NoDiff /\ bt' = [b EXCEPT !.runs = detached] /\ told' = said
      \/ /\ sound /\ diff # NoDiff
         /\ bt' = Revised(respawned, MainGraph(b, None)) /\ told' = said
      \/ Refused
  BY Zenon DEF Respawns, Respawn, Answer, Refused, Held, Staying, Own, RespawnDiff
<1> HIDE DEF sound
<1>2. Typed(b) /\ IsNodes(b.graph, AllIds) /\ b.finished = None /\ d \in DOMAIN b.runs
  BY PruneFinishedIs DEF Typed, Respawns
<1>3. IsGraph(g) /\ DetachedOf(g) \in SUBSET Ids
  BY ScaffoldAssumption, DetachedTyped
<1>4. Sane(diff)
  BY <1>2, <1>3, RespawnDiffIs
<1>5. IsApplied(b.graph, diff, ApplyDiff(b.graph, diff))
  BY <1>2, <1>4, AppliedNodes
<1>6. CASE sound /\ diff = NoDiff /\ bt' = [b EXCEPT !.runs = detached] /\ told' = said
  <2>1. c = Redetached(b, d, DetachedOf(g))
    BY <1>6 DEF Redetached
  <2> HIDE DEF said
  <2>2. /\ c.graph = b.graph /\ c.main_root = b.main_root
        /\ c.finished = b.finished /\ c.fresh = b.fresh
        /\ c.revision = b.revision
        /\ DOMAIN c.runs = DOMAIN b.runs /\ c.runs[d] = DetachedOf(g)
        /\ \A e \in DOMAIN b.runs \ {d} : c.runs[e] = b.runs[e]
    BY <1>2, <1>3, <2>1, WithDetached
  <2>3. IsApplied(b.graph, diff, c.graph)
    <3>1. ApplyDiff(b.graph, diff) = b.graph
      BY <1>2, <1>5, <1>6, NoDiffApplied
    <3> QED  BY <1>5, <2>2, <3>1
  <2>4. told' = Told("spawn", d, g.nodes)
    BY <1>6 DEF said
  <2> QED  BY <1>2, <1>6, <2>2, <2>3, <2>4 DEF IsRespawned, sound
<1>7. CASE /\ sound /\ diff # NoDiff
           /\ bt' = Revised(respawned, MainGraph(b, None)) /\ told' = said
  <2> PICK e : e = Edited(b, diff)
    OBVIOUS
  <2>1. /\ Typed(e) /\ e.graph = ApplyDiff(b.graph, diff) /\ e.runs = b.runs
        /\ e.finished = b.finished /\ e.main_root = b.main_root /\ e.revision = b.revision
        /\ e.fresh = b.fresh \cup Changed(b.graph, diff)
    BY <1>2, <1>4, EditedTyped, EditedIs DEF Typed
  <2> PICK r : r = respawned
    OBVIOUS
  <2>2. r = Redetached(e, d, DetachedOf(g)) /\ d \in DOMAIN e.runs
    BY <1>2, <2>1 DEF Redetached
  <2> HIDE DEF respawned, said
  <2>3. /\ Typed(r) /\ r.graph = e.graph /\ r.main_root = e.main_root
        /\ r.finished = e.finished /\ r.fresh = e.fresh /\ r.revision = e.revision
        /\ DOMAIN r.runs = DOMAIN e.runs /\ r.runs[d] = DetachedOf(g)
        /\ \A f \in DOMAIN e.runs \ {d} : r.runs[f] = e.runs[f]
    BY <1>3, <2>1, <2>2, WithDetached
  <2>4. c = Revised(r, MainGraph(b, None))
    BY <1>7
  <2>5. /\ c.graph = r.graph /\ c.main_root = r.main_root
        /\ c.runs = r.runs /\ c.finished = r.finished /\ c.fresh = r.fresh
        /\ \/ c = r /\ MainGraph(r, None) = MainGraph(b, None)
           \/ c.revision = (r.revision + 1) % Revisions
    BY <2>3, <2>4, RevisedIs
  <2>6. told' = Told("spawn", d, g.nodes)
    BY <1>7 DEF said
  <2>7. IsApplied(b.graph, diff, c.graph)
    BY <1>5, <2>1, <2>3, <2>5
  <2>8. \/ c.revision = b.revision /\ MainGraph(c, None) = MainGraph(b, None)
        \/ c.revision = (b.revision + 1) % Revisions
    BY <2>1, <2>3, <2>5
  <2>9. /\ c.fresh = b.fresh \cup Changed(b.graph, diff)
        /\ DOMAIN c.runs = DOMAIN b.runs /\ c.runs[d] = DetachedOf(g)
        /\ \A f \in DOMAIN b.runs \ {d} : c.runs[f] = b.runs[f]
        /\ c.finished = None /\ c.main_root = b.main_root
    BY <1>2, <2>1, <2>3, <2>5
  <2> QED  BY <1>7, <2>6, <2>7, <2>8, <2>9 DEF IsRespawned, sound
<1> QED  BY <1>1, <1>6, <1>7

\* The graph a respawn leaves has the fragment's nodes under the run's decorator.
LEMMA RespawnSits ==
    ASSUME NEW b, Typed(b), Standing(b), NEW g \in Fragments, NEW d, Respawns(b, d, g),
           NEW N, IsApplied(b.graph, RespawnDiff(b, d, g), N)
    PROVE  /\ IsFragment(g.nodes, g.root, DetachedOf(g))
           /\ Sits(N, d, g.root, g.nodes)
<1> PICK diff : diff = RespawnDiff(b, d, g)
  OBVIOUS
<1>1. /\ Spawnable(g) /\ RootOf(b, d) = {g.root} /\ d \in DOMAIN AllRuns(b)
      /\ IsNodes(b.graph, AllIds) /\ Own(b, d) \in SUBSET DOMAIN b.graph
  BY AllRunsIs DEF Respawns, Typed, Own
<1>2. /\ IsGraph(g) /\ IsNodes(g.nodes, AllIds) /\ DOMAIN g.nodes \cap FreshIds = {}
  BY ScaffoldAssumption, WiderNodes DEF IsGraph
<1>3. IsFragment(g.nodes, g.root, DetachedOf(g))
  BY <1>1, <1>2 DEF IsFragment, Spawnable, IsTree
<1>4. \A x \in DOMAIN g.nodes : g.nodes[x].bind \in DOMAIN g.nodes \cup {Unbound, Data}
  BY <1>1 DEF Spawnable
<1>5. d \in DOMAIN b.graph \ DOMAIN g.nodes /\ b.graph[d].kids = {g.root}
  <2>1. {d} \in SUBSET b.graph[Runner].kids /\ Acyclic(b.graph, Runner)
    BY <1>1 DEF Standing, RunnerHolds
  <2>2. d \in DOMAIN b.graph
    BY <1>1, <2>1, UnderRunner
  <2>3. d \in FreshIds
    BY <1>1, AllRunsIs DEF Typed, IsRuns
  <2> QED  BY <1>1, <1>2, <2>2, <2>3 DEF RootOf
<1>6. /\ diff.remove = Own(b, d) \ DOMAIN g.nodes
      /\ DOMAIN diff.set \subseteq DOMAIN g.nodes
  BY <1>2, RespawnDiffIs
<1>7. \A x \in DOMAIN g.nodes : x \in DOMAIN N /\ N[x] = g.nodes[x]
  <2> PICK theirs, S : theirs = g.nodes /\ S = Own(b, d)
    OBVIOUS
  <2>1. diff = Diff(Restrict(b.graph, S), theirs)
    BY DEF RespawnDiff
  <2> QED  BY <1>1, <1>2, <1>4, <2>1, DiffReaches
<1>8. d \notin Own(b, d)
  BY DEF Own, Held
<1>9. IsNodes(N, AllIds) /\ d \in DOMAIN N /\ N[d].kids = {g.root}
  BY <1>5, <1>6, <1>8 DEF IsApplied
<1>10. Sits(N, d, g.root, g.nodes)
  BY <1>5, <1>7, <1>9 DEF Sits
<1> QED  BY <1>3, <1>10

------------------------------------------------------------------------------
(* A request answered with success has done what it says *)

\* The first half of AnsweredTruly, and the second.
SpawnTrue ==
    told.op = "spawn" =>
        LET held == NodesOf(bt.graph, told.decorator, bt.runs[told.decorator])
        IN  Restrict(bt.graph, held \ {told.decorator}) = told.nodes

LoadTrue == told.op = "load" => MainGraph(bt, None).nodes = told.nodes

\* A refused request says nothing.
LEMMA NothingTrue ==
    ASSUME told'.op \notin {"spawn", "load"}
    PROVE  SpawnTrue' /\ LoadTrue'
BY DEF SpawnTrue, LoadTrue

\* A graft answered with success did what it says.
LEMMA GraftTrue ==
    ASSUME NEW b, Typed(b), b.finished = None, NEW d, NEW root, NEW nodes, NEW detached,
           Grafts(b, d, root, nodes, detached)
    PROVE  SpawnTrue' /\ LoadTrue'
<1> PICK c : c = bt'
  OBVIOUS
<1>1. Sits(c.graph, d, root, nodes) /\ c.runs[d] = detached
  BY GraftIs
<1>2. IsFragment(nodes, root, detached) /\ told' = Told("spawn", d, nodes)
  BY DEF Grafts
<1>3. Restrict(c.graph, NodesOf(c.graph, d, detached) \ {d}) = nodes
  BY <1>1, <1>2, HeldIs
<1>4. told'.op = "spawn" /\ told'.decorator = d /\ told'.nodes = nodes
  BY <1>2 DEF Told
<1> QED  BY <1>1, <1>3, <1>4 DEF SpawnTrue, LoadTrue

\* So did a respawn.
LEMMA RespawnTrue ==
    ASSUME Typed(bt), Standing(bt), NEW b, b = PruneFinished(bt), NEW g \in Fragments, NEW d,
           Respawns(b, d, g), NEW c, c = bt', IsRespawned(b, d, g, c)
    PROVE  SpawnTrue' /\ LoadTrue'
<1>1. Typed(b) /\ Standing(b)
  BY PruneFinishedIs, PruneFinishedStands
<1>2. /\ IsFragment(g.nodes, g.root, DetachedOf(g))
      /\ Sits(c.graph, d, g.root, g.nodes)
  BY <1>1, RespawnSits DEF IsRespawned
<1>3. c.runs[d] = DetachedOf(g) /\ told' = Told("spawn", d, g.nodes)
  BY DEF IsRespawned
<1>4. Restrict(c.graph, NodesOf(c.graph, d, DetachedOf(g)) \ {d}) = g.nodes
  BY <1>2, HeldIs
<1>5. told'.op = "spawn" /\ told'.decorator = d /\ told'.nodes = g.nodes
  BY <1>3 DEF Told
<1> QED  BY <1>3, <1>4, <1>5 DEF SpawnTrue, LoadTrue

\* So did every spawn.
LEMMA SpawnCallTrue ==
    ASSUME Typed(bt), Standing(bt), SpawnCall
    PROVE  SpawnTrue' /\ LoadTrue'
<1> PICK b : b = PruneFinished(bt)
  OBVIOUS
<1>1. Typed(b) /\ b.finished = None
  BY PruneFinishedIs
<1>2. Refused => SpawnTrue' /\ LoadTrue'
  BY NothingTrue DEF Refused, Nothing
<1> QED  BY <1>1, <1>2, SpawnCallIs, GraftTrue

\* So did every spawn of a graph.
LEMMA SpawnGraphTrue ==
    ASSUME Typed(bt), Standing(bt), NEW g \in Fragments, SpawnGraph(g)
    PROVE  SpawnTrue' /\ LoadTrue'
<1> PICK b, c : b = PruneFinished(bt) /\ c = bt'
  OBVIOUS
<1>1. Typed(b) /\ b.finished = None
  BY PruneFinishedIs
<1>2. Refused => SpawnTrue' /\ LoadTrue'
  BY NothingTrue DEF Refused, Nothing
<1>3. ASSUME NEW d, Respawns(b, d, g)  PROVE SpawnTrue' /\ LoadTrue'
  <2>1. Refused \/ IsRespawned(b, d, g, c)
    BY <1>3, RespawnIs
  <2> QED  BY <1>2, <1>3, <2>1, RespawnTrue
<1> QED  BY <1>1, <1>2, <1>3, SpawnGraphIs, GraftTrue

\* A main behavior all of whose nodes hang under its root.
BehaviorsRooted == \A g \in Behaviors : DOMAIN g.nodes = Reach(g.nodes, {g.root} \ {NoRoot})

\* After a load that succeeded a read answers the graph that was loaded: the new
\* nodes hang under the new root, and every other node is held by a run.
LEMMA LoadTrueStep ==
    ASSUME BehaviorsRooted, Typed(bt), Standing(bt), NEW g \in Behaviors, Load(g)
    PROVE  SpawnTrue' /\ LoadTrue'
<1> DEFINE b == PruneFinished(bt)
           rooted == Rooted(b, g.root)
           d == LoadDiff(b, g)
           said == Told("load", Runner, g.nodes)
<1>1. \/ Accepts(rooted, d) /\ bt' = Advanced(Edited(rooted, d)) /\ told' = said
      \/ told' = Nothing
  BY Zenon DEF Load, Answer, Rooted
<1>2. Typed(b) /\ b.finished = None /\ IsNodes(b.graph, AllIds)
  BY PruneFinishedIs DEF Typed
<1>3. /\ IsGraph(g) /\ g.root \in Ids \cup {NoRoot} /\ IsNodes(g.nodes, AllIds)
      /\ Runner \notin DOMAIN g.nodes /\ ({g.root} \ {NoRoot}) \in SUBSET AllIds
  BY ScaffoldAssumption, WiderNodes DEF IsGraph, AllIds
<1>4. Typed(bt') /\ Standing(bt')
  BY LoadStep
<1> PICK after : after = After(b, g)
  OBVIOUS
<1>5. /\ IsNodes(after, AllIds)
      /\ DOMAIN after = DOMAIN b.graph \cup DOMAIN g.nodes
      /\ \A x \in DOMAIN g.nodes : after[x].kids = g.nodes[x].kids
      /\ \A x \in DOMAIN b.graph \ DOMAIN g.nodes : after[x].kids = b.graph[x].kids
  <2> PICK s : s = [NoDiff EXCEPT !.set = g.nodes]
    OBVIOUS
  <2>1. s = [remove |-> {}, set |-> g.nodes, unbind |-> {}, bind |-> None, root |-> NoRoot]
    BY DEF NoDiff
  <2>2. Sane(s) /\ s.remove = {} /\ s.set = g.nodes
    BY <1>3, <2>1 DEF Sane, None
  <2>3. IsApplied(b.graph, s, after)
    BY <1>2, <2>2, AppliedNodes DEF After
  <2> QED  BY <2>2, <2>3 DEF IsApplied
<1>6. /\ Sane(d)
      /\ d.remove = DOMAIN b.graph \ ({Runner} \cup HeldByRuns(after, AllRuns(b)))
      /\ DOMAIN d.set = {Runner} \cup DOMAIN g.nodes
      /\ \A x \in DOMAIN g.nodes : d.set[x] = g.nodes[x]
      /\ d.unbind = {} /\ DOMAIN d.bind = {}
  BY <1>2, <1>3, LoadDiffIs
<1> HIDE DEF b
<1>7. CASE Accepts(rooted, d) /\ bt' = Advanced(Edited(rooted, d)) /\ told' = said
  <2> PICK N : N = bt'.graph
    OBVIOUS
  <2>1. /\ Typed(rooted) /\ rooted.graph = b.graph /\ rooted.main_root = g.root
        /\ rooted.runs = b.runs /\ rooted.finished = b.finished
    <3>1. /\ rooted = [graph |-> b.graph, main_root |-> g.root, runs |-> b.runs,
                       finished |-> b.finished, dirty |-> b.dirty, fresh |-> b.fresh,
                       revision |-> b.revision]
          /\ Typed(rooted)
      BY <1>2, <1>3, WithMainRoot
    <3> HIDE DEF rooted
    <3> QED  BY <3>1
  <2> HIDE DEF rooted, d
  <2>2. /\ N = ApplyDiff(b.graph, d) /\ bt'.main_root = g.root
        /\ bt'.runs = b.runs /\ bt'.finished = b.finished
    <3> PICK e : e = Edited(rooted, d)
      OBVIOUS
    <3>1. /\ Typed(e) /\ e.graph = ApplyDiff(b.graph, d) /\ e.main_root = g.root
          /\ e.runs = b.runs /\ e.finished = b.finished
      BY <1>6, <2>1, EditedTyped, EditedIs DEF Typed
    <3> PICK a : a = bt'
      OBVIOUS
    <3>2. /\ a.graph = e.graph /\ a.main_root = e.main_root
          /\ a.runs = e.runs /\ a.finished = e.finished
      BY <1>7, <3>1, AdvancedIs
    <3> QED  BY <3>1, <3>2
  <2>3. IsApplied(b.graph, d, N)
    BY <1>2, <1>6, <2>2, AppliedNodes
  <2>4. \A x \in DOMAIN g.nodes : x \in DOMAIN N /\ N[x] = g.nodes[x]
    <3>1. Sane(d) /\ d.unbind = {} /\ DOMAIN d.bind = {}
      BY <1>6
    <3>2. \A x \in DOMAIN d.set : x \in DOMAIN N /\ N[x] = d.set[x]
      BY ONLY <2>3, <3>1, SetApplied
    <3> QED  BY <1>6, <3>2
  <2>5. /\ IsNodes(N, AllIds)
        /\ DOMAIN N = (DOMAIN b.graph \ d.remove) \cup DOMAIN d.set
        /\ \A x \in DOMAIN N \ DOMAIN d.set : N[x].kids = b.graph[x].kids
    BY <2>3 DEF IsApplied
  <2>6. KidsKnown(N) /\ KidsKnown(after) /\ KidsKnown(g.nodes)
    BY <1>3, <1>5, <2>5, TypedKids
  <2>7. HeldByMain(bt') = DOMAIN g.nodes
    <3>1. Reach(g.nodes, {g.root} \ {NoRoot}) = DOMAIN g.nodes
      BY DEF BehaviorsRooted
    <3>2. Reach(N, {g.root} \ {NoRoot}) = Reach(g.nodes, {g.root} \ {NoRoot})
      BY <1>3, <2>4, <2>6, <3>1, ReachAgrees
    <3> QED  BY <2>2, <3>1, <3>2 DEF HeldByMain
  <2> PICK runs : runs = AllRuns(b)
    OBVIOUS
  <2>8. /\ AllRuns(bt') = runs /\ Over(AllRuns(bt'), None) = runs
        /\ DOMAIN runs \subseteq AllIds
    <3>1. AllRuns(bt') = runs
      BY <2>2 DEF AllRuns
    <3>2. DOMAIN runs \subseteq AllIds
      BY <1>2, AllRunsIs DEF Typed, IsRuns, AllIds, None
    <3>3. Over(runs, None) = runs
      BY DEF AllRuns, Over, None
    <3> QED  BY <3>1, <3>2, <3>3
  <2>9. ASSUME NEW e \in DOMAIN runs
        PROVE  Reach(after, {e}) \subseteq Reach(N, {e})
    <3> DEFINE A == Reach(after, {e})
               C == Reach(N, {e})
    <3>1. {e} \in SUBSET AllIds /\ e \in A /\ e \in C /\ Closed(after, A) /\ Closed(N, C)
      BY <2>6, <2>8, ReachHolds
    <3>2. Runner \notin C
      <4>1. {e} \in SUBSET N[Runner].kids /\ Acyclic(N, Runner)
        BY <1>4, <2>8, <2>9 DEF Standing, RunnerHolds
      <4> QED  BY <2>5, <4>1, UnderRunner
    <3>3. A \subseteq HeldByRuns(after, runs)
      BY <2>9, HeldByRunsIs
    <3> HIDE DEF A, C
    <3>4. ASSUME NEW x \in (A \cap C) \cap DOMAIN after
          PROVE  after[x].kids \subseteq A \cap C
      <4>1. x \in DOMAIN N /\ after[x].kids = N[x].kids
        <5>1. CASE x \in DOMAIN g.nodes
          BY <1>5, <2>4, <5>1
        <5>2. CASE x \notin DOMAIN g.nodes
          <6>1. x \in DOMAIN b.graph /\ x \notin d.remove /\ x # Runner
            BY <1>5, <1>6, <3>2, <3>3, <5>2
          <6> QED  BY <1>5, <1>6, <2>5, <5>2, <6>1
        <5> QED  BY <5>1, <5>2
      <4> QED  BY <3>1, <4>1 DEF Closed
    <3>5. Closed(after, A \cap C)
      BY <3>4 DEF Closed
    <3>6. A \subseteq A \cap C
      <4>1. {e} \subseteq A \cap C
        BY <3>1
      <4>2. Reach(after, {e}) \subseteq A \cap C
        BY <2>6, <3>1, <3>5, <4>1, ReachLeast
      <4> QED  BY <4>2 DEF A
    <3> QED  BY <3>6 DEF A, C
  <2>10. HeldByRuns(after, runs) \subseteq HeldByRuns(N, runs)
    BY <2>9, HeldByRunsIs
  <2>11. DOMAIN N \ NotMain(bt', None) = DOMAIN g.nodes
    <3>1. NotMain(bt', None) = (HeldByRuns(N, runs) \ DOMAIN g.nodes) \cup {Runner}
      BY <2>7, <2>8 DEF NotMain
    <3> QED  BY <1>3, <1>6, <2>5, <2>10, <3>1
  <2>12. MainGraph(bt', None).nodes = g.nodes
    <3>1. MainGraph(bt', None).nodes = Restrict(N, DOMAIN g.nodes)
      BY <2>11 DEF MainGraph, Without
    <3> QED  BY <1>3, <2>4, <3>1 DEF Restrict, IsNodes
  <2> QED  BY <1>7, <2>12 DEF Told, SpawnTrue, LoadTrue
<1>8. CASE told' = Nothing
  BY <1>8, NothingTrue DEF Nothing
<1> QED  BY <1>1, <1>7, <1>8

\* Every step leaves the truth of a spawn's answer.
LEMMA SpawnTrueNext ==
    ASSUME Typed(bt), Standing(bt), Next, SpawnTrue
    PROVE  SpawnTrue'
<1>1. ASSUME told'.op # "spawn"  PROVE SpawnTrue'
  BY <1>1 DEF SpawnTrue
<1>2. ASSUME NEW g \in Behaviors, Load(g)  PROVE told'.op # "spawn"
  <2>1. told' = Told("load", Runner, g.nodes) \/ told' = Nothing
    BY <1>2, Zenon DEF Load, Answer
  <2> QED  BY <2>1 DEF Told, Nothing
<1>3. ASSUME NEW d \in Edits, Apply(d)  PROVE told'.op # "spawn"
  <2>1. told' = Told("edit", Runner, None) \/ told' = Nothing
    BY <1>3, Zenon DEF Apply, Answer
  <2> QED  BY <2>1 DEF Told, Nothing
<1>4. ASSUME SpawnCall  PROVE SpawnTrue'
  BY <1>4, SpawnCallTrue
<1>5. ASSUME NEW g \in Fragments, SpawnGraph(g)  PROVE SpawnTrue'
  BY <1>5, SpawnGraphTrue
<1>6. ASSUME NEW d \in FreshIds, Halt(d)  PROVE told'.op # "spawn"
  BY <1>6 DEF Halt, Nothing
<1>7. ASSUME Tick \/ TickFails  PROVE told'.op # "spawn"
  BY <1>7 DEF Tick, TickFails, Nothing, Told
<1> QED  BY <1>1, <1>2, <1>3, <1>4, <1>5, <1>6, <1>7 DEF Next

\* Every step leaves the truth of a load's answer.
LEMMA LoadTrueNext ==
    ASSUME BehaviorsRooted, Typed(bt), Standing(bt), Next, LoadTrue
    PROVE  LoadTrue'
<1>1. ASSUME told'.op # "load"  PROVE LoadTrue'
  BY <1>1 DEF LoadTrue
<1>2. ASSUME NEW g \in Behaviors, Load(g)  PROVE LoadTrue'
  BY <1>2, LoadTrueStep
<1>3. ASSUME NEW d \in Edits, Apply(d)  PROVE told'.op # "load"
  <2>1. told' = Told("edit", Runner, None) \/ told' = Nothing
    BY <1>3, Zenon DEF Apply, Answer
  <2> QED  BY <2>1 DEF Told, Nothing
<1>4. ASSUME SpawnCall  PROVE LoadTrue'
  BY <1>4, SpawnCallTrue
<1>5. ASSUME NEW g \in Fragments, SpawnGraph(g)  PROVE LoadTrue'
  BY <1>5, SpawnGraphTrue
<1>6. ASSUME NEW d \in FreshIds, Halt(d)  PROVE told'.op # "load"
  BY <1>6 DEF Halt, Nothing
<1>7. ASSUME Tick \/ TickFails  PROVE told'.op # "load"
  BY <1>7 DEF Tick, TickFails, Nothing, Told
<1> QED  BY <1>1, <1>2, <1>3, <1>4, <1>5, <1>6, <1>7 DEF Next

\* A spawn answered with success leaves, under the decorator it answers, exactly
\* the fragment it was given and its detached nodes: a graft beside whatever is
\* there, and a respawn by way of a diff (behavior.rs, spawn, spawn_graph, respawn;
\* graph.rs, Graph::diff).
THEOREM SpawnsDoAsTold == Spec => []SpawnTrue
<1>1. Init => SpawnTrue
  BY DEF Init, Nothing, SpawnTrue
<1>2. ASSUME ScaffoldInv, SpawnTrue, [Next]_vars  PROVE SpawnTrue'
  <2>1. CASE Next
    BY <1>2, <2>1, SpawnTrueNext DEF ScaffoldInv
  <2>2. CASE UNCHANGED vars
    BY <1>2, <2>2 DEF vars, SpawnTrue
  <2> QED  BY <1>2, <2>1, <2>2
<1> QED  BY <1>1, <1>2, Invariant, PTL DEF Spec

\* Every request answered with success has done what it says, whatever finished
\* runs were pruned on its way: a spawn as above, and after a load a read answers
\* the graph that was loaded, when all of that graph hangs under its root
\* (behavior.rs, load).
THEOREM RequestsDoAsTold ==
    ASSUME BehaviorsRooted
    PROVE  Spec => []AnsweredTruly
<1>1. Init => LoadTrue
  BY DEF Init, Nothing, LoadTrue
<1>2. ASSUME ScaffoldInv, LoadTrue, [Next]_vars  PROVE LoadTrue'
  <2>1. CASE Next
    BY <1>2, <2>1, LoadTrueNext DEF ScaffoldInv
  <2>2. CASE UNCHANGED vars
    BY <1>2, <2>2 DEF vars, LoadTrue, MainGraph, NotMain, AllRuns, HeldByMain
  <2> QED  BY <1>2, <2>1, <2>2
<1>3. SpawnTrue /\ LoadTrue => AnsweredTruly
  BY Zenon DEF SpawnTrue, LoadTrue, AnsweredTruly
<1> QED  BY <1>1, <1>2, <1>3, Invariant, SpawnsDoAsTold, PTL DEF Spec

------------------------------------------------------------------------------
(* Runs leave whole *)

\* The interpreter once a halt has taken d off its list.
Dropped(b, d) == [b EXCEPT !.runs = Without(@, {d})]

\* c is b without its run d, which is gone.
IsDropped(b, d, c, gone) ==
    /\ Typed(c)
    /\ c.graph = b.graph /\ c.main_root = b.main_root /\ c.finished = b.finished
    /\ c.dirty = b.dirty /\ c.fresh = b.fresh /\ c.revision = b.revision
    /\ DOMAIN c.runs = DOMAIN b.runs \ {d}
    /\ \A e \in DOMAIN c.runs : c.runs[e] = b.runs[e]
    /\ gone # None /\ DOMAIN gone = {d} /\ gone[d] = b.runs[d]
    /\ Over(AllRuns(c), gone) = AllRuns(b)

\* A halt takes one run off the list of live ones.
LEMMA DroppedIs ==
    ASSUME NEW b, Typed(b), NEW d \in DOMAIN b.runs
    PROVE  IsDropped(b, d, Dropped(b, d), Restrict(b.runs, {d}))
<1> PICK c, gone : c = Dropped(b, d) /\ gone = Restrict(b.runs, {d})
  OBVIOUS
<1> PICK runs : runs = Without(b.runs, {d})
  OBVIOUS
<1>1. DOMAIN runs = DOMAIN b.runs \ {d} /\ \A e \in DOMAIN runs : runs[e] = b.runs[e]
  BY DEF Without, Restrict
<1>2. DOMAIN gone = {d} /\ gone[d] = b.runs[d] /\ gone # None
  BY DEF Restrict, None
<1>3. IsRuns(runs) /\ DOMAIN runs \cap DOMAIN b.finished = {}
  BY <1>1 DEF Typed, IsRuns
<1>4. c = [b EXCEPT !.runs = runs]
  BY DEF Dropped
<1>5. /\ c = [graph |-> b.graph, main_root |-> b.main_root, runs |-> runs,
              finished |-> b.finished, dirty |-> b.dirty, fresh |-> b.fresh,
              revision |-> b.revision]
      /\ Typed(c)
  BY <1>3, <1>4, WithRuns
<1>6. Over(AllRuns(c), gone) = AllRuns(b)
  <2>1. c.runs = runs /\ c.finished = b.finished /\ d \notin DOMAIN b.finished
    BY <1>5 DEF Typed
  <2> QED  BY <1>1, <1>2, <2>1 DEF AllRuns, Over
<1> QED  BY <1>1, <1>2, <1>5, <1>6 DEF IsDropped

\* A tick leaves the graph, or what pruning the finished runs leaves of it.
LEMMA TickIs ==
    ASSUME Typed(bt), Tick, NEW b, b = PruneFinished(bt)
    PROVE  /\ bt'.main_root = bt.main_root
           /\ \/ /\ bt'.graph = bt.graph /\ bt'.revision = bt.revision /\ bt'.fresh = bt.fresh
                 /\ AllRuns(bt') = AllRuns(bt)
              \/ /\ FinishedLeave(bt)
                 /\ bt'.graph = b.graph /\ bt'.revision = b.revision /\ bt'.fresh = {}
                 /\ AllRuns(bt') = AllRuns(b)
<1>1. PICK E \in SUBSET DOMAIN bt.runs : bt' = Ended(Ticked(bt), E)
  BY DEF Tick
<1> PICK c : c = Ticked(bt)
  OBVIOUS
<1>2. /\ Typed(c)
      /\ \/ ~bt.dirty /\ c = bt
         \/ /\ bt.dirty /\ c.graph = b.graph
            /\ c.main_root = bt.main_root /\ c.runs = bt.runs /\ c.finished = None
            /\ c.revision = b.revision /\ c.fresh = {}
  BY TickedIs
<1>3. c.runs = bt.runs /\ c.main_root = bt.main_root
  BY <1>2
<1> PICK v : v = bt'
  OBVIOUS
<1>4. /\ v.graph = c.graph /\ v.main_root = c.main_root
      /\ v.revision = c.revision /\ v.fresh = c.fresh
      /\ DOMAIN v.runs = DOMAIN c.runs \ E
      /\ DOMAIN v.finished = DOMAIN c.finished \cup E
      /\ \A d \in DOMAIN c.runs \ E : v.runs[d] = c.runs[d]
      /\ \A d \in DOMAIN c.finished : v.finished[d] = c.finished[d]
      /\ \A d \in E : v.finished[d] = c.runs[d]
  BY <1>1, <1>2, <1>3, EndedIs
<1>5. AllRuns(v) = AllRuns(c)
  <2>1. DOMAIN c.runs \cap DOMAIN c.finished = {} /\ E \subseteq DOMAIN c.runs
    BY <1>2, <1>3 DEF Typed
  <2> QED  BY <1>4, <2>1 DEF AllRuns, Over
<1>6. bt.dirty => FinishedLeave(bt)
  BY DEF Tick
<1>7. CASE bt.dirty
  <2>1. b.runs = bt.runs /\ b.finished = None
    BY PruneFinishedIs
  <2>2. AllRuns(c) = AllRuns(b)
    BY <1>2, <1>7, <2>1 DEF AllRuns
  <2> QED  BY <1>2, <1>3, <1>4, <1>5, <1>6, <1>7, <2>2
<1>8. CASE ~bt.dirty
  BY <1>2, <1>3, <1>4, <1>5, <1>8
<1> QED  BY <1>7, <1>8

\* No step puts the runner under a node.
LEMMA NextFree ==
    ASSUME RunnerPrivate, Typed(bt), Standing(bt), RunnerFree(bt.graph), Next
    PROVE  RunnerFree(bt'.graph)
<1> PICK b : b = PruneFinished(bt)
  OBVIOUS
<1>1. Typed(b) /\ RunnerFree(b.graph) /\ b.finished = None
  BY PruneFinishedIs, PruneFinishedFree
<1>2. ASSUME bt' = PruneFinished(bt)  PROVE RunnerFree(bt'.graph)
  BY <1>1, <1>2
<1>3. ASSUME NEW g \in Behaviors, Load(g)  PROVE RunnerFree(bt'.graph)
  <2> PICK rooted, d, c : rooted = Rooted(b, g.root) /\ d = LoadDiff(b, g) /\ c = Edited(rooted, d)
    OBVIOUS
  <2>1. bt' = Advanced(c) \/ bt' = PruneFinished(bt)
    BY <1>3, Zenon DEF Load, Answer, Rooted
  <2>2. IsGraph(g) /\ g.root \in Ids \cup {NoRoot} /\ RunnerFree(g.nodes)
    BY ScaffoldAssumption DEF IsGraph, RunnerPrivate
  <2>3. Typed(rooted) /\ rooted.graph = b.graph
    BY <1>1, <2>2, WithMainRoot
  <2>4. /\ Sane(d) /\ DOMAIN d.set = {Runner} \cup DOMAIN g.nodes
        /\ d.set[Runner] = RunnerNode(rooted)
        /\ \A x \in DOMAIN g.nodes : d.set[x] = g.nodes[x]
    <3> PICK after : after = After(b, g)
      OBVIOUS
    <3> QED  BY <1>1, <2>2, LoadDiffIs
  <2>5. RunnerFree(d.set)
    BY <2>2, <2>3, <2>4, RunnerNodeFree DEF RunnerFree
  <2>6. Typed(c) /\ RunnerFree(c.graph)
    BY <1>1, <2>3, <2>4, <2>5, EditedTyped, EditedFree
  <2>7. Advanced(c).graph = c.graph
    BY <2>6, AdvancedIs
  <2> QED  BY <1>2, <2>1, <2>6, <2>7
<1>4. ASSUME NEW diff \in Edits, Apply(diff)  PROVE RunnerFree(bt'.graph)
  <2> DEFINE removed == IF b.main_root \in diff.remove THEN NoRoot ELSE b.main_root
             root == IF diff.root # NoRoot THEN diff.root ELSE removed
  <2> PICK rooted, d, c : rooted = Rooted(b, root) /\ d = ClientDiff(rooted, diff) /\ c = Edited(rooted, d)
    OBVIOUS
  <2>1. \/ KeepsScaffold(b, diff) /\ bt' = Revised(c, MainGraph(b, None))
        \/ bt' = PruneFinished(bt)
    BY <1>4, Zenon DEF Apply, Answer, ClientDiff, Rooted
  <2>2. IsDiff(diff) /\ root \in Ids \cup {NoRoot}
    BY <1>1, ScaffoldAssumption DEF Typed, IsDiff
  <2> HIDE DEF root
  <2>3. Typed(rooted) /\ rooted.graph = b.graph
    BY <1>1, <2>2, WithMainRoot
  <2>4. /\ Sane(d) /\ DOMAIN d.set = {Runner} \cup DOMAIN diff.set
        /\ d.set[Runner] = RunnerNode(rooted)
        /\ \A x \in DOMAIN diff.set : d.set[x] = diff.set[x]
    BY <2>2, <2>3, ClientDiffIs
  <2>5. CASE KeepsScaffold(b, diff) /\ bt' = Revised(c, MainGraph(b, None))
    <3>1. RunnerFree(diff.set)
      BY <2>5 DEF KeepsScaffold, RunnerFree
    <3>2. RunnerFree(d.set)
      BY <2>3, <2>4, <3>1, RunnerNodeFree DEF RunnerFree
    <3>3. Typed(c) /\ RunnerFree(c.graph)
      BY <1>1, <2>3, <2>4, <3>2, EditedTyped, EditedFree
    <3>4. Revised(c, MainGraph(b, None)).graph = c.graph
      BY <3>3, RevisedIs
    <3> QED  BY <2>5, <3>3, <3>4
  <2> QED  BY <1>2, <2>1, <2>5
<1>5. ASSUME NEW d, NEW root, NEW nodes, NEW detached, Grafts(b, d, root, nodes, detached)
      PROVE  RunnerFree(bt'.graph)
  <2> PICK c : c = bt'
    OBVIOUS
  <2>1. /\ Sits(c.graph, d, root, nodes)
        /\ Runner \in DOMAIN c.graph /\ Runner \notin c.graph[Runner].kids
        /\ DOMAIN c.graph = DOMAIN b.graph \cup {d, Runner} \cup DOMAIN nodes
        /\ \A x \in DOMAIN b.graph \ {Runner} : c.graph[x] = b.graph[x]
    BY <1>1, <1>5, GraftIs
  <2>2. RunnerFree(nodes) /\ root # Runner
    BY <1>5 DEF Grafts, IsFragment
  <2>3. ASSUME NEW x \in DOMAIN c.graph  PROVE Runner \notin c.graph[x].kids
    BY <1>1, <2>1, <2>2 DEF Sits, RunnerFree
  <2> QED  BY <2>3 DEF RunnerFree
<1>6. ASSUME NEW g \in Fragments, NEW d, Respawns(b, d, g)  PROVE RunnerFree(bt'.graph)
  <2> PICK c : c = bt'
    OBVIOUS
  <2>1. Refused \/ IsRespawned(b, d, g, c)
    BY <1>6, RespawnIs
  <2>2. CASE IsRespawned(b, d, g, c)
    <3> PICK diff : diff = RespawnDiff(b, d, g)
      OBVIOUS
    <3>1. IsGraph(g) /\ Runner \notin DOMAIN g.nodes
      BY ScaffoldAssumption, WiderNodes DEF IsGraph
    <3>2. RunnerFree(g.nodes)
      BY <1>6, <3>1 DEF Respawns, Spawnable, IsTree, RunnerFree
    <3>3. /\ DOMAIN diff.set \subseteq DOMAIN g.nodes
          /\ \A x \in DOMAIN diff.set : diff.set[x] = g.nodes[x]
      BY <1>1, <3>1, RespawnDiffIs
    <3>4. RunnerFree(diff.set) /\ IsApplied(b.graph, diff, c.graph)
      BY <2>2, <3>2, <3>3 DEF RunnerFree, IsRespawned
    <3> QED  BY <1>1, <3>4, AppliedFree
  <2> QED  BY <1>2, <2>1, <2>2 DEF Refused
<1>7. ASSUME NEW d \in FreshIds, Halt(d)  PROVE RunnerFree(bt'.graph)
  <2> PICK c, gone : c = Dropped(bt, d) /\ gone = Restrict(bt.runs, {d})
    OBVIOUS
  <2>1. d \in DOMAIN bt.runs /\ bt' = Pruned(c, gone)
    BY <1>7 DEF Halt, Dropped
  <2>2. Typed(c) /\ c.graph = bt.graph
    BY <2>1, DroppedIs DEF IsDropped
  <2> QED  BY <2>1, <2>2, PrunedFree
<1>8. ASSUME Tick  PROVE RunnerFree(bt'.graph)
  <2>1. bt'.graph = bt.graph \/ bt'.graph = b.graph
    BY <1>8, TickIs
  <2> QED  BY <1>1, <2>1
<1>9. ASSUME TickFails  PROVE RunnerFree(bt'.graph)
  BY <1>2, <1>9 DEF TickFails
<1>10. ASSUME SpawnCall  PROVE RunnerFree(bt'.graph)
  BY <1>2, <1>5, <1>10, SpawnCallIs DEF Refused
<1>11. ASSUME NEW g \in Fragments, SpawnGraph(g)  PROVE RunnerFree(bt'.graph)
  BY <1>2, <1>5, <1>6, <1>11, SpawnGraphIs DEF Refused
<1> QED  BY <1>3, <1>4, <1>7, <1>8, <1>9, <1>10, <1>11 DEF Next

\* Pruning is never refused: of the runs that finished, and of each live run
\* that may be halted.
PruningSucceeds ==
    /\ FinishedLeave(bt)
    /\ \A d \in DOMAIN bt.runs : Prunes(Dropped(bt, d), Restrict(bt.runs, {d}))

\* What pruning leaves of the nodes of a run it prunes is held outside the run.
LEMMA PruneWhole ==
    ASSUME NEW b, Typed(b), RunnerFree(b.graph), NEW gone,
           NEW p, Typed(p), p.main_root = b.main_root,
           p.graph = ApplyDiff(b.graph, PruneDiff(b, gone)),
           NEW left, left \subseteq HeldByRuns(b.graph, gone), Runner \notin left
    PROVE  left \cap DOMAIN p.graph \subseteq HeldOutside(p, left)
<1> PICK d, N, leaving : /\ d = PruneDiff(b, gone) /\ N = p.graph
                         /\ leaving = HeldByRuns(b.graph, gone)
  OBVIOUS
<1>1. /\ Sane(d) /\ d.remove = leaving \ HeldOutside(b, leaving)
      /\ DOMAIN d.set = {Runner}
  BY PruneDiffIs
<1>2. IsApplied(b.graph, d, N)
  BY <1>1, AppliedNodes DEF Typed
<1>3. /\ IsNodes(N, AllIds)
      /\ DOMAIN N = (DOMAIN b.graph \ d.remove) \cup {Runner}
      /\ \A x \in DOMAIN N \ {Runner} : N[x].kids = b.graph[x].kids
  BY <1>1, <1>2 DEF IsApplied
<1>4. KidsKnown(b.graph) /\ KidsKnown(N) /\ DOMAIN b.graph \subseteq AllIds
  BY <1>3, TypedKids DEF Typed, IsNodes
<1> DEFINE main == {b.main_root} \ {NoRoot}
           before == (DOMAIN b.graph \ (leaving \cup {Runner})) \cup main
           now == (DOMAIN N \ (left \cup {Runner})) \cup main
           H == Reach(b.graph, before)
           K == Reach(N, now)
<1>5. main \subseteq AllIds /\ Runner \notin main
  BY ScaffoldAssumption DEF Typed, AllIds
<1> HIDE DEF main
<1>6. before \in SUBSET AllIds /\ now \in SUBSET AllIds /\ Runner \notin before
  BY <1>3, <1>4, <1>5 DEF IsNodes
<1>7. H = HeldOutside(b, leaving) /\ K = HeldOutside(p, left)
  BY DEF HeldOutside, main
<1>8. before \subseteq now
  <2>1. left \subseteq leaving /\ d.remove \subseteq leaving
    BY <1>1
  <2> QED  BY <1>3, <2>1
<1>9. before \subseteq H /\ Closed(b.graph, H) /\ now \subseteq K /\ Closed(N, K)
  BY <1>4, <1>6, ReachHolds
<1>10. Runner \notin H
  <2>1. Closed(b.graph, AllIds \ {Runner})
    BY <1>4 DEF Closed, RunnerFree, KidsKnown
  <2>2. before \subseteq AllIds \ {Runner}
    BY <1>6
  <2>3. H \subseteq AllIds \ {Runner}
    BY <1>4, <1>6, <2>1, <2>2, ReachLeast
  <2> QED  BY <2>3
<1> HIDE DEF H, K
<1>11. Closed(b.graph, H \cap K)
  <2>1. ASSUME NEW x \in (H \cap K) \cap DOMAIN b.graph  PROVE b.graph[x].kids \subseteq H \cap K
    <3>1. x \in DOMAIN N /\ x # Runner
      BY <1>1, <1>3, <1>7, <1>10
    <3> QED  BY <1>3, <1>9, <3>1 DEF Closed
  <2> QED  BY <2>1 DEF Closed
<1>12. H \subseteq K
  <2>1. before \subseteq H \cap K
    BY <1>8, <1>9
  <2>2. H \subseteq H \cap K
    BY <1>4, <1>6, <1>11, <2>1, ReachLeast DEF H
  <2> QED  BY <2>2
<1>13. left \cap DOMAIN N \subseteq H
  BY <1>1, <1>3, <1>7
<1> QED  BY <1>7, <1>12, <1>13

\* The steps that answer no request with success.
LEMMA QuietIs ==
    ASSUME Typed(bt), Standing(bt), Next, told'.op \in {"nothing", "tick"}
    PROVE  bt' = PruneFinished(bt) \/ Tick \/ \E d : Halt(d)
<1> PICK b : b = PruneFinished(bt)
  OBVIOUS
<1>1. ASSUME NEW op \in {"load", "edit", "spawn"}, NEW d, NEW nodes, told' = Told(op, d, nodes)
      PROVE  FALSE
  BY <1>1 DEF Told
<1>2. ASSUME NEW g \in Behaviors, Load(g)  PROVE bt' = PruneFinished(bt)
  <2>1. bt' = PruneFinished(bt) \/ told' = Told("load", Runner, g.nodes)
    BY <1>2, Zenon DEF Load, Answer
  <2> QED  BY <1>1, <2>1
<1>3. ASSUME NEW d \in Edits, Apply(d)  PROVE bt' = PruneFinished(bt)
  <2>1. bt' = PruneFinished(bt) \/ told' = Told("edit", Runner, None)
    BY <1>3, Zenon DEF Apply, Answer
  <2> QED  BY <1>1, <2>1
<1>4. ASSUME NEW d, NEW root, NEW nodes, NEW detached, Grafts(b, d, root, nodes, detached)
      PROVE  FALSE
  BY <1>1, <1>4 DEF Grafts
<1>5. ASSUME SpawnCall  PROVE bt' = PruneFinished(bt)
  BY <1>4, <1>5, SpawnCallIs DEF Refused
<1>6. ASSUME NEW g \in Fragments, SpawnGraph(g)  PROVE bt' = PruneFinished(bt)
  <2>1. ASSUME NEW d, Respawns(b, d, g)  PROVE Refused
    <3> PICK c : c = bt'
      OBVIOUS
    <3>1. Refused \/ IsRespawned(b, d, g, c)
      BY <2>1, RespawnIs
    <3> QED  BY <1>1, <3>1 DEF IsRespawned
  <2> QED  BY <1>4, <1>6, <2>1, SpawnGraphIs DEF Refused
<1>7. ASSUME TickFails  PROVE bt' = PruneFinished(bt)
  BY <1>7 DEF TickFails
<1> QED  BY <1>2, <1>3, <1>5, <1>6, <1>7 DEF Next

\* The nodes of a run on a list are not the runner.
LEMMA RunWithoutRunner ==
    ASSUME NEW b, Typed(b), Standing(b), NEW d \in DOMAIN AllRuns(b)
    PROVE  /\ d \in FreshIds /\ d \in DOMAIN b.graph
           /\ AllRuns(b)[d] \subseteq Ids
           /\ Reach(b.graph, {d}) \subseteq DOMAIN b.graph \ {Runner}
           /\ Runner \notin NodesOf(b.graph, d, AllRuns(b)[d])
<1>1. d \in FreshIds /\ AllRuns(b)[d] \subseteq Ids
  BY AllRunsIs DEF Typed, IsRuns
<1>2. {d} \in SUBSET b.graph[Runner].kids /\ Acyclic(b.graph, Runner)
  BY DEF Standing, RunnerHolds
<1>3. d \in Reach(b.graph, {d}) /\ Reach(b.graph, {d}) \subseteq DOMAIN b.graph \ {Runner}
  BY <1>2, UnderRunner DEF Typed
<1> QED  BY <1>1, <1>3, ScaffoldAssumption DEF NodesOf

\* A finished run that is pruned leaves whole.
LEMMA FinishedLeaveWhole ==
    ASSUME Typed(bt), Standing(bt), RunnerFree(bt.graph), FinishedLeave(bt),
           NEW c, Typed(c), c.graph = PruneFinished(bt).graph, c.main_root = bt.main_root,
           NEW d \in DOMAIN AllRuns(bt) \ DOMAIN bt.runs,
           NEW left, left = NodesOf(bt.graph, d, AllRuns(bt)[d])
    PROVE  left \cap DOMAIN c.graph \subseteq HeldOutside(c, left)
<1> PICK b, gone : b = Swept(bt) /\ gone = bt.finished
  OBVIOUS
<1>1. Typed(b) /\ b.graph = bt.graph /\ b.main_root = bt.main_root
  BY SweptIs
<1>2. d \in DOMAIN gone /\ AllRuns(bt)[d] = gone[d] /\ gone # None
  BY AllRunsIs DEF None
<1>3. Accepts(b, PruneDiff(b, gone)) /\ Prunes(b, gone)
  BY <1>2 DEF FinishedLeave, Prunes
<1>4. c.graph = ApplyDiff(b.graph, PruneDiff(b, gone))
  <2> PICK p : p = Pruned(b, gone)
    OBVIOUS
  <2>1. p.graph = ApplyDiff(b.graph, PruneDiff(b, gone))
    BY <1>1, <1>2, <1>3, PrunedIs
  <2> QED  BY <2>1 DEF PruneFinished
<1>5. left \subseteq HeldByRuns(b.graph, gone)
  BY <1>1, <1>2, HeldByRunsIs DEF NodesOf
<1>6. Runner \notin left
  BY RunWithoutRunner
<1> QED  BY <1>1, <1>4, <1>5, <1>6, PruneWhole

\* A halted run leaves whole.
LEMMA HaltedLeavesWhole ==
    ASSUME Typed(bt), Standing(bt), RunnerFree(bt.graph), PruningSucceeds, NEW e, Halt(e),
           NEW d \in DOMAIN AllRuns(bt) \ DOMAIN AllRuns(bt'),
           NEW left, left = NodesOf(bt.graph, d, AllRuns(bt)[d])
    PROVE  left \cap DOMAIN bt'.graph \subseteq HeldOutside(bt', left)
<1> PICK b, gone, p : b = Dropped(bt, e) /\ gone = Restrict(bt.runs, {e}) /\ p = bt'
  OBVIOUS
<1>1. e \in DOMAIN bt.runs /\ p = Pruned(b, gone)
  BY DEF Halt, Dropped
<1>2. /\ Typed(b) /\ b.graph = bt.graph /\ b.main_root = bt.main_root
      /\ b.finished = bt.finished /\ DOMAIN b.runs = DOMAIN bt.runs \ {e}
      /\ gone # None /\ DOMAIN gone = {e} /\ gone[e] = bt.runs[e]
  BY <1>1, DroppedIs DEF IsDropped
<1>3. Prunes(b, gone)
  BY <1>1 DEF PruningSucceeds
<1>4. /\ Typed(p) /\ p.main_root = b.main_root /\ p.runs = b.runs /\ p.finished = b.finished
      /\ p.graph = ApplyDiff(b.graph, PruneDiff(b, gone))
  BY <1>1, <1>2, <1>3, PrunedIs
<1>5. d = e /\ AllRuns(bt)[d] = gone[d]
  <2>1. /\ DOMAIN AllRuns(bt) = DOMAIN bt.runs \cup DOMAIN bt.finished
        /\ AllRuns(bt)[e] = bt.runs[e]
        /\ DOMAIN AllRuns(p) = DOMAIN p.runs \cup DOMAIN p.finished
    BY <1>1, AllRunsIs
  <2>2. d \in DOMAIN AllRuns(bt) \ DOMAIN AllRuns(p)
    OBVIOUS
  <2> QED  BY <1>2, <1>4, <2>1, <2>2
<1>6. left \subseteq HeldByRuns(b.graph, gone)
  BY <1>2, <1>5, HeldByRunsIs DEF NodesOf
<1>7. Runner \notin left
  BY RunWithoutRunner
<1>8. left \cap DOMAIN p.graph \subseteq HeldOutside(p, left)
  BY <1>2, <1>4, <1>6, <1>7, PruneWhole
<1> QED  BY <1>8

\* The runner is under no node of the graph.
ScaffoldFree == RunnerFree(bt.graph)

\* The runner is under no node, always.
LEMMA FreeInvariant ==
    ASSUME RunnerPrivate
    PROVE  Spec => []ScaffoldFree
<1>1. Init => ScaffoldFree
  BY DEF Init, ScaffoldFree, RunnerFree
<1>2. ASSUME ScaffoldInv, ScaffoldFree, [Next]_vars  PROVE ScaffoldFree'
  <2>1. CASE Next
    BY <1>2, <2>1, NextFree DEF ScaffoldInv, ScaffoldFree
  <2>2. CASE UNCHANGED vars
    BY <1>2, <2>2 DEF vars, ScaffoldFree
  <2> QED  BY <1>2, <2>1, <2>2
<1> QED  BY <1>1, <1>2, Invariant, PTL DEF Spec

\* A run that a halt, a tick or a refused request takes off the lists leaves
\* the graph whole, in every behavior in which pruning is not refused
\* (behavior.rs, prune, prune_finished and halt).
THEOREM RunsGoWhole ==
    ASSUME RunnerPrivate
    PROVE  Spec /\ []PruningSucceeds => RunsLeaveWhole
<1> DEFINE Whole ==
      told'.op \in {"nothing", "tick"} =>
         \A d \in DOMAIN AllRuns(bt) \ DOMAIN AllRuns(bt') :
            LET left == NodesOf(bt.graph, d, AllRuns(bt)[d])
            IN  left \cap DOMAIN bt'.graph \subseteq HeldOutside(bt', left)
<1>1. ASSUME ScaffoldInv, ScaffoldFree, PruningSucceeds, [Next]_vars
      PROVE  [Whole]_vars
  <2>1. CASE UNCHANGED vars
    BY <2>1
  <2>2. CASE Next
    <3> SUFFICES ASSUME told'.op \in {"nothing", "tick"},
                        NEW d \in DOMAIN AllRuns(bt) \ DOMAIN AllRuns(bt'),
                        NEW left, left = NodesOf(bt.graph, d, AllRuns(bt)[d])
                 PROVE  left \cap DOMAIN bt'.graph \subseteq HeldOutside(bt', left)
      OBVIOUS
    <3>1. /\ Typed(bt) /\ Standing(bt) /\ RunnerFree(bt.graph) /\ FinishedLeave(bt)
          /\ Typed(bt')
      BY <1>1, <2>2, NextStep DEF ScaffoldInv, ScaffoldFree, PruningSucceeds
    <3>2. CASE bt' = PruneFinished(bt)
      <4> PICK c : c = bt'
        OBVIOUS
      <4>1. c.main_root = bt.main_root /\ c.runs = bt.runs
        BY <3>1, <3>2, PruneFinishedIs
      <4>2. d \in DOMAIN AllRuns(bt) \ DOMAIN bt.runs
        BY <4>1, AllRunsIs
      <4>3. left \cap DOMAIN c.graph \subseteq HeldOutside(c, left)
        BY <3>1, <3>2, <4>1, <4>2, FinishedLeaveWhole
      <4> QED  BY <4>3
    <3>3. CASE Tick
      <4> PICK b, c : b = PruneFinished(bt) /\ c = bt'
        OBVIOUS
      <4>1. c.main_root = bt.main_root /\ c.graph = b.graph /\ AllRuns(c) = AllRuns(b)
        BY <3>1, <3>3, TickIs
      <4>2. d \in DOMAIN AllRuns(bt) \ DOMAIN bt.runs
        <5>1. b.runs = bt.runs
          BY <3>1, PruneFinishedIs
        <5> QED  BY <4>1, <5>1, AllRunsIs
      <4>3. left \cap DOMAIN c.graph \subseteq HeldOutside(c, left)
        BY <3>1, <4>1, <4>2, FinishedLeaveWhole
      <4> QED  BY <4>3
    <3>4. CASE \E e : Halt(e)
      BY <1>1, <3>1, <3>4, HaltedLeavesWhole
    <3> QED  BY <2>2, <3>1, <3>2, <3>3, <3>4, QuietIs
  <2> QED  BY <1>1, <2>1, <2>2
<1> QED  BY <1>1, Invariant, FreeInvariant, PTL DEF Spec, RunsLeaveWhole

------------------------------------------------------------------------------
(* The revision tells the main behaviors apart *)

\* The revision after r.
LEMMA NextRevision ==
    ASSUME NEW r \in 0..(Revisions - 1)
    PROVE  (r + 1) % Revisions = IF r + 1 = Revisions THEN 0 ELSE r + 1
<1>1. Revisions \in Nat /\ Revisions > 2 /\ r \in Nat /\ r + 1 <= Revisions
  BY ScaffoldAssumption
<1>2. CASE r + 1 = Revisions
  BY <1>1, <1>2
<1>3. CASE r + 1 # Revisions
  BY <1>1, <1>3
<1> QED  BY <1>2, <1>3

\* One advance or two leave another revision: there are more than two.
LEMMA RevisionMoves ==
    ASSUME NEW r \in 0..(Revisions - 1)
    PROVE  /\ (r + 1) % Revisions # r
           /\ (((r + 1) % Revisions) + 1) % Revisions # r
<1> PICK q : q = (r + 1) % Revisions
  OBVIOUS
<1>1. Revisions \in Nat /\ Revisions > 2 /\ q = IF r + 1 = Revisions THEN 0 ELSE r + 1
  BY ScaffoldAssumption, NextRevision
<1>2. q \in 0..(Revisions - 1)
  BY <1>1
<1>3. (q + 1) % Revisions = IF q + 1 = Revisions THEN 0 ELSE q + 1
  BY <1>2, NextRevision
<1> QED  BY <1>1, <1>2, <1>3

\* What a read leaves out: the runner, and what runs hold and the main behavior
\* does not.
LEMMA NotMainIs ==
    ASSUME NEW b, NEW others, NEW runs, runs = Over(AllRuns(b), others)
    PROVE  \A x : x \in NotMain(b, others)
                    <=> \/ x = Runner
                        \/ /\ x \notin HeldByMain(b)
                           /\ \E e \in DOMAIN runs : x \in Reach(b.graph, {e}) \/ x \in runs[e]
BY HeldByRunsIs DEF NotMain

\* No runs beside the interpreter's are the interpreter's.
LEMMA AllRunsOver ==
    ASSUME NEW b
    PROVE  Over(AllRuns(b), None) = AllRuns(b)
BY DEF AllRuns, Over, None

\* Interpreters that agree on what is the main behavior's answer reads alike.
LEMMA MainGraphAgrees ==
    ASSUME NEW b, NEW c, NEW others, c.main_root = b.main_root,
           DOMAIN c.graph \ NotMain(c, None) = DOMAIN b.graph \ NotMain(b, others),
           \A x \in DOMAIN b.graph \ NotMain(b, others) : c.graph[x] = b.graph[x]
    PROVE  MainGraph(c, None) = MainGraph(b, others)
<1>1. Without(c.graph, NotMain(c, None)) = Without(b.graph, NotMain(b, others))
  BY DEF Without, Restrict
<1> QED  BY <1>1 DEF MainGraph

\* A read of b without the runs gone, told beside them, is a read of a.
LEMMA ReadBeside ==
    ASSUME NEW a, NEW b, b.graph = a.graph, b.main_root = a.main_root,
           NEW gone, Over(AllRuns(b), gone) = AllRuns(a)
    PROVE  MainGraph(b, gone) = MainGraph(a, None)
<1>1. NotMain(b, gone) = NotMain(a, None)
  BY AllRunsOver DEF NotMain, HeldByMain
<1> QED  BY <1>1 DEF MainGraph

\* Between b and c a read's answer is the same, or the revision advanced.
Tells(b, c) ==
    \/ c.revision = b.revision /\ MainGraph(c, None) = MainGraph(b, None)
    \/ c.revision = (b.revision + 1) % Revisions

\* prune tells what it does to the main behavior.
LEMMA PruneTells ==
    ASSUME NEW a, NEW b, Typed(b), b.graph = a.graph, b.main_root = a.main_root,
           b.revision = a.revision,
           NEW gone, Over(AllRuns(b), gone) = AllRuns(a), Prunes(b, gone),
           NEW p, p = Pruned(b, gone)
    PROVE  Tells(a, p)
<1>1. MainGraph(b, gone) = MainGraph(a, None)
  BY ReadBeside
<1>2. \/ p = b /\ gone = None
      \/ p.revision = b.revision /\ MainGraph(p, None) = MainGraph(b, gone)
      \/ p.revision = (b.revision + 1) % Revisions
  BY PrunedIs
<1> QED  BY <1>1, <1>2 DEF Tells

\* So does prune_finished.
LEMMA PruneFinishedTells ==
    ASSUME NEW a, Typed(a), FinishedLeave(a), NEW p, p = PruneFinished(a)
    PROVE  Tells(a, p)
<1> PICK b : b = Swept(a)
  OBVIOUS
<1>1. /\ Typed(b) /\ b.graph = a.graph /\ b.main_root = a.main_root
      /\ b.revision = a.revision /\ b.runs = a.runs /\ b.finished = None
  BY SweptIs
<1>2. Over(AllRuns(b), a.finished) = AllRuns(a)
  BY <1>1 DEF AllRuns, Over, None
<1>3. Prunes(b, a.finished) /\ p = Pruned(b, a.finished)
  BY DEF FinishedLeave, PruneFinished
<1> QED  BY <1>1, <1>2, <1>3, PruneTells

\* So does halt.
LEMMA HaltTells ==
    ASSUME Typed(bt), PruningSucceeds, NEW d, Halt(d), NEW p, p = bt'
    PROVE  Tells(bt, p)
<1> PICK a, b, gone : a = bt /\ b = Dropped(bt, d) /\ gone = Restrict(bt.runs, {d})
  OBVIOUS
<1>1. d \in DOMAIN a.runs /\ p = Pruned(b, gone) /\ Prunes(b, gone)
  BY DEF Halt, Dropped, PruningSucceeds
<1>2. /\ Typed(b) /\ b.graph = a.graph /\ b.main_root = a.main_root
      /\ b.revision = a.revision /\ Over(AllRuns(b), gone) = AllRuns(a)
  BY <1>1, DroppedIs DEF IsDropped
<1>3. Tells(a, p)
  BY <1>1, <1>2, PruneTells
<1> QED  BY <1>3

\* A graft is not seen in the main behavior.
LEMMA GraftUnseen ==
    ASSUME NEW b, Typed(b), Standing(b), b.finished = None,
           NEW d, NEW root, NEW nodes, NEW detached,
           Grafts(b, d, root, nodes, detached), NEW c, c = bt'
    PROVE  c.revision = b.revision /\ MainGraph(c, None) = MainGraph(b, None)
<1>1. /\ Sits(c.graph, d, root, nodes)
      /\ Runner \in DOMAIN c.graph /\ Runner \notin c.graph[Runner].kids
      /\ DOMAIN c.graph = DOMAIN b.graph \cup {d, Runner} \cup DOMAIN nodes
      /\ \A x \in DOMAIN b.graph \ {Runner} : c.graph[x] = b.graph[x]
      /\ DOMAIN c.runs = DOMAIN b.runs \cup {d} /\ c.runs[d] = detached
      /\ \A e \in DOMAIN b.runs \ {d} : c.runs[e] = b.runs[e]
      /\ c.finished = None /\ c.main_root = b.main_root /\ c.revision = b.revision
  BY GraftIs
<1>2. /\ IsFragment(nodes, root, detached) /\ d \notin DOMAIN b.graph /\ d \in FreshIds
      /\ DOMAIN nodes \cap ({d, Runner} \cup DOMAIN b.graph) = {}
  BY DEF Grafts
<1>3. KidsKnown(b.graph) /\ KidsKnown(c.graph)
  BY <1>1, TypedKids DEF Typed, Sits
<1>4. ASSUME NEW S \in SUBSET b.graph[Runner].kids
      PROVE  /\ Reach(b.graph, S) \subseteq DOMAIN b.graph \ {Runner}
             /\ Reach(c.graph, S) = Reach(b.graph, S)
  <2>1. /\ S \in SUBSET AllIds
        /\ Reach(b.graph, S) \subseteq DOMAIN b.graph \ {Runner}
    BY UnderRunner DEF Typed, Standing
  <2>2. \A x \in Reach(b.graph, S) : /\ x \in DOMAIN b.graph <=> x \in DOMAIN c.graph
                                     /\ x \in DOMAIN b.graph
                                          => b.graph[x].kids = c.graph[x].kids
    BY <1>1, <2>1
  <2> QED  BY <1>3, <2>1, <2>2, ReachAgrees
<1>5. HeldByMain(c) = HeldByMain(b) /\ HeldByMain(b) \subseteq DOMAIN b.graph \ {Runner}
  <2>1. ({b.main_root} \ {NoRoot}) \in SUBSET b.graph[Runner].kids
    BY DEF Standing, RunnerHolds
  <2> QED  BY <1>1, <1>4, <2>1 DEF HeldByMain
<1> PICK old, new : old = AllRuns(b) /\ new = AllRuns(c)
  OBVIOUS
<1>6. /\ DOMAIN old = DOMAIN b.runs /\ DOMAIN new = DOMAIN b.runs \cup {d}
      /\ \A e \in DOMAIN b.runs : old[e] = b.runs[e]
      /\ \A e \in DOMAIN c.runs : new[e] = c.runs[e]
  BY <1>1, AllRunsIs DEF None
<1>7. ASSUME NEW e \in DOMAIN old
      PROVE  e # d /\ Reach(c.graph, {e}) = Reach(b.graph, {e}) /\ new[e] = old[e]
  <2>1. {e} \in SUBSET b.graph[Runner].kids
    BY DEF Standing, RunnerHolds
  <2>2. e \in DOMAIN b.graph
    BY RunWithoutRunner
  <2> QED  BY <1>1, <1>2, <1>4, <1>6, <2>1, <2>2
<1>8. Reach(c.graph, {d}) \cup detached = {d} \cup DOMAIN nodes
  <2>1. Restrict(c.graph, NodesOf(c.graph, d, detached) \ {d}) = nodes
    BY <1>1, <1>2, HeldIs
  <2>2. NodesOf(c.graph, d, detached) \ {d} = DOMAIN nodes
    BY <2>1 DEF Restrict
  <2>3. d \in Reach(c.graph, {d})
    <3>1. {d} \in SUBSET AllIds
      BY <1>2 DEF AllIds
    <3> QED  BY <1>3, <3>1, ReachHolds
  <2> QED  BY <2>2, <2>3 DEF NodesOf
<1>9. ASSUME NEW x
      PROVE  /\ x \in NotMain(b, None)
                  <=> \/ x = Runner
                      \/ /\ x \notin HeldByMain(b)
                         /\ \E e \in DOMAIN old : x \in Reach(b.graph, {e}) \/ x \in old[e]
             /\ x \in NotMain(c, None)
                  <=> \/ x = Runner
                      \/ /\ x \notin HeldByMain(b)
                         /\ \E e \in DOMAIN new : x \in Reach(c.graph, {e}) \/ x \in new[e]
  BY <1>5, NotMainIs, AllRunsOver
<1>10. ASSUME NEW x \in DOMAIN b.graph  PROVE x \in NotMain(c, None) <=> x \in NotMain(b, None)
  <2>1. (\E e \in DOMAIN new : x \in Reach(c.graph, {e}) \/ x \in new[e])
          <=> (\E e \in DOMAIN old : x \in Reach(b.graph, {e}) \/ x \in old[e])
    <3>1. ~(x \in Reach(c.graph, {d}) \/ x \in new[d])
      BY <1>1, <1>2, <1>6, <1>8
    <3>2. \A e : e \in DOMAIN new <=> e \in DOMAIN old \/ e = d
      BY <1>6
    <3> QED  BY <1>7, <3>1, <3>2
  <2> QED  BY <1>9, <2>1
<1>11. ASSUME NEW x \in DOMAIN c.graph, x \notin DOMAIN b.graph  PROVE x \in NotMain(c, None)
  <2>1. x = Runner \/ x \in {d} \cup DOMAIN nodes
    BY <1>1, <1>11
  <2>2. x \notin HeldByMain(b)
    BY <1>5, <1>11
  <2>3. d \in DOMAIN new /\ new[d] = detached
    BY <1>1, <1>6
  <2> QED  BY <1>8, <1>9, <2>1, <2>2, <2>3
<1>12. Runner \in NotMain(b, None)
  BY <1>9
<1>13. DOMAIN c.graph \ NotMain(c, None) = DOMAIN b.graph \ NotMain(b, None)
  BY <1>1, <1>10, <1>11
<1>14. \A x \in DOMAIN b.graph \ NotMain(b, None) : c.graph[x] = b.graph[x]
  BY <1>1, <1>12
<1> QED  BY <1>1, <1>13, <1>14, MainGraphAgrees

\* A respawn with the nodes the run has leaves none of the run's detached nodes
\* to nobody: one that is not the new fragment's is held by the main behavior
\* or by another run.
StrandsNone ==
    LET b == PruneFinished(bt)
    IN  \A g \in Fragments, d \in DOMAIN b.runs :
            RespawnDiff(b, d, g) = NoDiff
              => b.runs[d] \cap DOMAIN b.graph
                   \subseteq DOMAIN g.nodes \cup HeldByMain(b)
                                \cup HeldByRuns(b.graph, Without(b.runs, {d}))

\* A respawn tells, or is not seen in the main behavior.
LEMMA RespawnUnseen ==
    ASSUME StrandsNone, NEW b, b = PruneFinished(bt), Typed(b), Standing(b), b.finished = None,
           NEW g \in Fragments, NEW d, Respawns(b, d, g), NEW c, IsRespawned(b, d, g, c)
    PROVE  Tells(b, c)
<1>1. CASE RespawnDiff(b, d, g) = NoDiff /\ c.graph = b.graph /\ c.revision = b.revision
  <2>1. /\ DOMAIN g.nodes \cap DOMAIN b.graph \subseteq Held(b, d)
        /\ IsApplied(b.graph, RespawnDiff(b, d, g), c.graph)
        /\ DOMAIN c.runs = DOMAIN b.runs /\ c.runs[d] = DetachedOf(g)
        /\ \A e \in DOMAIN b.runs \ {d} : c.runs[e] = b.runs[e]
        /\ c.finished = None /\ c.main_root = b.main_root
    BY DEF IsRespawned
  <2>2. d \in DOMAIN b.runs
    BY DEF Respawns
  <2>3. b.runs[d] \cap DOMAIN b.graph
          \subseteq DOMAIN g.nodes \cup HeldByMain(b)
                       \cup HeldByRuns(b.graph, Without(b.runs, {d}))
    BY <1>1, <2>2 DEF StrandsNone
  <2>4. Reach(b.graph, {d}) \cup DetachedOf(g) = {d} \cup DOMAIN g.nodes
    <3>1. /\ IsFragment(g.nodes, g.root, DetachedOf(g))
          /\ Sits(b.graph, d, g.root, g.nodes)
      BY <1>1, <2>1, RespawnSits
    <3>2. Restrict(b.graph, NodesOf(b.graph, d, DetachedOf(g)) \ {d}) = g.nodes
      BY <3>1, HeldIs
    <3>3. NodesOf(b.graph, d, DetachedOf(g)) \ {d} = DOMAIN g.nodes
      BY <3>2 DEF Restrict
    <3>4. d \in Reach(b.graph, {d})
      <4>1. KidsKnown(b.graph) /\ {d} \in SUBSET AllIds
        BY <2>2, TypedKids DEF Typed, IsRuns, AllIds
      <4> QED  BY <4>1, ReachHolds
    <3> QED  BY <3>3, <3>4 DEF NodesOf
  <2> PICK old, new, rest : /\ old = AllRuns(b) /\ new = AllRuns(c)
                            /\ rest = Without(b.runs, {d})
    OBVIOUS
  <2>5. /\ DOMAIN old = DOMAIN b.runs /\ DOMAIN new = DOMAIN b.runs
        /\ \A e \in DOMAIN b.runs : old[e] = b.runs[e] /\ new[e] = c.runs[e]
    BY <2>1, AllRunsIs DEF None
  <2>6. DOMAIN rest = DOMAIN b.runs \ {d} /\ \A e \in DOMAIN rest : rest[e] = b.runs[e]
    BY DEF Without, Restrict
  <2>7. ASSUME NEW x
        PROVE  /\ x \in NotMain(b, None)
                    <=> \/ x = Runner
                        \/ /\ x \notin HeldByMain(b)
                           /\ \E e \in DOMAIN old : x \in Reach(b.graph, {e}) \/ x \in old[e]
               /\ x \in NotMain(c, None)
                    <=> \/ x = Runner
                        \/ /\ x \notin HeldByMain(b)
                           /\ \E e \in DOMAIN new : x \in Reach(b.graph, {e}) \/ x \in new[e]
               /\ x \in HeldByRuns(b.graph, rest)
                    <=> \E e \in DOMAIN rest : x \in Reach(b.graph, {e}) \/ x \in rest[e]
    <3>1. HeldByMain(c) = HeldByMain(b)
      BY <1>1, <2>1 DEF HeldByMain
    <3>2. x \in NotMain(b, None)
            <=> \/ x = Runner
                \/ /\ x \notin HeldByMain(b)
                   /\ \E e \in DOMAIN old : x \in Reach(b.graph, {e}) \/ x \in old[e]
      BY NotMainIs, AllRunsOver
    <3>3. x \in NotMain(c, None)
            <=> \/ x = Runner
                \/ /\ x \notin HeldByMain(c)
                   /\ \E e \in DOMAIN new : x \in Reach(c.graph, {e}) \/ x \in new[e]
      BY NotMainIs, AllRunsOver
    <3> QED  BY <1>1, <3>1, <3>2, <3>3, HeldByRunsIs
  <2>8. ASSUME NEW x \in DOMAIN b.graph, x \in NotMain(c, None)  PROVE x \in NotMain(b, None)
    <3>1. CASE x = Runner
      BY <2>7, <3>1
    <3>2. CASE x # Runner
      <4>1. PICK e \in DOMAIN new : x \in Reach(b.graph, {e}) \/ x \in new[e]
        BY <2>7, <2>8, <3>2
      <4>2. CASE e # d
        BY <2>1, <2>5, <2>7, <2>8, <3>2, <4>1, <4>2
      <4>3. CASE e = d
        <5>1. x \in {d} \cup DOMAIN g.nodes
          BY <2>1, <2>2, <2>4, <2>5, <4>1, <4>3
        <5>2. x \in Reach(b.graph, {d}) \/ x \in b.runs[d]
          <6>1. CASE x = d
            <7>1. KidsKnown(b.graph) /\ {d} \in SUBSET AllIds
              BY <2>2, TypedKids DEF Typed, IsRuns, AllIds
            <7> QED  BY <6>1, <7>1, ReachHolds
          <6>2. CASE x \in DOMAIN g.nodes
            BY <2>1, <2>8, <6>2 DEF Held, NodesOf
          <6> QED  BY <5>1, <6>1, <6>2
        <5> QED  BY <2>2, <2>5, <2>7, <2>8, <3>2, <5>2
      <4> QED  BY <4>2, <4>3
    <3> QED  BY <3>1, <3>2
  <2>9. ASSUME NEW x \in DOMAIN b.graph, x \in NotMain(b, None)  PROVE x \in NotMain(c, None)
    <3>1. CASE x = Runner
      BY <2>7, <3>1
    <3>2. CASE x # Runner
      <4>1. PICK e \in DOMAIN old : x \in Reach(b.graph, {e}) \/ x \in old[e]
        BY <2>7, <2>9, <3>2
      <4>2. x \notin HeldByMain(b)
        BY <2>7, <2>9, <3>2
      <4>3. CASE e # d
        <5>1. e \in DOMAIN new /\ new[e] = old[e]
          BY <2>1, <2>5, <4>3
        <5> QED  BY <2>7, <4>1, <4>2, <5>1
      <4>4. CASE e = d /\ x \in Reach(b.graph, {d})
        BY <2>2, <2>5, <2>7, <4>2, <4>4
      <4>5. CASE e = d /\ x \in b.runs[d]
        <5>1. x \in DOMAIN g.nodes \/ x \in HeldByRuns(b.graph, rest)
          BY <2>3, <4>2, <4>5
        <5>2. CASE x \in DOMAIN g.nodes
          <6>1. x \in Reach(b.graph, {d}) \/ x \in new[d]
            BY <2>1, <2>2, <2>4, <2>5, <5>2
          <6> QED  BY <2>2, <2>5, <2>7, <4>2, <6>1
        <5>3. CASE x \in HeldByRuns(b.graph, rest)
          <6>1. PICK f \in DOMAIN rest : x \in Reach(b.graph, {f}) \/ x \in rest[f]
            BY <2>7, <5>3
          <6>2. f \in DOMAIN new /\ new[f] = rest[f]
            BY <2>1, <2>5, <2>6
          <6> QED  BY <2>7, <4>2, <6>1, <6>2
        <5> QED  BY <5>1, <5>2, <5>3
      <4>6. e = d => x \in Reach(b.graph, {d}) \/ x \in b.runs[d]
        BY <2>2, <2>5, <4>1
      <4> QED  BY <4>3, <4>4, <4>5, <4>6
    <3> QED  BY <3>1, <3>2
  <2>10. DOMAIN c.graph \ NotMain(c, None) = DOMAIN b.graph \ NotMain(b, None)
    BY <1>1, <2>8, <2>9
  <2>11. MainGraph(c, None) = MainGraph(b, None)
    BY <1>1, <2>1, <2>10, MainGraphAgrees
  <2> QED  BY <1>1, <2>11 DEF Tells
<1>2. \/ RespawnDiff(b, d, g) = NoDiff /\ c.graph = b.graph /\ c.revision = b.revision
      \/ Tells(b, c)
  BY DEF IsRespawned, Tells
<1> QED  BY <1>1, <1>2

\* Two changes, each of which tells: the revision moved, or a read is the same.
LEMMA TwiceTold ==
    ASSUME NEW a, NEW b, NEW c, Typed(a), Tells(a, b), Tells(b, c), c.revision = a.revision
    PROVE  MainGraph(c, None) = MainGraph(a, None)
<1> PICK r : r = a.revision
  OBVIOUS
<1>1. (r + 1) % Revisions # r /\ (((r + 1) % Revisions) + 1) % Revisions # r
  BY RevisionMoves DEF Typed
<1> QED  BY <1>1 DEF Tells

\* A step that leaves the revision leaves what a read answers.
LEMMA NextTells ==
    ASSUME Typed(bt), Standing(bt), PruningSucceeds, StrandsNone, Next,
           bt'.revision = bt.revision
    PROVE  MainGraph(bt', None) = MainGraph(bt, None)
<1> PICK a, b, c : a = bt /\ b = PruneFinished(bt) /\ c = bt'
  OBVIOUS
<1> SUFFICES MainGraph(c, None) = MainGraph(a, None)
  OBVIOUS
<1>1. /\ Typed(a) /\ Typed(b) /\ Standing(b) /\ b.finished = None /\ b.main_root = bt.main_root
      /\ FinishedLeave(a) /\ b = PruneFinished(a) /\ c.revision = a.revision
  BY PruneFinishedIs, PruneFinishedStands DEF PruningSucceeds
<1>2. Tells(a, b)
  BY <1>1, PruneFinishedTells
<1>3. ASSUME Tells(b, c)  PROVE MainGraph(c, None) = MainGraph(a, None)
  BY <1>1, <1>2, <1>3, TwiceTold
<1>4. ASSUME bt' = PruneFinished(bt)  PROVE Tells(b, c)
  BY <1>4 DEF Tells
<1>5. ASSUME NEW g \in Behaviors, Load(g)  PROVE Tells(b, c)
  <2> PICK rooted, d, e : rooted = Rooted(b, g.root) /\ d = LoadDiff(b, g) /\ e = Edited(rooted, d)
    OBVIOUS
  <2>1. c = Advanced(e) \/ bt' = PruneFinished(bt)
    BY <1>5, Zenon DEF Load, Answer, Rooted
  <2>2. IsGraph(g) /\ g.root \in Ids \cup {NoRoot}
    BY ScaffoldAssumption DEF IsGraph
  <2>3. Typed(rooted) /\ rooted.revision = b.revision
    BY <1>1, <2>2, WithMainRoot
  <2>4. Sane(d)
    <3> PICK after : after = After(b, g)
      OBVIOUS
    <3> QED  BY <1>1, <2>2, LoadDiffIs
  <2>5. Typed(e) /\ e.revision = b.revision
    BY <2>3, <2>4, EditedTyped, EditedIs DEF Typed
  <2>6. Advanced(e).revision = (b.revision + 1) % Revisions
    BY <2>5, AdvancedIs
  <2> QED  BY <1>4, <2>1, <2>6 DEF Tells
<1>6. ASSUME NEW diff \in Edits, Apply(diff)  PROVE Tells(b, c)
  <2> DEFINE removed == IF b.main_root \in diff.remove THEN NoRoot ELSE b.main_root
             root == IF diff.root # NoRoot THEN diff.root ELSE removed
  <2> PICK rooted, d, e : rooted = Rooted(b, root) /\ d = ClientDiff(rooted, diff) /\ e = Edited(rooted, d)
    OBVIOUS
  <2>1. c = Revised(e, MainGraph(b, None)) \/ bt' = PruneFinished(bt)
    BY <1>6, Zenon DEF Apply, Answer, ClientDiff, Rooted
  <2>2. IsDiff(diff) /\ root \in Ids \cup {NoRoot}
    BY <1>1, ScaffoldAssumption DEF Typed, IsDiff
  <2> HIDE DEF root
  <2>3. Typed(rooted) /\ rooted.revision = b.revision
    BY <1>1, <2>2, WithMainRoot
  <2>4. Sane(d)
    BY <2>2, <2>3, ClientDiffIs
  <2>5. Typed(e) /\ e.revision = b.revision
    BY <2>3, <2>4, EditedTyped, EditedIs DEF Typed
  <2>6. ASSUME c = Revised(e, MainGraph(b, None))  PROVE Tells(b, c)
    BY <2>5, <2>6, RevisedIs DEF Tells
  <2> QED  BY <1>4, <2>1, <2>6
<1>7. ASSUME NEW d, NEW root, NEW nodes, NEW detached, Grafts(b, d, root, nodes, detached)
      PROVE  Tells(b, c)
  BY <1>1, <1>7, GraftUnseen DEF Tells
<1>8. ASSUME SpawnCall  PROVE Tells(b, c)
  BY <1>4, <1>7, <1>8, SpawnCallIs DEF Refused
<1>9. ASSUME NEW g \in Fragments, SpawnGraph(g)  PROVE Tells(b, c)
  <2>1. ASSUME NEW d, Respawns(b, d, g)  PROVE Tells(b, c)
    <3>1. Refused \/ IsRespawned(b, d, g, c)
      BY <2>1, RespawnIs
    <3> QED  BY <1>1, <1>4, <2>1, <3>1, RespawnUnseen DEF Refused
  <2> QED  BY <1>4, <1>7, <1>9, <2>1, SpawnGraphIs DEF Refused
<1>10. ASSUME NEW d \in FreshIds, Halt(d)  PROVE MainGraph(c, None) = MainGraph(a, None)
  <2>1. Tells(a, c)
    BY <1>10, HaltTells
  <2>2. (a.revision + 1) % Revisions # a.revision
    BY <1>1, RevisionMoves DEF Typed
  <2> QED  BY <1>1, <2>1, <2>2 DEF Tells
<1>11. ASSUME Tick  PROVE MainGraph(c, None) = MainGraph(a, None)
  <2>1. /\ c.main_root = a.main_root
        /\ \/ c.graph = a.graph /\ AllRuns(c) = AllRuns(a)
           \/ c.graph = b.graph /\ c.revision = b.revision /\ AllRuns(c) = AllRuns(b)
    BY <1>11, TickIs
  <2>2. CASE c.graph = a.graph /\ AllRuns(c) = AllRuns(a)
    BY <2>1, <2>2 DEF MainGraph, NotMain, HeldByMain
  <2>3. CASE c.graph = b.graph /\ c.revision = b.revision /\ AllRuns(c) = AllRuns(b)
    <3>1. MainGraph(c, None) = MainGraph(b, None)
      BY <1>1, <2>1, <2>3 DEF MainGraph, NotMain, HeldByMain
    <3> QED  BY <1>3, <2>3, <3>1 DEF Tells
  <2> QED  BY <2>1, <2>2, <2>3
<1>12. ASSUME TickFails  PROVE Tells(b, c)
  BY <1>4, <1>12 DEF TickFails
<1> QED  BY <1>3, <1>5, <1>6, <1>8, <1>9, <1>10, <1>11, <1>12 DEF Next

\* The revision tells the main behaviors apart (behavior.rs, revise_since): two
\* reads that answer one revision, across a step of whoever, answer one graph, when
\* pruning is not refused and no respawn strands a node.
THEOREM RevisionIsKept ==
    Spec /\ []PruningSucceeds /\ []StrandsNone => RevisionTells
<1>1. ASSUME ScaffoldInv, PruningSucceeds, StrandsNone, [Next]_vars
      PROVE  [bt'.revision = bt.revision => MainGraph(bt', None) = MainGraph(bt, None)]_vars
  <2>1. CASE Next
    BY <1>1, <2>1, NextTells DEF ScaffoldInv
  <2>2. CASE UNCHANGED vars
    BY <2>2
  <2> QED  BY <1>1, <2>1, <2>2
<1> QED  BY <1>1, Invariant, PTL DEF Spec, RevisionTells

------------------------------------------------------------------------------
(* Runs stay put *)

\* No node but the runner has a decorator as its child, and no run's detached
\* node is another run's.
RunsApart(b) ==
    /\ \A y \in DOMAIN b.graph \ {Runner} : b.graph[y].kids \cap DOMAIN AllRuns(b) = {}
    /\ \A d, e \in DOMAIN AllRuns(b) :
          d # e => AllRuns(b)[d] \cap NodesOf(b.graph, e, AllRuns(b)[e]) = {}

\* The nodes of the live run d that the main behavior does not hold.
Kept(b, d) == (NodesOf(b.graph, d, b.runs[d]) \cap DOMAIN b.graph) \ HeldByMain(b)

\* From a to c the nodes own stay where they are, and as they are but for a
\* binding that reads a node which is not among them.
StaysPut(a, c, own) ==
    \A x \in own :
        /\ x \in DOMAIN c.graph
        /\ \/ c.graph[x] = a.graph[x] /\ (x \in c.fresh => x \in a.fresh)
           \/ /\ a.graph[x].bind \notin own
              /\ c.graph[x] = [a.graph[x] EXCEPT !.bind = Unbound]

\* A node that differs from another in being unbound is the other, unbound.
LEMMA UnboundIs ==
    ASSUME NEW m \in Node, NEW n \in Node, n.kids = m.kids, n.call = m.call, n.bind = Unbound
    PROVE  n = [m EXCEPT !.bind = Unbound]
BY DEF Node

\* Nodes that stay put in two changes stay put in both.
LEMMA StaysPutTwice ==
    ASSUME NEW a, Typed(a), NEW b, NEW c, NEW own \in SUBSET DOMAIN a.graph, NEW more,
           StaysPut(a, b, own), StaysPut(b, c, more), own \subseteq more
    PROVE  StaysPut(a, c, own)
<1> SUFFICES ASSUME NEW x \in own
             PROVE  /\ x \in DOMAIN c.graph
                    /\ \/ c.graph[x] = a.graph[x] /\ (x \in c.fresh => x \in a.fresh)
                       \/ /\ a.graph[x].bind \notin own
                          /\ c.graph[x] = [a.graph[x] EXCEPT !.bind = Unbound]
  BY Zenon DEF StaysPut
<1> PICK m : m = a.graph[x]
  OBVIOUS
<1>1. m \in Node
  BY DEF Typed, IsNodes
<1>2. [[m EXCEPT !.bind = Unbound] EXCEPT !.bind = Unbound] = [m EXCEPT !.bind = Unbound]
  BY <1>1 DEF Node
<1>3. \/ b.graph[x] = m /\ (x \in b.fresh => x \in a.fresh)
      \/ m.bind \notin own /\ b.graph[x] = [m EXCEPT !.bind = Unbound]
  BY DEF StaysPut
<1>4. /\ x \in DOMAIN c.graph
      /\ \/ c.graph[x] = b.graph[x] /\ (x \in c.fresh => x \in b.fresh)
         \/ b.graph[x].bind \notin more /\ c.graph[x] = [b.graph[x] EXCEPT !.bind = Unbound]
  BY DEF StaysPut
<1>5. CASE b.graph[x] = m /\ (x \in b.fresh => x \in a.fresh)
  BY <1>4, <1>5
<1>6. CASE m.bind \notin own /\ b.graph[x] = [m EXCEPT !.bind = Unbound]
  BY <1>2, <1>4, <1>6
<1> QED  BY <1>3, <1>5, <1>6

\* Nodes a diff does not name stay put when it is applied.
LEMMA DiffStays ==
    ASSUME NEW a, Typed(a), NEW d, Sane(d), NEW c, IsApplied(a.graph, d, c.graph),
           c.fresh \subseteq a.fresh \cup Changed(a.graph, d),
           NEW own \in SUBSET DOMAIN a.graph,
           own \cap (d.remove \cup DOMAIN d.set \cup d.unbind \cup DOMAIN d.bind) = {}
    PROVE  StaysPut(a, c, own)
<1> SUFFICES ASSUME NEW x \in own
             PROVE  /\ x \in DOMAIN c.graph
                    /\ \/ c.graph[x] = a.graph[x] /\ (x \in c.fresh => x \in a.fresh)
                       \/ /\ a.graph[x].bind \notin own
                          /\ c.graph[x] = [a.graph[x] EXCEPT !.bind = Unbound]
  BY Zenon DEF StaysPut
<1> PICK m, n : m = a.graph[x] /\ n = c.graph[x]
  OBVIOUS
<1>1. x \in DOMAIN c.graph
  BY DEF IsApplied
<1>2. m \in Node /\ n \in Node
  BY <1>1 DEF IsApplied, Typed, IsNodes
<1>3. /\ n.kids = m.kids /\ n.call = m.call
      /\ n.bind = IF m.bind \in d.remove THEN Unbound ELSE m.bind
  BY <1>1 DEF IsApplied
<1>4. CASE m.bind \in d.remove
  <2>1. n = [m EXCEPT !.bind = Unbound]
    BY <1>2, <1>3, <1>4, UnboundIs
  <2> QED  BY <1>1, <1>4, <2>1
<1>5. CASE m.bind \notin d.remove
  <2>1. n = m
    BY <1>2, <1>3, <1>5 DEF Node
  <2>2. x \notin Changed(a.graph, d)
    BY <1>5 DEF Changed
  <2> QED  BY <1>1, <2>1, <2>2
<1> QED  BY <1>4, <1>5

\* A run's decorator, and its detached nodes, are not another run's nodes.
LEMMA ApartIs ==
    ASSUME NEW b, Typed(b), Standing(b), RunsApart(b),
           NEW d \in DOMAIN AllRuns(b), NEW e \in DOMAIN AllRuns(b), d # e
    PROVE  /\ d \notin NodesOf(b.graph, e, AllRuns(b)[e])
           /\ AllRuns(b)[d] \cap NodesOf(b.graph, e, AllRuns(b)[e]) = {}
<1>1. /\ KidsKnown(b.graph) /\ {e} \in SUBSET AllIds
      /\ d \in FreshIds /\ AllRuns(b)[e] \subseteq Ids
      /\ Reach(b.graph, {e}) \subseteq DOMAIN b.graph \ {Runner}
  BY TypedKids, RunWithoutRunner DEF Typed, AllIds
<1> PICK R, C : R = Reach(b.graph, {e}) /\ C = R \ {d}
  OBVIOUS
<1>2. {e} \subseteq C /\ Closed(b.graph, C)
  <2>1. e \in R /\ Closed(b.graph, R) /\ R \subseteq DOMAIN b.graph \ {Runner}
    BY <1>1, ReachHolds
  <2>2. \A y \in R : d \notin b.graph[y].kids
    BY <2>1 DEF RunsApart
  <2> QED  BY <2>1, <2>2 DEF Closed
<1>3. R \subseteq C
  BY <1>1, <1>2, ReachLeast
<1>4. d \notin AllRuns(b)[e]
  BY <1>1, ScaffoldAssumption
<1> QED  BY <1>3, <1>4 DEF NodesOf, RunsApart

\* What stays when leaving goes: what each node that stays holds, and the main
\* behavior.
LEMMA OutsideHolds ==
    ASSUME NEW b, Typed(b), NEW leaving
    PROVE  /\ HeldByMain(b) \subseteq HeldOutside(b, leaving)
           /\ \A d \in DOMAIN b.graph \ (leaving \cup {Runner}) :
                 Reach(b.graph, {d}) \subseteq HeldOutside(b, leaving)
<1> PICK M, S : /\ M = {b.main_root} \ {NoRoot}
                /\ S = (DOMAIN b.graph \ (leaving \cup {Runner})) \cup M
  OBVIOUS
<1>1. KidsKnown(b.graph) /\ S \in SUBSET AllIds /\ M \in SUBSET AllIds /\ M \subseteq S
  BY TypedKids DEF Typed, AllIds, IsNodes
<1> PICK H : H = Reach(b.graph, S)
  OBVIOUS
<1>2. S \subseteq H /\ Closed(b.graph, H)
  BY <1>1, ReachHolds
<1>3. H = HeldOutside(b, leaving)
  BY Zenon DEF HeldOutside
<1>4. HeldByMain(b) \subseteq H
  <2>1. Reach(b.graph, M) \subseteq H
    BY <1>1, <1>2, ReachLeast
  <2> QED  BY <2>1 DEF HeldByMain
<1>5. ASSUME NEW d \in DOMAIN b.graph \ (leaving \cup {Runner})
      PROVE  Reach(b.graph, {d}) \subseteq H
  <2>1. {d} \subseteq S
    OBVIOUS
  <2>2. {d} \in SUBSET AllIds /\ {d} \subseteq H
    BY <1>1, <1>2, <2>1
  <2> QED  BY <1>1, <1>2, <2>2, ReachLeast
<1> QED  BY <1>3, <1>4, <1>5

\* prune restarts what it changes, and no more.
LEMMA PrunedFresh ==
    ASSUME NEW b, Typed(b), NEW gone, NEW p, p = Pruned(b, gone)
    PROVE  \/ p = b
           \/ /\ p.graph = ApplyDiff(b.graph, PruneDiff(b, gone))
              /\ p.fresh = b.fresh \cup Changed(b.graph, PruneDiff(b, gone))
<1> PICK d, c : d = PruneDiff(b, gone) /\ c = Edited(b, d)
  OBVIOUS
<1>1. Typed(c)
  BY PruneDiffIs, EditedTyped
<1>2. c.graph = ApplyDiff(b.graph, d) /\ c.fresh = b.fresh \cup Changed(b.graph, d)
  BY EditedIs DEF Typed
<1>3. p = b \/ p = Revised(c, MainGraph(b, gone))
  BY DEF Pruned
<1>4. ASSUME p = Revised(c, MainGraph(b, gone))
      PROVE  p.graph = c.graph /\ p.fresh = c.fresh
  BY <1>1, <1>4, RevisedIs
<1> QED  BY <1>2, <1>3, <1>4

\* Pruning other runs leaves a live run d where it is, its nodes with it.
LEMMA PruneStays ==
    ASSUME NEW a, Typed(a), Standing(a), RunsApart(a),
           NEW b, Typed(b), b.graph = a.graph, b.main_root = a.main_root, b.fresh = a.fresh,
           NEW gone, DOMAIN gone \subseteq DOMAIN AllRuns(a),
           \A e \in DOMAIN gone : gone[e] = AllRuns(a)[e],
           NEW d \in DOMAIN a.runs \ DOMAIN gone,
           NEW p, p = Pruned(b, gone), p.runs[d] = a.runs[d]
    PROVE  StaysPut(a, p, Kept(a, d)) /\ Kept(a, d) \subseteq Kept(p, d)
<1>1. CASE p = b
  <2>1. Kept(p, d) = Kept(a, d)
    BY <1>1 DEF Kept, HeldByMain
  <2> QED  BY <1>1, <2>1 DEF StaysPut, Kept
<1>2. CASE /\ p.graph = ApplyDiff(b.graph, PruneDiff(b, gone))
           /\ p.fresh = b.fresh \cup Changed(b.graph, PruneDiff(b, gone))
  <2> PICK diff, leaving, own, M : /\ diff = PruneDiff(b, gone)
                                   /\ leaving = HeldByRuns(b.graph, gone)
                                   /\ own = Kept(a, d)
                                   /\ M = {a.main_root} \ {NoRoot}
    OBVIOUS
  <2>1. /\ Sane(diff) /\ diff.remove = leaving \ HeldOutside(b, leaving)
        /\ DOMAIN diff.set = {Runner} /\ diff.unbind = {} /\ DOMAIN diff.bind = {}
    BY PruneDiffIs
  <2>2. IsApplied(a.graph, diff, p.graph)
    BY <1>2, <2>1, AppliedNodes DEF Typed
  <2>3. d \in DOMAIN AllRuns(a) /\ AllRuns(a)[d] = a.runs[d]
    BY AllRunsIs
  <2>4. /\ d \in FreshIds /\ d \in DOMAIN a.graph /\ a.runs[d] \subseteq Ids
        /\ Reach(a.graph, {d}) \subseteq DOMAIN a.graph \ {Runner}
    BY <2>3, RunWithoutRunner
  <2>5. d \notin leaving /\ a.runs[d] \cap leaving = {}
    <3>1. ASSUME NEW e \in DOMAIN gone
          PROVE  /\ d \notin Reach(b.graph, {e}) \cup gone[e]
                 /\ a.runs[d] \cap (Reach(b.graph, {e}) \cup gone[e]) = {}
      BY <2>3, ApartIs DEF NodesOf
    <3> QED  BY <3>1, HeldByRunsIs
  <2>6. Reach(a.graph, {d}) \subseteq HeldOutside(b, leaving)
    BY <2>4, <2>5, ScaffoldAssumption, OutsideHolds
  <2>7. HeldByMain(a) \subseteq HeldOutside(b, leaving) /\ HeldByMain(a) = HeldByMain(b)
    BY OutsideHolds DEF HeldByMain
  <2>8. own \subseteq DOMAIN a.graph \ {Runner} /\ own \cap diff.remove = {}
    BY <2>1, <2>4, <2>5, <2>6, ScaffoldAssumption DEF Kept, NodesOf
  <2>9. StaysPut(a, p, own)
    BY <1>2, <2>1, <2>2, <2>8, DiffStays
  <2>10. KidsKnown(a.graph) /\ KidsKnown(p.graph) /\ {d} \in SUBSET AllIds /\ M \in SUBSET AllIds
    BY <2>2, <2>4, TypedKids DEF Typed, IsApplied, AllIds
  <2>11. ASSUME NEW x \in AllIds, x # Runner, x \notin diff.remove
         PROVE  /\ x \in DOMAIN a.graph <=> x \in DOMAIN p.graph
                /\ x \in DOMAIN a.graph => a.graph[x].kids = p.graph[x].kids
    BY <2>1, <2>2, <2>11 DEF IsApplied
  <2>12. Reach(p.graph, {d}) = Reach(a.graph, {d})
    <3>1. Reach(a.graph, {d}) \subseteq AllIds
      BY <2>10, ReachHolds
    <3>2. \A x \in Reach(a.graph, {d}) : x # Runner /\ x \notin diff.remove
      BY <2>1, <2>4, <2>6
    <3>3. \A x \in Reach(a.graph, {d}) :
             /\ x \in DOMAIN a.graph <=> x \in DOMAIN p.graph
             /\ x \in DOMAIN a.graph => a.graph[x].kids = p.graph[x].kids
      BY <2>11, <3>1, <3>2
    <3> QED  BY <2>10, <3>3, ReachAgrees
  <2>13. HeldByMain(p) = HeldByMain(a)
    <3> PICK R : R = Reach(a.graph, M)
      OBVIOUS
    <3>1. R = HeldByMain(a)
      BY DEF HeldByMain
    <3>2. R \subseteq AllIds
      BY <2>10, ReachHolds
    <3>3. R \subseteq DOMAIN a.graph \ {Runner}
      BY UnderRunner DEF Standing, RunnerHolds, Typed
    <3>4. \A x \in R : x # Runner /\ x \notin diff.remove
      BY <2>1, <2>7, <3>1, <3>3
    <3>5. \A x \in Reach(a.graph, M) :
             /\ x \in DOMAIN a.graph <=> x \in DOMAIN p.graph
             /\ x \in DOMAIN a.graph => a.graph[x].kids = p.graph[x].kids
      BY <2>11, <3>2, <3>4
    <3>6. Reach(p.graph, M) = R
      BY <2>10, <3>5, ReachAgrees
    <3>7. p.main_root = a.main_root
      BY PrunedIs
    <3> QED  BY <3>1, <3>6, <3>7 DEF HeldByMain
  <2>14. own \subseteq Kept(p, d)
    BY <2>8, <2>9, <2>12, <2>13 DEF Kept, NodesOf, StaysPut
  <2> QED  BY <2>9, <2>14
<1> QED  BY <1>1, <1>2, PrunedFresh

\* Pruning the finished runs leaves the live ones where they are, and apart.
LEMMA PruneFinishedStays ==
    ASSUME NEW a, Typed(a), Standing(a), RunsApart(a), NEW p, p = PruneFinished(a)
    PROVE  /\ RunsApart(p)
           /\ \A d \in DOMAIN a.runs :
                 StaysPut(a, p, Kept(a, d)) /\ Kept(a, d) \subseteq Kept(p, d)
<1> PICK b, gone : b = Swept(a) /\ gone = a.finished
  OBVIOUS
<1>1. Typed(b) /\ b.graph = a.graph /\ b.main_root = a.main_root /\ b.fresh = a.fresh
  BY SweptIs
<1>2. Typed(p) /\ p.runs = a.runs /\ p.finished = None /\ p = Pruned(b, gone)
  BY PruneFinishedIs DEF PruneFinished
<1>3. /\ DOMAIN AllRuns(a) = DOMAIN a.runs \cup DOMAIN gone
      /\ \A d \in DOMAIN a.runs : AllRuns(a)[d] = a.runs[d]
      /\ \A d \in DOMAIN gone : AllRuns(a)[d] = gone[d] /\ d \notin DOMAIN a.runs
  BY AllRunsIs DEF Typed
<1>4. ASSUME NEW d \in DOMAIN a.runs
      PROVE  StaysPut(a, p, Kept(a, d)) /\ Kept(a, d) \subseteq Kept(p, d)
  BY <1>1, <1>2, <1>3, PruneStays
<1>5. /\ DOMAIN AllRuns(p) = DOMAIN a.runs
      /\ \A d \in DOMAIN a.runs : AllRuns(p)[d] = a.runs[d]
  <2>1. DOMAIN p.finished = {}
    BY <1>2 DEF None
  <2>2. /\ DOMAIN AllRuns(p) = DOMAIN p.runs \cup DOMAIN p.finished
        /\ \A d \in DOMAIN p.runs : AllRuns(p)[d] = p.runs[d]
    BY AllRunsIs
  <2> QED  BY <1>2, <2>1, <2>2
<1>6. /\ Runner \in DOMAIN a.graph
      /\ DOMAIN p.graph \subseteq DOMAIN a.graph
      /\ \A x \in DOMAIN p.graph \ {Runner} : p.graph[x].kids = a.graph[x].kids
  <2>1. Runner \in DOMAIN a.graph
    BY DEF Standing, RunnerHolds
  <2> QED  BY <2>1, PruneFinishedShrinks
<1>7. ASSUME NEW e \in DOMAIN a.runs  PROVE Reach(p.graph, {e}) \subseteq Reach(a.graph, {e})
  <2> PICK R : R = Reach(a.graph, {e})
    OBVIOUS
  <2>1. KidsKnown(a.graph) /\ KidsKnown(p.graph) /\ {e} \in SUBSET AllIds
    BY <1>2, TypedKids DEF Typed, IsRuns, AllIds
  <2>2. {e} \subseteq R /\ Closed(a.graph, R)
    BY <2>1, ReachHolds
  <2>3. R \subseteq DOMAIN a.graph \ {Runner}
    BY <1>3, RunWithoutRunner
  <2>4. Closed(p.graph, R)
    BY <1>6, <2>2, <2>3 DEF Closed
  <2> QED  BY <2>1, <2>2, <2>4, ReachLeast
<1>8. RunsApart(p)
  <2>1. \A y \in DOMAIN p.graph \ {Runner} : p.graph[y].kids \cap DOMAIN AllRuns(p) = {}
    BY <1>3, <1>5, <1>6 DEF RunsApart
  <2>2. ASSUME NEW d \in DOMAIN a.runs, NEW e \in DOMAIN a.runs, d # e
        PROVE  AllRuns(p)[d] \cap NodesOf(p.graph, e, AllRuns(p)[e]) = {}
    <3>1. AllRuns(a)[d] \cap NodesOf(a.graph, e, AllRuns(a)[e]) = {}
      BY <1>3, <2>2 DEF RunsApart
    <3> QED  BY <1>3, <1>5, <1>7, <3>1 DEF NodesOf
  <2> QED  BY <1>5, <2>1, <2>2 DEF RunsApart
<1> QED  BY <1>4, <1>8

\* A graft leaves every run where it is.
LEMMA GraftStays ==
    ASSUME NEW b, Typed(b), Standing(b), b.finished = None,
           NEW d, NEW root, NEW nodes, NEW detached,
           Grafts(b, d, root, nodes, detached), NEW c, c = bt',
           NEW e \in DOMAIN b.runs
    PROVE  StaysPut(b, c, Kept(b, e))
<1>1. /\ \A x \in DOMAIN b.graph \ {Runner} : x \in DOMAIN c.graph /\ c.graph[x] = b.graph[x]
      /\ c.fresh = b.fresh \cup {d, Runner} \cup DOMAIN nodes
  BY GraftIs
<1>2. DOMAIN nodes \cap DOMAIN b.graph = {} /\ d \notin DOMAIN b.graph
  BY DEF Grafts
<1>3. Kept(b, e) \subseteq DOMAIN b.graph \ {Runner}
  <2>1. e \in DOMAIN AllRuns(b) /\ AllRuns(b)[e] = b.runs[e]
    BY AllRunsIs
  <2>2. Runner \notin NodesOf(b.graph, e, AllRuns(b)[e])
    BY <2>1, RunWithoutRunner
  <2> QED  BY <2>1, <2>2 DEF Kept
<1> QED  BY <1>1, <1>2, <1>3 DEF StaysPut

\* A respawn leaves every run but its own where it is.
LEMMA RespawnStays ==
    ASSUME NEW b, Typed(b), Standing(b), RunsApart(b), NEW g \in Fragments,
           NEW d \in DOMAIN b.runs, NEW c, IsRespawned(b, d, g, c),
           NEW e \in DOMAIN b.runs \ {d}
    PROVE  StaysPut(b, c, Kept(b, e))
<1> PICK diff, own : diff = RespawnDiff(b, d, g) /\ own = Kept(b, e)
  OBVIOUS
<1>1. /\ Sane(diff)
      /\ diff.remove = Own(b, d) \ DOMAIN g.nodes
      /\ DOMAIN diff.set \subseteq DOMAIN g.nodes
      /\ diff.unbind \cup DOMAIN diff.bind \subseteq Own(b, d) \cap DOMAIN g.nodes
  BY RespawnDiffIs, ScaffoldAssumption
<1>2. /\ {d, e} \subseteq DOMAIN AllRuns(b)
      /\ AllRuns(b)[d] = b.runs[d] /\ AllRuns(b)[e] = b.runs[e]
  BY AllRunsIs
<1>3. /\ e \in FreshIds /\ e \in DOMAIN b.graph
      /\ Runner \notin NodesOf(b.graph, e, AllRuns(b)[e])
  BY <1>2, RunWithoutRunner
<1>4. /\ e \notin NodesOf(b.graph, d, AllRuns(b)[d])
      /\ AllRuns(b)[e] \cap NodesOf(b.graph, d, AllRuns(b)[d]) = {}
  BY <1>2, ApartIs
<1>5. e \notin Held(b, d) \cup {d} /\ b.runs[e] \cap Held(b, d) = {}
  BY <1>2, <1>4 DEF Held
<1>6. Reach(b.graph, {e}) \subseteq Staying(b, d)
  <2>1. e \in DOMAIN b.graph \ ((Held(b, d) \cup {d}) \cup {Runner})
    BY <1>3, <1>5, ScaffoldAssumption
  <2> QED  BY <2>1, OutsideHolds DEF Staying
<1>7. own \cap (Own(b, d) \cup DOMAIN g.nodes) = {}
  BY <1>5, <1>6 DEF Own, IsRespawned, Kept, NodesOf
<1>8. own \in SUBSET DOMAIN b.graph
  BY DEF Kept
<1>9. IsApplied(b.graph, diff, c.graph) /\ c.fresh \subseteq b.fresh \cup Changed(b.graph, diff)
  BY DEF IsRespawned
<1> QED  BY <1>1, <1>7, <1>8, <1>9, DiffStays

\* A load leaves every run where it is: what is the run's own keeps its way to
\* the run's decorator, since no node of the new main behavior lies on it.
LEMMA LoadStays ==
    ASSUME NEW b, Typed(b), Standing(b), b.finished = None, NEW g \in Behaviors,
           DOMAIN g.nodes \cap NotMain(b, None) = {},
           NEW rooted, rooted = Rooted(b, g.root), NEW d, d = LoadDiff(b, g),
           NEW c, c = Advanced(Edited(rooted, d)), NEW e \in DOMAIN b.runs
    PROVE  StaysPut(b, c, Kept(b, e))
<1>1. /\ IsGraph(g) /\ g.root \in Ids \cup {NoRoot} /\ IsNodes(g.nodes, AllIds)
      /\ Runner \notin DOMAIN g.nodes
  BY ScaffoldAssumption, WiderNodes DEF IsGraph
<1> PICK after, own : after = After(b, g) /\ own = Kept(b, e)
  OBVIOUS
<1>2. /\ IsNodes(after, AllIds)
      /\ DOMAIN after = DOMAIN b.graph \cup DOMAIN g.nodes
      /\ \A x \in DOMAIN b.graph \ DOMAIN g.nodes : after[x].kids = b.graph[x].kids
  <2> PICK s : s = [NoDiff EXCEPT !.set = g.nodes]
    OBVIOUS
  <2>1. s = [remove |-> {}, set |-> g.nodes, unbind |-> {}, bind |-> None, root |-> NoRoot]
    BY DEF NoDiff
  <2>2. Sane(s) /\ s.remove = {} /\ s.set = g.nodes
    BY <1>1, <2>1 DEF Sane, None
  <2>3. IsApplied(b.graph, s, after)
    BY <2>2, AppliedNodes DEF After, Typed
  <2> QED  BY <2>2, <2>3 DEF IsApplied
<1>3. /\ Sane(d)
      /\ d.remove = DOMAIN b.graph \ ({Runner} \cup HeldByRuns(after, AllRuns(b)))
      /\ DOMAIN d.set = {Runner} \cup DOMAIN g.nodes
      /\ d.unbind = {} /\ DOMAIN d.bind = {}
  BY <1>1, LoadDiffIs
<1>4. /\ IsApplied(b.graph, d, c.graph)
      /\ c.fresh = b.fresh \cup Changed(b.graph, d)
  <2>1. Typed(rooted) /\ rooted.graph = b.graph /\ rooted.fresh = b.fresh
    BY <1>1, WithMainRoot
  <2> PICK f : f = Edited(rooted, d)
    OBVIOUS
  <2>2. Typed(f) /\ f.graph = ApplyDiff(b.graph, d) /\ f.fresh = b.fresh \cup Changed(b.graph, d)
    BY <1>3, <2>1, EditedTyped, EditedIs DEF Typed
  <2>3. c.graph = f.graph /\ c.fresh = f.fresh
    BY <2>2, AdvancedIs
  <2> QED  BY <1>3, <2>2, <2>3, AppliedNodes DEF Typed
<1>5. e \in DOMAIN AllRuns(b) /\ AllRuns(b)[e] = b.runs[e]
  BY AllRunsIs
<1>6. /\ e \in FreshIds
      /\ Reach(b.graph, {e}) \subseteq DOMAIN b.graph \ {Runner}
      /\ Runner \notin NodesOf(b.graph, e, AllRuns(b)[e])
  BY <1>5, RunWithoutRunner
<1>7. \A x \in NodesOf(b.graph, e, b.runs[e]) : x \in HeldByMain(b) \/ x \in NotMain(b, None)
  <2>1. \A x \in NodesOf(b.graph, e, b.runs[e]) : x \in HeldByRuns(b.graph, AllRuns(b))
    BY <1>5, HeldByRunsIs DEF NodesOf
  <2> QED  BY <2>1, AllRunsOver DEF NotMain
<1> PICK O, A, M, C : /\ O = Reach(b.graph, {e}) /\ A = Reach(after, {e})
                      /\ M = HeldByMain(b) /\ C = (A \cap O) \cup M
  OBVIOUS
<1>8. /\ KidsKnown(b.graph) /\ KidsKnown(after) /\ {e} \in SUBSET AllIds
      /\ ({b.main_root} \ {NoRoot}) \in SUBSET AllIds
  BY <1>2, <1>6, TypedKids DEF Typed, AllIds
<1>9. O \subseteq C
  <2>1. /\ {e} \subseteq O /\ Closed(b.graph, O) /\ {e} \subseteq A /\ Closed(after, A)
        /\ Closed(b.graph, M)
    BY <1>8, ReachHolds DEF HeldByMain
  <2>2. ASSUME NEW y \in C \cap DOMAIN b.graph  PROVE b.graph[y].kids \subseteq C
    <3>1. CASE y \in M
      BY <2>1, <3>1 DEF Closed
    <3>2. CASE y \notin M
      <4>1. y \in A /\ y \in O
        BY <3>2
      <4>2. y \notin DOMAIN g.nodes
        BY <1>7, <3>2, <4>1 DEF NodesOf
      <4>3. after[y].kids = b.graph[y].kids /\ y \in DOMAIN after
        BY <1>2, <4>2
      <4> QED  BY <2>1, <4>1, <4>3 DEF Closed
    <3> QED  BY <3>1, <3>2
  <2>3. Closed(b.graph, C) /\ {e} \subseteq C
    BY <2>1, <2>2 DEF Closed
  <2> QED  BY <1>8, <2>3, ReachLeast
<1>10. own \subseteq DOMAIN b.graph \ {Runner}
  BY <1>5, <1>6 DEF Kept
<1>11. own \cap DOMAIN g.nodes = {}
  BY <1>7 DEF Kept
<1>12. own \cap d.remove = {}
  <2>1. \A x \in own : x \in A \/ x \in b.runs[e]
    BY <1>9 DEF Kept, NodesOf
  <2>2. \A x \in own : x \in HeldByRuns(after, AllRuns(b))
    BY <1>5, <2>1, HeldByRunsIs
  <2> QED  BY <1>3, <2>2
<1>13. own \cap (d.remove \cup DOMAIN d.set \cup d.unbind \cup DOMAIN d.bind) = {}
  BY <1>3, <1>10, <1>11, <1>12
<1>14. own \in SUBSET DOMAIN b.graph /\ c.fresh \subseteq b.fresh \cup Changed(b.graph, d)
  BY <1>4, <1>10
<1> QED  BY <1>3, <1>4, <1>13, <1>14, DiffStays

\* A halt leaves every other run where it is.
LEMMA HaltStays ==
    ASSUME Typed(bt), Standing(bt), RunsApart(bt), NEW e, Halt(e), NEW p, p = bt',
           NEW d \in DOMAIN bt.runs \ {e}
    PROVE  StaysPut(bt, p, Kept(bt, d))
<1> PICK b, gone : b = Dropped(bt, e) /\ gone = Restrict(bt.runs, {e})
  OBVIOUS
<1>1. e \in DOMAIN bt.runs /\ p = Pruned(b, gone)
  BY DEF Halt, Dropped
<1>2. /\ Typed(b) /\ b.graph = bt.graph /\ b.main_root = bt.main_root /\ b.fresh = bt.fresh
      /\ DOMAIN b.runs = DOMAIN bt.runs \ {e}
      /\ \A f \in DOMAIN b.runs : b.runs[f] = bt.runs[f]
      /\ DOMAIN gone = {e} /\ gone[e] = bt.runs[e]
  BY <1>1, DroppedIs DEF IsDropped
<1>3. /\ DOMAIN gone \subseteq DOMAIN AllRuns(bt)
      /\ \A f \in DOMAIN gone : gone[f] = AllRuns(bt)[f]
  <2>1. e \in DOMAIN AllRuns(bt) /\ AllRuns(bt)[e] = bt.runs[e]
    BY <1>1, AllRunsIs
  <2> QED  BY <1>2, <2>1
<1>4. p.runs = b.runs
  BY <1>1, <1>2, PrunedIs
<1>5. p.runs[d] = bt.runs[d] /\ d \in DOMAIN bt.runs \ DOMAIN gone
  BY <1>2, <1>4
<1>6. StaysPut(bt, p, Kept(bt, d)) /\ Kept(bt, d) \subseteq Kept(p, d)
  BY <1>1, <1>2, <1>3, <1>5, PruneStays
<1> QED  BY <1>6

\* Every step but an edit leaves every run but the one it is about where it is.
LEMMA NextStays ==
    ASSUME Typed(bt), Standing(bt), RunsApart(bt), Next, told'.op # "edit",
           NEW c, c = bt', NEW e \in DOMAIN bt.runs \cap DOMAIN AllRuns(c),
           told'.decorator # e
    PROVE  StaysPut(bt, c, Kept(bt, e))
<1> PICK a, b : a = bt /\ b = PruneFinished(bt)
  OBVIOUS
<1>1. /\ Typed(a) /\ Typed(b) /\ Standing(b) /\ b.finished = None /\ b.runs = a.runs
      /\ RunsApart(b)
      /\ StaysPut(a, b, Kept(a, e)) /\ Kept(a, e) \subseteq Kept(b, e)
      /\ e \in DOMAIN b.runs
  BY PruneFinishedIs, PruneFinishedStands, PruneFinishedStays
<1>2. ASSUME StaysPut(b, c, Kept(b, e))  PROVE StaysPut(a, c, Kept(a, e))
  <2>1. Kept(a, e) \in SUBSET DOMAIN a.graph
    BY DEF Kept
  <2> QED  BY <1>1, <1>2, <2>1, StaysPutTwice
<1>3. ASSUME bt' = PruneFinished(bt)  PROVE StaysPut(a, c, Kept(a, e))
  BY <1>1, <1>3
<1>4. ASSUME NEW g \in Behaviors, Load(g)  PROVE StaysPut(a, c, Kept(a, e))
  <2> PICK rooted, d : rooted = Rooted(b, g.root) /\ d = LoadDiff(b, g)
    OBVIOUS
  <2>1. \/ DOMAIN g.nodes \cap NotMain(b, None) = {} /\ c = Advanced(Edited(rooted, d))
        \/ bt' = PruneFinished(bt)
    BY <1>4, Zenon DEF Load, Answer, Rooted
  <2> QED  BY <1>1, <1>2, <1>3, <2>1, LoadStays
<1>5. ASSUME NEW d \in Edits, Apply(d)  PROVE StaysPut(a, c, Kept(a, e))
  <2>1. bt' = PruneFinished(bt) \/ told' = Told("edit", Runner, None)
    BY <1>5, Zenon DEF Apply, Answer
  <2> QED  BY <1>3, <2>1 DEF Told
<1>6. ASSUME NEW d, NEW root, NEW nodes, NEW detached, Grafts(b, d, root, nodes, detached)
      PROVE  StaysPut(a, c, Kept(a, e))
  BY <1>1, <1>2, <1>6, GraftStays
<1>7. ASSUME SpawnCall  PROVE StaysPut(a, c, Kept(a, e))
  BY <1>3, <1>6, <1>7, SpawnCallIs DEF Refused
<1>8. ASSUME NEW g \in Fragments, SpawnGraph(g)  PROVE StaysPut(a, c, Kept(a, e))
  <2>1. ASSUME NEW d, Respawns(b, d, g)  PROVE StaysPut(a, c, Kept(a, e))
    <3>1. Refused \/ IsRespawned(b, d, g, c)
      BY <2>1, RespawnIs
    <3>2. ASSUME IsRespawned(b, d, g, c)  PROVE d \in DOMAIN b.runs /\ e \in DOMAIN b.runs \ {d}
      BY <1>1, <2>1, <3>2 DEF Respawns, IsRespawned, Told
    <3> QED  BY <1>1, <1>2, <1>3, <3>1, <3>2, RespawnStays DEF Refused
  <2> QED  BY <1>3, <1>6, <1>8, <2>1, SpawnGraphIs DEF Refused
<1>9. ASSUME NEW d \in FreshIds, Halt(d)  PROVE StaysPut(a, c, Kept(a, e))
  <2> PICK x, gone : x = Dropped(bt, d) /\ gone = Restrict(bt.runs, {d})
    OBVIOUS
  <2>1. d \in DOMAIN bt.runs /\ c = Pruned(x, gone)
    BY <1>9 DEF Halt, Dropped
  <2>2. Typed(x) /\ DOMAIN x.runs = DOMAIN bt.runs \ {d} /\ x.finished = bt.finished
    BY <2>1, DroppedIs DEF IsDropped
  <2>3. c.runs = x.runs /\ c.finished = x.finished
    BY <2>1, <2>2, PrunedIs
  <2>4. e # d
    <3>1. DOMAIN AllRuns(c) = DOMAIN c.runs \cup DOMAIN c.finished
      BY AllRunsIs
    <3> QED  BY <2>1, <2>2, <2>3, <3>1 DEF Typed
  <2> QED  BY <1>9, <2>4, HaltStays
<1>10. ASSUME Tick  PROVE StaysPut(a, c, Kept(a, e))
  <2>1. \/ c.graph = a.graph /\ c.fresh = a.fresh
        \/ c.graph = b.graph /\ c.fresh = {}
    BY <1>10, TickIs
  <2>2. CASE c.graph = a.graph /\ c.fresh = a.fresh
    BY <2>2 DEF StaysPut, Kept
  <2>3. CASE c.graph = b.graph /\ c.fresh = {}
    BY <1>1, <2>3 DEF StaysPut
  <2> QED  BY <2>1, <2>2, <2>3
<1>11. ASSUME TickFails  PROVE StaysPut(a, c, Kept(a, e))
  BY <1>3, <1>11 DEF TickFails
<1>12. StaysPut(a, c, Kept(a, e))
  BY <1>4, <1>5, <1>7, <1>8, <1>9, <1>10, <1>11 DEF Next
<1> QED  BY <1>12

\* The scaffold's runs are apart.
Apart == RunsApart(bt)

\* Changing one run, halting one, pruning those that finished or loading a main
\* behavior leaves every other run where it was, its nodes as they were but for a
\* binding that reads another's node, as long as clients' edits keep the runs
\* apart (behavior.rs, load, spawn_graph, respawn, prune and halt).
THEOREM RunsKeepTheirPlace ==
    Spec /\ []Apart => RunsStayPut
<1> DEFINE Stay ==
      told'.op # "edit" =>
         \A d \in DOMAIN bt.runs \cap DOMAIN AllRuns(bt') :
            LET own == (NodesOf(bt.graph, d, bt.runs[d]) \cap DOMAIN bt.graph)
                          \ HeldByMain(bt)
            IN  told'.decorator # d =>
                  \A x \in own :
                     /\ x \in DOMAIN bt'.graph
                     /\ \/ bt'.graph[x] = bt.graph[x] /\ (x \in bt'.fresh => x \in bt.fresh)
                        \/ /\ bt.graph[x].bind \notin own
                           /\ bt'.graph[x] = [bt.graph[x] EXCEPT !.bind = Unbound]
<1>1. ASSUME ScaffoldInv, Apart, [Next]_vars
      PROVE  [Stay]_vars
  <2>1. CASE UNCHANGED vars
    BY <2>1
  <2>2. CASE Next
    <3> PICK c : c = bt'
      OBVIOUS
    <3>1. ASSUME told'.op # "edit", NEW d \in DOMAIN bt.runs \cap DOMAIN AllRuns(c),
                 told'.decorator # d
          PROVE  StaysPut(bt, c, Kept(bt, d))
      BY <1>1, <2>2, <3>1, NextStays DEF ScaffoldInv, Apart
    <3>2. Stay
      BY <3>1, Zenon DEF StaysPut, Kept
    <3> QED  BY <3>2
  <2> QED  BY <1>1, <2>1, <2>2
<1> QED  BY <1>1, Invariant, PTL DEF Spec, RunsStayPut
=============================================================================
