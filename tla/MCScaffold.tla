----------------------------- MODULE MCScaffold -----------------------------
(* Small instances of Scaffold. *)
EXTENDS Scaffold, TLC

CONSTANTS m, n, r, x

Leaf(bind) == [kids |-> {}, call |-> FALSE, bind |-> bind]
Call(bind) == [kids |-> {}, call |-> TRUE, bind |-> bind]
Over1(y, bind) == [kids |-> {y}, call |-> FALSE, bind |-> bind]
G(root, nodes) == [root |-> root, nodes |-> nodes]

\* Nothing; one node.
MCBehaviors == {G(NoRoot, None), G(m, m :> Leaf(Data))}

\* One node; one over another that reads it; one reading a detached call.
MCFragments ==
    {G(r, r :> Leaf(Data)),
     G(r, r :> Over1(x, Data) @@ x :> Leaf(r)),
     G(r, r :> Leaf(x) @@ x :> Call(Data))}

Set(nodes) == [NoDiff EXCEPT !.set = nodes]
Bind(y, source) == [NoDiff EXCEPT !.bind = (y :> source)]
Remove(y) == [NoDiff EXCEPT !.remove = {y}]

\* The main behavior reads a run's node, holds one, or is rooted at one; a run
\* reads the main behavior; a node goes, or is set anew; a decorator is named.
MCEdits ==
    {Bind(m, r), Bind(r, m), Set(m :> Over1(x, Data)), Remove(x),
     [NoDiff EXCEPT !.root = x], [Remove(m) EXCEPT !.set = (m :> Leaf(Data))]}
        \cup {Remove(d) : d \in FreshIds}

\* A chain of reads: of the main behavior's nodes, one reads a run's node and
\* another reads what that one reads.
ChainBehaviors == {G(m, m :> Over1(n, Data) @@ n :> Leaf(Data))}
ChainFragments == {G(r, r :> Leaf(Data))}
ChainEdits == {Bind(n, r), Bind(m, n)}

Fresh == Permutations(FreshIds)
=============================================================================
