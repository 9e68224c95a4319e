------------------------------ MODULE MCRuntime ------------------------------
(* Small instances of Runtime. *)
EXTENDS Runtime, TLC

CONSTANTS a, v1, v2, v3, t1, t2

MCTypeOf == v1 :> t1 @@ v2 :> t2 @@ v3 :> t1

Open(ty) == [editable |-> TRUE, ty |-> ty]
Closed(ty) == [editable |-> FALSE, ty |-> ty]

\* The clock's subtree is closed at build; every other key is an input of type t1.
TypedInputs ==
    [k \in AllKeys |-> IF k = Clock THEN Closed(AnyType) ELSE Open(t1)]

None == {NoChange}
Sets(k, V) == {[x \in {k} |-> v] : v \in V}

\* Every writer writes a; remotes write values of both types, and the clock.
MCReadings == Sets(a, {v1})
MCUpdates == Sets(a, {v2, v3})
MCUpdatesAndClock == MCUpdates \cup Sets(Clock, {0})
MCCalls == Sets(a, {v1})
MCBehavior == None \cup Sets(a, {v3, Absent})
MCHost == Sets(a, {v1})

\* The HAL and the host open and close a.
HalOpens == {[k \in {a} |-> Open(t1)], [k \in {a} |-> Closed(t1)]}
HostOpens == {Open(AnyType), Closed(AnyType)}
WrongType == Sets(a, {v2})
==============================================================================
