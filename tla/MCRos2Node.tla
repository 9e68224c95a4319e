----------------------------- MODULE MCRos2Node -----------------------------
(* Ros2Node for TLC: two keys that escape to one topic, either or both of    *)
(* which may be inputs; a third that feeds a field of an output on the topic *)
(* of a topic skill and is the whole message of another.  Of the values one  *)
(* is not a scalar: it goes out as JSON, the field does not take it and, as  *)
(* a whole message, it does not encode.                                      *)
EXTENDS Ros2Node, TLC

CONSTANTS t1, t2, t3, routed, whole, v1, v2, w

MCKeyTopic == 1 :> t1 @@ 2 :> t1 @@ 3 :> t2
MCRoutes == [o \in {routed, whole} |-> {3}]
MCOutTopic == routed :> t3 @@ whole :> t2
MCMsgKind == v1 :> "F64" @@ v2 :> "F64" @@ w :> "Json"
MCFits(o, k, v) == v # w
MCEncodes(o, m) == m[3] # w
Symmetry == Permutations({v1, v2})

=============================================================================
