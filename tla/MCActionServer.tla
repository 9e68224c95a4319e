--------------------------- MODULE MCActionServer ---------------------------
(* Small instances of ActionServer. *)
EXTENDS ActionServer, TLC

CONSTANTS g1, g2

\* g2 replaces g1, and a goal sent again replaces itself; g1 does not replace g2.
MCPriority == [g \in Goals |-> IF g = g1 THEN 1 ELSE 2]

\* A run reports progress with its result so far, then ends.
MCWrites == {{"feedback", "result"}, {"success"}, {"failure"}}

\* A run reports progress, then ends.
MCProgress == {{"feedback"}, {"success"}, {"failure"}}
=============================================================================
