----------------------------- MODULE MCTaskRuns -----------------------------
(* Small instances of TaskRuns. *)
EXTENDS TaskRuns

CONSTANTS f1, f2, m1, m2

Nodes(F) == [nodes |-> F, bound |-> {}]
OneModule == {[id |-> m1, exports |-> {f1}]}
TwoModules == {[id |-> m1, exports |-> {f1}], [id |-> m1, exports |-> {f1, f2}],
               [id |-> m2, exports |-> {f2}]}
NodePrograms == {Nodes({f1})}
TwoPrograms == {Nodes({}), Nodes({f1})}
FunctionPrograms == {Nodes({f1}), Nodes({f2})}
Plain == {Nodes({})}
=============================================================================
