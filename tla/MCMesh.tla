-------------------------------- MODULE MCMesh --------------------------------
(* Small instances of Mesh.tla for TLC. *)
EXTENDS Mesh, TLC

CONSTANTS n1, n2, n3

\* Two nodes; three in a line.
Pair == {<<n1, n2>>}
Line == {<<n1, n2>>, <<n3, n2>>}

\* The first node repeats its directive; the second one only signals.
Typing == n1 :> 2 @@ n2 :> 1 @@ n3 :> 0
One == [n \in Nodes |-> 1]

\* A client of the bridge sends the very sub-tasks of a directive.
BridgedTasks == {Task(t) : t \in Tasks}
=============================================================================
