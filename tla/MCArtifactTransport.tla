-------------------------- MODULE MCArtifactTransport --------------------------
(* The driver's node with a file of two chunks and a small one, a worker node *)
(* with a large file, and one that staged nothing.                            *)
EXTENDS ArtifactTransportProps

CONSTANTS head, worker, idle

Staged == {[node |-> head, name |-> "a", size |-> 2], [node |-> head, name |-> "b", size |-> 1],
           [node |-> worker, name |-> "c", size |-> 2]}
=============================================================================
