---------------------------- MODULE DeliveryPromise ----------------------------
(***************************************************************************)
(* A call of ArtifactDelivery.collect seen from outside: it finds some     *)
(* live nodes, or none, and settles each of them - all its artifacts are   *)
(* whole at the destination, or it is reported - before it may return      *)
(* normally.  A strict call that returns has delivered everything.         *)
(***************************************************************************)
CONSTANT Node
VARIABLES strict, \* whether failures are raised
          call,   \* "in" while collect runs, else how the last call ended
          fate    \* what became of each node in that call

vars == <<strict, call, fate>>

Init == strict \in BOOLEAN /\ call = "never" /\ fate = [n \in Node |-> "unlisted"]

\* A call that finds no node may end there and then.
Begin(live) ==
  /\ call \notin {"in", "returned", "already"}
  /\ call' \in {"in"} \cup (IF live = {} THEN {"skipped"} ELSE {})
  /\ fate' = [n \in Node |-> IF n \in live THEN "open" ELSE "unlisted"]
  /\ UNCHANGED strict

\* Once a call returned, another has nothing to do.
Again == call \in {"returned", "already"} /\ call' = "already" /\ UNCHANGED <<strict, fate>>

\* Nodes that fail together (a stall) are reported together.
Settle(nodes, what) == /\ call = "in"
                       /\ \A n \in nodes : fate[n] = "open"
                       /\ fate' = [n \in Node |-> IF n \in nodes THEN what ELSE fate[n]]
                       /\ UNCHANGED <<strict, call>>

Return == /\ call = "in"
          /\ \A n \in Node : fate[n] \in {"unlisted", "delivered"} \cup (IF strict THEN {} ELSE {"reported"})
          /\ call' = "returned"
          /\ UNCHANGED <<strict, fate>>

\* A failure ends the call early: an exception, or 0 files in a lenient one.
Fail == /\ call = "in"
        /\ call' = IF strict THEN "raised" ELSE "gave up"
        /\ UNCHANGED <<strict, fate>>

Next == \/ \E nodes \in SUBSET Node : \/ Begin(nodes)
                                      \/ Settle(nodes, "delivered") \/ Settle(nodes, "reported")
        \/ Again \/ Return \/ Fail

Spec == Init /\ [][Next]_vars
=============================================================================
