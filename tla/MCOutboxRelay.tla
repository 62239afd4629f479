---------------------------- MODULE MCOutboxRelay ----------------------------
(* Instances of OutboxRelay for TLC: how many faults of each kind a run has. *)
EXTENDS OutboxRelay, TLC

\* One fault of each of the given kinds.
Once(kinds) == [f \in Faults |-> IF f \in kinds THEN 1 ELSE 0]

\* A refused message, an unacknowledged one, a lost answer and a crash:
\* what delivery must survive.
DeliveryFaults == Once({"publish", "unacked", "ack", "crash"})

\* No message is refused or late, which order would not survive; polls and marks
\* fail, and replicas crash and stop.
NoRefusal == Once({"pending", "mark", "crash", "stop"})

\* Replicas run the same code on the same table.
ReplicaSymmetry == Permutations(Publishers)
==============================================================================
