------------------------------- MODULE MCRecords -------------------------------
(* Instances of Records for TLC. *)
EXTENDS Records, TLC

\* One record of every kind, at its first status.
OneOfEach ==
    LET first(v, s, n) == [id |-> CHOOSE i \in Ids : TRUE,
                            image |-> [value |-> v, status |-> s, categories |-> n]] IN
    [k \in Kinds |-> IF k = "budget" THEN first(3, "active", 2) ELSE first(3, "pending", 0)]

\* A pending or a cancelled record, an active budget, a day that no month has,
\* and categories beyond the total.
SmallOpenings == {[value |-> 2, status |-> "pending", categories |-> 0],
                  [value |-> 32, status |-> "cancelled", categories |-> 0],
                  [value |-> 2, status |-> "active", categories |-> 1],
                  [value |-> 2, status |-> "active", categories |-> 3]}

\* A new value, a value that fixed expenses refuse, and changes of status.
SmallEdits == {[value |-> 1, status |-> Keep],
               [value |-> 32, status |-> "cancelled"],
               [value |-> Keep, status |-> "completed"],
               [value |-> Keep, status |-> "paused"],
               [value |-> Keep, status |-> "active"]}

RequestSymmetry == Permutations(Requests)
==============================================================================
