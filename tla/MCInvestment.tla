----------------------------- MODULE MCInvestment -----------------------------
(* Instances of Investment for TLC. *)
EXTENDS Investment, TLC

\* A position of three units at two cents.
OnePosition == [i \in {CHOOSE j \in Investments : TRUE} |-> [quantity |-> 3, price |-> 2]]

SmallOpenings == {[quantity |-> 2, price |-> 1, status |-> "active"]}

\* A correction of the quantity, one of the price, and a change of status.
SmallEdits == {[quantity |-> 5, price |-> Keep, status |-> Keep],
               [quantity |-> Keep, price |-> 1, status |-> Keep],
               [quantity |-> Keep, price |-> Keep, status |-> "cancelled"],
               [quantity |-> Keep, price |-> Keep, status |-> "active"]}

\* A purchase and a sale that round, the sale of a whole position, an income,
\* and an order that NewTransaction refuses.
SmallOrders == {[type |-> "buy", quantity |-> 2, price |-> 5],
                [type |-> "sell", quantity |-> 1, price |-> 4],
                [type |-> "sell", quantity |-> 3, price |-> 4],
                [type |-> "dividend", quantity |-> 1, price |-> 4],
                [type |-> "buy", quantity |-> 0, price |-> 1]}

RequestSymmetry == Permutations(Requests)
==============================================================================
