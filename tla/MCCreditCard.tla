----------------------------- MODULE MCCreditCard -----------------------------
(***************************************************************************)
(* creditcard-svc for TLC: one card, and invoices of months 1 and 2.       *)
(***************************************************************************)
EXTENDS CreditCard, TLC

CONSTANTS c1, i1, i2

OneCard == c1 :> 2

TwoInvoices == i1 :> [card |-> c1, month |-> 1] @@ i2 :> [card |-> c1, month |-> 2]

OneInvoice == i1 :> [card |-> c1, month |-> 1]

DbAndAbandon == [f \in Faults |-> IF f = "redis" THEN 0 ELSE 1]
OneRedis == [f \in Faults |-> IF f = "redis" THEN 1 ELSE 0]

RequestSymmetry == Permutations(Requests)
==============================================================================
