--------------------------- MODULE ConnectionPool ---------------------------
(***************************************************************************)
(* The pgx pool of one creditcard-svc process and the handlers that share  *)
(* it.  A repository's FindByID asks the pool even inside a transaction,   *)
(* so PayInvoice and AddTransaction hold one connection while they wait    *)
(* for a second, and PayInvoice holds the lock of its invoice as well,     *)
(* which others await with a connection in hand.  RegisterPayment of       *)
(* debt-svc and RecordTransaction of investment-svc take their connections *)
(* in the order of AddTransaction.                                         *)
(*                                                                         *)
(* All requests are about one invoice, the worst case.  The row of the     *)
(* card is locked last and held for no further wait, so it is left out;    *)
(* what the statements do is the matter of CreditCard.                     *)
(***************************************************************************)
EXTENDS Integers, Sequences, SequencesExt, FiniteSetsExt

CONSTANTS
    Requests,   \* RPC calls of a behaviour, each made once
    NoRequest,  \* nobody
    MaxConns    \* the size of the pool: 25 in every main

ASSUME PoolAssumption == NoRequest \notin Requests /\ MaxConns \in Nat \ {0}

\* What each handler does to the pool, in order: it takes a connection (for a
\* query or for Begin), gives one back, or locks the invoice's row.  At the end
\* of its program the transaction commits.
GetInvoice == <<"take", "give">>

CreateInvoice == <<"take", "give", "take">>

\* Mutant: the card is read a second time, and the first rows are not closed.
PayInvoiceThird == <<"take", "give", "take", "lock", "take", "take", "give">>

PayInvoice == <<"take", "give", "take", "lock", "take", "give">>

AddTransaction == <<"take", "give", "take", "take", "give", "lock">>

Program == [get |-> GetInvoice, create |-> CreateInvoice, pay |-> PayInvoice,
            add |-> AddTransaction]

Ops == DOMAIN Program

VARIABLES
    op,         \* the handler each request runs, "none" before it arrives, "ended" after
    pc,         \* the index of its next instruction; 0 when it is not in flight
    deadlines,  \* whether callers of a transaction set a deadline in this behaviour
    queue,      \* the requests waiting for a connection, in order
    held,       \* how many connections each request holds
    lock        \* who holds the lock of the invoice's row, or NoRequest

vars == <<deadlines, op, pc, queue, held, lock>>

Init ==
    /\ op = [r \in Requests |-> "none"]
    /\ pc = [r \in Requests |-> 0]
    /\ deadlines \in BOOLEAN
    /\ queue = <<>>
    /\ held = [r \in Requests |-> 0]
    /\ lock = NoRequest

InFlight(r) == pc[r] > 0

Free == MaxConns - MapThenSumSet(LAMBDA r : held[r], Requests)

AtEnd(r) == InFlight(r) /\ pc[r] > Len(Program[op[r]])

\* The instruction r is at.
At(r, what) == InFlight(r) /\ ~AtEnd(r) /\ Program[op[r]][pc[r]] = what

Call(r, o) ==
    /\ op[r] = "none"
    /\ op' = [op EXCEPT ![r] = o]
    /\ pc' = [pc EXCEPT ![r] = 1]
    /\ UNCHANGED <<deadlines, queue, held, lock>>

\* pool.Acquire: the request waits behind those that asked before it.
Ask(r) ==
    /\ At(r, "take")
    /\ ~Contains(queue, r)
    /\ queue' = Append(queue, r)
    /\ UNCHANGED <<op, pc, deadlines, held, lock>>

Grant ==
    /\ queue # <<>> /\ Free > 0
    /\ LET r == Head(queue) IN
       /\ held' = [held EXCEPT ![r] = @ + 1]
       /\ pc' = [pc EXCEPT ![r] = @ + 1]
    /\ queue' = Tail(queue)
    /\ UNCHANGED <<op, deadlines, lock>>

\* The rows of a query are read and closed.
Give(r) ==
    /\ At(r, "give")
    /\ held' = [held EXCEPT ![r] = @ - 1]
    /\ pc' = [pc EXCEPT ![r] = @ + 1]
    /\ UNCHANGED <<op, deadlines, queue, lock>>

\* UPDATE invoices: waits until no other transaction holds the row.
Lock(r) ==
    /\ At(r, "lock")
    /\ lock = NoRequest
    /\ lock' = r
    /\ pc' = [pc EXCEPT ![r] = @ + 1]
    /\ UNCHANGED <<op, deadlines, queue, held>>

\* Mutant: a handler that gives up does not roll its transaction back.
EndWithoutRollback(r) ==
    /\ pc' = [pc EXCEPT ![r] = 0]
    /\ queue' = Remove(queue, r)
    /\ held' = IF AtEnd(r) THEN [held EXCEPT ![r] = 0] ELSE held
    /\ lock' = IF lock = r THEN NoRequest ELSE lock
    /\ op' = [op EXCEPT ![r] = "ended"]
    /\ UNCHANGED deadlines

\* The handler returns: everything it held goes back.
End(r) ==
    /\ pc' = [pc EXCEPT ![r] = 0]
    /\ queue' = Remove(queue, r)
    /\ held' = [held EXCEPT ![r] = 0]
    /\ lock' = IF lock = r THEN NoRequest ELSE lock
    /\ op' = [op EXCEPT ![r] = "ended"]
    /\ UNCHANGED deadlines

Commit(r) == AtEnd(r) /\ End(r)

\* A statement or a domain rule fails and the transaction is rolled back.
Fail(r) == (At(r, "give") \/ At(r, "lock") \/ AtEnd(r)) /\ End(r)

\* The caller's deadline ends whatever the handler waits for.
Expire(r) == deadlines /\ InFlight(r) /\ op[r] # "get" /\ End(r)

Next ==
    \/ Grant
    \/ \E r \in Requests :
          \/ \E o \in Ops : Call(r, o)
          \/ Ask(r) \/ Give(r) \/ Lock(r) \/ Commit(r) \/ Fail(r) \/ Expire(r)

\* The pool serves its queue, a running handler runs on, a deadline passes.
\* Nobody has to call, and nothing has to fail.
Fairness ==
    /\ WF_vars(Grant)
    /\ \A r \in Requests :
          /\ WF_vars(Ask(r)) /\ WF_vars(Give(r)) /\ WF_vars(Commit(r)) /\ WF_vars(Expire(r))
          /\ SF_vars(Lock(r))

Spec == Init /\ [][Next]_vars /\ Fairness

------------------------------------------------------------------------------
(***************************************************************************)
(* Properties.                                                             *)
(***************************************************************************)

\* r has begun a transaction: it is past the last "take" that no "give" follows.
Transactions == {r \in Requests : InFlight(r) /\ op[r] # "get" /\ pc[r] > 3}

\* As long as fewer transactions are open than the pool has connections, no
\* request waits for ever, be it for a connection or for the row of the invoice.
\* One transaction more and they may all wait for each other: PostgreSQL sees no
\* cycle of locks, and no handler has a timeout of its own.
EveryCallEnds ==
    [](Cardinality(Transactions) < MaxConns)
    => \A r \in Requests : InFlight(r) ~> ~InFlight(r)

\* When the handlers that begin a transaction are called with a deadline, the
\* pool recovers from any number of them: also the calls without one, which only
\* query, are answered.
DeadlinesRescue ==
    deadlines => \A r \in Requests : InFlight(r) ~> ~InFlight(r)
==============================================================================
