---------------------------- MODULE EventDelivery ----------------------------
(***************************************************************************)
(* What the transactional outbox promises to the rest of the system, with  *)
(* no table, ticker, batch or broker in sight: a delivery is always of a   *)
(* committed event, a committed event is acknowledged in the end (never    *)
(* offered again), and only once it has been delivered, but for MaxForfeits*)
(* events at any time that are given up undelivered, which a producer that *)
(* waits for no answer cannot exclude.  A delivery may still come after    *)
(* that.  With MaxForfeits = 0 this is delivery at least once.             *)
(* OutboxRelay is shown to implement it.                                   *)
(***************************************************************************)
EXTENDS Naturals, Sequences, FiniteSets

CONSTANTS
    Events,             \* identifiers of domain events
    MaxForfeits         \* how many events may be given up undelivered

VARIABLES
    committed,          \* events whose database transaction committed
    log,                \* the topic: every delivery, in order, repeats included
    acked               \* events that will not be offered again

vars == <<committed, log, acked>>

Delivered(e) == \E i \in DOMAIN log : log[i] = e

Init ==
    /\ committed = {}
    /\ log = <<>>
    /\ acked = {}

Commit(e) ==
    /\ committed' = committed \union {e}
    /\ UNCHANGED <<log, acked>>

Deliver(e) ==
    /\ e \in committed
    /\ log' = Append(log, e)
    /\ UNCHANGED <<committed, acked>>

Acknowledge(e) ==
    /\ Delivered(e)
    /\ acked' = acked \union {e}
    /\ UNCHANGED <<committed, log>>

\* The event is given up: acknowledged, and not delivered so far.
Forfeit(e) ==
    /\ e \in committed
    /\ acked' = acked \union {e}
    /\ Cardinality({f \in acked' : ~Delivered(f)}) <= MaxForfeits
    /\ UNCHANGED <<committed, log>>

Next == \E e \in Events : Commit(e) \/ Deliver(e) \/ Acknowledge(e) \/ Forfeit(e)

\* The safety half, the one that is proved.
SafeSpec == Init /\ [][Next]_vars

\* Every committed event is eventually acknowledged, which is delivered or given up.
Progress == \A e \in Events : (e \in committed) ~> (e \in acked)

Spec == SafeSpec /\ Progress
==============================================================================
