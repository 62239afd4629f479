----------------------------- MODULE OutboxRelay -----------------------------
(***************************************************************************)
(* The transactional outbox shared by every writing service: pkg/outbox    *)
(* (event rows and the polling publisher) over pkg/kafka's producer.       *)
(*                                                                         *)
(* A service inserts an event row inside the transaction that changes the  *)
(* aggregate; the row becomes visible when that transaction commits.  Each *)
(* replica of the service runs one publisher goroutine on the same table:  *)
(* a ticker wakes it, it reads every unpublished row in created_at order,  *)
(* and for each row writes a message and then marks the row published.     *)
(* Nothing is shared between replicas but the table and the topic.         *)
(*                                                                         *)
(* Event identifiers are numbers in created_at order.  The topic is one    *)
(* sequence: messages are keyed by aggregate and the producer hashes the   *)
(* key, so within one aggregate the order of the sequence is the order of  *)
(* the partition.                                                          *)
(***************************************************************************)
EXTENDS Naturals, Sequences, FiniteSets

CONSTANTS
    Aggregates,     \* aggregate identifiers, the message keys
    Publishers,     \* replicas of the service, one publisher goroutine each
    RowLocks,       \* writers of one aggregate are serialised by its row lock
    MaxEvents,      \* bound: events created in a behaviour
    MaxFaults       \* bound: how often each kind of fault happens

\* What can go wrong, and the planned stop of a replica.
Faults == {"pending", "publish", "unacked", "ack", "mark", "crash", "stop"}

Events == 1 .. MaxEvents

\* The event_type column: the empty type, here "untyped", is stored but never
\* published.
EventTypes == {"typed", "untyped"}

ASSUME ConstantsAssumption ==
    /\ RowLocks \in BOOLEAN
    /\ MaxEvents \in Nat
    /\ MaxFaults \in [Faults -> Nat]
    /\ IsFiniteSet(Publishers)
    /\ 0 \notin Aggregates

NoEvent == 0
NoAggregate == 0

VARIABLES
    row,            \* outbox_events: "none", "open" (uncommitted), "pending",
                    \* "published" (published_at set), "aborted"
    aggregate,      \* the aggregate_id of each row
    eventType,      \* the event_type of each row
    topic,          \* the messages of the Kafka topic, as event identifiers
    wire,           \* how many messages of each event left a producer and are
                    \* not in the topic
    proc,           \* each replica: "running", "stopping" or "down"
    tick,           \* the ticker channel of each publisher, capacity one
    batch,          \* the rows a publisher has read and not yet handled
    marking,        \* the event just written, to be marked; or NoEvent
    faults          \* faults so far, by kind

relayVars == <<proc, tick, batch, marking>>
rowVars == <<row, aggregate, eventType>>
brokerVars == <<topic, wire>>
vars == <<row, aggregate, eventType, topic, wire, proc, tick, batch, marking, faults>>

InTopic(e) == \E i \in DOMAIN topic : topic[i] = e

IsCommitted(e) == row[e] \in {"pending", "published"}

Fault(f) ==
    /\ faults[f] < MaxFaults[f]
    /\ faults' = [faults EXCEPT ![f] = @ + 1]

Init ==
    /\ row = [e \in Events |-> "none"]
    /\ aggregate = [e \in Events |-> NoAggregate]
    /\ eventType = [e \in Events |-> "untyped"]
    /\ topic = <<>>
    /\ wire = [e \in Events |-> 0]
    /\ proc = [p \in Publishers |-> "running"]
    /\ tick = [p \in Publishers |-> FALSE]
    /\ batch = [p \in Publishers |-> {}]
    /\ marking = [p \in Publishers |-> NoEvent]
    /\ faults = [f \in Faults |-> 0]

------------------------------------------------------------------------------
(***************************************************************************)
(* The writing transactions.                                               *)
(***************************************************************************)

\* created_at of e is later than that of every row so far.
IsNextEvent(e) == row[e] = "none" /\ \A f \in Events : f < e => row[f] # "none"

\* A handler updates the aggregate's row before it inserts the event, and
\* PostgreSQL keeps the row lock until the transaction ends: two open
\* transactions never hold events of one aggregate.  An UPDATE that matches no
\* row (the aggregate is deleted) locks nothing: RowLocks = FALSE.
RowLockFree(a) == RowLocks => \A f \in Events : row[f] = "open" => aggregate[f] # a

\* NewEvent and the INSERT of the outbox repository, inside a transaction.
SaveEvent(e, a, t) ==
    /\ IsNextEvent(e)
    /\ RowLockFree(a)
    /\ row' = [row EXCEPT ![e] = "open"]
    /\ aggregate' = [aggregate EXCEPT ![e] = a]
    /\ eventType' = [eventType EXCEPT ![e] = t]
    /\ UNCHANGED <<brokerVars, relayVars, faults>>

CommitTx(e) ==
    /\ row[e] = "open"
    /\ row' = [row EXCEPT ![e] = "pending"]
    /\ UNCHANGED <<aggregate, eventType, brokerVars, relayVars, faults>>

RollbackTx(e) ==
    /\ row[e] = "open"
    /\ row' = [row EXCEPT ![e] = "aborted"]
    /\ UNCHANGED <<aggregate, eventType, brokerVars, relayVars, faults>>

------------------------------------------------------------------------------
(***************************************************************************)
(* The publisher goroutine.                                                *)
(***************************************************************************)

\* The select of Start: no batch under way.
AtSelect(p) == batch[p] = {} /\ marking[p] = NoEvent

\* A tick is dropped when the channel already holds one.
TickerFires(p) ==
    /\ proc[p] = "running"
    /\ ~tick[p]
    /\ tick' = [tick EXCEPT ![p] = TRUE]
    /\ UNCHANGED <<rowVars, brokerVars, proc, batch, marking, faults>>

\* Mutant: the query reads rows of transactions that have not committed.
PendingReadsUncommitted(p) ==
    /\ proc[p] # "down"
    /\ AtSelect(p)
    /\ tick[p]
    /\ tick' = [tick EXCEPT ![p] = FALSE]
    /\ batch' = [batch EXCEPT ![p] = {e \in Events : row[e] \in {"open", "pending"}}]
    /\ UNCHANGED <<rowVars, brokerVars, proc, marking, faults>>

\* Mutant: LIMIT 1, so that an untyped row at the head of the table is all that
\* is ever read.
PendingLimitOne(p) ==
    /\ proc[p] # "down"
    /\ AtSelect(p)
    /\ tick[p]
    /\ tick' = [tick EXCEPT ![p] = FALSE]
    /\ batch' = [batch EXCEPT ![p] =
          {e \in Events : row[e] = "pending" /\ \A f \in Events : row[f] = "pending" => e <= f}]
    /\ UNCHANGED <<rowVars, brokerVars, proc, marking, faults>>

\* publishPending begins: Pending returns every committed unpublished row.
\* A tick still in the channel may win the select even after Stop.
Pending(p) ==
    /\ proc[p] # "down"
    /\ AtSelect(p)
    /\ tick[p]
    /\ tick' = [tick EXCEPT ![p] = FALSE]
    /\ batch' = [batch EXCEPT ![p] = {e \in Events : row[e] = "pending"}]
    /\ UNCHANGED <<rowVars, brokerVars, proc, marking, faults>>

\* Pending fails: logged, nothing happens until the next tick.
PendingFails(p) ==
    /\ proc[p] # "down"
    /\ AtSelect(p)
    /\ tick[p]
    /\ Fault("pending")
    /\ tick' = [tick EXCEPT ![p] = FALSE]
    /\ UNCHANGED <<rowVars, brokerVars, proc, batch, marking>>

\* Mutant: no ORDER BY.
HandlesAnyOrder(p, e) ==
    /\ proc[p] # "down"
    /\ marking[p] = NoEvent
    /\ e \in batch[p]

\* The loop of publishPending takes the batch in created_at order.
Handles(p, e) ==
    /\ proc[p] # "down"
    /\ marking[p] = NoEvent
    /\ e \in batch[p]
    /\ \A f \in batch[p] : e <= f

SkipUntyped(p, e) ==
    /\ Handles(p, e)
    /\ eventType[e] = "untyped"
    /\ batch' = [batch EXCEPT ![p] = @ \ {e}]
    /\ UNCHANGED <<rowVars, brokerVars, proc, tick, marking, faults>>

\* Mutant: the message of the previous iteration is sent.
PublishStale(p, e) ==
    /\ Handles(p, e)
    /\ eventType[e] # "untyped"
    /\ topic' = Append(topic, marking[p])
    /\ batch' = [batch EXCEPT ![p] = @ \ {e}]
    /\ marking' = [marking EXCEPT ![p] = e]
    /\ UNCHANGED <<rowVars, wire, proc, tick, faults>>

\* WriteMessages returns nil and the message is in the topic by then.
Publish(p, e) ==
    /\ Handles(p, e)
    /\ eventType[e] # "untyped"
    /\ topic' = Append(topic, e)
    /\ batch' = [batch EXCEPT ![p] = @ \ {e}]
    /\ marking' = [marking EXCEPT ![p] = e]
    /\ UNCHANGED <<rowVars, wire, proc, tick, faults>>

\* The producer sets no RequiredAcks, which is kafka-go's RequireNone: nil means
\* that the message was handed to the connection.  Here the topic does not have
\* it yet, and the loop goes on to mark the row.
PublishUnacked(p, e) ==
    /\ Handles(p, e)
    /\ eventType[e] # "untyped"
    /\ Fault("unacked")
    /\ wire' = [wire EXCEPT ![e] = @ + 1]
    /\ batch' = [batch EXCEPT ![p] = @ \ {e}]
    /\ marking' = [marking EXCEPT ![p] = e]
    /\ UNCHANGED <<rowVars, topic, proc, tick>>

\* Mutant: no continue after the error, the row is marked all the same.
PublishFailsMarks(p, e) ==
    /\ Handles(p, e)
    /\ eventType[e] # "untyped"
    /\ Fault("publish")
    /\ batch' = [batch EXCEPT ![p] = @ \ {e}]
    /\ marking' = [marking EXCEPT ![p] = e]
    /\ UNCHANGED <<rowVars, brokerVars, proc, tick>>

\* The message did not leave the producer: the loop goes on to the next row.
PublishFails(p, e) ==
    /\ Handles(p, e)
    /\ eventType[e] # "untyped"
    /\ Fault("publish")
    /\ batch' = [batch EXCEPT ![p] = @ \ {e}]
    /\ UNCHANGED <<rowVars, brokerVars, proc, tick, marking>>

\* The broker took the message and an error is returned all the same: the
\* connection or the context ended before the write was seen to be done.
PublishAckLost(p, e) ==
    /\ Handles(p, e)
    /\ eventType[e] # "untyped"
    /\ Fault("ack")
    /\ topic' = Append(topic, e)
    /\ batch' = [batch EXCEPT ![p] = @ \ {e}]
    /\ UNCHANGED <<rowVars, wire, proc, tick, marking>>

\* Mutant: the UPDATE matches no row.
MarkPublishedNothing(p, e) ==
    /\ proc[p] # "down"
    /\ marking[p] = e
    /\ marking' = [marking EXCEPT ![p] = NoEvent]
    /\ UNCHANGED <<rowVars, brokerVars, proc, tick, batch, faults>>

MarkPublished(p, e) ==
    /\ proc[p] # "down"
    /\ marking[p] = e
    /\ row' = [row EXCEPT ![e] = "published"]
    /\ marking' = [marking EXCEPT ![p] = NoEvent]
    /\ UNCHANGED <<aggregate, eventType, brokerVars, proc, tick, batch, faults>>

\* MarkPublished fails: logged, the row stays unpublished.
MarkFails(p, e) ==
    /\ proc[p] # "down"
    /\ marking[p] = e
    /\ Fault("mark")
    /\ marking' = [marking EXCEPT ![p] = NoEvent]
    /\ UNCHANGED <<rowVars, brokerVars, proc, tick, batch>>

------------------------------------------------------------------------------
(***************************************************************************)
(* The broker, and what no producer waits for.                             *)
(***************************************************************************)

BrokerTakes(e) ==
    /\ wire[e] > 0
    /\ topic' = Append(topic, e)
    /\ wire' = [wire EXCEPT ![e] = @ - 1]
    /\ UNCHANGED <<rowVars, relayVars, faults>>

\* The connection breaks, or the broker refuses the message: nobody is told.
BrokerDrops(e) ==
    /\ wire[e] > 0
    /\ wire' = [wire EXCEPT ![e] = @ - 1]
    /\ UNCHANGED <<rowVars, topic, relayVars, faults>>

------------------------------------------------------------------------------
(***************************************************************************)
(* The life of a replica.                                                  *)
(***************************************************************************)

\* Stop on SIGTERM: the ticker is stopped and stopCh closed.
Stop(p) ==
    /\ proc[p] = "running"
    /\ Fault("stop")
    /\ proc' = [proc EXCEPT ![p] = "stopping"]
    /\ UNCHANGED <<rowVars, brokerVars, tick, batch, marking>>

\* The goroutine sees stopCh between batches and returns.
StopSeen(p) ==
    /\ proc[p] = "stopping"
    /\ AtSelect(p)
    /\ proc' = [proc EXCEPT ![p] = "down"]
    /\ tick' = [tick EXCEPT ![p] = FALSE]
    /\ UNCHANGED <<rowVars, brokerVars, batch, marking, faults>>

\* The process dies, in the middle of a batch or not: a crash, or main
\* returning after Stop without waiting for the goroutine.
Crash(p) ==
    /\ proc[p] # "down"
    /\ Fault("crash")
    /\ proc' = [proc EXCEPT ![p] = "down"]
    /\ tick' = [tick EXCEPT ![p] = FALSE]
    /\ batch' = [batch EXCEPT ![p] = {}]
    /\ marking' = [marking EXCEPT ![p] = NoEvent]
    /\ UNCHANGED <<rowVars, brokerVars>>

\* main starts a new publisher.
Start(p) ==
    /\ proc[p] = "down"
    /\ proc' = [proc EXCEPT ![p] = "running"]
    /\ UNCHANGED <<rowVars, brokerVars, tick, batch, marking, faults>>

------------------------------------------------------------------------------

Writer(e) ==
    \/ \E a \in Aggregates, t \in EventTypes : SaveEvent(e, a, t)
    \/ CommitTx(e)
    \/ RollbackTx(e)

\* The steps of the goroutine that its scheduler must not put off for ever.
Handle(p) ==
    \E e \in Events :
        \/ SkipUntyped(p, e)
        \/ Publish(p, e)
        \/ PublishUnacked(p, e)
        \/ PublishFails(p, e)
        \/ PublishAckLost(p, e)
        \/ MarkPublished(p, e)
        \/ MarkFails(p, e)

Poll(p) == Pending(p) \/ PendingFails(p)

Next ==
    \/ \E e \in Events : Writer(e) \/ BrokerTakes(e) \/ BrokerDrops(e)
    \/ \E p \in Publishers :
          \/ TickerFires(p)
          \/ Poll(p)
          \/ Handle(p)
          \/ Stop(p)
          \/ StopSeen(p)
          \/ Crash(p)
          \/ Start(p)

SafeSpec == Init /\ [][Next]_vars

\* The ticker keeps firing, a running goroutine keeps running and Kubernetes
\* restarts a replica that went down.  Faults are finite in number (MaxFaults):
\* the broker and the database come back.  Writers owe nothing.
Fairness ==
    \A p \in Publishers :
        /\ WF_vars(TickerFires(p))
        /\ WF_vars(Poll(p))
        /\ WF_vars(Handle(p))
        /\ WF_vars(StopSeen(p))
        /\ WF_vars(Start(p))

Spec == SafeSpec /\ Fairness

------------------------------------------------------------------------------
(***************************************************************************)
(* Properties.                                                             *)
(***************************************************************************)

TypeOK ==
    /\ row \in [Events -> {"none", "open", "pending", "published", "aborted"}]
    /\ aggregate \in [Events -> Aggregates \union {NoAggregate}]
    /\ eventType \in [Events -> EventTypes]
    /\ topic \in Seq(Events)
    /\ wire \in [Events -> Nat]
    /\ proc \in [Publishers -> {"running", "stopping", "down"}]
    /\ tick \in [Publishers -> BOOLEAN]
    /\ batch \in [Publishers -> SUBSET Events]
    /\ marking \in [Publishers -> Events \union {NoEvent}]
    /\ faults \in [Faults -> Nat]

\* publishPending marks a row whose message is not in the topic only when nil
\* was returned for a message the broker had not acknowledged, one event for
\* each: no error, failed mark, crash, restart or race of replicas loses one.
\* The documentation promises delivery at least once, which is this with zero.
LossBounded ==
    Cardinality({e \in Events : row[e] = "published" /\ ~InTopic(e)}) <= faults["unacked"]

\* The topic never shows an event of a transaction that rolled back or has not
\* committed: Pending reads committed rows only, and Publish sends what it read.
TopicIsCommitted == \A i \in DOMAIN topic : IsCommitted(topic[i])

\* Copies of one event in the topic.
Copies(e) == Cardinality({i \in DOMAIN topic : topic[i] = e})

\* publishPending repeats an event once per replica that had read the row
\* before it was marked, and once more per lost answer, failed mark or crash.
DuplicatesBounded ==
    \A e \in Events :
        Copies(e) <= Cardinality(Publishers)
                       + faults["ack"] + faults["mark"] + faults["crash"]

\* f is a committed event of e's aggregate with an earlier created_at.
Precedes(f, e) ==
    /\ f < e
    /\ aggregate[f] = aggregate[e]
    /\ IsCommitted(f)
    /\ eventType[f] # "untyped"

\* publishPending sends an event only after every committed event of the same
\* aggregate with an earlier created_at has been sent, when no write is refused
\* or late.
OrderedPerAggregate ==
    \A i \in DOMAIN topic : \A f \in Events :
        Precedes(f, topic[i]) => \E j \in 1 .. (i - 1) : topic[j] = f

------------------------------------------------------------------------------
(***************************************************************************)
(* The promise, and how the relay's state shows it.                        *)
(***************************************************************************)

Delivery == INSTANCE EventDelivery WITH
    MaxForfeits <- MaxFaults["unacked"],
    committed <- {e \in Events : IsCommitted(e) /\ eventType[e] # "untyped"},
    log <- topic,
    acked <- {e \in Events : row[e] = "published"}

\* The publisher implements delivery at least once but for the unacknowledged
\* writes: its steps are deliveries and acknowledgements of committed events, an
\* event is given up for such a write only, and every committed typed event is
\* in the end marked, through crashes, lost answers and restarts.
ImplementsDelivery == Delivery!Spec

\* The safety half alone: the part that is proved for every value of the constants.
ImplementsSafeDelivery == Delivery!SafeSpec
==============================================================================
