-------------------------- MODULE OutboxRelayProofs --------------------------
(***************************************************************************)
(* Theorems about OutboxRelay, for any number of replicas, aggregates,     *)
(* events and faults.                                                      *)
(***************************************************************************)
EXTENDS OutboxRelay, SequenceTheorems, FiniteSetTheorems, TLAPS

(***************************************************************************)
(* What publishers hold.  A row in a batch has committed; an event that is *)
(* to be marked, is on the wire or is in the topic has committed and is    *)
(* typed.  Without these TopicIsCommitted is not inductive: a publish acts *)
(* on what an earlier step of the same publisher read, the broker on what  *)
(* a publisher sent.                                                       *)
(***************************************************************************)
Sound(e) == IsCommitted(e) /\ eventType[e] # "untyped"

RelayInv ==
    /\ \A p \in Publishers : \A e \in batch[p] : IsCommitted(e)
    /\ \A p \in Publishers : marking[p] # NoEvent => Sound(marking[p])
    /\ \A i \in DOMAIN topic : Sound(topic[i])
    /\ \A e \in Events : wire[e] > 0 => Sound(e)

SafetyInv == TypeOK /\ RelayInv

\* The last index of a sequence grown by one.
LEMMA IntervalSplit == \A n \in Nat : \A i \in 1 .. (n + 1) : i \in 1 .. n \/ i = n + 1
  OBVIOUS

LEMMA PartIsSmaller ==
    ASSUME NEW S, NEW T, IsFiniteSet(T), S \subseteq T
    PROVE  /\ IsFiniteSet(S) /\ Cardinality(S) \in Nat /\ Cardinality(T) \in Nat
           /\ Cardinality(S) <= Cardinality(T)
  BY FS_Subset, FS_CardinalityType

LEMMA PartButOne ==
    ASSUME NEW S, NEW T, NEW x, IsFiniteSet(T), S \subseteq T \union {x}
    PROVE  Cardinality(S) \in Nat /\ Cardinality(T) \in Nat /\ Cardinality(S) <= Cardinality(T) + 1
  <1>1. /\ IsFiniteSet(T \union {x}) /\ Cardinality(T) \in Nat
        /\ Cardinality(T \union {x}) \in {Cardinality(T), Cardinality(T) + 1}
    BY FS_AddElement, FS_CardinalityType
  <1>2. Cardinality(S) \in Nat /\ Cardinality(S) <= Cardinality(T \union {x})
    BY <1>1, PartIsSmaller
  <1>3. QED
    BY <1>1, <1>2

LEMMA OneMore ==
    ASSUME NEW S, NEW x, IsFiniteSet(S), x \notin S
    PROVE  Cardinality(S \union {x}) = Cardinality(S) + 1
  BY FS_AddElement

\* No event has the identifier that stands for "nothing to mark".
LEMMA NoEventIsNone == NoEvent \notin Events
  BY ConstantsAssumption DEF NoEvent, Events

\* Appending to the topic keeps what it has and adds the new message.
LEMMA AppendTopic ==
    ASSUME TypeOK, NEW e \in Events, topic' = Append(topic, e)
    PROVE  /\ topic' \in Seq(Events)
           /\ Len(topic') = Len(topic) + 1
           /\ DOMAIN topic = 1 .. Len(topic)
           /\ DOMAIN topic' = 1 .. (Len(topic) + 1)
           /\ Len(topic) \in Nat
           /\ \A i \in 1 .. Len(topic) : topic'[i] = topic[i]
           /\ topic'[Len(topic) + 1] = e
  BY DEF TypeOK

\* A step that leaves the topic alone or appends to it keeps InTopic.
LEMMA InTopicKept ==
    ASSUME TypeOK, NEW f,
           \/ topic' = topic
           \/ \E e \in Events : topic' = Append(topic, e)
    PROVE  InTopic(f) => InTopic(f)'
  <1>1. CASE topic' = topic
    BY <1>1 DEF InTopic
  <1>2. ASSUME NEW e \in Events, topic' = Append(topic, e)
        PROVE  InTopic(f) => InTopic(f)'
    <2>1. /\ DOMAIN topic = 1 .. Len(topic)
          /\ DOMAIN topic' = 1 .. (Len(topic) + 1)
          /\ Len(topic) \in Nat
          /\ \A i \in 1 .. Len(topic) : topic'[i] = topic[i]
      BY <1>2, AppendTopic
    <2>2. SUFFICES ASSUME NEW i \in DOMAIN topic, topic[i] = f
                   PROVE  \E j \in DOMAIN topic' : topic'[j] = f
      BY DEF InTopic
    <2>3. i \in DOMAIN topic' /\ topic'[i] = f
      BY <2>1, <2>2
    <2>4. QED
      BY <2>3
  <1>3. QED
    BY <1>1, <1>2

\* After an append of e, e is in the topic.
LEMMA InTopicAppended ==
    ASSUME TypeOK, NEW e \in Events, topic' = Append(topic, e)
    PROVE  InTopic(e)'
  <1>1. /\ DOMAIN topic' = 1 .. (Len(topic) + 1)
        /\ Len(topic) \in Nat
        /\ topic'[Len(topic) + 1] = e
    BY AppendTopic
  <1>2. QED
    BY <1>1 DEF InTopic

\* A fault only counts itself.
LEMMA FaultTyped ==
    ASSUME TypeOK, NEW f \in Faults, Fault(f)
    PROVE  faults' \in [Faults -> Nat]
  BY DEF TypeOK, Fault

\* Every action of the relay keeps the variables in their types.
LEMMA TypeOKStep == TypeOK /\ [Next]_vars => TypeOK'
  <1> SUFFICES ASSUME TypeOK, [Next]_vars PROVE TypeOK'
    OBVIOUS
  <1> USE DEF TypeOK
  <1>1. ASSUME NEW e \in Events, NEW a \in Aggregates, NEW t \in EventTypes,
               SaveEvent(e, a, t)
        PROVE  TypeOK'
    BY <1>1 DEF SaveEvent, relayVars, brokerVars
  <1>2. ASSUME NEW e \in Events, CommitTx(e) PROVE TypeOK'
    BY <1>2 DEF CommitTx, relayVars, brokerVars
  <1>3. ASSUME NEW e \in Events, RollbackTx(e) PROVE TypeOK'
    BY <1>3 DEF RollbackTx, relayVars, brokerVars
  <1>4. ASSUME NEW p \in Publishers, TickerFires(p) PROVE TypeOK'
    BY <1>4 DEF TickerFires, rowVars, brokerVars
  <1>5. ASSUME NEW p \in Publishers, Pending(p) PROVE TypeOK'
    BY <1>5 DEF Pending, rowVars, brokerVars
  <1>6. ASSUME NEW p \in Publishers, PendingFails(p) PROVE TypeOK'
    BY <1>6, FaultTyped DEF PendingFails, rowVars, brokerVars, Faults
  <1>7. ASSUME NEW p \in Publishers, NEW e \in Events, SkipUntyped(p, e) PROVE TypeOK'
    BY <1>7 DEF SkipUntyped, rowVars, brokerVars
  <1>8. ASSUME NEW p \in Publishers, NEW e \in Events, Publish(p, e) PROVE TypeOK'
    <2>1. topic' \in Seq(Events)
      BY <1>8, AppendTopic DEF Publish
    <2>2. QED
      BY <1>8, <2>1 DEF Publish, rowVars, brokerVars
  <1>9. ASSUME NEW p \in Publishers, NEW e \in Events, PublishFails(p, e) PROVE TypeOK'
    BY <1>9, FaultTyped DEF PublishFails, rowVars, brokerVars, Faults
  <1>10. ASSUME NEW p \in Publishers, NEW e \in Events, PublishAckLost(p, e) PROVE TypeOK'
    <2>1. topic' \in Seq(Events)
      BY <1>10, AppendTopic DEF PublishAckLost
    <2>2. QED
      BY <1>10, <2>1, FaultTyped DEF PublishAckLost, rowVars, brokerVars, Faults
  <1>11. ASSUME NEW p \in Publishers, NEW e \in Events, MarkPublished(p, e) PROVE TypeOK'
    BY <1>11 DEF MarkPublished, brokerVars
  <1>12. ASSUME NEW p \in Publishers, NEW e \in Events, MarkFails(p, e) PROVE TypeOK'
    BY <1>12, FaultTyped DEF MarkFails, rowVars, brokerVars, Faults
  <1>13. ASSUME NEW p \in Publishers, Stop(p) PROVE TypeOK'
    BY <1>13, FaultTyped DEF Stop, rowVars, brokerVars, Faults
  <1>14. ASSUME NEW p \in Publishers, StopSeen(p) PROVE TypeOK'
    BY <1>14 DEF StopSeen, rowVars, brokerVars
  <1>15. ASSUME NEW p \in Publishers, Crash(p) PROVE TypeOK'
    BY <1>15, FaultTyped DEF Crash, rowVars, brokerVars, Faults
  <1>16. ASSUME NEW p \in Publishers, Start(p) PROVE TypeOK'
    BY <1>16 DEF Start, rowVars, brokerVars
  <1>17. ASSUME NEW p \in Publishers, NEW e \in Events, PublishUnacked(p, e) PROVE TypeOK'
    <2>1. faults' \in [Faults -> Nat]
      BY <1>17, FaultTyped DEF PublishUnacked, Faults
    <2>2. wire' \in [Events -> Nat]
      BY <1>17 DEF PublishUnacked
    <2>3. QED
      BY <1>17, <2>1, <2>2 DEF PublishUnacked, rowVars
  <1>18. ASSUME NEW e \in Events, BrokerTakes(e) PROVE TypeOK'
    <2>1. topic' \in Seq(Events)
      BY <1>18, AppendTopic DEF BrokerTakes
    <2>2. wire' \in [Events -> Nat]
      BY <1>18 DEF BrokerTakes
    <2>3. QED
      BY <1>18, <2>1, <2>2 DEF BrokerTakes, rowVars, relayVars, brokerVars
  <1>19. ASSUME NEW e \in Events, BrokerDrops(e) PROVE TypeOK'
    BY <1>19 DEF BrokerDrops, rowVars, relayVars, brokerVars
  <1>20. CASE UNCHANGED vars
    BY <1>20 DEF vars
  <1>21. QED
    BY <1>1, <1>2, <1>3, <1>4, <1>5, <1>6, <1>7, <1>8, <1>9, <1>10, <1>11,
       <1>12, <1>13, <1>14, <1>15, <1>16, <1>17, <1>18, <1>19, <1>20
       DEF Next, Writer, Handle, Poll

\* A step keeps RelayInv when committed rows stay as they are, batches get
\* pending rows only, and what is newly to be marked, on the wire or in the topic
\* has committed and is typed.
LEMMA RelayInvKept ==
    ASSUME SafetyInv, TypeOK',
           \A e \in Events : IsCommitted(e) => IsCommitted(e)' /\ eventType'[e] = eventType[e],
           \A p \in Publishers : \A e \in batch'[p] : e \in batch[p] \/ row[e] = "pending",
           \A p \in Publishers : \/ marking'[p] \in {marking[p], NoEvent}
                                 \/ Sound(marking'[p]),
           topic' = topic \/ \E e \in Events : Sound(e) /\ topic' = Append(topic, e),
           \A e \in Events : wire'[e] > 0 => wire[e] > 0 \/ Sound(e)
    PROVE  RelayInv'
  <1>0. TypeOK
    BY DEF SafetyInv
  <1>1. \A e \in Events : Sound(e) => Sound(e)'
    BY DEF Sound
  <1>2. \A p \in Publishers : \A e \in batch'[p] : IsCommitted(e)'
    <2> SUFFICES ASSUME NEW p \in Publishers, NEW e \in batch'[p] PROVE IsCommitted(e)'
      OBVIOUS
    <2>1. e \in Events
      BY DEF TypeOK
    <2>2. IsCommitted(e)
      BY DEF SafetyInv, RelayInv, IsCommitted
    <2>3. QED
      BY <2>1, <2>2
  <1>3. \A p \in Publishers : marking'[p] # NoEvent => Sound(marking[p])'
    <2> SUFFICES ASSUME NEW p \in Publishers, marking'[p] # NoEvent PROVE Sound(marking[p])'
      OBVIOUS
    <2>1. marking'[p] \in Events /\ Sound(marking'[p])
      BY DEF TypeOK, SafetyInv, RelayInv
    <2>2. QED
      BY <2>1, <1>1 DEF Sound, IsCommitted
  <1>4. \A i \in DOMAIN topic' : Sound(topic[i])'
    <2>0. \A i \in DOMAIN topic : topic[i] \in Events
      BY <1>0 DEF TypeOK
    <2>1. CASE topic' = topic
      BY <2>0, <2>1, <1>1 DEF SafetyInv, RelayInv, Sound, IsCommitted
    <2>2. ASSUME NEW e \in Events, Sound(e), topic' = Append(topic, e)
          PROVE  \A i \in DOMAIN topic' : Sound(topic[i])'
      <3>1. /\ DOMAIN topic = 1 .. Len(topic)
            /\ DOMAIN topic' = 1 .. (Len(topic) + 1)
            /\ Len(topic) \in Nat
            /\ \A i \in 1 .. Len(topic) : topic'[i] = topic[i]
            /\ topic'[Len(topic) + 1] = e
        BY <1>0, <2>2, AppendTopic
      <3> SUFFICES ASSUME NEW i \in 1 .. (Len(topic) + 1) PROVE Sound(topic[i])'
        BY <3>1
      <3>2. topic'[i] \in Events /\ Sound(topic'[i])
        BY <2>0, <2>2, <3>1, IntervalSplit DEF SafetyInv, RelayInv
      <3>3. QED
        BY <3>2, <1>1 DEF Sound, IsCommitted
    <2>3. QED
      BY <2>1, <2>2
  <1>5. \A e \in Events : wire'[e] > 0 => Sound(e)'
    BY <1>1 DEF SafetyInv, RelayInv
  <1>6. QED
    BY <1>2, <1>3, <1>4, <1>5 DEF RelayInv, Sound, IsCommitted

\* Every action of the relay keeps the invariant.
LEMMA SafetyInvStep == SafetyInv /\ [Next]_vars => SafetyInv'
  <1> SUFFICES ASSUME SafetyInv, [Next]_vars PROVE RelayInv'
    BY TypeOKStep DEF SafetyInv
  <1>0. TypeOK
    BY DEF SafetyInv
  <1>T. TypeOK'
    BY <1>0, TypeOKStep
  <1>1. ASSUME NEW e \in Events, Writer(e) PROVE RelayInv'
    <2>1. UNCHANGED <<topic, wire, batch, marking>>
      BY <1>1 DEF Writer, SaveEvent, CommitTx, RollbackTx, relayVars, brokerVars
    <2>2. \A f \in Events : IsCommitted(f) => IsCommitted(f)' /\ eventType'[f] = eventType[f]
      BY <1>0, <1>1
         DEF Writer, SaveEvent, IsNextEvent, CommitTx, RollbackTx, TypeOK, IsCommitted
    <2>3. QED
      BY <1>T, <2>1, <2>2, RelayInvKept
  <1>2. ASSUME NEW p \in Publishers,
               \/ TickerFires(p) \/ Pending(p) \/ PendingFails(p) \/ Stop(p)
               \/ StopSeen(p) \/ Crash(p) \/ Start(p)
        PROVE  RelayInv'
    <2>1. UNCHANGED <<row, eventType, topic, wire>>
      BY <1>2 DEF TickerFires, Pending, PendingFails, Stop, StopSeen, Crash, Start,
                  rowVars, brokerVars
    <2>2. \A q \in Publishers : \A e \in batch'[q] : e \in batch[q] \/ row[e] = "pending"
      BY <1>0, <1>2 DEF TickerFires, Pending, PendingFails, Stop, StopSeen, Crash, Start, TypeOK
    <2>3. \A q \in Publishers : marking'[q] \in {marking[q], NoEvent}
      BY <1>0, <1>2 DEF TickerFires, Pending, PendingFails, Stop, StopSeen, Crash, Start, TypeOK
    <2>4. \A e \in Events : IsCommitted(e) => IsCommitted(e)' /\ eventType'[e] = eventType[e]
      BY <2>1 DEF IsCommitted
    <2>5. QED
      BY <1>T, <2>1, <2>2, <2>3, <2>4, RelayInvKept
  <1>3. ASSUME NEW p \in Publishers, NEW e \in Events,
               SkipUntyped(p, e) \/ PublishFails(p, e) \/ MarkFails(p, e)
        PROVE  RelayInv'
    <2>1. UNCHANGED <<row, eventType, topic, wire>>
      BY <1>3 DEF SkipUntyped, PublishFails, MarkFails, rowVars, brokerVars
    <2>2. \A q \in Publishers : \A f \in batch'[q] : f \in batch[q]
      BY <1>0, <1>3 DEF SkipUntyped, PublishFails, MarkFails, TypeOK
    <2>3. \A q \in Publishers : marking'[q] \in {marking[q], NoEvent}
      BY <1>0, <1>3 DEF SkipUntyped, PublishFails, MarkFails, TypeOK
    <2>4. \A f \in Events : IsCommitted(f) => IsCommitted(f)' /\ eventType'[f] = eventType[f]
      BY <2>1 DEF IsCommitted
    <2>5. QED
      BY <1>T, <2>1, <2>2, <2>3, <2>4, RelayInvKept
  <1>4. ASSUME NEW p \in Publishers, NEW e \in Events,
               Publish(p, e) \/ PublishAckLost(p, e) \/ PublishUnacked(p, e)
        PROVE  RelayInv'
    <2>1. /\ e \in batch[p] /\ eventType[e] # "untyped"
          /\ UNCHANGED <<row, eventType>>
          /\ batch' = [batch EXCEPT ![p] = @ \ {e}]
      BY <1>4 DEF Publish, PublishAckLost, PublishUnacked, Handles, rowVars
    <2>2. Sound(e)
      BY <2>1 DEF SafetyInv, RelayInv, Sound
    <2>3. \A q \in Publishers : marking'[q] \in {marking[q], e}
      BY <1>0, <1>4 DEF Publish, PublishAckLost, PublishUnacked, TypeOK
    <2>4. \A q \in Publishers : \A f \in batch'[q] : f \in batch[q]
      BY <1>0, <2>1 DEF TypeOK
    <2>5. topic' = topic \/ topic' = Append(topic, e)
      BY <1>4 DEF Publish, PublishAckLost, PublishUnacked
    <2>6. \A f \in Events : wire'[f] > 0 => wire[f] > 0 \/ f = e
      BY <1>0, <1>4 DEF Publish, PublishAckLost, PublishUnacked, TypeOK
    <2>7. \A f \in Events : IsCommitted(f) => IsCommitted(f)' /\ eventType'[f] = eventType[f]
      BY <2>1 DEF IsCommitted
    <2>8. QED
      BY <1>T, <2>2, <2>3, <2>4, <2>5, <2>6, <2>7, RelayInvKept
  <1>5. ASSUME NEW p \in Publishers, NEW e \in Events, MarkPublished(p, e)
        PROVE  RelayInv'
    <2>1. UNCHANGED <<eventType, topic, wire, batch>>
      BY <1>5 DEF MarkPublished, brokerVars
    <2>2. \A q \in Publishers : marking'[q] \in {marking[q], NoEvent}
      BY <1>0, <1>5 DEF MarkPublished, TypeOK
    <2>3. \A f \in Events : IsCommitted(f) => IsCommitted(f)' /\ eventType'[f] = eventType[f]
      BY <1>0, <1>5, <2>1 DEF MarkPublished, TypeOK, IsCommitted
    <2>4. QED
      BY <1>T, <2>1, <2>2, <2>3, RelayInvKept
  <1>6. ASSUME NEW e \in Events, BrokerTakes(e) \/ BrokerDrops(e) PROVE RelayInv'
    <2>1. UNCHANGED <<row, eventType, batch, marking>> /\ wire[e] > 0
      BY <1>6 DEF BrokerTakes, BrokerDrops, rowVars, relayVars
    <2>2. Sound(e)
      BY <2>1 DEF SafetyInv, RelayInv
    <2>3. topic' = topic \/ topic' = Append(topic, e)
      BY <1>6 DEF BrokerTakes, BrokerDrops
    <2>4. \A f \in Events : wire'[f] > 0 => wire[f] > 0
      BY <1>0, <1>6 DEF BrokerTakes, BrokerDrops, TypeOK
    <2>5. \A f \in Events : IsCommitted(f) => IsCommitted(f)' /\ eventType'[f] = eventType[f]
      BY <2>1 DEF IsCommitted
    <2>6. QED
      BY <1>T, <2>1, <2>2, <2>3, <2>4, <2>5, RelayInvKept
  <1>7. CASE UNCHANGED vars
    <2>1. UNCHANGED <<row, eventType, topic, wire, batch, marking>>
      BY <1>7 DEF vars
    <2>2. \A f \in Events : IsCommitted(f) => IsCommitted(f)' /\ eventType'[f] = eventType[f]
      BY <2>1 DEF IsCommitted
    <2>3. QED
      BY <1>T, <2>1, <2>2, RelayInvKept
  <1>8. QED
    BY <1>1, <1>2, <1>3, <1>4, <1>5, <1>6, <1>7 DEF Next, Handle, Poll

\* The initial state satisfies it.
LEMMA SafetyInvInit == Init => SafetyInv
  <1> SUFFICES ASSUME Init PROVE SafetyInv
    OBVIOUS
  <1>1. TypeOK
    <2>1. tick \in [Publishers -> BOOLEAN]
      BY DEF Init
    <2>2. topic \in Seq(Events)
      BY EmptySeq DEF Init
    <2>3. eventType \in [Events -> EventTypes]
      BY DEF Init, EventTypes
    <2>4. QED
      BY <2>1, <2>2, <2>3 DEF Init, TypeOK
  <1>2. RelayInv
    <2>1. \A i \in DOMAIN topic : FALSE
      <3>1. topic \in Seq(Events) /\ Len(topic) = 0
        BY EmptySeq DEF Init
      <3>2. QED
        BY <3>1
    <2>2. \A p \in Publishers : batch[p] = {} /\ marking[p] = NoEvent
      BY DEF Init
    <2>3. \A e \in Events : wire[e] = 0 /\ ~(wire[e] > 0)
      BY DEF Init
    <2>4. QED
      BY <2>1, <2>2, <2>3 DEF RelayInv
  <1>3. QED
    BY <1>1, <1>2 DEF SafetyInv

\* The inductive invariant holds in every reachable state of the relay.
THEOREM SafetyInvAlways == SafeSpec => []SafetyInv
  BY SafetyInvInit, SafetyInvStep, PTL DEF SafeSpec

\* Types are kept by every step of publishPending, the writers and the replicas.
THEOREM TypeCorrect == SafeSpec => []TypeOK
  <1>1. SafetyInv => TypeOK
    BY DEF SafetyInv
  <1>2. QED
    BY <1>1, SafetyInvAlways, PTL

\* For any number of replicas and faults, publishPending never sends an event of
\* a transaction that did not commit.
THEOREM NeverInvented == SafeSpec => []TopicIsCommitted
  <1>1. SafetyInv => TopicIsCommitted
    BY DEF SafetyInv, RelayInv, TopicIsCommitted, Sound
  <1>2. QED
    BY <1>1, SafetyInvAlways, PTL

------------------------------------------------------------------------------
(***************************************************************************)
(* Loss.  An event that is marked, or about to be, without being in the    *)
(* topic has had a write that nobody acknowledged.  LossBounded alone is   *)
(* not inductive: the mark comes a step after the write.                   *)
(***************************************************************************)
Missing == {e \in Events : ~InTopic(e) /\ (row[e] = "published" \/ \E p \in Publishers : marking[p] = e)}

LossInv == Cardinality(Missing) <= faults["unacked"] /\ faults["unacked"] <= MaxFaults["unacked"]

\* Events are finitely many, and so are those of them that are missing.
LEMMA EventsFinite ==
    ASSUME NEW S, S \subseteq Events
    PROVE  IsFiniteSet(S) /\ Cardinality(S) \in Nat
  <1>1. IsFiniteSet(Events)
    BY ConstantsAssumption, FS_Interval DEF Events
  <1>2. QED
    BY <1>1, PartIsSmaller

LEMMA MissingFinite == IsFiniteSet(Missing) /\ Cardinality(Missing) \in Nat
  <1>1. Missing \subseteq Events
    BY DEF Missing
  <1>2. QED
    BY <1>1, EventsFinite

\* A step without an unacknowledged write adds no missing event.
LEMMA LossInvKept ==
    ASSUME TypeOK, LossInv, NEW f \in Faults \ {"unacked"}, faults' = faults \/ Fault(f),
           \A e \in Events : InTopic(e) => InTopic(e)',
           \A e \in Events : row'[e] = "published"
               => row[e] = "published" \/ \E p \in Publishers : marking[p] = e,
           \A e \in Events : \A p \in Publishers :
               marking'[p] = e => marking[p] = e \/ InTopic(e)'
    PROVE  LossInv'
  <1>1. Missing' \subseteq Missing
    BY DEF Missing
  <1>2. Cardinality(Missing') \in Nat /\ Cardinality(Missing) \in Nat
        /\ Cardinality(Missing') <= Cardinality(Missing)
    BY <1>1, MissingFinite, PartIsSmaller
  <1>3. faults["unacked"] \in Nat /\ faults'["unacked"] = faults["unacked"]
    BY DEF TypeOK, Fault, Faults
  <1>4. QED
    BY <1>2, <1>3 DEF LossInv

LEMMA LossInvStep == SafetyInv /\ LossInv /\ [Next]_vars => LossInv'
  <1> SUFFICES ASSUME SafetyInv, LossInv, [Next]_vars PROVE LossInv'
    OBVIOUS
  <1>0. TypeOK
    BY DEF SafetyInv
  <1>F. {"pending", "publish", "ack", "mark", "crash", "stop"} \subseteq Faults \ {"unacked"}
    BY DEF Faults
  <1>N. \A e \in Events : e # NoEvent
    BY NoEventIsNone
  <1>1. ASSUME NEW e \in Events, Writer(e) PROVE LossInv'
    <2>1. UNCHANGED <<topic, marking, faults>>
      BY <1>1 DEF Writer, SaveEvent, CommitTx, RollbackTx, relayVars, brokerVars
    <2>2. \A f \in Events : row'[f] = "published" => row[f] = "published"
      BY <1>0, <1>1 DEF Writer, SaveEvent, CommitTx, RollbackTx, TypeOK
    <2>3. QED
      BY <1>0, <1>F, <2>1, <2>2, LossInvKept DEF InTopic
  <1>2. ASSUME NEW p \in Publishers,
               \/ TickerFires(p) \/ Pending(p) \/ PendingFails(p) \/ Stop(p)
               \/ StopSeen(p) \/ Crash(p) \/ Start(p)
        PROVE  LossInv'
    <2>1. UNCHANGED <<row, topic>>
      BY <1>2 DEF TickerFires, Pending, PendingFails, Stop, StopSeen, Crash, Start,
                  rowVars, brokerVars
    <2>2. \A q \in Publishers : marking'[q] \in {marking[q], NoEvent}
      BY <1>0, <1>2 DEF TickerFires, Pending, PendingFails, Stop, StopSeen, Crash, Start, TypeOK
    <2>3. faults' = faults \/ Fault("pending") \/ Fault("stop") \/ Fault("crash")
      BY <1>2 DEF TickerFires, Pending, PendingFails, Stop, StopSeen, Crash, Start
    <2>4. QED
      BY <1>0, <1>F, <1>N, <2>1, <2>2, <2>3, LossInvKept DEF InTopic
  <1>3. ASSUME NEW p \in Publishers, NEW e \in Events,
               SkipUntyped(p, e) \/ PublishFails(p, e) \/ MarkFails(p, e)
        PROVE  LossInv'
    <2>1. UNCHANGED <<row, topic>>
      BY <1>3 DEF SkipUntyped, PublishFails, MarkFails, rowVars, brokerVars
    <2>2. \A q \in Publishers : marking'[q] \in {marking[q], NoEvent}
      BY <1>0, <1>3 DEF SkipUntyped, PublishFails, MarkFails, TypeOK
    <2>3. faults' = faults \/ Fault("publish") \/ Fault("mark")
      BY <1>3 DEF SkipUntyped, PublishFails, MarkFails
    <2>4. QED
      BY <1>0, <1>F, <1>N, <2>1, <2>2, <2>3, LossInvKept DEF InTopic
  <1>4. ASSUME NEW p \in Publishers, NEW e \in Events, Publish(p, e) \/ PublishAckLost(p, e)
        PROVE  LossInv'
    <2>1. row' = row /\ topic' = Append(topic, e) /\ (faults' = faults \/ Fault("ack"))
      BY <1>4 DEF Publish, PublishAckLost, rowVars
    <2>2. \A q \in Publishers : marking'[q] \in {marking[q], e}
      BY <1>0, <1>4 DEF Publish, PublishAckLost, TypeOK
    <2>3. (\A f \in Events : InTopic(f) => InTopic(f)') /\ InTopic(e)'
      BY <1>0, <2>1, InTopicKept, InTopicAppended
    <2>4. QED
      BY <1>0, <1>F, <2>1, <2>2, <2>3, LossInvKept
  <1>5. ASSUME NEW p \in Publishers, NEW e \in Events, PublishUnacked(p, e) PROVE LossInv'
    <2>1. row' = row /\ topic' = topic /\ Fault("unacked")
      BY <1>5 DEF PublishUnacked, rowVars
    <2>2. \A q \in Publishers : marking'[q] \in {marking[q], e}
      BY <1>0, <1>5 DEF PublishUnacked, TypeOK
    <2>3. Missing' \subseteq Missing \union {e}
      BY <2>1, <2>2 DEF Missing, InTopic
    <2>4. /\ Cardinality(Missing') \in Nat /\ Cardinality(Missing) \in Nat
          /\ Cardinality(Missing') <= Cardinality(Missing) + 1
      BY <2>3, MissingFinite, PartButOne
    <2>5. /\ faults["unacked"] \in Nat /\ faults'["unacked"] = faults["unacked"] + 1
          /\ faults["unacked"] < MaxFaults["unacked"] /\ MaxFaults["unacked"] \in Nat
      BY <1>0, <2>1, ConstantsAssumption DEF TypeOK, Fault, Faults
    <2>6. QED
      BY <2>4, <2>5 DEF LossInv
  <1>6. ASSUME NEW p \in Publishers, NEW e \in Events, MarkPublished(p, e) PROVE LossInv'
    <2>1. UNCHANGED <<topic, faults>> /\ marking[p] = e
      BY <1>6 DEF MarkPublished, brokerVars
    <2>2. \A q \in Publishers : marking'[q] \in {marking[q], NoEvent}
      BY <1>0, <1>6 DEF MarkPublished, TypeOK
    <2>3. \A f \in Events : row'[f] = "published" => row[f] = "published" \/ f = e
      BY <1>0, <1>6 DEF MarkPublished, TypeOK
    <2>4. QED
      BY <1>0, <1>F, <1>N, <2>1, <2>2, <2>3, LossInvKept DEF InTopic
  <1>7. ASSUME NEW e \in Events, BrokerTakes(e) \/ BrokerDrops(e) PROVE LossInv'
    <2>1. UNCHANGED <<row, marking, faults>>
      BY <1>7 DEF BrokerTakes, BrokerDrops, rowVars, relayVars
    <2>2. topic' = topic \/ topic' = Append(topic, e)
      BY <1>7 DEF BrokerTakes, BrokerDrops
    <2>3. \A f \in Events : InTopic(f) => InTopic(f)'
      BY <1>0, <2>2, InTopicKept
    <2>4. QED
      BY <1>0, <1>F, <2>1, <2>3, LossInvKept
  <1>8. CASE UNCHANGED vars
    BY <1>0, <1>F, <1>8, LossInvKept DEF vars, InTopic
  <1>9. QED
    BY <1>1, <1>2, <1>3, <1>4, <1>5, <1>6, <1>7, <1>8 DEF Next, Handle, Poll

LEMMA LossInvInit == Init => LossInv
  <1> SUFFICES ASSUME Init PROVE LossInv
    OBVIOUS
  <1>1. Missing = {}
    BY NoEventIsNone DEF Init, Missing
  <1>2. faults["unacked"] = 0 /\ MaxFaults["unacked"] \in Nat
    BY ConstantsAssumption DEF Init, Faults
  <1>3. QED
    BY <1>1, <1>2, FS_EmptySet DEF LossInv

\* Every missing event has an unacknowledged write of its own.
THEOREM LossInvAlways == SafeSpec => []LossInv
  BY LossInvInit, LossInvStep, SafetyInvAlways, PTL DEF SafeSpec

\* For any number of replicas, events and faults, publishPending loses at most
\* one event for each write that nobody acknowledged: a refused message, a lost
\* answer, a failed mark, a crash or a restart loses none.
THEOREM NeverLost == SafeSpec => []LossBounded
  <1>1. TypeOK /\ LossInv => LossBounded
    <2> SUFFICES ASSUME TypeOK, LossInv PROVE LossBounded
      OBVIOUS
    <2> DEFINE Lost == {e \in Events : row[e] = "published" /\ ~InTopic(e)}
    <2>1. Lost \subseteq Missing
      BY DEF Missing
    <2>2. Cardinality(Lost) \in Nat /\ Cardinality(Missing) \in Nat
          /\ Cardinality(Lost) <= Cardinality(Missing)
      BY <2>1, MissingFinite, PartIsSmaller
    <2>3. faults["unacked"] \in Nat
      BY DEF TypeOK, Faults
    <2>4. QED
      BY <2>2, <2>3 DEF LossBounded, LossInv
  <1>2. QED
    BY <1>1, LossInvAlways, TypeCorrect, PTL

------------------------------------------------------------------------------
(***************************************************************************)
(* Order.  The row lock makes the events of an aggregate commit in         *)
(* created_at order (RowsInv); what a publisher still has to send of an    *)
(* aggregate is everything older that is not in the topic yet (BatchInv).  *)
(* A refused message breaks BatchInv and one that is late the order of the *)
(* topic, hence the assumptions of the theorem.                            *)
(***************************************************************************)
RowsInv ==
    \A e, f \in Events :
        (f < e /\ row[e] # "none")
        => /\ row[f] # "none"
           /\ row[f] = "open" => aggregate[f] # aggregate[e]

BatchInv ==
    \A p \in Publishers : \A e \in batch[p] : \A f \in Events :
        Precedes(f, e) => f \in batch[p] \/ InTopic(f)

\* Nothing is late: what is marked, or about to be, is in the topic.
PromptInv == Missing = {} /\ \A e \in Events : wire[e] = 0

OrderInv == SafetyInv /\ RowsInv /\ BatchInv /\ PromptInv /\ OrderedPerAggregate

\* Only writers change a row that has not committed; a mark changes no order.
LEMMA StepRows ==
    ASSUME SafetyInv, Next
    PROVE  \/ \E e \in Events : Writer(e)
           \/ UNCHANGED <<row, aggregate, eventType>>
           \/ \E e \in Events : /\ IsCommitted(e)
                                 /\ row' = [row EXCEPT ![e] = "published"]
                                 /\ UNCHANGED <<aggregate, eventType>>
  <1>1. ASSUME NEW p \in Publishers, NEW e \in Events, MarkPublished(p, e)
        PROVE  IsCommitted(e)
    <2>1. marking[p] = e /\ e # NoEvent
      BY <1>1, NoEventIsNone DEF MarkPublished
    <2>2. QED
      BY <2>1 DEF SafetyInv, RelayInv, Sound
  <1>2. ASSUME NEW p \in Publishers, NEW e \in Events,
               \/ SkipUntyped(p, e) \/ Publish(p, e) \/ PublishFails(p, e)
               \/ PublishUnacked(p, e) \/ PublishAckLost(p, e) \/ MarkFails(p, e)
        PROVE  UNCHANGED <<row, aggregate, eventType>>
    BY <1>2 DEF SkipUntyped, Publish, PublishFails, PublishUnacked, PublishAckLost, MarkFails, rowVars
  <1>3. ASSUME NEW p \in Publishers,
               \/ TickerFires(p) \/ Pending(p) \/ PendingFails(p) \/ Stop(p)
               \/ StopSeen(p) \/ Crash(p) \/ Start(p)
        PROVE  UNCHANGED <<row, aggregate, eventType>>
    BY <1>3 DEF TickerFires, Pending, PendingFails, Stop, StopSeen, Crash, Start, rowVars
  <1>4. ASSUME NEW e \in Events, BrokerTakes(e) \/ BrokerDrops(e)
        PROVE  UNCHANGED <<row, aggregate, eventType>>
    BY <1>4 DEF BrokerTakes, BrokerDrops, rowVars
  <1>5. QED
    BY <1>1, <1>2, <1>3, <1>4 DEF Next, Handle, Poll, MarkPublished

\* With row locks RowsInv is kept, and no step gives a committed event a new
\* predecessor: an older event of its aggregate cannot commit after it.
LEMMA RowsInvStep ==
    ASSUME RowLocks, SafetyInv, RowsInv, Next
    PROVE  /\ RowsInv'
           /\ \A e, f \in Events :
                 IsCommitted(e) /\ Precedes(f, e)' => Precedes(f, e)
  <1>0. TypeOK
    BY DEF SafetyInv
  <1>1. ASSUME NEW e \in Events, NEW a \in Aggregates, NEW t \in EventTypes,
               SaveEvent(e, a, t)
        PROVE  /\ RowsInv'
               /\ \A g, f \in Events :
                     IsCommitted(g) /\ Precedes(f, g)' => Precedes(f, g)
    BY <1>0, <1>1, ConstantsAssumption
       DEF SaveEvent, RowsInv, TypeOK, IsNextEvent, RowLockFree, Precedes, IsCommitted, Events
  <1>2. ASSUME NEW e \in Events, CommitTx(e)
        PROVE  /\ RowsInv'
               /\ \A g, f \in Events :
                     IsCommitted(g) /\ Precedes(f, g)' => Precedes(f, g)
    BY <1>0, <1>2 DEF CommitTx, RowsInv, TypeOK, Precedes, IsCommitted
  <1>3. ASSUME NEW e \in Events, RollbackTx(e)
        PROVE  /\ RowsInv'
               /\ \A g, f \in Events :
                     IsCommitted(g) /\ Precedes(f, g)' => Precedes(f, g)
    BY <1>0, <1>3 DEF RollbackTx, RowsInv, TypeOK, Precedes, IsCommitted
  <1>4. CASE UNCHANGED <<row, aggregate, eventType>>
    BY <1>4 DEF RowsInv, Precedes, IsCommitted
  <1>5. ASSUME NEW e \in Events, IsCommitted(e),
               row' = [row EXCEPT ![e] = "published"],
               UNCHANGED <<aggregate, eventType>>
        PROVE  /\ RowsInv'
               /\ \A g, f \in Events :
                     IsCommitted(g) /\ Precedes(f, g)' => Precedes(f, g)
    BY <1>0, <1>5 DEF RowsInv, TypeOK, Precedes, IsCommitted
  <1>6. QED
    BY <1>1, <1>2, <1>3, <1>4, <1>5, StepRows DEF Writer

\* BatchInv survives a step in which batches only shrink, and what leaves a
\* batch that is not dropped as a whole is in the topic or untyped.
LEMMA BatchInvKept ==
    ASSUME SafetyInv, BatchInv, TypeOK',
           \A e, f \in Events : IsCommitted(e) /\ Precedes(f, e)' => Precedes(f, e),
           \A f : InTopic(f) => InTopic(f)',
           \A p \in Publishers : batch'[p] \subseteq batch[p],
           \A p \in Publishers : \A f \in batch[p] :
               \/ f \in batch'[p] \/ InTopic(f)'
               \/ eventType'[f] = "untyped" \/ batch'[p] = {}
    PROVE  BatchInv'
  <1> SUFFICES ASSUME NEW p \in Publishers, NEW e \in batch'[p], NEW f \in Events,
                      Precedes(f, e)'
               PROVE  f \in batch'[p] \/ InTopic(f)'
    BY DEF BatchInv
  <1>1. e \in batch[p] /\ e \in Events /\ IsCommitted(e)
    BY DEF SafetyInv, TypeOK, RelayInv
  <1>2. f \in batch[p] \/ InTopic(f)
    BY <1>1 DEF BatchInv
  <1>3. eventType'[f] # "untyped"
    BY DEF Precedes
  <1>4. QED
    BY <1>2, <1>3

\* The order of the topic survives a step that leaves the topic alone.
LEMMA OrderKept ==
    ASSUME SafetyInv, OrderedPerAggregate, topic' = topic,
           \A e, f \in Events : IsCommitted(e) /\ Precedes(f, e)' => Precedes(f, e)
    PROVE  OrderedPerAggregate'
  <1> SUFFICES ASSUME NEW i \in DOMAIN topic, NEW f \in Events, Precedes(f, topic[i])'
               PROVE  \E j \in 1 .. (i - 1) : topic[j] = f
    BY DEF OrderedPerAggregate
  <1>1. topic[i] \in Events
    BY DEF SafetyInv, TypeOK
  <1>2. IsCommitted(topic[i])
    BY DEF SafetyInv, RelayInv, Sound
  <1>3. Precedes(f, topic[i])
    BY <1>1, <1>2 DEF Precedes, IsCommitted
  <1>4. QED
    BY <1>3 DEF OrderedPerAggregate

\* The message written next is of the oldest event of the batch, whose
\* predecessors are all in the topic.
LEMMA OrderAppended ==
    ASSUME OrderInv, NEW p \in Publishers, NEW e \in Events, Handles(p, e),
           topic' = Append(topic, e), UNCHANGED <<row, aggregate, eventType>>
    PROVE  OrderedPerAggregate'
  <1>0. TypeOK
    BY DEF OrderInv, SafetyInv
  <1>1. /\ DOMAIN topic = 1 .. Len(topic)
        /\ DOMAIN topic' = 1 .. (Len(topic) + 1)
        /\ Len(topic) \in Nat
        /\ \A i \in 1 .. Len(topic) : topic'[i] = topic[i]
        /\ topic'[Len(topic) + 1] = e
    BY <1>0, AppendTopic
  <1>2. \A f, g : Precedes(f, g)' => Precedes(f, g)
    BY DEF Precedes, IsCommitted
  <1> SUFFICES ASSUME NEW i \in 1 .. (Len(topic) + 1), NEW f \in Events,
                      Precedes(f, topic[i])'
               PROVE  \E j \in 1 .. (i - 1) : topic'[j] = f
    BY <1>1 DEF OrderedPerAggregate
  <1>3. CASE i \in 1 .. Len(topic)
    <2>1. topic'[i] = topic[i]
      BY <1>1, <1>3
    <2>2. Precedes(f, topic[i])
      BY <2>1 DEF Precedes, IsCommitted
    <2>3. PICK j \in 1 .. (i - 1) : topic[j] = f
      BY <1>1, <1>3, <2>2 DEF OrderInv, OrderedPerAggregate
    <2>4. j \in 1 .. Len(topic)
      BY <1>1, <1>3
    <2>5. QED
      BY <1>1, <2>3, <2>4
  <1>4. CASE i = Len(topic) + 1
    <2>1. Precedes(f, e)
      BY <1>1, <1>4 DEF Precedes, IsCommitted
    <2>2. f \in batch[p] \/ InTopic(f)
      BY <2>1 DEF OrderInv, BatchInv, Handles
    <2>3. f \notin batch[p]
      <3>1. f < e /\ \A g \in batch[p] : e <= g
        BY <2>1 DEF Handles, Precedes
      <3>2. e \in Int /\ f \in Int
        BY ConstantsAssumption DEF Events
      <3>3. QED
        BY <3>1, <3>2
    <2>4. PICK j \in 1 .. Len(topic) : topic[j] = f
      BY <1>1, <2>2, <2>3 DEF InTopic
    <2>5. j \in 1 .. (i - 1)
      BY <1>1, <1>4
    <2>6. QED
      BY <1>1, <2>4, <2>5
  <1>5. QED
    BY <1>1, <1>3, <1>4, IntervalSplit

\* Every step keeps the order when the broker refuses nothing.
LEMMA OrderInvStep ==
    ASSUME RowLocks, MaxFaults["publish"] = 0, MaxFaults["unacked"] = 0, OrderInv, Next
    PROVE  BatchInv' /\ OrderedPerAggregate'
  <1>0. TypeOK /\ SafetyInv /\ BatchInv /\ RowsInv /\ OrderedPerAggregate
    BY DEF OrderInv, SafetyInv
  <1>T. TypeOK'
    BY <1>0, TypeOKStep
  <1>P. \A e, f \in Events : IsCommitted(e) /\ Precedes(f, e)' => Precedes(f, e)
    BY <1>0, RowsInvStep
  <1>1. ASSUME UNCHANGED <<topic, batch>> PROVE BatchInv' /\ OrderedPerAggregate'
    <2>1. \A f : InTopic(f) => InTopic(f)'
      BY <1>1 DEF InTopic
    <2>2. QED
      BY <1>0, <1>T, <1>P, <1>1, <2>1, BatchInvKept, OrderKept
  <1>2. ASSUME NEW p \in Publishers, Pending(p) PROVE BatchInv' /\ OrderedPerAggregate'
    <2>1. /\ UNCHANGED <<row, aggregate, eventType, topic>>
          /\ batch' = [batch EXCEPT ![p] = {e \in Events : row[e] = "pending"}]
      BY <1>2 DEF Pending, rowVars, brokerVars
    <2>0. OrderedPerAggregate'
      BY <1>0, <1>P, <2>1, OrderKept
    <2>I. \A f : InTopic(f)' <=> InTopic(f)
      BY <2>1 DEF InTopic
    <2>R. \A e, f : Precedes(f, e)' <=> Precedes(f, e)
      BY <2>1 DEF Precedes, IsCommitted
    <2> SUFFICES ASSUME NEW q \in Publishers, NEW e \in batch'[q], NEW f \in Events,
                        Precedes(f, e)
                 PROVE  f \in batch'[q] \/ InTopic(f)
      BY <2>0, <2>I, <2>R DEF BatchInv
    <2>2. CASE q = p
      <3>1. f \in batch'[q] <=> row[f] = "pending"
        BY <2>1, <2>2, <1>0 DEF TypeOK
      <3>2. row[f] = "pending" \/ row[f] = "published"
        BY DEF Precedes, IsCommitted
      <3>3. row[f] = "published" => InTopic(f)
        BY DEF OrderInv, PromptInv, Missing
      <3>4. QED
        BY <3>1, <3>2, <3>3
    <2>3. CASE q # p
      <3>1. batch'[q] = batch[q]
        BY <2>1, <2>3, <1>0 DEF TypeOK
      <3>2. QED
        BY <3>1, <1>0 DEF BatchInv
    <2>4. QED
      BY <2>2, <2>3
  <1>3. ASSUME NEW p \in Publishers, NEW e \in Events, SkipUntyped(p, e)
        PROVE  BatchInv' /\ OrderedPerAggregate'
    <2>1. /\ UNCHANGED <<topic, eventType>> /\ eventType[e] = "untyped"
          /\ batch' = [batch EXCEPT ![p] = @ \ {e}]
      BY <1>3 DEF SkipUntyped, rowVars, brokerVars
    <2>2. \A q \in Publishers :
             /\ batch'[q] \subseteq batch[q]
             /\ \A f \in batch[q] : f \in batch'[q] \/ eventType'[f] = "untyped"
      BY <2>1, <1>0 DEF TypeOK
    <2>3. \A f : InTopic(f) => InTopic(f)'
      BY <2>1 DEF InTopic
    <2>4. QED
      BY <1>0, <1>T, <1>P, <2>1, <2>2, <2>3, BatchInvKept, OrderKept
  <1>4. ASSUME NEW p \in Publishers, NEW e \in Events,
               Publish(p, e) \/ PublishAckLost(p, e)
        PROVE  BatchInv' /\ OrderedPerAggregate'
    <2>1. /\ Handles(p, e) /\ topic' = Append(topic, e)
          /\ UNCHANGED <<row, aggregate, eventType>>
          /\ batch' = [batch EXCEPT ![p] = @ \ {e}]
      BY <1>4 DEF Publish, PublishAckLost, rowVars
    <2>2. \A f : InTopic(f) => InTopic(f)'
      BY <1>0, <2>1, InTopicKept
    <2>3. InTopic(e)'
      BY <1>0, <2>1, InTopicAppended
    <2>4. \A q \in Publishers :
             /\ batch'[q] \subseteq batch[q]
             /\ \A f \in batch[q] : f \in batch'[q] \/ InTopic(f)'
      BY <2>1, <2>3, <1>0 DEF TypeOK
    <2>5. BatchInv'
      BY <1>0, <1>T, <1>P, <2>2, <2>4, BatchInvKept
    <2>6. OrderedPerAggregate'
      BY <2>1, OrderAppended
    <2>7. QED
      BY <2>5, <2>6
  <1>5. ASSUME NEW p \in Publishers, NEW e \in Events,
               PublishFails(p, e) \/ PublishUnacked(p, e)
        PROVE  FALSE
    <2>1. faults["publish"] < 0 \/ faults["unacked"] < 0
      BY <1>5 DEF PublishFails, PublishUnacked, Fault
    <2>2. faults["publish"] \in Nat /\ faults["unacked"] \in Nat
      BY <1>0 DEF TypeOK, Faults
    <2>3. QED
      BY <2>1, <2>2
  <1>6. ASSUME NEW p \in Publishers, Crash(p) PROVE BatchInv' /\ OrderedPerAggregate'
    <2>1. topic' = topic /\ batch' = [batch EXCEPT ![p] = {}]
      BY <1>6 DEF Crash, brokerVars
    <2>2. \A q \in Publishers :
             /\ batch'[q] \subseteq batch[q]
             /\ \A f \in batch[q] : f \in batch'[q] \/ batch'[q] = {}
      BY <2>1, <1>0 DEF TypeOK
    <2>3. \A f : InTopic(f) => InTopic(f)'
      BY <2>1 DEF InTopic
    <2>4. QED
      BY <1>0, <1>T, <1>P, <2>1, <2>2, <2>3, BatchInvKept, OrderKept
  <1>7. ASSUME NEW e \in Events, Writer(e) PROVE UNCHANGED <<topic, batch>>
    BY <1>7 DEF Writer, SaveEvent, CommitTx, RollbackTx, relayVars, brokerVars
  <1>8. ASSUME NEW p \in Publishers, NEW e \in Events,
               MarkPublished(p, e) \/ MarkFails(p, e)
        PROVE  UNCHANGED <<topic, batch>>
    BY <1>8 DEF MarkPublished, MarkFails, brokerVars
  <1>9. ASSUME NEW p \in Publishers,
               \/ TickerFires(p) \/ PendingFails(p) \/ Stop(p) \/ StopSeen(p) \/ Start(p)
        PROVE  UNCHANGED <<topic, batch>>
    BY <1>9 DEF TickerFires, PendingFails, Stop, StopSeen, Start, brokerVars
  <1>10. ASSUME NEW e \in Events, BrokerTakes(e) \/ BrokerDrops(e) PROVE FALSE
    BY <1>10 DEF BrokerTakes, BrokerDrops, OrderInv, PromptInv
  <1>11. QED
    BY <1>1, <1>2, <1>3, <1>4, <1>5, <1>6, <1>7, <1>8, <1>9, <1>10 DEF Next, Handle, Poll

\* As long as every write is seen by the broker, no event is on the wire.
LEMMA PromptInvStep ==
    ASSUME MaxFaults["unacked"] = 0, SafetyInv, PromptInv, LossInv', SafetyInv', Next
    PROVE  PromptInv'
  <1>0. TypeOK /\ faults'["unacked"] \in Nat
    BY DEF SafetyInv, TypeOK, Faults
  <1>1. Missing' = {}
    <2>1. Cardinality(Missing') \in Nat /\ IsFiniteSet(Missing')
      <3>1. Missing' \subseteq Events
        BY DEF Missing
      <3>2. QED
        BY <3>1, EventsFinite
    <2>2. Cardinality(Missing') = 0
      BY <1>0, <2>1 DEF LossInv
    <2>3. QED
      BY <2>1, <2>2, FS_EmptySet
  <1>2. ASSUME NEW p \in Publishers, NEW e \in Events, PublishUnacked(p, e) PROVE FALSE
    <2>1. faults["unacked"] < 0 /\ faults["unacked"] \in Nat
      BY <1>0, <1>2 DEF PublishUnacked, Fault, TypeOK, Faults
    <2>2. QED
      BY <2>1
  <1>3. ASSUME NEW e \in Events, BrokerTakes(e) \/ BrokerDrops(e) PROVE FALSE
    BY <1>3 DEF BrokerTakes, BrokerDrops, PromptInv
  <1>4. wire' = wire
    BY <1>2, <1>3 DEF Next, Writer, Handle, Poll, SaveEvent, CommitTx, RollbackTx,
       TickerFires, Pending, PendingFails, SkipUntyped, Publish, PublishFails, PublishAckLost,
       MarkPublished, MarkFails, Stop, StopSeen, Crash, Start, brokerVars
  <1>5. QED
    BY <1>1, <1>4 DEF PromptInv

\* While the broker takes every message at once, any number of replicas that crash, lose
\* answers and fail to mark still send the events of an aggregate in order: the
\* batches they race on are all prefixes of what the row lock serialised.
THEOREM OrderTheorem ==
    ASSUME RowLocks, MaxFaults["publish"] = 0, MaxFaults["unacked"] = 0
    PROVE  SafeSpec => []OrderedPerAggregate
  <1>1. Init => OrderInv
    <2> SUFFICES ASSUME Init PROVE OrderInv
      OBVIOUS
    <2>1. SafetyInv
      BY SafetyInvInit
    <2>2. RowsInv /\ BatchInv
      BY DEF Init, RowsInv, BatchInv
    <2>3. OrderedPerAggregate
      <3>1. topic \in Seq(Events) /\ Len(topic) = 0
        BY EmptySeq DEF Init
      <3>2. QED
        BY <3>1 DEF OrderedPerAggregate
    <2>4. PromptInv
      BY NoEventIsNone DEF Init, PromptInv, Missing
    <2>5. QED
      BY <2>1, <2>2, <2>3, <2>4 DEF OrderInv
  <1>2. OrderInv /\ LossInv /\ [Next]_vars => OrderInv'
    <2> SUFFICES ASSUME OrderInv, LossInv, [Next]_vars PROVE OrderInv'
      OBVIOUS
    <2>1. SafetyInv' /\ LossInv'
      BY SafetyInvStep, LossInvStep DEF OrderInv
    <2>2. CASE Next
      BY <2>1, <2>2, OrderInvStep, RowsInvStep, PromptInvStep DEF OrderInv
    <2>3. CASE UNCHANGED vars
      <3>1. RowsInv'
        BY <2>3 DEF vars, OrderInv, RowsInv
      <3>2. (\A f : InTopic(f)' <=> InTopic(f)) /\ \A e, f : Precedes(f, e)' <=> Precedes(f, e)
        BY <2>3 DEF vars, InTopic, Precedes, IsCommitted
      <3>3. BatchInv'
        BY <2>3, <3>2 DEF vars, OrderInv, BatchInv
      <3>4. OrderedPerAggregate'
        BY <2>3 DEF vars, OrderInv, OrderedPerAggregate, Precedes, IsCommitted
      <3>5. PromptInv'
        BY <2>3 DEF vars, OrderInv, PromptInv, Missing, InTopic
      <3>6. QED
        BY <2>1, <3>1, <3>3, <3>4, <3>5 DEF OrderInv
    <2>4. QED
      BY <2>2, <2>3
  <1>3. OrderInv => OrderedPerAggregate
    BY DEF OrderInv
  <1>4. QED
    BY <1>1, <1>2, <1>3, LossInvAlways, PTL DEF SafeSpec

------------------------------------------------------------------------------
(***************************************************************************)
(* Refinement: the relay is the delivery of EventDelivery.                 *)
(***************************************************************************)

\* EventDelivery counts as this module does.
LEMMA SameCount == \A S : Delivery!Cardinality(S) = Cardinality(S)
  BY DEF Delivery!Cardinality, Cardinality

\* Every step of the relay is a commit, a delivery, an acknowledgement, a
\* forfeit or nothing at all to an observer of EventDelivery.
LEMMA DeliveryStep ==
    ASSUME SafetyInv, LossInv, LossInv', Next
    PROVE  [Delivery!Next]_(Delivery!vars)
  <1> DEFINE Committed == {e \in Events : IsCommitted(e) /\ eventType[e] # "untyped"}
             Acked == {e \in Events : row[e] = "published"}
  <1>0. TypeOK
    BY DEF SafetyInv
  <1>1. ASSUME UNCHANGED <<row, eventType, topic>> PROVE UNCHANGED Delivery!vars
    BY <1>1 DEF Delivery!vars, IsCommitted
  <1>S. \A e \in Events : Sound(e) <=> e \in Committed
    BY DEF Sound
  <1>2. ASSUME NEW e \in Events, ~IsCommitted(e), NEW s \in {"open", "aborted"},
               row' = [row EXCEPT ![e] = s], topic' = topic,
               \A f \in Events : f # e => eventType'[f] = eventType[f]
        PROVE  UNCHANGED Delivery!vars
    <2>1. Committed' = Committed
      BY <1>0, <1>2 DEF TypeOK, IsCommitted
    <2>2. Acked' = Acked
      BY <1>0, <1>2 DEF TypeOK, IsCommitted
    <2>3. QED
      BY <1>2, <2>1, <2>2 DEF Delivery!vars
  <1>3. ASSUME NEW e \in Events, CommitTx(e)
        PROVE  Delivery!Commit(e) \/ UNCHANGED Delivery!vars
    <2>1. /\ row[e] = "open" /\ row' = [row EXCEPT ![e] = "pending"]
          /\ UNCHANGED <<eventType, topic>>
      BY <1>3 DEF CommitTx, brokerVars
    <2>2. Acked' = Acked
      BY <1>0, <2>1 DEF TypeOK
    <2>3. CASE eventType[e] # "untyped"
      <3>1. Committed' = Committed \union {e}
        BY <1>0, <2>1, <2>3 DEF TypeOK, IsCommitted
      <3>2. QED
        BY <2>1, <2>2, <3>1 DEF Delivery!Commit
    <2>4. CASE eventType[e] = "untyped"
      <3>1. Committed' = Committed
        BY <1>0, <2>1, <2>4 DEF TypeOK, IsCommitted
      <3>2. QED
        BY <2>1, <2>2, <3>1 DEF Delivery!vars
    <2>5. QED
      BY <2>3, <2>4
  <1>4. ASSUME NEW e \in Events, Sound(e), topic' = Append(topic, e), UNCHANGED <<row, eventType>>
        PROVE  Delivery!Deliver(e)
    <2>1. Committed' = Committed /\ Acked' = Acked
      BY <1>4 DEF IsCommitted
    <2>2. QED
      BY <1>4, <1>S, <2>1 DEF Delivery!Deliver
  <1>5. ASSUME NEW p \in Publishers, NEW e \in Events, MarkPublished(p, e)
        PROVE  Delivery!Acknowledge(e) \/ Delivery!Forfeit(e)
    <2>1. /\ marking[p] = e /\ row' = [row EXCEPT ![e] = "published"]
          /\ UNCHANGED <<eventType, topic, faults>>
      BY <1>5 DEF MarkPublished, brokerVars
    <2>2. Sound(e)
      BY <2>1, NoEventIsNone DEF SafetyInv, RelayInv
    <2>3. Acked' = Acked \union {e}
      BY <1>0, <2>1 DEF TypeOK
    <2>4. Committed' = Committed
      BY <1>0, <2>1, <2>2 DEF TypeOK, Sound, IsCommitted
    <2>5. CASE InTopic(e)
      BY <2>1, <2>3, <2>4, <2>5 DEF Delivery!Acknowledge, Delivery!Delivered, InTopic
    <2>6. CASE ~InTopic(e)
      <3> DEFINE Given == {f \in Acked' : ~Delivery!Delivered(f)}
      <3>1. Given \subseteq Missing'
        BY <2>1 DEF Missing, InTopic, Delivery!Delivered
      <3>2. /\ Cardinality(Given) \in Nat /\ Cardinality(Missing') \in Nat
            /\ Cardinality(Given) <= Cardinality(Missing')
        <4>1. Missing' \subseteq Events
          BY DEF Missing
        <4>2. IsFiniteSet(Missing')
          BY <4>1, EventsFinite
        <4>3. QED
          BY <3>1, <4>2, PartIsSmaller
      <3>3. faults["unacked"] \in Nat /\ MaxFaults["unacked"] \in Nat
        BY <1>0, ConstantsAssumption DEF TypeOK, Faults
      <3>4. Cardinality(Given) <= MaxFaults["unacked"]
        BY <2>1, <3>2, <3>3 DEF LossInv
      <3>5. e \in Committed
        BY <1>S, <2>2
      <3>6. QED
        BY <2>1, <2>3, <2>4, <3>4, <3>5, SameCount DEF Delivery!Forfeit
    <2>7. QED
      BY <2>5, <2>6
  <1>6. ASSUME NEW e \in Events, NEW a \in Aggregates, NEW t \in EventTypes,
               SaveEvent(e, a, t)
        PROVE  UNCHANGED Delivery!vars
    <2>1. ~IsCommitted(e) /\ row' = [row EXCEPT ![e] = "open"] /\ topic' = topic
      BY <1>6 DEF SaveEvent, IsNextEvent, IsCommitted, brokerVars
    <2>2. \A f \in Events : f # e => eventType'[f] = eventType[f]
      BY <1>0, <1>6 DEF SaveEvent, TypeOK
    <2>3. QED
      BY <1>2, <2>1, <2>2
  <1>7. ASSUME NEW e \in Events, RollbackTx(e) PROVE UNCHANGED Delivery!vars
    BY <1>2, <1>7 DEF RollbackTx, IsCommitted, brokerVars
  <1>8. ASSUME NEW p \in Publishers, NEW e \in Events,
               \/ SkipUntyped(p, e) \/ PublishFails(p, e) \/ PublishUnacked(p, e)
               \/ MarkFails(p, e)
        PROVE  UNCHANGED Delivery!vars
    BY <1>1, <1>8 DEF SkipUntyped, PublishFails, PublishUnacked, MarkFails, rowVars, brokerVars
  <1>9. ASSUME NEW p \in Publishers,
               \/ TickerFires(p) \/ Pending(p) \/ PendingFails(p) \/ Stop(p)
               \/ StopSeen(p) \/ Crash(p) \/ Start(p)
        PROVE  UNCHANGED Delivery!vars
    BY <1>1, <1>9 DEF TickerFires, Pending, PendingFails, Stop, StopSeen, Crash, Start,
                      rowVars, brokerVars
  <1>10. ASSUME NEW p \in Publishers, NEW e \in Events, Publish(p, e) \/ PublishAckLost(p, e)
         PROVE  Delivery!Deliver(e)
    <2>1. /\ e \in batch[p] /\ eventType[e] # "untyped" /\ topic' = Append(topic, e)
          /\ UNCHANGED <<row, eventType>>
      BY <1>10 DEF Publish, PublishAckLost, Handles, rowVars
    <2>2. Sound(e)
      BY <2>1 DEF SafetyInv, RelayInv, Sound
    <2>3. QED
      BY <1>4, <2>1, <2>2
  <1>11. ASSUME NEW e \in Events, BrokerTakes(e) PROVE Delivery!Deliver(e)
    <2>1. topic' = Append(topic, e) /\ UNCHANGED <<row, eventType>> /\ wire[e] > 0
      BY <1>11 DEF BrokerTakes, rowVars
    <2>2. Sound(e)
      BY <2>1 DEF SafetyInv, RelayInv
    <2>3. QED
      BY <1>4, <2>1, <2>2
  <1>12. ASSUME NEW e \in Events, BrokerDrops(e) PROVE UNCHANGED Delivery!vars
    BY <1>1, <1>12 DEF BrokerDrops, rowVars
  <1>13. QED
    BY <1>3, <1>5, <1>6, <1>7, <1>8, <1>9, <1>10, <1>11, <1>12
       DEF Next, Writer, Handle, Poll, Delivery!Next

\* The relay implements the safety half of EventDelivery for any number of
\* replicas and faults: publishPending delivers committed events only and
\* acknowledges delivered events only, but for those of an unacknowledged write.
THEOREM RefinesDelivery == SafeSpec => ImplementsSafeDelivery
  <1>1. Init => Delivery!Init
    <2> SUFFICES ASSUME Init PROVE Delivery!Init
      OBVIOUS
    <2>1. \A e \in Events : row[e] = "none"
      BY DEF Init
    <2>2. QED
      BY <2>1 DEF Init, Delivery!Init, IsCommitted
  <1>2. SafetyInv /\ LossInv /\ [Next]_vars => [Delivery!Next]_(Delivery!vars)
    <2>1. UNCHANGED vars => UNCHANGED Delivery!vars
      BY DEF vars, Delivery!vars, IsCommitted
    <2>2. QED
      BY <2>1, DeliveryStep, LossInvStep
  <1>3. QED
    BY <1>1, <1>2, SafetyInvAlways, LossInvAlways, PTL DEF SafeSpec, ImplementsSafeDelivery, Delivery!SafeSpec

------------------------------------------------------------------------------
(***************************************************************************)
(* How often an event is sent.  Until a row is marked every message of its *)
(* event is either about to be marked by the replica that wrote it, or was *)
(* left behind by a lost answer, a failed mark or a crash.  From the mark  *)
(* on no replica reads the row again: only those that hold it in a batch   *)
(* may still send it.  DuplicatesBounded alone is not inductive, for it    *)
(* does not say how many replicas are still to send.                       *)
(***************************************************************************)

Losses == faults["ack"] + faults["mark"] + faults["crash"]

\* The replicas that wrote e and are about to mark it; those yet to handle it.
Marking(e) == {p \in Publishers : marking[p] = e}
Reading(e) == {p \in Publishers : e \in batch[p]}

\* The messages of e that left a producer: in the topic or on the wire.
Sent(e) == Copies(e) + wire[e]

Counted(e) ==
    /\ \A p \in Publishers : marking[p] = e => e \notin batch[p]
    /\ row[e] # "published" => Sent(e) <= Cardinality(Marking(e)) + Losses
    /\ row[e] = "published"
       => Sent(e) + Cardinality(Reading(e)) <= Cardinality(Publishers) + Losses

CountInv == \A e \in Events : Counted(e)

LEMMA ReplicasFinite ==
    ASSUME NEW S, S \subseteq Publishers
    PROVE  IsFiniteSet(S) /\ Cardinality(S) \in Nat /\ Cardinality(S) <= Cardinality(Publishers)
           /\ Cardinality(Publishers) \in Nat
  BY PartIsSmaller, ConstantsAssumption

\* A replica that marks an event has handled it.
LEMMA MarkersAndReaders ==
    ASSUME NEW S, NEW T, S \subseteq Publishers, T \subseteq Publishers, S \cap T = {}
    PROVE  Cardinality(S) + Cardinality(T) <= Cardinality(Publishers)
  <1>1. IsFiniteSet(S) /\ IsFiniteSet(T) /\ S \union T \subseteq Publishers
    BY ReplicasFinite
  <1>2. Cardinality(S \union T) = Cardinality(S) + Cardinality(T) - Cardinality(S \cap T)
    BY <1>1, FS_Union
  <1>3. Cardinality(S \cap T) = 0
    BY FS_EmptySet
  <1>4. Cardinality(S) \in Nat /\ Cardinality(T) \in Nat /\ Cardinality(S \union T) <= Cardinality(Publishers)
    BY <1>1, ReplicasFinite
  <1>5. QED
    BY <1>2, <1>3, <1>4

LEMMA CopiesCount ==
    ASSUME TypeOK, NEW e
    PROVE  IsFiniteSet({i \in DOMAIN topic : topic[i] = e}) /\ Copies(e) \in Nat
  <1>1. DOMAIN topic = 1 .. Len(topic) /\ Len(topic) \in Nat
    BY DEF TypeOK
  <1>2. IsFiniteSet(DOMAIN topic)
    BY <1>1, FS_Interval
  <1>3. QED
    BY <1>2, PartIsSmaller DEF Copies

LEMMA CopiesAppend ==
    ASSUME TypeOK, NEW e \in Events, NEW f \in Events, topic' = Append(topic, f)
    PROVE  Copies(e)' = IF e = f THEN Copies(e) + 1 ELSE Copies(e)
  <1> DEFINE n == Len(topic)
             S == {i \in DOMAIN topic : topic[i] = e}
             T == {i \in DOMAIN topic' : topic'[i] = e}
  <1>1. /\ DOMAIN topic = 1 .. n /\ DOMAIN topic' = 1 .. (n + 1) /\ n \in Nat
        /\ \A i \in 1 .. n : topic'[i] = topic[i]
        /\ topic'[n + 1] = f
    BY AppendTopic
  <1> HIDE DEF n
  <1>2. \A i : i \in 1 .. (n + 1) <=> i \in 1 .. n \/ i = n + 1
    BY <1>1
  <1>3. n + 1 \notin S
    BY <1>1
  <1>4. CASE e = f
    <2>1. T = S \union {n + 1}
      BY <1>1, <1>2, <1>4
    <2>2. IsFiniteSet(S) /\ Copies(e) = Cardinality(S) /\ Copies(e)' = Cardinality(T)
      BY CopiesCount DEF Copies
    <2> HIDE DEF S, T
    <2>3. Cardinality(S \union {n + 1}) = Cardinality(S) + 1
      BY <1>3, <2>2, OneMore
    <2>4. QED
      BY <1>4, <2>1, <2>2, <2>3
  <1>5. CASE e # f
    <2>1. T = S
      BY <1>1, <1>2, <1>5
    <2>2. QED
      BY <1>5, <2>1 DEF Copies
  <1>6. QED
    BY <1>4, <1>5

LEMMA SentCount ==
    ASSUME TypeOK, NEW e \in Events
    PROVE  Sent(e) \in Nat /\ Copies(e) \in Nat /\ wire[e] \in Nat
  <1>1. Copies(e) \in Nat
    BY CopiesCount
  <1>2. wire[e] \in Nat
    BY DEF TypeOK
  <1>3. QED
    BY <1>1, <1>2 DEF Sent

\* A message joins the topic, or the wire.
LEMMA SentOneMore ==
    ASSUME TypeOK, NEW f \in Events, NEW e \in Events,
           \/ topic' = Append(topic, f) /\ wire' = wire
           \/ topic' = topic /\ wire' = [wire EXCEPT ![f] = @ + 1]
    PROVE  Sent(e)' = IF e = f THEN Sent(e) + 1 ELSE Sent(e)
  <1>0. Copies(e) \in Nat /\ wire[e] \in Nat
    BY SentCount
  <1>1. CASE topic' = Append(topic, f) /\ wire' = wire
    <2>1. Copies(e)' = IF e = f THEN Copies(e) + 1 ELSE Copies(e)
      BY <1>1, CopiesAppend
    <2>2. QED
      BY <1>0, <1>1, <2>1 DEF Sent
  <1>2. CASE topic' = topic /\ wire' = [wire EXCEPT ![f] = @ + 1]
    <2>1. Copies(e)' = Copies(e)
      BY <1>2 DEF Copies
    <2>2. wire'[e] = IF e = f THEN wire[e] + 1 ELSE wire[e]
      BY <1>2 DEF TypeOK
    <2>3. QED
      BY <1>0, <2>1, <2>2 DEF Sent
  <1>3. QED
    BY <1>1, <1>2

LEMMA LossesStep ==
    ASSUME TypeOK, NEW f \in Faults, faults' = faults \/ Fault(f)
    PROVE  /\ Losses \in Nat /\ Losses' \in Nat /\ Losses <= Losses'
           /\ (Fault(f) /\ f \in {"ack", "mark", "crash"}) => Losses' = Losses + 1
  <1>1. faults["ack"] \in Nat /\ faults["mark"] \in Nat /\ faults["crash"] \in Nat
    BY DEF TypeOK, Faults
  <1>2. CASE faults' = faults /\ ~Fault(f)
    BY <1>1, <1>2 DEF Losses
  <1>3. CASE Fault(f)
    <2>1. \A g \in Faults : faults'[g] = IF g = f THEN faults[g] + 1 ELSE faults[g]
      BY <1>3 DEF Fault, TypeOK
    <2>2. QED
      BY <1>1, <2>1 DEF Losses, Faults
  <1>4. QED
    BY <1>2, <1>3

\* What the counts need of a step: f was written to the topic, or nothing was;
\* replicas left the markers of e only if p did and that is a loss, and none
\* joined the readers of a row already marked.
LEMMA CountedKept ==
    ASSUME TypeOK, NEW e \in Events, Counted(e),
           Sent(e)' \in Nat, Sent(e)' <= Sent(e),
           \A q \in Publishers : marking'[q] = e => e \notin batch'[q],
           row'[e] = "published" <=> row[e] = "published",
           Losses \in Nat, Losses' \in Nat,
           \/ Losses <= Losses' /\ Marking(e) \subseteq Marking(e)'
           \/ Losses' = Losses + 1 /\ \E p \in Publishers : Marking(e) \subseteq Marking(e)' \union {p},
           row[e] = "published" => Reading(e)' \subseteq Reading(e)
    PROVE  Counted(e)'
  <1>1. /\ Marking(e) \subseteq Publishers /\ Marking(e)' \subseteq Publishers
        /\ Reading(e) \subseteq Publishers /\ Reading(e)' \subseteq Publishers
    BY DEF Marking, Reading
  <1>2. /\ IsFiniteSet(Marking(e)') /\ IsFiniteSet(Reading(e))
        /\ Cardinality(Marking(e)) \in Nat /\ Cardinality(Marking(e)') \in Nat
        /\ Cardinality(Reading(e)) \in Nat /\ Cardinality(Reading(e)') \in Nat
        /\ Cardinality(Publishers) \in Nat
    BY <1>1, ReplicasFinite
  <1>3. Sent(e) \in Nat
    BY SentCount
  <1>4. CASE row[e] # "published"
    <2>1. Sent(e) <= Cardinality(Marking(e)) + Losses
      BY <1>4 DEF Counted
    <2>2. Cardinality(Marking(e)) + Losses <= Cardinality(Marking(e)') + Losses'
      <3>1. CASE Losses <= Losses' /\ Marking(e) \subseteq Marking(e)'
        <4>1. Cardinality(Marking(e)) <= Cardinality(Marking(e)')
          BY <1>2, <3>1, PartIsSmaller
        <4>2. QED
          BY <1>2, <3>1, <4>1
      <3>2. ASSUME Losses' = Losses + 1, NEW p \in Publishers, Marking(e) \subseteq Marking(e)' \union {p}
            PROVE  Cardinality(Marking(e)) + Losses <= Cardinality(Marking(e)') + Losses'
        <4>1. Cardinality(Marking(e)) <= Cardinality(Marking(e)') + 1
          BY <1>2, <3>2, PartButOne
        <4>2. QED
          BY <1>2, <3>2, <4>1
      <3>3. QED
        BY <3>1, <3>2
    <2>3. Sent(e)' <= Cardinality(Marking(e)') + Losses'
      BY <1>2, <1>3, <2>1, <2>2
    <2>4. QED
      BY <1>4, <2>3 DEF Counted
  <1>5. CASE row[e] = "published"
    <2>1. Sent(e) + Cardinality(Reading(e)) <= Cardinality(Publishers) + Losses
      BY <1>5 DEF Counted
    <2>2. Cardinality(Reading(e)') <= Cardinality(Reading(e))
      BY <1>2, <1>5, PartIsSmaller
    <2>3. Losses <= Losses'
      OBVIOUS
    <2>4. Sent(e)' + Cardinality(Reading(e)') <= Cardinality(Publishers) + Losses'
      BY <1>2, <1>3, <2>1, <2>2, <2>3
    <2>5. QED
      BY <1>5, <2>4 DEF Counted
  <1>6. QED
    BY <1>4, <1>5

\* A step in which no replica writes or marks, and nothing is lost.
LEMMA CountQuiet ==
    ASSUME TypeOK, CountInv, NEW f \in Faults, faults' = faults \/ Fault(f),
           UNCHANGED <<topic, wire>>,
           \A e \in Events : row'[e] = "published" <=> row[e] = "published",
           \A q \in Publishers : marking'[q] = marking[q],
           \A q \in Publishers : \/ batch'[q] \subseteq batch[q]
                                 \/ /\ marking[q] = NoEvent
                                    /\ \A e \in batch'[q] : row[e] # "published"
    PROVE  CountInv'
  <1> SUFFICES ASSUME NEW e \in Events PROVE Counted(e)'
    BY DEF CountInv
  <1>1. Counted(e) /\ Sent(e)' = Sent(e) /\ Sent(e) \in Nat
    BY SentCount DEF CountInv, Sent, Copies
  <1>2. Losses \in Nat /\ Losses' \in Nat /\ Losses <= Losses'
    BY LossesStep
  <1>3. Marking(e) \subseteq Marking(e)'
    BY DEF Marking
  <1>4. row[e] = "published" => Reading(e)' \subseteq Reading(e)
    BY DEF Reading
  <1>5. \A q \in Publishers : marking'[q] = e => e \notin batch'[q]
    BY <1>1, NoEventIsNone DEF Counted
  <1>6. QED
    BY <1>1, <1>2, <1>3, <1>4, <1>5, CountedKept

\* The replica p gives up what it was about to mark, and that is a loss.
LEMMA CountLoss ==
    ASSUME TypeOK, CountInv, NEW p \in Publishers, NEW f \in {"mark", "crash"}, Fault(f),
           UNCHANGED <<topic, wire, row>>, marking' = [marking EXCEPT ![p] = NoEvent],
           \A q \in Publishers : batch'[q] \subseteq batch[q]
    PROVE  CountInv'
  <1> SUFFICES ASSUME NEW e \in Events PROVE Counted(e)'
    BY DEF CountInv
  <1>1. Counted(e) /\ Sent(e)' = Sent(e) /\ Sent(e) \in Nat
    BY SentCount DEF CountInv, Sent, Copies
  <1>2. Losses \in Nat /\ Losses' \in Nat /\ Losses' = Losses + 1
    BY LossesStep DEF Faults
  <1>3. \A q \in Publishers : marking'[q] = IF q = p THEN NoEvent ELSE marking[q]
    BY DEF TypeOK
  <1>4. Marking(e) \subseteq Marking(e)' \union {p} /\ Reading(e)' \subseteq Reading(e)
    BY <1>3 DEF Marking, Reading
  <1>5. \A q \in Publishers : marking'[q] = e => e \notin batch'[q]
    BY <1>1, <1>3, NoEventIsNone DEF Counted
  <1>6. QED
    BY <1>1, <1>2, <1>4, <1>5, CountedKept

\* The replica p takes the event f from its batch and writes it.
LEMMA CountWrites ==
    ASSUME TypeOK, CountInv, NEW p \in Publishers, NEW f \in Events, f \in batch[p],
           marking[p] = NoEvent, row' = row, batch' = [batch EXCEPT ![p] = @ \ {f}],
           \/ topic' = Append(topic, f) /\ wire' = wire
           \/ topic' = topic /\ wire' = [wire EXCEPT ![f] = @ + 1],
           \/ (faults' = faults \/ Fault("unacked")) /\ marking' = [marking EXCEPT ![p] = f]
           \/ Fault("ack") /\ marking' = marking
    PROVE  CountInv'
  <1> SUFFICES ASSUME NEW e \in Events PROVE Counted(e)'
    BY DEF CountInv
  <1>0. /\ \A q \in Publishers : batch'[q] = IF q = p THEN batch[p] \ {f} ELSE batch[q]
        /\ \A q \in Publishers : marking'[q] \in {marking[q], IF q = p THEN f ELSE marking[q]}
        /\ marking[p] = NoEvent /\ NoEvent # e
    BY NoEventIsNone DEF TypeOK
  <1>1. Counted(e) /\ Sent(e) \in Nat
    BY SentCount DEF CountInv
  <1>2. /\ Losses \in Nat /\ Losses' \in Nat /\ Losses <= Losses'
        /\ Losses' = Losses + 1 \/ marking' = [marking EXCEPT ![p] = f]
    BY LossesStep DEF Faults
  <1>3. \A q \in Publishers : marking'[q] = e => e \notin batch'[q]
    BY <1>0, <1>1 DEF Counted
  <1>4. /\ IsFiniteSet(Marking(e)) /\ IsFiniteSet(Marking(e)') /\ IsFiniteSet(Reading(e)')
        /\ Cardinality(Marking(e)) \in Nat /\ Cardinality(Marking(e)') \in Nat
        /\ Cardinality(Reading(e)) \in Nat /\ Cardinality(Reading(e)') \in Nat
        /\ Cardinality(Publishers) \in Nat
    BY ReplicasFinite DEF Marking, Reading
  <1>5. Marking(e) \subseteq Marking(e)' /\ Reading(e)' \subseteq Reading(e)
    BY <1>0 DEF Marking, Reading
  <1>6. CASE e # f
    <2>1. Sent(e)' = Sent(e)
      BY <1>6, SentOneMore
    <2>2. QED
      BY <1>1, <1>2, <1>3, <1>5, <2>1, CountedKept
  <1>7. CASE e = f
    <2>1. Sent(e)' = Sent(e) + 1
      BY <1>7, SentOneMore
    <2>2. CASE row[e] # "published"
      <3>1. Sent(e) <= Cardinality(Marking(e)) + Losses
        BY <1>1, <2>2 DEF Counted
      <3>2. Cardinality(Marking(e)) + Losses + 1 <= Cardinality(Marking(e)') + Losses'
        <4>1. CASE Losses' = Losses + 1
          <5>1. Cardinality(Marking(e)) <= Cardinality(Marking(e)')
            BY <1>4, <1>5, PartIsSmaller
          <5>2. QED
            BY <1>2, <1>4, <4>1, <5>1
        <4>2. CASE marking' = [marking EXCEPT ![p] = f]
          <5>1. \A q \in Publishers : marking'[q] = IF q = p THEN f ELSE marking[q]
            BY <4>2 DEF TypeOK
          <5>2. Marking(e)' = Marking(e) \union {p} /\ p \notin Marking(e)
            BY <1>0, <1>7, <5>1 DEF Marking
          <5>3. Cardinality(Marking(e)') = Cardinality(Marking(e)) + 1
            BY <1>4, <5>2, OneMore
          <5>4. QED
            BY <1>2, <1>4, <5>3
        <4>3. QED
          BY <1>2, <4>1, <4>2
      <3>3. Sent(e)' <= Cardinality(Marking(e)') + Losses'
        BY <1>1, <1>2, <1>4, <2>1, <3>1, <3>2
      <3>4. QED
        BY <1>3, <2>2, <3>3 DEF Counted
    <2>3. CASE row[e] = "published"
      <3>1. Sent(e) + Cardinality(Reading(e)) <= Cardinality(Publishers) + Losses
        BY <1>1, <2>3 DEF Counted
      <3>2. Reading(e) = Reading(e)' \union {p} /\ p \notin Reading(e)'
        BY <1>0, <1>7 DEF Reading
      <3>3. Cardinality(Reading(e)) = Cardinality(Reading(e)') + 1
        BY <1>4, <3>2, OneMore
      <3>4. Sent(e)' + Cardinality(Reading(e)') <= Cardinality(Publishers) + Losses'
        BY <1>1, <1>2, <1>4, <2>1, <3>1, <3>3
      <3>5. QED
        BY <1>3, <2>3, <3>4 DEF Counted
    <2>4. QED
      BY <2>2, <2>3
  <1>8. QED
    BY <1>6, <1>7

\* The replica p marks the row f: whoever is to send f again has read it already.
LEMMA CountMarks ==
    ASSUME TypeOK, CountInv, NEW p \in Publishers, NEW f \in Events, MarkPublished(p, f)
    PROVE  CountInv'
  <1> SUFFICES ASSUME NEW e \in Events PROVE Counted(e)'
    BY DEF CountInv
  <1>0. /\ topic' = topic /\ wire' = wire /\ batch' = batch /\ faults' = faults /\ marking[p] = f
        /\ \A g \in Events : row'[g] = IF g = f THEN "published" ELSE row[g]
        /\ \A q \in Publishers : marking'[q] = IF q = p THEN NoEvent ELSE marking[q]
    BY DEF MarkPublished, TypeOK, brokerVars
  <1>1. Counted(e) /\ Sent(e)' = Sent(e) /\ Sent(e) \in Nat
    BY <1>0, SentCount DEF CountInv, Sent, Copies
  <1>2. Losses \in Nat /\ Losses' = Losses
    BY <1>0, LossesStep DEF Losses, Faults
  <1>3. \A q \in Publishers : marking'[q] = e => e \notin batch'[q]
    BY <1>0, <1>1, NoEventIsNone DEF Counted
  <1>4. Reading(e)' = Reading(e)
    BY <1>0 DEF Reading
  <1>5. CASE e # f
    <2>1. Marking(e) \subseteq Marking(e)'
      BY <1>0, <1>5 DEF Marking
    <2>2. QED
      BY <1>0, <1>1, <1>2, <1>3, <1>4, <1>5, <2>1, CountedKept
  <1>6. CASE e = f
    <2>1. /\ Cardinality(Marking(e)) \in Nat /\ Cardinality(Reading(e)) \in Nat
          /\ Cardinality(Publishers) \in Nat
      BY ReplicasFinite DEF Marking, Reading
    <2>2. Cardinality(Marking(e)) + Cardinality(Reading(e)) <= Cardinality(Publishers)
      BY <1>1, MarkersAndReaders DEF Counted, Marking, Reading
    <2>3. Sent(e) + Cardinality(Reading(e)) <= Cardinality(Publishers) + Losses
      <3>1. CASE row[e] = "published"
        BY <1>1, <3>1 DEF Counted
      <3>2. CASE row[e] # "published"
        <4>1. Sent(e) <= Cardinality(Marking(e)) + Losses
          BY <1>1, <3>2 DEF Counted
        <4>2. QED
          BY <1>1, <1>2, <2>1, <2>2, <4>1
      <3>3. QED
        BY <3>1, <3>2
    <2>4. row'[e] = "published"
      BY <1>0, <1>6
    <2>5. QED
      BY <1>1, <1>2, <1>3, <1>4, <2>3, <2>4 DEF Counted
  <1>7. QED
    BY <1>5, <1>6

\* The broker takes a message from the wire or drops it.
LEMMA CountBroker ==
    ASSUME TypeOK, CountInv, NEW f \in Events, BrokerTakes(f) \/ BrokerDrops(f)
    PROVE  CountInv'
  <1> SUFFICES ASSUME NEW e \in Events PROVE Counted(e)'
    BY DEF CountInv
  <1>0. /\ UNCHANGED <<row, batch, marking, faults>>
        /\ wire[f] > 0 /\ \A g \in Events : wire'[g] = IF g = f THEN wire[g] - 1 ELSE wire[g]
        /\ topic' = topic \/ topic' = Append(topic, f)
    BY DEF BrokerTakes, BrokerDrops, rowVars, relayVars, TypeOK
  <1>1. Counted(e) /\ Sent(e) \in Nat /\ Copies(e) \in Nat /\ wire[e] \in Nat
    BY SentCount DEF CountInv
  <1>2. Copies(e)' = Copies(e) \/ (e = f /\ Copies(e)' = Copies(e) + 1)
    <2>1. CASE topic' = topic
      BY <2>1 DEF Copies
    <2>2. CASE topic' = Append(topic, f)
      BY <2>2, CopiesAppend
    <2>3. QED
      BY <1>0, <2>1, <2>2
  <1>3. Sent(e)' \in Nat /\ Sent(e)' <= Sent(e)
    BY <1>0, <1>1, <1>2 DEF Sent
  <1>4. Losses \in Nat /\ Losses' \in Nat /\ Losses <= Losses'
    BY <1>0, LossesStep DEF Losses, Faults
  <1>5. Marking(e)' = Marking(e) /\ Reading(e)' = Reading(e)
    BY <1>0 DEF Marking, Reading
  <1>6. \A q \in Publishers : marking'[q] = e => e \notin batch'[q]
    BY <1>0, <1>1 DEF Counted
  <1>7. QED
    BY <1>0, <1>1, <1>3, <1>4, <1>5, <1>6, CountedKept

LEMMA CountInvStep == TypeOK /\ CountInv /\ [Next]_vars => CountInv'
  <1> SUFFICES ASSUME TypeOK, CountInv, [Next]_vars PROVE CountInv'
    OBVIOUS
  <1>0. Faults = {"pending", "publish", "unacked", "ack", "mark", "crash", "stop"}
    BY DEF Faults
  <1>1. ASSUME NEW e \in Events, Writer(e) PROVE CountInv'
    <2>1. /\ UNCHANGED <<topic, wire, batch, marking, faults>>
          /\ \E s \in {"open", "pending", "aborted"} : row' = [row EXCEPT ![e] = s]
          /\ row[e] # "published"
      BY <1>1 DEF Writer, SaveEvent, IsNextEvent, CommitTx, RollbackTx, relayVars, brokerVars
    <2>2. \A f \in Events : row'[f] = "published" <=> row[f] = "published"
      BY <2>1 DEF TypeOK
    <2>3. QED
      BY <1>0, <2>1, <2>2, CountQuiet
  <1>2. ASSUME NEW p \in Publishers,
               TickerFires(p) \/ PendingFails(p) \/ Stop(p) \/ StopSeen(p) \/ Start(p)
        PROVE  CountInv'
    <2>1. /\ UNCHANGED <<row, topic, wire, batch, marking>>
          /\ faults' = faults \/ Fault("pending") \/ Fault("stop")
      BY <1>2 DEF TickerFires, PendingFails, Stop, StopSeen, Start, rowVars, brokerVars
    <2>2. QED
      BY <1>0, <2>1, CountQuiet
  <1>3. ASSUME NEW p \in Publishers, Pending(p) PROVE CountInv'
    <2>1. /\ UNCHANGED <<row, topic, wire, marking, faults>> /\ marking[p] = NoEvent
          /\ batch' = [batch EXCEPT ![p] = {e \in Events : row[e] = "pending"}]
      BY <1>3 DEF Pending, AtSelect, rowVars, brokerVars
    <2>2. \A q \in Publishers : batch'[q] = IF q = p THEN {e \in Events : row[e] = "pending"}
                                                     ELSE batch[q]
      BY <2>1 DEF TypeOK
    <2>3. QED
      BY <1>0, <2>1, <2>2, CountQuiet
  <1>4. ASSUME NEW p \in Publishers, NEW e \in Events, SkipUntyped(p, e) \/ PublishFails(p, e)
        PROVE  CountInv'
    <2>1. /\ UNCHANGED <<row, topic, wire, marking>> /\ (faults' = faults \/ Fault("publish"))
          /\ batch' = [batch EXCEPT ![p] = @ \ {e}]
      BY <1>4 DEF SkipUntyped, PublishFails, rowVars, brokerVars
    <2>2. \A q \in Publishers : batch'[q] \subseteq batch[q]
      BY <2>1 DEF TypeOK
    <2>3. QED
      BY <1>0, <2>1, <2>2, CountQuiet
  <1>5. ASSUME NEW p \in Publishers, NEW e \in Events,
               Publish(p, e) \/ PublishAckLost(p, e) \/ PublishUnacked(p, e)
        PROVE  CountInv'
    BY <1>5, CountWrites DEF Publish, PublishAckLost, PublishUnacked, Handles, rowVars
  <1>6. ASSUME NEW p \in Publishers, NEW e \in Events, MarkPublished(p, e) PROVE CountInv'
    BY <1>6, CountMarks
  <1>7. ASSUME NEW p \in Publishers, NEW e \in Events, MarkFails(p, e) PROVE CountInv'
    BY <1>7, CountLoss DEF MarkFails, rowVars, brokerVars
  <1>8. ASSUME NEW p \in Publishers, Crash(p) PROVE CountInv'
    <2>1. /\ UNCHANGED <<row, topic, wire>> /\ Fault("crash")
          /\ marking' = [marking EXCEPT ![p] = NoEvent] /\ batch' = [batch EXCEPT ![p] = {}]
      BY <1>8 DEF Crash, rowVars, brokerVars
    <2>2. \A q \in Publishers : batch'[q] \subseteq batch[q]
      BY <2>1 DEF TypeOK
    <2>3. QED
      BY <2>1, <2>2, CountLoss
  <1>9. ASSUME NEW e \in Events, BrokerTakes(e) \/ BrokerDrops(e) PROVE CountInv'
    BY <1>9, CountBroker
  <1>10. CASE UNCHANGED vars
    BY <1>0, <1>10, CountQuiet DEF vars
  <1>11. QED
    BY <1>1, <1>2, <1>3, <1>4, <1>5, <1>6, <1>7, <1>8, <1>9, <1>10 DEF Next, Handle, Poll

LEMMA CountInvInit == Init => CountInv
  <1> SUFFICES ASSUME Init, NEW e \in Events PROVE Counted(e)
    BY DEF CountInv
  <1>1. {i \in DOMAIN topic : topic[i] = e} = {}
    <2>1. topic \in Seq(Events) /\ Len(topic) = 0
      BY EmptySeq DEF Init
    <2>2. QED
      BY <2>1
  <1>2. Sent(e) = 0
    <2>1. Copies(e) = 0 /\ wire[e] = 0
      BY <1>1, FS_EmptySet DEF Copies, Init
    <2>2. QED
      BY <2>1 DEF Sent
  <1>3. Losses = 0 /\ row[e] # "published" /\ \A p \in Publishers : e \notin batch[p]
    <2>1. faults["ack"] = 0 /\ faults["mark"] = 0 /\ faults["crash"] = 0
      BY DEF Init, Faults
    <2>2. row[e] # "published" /\ \A p \in Publishers : e \notin batch[p]
      BY DEF Init
    <2>3. QED
      BY <2>1, <2>2 DEF Losses
  <1>4. Cardinality(Marking(e)) \in Nat
    BY ReplicasFinite DEF Marking
  <1>5. QED
    BY <1>2, <1>3, <1>4 DEF Counted

\* Every message in the topic is accounted for by a replica or by a fault.
THEOREM CountInvAlways == SafeSpec => []CountInv
  BY CountInvInit, CountInvStep, TypeCorrect, PTL DEF SafeSpec

\* For any number of replicas, publishPending sends an event at most once for
\* each of them, and once more for each lost answer, failed mark or crash.
THEOREM DuplicatesAreBounded == SafeSpec => []DuplicatesBounded
  <1>1. TypeOK /\ CountInv => DuplicatesBounded
    <2> SUFFICES ASSUME TypeOK, CountInv, NEW e \in Events
                 PROVE  Copies(e) <= Cardinality(Publishers) + faults["ack"] + faults["mark"]
                                       + faults["crash"]
      BY DEF DuplicatesBounded
    <2>0. faults["ack"] \in Nat /\ faults["mark"] \in Nat /\ faults["crash"] \in Nat
      BY DEF TypeOK, Faults
    <2>1. /\ Cardinality(Marking(e)) \in Nat /\ Cardinality(Reading(e)) \in Nat
          /\ Cardinality(Publishers) \in Nat
          /\ Cardinality(Marking(e)) <= Cardinality(Publishers)
      BY ReplicasFinite DEF Marking, Reading
    <2>2. Copies(e) \in Nat /\ Copies(e) <= Sent(e) /\ Sent(e) \in Nat /\ Losses \in Nat /\ Counted(e)
      <3>1. Copies(e) \in Nat /\ Copies(e) <= Sent(e) /\ Sent(e) \in Nat
        BY SentCount DEF Sent
      <3>2. Losses \in Nat
        BY <2>0 DEF Losses
      <3>3. Counted(e)
        BY DEF CountInv
      <3>4. QED
        BY <3>1, <3>2, <3>3
    <2>3. CASE row[e] = "published"
      <3>1. Sent(e) + Cardinality(Reading(e)) <= Cardinality(Publishers) + Losses
        BY <2>2, <2>3 DEF Counted
      <3>2. QED
        BY <2>0, <2>1, <2>2, <3>1 DEF Losses
    <2>4. CASE row[e] # "published"
      <3>1. Sent(e) <= Cardinality(Marking(e)) + Losses
        BY <2>2, <2>4 DEF Counted
      <3>2. QED
        BY <2>0, <2>1, <2>2, <3>1 DEF Losses
    <2>5. QED
      BY <2>3, <2>4
  <1>2. QED
    BY <1>1, CountInvAlways, TypeCorrect, PTL
==============================================================================
