------------------------- MODULE ReportConsumerProofs -------------------------
(***************************************************************************)
(* Theorems about ReportConsumer, for any finite set of replicas and any   *)
(* number of messages, crashes, rebalances, evictions, lost and late marks *)
(* and database errors.                                                    *)
(***************************************************************************)
EXTENDS ReportConsumer, SequenceTheorems, FiniteSetTheorems, TLAPS

Places == {"down", "idle", "handle", "rewrite", "upsert", "stopped"}

ConsumerTypeOK ==
    /\ log \in Seq(Shapes) /\ Len(log) <= MaxMessages
    /\ committed \in Nat \union {Fresh}
    /\ owner \in Replicas \union {NoReplica}
    /\ holds \subseteq Replicas
    /\ proc \in [Replicas -> Places]
    /\ at \in [Replicas -> Nat]
    /\ position \in [Replicas -> Nat]
    /\ marked \in Nat \union {Fresh}
    /\ late \in [Replicas -> Nat \union {Fresh}]
    /\ runs \in [Offsets -> Nat]
    /\ crashes \in Nat /\ lapses \in Nat

\* An offset has ended, or is in a handler.
Seen(o) == o \in ended \/ \E c \in Replicas : Handling(c) /\ at[c] = o

\* The group may commit n: nothing up to n is still to be handed out.
Passed(n) == n <= Len(log) /\ \A o \in 1..n : Seen(o)

\* Every reader, every mark and the broker stand where the group has passed.
PassedInv ==
    /\ \A c \in holds : Passed(position[c])
    /\ \A c \in Replicas : Passed(late[c])
    /\ Passed(marked) /\ Passed(committed)

\* The readers that have offset o still before them.
Behind(o) == {c \in holds : position[c] < o}

\* The next owner would be handed o, and the present one has passed it.
Again(o) ==
    /\ Resume(Flushed) < o
    /\ owner # NoReplica => o <= position[owner]

Due(o) == IF Again(o) THEN 1 ELSE 0

\* The deliveries of o: those that happened and those still to come if no process
\* crashes and no mark lapses from now on.
Load(o) == runs[o] + Cardinality(Behind(o)) + Due(o)

\* Each crash and each lapse pays for one delivery.
RunInv ==
    /\ owner # NoReplica => owner \in holds
    /\ \A o \in Offsets : Load(o) <= 1 + crashes + lapses

ConsumerInv == ConsumerTypeOK /\ PassedInv /\ RunInv

------------------------------------------------------------------------------
(* Counting. *)

\* A subset has no more elements.
LEMMA FewerMembers ==
    ASSUME NEW S, IsFiniteSet(S), NEW T, T \subseteq S
    PROVE  Cardinality(T) \in Nat /\ Cardinality(S) \in Nat /\ Cardinality(T) <= Cardinality(S)
  BY FS_Subset, FS_CardinalityType

\* One more member, one more element at most.
LEMMA OneMore ==
    ASSUME NEW S, IsFiniteSet(S), NEW x, NEW T, T \subseteq S \union {x}
    PROVE  Cardinality(T) \in Nat /\ Cardinality(S) \in Nat /\ Cardinality(T) <= Cardinality(S) + 1
  <1>1. /\ IsFiniteSet(S \union {x})
        /\ Cardinality(S \union {x}) = Cardinality(S) \/ Cardinality(S \union {x}) = Cardinality(S) + 1
    BY FS_AddElement
  <1>2. QED
    BY <1>1, FewerMembers, FS_CardinalityType

\* A set that has lost a member is smaller by one.
LEMMA OneLess ==
    ASSUME NEW S, IsFiniteSet(S), NEW x \in S, NEW T, T \subseteq S \ {x}
    PROVE  Cardinality(T) \in Nat /\ Cardinality(S) \in Nat /\ Cardinality(T) + 1 <= Cardinality(S)
  <1>1. IsFiniteSet(S \ {x}) /\ Cardinality(S \ {x}) = Cardinality(S) - 1
    BY FS_RemoveElement
  <1>2. QED
    BY <1>1, FewerMembers, FS_CardinalityType

\* A member exchanged for another leaves the number as it was.
LEMMA OneForOne ==
    ASSUME NEW S, IsFiniteSet(S), NEW x \in S, NEW y, NEW T, T \subseteq (S \ {x}) \union {y}
    PROVE  Cardinality(T) \in Nat /\ Cardinality(S) \in Nat /\ Cardinality(T) <= Cardinality(S)
  <1>1. IsFiniteSet(S \ {x}) /\ Cardinality(S \ {x}) = Cardinality(S) - 1
    BY FS_RemoveElement
  <1>2. Cardinality(S) \in Nat
    BY FS_CardinalityType
  <1>3. Cardinality(T) \in Nat /\ Cardinality(T) <= Cardinality(S \ {x}) + 1
    BY <1>1, OneMore
  <1>4. QED
    BY <1>1, <1>2, <1>3

\* The readers that have an offset before them are finitely many.
LEMMA BehindFinite ==
    ASSUME ConsumerTypeOK, NEW o
    PROVE  IsFiniteSet(Behind(o)) /\ Cardinality(Behind(o)) \in Nat
  <1>1. Behind(o) \subseteq Replicas
    BY DEF Behind, ConsumerTypeOK
  <1>2. IsFiniteSet(Behind(o))
    BY <1>1, ReportConsumerAssumption, FS_Subset
  <1>3. QED
    BY <1>2, FS_CardinalityType

\* Types of the offsets that are compared.
LEMMA OffsetsTyped ==
    ASSUME ConsumerTypeOK
    PROVE  /\ Len(log) \in Nat
           /\ Flushed \in Nat \union {Fresh} /\ Resume(Flushed) \in Nat
           /\ Resume(committed) \in Nat
           /\ Offsets \subseteq Nat
           /\ \A o \in Offsets : runs[o] \in Nat
  <1>1. Len(log) \in Nat
    BY LenProperties DEF ConsumerTypeOK
  <1>2. Flushed \in Nat \union {Fresh}
    BY DEF ConsumerTypeOK, Flushed
  <1>3. Resume(Flushed) \in Nat /\ Resume(committed) \in Nat
    BY <1>1, <1>2 DEF Resume, ConsumerTypeOK
  <1>4. MaxMessages \in Nat
    BY ReportConsumerAssumption
  <1>5. QED
    BY <1>1, <1>2, <1>3, <1>4 DEF Offsets, ConsumerTypeOK

------------------------------------------------------------------------------
(* What the steps keep. *)

\* Nothing that was seen is forgotten when the history grows and every handler
\* goes on with its message or leaves a trace of it.
LEMMA SeenKept ==
    ASSUME ended \subseteq ended',
           \A q \in Replicas :
               Handling(q) => at[q] \in ended' \/ (Handling(q)' /\ at'[q] = at[q])
    PROVE  \A o : Seen(o) => Seen(o)'
  <1> SUFFICES ASSUME NEW o, Seen(o) PROVE Seen(o)'
    OBVIOUS
  <1>1. CASE o \in ended
    BY <1>1 DEF Seen
  <1>2. ASSUME NEW q \in Replicas, Handling(q), at[q] = o PROVE Seen(o)'
    <2>1. CASE Handling(q)' /\ at'[q] = at[q]
      BY <1>2, <2>1 DEF Seen
    <2>2. CASE at[q] \in ended'
      BY <1>2, <2>2 DEF Seen
    <2>3. QED
      BY <1>2, <2>1, <2>2
  <1>3. QED
    BY <1>1, <1>2 DEF Seen

\* What the group has passed stays passed.
LEMMA PassedKept ==
    ASSUME ConsumerTypeOK, \A o : Seen(o) => Seen(o)',
           Len(log') \in Nat, Len(log) <= Len(log')
    PROVE  \A n \in Nat \union {Fresh} : Passed(n) => Passed(n)'
  <1>1. Len(log) \in Nat
    BY OffsetsTyped
  <1>2. QED
    BY <1>1 DEF Passed, Fresh

\* A step that moves no reader, no mark and no offset keeps the invariant.
LEMMA QuietStep ==
    ASSUME ConsumerInv, ConsumerTypeOK', \A o : Seen(o) => Seen(o)',
           UNCHANGED <<group, runs, crashes, lapses>>,
           Len(log) <= Len(log')
    PROVE  ConsumerInv'
  <1>0. ConsumerTypeOK /\ Len(log) \in Nat
    BY OffsetsTyped DEF ConsumerInv
  <1>1. Len(log') \in Nat
    BY LenProperties DEF ConsumerTypeOK
  <1>2. \A n \in Nat \union {Fresh} : Passed(n) => Passed(n)'
    BY <1>0, <1>1, PassedKept
  <1>3. PassedInv'
    BY <1>0, <1>2 DEF ConsumerInv, PassedInv, ConsumerTypeOK, group
  <1>4. ASSUME NEW o \in Offsets PROVE Load(o)' <= 1 + crashes + lapses
    <2>1. Behind(o)' = Behind(o)
      BY DEF Behind, group
    <2>2. Flushed' = Flushed
      BY DEF Flushed, group
    <2>3. Flushed \in Nat \union {Fresh} /\ o \in Nat /\ runs[o] \in Nat
      BY <1>0, OffsetsTyped DEF ConsumerTypeOK
    <2>4. Resume(Flushed)' >= Resume(Flushed)
      BY <1>0, <1>1, <2>2, <2>3 DEF Resume
    <2>5. Resume(Flushed) \in Nat /\ Resume(Flushed)' \in Nat
      BY <1>0, <1>1, <2>2, <2>3 DEF Resume
    <2>6. Again(o)' => Again(o)
      BY <2>3, <2>4, <2>5 DEF Again, group
    <2>7. Due(o)' <= Due(o) /\ Due(o)' \in Nat /\ Due(o) \in Nat
      BY <2>6 DEF Due
    <2>8. Cardinality(Behind(o)) \in Nat
      BY <1>0, BehindFinite
    <2>9. Load(o)' <= Load(o) /\ Load(o)' \in Nat /\ Load(o) \in Nat
      BY <2>1, <2>3, <2>7, <2>8 DEF Load
    <2>10. crashes \in Nat /\ lapses \in Nat
      BY <1>0 DEF ConsumerTypeOK
    <2>11. QED
      BY <2>9, <2>10 DEF ConsumerInv, RunInv
  <1>5. RunInv'
    BY <1>4 DEF ConsumerInv, RunInv, group
  <1>6. QED
    BY <1>3, <1>5 DEF ConsumerInv

\* A producer appends a message behind every reader.
LEMMA PublishStep ==
    ASSUME ConsumerInv, NEW s \in Shapes, Publish(s)
    PROVE  ConsumerInv'
  <1>0. ConsumerTypeOK
    BY DEF ConsumerInv
  <1>1. Len(log') = Len(log) + 1 /\ log' \in Seq(Shapes) /\ Len(log) \in Nat
    BY <1>0 DEF Publish, ConsumerTypeOK
  <1>2. Len(log') <= MaxMessages /\ Len(log) <= Len(log')
    BY <1>1, ReportConsumerAssumption DEF Publish
  <1>3. UNCHANGED <<group, proc, at, history, bounds>>
    BY DEF Publish
  <1>4. ConsumerTypeOK'
    BY <1>0, <1>1, <1>2, <1>3 DEF ConsumerTypeOK, group, history, bounds
  <1>5. \A q \in Replicas : Handling(q)' = Handling(q)
    BY <1>3 DEF Handling
  <1>6. \A o : Seen(o) => Seen(o)'
    BY <1>3, <1>5, SeenKept DEF history
  <1>7. QED
    BY <1>2, <1>3, <1>4, <1>6, QuietStep DEF history, bounds

\* The steps of a handler: it goes on with its message, settles it or refuses it.
LEMMA HandlerStep ==
    ASSUME ConsumerInv, NEW c \in Replicas,
           HandleMessage(c) \/ Rewrite(c) \/ Upsert(c) \/ DatabaseFails(c)
    PROVE  ConsumerInv'
  <1>0. ConsumerTypeOK
    BY DEF ConsumerInv
  <1>1. UNCHANGED <<log, group, runs, crashes, lapses>>
    BY DEF HandleMessage, Rewrite, Upsert, DatabaseFails, bounds
  <1>2. (\E s \in {"idle", "stopped"} : Returns(c, s)) \/ (\E s \in {"rewrite", "upsert"} : Goes(c, s))
    BY DEF HandleMessage, Rewrite, Upsert, DatabaseFails, Settles, Stops
  <1>3. /\ proc' \in [Replicas -> Places] /\ at' \in [Replicas -> Nat]
        /\ ended \subseteq ended'
        /\ \A q \in Replicas : q # c => proc'[q] = proc[q] /\ at'[q] = at[q]
        /\ at[c] \in ended' \/ (proc'[c] \in {"rewrite", "upsert"} /\ at'[c] = at[c])
    <2>1. ASSUME NEW s \in {"idle", "stopped"}, Returns(c, s)
          PROVE  /\ proc' \in [Replicas -> Places] /\ at' \in [Replicas -> Nat]
                 /\ ended' = ended \union {at[c]}
                 /\ \A q \in Replicas : q # c => proc'[q] = proc[q] /\ at'[q] = at[q]
      BY <1>0, <2>1 DEF Returns, ConsumerTypeOK, Places
    <2>2. ASSUME NEW s \in {"rewrite", "upsert"}, Goes(c, s)
          PROVE  /\ proc' \in [Replicas -> Places] /\ at' = at
                 /\ ended' = ended
                 /\ \A q \in Replicas : q # c => proc'[q] = proc[q]
                 /\ proc'[c] = s
      BY <1>0, <2>2 DEF Goes, ConsumerTypeOK, Places
    <2>3. CASE \E s \in {"idle", "stopped"} : Returns(c, s)
      BY <2>1, <2>3
    <2>4. CASE \E s \in {"rewrite", "upsert"} : Goes(c, s)
      BY <1>0, <2>2, <2>4 DEF ConsumerTypeOK
    <2>5. QED
      BY <1>2, <2>3, <2>4
  <1>4. ConsumerTypeOK'
    BY <1>0, <1>1, <1>3 DEF ConsumerTypeOK, group
  <1>5. ASSUME NEW q \in Replicas, Handling(q)
        PROVE  at[q] \in ended' \/ (Handling(q)' /\ at'[q] = at[q])
    <2>1. CASE q # c
      BY <1>3, <1>5, <2>1 DEF Handling
    <2>2. CASE q = c
      BY <1>3, <2>2 DEF Handling
    <2>3. QED
      BY <2>1, <2>2
  <1>6. \A o : Seen(o) => Seen(o)'
    BY <1>3, <1>5, SeenKept
  <1>7. Len(log) <= Len(log')
    BY <1>0, <1>1, OffsetsTyped
  <1>8. QED
    BY <1>1, <1>4, <1>6, <1>7, QuietStep

\* A pod starts: nothing of the group changes.
LEMMA StartStep ==
    ASSUME ConsumerInv, NEW c \in Replicas, Start(c)
    PROVE  ConsumerInv'
  <1>0. ConsumerTypeOK
    BY DEF ConsumerInv
  <1>1. /\ proc[c] = "down" /\ proc' = [proc EXCEPT ![c] = "idle"]
        /\ UNCHANGED <<log, group, at, history, bounds>>
    BY DEF Start
  <1>2. ConsumerTypeOK'
    BY <1>0, <1>1 DEF ConsumerTypeOK, group, history, bounds, Places
  <1>3. \A q \in Replicas : Handling(q) => Handling(q)'
    BY <1>0, <1>1 DEF ConsumerTypeOK, Handling
  <1>4. \A o : Seen(o) => Seen(o)'
    BY <1>1, <1>3, SeenKept DEF history
  <1>5. Len(log) <= Len(log')
    BY <1>0, <1>1, OffsetsTyped
  <1>6. QED
    BY <1>1, <1>2, <1>4, <1>5, QuietStep DEF history, bounds

------------------------------------------------------------------------------
(* The steps of the group. *)

\* Member c gets the partition: what it starts behind is passed, and what the next
\* owner will start behind is where c stands.
LEMMA TakesKeeps ==
    ASSUME ConsumerInv, NEW c \in Replicas, Takes(c),
           committed' \in Nat \union {Fresh}, Passed(committed'),
           late' \in [Replicas -> Nat \union {Fresh}],
           \A q \in Replicas : late'[q] \in {late[q], marked},
           holds' \subseteq holds \union {c}, c \in holds', lapses' \in Nat
    PROVE  /\ ConsumerTypeOK' /\ PassedInv'
           /\ \A o \in Offsets :
                 /\ Due(o)' = 0
                 /\ Behind(o)' \subseteq (Behind(o) \intersect holds') \union {c}
                 /\ c \in Behind(o)' => Resume(committed') < o
  <1>0. ConsumerTypeOK
    BY DEF ConsumerInv
  <1>1. /\ owner' = c /\ marked' = Fresh
        /\ position' = [position EXCEPT ![c] = Resume(committed')]
        /\ ended' = IF committed' = Fresh THEN ended \union (1..Len(log)) ELSE ended
        /\ UNCHANGED <<log, proc, at, runs, crashes>>
    BY DEF Takes
  <1>2. Len(log) \in Nat
    BY <1>0, OffsetsTyped
  <1>3. Resume(committed') \in Nat
    BY <1>2 DEF Resume
  <1>4. ConsumerTypeOK'
    BY <1>0, <1>1, <1>3 DEF ConsumerTypeOK
  <1>5. \A q \in Replicas : Handling(q)' = Handling(q)
    BY <1>1 DEF Handling
  <1>6. \A o : Seen(o) => Seen(o)'
    BY <1>1, <1>5, SeenKept
  <1>7. \A n \in Nat \union {Fresh} : Passed(n) => Passed(n)'
    BY <1>0, <1>1, <1>2, <1>6, PassedKept
  <1>8. /\ position'[c] = Resume(committed')
        /\ \A q \in Replicas : q # c => position'[q] = position[q]
    BY <1>0, <1>1 DEF ConsumerTypeOK
  <1>9. Passed(position[c])'
    <2>1. CASE committed' = Fresh
      <3>1. position'[c] = Len(log)
        BY <1>8, <2>1 DEF Resume
      <3>2. \A o \in 1..Len(log) : o \in ended'
        BY <1>1, <2>1
      <3>3. QED
        BY <1>1, <1>2, <3>1, <3>2 DEF Passed, Seen
    <2>2. CASE committed' # Fresh
      <3>1. position'[c] = committed'
        BY <1>8, <2>2 DEF Resume
      <3>2. committed' <= Len(log) /\ \A o \in 1..committed' : Seen(o)
        BY DEF Passed
      <3>3. QED
        BY <1>1, <1>6, <3>1, <3>2 DEF Passed
    <2>3. QED
      BY <2>1, <2>2
  <1>10. PassedInv'
    <2>1. ASSUME NEW q \in holds' PROVE Passed(position[q])'
      <3>1. CASE q = c
        BY <1>9, <3>1
      <3>2. CASE q # c
        <4>1. q \in holds /\ q \in Replicas
          BY <1>0, <3>2 DEF ConsumerTypeOK
        <4>2. position[q] \in Nat /\ Passed(position[q]) /\ position'[q] = position[q]
          BY <1>0, <1>8, <3>2, <4>1 DEF ConsumerTypeOK, ConsumerInv, PassedInv
        <4>3. QED
          BY <1>7, <4>2
      <3>3. QED
        BY <3>1, <3>2
    <2>2. ASSUME NEW q \in Replicas PROVE Passed(late[q])'
      BY <1>0, <1>7 DEF ConsumerInv, PassedInv, ConsumerTypeOK
    <2>3. Passed(committed)' /\ Passed(marked)'
      BY <1>1, <1>2, <1>7 DEF Passed, Fresh
    <2>4. QED
      BY <2>1, <2>2, <2>3 DEF PassedInv
  <1>11. ASSUME NEW o \in Offsets
         PROVE  /\ Due(o)' = 0
                /\ Behind(o)' \subseteq (Behind(o) \intersect holds') \union {c}
                /\ c \in Behind(o)' => Resume(committed') < o
    <2>1. Resume(Flushed)' = position'[c]
      BY <1>1, <1>8 DEF Resume, Flushed
    <2>2. o \in Nat /\ position'[c] \in Nat /\ c # NoReplica
      BY <1>0, <1>3, <1>8, OffsetsTyped, ReportConsumerAssumption
    <2>3. ~ Again(o)'
      BY <1>1, <2>1, <2>2 DEF Again
    <2>4. Behind(o)' \subseteq (Behind(o) \intersect holds') \union {c}
      BY <1>0, <1>8 DEF Behind, ConsumerTypeOK
    <2>5. c \in Behind(o)' => Resume(committed') < o
      BY <1>8 DEF Behind
    <2>6. QED
      BY <2>3, <2>4, <2>5 DEF Due
  <1>12. QED
    BY <1>4, <1>10, <1>11

\* An orderly assignment: the new owner has before it what the old one had, or
\* what the next owner was due.
LEMMA AssignStep ==
    ASSUME ConsumerInv, NEW c \in Replicas, Assign(c)
    PROVE  ConsumerInv'
  <1>0. ConsumerTypeOK /\ c # NoReplica
    BY ReportConsumerAssumption DEF ConsumerInv
  <1>1. /\ owner # c /\ committed' = Flushed /\ holds' = (holds \ {owner}) \union {c}
        /\ Takes(c) /\ UNCHANGED <<late, lapses>>
    BY DEF Assign
  <1>2. committed' \in Nat \union {Fresh} /\ Passed(committed')
    BY <1>0, <1>1, OffsetsTyped DEF ConsumerInv, PassedInv, Flushed
  <1>3. /\ ConsumerTypeOK' /\ PassedInv'
        /\ \A o \in Offsets :
              /\ Due(o)' = 0
              /\ Behind(o)' \subseteq (Behind(o) \intersect holds') \union {c}
              /\ c \in Behind(o)' => Resume(committed') < o
    BY <1>0, <1>1, <1>2, TakesKeeps DEF ConsumerTypeOK
  <1>4. UNCHANGED <<runs, crashes>> /\ owner' = c
    BY <1>1 DEF Takes
  <1>5. ASSUME NEW o \in Offsets PROVE Load(o)' <= Load(o)
    <2>1. IsFiniteSet(Behind(o)) /\ Cardinality(Behind(o)) \in Nat /\ runs[o] \in Nat /\ o \in Nat
      BY <1>0, BehindFinite, OffsetsTyped
    <2>2. Behind(o)' \subseteq (Behind(o) \ {owner}) \union {c}
      BY <1>1, <1>3 DEF Behind
    <2>3. Due(o) \in {0, 1}
      BY DEF Due
    <2>4. CASE c \notin Behind(o)'
      <3>1. Behind(o)' \subseteq Behind(o)
        BY <2>2, <2>4
      <3>2. Cardinality(Behind(o)') \in Nat /\ Cardinality(Behind(o)') <= Cardinality(Behind(o))
        BY <2>1, <3>1, FewerMembers
      <3>3. QED
        BY <1>3, <1>4, <2>1, <2>3, <3>2 DEF Load
    <2>5. CASE c \in Behind(o)' /\ Again(o)
      <3>1. Cardinality(Behind(o)') \in Nat /\ Cardinality(Behind(o)') <= Cardinality(Behind(o)) + 1
        BY <2>1, <2>2, OneMore
      <3>2. Due(o) = 1
        BY <2>5 DEF Due
      <3>3. QED
        BY <1>3, <1>4, <2>1, <3>1, <3>2 DEF Load
    <2>6. CASE c \in Behind(o)' /\ ~Again(o)
      <3>1. Resume(Flushed) < o
        BY <1>1, <1>3, <2>6
      <3>2. owner # NoReplica /\ owner \in holds /\ owner \in Replicas /\ ~(o <= position[owner])
        BY <1>0, <2>6, <3>1 DEF Again, ConsumerInv, RunInv, ConsumerTypeOK
      <3>3. owner \in Behind(o)
        BY <1>0, <2>1, <3>2 DEF Behind, ConsumerTypeOK
      <3>4. Cardinality(Behind(o)') \in Nat /\ Cardinality(Behind(o)') <= Cardinality(Behind(o))
        BY <2>1, <2>2, <3>3, OneForOne
      <3>5. QED
        BY <1>3, <1>4, <2>1, <2>3, <3>4 DEF Load
    <2>7. QED
      BY <2>4, <2>5, <2>6
  <1>6. ASSUME NEW o \in Offsets PROVE Load(o)' \in Int /\ Load(o) \in Int
    <2>1. Cardinality(Behind(o)) \in Nat /\ runs[o] \in Nat /\ IsFiniteSet(Behind(o))
      BY <1>0, BehindFinite, OffsetsTyped
    <2>2. Cardinality(Behind(o)') \in Nat
      BY <1>3, <2>1, OneMore
    <2>3. QED
      BY <1>3, <1>4, <2>1, <2>2 DEF Load, Due
  <1>7. RunInv'
    <2>1. crashes \in Nat /\ lapses \in Nat
      BY <1>0 DEF ConsumerTypeOK
    <2>2. QED
      BY <1>1, <1>4, <1>5, <1>6, <2>1 DEF ConsumerInv, RunInv
  <1>8. QED
    BY <1>3, <1>7 DEF ConsumerInv

\* An eviction: both readers go on, and the lapse pays for the second.
LEMMA EvictStep ==
    ASSUME ConsumerInv, NEW c \in Replicas, Evict(c)
    PROVE  ConsumerInv'
  <1>0. ConsumerTypeOK
    BY DEF ConsumerInv
  <1>1. /\ lapses' = lapses + 1 /\ UNCHANGED committed /\ holds' = holds \union {c}
        /\ late' = [late EXCEPT ![owner] = IF marked # Fresh THEN marked ELSE @]
        /\ Takes(c)
    BY DEF Evict
  <1>2. committed' \in Nat \union {Fresh} /\ Passed(committed') /\ lapses \in Nat
    BY <1>0, <1>1 DEF ConsumerInv, PassedInv, ConsumerTypeOK
  <1>3. /\ late' \in [Replicas -> Nat \union {Fresh}]
        /\ \A q \in Replicas : late'[q] \in {late[q], marked}
    BY <1>0, <1>1 DEF ConsumerTypeOK
  <1>4. /\ ConsumerTypeOK' /\ PassedInv'
        /\ \A o \in Offsets :
              Due(o)' = 0 /\ Behind(o)' \subseteq (Behind(o) \intersect holds') \union {c}
    BY <1>1, <1>2, <1>3, TakesKeeps
  <1>5. UNCHANGED <<runs, crashes>> /\ owner' = c
    BY <1>1 DEF Takes
  <1>6. ASSUME NEW o \in Offsets PROVE Load(o)' <= 1 + crashes + lapses'
    <2>1. IsFiniteSet(Behind(o)) /\ Cardinality(Behind(o)) \in Nat /\ runs[o] \in Nat /\ crashes \in Nat
      BY <1>0, BehindFinite, OffsetsTyped DEF ConsumerTypeOK
    <2>2. Cardinality(Behind(o)') \in Nat /\ Cardinality(Behind(o)') <= Cardinality(Behind(o)) + 1
      <3>1. Behind(o)' \subseteq Behind(o) \union {c}
        BY <1>4
      <3>2. QED
        BY <2>1, <3>1, OneMore
    <2>3. Load(o) <= 1 + crashes + lapses /\ Due(o) \in {0, 1}
      BY DEF ConsumerInv, RunInv, Due
    <2>4. QED
      BY <1>1, <1>2, <1>4, <1>5, <2>1, <2>2, <2>3 DEF Load
  <1>7. RunInv'
    BY <1>1, <1>5, <1>6 DEF RunInv
  <1>8. QED
    BY <1>4, <1>7 DEF ConsumerInv

\* A step that hands nothing out and moves no reader, but may move marks and the
\* committed offset to what the group has passed, and drop a reader that does not
\* own the partition: the next owner is due no more than before, or a lapse or a
\* crash pays for it.
LEMMA MarkStep ==
    ASSUME ConsumerInv, ConsumerTypeOK',
           UNCHANGED <<log, owner, position, proc, at, ended, runs, crashes>>,
           Passed(committed'), Passed(marked'), \A q \in Replicas : Passed(late'[q]),
           holds' \subseteq holds, owner # NoReplica => owner \in holds',
           lapses' = lapses + 1 \/ (lapses' = lapses /\ Resume(Flushed) <= Resume(Flushed)')
    PROVE  ConsumerInv'
  <1>0. ConsumerTypeOK /\ lapses \in Nat /\ crashes \in Nat
    BY DEF ConsumerInv, ConsumerTypeOK
  <1>1. \A q \in Replicas : Handling(q)' = Handling(q)
    BY DEF Handling
  <1>2. \A o : Seen(o) => Seen(o)'
    BY <1>1, SeenKept
  <1>3. PassedInv'
    <2>1. Passed(committed)' /\ Passed(marked)'
      BY <1>2 DEF Passed
    <2>2. \A q \in Replicas : Passed(late[q])'
      BY <1>2 DEF Passed
    <2>3. ASSUME NEW q \in holds' PROVE Passed(position[q])'
      BY <1>2 DEF Passed, ConsumerInv, PassedInv
    <2>4. QED
      BY <2>1, <2>2, <2>3 DEF PassedInv
  <1>4. ASSUME NEW o \in Offsets PROVE Load(o)' <= 1 + crashes + lapses'
    <2>1. /\ IsFiniteSet(Behind(o)) /\ Cardinality(Behind(o)) \in Nat /\ runs[o] \in Nat /\ o \in Nat
          /\ Resume(Flushed) \in Nat /\ Len(log) \in Nat
      BY <1>0, BehindFinite, OffsetsTyped
    <2>2. Behind(o)' \subseteq Behind(o)
      BY DEF Behind
    <2>3. Cardinality(Behind(o)') \in Nat /\ Cardinality(Behind(o)') <= Cardinality(Behind(o))
      BY <2>1, <2>2, FewerMembers
    <2>4. Resume(Flushed)' \in Nat
      BY <2>1 DEF Resume, Flushed, ConsumerTypeOK
    <2>5. Resume(Flushed) <= Resume(Flushed)' => (Again(o)' => Again(o))
      BY <2>1, <2>4 DEF Again
    <2>6. Due(o) \in {0, 1} /\ Due(o)' \in {0, 1} /\ (Resume(Flushed) <= Resume(Flushed)' => Due(o)' <= Due(o))
      BY <2>5 DEF Due
    <2>7. Load(o) <= 1 + crashes + lapses
      BY DEF ConsumerInv, RunInv
    <2>8. QED
      BY <1>0, <2>1, <2>3, <2>6, <2>7 DEF Load
  <1>5. RunInv'
    BY <1>4 DEF RunInv
  <1>6. QED
    BY <1>3, <1>5 DEF ConsumerInv

\* An evicted reader drops the partition.
LEMMA LearnStep ==
    ASSUME ConsumerInv, NEW c \in Replicas, Learn(c)
    PROVE  ConsumerInv'
  <1>1. /\ owner # c /\ holds' = holds \ {c}
        /\ UNCHANGED <<log, committed, owner, position, marked, late, proc, at, history, bounds>>
    BY DEF Learn
  <1>2. ConsumerTypeOK'
    BY <1>1 DEF ConsumerInv, ConsumerTypeOK, history, bounds
  <1>3. Resume(Flushed) \in Nat /\ Resume(Flushed)' = Resume(Flushed)
    BY <1>1, OffsetsTyped DEF ConsumerInv, Resume, Flushed
  <1>4. owner # NoReplica => owner \in holds'
    BY <1>1 DEF ConsumerInv, RunInv
  <1>5. QED
    BY <1>1, <1>2, <1>3, <1>4, MarkStep DEF ConsumerInv, PassedInv, history, bounds

\* The mark is sent, or lost.
LEMMA FlushStep ==
    ASSUME ConsumerInv, Flush \/ LoseMark
    PROVE  ConsumerInv'
  <1>1. /\ marked # Fresh /\ marked' = Fresh
        /\ UNCHANGED <<log, owner, holds, position, late, proc, at, history, crashes>>
        /\ \/ committed' = marked /\ lapses' = lapses
           \/ committed' = committed /\ lapses' = lapses + 1
    BY DEF Flush, LoseMark, bounds
  <1>2. ConsumerTypeOK'
    BY <1>1 DEF ConsumerInv, ConsumerTypeOK, history
  <1>3. Resume(Flushed) \in Nat /\ Len(log) \in Nat
    BY OffsetsTyped DEF ConsumerInv
  <1>4. committed' = marked => Resume(Flushed)' = Resume(Flushed)
    BY <1>1 DEF Resume, Flushed
  <1>5. Passed(committed') /\ Passed(marked')
    BY <1>1, <1>3 DEF ConsumerInv, PassedInv, Passed, Fresh
  <1>6. QED
    BY <1>1, <1>2, <1>3, <1>4, <1>5, MarkStep DEF ConsumerInv, PassedInv, RunInv, history

\* A late mark is sent; when it puts the offset back, that is a lapse.
LEMMA FlushLateStep ==
    ASSUME ConsumerInv, NEW c \in Replicas, FlushLate(c)
    PROVE  ConsumerInv'
  <1>0. ConsumerTypeOK
    BY DEF ConsumerInv
  <1>1. /\ late[c] # Fresh /\ committed' = late[c] /\ late' = [late EXCEPT ![c] = Fresh]
        /\ UNCHANGED <<log, owner, holds, position, marked, proc, at, history, crashes>>
        /\ \/ lapses' = lapses + 1
           \/ lapses' = lapses /\ ~(late[c] < Resume(committed))
    BY DEF FlushLate
  <1>2. ConsumerTypeOK'
    BY <1>0, <1>1 DEF ConsumerTypeOK, history
  <1>3. Resume(Flushed) \in Nat /\ Resume(committed) \in Nat /\ Len(log) \in Nat /\ late[c] \in Nat
    BY <1>0, <1>1, OffsetsTyped DEF ConsumerTypeOK
  <1>4. ~(late[c] < Resume(committed)) => Resume(Flushed) <= Resume(Flushed)'
    <2>1. CASE marked # Fresh
      BY <1>1, <1>3, <2>1 DEF Resume, Flushed
    <2>2. CASE marked = Fresh
      <3>1. Resume(Flushed) = Resume(committed) /\ Resume(Flushed)' = late[c]
        BY <1>1, <2>2 DEF Resume, Flushed
      <3>2. QED
        BY <1>3, <3>1
    <2>3. QED
      BY <2>1, <2>2
  <1>5. \A q \in Replicas : Passed(late'[q])
    <2>1. Passed(Fresh)
      BY <1>3 DEF Passed, Fresh
    <2>2. \A q \in Replicas : late'[q] = late[q] \/ late'[q] = Fresh
      BY <1>0, <1>1 DEF ConsumerTypeOK
    <2>3. QED
      BY <2>1, <2>2 DEF ConsumerInv, PassedInv
  <1>6. QED
    BY <1>1, <1>2, <1>4, <1>5, MarkStep DEF ConsumerInv, PassedInv, RunInv, history

\* A process goes: by a crash, which pays for one more delivery of what it had
\* read and not yet committed, or by a shutdown, which commits first.
LEMMA GoneStep ==
    ASSUME ConsumerInv, NEW c \in Replicas, Crash(c) \/ Shutdown(c)
    PROVE  ConsumerInv'
  <1>0. ConsumerTypeOK /\ lapses \in Nat /\ crashes \in Nat /\ c # NoReplica
    BY ReportConsumerAssumption DEF ConsumerInv, ConsumerTypeOK
  <1>1. /\ proc' = [proc EXCEPT ![c] = "down"]
        /\ owner' = IF owner = c THEN NoReplica ELSE owner
        /\ holds' = holds \ {c}
        /\ ended' = IF Handling(c) THEN ended \union {at[c]} ELSE ended
        /\ at' = [at EXCEPT ![c] = 0]
        /\ position' = [position EXCEPT ![c] = 0]
        /\ marked' = IF owner = c THEN Fresh ELSE marked
        /\ late' = [late EXCEPT ![c] = Fresh]
        /\ UNCHANGED <<log, runs, lapses>>
    BY DEF Crash, Shutdown, Gone
  <1>2. \/ crashes' = crashes + 1 /\ committed' = committed
        \/ crashes' = crashes /\ committed' = IF owner = c THEN Flushed ELSE committed
    BY DEF Crash, Shutdown
  <1>3. Flushed \in Nat \union {Fresh} /\ Len(log) \in Nat /\ Resume(Flushed) \in Nat
    BY <1>0, OffsetsTyped
  <1>4. ConsumerTypeOK'
    BY <1>0, <1>1, <1>2, <1>3 DEF ConsumerTypeOK, Places
  <1>5. \A q \in Replicas : q # c => /\ proc'[q] = proc[q] /\ at'[q] = at[q]
                                     /\ position'[q] = position[q] /\ late'[q] = late[q]
    BY <1>0, <1>1 DEF ConsumerTypeOK
  <1>6. ASSUME NEW q \in Replicas, Handling(q)
        PROVE  at[q] \in ended' \/ (Handling(q)' /\ at'[q] = at[q])
    BY <1>1, <1>5, <1>6 DEF Handling
  <1>7. \A o : Seen(o) => Seen(o)'
    BY <1>1, <1>6, SeenKept
  <1>8. PassedInv'
    <2>1. Passed(Fresh)'
      BY <1>1, <1>3 DEF Passed, Fresh
    <2>2. \A n \in Nat \union {Fresh} : Passed(n) => Passed(n)'
      BY <1>0, <1>1, <1>3, <1>7, PassedKept
    <2>3. Passed(committed)'
      <3>1. committed' \in {committed, marked}
        BY <1>2 DEF Flushed
      <3>2. QED
        BY <1>0, <2>2, <3>1 DEF ConsumerInv, PassedInv, ConsumerTypeOK
    <2>4. Passed(marked)'
      BY <1>0, <1>1, <2>1, <2>2 DEF ConsumerInv, PassedInv, ConsumerTypeOK
    <2>5. ASSUME NEW q \in Replicas PROVE Passed(late[q])'
      <3>1. late'[q] \in {late[q], Fresh}
        BY <1>0, <1>1 DEF ConsumerTypeOK
      <3>2. QED
        BY <1>0, <2>1, <2>2, <3>1 DEF ConsumerInv, PassedInv, ConsumerTypeOK
    <2>6. ASSUME NEW q \in holds' PROVE Passed(position[q])'
      <3>1. q \in holds /\ q \in Replicas /\ q # c
        BY <1>0, <1>1 DEF ConsumerTypeOK
      <3>2. position'[q] = position[q] /\ position[q] \in Nat /\ Passed(position[q])
        BY <1>0, <1>5, <3>1 DEF ConsumerInv, PassedInv, ConsumerTypeOK
      <3>3. QED
        BY <2>2, <3>2
    <2>7. QED
      BY <2>3, <2>4, <2>5, <2>6 DEF PassedInv
  <1>9. ASSUME NEW o \in Offsets PROVE Load(o)' <= 1 + crashes' + lapses
    <2>1. IsFiniteSet(Behind(o)) /\ Cardinality(Behind(o)) \in Nat /\ runs[o] \in Nat /\ o \in Nat
      BY <1>0, BehindFinite, OffsetsTyped
    <2>2. Behind(o)' \subseteq Behind(o) \ {c}
      BY <1>0, <1>1, <1>5 DEF Behind, ConsumerTypeOK
    <2>3. Cardinality(Behind(o)') \in Nat /\ Cardinality(Behind(o)') <= Cardinality(Behind(o))
      <3>1. Behind(o)' \subseteq Behind(o)
        BY <2>2
      <3>2. QED
        BY <2>1, <3>1, FewerMembers
    <2>4. Due(o) \in {0, 1} /\ Due(o)' \in {0, 1}
      BY DEF Due
    <2>5. Load(o) <= 1 + crashes + lapses
      BY DEF ConsumerInv, RunInv
    <2>6. CASE crashes' = crashes + 1
      BY <1>0, <1>1, <2>1, <2>3, <2>4, <2>5, <2>6 DEF Load
    <2>7. CASE crashes' = crashes /\ owner = c /\ committed' = Flushed
      <3>1. Resume(Flushed)' = Resume(Flushed) /\ owner' = NoReplica
        BY <1>1, <2>7 DEF Resume, Flushed
      <3>2. CASE ~Again(o)' \/ Again(o)
        <4>1. Due(o)' <= Due(o)
          BY <2>4, <3>2 DEF Due
        <4>2. QED
          BY <1>0, <1>1, <2>1, <2>3, <2>4, <2>5, <2>7, <4>1 DEF Load
      <3>3. CASE Again(o)' /\ ~Again(o)
        <4>1. ~(o <= position[c]) /\ c \in holds
          BY <1>0, <2>7, <3>1, <3>3 DEF Again, ConsumerInv, RunInv
        <4>2. c \in Behind(o)
          BY <1>0, <2>1, <4>1 DEF Behind, ConsumerTypeOK
        <4>3. Cardinality(Behind(o)') + 1 <= Cardinality(Behind(o))
          BY <2>1, <2>2, <4>2, OneLess
        <4>4. Due(o) = 0
          BY <3>3 DEF Due
        <4>5. QED
          BY <1>0, <1>1, <2>1, <2>3, <2>4, <2>5, <2>7, <4>3, <4>4 DEF Load
      <3>4. QED
        BY <3>2, <3>3
    <2>8. CASE crashes' = crashes /\ owner # c /\ committed' = committed
      <3>1. Resume(Flushed)' = Resume(Flushed) /\ owner' = owner
        BY <1>1, <2>8 DEF Resume, Flushed
      <3>2. owner # NoReplica => position'[owner] = position[owner]
        BY <1>0, <1>5, <2>8 DEF ConsumerTypeOK
      <3>3. Due(o)' = Due(o)
        BY <3>1, <3>2 DEF Due, Again
      <3>4. QED
        BY <1>0, <1>1, <2>1, <2>3, <2>4, <2>5, <2>8, <3>3 DEF Load
    <2>9. QED
      BY <1>2, <2>6, <2>7, <2>8
  <1>10. RunInv'
    BY <1>1, <1>9 DEF ConsumerInv, RunInv
  <1>11. QED
    BY <1>4, <1>8, <1>10 DEF ConsumerInv

\* A reader delivers the next message, marks it and calls the handler: a delivery
\* that was to come has happened.
LEMMA ReadStep ==
    ASSUME ConsumerInv, NEW c \in Replicas, ReadMessage(c)
    PROVE  ConsumerInv'
  <1> DEFINE n == position[c] + 1
  <1>0. ConsumerTypeOK /\ lapses \in Nat /\ crashes \in Nat /\ c # NoReplica
    BY ReportConsumerAssumption DEF ConsumerInv, ConsumerTypeOK
  <1>1. /\ c \in holds /\ proc[c] = "idle" /\ position[c] < Len(log)
        /\ position' = [position EXCEPT ![c] = n]
        /\ at' = [at EXCEPT ![c] = n]
        /\ marked' = IF owner = c THEN n ELSE marked
        /\ late' = IF owner = c THEN late ELSE [late EXCEPT ![c] = n]
        /\ runs' = [runs EXCEPT ![n] = @ + 1]
        /\ proc' = [proc EXCEPT ![c] = "handle"]
        /\ UNCHANGED <<log, committed, owner, holds, ended, crashes, lapses>>
    BY DEF ReadMessage, bounds
  <1>2. position[c] \in Nat /\ Len(log) \in Nat /\ Len(log) <= MaxMessages
    BY <1>0, OffsetsTyped DEF ConsumerTypeOK
  <1>3. n \in Nat /\ n \in Offsets /\ n <= Len(log)
    BY <1>1, <1>2, ReportConsumerAssumption DEF Offsets
  <1>4. ConsumerTypeOK'
    BY <1>0, <1>1, <1>3 DEF ConsumerTypeOK, Places
  <1>5. /\ position'[c] = n /\ at'[c] = n /\ proc'[c] = "handle"
        /\ \A q \in Replicas : q # c => /\ proc'[q] = proc[q] /\ at'[q] = at[q]
                                        /\ position'[q] = position[q]
        /\ \A q \in Replicas : late'[q] \in {late[q], n}
    BY <1>0, <1>1 DEF ConsumerTypeOK
  <1>6. \A o : Seen(o) => Seen(o)'
    BY <1>1, <1>5, SeenKept DEF Handling
  <1>7. Passed(position[c])'
    <2>1. \A o : o = n => Seen(o)'
      BY <1>5 DEF Seen, Handling
    <2>2. \A o \in 1..n : o = n \/ o \in 1..position[c]
      BY <1>2
    <2>3. \A o \in 1..position[c] : Seen(o)
      BY <1>1 DEF ConsumerInv, PassedInv, Passed
    <2>4. \A o \in 1..n : Seen(o)'
      BY <1>6, <2>1, <2>2, <2>3
    <2>5. QED
      BY <1>1, <1>3, <1>5, <2>4 DEF Passed
  <1>8. PassedInv'
    <2>1. \A m \in Nat \union {Fresh} : Passed(m) => Passed(m)'
      BY <1>0, <1>1, <1>2, <1>6, PassedKept
    <2>2. Passed(committed)'
      BY <1>0, <1>1, <2>1 DEF ConsumerInv, PassedInv, ConsumerTypeOK
    <2>3. Passed(marked)'
      <3>1. CASE owner = c
        BY <1>1, <1>5, <1>7, <3>1
      <3>2. CASE owner # c
        BY <1>0, <1>1, <2>1, <3>2 DEF ConsumerInv, PassedInv, ConsumerTypeOK
      <3>3. QED
        BY <3>1, <3>2
    <2>4. ASSUME NEW q \in Replicas PROVE Passed(late[q])'
      <3>1. CASE late'[q] = position'[c]
        BY <1>7, <3>1
      <3>2. CASE late'[q] = late[q]
        BY <1>0, <2>1, <3>2 DEF ConsumerInv, PassedInv, ConsumerTypeOK
      <3>3. QED
        BY <1>5, <3>1, <3>2
    <2>5. ASSUME NEW q \in holds' PROVE Passed(position[q])'
      <3>1. CASE q = c
        BY <1>7, <3>1
      <3>2. CASE q # c
        BY <1>0, <1>1, <1>5, <2>1, <3>2 DEF ConsumerInv, PassedInv, ConsumerTypeOK
      <3>3. QED
        BY <3>1, <3>2
    <2>6. QED
      BY <2>2, <2>3, <2>4, <2>5 DEF PassedInv
  <1>9. ASSUME NEW o \in Offsets PROVE Load(o)' <= 1 + crashes + lapses
    <2>1. /\ IsFiniteSet(Behind(o)) /\ Cardinality(Behind(o)) \in Nat /\ runs[o] \in Nat /\ o \in Nat
          /\ Resume(Flushed) \in Nat
      BY <1>0, BehindFinite, OffsetsTyped
    <2>2. Behind(o)' \subseteq Behind(o) /\ (o = n => c \in Behind(o) /\ Behind(o)' \subseteq Behind(o) \ {c})
      BY <1>0, <1>1, <1>2, <1>5, <2>1 DEF Behind, ConsumerTypeOK
    <2>3. Cardinality(Behind(o)') \in Nat /\ Cardinality(Behind(o)') <= Cardinality(Behind(o))
      BY <2>1, <2>2, FewerMembers
    <2>4. Due(o)' <= Due(o) /\ Due(o) \in {0, 1} /\ Due(o)' \in {0, 1}
      <3>1. CASE owner = c
        <4>1. Resume(Flushed)' = n
          BY <1>1, <1>3, <3>1 DEF Resume, Flushed, Fresh
        <4>2. ~Again(o)'
          BY <1>0, <1>1, <1>3, <1>5, <2>1, <3>1, <4>1 DEF Again
        <4>3. QED
          BY <4>2 DEF Due
      <3>2. CASE owner # c
        <4>1. Resume(Flushed)' = Resume(Flushed)
          BY <1>1, <3>2 DEF Resume, Flushed
        <4>2. owner # NoReplica => position'[owner] = position[owner]
          BY <1>0, <1>5, <3>2 DEF ConsumerTypeOK
        <4>3. Due(o)' = Due(o)
          BY <1>1, <4>1, <4>2 DEF Due, Again
        <4>4. QED
          BY <4>3 DEF Due
      <3>3. QED
        BY <3>1, <3>2
    <2>5. Load(o) <= 1 + crashes + lapses
      BY DEF ConsumerInv, RunInv
    <2>6. CASE o = n
      <3>1. Cardinality(Behind(o)') + 1 <= Cardinality(Behind(o))
        BY <2>1, <2>2, <2>6, OneLess
      <3>2. runs'[o] = runs[o] + 1
        BY <1>0, <1>1, <1>3, <2>6 DEF ConsumerTypeOK
      <3>3. QED
        BY <1>0, <2>1, <2>3, <2>4, <2>5, <3>1, <3>2 DEF Load
    <2>7. CASE o # n
      <3>1. runs'[o] = runs[o]
        BY <1>0, <1>1, <2>7 DEF ConsumerTypeOK
      <3>2. QED
        BY <1>0, <2>1, <2>3, <2>4, <2>5, <3>1 DEF Load
    <2>8. QED
      BY <2>6, <2>7
  <1>10. RunInv'
    BY <1>1, <1>9 DEF ConsumerInv, RunInv
  <1>11. QED
    BY <1>4, <1>8, <1>10 DEF ConsumerInv

\* Every step of the broker, the group and the handlers keeps the invariant.
LEMMA ConsumerInvStep == ConsumerInv /\ [Next]_vars => ConsumerInv'
  <1> SUFFICES ASSUME ConsumerInv, [Next]_vars PROVE ConsumerInv'
    OBVIOUS
  <1>1. CASE Next
    BY <1>1, PublishStep, StartStep, AssignStep, EvictStep, LearnStep, FlushStep,
       FlushLateStep, GoneStep, ReadStep, HandlerStep DEF Next, Consume
  <1>2. CASE UNCHANGED vars
    <2>1. UNCHANGED <<log, group, proc, at, history, bounds>>
      BY <1>2 DEF vars
    <2>2. ConsumerTypeOK'
      BY <2>1 DEF ConsumerInv, ConsumerTypeOK, group, history, bounds
    <2>3. \A o : Seen(o) => Seen(o)'
      BY <2>1, SeenKept DEF history, Handling
    <2>4. Len(log) <= Len(log')
      BY <2>1, OffsetsTyped DEF ConsumerInv
    <2>5. QED
      BY <2>1, <2>2, <2>3, <2>4, QuietStep DEF history, bounds
  <1>3. QED
    BY <1>1, <1>2

\* The empty partition satisfies it: one delivery of every message is to come.
LEMMA ConsumerInvInit == Init => ConsumerInv
  <1> SUFFICES ASSUME Init PROVE ConsumerInv
    OBVIOUS
  <1>1. Len(log) = 0 /\ log \in Seq(Shapes)
    BY DEF Init
  <1>2. ConsumerTypeOK
    BY <1>1, ReportConsumerAssumption DEF Init, ConsumerTypeOK, Places
  <1>3. PassedInv
    BY <1>1 DEF Init, PassedInv, Passed, Fresh
  <1>4. ASSUME NEW o \in Offsets PROVE Load(o) <= 1 + crashes + lapses
    <2>1. Behind(o) = {}
      BY DEF Init, Behind
    <2>2. Cardinality(Behind(o)) = 0
      BY <2>1, FS_EmptySet
    <2>3. runs[o] = 0 /\ Due(o) \in {0, 1} /\ crashes = 0 /\ lapses = 0
      BY DEF Init, Due
    <2>4. QED
      BY <2>2, <2>3 DEF Load
  <1>5. RunInv
    BY <1>4 DEF Init, RunInv
  <1>6. QED
    BY <1>2, <1>3, <1>5 DEF ConsumerInv

\* The inductive invariant holds in every reachable state.
THEOREM ConsumerInvAlways == Spec => []ConsumerInv
  BY ConsumerInvInit, ConsumerInvStep, PTL DEF Spec

\* However many replicas crash, are shut down, are evicted or lose the partition
\* in the middle of a message, and however late a mark is sent, a committed offset
\* of the consumer group is one whose handler returned or was cut off with its
\* process, or that the fresh group skipped: the mark that precedes the handler
\* loses nothing else.
THEOREM NoSilentLoss == Spec => []LossAccounted
  <1>1. ConsumerInv => LossAccounted
    BY DEF ConsumerInv, PassedInv, Passed, LossAccounted, Seen
  <1>2. QED
    BY <1>1, ConsumerInvAlways, PTL

\* HandleMessage sees an offset again at most once per crash and per lapse of the
\* marks (an eviction, a mark that was lost, a late one that put the offset back);
\* orderly shutdowns and rebalances, in any number, repeat nothing.
THEOREM RedeliveryHasCause == Spec => []RedeliveryBounded
  <1>1. ConsumerInv => RedeliveryBounded
    <2> SUFFICES ASSUME ConsumerInv, NEW o \in Offsets
                 PROVE  runs[o] <= 1 + crashes + lapses
      BY DEF RedeliveryBounded
    <2>1. /\ runs[o] \in Nat /\ Cardinality(Behind(o)) \in Nat
          /\ crashes \in Nat /\ lapses \in Nat /\ Due(o) \in {0, 1}
      BY BehindFinite, OffsetsTyped DEF ConsumerInv, ConsumerTypeOK, Due
    <2>2. QED
      BY <2>1 DEF ConsumerInv, RunInv, Load
  <1>2. QED
    BY <1>1, ConsumerInvAlways, PTL
==============================================================================
