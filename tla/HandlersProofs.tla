---------------------------- MODULE HandlersProofs ----------------------------
(***************************************************************************)
(* What holds of the frame of every service built on Handlers.  A request  *)
(* moves alone; when callers wait for each other it is the only one in     *)
(* flight; and a key that is neither stored nor about to be has committed  *)
(* once per fault.  The proofs of the services rest on these lemmas.       *)
(***************************************************************************)
EXTENDS Handlers, FiniteSetTheorems, TLAPS

\* A function of the requests, whatever its values.
OverRequests(f) == f = [r \in Requests |-> f[r]]

FrameInv ==
    /\ overlap \in Nat \ {0}
    /\ OverRequests(pc) /\ OverRequests(call) /\ OverRequests(copy)
    /\ stored \subseteq Keys
    /\ commits \in [Keys -> Nat]
    /\ faults \in [Faults -> Nat]
    /\ \A r \in Requests : /\ call[r].key \in Keys \union {NoKey}
                           /\ pc[r] = "store" => call[r].key # NoKey
    /\ Serial => \A q, r \in Requests : InFlight(q) /\ InFlight(r) => q = r

\* The faults after which a key may be committed again or an entry stay behind.
Lost == faults["late"] + faults["redis"] + faults["abandon"]

\* The places of a request before its commit, and between it and the store.
Before == {"find", "commit"}
After == {"reread", "store"}

KeyInv ==
    Serial => \A k \in Keys :
        /\ commits[k] <= 1 + Lost
        /\ \A r \in Requests : (pc[r] \in Before /\ call[r].key = k) => commits[k] <= Lost
        /\ (k \notin stored /\ \A r \in Requests : ~(pc[r] \in After /\ call[r].key = k))
           => commits[k] <= Lost

------------------------------------------------------------------------------

LEMMA ContinueEffect ==
    ASSUME FrameInv, NEW r \in Requests, NEW c, NEW s, NEW x, Continue(r, c, s, x)
    PROVE  /\ pc'[r] = s
           /\ call'[r] = IF s = "done" THEN NoCall ELSE c
           /\ copy'[r] = IF s = "done" THEN NoCopy ELSE x
           /\ \A q \in Requests : q # r => /\ pc'[q] = pc[q]
                                           /\ call'[q] = call[q]
                                           /\ copy'[q] = copy[q]
           /\ OverRequests(pc)' /\ OverRequests(call)' /\ OverRequests(copy)'
  <1>1. OverRequests(pc) /\ OverRequests(call) /\ OverRequests(copy)
    BY DEF FrameInv
  <1>2. pc' = [pc EXCEPT ![r] = s]
    BY DEF Continue
  <1>3. call' = [call EXCEPT ![r] = IF s = "done" THEN NoCall ELSE c]
    BY DEF Continue
  <1>4. copy' = [copy EXCEPT ![r] = IF s = "done" THEN NoCopy ELSE x]
    BY DEF Continue
  <1>5. pc' = [q \in Requests |-> IF q = r THEN s ELSE pc[q]]
    BY <1>1, <1>2 DEF OverRequests
  <1>6. call' = [q \in Requests |-> IF q = r THEN IF s = "done" THEN NoCall ELSE c ELSE call[q]]
    BY <1>1, <1>3 DEF OverRequests
  <1>7. copy' = [q \in Requests |-> IF q = r THEN IF s = "done" THEN NoCopy ELSE x ELSE copy[q]]
    BY <1>1, <1>4 DEF OverRequests
  <1>8. OverRequests(pc)'
    BY <1>5 DEF OverRequests
  <1>9. OverRequests(call)'
    BY <1>6 DEF OverRequests
  <1>10. OverRequests(copy)'
    BY <1>7 DEF OverRequests
  <1>11. QED
    BY <1>5, <1>6, <1>7, <1>8, <1>9, <1>10

\* A fault is counted once, and only some count as lost steps.
LEMMA FaultCounts ==
    ASSUME faults \in [Faults -> Nat]
    PROVE  /\ Lost \in Nat
           /\ faults' = faults => Lost' = Lost
           /\ \A f \in Faults : Fault(f) => faults' \in [Faults -> Nat] /\ Lost <= Lost'
           /\ \A f \in {"late", "redis", "abandon"} : Fault(f) => Lost' = Lost + 1
           /\ NothingLost <=> Lost = 0
  <1>1. /\ faults["late"] \in Nat /\ faults["redis"] \in Nat /\ faults["abandon"] \in Nat
        /\ Lost \in Nat
    BY DEF Faults, Lost
  <1>2. faults' = faults => Lost' = Lost
    BY DEF Lost
  <1>3. ASSUME NEW f \in Faults, Fault(f) PROVE faults' \in [Faults -> Nat]
    BY <1>3 DEF Fault
  <1>4. ASSUME NEW f \in Faults, Fault(f)
        PROVE  /\ f \in {"late", "redis", "abandon"} => Lost' = Lost + 1
               /\ f \notin {"late", "redis", "abandon"} => Lost' = Lost
    <2>1. \A g \in Faults : faults'[g] = IF g = f THEN faults[g] + 1 ELSE faults[g]
      BY <1>4 DEF Fault
    <2>2. /\ faults'["late"] = IF "late" = f THEN faults["late"] + 1 ELSE faults["late"]
          /\ faults'["redis"] = IF "redis" = f THEN faults["redis"] + 1 ELSE faults["redis"]
          /\ faults'["abandon"] = IF "abandon" = f THEN faults["abandon"] + 1 ELSE faults["abandon"]
      BY <2>1 DEF Faults
    <2>3. QED
      BY <1>1, <2>2 DEF Lost
  <1>5. NothingLost <=> Lost = 0
    BY DEF NothingLost, Lost
  <1>6. QED
    BY <1>1, <1>2, <1>3, <1>4, <1>5 DEF Faults

\* When callers wait for each other, a request arrives while no other is in flight.
LEMMA ArrivesAlone ==
    ASSUME FrameInv, Serial, NEW r \in Requests, NEW c, NEW up, NEW asks,
           Arrives(r, c, up, asks)
    PROVE  \A q \in Requests : ~InFlight(q)
  <1> DEFINE busy == {q \in Requests : InFlight(q)}
  <1>1. IsFiniteSet(busy)
    BY HandlersAssumption, FS_Subset
  <1>2. Cardinality(busy) \in Nat
    BY <1>1, FS_CardinalityType
  <1>3. Cardinality(busy) < 1
    BY DEF Arrives, Serial
  <1> HIDE DEF busy
  <1>4. Cardinality(busy) = 0
    BY <1>2, <1>3
  <1>5. busy = {}
    BY <1>1, <1>4, FS_EmptySet
  <1>6. QED
    BY <1>5 DEF busy

\* The request moves on, alone.
LEMMA FrameStep ==
    ASSUME FrameInv, NEW r \in Requests, NEW c, NEW s, NEW x, Continue(r, c, s, x),
           c.key \in Keys \union {NoKey}, s = "store" => c.key # NoKey,
           overlap' = overlap,
           stored' \subseteq Keys, commits' \in [Keys -> Nat], faults' \in [Faults -> Nat],
           InFlight(r) \/ \E up, asks : Arrives(r, c, up, asks)
    PROVE  FrameInv'
  <1>1. /\ pc'[r] = s
        /\ call'[r] = IF s = "done" THEN NoCall ELSE c
        /\ \A q \in Requests : q # r => pc'[q] = pc[q] /\ call'[q] = call[q]
        /\ OverRequests(pc)' /\ OverRequests(call)' /\ OverRequests(copy)'
    BY ContinueEffect
  <1>2. NoCall.key = NoKey
    BY DEF NoCall
  <1>3. \A q \in Requests : /\ call'[q].key \in Keys \union {NoKey}
                            /\ pc'[q] = "store" => call'[q].key # NoKey
    BY <1>1, <1>2 DEF FrameInv
  <1>4. Serial' <=> Serial
    BY DEF Serial
  <1>5. ASSUME Serial PROVE \A q \in Requests : q # r => ~InFlight(q)
    BY <1>5, ArrivesAlone DEF FrameInv
  <1>6. Serial' => \A p, q \in Requests : InFlight(p)' /\ InFlight(q)' => p = q
    BY <1>1, <1>4, <1>5 DEF InFlight
  <1>7. QED
    BY <1>1, <1>3, <1>6 DEF FrameInv

\* A request gets past the check of its key only when the key is not stored, or
\* when Redis did not answer.
LEMMA KeyArrival ==
    ASSUME FrameInv, FrameInv', KeyInv, NEW r \in Requests, NEW c, NEW s, NEW x,
           Continue(r, c, s, x), NEW up \in BOOLEAN, NEW asks, Arrives(r, c, up, asks),
           s \in Before \union {"done"}, Replayed(c.key, up) => s = "done"
    PROVE  KeyInv'
  <1>1. /\ pc'[r] = s /\ (s # "done" => call'[r] = c)
        /\ \A q \in Requests : q # r => pc'[q] = pc[q] /\ call'[q] = call[q]
    BY ContinueEffect
  <1>2. UNCHANGED <<overlap, stored, commits>> /\ (IF up THEN faults' = faults ELSE Fault("redis"))
    BY DEF Arrives
  <1>3. /\ Lost \in Nat /\ Lost' \in Nat /\ Lost <= Lost'
        /\ up \/ Lost' = Lost + 1
    BY <1>2, FaultCounts DEF FrameInv, Faults
  <1> SUFFICES ASSUME Serial, NEW k \in Keys
               PROVE  /\ commits[k] <= 1 + Lost'
                      /\ \A q \in Requests : (pc'[q] \in Before /\ call'[q].key = k)
                                             => commits[k] <= Lost'
                      /\ k \notin stored => commits[k] <= Lost'
    BY <1>2 DEF KeyInv, Serial
  <1>4. \A q \in Requests : ~InFlight(q)
    BY ArrivesAlone
  <1>5. /\ commits[k] \in Nat /\ commits[k] <= 1 + Lost
        /\ k \notin stored => commits[k] <= Lost
    BY <1>4 DEF KeyInv, FrameInv, InFlight, After
  <1>6. ASSUME NEW q \in Requests, pc'[q] \in Before, call'[q].key = k PROVE commits[k] <= Lost'
    <2>1. q = r /\ c.key = k /\ s # "done"
      BY <1>1, <1>4, <1>6 DEF Before, InFlight
    <2>2. k \notin stored \/ Lost' = Lost + 1
      BY <1>3, <2>1 DEF Replayed
    <2>3. QED
      BY <1>3, <1>5, <2>2
  <1>7. QED
    BY <1>3, <1>5, <1>6

\* A request that does not commit: past its commit it gets to the store, stores
\* its key, or loses a step.
LEMMA KeyKept ==
    ASSUME FrameInv, FrameInv', KeyInv, NEW r \in Requests, NEW s, NEW x, Goto(r, s, x),
           InFlight(r), UNCHANGED <<overlap, commits>>, stored \subseteq stored', Lost <= Lost',
           s \in Before => pc[r] \in Before,
           (pc[r] \in After /\ call[r].key # NoKey)
             => s \in After \/ call[r].key \in stored' \/ Lost' = Lost + 1
    PROVE  KeyInv'
  <1>1. /\ pc'[r] = s /\ (s # "done" => call'[r] = call[r])
        /\ \A q \in Requests : q # r => pc'[q] = pc[q] /\ call'[q] = call[q]
    BY ContinueEffect DEF Goto
  <1>2. Lost \in Nat /\ Lost' \in Nat
    BY FaultCounts DEF FrameInv, Faults, Lost
  <1> SUFFICES ASSUME Serial, NEW k \in Keys
               PROVE  /\ commits[k] <= 1 + Lost'
                      /\ \A q \in Requests : (pc'[q] \in Before /\ call'[q].key = k)
                                             => commits[k] <= Lost'
                      /\ (k \notin stored' /\ \A q \in Requests : ~(pc'[q] \in After /\ call'[q].key = k))
                         => commits[k] <= Lost'
    BY DEF KeyInv, Serial
  <1>3. /\ commits[k] \in Nat /\ commits[k] <= 1 + Lost
        /\ \A q \in Requests : (pc[q] \in Before /\ call[q].key = k) => commits[k] <= Lost
        /\ (k \notin stored /\ \A q \in Requests : ~(pc[q] \in After /\ call[q].key = k))
           => commits[k] <= Lost
    BY DEF KeyInv, FrameInv
  <1>4. \A q \in Requests : pc'[q] \in Before => pc[q] \in Before /\ call'[q] = call[q]
    BY <1>1 DEF Before
  <1>5. ASSUME k \notin stored', \A q \in Requests : ~(pc'[q] \in After /\ call'[q].key = k)
        PROVE  commits[k] <= Lost'
    <2>1. CASE pc[r] \in After /\ call[r].key = k
      <3>1. s \notin After
        BY <1>1, <1>5, <2>1 DEF After
      <3>2. k # NoKey
        BY HandlersAssumption
      <3>3. Lost' = Lost + 1
        BY <1>5, <2>1, <3>1, <3>2
      <3>4. QED
        BY <1>2, <1>3, <3>3
    <2>2. CASE ~(pc[r] \in After /\ call[r].key = k)
      <3>1. \A q \in Requests : ~(pc[q] \in After /\ call[q].key = k)
        BY <1>1, <1>5, <2>2
      <3>2. k \notin stored
        BY <1>5
      <3>3. QED
        BY <1>2, <1>3, <3>1, <3>2
    <2>3. QED
      BY <2>1, <2>2
  <1>6. QED
    BY <1>2, <1>3, <1>4, <1>5

\* A commit under a key leads to its store.
LEMMA KeyCommitted ==
    ASSUME FrameInv, FrameInv', KeyInv, NEW r \in Requests, NEW s, NEW x, Goto(r, s, x),
           Commits(r), s \notin Before, call[r].key # NoKey => s \in After
    PROVE  KeyInv'
  <1>1. /\ pc'[r] = s /\ (s # "done" => call'[r] = call[r])
        /\ \A q \in Requests : q # r => pc'[q] = pc[q] /\ call'[q] = call[q]
    BY ContinueEffect DEF Goto
  <1>2. /\ pc[r] = "commit" /\ UNCHANGED <<overlap, stored, faults>>
        /\ commits' = [k \in Keys |-> IF k = call[r].key THEN commits[k] + 1 ELSE commits[k]]
    BY DEF Commits
  <1>3. Lost \in Nat /\ Lost' = Lost
    BY <1>2, FaultCounts DEF FrameInv
  <1> SUFFICES ASSUME Serial, NEW k \in Keys
               PROVE  /\ commits'[k] <= 1 + Lost
                      /\ \A q \in Requests : (pc'[q] \in Before /\ call'[q].key = k)
                                             => commits'[k] <= Lost
                      /\ (k \notin stored /\ \A q \in Requests : ~(pc'[q] \in After /\ call'[q].key = k))
                         => commits'[k] <= Lost
    BY <1>2, <1>3 DEF KeyInv, Serial
  <1>4. \A q \in Requests : q # r => ~InFlight(q)
    BY <1>2 DEF FrameInv, InFlight
  <1>5. \A q \in Requests : pc'[q] \notin Before
    BY <1>1, <1>4 DEF InFlight, Before
  <1>6. CASE k = call[r].key
    <2>1. commits[k] <= Lost /\ commits'[k] = commits[k] + 1 /\ commits[k] \in Nat
      BY <1>2, <1>6 DEF KeyInv, FrameInv, Before
    <2>2. pc'[r] \in After /\ call'[r].key = k
      BY HandlersAssumption, <1>1, <1>6 DEF After
    <2>3. QED
      BY <1>3, <1>5, <2>1, <2>2
  <1>7. CASE k # call[r].key
    <2>1. commits'[k] = commits[k]
      BY <1>2, <1>7
    <2>2. \A q \in Requests : pc[q] \notin After
      BY <1>2, <1>4 DEF InFlight, After
    <2>3. QED
      BY <1>5, <2>1, <2>2 DEF KeyInv
  <1>8. QED
    BY <1>6, <1>7

------------------------------------------------------------------------------
(***************************************************************************)
(* The steps that the services share.                                      *)
(***************************************************************************)

LEMMA GotoEffect ==
    ASSUME FrameInv, NEW r \in Requests, NEW s, NEW x, Goto(r, s, x)
    PROVE  /\ pc'[r] = s
           /\ s # "done" => call'[r] = call[r] /\ copy'[r] = x
           /\ \A q \in Requests : q # r => /\ pc'[q] = pc[q]
                                           /\ call'[q] = call[q]
                                           /\ copy'[q] = copy[q]
  BY ContinueEffect DEF Goto

\* The move of a request in flight keeps the frame.
LEMMA GotoFrame ==
    ASSUME FrameInv, NEW r \in Requests, NEW s, NEW x, Goto(r, s, x), InFlight(r),
           s = "store" => call[r].key # NoKey, overlap' = overlap,
           stored' \subseteq Keys, commits' \in [Keys -> Nat], faults' \in [Faults -> Nat]
    PROVE  FrameInv'
  <1>1. Continue(r, call[r], s, x) /\ call[r].key \in Keys \union {NoKey}
    BY DEF Goto, FrameInv
  <1>2. QED
    BY <1>1, FrameStep

\* A read, or a step on the cache.
LEMMA ReadStep ==
    ASSUME FrameInv, NEW r \in Requests, NEW at, NEW s, NEW x, Reads(r, at), Goto(r, s, x),
           at \notin {"idle", "done"}, s = "store" => call[r].key # NoKey
    PROVE  /\ FrameInv' /\ InFlight(r) /\ Lost' = Lost /\ overlap' = overlap
           /\ (/\ KeyInv /\ (s \in Before => at \in Before)
               /\ (at \in After /\ call[r].key # NoKey) => s \in After)
              => KeyInv'
  <1>1. pc[r] = at /\ UNCHANGED <<overlap, stored, commits, faults>> /\ InFlight(r)
    BY DEF Reads, InFlight
  <1>2. FrameInv'
    BY <1>1, GotoFrame DEF FrameInv
  <1>3. Lost' = Lost /\ Lost \in Nat
    BY <1>1, FaultCounts DEF FrameInv
  <1>4. Lost <= Lost'
    BY <1>3
  <1>5. QED
    BY <1>1, <1>2, <1>3, <1>4, KeyKept

\* The transaction commits.
LEMMA CommitFrame ==
    ASSUME FrameInv, NEW r \in Requests, NEW s, NEW x, Commits(r), Goto(r, s, x),
           s = "store" => call[r].key # NoKey
    PROVE  /\ FrameInv' /\ InFlight(r) /\ Lost' = Lost /\ overlap' = overlap
           /\ (KeyInv /\ s \notin Before /\ (call[r].key # NoKey => s \in After)) => KeyInv'
  <1>1. /\ pc[r] = "commit" /\ UNCHANGED <<overlap, stored, faults>> /\ InFlight(r)
        /\ commits' = [k \in Keys |-> IF k = call[r].key THEN commits[k] + 1 ELSE commits[k]]
    BY DEF Commits, InFlight
  <1>2. commits' \in [Keys -> Nat]
    BY <1>1 DEF FrameInv
  <1>3. FrameInv'
    BY <1>1, <1>2, GotoFrame DEF FrameInv
  <1>4. Lost' = Lost
    BY <1>1, FaultCounts DEF FrameInv
  <1>5. QED
    BY <1>1, <1>3, <1>4, KeyCommitted

\* A fault ends a request, or the step it is at.
LEMMA FaultStep ==
    ASSUME FrameInv, NEW r \in Requests, NEW f \in Faults, Fault(f), NEW s, NEW x,
           Goto(r, s, x), InFlight(r), UNCHANGED <<overlap, stored, commits>>, s # "store"
    PROVE  /\ FrameInv' /\ Lost <= Lost'
           /\ f \in {"late", "redis", "abandon"} => Lost' = Lost + 1
           /\ (/\ KeyInv /\ s \notin Before
               /\ (pc[r] \in After /\ call[r].key # NoKey) => f \in {"late", "redis", "abandon"})
              => KeyInv'
  <1>1. /\ faults' \in [Faults -> Nat] /\ Lost <= Lost'
        /\ f \in {"late", "redis", "abandon"} => Lost' = Lost + 1
    BY FaultCounts DEF FrameInv
  <1>2. FrameInv'
    BY <1>1, GotoFrame DEF FrameInv
  <1>3. QED
    BY <1>1, <1>2, KeyKept

LEMMA StoreStep ==
    ASSUME FrameInv, NEW r \in Requests, NEW next, StoreKey(r, next), next # "store"
    PROVE  /\ FrameInv' /\ InFlight(r) /\ Lost' = Lost /\ overlap' = overlap
           /\ KeyInv /\ next \notin Before => KeyInv'
  <1>1. /\ pc[r] = "store" /\ UNCHANGED <<overlap, commits, faults>> /\ InFlight(r)
        /\ stored' = stored \union {call[r].key} /\ Goto(r, next, NoCopy)
    BY DEF StoreKey, InFlight
  <1>2. stored' \subseteq Keys
    BY <1>1 DEF FrameInv
  <1>3. FrameInv'
    BY <1>1, <1>2, GotoFrame DEF FrameInv
  <1>4. Lost' = Lost /\ Lost \in Nat
    BY <1>1, FaultCounts DEF FrameInv
  <1>5. Lost <= Lost'
    BY <1>4
  <1>6. QED
    BY <1>1, <1>3, <1>4, <1>5, KeyKept

\* The faults that every service shares.
LEMMA SharedFaultStep ==
    ASSUME FrameInv, NEW r \in Requests, NEW next, next \notin Before \union {"store"},
           StoreFails(r, next) \/ CacheFails(r) \/ DatabaseFails(r) \/ Abandon(r)
    PROVE  /\ FrameInv' /\ InFlight(r) /\ overlap' = overlap /\ Lost <= Lost'
           /\ Lost' = Lost => DatabaseFails(r)
           /\ KeyInv => KeyInv'
           /\ \E s \in {"done", next} : Goto(r, s, NoCopy)
  <1>0. /\ Lost \in Nat /\ "done" \notin Before
    BY FaultCounts DEF FrameInv, Before
  <1>1. ASSUME NEW f \in Faults, Fault(f), NEW s \in {"done", next}, Goto(r, s, NoCopy),
               InFlight(r), UNCHANGED <<overlap, stored, commits>>,
               pc[r] \in After => f \in {"redis", "abandon"}
        PROVE  /\ FrameInv' /\ Lost <= Lost' /\ (KeyInv => KeyInv')
               /\ f \in {"redis", "abandon"} => Lost' = Lost + 1
    BY <1>0, <1>1, FaultStep
  <1>2. CASE StoreFails(r, next)
    <2>1. /\ Fault("redis") /\ Goto(r, next, NoCopy) /\ InFlight(r)
          /\ UNCHANGED <<overlap, stored, commits>>
      BY <1>2 DEF StoreFails, InFlight
    <2>2. QED
      BY <1>0, <1>1, <2>1 DEF Faults
  <1>3. CASE CacheFails(r)
    <2>1. /\ Fault("redis") /\ Goto(r, "done", NoCopy) /\ InFlight(r)
          /\ UNCHANGED <<overlap, stored, commits>>
      BY <1>3 DEF CacheFails, InFlight, Return
    <2>2. QED
      BY <1>0, <1>1, <2>1 DEF Faults
  <1>4. CASE DatabaseFails(r)
    <2>1. /\ Fault("db") /\ Goto(r, "done", NoCopy) /\ InFlight(r) /\ pc[r] \notin After
          /\ UNCHANGED <<overlap, stored, commits>>
      BY <1>4 DEF DatabaseFails, InFlight, Return, After
    <2>2. QED
      BY <1>0, <1>1, <1>4, <2>1 DEF Faults
  <1>5. CASE Abandon(r)
    <2>1. /\ Fault("abandon") /\ Goto(r, "done", NoCopy) /\ InFlight(r)
          /\ UNCHANGED <<overlap, stored, commits>>
      BY <1>5 DEF Abandon, Return
    <2>2. QED
      BY <1>0, <1>1, <2>1 DEF Faults
  <1>6. QED
    BY <1>2, <1>3, <1>4, <1>5

\* An arrival keeps the frame.
LEMMA ArrivesStep ==
    ASSUME FrameInv, NEW r \in Requests, NEW c, NEW up \in BOOLEAN, NEW asks, NEW s, NEW x,
           Arrives(r, c, up, asks), Continue(r, c, s, x), c.key \in Keys \union {NoKey},
           s # "store"
    PROVE  /\ FrameInv' /\ overlap' = overlap /\ Lost <= Lost'
           /\ up => Lost' = Lost
           /\ ~up => Lost' = Lost + 1
           /\ (KeyInv /\ s \in Before \union {"done"} /\ (Replayed(c.key, up) => s = "done"))
              => KeyInv'
  <1>1. UNCHANGED <<overlap, stored, commits>> /\ (IF up THEN faults' = faults ELSE Fault("redis"))
    BY DEF Arrives
  <1>2. /\ faults' \in [Faults -> Nat] /\ Lost \in Nat
        /\ up => Lost' = Lost
        /\ ~up => Lost' = Lost + 1
    BY <1>1, FaultCounts DEF FrameInv, Faults
  <1>3. FrameInv'
    BY <1>1, <1>2, FrameStep DEF FrameInv
  <1>4. QED
    BY <1>1, <1>2, <1>3, KeyArrival

LEMMA FrameInitial == FrameInit => FrameInv /\ KeyInv
  <1> SUFFICES ASSUME FrameInit PROVE FrameInv /\ KeyInv
    OBVIOUS
  <1>1. overlap \in Nat \ {0}
    BY HandlersAssumption DEF FrameInit
  <1>2. OverRequests(pc) /\ OverRequests(call) /\ OverRequests(copy)
    BY DEF FrameInit, OverRequests
  <1>3. FrameInv
    BY <1>1, <1>2 DEF FrameInit, FrameInv, NoCall, InFlight
  <1>4. Lost = 0
    BY DEF FrameInit, Lost, Faults
  <1>5. KeyInv
    BY <1>4 DEF FrameInit, KeyInv
  <1>6. QED
    BY <1>3, <1>5

LEMMA KeyInvSuffices == FrameInv /\ KeyInv => AtMostOncePerKey
  <1> SUFFICES ASSUME FrameInv, KeyInv PROVE AtMostOncePerKey
    OBVIOUS
  <1>1. /\ faults["late"] \in Nat /\ faults["redis"] \in Nat /\ faults["abandon"] \in Nat
        /\ commits \in [Keys -> Nat]
    BY DEF FrameInv, Faults
  <1>2. QED
    BY <1>1 DEF KeyInv, Lost, AtMostOncePerKey
==============================================================================
