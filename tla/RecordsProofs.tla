----------------------------- MODULE RecordsProofs -----------------------------
(***************************************************************************)
(* Proofs about Records, for any number of requests, records and keys.     *)
(*                                                                         *)
(* Whatever overlaps, a copy in memory is an image that the domain accepts *)
(* and an update only gets to its commit for a row that exists, so that    *)
(* the row and the last event cannot part.  When callers wait for each     *)
(* other the copy is also that of the live row, an old cache entry belongs *)
(* to a change under way, and Delete commits with its entry gone.          *)
(***************************************************************************)
EXTENDS Records, HandlersProofs

\* What the domain asks of a stored record, the limits of categories apart.
Sound(x) ==
    /\ x.value > 0 /\ (kind = "fixed" => x.value <= 31)
    /\ x.status \in StatusesOf(kind)

\* What a request in flight can be at, by its operation.
CallInv ==
    \A r \in Requests : InFlight(r) =>
        LET c == call[r] IN
        /\ c.op \in {"create", "update", "delete", "get"}
        /\ c.op # "create" => c.id \in Ids
        /\ c.op = "update" => c.edit \in Edits
        /\ c.op \in {"delete", "get"} => c.key = NoKey
        /\ c.op = "create" => pc[r] \in {"commit", "store"}
        /\ c.op = "update" => pc[r] \in {"find", "commit", "reread", "store", "evict"}
        /\ c.op = "delete" => pc[r] = "commit"
        /\ c.op = "get" => pc[r] \in {"find", "reread", "fill"}

CopyInv ==
    \A r \in Requests :
        /\ (pc[r] = "commit" /\ call[r].op \in {"create", "update"})
           => copy[r] \in Images /\ Sound(copy[r])
        /\ (pc[r] = "commit" /\ call[r].op = "update") => row[call[r].id] # "absent"
        /\ (call[r].op = "get" /\ pc[r] \in {"reread", "fill"}) => copy[r] \in Images

EventInv ==
    \A i \in Ids :
        row[i] = "live" => /\ event[i].status \in {"none", record[i].status}
                           /\ event[i].type = "updated" => event[i].status = record[i].status

\* One request at a time: its copy is that of the row, which is still live.
FreshInv ==
    Serial =>
        /\ \A r \in Requests :
              LET i == call[r].id IN
              /\ (pc[r] = "commit" /\ call[r].op = "update") => row[i] = "live"
              /\ (call[r].op = "get" /\ pc[r] \in {"reread", "fill"})
                 => row[i] = "live" /\ copy[r] = record[i]
        /\ \A i \in Ids : row[i] = "deleted" => event[i].type = "deleted"

\* The request r has changed record i and has yet to evict its entry.
WillEvict(r, i) ==
    pc[r] \in {"reread", "store", "evict"} /\ call[r].op = "update" /\ call[r].id = i

Current(i) == row[i] = "live" /\ cached[i] = record[i]

CacheInv ==
    (Serial /\ Lost = 0) =>
        /\ \A i \in Ids :
              cached[i] # NoImage => Current(i) \/ \E r \in Requests : WillEvict(r, i)
        /\ \A r \in Requests :
              (pc[r] = "commit" /\ call[r].op = "delete") => cached[call[r].id] = NoImage

RecordsInv ==
    /\ TypeOK /\ FrameInv /\ CallInv /\ CopyInv /\ EventInv
    /\ FreshInv /\ KeyInv /\ CacheInv

------------------------------------------------------------------------------
(***************************************************************************)
(* The domain.                                                             *)
(***************************************************************************)

LEMMA StatusesTyped ==
    /\ \A k \in Kinds : StatusesOf(k) \subseteq Statuses
    /\ Statuses = {"active", "paused", "completed", "cancelled", "pending"}
  BY DEF Kinds, StatusesOf, Statuses

LEMMA NoImageTyped == NoImage \in Images
  BY DEF NoImage, Images

\* The constructors accept sound values; categories are only compared by NewBudget.
LEMMA ValidIsSound ==
    ASSUME kind \in Kinds, NEW o, o.value \in Int, IsValid(o)
    PROVE  Sound(o)
  <1>1. CASE kind = "income"
    BY <1>1 DEF IsValid, NewIncome, Sound, StatusesOf
  <1>2. CASE kind = "fixed"
    BY <1>2 DEF IsValid, NewFixedExpense, Sound, StatusesOf
  <1>3. CASE kind = "variable"
    BY <1>3 DEF IsValid, NewVariableExpense, Sound, StatusesOf
  <1>4. CASE kind = "budget"
    BY <1>4 DEF IsValid, NewBudget, Sound, StatusesOf
  <1>5. QED
    BY <1>1, <1>2, <1>3, <1>4 DEF Kinds

LEMMA SoundIsValid ==
    ASSUME kind \in Kinds, NEW x \in Images, Sound(x)
    PROVE  IsValid([x EXCEPT !.categories = 0])
  <1> DEFINE y == [x EXCEPT !.categories = 0]
  <1>1. y.value = x.value /\ y.status = x.status /\ y.categories = 0 /\ x.value \in Nat
    BY DEF Images
  <1> SUFFICES IsValid(y)
    OBVIOUS
  <1> HIDE DEF y
  <1>2. CASE kind = "income"
    BY <1>1, <1>2 DEF IsValid, NewIncome, Sound
  <1>3. CASE kind = "fixed"
    BY <1>1, <1>3 DEF IsValid, NewFixedExpense, Sound
  <1>4. CASE kind = "variable"
    BY <1>1, <1>4 DEF IsValid, NewVariableExpense, Sound
  <1>5. CASE kind = "budget"
    BY <1>1, <1>5 DEF IsValid, NewBudget, Sound
  <1>6. QED
    BY <1>2, <1>3, <1>4, <1>5 DEF Kinds

\* ApplyUpdate keeps a record sound.
LEMMA UpdateIsSound ==
    ASSUME kind \in Kinds, NEW x \in Images, Sound(x), NEW e \in Edits, CanUpdate(x, e)
    PROVE  ApplyUpdate(x, e) \in Images /\ Sound(ApplyUpdate(x, e))
  <1> DEFINE y == ApplyUpdate(x, e)
             v == IF e.value = Keep THEN x.value ELSE e.value
             s == IF e.status = Keep THEN x.status ELSE e.status
  <1>1. y = [value |-> v, status |-> s, categories |-> x.categories]
    BY DEF ApplyUpdate
  <1>2. e.value = Keep \/ e.value \in Int
    BY RecordsAssumption
  <1>3. v \in Nat /\ v > 0 /\ (kind = "fixed" => v <= 31)
    BY <1>2 DEF CanUpdate, Sound, Images
  <1>4. s \in StatusesOf(kind)
    BY DEF CanUpdate, Sound, Allowed, AllowedBudget, AllowedTransaction, StatusesOf
  <1>5. y \in Images
    BY <1>1, <1>3, <1>4, StatusesTyped DEF Images
  <1>6. y.value = v /\ y.status = s
    BY <1>1
  <1>7. Sound(y)
    BY <1>3, <1>4, <1>6 DEF Sound
  <1>8. QED
    BY <1>5, <1>7

------------------------------------------------------------------------------
(***************************************************************************)
(* A request arrives.                                                      *)
(***************************************************************************)

\* What the four operations have in common as they arrive.
ArrivesWith(r, c, up, asks, s, x) ==
    /\ Arrives(r, c, up, asks) /\ Continue(r, c, s, x) /\ UNCHANGED tables
    /\ c.key \in Keys \union {NoKey} /\ (Replayed(c.key, up) => s = "done")
    /\ \/ s = "done"
       \/ s = "find" /\ c.op = "update" /\ c.id \in Ids /\ c.edit \in Edits
       \/ s = "find" /\ c.op = "get" /\ c.id \in Ids /\ c.key = NoKey
       \/ s = "commit" /\ c.op = "create" /\ x \in Images /\ Sound(x)
       \/ /\ s = "commit" /\ c.op = "delete" /\ c.id \in Ids /\ c.key = NoKey
          /\ up => cached'[c.id] = NoImage
    /\ \A i \in Ids : cached'[i] \in {cached[i], NoImage}
    /\ cached' \in [Ids -> Images]

LEMMA ArrivalShape ==
    ASSUME TypeOK, NEW r \in Requests, Mutation(r) \/ Keyless(r)
    PROVE  \E up \in BOOLEAN : \E c, asks, s, x : ArrivesWith(r, c, up, asks, s, x)
  <1>0. /\ kind \in Kinds /\ cached \in [Ids -> Images] /\ NoKey \notin stored
    BY HandlersAssumption DEF TypeOK, FrameTypeOK
  <1>1. ASSUME NEW k, NEW o \in Openings, NEW key \in Keys \union {NoKey}, NEW up \in BOOLEAN,
               Create(r, k, o, key, up)
        PROVE  \E c, asks, s, x : ArrivesWith(r, c, up, asks, s, x)
    <2> DEFINE c == [op |-> "create", id |-> NoId, key |-> key, opening |-> o]
    <2>1. c.op = "create" /\ c.key = key
      OBVIOUS
    <2>2. Arrives(r, c, up, key # NoKey) /\ UNCHANGED tables /\ cached' = cached
      BY <1>1 DEF Create
    <2>3. CASE Replayed(key, up) \/ ~IsValid(o)
      <3>1. Continue(r, c, "done", NoCopy)
        BY <1>1, <2>3 DEF Create
      <3> HIDE DEF c
      <3>2. ArrivesWith(r, c, up, key # NoKey, "done", NoCopy)
        BY <1>0, <2>1, <2>2, <3>1 DEF ArrivesWith
      <3>3. QED
        BY <3>2
    <2>4. CASE ~Replayed(key, up) /\ IsValid(o)
      <3>1. Continue(r, c, "commit", o)
        BY <1>1, <2>4 DEF Create
      <3>2. o \in [value : Int, status : Statuses, categories : Nat]
        BY RecordsAssumption
      <3>3. Sound(o)
        BY <1>0, <2>4, <3>2, ValidIsSound
      <3>4. o \in Images
        BY <3>2, <3>3 DEF Images, Sound
      <3> HIDE DEF c
      <3>5. ArrivesWith(r, c, up, key # NoKey, "commit", o)
        BY <1>0, <2>1, <2>2, <2>4, <3>1, <3>3, <3>4 DEF ArrivesWith
      <3>6. QED
        BY <3>5
    <2>5. QED
      BY <2>3, <2>4
  <1>2. ASSUME NEW k, NEW i \in Ids, NEW e \in Edits, NEW key \in Keys \union {NoKey},
               NEW up \in BOOLEAN, Update(r, k, i, e, key, up)
        PROVE  \E c, asks, s, x : ArrivesWith(r, c, up, asks, s, x)
    <2> DEFINE c == [op |-> "update", id |-> i, key |-> key, edit |-> e]
               s == IF Replayed(key, up) THEN "done" ELSE "find"
    <2>1. c.op = "update" /\ c.key = key /\ c.id = i /\ c.edit = e
      OBVIOUS
    <2>2. Arrives(r, c, up, key # NoKey) /\ UNCHANGED tables /\ cached' = cached
          /\ Continue(r, c, s, NoCopy)
      BY <1>2 DEF Update
    <2> HIDE DEF c
    <2>3. ArrivesWith(r, c, up, key # NoKey, s, NoCopy)
      BY <1>0, <2>1, <2>2 DEF ArrivesWith
    <2>4. QED
      BY <2>3
  <1>3. ASSUME NEW k, NEW i \in Ids, NEW m, NEW up \in BOOLEAN, Delete(r, k, i, m, up)
        PROVE  \E c, asks, s, x : ArrivesWith(r, c, up, asks, s, x)
    <2> DEFINE c == [op |-> "delete", id |-> i, key |-> NoKey, mine |-> m]
    <2>1. c.op = "delete" /\ c.key = NoKey /\ c.id = i
      OBVIOUS
    <2>2. Arrives(r, c, up, TRUE) /\ UNCHANGED tables /\ Continue(r, c, "commit", NoCopy)
          /\ cached' = IF up THEN [cached EXCEPT ![i] = NoImage] ELSE cached
      BY <1>3 DEF Delete
    <2>3. /\ cached' \in [Ids -> Images] /\ (up => cached'[i] = NoImage)
          /\ \A j \in Ids : cached'[j] \in {cached[j], NoImage}
      BY <1>0, <2>2, NoImageTyped
    <2> HIDE DEF c
    <2>4. ArrivesWith(r, c, up, TRUE, "commit", NoCopy)
      BY <1>0, <2>1, <2>2, <2>3 DEF ArrivesWith, Replayed
    <2>5. QED
      BY <2>4
  <1>4. ASSUME NEW k, NEW i \in Ids, NEW up \in BOOLEAN, Get(r, k, i, up)
        PROVE  \E c, asks, s, x : ArrivesWith(r, c, up, asks, s, x)
    <2> DEFINE c == [op |-> "get", id |-> i, key |-> NoKey]
               s == IF up /\ cached[i] # NoImage THEN "done" ELSE "find"
    <2>1. c.op = "get" /\ c.key = NoKey /\ c.id = i
      OBVIOUS
    <2>2. Arrives(r, c, up, TRUE) /\ UNCHANGED tables /\ cached' = cached
          /\ Continue(r, c, s, NoCopy)
      BY <1>4 DEF Get
    <2> HIDE DEF c
    <2>3. ArrivesWith(r, c, up, TRUE, s, NoCopy)
      BY <1>0, <2>1, <2>2 DEF ArrivesWith, Replayed
    <2>4. QED
      BY <2>3
  <1>5. ASSUME Mutation(r)
        PROVE  \E k \in Kinds, key \in Keys \union {NoKey}, up \in BOOLEAN :
                  \/ \E o \in Openings : Create(r, k, o, key, up)
                  \/ \E i \in Ids, e \in Edits : Update(r, k, i, e, key, up)
    <2>1. PICK key \in Keys \union {NoKey}, up \in BOOLEAN :
             \/ \E o \in Openings, k \in Kinds : Create(r, k, o, key, up)
             \/ \E i \in Ids, e \in Edits, k \in Kinds : Update(r, k, i, e, key, up)
      BY <1>5, Zenon
         DEF Mutation, CreateIncome, CreateFixedExpense, CreateVariableExpense, CreateBudget,
             UpdateIncome, UpdateFixedExpense, UpdateVariableExpense, UpdateBudget, Kinds
    <2>2. QED
      BY <2>1
  <1>6. ASSUME Keyless(r)
        PROVE  \E k \in Kinds, i \in Ids, up \in BOOLEAN :
                  (\E m \in BOOLEAN : Delete(r, k, i, m, up)) \/ Get(r, k, i, up)
    BY <1>6, Zenon
       DEF Keyless, DeleteIncome, DeleteFixedExpense, DeleteVariableExpense, DeleteBudget,
           GetIncome, GetFixedExpense, GetVariableExpense, GetBudget, Kinds
  <1>7. CASE Mutation(r)
    BY <1>1, <1>2, <1>5, <1>7
  <1>8. CASE Keyless(r)
    BY <1>3, <1>4, <1>6, <1>8
  <1>9. QED
    BY <1>7, <1>8

------------------------------------------------------------------------------
(***************************************************************************)
(* The parts of the type invariant, and what a step may leave alone.       *)
(***************************************************************************)

Places == {"idle", "find", "commit", "reread", "store", "evict", "fill", "done"}

TablesOK ==
    /\ kind \in Kinds
    /\ row \in [Ids -> {"absent", "live", "deleted"}]
    /\ record \in [Ids -> Images]
    /\ \A i \in Ids : row[i] # "absent" => Sound(record[i])
    /\ event \in [Ids -> [type : {"none", "created", "updated", "deleted"},
                          status : Statuses \union {"none"}]]

LEMMA TypeParts ==
    TypeOK <=> FrameTypeOK /\ TablesOK /\ cached \in [Ids -> Images]
  <1>1. ASSUME kind \in Kinds, record \in [Ids -> Images], NEW i \in Ids
        PROVE  IsValid([record[i] EXCEPT !.categories = 0]) <=> Sound(record[i])
    <2>1. record[i] \in Images
      BY <1>1
    <2>2. Sound(record[i]) => IsValid([record[i] EXCEPT !.categories = 0])
      BY <1>1, <2>1, SoundIsValid
    <2> DEFINE y == [record[i] EXCEPT !.categories = 0]
    <2>3. y.value = record[i].value /\ y.status = record[i].status /\ y.value \in Int
      BY <2>1 DEF Images
    <2>4. IsValid(y) => Sound(y)
      BY <1>1, <2>3, ValidIsSound
    <2>5. Sound(y) => Sound(record[i])
      BY <2>3 DEF Sound
    <2>6. QED
      BY <2>2, <2>4, <2>5
  <1>2. QED
    BY <1>1 DEF TypeOK, TablesOK

LEMMA TypePartsNext ==
    (FrameTypeOK /\ TablesOK /\ cached \in [Ids -> Images])' => TypeOK'
  BY TypeParts, PTL

LEMMA FrameTyped ==
    ASSUME FrameTypeOK, FrameInv', NEW r \in Requests, pc'[r] \in Places,
           \A q \in Requests : q # r => pc'[q] = pc[q]
    PROVE  FrameTypeOK'
  <1>1. \A q \in Requests : pc'[q] \in Places
    BY DEF FrameTypeOK, Places
  <1>2. pc' = [q \in Requests |-> pc'[q]]
    BY DEF FrameInv, OverRequests
  <1>3. pc' \in [Requests -> Places]
    BY <1>1, <1>2
  <1>4. QED
    BY <1>3 DEF FrameInv, FrameTypeOK, Places

\* The last event of a record depends on the tables alone.
LEMMA TablesKept ==
    ASSUME TablesOK, EventInv, UNCHANGED tables
    PROVE  TablesOK' /\ EventInv' /\ (\A x : Sound(x)' <=> Sound(x))
  BY DEF TablesOK, EventInv, tables, Sound

------------------------------------------------------------------------------

LEMMA ArrivalStep ==
    ASSUME RecordsInv, NEW r \in Requests, Mutation(r) \/ Keyless(r)
    PROVE  RecordsInv'
  <1>0. /\ TypeOK /\ FrameInv /\ CallInv /\ CopyInv /\ EventInv /\ FreshInv /\ KeyInv /\ CacheInv
        /\ FrameTypeOK /\ TablesOK /\ cached \in [Ids -> Images]
    BY TypeParts DEF RecordsInv
  <1>U. PICK up \in BOOLEAN : \E c, asks, s, x : ArrivesWith(r, c, up, asks, s, x)
    BY <1>0, ArrivalShape
  <1>1. PICK c, asks, s, x : ArrivesWith(r, c, up, asks, s, x)
    BY <1>U
  <1>2. /\ Arrives(r, c, up, asks) /\ Continue(r, c, s, x) /\ UNCHANGED tables
        /\ c.key \in Keys \union {NoKey} /\ (Replayed(c.key, up) => s = "done")
        /\ s \in {"done", "find", "commit"}
    BY <1>1 DEF ArrivesWith
  <1>3. /\ FrameInv' /\ KeyInv' /\ overlap' = overlap
        /\ up => Lost' = Lost
        /\ ~up => Lost' = Lost + 1
    BY <1>0, <1>2, ArrivesStep DEF Before
  <1>4. /\ pc'[r] = s
        /\ s # "done" => call'[r] = c /\ copy'[r] = x
        /\ \A q \in Requests : q # r => /\ pc'[q] = pc[q]
                                        /\ call'[q] = call[q]
                                        /\ copy'[q] = copy[q]
    BY <1>0, <1>2, ContinueEffect
  <1>5. TablesOK' /\ EventInv' /\ (\A y : Sound(y)' <=> Sound(y))
    BY <1>0, <1>2, TablesKept
  <1>6. UNCHANGED <<kind, row, record, event>>
    BY <1>2 DEF tables
  <1>7. TypeOK'
    <2>1. FrameTypeOK'
      BY <1>0, <1>2, <1>3, <1>4, FrameTyped DEF Places
    <2>2. QED
      BY <1>1, <1>5, <2>1, TypePartsNext DEF ArrivesWith
  <1>8. CallInv'
    <2>1. \A q \in Requests : q # r => (InFlight(q)' <=> InFlight(q))
      BY <1>4 DEF InFlight
    <2>2. s # "done" => /\ c.op \in {"create", "update", "delete", "get"}
                        /\ c.op # "create" => c.id \in Ids
                        /\ c.op = "update" => c.edit \in Edits
                        /\ c.op \in {"delete", "get"} => c.key = NoKey
                        /\ c.op \in {"create", "delete"} => s = "commit"
                        /\ c.op \in {"update", "get"} => s = "find"
      BY <1>1 DEF ArrivesWith
    <2>3. QED
      BY <1>0, <1>4, <2>1, <2>2 DEF CallInv, InFlight
  <1>9. CopyInv'
    <2>1. s = "commit" => /\ c.op \in {"create", "delete"}
                          /\ c.op = "create" => x \in Images /\ Sound(x)
      BY <1>1 DEF ArrivesWith
    <2>2. QED
      BY <1>0, <1>2, <1>4, <1>5, <1>6, <2>1 DEF CopyInv
  <1>10. FreshInv'
    <2>1. s = "commit" => c.op \in {"create", "delete"}
      BY <1>1 DEF ArrivesWith
    <2>2. Serial' <=> Serial
      BY <1>3 DEF Serial
    <2>3. QED
      BY <1>0, <1>2, <1>4, <1>6, <2>1, <2>2 DEF FreshInv
  <1>11. CacheInv'
    <2> SUFFICES ASSUME Serial, Lost' = 0
                 PROVE  /\ \A i \in Ids : cached'[i] # NoImage => Current(i)'
                        /\ \A q \in Requests : (pc'[q] = "commit" /\ call'[q].op = "delete")
                                               => cached'[call'[q].id] = NoImage
      BY <1>3 DEF CacheInv, Serial
    <2>1. \A q \in Requests : ~InFlight(q)
      BY <1>0, <1>2, ArrivesAlone
    <2>2. up /\ Lost = 0
      BY <1>0, <1>3, FaultCounts DEF FrameInv
    <2>3. \A i \in Ids : cached[i] # NoImage => Current(i)
      BY <1>0, <2>1, <2>2 DEF CacheInv, WillEvict, InFlight
    <2>4. \A i \in Ids : cached'[i] \in {cached[i], NoImage}
      BY <1>1 DEF ArrivesWith
    <2>5. \A i \in Ids : cached'[i] # NoImage => Current(i)'
      BY <1>6, <2>3, <2>4 DEF Current
    <2>6. (s = "commit" /\ c.op = "delete") => cached'[c.id] = NoImage
      BY <1>1, <2>2 DEF ArrivesWith
    <2>7. QED
      BY <1>4, <2>1, <2>5, <2>6 DEF InFlight
  <1>12. QED
    BY <1>3, <1>5, <1>7, <1>8, <1>9, <1>10, <1>11 DEF RecordsInv

------------------------------------------------------------------------------
(***************************************************************************)
(* The steps of a request.                                                 *)
(***************************************************************************)

LEMMA FindStep ==
    ASSUME RecordsInv, NEW r \in Requests, Find(r)
    PROVE  RecordsInv'
  <1>0. /\ TypeOK /\ FrameInv /\ CallInv /\ CopyInv /\ EventInv /\ FreshInv /\ KeyInv /\ CacheInv
        /\ FrameTypeOK /\ TablesOK /\ cached \in [Ids -> Images]
    BY TypeParts DEF RecordsInv
  <1> DEFINE i == call[r].id
  <1>1. /\ Reads(r, "find") /\ pc[r] = "find" /\ row[i] = "live" /\ UNCHANGED <<tables, cached>>
        /\ call[r].op \in {"update", "get"}
    BY DEF Find, Reads
  <1>2. i \in Ids /\ record[i] \in Images /\ Sound(record[i]) /\ kind \in Kinds
    BY <1>0, <1>1 DEF CallInv, InFlight, TablesOK
  <1>3. PICK s, x : /\ Goto(r, s, x)
                    /\ \/ /\ s = "commit" /\ call[r].op = "update" /\ x \in Images /\ Sound(x)
                       \/ /\ s \in {"reread", "fill"} /\ call[r].op = "get" /\ x = record[i]
    <2>1. CASE call[r].op = "update"
      <3>1. /\ CanUpdate(record[i], call[r].edit)
            /\ Goto(r, "commit", ApplyUpdate(record[i], call[r].edit))
        BY <2>1 DEF Find
      <3>2. call[r].edit \in Edits
        BY <1>0, <1>1, <2>1 DEF CallInv, InFlight
      <3>3. /\ ApplyUpdate(record[i], call[r].edit) \in Images
            /\ Sound(ApplyUpdate(record[i], call[r].edit))
        BY <1>2, <3>1, <3>2, UpdateIsSound
      <3>4. QED
        BY <2>1, <3>1, <3>3
    <2>2. CASE call[r].op = "get"
      BY <2>2 DEF Find
    <2>3. QED
      BY <1>1, <2>1, <2>2
  <1>4. s \in {"commit", "reread", "fill"}
    BY <1>3
  <1>5. FrameInv' /\ KeyInv' /\ Lost' = Lost /\ overlap' = overlap /\ InFlight(r)
    BY <1>0, <1>1, <1>3, <1>4, ReadStep DEF Before, After
  <1>6. /\ pc'[r] = s /\ call'[r] = call[r] /\ copy'[r] = x
        /\ \A q \in Requests : q # r => /\ pc'[q] = pc[q]
                                        /\ call'[q] = call[q]
                                        /\ copy'[q] = copy[q]
    BY <1>0, <1>3, <1>4, GotoEffect
  <1>7. TablesOK' /\ EventInv' /\ (\A y : Sound(y)' <=> Sound(y))
    BY <1>0, <1>1, TablesKept
  <1>8. UNCHANGED <<kind, row, record, event, cached>> /\ (Serial' <=> Serial)
    BY <1>1, <1>5 DEF tables, Serial
  <1>9. TypeOK'
    <2>1. FrameTypeOK'
      BY <1>0, <1>4, <1>5, <1>6, FrameTyped DEF Places
    <2>2. QED
      BY <1>0, <1>7, <1>8, <2>1, TypePartsNext
  <1>10. CallInv'
    <2>1. \A q \in Requests : InFlight(q)' <=> InFlight(q)
      BY <1>1, <1>4, <1>6 DEF InFlight
    <2>2. QED
      BY <1>0, <1>1, <1>3, <1>6, <2>1 DEF CallInv
  <1>11. CopyInv'
    BY <1>0, <1>1, <1>2, <1>3, <1>6, <1>7, <1>8 DEF CopyInv
  <1>12. FreshInv'
    BY <1>0, <1>1, <1>3, <1>6, <1>8 DEF FreshInv
  <1>13. CacheInv'
    <2>1. \A q \in Requests, j \in Ids : WillEvict(q, j) => WillEvict(q, j)'
      BY <1>1, <1>6 DEF WillEvict
    <2>2. \A j \in Ids : Current(j)' <=> Current(j)
      BY <1>8 DEF Current
    <2>3. \A q \in Requests : (pc'[q] = "commit" /\ call'[q].op = "delete")
                              => pc[q] = "commit" /\ call[q].op = "delete" /\ call'[q] = call[q]
      BY <1>1, <1>6
    <2>4. QED
      BY <1>0, <1>5, <1>8, <2>1, <2>2, <2>3 DEF CacheInv
  <1>14. QED
    BY <1>5, <1>7, <1>9, <1>10, <1>11, <1>12, <1>13 DEF RecordsInv

LEMMA AfterCommitIs ==
    ASSUME NEW c, c.op \in {"create", "update", "delete"}, c.op = "delete" => c.key = NoKey
    PROVE  /\ c.key # NoKey => AfterCommit(c) \in After
           /\ AfterCommit(c) = "store" => c.key # NoKey
           /\ c.op = "create" => AfterCommit(c) \in {"store", "done"}
           /\ c.op = "update" => AfterCommit(c) \in {"reread", "store", "evict"}
           /\ c.op = "delete" => AfterCommit(c) = "done"
  BY DEF AfterCommit, After

\* The commits: the row of one record changes together with its event, and the
\* request has nothing left in memory.
CommitMove(r, i) ==
    /\ Commits(r) /\ Goto(r, AfterCommit(call[r]), NoCopy) /\ UNCHANGED <<kind, cached>>
    /\ i \in Ids /\ call[r].op \in {"create", "update", "delete"}
    /\ call[r].op # "create" => i = call[r].id
    /\ \A j \in Ids : j # i => UNCHANGED <<row[j], record[j], event[j]>>
    /\ row[i] # "absent" => row'[i] # "absent"
    /\ TablesOK' /\ EventInv'
    /\ Serial => (row'[i] = "deleted" => event'[i].type = "deleted")
    /\ call[r].op = "create" => row[i] = "absent"

LEMMA CommitShape ==
    ASSUME RecordsInv, NEW r \in Requests,
           (\E i \in Ids : CommitCreate(r, i)) \/ CommitUpdate(r) \/ CommitDelete(r)
    PROVE  \E i \in Ids : CommitMove(r, i)
  <1>0. TablesOK /\ CallInv /\ CopyInv /\ EventInv /\ FreshInv
    BY TypeParts DEF RecordsInv
  <1>T. /\ kind \in Kinds /\ record \in [Ids -> Images]
        /\ row \in [Ids -> {"absent", "live", "deleted"}]
        /\ event \in [Ids -> [type : {"none", "created", "updated", "deleted"},
                              status : Statuses \union {"none"}]]
        /\ \A j \in Ids : row[j] # "absent" => Sound(record[j])
    BY <1>0 DEF TablesOK
  <1>S. kind' = kind => \A y : Sound(y)' <=> Sound(y)
    BY DEF Sound
  <1>1. ASSUME NEW i \in Ids, CommitCreate(r, i) PROVE CommitMove(r, i)
    <2> DEFINE x == [copy[r] EXCEPT !.categories = IF kind = "budget" THEN @ ELSE 0]
    <2>1. /\ call[r].op = "create" /\ Commits(r) /\ Goto(r, AfterCommit(call[r]), NoCopy)
          /\ UNCHANGED <<kind, cached>> /\ row[i] = "absent"
          /\ row' = [row EXCEPT ![i] = "live"] /\ record' = [record EXCEPT ![i] = x]
          /\ event' = [event EXCEPT ![i] = Created(copy[r])]
      BY <1>1 DEF CommitCreate
    <2>2. copy[r] \in Images /\ Sound(copy[r])
      BY <1>0, <2>1 DEF CopyInv, Commits
    <2>3. x \in Images /\ Sound(x)
      BY <2>2 DEF Images, Sound
    <2>4. Created(copy[r]) \in [type : {"none", "created", "updated", "deleted"},
                                status : Statuses \union {"none"}]
      BY <2>2 DEF Created, Images
    <2>5. /\ Created(copy[r]).type = "created" /\ Created(copy[r]).status \in {"none", x.status}
      BY <2>2 DEF Created, Images
    <2> HIDE DEF x
    <2>6. /\ row'[i] = "live" /\ record'[i] = x /\ event'[i] = Created(copy[r])
          /\ \A j \in Ids : j # i => row'[j] = row[j] /\ record'[j] = record[j] /\ event'[j] = event[j]
      BY <1>T, <2>1
    <2>7. TablesOK'
      BY <1>T, <1>S, <2>1, <2>3, <2>4, <2>6 DEF TablesOK
    <2>8. EventInv'
      BY <1>0, <2>5, <2>6 DEF EventInv
    <2>9. QED
      BY <2>1, <2>6, <2>7, <2>8 DEF CommitMove
  <1>2. ASSUME CommitUpdate(r) PROVE CommitMove(r, call[r].id) /\ call[r].id \in Ids
    <2> DEFINE i == call[r].id
               e == [type |-> "updated", status |-> copy[r].status]
    <2>1. /\ call[r].op = "update" /\ Commits(r) /\ Goto(r, AfterCommit(call[r]), NoCopy)
          /\ UNCHANGED <<kind, row, cached>>
          /\ record' = IF row[i] = "live" THEN [record EXCEPT ![i] = copy[r]] ELSE record
          /\ event' = [event EXCEPT ![i] = e]
      BY <1>2 DEF CommitUpdate
    <2>2. copy[r] \in Images /\ Sound(copy[r]) /\ row[i] # "absent" /\ i \in Ids
      BY <1>0, <2>1 DEF CopyInv, CallInv, InFlight, Commits
    <2>3. /\ e \in [type : {"none", "created", "updated", "deleted"},
                    status : Statuses \union {"none"}]
          /\ e.type = "updated" /\ e.status = copy[r].status
      BY <2>2 DEF Images
    <2>4. Serial => row[i] = "live"
      BY <1>0, <2>1 DEF FreshInv, Commits
    <2> HIDE DEF e, i
    <2>5. /\ event'[i] = e /\ (row[i] = "live" => record'[i] = copy[r])
          /\ row[i] # "live" => record'[i] = record[i]
          /\ \A j \in Ids : j # i => row'[j] = row[j] /\ record'[j] = record[j] /\ event'[j] = event[j]
      BY <1>T, <2>1, <2>2
    <2>6. TablesOK'
      <3>1. record' \in [Ids -> Images]
        BY <1>T, <2>1, <2>2
      <3>2. \A j \in Ids : (row[j] # "absent" => Sound(record[j]))'
        BY <1>T, <1>S, <2>1, <2>2, <2>5
      <3>3. event' \in [Ids -> [type : {"none", "created", "updated", "deleted"},
                                status : Statuses \union {"none"}]]
        BY <1>T, <2>1, <2>3
      <3>4. QED
        BY <1>T, <2>1, <3>1, <3>2, <3>3 DEF TablesOK
    <2>7. EventInv'
      BY <1>0, <2>1, <2>3, <2>5 DEF EventInv
    <2>8. CommitMove(r, i)
      BY <1>T, <2>1, <2>2, <2>4, <2>5, <2>6, <2>7 DEF CommitMove, i
    <2>9. QED
      BY <2>2, <2>8 DEF i
  <1>3. ASSUME CommitDelete(r) PROVE CommitMove(r, call[r].id) /\ call[r].id \in Ids
    <2> DEFINE i == call[r].id
               e == [type |-> "deleted", status |-> event[i].status]
    <2>1. /\ call[r].op = "delete" /\ Commits(r) /\ Goto(r, AfterCommit(call[r]), NoCopy)
          /\ UNCHANGED <<kind, record, cached>>
          /\ row' = row \/ (row' = [row EXCEPT ![i] = "deleted"] /\ row[i] = "live")
          /\ event' = [event EXCEPT ![i].type = "deleted"]
      <3>1. CASE call[r].mine /\ row[i] = "live"
        BY <1>3, <3>1 DEF CommitDelete
      <3>2. CASE ~(call[r].mine /\ row[i] = "live")
        BY <1>3, <3>2 DEF CommitDelete
      <3>3. QED
        BY <3>1, <3>2
    <2>2. i \in Ids
      BY <1>0, <2>1 DEF CallInv, InFlight, Commits
    <2>3. /\ e \in [type : {"none", "created", "updated", "deleted"},
                    status : Statuses \union {"none"}]
          /\ e.type = "deleted" /\ e.status = event[i].status
          /\ [event[i] EXCEPT !.type = "deleted"] = e
      BY <1>T, <2>2
    <2>E. event' = [event EXCEPT ![i] = e]
      BY <2>1, <2>3
    <2> HIDE DEF e, i
    <2>4. /\ event'[i] = e /\ (row'[i] = "live" => row[i] = "live")
          /\ row[i] = "absent" <=> row'[i] = "absent"
          /\ \A j \in Ids : j # i => row'[j] = row[j] /\ record'[j] = record[j] /\ event'[j] = event[j]
      BY <1>T, <2>1, <2>2, <2>E
    <2>5. TablesOK'
      <3>1. row' \in [Ids -> {"absent", "live", "deleted"}]
        BY <1>T, <2>1, <2>2
      <3>2. \A j \in Ids : (row[j] # "absent" => Sound(record[j]))'
        BY <1>T, <1>S, <2>1, <2>2, <2>4
      <3>3. event' \in [Ids -> [type : {"none", "created", "updated", "deleted"},
                                status : Statuses \union {"none"}]]
        BY <1>T, <2>3, <2>E
      <3>4. QED
        BY <1>T, <2>1, <3>1, <3>2, <3>3 DEF TablesOK
    <2>6. EventInv'
      BY <1>0, <2>1, <2>3, <2>4 DEF EventInv
    <2>7. CommitMove(r, i)
      BY <2>1, <2>2, <2>3, <2>4, <2>5, <2>6 DEF CommitMove, i
    <2>8. QED
      BY <2>2, <2>7 DEF i
  <1>4. QED
    BY <1>1, <1>2, <1>3

LEMMA CommitStep ==
    ASSUME RecordsInv, NEW r \in Requests, NEW i \in Ids, CommitMove(r, i)
    PROVE  RecordsInv'
  <1>0. /\ TypeOK /\ FrameInv /\ CallInv /\ CopyInv /\ FreshInv /\ KeyInv /\ CacheInv
        /\ FrameTypeOK /\ TablesOK /\ cached \in [Ids -> Images]
    BY TypeParts DEF RecordsInv
  <1> DEFINE s == AfterCommit(call[r])
  <1>1. /\ Commits(r) /\ pc[r] = "commit" /\ Goto(r, s, NoCopy) /\ UNCHANGED <<kind, cached>>
        /\ call[r].op \in {"create", "update", "delete"}
        /\ call[r].op # "create" => i = call[r].id
        /\ \A j \in Ids : j # i => row'[j] = row[j] /\ record'[j] = record[j] /\ event'[j] = event[j]
        /\ TablesOK' /\ EventInv'
    BY DEF CommitMove, Commits
  <1>2. call[r].op = "delete" => call[r].key = NoKey
    BY <1>0, <1>1 DEF CallInv, InFlight
  <1>3. /\ call[r].key # NoKey => s \in After
        /\ s = "store" => call[r].key # NoKey
        /\ call[r].op = "create" => s \in {"store", "done"}
        /\ call[r].op = "update" => s \in {"reread", "store", "evict"}
        /\ call[r].op = "delete" => s = "done"
    BY <1>1, <1>2, AfterCommitIs
  <1> HIDE DEF s
  <1>4. s \in {"reread", "store", "evict", "done"}
    BY <1>1, <1>3
  <1>5. FrameInv' /\ KeyInv' /\ Lost' = Lost /\ overlap' = overlap /\ InFlight(r)
    BY <1>0, <1>1, <1>3, <1>4, CommitFrame DEF Before
  <1>6. /\ pc'[r] = s /\ (s # "done" => call'[r] = call[r])
        /\ \A q \in Requests : q # r => /\ pc'[q] = pc[q]
                                        /\ call'[q] = call[q]
                                        /\ copy'[q] = copy[q]
    BY <1>0, <1>1, GotoEffect
  <1>7. (Serial' <=> Serial) /\ (Serial => \A q \in Requests : q # r => ~InFlight(q))
    BY <1>0, <1>5 DEF Serial, FrameInv
  <1>8. TypeOK'
    <2>1. FrameTypeOK'
      BY <1>0, <1>4, <1>5, <1>6, FrameTyped DEF Places
    <2>2. QED
      BY <1>0, <1>1, <2>1, TypePartsNext
  <1>9. CallInv'
    <2>1. \A q \in Requests : q # r => (InFlight(q)' <=> InFlight(q))
      BY <1>6 DEF InFlight
    <2>2. InFlight(r)' => s # "done"
      BY <1>6 DEF InFlight
    <2> DEFINE Placed(q) ==
                 LET c == call[q] IN
                 /\ c.op \in {"create", "update", "delete", "get"}
                 /\ c.op # "create" => c.id \in Ids
                 /\ c.op = "update" => c.edit \in Edits
                 /\ c.op \in {"delete", "get"} => c.key = NoKey
                 /\ c.op = "create" => pc[q] \in {"commit", "store"}
                 /\ c.op = "update" => pc[q] \in {"find", "commit", "reread", "store", "evict"}
                 /\ c.op = "delete" => pc[q] = "commit"
                 /\ c.op = "get" => pc[q] \in {"find", "reread", "fill"}
    <2>3. \A q \in Requests : InFlight(q) => Placed(q)
      BY <1>0 DEF CallInv
    <2>4. ASSUME InFlight(r)' PROVE Placed(r)'
      BY <1>1, <1>3, <1>5, <1>6, <2>2, <2>3, <2>4
    <2>5. \A q \in Requests : q # r => (InFlight(q)' => Placed(q)')
      BY <1>6, <2>1, <2>3
    <2>6. QED
      BY <2>4, <2>5 DEF CallInv
  <1>10. CopyInv'
    <2>1. \A j \in Ids : row[j] # "absent" => row'[j] # "absent"
      BY <1>1 DEF CommitMove
    <2>2. \A y : Sound(y)' <=> Sound(y)
      BY <1>1 DEF Sound
    <2>3. \A q \in Requests : (pc[q] = "commit" /\ call[q].op = "update") => call[q].id \in Ids
      BY <1>0 DEF CallInv, InFlight
    <2>4. (call'[r].op = "get" /\ s = "reread") => FALSE
      BY <1>1, <1>6
    <2>5. QED
      BY <1>0, <1>4, <1>6, <2>1, <2>2, <2>3, <2>4 DEF CopyInv
  <1>11. FreshInv'
    <2> SUFFICES ASSUME Serial
                 PROVE  /\ \A q \in Requests : ~(pc'[q] = "commit" /\ call'[q].op = "update")
                        /\ \A q \in Requests : ~(call'[q].op = "get" /\ pc'[q] \in {"reread", "fill"})
                        /\ \A j \in Ids : row'[j] = "deleted" => event'[j].type = "deleted"
      BY <1>7 DEF FreshInv
    <2>1. row'[i] = "deleted" => event'[i].type = "deleted"
      BY DEF CommitMove
    <2>2. \A j \in Ids : row'[j] = "deleted" => event'[j].type = "deleted"
      BY <1>0, <1>1, <2>1 DEF FreshInv
    <2>3. QED
      BY <1>1, <1>4, <1>6, <1>7, <2>2 DEF InFlight
  <1>12. CacheInv'
    <2> SUFFICES ASSUME Serial, Lost = 0
                 PROVE  /\ \A j \in Ids : cached'[j] # NoImage
                              => Current(j)' \/ \E q \in Requests : WillEvict(q, j)'
                        /\ \A q \in Requests : ~(pc'[q] = "commit" /\ call'[q].op = "delete")
      BY <1>5, <1>7 DEF CacheInv
    <2>1. \A q \in Requests : pc'[q] # "commit"
      BY <1>4, <1>6, <1>7 DEF InFlight
    <2>2. \A j \in Ids : cached[j] # NoImage => Current(j)
      <3>1. \A q \in Requests, j \in Ids : ~WillEvict(q, j)
        BY <1>1, <1>7 DEF WillEvict, InFlight
      <3>2. QED
        BY <1>0, <3>1 DEF CacheInv
    <2>3. \A j \in Ids : j # i => (Current(j)' <=> Current(j))
      BY <1>1 DEF Current
    <2>4. cached[i] # NoImage => WillEvict(r, i)'
      <3>1. CASE call[r].op = "create"
        BY <2>2, <3>1 DEF CommitMove, Current
      <3>2. CASE call[r].op = "update"
        BY <1>1, <1>3, <1>6, <3>2 DEF WillEvict
      <3>3. CASE call[r].op = "delete"
        BY <1>0, <1>1, <3>3 DEF CacheInv
      <3>4. QED
        BY <1>1, <3>1, <3>2, <3>3
    <2>5. \A j \in Ids : cached'[j] = cached[j]
      BY <1>1
    <2>6. QED
      BY <2>1, <2>2, <2>3, <2>4, <2>5
  <1>13. QED
    BY <1>1, <1>5, <1>8, <1>9, <1>10, <1>11, <1>12 DEF RecordsInv

\* The other steps leave the tables alone.
Quiet(r) ==
    \/ Refused(r) \/ FindByBudgetID(r) \/ RereadFails(r) \/ Evict(r) \/ Fill(r)
    \/ /\ UNCHANGED <<tables, cached>>
       /\ \/ StoreKey(r, AfterStore(call[r]))
          \/ StoreFails(r, AfterStore(call[r]))
          \/ CacheFails(r) \/ DatabaseFails(r) \/ Abandon(r)

\* A step that loses nothing takes the request on to its eviction, or evicts.
QuietMove(r, s, x) ==
    /\ Goto(r, s, x) /\ UNCHANGED tables
    /\ FrameInv' /\ KeyInv' /\ overlap' = overlap /\ InFlight(r) /\ Lost <= Lost'
    /\ \/ s = "done"
       \/ s \in {"store", "evict"} /\ call[r].op = "update" /\ pc[r] \in {"reread", "store"}
       \/ s = "fill" /\ call[r].op = "get" /\ pc[r] = "reread" /\ x = copy[r]
    /\ cached' \in [Ids -> Images]
    /\ \A i \in Ids : \/ cached'[i] \in {cached[i], NoImage}
                      \/ /\ pc[r] = "fill" /\ call[r].op = "get"
                         /\ i = call[r].id /\ cached'[i] = copy[r]
    /\ Lost' = Lost => \A i \in Ids : WillEvict(r, i) => s \in {"store", "evict"} \/ cached'[i] = NoImage

LEMMA QuietShape ==
    ASSUME RecordsInv, NEW r \in Requests, Quiet(r)
    PROVE  \E s, x : QuietMove(r, s, x)
  <1>0. /\ FrameInv /\ KeyInv /\ CallInv /\ CopyInv /\ cached \in [Ids -> Images]
        /\ Lost \in Nat /\ "done" \notin Before
    BY TypeParts, FaultCounts DEF RecordsInv, FrameInv, Before
  <1>C. ASSUME InFlight(r)
        PROVE  /\ pc[r] = "find" => call[r].op \in {"update", "get"}
               /\ pc[r] = "reread" => call[r].op \in {"update", "get"}
               /\ pc[r] = "store" => call[r].op \in {"create", "update"}
               /\ pc[r] = "evict" => call[r].op = "update" /\ call[r].id \in Ids
               /\ pc[r] = "fill" => call[r].op = "get" /\ call[r].id \in Ids
               /\ call[r].op = "get" => call[r].key = NoKey
    BY <1>0, <1>C DEF CallInv
  <1>1. CASE Refused(r)
    <2>1. Reads(r, "find") /\ pc[r] = "find" /\ Goto(r, "done", NoCopy) /\ UNCHANGED <<tables, cached>>
      BY <1>1 DEF Refused, Reads, Return
    <2>2. FrameInv' /\ KeyInv' /\ InFlight(r) /\ Lost' = Lost /\ overlap' = overlap
      BY <1>0, <2>1, ReadStep DEF After
    <2>3. QuietMove(r, "done", NoCopy)
      BY <1>0, <2>1, <2>2 DEF QuietMove, WillEvict
    <2>4. QED
      BY <2>3
  <1>2. CASE FindByBudgetID(r)
    <2> DEFINE s == AfterReread(call[r])
    <2>1. Reads(r, "reread") /\ pc[r] = "reread" /\ Goto(r, s, copy[r]) /\ UNCHANGED <<tables, cached>>
      BY <1>2 DEF FindByBudgetID, Reads
    <2>2. InFlight(r)
      BY <2>1 DEF InFlight
    <2>3. /\ call[r].op = "get" => s = "fill" /\ call[r].key = NoKey
          /\ call[r].op = "update" => s \in {"store", "evict"} /\ (call[r].key # NoKey <=> s = "store")
          /\ call[r].op \in {"update", "get"}
      BY <1>C, <2>1, <2>2 DEF AfterReread
    <2> HIDE DEF s
    <2>4. s \in {"fill", "store", "evict"} /\ (s = "store" => call[r].key # NoKey)
          /\ (call[r].key # NoKey => s \in After)
      BY <2>3 DEF After
    <2>5. FrameInv' /\ KeyInv' /\ Lost' = Lost /\ overlap' = overlap
      BY <1>0, <2>1, <2>4, ReadStep DEF Before
    <2>6. QuietMove(r, s, copy[r])
      BY <1>0, <2>1, <2>2, <2>3, <2>5 DEF QuietMove, WillEvict
    <2>7. QED
      BY <2>6
  <1>3. CASE RereadFails(r)
    <2> DEFINE f == IF call[r].op = "update" THEN "late" ELSE "db"
    <2>1. /\ pc[r] = "reread" /\ Fault(f) /\ Goto(r, "done", NoCopy) /\ UNCHANGED <<tables, cached>>
          /\ UNCHANGED <<overlap, stored, commits>> /\ InFlight(r)
      BY <1>3 DEF RereadFails, Return, InFlight
    <2>2. /\ f \in Faults /\ (call[r].op = "update" => f = "late")
          /\ (pc[r] \in After /\ call[r].key # NoKey) => f \in {"late", "redis", "abandon"}
      BY <1>C, <2>1 DEF Faults
    <2> HIDE DEF f
    <2>3. /\ FrameInv' /\ KeyInv' /\ Lost <= Lost'
          /\ call[r].op = "update" => Lost' = Lost + 1
      BY <1>0, <2>1, <2>2, FaultStep
    <2>4. Lost' = Lost => call[r].op # "update"
      BY <1>0, <2>3
    <2>5. QuietMove(r, "done", NoCopy)
      BY <1>0, <2>1, <2>3, <2>4 DEF QuietMove, WillEvict
    <2>6. QED
      BY <2>5
  <1>4. CASE Evict(r)
    <2>1. /\ Reads(r, "evict") /\ pc[r] = "evict" /\ Goto(r, "done", NoCopy) /\ UNCHANGED tables
          /\ cached' = [cached EXCEPT ![call[r].id] = NoImage]
      BY <1>4 DEF Evict, Reads, Return
    <2>2. FrameInv' /\ KeyInv' /\ InFlight(r) /\ Lost' = Lost /\ overlap' = overlap
      BY <1>0, <2>1, ReadStep DEF After
    <2>3. /\ cached' \in [Ids -> Images]
          /\ \A i \in Ids : cached'[i] \in {cached[i], NoImage}
          /\ \A i \in Ids : i = call[r].id => cached'[i] = NoImage
      BY <1>0, <2>1, NoImageTyped
    <2>4. QuietMove(r, "done", NoCopy)
      BY <1>0, <2>1, <2>2, <2>3 DEF QuietMove, WillEvict
    <2>5. QED
      BY <2>4
  <1>5. CASE Fill(r)
    <2>1. /\ Reads(r, "fill") /\ pc[r] = "fill" /\ Goto(r, "done", NoCopy) /\ UNCHANGED tables
          /\ cached' = [cached EXCEPT ![call[r].id] = copy[r]]
      BY <1>5 DEF Fill, Reads, Return
    <2>2. FrameInv' /\ KeyInv' /\ InFlight(r) /\ Lost' = Lost /\ overlap' = overlap
      BY <1>0, <2>1, ReadStep DEF After
    <2>3. call[r].op = "get" /\ copy[r] \in Images
      BY <1>0, <1>C, <2>1, <2>2 DEF CopyInv
    <2>4. /\ cached' \in [Ids -> Images]
          /\ \A i \in Ids : cached'[i] = IF i = call[r].id THEN copy[r] ELSE cached[i]
      BY <1>0, <2>1, <2>3
    <2>5. QuietMove(r, "done", NoCopy)
      BY <1>0, <2>1, <2>2, <2>3, <2>4 DEF QuietMove, WillEvict
    <2>6. QED
      BY <2>5
  <1>6. CASE StoreKey(r, AfterStore(call[r])) /\ UNCHANGED <<tables, cached>>
    <2> DEFINE s == AfterStore(call[r])
    <2>1. pc[r] = "store" /\ Goto(r, s, NoCopy)
      BY <1>6 DEF StoreKey
    <2>2. s \in {"done", "evict"} /\ (call[r].op = "create" <=> s = "done")
      BY DEF AfterStore
    <2> HIDE DEF s
    <2>3. StoreKey(r, s) /\ UNCHANGED <<tables, cached>>
      BY <1>6 DEF s
    <2>4. FrameInv' /\ KeyInv' /\ InFlight(r) /\ Lost' = Lost /\ overlap' = overlap
      BY <1>0, <2>2, <2>3, StoreStep DEF Before
    <2>5. call[r].op \in {"create", "update"}
      BY <1>C, <2>1, <2>4
    <2>6. QuietMove(r, s, NoCopy)
      BY <1>0, <2>1, <2>2, <2>3, <2>4, <2>5 DEF QuietMove, WillEvict
    <2>7. QED
      BY <2>6
  <1>7. CASE /\ UNCHANGED <<tables, cached>>
             /\ \/ StoreFails(r, AfterStore(call[r]))
                \/ CacheFails(r) \/ DatabaseFails(r) \/ Abandon(r)
    <2> DEFINE n == IF StoreFails(r, AfterStore(call[r])) THEN AfterStore(call[r]) ELSE "done"
    <2>1. n \in {"done", "evict"} /\ (n # "done" => pc[r] = "store" /\ call[r].op # "create")
      BY DEF AfterStore, StoreFails
    <2>2. StoreFails(r, n) \/ CacheFails(r) \/ DatabaseFails(r) \/ Abandon(r)
      BY <1>7
    <2> HIDE DEF n
    <2>3. n \notin Before \union {"store"}
      BY <2>1 DEF Before
    <2>4. /\ FrameInv' /\ InFlight(r) /\ overlap' = overlap /\ Lost <= Lost' /\ KeyInv'
          /\ Lost' = Lost => DatabaseFails(r)
          /\ \E s \in {"done", n} : Goto(r, s, NoCopy)
      BY <1>0, <2>2, <2>3, SharedFaultStep
    <2>5. PICK s \in {"done", n} : Goto(r, s, NoCopy)
      BY <2>4
    <2>6. Lost' = Lost => pc[r] \in {"find", "commit"}
      BY <2>4 DEF DatabaseFails
    <2>7. s # "done" => s = "evict" /\ call[r].op = "update" /\ pc[r] = "store"
      BY <1>C, <2>1, <2>4
    <2>8. QuietMove(r, s, NoCopy)
      BY <1>0, <1>7, <2>4, <2>5, <2>6, <2>7 DEF QuietMove, WillEvict
    <2>9. QED
      BY <2>8
  <1>8. QED
    BY <1>1, <1>2, <1>3, <1>4, <1>5, <1>6, <1>7 DEF Quiet

LEMMA QuietStep ==
    ASSUME RecordsInv, NEW r \in Requests, NEW s, NEW x, QuietMove(r, s, x)
    PROVE  RecordsInv'
  <1>0. /\ TypeOK /\ FrameInv /\ CallInv /\ CopyInv /\ EventInv /\ FreshInv /\ KeyInv /\ CacheInv
        /\ FrameTypeOK /\ TablesOK /\ cached \in [Ids -> Images]
    BY TypeParts DEF RecordsInv
  <1>1. /\ Goto(r, s, x) /\ UNCHANGED tables
        /\ FrameInv' /\ KeyInv' /\ overlap' = overlap /\ InFlight(r) /\ Lost <= Lost'
        /\ \/ s = "done"
           \/ s \in {"store", "evict"} /\ call[r].op = "update" /\ pc[r] \in {"reread", "store"}
           \/ s = "fill" /\ call[r].op = "get" /\ pc[r] = "reread" /\ x = copy[r]
        /\ cached' \in [Ids -> Images]
    BY DEF QuietMove
  <1>2. s \in {"done", "store", "evict", "fill"}
    BY <1>1
  <1>3. /\ pc'[r] = s /\ (s # "done" => call'[r] = call[r] /\ copy'[r] = x)
        /\ \A q \in Requests : q # r => /\ pc'[q] = pc[q]
                                        /\ call'[q] = call[q]
                                        /\ copy'[q] = copy[q]
    BY <1>0, <1>1, GotoEffect
  <1>4. TablesOK' /\ EventInv' /\ (\A y : Sound(y)' <=> Sound(y))
    BY <1>0, <1>1, TablesKept
  <1>5. UNCHANGED <<kind, row, record, event>> /\ (Serial' <=> Serial)
    BY <1>1 DEF tables, Serial
  <1>6. TypeOK'
    <2>1. FrameTypeOK'
      BY <1>0, <1>1, <1>2, <1>3, FrameTyped DEF Places
    <2>2. QED
      BY <1>1, <1>4, <2>1, TypePartsNext
  <1>7. CallInv'
    <2>1. \A q \in Requests : q # r => (InFlight(q)' <=> InFlight(q))
      BY <1>3 DEF InFlight
    <2>2. InFlight(r)' => s # "done"
      BY <1>3 DEF InFlight
    <2>3. QED
      BY <1>0, <1>1, <1>3, <2>1, <2>2 DEF CallInv
  <1>8. CopyInv'
    BY <1>0, <1>1, <1>3, <1>4, <1>5 DEF CopyInv
  <1>9. FreshInv'
    BY <1>0, <1>1, <1>3, <1>5 DEF FreshInv
  <1>10. CacheInv'
    <2> SUFFICES ASSUME Serial, Lost' = 0
                 PROVE  /\ \A i \in Ids : cached'[i] # NoImage
                              => Current(i)' \/ \E q \in Requests : WillEvict(q, i)'
                        /\ \A q \in Requests : ~(pc'[q] = "commit" /\ call'[q].op = "delete")
      BY <1>5 DEF CacheInv
    <2>1. \A q \in Requests : q # r => ~InFlight(q)
      BY <1>0, <1>1 DEF FrameInv
    <2>2. \A q \in Requests : pc'[q] # "commit"
      BY <1>2, <1>3, <2>1 DEF InFlight
    <2>3. Lost = 0
      BY <1>0, <1>1, FaultCounts DEF FrameInv
    <2>4. \A i \in Ids : cached[i] # NoImage => Current(i) \/ WillEvict(r, i)
      BY <1>0, <2>1, <2>3 DEF CacheInv, WillEvict, InFlight
    <2>5. \A i \in Ids : cached'[i] = cached[i] => (Current(i) => Current(i)')
      BY <1>5 DEF Current
    <2>6. \A i \in Ids : WillEvict(r, i) => s \in {"store", "evict"} \/ cached'[i] = NoImage
      BY <2>3 DEF QuietMove
    <2>7. \A i \in Ids : (WillEvict(r, i) /\ s \in {"store", "evict"}) => WillEvict(r, i)'
      BY <1>3 DEF WillEvict
    <2>8. (pc[r] = "fill" /\ call[r].op = "get")
          => row[call[r].id] = "live" /\ copy[r] = record[call[r].id]
      BY <1>0 DEF FreshInv
    <2>9. ASSUME NEW i \in Ids, cached'[i] # NoImage PROVE Current(i)' \/ WillEvict(r, i)'
      <3>1. CASE cached'[i] = cached[i]
        BY <2>4, <2>5, <2>6, <2>7, <2>9, <3>1
      <3>2. CASE /\ pc[r] = "fill" /\ call[r].op = "get"
                 /\ i = call[r].id /\ cached'[i] = copy[r]
        BY <1>5, <2>8, <3>2 DEF Current
      <3>3. QED
        BY <2>9, <3>1, <3>2 DEF QuietMove
    <2>10. QED
      BY <2>2, <2>9
  <1>11. QED
    BY <1>1, <1>4, <1>6, <1>7, <1>8, <1>9, <1>10 DEF RecordsInv

LEMMA ExpireStep ==
    ASSUME RecordsInv, (\E i \in Ids : Expire(i)) \/ UNCHANGED vars
    PROVE  RecordsInv'
  <1>0. /\ TypeOK /\ FrameInv /\ CallInv /\ CopyInv /\ EventInv /\ FreshInv /\ KeyInv /\ CacheInv
        /\ FrameTypeOK /\ TablesOK /\ cached \in [Ids -> Images]
    BY TypeParts DEF RecordsInv
  <1>1. UNCHANGED <<tables, frameVars>>
    BY DEF Expire, vars, tables
  <1>2. cached' \in [Ids -> Images] /\ \A i \in Ids : cached'[i] \in {cached[i], NoImage}
    <2>1. ASSUME NEW i \in Ids, Expire(i)
          PROVE  cached' \in [Ids -> Images] /\ \A j \in Ids : cached'[j] \in {cached[j], NoImage}
      BY <1>0, <2>1, NoImageTyped DEF Expire
    <2>2. UNCHANGED vars => cached' = cached
      BY DEF vars
    <2>3. QED
      BY <1>0, <2>1, <2>2
  <1>3. /\ UNCHANGED <<kind, row, record, event>>
        /\ UNCHANGED <<overlap, pc, call, copy, stored, commits, faults>>
    BY <1>1 DEF tables, frameVars
  <1>4. TablesOK' /\ EventInv' /\ (\A y : Sound(y)' <=> Sound(y))
    BY <1>0, <1>1, TablesKept
  <1>5. /\ FrameTypeOK' /\ FrameInv' /\ KeyInv' /\ CallInv'
        /\ (Serial' <=> Serial) /\ Lost' = Lost
    BY <1>0, <1>3 DEF FrameTypeOK, FrameInv, KeyInv, CallInv, Serial, Lost, InFlight, OverRequests
  <1>6. TypeOK'
    BY <1>2, <1>4, <1>5, TypePartsNext
  <1>7. CopyInv'
    BY <1>0, <1>3, <1>4 DEF CopyInv
  <1>8. FreshInv'
    BY <1>0, <1>3, <1>5 DEF FreshInv
  <1>9. CacheInv'
    <2>1. \A q \in Requests, i \in Ids : WillEvict(q, i) => WillEvict(q, i)'
      BY <1>3 DEF WillEvict
    <2>2. \A i \in Ids : cached'[i] # NoImage => cached'[i] = cached[i] /\ (Current(i) => Current(i)')
      BY <1>2, <1>3 DEF Current
    <2>3. \A q \in Requests : pc[q] = "commit" /\ call[q].op = "delete" => call[q].id \in Ids
      BY <1>0 DEF CallInv, InFlight
    <2>4. QED
      BY <1>0, <1>2, <1>3, <1>5, <2>1, <2>2, <2>3 DEF CacheInv
  <1>10. QED
    BY <1>4, <1>5, <1>6, <1>7, <1>8, <1>9 DEF RecordsInv

------------------------------------------------------------------------------

LEMMA RecordsInvInit == Init => RecordsInv
  <1> SUFFICES ASSUME Init PROVE RecordsInv
    OBVIOUS
  <1> DEFINE i == Held[kind].id
             x == Held[kind].image
  <1>1. FrameInv /\ KeyInv /\ Lost = 0
    BY FrameInitial DEF Init, FrameInit, Lost, Faults
  <1>2. kind \in Kinds /\ i \in Ids /\ x \in Images /\ Sound(x)
    BY RecordsAssumption DEF Init, Sound
  <1> HIDE DEF i, x
  <1>3. /\ row = [j \in Ids |-> IF j = i THEN "live" ELSE "absent"]
        /\ record = [j \in Ids |-> IF j = i THEN x ELSE NoImage]
        /\ event = [j \in Ids |-> IF j = i THEN Created(x) ELSE NoEvent]
        /\ cached = [j \in Ids |-> NoImage]
    BY DEF Init, i, x
  <1>4. \A r \in Requests : pc[r] = "idle"
    BY DEF Init, FrameInit
  <1>5. FrameTypeOK
    BY <1>1 DEF Init, FrameInit, FrameTypeOK, FrameInv
  <1>6. Created(x) \in [type : {"none", "created", "updated", "deleted"},
                        status : Statuses \union {"none"}]
        /\ Created(x).type = "created" /\ Created(x).status \in {"none", x.status}
    BY <1>2 DEF Created, Images
  <1>7. TablesOK
    BY <1>2, <1>3, <1>6, NoImageTyped DEF TablesOK, NoEvent
  <1>8. TypeOK
    BY <1>3, <1>5, <1>7, NoImageTyped, TypeParts
  <1>9. EventInv
    BY <1>3, <1>6 DEF EventInv
  <1>10. CallInv /\ CopyInv /\ FreshInv /\ CacheInv
    BY <1>3, <1>4 DEF CallInv, CopyInv, FreshInv, CacheInv, InFlight
  <1>11. QED
    BY <1>1, <1>8, <1>9, <1>10 DEF RecordsInv

LEMMA RecordsInvStep == RecordsInv /\ [Next]_vars => RecordsInv'
  <1> SUFFICES ASSUME RecordsInv, [Next]_vars PROVE RecordsInv'
    OBVIOUS
  <1>1. ASSUME NEW r \in Requests, Mutation(r) \/ Keyless(r) PROVE RecordsInv'
    BY <1>1, ArrivalStep
  <1>2. ASSUME NEW r \in Requests, Find(r) PROVE RecordsInv'
    BY <1>2, FindStep
  <1>3. ASSUME NEW r \in Requests,
               (\E i \in Ids : CommitCreate(r, i)) \/ CommitUpdate(r) \/ CommitDelete(r)
        PROVE  RecordsInv'
    BY <1>3, CommitShape, CommitStep
  <1>4. ASSUME NEW r \in Requests, Quiet(r) PROVE RecordsInv'
    BY <1>4, QuietShape, QuietStep
  <1>5. ASSUME NEW r \in Requests, Step(r) PROVE RecordsInv'
    BY <1>2, <1>3, <1>4, <1>5 DEF Step, Quiet
  <1>6. QED
    BY <1>1, <1>5, ExpireStep DEF Next

\* RecordsInv holds in every reachable state of transaction-svc and budget-svc.
THEOREM RecordsInvAlways == Spec => []RecordsInv
  BY RecordsInvInit, RecordsInvStep, PTL DEF Spec

\* Every record that Create or Update stored passes the checks of its domain type,
\* also when an update overwrites another from a stale copy.
THEOREM RecordsTypeCorrect == Spec => []TypeOK
  <1>1. RecordsInv => TypeOK
    BY DEF RecordsInv
  <1>2. QED
    BY <1>1, RecordsInvAlways, PTL

\* The last status that an event told of a live record is its row's, whatever overlaps
\* and whoever else called Delete; the last event of a deleted record is its deletion
\* when nothing overlaps.
THEOREM RecordEventsTellStatus == Spec => []LastEventTellsStatus
  <1>1. RecordsInv => LastEventTellsStatus
    BY DEF RecordsInv, EventInv, FreshInv, LastEventTellsStatus
  <1>2. QED
    BY <1>1, RecordsInvAlways, PTL

\* When requests do not overlap, Create and Update commit once per Idempotency-Key,
\* plus once per fault that kept the response from Redis.
THEOREM RecordKeyCommitsOnce == Spec => []AtMostOncePerKey
  <1>1. RecordsInv => AtMostOncePerKey
    BY KeyInvSuffices DEF RecordsInv
  <1>2. QED
    BY <1>1, RecordsInvAlways, PTL

\* When requests do not overlap and nothing was lost, Get answers from the cache
\* only what the live row says, although Delete evicts before it commits.
THEOREM RecordCacheTellsRow == Spec => []CacheFollowsRow
  <1>1. ASSUME RecordsInv PROVE CacheFollowsRow
    <2>1. NothingLost => Lost = 0
      BY <1>1, FaultCounts DEF RecordsInv, FrameInv
    <2>2. Quiescent => \A r \in Requests, i \in Ids : ~WillEvict(r, i)
      BY DEF Quiescent, WillEvict, InFlight
    <2>3. QED
      BY <1>1, <2>1, <2>2 DEF RecordsInv, CacheInv, CacheFollowsRow, Current
  <1>2. QED
    BY <1>1, RecordsInvAlways, PTL
==============================================================================
