-------------------------------- MODULE Records --------------------------------
(***************************************************************************)
(* The four plain records of the platform: incomes, fixed and variable     *)
(* expenses (transaction-svc) and budgets (budget-svc).  Each has its own  *)
(* table and repository and they never meet, so a behaviour is about one   *)
(* of them, the variable kind.                                             *)
(*                                                                         *)
(* An update reads the row through the pool, applies the request to the    *)
(* copy and writes every column back in a transaction with its event.  A   *)
(* record keeps the one number its domain checks (an amount, a day of the  *)
(* month, a total limit) and its status; a budget also the sum of its      *)
(* category limits.  Names, dates, periods and methods are left out.  The  *)
(* records are those of one user, whose requests these are; a Delete alone *)
(* can come from another, because nothing is looked up before it.          *)
(***************************************************************************)
EXTENDS Handlers

CONSTANTS
    Ids, NoId,      \* identifiers of records, and none
    Held,           \* the records stored at the start: their images by kind
    Openings,       \* what the Create operations are called with
    Edits,          \* what the Update operations are called with
    Keep            \* a field that an update is called without

Kinds == {"income", "fixed", "variable", "budget"}

StatusesOf(k) ==
    IF k = "budget" THEN {"active", "paused", "completed", "cancelled"}
    ELSE {"pending", "completed", "cancelled"}

Statuses == UNION {StatusesOf(k) : k \in Kinds}

\* A row, a copy in memory or a cached response.
Images == [value : Nat, status : Statuses \union {"none"}, categories : Nat]

NoImage == [value |-> 0, status |-> "none", categories |-> 0]

ASSUME RecordsAssumption ==
    /\ NoId \notin Ids
    /\ Keep \notin Int
    /\ \A k \in DOMAIN Held :
          LET x == Held[k].image IN
          /\ k \in Kinds /\ Held[k].id \in Ids /\ x \in Images
          /\ x.value > 0 /\ (k = "fixed" => x.value <= 31) /\ x.status \in StatusesOf(k)
    /\ Openings \subseteq [value : Int, status : Statuses, categories : Nat]
    /\ Edits \subseteq [value : Int \union {Keep}, status : Statuses \union {Keep}]

VARIABLES
    kind,       \* the kind of record this behaviour is about
    row,        \* "absent", "live" or "deleted" (deleted_at set)
    record,     \* the image stored in the row and in budget_categories
    event,      \* the outbox of each record: the type of the last event, and the
                \* last status an event told (a deletion tells none)
    cached      \* the Redis entry of each record, or NoImage

tables == <<kind, row, record, event>>
vars == <<kind, row, record, event, cached, frameVars>>

------------------------------------------------------------------------------
(***************************************************************************)
(* The domain.                                                             *)
(***************************************************************************)

\* An amount or a limit is positive, a day lies in the month.
NewIncome(o) == o.value > 0 /\ o.status \in StatusesOf("income")

NewFixedExpense(o) == o.value \in 1..31 /\ o.status \in StatusesOf("fixed")

NewVariableExpense(o) == o.value > 0 /\ o.status \in StatusesOf("variable")

\* The limits of the categories must fit into the total.
NewBudget(o) ==
    o.value > 0 /\ o.status \in StatusesOf("budget") /\ o.categories <= o.value

IsValid(o) ==
    CASE kind = "income"   -> NewIncome(o)
      [] kind = "fixed"    -> NewFixedExpense(o)
      [] kind = "variable" -> NewVariableExpense(o)
      [] kind = "budget"   -> NewBudget(o)

\* TransitionStatus of the three transactions, and of a budget.
AllowedTransaction(s) == IF s = "pending" THEN {"completed", "cancelled"} ELSE {}

AllowedBudget(s) ==
    CASE s = "active" -> {"paused", "completed", "cancelled"}
      [] s = "paused" -> {"active", "cancelled"}
      [] OTHER        -> {}

Allowed(s) == IF kind = "budget" THEN AllowedBudget(s) ELSE AllowedTransaction(s)

\* Mutant: the values of an update are not checked.
CanUpdateAnyValue(x, e) == e.status # Keep => e.status \in Allowed(x.status)

\* ApplyUpdate: a budget's new limit is not compared with its categories.
CanUpdate(x, e) ==
    /\ e.value # Keep => IF kind = "fixed" THEN e.value \in 1..31 ELSE e.value > 0
    /\ e.status # Keep => e.status \in Allowed(x.status)

ApplyUpdate(x, e) ==
    [value      |-> IF e.value = Keep THEN x.value ELSE e.value,
     status     |-> IF e.status = Keep THEN x.status ELSE e.status,
     categories |-> x.categories]

NoEvent == [type |-> "none", status |-> "none"]

\* Only a budget's creation event carries its status.
Created(x) == [type |-> "created", status |-> IF kind = "budget" THEN x.status ELSE "none"]

Init ==
    /\ FrameInit
    /\ kind \in DOMAIN Held
    /\ LET i == Held[kind].id IN
       /\ row = [j \in Ids |-> IF j = i THEN "live" ELSE "absent"]
       /\ record = [j \in Ids |-> IF j = i THEN Held[kind].image ELSE NoImage]
       /\ event = [j \in Ids |-> IF j = i THEN Created(Held[kind].image) ELSE NoEvent]
    /\ cached = [j \in Ids |-> NoImage]

------------------------------------------------------------------------------
(***************************************************************************)
(* A request arrives.  The four services are written alike; each operation *)
(* below is one of their functions.                                        *)
(***************************************************************************)

Create(r, k, o, key, up) ==
    LET c == [op |-> "create", id |-> NoId, key |-> key, opening |-> o] IN
    /\ kind = k
    /\ Arrives(r, c, up, key # NoKey)
    /\ IF Replayed(key, up) \/ ~IsValid(o)
       THEN Continue(r, c, "done", NoCopy)
       ELSE Continue(r, c, "commit", o)
    /\ UNCHANGED <<tables, cached>>

Update(r, k, i, e, key, up) ==
    LET c == [op |-> "update", id |-> i, key |-> key, edit |-> e] IN
    /\ kind = k
    /\ Arrives(r, c, up, key # NoKey)
    /\ Continue(r, c, IF Replayed(key, up) THEN "done" ELSE "find", NoCopy)
    /\ UNCHANGED <<tables, cached>>

\* The entry, whose name holds no user, goes first and the transaction follows;
\* there is no Idempotency-Key.  mine is false when another user calls.
Delete(r, k, i, mine, up) ==
    LET c == [op |-> "delete", id |-> i, key |-> NoKey, mine |-> mine] IN
    /\ kind = k
    /\ Arrives(r, c, up, TRUE)
    /\ cached' = IF up THEN [cached EXCEPT ![i] = NoImage] ELSE cached
    /\ Continue(r, c, "commit", NoCopy)
    /\ UNCHANGED tables

\* A hit is returned; a miss goes to the table.
Get(r, k, i, up) ==
    LET c == [op |-> "get", id |-> i, key |-> NoKey] IN
    /\ kind = k
    /\ Arrives(r, c, up, TRUE)
    /\ Continue(r, c, IF up /\ cached[i] # NoImage THEN "done" ELSE "find", NoCopy)
    /\ UNCHANGED <<tables, cached>>

CreateIncome(r, o, key, up)    == Create(r, "income", o, key, up)
UpdateIncome(r, i, e, key, up) == Update(r, "income", i, e, key, up)
DeleteIncome(r, i, mine, up)   == Delete(r, "income", i, mine, up)
GetIncome(r, i, up)            == Get(r, "income", i, up)

CreateFixedExpense(r, o, key, up)    == Create(r, "fixed", o, key, up)
UpdateFixedExpense(r, i, e, key, up) == Update(r, "fixed", i, e, key, up)
DeleteFixedExpense(r, i, mine, up)   == Delete(r, "fixed", i, mine, up)
GetFixedExpense(r, i, up)            == Get(r, "fixed", i, up)

CreateVariableExpense(r, o, key, up)    == Create(r, "variable", o, key, up)
UpdateVariableExpense(r, i, e, key, up) == Update(r, "variable", i, e, key, up)
DeleteVariableExpense(r, i, mine, up)   == Delete(r, "variable", i, mine, up)
GetVariableExpense(r, i, up)            == Get(r, "variable", i, up)

CreateBudget(r, o, key, up)     == Create(r, "budget", o, key, up)
UpdateBudget(r, i, e, key, up)  == Update(r, "budget", i, e, key, up)
DeleteBudget(r, i, mine, up)    == Delete(r, "budget", i, mine, up)
GetBudget(r, i, up)             == Get(r, "budget", i, up)

------------------------------------------------------------------------------
(***************************************************************************)
(* The steps of a request.                                                 *)
(***************************************************************************)

\* FindByID through the pool, and ApplyUpdate on the copy.  Get of a budget asks
\* for the categories next.
Find(r) ==
    LET c == call[r]
        x == record[c.id] IN
    /\ Reads(r, "find")
    /\ row[c.id] = "live"
    /\ \/ /\ c.op = "update"
          /\ CanUpdate(x, c.edit)
          /\ Goto(r, "commit", ApplyUpdate(x, c.edit))
       \/ /\ c.op = "get"
          /\ Goto(r, IF kind = "budget" THEN "reread" ELSE "fill", x)
    /\ UNCHANGED <<tables, cached>>

\* ErrNotFound, or an error of the domain.
Refused(r) ==
    LET c == call[r] IN
    /\ Reads(r, "find")
    /\ row[c.id] = "live" => c.op = "update" /\ ~CanUpdate(record[c.id], c.edit)
    /\ Return(r)
    /\ UNCHANGED <<tables, cached>>

AfterStore(c) == IF c.op = "create" THEN "done" ELSE "evict"

\* Mutant: the response of a budget's update is not stored under its key.
AfterRereadForgets(c) == IF c.op = "get" THEN "fill" ELSE "evict"

AfterReread(c) ==
    IF c.op = "get" THEN "fill"
    ELSE IF c.key # NoKey THEN "store" ELSE "evict"

AfterCommit(c) ==
    IF c.op = "update" /\ kind = "budget" THEN "reread"
    ELSE IF c.key # NoKey THEN "store"
    ELSE IF c.op \in {"create", "delete"} THEN "done" ELSE "evict"

\* The identifier is drawn by the server.  The record, the categories of a
\* budget and the event are one transaction.
CommitCreate(r, i) ==
    /\ call[r].op = "create"
    /\ Commits(r)
    /\ row[i] = "absent"
    /\ event[i] = NoEvent
    /\ row' = [row EXCEPT ![i] = "live"]
    /\ record' = [record EXCEPT ![i] = [copy[r] EXCEPT
                    !.categories = IF kind = "budget" THEN @ ELSE 0]]
    /\ event' = [event EXCEPT ![i] = Created(copy[r])]
    /\ Goto(r, AfterCommit(call[r]), NoCopy)
    /\ UNCHANGED <<kind, cached>>

\* Mutant: the event reports the status that the request asks for.
CommitUpdateAsAsked(r) ==
    LET i == call[r].id IN
    /\ call[r].op = "update"
    /\ Commits(r)
    /\ record' = IF row[i] = "live" THEN [record EXCEPT ![i] = copy[r]] ELSE record
    /\ event' = [event EXCEPT ![i] = [type |-> "updated", status |->
                    IF call[r].edit.status = Keep THEN "none" ELSE call[r].edit.status]]
    /\ Goto(r, AfterCommit(call[r]), NoCopy)
    /\ UNCHANGED <<kind, row, cached>>

\* UPDATE ... WHERE deleted_at IS NULL: of a deleted record it changes no row and
\* reports no error, and the event is committed all the same.
CommitUpdate(r) ==
    LET i == call[r].id IN
    /\ call[r].op = "update"
    /\ Commits(r)
    /\ record' = IF row[i] = "live" THEN [record EXCEPT ![i] = copy[r]] ELSE record
    /\ event' = [event EXCEPT ![i] = [type |-> "updated", status |-> copy[r].status]]
    /\ Goto(r, AfterCommit(call[r]), NoCopy)
    /\ UNCHANGED <<kind, row, cached>>

\* UPDATE ... WHERE id AND user_id AND deleted_at IS NULL: nobody looks at how
\* many rows it changed, and the event is written all the same; categories stay.
CommitDelete(r) ==
    LET i == call[r].id
        matches == call[r].mine /\ row[i] = "live" IN
    /\ call[r].op = "delete"
    /\ Commits(r)
    /\ row' = IF matches THEN [row EXCEPT ![i] = "deleted"] ELSE row
    /\ event' = [event EXCEPT ![i].type = "deleted"]
    /\ Goto(r, AfterCommit(call[r]), NoCopy)
    /\ UNCHANGED <<kind, record, cached>>

\* FindByBudgetID, which a budget's Get and Update call last.
FindByBudgetID(r) ==
    /\ Reads(r, "reread")
    /\ Goto(r, AfterReread(call[r]), copy[r])
    /\ UNCHANGED <<tables, cached>>

\* When it fails after an update the handler returns the error: the change is
\* committed, its key is not stored and its cache entry not evicted.
RereadFails(r) ==
    /\ pc[r] = "reread"
    /\ Fault(IF call[r].op = "update" THEN "late" ELSE "db")
    /\ Return(r)
    /\ UNCHANGED <<tables, cached, overlap, sent, stored, commits>>

\* Mutant: the entry stays until it expires.
EvictNothing(r) ==
    /\ Reads(r, "evict")
    /\ Return(r)
    /\ UNCHANGED <<tables, cached>>

Evict(r) ==
    /\ Reads(r, "evict")
    /\ cached' = [cached EXCEPT ![call[r].id] = NoImage]
    /\ Return(r)
    /\ UNCHANGED tables

Fill(r) ==
    /\ Reads(r, "fill")
    /\ cached' = [cached EXCEPT ![call[r].id] = copy[r]]
    /\ Return(r)
    /\ UNCHANGED tables

\* The five minutes of an entry.
Expire(i) ==
    /\ cached[i] # NoImage
    /\ cached' = [cached EXCEPT ![i] = NoImage]
    /\ UNCHANGED <<tables, frameVars>>

------------------------------------------------------------------------------

Mutation(r) ==
    \E key \in Keys \union {NoKey}, up \in BOOLEAN :
        \/ \E o \in Openings :
              \/ CreateIncome(r, o, key, up)
              \/ CreateFixedExpense(r, o, key, up)
              \/ CreateVariableExpense(r, o, key, up)
              \/ CreateBudget(r, o, key, up)
        \/ \E i \in Ids, e \in Edits :
              \/ UpdateIncome(r, i, e, key, up)
              \/ UpdateFixedExpense(r, i, e, key, up)
              \/ UpdateVariableExpense(r, i, e, key, up)
              \/ UpdateBudget(r, i, e, key, up)

Keyless(r) ==
    \E i \in Ids, up \in BOOLEAN :
        \/ \E mine \in BOOLEAN :
              \/ DeleteIncome(r, i, mine, up)
              \/ DeleteFixedExpense(r, i, mine, up)
              \/ DeleteVariableExpense(r, i, mine, up)
              \/ DeleteBudget(r, i, mine, up)
        \/ GetIncome(r, i, up)
        \/ GetFixedExpense(r, i, up)
        \/ GetVariableExpense(r, i, up)
        \/ GetBudget(r, i, up)

Step(r) ==
    \/ Find(r)
    \/ Refused(r)
    \/ \E i \in Ids : CommitCreate(r, i)
    \/ CommitUpdate(r)
    \/ CommitDelete(r)
    \/ FindByBudgetID(r)
    \/ RereadFails(r)
    \/ Evict(r)
    \/ Fill(r)
    \/ /\ UNCHANGED <<tables, cached>>
       /\ \/ StoreKey(r, AfterStore(call[r]))
          \/ StoreFails(r, AfterStore(call[r]))
          \/ CacheFails(r)
          \/ DatabaseFails(r)
          \/ Abandon(r)

Next ==
    \/ \E i \in Ids : Expire(i)
    \/ \E r \in Requests : Mutation(r) \/ Keyless(r) \/ Step(r)

Spec == Init /\ [][Next]_vars

------------------------------------------------------------------------------
(***************************************************************************)
(* Properties.                                                             *)
(***************************************************************************)

TypeOK ==
    /\ FrameTypeOK
    /\ kind \in Kinds
    /\ row \in [Ids -> {"absent", "live", "deleted"}]
    /\ record \in [Ids -> Images]
    /\ \A i \in Ids : row[i] # "absent" => IsValid([record[i] EXCEPT !.categories = 0])
    /\ event \in [Ids -> [type : {"none", "created", "updated", "deleted"},
                          status : Statuses \union {"none"}]]
    /\ cached \in [Ids -> Images]

\* Whatever requests overlap, even when one overwrites another from a stale copy,
\* the last status that the events of a live record told is the one in its row, and
\* an update always tells one (row and event are one transaction, and the row lock
\* orders both).  The last event may still be a deletion, written for another
\* user's Delete that matched no row.  When requests do not overlap, the last event
\* of a deleted record is its deletion; otherwise an update that read it before may
\* follow.
LastEventTellsStatus ==
    \A i \in Ids :
        /\ row[i] = "live" => /\ event[i].status \in {"none", record[i].status}
                              /\ event[i].type = "updated" => event[i].status = record[i].status
        /\ (row[i] = "deleted" /\ Serial) => event[i].type = "deleted"

\* Calls that do not overlap, nothing lost: a cached response is the live row,
\* whether a read filled it before, between or after the changes, and although
\* Delete evicts before it commits.
CacheFollowsRow ==
    (Serial /\ Quiescent /\ NothingLost) =>
        \A i \in Ids : cached[i] # NoImage => row[i] = "live" /\ cached[i] = record[i]
==============================================================================
