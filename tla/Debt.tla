--------------------------------- MODULE Debt ---------------------------------
(***************************************************************************)
(* debt-svc: debts, the payments that reduce them, and the Redis records   *)
(* beside them.  A request is one RPC; each of its calls to PostgreSQL or  *)
(* Redis is one step, and the steps of different requests interleave.      *)
(*                                                                         *)
(* RegisterPayment and UpdateDebt read the debt through the pool (FindByID *)
(* never uses the transaction of its context), change the copy in memory   *)
(* and write every column back; the write, the payment row and the outbox  *)
(* row commit together.  The balances are what matters: names, dates,      *)
(* types and creditors are left out.  The caller of DeleteDebt need not    *)
(* own the debt; every other operation finds only its caller's debts.  No  *)
(* amortization repository is wired by main.                               *)
(***************************************************************************)
EXTENDS Integers, FiniteSets

CONSTANTS
    Requests,           \* RPC calls of a behaviour, each made once
    Debts, NoDebt,      \* the identifiers CreateDebt can draw, and none
    Keys, NoKey,        \* Idempotency-Key values, and the empty one
    Amounts,            \* the amounts that clients send
    Totals, Changes,    \* the totals and the statuses that UpdateDebt is given
    OpenAs,             \* the statuses that CreateDebt is called with
    Serial,             \* TRUE: one request at a time
    MaxFaults           \* bound: how often each kind of fault happens

Statuses == {"active", "paused", "paid_off", "defaulted", "settled"}

\* DeleteDebt by the debt's user, and by another.
Deletes == {"delete", "deleteOther"}

Ops == {"none", "create", "pay", "update", "get"} \union Deletes

\* A database error, a Redis error, a request that dies between two steps.
Faults == {"db", "redis", "abandon"}

\* An UpdateDebt without a total, and one without a status.
NoAmount == -1
Keep == "keep"

ASSUME ConstantsAssumption ==
    /\ NoKey \notin Keys
    /\ NoDebt \notin Debts
    /\ Amounts \subseteq Int
    /\ Totals \subseteq Amounts \ {NoAmount}
    /\ OpenAs \subseteq Statuses
    /\ Changes \subseteq Statuses
    /\ Serial \in BOOLEAN
    /\ MaxFaults \in [Faults -> Nat]

\* The columns of a debt, as a row, a copy in memory or a cached response.
Images == [total : Nat, remaining : Nat, status : Statuses \union {"none"}]

NoImage == [total |-> 0, remaining |-> 0, status |-> "none"]

VARIABLES
    row,        \* debts: "absent", "live" or "deleted" (deleted_at set)
    debt,       \* the image stored in the row
    paid,       \* the sum of the payments of each debt
    event,      \* the outbox of each debt: the type of the last event, and the
                \* last status an event told (a DebtDeleted tells none)
    cached,     \* the Redis entry of each debt, or NoImage
    stored,     \* the keys whose response is in Redis
    pc,         \* the next step of each request
    call,       \* what each request asks for
    copy,       \* the image a request holds in memory
    opened,     \* history: the total each debt was created with
    commits,    \* history: transactions committed under each key
    faults      \* faults so far, by kind

dbVars == <<row, debt, paid, event, opened, commits>>
redisVars == <<cached, stored>>
vars == <<row, debt, paid, event, cached, stored, pc, call, copy, opened,
          commits, faults>>

NoCall == [op |-> "none", debt |-> NoDebt, amount |-> 0, status |-> Keep, key |-> NoKey]

NoEvent == [type |-> "none", status |-> "none"]

Init ==
    /\ row = [d \in Debts |-> "absent"]
    /\ debt = [d \in Debts |-> NoImage]
    /\ paid = [d \in Debts |-> 0]
    /\ event = [d \in Debts |-> NoEvent]
    /\ cached = [d \in Debts |-> NoImage]
    /\ stored = {}
    /\ pc = [r \in Requests |-> "idle"]
    /\ call = [r \in Requests |-> NoCall]
    /\ copy = [r \in Requests |-> NoImage]
    /\ opened = [d \in Debts |-> 0]
    /\ commits = [k \in Keys |-> 0]
    /\ faults = [f \in Faults |-> 0]

Fault(f) ==
    /\ faults[f] < MaxFaults[f]
    /\ faults' = [faults EXCEPT ![f] = @ + 1]

\* The request goes on at s with x in memory, or returns to its caller.
Goto(r, s, x) ==
    /\ pc' = [pc EXCEPT ![r] = s]
    /\ copy' = [copy EXCEPT ![r] = x]

Return(r) == Goto(r, "done", NoImage)

InFlight(r) == pc[r] \notin {"idle", "done"}

------------------------------------------------------------------------------
(***************************************************************************)
(* The domain.                                                             *)
(***************************************************************************)

\* NewDebt and NewPayment refuse an amount that is not positive.
IsValidAmount(a) == a > 0

NewDebt(a, s) == [total |-> a, remaining |-> a, status |-> s]

\* Mutant: the balance is not compared with the amount.
CanPayMore(x, a) ==
    /\ a > 0
    /\ x.status # "paid_off"

CanPay(x, a) ==
    /\ a > 0
    /\ x.status # "paid_off"
    /\ a <= x.remaining

\* Mutant: no automatic transition to paid_off.
ApplyPaymentOnly(x, a) == [x EXCEPT !.remaining = @ - a]

ApplyPayment(x, a) ==
    [x EXCEPT !.remaining = @ - a,
              !.status = IF x.remaining = a THEN "paid_off" ELSE @]

Allowed(s) ==
    CASE s = "active"    -> {"paused", "paid_off", "defaulted", "settled"}
      [] s = "paused"    -> {"active", "paid_off", "defaulted", "settled"}
      [] s = "defaulted" -> {"settled"}
      [] OTHER           -> {}

\* Mutant: the status is set without TransitionStatus.
CanUpdateAnyStatus(x, t, s) == t = NoAmount \/ IsValidAmount(t)

CanUpdate(x, t, s) ==
    /\ t = NoAmount \/ IsValidAmount(t)
    /\ s = Keep \/ s \in Allowed(x.status)

\* The new total is not compared with the balance, which stays as it is.
ApplyUpdate(x, t, s) ==
    [x EXCEPT !.total = IF t = NoAmount THEN @ ELSE t,
              !.status = IF s = Keep THEN @ ELSE s]

------------------------------------------------------------------------------
(***************************************************************************)
(* A request arrives.                                                      *)
(***************************************************************************)

\* A key names one command: a client sends it again only to retry.  The
\* identifier of a new debt is drawn by the server, so a retry may differ in it.
IsRetryOrNew(c) ==
    \A r \in Requests :
        (c.key # NoKey /\ call[r].key = c.key)
        => /\ call[r].op = c.op /\ call[r].amount = c.amount /\ call[r].status = c.status
           /\ c.op # "create" => call[r].debt = c.debt

\* up is false when the handler's first call to Redis fails, which every
\* handler takes for a miss.  A mutation without a key makes none.
Arrives(r, c, up) ==
    /\ pc[r] = "idle"
    /\ Serial => \A q \in Requests : ~InFlight(q)
    /\ IsRetryOrNew(c)
    /\ ~up => c.key # NoKey \/ c.op \in {"get"} \union Deletes
    /\ call' = [call EXCEPT ![r] = c]
    /\ IF up THEN UNCHANGED faults ELSE Fault("redis")

\* The check at the head of a mutation: a stored response is returned as it is.
Replayed(k, up) == up /\ k \in stored

\* uuid.New: an identifier that no request ever named.
IsFresh(d) ==
    /\ d \in Debts
    /\ row[d] = "absent"
    /\ \A r \in Requests : call[r].debt # d

CreateDebt(r, d, a, s, k, up) ==
    /\ Arrives(r, [op |-> "create", debt |-> d, amount |-> a, status |-> s, key |-> k], up)
    /\ IF Replayed(k, up) \/ ~IsValidAmount(a)
       THEN d = NoDebt /\ Return(r)
       ELSE IsFresh(d) /\ Goto(r, "commit", NewDebt(a, s))
    /\ UNCHANGED <<dbVars, redisVars>>

RegisterPayment(r, d, a, k, up) ==
    /\ Arrives(r, [op |-> "pay", debt |-> d, amount |-> a, status |-> Keep, key |-> k], up)
    /\ IF Replayed(k, up) \/ ~IsValidAmount(a) THEN Return(r) ELSE Goto(r, "find", NoImage)
    /\ UNCHANGED <<dbVars, redisVars>>

UpdateDebt(r, d, t, s, k, up) ==
    /\ Arrives(r, [op |-> "update", debt |-> d, amount |-> t, status |-> s, key |-> k], up)
    /\ IF Replayed(k, up) THEN Return(r) ELSE Goto(r, "find", NoImage)
    /\ UNCHANGED <<dbVars, redisVars>>

\* The cache entry, whose key names no user, goes first, and the transaction
\* follows; there is no Idempotency-Key.
DeleteDebt(r, d, op, up) ==
    /\ Arrives(r, [op |-> op, debt |-> d, amount |-> 0, status |-> Keep, key |-> NoKey], up)
    /\ cached' = IF up THEN [cached EXCEPT ![d] = NoImage] ELSE cached
    /\ Goto(r, "commit", NoImage)
    /\ UNCHANGED <<dbVars, stored>>

\* A hit is returned; a miss goes to the table.
GetDebt(r, d, up) ==
    /\ Arrives(r, [op |-> "get", debt |-> d, amount |-> 0, status |-> Keep, key |-> NoKey], up)
    /\ IF up /\ cached[d] # NoImage THEN Return(r) ELSE Goto(r, "find", NoImage)
    /\ UNCHANGED <<dbVars, redisVars>>

------------------------------------------------------------------------------
(***************************************************************************)
(* The steps of a request.                                                 *)
(***************************************************************************)

\* What the handler makes of the row it read; the domain's refusal is an error.
Accepts(c, x) ==
    /\ c.op = "pay" => CanPay(x, c.amount)
    /\ c.op = "update" => CanUpdate(x, c.amount, c.status)

Changed(c, x) ==
    CASE c.op = "pay"    -> ApplyPayment(x, c.amount)
      [] c.op = "update" -> ApplyUpdate(x, c.amount, c.status)
      [] OTHER           -> x

\* Mutant: FindByID does not ask for deleted_at IS NULL.
FindDebtDeleted(r) ==
    LET c == call[r] IN
    /\ pc[r] = "find"
    /\ c.debt \in Debts
    /\ row[c.debt] # "absent"
    /\ Accepts(c, debt[c.debt])
    /\ Goto(r, IF c.op = "get" THEN "fill" ELSE "commit", Changed(c, debt[c.debt]))
    /\ UNCHANGED <<dbVars, redisVars, call, faults>>

\* FindByID through the pool, and the domain method on the copy.
FindDebt(r) ==
    LET c == call[r] IN
    /\ pc[r] = "find"
    /\ row[c.debt] = "live"
    /\ Accepts(c, debt[c.debt])
    /\ Goto(r, IF c.op = "get" THEN "fill" ELSE "commit", Changed(c, debt[c.debt]))
    /\ UNCHANGED <<dbVars, redisVars, call, faults>>

\* ErrNotFound, or an error of the domain: WithTx rolls back, nothing happened.
Refused(r) ==
    LET c == call[r] IN
    /\ pc[r] = "find"
    /\ row[c.debt] = "live" => ~Accepts(c, debt[c.debt])
    /\ Return(r)
    /\ UNCHANGED <<dbVars, redisVars, call, faults>>

\* Mutant: the response of a keyed mutation is not stored.
AfterCommitNoStore(c) == IF c.op \in {"pay", "update"} THEN "evict" ELSE "done"

\* After a commit: the key, then the cache entry of a changed debt.
AfterCommit(c) ==
    IF c.key # NoKey THEN "store"
    ELSE IF c.op \in {"pay", "update"} THEN "evict" ELSE "done"

\* The outbox row, which commits with the rest of the transaction.
SaveEvent(d, type, status) ==
    event' = [event EXCEPT ![d] = [type |-> type, status |-> status]]

Commits(r, op) ==
    /\ pc[r] = "commit"
    /\ call[r].op = op
    /\ commits' = [k \in Keys |-> IF k = call[r].key THEN commits[k] + 1 ELSE commits[k]]
    /\ Goto(r, AfterCommit(call[r]), NoImage)
    /\ UNCHANGED <<redisVars, call, faults>>

CommitCreate(r) ==
    LET d == call[r].debt IN
    /\ Commits(r, "create")
    /\ row' = [row EXCEPT ![d] = "live"]
    /\ debt' = [debt EXCEPT ![d] = copy[r]]
    /\ opened' = [opened EXCEPT ![d] = copy[r].remaining]
    /\ SaveEvent(d, "created", copy[r].status)
    /\ UNCHANGED paid

\* UPDATE ... WHERE deleted_at IS NULL: of a deleted debt it changes no row and
\* reports no error, and the rest of the transaction commits all the same.
WriteBack(d, x) ==
    debt' = IF row[d] = "live" THEN [debt EXCEPT ![d] = x] ELSE debt

\* Mutant: the balance is written and the payment row is not.
CommitPaymentUnrecorded(r) ==
    LET d == call[r].debt IN
    /\ Commits(r, "pay")
    /\ WriteBack(d, copy[r])
    /\ SaveEvent(d, "payment", copy[r].status)
    /\ UNCHANGED <<row, paid, opened>>

CommitPayment(r) ==
    LET d == call[r].debt IN
    /\ Commits(r, "pay")
    /\ paid' = [paid EXCEPT ![d] = @ + call[r].amount]
    /\ WriteBack(d, copy[r])
    /\ SaveEvent(d, "payment", copy[r].status)
    /\ UNCHANGED <<row, opened>>

\* Mutant: the event carries the status from before the update.
CommitUpdateOldStatus(r) ==
    LET d == call[r].debt IN
    /\ Commits(r, "update")
    /\ WriteBack(d, copy[r])
    /\ SaveEvent(d, "updated", debt[d].status)
    /\ UNCHANGED <<row, paid, opened>>

CommitUpdate(r) ==
    LET d == call[r].debt IN
    /\ Commits(r, "update")
    /\ WriteBack(d, copy[r])
    /\ SaveEvent(d, "updated", copy[r].status)
    /\ UNCHANGED <<row, paid, opened>>

\* UPDATE ... WHERE id AND user_id AND deleted_at IS NULL: nobody looks at how
\* many rows it changed, and DebtDeleted is written all the same.
CommitDelete(r) ==
    LET d == call[r].debt
        matches == call[r].op = "delete" /\ row[d] = "live" IN
    /\ call[r].op \in Deletes
    /\ Commits(r, call[r].op)
    /\ row' = IF matches THEN [row EXCEPT ![d] = "deleted"] ELSE row
    /\ event' = [event EXCEPT ![d].type = "deleted"]
    /\ UNCHANGED <<debt, paid, opened>>

\* Mutant: payments.Save writes through the pool, so a rollback leaves its row.
DatabaseFailsKeepsPayment(r) ==
    /\ pc[r] \in {"find", "commit"}
    /\ Fault("db")
    /\ paid' = IF pc[r] = "commit" /\ call[r].op = "pay"
               THEN [paid EXCEPT ![call[r].debt] = @ + call[r].amount] ELSE paid
    /\ Return(r)
    /\ UNCHANGED <<row, debt, event, opened, commits, redisVars, call>>

\* The query or the transaction fails and is rolled back.
DatabaseFails(r) ==
    /\ pc[r] \in {"find", "commit"}
    /\ Fault("db")
    /\ Return(r)
    /\ UNCHANGED <<dbVars, redisVars, call>>

\* Mutant: the handler returns before it deletes the cache entry.
AfterStoreNoEviction(c) == "done"

AfterStore(c) == IF c.op = "create" THEN "done" ELSE "evict"

\* SETNX: a response already there stays, and its error is dropped.
StoreKey(r) ==
    /\ pc[r] = "store"
    /\ stored' = stored \union {call[r].key}
    /\ Goto(r, AfterStore(call[r]), NoImage)
    /\ UNCHANGED <<dbVars, cached, call, faults>>

EvictCache(r) ==
    /\ pc[r] = "evict"
    /\ cached' = [cached EXCEPT ![call[r].debt] = NoImage]
    /\ Return(r)
    /\ UNCHANGED <<dbVars, stored, call, faults>>

FillCache(r) ==
    /\ pc[r] = "fill"
    /\ cached' = [cached EXCEPT ![call[r].debt] = copy[r]]
    /\ Return(r)
    /\ UNCHANGED <<dbVars, stored, call, faults>>

\* Errors of Redis after the commit are dropped.
RedisFails(r) ==
    /\ pc[r] \in {"store", "evict", "fill"}
    /\ Fault("redis")
    /\ Goto(r, IF pc[r] = "store" THEN AfterStore(call[r]) ELSE "done", NoImage)
    /\ UNCHANGED <<dbVars, redisVars, call>>

\* The replica dies or the caller's context ends: the remaining steps are lost.
Abandon(r) ==
    /\ InFlight(r)
    /\ Fault("abandon")
    /\ Return(r)
    /\ UNCHANGED <<dbVars, redisVars, call>>

\* The five minutes of a cache entry.
ExpireCache(d) ==
    /\ cached[d] # NoImage
    /\ cached' = [cached EXCEPT ![d] = NoImage]
    /\ UNCHANGED <<dbVars, stored, pc, call, copy, faults>>

------------------------------------------------------------------------------

Arrival(r) ==
    \E d \in Debts, up \in BOOLEAN :
        \/ \E new \in {d, NoDebt}, a \in Amounts, s \in OpenAs, k \in Keys \union {NoKey} :
              CreateDebt(r, new, a, s, k, up)
        \/ \E a \in Amounts, k \in Keys \union {NoKey} : RegisterPayment(r, d, a, k, up)
        \/ \E t \in Totals \union {NoAmount}, s \in Changes \union {Keep},
                k \in Keys \union {NoKey} :
              UpdateDebt(r, d, t, s, k, up)
        \/ \E op \in Deletes : DeleteDebt(r, d, op, up)
        \/ GetDebt(r, d, up)

Step(r) ==
    \/ FindDebt(r)
    \/ Refused(r)
    \/ CommitCreate(r)
    \/ CommitPayment(r)
    \/ CommitUpdate(r)
    \/ CommitDelete(r)
    \/ DatabaseFails(r)
    \/ StoreKey(r)
    \/ EvictCache(r)
    \/ FillCache(r)
    \/ RedisFails(r)
    \/ Abandon(r)

Next ==
    \/ \E r \in Requests : Arrival(r) \/ Step(r)
    \/ \E d \in Debts : ExpireCache(d)

Spec == Init /\ [][Next]_vars

------------------------------------------------------------------------------
(***************************************************************************)
(* Properties.                                                             *)
(***************************************************************************)

TypeOK ==
    /\ row \in [Debts -> {"absent", "live", "deleted"}]
    /\ debt \in [Debts -> Images]
    /\ paid \in [Debts -> Nat]
    /\ event \in [Debts -> [type : {"none", "created", "payment", "updated", "deleted"},
                            status : Statuses \union {"none"}]]
    /\ cached \in [Debts -> Images]
    /\ stored \subseteq Keys
    /\ pc \in [Requests -> {"idle", "find", "commit", "store", "evict", "fill", "done"}]
    /\ call \in [Requests -> [op : Ops, debt : Debts \union {NoDebt}, amount : Int,
                              status : Statuses \union {Keep}, key : Keys \union {NoKey}]]
    /\ copy \in [Requests -> Images]
    /\ opened \in [Debts -> Nat]
    /\ commits \in [Keys -> Nat]
    /\ faults \in [Faults -> Nat]

\* A debt with nothing left to pay is paid off, whatever stale copies are written
\* over it: ApplyPayment sets both columns and every UPDATE writes both.
ZeroMeansPaidOff ==
    \A d \in Debts : (row[d] = "live" /\ debt[d].remaining = 0) => debt[d].status = "paid_off"

\* No debt shrinks by more than what was paid on it: a lost write can only leave
\* the balance of RegisterPayment too high, never too low.
NeverOverCredited ==
    \A d \in Debts : opened[d] <= debt[d].remaining + paid[d]

\* Some UpdateDebt asked for another total of debt d.
Retotalled(d) ==
    \E r \in Requests : call[r].op = "update" /\ call[r].debt = d /\ call[r].amount # NoAmount

\* The balance is what the debt was opened with less the payment rows, and as long
\* as no UpdateDebt was given a total_amount that is what the reconciliation of the
\* security notes computes, total_amount - SUM(payments).  After such an update the
\* two differ: ApplyUpdate moves total_amount and leaves remaining_amount alone.
LedgerBalanced ==
    \A d \in Debts :
        row[d] # "absent"
        => /\ opened[d] = debt[d].remaining + paid[d]
           /\ Retotalled(d) \/ debt[d].total = debt[d].remaining + paid[d]

\* The last status that an outbox event told of a live debt is the status of its
\* row: handlers write both in one transaction.  Nothing is said of the type of the
\* last event: a DebtDeleted can follow, written for another user's DeleteDebt.
LastEventTellsStatus ==
    \A d \in Debts :
        row[d] = "live" => event[d].status = debt[d].status

\* Nothing follows the DebtDeleted event of a deleted debt.
DeletedIsLast ==
    \A d \in Debts : row[d] = "deleted" => event[d].type = "deleted"

\* A paid-off debt stays paid off: TransitionStatus and ApplyPayment refuse it.
PaidOffIsTerminal ==
    [][\A d \in Debts : debt[d].status = "paid_off" => debt'[d].status = "paid_off"]_vars

\* The mutations of one Idempotency-Key commit once; each Redis error and each
\* request that died before Store may let one repetition through.
AtMostOncePerKey ==
    \A k \in Keys : commits[k] <= 1 + faults["redis"] + faults["abandon"]

\* While no request is in flight and no eviction was lost, GetDebt answers from
\* the cache only what the table says, and nothing for a deleted debt.
CacheCoherent ==
    (/\ \A r \in Requests : ~InFlight(r)
     /\ faults["redis"] + faults["abandon"] = 0)
    => \A d \in Debts : cached[d] # NoImage => row[d] = "live" /\ cached[d] = debt[d]
==============================================================================
