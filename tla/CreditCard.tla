------------------------------ MODULE CreditCard ------------------------------
(***************************************************************************)
(* creditcard-svc: cards with a credit limit, monthly invoices, and the    *)
(* charges and payments that move credit between them.  A request is one   *)
(* RPC, each of its calls to PostgreSQL or Redis is one step, and steps of *)
(* different requests interleave.                                          *)
(*                                                                         *)
(* No FindByID uses the transaction of its context: invoices are read      *)
(* before the transaction, cards inside it but through the pool.  UPDATEs  *)
(* write every column from those copies.  PayInvoice updates the invoice   *)
(* before it reads the card, so from then on it holds the lock of the      *)
(* invoice's row; every other transaction of the service makes all its     *)
(* writes after its last read, and is one step here.                       *)
(*                                                                         *)
(* One user; names, brands, days, dates and categories are left out.  The  *)
(* outbox row commits with its transaction (OutboxRelay takes it from      *)
(* there); of its payload only the amount of invoice.paid is kept.         *)
(***************************************************************************)
EXTENDS Integers, FiniteSets, Functions

CONSTANTS
    Requests,               \* RPC calls of a behaviour, each made once
    Cards, NoCard,          \* the identifiers of cards, and none
    Invoices, NoInvoice,    \* the identifiers of invoices, and none
    Keys, NoKey,            \* Idempotency-Key values, and the empty one
    Amounts,                \* the amounts that clients send
    Limits,                 \* the credit limits that clients send
    LastMonth,              \* bound: months are 1..LastMonth (2100-12 is the last)
    Keep,                   \* a field that UpdateCreditCard is called without
    OpenCards,              \* cards at the start: their limits
    OpenInvoices,           \* open invoices at the start: card and month
    Serial,                 \* TRUE: one request at a time
    MaxFaults               \* bound: how often each kind of fault happens

Months == 1..LastMonth

\* A database error, a Redis error, a request that dies between two steps.
Faults == {"db", "redis", "abandon"}

ASSUME ConstantsAssumption ==
    /\ NoCard \notin Cards /\ NoInvoice \notin Invoices /\ NoKey \notin Keys
    /\ IsFiniteSet(Invoices)
    /\ Amounts \subseteq Int /\ Limits \subseteq Int /\ Keep \notin Int \union BOOLEAN
    /\ LastMonth \in Nat
    /\ DOMAIN OpenCards \subseteq Cards
    /\ \A c \in DOMAIN OpenCards : OpenCards[c] \in Nat
    /\ DOMAIN OpenInvoices \subseteq Invoices
    /\ \A i \in DOMAIN OpenInvoices :
           OpenInvoices[i].card \in DOMAIN OpenCards /\ OpenInvoices[i].month \in Months
    /\ Serial \in BOOLEAN
    /\ MaxFaults \in [Faults -> Nat]

\* The columns of a card and of an invoice, as a row, a copy in memory or a
\* cached response.  Nothing calls TransitionStatus: "closed" and "overdue" do
\* not occur.  The status of an invoice that does not exist is "none".
CardImages == [limit : Nat, available : Int, active : BOOLEAN]

InvoiceImages == [card : Cards \union {NoCard}, month : Nat, total : Nat, paid : Nat,
                  status : {"none", "open", "paid"}]

BlankCard == [limit |-> 0, available |-> 0, active |-> FALSE]

BlankInvoice == [card |-> NoCard, month |-> 0, total |-> 0, paid |-> 0, status |-> "none"]

VARIABLES
    cardRow,        \* credit_cards: "absent", "live" or "deleted" (deleted_at set)
    card,           \* the image in the row of each card
    invoice,        \* invoices: the image in the row of each invoice
    charged,        \* invoice_transactions: the sum of the amounts of each invoice
    received,       \* the sum of the amounts in the invoice.paid events of each invoice
    cachedCard,     \* the Redis entry of each card: a set of at most one image
    cachedInvoice,  \* the Redis entry of each invoice, likewise
    stored,         \* the keys whose response is in Redis
    pc,             \* the next step of each request
    call,           \* what each request asks for
    copy,           \* what a request holds in memory: a card, an invoice, its identifier
    faults          \* faults so far, by kind

dbVars == <<cardRow, card, invoice, charged, received>>
redisVars == <<cachedCard, cachedInvoice, stored>>
vars == <<cardRow, card, invoice, charged, received, cachedCard, cachedInvoice, stored,
          pc, call, copy, faults>>

\* Which operations start by reading a card, and which by reading an invoice.
CardOps == {"updateCard", "createInvoice", "getCard"}
InvoiceOps == {"pay", "charge", "getInvoice"}
Ops == CardOps \union InvoiceOps \union {"none", "createCard", "deleteCard"}

\* What a client asks of a card, or of an invoice.
CardCall(op, c, limit, active, k) ==
    [op |-> op, card |-> c, invoice |-> NoInvoice, month |-> 0,
     amount |-> limit, active |-> active, key |-> k]

InvoiceCall(op, i, a, k) ==
    [op |-> op, card |-> NoCard, invoice |-> i, month |-> 0,
     amount |-> a, active |-> Keep, key |-> k]

NoCall == InvoiceCall("none", NoInvoice, 0, NoKey)

\* The card x, the invoice y and its identifier i.
Holding(x, y, i) == [card |-> x, invoice |-> y, target |-> i]

NoCopy == Holding(BlankCard, BlankInvoice, NoInvoice)

------------------------------------------------------------------------------
(***************************************************************************)
(* The domain.                                                             *)
(***************************************************************************)

NewCreditCard(limit) == [limit |-> limit, available |-> limit, active |-> TRUE]

NewInvoice(c, m) == [card |-> c, month |-> m, total |-> 0, paid |-> 0, status |-> "open"]

\* Mutant: the limit changes and the available credit does not.
ApplyUpdateLimitOnly(x, limit, active) ==
    [x EXCEPT !.limit = IF limit = Keep THEN @ ELSE limit,
              !.active = IF active = Keep THEN @ ELSE active]

ApplyUpdate(x, limit, active) ==
    [limit     |-> IF limit = Keep THEN x.limit ELSE limit,
     available |-> IF limit = Keep THEN x.available ELSE x.available + (limit - x.limit),
     active    |-> IF active = Keep THEN x.active ELSE active]

CanAdd(x, a) == x.status = "open" /\ a > 0

AddTransactionAmount(x, a) == [x EXCEPT !.total = x.total + a]

CanPay(x, a) ==
    /\ x.status # "paid"
    /\ a > 0
    /\ a <= x.total - x.paid

\* Mutant: the invoice is closed one cent too late.
PayStaysOpen(x, a) ==
    [card |-> x.card, month |-> x.month, total |-> x.total, paid |-> x.paid + a,
     status |-> IF x.paid + a > x.total THEN "paid" ELSE x.status]

Pay(x, a) ==
    [card |-> x.card, month |-> x.month, total |-> x.total, paid |-> x.paid + a,
     status |-> IF x.paid + a >= x.total THEN "paid" ELSE x.status]

\* Mutant: no cap.
RestoreUncapped(x, a) == [x EXCEPT !.available = x.available + a]

\* PayInvoice gives the amount back to the card, up to its limit.
Restore(x, a) ==
    [x EXCEPT !.available = IF x.available + a > x.limit THEN x.limit ELSE x.available + a]

NextReferenceMonth(m) == m + 1

------------------------------------------------------------------------------

Init ==
    /\ cardRow = [c \in Cards |-> IF c \in DOMAIN OpenCards THEN "live" ELSE "absent"]
    /\ card = [c \in Cards |-> IF c \in DOMAIN OpenCards
                               THEN NewCreditCard(OpenCards[c]) ELSE BlankCard]
    /\ invoice = [i \in Invoices |->
                    IF i \in DOMAIN OpenInvoices
                    THEN NewInvoice(OpenInvoices[i].card, OpenInvoices[i].month)
                    ELSE BlankInvoice]
    /\ charged = [i \in Invoices |-> 0]
    /\ received = [i \in Invoices |-> 0]
    /\ cachedCard = [c \in Cards |-> {}]
    /\ cachedInvoice = [i \in Invoices |-> {}]
    /\ stored = {}
    /\ pc = [r \in Requests |-> "idle"]
    /\ call = [r \in Requests |-> NoCall]
    /\ copy = [r \in Requests |-> NoCopy]
    /\ faults = [f \in Faults |-> 0]

Fault(f) ==
    /\ faults[f] < MaxFaults[f]
    /\ faults' = [faults EXCEPT ![f] = @ + 1]

\* The request c goes on at s with x in memory.  Of a request that is over only
\* a command with a key is remembered.
Begin(r, c, s, x) ==
    /\ pc' = [pc EXCEPT ![r] = s]
    /\ copy' = [copy EXCEPT ![r] = x]
    /\ call' = [call EXCEPT ![r] = IF s = "done" /\ c.key = NoKey THEN NoCall ELSE c]

Goto(r, s, x) == Begin(r, call[r], s, x)

Return(r) == Goto(r, "done", NoCopy)

InFlight(r) == pc[r] \notin {"idle", "done"}

------------------------------------------------------------------------------
(***************************************************************************)
(* A request arrives.                                                      *)
(***************************************************************************)

\* A key names one command: a client sends it again only to retry.  The server
\* draws the identifiers of what it creates, so a retry may differ in those.
IsRetryOrNew(c) ==
    \A r \in Requests :
        (c.key # NoKey /\ call[r].key = c.key)
        => c = [call[r] EXCEPT !.card    = IF c.op = "createCard" THEN c.card ELSE @,
                               !.invoice = IF c.op = "createInvoice" THEN c.invoice ELSE @]

\* up is false when the handler's first call to Redis fails, which every
\* handler takes for a miss.  A mutation without a key makes none.
Arrives(r, c, up) ==
    /\ pc[r] = "idle"
    /\ Serial => \A q \in Requests : ~InFlight(q)
    /\ IsRetryOrNew(c)
    /\ ~up => c.key # NoKey \/ c.op \in {"deleteCard", "getCard", "getInvoice"}
    /\ IF up THEN UNCHANGED faults ELSE Fault("redis")

\* The check at the head of a mutation: a stored response is returned as it is.
Replayed(k, up) == up /\ k \in stored

\* uuid.New: an identifier that no row has and no request names.
FreshCard(c) == cardRow[c] = "absent" /\ \A r \in Requests : call[r].card # c
FreshInvoice(i) == invoice[i] = BlankInvoice /\ \A r \in Requests : call[r].invoice # i

CreateCreditCard(r, c, limit, k, up) ==
    LET q == CardCall("createCard", c, limit, Keep, k) IN
    /\ FreshCard(c)
    /\ Arrives(r, q, up)
    /\ IF Replayed(k, up) \/ limit < 0
       THEN Begin(r, q, "done", NoCopy)
       ELSE Begin(r, q, "commit", Holding(NewCreditCard(limit), BlankInvoice, NoInvoice))
    /\ UNCHANGED <<dbVars, redisVars>>

UpdateCreditCard(r, c, limit, active, k, up) ==
    LET q == CardCall("updateCard", c, limit, active, k) IN
    /\ Arrives(r, q, up)
    /\ Begin(r, q, IF Replayed(k, up) THEN "done" ELSE "find", NoCopy)
    /\ UNCHANGED <<dbVars, redisVars>>

\* The cache entry goes first, the transaction follows; there is no key.
DeleteCreditCard(r, c, up) ==
    LET q == CardCall("deleteCard", c, 0, Keep, NoKey) IN
    /\ Arrives(r, q, up)
    /\ cachedCard' = IF up THEN [cachedCard EXCEPT ![c] = {}] ELSE cachedCard
    /\ Begin(r, q, "commit", NoCopy)
    /\ UNCHANGED <<dbVars, cachedInvoice, stored>>

GetCreditCard(r, c, up) ==
    LET q == CardCall("getCard", c, 0, Keep, NoKey) IN
    /\ Arrives(r, q, up)
    /\ Begin(r, q, IF up /\ cachedCard[c] # {} THEN "done" ELSE "find", NoCopy)
    /\ UNCHANGED <<dbVars, redisVars>>

CreateInvoice(r, c, i, m, k, up) ==
    LET q == [op |-> "createInvoice", card |-> c, invoice |-> i, month |-> m,
              amount |-> 0, active |-> Keep, key |-> k] IN
    /\ FreshInvoice(i)
    /\ Arrives(r, q, up)
    /\ Begin(r, q, IF Replayed(k, up) THEN "done" ELSE "find", NoCopy)
    /\ UNCHANGED <<dbVars, redisVars>>

GetInvoice(r, i, up) ==
    LET q == InvoiceCall("getInvoice", i, 0, NoKey) IN
    /\ Arrives(r, q, up)
    /\ Begin(r, q, IF up /\ cachedInvoice[i] # {} THEN "done" ELSE "find", NoCopy)
    /\ UNCHANGED <<dbVars, redisVars>>

PayInvoice(r, i, a, k, up) ==
    LET q == InvoiceCall("pay", i, a, k) IN
    /\ Arrives(r, q, up)
    /\ Begin(r, q, IF Replayed(k, up) THEN "done" ELSE "find", NoCopy)
    /\ UNCHANGED <<dbVars, redisVars>>

AddTransaction(r, i, a, k, up) ==
    LET q == InvoiceCall("charge", i, a, k) IN
    /\ Arrives(r, q, up)
    /\ Begin(r, q, IF Replayed(k, up) THEN "done" ELSE "find", NoCopy)
    /\ UNCHANGED <<dbVars, redisVars>>

------------------------------------------------------------------------------
(***************************************************************************)
(* Reads: each is a query of its own, through the pool.                    *)
(***************************************************************************)

Reads(r, place) == pc[r] = place /\ UNCHANGED <<dbVars, redisVars, faults>>

\* What the handlers ask of the card they read first.
AcceptsCard(c, x) ==
    /\ (c.op = "updateCard" /\ c.amount # Keep) => c.amount >= 0
    /\ c.op = "createInvoice" => x.active /\ c.month \in Months

\* UpdateCreditCard, CreateInvoice and GetCreditCard.
FindCard(r) ==
    LET c == call[r]
        x == card[c.card]
    IN  /\ Reads(r, "find")
        /\ c.op \in CardOps
        /\ cardRow[c.card] = "live"
        /\ AcceptsCard(c, x)
        /\ \/ /\ c.op = "updateCard"
              /\ Goto(r, "commit", Holding(ApplyUpdate(x, c.amount, c.active), BlankInvoice, NoInvoice))
           \/ /\ c.op = "createInvoice"
              /\ Goto(r, "commit", Holding(BlankCard, NewInvoice(c.card, c.month), c.invoice))
           \/ /\ c.op = "getCard"
              /\ Goto(r, "fill", Holding(x, BlankInvoice, NoInvoice))

\* What the handlers ask of the invoice they read first.
AcceptsInvoice(c, x) ==
    /\ x.status # "none"
    /\ c.op = "pay" => CanPay(x, c.amount)
    /\ c.op = "charge" => CanAdd(x, c.amount)

\* PayInvoice, AddTransaction to an open invoice, and GetInvoice.
FindInvoice(r) ==
    LET c == call[r]
        x == invoice[c.invoice]
        with(y) == Holding(BlankCard, y, c.invoice)
    IN  /\ Reads(r, "find")
        /\ c.op \in InvoiceOps
        /\ AcceptsInvoice(c, x)
        /\ \/ c.op = "pay" /\ Goto(r, "lock", with(Pay(x, c.amount)))
           \/ c.op = "charge" /\ Goto(r, "card", with(AddTransactionAmount(x, c.amount)))
           \/ c.op = "getInvoice" /\ Goto(r, "fill", with(x))

\* AddTransaction found an invoice that is not open.
IsRollover(c, x) == c.op = "charge" /\ x.status = "paid"

StartRollover(r) ==
    LET x == invoice[call[r].invoice] IN
    /\ Reads(r, "find")
    /\ call[r].op = "charge"
    /\ IsRollover(call[r], x)
    /\ Goto(r, "rollover", Holding(BlankCard, x, NoInvoice))

\* FindByMonth: no index makes the month of a card unique, and the query takes
\* whichever row comes first.
InMonth(c, m) == {i \in Invoices : invoice[i].card = c /\ invoice[i].month = m}

\* The charge goes to the invoice of the next month, if there is one.
RolloverFound(r) ==
    LET x == copy[r].invoice IN
    /\ Reads(r, "rollover")
    /\ cardRow[x.card] = "live"
    /\ \E j \in InMonth(x.card, NextReferenceMonth(x.month)) :
           /\ CanAdd(invoice[j], call[r].amount)
           /\ Goto(r, "card",
                   Holding(BlankCard, AddTransactionAmount(invoice[j], call[r].amount), j))

\* Otherwise an invoice is made in memory, with an identifier no row has.
RolloverNew(r) ==
    LET x == copy[r].invoice
        m == NextReferenceMonth(x.month)
    IN  /\ Reads(r, "rollover")
        /\ cardRow[x.card] = "live"
        /\ InMonth(x.card, m) = {}
        /\ m \in Months
        /\ call[r].amount > 0
        /\ Goto(r, "card",
                Holding(BlankCard, AddTransactionAmount(NewInvoice(x.card, m), call[r].amount),
                        NoInvoice))

\* ErrNotFound, or an error of the domain, before any transaction.
Refused(r) ==
    LET c == call[r] IN
    /\ Reads(r, "find")
    /\ \/ /\ c.op \in CardOps
          /\ cardRow[c.card] = "live" => ~AcceptsCard(c, card[c.card])
       \/ /\ c.op \in InvoiceOps
          /\ ~AcceptsInvoice(c, invoice[c.invoice]) /\ ~IsRollover(c, invoice[c.invoice])
    /\ Return(r)

RolloverRefused(r) ==
    LET x == copy[r].invoice
        m == NextReferenceMonth(x.month)
    IN  /\ Reads(r, "rollover")
        /\ \/ cardRow[x.card] # "live"
           \/ \E j \in InMonth(x.card, m) : ~CanAdd(invoice[j], call[r].amount)
           \/ InMonth(x.card, m) = {} /\ (m \notin Months \/ call[r].amount <= 0)
        /\ Return(r)

------------------------------------------------------------------------------
(***************************************************************************)
(* Transactions.                                                           *)
(***************************************************************************)

\* From its UPDATE of the invoice to its end, a PayInvoice holds the row.
Locked(i) ==
    \E q \in Requests :
        call[q].op = "pay" /\ pc[q] \in {"card", "commit"} /\ copy[q].target = i

\* PayInvoice begins its transaction and updates the invoice; the new row is
\* seen by others when it commits.
LockInvoice(r) ==
    /\ Reads(r, "lock")
    /\ ~Locked(copy[r].target)
    /\ Goto(r, "card", copy[r])

\* FindByID of the card inside the transaction of a payment or a charge.
ReadCardToPay(r) ==
    LET x == card[copy[r].invoice.card] IN
    /\ Reads(r, "card")
    /\ call[r].op = "pay"
    /\ cardRow[copy[r].invoice.card] = "live"
    /\ Goto(r, "commit", Holding(Restore(x, call[r].amount), copy[r].invoice, copy[r].target))

ReadCardToCharge(r) ==
    LET x == card[copy[r].invoice.card] IN
    /\ Reads(r, "card")
    /\ call[r].op = "charge"
    /\ cardRow[copy[r].invoice.card] = "live"
    /\ x.available >= call[r].amount
    /\ Goto(r, "commit", Holding([x EXCEPT !.available = x.available - call[r].amount],
                                 copy[r].invoice, copy[r].target))

\* The card is gone, or its credit does not cover the charge: ErrCreditExceeded.
ReadCardRefused(r) ==
    LET c == copy[r].invoice.card IN
    /\ Reads(r, "card")
    /\ cardRow[c] = "live"
       => call[r].op = "charge" /\ card[c].available < call[r].amount
    /\ Return(r)

\* After a commit come the key and the cache entries, each in turn.
AfterStore(c) ==
    CASE c.op \in {"pay", "charge"}               -> "evictInvoice"
      [] c.op \in {"updateCard", "createInvoice"} -> "evictCard"
      [] OTHER                                    -> "done"

AfterCommit(c) == IF c.key # NoKey THEN "store" ELSE AfterStore(c)

Commits(r, op) ==
    /\ pc[r] = "commit"
    /\ call[r].op = op
    /\ Goto(r, AfterCommit(call[r]), Holding(BlankCard, BlankInvoice, copy[r].target))
    /\ UNCHANGED <<redisVars, faults>>

\* Mutant: the column has no CHECK.
CheckDropped(x) == TRUE

\* CHECK (available_credit >= 0).
CheckHolds(x) == x.available >= 0

\* UPDATE ... WHERE deleted_at IS NULL: of a deleted card it changes no row,
\* reports no error and checks nothing.
UpdateCard(c, x) ==
    /\ cardRow[c] = "live" => CheckHolds(x)
    /\ card' = IF cardRow[c] = "live" THEN [card EXCEPT ![c] = x] ELSE card

CommitCreateCard(r) ==
    LET c == call[r].card IN
    /\ Commits(r, "createCard")
    /\ cardRow' = [cardRow EXCEPT ![c] = "live"]
    /\ card' = [card EXCEPT ![c] = copy[r].card]
    /\ UNCHANGED <<invoice, charged, received>>

CommitUpdateCard(r) ==
    /\ Commits(r, "updateCard")
    /\ UpdateCard(call[r].card, copy[r].card)
    /\ UNCHANGED <<cardRow, invoice, charged, received>>

CommitDeleteCard(r) ==
    LET c == call[r].card IN
    /\ Commits(r, "deleteCard")
    /\ cardRow' = IF cardRow[c] = "live" THEN [cardRow EXCEPT ![c] = "deleted"] ELSE cardRow
    /\ UNCHANGED <<card, invoice, charged, received>>

CommitCreateInvoice(r) ==
    /\ Commits(r, "createInvoice")
    /\ invoice' = [invoice EXCEPT ![copy[r].target] = copy[r].invoice]
    /\ UNCHANGED <<cardRow, card, charged, received>>

CommitPay(r) ==
    LET i == copy[r].target IN
    /\ Commits(r, "pay")
    /\ invoice' = [invoice EXCEPT ![i] = copy[r].invoice]
    /\ UpdateCard(copy[r].invoice.card, copy[r].card)
    /\ received' = [received EXCEPT ![i] = @ + call[r].amount]
    /\ UNCHANGED <<cardRow, charged>>

\* Mutant: the total grows and the transaction row is not written.
CommitChargeUnrecorded(r) ==
    LET i == copy[r].target IN
    /\ Commits(r, "charge")
    /\ i # NoInvoice
    /\ ~Locked(i)
    /\ invoice' = [invoice EXCEPT ![i] = copy[r].invoice]
    /\ UpdateCard(copy[r].invoice.card, copy[r].card)
    /\ UNCHANGED <<cardRow, charged, received>>

\* Mutant: a charge that rolled over keeps the identifier of the invoice asked for.
CommitChargeAskedFor(r) ==
    LET i == copy[r].target IN
    /\ Commits(r, "charge")
    /\ i # NoInvoice
    /\ ~Locked(i)
    /\ charged' = [charged EXCEPT ![call[r].invoice] = @ + call[r].amount]
    /\ invoice' = [invoice EXCEPT ![i] = copy[r].invoice]
    /\ UpdateCard(copy[r].invoice.card, copy[r].card)
    /\ UNCHANGED <<cardRow, received>>

\* The transaction row, the invoice and the card, once no payment holds the
\* invoice.
CommitCharge(r) ==
    LET i == copy[r].target IN
    /\ Commits(r, "charge")
    /\ i # NoInvoice
    /\ ~Locked(i)
    /\ charged' = [charged EXCEPT ![i] = @ + call[r].amount]
    /\ invoice' = [invoice EXCEPT ![i] = copy[r].invoice]
    /\ UpdateCard(copy[r].invoice.card, copy[r].card)
    /\ UNCHANGED <<cardRow, received>>

\* The transaction row of a charge that rolled over to a new invoice is inserted
\* before that invoice and breaks its foreign key: WithTx rolls back.
RolloverBreaksForeignKey(r) ==
    /\ Reads(r, "commit")
    /\ call[r].op = "charge"
    /\ copy[r].target = NoInvoice
    /\ Return(r)

\* The limit was lowered below what is in use: WithTx rolls back.
CheckFails(r) ==
    /\ Reads(r, "commit")
    /\ call[r].op = "updateCard"
    /\ cardRow[call[r].card] = "live"
    /\ ~CheckHolds(copy[r].card)
    /\ Return(r)

\* A query or a transaction fails; what was not committed is rolled back.
DatabaseFails(r) ==
    /\ pc[r] \in {"find", "rollover", "lock", "card", "commit"}
    /\ Fault("db")
    /\ Return(r)
    /\ UNCHANGED <<dbVars, redisVars>>

------------------------------------------------------------------------------
(***************************************************************************)
(* Redis, after the commit; its errors are dropped.                        *)
(***************************************************************************)

\* SETNX: a response already there stays.
StoreKey(r) ==
    /\ pc[r] = "store"
    /\ stored' = stored \union {call[r].key}
    /\ Goto(r, AfterStore(call[r]), copy[r])
    /\ UNCHANGED <<dbVars, cachedCard, cachedInvoice, faults>>

\* Only PayInvoice goes on to evict the card whose credit changed.
AfterEvictInvoice(c) == IF c.op = "pay" THEN "evictCard" ELSE "done"

\* Mutant: the entry of the invoice that was asked for, not of the one charged.
EvictInvoiceAskedFor(r) ==
    /\ pc[r] = "evictInvoice"
    /\ cachedInvoice' = [cachedInvoice EXCEPT ![call[r].invoice] = {}]
    /\ Goto(r, AfterEvictInvoice(call[r]), copy[r])
    /\ UNCHANGED <<dbVars, cachedCard, stored, faults>>

EvictInvoice(r) ==
    /\ pc[r] = "evictInvoice"
    /\ cachedInvoice' = [cachedInvoice EXCEPT ![copy[r].target] = {}]
    /\ Goto(r, AfterEvictInvoice(call[r]), copy[r])
    /\ UNCHANGED <<dbVars, cachedCard, stored, faults>>

EvictCard(r) ==
    LET c == IF call[r].op = "pay" THEN invoice[copy[r].target].card ELSE call[r].card IN
    /\ pc[r] = "evictCard"
    /\ cachedCard' = [cachedCard EXCEPT ![c] = {}]
    /\ Return(r)
    /\ UNCHANGED <<dbVars, cachedInvoice, stored, faults>>

FillCache(r) ==
    /\ pc[r] = "fill"
    /\ \/ /\ call[r].op = "getCard"
          /\ cachedCard' = [cachedCard EXCEPT ![call[r].card] = {copy[r].card}]
          /\ UNCHANGED cachedInvoice
       \/ /\ call[r].op = "getInvoice"
          /\ cachedInvoice' = [cachedInvoice EXCEPT ![call[r].invoice] = {copy[r].invoice}]
          /\ UNCHANGED cachedCard
    /\ Return(r)
    /\ UNCHANGED <<dbVars, stored, faults>>

RedisFails(r) ==
    /\ Fault("redis")
    /\ \/ pc[r] = "store" /\ Goto(r, AfterStore(call[r]), copy[r])
       \/ pc[r] = "evictInvoice" /\ Goto(r, AfterEvictInvoice(call[r]), copy[r])
       \/ pc[r] \in {"evictCard", "fill"} /\ Return(r)
    /\ UNCHANGED <<dbVars, redisVars>>

\* The replica dies or the caller's context ends: an open transaction is rolled
\* back, and the remaining steps are lost.
Abandon(r) ==
    /\ InFlight(r)
    /\ Fault("abandon")
    /\ Return(r)
    /\ UNCHANGED <<dbVars, redisVars>>

\* The five minutes of a cache entry.
ExpireCache ==
    /\ \/ \E c \in Cards : /\ cachedCard[c] # {}
                           /\ cachedCard' = [cachedCard EXCEPT ![c] = {}]
                           /\ UNCHANGED cachedInvoice
       \/ \E i \in Invoices : /\ cachedInvoice[i] # {}
                              /\ cachedInvoice' = [cachedInvoice EXCEPT ![i] = {}]
                              /\ UNCHANGED cachedCard
    /\ UNCHANGED <<dbVars, stored, pc, call, copy, faults>>

------------------------------------------------------------------------------

Arrival(r) ==
    \E up \in BOOLEAN, k \in Keys \union {NoKey} :
        \/ \E c \in Cards :
              \/ \E l \in Limits : CreateCreditCard(r, c, l, k, up)
              \/ \E l \in Limits \union {Keep}, on \in BOOLEAN \union {Keep} :
                    UpdateCreditCard(r, c, l, on, k, up)
              \/ \E i \in Invoices, m \in 1..(LastMonth + 1) : CreateInvoice(r, c, i, m, k, up)
              \/ k = NoKey /\ DeleteCreditCard(r, c, up)
              \/ k = NoKey /\ GetCreditCard(r, c, up)
        \/ \E i \in Invoices :
              \/ \E a \in Amounts : PayInvoice(r, i, a, k, up)
              \/ \E a \in Amounts : AddTransaction(r, i, a, k, up)
              \/ k = NoKey /\ GetInvoice(r, i, up)

Step(r) ==
    \/ FindCard(r) \/ FindInvoice(r) \/ Refused(r)
    \/ StartRollover(r) \/ RolloverFound(r) \/ RolloverNew(r) \/ RolloverRefused(r)
    \/ LockInvoice(r) \/ ReadCardToPay(r) \/ ReadCardToCharge(r) \/ ReadCardRefused(r)
    \/ CommitCreateCard(r) \/ CommitUpdateCard(r) \/ CommitDeleteCard(r)
    \/ CommitCreateInvoice(r) \/ CommitPay(r) \/ CommitCharge(r)
    \/ RolloverBreaksForeignKey(r) \/ CheckFails(r) \/ DatabaseFails(r)
    \/ StoreKey(r) \/ EvictInvoice(r) \/ EvictCard(r) \/ FillCache(r)
    \/ RedisFails(r) \/ Abandon(r)

Next ==
    \/ \E r \in Requests : Arrival(r) \/ Step(r)
    \/ ExpireCache

Spec == Init /\ [][Next]_vars

------------------------------------------------------------------------------
(***************************************************************************)
(* Properties.                                                             *)
(***************************************************************************)

TypeOK ==
    /\ cardRow \in [Cards -> {"absent", "live", "deleted"}]
    /\ card \in [Cards -> CardImages]
    /\ \A c \in Cards : card[c].available >= 0
    /\ invoice \in [Invoices -> InvoiceImages]
    /\ charged \in [Invoices -> Nat]
    /\ received \in [Invoices -> Nat]
    /\ cachedCard \in [Cards -> SUBSET CardImages]
    /\ cachedInvoice \in [Invoices -> SUBSET InvoiceImages]
    /\ stored \subseteq Keys
    /\ pc \in [Requests -> {"idle", "find", "rollover", "lock", "card", "commit", "store",
                            "evictInvoice", "evictCard", "fill", "done"}]
    /\ call \in [Requests -> [op : Ops, card : Cards \union {NoCard},
                              invoice : Invoices \union {NoInvoice}, month : Nat,
                              amount : Int \union {Keep}, active : BOOLEAN \union {Keep},
                              key : Keys \union {NoKey}]]
    /\ copy \in [Requests -> [card : CardImages, invoice : InvoiceImages,
                              target : Invoices \union {NoInvoice}]]
    /\ faults \in [Faults -> Nat]

\* No card has more credit than its limit, whatever stale copies the handlers
\* write: each UPDATE writes both columns, and a payment is capped.
CreditWithinLimit ==
    \A c \in Cards : card[c].available <= card[c].limit

\* An invoice is paid exactly when there was something to pay and all of it was:
\* Pay and AddTransactionAmount keep the three columns in step.
PaidMeansCovered ==
    \A i \in Invoices :
        /\ invoice[i].paid <= invoice[i].total
        /\ invoice[i].status = "paid" <=> (invoice[i].paid = invoice[i].total /\ invoice[i].total > 0)

\* An invoice never bills more than its transaction rows, nor counts more as
\* paid than its events announced: lost writes only ever make both too small.
InvoiceBacked ==
    \A i \in Invoices :
        /\ invoice[i].total <= charged[i]
        /\ invoice[i].paid <= received[i]

\* The totals of an invoice are the sums of its transactions and payments.
InvoiceExact ==
    \A i \in Invoices :
        /\ invoice[i].total = charged[i]
        /\ invoice[i].paid = received[i]

InvoicesOf(c) == {i \in Invoices : invoice[i].card = c}

Owed == [i \in Invoices |-> invoice[i].total - invoice[i].paid]

Outstanding(c) == SumFunctionOnSet(Owed, InvoicesOf(c))

\* The credit of a live card is its limit less what its invoices still owe:
\* AddTransaction, PayInvoice and UpdateCreditCard keep two tables in balance.
CreditAccounted ==
    \A c \in Cards :
        cardRow[c] = "live" => card[c].limit = card[c].available + Outstanding(c)

Quiet ==
    /\ \A r \in Requests : ~InFlight(r)
    /\ faults["redis"] + faults["abandon"] = 0

\* While no request is in flight and no eviction was lost, GetInvoice answers
\* from the cache only what the table says.
InvoiceCacheCoherent ==
    Quiet => \A i \in Invoices : cachedInvoice[i] \subseteq {invoice[i]}
==============================================================================
