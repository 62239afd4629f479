# Aureum: TLA+ models and proofs

Aureum is a personal-finance platform: Go services behind a GraphQL gateway, each
with its own PostgreSQL database, a shared Redis, and Kafka for domain events. This
directory models the parts where the money and the messages are, checks them with TLC
on small instances and proves the main results with TLAPS for every value of the
constants.

## 1. The system

| Part | State it keeps | Operations | Talks to |
|---|---|---|---|
| `pkg/outbox` | table `outbox_events`; a polling goroutine per replica | `Save` in a writer's transaction; `Pending`, `Publish`, `MarkPublished`; `Start`, `Stop` | PostgreSQL, Kafka |
| `pkg/kafka` | consumer offsets | `Publish` (synchronous, hashed by aggregate), `Consume` | brokers |
| `pkg/idempotency` | Redis keys, 24 h | `Get`, `Store` (SETNX), `Lock`, `Unlock` | every service, the BFF |
| `pkg/cache` | Redis entries, 5 min | `Get`, `Set`, `Delete`, `GetOrSet` | every service |
| `pkg/db` | a pool of 25 connections per replica | `Acquire`, `Begin` | PostgreSQL |
| `debt-svc` | debts, payments | create, get, update, delete, register payment | all of the above |
| `creditcard-svc` | cards, invoices, invoice transactions | create/get/update/delete card, create/get/pay invoice, add transaction | same |
| `transaction-svc` | incomes, fixed and variable expenses | create/get/update/delete of each, status machine | same |
| `investment-svc` | positions, buys and sells | create/get/update/delete, record transaction, portfolio | same |
| `budget-svc` | budgets and categories | create/get/update/delete | same |
| `identity-svc` | users, roles, one-time codes, MFA | signup, verify, login, profile, MFA, password reset | Keycloak, Redis, PostgreSQL |
| `report-svc` | monthly and category summaries, snapshots | consume events, project them | Kafka, PostgreSQL |
| `graphql-bff` | the query cache, a breaker per service | resolvers, `AuthDirective` | gRPC services, Redis |

Every writing service runs two or three replicas, and all of its handlers have one
shape: look the Idempotency-Key up in Redis; read rows through the pool; change the
copy in memory; in one transaction write every column back and insert the outbox row;
then store the response under the key and delete cache entries, ignoring Redis errors.

What is hard to test in that shape, and what the properties are for:

* **Reads outside the transaction.** `FindByID` uses the pool even when its context
  carries a transaction, and takes no lock: two requests start from one copy.
* **Redis after the commit.** A crash, an error or an overlapping request between the
  commit and `Store` or `Delete` leaves a key unstored or a cache entry stale.
* **Several publishers on one table**, without claims: duplicates and order.
* **Crashes** between `Publish` and `MarkPublished`, and inside a transaction.
* **A connection held while another is asked for**: all of a pool's connections may be
  held by requests that wait for one more.
* **Offsets marked before the handler runs** and sent once a second: an event may be
  lost or repeated, and a goroutine that ends keeps its partition.
* **State in three places that no transaction joins**: an account is at Keycloak, in
  `users` and, as a one-time code, in Redis.
* **A breaker that opens on any error** in front of every service, and a query cache
  that no mutation evicts.

`PROJECT.json` lists each of these at its line under `hazards`.

## 2. The modules

| Module | Models | State ↔ code |
|---|---|---|
| `EventDelivery` | the promise of the outbox: a committed event is delivered at least once, unless an unacknowledged write forfeits it, and deliveries are of committed events | abstract |
| `OutboxRelay` | `pkg/outbox`, `pkg/kafka/producer.go` | `row` = a row of `outbox_events` and its transaction; `topic` = the topic; `wire` = messages for which `WriteMessages` returned and which no broker has yet; `batch`, `marking` = the loop of `publishPending`; `tick` = the ticker channel; `proc` = the process |
| `OutboxRelayProofs` | theorems about it | |
| `Debt` | `debt-svc`, with the Redis records | `row`, `debt`, `paid`, `event` = tables; `cached`, `stored` = Redis; `pc`, `call`, `copy` = a request and what it holds in memory |
| `DebtProofs` | theorems about it | |
| `CreditCard` | `creditcard-svc`, likewise | `cardRow`, `card`, `invoice`, `charged`, `received` = tables and events; the rest as in `Debt` |
| `Handlers` | what the handlers of the four modules below share | `pc`, `call`, `copy` = a request; `stored` = keys in Redis; `overlap` = how many requests may be in flight in this behaviour |
| `Records` | `transaction-svc` and `budget-svc` | `kind` = income, fixed expense, variable expense or budget; `row`, `record`, `event` = tables; `cached` = Redis |
| `Investment` | `investment-svc` | `row`, `position`, `traded`, `event` = tables; `cached`, `portfolio` = Redis |
| `Identity` | `identity-svc`: signup, verification, login, profile, reset mails | `keycloak`, `pending` = the account at Keycloak and its required action; `user` = `users`; `otp`, `profile`, `attempts` = Redis; `spoiled` = history: addresses whose code lapsed or whose call was cut short midway |
| `ConnectionPool` | `pkg/db`, with the handlers of `creditcard-svc` that take two connections | `held`, `queue` = the pool; `lock` = the row lock of the invoice; `pc` = the position in a handler's sequence of takes and gives |
| `ReportConsumer` | `pkg/kafka/consumer.go` and `report-svc` | `log`, `committed`, `owner` = the partition and its group; `holds` = members that take the partition for their own; `position`, `marked`, `late`, `proc`, `at` = a replica's reader, its marks and its goroutine; `seeded` = whether the summary rows exist |
| `Gateway` | `graphql-bff`, `pkg/circuitbreaker`, `GetOrSet` | `breaker` per service; `entry` = a query's Redis entry; `version` = the record at its service |
| `CreditCardProofs`, `ReportConsumerProofs` | theorems about `CreditCard` and `ReportConsumer` | |
| `HandlersProofs` | lemmas about the frame that the next three rest on | |
| `RecordsProofs`, `InvestmentProofs`, `IdentityProofs` | theorems about the modules over `Handlers` | |
| `MC*` | instances for TLC: fault budgets, start states, inputs, symmetry | |

`Records`, `Investment` and `Identity` extend `Handlers`. `Debt` and `CreditCard` have
the same frame written out, with `Serial` a constant, because their proofs assume it;
in `Handlers` the number of requests in flight is chosen once per behaviour, so that one
run covers serial and overlapping callers. `ConnectionPool` abstracts from what the
statements of a handler do and `CreditCard` from the connections they use: together they
are the handlers of `creditcard-svc`. `OutboxRelay` ends where `ReportConsumer` begins,
at the log of a partition.

Definitions whose comment begins with *Mutant* are variants with a plausible bug. No
specification uses them; they are there to show that each property notices such a bug.

**Granularity.** In the service modules an action is one call to PostgreSQL or Redis,
together with the computation in memory that follows it. A transaction is one step
when it makes all of its writes after its last read: its rows become visible together,
and the row locks it takes between its first write and its commit only delay other
writers. The exception is `PayInvoice`, which updates the invoice *before* it reads the
card; it has three steps, and `Locked` keeps every other writer of the invoice out from
the first to the last. In `OutboxRelay` a writer's transaction has two steps, because
the relay can observe that the event exists and is not committed.

**Failures.** `db` rolls the transaction or query back; `redis` loses one Redis call;
`abandon` is a replica dying or a caller's context ending between any two steps.
In the relay: `pending`, `publish`, `ack` (the broker took the message, the answer was
lost), `unacked` (nil was returned and the broker has not taken the message; it takes it
later, or never), `mark`, `crash`, `stop`. Each kind happens at most `MaxFaults[kind]` times.
In the modules over `Handlers` there are also `late`, a query that fails after the commit,
and `remote`, an error of Keycloak, and `MaxFaults` bounds all kinds together. In
`ReportConsumer` replicas crash, shut down and rebalance, a member is evicted and reads on
until it learns of it, a mark gets lost or is sent late, and statements fail; in
`Gateway` calls fail with or without effect, and Redis fails.

**Abstractions.** Names, dates, brands, categories and types are left out, and so is what
report-svc's projectors compute: only whether they read, write or fail. An error of
Keycloak has no effect there: an answer lost after the effect is not modelled. Months are consecutive numbers up to `LastMonth`, which stands
for 2100-12, the last one `isValidMonth` takes. `TransitionStatus` of an invoice and the
deletion of invoices are called by no handler, so "closed" and "overdue" do not occur.
Lists are reads without a cache and change nothing.

**Assumptions**, each visible in a guard or a constant:

* Identifiers drawn by `uuid.New` are fresh.
* A client uses an Idempotency-Key for one command only (`IsRetryOrNew`), and a
  behaviour is shorter than the 24 hours a key is kept.
* `created_at` is taken from one clock: skew between replicas is not modelled.
* `RowLocks = TRUE`: the writers of one aggregate are serialised by its row lock, because
  handlers update the aggregate's row before they insert the event. An UPDATE that
  matches no row locks nothing, which is what `RowLocks = FALSE` allows; only the order
  of events depends on it.
* One user owns the rows. Another user's read, update or payment finds no row. Another
  user's delete is modelled (`mine`): no row matches, no handler asks how many did, and the
  Deleted event is written. `creditcard-svc` does the same (`credit_card_repo.go:97`), but
  of its events the model keeps only the payments, and the eviction is under the caller's
  own key, so there it changes nothing that is modelled.
* `budget-svc` has an `outbox_events` table. Its migrations create none, and its database
  is its own, so that as deployed every one of its mutations fails and rolls back.
* Keycloak and Kafka behave as the code that calls them expects: an address is registered
  once; a required action stays until somebody other than `identity-svc` clears it
  (`ClearAction`); a member that takes part in a rebalance, or leaves in order, sends its
  mark first. One that is evicted does not, and nothing says its late mark is refused.

## 3. What the runs check

### Outbox relay

| Run | Instance | Result |
|---|---|---|
| `outbox_delivery` | 2 replicas, 2 events, a refused message, an unacknowledged one, a lost answer, a crash, a stop | marked rows that are not in the topic ≤ unacknowledged writes; the topic shows committed events only; copies of an event ≤ replicas + lost answers + failed marks + crashes; implements `EventDelivery`, liveness included |
| `outbox_order` | 2 replicas, 3 events, failed polls and marks, a crash, a stop, no refused or unacknowledged message | events of an aggregate appear in `created_at` order |

Two replicas are enough for every race on one row, two events for a batch with a head
and a tail, three for a gap between events that different replicas hold.

*Fairness* (`OutboxRelay!Fairness`): the ticker fires again, a runnable goroutine runs,
a replica that went down is restarted (Kubernetes restarts it), and faults are finite.
Nothing is asked of writers. It is weak fairness per replica; with `Crash` bounded this
is what the ticker and the scheduler give.

### debt-svc and creditcard-svc

| Run | Instance | Result |
|---|---|---|
| `debt_concurrent` | 4 overlapping requests, one may die | a zero balance means paid off, whatever stale copies are written; a balance never falls by more than was paid; the last status an event told is that of the row |
| `debt_serial` | 4 requests one at a time; a database, a Redis and a crash fault | balance + payments = opening amount, and = `total_amount` unless an update was given another total; one commit per key and fault; cache agrees with the table; nothing after `DebtDeleted`; paid off is final |
| `credit_concurrent` | a card and an invoice, 3 overlapping requests, a database error, and one may die | credit stays within 0..limit; an invoice is paid exactly when covered; totals never exceed transactions, nor payments their events |
| `credit_serial` | a card with invoices of two months out of three, a third invoice to create, 4 requests one at a time, a Redis error | limit = available + owed; invoice totals are exact, rollover to an existing and to a new invoice and two invoices of a month included; the invoice cache agrees with the table |

### transaction-svc, budget-svc, investment-svc, identity-svc

| Run | Instance | Result |
|---|---|---|
| `records` | a record of each of four kinds and a new one, 3 requests, serial or two overlapping, one fault | stored values are valid; the last status told of a live record is its row's, whatever overlaps; serially the cache agrees with the table and a key commits once per lost step |
| `investment` | a position and a new one, 3 requests, serial or two overlapping, one fault | total = average × quantity within a cent a unit, however trades round and overwrite each other; serially units = declared + bought − sold; a cached position is stale only by trades, the cached portfolio only by other changes |
| `identity` | 1 address, 5 requests, serial or two overlapping, two faults | an address is stranded between Keycloak, `users` and Redis exactly when its code lapsed or met a wrong guess, or its Signup or VerifyEmail was cut short midway; serially reset mails are bounded; a verification is never taken back by a stale write or a stale profile |

### Pool, consumer, gateway

| Run | Instance | Result |
|---|---|---|
| `connection_pool` | 3 handlers, 3 connections, 1 row lock that two open transactions contend for | every call ends while fewer transactions are open than there are connections; beyond that, only deadlines of the callers rescue the pool |
| `report` | 2 replicas, 1 partition, 2 messages of any shape, a crash or shutdown, a move, two lapses (an eviction, a lost mark, a late mark), a database error | a message behind the committed offset was handled, refused, cut off by a crash, jumped over by a fresh group, or is in a handler; repetitions ≤ crashes + lapses; every message is settled unless its partition stays with an ended goroutine |
| `gateway` | 2 requests without end, 2 mutations, 3 errors | breakers close again and stay closed once errors stop; queries stop returning an old version once mutations stop |

*Fairness.* `ConnectionPool`: a statement that runs ends, the pool serves its queue first
come, first served, PostgreSQL grants a lock that is free again and again to each of those
who wait (strong fairness: it queues them too), and a deadline, where there is one,
expires; there is none in the handlers, so `EveryCallEnds` does not rely on it.
`ReportConsumer`: a replica that is down is restarted, a partition without owner is
assigned, and a goroutine that can run does; crashes, moves, lapses and errors
are finite, and nothing is asked of the marks. `Gateway`: a call ends (the router cancels it after 30 seconds), time passes,
and there is always a query with a valid token, without which nothing probes a breaker.

### Where the code and the documents disagree

The passing properties are stated for what the code does. Where a document promises
more, the same models show the difference:

| Document | Code | How to see it |
|---|---|---|
| `docs/architecture.md:184`: "At-least-once (idempotent consumers required)"; `docs/runbooks/transactions-service.md:316`: "at-least-once delivery"; likewise ADR-001:65, ADR-002:87, ADR-003:81 | the writer sets no `RequiredAcks` (`producer.go:27`), which in kafka-go is RequireNone: nil is returned before the broker has the message, and the row is marked | `LossBounded` and `EventDelivery` with zero unacknowledged writes |
| `docs/architecture.md:185`: ordering per aggregate | `publishPending` continues after a refused message (`publisher.go:68`) | `OrderedPerAggregate` with a `"publish"` fault |
| `docs/adr/005-debt-service.md:94`: payment and balance are atomic | `FindByID` reads through the pool, without a lock: of two overlapping payments one reduction is lost | `LedgerBalanced` with `Serial = FALSE` |
| `docs/security/debt-service-security.md:320`: an inconsistency is when "`remaining_amount` doesn't match `total_amount - SUM(payments)`" | `ApplyUpdate` sets `total_amount` and leaves `remaining_amount` (`debt.go:167`), with one request after another | `LedgerBalanced` without `Retotalled` |
| `specs/005-debt-service/data-model.md:241`: `debt.deleted` means "Debt soft-deleted"; `docs/testing/test-plan.md:344`: "`deleteFixedExpense` on non-existent ID", "Error returned" | the delete filters on `user_id` and nobody reads the rows affected: the event is written, and the call succeeds, for a record of another user | `CommitDelete` with `~mine` in `Debt`, `Records`, `Investment` |
| `docs/adr/005-debt-service.md:98`: keys prevent duplicate payments | the key is looked up before and stored after the transaction | `AtMostOncePerKey` with `Serial = FALSE` |
| `docs/adr/004-creditcard-service.md:109`: credit is adjusted atomically | `AddTransaction` compares and subtracts in memory: two overlapping charges spend the same credit | `CreditAccounted` with `Serial = FALSE` |
| `docs/testing/test-plan.md:219`: a late charge goes to the next invoice | without one the transaction row is inserted before the invoice it refers to, and the foreign key refuses it | every `commit` of such a charge takes the refusing step |
| `docs/testing/test-plan.md:478` (CC-30): "Consumer crashes mid-process", "Event re-delivered on restart" | the mark may have been sent before the handler ended (`consumer.go:32`) | `LossAccounted` without the handlers that died |
| `docs/architecture.md:80`: exactly-once processing | the consumer keeps no event IDs, marks before it handles | `RedeliveryBounded`, `LossAccounted` count both |
| `report-svc/cmd/server/main.go:115`: "consumes domain events from upstream services to project read models" | the outbox publishes payloads without a type, which `HandleMessage` skips; and a user's first monthly row is never inserted, since `FindByUserAndPeriod` wraps `pgx.ErrNoRows` and not `ErrNoData` | `Shapes` and `Rewrite` in `ReportConsumer` |
| ADR-006:108: "Cache invalidation on any investment or transaction mutation ensures portfolio summary is never stale for long"; `docs/security/investment-service-security.md:156`: "portfolio summary cached but invalidated on any write" | only a trade evicts the portfolio; create, update and delete evict the position, which a trade does not | `StaleOnlyByTheOther` without `reshaped` |
| `docs/testing/test-plan.md:362`: "Mutation for entity", "Cache invalidated"; `:363`: "Query after mutation", "Cache miss → fresh data fetched" | no mutation of the BFF evicts a query's entry | `EventuallyFresh` waits for the expiry |
| `docs/specs/identity-fixes.md:55`: the code is deleted "após verificação bem-sucedida" (after a successful verification) | GETDEL takes it before it is compared (`auth_service.go:326`): a wrong guess or an error of Keycloak strands the address | `spoiled` in `StrandedAccounted` |
| `docs/specs/identity-service.md:25`: a verified user who logs in gets "HTTP 200" | `CreateUser` sets the required action VERIFY_EMAIL (`keycloak_client.go:49`) and `VerifyEmail` writes it back (`:106`); where the realm enables the action (`deploy/keycloak/aureum-realm.json:20`; not in `deploy/k8s/base`) the login is refused | `pending` and `Authenticate` in `Identity` |
| ADR-006:73: selling a whole position makes it SOLD | the table's `CHECK (quantity > 0)` refuses the update | `Investment`, `Violates` |
| ADR-003:79: consumers update `spent_amount` | nothing writes it | |

**Bounds.** A lost update takes one request to set the scene and two to race; the fourth
observes. Amounts 1 and 2 against a limit or total of 2 give partial, exact and
excessive payments; limits 1 and 3 lie below and above it. In `CreditCard` the start
state already holds a card and its invoices (a state `CreateCreditCard` and
`CreateInvoice` lead to), so that all requests can race; in `Records` and `Investment` it
holds one row for the same reason. Requests are symmetric, in runs without liveness.
In `credit_serial` the third month and the third invoice are there for a charge that rolls
over to a month without an invoice and for a second invoice of a month.
One fault in all is enough for a property that counts faults to be off by one; `Identity`
has two, so that a harmless fault can come before or after the one that strands; five
requests there take an address from signup over verification to a login and a
changed, cached profile, and past `ResetLimit` = 2 mails. `TripAfter` = 1 and
`MaxRequests` = 2 keep the streaks of 5 and 3 longer than one. Three handlers on three
connections: two transactions may be open and contend for the row while the third
connection keeps the pool from exhaustion, and three open transactions exhaust it. Two
lapses in `ReportConsumer` are an eviction and the late mark that follows it. Deadlock is not checked in the
service, pool and consumer runs, where every request ends; in the relay a replica always
has a step, and in the gateway a request.

## 4. What is proved

Every invariant and every action property that a run checks is also a theorem. The
theorems hold for any number of replicas, events, requests, rows, keys and faults. They
use the named assumptions of the modules: sentinels are not members of the sets they
stand beside, bounds are naturals, the sets of replicas, requests, addresses, invoices
and positions are finite where something is counted or summed over them, and the rows a behaviour starts with are
rows that the domain accepts. Theorems about the debt and card services that hold only
for callers who wait for each other say `ASSUME Serial`; in the modules over `Handlers`
seriality is part of the property itself.

**`OutboxRelayProofs`**

* `TypeCorrect` and `NeverInvented` rest on `SafetyInv`: besides the types, a row in a
  batch has committed, and so has an event that is being marked, is on the wire or is in
  the topic.
* `NeverLost`: rows marked without being in the topic are no more than the unacknowledged
  writes. The mark comes a step after the write, so `LossInv` counts the events about to
  be marked as well.
* `OrderTheorem` assumes `RowLocks` and that no message is refused or unacknowledged
  (`MaxFaults["publish"] = MaxFaults["unacked"] = 0`). `OrderInv` adds that
  open rows are the latest of their aggregate (`RowsInv`), and that whatever precedes an
  event of a batch and was committed is in the topic or in the same batch ahead of it
  (`BatchInv`).
* `RefinesDelivery`: every step is a commit, a delivery, an acknowledgement, a forfeit or a
  stutter of `EventDelivery`, with `MaxForfeits` the bound on unacknowledged writes: a
  relay without them delivers at least once. That a forfeit is within the bound is `LossInv`.
* `DuplicatesAreBounded`: copies of an event ≤ replicas + losses. The bound is not
  inductive, since it does not say how many replicas are still to send. `CountInv` does:
  until the row is marked, copies ≤ replicas about to mark it + losses; from then on
  nobody reads the row again, and copies + replicas that still hold it ≤ replicas + losses.

**`DebtProofs`**

* `DebtTypeCorrect`, `ZeroIsPaidOff`, `NothingForgiven`, `EventsTellStatus` rest on
  `DebtInv`: a copy that a request will write back satisfies the same relation of
  balance, status, opened total and payments as a row, minus the payment it is about to
  record (`CopyInv`). Payments only grow, so a copy read earlier stays within the bound;
  this is why stale writes lose reductions and never invent them. `EventsTellStatus` is
  about the last status an event told; a `DebtDeleted` carries none, and may be written
  for a live debt when another user asks for the deletion.
* `SerialLedger` assumes `Serial`: at most one request is in flight (`OneInv`), so its
  copy is the row, and the balance is the opening amount less the payments; it is
  `total_amount` less the payments as long as no request asked for another total.
* `KeyCommitsOnce`, `CacheTellsRow`, `DeletionClosesStream` and the action property
  `PaidOffStays` assume `Serial` and rest on `QuietInv`: the copy is what the handler
  makes of the row as it is now (`RowCopyInv`); a key that is neither stored nor about
  to be has committed at most once per lost step (`KeyInv`); an old cache entry belongs
  to a request that has yet to evict it (`CacheInv`).

**`CreditCardProofs`**

* `CreditTypeCorrect`, `CreditStaysWithinLimit`, `PaidIsCovered` and `InvoiceStaysBacked`
  hold for any interleaving. `CreditInv` asks of the copies what it asks of the rows: a
  card's credit lies within its limit, an invoice is paid exactly when covered and is
  behind its transactions and payment events, counting the one the request is about to
  insert. Both only grow, so an overwritten invoice falls further behind them and never
  ahead.
* `InvoiceIsExact` and `InvoiceCacheTellsRow` assume `Serial`: `SerialInv` says that one
  request is in flight, its copy is the row with its own change applied, the rollover to
  the next month included, and an old entry belongs to the request about to evict it.
* `CreditIsAccounted` and `PaymentsAreNeverCapped` assume `Serial` too. `BalanceInv` adds
  to `SerialInv` what links the two tables: what a request is about to give a card
  (`Prepared`) is what it is about to take off an invoice of the same card, a change of
  the limit leaves the credit in use alone, and a card that was never created has no
  invoices. The argument goes round once: the cap in `PayInvoice` would break the balance,
  and it is the balance that keeps the cap from biting, since the card lacks at least
  what the invoice owes and a payment is no more than that.
* The credit owed is a sum over invoices. The section *Sums* shows of the community
  `SumFunctionOnSet`, over any finite set, that it is well defined, that any term can be
  taken out, and that it moves by what one of its terms does. These are inductions; the
  library's induction rules cannot be used, but `WFMin` can: a set of subsets without
  the property would have a minimal member.

**`HandlersProofs`** holds `FrameInv` (a request moves alone; serially it is alone in
flight) and `KeyInv` (as in `Debt`, with the faults of that module), and shows once that
an arrival, a read, a commit, `StoreKey` and every fault preserve them.

**`RecordsProofs`**: `RecordsTypeCorrect`, `RecordEventsTellStatus`,
`RecordKeyCommitsOnce`, `RecordCacheTellsRow`. `CopyInv` says that a copy is an image the
domain accepts and that an update reaches its commit only for a row that exists;
`FreshInv` and `CacheInv` add what holds serially. The deletion needs a clause of its own:
`Delete` evicts *before* its transaction, so the entry must still be gone at the commit.

**`InvestmentProofs`**: `TradesKeepCostBasis` (any interleaving) follows from the
same relation on copies and from lemmas about integer quotients, one each for a purchase
and a sale; `PositionMatchesTrades`, `EntriesStaleByTheOther` and
`InvestmentKeyCommitsOnce` rest on `FreshInv`, `CacheInv` and `KeyInv`. `CacheInv` keeps
two flags apart, one for what trades do to a position's entry and one for what the
other operations do to the portfolio. `InvestmentTypeCorrect` needs besides `SummaryInv`:
what `GetPortfolioSummary` holds before it fills the cache is a natural number, because a
sum of natural numbers is (the start of *Sums* in `CreditCardProofs`, repeated here for
positions).

**`IdentityProofs`**

* `StrandingHasCause`: in a quiet state the addresses that can neither sign up nor be
  verified, and are not confirmed, are exactly the spoiled ones: the code lapsed or met a
  wrong guess, or a Signup or VerifyEmail was cut short midway. `StrandInv` says of every
  state that an address is usable, spoiled, or in the hands of exactly one request, and
  one of these only; it needs `OneSignup`: only one Signup gets past Keycloak with an
  address. Whether a confirmed address can log in also depends on the required action at
  Keycloak, which nothing in `identity-svc` clears, so nothing is claimed of that.
* `ResetMailsAreBounded` rests on `MailInv`: the counter keeps up with the mails, but
  for the one not yet counted, and so does the value a request read.
* `VerifiedStays`, an action property: everyone who writes a row or a cache entry from a
  copy read it verified (`Relies`), so that no overlap takes a verification back.

**`ReportConsumerProofs`**: `NoSilentLoss` and `RedeliveryHasCause`. `PassedInv` says that
whatever lies behind a reader, a mark, a late mark or the committed offset has ended or is
in a handler. Repetitions need a potential: `Load` of an offset is its deliveries so far,
the readers that have it still before them (an evicted one reads on), and one more if the
next owner would be handed it although the present one has passed it. `RunInv` bounds
`Load`, and every crash and every lapse pays for the one by which it may grow.

The inductive invariants were checked by TLC on the instances of the runs before they were
proved.

**Only model-checked** is liveness, which, like `ENABLED`, is outside the prover's reach:
`EveryCallEnds`, `DeadlinesRescue`, `EveryMessageSettles`, `BreakersRecover`,
`EventuallyFresh`, and the liveness half of `ImplementsDelivery`.

## 5. Not modelled, and the plan

* **Amortization**: float64, never wired in by `main`.
* **identity-svc**: ResetPassword, RefreshToken, Logout and the session list forward to
  Keycloak or write one Redis key; roles change one column. MFA cannot be enabled as the
  service is wired: the store returns a `*TOTPData` and `VerifyAndEnableMFA` asserts a
  map, so that every attempt ends in `ErrMFANotInProgress` with the secret used up.
* **report-svc**: amounts and exports. `extractAmount` asserts `int64` on decoded JSON,
  which yields zero for every amount, so there is no arithmetic to check.
* **graphql-bff**: `IdempotentDirective` is registered by no server (`main` discards the
  store), and with it `Lock` and `Unlock`. The addresses in the keys of cached lists
  (`hazards`, `resolver.go:1805`) are not modelled. The resolvers of the other services
  have the shape of the modelled ones.
* **Lists and summaries** read without a cache and change nothing.
* Telemetry, error mapping, protobuf conversions, manifests: no state.

About 38,000 of the 61,000 lines of Go outside tests are generated (gqlgen's
`generated.go` and `models_gen.go`, the `.pb.go` files, twice). `map` names some 6,000
lines, about a quarter of the handwritten ones and a tenth of all: handlers, domain rules,
repositories and packages that change state. Most of what is left converts between
protobuf, domain and SQL, or belongs to the parts listed above.

Left to do: safety lemmas about `ConnectionPool` and `Gateway`, whose runs check liveness
only. The pool's connections are held by requests that are at a statement or between two,
and a breaker lets at most `MaxRequests` probes through while it is half open.
