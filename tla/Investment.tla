------------------------------ MODULE Investment ------------------------------
(***************************************************************************)
(* investment-svc: positions, the trades that change them, and the two     *)
(* kinds of cache entries over them (a position, the user's portfolio).    *)
(*                                                                         *)
(* RecordTransaction reads the position inside its transaction but through *)
(* the pool, so the read takes no part in the transaction; UPDATEs write   *)
(* every column from such a copy.  A position has a quantity, an average   *)
(* price per unit and a total invested, in cents; names, tickers, asset    *)
(* types, brokers, notes and dates are left out.  The positions are those  *)
(* of one user, whose requests these are; DeleteInvestment alone can come  *)
(* from another, because nothing is looked up before it.                   *)
(***************************************************************************)
EXTENDS Handlers, Functions

CONSTANTS
    Investments, NoInvestment,  \* the identifiers of positions, and none
    Held,                       \* active positions at the start: quantity and price
    Openings,                   \* what CreateInvestment is called with
    Edits,                      \* what UpdateInvestment is called with
    Orders,                     \* what RecordTransaction is called with
    Keep                        \* a field that UpdateInvestment is called without

Statuses == {"active", "sold", "cancelled"}

Trades == {"buy", "sell", "dividend", "jcp", "amortization"}

ASSUME InvestmentAssumption ==
    /\ NoInvestment \notin Investments /\ IsFiniteSet(Investments)
    /\ DOMAIN Held \subseteq Investments
    /\ \A i \in DOMAIN Held : Held[i].quantity \in Nat \ {0} /\ Held[i].price \in Nat
    /\ Keep \notin Int
    /\ Openings \subseteq [quantity : Int, price : Int, status : Statuses]
    /\ Edits \subseteq [quantity : Int \union {Keep}, price : Int \union {Keep},
                        status : Statuses \union {Keep}]
    /\ Orders \subseteq [type : Trades, quantity : Int, price : Int]

\* The columns of a position: a row, a copy in memory or a cached response.
Images == [quantity : Nat, average : Nat, total : Nat, status : Statuses \union {"none"}]

NoImage == [quantity |-> 0, average |-> 0, total |-> 0, status |-> "none"]

\* The portfolio entry of the cache: absent, or the total it reports.
NoPortfolio == -1

VARIABLES
    row,        \* investments: "absent", "live" or "deleted" (deleted_at set)
    position,   \* the image stored in the row
    traded,     \* the units bought less the units sold, over investment_transactions
    event,      \* the type of the last outbox event of each position
    cached,     \* the Redis entry of each position, or NoImage
    portfolio,  \* the Redis entry of the portfolio summary, or NoPortfolio
    declared,   \* history: the units that creation and updates put in
    edited,     \* history: UpdateInvestment set a quantity or a price
    behind,     \* history: the position was traded since its entry was read
    reshaped    \* history: positions came, changed or went since the portfolio was read

dbVars == <<row, position, traded, event, declared, edited>>
cacheVars == <<cached, portfolio, behind, reshaped>>
vars == <<row, position, traded, event, cached, portfolio, declared, edited,
          behind, reshaped, frameVars>>

------------------------------------------------------------------------------
(***************************************************************************)
(* The domain.                                                             *)
(***************************************************************************)

\* NewInvestment and NewTransaction refuse the rest.
IsValidTrade(q, p) == q > 0 /\ p >= 0

NewInvestment(q, p, s) == [quantity |-> q, average |-> p, total |-> q * p, status |-> s]

\* The quotients are of non-negative numbers, where Go's division is \div.
UpdateAveragePrice(x, q, p) ==
    LET cost == x.total + q * p IN
    [quantity |-> x.quantity + q, average |-> cost \div (x.quantity + q), total |-> cost,
     status |-> x.status]

CanSell(x, q) == q <= x.quantity

\* Mutant: the proceeds of a sale leave the total, not the cost of what is sold.
SellForProceeds(x, q, p) ==
    [x EXCEPT !.quantity = @ - q, !.total = IF q * p > @ THEN 0 ELSE @ - q * p,
              !.status = IF x.quantity = q THEN "sold" ELSE @]

Sell(x, q, p) ==
    [quantity |-> x.quantity - q, average |-> x.average,
     total |-> x.total - (x.total * q) \div x.quantity,
     status |-> IF x.quantity = q THEN "sold" ELSE x.status]

Allowed(s) == IF s = "active" THEN {"sold", "cancelled"} ELSE {}

CanUpdate(x, e) ==
    /\ e.quantity # Keep => e.quantity > 0
    /\ e.price # Keep => e.price >= 0
    /\ e.status # Keep => e.status \in Allowed(x.status)

\* total_invested is not recomputed.
ApplyUpdate(x, e) ==
    [quantity |-> IF e.quantity = Keep THEN x.quantity ELSE e.quantity,
     average  |-> IF e.price = Keep THEN x.average ELSE e.price,
     total    |-> x.total,
     status   |-> IF e.status = Keep THEN x.status ELSE e.status]

Init ==
    /\ FrameInit
    /\ row = [i \in Investments |-> IF i \in DOMAIN Held THEN "live" ELSE "absent"]
    /\ position = [i \in Investments |->
                     IF i \in DOMAIN Held
                     THEN NewInvestment(Held[i].quantity, Held[i].price, "active") ELSE NoImage]
    /\ traded = [i \in Investments |-> 0]
    /\ event = [i \in Investments |-> IF i \in DOMAIN Held THEN "created" ELSE "none"]
    /\ cached = [i \in Investments |-> NoImage]
    /\ portfolio = NoPortfolio
    /\ declared = [i \in Investments |-> IF i \in DOMAIN Held THEN Held[i].quantity ELSE 0]
    /\ edited = [i \in Investments |-> FALSE]
    /\ behind = [i \in Investments |-> FALSE]
    /\ reshaped = FALSE

------------------------------------------------------------------------------
(***************************************************************************)
(* A request arrives.                                                      *)
(***************************************************************************)

CreateInvestment(r, o, k, up) ==
    LET c == [op |-> "create", id |-> NoInvestment, key |-> k, opening |-> o] IN
    /\ Arrives(r, c, up, k # NoKey)
    /\ IF Replayed(k, up) \/ ~IsValidTrade(o.quantity, o.price)
       THEN Continue(r, c, "done", NoCopy)
       ELSE Continue(r, c, "commit", NewInvestment(o.quantity, o.price, o.status))
    /\ UNCHANGED <<dbVars, cacheVars>>

UpdateInvestment(r, i, e, k, up) ==
    LET c == [op |-> "update", id |-> i, key |-> k, edit |-> e] IN
    /\ Arrives(r, c, up, k # NoKey)
    /\ Continue(r, c, IF Replayed(k, up) THEN "done" ELSE "find", NoCopy)
    /\ UNCHANGED <<dbVars, cacheVars>>

\* NewTransaction validates before the transaction begins.
RecordTransaction(r, i, o, k, up) ==
    LET c == [op |-> o.type, id |-> i, key |-> k, quantity |-> o.quantity, price |-> o.price] IN
    /\ Arrives(r, c, up, k # NoKey)
    /\ Continue(r, c, IF Replayed(k, up) \/ ~IsValidTrade(o.quantity, o.price)
                      THEN "done" ELSE "find", NoCopy)
    /\ UNCHANGED <<dbVars, cacheVars>>

\* The cache entry, whose name holds no user, goes first and the transaction
\* follows; there is no Idempotency-Key.  mine is false when another user calls.
DeleteInvestment(r, i, mine, up) ==
    LET c == [op |-> "delete", id |-> i, key |-> NoKey, mine |-> mine] IN
    /\ Arrives(r, c, up, TRUE)
    /\ cached' = IF up THEN [cached EXCEPT ![i] = NoImage] ELSE cached
    /\ Continue(r, c, "commit", NoCopy)
    /\ UNCHANGED <<dbVars, portfolio, behind, reshaped>>

\* A hit is returned; a miss goes to the table.
GetInvestment(r, i, up) ==
    LET c == [op |-> "get", id |-> i, key |-> NoKey] IN
    /\ Arrives(r, c, up, TRUE)
    /\ Continue(r, c, IF up /\ cached[i] # NoImage THEN "done" ELSE "find", NoCopy)
    /\ UNCHANGED <<dbVars, cacheVars>>

GetPortfolioSummary(r, up) ==
    LET c == [op |-> "summary", id |-> NoInvestment, key |-> NoKey] IN
    /\ Arrives(r, c, up, TRUE)
    /\ Continue(r, c, IF up /\ portfolio # NoPortfolio THEN "done" ELSE "find", NoCopy)
    /\ UNCHANGED <<dbVars, cacheVars>>

------------------------------------------------------------------------------
(***************************************************************************)
(* The steps of a request.                                                 *)
(***************************************************************************)

\* What the handler makes of the row it read; the domain's refusal is an error.
Accepts(c, x) ==
    CASE c.op = "update" -> CanUpdate(x, c.edit)
      [] c.op = "sell"   -> CanSell(x, c.quantity)
      [] OTHER           -> TRUE

Changed(c, x) ==
    CASE c.op = "update" -> ApplyUpdate(x, c.edit)
      [] c.op = "buy"    -> UpdateAveragePrice(x, c.quantity, c.price)
      [] c.op = "sell"   -> Sell(x, c.quantity, c.price)
      [] OTHER           -> x

\* FindByID through the pool, and the domain method on the copy.  What a reader
\* will put in the cache is marked up to date.
FindInvestment(r) ==
    LET c == call[r] IN
    /\ Reads(r, "find")
    /\ c.id \in Investments
    /\ row[c.id] = "live"
    /\ Accepts(c, position[c.id])
    /\ Goto(r, IF c.op = "get" THEN "fill" ELSE "commit", Changed(c, position[c.id]))
    /\ behind' = IF c.op = "get" THEN [behind EXCEPT ![c.id] = FALSE] ELSE behind
    /\ UNCHANGED <<dbVars, cached, portfolio, reshaped>>

\* ErrNotFound, or an error of the domain: WithTx rolls back, nothing happened.
Refused(r) ==
    LET c == call[r] IN
    /\ Reads(r, "find")
    /\ c.id \in Investments
    /\ row[c.id] = "live" => ~Accepts(c, position[c.id])
    /\ Return(r)
    /\ UNCHANGED <<dbVars, cacheVars>>

\* FindActiveByUser and CalculatePortfolioSummary: every active position counts
\* with what was invested in it, for want of market prices.
Active == {i \in Investments : row[i] = "live" /\ position[i].status = "active"}

CalculatePortfolioSummary ==
    SumFunctionOnSet([i \in Investments |-> position[i].total], Active)

FindPortfolio(r) ==
    /\ Reads(r, "find")
    /\ call[r].op = "summary"
    /\ Goto(r, "fill", [total |-> CalculatePortfolioSummary])
    /\ reshaped' = FALSE
    /\ UNCHANGED <<dbVars, cached, portfolio, behind>>

AfterStore(c) == IF c.op = "create" THEN "done" ELSE "evict"

AfterCommit(c) ==
    IF c.key # NoKey THEN "store"
    ELSE IF c.op \in {"create", "delete"} THEN "done" ELSE "evict"

\* The identifier is drawn by the server.
CommitCreate(r, i) ==
    /\ call[r].op = "create"
    /\ Commits(r)
    /\ row[i] = "absent"
    /\ row' = [row EXCEPT ![i] = "live"]
    /\ position' = [position EXCEPT ![i] = copy[r]]
    /\ declared' = [declared EXCEPT ![i] = copy[r].quantity]
    /\ event' = [event EXCEPT ![i] = "created"]
    /\ Goto(r, AfterCommit(call[r]), NoCopy)
    /\ reshaped' = TRUE
    /\ UNCHANGED <<traded, edited, cached, portfolio, behind>>

\* UPDATE ... WHERE deleted_at IS NULL: of a deleted position it changes no row
\* and reports no error, and the rest of the transaction commits all the same.
WriteBack(i, x) ==
    position' = IF row[i] = "live" THEN [position EXCEPT ![i] = x] ELSE position

CommitUpdate(r) ==
    LET c == call[r] IN
    /\ c.op = "update"
    /\ Commits(r)
    /\ WriteBack(c.id, copy[r])
    /\ declared' = IF c.edit.quantity = Keep \/ row[c.id] # "live" THEN declared
                   ELSE [declared EXCEPT ![c.id] = c.edit.quantity - traded[c.id]]
    /\ edited' = [edited EXCEPT ![c.id] = @ \/ c.edit.quantity # Keep \/ c.edit.price # Keep]
    /\ event' = [event EXCEPT ![c.id] = "updated"]
    /\ Goto(r, AfterCommit(c), NoCopy)
    /\ reshaped' = TRUE
    /\ UNCHANGED <<row, traded, cached, portfolio, behind>>

\* UPDATE ... WHERE id AND user_id AND deleted_at IS NULL: nobody looks at how
\* many rows it changed, and the event is written all the same.
CommitDelete(r) ==
    LET i == call[r].id
        matches == call[r].mine /\ row[i] = "live" IN
    /\ call[r].op = "delete"
    /\ Commits(r)
    /\ row' = IF matches THEN [row EXCEPT ![i] = "deleted"] ELSE row
    /\ event' = [event EXCEPT ![i] = "deleted"]
    /\ Goto(r, AfterCommit(call[r]), NoCopy)
    /\ reshaped' = IF matches THEN TRUE ELSE reshaped
    /\ UNCHANGED <<position, traded, declared, edited, cached, portfolio, behind>>

\* Mutant: the column has no CHECK.
ViolatesNothing(i, x) == FALSE

\* CHECK (quantity > 0): the UPDATE that would empty a live position fails.
Violates(i, x) == row[i] = "live" /\ x.quantity <= 0

Units(c) ==
    CASE c.op = "buy"  -> c.quantity
      [] c.op = "sell" -> 0 - c.quantity
      [] OTHER         -> 0

\* Mutant: the trade is recorded and the position is not written back.
CommitTradeOnly(r) ==
    LET c == call[r] IN
    /\ c.op \in Trades
    /\ Commits(r)
    /\ ~Violates(c.id, copy[r])
    /\ traded' = [traded EXCEPT ![c.id] = @ + Units(c)]
    /\ event' = [event EXCEPT ![c.id] = "traded"]
    /\ Goto(r, AfterCommit(c), NoCopy)
    /\ behind' = [behind EXCEPT ![c.id] = TRUE]
    /\ UNCHANGED <<row, position, declared, edited, cached, portfolio, reshaped>>

\* The UPDATE (of a buy or a sale), the transaction row and the outbox row.
CommitTrade(r) ==
    LET c == call[r] IN
    /\ c.op \in Trades
    /\ Commits(r)
    /\ ~Violates(c.id, copy[r])
    /\ IF c.op \in {"buy", "sell"} THEN WriteBack(c.id, copy[r]) ELSE UNCHANGED position
    /\ traded' = [traded EXCEPT ![c.id] = @ + Units(c)]
    /\ event' = [event EXCEPT ![c.id] = "traded"]
    /\ Goto(r, AfterCommit(c), NoCopy)
    /\ behind' = [behind EXCEPT ![c.id] = TRUE]
    /\ UNCHANGED <<row, declared, edited, cached, portfolio, reshaped>>

CheckFails(r) ==
    /\ call[r].op \in Trades
    /\ Reads(r, "commit")
    /\ Violates(call[r].id, copy[r])
    /\ Return(r)
    /\ UNCHANGED <<dbVars, cacheVars>>

\* Mutant: RecordTransaction evicts the position and not the portfolio.
EvictPositionOnly(r) ==
    /\ Reads(r, "evict")
    /\ cached' = [cached EXCEPT ![call[r].id] = NoImage]
    /\ Return(r)
    /\ UNCHANGED <<dbVars, portfolio, behind, reshaped>>

\* UpdateInvestment evicts the position, RecordTransaction the portfolio.
Evict(r) ==
    /\ Reads(r, "evict")
    /\ cached' = IF call[r].op = "update" THEN [cached EXCEPT ![call[r].id] = NoImage]
                 ELSE cached
    /\ portfolio' = IF call[r].op = "update" THEN portfolio ELSE NoPortfolio
    /\ Return(r)
    /\ UNCHANGED <<dbVars, behind, reshaped>>

FillInvestment(r) ==
    /\ call[r].op = "get"
    /\ Reads(r, "fill")
    /\ cached' = [cached EXCEPT ![call[r].id] = copy[r]]
    /\ Return(r)
    /\ UNCHANGED <<dbVars, portfolio, behind, reshaped>>

FillPortfolio(r) ==
    /\ call[r].op = "summary"
    /\ Reads(r, "fill")
    /\ portfolio' = copy[r].total
    /\ Return(r)
    /\ UNCHANGED <<dbVars, cached, behind, reshaped>>

\* The five minutes of an entry.
Expire ==
    /\ \/ /\ \E i \in Investments : cached[i] # NoImage /\ cached' = [cached EXCEPT ![i] = NoImage]
          /\ UNCHANGED portfolio
       \/ /\ portfolio # NoPortfolio /\ portfolio' = NoPortfolio
          /\ UNCHANGED cached
    /\ UNCHANGED <<dbVars, behind, reshaped, frameVars>>

------------------------------------------------------------------------------

Arrival(r) ==
    \E up \in BOOLEAN, k \in Keys \union {NoKey} :
        \/ \E o \in Openings : CreateInvestment(r, o, k, up)
        \/ \E i \in Investments, e \in Edits : UpdateInvestment(r, i, e, k, up)
        \/ \E i \in Investments, o \in Orders : RecordTransaction(r, i, o, k, up)
        \/ \E i \in Investments, mine \in BOOLEAN : DeleteInvestment(r, i, mine, up)
        \/ \E i \in Investments : GetInvestment(r, i, up)
        \/ GetPortfolioSummary(r, up)

Step(r) ==
    \/ FindInvestment(r)
    \/ FindPortfolio(r)
    \/ Refused(r)
    \/ \E i \in Investments : CommitCreate(r, i)
    \/ CommitUpdate(r)
    \/ CommitDelete(r)
    \/ CommitTrade(r)
    \/ CheckFails(r)
    \/ Evict(r)
    \/ FillInvestment(r)
    \/ FillPortfolio(r)
    \/ /\ UNCHANGED <<dbVars, cacheVars>>
       /\ \/ StoreKey(r, AfterStore(call[r]))
          \/ StoreFails(r, AfterStore(call[r]))
          \/ CacheFails(r)
          \/ DatabaseFails(r)
          \/ Abandon(r)

Next == Expire \/ \E r \in Requests : Arrival(r) \/ Step(r)

Spec == Init /\ [][Next]_vars

------------------------------------------------------------------------------
(***************************************************************************)
(* Properties.                                                             *)
(***************************************************************************)

TypeOK ==
    /\ FrameTypeOK
    /\ row \in [Investments -> {"absent", "live", "deleted"}]
    /\ position \in [Investments -> Images]
    /\ \A i \in Investments : row[i] = "live" => position[i].quantity > 0
    /\ traded \in [Investments -> Int]
    /\ event \in [Investments -> {"none", "created", "updated", "deleted", "traded"}]
    /\ cached \in [Investments -> Images]
    /\ portfolio \in Nat \union {NoPortfolio}
    /\ declared \in [Investments -> Int]
    /\ edited \in [Investments -> BOOLEAN]
    /\ behind \in [Investments -> BOOLEAN]
    /\ reshaped \in BOOLEAN

\* Whatever buys and sales were rounded, and whichever of them overwrote another,
\* the total invested in a position that no update touched is its average price
\* times its quantity or up to one cent a unit more (ADR-006 calls the identity
\* fundamental; UpdateAveragePrice and Sell round in integers).
CostBasis ==
    \A i \in Investments :
        LET x == position[i] IN
        ~edited[i] => /\ x.average * x.quantity <= x.total
                      /\ x.total <= (x.average + 1) * x.quantity

\* Calls that do not overlap: the units of a position are those it was declared
\* with, plus those bought, less those sold according to investment_transactions,
\* also after a transaction that was rolled back.
UnitsMatchTrades ==
    Serial => \A i \in Investments :
        row[i] = "live" => position[i].quantity = declared[i] + traded[i]

\* Calls that do not overlap, no eviction lost: a cached position differs from
\* its row only by trades made since it was read, and the cached portfolio from
\* the sum only by positions created, updated or deleted since.  Those two kinds
\* of staleness are in the code, which evicts one entry after a trade and the other
\* after an update; ADR-006 and the security notes say that any write invalidates
\* the portfolio summary.
StaleOnlyByTheOther ==
    (Serial /\ Quiescent /\ NothingLost) =>
        /\ \A i \in Investments :
              (cached[i] # NoImage /\ ~behind[i]) => row[i] = "live" /\ cached[i] = position[i]
        /\ (portfolio # NoPortfolio /\ ~reshaped) => portfolio = CalculatePortfolioSummary
==============================================================================
