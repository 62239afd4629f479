--------------------------- MODULE InvestmentProofs ---------------------------
(***************************************************************************)
(* Proofs about Investment, for any number of requests, positions and keys.*)
(*                                                                         *)
(* Whatever overlaps, every copy in memory keeps the cost basis of the row *)
(* it was read from, unless the update that holds it changes quantity or   *)
(* price.  When callers wait for each other the copy is what the domain    *)
(* makes of the row as it is now, and an entry of the cache that is old    *)
(* was made so by the operations that do not evict it.                     *)
(***************************************************************************)
EXTENDS Investment, HandlersProofs

\* The total is average times quantity, within a cent a unit.
Basis(x) ==
    /\ x.average * x.quantity <= x.total
    /\ x.total <= (x.average + 1) * x.quantity

\* The operations that read a position and then commit.
Changes == Trades \union {"update"}

\* The update sets a quantity or a price.
Revalues(c) == c.op = "update" /\ (c.edit.quantity # Keep \/ c.edit.price # Keep)

ColumnsOK ==
    /\ row \in [Investments -> {"absent", "live", "deleted"}]
    /\ position \in [Investments -> Images]
    /\ \A i \in Investments : row[i] = "live" => position[i].quantity > 0
    /\ traded \in [Investments -> Int]
    /\ declared \in [Investments -> Int]
    /\ edited \in [Investments -> BOOLEAN]

EntriesOK ==
    /\ cached \in [Investments -> Images]
    /\ behind \in [Investments -> BOOLEAN]
    /\ reshaped \in BOOLEAN

\* An update or a trade as the handler takes it on.
Formed(c) ==
    /\ c.op = "update" => c.edit \in Edits
    /\ c.op \in Trades => /\ c.quantity \in Int /\ c.price \in Int
                          /\ IsValidTrade(c.quantity, c.price)

\* What a request in flight can be at, by its operation.
Placed(c, at) ==
    /\ c.op \in Changes \union {"create", "delete", "get", "summary"}
    /\ c.op \notin {"create", "summary"} => c.id \in Investments
    /\ c.op = "summary" => c.id = NoInvestment
    /\ Formed(c)
    /\ c.op \in {"delete", "get", "summary"} => c.key = NoKey
    /\ c.op = "create" => at \in {"commit", "store"}
    /\ c.op \in Changes => at \in {"find", "commit", "store", "evict"}
    /\ c.op = "delete" => at = "commit"
    /\ c.op \in {"get", "summary"} => at \in {"find", "fill"}

CallInv == \A r \in Requests : InFlight(r) => Placed(call[r], pc[r])

\* What it holds in memory there.
Holds(r) ==
    LET c == call[r]
        x == copy[r] IN
    /\ (pc[r] = "commit" /\ c.op = "create") => x \in Images /\ x.quantity > 0 /\ Basis(x)
    /\ (pc[r] = "commit" /\ c.op \in Changes)
       => /\ x \in Images /\ row[c.id] # "absent"
          /\ c.op = "update" => x.quantity > 0
          /\ ~edited[c.id] /\ ~Revalues(c) => Basis(x)
    /\ (pc[r] = "fill" /\ c.op = "get") => x \in Images /\ row[c.id] # "absent"

CopyInv == \A r \in Requests : Holds(r)

\* Nothing is known of a position before it is created.
AbsentInv ==
    \A i \in Investments : row[i] = "absent" => traded[i] = 0 /\ cached[i] = NoImage

\* One request at a time: its copy is what it makes of the row as it is now.
FreshInv ==
    Serial =>
        \A r \in Requests :
            LET c == call[r] IN
            /\ (pc[r] = "commit" /\ c.op \in Changes)
               => row[c.id] = "live" /\ copy[r] = Changed(c, position[c.id])
            /\ (pc[r] = "fill" /\ c.op = "get") => row[c.id] = "live" /\ copy[r] = position[c.id]
            /\ (pc[r] = "fill" /\ c.op = "summary") => copy[r].total = CalculatePortfolioSummary

\* The request r has changed a position and has yet to evict its entry, or has
\* traded and has yet to evict the portfolio.
WillEvict(r, i) == pc[r] \in {"store", "evict"} /\ call[r].op = "update" /\ call[r].id = i

WillEvictPortfolio(r) == pc[r] \in {"store", "evict"} /\ call[r].op \in Trades

Current(i) == row[i] = "live" /\ cached[i] = position[i]

CacheInv ==
    (Serial /\ Lost = 0) =>
        /\ \A i \in Investments : (cached[i] # NoImage /\ ~behind[i])
              => Current(i) \/ \E r \in Requests : WillEvict(r, i)
        /\ (portfolio # NoPortfolio /\ ~reshaped)
              => \/ portfolio = CalculatePortfolioSummary
                 \/ \E r \in Requests : WillEvictPortfolio(r)
        /\ \A r \in Requests :
              /\ (pc[r] = "commit" /\ call[r].op = "delete") => cached[call[r].id] = NoImage
              /\ (pc[r] = "find" /\ call[r].op = "get") => cached[call[r].id] = NoImage
              /\ (pc[r] = "find" /\ call[r].op = "summary") => portfolio = NoPortfolio

InvestmentInv ==
    /\ FrameInv /\ ColumnsOK /\ EntriesOK /\ CallInv /\ CopyInv /\ AbsentInv
    /\ CostBasis /\ UnitsMatchTrades /\ FreshInv /\ CacheInv /\ KeyInv

\* The rest of what TypeOK says: the sum that GetPortfolioSummary takes to the
\* cache is a number.
SummaryInv ==
    /\ pc \in [Requests -> {"idle", "find", "commit", "reread", "store", "evict", "fill", "done"}]
    /\ event \in [Investments -> {"none", "created", "updated", "deleted", "traded"}]
    /\ portfolio \in Nat \union {NoPortfolio}
    /\ \A r \in Requests : (pc[r] = "fill" /\ call[r].op = "summary") => copy[r].total \in Nat

------------------------------------------------------------------------------
(***************************************************************************)
(* The domain: integer quotients.                                          *)
(***************************************************************************)

LEMMA Quotient ==
    ASSUME NEW n \in Nat, NEW d \in Nat, d > 0
    PROVE  /\ n \div d \in Nat
           /\ (n \div d) * d <= n
           /\ n < (n \div d) * d + d
  OBVIOUS

LEMMA ProductNat == \A a, b \in Nat : a * b \in Nat
  OBVIOUS

LEMMA CancelLeq ==
    ASSUME NEW a \in Int, NEW b \in Int, NEW d \in Nat, d > 0, a * d <= b * d
    PROVE  a <= b
  OBVIOUS

LEMMA ProductMonotone ==
    ASSUME NEW a \in Int, NEW b \in Int, NEW d \in Nat, a <= b
    PROVE  a * d <= b * d
  OBVIOUS

\* What is left of A after C, when B is what is left after D, and C is D rounded.
LEMMA Remainders ==
    ASSUME NEW A \in Int, NEW B \in Int, NEW C \in Int, NEW D \in Int, NEW d \in Int,
           NEW low \in Int, NEW high \in Int, NEW left \in Int,
           D = A - B, left = A - C, C <= D, D < C + d, low <= B, B <= high
    PROVE  low <= left /\ left < high + d
  OBVIOUS

\* A purchase makes the average of the new total.
LEMMA BuyKeepsBasis ==
    ASSUME NEW x \in Images, NEW q \in Int, NEW p \in Int, IsValidTrade(q, p)
    PROVE  /\ UpdateAveragePrice(x, q, p) \in Images
           /\ UpdateAveragePrice(x, q, p).quantity = x.quantity + q
           /\ Basis(UpdateAveragePrice(x, q, p))
  <1> DEFINE y == UpdateAveragePrice(x, q, p)
             n == x.total + q * p
             d == x.quantity + q
  <1>1. q \in Nat /\ q > 0 /\ p \in Nat /\ x.total \in Nat /\ x.quantity \in Nat
    BY DEF IsValidTrade, Images
  <1>2. n \in Nat /\ d \in Nat /\ d > 0
    BY <1>1, ProductNat
  <1>3. y = [quantity |-> d, average |-> n \div d, total |-> n, status |-> x.status]
    BY DEF UpdateAveragePrice
  <1> HIDE DEF n, d
  <1>4. n \div d \in Nat /\ (n \div d) * d <= n /\ n < (n \div d) * d + d
    BY <1>2, Quotient
  <1> DEFINE a == n \div d
  <1> HIDE DEF a
  <1>5. a \in Nat /\ a * d <= n /\ n < a * d + d /\ a * d \in Int
    BY <1>2, <1>4, ProductNat DEF a
  <1>6. (a + 1) * d = a * d + d
    BY <1>2, <1>5
  <1>7. y = [quantity |-> d, average |-> a, total |-> n, status |-> x.status]
    BY <1>3 DEF a
  <1>8. y \in Images
    BY <1>2, <1>5, <1>7 DEF Images
  <1>9. Basis(y)
    BY <1>2, <1>5, <1>6, <1>7 DEF Basis
  <1>10. QED
    BY <1>7, <1>8, <1>9 DEF d

\* What a sale takes from the total rounds down, so that the rest stays between
\* the bounds.
LEMMA SellKeepsBasis ==
    ASSUME NEW x \in Images, x.quantity > 0, NEW q \in Int, NEW p \in Int,
           IsValidTrade(q, p), CanSell(x, q)
    PROVE  /\ Sell(x, q, p) \in Images
           /\ Sell(x, q, p).quantity = x.quantity - q
           /\ Basis(x) => Basis(Sell(x, q, p))
  <1> DEFINE y == Sell(x, q, p)
             t == x.total
             d == x.quantity
             a == x.average
             w == (t * q) \div d
  <1>1. q \in Nat /\ t \in Nat /\ d \in Nat /\ d > 0 /\ a \in Nat /\ q <= d
    BY DEF IsValidTrade, CanSell, Images
  <1>2. y = [quantity |-> d - q, average |-> a, total |-> t - w,
             status |-> IF d = q THEN "sold" ELSE x.status]
    BY DEF Sell
  <1>3. t * q \in Nat /\ t * d \in Nat /\ t * q <= t * d
    BY <1>1, ProductNat
  <1>4. w \in Nat /\ w * d <= t * q /\ t * q < w * d + d
    BY <1>1, <1>3, Quotient
  <1>T. x.status \in Statuses \union {"none"}
    BY DEF Images
  <1>B. Basis(x) <=> a * d <= t /\ t <= (a + 1) * d
    BY DEF Basis
  <1> HIDE DEF t, d, a, w
  <1>5. w <= t
    <2>1. w * d <= t * d
      BY <1>1, <1>3, <1>4
    <2>2. QED
      BY <1>1, <1>4, <2>1, CancelLeq
  <1>6. y \in Images
    BY <1>1, <1>2, <1>4, <1>5, <1>T DEF Images, Statuses
  <1>7. ASSUME Basis(x) PROVE Basis(y)
    <2> DEFINE m == d - q
    <2>1. m \in Nat /\ d - q = m
      BY <1>1
    <2>2. t * q = t * d - t * m
      BY <1>1
    <2>3. (t - w) * d = t * d - w * d
      BY <1>1, <1>4
    <2>4. t * m \in Nat /\ w * d \in Nat /\ (a * d) * m <= t * m /\ t * m <= ((a + 1) * d) * m
      <3>1. t * m \in Nat /\ w * d \in Nat /\ a * d \in Int /\ (a + 1) * d \in Int
        BY <1>1, <1>4, <2>1, ProductNat
      <3>2. a * d <= t /\ t <= (a + 1) * d
        BY <1>7, <1>B
      <3> HIDE DEF m
      <3>3. QED
        BY <1>1, <2>1, <3>1, <3>2, ProductMonotone
    <2> HIDE DEF m
    <2>5. (a * d) * m = (a * m) * d /\ ((a + 1) * d) * m = ((a + 1) * m) * d
      BY <1>1, <2>1
    <2>6. a * m \in Int /\ (a + 1) * m \in Int
      BY <1>1, <2>1
    <2>R. (a * m) * d <= (t - w) * d /\ (t - w) * d < ((a + 1) * m) * d + d
      <3>1. (a * m) * d <= t * m /\ t * m <= ((a + 1) * m) * d
        BY <2>4, <2>5
      <3>2. /\ t * d \in Int /\ t * m \in Int /\ w * d \in Int /\ t * q \in Int /\ d \in Int
            /\ (a * m) * d \in Int /\ ((a + 1) * m) * d \in Int /\ (t - w) * d \in Int
        BY <1>1, <1>3, <1>4, <2>1, <2>4, <2>6
      <3>3. QED
        BY <1>4, <2>2, <2>3, <3>1, <3>2, Remainders
    <2>7. a * m <= t - w
      BY <1>1, <1>4, <2>6, <2>R, CancelLeq
    <2>8. t - w <= (a + 1) * m
      <3>1. (t - w) * d < ((a + 1) * m) * d + d
        BY <2>R
      <3> DEFINE u == t - w
                 v == (a + 1) * m
      <3>2. u \in Int /\ v \in Int /\ u * d < v * d + d
        BY <1>1, <1>4, <2>6, <3>1
      <3> HIDE DEF u, v
      <3>3. ASSUME v + 1 <= u PROVE FALSE
        <4>1. (v + 1) * d <= u * d
          BY <1>1, <3>2, <3>3, ProductMonotone
        <4>2. (v + 1) * d = v * d + d
          BY <1>1, <3>2
        <4>3. v * d \in Int /\ u * d \in Int
          BY <1>1, <3>2
        <4>4. QED
          BY <1>1, <3>2, <4>1, <4>2, <4>3
      <3>4. u <= v
        BY <3>2, <3>3
      <3>5. QED
        BY <3>4 DEF u, v
    <2>9. QED
      BY <1>2, <2>1, <2>7, <2>8 DEF Basis
  <1>8. QED
    BY <1>2, <1>6, <1>7 DEF d

\* What UpdateInvestment and RecordTransaction make of a live position.
LEMMA ChangeApplied ==
    ASSUME NEW c, c.op \in Changes, Formed(c), NEW x \in Images, x.quantity > 0, Accepts(c, x)
    PROVE  /\ Changed(c, x) \in Images
           /\ c.op = "update" => /\ Changed(c, x).quantity > 0
                                 /\ Changed(c, x).quantity =
                                      IF c.edit.quantity = Keep THEN x.quantity ELSE c.edit.quantity
           /\ c.op # "update" => Changed(c, x).quantity = x.quantity + Units(c)
           /\ c.op \notin {"update", "buy", "sell"} => Changed(c, x) = x
           /\ Basis(x) /\ ~Revalues(c) => Basis(Changed(c, x))
  <1>0. x.quantity \in Nat /\ x.average \in Nat /\ x.total \in Nat
        /\ x.status \in Statuses \union {"none"}
    BY DEF Images
  <1>1. CASE c.op = "buy"
    <2>1. c.quantity \in Int /\ c.price \in Int /\ IsValidTrade(c.quantity, c.price)
      BY <1>1 DEF Formed, Trades
    <2>2. Changed(c, x) = UpdateAveragePrice(x, c.quantity, c.price) /\ Units(c) = c.quantity
      BY <1>1 DEF Changed, Units
    <2>3. QED
      BY <1>1, <2>1, <2>2, BuyKeepsBasis
  <1>2. CASE c.op = "sell"
    <2>1. c.quantity \in Int /\ c.price \in Int /\ IsValidTrade(c.quantity, c.price)
      BY <1>2 DEF Formed, Trades
    <2>2. /\ Changed(c, x) = Sell(x, c.quantity, c.price) /\ Units(c) = 0 - c.quantity
          /\ CanSell(x, c.quantity)
      BY <1>2 DEF Changed, Units, Accepts
    <2>3. /\ Sell(x, c.quantity, c.price) \in Images
          /\ Sell(x, c.quantity, c.price).quantity = x.quantity - c.quantity
          /\ Basis(x) => Basis(Sell(x, c.quantity, c.price))
      BY <2>1, <2>2, SellKeepsBasis
    <2>4. QED
      BY <1>0, <1>2, <2>1, <2>2, <2>3
  <1>3. CASE c.op = "update"
    <2> DEFINE e == c.edit
               q == IF e.quantity = Keep THEN x.quantity ELSE e.quantity
               a == IF e.price = Keep THEN x.average ELSE e.price
               s == IF e.status = Keep THEN x.status ELSE e.status
    <2>1. e \in Edits /\ CanUpdate(x, e)
      BY <1>3 DEF Formed, Accepts
    <2>2. /\ e.quantity = Keep \/ e.quantity \in Int
          /\ e.price = Keep \/ e.price \in Int
          /\ e.status = Keep \/ e.status \in Statuses
      BY <2>1, InvestmentAssumption
    <2>3. Changed(c, x) = [quantity |-> q, average |-> a, total |-> x.total, status |-> s]
      BY <1>3 DEF Changed, ApplyUpdate
    <2>4. q \in Nat /\ q > 0 /\ a \in Nat /\ s \in Statuses \union {"none"}
      BY <1>0, <2>1, <2>2 DEF CanUpdate
    <2>5. ~Revalues(c) => q = x.quantity /\ a = x.average
      BY <1>3 DEF Revalues
    <2> HIDE DEF q, a, s
    <2>6. Changed(c, x) \in Images
      BY <1>0, <2>3, <2>4 DEF Images
    <2>7. Basis(x) /\ ~Revalues(c) => Basis(Changed(c, x))
      BY <2>3, <2>5 DEF Basis
    <2>8. Changed(c, x).quantity = q
      BY <2>3
    <2>9. QED
      BY <1>3, <2>4, <2>6, <2>7, <2>8 DEF q
  <1>4. CASE c.op \in {"dividend", "jcp", "amortization"}
    <2>1. Changed(c, x) = x /\ Units(c) = 0
      BY <1>4 DEF Changed, Units
    <2>2. QED
      BY <1>0, <1>4, <2>1
  <1>5. QED
    BY <1>1, <1>2, <1>3, <1>4 DEF Changes, Trades

LEMMA NewPosition ==
    ASSUME NEW q \in Int, NEW p \in Int, NEW s \in Statuses, IsValidTrade(q, p)
    PROVE  /\ NewInvestment(q, p, s) \in Images
           /\ NewInvestment(q, p, s).quantity > 0
           /\ Basis(NewInvestment(q, p, s))
  <1>1. q \in Nat /\ p \in Nat /\ q > 0
    BY DEF IsValidTrade
  <1>2. q * p \in Nat /\ p * q = q * p /\ (p + 1) * q = q * p + q
    BY <1>1, ProductNat
  <1>3. NewInvestment(q, p, s) = [quantity |-> q, average |-> p, total |-> q * p, status |-> s]
    BY DEF NewInvestment
  <1>4. NewInvestment(q, p, s) \in Images
    BY <1>1, <1>2, <1>3 DEF Images
  <1>5. p * q <= q * p /\ q * p <= (p + 1) * q
    BY <1>1, <1>2
  <1>6. Basis(NewInvestment(q, p, s))
    BY <1>3, <1>5 DEF Basis
  <1>7. QED
    BY <1>1, <1>3, <1>4, <1>6

LEMMA NoImageTyped == NoImage \in Images
  BY DEF NoImage, Images

------------------------------------------------------------------------------
(***************************************************************************)
(* A request arrives.                                                      *)
(***************************************************************************)

\* What the operations have in common as they arrive.
ArrivesWith(r, c, up, asks, s, x) ==
    /\ Arrives(r, c, up, asks) /\ Continue(r, c, s, x)
    /\ UNCHANGED <<dbVars, portfolio, behind, reshaped>>
    /\ c.key \in Keys \union {NoKey} /\ (Replayed(c.key, up) => s = "done")
    /\ \/ s = "done"
       \/ s = "find" /\ c.op \in Changes /\ c.id \in Investments /\ Formed(c)
       \/ /\ s = "find" /\ c.op = "get" /\ c.id \in Investments /\ c.key = NoKey
          /\ up => cached'[c.id] = NoImage
       \/ /\ s = "find" /\ c.op = "summary" /\ c.id = NoInvestment /\ c.key = NoKey
          /\ up => portfolio = NoPortfolio
       \/ s = "commit" /\ c.op = "create" /\ x \in Images /\ x.quantity > 0 /\ Basis(x)
       \/ /\ s = "commit" /\ c.op = "delete" /\ c.id \in Investments /\ c.key = NoKey
          /\ up => cached'[c.id] = NoImage
    /\ \A i \in Investments : cached'[i] \in {cached[i], NoImage}
    /\ cached' \in [Investments -> Images]

LEMMA ArrivalShape ==
    ASSUME FrameInv, EntriesOK, NEW r \in Requests, Arrival(r)
    PROVE  \E up \in BOOLEAN : \E c, asks, s, x : ArrivesWith(r, c, up, asks, s, x)
  <1>0. cached \in [Investments -> Images] /\ NoKey \notin stored
    BY HandlersAssumption DEF EntriesOK, FrameInv
  <1>1. ASSUME NEW o \in Openings, NEW k \in Keys \union {NoKey}, NEW up \in BOOLEAN,
               CreateInvestment(r, o, k, up)
        PROVE  \E c, asks, s, x : ArrivesWith(r, c, up, asks, s, x)
    <2> DEFINE c == [op |-> "create", id |-> NoInvestment, key |-> k, opening |-> o]
               x == NewInvestment(o.quantity, o.price, o.status)
    <2>1. c.op = "create" /\ c.key = k
      OBVIOUS
    <2>2. Arrives(r, c, up, k # NoKey) /\ UNCHANGED <<dbVars, cacheVars>>
      BY <1>1 DEF CreateInvestment
    <2>3. CASE Replayed(k, up) \/ ~IsValidTrade(o.quantity, o.price)
      <3>1. Continue(r, c, "done", NoCopy)
        BY <1>1, <2>3 DEF CreateInvestment
      <3> HIDE DEF c
      <3>2. ArrivesWith(r, c, up, k # NoKey, "done", NoCopy)
        BY <1>0, <2>1, <2>2, <3>1 DEF ArrivesWith, cacheVars
      <3>3. QED
        BY <3>2
    <2>4. CASE ~Replayed(k, up) /\ IsValidTrade(o.quantity, o.price)
      <3>1. Continue(r, c, "commit", x)
        BY <1>1, <2>4 DEF CreateInvestment
      <3>2. o \in [quantity : Int, price : Int, status : Statuses]
        BY InvestmentAssumption
      <3>3. x \in Images /\ x.quantity > 0 /\ Basis(x)
        BY <2>4, <3>2, NewPosition
      <3> HIDE DEF c, x
      <3>4. ArrivesWith(r, c, up, k # NoKey, "commit", x)
        BY <1>0, <2>1, <2>2, <2>4, <3>1, <3>3 DEF ArrivesWith, cacheVars
      <3>5. QED
        BY <3>4
    <2>5. QED
      BY <2>3, <2>4
  <1>2. ASSUME NEW i \in Investments, NEW e \in Edits, NEW k \in Keys \union {NoKey},
               NEW up \in BOOLEAN, UpdateInvestment(r, i, e, k, up)
        PROVE  \E c, asks, s, x : ArrivesWith(r, c, up, asks, s, x)
    <2> DEFINE c == [op |-> "update", id |-> i, key |-> k, edit |-> e]
               s == IF Replayed(k, up) THEN "done" ELSE "find"
    <2>1. c.op = "update" /\ c.key = k /\ c.id = i /\ c.edit = e
      OBVIOUS
    <2>2. /\ Arrives(r, c, up, k # NoKey) /\ UNCHANGED <<dbVars, cacheVars>>
          /\ Continue(r, c, s, NoCopy)
      BY <1>2 DEF UpdateInvestment
    <2> HIDE DEF c
    <2>3. c.op \in Changes /\ Formed(c)
      BY <2>1 DEF Changes, Formed, Trades
    <2>4. ArrivesWith(r, c, up, k # NoKey, s, NoCopy)
      BY <1>0, <2>1, <2>2, <2>3 DEF ArrivesWith, cacheVars
    <2>5. QED
      BY <2>4
  <1>3. ASSUME NEW i \in Investments, NEW o \in Orders, NEW k \in Keys \union {NoKey},
               NEW up \in BOOLEAN, RecordTransaction(r, i, o, k, up)
        PROVE  \E c, asks, s, x : ArrivesWith(r, c, up, asks, s, x)
    <2> DEFINE c == [op |-> o.type, id |-> i, key |-> k, quantity |-> o.quantity, price |-> o.price]
               s == IF Replayed(k, up) \/ ~IsValidTrade(o.quantity, o.price) THEN "done" ELSE "find"
    <2>1. c.op = o.type /\ c.key = k /\ c.id = i /\ c.quantity = o.quantity /\ c.price = o.price
      OBVIOUS
    <2>2. /\ Arrives(r, c, up, k # NoKey) /\ UNCHANGED <<dbVars, cacheVars>>
          /\ Continue(r, c, s, NoCopy)
      BY <1>3 DEF RecordTransaction
    <2> HIDE DEF c
    <2>3. o.type \in Trades /\ o.quantity \in Int /\ o.price \in Int
      BY InvestmentAssumption
    <2>4. c.op \in Changes /\ (IsValidTrade(o.quantity, o.price) => Formed(c))
      BY <2>1, <2>3 DEF Changes, Formed, Trades
    <2>5. ArrivesWith(r, c, up, k # NoKey, s, NoCopy)
      BY <1>0, <2>1, <2>2, <2>4 DEF ArrivesWith, cacheVars
    <2>6. QED
      BY <2>5
  <1>4. ASSUME NEW i \in Investments, NEW m, NEW up \in BOOLEAN, DeleteInvestment(r, i, m, up)
        PROVE  \E c, asks, s, x : ArrivesWith(r, c, up, asks, s, x)
    <2> DEFINE c == [op |-> "delete", id |-> i, key |-> NoKey, mine |-> m]
    <2>1. c.op = "delete" /\ c.key = NoKey /\ c.id = i
      OBVIOUS
    <2>2. /\ Arrives(r, c, up, TRUE) /\ UNCHANGED <<dbVars, portfolio, behind, reshaped>>
          /\ Continue(r, c, "commit", NoCopy)
          /\ cached' = IF up THEN [cached EXCEPT ![i] = NoImage] ELSE cached
      BY <1>4 DEF DeleteInvestment
    <2>3. /\ cached' \in [Investments -> Images] /\ (up => cached'[i] = NoImage)
          /\ \A j \in Investments : cached'[j] \in {cached[j], NoImage}
      BY <1>0, <2>2, NoImageTyped
    <2> HIDE DEF c
    <2>4. ArrivesWith(r, c, up, TRUE, "commit", NoCopy)
      BY <1>0, <2>1, <2>2, <2>3 DEF ArrivesWith, Replayed
    <2>5. QED
      BY <2>4
  <1>5. ASSUME NEW i \in Investments, NEW up \in BOOLEAN, GetInvestment(r, i, up)
        PROVE  \E c, asks, s, x : ArrivesWith(r, c, up, asks, s, x)
    <2> DEFINE c == [op |-> "get", id |-> i, key |-> NoKey]
               s == IF up /\ cached[i] # NoImage THEN "done" ELSE "find"
    <2>1. c.op = "get" /\ c.key = NoKey /\ c.id = i
      OBVIOUS
    <2>2. /\ Arrives(r, c, up, TRUE) /\ UNCHANGED <<dbVars, cacheVars>>
          /\ Continue(r, c, s, NoCopy)
      BY <1>5 DEF GetInvestment
    <2> HIDE DEF c
    <2>3. ArrivesWith(r, c, up, TRUE, s, NoCopy)
      BY <1>0, <2>1, <2>2 DEF ArrivesWith, Replayed, cacheVars
    <2>4. QED
      BY <2>3
  <1>6. ASSUME NEW up \in BOOLEAN, GetPortfolioSummary(r, up)
        PROVE  \E c, asks, s, x : ArrivesWith(r, c, up, asks, s, x)
    <2> DEFINE c == [op |-> "summary", id |-> NoInvestment, key |-> NoKey]
               s == IF up /\ portfolio # NoPortfolio THEN "done" ELSE "find"
    <2>1. c.op = "summary" /\ c.id = NoInvestment /\ c.key = NoKey
      OBVIOUS
    <2>2. /\ Arrives(r, c, up, TRUE) /\ UNCHANGED <<dbVars, cacheVars>>
          /\ Continue(r, c, s, NoCopy)
      BY <1>6 DEF GetPortfolioSummary
    <2> HIDE DEF c
    <2>3. ArrivesWith(r, c, up, TRUE, s, NoCopy)
      BY <1>0, <2>1, <2>2 DEF ArrivesWith, Replayed, cacheVars
    <2>4. QED
      BY <2>3
  <1>7. PICK up \in BOOLEAN, k \in Keys \union {NoKey} :
           \/ \E o \in Openings : CreateInvestment(r, o, k, up)
           \/ \E i \in Investments, e \in Edits : UpdateInvestment(r, i, e, k, up)
           \/ \E i \in Investments, o \in Orders : RecordTransaction(r, i, o, k, up)
           \/ \E i \in Investments, m \in BOOLEAN : DeleteInvestment(r, i, m, up)
           \/ \E i \in Investments : GetInvestment(r, i, up)
           \/ GetPortfolioSummary(r, up)
    BY DEF Arrival
  <1>8. QED
    BY <1>1, <1>2, <1>3, <1>4, <1>5, <1>6, <1>7

\* What depends on the tables alone.
LEMMA TablesKept ==
    ASSUME ColumnsOK, CostBasis, UnitsMatchTrades, UNCHANGED dbVars, overlap' = overlap
    PROVE  /\ ColumnsOK' /\ CostBasis' /\ UnitsMatchTrades'
           /\ CalculatePortfolioSummary' = CalculatePortfolioSummary
           /\ (Serial' <=> Serial)
           /\ UNCHANGED <<row, position, traded, edited, declared>>
  <1>1. UNCHANGED <<row, position, traded, edited, declared>>
    BY DEF dbVars
  <1>2. ColumnsOK' /\ CostBasis' /\ UnitsMatchTrades' /\ (Serial' <=> Serial)
    BY <1>1 DEF ColumnsOK, CostBasis, UnitsMatchTrades, Serial
  <1>3. CalculatePortfolioSummary' = CalculatePortfolioSummary
    BY <1>1 DEF CalculatePortfolioSummary, Active
  <1>4. QED
    BY <1>1, <1>2, <1>3

LEMMA ArrivalStep ==
    ASSUME InvestmentInv, NEW r \in Requests, Arrival(r)
    PROVE  InvestmentInv'
  <1>0. /\ FrameInv /\ ColumnsOK /\ EntriesOK /\ CallInv /\ CopyInv /\ AbsentInv
        /\ CostBasis /\ UnitsMatchTrades /\ FreshInv /\ CacheInv /\ KeyInv
    BY DEF InvestmentInv
  <1>U. PICK up \in BOOLEAN : \E c, asks, s, x : ArrivesWith(r, c, up, asks, s, x)
    BY <1>0, ArrivalShape
  <1>1. PICK c, asks, s, x : ArrivesWith(r, c, up, asks, s, x)
    BY <1>U
  <1>2. /\ Arrives(r, c, up, asks) /\ Continue(r, c, s, x) /\ UNCHANGED dbVars
        /\ c.key \in Keys \union {NoKey} /\ (Replayed(c.key, up) => s = "done")
        /\ s \in {"done", "find", "commit"} /\ UNCHANGED <<portfolio, behind, reshaped>>
        /\ \A i \in Investments : cached'[i] \in {cached[i], NoImage}
        /\ cached' \in [Investments -> Images]
    BY <1>1 DEF ArrivesWith
  <1>3. /\ FrameInv' /\ KeyInv' /\ overlap' = overlap
        /\ up => Lost' = Lost
        /\ ~up => Lost' = Lost + 1
    BY <1>0, <1>2, ArrivesStep DEF Before
  <1>4. /\ pc'[r] = s
        /\ s # "done" => call'[r] = c /\ copy'[r] = x
        /\ \A q \in Requests : q # r => /\ pc'[q] = pc[q]
                                        /\ call'[q] = call[q]
                                        /\ copy'[q] = copy[q]
    BY <1>0, <1>2, ContinueEffect
  <1>5. /\ ColumnsOK' /\ CostBasis' /\ UnitsMatchTrades'
        /\ CalculatePortfolioSummary' = CalculatePortfolioSummary /\ (Serial' <=> Serial)
        /\ UNCHANGED <<row, position, traded, edited>>
    BY <1>0, <1>2, <1>3, TablesKept
  <1>6. EntriesOK' /\ AbsentInv'
    BY <1>0, <1>2, <1>5 DEF EntriesOK, AbsentInv
  <1>7. CallInv'
    <2>1. \A q \in Requests : q # r => (InFlight(q)' <=> InFlight(q))
      BY <1>4 DEF InFlight
    <2>2. s # "done" => Placed(c, s)
      BY <1>1 DEF ArrivesWith, Placed, Formed, Changes, Trades
    <2>3. InFlight(r)' => Placed(call'[r], pc'[r])
      BY <1>4, <2>2 DEF InFlight
    <2>4. QED
      BY <1>0, <1>4, <2>1, <2>3 DEF CallInv
  <1>8. CopyInv'
    <2>1. s = "commit" => /\ c.op \in {"create", "delete"} /\ c.op \notin Changes
                          /\ c.op = "create" => x \in Images /\ x.quantity > 0 /\ Basis(x)
      BY <1>1 DEF ArrivesWith, Changes, Trades
    <2>2. \A q \in Requests : q # r => Holds(q)'
      BY <1>0, <1>4, <1>5 DEF CopyInv, Holds
    <2>3. Holds(r)'
      BY <1>2, <1>4, <2>1 DEF Holds
    <2>4. QED
      BY <2>2, <2>3 DEF CopyInv
  <1>9. FreshInv'
    <2>1. s = "commit" => c.op \notin Changes
      BY <1>1 DEF ArrivesWith, Changes, Trades
    <2>2. \A d, y : Changed(d, y)' = Changed(d, y)
      BY DEF Changed
    <2>3. QED
      BY <1>0, <1>2, <1>4, <1>5, <2>1 DEF FreshInv
  <1>10. CacheInv'
    <2> SUFFICES ASSUME Serial, Lost' = 0
                 PROVE  /\ \A i \in Investments : (cached'[i] # NoImage /\ ~behind'[i]) => Current(i)'
                        /\ (portfolio # NoPortfolio /\ ~reshaped)
                           => portfolio = CalculatePortfolioSummary
                        /\ \A q \in Requests :
                             /\ (pc'[q] = "commit" /\ call'[q].op = "delete")
                                => cached'[call'[q].id] = NoImage
                             /\ (pc'[q] = "find" /\ call'[q].op = "get")
                                => cached'[call'[q].id] = NoImage
                             /\ (pc'[q] = "find" /\ call'[q].op = "summary")
                                => portfolio = NoPortfolio
      BY <1>2, <1>5 DEF CacheInv
    <2>1. \A q \in Requests : ~InFlight(q)
      BY <1>0, <1>2, ArrivesAlone
    <2>2. up /\ Lost = 0
      BY <1>0, <1>3, FaultCounts DEF FrameInv
    <2>3. /\ \A i \in Investments : (cached[i] # NoImage /\ ~behind[i]) => Current(i)
          /\ (portfolio # NoPortfolio /\ ~reshaped) => portfolio = CalculatePortfolioSummary
      BY <1>0, <2>1, <2>2 DEF CacheInv, WillEvict, WillEvictPortfolio, InFlight
    <2>4. \A i \in Investments : (cached'[i] # NoImage /\ ~behind'[i]) => Current(i)'
      BY <1>2, <1>5, <2>3 DEF Current
    <2>5. /\ (s = "commit" /\ c.op = "delete") => cached'[c.id] = NoImage
          /\ (s = "find" /\ c.op = "get") => cached'[c.id] = NoImage
          /\ (s = "find" /\ c.op = "summary") => portfolio = NoPortfolio
      BY <1>1, <2>2 DEF ArrivesWith, Changes, Trades
    <2>6. QED
      BY <1>4, <2>1, <2>3, <2>4, <2>5 DEF InFlight
  <1>11. QED
    BY <1>3, <1>5, <1>6, <1>7, <1>8, <1>9, <1>10 DEF InvestmentInv

------------------------------------------------------------------------------
(***************************************************************************)
(* The steps of a request.                                                 *)
(***************************************************************************)

\* A request reads: what it takes into memory is what it makes of the row.
LEMMA FindStep ==
    ASSUME InvestmentInv, NEW r \in Requests, FindInvestment(r)
    PROVE  InvestmentInv'
  <1>0. /\ FrameInv /\ ColumnsOK /\ EntriesOK /\ CallInv /\ CopyInv /\ AbsentInv
        /\ CostBasis /\ UnitsMatchTrades /\ FreshInv /\ CacheInv /\ KeyInv
    BY DEF InvestmentInv
  <1> DEFINE i == call[r].id
             x == Changed(call[r], position[i])
             s == IF call[r].op = "get" THEN "fill" ELSE "commit"
  <1>1. /\ Reads(r, "find") /\ pc[r] = "find" /\ i \in Investments /\ row[i] = "live"
        /\ Accepts(call[r], position[i]) /\ Goto(r, s, x)
        /\ behind' = (IF call[r].op = "get" THEN [behind EXCEPT ![i] = FALSE] ELSE behind)
        /\ UNCHANGED dbVars /\ UNCHANGED <<cached, portfolio, reshaped>>
    BY DEF FindInvestment, Reads
  <1>2. /\ call[r].op \in Changes \union {"get"} /\ Formed(call[r])
        /\ position[i] \in Images /\ position[i].quantity > 0
    <2>1. call[r].op # "summary"
      BY <1>0, <1>1, InvestmentAssumption DEF CallInv, Placed, InFlight
    <2>2. QED
      BY <1>0, <1>1, <2>1 DEF CallInv, Placed, InFlight, ColumnsOK
  <1>3. /\ call[r].op = "get" => x = position[i] /\ s = "fill"
        /\ call[r].op # "get" => call[r].op \in Changes /\ s = "commit"
        /\ "get" \notin Changes
    BY <1>2 DEF Changed, Changes, Trades
  <1>4. call[r].op # "get" => /\ x \in Images
                              /\ call[r].op = "update" => x.quantity > 0
                              /\ Basis(position[i]) /\ ~Revalues(call[r]) => Basis(x)
    BY <1>1, <1>2, <1>3, ChangeApplied
  <1>5. ~edited[i] => Basis(position[i])
    BY <1>0, <1>1 DEF CostBasis, Basis
  <1>6. x = Changed(call[r], position[i])
    OBVIOUS
  <1> HIDE DEF x, s
  <1>7. FrameInv' /\ KeyInv' /\ Lost' = Lost /\ overlap' = overlap /\ InFlight(r)
    BY <1>0, <1>1, <1>3, ReadStep DEF Before, After
  <1>8. /\ pc'[r] = s /\ call'[r] = call[r] /\ copy'[r] = x
        /\ \A q \in Requests : q # r => /\ pc'[q] = pc[q]
                                        /\ call'[q] = call[q]
                                        /\ copy'[q] = copy[q]
    BY <1>0, <1>1, <1>3, GotoEffect
  <1>9. /\ ColumnsOK' /\ CostBasis' /\ UnitsMatchTrades'
        /\ CalculatePortfolioSummary' = CalculatePortfolioSummary /\ (Serial' <=> Serial)
        /\ UNCHANGED <<row, position, traded, edited>>
    BY <1>0, <1>1, <1>7, TablesKept
  <1>10. EntriesOK' /\ AbsentInv'
    BY <1>0, <1>1, <1>9 DEF EntriesOK, AbsentInv
  <1>11. CallInv'
    <2>1. \A q \in Requests : InFlight(q)' <=> InFlight(q)
      BY <1>1, <1>3, <1>8 DEF InFlight
    <2>2. Placed(call[r], s)
      BY <1>0, <1>1, <1>3, <1>7 DEF CallInv, Placed, Changes, Trades
    <2>3. QED
      BY <1>0, <1>8, <2>1, <2>2 DEF CallInv
  <1>12. CopyInv'
    <2>1. call[r].op # "create"
      BY <1>2 DEF Changes, Trades
    <2>2. \A q \in Requests : q # r => Holds(q)'
      BY <1>0, <1>8, <1>9 DEF CopyInv, Holds
    <2>3. ASSUME call[r].op = "get" PROVE Holds(r)'
      BY <1>1, <1>2, <1>3, <1>8, <1>9, <2>3 DEF Holds
    <2>4. ASSUME call[r].op # "get" PROVE Holds(r)'
      BY <1>1, <1>3, <1>4, <1>5, <1>8, <1>9, <2>1, <2>4 DEF Holds
    <2>5. QED
      BY <2>2, <2>3, <2>4 DEF CopyInv
  <1>13. FreshInv'
    BY <1>0, <1>1, <1>2, <1>3, <1>6, <1>8, <1>9 DEF FreshInv
  <1>14. CacheInv'
    <2> SUFFICES ASSUME Serial, Lost = 0
                 PROVE  /\ \A j \in Investments : (cached[j] # NoImage /\ ~behind'[j])
                              => Current(j)' \/ \E q \in Requests : WillEvict(q, j)'
                        /\ (portfolio # NoPortfolio /\ ~reshaped)
                              => \/ portfolio = CalculatePortfolioSummary
                                 \/ \E q \in Requests : WillEvictPortfolio(q)'
                        /\ \A q \in Requests :
                              /\ pc'[q] = "find" => FALSE
                              /\ (pc'[q] = "commit" /\ call'[q].op = "delete") => FALSE
      BY <1>1, <1>7, <1>9 DEF CacheInv
    <2>1. \A q \in Requests : q # r => ~InFlight(q)
      BY <1>0, <1>7 DEF FrameInv
    <2>2. /\ \A j \in Investments : (cached[j] # NoImage /\ ~behind[j]) => Current(j)
          /\ (portfolio # NoPortfolio /\ ~reshaped) => portfolio = CalculatePortfolioSummary
          /\ call[r].op = "get" => cached[i] = NoImage
      BY <1>0, <1>1, <2>1 DEF CacheInv, WillEvict, WillEvictPortfolio, InFlight
    <2>3. \A j \in Investments : cached[j] # NoImage => behind'[j] = behind[j]
      BY <1>0, <1>1, <2>2 DEF EntriesOK
    <2>4. \A j \in Investments : Current(j)' <=> Current(j)
      BY <1>1, <1>9 DEF Current
    <2>5. \A q \in Requests : pc'[q] # "find" /\ ~(pc'[q] = "commit" /\ call'[q].op = "delete")
      BY <1>2, <1>3, <1>8, <2>1 DEF InFlight, Changes, Trades
    <2>6. QED
      BY <2>2, <2>3, <2>4, <2>5
  <1>15. QED
    BY <1>7, <1>9, <1>10, <1>11, <1>12, <1>13, <1>14 DEF InvestmentInv

LEMMA FindPortfolioStep ==
    ASSUME InvestmentInv, NEW r \in Requests, FindPortfolio(r)
    PROVE  InvestmentInv'
  <1>0. /\ FrameInv /\ ColumnsOK /\ EntriesOK /\ CallInv /\ CopyInv /\ AbsentInv
        /\ CostBasis /\ UnitsMatchTrades /\ FreshInv /\ CacheInv /\ KeyInv
    BY DEF InvestmentInv
  <1> DEFINE x == [total |-> CalculatePortfolioSummary]
  <1>1. /\ Reads(r, "find") /\ pc[r] = "find" /\ call[r].op = "summary" /\ Goto(r, "fill", x)
        /\ reshaped' = FALSE /\ UNCHANGED dbVars /\ UNCHANGED <<cached, portfolio, behind>>
    BY DEF FindPortfolio, Reads
  <1>2. x.total = CalculatePortfolioSummary
    OBVIOUS
  <1> HIDE DEF x
  <1>3. FrameInv' /\ KeyInv' /\ Lost' = Lost /\ overlap' = overlap /\ InFlight(r)
    BY <1>0, <1>1, ReadStep DEF Before, After
  <1>4. /\ pc'[r] = "fill" /\ call'[r] = call[r] /\ copy'[r] = x
        /\ \A q \in Requests : q # r => /\ pc'[q] = pc[q]
                                        /\ call'[q] = call[q]
                                        /\ copy'[q] = copy[q]
    BY <1>0, <1>1, GotoEffect
  <1>5. /\ ColumnsOK' /\ CostBasis' /\ UnitsMatchTrades'
        /\ CalculatePortfolioSummary' = CalculatePortfolioSummary /\ (Serial' <=> Serial)
        /\ UNCHANGED <<row, position, traded, edited>>
    BY <1>0, <1>1, <1>3, TablesKept
  <1>6. EntriesOK' /\ AbsentInv'
    BY <1>0, <1>1, <1>5 DEF EntriesOK, AbsentInv
  <1>7. call[r].op \notin Changes
    BY <1>1 DEF Changes, Trades
  <1>8. CallInv'
    <2>1. \A q \in Requests : InFlight(q)' <=> InFlight(q)
      BY <1>1, <1>4 DEF InFlight
    <2>2. Placed(call[r], "fill")
      BY <1>0, <1>1, <1>3 DEF CallInv, Placed, Changes, Trades
    <2>3. QED
      BY <1>0, <1>4, <2>1, <2>2 DEF CallInv
  <1>9. CopyInv'
    <2>1. \A q \in Requests : q # r => Holds(q)'
      BY <1>0, <1>4, <1>5 DEF CopyInv, Holds
    <2>2. Holds(r)'
      BY <1>1, <1>4 DEF Holds
    <2>3. QED
      BY <2>1, <2>2 DEF CopyInv
  <1>10. FreshInv'
    BY <1>0, <1>1, <1>2, <1>4, <1>5 DEF FreshInv
  <1>11. CacheInv'
    <2> SUFFICES ASSUME Serial, Lost = 0
                 PROVE  /\ \A j \in Investments : (cached[j] # NoImage /\ ~behind[j]) => Current(j)'
                        /\ portfolio = NoPortfolio
                        /\ \A q \in Requests : pc'[q] \notin {"find", "commit"}
      BY <1>1, <1>3, <1>5 DEF CacheInv
    <2>1. \A q \in Requests : q # r => ~InFlight(q)
      BY <1>0, <1>3 DEF FrameInv
    <2>2. /\ \A j \in Investments : (cached[j] # NoImage /\ ~behind[j]) => Current(j)
          /\ portfolio = NoPortfolio
      BY <1>0, <1>1, <2>1 DEF CacheInv, WillEvict, InFlight
    <2>3. \A j \in Investments : Current(j)' <=> Current(j)
      BY <1>1, <1>5 DEF Current
    <2>4. QED
      BY <1>4, <2>1, <2>2, <2>3 DEF InFlight
  <1>12. QED
    BY <1>3, <1>5, <1>6, <1>8, <1>9, <1>10, <1>11 DEF InvestmentInv

\* The quantity that a change writes.
LEMMA ChangedUnits ==
    ASSUME NEW c, c.op \in Changes, Formed(c), NEW x \in Images
    PROVE  /\ c.op = "update" => Changed(c, x).quantity =
                                   IF c.edit.quantity = Keep THEN x.quantity ELSE c.edit.quantity
           /\ c.op # "update" => Changed(c, x).quantity = x.quantity + Units(c) /\ Units(c) \in Int
           /\ c.op \notin {"update", "buy", "sell"} => Units(c) = 0
  <1>1. x.quantity \in Int
    BY DEF Images
  <1>2. ASSUME c.op = "update"
        PROVE  Changed(c, x).quantity = IF c.edit.quantity = Keep THEN x.quantity ELSE c.edit.quantity
    BY <1>2 DEF Changed, ApplyUpdate
  <1>3. ASSUME c.op = "buy"
        PROVE  Changed(c, x).quantity = x.quantity + Units(c) /\ Units(c) \in Int
    BY <1>3 DEF Changed, UpdateAveragePrice, Units, Formed, Trades
  <1>4. ASSUME c.op = "sell"
        PROVE  Changed(c, x).quantity = x.quantity + Units(c) /\ Units(c) \in Int
    <2>1. Changed(c, x).quantity = x.quantity - c.quantity
      BY <1>4 DEF Changed, Sell
    <2>2. Units(c) = 0 - c.quantity /\ c.quantity \in Int
      BY <1>4 DEF Units, Formed, Trades
    <2>3. QED
      BY <1>1, <2>1, <2>2
  <1>5. ASSUME c.op \in {"dividend", "jcp", "amortization"}
        PROVE  Changed(c, x) = x /\ Units(c) = 0
    BY <1>5 DEF Changed, Units
  <1>6. QED
    BY <1>1, <1>2, <1>3, <1>4, <1>5 DEF Changes, Trades

LEMMA AfterCommitIs ==
    ASSUME NEW c, c.op \in Changes \union {"create", "delete"}, c.op = "delete" => c.key = NoKey
    PROVE  /\ c.key # NoKey => AfterCommit(c) \in After
           /\ AfterCommit(c) = "store" => c.key # NoKey
           /\ c.op = "create" => AfterCommit(c) \in {"store", "done"}
           /\ c.op \in Changes => AfterCommit(c) \in {"store", "evict"}
           /\ c.op = "delete" => AfterCommit(c) = "done"
  BY DEF AfterCommit, After, Changes, Trades

\* The commits: one position changes, and what was said of positions still holds.
CommitMove(r, i) ==
    /\ Commits(r) /\ Goto(r, AfterCommit(call[r]), NoCopy) /\ UNCHANGED <<cached, portfolio>>
    /\ i \in Investments /\ call[r].op \in Changes \union {"create", "delete"}
    /\ call[r].op # "create" => i = call[r].id
    /\ call[r].op = "create" => row[i] = "absent"
    /\ \A j \in Investments : /\ row[j] # "absent" => row'[j] # "absent"
                              /\ ~edited'[j] => ~edited[j]
    /\ \A j \in Investments : j # i => /\ row'[j] = row[j]
                                       /\ position'[j] = position[j]
                                       /\ behind'[j] = behind[j]
    /\ ColumnsOK' /\ AbsentInv' /\ CostBasis' /\ UnitsMatchTrades'
    /\ behind' \in [Investments -> BOOLEAN] /\ reshaped' \in BOOLEAN
    /\ call[r].op \in Trades => behind'[i] /\ reshaped' = reshaped
    /\ call[r].op \notin Trades => /\ behind' = behind
                                   /\ reshaped' \/ UNCHANGED <<row, position, reshaped>>

\* What a commit must establish for the position it changes.
CommitsWell(i) ==
    /\ row' \in [Investments -> {"absent", "live", "deleted"}]
    /\ position' \in [Investments -> Images]
    /\ traded' \in [Investments -> Int]
    /\ declared' \in [Investments -> Int]
    /\ edited' \in [Investments -> BOOLEAN]
    /\ \A j \in Investments : j # i => /\ row'[j] = row[j]
                                       /\ position'[j] = position[j]
                                       /\ traded'[j] = traded[j]
                                       /\ declared'[j] = declared[j]
                                       /\ edited'[j] = edited[j]
    /\ row'[i] = "live" => position'[i].quantity > 0
    /\ row'[i] = "absent" => traded'[i] = 0 /\ cached[i] = NoImage
    /\ ~edited'[i] => Basis(position'[i])
    /\ (Serial /\ row'[i] = "live") => position'[i].quantity = declared'[i] + traded'[i]

LEMMA CommitsWellKeeps ==
    ASSUME InvestmentInv, NEW i \in Investments, CommitsWell(i), cached' = cached, overlap' = overlap
    PROVE  ColumnsOK' /\ AbsentInv' /\ CostBasis' /\ UnitsMatchTrades'
  <1>0. ColumnsOK /\ AbsentInv /\ CostBasis /\ UnitsMatchTrades
    BY DEF InvestmentInv
  <1>1. \A j \in Investments : j # i => /\ row'[j] = row[j]
                                       /\ position'[j] = position[j]
                                       /\ traded'[j] = traded[j]
                                       /\ declared'[j] = declared[j]
                                       /\ edited'[j] = edited[j]
    BY DEF CommitsWell
  <1>2. ColumnsOK'
    <2>1. \A j \in Investments : row'[j] = "live" => position'[j].quantity > 0
      BY <1>0, <1>1 DEF CommitsWell, ColumnsOK
    <2>2. QED
      BY <2>1 DEF CommitsWell, ColumnsOK
  <1>3. AbsentInv'
    BY <1>0, <1>1 DEF CommitsWell, AbsentInv
  <1>4. CostBasis'
    <2>1. \A j \in Investments : ~edited'[j] => Basis(position'[j])
      BY <1>0, <1>1 DEF CommitsWell, CostBasis, Basis
    <2>2. QED
      BY <2>1 DEF CostBasis, Basis
  <1>5. UnitsMatchTrades'
    BY <1>0, <1>1 DEF CommitsWell, UnitsMatchTrades, Serial
  <1>6. QED
    BY <1>2, <1>3, <1>4, <1>5

LEMMA CommitShape ==
    ASSUME InvestmentInv, NEW r \in Requests,
           \/ \E i \in Investments : CommitCreate(r, i)
           \/ CommitUpdate(r) \/ CommitDelete(r) \/ CommitTrade(r)
    PROVE  \E i \in Investments : CommitMove(r, i)
  <1>0. /\ ColumnsOK /\ EntriesOK /\ CallInv /\ CopyInv /\ AbsentInv
        /\ CostBasis /\ UnitsMatchTrades /\ FreshInv
    BY DEF InvestmentInv
  <1>T. /\ row \in [Investments -> {"absent", "live", "deleted"}]
        /\ position \in [Investments -> Images]
        /\ traded \in [Investments -> Int] /\ declared \in [Investments -> Int]
        /\ edited \in [Investments -> BOOLEAN] /\ behind \in [Investments -> BOOLEAN]
        /\ reshaped \in BOOLEAN
    BY <1>0 DEF ColumnsOK, EntriesOK
  <1>P. \A j \in Investments : /\ position[j] \in Images
                               /\ row[j] = "live" => position[j].quantity > 0
                               /\ ~edited[j] => Basis(position[j])
                               /\ row[j] = "absent" => traded[j] = 0 /\ cached[j] = NoImage
                               /\ (Serial /\ row[j] = "live")
                                  => position[j].quantity = declared[j] + traded[j]
    BY <1>0 DEF ColumnsOK, CostBasis, Basis, AbsentInv, UnitsMatchTrades
  <1>Q. \A j \in Investments : position[j].quantity \in Int
    BY <1>T DEF Images
  <1>N. {"create", "delete", "update"} \intersect Trades = {}
        /\ Trades \subseteq Changes /\ "update" \in Changes
    BY DEF Trades, Changes
  <1>1. ASSUME NEW i \in Investments, CommitCreate(r, i) PROVE CommitMove(r, i)
    <2> DEFINE x == copy[r]
    <2>1. /\ call[r].op = "create" /\ Commits(r) /\ Goto(r, AfterCommit(call[r]), NoCopy)
          /\ row[i] = "absent" /\ row' = [row EXCEPT ![i] = "live"]
          /\ position' = [position EXCEPT ![i] = x]
          /\ declared' = [declared EXCEPT ![i] = x.quantity]
          /\ reshaped' = TRUE /\ UNCHANGED <<traded, edited, cached, portfolio, behind>>
          /\ overlap' = overlap
      BY <1>1 DEF CommitCreate, Commits
    <2>2. x \in Images /\ x.quantity > 0 /\ Basis(x) /\ x.quantity \in Int
      <3>1. x \in Images /\ x.quantity > 0 /\ Basis(x)
        BY <1>0, <2>1 DEF CopyInv, Holds, Commits
      <3>2. QED
        BY <3>1 DEF Images
    <2> HIDE DEF x
    <2>3. /\ row'[i] = "live" /\ position'[i] = x /\ declared'[i] = x.quantity
          /\ traded'[i] = 0
          /\ \A j \in Investments : j # i => /\ row'[j] = row[j]
                                             /\ position'[j] = position[j]
                                             /\ declared'[j] = declared[j]
      BY <1>T, <1>P, <2>1
    <2>4. CommitsWell(i)
      BY <1>T, <2>1, <2>2, <2>3 DEF CommitsWell
    <2>5. ColumnsOK' /\ AbsentInv' /\ CostBasis' /\ UnitsMatchTrades'
      BY <2>1, <2>4, CommitsWellKeeps
    <2>6. QED
      BY <1>T, <1>N, <2>1, <2>3, <2>5 DEF CommitMove
  <1>2. ASSUME CommitUpdate(r) PROVE CommitMove(r, call[r].id) /\ call[r].id \in Investments
    <2> DEFINE i == call[r].id
               x == copy[r]
               e == call[r].edit
    <2>1. /\ call[r].op = "update" /\ Commits(r) /\ Goto(r, AfterCommit(call[r]), NoCopy)
          /\ position' = IF row[i] = "live" THEN [position EXCEPT ![i] = x] ELSE position
          /\ declared' = IF e.quantity = Keep \/ row[i] # "live" THEN declared
                         ELSE [declared EXCEPT ![i] = e.quantity - traded[i]]
          /\ edited' = [edited EXCEPT ![i] = @ \/ e.quantity # Keep \/ e.price # Keep]
          /\ reshaped' = TRUE /\ UNCHANGED <<row, traded, cached, portfolio, behind>>
          /\ overlap' = overlap /\ pc[r] = "commit"
      BY <1>2 DEF CommitUpdate, Commits, WriteBack
    <2>2. i \in Investments /\ Formed(call[r]) /\ e \in Edits
      BY <1>0, <1>N, <2>1 DEF CallInv, Placed, Formed, InFlight
    <2>3. /\ x \in Images /\ row[i] # "absent" /\ x.quantity > 0
          /\ ~edited[i] /\ ~Revalues(call[r]) => Basis(x)
      BY <1>0, <1>N, <2>1 DEF CopyInv, Holds
    <2>4. Serial => row[i] = "live" /\ x = Changed(call[r], position[i])
      BY <1>0, <1>N, <2>1 DEF FreshInv
    <2>5. Serial => x.quantity = IF e.quantity = Keep THEN position[i].quantity ELSE e.quantity
      BY <1>N, <1>T, <2>1, <2>2, <2>4, ChangedUnits
    <2>6. (e.quantity = Keep \/ e.quantity \in Int) /\ Keep \notin Int
      BY <2>2, InvestmentAssumption
    <2>7. Revalues(call[r]) <=> e.quantity # Keep \/ e.price # Keep
      BY <2>1 DEF Revalues
    <2> HIDE DEF x, i, e
    <2>8. /\ row[i] = "live" => position'[i] = x
          /\ row[i] # "live" => position'[i] = position[i]
          /\ edited'[i] = (edited[i] \/ e.quantity # Keep \/ e.price # Keep)
          /\ (row[i] # "live" \/ e.quantity = Keep) => declared'[i] = declared[i]
          /\ (row[i] = "live" /\ e.quantity # Keep) => declared'[i] = e.quantity - traded[i]
          /\ \A j \in Investments : j # i => /\ position'[j] = position[j]
                                             /\ declared'[j] = declared[j]
                                             /\ edited'[j] = edited[j]
      BY <1>T, <2>1, <2>2
    <2>9. position' \in [Investments -> Images]
      BY <1>T, <2>1, <2>3
    <2>10. declared' \in [Investments -> Int]
      BY <1>T, <2>1, <2>2, <2>6
    <2>11. edited' \in [Investments -> BOOLEAN]
      BY <1>T, <2>1
    <2>12. (Serial /\ row'[i] = "live") => position'[i].quantity = declared'[i] + traded'[i]
      <3>1. traded[i] \in Int /\ declared[i] \in Int
        BY <1>T, <2>2
      <3>2. QED
        BY <1>P, <2>1, <2>2, <2>4, <2>5, <2>6, <2>8, <3>1
    <2>13. ~edited'[i] => Basis(position'[i]) /\ ~edited[i]
      BY <1>P, <2>2, <2>3, <2>7, <2>8
    <2>14. CommitsWell(i)
      BY <1>T, <1>P, <2>1, <2>2, <2>3, <2>8, <2>9, <2>10, <2>11, <2>12, <2>13 DEF CommitsWell
    <2>15. ColumnsOK' /\ AbsentInv' /\ CostBasis' /\ UnitsMatchTrades'
      BY <2>1, <2>2, <2>14, CommitsWellKeeps
    <2>16. CommitMove(r, i)
      BY <1>T, <1>N, <2>1, <2>2, <2>8, <2>13, <2>15 DEF CommitMove, i
    <2>17. QED
      BY <2>2, <2>16 DEF i
  <1>3. ASSUME CommitDelete(r) PROVE CommitMove(r, call[r].id) /\ call[r].id \in Investments
    <2> DEFINE i == call[r].id
    <2>1. /\ call[r].op = "delete" /\ Commits(r) /\ Goto(r, AfterCommit(call[r]), NoCopy)
          /\ \/ row' = row /\ reshaped' = reshaped
             \/ row' = [row EXCEPT ![i] = "deleted"] /\ row[i] = "live" /\ reshaped' = TRUE
          /\ UNCHANGED <<position, traded, declared, edited, cached, portfolio, behind>>
          /\ overlap' = overlap /\ pc[r] = "commit"
      <3>1. CASE call[r].mine /\ row[i] = "live"
        BY <1>3, <3>1 DEF CommitDelete, Commits
      <3>2. CASE ~(call[r].mine /\ row[i] = "live")
        BY <1>3, <3>2 DEF CommitDelete, Commits
      <3>3. QED
        BY <3>1, <3>2
    <2>2. i \in Investments
      BY <1>0, <2>1 DEF CallInv, Placed, InFlight
    <2> HIDE DEF i
    <2>3. /\ row'[i] = "live" => row[i] = "live"
          /\ row[i] = "absent" <=> row'[i] = "absent"
          /\ \A j \in Investments : j # i => row'[j] = row[j]
      BY <1>T, <2>1, <2>2
    <2>4. row' \in [Investments -> {"absent", "live", "deleted"}]
      BY <1>T, <2>1
    <2>5. CommitsWell(i)
      BY <1>T, <1>P, <2>1, <2>2, <2>3, <2>4 DEF CommitsWell
    <2>6. ColumnsOK' /\ AbsentInv' /\ CostBasis' /\ UnitsMatchTrades'
      BY <2>1, <2>2, <2>5, CommitsWellKeeps
    <2>7. CommitMove(r, i)
      BY <1>T, <1>N, <2>1, <2>2, <2>3, <2>6 DEF CommitMove, i
    <2>8. QED
      BY <2>2, <2>7 DEF i
  <1>4. ASSUME CommitTrade(r) PROVE CommitMove(r, call[r].id) /\ call[r].id \in Investments
    <2> DEFINE i == call[r].id
               x == copy[r]
               u == Units(call[r])
               writes == call[r].op \in {"buy", "sell"} /\ row[i] = "live"
    <2>1. /\ call[r].op \in Trades /\ Commits(r) /\ Goto(r, AfterCommit(call[r]), NoCopy)
          /\ row[i] = "live" => ~(x.quantity <= 0)
          /\ position' = IF writes THEN [position EXCEPT ![i] = x] ELSE position
          /\ traded' = [traded EXCEPT ![i] = @ + u]
          /\ behind' = [behind EXCEPT ![i] = TRUE]
          /\ UNCHANGED <<row, declared, edited, cached, portfolio, reshaped>>
          /\ overlap' = overlap /\ pc[r] = "commit"
      BY <1>4 DEF CommitTrade, Commits, WriteBack, Violates
    <2>2. /\ i \in Investments /\ Formed(call[r]) /\ call[r].op \in Changes
          /\ call[r].op # "update" /\ call[r].op # "create"
      BY <1>0, <1>N, <2>1 DEF CallInv, Placed, InFlight
    <2>3. /\ x \in Images /\ row[i] # "absent"
          /\ ~edited[i] => Basis(x)
      BY <1>0, <2>1, <2>2 DEF CopyInv, Holds, Revalues
    <2>4. Serial => row[i] = "live" /\ x = Changed(call[r], position[i])
      BY <1>0, <2>1, <2>2 DEF FreshInv
    <2>5. /\ u \in Int /\ (Serial => x.quantity = position[i].quantity + u)
          /\ call[r].op \notin {"buy", "sell"} => u = 0
      BY <1>P, <2>2, <2>4, ChangedUnits
    <2>6. x.quantity \in Nat
      BY <2>3 DEF Images
    <2> HIDE DEF x, i, u
    <2>7. /\ writes => position'[i] = x
          /\ ~writes => position'[i] = position[i]
          /\ traded'[i] = traded[i] + u /\ behind'[i]
          /\ \A j \in Investments : j # i => /\ position'[j] = position[j]
                                             /\ traded'[j] = traded[j]
                                             /\ behind'[j] = behind[j]
      BY <1>T, <2>1, <2>2
    <2>8. position' \in [Investments -> Images] /\ behind' \in [Investments -> BOOLEAN]
      BY <1>T, <2>1, <2>3
    <2>9. traded' \in [Investments -> Int]
      BY <1>T, <2>1, <2>2, <2>5
    <2>10. (Serial /\ row'[i] = "live") => position'[i].quantity = declared'[i] + traded'[i]
      <3>1. traded[i] \in Int /\ declared[i] \in Int
        BY <1>T, <2>2
      <3>2. QED
        BY <1>P, <1>Q, <2>1, <2>2, <2>4, <2>5, <2>7, <3>1
    <2>11. row'[i] = "live" => position'[i].quantity > 0
      BY <1>P, <2>1, <2>2, <2>6, <2>7
    <2>12. CommitsWell(i)
      BY <1>T, <1>P, <2>1, <2>2, <2>3, <2>7, <2>8, <2>9, <2>10, <2>11 DEF CommitsWell
    <2>13. ColumnsOK' /\ AbsentInv' /\ CostBasis' /\ UnitsMatchTrades'
      BY <2>1, <2>2, <2>12, CommitsWellKeeps
    <2>14. CommitMove(r, i)
      BY <1>T, <2>1, <2>2, <2>7, <2>8, <2>13 DEF CommitMove, i
    <2>15. QED
      BY <2>2, <2>14 DEF i
  <1>5. QED
    BY <1>1, <1>2, <1>3, <1>4

LEMMA CommitStep ==
    ASSUME InvestmentInv, NEW r \in Requests, NEW i \in Investments, CommitMove(r, i)
    PROVE  InvestmentInv'
  <1>0. /\ FrameInv /\ ColumnsOK /\ EntriesOK /\ CallInv /\ CopyInv /\ AbsentInv
        /\ FreshInv /\ CacheInv /\ KeyInv
    BY DEF InvestmentInv
  <1> DEFINE s == AfterCommit(call[r])
  <1>1. /\ Commits(r) /\ pc[r] = "commit" /\ Goto(r, s, NoCopy) /\ UNCHANGED <<cached, portfolio>>
        /\ call[r].op \in Changes \union {"create", "delete"}
        /\ call[r].op # "create" => i = call[r].id
        /\ ColumnsOK' /\ AbsentInv' /\ CostBasis' /\ UnitsMatchTrades'
        /\ behind' \in [Investments -> BOOLEAN] /\ reshaped' \in BOOLEAN
        /\ \A j \in Investments : /\ row[j] # "absent" => row'[j] # "absent"
                                  /\ ~edited'[j] => ~edited[j]
    BY DEF CommitMove, Commits
  <1>2. call[r].op = "delete" => call[r].key = NoKey
    BY <1>0, <1>1 DEF CallInv, Placed, InFlight
  <1>3. /\ call[r].key # NoKey => s \in After
        /\ s = "store" => call[r].key # NoKey
        /\ call[r].op = "create" => s \in {"store", "done"}
        /\ call[r].op \in Changes => s \in {"store", "evict"}
        /\ call[r].op = "delete" => s = "done"
    BY <1>1, <1>2, AfterCommitIs
  <1> HIDE DEF s
  <1>4. s \in {"store", "evict", "done"}
    BY <1>1, <1>3
  <1>5. FrameInv' /\ KeyInv' /\ Lost' = Lost /\ overlap' = overlap /\ InFlight(r)
    BY <1>0, <1>1, <1>3, <1>4, CommitFrame DEF Before
  <1>6. /\ pc'[r] = s /\ (s # "done" => call'[r] = call[r])
        /\ \A q \in Requests : q # r => /\ pc'[q] = pc[q]
                                        /\ call'[q] = call[q]
                                        /\ copy'[q] = copy[q]
    BY <1>0, <1>1, GotoEffect
  <1>7. (Serial' <=> Serial) /\ (Serial => \A q \in Requests : q # r => ~InFlight(q))
    BY <1>0, <1>5 DEF Serial, FrameInv
  <1>8. EntriesOK'
    BY <1>0, <1>1 DEF EntriesOK
  <1>9. CallInv'
    <2>1. \A q \in Requests : q # r => (InFlight(q)' <=> InFlight(q))
      BY <1>6 DEF InFlight
    <2>2. Placed(call[r], "commit")
      BY <1>0, <1>1, <1>5 DEF CallInv
    <2>3. s # "done" => Placed(call[r], s)
      BY <1>1, <1>3, <2>2 DEF Placed, Changes, Trades
    <2>4. InFlight(r)' => Placed(call'[r], pc'[r])
      BY <1>6, <2>3 DEF InFlight
    <2>5. QED
      BY <1>0, <1>6, <2>1, <2>4 DEF CallInv
  <1>10. CopyInv'
    <2>1. ASSUME NEW q \in Requests, q # r PROVE Holds(q)'
      <3>1. Holds(q) /\ (InFlight(q) => Placed(call[q], pc[q]))
        BY <1>0 DEF CopyInv, CallInv
      <3>2. (pc[q] \in {"commit", "fill"} /\ call[q].op \in Changes \union {"get"})
            => call[q].id \in Investments
        BY <3>1 DEF InFlight, Placed, Changes, Trades
      <3>3. QED
        BY <1>1, <1>6, <2>1, <3>1, <3>2 DEF Holds
    <2>2. Holds(r)'
      BY <1>4, <1>6 DEF Holds
    <2>3. QED
      BY <2>1, <2>2 DEF CopyInv
  <1>11. FreshInv'
    <2>1. Serial => \A q \in Requests : pc'[q] \notin {"commit", "fill", "find"}
      BY <1>4, <1>6, <1>7 DEF InFlight
    <2>2. QED
      BY <1>7, <2>1 DEF FreshInv
  <1>12. CacheInv'
    <2> SUFFICES ASSUME Serial, Lost = 0
                 PROVE  /\ \A j \in Investments : (cached[j] # NoImage /\ ~behind'[j])
                              => Current(j)' \/ \E q \in Requests : WillEvict(q, j)'
                        /\ (portfolio # NoPortfolio /\ ~reshaped')
                              => \/ portfolio = CalculatePortfolioSummary'
                                 \/ \E q \in Requests : WillEvictPortfolio(q)'
                        /\ \A q \in Requests : pc'[q] \notin {"commit", "find"}
      BY <1>1, <1>5, <1>7 DEF CacheInv
    <2>1. \A q \in Requests : pc'[q] \notin {"commit", "find"}
      BY <1>4, <1>6, <1>7 DEF InFlight
    <2>2. \A j \in Investments : (cached[j] # NoImage /\ ~behind[j]) => Current(j)
      <3>1. \A q \in Requests, j \in Investments : ~WillEvict(q, j)
        BY <1>1, <1>7 DEF WillEvict, InFlight
      <3>2. QED
        BY <1>0, <3>1 DEF CacheInv
    <2>3. ASSUME NEW j \in Investments, j # i, cached[j] # NoImage, ~behind'[j] PROVE Current(j)'
      BY <1>1, <2>2, <2>3 DEF Current, CommitMove
    <2>4. (cached[i] # NoImage /\ ~behind'[i]) => WillEvict(r, i)'
      <3>1. CASE call[r].op = "create"
        BY <1>0, <3>1 DEF CommitMove, AbsentInv
      <3>2. CASE call[r].op = "update"
        BY <1>1, <1>3, <1>6, <3>2 DEF WillEvict, Changes
      <3>3. CASE call[r].op = "delete"
        BY <1>0, <1>1, <3>3 DEF CacheInv
      <3>4. CASE call[r].op \in Trades
        BY <3>4 DEF CommitMove
      <3>5. QED
        BY <1>1, <3>1, <3>2, <3>3, <3>4 DEF Changes
    <2>5. ASSUME portfolio # NoPortfolio, ~reshaped'
          PROVE  portfolio = CalculatePortfolioSummary' \/ WillEvictPortfolio(r)'
      <3>1. CASE call[r].op \in Trades
        <4>1. s \in {"store", "evict"}
          BY <1>3, <3>1 DEF Changes
        <4>2. QED
          BY <1>6, <3>1, <4>1 DEF WillEvictPortfolio
      <3>2. CASE call[r].op \notin Trades
        <4>1. UNCHANGED <<row, position, reshaped>>
          BY <2>5, <3>2 DEF CommitMove
        <4>2. \A q \in Requests : ~WillEvictPortfolio(q)
          BY <1>1, <1>7 DEF WillEvictPortfolio, InFlight
        <4>3. portfolio = CalculatePortfolioSummary
          BY <1>0, <2>5, <4>1, <4>2 DEF CacheInv
        <4>4. QED
          BY <4>1, <4>3 DEF CalculatePortfolioSummary, Active
      <3>3. QED
        BY <3>1, <3>2
    <2>6. QED
      BY <2>1, <2>3, <2>4, <2>5
  <1>13. QED
    BY <1>1, <1>5, <1>8, <1>9, <1>10, <1>11, <1>12 DEF InvestmentInv

\* The other steps leave the tables alone.
Quiet(r) ==
    \/ Refused(r) \/ CheckFails(r) \/ Evict(r) \/ FillInvestment(r) \/ FillPortfolio(r)
    \/ /\ UNCHANGED <<dbVars, cacheVars>>
       /\ \/ StoreKey(r, AfterStore(call[r]))
          \/ StoreFails(r, AfterStore(call[r]))
          \/ CacheFails(r) \/ DatabaseFails(r) \/ Abandon(r)

\* A step that loses nothing takes the request on to its eviction, or evicts.
QuietMove(r, s) ==
    /\ Goto(r, s, NoCopy) /\ UNCHANGED dbVars /\ UNCHANGED <<behind, reshaped>>
    /\ FrameInv' /\ KeyInv' /\ overlap' = overlap /\ InFlight(r) /\ Lost <= Lost'
    /\ \/ s = "done"
       \/ s = "evict" /\ call[r].op \in Changes /\ pc[r] = "store"
    /\ cached' \in [Investments -> Images]
    /\ \A i \in Investments : \/ cached'[i] \in {cached[i], NoImage}
                              \/ /\ pc[r] = "fill" /\ call[r].op = "get"
                                 /\ i = call[r].id /\ cached'[i] = copy[r]
    /\ \/ portfolio' \in {portfolio, NoPortfolio}
       \/ pc[r] = "fill" /\ call[r].op = "summary" /\ portfolio' = copy[r].total
    /\ Lost' = Lost => /\ \A i \in Investments :
                            WillEvict(r, i) => s = "evict" \/ cached'[i] = NoImage
                       /\ WillEvictPortfolio(r) => s = "evict" \/ portfolio' = NoPortfolio

LEMMA QuietShape ==
    ASSUME InvestmentInv, NEW r \in Requests, Quiet(r)
    PROVE  \E s : QuietMove(r, s)
  <1>0. /\ FrameInv /\ KeyInv /\ CallInv /\ CopyInv /\ cached \in [Investments -> Images]
        /\ Lost \in Nat /\ "done" \notin Before
    BY FaultCounts DEF InvestmentInv, FrameInv, Before, EntriesOK
  <1>C. ASSUME InFlight(r)
        PROVE  /\ pc[r] = "store" => call[r].op \in Changes \union {"create"}
               /\ pc[r] = "evict" => call[r].op \in Changes /\ call[r].id \in Investments
               /\ call[r].op = "get" => call[r].id \in Investments
    BY <1>0, <1>C DEF CallInv, Placed, Changes, Trades
  <1>1. CASE Refused(r) \/ CheckFails(r)
    <2>1. PICK at \in {"find", "commit"} : Reads(r, at)
      BY <1>1 DEF Refused, CheckFails
    <2>2. pc[r] \in {"find", "commit"} /\ Goto(r, "done", NoCopy) /\ UNCHANGED <<dbVars, cacheVars>>
      BY <1>1 DEF Refused, CheckFails, Reads, Return
    <2>3. FrameInv' /\ KeyInv' /\ InFlight(r) /\ Lost' = Lost /\ overlap' = overlap
      BY <1>0, <2>1, <2>2, ReadStep DEF After
    <2>4. QuietMove(r, "done")
      BY <1>0, <2>2, <2>3 DEF QuietMove, WillEvict, WillEvictPortfolio, cacheVars
    <2>5. QED
      BY <2>4
  <1>2. CASE Evict(r)
    <2>1. /\ Reads(r, "evict") /\ pc[r] = "evict" /\ Goto(r, "done", NoCopy)
          /\ UNCHANGED dbVars /\ UNCHANGED <<behind, reshaped>>
          /\ cached' = IF call[r].op = "update" THEN [cached EXCEPT ![call[r].id] = NoImage] ELSE cached
          /\ portfolio' = IF call[r].op = "update" THEN portfolio ELSE NoPortfolio
      BY <1>2 DEF Evict, Reads, Return
    <2>2. FrameInv' /\ KeyInv' /\ InFlight(r) /\ Lost' = Lost /\ overlap' = overlap
      BY <1>0, <2>1, ReadStep DEF After
    <2>3. /\ cached' \in [Investments -> Images]
          /\ \A i \in Investments : cached'[i] \in {cached[i], NoImage}
          /\ \A i \in Investments : (call[r].op = "update" /\ i = call[r].id) => cached'[i] = NoImage
          /\ call[r].op \in Trades => portfolio' = NoPortfolio
          /\ portfolio' \in {portfolio, NoPortfolio}
      BY <1>0, <2>1, NoImageTyped DEF Trades
    <2>4. QuietMove(r, "done")
      BY <1>0, <2>1, <2>2, <2>3 DEF QuietMove, WillEvict, WillEvictPortfolio
    <2>5. QED
      BY <2>4
  <1>3. CASE FillInvestment(r)
    <2>1. /\ Reads(r, "fill") /\ pc[r] = "fill" /\ Goto(r, "done", NoCopy) /\ call[r].op = "get"
          /\ UNCHANGED dbVars /\ UNCHANGED <<portfolio, behind, reshaped>>
          /\ cached' = [cached EXCEPT ![call[r].id] = copy[r]]
      BY <1>3 DEF FillInvestment, Reads, Return
    <2>2. FrameInv' /\ KeyInv' /\ InFlight(r) /\ Lost' = Lost /\ overlap' = overlap
      BY <1>0, <2>1, ReadStep DEF After
    <2>3. copy[r] \in Images
      BY <1>0, <2>1 DEF CopyInv, Holds
    <2>4. /\ cached' \in [Investments -> Images]
          /\ \A i \in Investments : cached'[i] = IF i = call[r].id THEN copy[r] ELSE cached[i]
      BY <1>0, <2>1, <2>3
    <2>5. QuietMove(r, "done")
      BY <1>0, <2>1, <2>2, <2>4 DEF QuietMove, WillEvict, WillEvictPortfolio
    <2>6. QED
      BY <2>5
  <1>4. CASE FillPortfolio(r)
    <2>1. /\ Reads(r, "fill") /\ pc[r] = "fill" /\ Goto(r, "done", NoCopy) /\ call[r].op = "summary"
          /\ UNCHANGED dbVars /\ UNCHANGED <<cached, behind, reshaped>>
          /\ portfolio' = copy[r].total
      BY <1>4 DEF FillPortfolio, Reads, Return
    <2>2. FrameInv' /\ KeyInv' /\ InFlight(r) /\ Lost' = Lost /\ overlap' = overlap
      BY <1>0, <2>1, ReadStep DEF After
    <2>3. QuietMove(r, "done")
      BY <1>0, <2>1, <2>2 DEF QuietMove, WillEvict, WillEvictPortfolio
    <2>4. QED
      BY <2>3
  <1>5. CASE StoreKey(r, AfterStore(call[r])) /\ UNCHANGED <<dbVars, cacheVars>>
    <2> DEFINE s == AfterStore(call[r])
    <2>1. pc[r] = "store" /\ Goto(r, s, NoCopy)
      BY <1>5 DEF StoreKey
    <2>2. s \in {"done", "evict"} /\ (call[r].op = "create" <=> s = "done")
      BY DEF AfterStore
    <2> HIDE DEF s
    <2>3. StoreKey(r, s) /\ UNCHANGED dbVars /\ UNCHANGED <<cached, portfolio, behind, reshaped>>
      BY <1>5 DEF s, cacheVars
    <2>4. FrameInv' /\ KeyInv' /\ InFlight(r) /\ Lost' = Lost /\ overlap' = overlap
      BY <1>0, <2>2, <2>3, StoreStep DEF Before
    <2>5. call[r].op \in Changes \union {"create"} /\ "create" \notin Changes
      BY <1>C, <2>1, <2>4 DEF Changes, Trades
    <2>6. call[r].op \in Changes => s = "evict"
      BY <2>2, <2>5
    <2>7. QuietMove(r, s)
      BY <1>0, <2>1, <2>2, <2>3, <2>4, <2>5, <2>6
         DEF QuietMove, WillEvict, WillEvictPortfolio, Changes
    <2>8. QED
      BY <2>7
  <1>6. CASE /\ UNCHANGED <<dbVars, cacheVars>>
             /\ \/ StoreFails(r, AfterStore(call[r]))
                \/ CacheFails(r) \/ DatabaseFails(r) \/ Abandon(r)
    <2> DEFINE n == IF StoreFails(r, AfterStore(call[r])) THEN AfterStore(call[r]) ELSE "done"
    <2>1. n \in {"done", "evict"} /\ (n # "done" => pc[r] = "store" /\ call[r].op # "create")
      BY DEF AfterStore, StoreFails
    <2>2. StoreFails(r, n) \/ CacheFails(r) \/ DatabaseFails(r) \/ Abandon(r)
      BY <1>6
    <2> HIDE DEF n
    <2>3. n \notin Before \union {"store"}
      BY <2>1 DEF Before
    <2>4. /\ FrameInv' /\ InFlight(r) /\ overlap' = overlap /\ Lost <= Lost' /\ KeyInv'
          /\ Lost' = Lost => DatabaseFails(r)
          /\ \E s \in {"done", n} : Goto(r, s, NoCopy)
      BY <1>0, <2>2, <2>3, SharedFaultStep
    <2>5. PICK s \in {"done", n} : Goto(r, s, NoCopy)
      BY <2>4
    <2>6. Lost' = Lost => pc[r] \in {"find", "commit"}
      BY <2>4 DEF DatabaseFails
    <2>7. s = "done" \/ (s = "evict" /\ call[r].op \in Changes /\ pc[r] = "store")
      BY <1>C, <2>1, <2>4
    <2>8. UNCHANGED dbVars /\ UNCHANGED <<cached, portfolio, behind, reshaped>>
      BY <1>6 DEF cacheVars
    <2>9. QuietMove(r, s)
      BY <1>0, <2>4, <2>5, <2>6, <2>7, <2>8 DEF QuietMove, WillEvict, WillEvictPortfolio
    <2>10. QED
      BY <2>9
  <1>7. QED
    BY <1>1, <1>2, <1>3, <1>4, <1>5, <1>6 DEF Quiet

LEMMA QuietStep ==
    ASSUME InvestmentInv, NEW r \in Requests, NEW s, QuietMove(r, s)
    PROVE  InvestmentInv'
  <1>0. /\ FrameInv /\ ColumnsOK /\ EntriesOK /\ CallInv /\ CopyInv /\ AbsentInv
        /\ CostBasis /\ UnitsMatchTrades /\ FreshInv /\ CacheInv /\ KeyInv
    BY DEF InvestmentInv
  <1>1. /\ Goto(r, s, NoCopy) /\ UNCHANGED dbVars /\ UNCHANGED <<behind, reshaped>>
        /\ FrameInv' /\ KeyInv' /\ overlap' = overlap /\ InFlight(r) /\ Lost <= Lost'
        /\ s = "done" \/ (s = "evict" /\ call[r].op \in Changes /\ pc[r] = "store")
        /\ cached' \in [Investments -> Images]
    BY DEF QuietMove
  <1>2. s \in {"done", "evict"}
    BY <1>1
  <1>3. /\ pc'[r] = s /\ (s # "done" => call'[r] = call[r])
        /\ \A q \in Requests : q # r => /\ pc'[q] = pc[q]
                                        /\ call'[q] = call[q]
                                        /\ copy'[q] = copy[q]
    BY <1>0, <1>1, GotoEffect
  <1>4. /\ ColumnsOK' /\ CostBasis' /\ UnitsMatchTrades'
        /\ CalculatePortfolioSummary' = CalculatePortfolioSummary /\ (Serial' <=> Serial)
        /\ UNCHANGED <<row, position, traded, edited>>
    BY <1>0, <1>1, TablesKept
  <1>5. EntriesOK'
    BY <1>0, <1>1 DEF EntriesOK
  <1>6. AbsentInv'
    <2>1. (pc[r] = "fill" /\ call[r].op = "get") => row[call[r].id] # "absent"
      BY <1>0 DEF CopyInv, Holds
    <2>2. QED
      BY <1>0, <1>4, <2>1 DEF AbsentInv, QuietMove
  <1>7. CallInv'
    <2>1. \A q \in Requests : q # r => (InFlight(q)' <=> InFlight(q))
      BY <1>3 DEF InFlight
    <2>2. InFlight(r)' => s = "evict"
      BY <1>2, <1>3 DEF InFlight
    <2>3. s = "evict" => Placed(call[r], "evict")
      BY <1>0, <1>1 DEF CallInv, Placed, Changes, Trades
    <2>4. QED
      BY <1>0, <1>3, <2>1, <2>2, <2>3 DEF CallInv
  <1>8. CopyInv'
    <2>1. \A q \in Requests : q # r => Holds(q)'
      BY <1>0, <1>3, <1>4 DEF CopyInv, Holds
    <2>2. Holds(r)'
      BY <1>2, <1>3 DEF Holds
    <2>3. QED
      BY <2>1, <2>2 DEF CopyInv
  <1>9. FreshInv'
    BY <1>0, <1>2, <1>3, <1>4 DEF FreshInv
  <1>10. CacheInv'
    <2> SUFFICES ASSUME Serial, Lost' = 0
                 PROVE  /\ \A i \in Investments : (cached'[i] # NoImage /\ ~behind[i])
                              => Current(i)' \/ \E q \in Requests : WillEvict(q, i)'
                        /\ (portfolio' # NoPortfolio /\ ~reshaped)
                              => \/ portfolio' = CalculatePortfolioSummary
                                 \/ \E q \in Requests : WillEvictPortfolio(q)'
                        /\ \A q \in Requests : pc'[q] \notin {"commit", "find"}
      BY <1>1, <1>4 DEF CacheInv
    <2>1. \A q \in Requests : q # r => ~InFlight(q)
      BY <1>0, <1>1 DEF FrameInv
    <2>2. \A q \in Requests : pc'[q] \notin {"commit", "find"}
      BY <1>2, <1>3, <2>1 DEF InFlight
    <2>3. Lost = 0 /\ Lost' = Lost
      BY <1>0, <1>1, FaultCounts DEF FrameInv
    <2>4. /\ \A i \in Investments : (cached[i] # NoImage /\ ~behind[i]) => Current(i) \/ WillEvict(r, i)
          /\ (portfolio # NoPortfolio /\ ~reshaped)
             => portfolio = CalculatePortfolioSummary \/ WillEvictPortfolio(r)
      BY <1>0, <2>1, <2>3 DEF CacheInv, WillEvict, WillEvictPortfolio, InFlight
    <2>5. \A i \in Investments : cached'[i] = cached[i] => (Current(i) => Current(i)')
      BY <1>4 DEF Current
    <2>6. /\ \A i \in Investments : WillEvict(r, i) => s = "evict" \/ cached'[i] = NoImage
          /\ WillEvictPortfolio(r) => s = "evict" \/ portfolio' = NoPortfolio
      BY <2>3 DEF QuietMove
    <2>7. /\ \A i \in Investments : (WillEvict(r, i) /\ s = "evict") => WillEvict(r, i)'
          /\ (WillEvictPortfolio(r) /\ s = "evict") => WillEvictPortfolio(r)'
      BY <1>3 DEF WillEvict, WillEvictPortfolio
    <2>8. /\ (pc[r] = "fill" /\ call[r].op = "get")
             => row[call[r].id] = "live" /\ copy[r] = position[call[r].id]
          /\ (pc[r] = "fill" /\ call[r].op = "summary") => copy[r].total = CalculatePortfolioSummary
      BY <1>0 DEF FreshInv
    <2>9. ASSUME NEW i \in Investments, cached'[i] # NoImage, ~behind[i]
          PROVE  Current(i)' \/ WillEvict(r, i)'
      <3>1. CASE cached'[i] = cached[i]
        BY <2>4, <2>5, <2>6, <2>7, <2>9, <3>1
      <3>2. CASE /\ pc[r] = "fill" /\ call[r].op = "get"
                 /\ i = call[r].id /\ cached'[i] = copy[r]
        BY <1>4, <2>8, <3>2 DEF Current
      <3>3. QED
        BY <2>9, <3>1, <3>2 DEF QuietMove
    <2>10. ASSUME portfolio' # NoPortfolio, ~reshaped
           PROVE  portfolio' = CalculatePortfolioSummary \/ WillEvictPortfolio(r)'
      <3>1. CASE portfolio' = portfolio
        BY <2>4, <2>6, <2>7, <2>10, <3>1
      <3>2. CASE pc[r] = "fill" /\ call[r].op = "summary" /\ portfolio' = copy[r].total
        BY <2>8, <3>2
      <3>3. QED
        BY <2>10, <3>1, <3>2 DEF QuietMove
    <2>11. QED
      BY <2>2, <2>9, <2>10
  <1>11. QED
    BY <1>1, <1>4, <1>5, <1>6, <1>7, <1>8, <1>9, <1>10 DEF InvestmentInv

LEMMA ExpireStep ==
    ASSUME InvestmentInv, Expire \/ UNCHANGED vars
    PROVE  InvestmentInv'
  <1>0. /\ FrameInv /\ ColumnsOK /\ EntriesOK /\ CallInv /\ CopyInv /\ AbsentInv
        /\ CostBasis /\ UnitsMatchTrades /\ FreshInv /\ CacheInv /\ KeyInv
    BY DEF InvestmentInv
  <1>1. UNCHANGED dbVars /\ UNCHANGED <<behind, reshaped>> /\ UNCHANGED frameVars
    BY DEF Expire, vars, dbVars
  <1>2. /\ cached' \in [Investments -> Images]
        /\ \A i \in Investments : cached'[i] \in {cached[i], NoImage}
        /\ portfolio' \in {portfolio, NoPortfolio}
    <2>1. cached \in [Investments -> Images]
      BY <1>0 DEF EntriesOK
    <2>2. ASSUME NEW i \in Investments, cached' = [cached EXCEPT ![i] = NoImage]
          PROVE  /\ cached' \in [Investments -> Images]
                 /\ \A j \in Investments : cached'[j] \in {cached[j], NoImage}
      BY <2>1, <2>2, NoImageTyped
    <2>3. UNCHANGED vars => cached' = cached /\ portfolio' = portfolio
      BY DEF vars
    <2>4. Expire => \/ /\ \E i \in Investments : cached' = [cached EXCEPT ![i] = NoImage]
                       /\ portfolio' = portfolio
                    \/ cached' = cached /\ portfolio' = NoPortfolio
      BY DEF Expire
    <2>5. QED
      BY <2>1, <2>2, <2>3, <2>4
  <1>3. UNCHANGED <<overlap, pc, call, copy, stored, commits, faults>>
    BY <1>1 DEF frameVars
  <1>4. /\ ColumnsOK' /\ CostBasis' /\ UnitsMatchTrades'
        /\ CalculatePortfolioSummary' = CalculatePortfolioSummary /\ (Serial' <=> Serial)
        /\ UNCHANGED <<row, position, traded, edited>>
    BY <1>0, <1>1, <1>3, TablesKept
  <1>5. FrameInv' /\ KeyInv' /\ Lost' = Lost
    BY <1>0, <1>3 DEF FrameInv, KeyInv, Serial, Lost, InFlight, OverRequests
  <1>6. EntriesOK' /\ AbsentInv'
    BY <1>0, <1>1, <1>2, <1>4 DEF EntriesOK, AbsentInv
  <1>7. CallInv'
    BY <1>0, <1>3 DEF CallInv, InFlight
  <1>8. CopyInv'
    BY <1>0, <1>3, <1>4 DEF CopyInv, Holds
  <1>9. FreshInv'
    BY <1>0, <1>3, <1>4 DEF FreshInv
  <1>10. CacheInv'
    <2>1. /\ \A q \in Requests, i \in Investments : WillEvict(q, i) => WillEvict(q, i)'
          /\ \A q \in Requests : WillEvictPortfolio(q) => WillEvictPortfolio(q)'
      BY <1>3 DEF WillEvict, WillEvictPortfolio
    <2>2. \A i \in Investments : cached'[i] # NoImage
                                 => cached'[i] = cached[i] /\ (Current(i) => Current(i)')
      BY <1>2, <1>4 DEF Current
    <2>3. \A q \in Requests : /\ pc[q] = "commit" /\ call[q].op = "delete" => call[q].id \in Investments
                              /\ pc[q] = "find" /\ call[q].op = "get" => call[q].id \in Investments
      BY <1>0 DEF CallInv, Placed, InFlight
    <2> SUFFICES ASSUME Serial, Lost = 0
                 PROVE  /\ \A i \in Investments : (cached'[i] # NoImage /\ ~behind[i])
                              => Current(i)' \/ \E q \in Requests : WillEvict(q, i)'
                        /\ (portfolio' # NoPortfolio /\ ~reshaped)
                              => \/ portfolio' = CalculatePortfolioSummary
                                 \/ \E q \in Requests : WillEvictPortfolio(q)'
                        /\ \A q \in Requests :
                              /\ (pc[q] = "commit" /\ call[q].op = "delete")
                                 => cached'[call[q].id] = NoImage
                              /\ (pc[q] = "find" /\ call[q].op = "get")
                                 => cached'[call[q].id] = NoImage
                              /\ (pc[q] = "find" /\ call[q].op = "summary")
                                 => portfolio' = NoPortfolio
      BY <1>1, <1>3, <1>4, <1>5 DEF CacheInv
    <2>4. /\ \A i \in Investments : (cached[i] # NoImage /\ ~behind[i])
                => Current(i) \/ \E q \in Requests : WillEvict(q, i)
          /\ (portfolio # NoPortfolio /\ ~reshaped)
                => \/ portfolio = CalculatePortfolioSummary
                   \/ \E q \in Requests : WillEvictPortfolio(q)
          /\ \A q \in Requests :
                /\ (pc[q] = "commit" /\ call[q].op = "delete") => cached[call[q].id] = NoImage
                /\ (pc[q] = "find" /\ call[q].op = "get") => cached[call[q].id] = NoImage
                /\ (pc[q] = "find" /\ call[q].op = "summary") => portfolio = NoPortfolio
      BY <1>0 DEF CacheInv
    <2>5. QED
      BY <1>2, <2>1, <2>2, <2>3, <2>4
  <1>11. QED
    BY <1>4, <1>5, <1>6, <1>7, <1>8, <1>9, <1>10 DEF InvestmentInv

------------------------------------------------------------------------------

LEMMA InvestmentInvInit == Init => InvestmentInv
  <1> SUFFICES ASSUME Init PROVE InvestmentInv
    OBVIOUS
  <1> DEFINE N(i) == NewInvestment(Held[i].quantity, Held[i].price, "active")
  <1>1. FrameInv /\ KeyInv /\ Lost = 0
    BY FrameInitial DEF Init, FrameInit, Lost, Faults
  <1>2. \A i \in DOMAIN Held : /\ N(i) \in Images /\ N(i).quantity > 0 /\ Basis(N(i))
                               /\ N(i).quantity = Held[i].quantity /\ Held[i].quantity \in Int
    <2> SUFFICES ASSUME NEW i \in DOMAIN Held
                 PROVE  /\ N(i) \in Images /\ N(i).quantity > 0 /\ Basis(N(i))
                        /\ N(i).quantity = Held[i].quantity /\ Held[i].quantity \in Int
      OBVIOUS
    <2>1. /\ Held[i].quantity \in Int /\ Held[i].price \in Int
          /\ IsValidTrade(Held[i].quantity, Held[i].price) /\ "active" \in Statuses
      BY InvestmentAssumption DEF IsValidTrade, Statuses
    <2>2. N(i).quantity = Held[i].quantity
      BY DEF NewInvestment
    <2>3. QED
      BY <2>1, <2>2, NewPosition
  <1>3. /\ row = [i \in Investments |-> IF i \in DOMAIN Held THEN "live" ELSE "absent"]
        /\ position = [i \in Investments |-> IF i \in DOMAIN Held THEN N(i) ELSE NoImage]
        /\ traded = [i \in Investments |-> 0]
        /\ cached = [i \in Investments |-> NoImage]
        /\ portfolio = NoPortfolio
        /\ declared = [i \in Investments |-> IF i \in DOMAIN Held THEN Held[i].quantity ELSE 0]
        /\ edited = [i \in Investments |-> FALSE]
        /\ behind = [i \in Investments |-> FALSE]
        /\ reshaped = FALSE
    BY DEF Init
  <1> HIDE DEF N
  <1>4. \A r \in Requests : pc[r] = "idle"
    BY DEF Init, FrameInit
  <1>5. Basis(NoImage)
    BY DEF Basis, NoImage
  <1>6. \A i \in Investments : /\ position[i] \in Images /\ Basis(position[i])
                               /\ row[i] = "live" => /\ position[i].quantity > 0
                                                     /\ position[i].quantity = declared[i] + traded[i]
    BY <1>2, <1>3, <1>5, NoImageTyped
  <1>7. ColumnsOK
    <2>1. position \in [Investments -> Images]
      BY <1>3, <1>6
    <2>2. declared \in [Investments -> Int]
      BY <1>2, <1>3
    <2>3. /\ row \in [Investments -> {"absent", "live", "deleted"}]
          /\ traded \in [Investments -> Int] /\ edited \in [Investments -> BOOLEAN]
      BY <1>3
    <2>4. QED
      BY <1>6, <2>1, <2>2, <2>3 DEF ColumnsOK
  <1>8. EntriesOK /\ AbsentInv
    BY <1>3, NoImageTyped DEF EntriesOK, AbsentInv
  <1>9. CostBasis /\ UnitsMatchTrades
    BY <1>6 DEF CostBasis, Basis, UnitsMatchTrades
  <1>10. CallInv /\ CopyInv /\ FreshInv
    BY <1>4 DEF CallInv, CopyInv, Holds, FreshInv, InFlight
  <1>11. CacheInv
    BY <1>3, <1>4 DEF CacheInv
  <1>12. QED
    BY <1>1, <1>7, <1>8, <1>9, <1>10, <1>11 DEF InvestmentInv

LEMMA InvestmentInvStep == InvestmentInv /\ [Next]_vars => InvestmentInv'
  <1> SUFFICES ASSUME InvestmentInv, [Next]_vars PROVE InvestmentInv'
    OBVIOUS
  <1>1. ASSUME NEW r \in Requests, Arrival(r) PROVE InvestmentInv'
    BY <1>1, ArrivalStep
  <1>2. ASSUME NEW r \in Requests, FindInvestment(r) \/ FindPortfolio(r) PROVE InvestmentInv'
    BY <1>2, FindStep, FindPortfolioStep
  <1>3. ASSUME NEW r \in Requests,
               \/ \E i \in Investments : CommitCreate(r, i)
               \/ CommitUpdate(r) \/ CommitDelete(r) \/ CommitTrade(r)
        PROVE  InvestmentInv'
    BY <1>3, CommitShape, CommitStep
  <1>4. ASSUME NEW r \in Requests, Quiet(r) PROVE InvestmentInv'
    BY <1>4, QuietShape, QuietStep
  <1>5. ASSUME NEW r \in Requests, Step(r) PROVE InvestmentInv'
    BY <1>2, <1>3, <1>4, <1>5 DEF Step, Quiet
  <1>6. QED
    BY <1>1, <1>5, ExpireStep DEF Next

\* InvestmentInv holds in every reachable state of investment-svc.
THEOREM InvestmentInvAlways == Spec => []InvestmentInv
  BY InvestmentInvInit, InvestmentInvStep, PTL DEF Spec

\* However purchases and sales round, and whichever overwrites another, the total of
\* a position no update revalued stays within one cent a unit of average times
\* quantity (UpdateAveragePrice, Sell).
THEOREM TradesKeepCostBasis == Spec => []CostBasis
  <1>1. InvestmentInv => CostBasis
    BY DEF InvestmentInv
  <1>2. QED
    BY <1>1, InvestmentInvAlways, PTL

\* When requests do not overlap, RecordTransaction keeps a live position's quantity
\* equal to what was declared plus what investment_transactions says was traded.
THEOREM PositionMatchesTrades == Spec => []UnitsMatchTrades
  <1>1. InvestmentInv => UnitsMatchTrades
    BY DEF InvestmentInv
  <1>2. QED
    BY <1>1, InvestmentInvAlways, PTL

\* When requests do not overlap and nothing was lost, a position's cache entry is old
\* only because of trades, the portfolio's only because of the other operations.
THEOREM EntriesStaleByTheOther == Spec => []StaleOnlyByTheOther
  <1>1. ASSUME InvestmentInv PROVE StaleOnlyByTheOther
    <2>1. NothingLost => Lost = 0
      BY <1>1, FaultCounts DEF InvestmentInv, FrameInv
    <2>2. Quiescent => \A r \in Requests : /\ ~WillEvictPortfolio(r)
                                           /\ \A i \in Investments : ~WillEvict(r, i)
      BY DEF Quiescent, WillEvict, WillEvictPortfolio, InFlight
    <2>3. QED
      BY <1>1, <2>1, <2>2 DEF InvestmentInv, CacheInv, StaleOnlyByTheOther, Current
  <1>2. QED
    BY <1>1, InvestmentInvAlways, PTL

\* When requests do not overlap, CreateInvestment, UpdateInvestment and
\* RecordTransaction commit once per Idempotency-Key, plus once per fault that kept
\* the response from Redis.
THEOREM InvestmentKeyCommitsOnce == Spec => []AtMostOncePerKey
  <1>1. InvestmentInv => AtMostOncePerKey
    BY KeyInvSuffices DEF InvestmentInv
  <1>2. QED
    BY <1>1, InvestmentInvAlways, PTL

------------------------------------------------------------------------------
(***************************************************************************)
(* Sums.  What holds of every proper subset of a finite set s only if it   *)
(* holds of s holds of all subsets: among those that lack it one would be  *)
(* minimal.  So the recursive function that SumFunctionOnSet chooses       *)
(* exists, and over natural numbers its values are natural.                *)
(***************************************************************************)

\* f summed over the subsets of S, one chosen element at a time.
Adds(g, f, S) ==
    g = [s \in SUBSET S |->
            IF s = {} THEN 0
            ELSE f[CHOOSE x \in s : TRUE] + g[s \ {CHOOSE x \in s : TRUE}]]

LEMMA SumIsChosen ==
    ASSUME NEW f, NEW S
    PROVE  SumFunctionOnSet(f, S) = (CHOOSE g : Adds(g, f, S))[S]
  BY DEF SumFunctionOnSet, FoldFunctionOnSet, MapThenFoldSet, Adds

LEMMA SubsetInduct ==
    ASSUME NEW S, IsFiniteSet(S), NEW T,
           \A s \in SUBSET S : (\A t \in SUBSET s : t # s => t \in T) => s \in T
    PROVE  SUBSET S \subseteq T
  <1> DEFINE R == StrictSubsetOrdering(S)
             U == (SUBSET S) \ T
  <1>1. SUFFICES ASSUME U # {} PROVE FALSE
    OBVIOUS
  <1>2. IsWellFoundedOn(R, SUBSET S)
    BY FS_StrictSubsetOrderingWellFounded, FS_FiniteSubsetsOfFinite
  <1>3. \A s, t \in SUBSET S : s \subseteq t /\ s # t => <<s, t>> \in R
    BY DEF StrictSubsetOrdering
  <1>4. U \subseteq SUBSET S
    OBVIOUS
  <1>5. \E m \in U : \A y \in U : ~(<<y, m>> \in R)
    <2> HIDE DEF R, U
    <2> QED BY <1>1, <1>2, <1>4, WFMin
  <1> HIDE DEF R
  <1>6. PICK m \in U : \A y \in U : ~(<<y, m>> \in R)
    BY <1>5
  <1>7. ASSUME NEW t \in SUBSET m, t # m PROVE t \in T
    <2>1. t \in SUBSET S /\ m \in SUBSET S
      OBVIOUS
    <2>2. <<t, m>> \in R
      BY <1>3, <1>7, <2>1
    <2>3. QED
      BY <1>6, <2>1, <2>2
  <1>8. m \in SUBSET S /\ m \notin T
    OBVIOUS
  <1>9. QED
    BY <1>7, <1>8

Least(s) == CHOOSE x \in s : TRUE

LEMMA LeastIn == ASSUME NEW s, s # {} PROVE Least(s) \in s
  BY DEF Least

\* Adds, as equations.
LEMMA AddsEquations ==
    ASSUME NEW g, NEW f, NEW S
    PROVE  Adds(g, f, S)
           <=> /\ g = [s \in SUBSET S |-> g[s]]
               /\ {} \in SUBSET S => g[{}] = 0
               /\ \A s \in SUBSET S : s # {} => g[s] = f[Least(s)] + g[s \ {Least(s)}]
  BY DEF Adds, Least

\* Two sums of the same terms are the same, whatever set they are part of.
LEMMA SumsAgree ==
    ASSUME NEW S, NEW R, IsFiniteSet(R), R \subseteq S,
           NEW f, NEW e, \A x \in R : f[x] = e[x],
           NEW g, Adds(g, f, S), NEW h, Adds(h, e, R)
    PROVE  g[R] = h[R]
  <1> DEFINE T == {s \in SUBSET R : g[s] = h[s]}
  <1>1. ASSUME NEW s \in SUBSET R, \A t \in SUBSET s : t # s => t \in T PROVE s \in T
    <2>1. CASE s = {}
      BY <2>1, AddsEquations
    <2>2. CASE s # {}
      <3>1. Least(s) \in s
        BY <2>2, LeastIn
      <3>2. s \ {Least(s)} \in T
        BY <1>1, <3>1
      <3>3. g[s] = f[Least(s)] + g[s \ {Least(s)}] /\ h[s] = e[Least(s)] + h[s \ {Least(s)}]
        BY <2>2, AddsEquations
      <3>4. QED
        BY <3>1, <3>2, <3>3
    <2>3. QED
      BY <2>1, <2>2
  <1>2. SUBSET R \subseteq T
    <2> HIDE DEF T
    <2> QED BY <1>1, SubsetInduct
  <1>3. QED
    BY <1>2

LEMMA SumExists ==
    ASSUME NEW S, IsFiniteSet(S), NEW f
    PROVE  Adds(CHOOSE g : Adds(g, f, S), f, S)
  <1> DEFINE H(u) == CHOOSE g : Adds(g, f, u)
             T == {s \in SUBSET S : \E g : Adds(g, f, s)}
  <1>1. ASSUME NEW s \in SUBSET S, \A t \in SUBSET s : t # s => t \in T PROVE s \in T
    <2> DEFINE G == [t \in SUBSET s |-> IF t = {} THEN 0 ELSE
                        f[Least(t)] + H(t \ {Least(t)})[t \ {Least(t)}]]
    <2>1. ASSUME NEW t \in SUBSET s, t # s PROVE Adds(H(t), f, t) /\ IsFiniteSet(t)
      BY <1>1, <2>1, FS_Subset
    <2>2. ASSUME NEW t \in SUBSET s, t # s PROVE G[t] = H(t)[t]
      <3>1. Adds(H(t), f, t)
        BY <2>1, <2>2
      <3> HIDE DEF H
      <3>2. CASE t = {}
        BY <3>1, <3>2, AddsEquations
      <3>3. CASE t # {}
        <4> DEFINE u == t \ {Least(t)}
        <4>1. u \in SUBSET s /\ u # s /\ u \subseteq t
          BY <2>2, <3>3, LeastIn
        <4>2. Adds(H(u), f, u) /\ IsFiniteSet(u)
          BY <2>1, <4>1
        <4>3. H(t)[t] = f[Least(t)] + H(t)[u]
          BY <3>1, <3>3, AddsEquations
        <4>4. H(t)[u] = H(u)[u]
          <5> HIDE DEF u
          <5> QED BY <3>1, <4>1, <4>2, SumsAgree
        <4>5. QED
          BY <3>3, <4>3, <4>4
      <3>4. QED
        BY <3>2, <3>3
    <2>3. ASSUME NEW t \in SUBSET s, t # {}
          PROVE  G[t] = f[Least(t)] + G[t \ {Least(t)}]
      <3>1. t \ {Least(t)} \in SUBSET s /\ t \ {Least(t)} # s
        BY <2>3, LeastIn
      <3>2. G[t \ {Least(t)}] = H(t \ {Least(t)})[t \ {Least(t)}]
        BY <2>2, <3>1
      <3>3. QED
        BY <2>3, <3>2
    <2>4. G[{}] = 0 /\ G = [t \in SUBSET s |-> G[t]]
      OBVIOUS
    <2>5. Adds(G, f, s)
      <3> HIDE DEF G
      <3> QED BY <2>3, <2>4, AddsEquations
    <2>6. QED
      <3> HIDE DEF G
      <3> QED BY <2>5
  <1>2. SUBSET S \subseteq T
    <2> HIDE DEF T
    <2> QED BY <1>1, SubsetInduct
  <1>3. QED
    BY <1>2

LEMMA SumNat ==
    ASSUME NEW S, IsFiniteSet(S), NEW f, \A x \in S : f[x] \in Nat
    PROVE  SumFunctionOnSet(f, S) \in Nat
  <1> DEFINE g == CHOOSE g : Adds(g, f, S)
             T == {s \in SUBSET S : g[s] \in Nat}
  <1>1. Adds(g, f, S) /\ SumFunctionOnSet(f, S) = g[S]
    BY SumExists, SumIsChosen
  <1> HIDE DEF g
  <1>2. ASSUME NEW s \in SUBSET S, \A t \in SUBSET s : t # s => t \in T PROVE s \in T
    <2>1. CASE s = {}
      <3>1. g[{}] = 0
        BY <1>1, AddsEquations
      <3>2. QED
        BY <2>1, <3>1
    <2>2. CASE s # {}
      <3>1. Least(s) \in s
        BY <2>2, LeastIn
      <3>2. s \ {Least(s)} \in T
        BY <1>2, <3>1
      <3>3. g[s] = f[Least(s)] + g[s \ {Least(s)}]
        BY <1>1, <2>2, AddsEquations
      <3>4. QED
        BY <3>1, <3>2, <3>3
    <2>3. QED
      BY <2>1, <2>2
  <1>3. SUBSET S \subseteq T
    <2> HIDE DEF T
    <2> QED BY <1>2, SubsetInduct
  <1>4. QED
    BY <1>1, <1>3

LEMMA SummaryIsNat ==
    ASSUME ColumnsOK
    PROVE  CalculatePortfolioSummary \in Nat
  <1> DEFINE f == [i \in Investments |-> position[i].total]
  <1>1. IsFiniteSet(Active)
    BY InvestmentAssumption, FS_Subset DEF Active
  <1>2. \A i \in Active : f[i] \in Nat
    BY DEF Active, ColumnsOK, Images
  <1>3. CalculatePortfolioSummary = SumFunctionOnSet(f, Active)
    BY DEF CalculatePortfolioSummary
  <1> HIDE DEF f
  <1>4. QED
    BY <1>1, <1>2, <1>3, SumNat

LEMMA SummaryMoves ==
    ASSUME FrameInv, SummaryInv, NEW r \in Requests, NEW c, NEW x,
           NEW s \in {"find", "commit", "store", "evict", "fill", "done"}, Continue(r, c, s, x),
           event' \in [Investments -> {"none", "created", "updated", "deleted", "traded"}],
           portfolio' \in Nat \union {NoPortfolio},
           (s = "fill" /\ c.op = "summary") => x.total \in Nat
    PROVE  SummaryInv'
  <1>1. /\ pc'[r] = s
        /\ s # "done" => call'[r] = c /\ copy'[r] = x
        /\ \A q \in Requests : q # r => /\ pc'[q] = pc[q] /\ call'[q] = call[q]
                                        /\ copy'[q] = copy[q]
    BY ContinueEffect
  <1>2. pc' \in [Requests -> {"idle", "find", "commit", "reread", "store", "evict", "fill", "done"}]
    BY DEF Continue, SummaryInv
  <1>3. \A q \in Requests : (pc'[q] = "fill" /\ call'[q].op = "summary") => copy'[q].total \in Nat
    BY <1>1 DEF SummaryInv
  <1>4. QED
    BY <1>2, <1>3 DEF SummaryInv

LEMMA SummaryInvStep == InvestmentInv /\ SummaryInv /\ [Next]_vars => SummaryInv'
  <1> SUFFICES ASSUME InvestmentInv, SummaryInv, [Next]_vars PROVE SummaryInv'
    OBVIOUS
  <1> DEFINE Events == {"none", "created", "updated", "deleted", "traded"}
  <1>0. /\ FrameInv /\ ColumnsOK /\ EntriesOK /\ CallInv /\ event \in [Investments -> Events]
        /\ portfolio \in Nat \union {NoPortfolio}
    BY DEF InvestmentInv, SummaryInv
  <1>1. ASSUME NEW r \in Requests, Arrival(r) PROVE SummaryInv'
    <2>1. PICK up \in BOOLEAN : \E c, asks, s, x : ArrivesWith(r, c, up, asks, s, x)
      BY <1>0, <1>1, ArrivalShape
    <2>2. PICK c, asks, s, x : ArrivesWith(r, c, up, asks, s, x)
      BY <2>1
    <2>3. /\ Continue(r, c, s, x) /\ s \in {"done", "find", "commit"}
          /\ event' = event /\ portfolio' = portfolio
      BY <2>2 DEF ArrivesWith, dbVars
    <2>4. QED
      BY <1>0, <2>3, SummaryMoves
  <1>2. ASSUME NEW r \in Requests, FindInvestment(r) PROVE SummaryInv'
    <2> DEFINE s == IF call[r].op = "get" THEN "fill" ELSE "commit"
    <2>1. /\ Continue(r, call[r], s, Changed(call[r], position[call[r].id]))
          /\ event' = event /\ portfolio' = portfolio
      BY <1>2 DEF FindInvestment, Goto, dbVars
    <2>2. s \in {"fill", "commit"} /\ (s = "fill" => call[r].op # "summary")
      OBVIOUS
    <2> HIDE DEF s
    <2>3. QED
      BY <1>0, <2>1, <2>2, SummaryMoves
  <1>3. ASSUME NEW r \in Requests, FindPortfolio(r) PROVE SummaryInv'
    <2> DEFINE x == [total |-> CalculatePortfolioSummary]
    <2>1. Continue(r, call[r], "fill", x) /\ event' = event /\ portfolio' = portfolio
      BY <1>3 DEF FindPortfolio, Goto, dbVars
    <2>2. x.total \in Nat
      BY <1>0, SummaryIsNat
    <2> HIDE DEF x
    <2>3. QED
      BY <1>0, <2>1, <2>2, SummaryMoves
  <1>4. ASSUME NEW r \in Requests,
               \/ \E i \in Investments : CommitCreate(r, i)
               \/ CommitUpdate(r) \/ CommitDelete(r) \/ CommitTrade(r)
        PROVE  SummaryInv'
    <2> DEFINE s == AfterCommit(call[r])
    <2>1. PICK i \in Investments \union {call[r].id}, e \in Events : event' = [event EXCEPT ![i] = e]
      BY <1>4 DEF CommitCreate, CommitUpdate, CommitDelete, CommitTrade
    <2>2. Continue(r, call[r], s, NoCopy) /\ portfolio' = portfolio
      BY <1>4 DEF CommitCreate, CommitUpdate, CommitDelete, CommitTrade, Goto
    <2>3. s \in {"store", "done", "evict"}
      BY DEF AfterCommit
    <2>4. event' \in [Investments -> Events]
      BY <1>0, <2>1
    <2> HIDE DEF s
    <2>5. QED
      BY <1>0, <2>2, <2>3, <2>4, SummaryMoves
  <1>5. ASSUME NEW r \in Requests, Quiet(r) PROVE SummaryInv'
    <2>1. PICK s : QuietMove(r, s)
      BY <1>5, QuietShape
    <2>2. /\ Continue(r, call[r], s, NoCopy) /\ s \in {"done", "evict"} /\ event' = event
          /\ \/ portfolio' \in {portfolio, NoPortfolio}
             \/ pc[r] = "fill" /\ call[r].op = "summary" /\ portfolio' = copy[r].total
      BY <2>1 DEF QuietMove, Goto, dbVars
    <2>3. portfolio' \in Nat \union {NoPortfolio}
      BY <1>0, <2>2 DEF SummaryInv
    <2>4. QED
      BY <1>0, <2>2, <2>3, SummaryMoves
  <1>6. CASE Expire \/ UNCHANGED vars
    <2>1. /\ UNCHANGED <<event, pc, call, copy>> /\ portfolio' \in {portfolio, NoPortfolio}
      BY <1>6 DEF Expire, vars, dbVars, frameVars
    <2>2. QED
      BY <1>0, <2>1 DEF SummaryInv
  <1>7. ASSUME NEW r \in Requests, Step(r) PROVE SummaryInv'
    BY <1>2, <1>3, <1>4, <1>5, <1>7 DEF Step, Quiet
  <1>8. QED
    BY <1>1, <1>6, <1>7 DEF Next

LEMMA SummaryInvInit == Init => SummaryInv
  BY DEF Init, FrameInit, SummaryInv

\* Every column, entry and counter of investment-svc keeps its type: no sale takes a
\* live position to zero units or below, whichever trades overlap, and the total
\* that GetPortfolioSummary caches, a sum over all active positions, is natural.
THEOREM InvestmentTypeCorrect == Spec => []TypeOK
  <1>1. InvestmentInv /\ SummaryInv => TypeOK
    BY DEF InvestmentInv, SummaryInv, FrameInv, ColumnsOK, EntriesOK, TypeOK, FrameTypeOK
  <1>2. QED
    BY <1>1, InvestmentInvAlways, SummaryInvInit, SummaryInvStep, PTL DEF Spec
==============================================================================
