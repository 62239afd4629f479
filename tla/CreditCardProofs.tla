--------------------------- MODULE CreditCardProofs ---------------------------
(***************************************************************************)
(* Proofs about CreditCard, for any number of requests, cards and          *)
(* invoices.                                                               *)
(*                                                                         *)
(* CreditInv speaks of every interleaving: what a request holds in memory  *)
(* may be stale, but it is a card within its limit and an invoice whose    *)
(* columns agree, and it is behind the transaction rows and events, never  *)
(* ahead of them.  SerialInv speaks of requests that come one at a time:   *)
(* then the copy is exact, and a cache entry that the table has overtaken  *)
(* is about to be evicted by the request in flight.  BalanceInv adds what  *)
(* links the two tables: what a request is about to write to a card        *)
(* matches what it is about to write to an invoice, so that a card's       *)
(* credit and the sum its invoices owe make up its limit.                  *)
(***************************************************************************)
EXTENDS CreditCard, FiniteSetTheorems, TLAPS

Places == {"idle", "find", "rollover", "lock", "card", "commit", "store",
           "evictInvoice", "evictCard", "fill", "done"}

Calls == [op : Ops, card : Cards \union {NoCard}, invoice : Invoices \union {NoInvoice},
          month : Nat, amount : Int \union {Keep}, active : BOOLEAN \union {Keep},
          key : Keys \union {NoKey}]

Copies == [card : CardImages, invoice : InvoiceImages, target : Invoices \union {NoInvoice}]

\* The columns of a card, and of an invoice, agree with each other.
Capped(x) == x \in CardImages /\ x.available <= x.limit

Sound(x) ==
    /\ x \in InvoiceImages
    /\ x.paid <= x.total
    /\ x.status = "paid" <=> (x.paid = x.total /\ x.total > 0)
    /\ x.status # "none" => x.card \in Cards

\* The invoice x, of which a sum g was charged and p was received, claims no more.
Behind(x, g, p) == x.total <= g /\ x.paid <= p

TablesOK ==
    /\ cardRow \in [Cards -> {"absent", "live", "deleted"}]
    /\ card \in [Cards -> CardImages]
    /\ \A c \in Cards : Capped(card[c]) /\ card[c].available >= 0
    /\ invoice \in [Invoices -> InvoiceImages]
    /\ \A i \in Invoices : Sound(invoice[i]) /\ Behind(invoice[i], charged[i], received[i])
    /\ charged \in [Invoices -> Nat]
    /\ received \in [Invoices -> Nat]
    /\ cachedCard \in [Cards -> SUBSET CardImages]
    /\ cachedInvoice \in [Invoices -> SUBSET InvoiceImages]
    /\ stored \subseteq Keys
    /\ faults \in [Faults -> Nat]

FrameOK ==
    /\ pc \in [Requests -> Places]
    /\ call \in [Requests -> Calls]
    /\ copy \in [Requests -> Copies]

\* What a request may be at a place with.
Asked(c, at) ==
    /\ c.op \in CardOps \union {"createCard", "deleteCard"} => c.card \in Cards
    /\ c.op \in InvoiceOps \union {"createInvoice"} => c.invoice \in Invoices
    /\ c.op \in {"createCard", "pay", "charge"} => c.amount \in Int
    /\ at = "rollover" => c.op = "charge"
    /\ at = "lock" => c.op = "pay"
    /\ at = "card" => c.op \in {"pay", "charge"}
    /\ at = "commit" => c.op \notin {"none", "getCard", "getInvoice"}
    /\ at = "store" => c.key # NoKey
    /\ at = "evictInvoice" => c.op \in {"pay", "charge"}

\* What it holds there: x, against the sums g charged to and p received for each invoice.
Held(c, at, x, g, p) ==
    /\ Capped(x.card) /\ Sound(x.invoice)
    /\ at \in {"rollover", "lock", "card"} => x.invoice.status # "none"
    /\ (c.op = "createCard" /\ at = "commit") => x.card.available >= 0
    /\ (c.op = "createInvoice" /\ at = "commit")
       => x.target \in Invoices /\ x.invoice.total = 0 /\ x.invoice.paid = 0
    /\ (c.op = "pay" /\ at \in {"lock", "card", "commit"})
       => /\ x.target \in Invoices /\ c.amount > 0
          /\ Behind(x.invoice, g[x.target], p[x.target] + c.amount)
    /\ (c.op = "charge" /\ at \in {"card", "commit"})
       => /\ c.amount > 0
          /\ x.target \in Invoices => Behind(x.invoice, g[x.target] + c.amount, p[x.target])

RequestOK(r) == Asked(call[r], pc[r]) /\ Held(call[r], pc[r], copy[r], charged, received)

CreditInv == TablesOK /\ FrameOK /\ \A r \in Requests : RequestOK(r)

------------------------------------------------------------------------------
(***************************************************************************)
(* Requests that come one at a time.                                       *)
(***************************************************************************)

OneAtATime == \A q, r \in Requests : InFlight(q) /\ InFlight(r) => q = r

\* The copy is what the table, or the transaction about to commit, says.
Exact(c, at, x, inv, g, p) ==
    /\ (c.op = "createInvoice" /\ at \in {"find", "commit"}) => inv[c.invoice] = BlankInvoice
    /\ (c.op = "createInvoice" /\ at = "commit") => x.target = c.invoice
    /\ (c.op = "pay" /\ at \in {"lock", "card", "commit"})
       => /\ x.invoice.total = g[x.target] /\ x.invoice.paid = p[x.target] + c.amount
    /\ (c.op = "charge" /\ at \in {"card", "commit"} /\ x.target \in Invoices)
       => /\ x.invoice.total = g[x.target] + c.amount /\ x.invoice.paid = p[x.target]
    /\ (c.op = "getInvoice" /\ at = "fill")
       => x.invoice = inv[c.invoice] /\ x.invoice.status # "none"

ExactOK(r) == InFlight(r) => Exact(call[r], pc[r], copy[r], invoice, charged, received)

Lost == faults["redis"] + faults["abandon"]

WillEvict(r, i) ==
    /\ pc[r] \in {"store", "evictInvoice"}
    /\ call[r].op \in {"pay", "charge"}
    /\ copy[r].target = i

EntryOK(i) ==
    /\ \A y \in cachedInvoice[i] : y.status # "none"
    /\ Lost = 0 => cachedInvoice[i] \subseteq {invoice[i]} \/ \E r \in Requests : WillEvict(r, i)

SerialInv ==
    /\ OneAtATime /\ InvoiceExact
    /\ \A r \in Requests : ExactOK(r)
    /\ \A i \in Invoices : EntryOK(i)

\* What a request is about to write, against the rows: a new card has all its
\* credit, a change of the limit leaves what is in use alone, and what a charge or
\* a payment takes from the credit or gives back is what it does to the invoice.
Prepared(c, at, x, rows, cards, inv) ==
    /\ (c.op = "createCard" /\ at = "commit")
       => rows[c.card] = "absent" /\ x.card.limit = x.card.available
    /\ (c.op = "updateCard" /\ at = "commit")
       => x.card.limit - x.card.available = cards[c.card].limit - cards[c.card].available
    /\ (c.op = "createInvoice" /\ at = "commit")
       => x.invoice.card \in Cards /\ rows[x.invoice.card] # "absent"
    /\ (\/ c.op = "pay" /\ at \in {"lock", "card", "commit"}
        \/ c.op = "charge" /\ at \in {"card", "commit"} /\ x.target \in Invoices)
       => x.invoice.card \in Cards /\ inv[x.target].card = x.invoice.card
    /\ (c.op \in {"pay", "charge"} /\ at = "commit")
       => /\ rows[x.invoice.card] = "live"
          /\ x.card.limit = cards[x.invoice.card].limit
          /\ x.card.available = cards[x.invoice.card].available
                                 + (IF c.op = "pay" THEN c.amount ELSE -c.amount)

PreparedOK(r) == InFlight(r) => Prepared(call[r], pc[r], copy[r], cardRow, card, invoice)

\* An invoice is of a card that exists, or did.
InvoicesHaveCards == \A i \in Invoices : invoice[i].card \in Cards => cardRow[invoice[i].card] # "absent"

BalanceInv == CreditAccounted /\ InvoicesHaveCards /\ \A r \in Requests : PreparedOK(r)

------------------------------------------------------------------------------
(***************************************************************************)
(* The domain.                                                             *)
(***************************************************************************)

LEMMA Blanks ==
    /\ BlankCard \in CardImages /\ Capped(BlankCard) /\ BlankCard.available = 0
    /\ BlankInvoice \in InvoiceImages /\ Sound(BlankInvoice)
    /\ BlankInvoice.total = 0 /\ BlankInvoice.paid = 0 /\ BlankInvoice.status = "none"
  <1>1. /\ BlankCard \in CardImages /\ BlankCard.available = 0 /\ BlankCard.limit = 0
    BY DEF BlankCard, CardImages
  <1>2. /\ BlankInvoice \in InvoiceImages /\ BlankInvoice.total = 0 /\ BlankInvoice.paid = 0
        /\ BlankInvoice.status = "none"
    BY DEF BlankInvoice, InvoiceImages
  <1>3. QED
    BY <1>1, <1>2 DEF Capped, Sound

LEMMA HoldingIs ==
    ASSUME NEW x \in CardImages, NEW y \in InvoiceImages, NEW i \in Invoices \union {NoInvoice}
    PROVE  /\ Holding(x, y, i) \in Copies
           /\ Holding(x, y, i).card = x /\ Holding(x, y, i).invoice = y /\ Holding(x, y, i).target = i
  BY DEF Holding, Copies

LEMMA CopyIs ==
    ASSUME NEW x \in Copies
    PROVE  x.card \in CardImages /\ x.invoice \in InvoiceImages /\ x.target \in Invoices \union {NoInvoice}
  BY DEF Copies

LEMMA NoCopyIs ==
    /\ NoCopy \in Copies /\ Capped(NoCopy.card) /\ Sound(NoCopy.invoice)
    /\ NoCopy.target = NoInvoice
  BY Blanks, HoldingIs DEF NoCopy

LEMMA NoCallIs == NoCall \in Calls /\ NoCall.op = "none" /\ NoCall.key = NoKey
  BY DEF NoCall, InvoiceCall, Calls, Ops, CardOps, InvoiceOps

LEMMA NewCreditCardIs ==
    ASSUME NEW l \in Int, l >= 0
    PROVE  Capped(NewCreditCard(l)) /\ NewCreditCard(l).available >= 0
  BY DEF NewCreditCard, Capped, CardImages

LEMMA NewInvoiceIs ==
    ASSUME NEW c \in Cards, NEW m \in Nat
    PROVE  /\ Sound(NewInvoice(c, m)) /\ NewInvoice(c, m).status = "open"
           /\ NewInvoice(c, m).total = 0 /\ NewInvoice(c, m).paid = 0
  BY DEF NewInvoice, Sound, InvoiceImages

LEMMA ApplyUpdateIs ==
    ASSUME NEW x, Capped(x), NEW limit \in Int \union {Keep}, limit # Keep => limit >= 0,
           NEW active \in BOOLEAN \union {Keep}
    PROVE  Capped(ApplyUpdate(x, limit, active))
  <1> DEFINE l == IF limit = Keep THEN x.limit ELSE limit
             a == IF limit = Keep THEN x.available ELSE x.available + (limit - x.limit)
             b == IF active = Keep THEN x.active ELSE active
             y == [limit |-> l, available |-> a, active |-> b]
  <1>1. x.limit \in Nat /\ x.available \in Int /\ x.active \in BOOLEAN /\ x.available <= x.limit
    BY DEF Capped, CardImages
  <1>2. l \in Nat /\ a \in Int /\ a <= l
    BY <1>1
  <1>3. b \in BOOLEAN
    BY <1>1
  <1> HIDE DEF l, a, b
  <1>4. y \in CardImages /\ y.available = a /\ y.limit = l
    BY <1>2, <1>3 DEF CardImages
  <1>5. ApplyUpdate(x, limit, active) = y
    BY DEF ApplyUpdate, l, a, b
  <1> HIDE DEF y
  <1>6. QED
    BY <1>2, <1>4, <1>5 DEF Capped

LEMMA RestoreIs ==
    ASSUME NEW x, Capped(x), NEW a \in Int
    PROVE  Capped(Restore(x, a))
  <1> DEFINE v == IF x.available + a > x.limit THEN x.limit ELSE x.available + a
  <1>1. x \in CardImages /\ x.limit \in Nat /\ x.available \in Int
    BY DEF Capped, CardImages
  <1>2. v \in Int /\ v <= x.limit
    BY <1>1
  <1>3. Restore(x, a) = [x EXCEPT !.available = v]
    BY DEF Restore
  <1> HIDE DEF v
  <1>4. QED
    BY <1>1, <1>2, <1>3 DEF Capped, CardImages

LEMMA SpendIs ==
    ASSUME NEW x, Capped(x), NEW a \in Int, a > 0
    PROVE  Capped([x EXCEPT !.available = x.available - a])
  BY DEF Capped, CardImages

LEMMA AddIs ==
    ASSUME NEW x, Sound(x), NEW a \in Int, CanAdd(x, a)
    PROVE  /\ Sound(AddTransactionAmount(x, a)) /\ AddTransactionAmount(x, a).status # "none"
           /\ AddTransactionAmount(x, a).total = x.total + a
           /\ AddTransactionAmount(x, a).paid = x.paid
  <1>1. /\ x \in InvoiceImages /\ x.total \in Nat /\ x.paid \in Nat /\ x.paid <= x.total
        /\ x.status = "open" /\ a > 0 /\ x.card \in Cards
    BY DEF Sound, InvoiceImages, CanAdd
  <1> DEFINE y == [x EXCEPT !.total = x.total + a]
  <1>2. /\ y \in InvoiceImages /\ y.total = x.total + a /\ y.paid = x.paid /\ y.status = x.status
        /\ y.card = x.card
    BY <1>1 DEF InvoiceImages
  <1>3. AddTransactionAmount(x, a) = y
    BY DEF AddTransactionAmount
  <1> HIDE DEF y
  <1>4. QED
    BY <1>1, <1>2, <1>3 DEF Sound

LEMMA PayIs ==
    ASSUME NEW x, Sound(x), NEW a \in Int, CanPay(x, a), x.status # "none"
    PROVE  /\ Sound(Pay(x, a)) /\ Pay(x, a).status # "none"
           /\ Pay(x, a).total = x.total /\ Pay(x, a).paid = x.paid + a
  <1>1. /\ x \in InvoiceImages /\ x.total \in Nat /\ x.paid \in Nat /\ x.paid <= x.total
        /\ x.status = "open" /\ a > 0 /\ x.card \in Cards /\ x.month \in Nat
        /\ a <= x.total - x.paid
    BY DEF Sound, InvoiceImages, CanPay
  <1> DEFINE s == IF x.paid + a >= x.total THEN "paid" ELSE x.status
             y == [card |-> x.card, month |-> x.month, total |-> x.total, paid |-> x.paid + a,
                   status |-> s]
  <1>2. s \in {"open", "paid"} /\ (s = "paid" <=> x.paid + a = x.total)
    BY <1>1
  <1> HIDE DEF s
  <1>3. /\ y \in InvoiceImages /\ y.total = x.total /\ y.paid = x.paid + a /\ y.status = s
        /\ y.card = x.card
    BY <1>1, <1>2 DEF InvoiceImages
  <1>4. Pay(x, a) = y
    BY DEF Pay, s
  <1> HIDE DEF y
  <1>5. QED
    BY <1>1, <1>2, <1>3, <1>4 DEF Sound

------------------------------------------------------------------------------
(***************************************************************************)
(* A step of request r.                                                    *)
(***************************************************************************)

LEMMA BeginEffect ==
    ASSUME FrameOK, NEW r \in Requests, NEW c, NEW s, NEW x, Begin(r, c, s, x)
    PROVE  /\ pc'[r] = s /\ copy'[r] = x
           /\ call'[r] = IF s = "done" /\ c.key = NoKey THEN NoCall ELSE c
           /\ \A q \in Requests : q # r => /\ pc'[q] = pc[q] /\ call'[q] = call[q]
                                           /\ copy'[q] = copy[q]
           /\ (c \in Calls /\ s \in Places /\ x \in Copies) => FrameOK'
  <1> DEFINE d == IF s = "done" /\ c.key = NoKey THEN NoCall ELSE c
  <1>1. /\ pc' = [pc EXCEPT ![r] = s] /\ call' = [call EXCEPT ![r] = d]
        /\ copy' = [copy EXCEPT ![r] = x]
    BY DEF Begin
  <1>2. c \in Calls => d \in Calls
    BY NoCallIs
  <1>3. pc \in [Requests -> Places] /\ call \in [Requests -> Calls] /\ copy \in [Requests -> Copies]
    BY DEF FrameOK
  <1>4. call'[r] = d /\ (d \in Calls => call' \in [Requests -> Calls])
        /\ \A q \in Requests : q # r => call'[q] = call[q]
    <2> HIDE DEF d
    <2>1. QED
      BY <1>1, <1>3
  <1>5. /\ pc'[r] = s /\ (s \in Places => pc' \in [Requests -> Places])
        /\ copy'[r] = x /\ (x \in Copies => copy' \in [Requests -> Copies])
        /\ \A q \in Requests : q # r => pc'[q] = pc[q] /\ copy'[q] = copy[q]
    BY <1>1, <1>3
  <1>6. QED
    BY <1>2, <1>4, <1>5 DEF FrameOK

\* What is charged and received only grows, so what others hold stays behind it.
Grows == \A i \in Invoices : charged[i] <= charged'[i] /\ received[i] <= received'[i]

LEMMA StaysBehind ==
    ASSUME TablesOK, TablesOK', Grows, NEW c \in Calls, NEW at, NEW x \in Copies, Asked(c, at),
           Held(c, at, x, charged, received)
    PROVE  Held(c, at, x, charged', received')
  <1>1. x.invoice.total \in Nat /\ x.invoice.paid \in Nat
    BY CopyIs DEF InvoiceImages
  <1>2. c.op \in {"pay", "charge"} => c.amount \in Int
    BY DEF Asked
  <1>3. ASSUME NEW i \in Invoices
        PROVE  /\ charged[i] \in Nat /\ charged'[i] \in Nat /\ charged[i] <= charged'[i]
               /\ received[i] \in Nat /\ received'[i] \in Nat /\ received[i] <= received'[i]
    BY DEF TablesOK, Grows
  <1>4. (c.op = "pay" /\ at \in {"lock", "card", "commit"})
        => Behind(x.invoice, charged'[x.target], received'[x.target] + c.amount)
    <2> SUFFICES ASSUME c.op = "pay", at \in {"lock", "card", "commit"}
                 PROVE  Behind(x.invoice, charged'[x.target], received'[x.target] + c.amount)
      OBVIOUS
    <2>1. x.target \in Invoices /\ Behind(x.invoice, charged[x.target], received[x.target] + c.amount)
      BY DEF Held
    <2>2. QED
      BY <1>1, <1>2, <1>3, <2>1 DEF Behind
  <1>5. (c.op = "charge" /\ at \in {"card", "commit"} /\ x.target \in Invoices)
        => Behind(x.invoice, charged'[x.target] + c.amount, received'[x.target])
    <2> SUFFICES ASSUME c.op = "charge", at \in {"card", "commit"}, x.target \in Invoices
                 PROVE  Behind(x.invoice, charged'[x.target] + c.amount, received'[x.target])
      OBVIOUS
    <2>1. Behind(x.invoice, charged[x.target] + c.amount, received[x.target])
      BY DEF Held
    <2>2. QED
      BY <1>1, <1>2, <1>3, <2>1 DEF Behind
  <1>6. QED
    BY <1>4, <1>5 DEF Held

LEMMA Moves ==
    ASSUME CreditInv, TablesOK', Grows, NEW r \in Requests, NEW c \in Calls, NEW s \in Places,
           NEW x \in Copies, Begin(r, c, s, x), Asked(c, s), Held(c, s, x, charged', received')
    PROVE  CreditInv'
  <1>0. TablesOK /\ FrameOK
    BY DEF CreditInv
  <1>1. /\ pc'[r] = s /\ copy'[r] = x
        /\ call'[r] = IF s = "done" /\ c.key = NoKey THEN NoCall ELSE c
        /\ \A q \in Requests : q # r => pc'[q] = pc[q] /\ call'[q] = call[q] /\ copy'[q] = copy[q]
        /\ FrameOK'
    BY <1>0, BeginEffect
  <1>2. RequestOK(r)'
    <2>1. CASE call'[r] = c
      BY <1>1, <2>1 DEF RequestOK
    <2>2. CASE s = "done" /\ call'[r] = NoCall
      <3>1. Asked(NoCall, "done") /\ Held(NoCall, "done", x, charged', received')
        BY NoCallIs DEF Asked, Held, CardOps, InvoiceOps
      <3>2. QED
        BY <1>1, <2>2, <3>1 DEF RequestOK
    <2>3. QED
      BY <1>1, <2>1, <2>2
  <1>3. ASSUME NEW q \in Requests, q # r PROVE RequestOK(q)'
    <2>1. Asked(call[q], pc[q]) /\ Held(call[q], pc[q], copy[q], charged, received)
      BY DEF CreditInv, RequestOK
    <2>2. call[q] \in Calls /\ copy[q] \in Copies
      BY <1>0 DEF FrameOK
    <2>3. Held(call[q], pc[q], copy[q], charged', received')
      BY <1>0, <2>1, <2>2, StaysBehind
    <2>4. QED
      BY <1>1, <1>3, <2>1, <2>3 DEF RequestOK
  <1>4. QED
    BY <1>1, <1>2, <1>3 DEF CreditInv

\* A step that changes no table, but perhaps Redis.
LEMMA QuietMoves ==
    ASSUME CreditInv, UNCHANGED dbVars, cachedCard' \in [Cards -> SUBSET CardImages],
           cachedInvoice' \in [Invoices -> SUBSET InvoiceImages], stored' \subseteq Keys,
           faults' \in [Faults -> Nat], NEW r \in Requests, NEW c \in Calls, NEW s \in Places,
           NEW x \in Copies, Begin(r, c, s, x), Asked(c, s), Held(c, s, x, charged, received)
    PROVE  CreditInv'
  <1>1. UNCHANGED <<cardRow, card, invoice, charged, received>>
    BY DEF dbVars
  <1>2. TablesOK' /\ Grows
    BY <1>1 DEF CreditInv, TablesOK, Grows
  <1>3. QED
    BY <1>1, <1>2, Moves

LEMMA FaultCounts ==
    ASSUME TablesOK, NEW f \in Faults, Fault(f)
    PROVE  /\ faults' \in [Faults -> Nat] /\ Lost \in Nat
           /\ f \in {"redis", "abandon"} => Lost' = Lost + 1
           /\ f = "db" => Lost' = Lost
  <1>1. faults \in [Faults -> Nat] /\ faults' = [faults EXCEPT ![f] = @ + 1]
    BY DEF TablesOK, Fault
  <1>2. faults' \in [Faults -> Nat]
    BY <1>1
  <1>3. /\ faults["redis"] \in Nat /\ faults["abandon"] \in Nat
        /\ faults'["redis"] = IF f = "redis" THEN faults["redis"] + 1 ELSE faults["redis"]
        /\ faults'["abandon"] = IF f = "abandon" THEN faults["abandon"] + 1 ELSE faults["abandon"]
    BY <1>1 DEF Faults
  <1>4. QED
    BY <1>2, <1>3 DEF Lost

\* The request leaves, with or without a fault.
LEMMA ReturnMoves ==
    ASSUME CreditInv, NEW r \in Requests, Return(r), UNCHANGED <<dbVars, redisVars>>,
           faults' = faults \/ \E f \in Faults : Fault(f)
    PROVE  CreditInv'
  <1>0. TablesOK /\ FrameOK /\ RequestOK(r)
    BY DEF CreditInv
  <1>1. UNCHANGED dbVars /\ UNCHANGED <<cachedCard, cachedInvoice, stored>>
    BY DEF redisVars
  <1>2. faults' \in [Faults -> Nat]
    BY <1>0, FaultCounts DEF TablesOK
  <1>3. Begin(r, call[r], "done", NoCopy) /\ call[r] \in Calls
    BY <1>0 DEF Return, Goto, FrameOK
  <1>4. Asked(call[r], "done")
    BY <1>0 DEF RequestOK, Asked
  <1>5. Held(call[r], "done", NoCopy, charged, received)
    BY NoCopyIs DEF Held
  <1>6. "done" \in Places
    BY DEF Places
  <1>7. QED
    BY <1>0, <1>1, <1>2, <1>3, <1>4, <1>5, <1>6, NoCopyIs, QuietMoves DEF TablesOK

------------------------------------------------------------------------------
(***************************************************************************)
(* A request arrives: any interleaving.                                    *)
(***************************************************************************)

LEMMA CardCallIs ==
    ASSUME NEW op \in Ops, NEW c \in Cards, NEW l \in Int \union {Keep},
           NEW on \in BOOLEAN \union {Keep}, NEW k \in Keys \union {NoKey}
    PROVE  LET q == CardCall(op, c, l, on, k) IN
           q \in Calls /\ q.op = op /\ q.card = c /\ q.amount = l /\ q.key = k
  BY DEF CardCall, Calls

LEMMA InvoiceCallIs ==
    ASSUME NEW op \in Ops, NEW i \in Invoices, NEW a \in Int, NEW k \in Keys \union {NoKey}
    PROVE  LET q == InvoiceCall(op, i, a, k) IN
           q \in Calls /\ q.op = op /\ q.invoice = i /\ q.amount = a /\ q.key = k
  BY DEF InvoiceCall, Calls

LEMMA ArrivesFaults ==
    ASSUME TablesOK, NEW r, NEW c, NEW up \in BOOLEAN, Arrives(r, c, up)
    PROVE  faults' \in [Faults -> Nat] /\ (Lost' = 0 => Lost = 0)
  <1>1. CASE up
    BY <1>1 DEF Arrives, TablesOK, Lost
  <1>2. CASE ~up
    <2>1. Fault("redis") /\ "redis" \in Faults
      BY <1>2 DEF Arrives, Faults
    <2>2. QED
      BY <2>1, FaultCounts
  <1>3. QED
    BY <1>1, <1>2

LEMMA ArrivalMoves ==
    ASSUME CreditInv, NEW r \in Requests, NEW c \in Calls, NEW up \in BOOLEAN,
           NEW s \in {"done", "find", "commit"}, NEW x \in Copies, Arrives(r, c, up),
           Begin(r, c, s, x), UNCHANGED dbVars, UNCHANGED cachedInvoice, UNCHANGED stored,
           cachedCard' \in [Cards -> SUBSET CardImages], Asked(c, s),
           Held(c, s, x, charged, received)
    PROVE  CreditInv'
  <1>0. TablesOK
    BY DEF CreditInv
  <1>1. faults' \in [Faults -> Nat]
    BY <1>0, ArrivesFaults
  <1>2. s \in Places
    BY DEF Places
  <1>3. cachedInvoice' \in [Invoices -> SUBSET InvoiceImages] /\ stored' \subseteq Keys
    BY <1>0 DEF TablesOK
  <1>4. QED
    BY <1>1, <1>2, <1>3, QuietMoves

LEMMA ArrivalCredit ==
    ASSUME CreditInv, NEW r \in Requests, Arrival(r)
    PROVE  CreditInv'
  <1>0. TablesOK
    BY DEF CreditInv
  <1>1. PICK up \in BOOLEAN, k \in Keys \union {NoKey} :
        \/ \E c \in Cards :
              \/ \E l \in Limits : CreateCreditCard(r, c, l, k, up)
              \/ \E l \in Limits \union {Keep}, on \in BOOLEAN \union {Keep} :
                    UpdateCreditCard(r, c, l, on, k, up)
              \/ \E i \in Invoices, m \in 1..(LastMonth + 1) : CreateInvoice(r, c, i, m, k, up)
              \/ k = NoKey /\ DeleteCreditCard(r, c, up)
              \/ k = NoKey /\ GetCreditCard(r, c, up)
        \/ \E i \in Invoices :
              \/ \E a \in Amounts : PayInvoice(r, i, a, k, up)
              \/ \E a \in Amounts : AddTransaction(r, i, a, k, up)
              \/ k = NoKey /\ GetInvoice(r, i, up)
    BY DEF Arrival
  <1>2. Limits \subseteq Int /\ Amounts \subseteq Int /\ LastMonth \in Nat
    BY ConstantsAssumption
  <1>3. Ops = {"updateCard", "createInvoice", "getCard", "pay", "charge", "getInvoice", "none",
               "createCard", "deleteCard"}
    BY DEF Ops, CardOps, InvoiceOps
  <1>4. ASSUME NEW c \in Calls, NEW s \in {"done", "find"}, Arrives(r, c, up),
               Begin(r, c, s, NoCopy), UNCHANGED <<dbVars, redisVars>>, Asked(c, "find")
        PROVE  CreditInv'
    <2>1. UNCHANGED dbVars /\ UNCHANGED <<cachedCard, cachedInvoice, stored>>
      BY <1>4 DEF redisVars
    <2>2. /\ Asked(c, s) /\ cachedCard' \in [Cards -> SUBSET CardImages]
          /\ Held(c, s, NoCopy, charged, received)
      BY <1>0, <1>4, <2>1, NoCopyIs DEF Asked, TablesOK, Held
    <2>3. QED
      BY <1>4, <2>1, <2>2, NoCopyIs, ArrivalMoves
  <1>5. ASSUME NEW c \in Cards, NEW l \in Limits, CreateCreditCard(r, c, l, k, up) PROVE CreditInv'
    <2> DEFINE q == CardCall("createCard", c, l, Keep, k)
               y == NewCreditCard(l)
               x == Holding(y, BlankInvoice, NoInvoice)
    <2>1. q \in Calls /\ q.op = "createCard" /\ q.card = c /\ q.amount = l
      BY <1>2, <1>3 DEF CardCall, Calls
    <2>2. /\ Arrives(r, q, up) /\ UNCHANGED dbVars /\ UNCHANGED <<cachedCard, cachedInvoice, stored>>
          /\ Begin(r, q, "done", NoCopy) \/ (l >= 0 /\ Begin(r, q, "commit", x))
      BY <1>2, <1>5 DEF CreateCreditCard, redisVars
    <2> HIDE DEF q
    <2>3. Asked(q, "done") /\ Asked(q, "commit")
      BY <1>2, <2>1 DEF Asked, InvoiceOps, CardOps
    <2>4. cachedCard' \in [Cards -> SUBSET CardImages]
      BY <1>0, <2>2 DEF TablesOK
    <2>5. CASE Begin(r, q, "done", NoCopy)
      <3>1. Held(q, "done", NoCopy, charged, received)
        BY NoCopyIs DEF Held
      <3>2. QED
        BY <2>1, <2>2, <2>3, <2>4, <2>5, <3>1, NoCopyIs, ArrivalMoves
    <2>6. CASE l >= 0 /\ Begin(r, q, "commit", x)
      <3>1. Capped(y) /\ y.available >= 0
        BY <1>2, <2>6, NewCreditCardIs
      <3> HIDE DEF y
      <3>2. y \in CardImages
        BY <3>1 DEF Capped
      <3>3. x \in Copies /\ x.card = y /\ x.invoice = BlankInvoice
        BY <3>2, Blanks, HoldingIs
      <3> HIDE DEF x
      <3>4. Held(q, "commit", x, charged, received)
        BY <2>1, <3>1, <3>3, Blanks DEF Held
      <3>5. QED
        BY <2>1, <2>2, <2>3, <2>4, <2>6, <3>3, <3>4, ArrivalMoves
    <2>7. QED
      BY <2>2, <2>5, <2>6

  <1>6. ASSUME NEW c \in Cards, NEW l \in Limits \union {Keep}, NEW on \in BOOLEAN \union {Keep},
               UpdateCreditCard(r, c, l, on, k, up)
        PROVE  CreditInv'
    <2> DEFINE q == CardCall("updateCard", c, l, on, k)
               s == IF Replayed(k, up) THEN "done" ELSE "find"
    <2>1. q \in Calls /\ q.op = "updateCard" /\ q.card = c
      BY <1>2, <1>3 DEF CardCall, Calls
    <2>2. Arrives(r, q, up) /\ Begin(r, q, s, NoCopy) /\ UNCHANGED <<dbVars, redisVars>>
      BY <1>6 DEF UpdateCreditCard
    <2> HIDE DEF q
    <2>3. Asked(q, "find") /\ s \in {"done", "find"}
      BY <2>1 DEF Asked, InvoiceOps, CardOps
    <2> HIDE DEF s
    <2>4. QED
      BY <1>4, <2>1, <2>2, <2>3
  <1>7. ASSUME NEW c \in Cards, NEW i \in Invoices, NEW m \in 1..(LastMonth + 1),
               CreateInvoice(r, c, i, m, k, up)
        PROVE  CreditInv'
    <2> DEFINE q == [op |-> "createInvoice", card |-> c, invoice |-> i, month |-> m,
                     amount |-> 0, active |-> Keep, key |-> k]
               s == IF Replayed(k, up) THEN "done" ELSE "find"
    <2>1. q \in Calls /\ q.op = "createInvoice" /\ q.card = c /\ q.invoice = i
      BY <1>2, <1>3 DEF Calls
    <2>2. Arrives(r, q, up) /\ Begin(r, q, s, NoCopy) /\ UNCHANGED <<dbVars, redisVars>>
      BY <1>7 DEF CreateInvoice
    <2> HIDE DEF q
    <2>3. Asked(q, "find") /\ s \in {"done", "find"}
      BY <2>1 DEF Asked, InvoiceOps, CardOps
    <2> HIDE DEF s
    <2>4. QED
      BY <1>4, <2>1, <2>2, <2>3
  <1>8. ASSUME NEW c \in Cards, DeleteCreditCard(r, c, up) PROVE CreditInv'
    <2> DEFINE q == CardCall("deleteCard", c, 0, Keep, NoKey)
    <2>1. q \in Calls /\ q.op = "deleteCard" /\ q.card = c
      BY <1>3 DEF CardCall, Calls
    <2>2. /\ Arrives(r, q, up) /\ Begin(r, q, "commit", NoCopy) /\ UNCHANGED dbVars
          /\ UNCHANGED cachedInvoice /\ UNCHANGED stored
          /\ cachedCard' = IF up THEN [cachedCard EXCEPT ![c] = {}] ELSE cachedCard
      BY <1>8 DEF DeleteCreditCard
    <2> HIDE DEF q
    <2>3. Asked(q, "commit") /\ Held(q, "commit", NoCopy, charged, received)
      BY <2>1, NoCopyIs DEF Asked, Held, InvoiceOps, CardOps
    <2>4. cachedCard' \in [Cards -> SUBSET CardImages]
      BY <1>0, <2>2 DEF TablesOK
    <2>5. QED
      BY <2>1, <2>2, <2>3, <2>4, NoCopyIs, ArrivalMoves
  <1>9. ASSUME NEW c \in Cards, GetCreditCard(r, c, up) PROVE CreditInv'
    <2> DEFINE q == CardCall("getCard", c, 0, Keep, NoKey)
               s == IF up /\ cachedCard[c] # {} THEN "done" ELSE "find"
    <2>1. q \in Calls /\ q.op = "getCard" /\ q.card = c
      BY <1>3 DEF CardCall, Calls
    <2>2. Arrives(r, q, up) /\ Begin(r, q, s, NoCopy) /\ UNCHANGED <<dbVars, redisVars>>
      BY <1>9 DEF GetCreditCard
    <2> HIDE DEF q
    <2>3. Asked(q, "find") /\ s \in {"done", "find"}
      BY <2>1 DEF Asked, InvoiceOps, CardOps
    <2> HIDE DEF s
    <2>4. QED
      BY <1>4, <2>1, <2>2, <2>3
  <1>10. ASSUME NEW i \in Invoices, NEW a \in Amounts,
                PayInvoice(r, i, a, k, up) \/ AddTransaction(r, i, a, k, up)
         PROVE  CreditInv'
    <2> DEFINE q(op) == InvoiceCall(op, i, a, k)
               s == IF Replayed(k, up) THEN "done" ELSE "find"
    <2>1. PICK op \in {"pay", "charge"} :
             /\ Arrives(r, q(op), up) /\ Begin(r, q(op), s, NoCopy)
             /\ UNCHANGED <<dbVars, redisVars>>
      BY <1>10 DEF PayInvoice, AddTransaction
    <2>2. q(op) \in Calls /\ q(op).op = op /\ q(op).invoice = i /\ q(op).amount = a
      BY <1>2, <1>3, InvoiceCallIs
    <2> HIDE DEF q
    <2>3. Asked(q(op), "find") /\ s \in {"done", "find"}
      BY <1>2, <2>2 DEF Asked, InvoiceOps, CardOps
    <2> HIDE DEF s
    <2>4. QED
      BY <1>4, <2>1, <2>2, <2>3
  <1>11. ASSUME NEW i \in Invoices, GetInvoice(r, i, up) PROVE CreditInv'
    <2> DEFINE q == InvoiceCall("getInvoice", i, 0, NoKey)
               s == IF up /\ cachedInvoice[i] # {} THEN "done" ELSE "find"
    <2>1. q \in Calls /\ q.op = "getInvoice" /\ q.invoice = i
      BY <1>3, InvoiceCallIs
    <2>2. Arrives(r, q, up) /\ Begin(r, q, s, NoCopy) /\ UNCHANGED <<dbVars, redisVars>>
      BY <1>11 DEF GetInvoice
    <2> HIDE DEF q
    <2>3. Asked(q, "find") /\ s \in {"done", "find"}
      BY <2>1 DEF Asked, InvoiceOps, CardOps
    <2> HIDE DEF s
    <2>4. QED
      BY <1>4, <2>1, <2>2, <2>3
  <1>12. QED
    BY <1>1, <1>5, <1>6, <1>7, <1>8, <1>9, <1>10, <1>11

------------------------------------------------------------------------------
(***************************************************************************)
(* Reads, transactions and Redis: any interleaving.                        *)
(***************************************************************************)

LEMMA ReadMoves ==
    ASSUME CreditInv, NEW r \in Requests, NEW at, NEW s \in Places, NEW x \in Copies,
           Reads(r, at), Goto(r, s, x), Asked(call[r], s),
           Held(call[r], s, x, charged, received)
    PROVE  CreditInv'
  <1>1. UNCHANGED dbVars /\ UNCHANGED <<cachedCard, cachedInvoice, stored, faults>>
    BY DEF Reads, redisVars
  <1>2. Begin(r, call[r], s, x) /\ call[r] \in Calls
    BY DEF Goto, CreditInv, FrameOK
  <1>3. QED
    BY <1>1, <1>2, QuietMoves DEF CreditInv, TablesOK

LEMMA ReadRefused ==
    ASSUME CreditInv, NEW r \in Requests,
           \/ Refused(r) \/ RolloverRefused(r) \/ ReadCardRefused(r)
           \/ RolloverBreaksForeignKey(r) \/ CheckFails(r) \/ DatabaseFails(r) \/ Abandon(r)
    PROVE  CreditInv'
  <1>1. /\ Return(r) /\ UNCHANGED <<dbVars, redisVars>>
        /\ faults' = faults \/ Fault("db") \/ Fault("abandon")
    BY DEF Refused, RolloverRefused, ReadCardRefused, RolloverBreaksForeignKey, CheckFails,
           DatabaseFails, Abandon, Reads
  <1>2. QED
    BY <1>1, ReturnMoves DEF Faults

LEMMA FindCardCredit ==
    ASSUME CreditInv, NEW r \in Requests, FindCard(r)
    PROVE  CreditInv'
  <1> DEFINE c == call[r]
             y == card[c.card]
  <1>0. /\ TablesOK /\ RequestOK(r) /\ c \in Calls
    BY DEF CreditInv, FrameOK
  <1>1. /\ Reads(r, "find") /\ c.op \in CardOps /\ AcceptsCard(c, y)
    BY DEF FindCard
  <1>2. c.card \in Cards /\ c.amount \in Int \union {Keep} /\ c.active \in BOOLEAN \union {Keep}
        /\ c.invoice \in Invoices \union {NoInvoice} /\ c.month \in Nat
    BY <1>0, <1>1 DEF RequestOK, Asked, Calls
  <1>3. Capped(y) /\ y \in CardImages
    BY <1>0, <1>2 DEF TablesOK, Capped
  <1>4. NoInvoice \in Invoices \union {NoInvoice} /\ "commit" \in Places /\ "fill" \in Places
    BY DEF Places
  <1>5. ASSUME c.op = "updateCard",
               Goto(r, "commit", Holding(ApplyUpdate(y, c.amount, c.active), BlankInvoice, NoInvoice))
        PROVE  CreditInv'
    <2> DEFINE z == ApplyUpdate(y, c.amount, c.active)
               x == Holding(z, BlankInvoice, NoInvoice)
    <2>1. Capped(z)
      <3>1. c.amount # Keep => c.amount >= 0
        BY <1>1, <1>5 DEF AcceptsCard
      <3>2. QED
        BY <1>2, <1>3, <3>1, ApplyUpdateIs
    <2> HIDE DEF z
    <2>2. x \in Copies /\ x.card = z /\ x.invoice = BlankInvoice
      BY <1>4, <2>1, Blanks, HoldingIs DEF Capped
    <2>3. Goto(r, "commit", x)
      BY <1>5 DEF z
    <2> HIDE DEF x
    <2>4. Held(c, "commit", x, charged, received)
      BY <1>5, <2>1, <2>2, Blanks DEF Held
    <2>5. Asked(c, "commit")
      BY <1>0, <1>1, <1>5 DEF RequestOK, Asked
    <2>6. QED
      BY <1>1, <1>4, <2>2, <2>3, <2>4, <2>5, ReadMoves
  <1>6. ASSUME c.op = "createInvoice",
               Goto(r, "commit", Holding(BlankCard, NewInvoice(c.card, c.month), c.invoice))
        PROVE  CreditInv'
    <2> DEFINE z == NewInvoice(c.card, c.month)
               x == Holding(BlankCard, z, c.invoice)
    <2>1. Sound(z) /\ z.total = 0 /\ z.paid = 0
      BY <1>2, NewInvoiceIs
    <2> HIDE DEF z
    <2>2. x \in Copies /\ x.card = BlankCard /\ x.invoice = z /\ x.target = c.invoice
      BY <1>2, <2>1, Blanks, HoldingIs DEF Sound
    <2>3. Goto(r, "commit", x)
      BY <1>6 DEF z
    <2> HIDE DEF x
    <2>4. Asked(c, "commit") /\ c.invoice \in Invoices
      BY <1>0, <1>1, <1>6 DEF RequestOK, Asked
    <2>5. Held(c, "commit", x, charged, received)
      BY <1>6, <2>1, <2>2, <2>4, Blanks DEF Held
    <2>6. QED
      BY <1>1, <1>4, <2>2, <2>3, <2>4, <2>5, ReadMoves
  <1>7. ASSUME c.op = "getCard", Goto(r, "fill", Holding(y, BlankInvoice, NoInvoice))
        PROVE  CreditInv'
    <2> DEFINE x == Holding(y, BlankInvoice, NoInvoice)
    <2>1. x \in Copies /\ x.card = y /\ x.invoice = BlankInvoice
      BY <1>3, <1>4, Blanks, HoldingIs
    <2>2. Goto(r, "fill", x)
      BY <1>7
    <2> HIDE DEF x
    <2>3. Asked(c, "fill") /\ Held(c, "fill", x, charged, received)
      BY <1>0, <1>1, <1>3, <1>7, <2>1, Blanks DEF RequestOK, Asked, Held
    <2>4. QED
      BY <1>1, <1>4, <2>1, <2>2, <2>3, ReadMoves
  <1>8. QED
    BY <1>5, <1>6, <1>7 DEF FindCard

\* The handlers' arithmetic on the copy keeps it behind the rows.
LEMMA PaidBehind ==
    ASSUME NEW x, Sound(x), NEW a \in Int, CanPay(x, a), x.status # "none", NEW g \in Int, NEW p \in Int,
           Behind(x, g, p)
    PROVE  Behind(Pay(x, a), g, p + a)
  BY PayIs DEF Behind, Sound, InvoiceImages

LEMMA AddedBehind ==
    ASSUME NEW x, Sound(x), NEW a \in Int, CanAdd(x, a), NEW g \in Int, NEW p \in Int, Behind(x, g, p)
    PROVE  Behind(AddTransactionAmount(x, a), g + a, p)
  BY AddIs DEF Behind, Sound, InvoiceImages

LEMMA FindInvoiceCredit ==
    ASSUME CreditInv, NEW r \in Requests, FindInvoice(r) \/ StartRollover(r)
    PROVE  CreditInv'
  <1> DEFINE c == call[r]
             i == c.invoice
             y == invoice[i]
  <1>0. /\ TablesOK /\ RequestOK(r) /\ c \in Calls
    BY DEF CreditInv, FrameOK
  <1>1. Reads(r, "find") /\ c.op \in InvoiceOps
    BY DEF FindInvoice, StartRollover, InvoiceOps
  <1>2. i \in Invoices /\ c.amount \in Int \union {Keep}
    BY <1>0, <1>1 DEF RequestOK, Asked, Calls
  <1>3. /\ Sound(y) /\ y \in InvoiceImages /\ Behind(y, charged[i], received[i])
        /\ charged[i] \in Nat /\ received[i] \in Nat
    BY <1>0, <1>2 DEF TablesOK, Sound
  <1>4. ASSUME NEW z, Sound(z), NEW s \in {"lock", "card", "fill", "rollover"},
               NEW t \in {i, NoInvoice}, Goto(r, s, Holding(BlankCard, z, t)), z.status # "none",
               Asked(c, s),
               c.op = "pay" => s = "lock" /\ t = i /\ c.amount > 0
                               /\ Behind(z, charged[i], received[i] + c.amount),
               c.op = "charge" => s = "rollover" \/
                               (t = i /\ c.amount > 0 /\ Behind(z, charged[i] + c.amount, received[i]))
        PROVE  CreditInv'
    <2> DEFINE x == Holding(BlankCard, z, t)
    <2>1. x \in Copies /\ x.card = BlankCard /\ x.invoice = z /\ x.target = t /\ s \in Places
      BY <1>2, <1>4, Blanks, HoldingIs DEF Sound, Places
    <2>2. Goto(r, s, x)
      BY <1>4
    <2> HIDE DEF x
    <2>3. Held(c, s, x, charged, received)
      BY <1>1, <1>2, <1>4, <2>1, Blanks DEF Held, InvoiceOps
    <2>4. QED
      BY <1>1, <1>4, <2>1, <2>2, <2>3, ReadMoves
  <1>5. CASE FindInvoice(r)
    <2>1. AcceptsInvoice(c, y)
      BY <1>5 DEF FindInvoice
    <2>2. ASSUME c.op = "pay", Goto(r, "lock", Holding(BlankCard, Pay(y, c.amount), i))
          PROVE  CreditInv'
      <3>1. CanPay(y, c.amount) /\ y.status # "none" /\ c.amount \in Int /\ c.amount > 0
        BY <1>0, <2>1, <2>2 DEF AcceptsInvoice, CanPay, RequestOK, Asked
      <3>2. /\ Sound(Pay(y, c.amount)) /\ Pay(y, c.amount).status # "none"
            /\ Behind(Pay(y, c.amount), charged[i], received[i] + c.amount)
        BY <1>3, <3>1, PayIs, PaidBehind
      <3>3. Asked(c, "lock")
        BY <1>0, <2>2 DEF RequestOK, Asked
      <3>4. QED
        BY <1>4, <2>2, <3>1, <3>2, <3>3
    <2>3. ASSUME c.op = "charge", Goto(r, "card", Holding(BlankCard, AddTransactionAmount(y, c.amount), i))
          PROVE  CreditInv'
      <3>1. CanAdd(y, c.amount) /\ c.amount \in Int /\ c.amount > 0
        BY <1>0, <2>1, <2>3 DEF AcceptsInvoice, CanAdd, RequestOK, Asked
      <3>2. /\ Sound(AddTransactionAmount(y, c.amount)) /\ AddTransactionAmount(y, c.amount).status # "none"
            /\ Behind(AddTransactionAmount(y, c.amount), charged[i] + c.amount, received[i])
        BY <1>3, <3>1, AddIs, AddedBehind
      <3>3. Asked(c, "card")
        BY <1>0, <2>3 DEF RequestOK, Asked
      <3>4. QED
        BY <1>4, <2>3, <3>1, <3>2, <3>3
    <2>4. ASSUME c.op = "getInvoice", Goto(r, "fill", Holding(BlankCard, y, i)) PROVE CreditInv'
      <3>1. y.status # "none" /\ Asked(c, "fill")
        BY <1>0, <2>1, <2>4 DEF AcceptsInvoice, RequestOK, Asked
      <3>2. QED
        BY <1>3, <1>4, <2>4, <3>1
    <2>5. QED
      BY <1>5, <2>2, <2>3, <2>4 DEF FindInvoice
  <1>6. CASE StartRollover(r)
    <2>1. c.op = "charge" /\ y.status = "paid" /\ Goto(r, "rollover", Holding(BlankCard, y, NoInvoice))
      BY <1>6 DEF StartRollover, IsRollover
    <2>2. Asked(c, "rollover")
      BY <1>0, <2>1 DEF RequestOK, Asked
    <2>3. QED
      BY <1>3, <1>4, <2>1, <2>2
  <1>7. QED
    BY <1>5, <1>6

LEMMA RolloverCredit ==
    ASSUME CreditInv, NEW r \in Requests, RolloverFound(r) \/ RolloverNew(r)
    PROVE  CreditInv'
  <1> DEFINE c == call[r]
             y == copy[r].invoice
             m == NextReferenceMonth(y.month)
  <1>0. /\ TablesOK /\ RequestOK(r) /\ c \in Calls /\ copy[r] \in Copies
    BY DEF CreditInv, FrameOK
  <1>1. Reads(r, "rollover") /\ pc[r] = "rollover"
    BY DEF RolloverFound, RolloverNew, Reads
  <1>2. /\ c.op = "charge" /\ c.amount \in Int /\ Asked(c, "card")
        /\ Sound(y) /\ y.card \in Cards /\ m \in Nat
    BY <1>0, <1>1 DEF RequestOK, Asked, Held, Sound, InvoiceImages, NextReferenceMonth
  <1>3. ASSUME NEW z, Sound(z), z.status # "none", NEW t \in Invoices \union {NoInvoice},
               Goto(r, "card", Holding(BlankCard, z, t)), c.amount > 0,
               t \in Invoices => Behind(z, charged[t] + c.amount, received[t])
        PROVE  CreditInv'
    <2> DEFINE x == Holding(BlankCard, z, t)
    <2>1. x \in Copies /\ x.card = BlankCard /\ x.invoice = z /\ x.target = t /\ "card" \in Places
      BY <1>3, Blanks, HoldingIs DEF Sound, Places
    <2>2. Goto(r, "card", x)
      BY <1>3
    <2> HIDE DEF x
    <2>3. Held(c, "card", x, charged, received)
      BY <1>2, <1>3, <2>1, Blanks DEF Held
    <2>4. QED
      BY <1>1, <1>2, <2>1, <2>2, <2>3, ReadMoves
  <1>4. CASE RolloverFound(r)
    <2>1. PICK j \in InMonth(y.card, m) :
             /\ CanAdd(invoice[j], c.amount)
             /\ Goto(r, "card", Holding(BlankCard, AddTransactionAmount(invoice[j], c.amount), j))
      BY <1>4 DEF RolloverFound
    <2>2. j \in Invoices
      BY DEF InMonth
    <2>3. /\ Sound(invoice[j]) /\ Behind(invoice[j], charged[j], received[j])
          /\ charged[j] \in Int /\ received[j] \in Int /\ c.amount > 0
      BY <1>0, <2>1, <2>2 DEF TablesOK, CanAdd
    <2>4. /\ Sound(AddTransactionAmount(invoice[j], c.amount))
          /\ AddTransactionAmount(invoice[j], c.amount).status # "none"
          /\ Behind(AddTransactionAmount(invoice[j], c.amount), charged[j] + c.amount, received[j])
      BY <1>2, <2>1, <2>3, AddIs, AddedBehind
    <2>5. QED
      BY <1>3, <2>1, <2>2, <2>3, <2>4
  <1>5. CASE RolloverNew(r)
    <2> DEFINE w == NewInvoice(y.card, m)
    <2>1. /\ c.amount > 0
          /\ Goto(r, "card", Holding(BlankCard, AddTransactionAmount(w, c.amount), NoInvoice))
      BY <1>5 DEF RolloverNew
    <2>2. Sound(w) /\ w.status = "open"
      BY <1>2, NewInvoiceIs
    <2> HIDE DEF w
    <2>3. CanAdd(w, c.amount)
      BY <2>1, <2>2 DEF CanAdd
    <2>4. Sound(AddTransactionAmount(w, c.amount)) /\ AddTransactionAmount(w, c.amount).status # "none"
      BY <1>2, <2>2, <2>3, AddIs
    <2>5. NoInvoice \in Invoices \union {NoInvoice} /\ NoInvoice \notin Invoices
      BY ConstantsAssumption
    <2>6. QED
      BY <1>3, <2>1, <2>4, <2>5
  <1>6. QED
    BY <1>4, <1>5

LEMMA TransactionCredit ==
    ASSUME CreditInv, NEW r \in Requests, LockInvoice(r) \/ ReadCardToPay(r) \/ ReadCardToCharge(r)
    PROVE  CreditInv'
  <1> DEFINE c == call[r]
             x == copy[r]
             y == card[x.invoice.card]
  <1>0. /\ TablesOK /\ RequestOK(r) /\ c \in Calls /\ x \in Copies
    BY DEF CreditInv, FrameOK
  <1>1. "card" \in Places /\ "commit" \in Places
    BY DEF Places
  <1>2. /\ x.card \in CardImages /\ x.invoice \in InvoiceImages
        /\ x.target \in Invoices \union {NoInvoice}
    BY <1>0, CopyIs
  <1>3. CASE LockInvoice(r)
    <2>1. Reads(r, "lock") /\ pc[r] = "lock" /\ Goto(r, "card", x)
      BY <1>3 DEF LockInvoice, Reads
    <2>2. Asked(c, "card") /\ Held(c, "card", x, charged, received)
      BY <1>0, <2>1 DEF RequestOK, Asked, Held
    <2>3. QED
      BY <1>0, <1>1, <2>1, <2>2, ReadMoves
  <1>4. ASSUME NEW z, Capped(z), Reads(r, "card"), Goto(r, "commit", Holding(z, x.invoice, x.target))
        PROVE  CreditInv'
    <2> DEFINE w == Holding(z, x.invoice, x.target)
    <2>1. w \in Copies /\ w.card = z /\ w.invoice = x.invoice /\ w.target = x.target
      BY <1>2, <1>4, HoldingIs DEF Capped
    <2>2. Goto(r, "commit", w) /\ pc[r] = "card"
      BY <1>4 DEF Reads
    <2> HIDE DEF w
    <2>3. Asked(c, "commit") /\ c.op \in {"pay", "charge"}
      BY <1>0, <2>2 DEF RequestOK, Asked
    <2>4. Held(c, "commit", w, charged, received)
      BY <1>0, <1>4, <2>1, <2>2, <2>3 DEF RequestOK, Held
    <2>5. QED
      BY <1>1, <1>4, <2>1, <2>2, <2>3, <2>4, ReadMoves
  <1>5. ASSUME pc[r] = "card"
        PROVE  Capped(y) /\ c.amount \in Int /\ c.amount > 0
    <2>1. x.invoice.card \in Cards
      BY <1>0, <1>5 DEF RequestOK, Held, Sound
    <2>2. c.op \in {"pay", "charge"}
      BY <1>0, <1>5 DEF RequestOK, Asked
    <2>3. c.amount \in Int /\ c.amount > 0
      BY <1>0, <1>5, <2>2 DEF RequestOK, Asked, Held
    <2>4. QED
      BY <1>0, <2>1, <2>3 DEF TablesOK
  <1>6. CASE ReadCardToPay(r)
    <2>1. /\ Reads(r, "card") /\ pc[r] = "card"
          /\ Goto(r, "commit", Holding(Restore(y, c.amount), x.invoice, x.target))
      BY <1>6 DEF ReadCardToPay, Reads
    <2>2. Capped(Restore(y, c.amount))
      BY <1>5, <2>1, RestoreIs
    <2>3. QED
      BY <1>4, <2>1, <2>2
  <1>7. CASE ReadCardToCharge(r)
    <2> DEFINE z == [y EXCEPT !.available = y.available - c.amount]
    <2>1. /\ Reads(r, "card") /\ pc[r] = "card"
          /\ Goto(r, "commit", Holding(z, x.invoice, x.target))
      BY <1>7 DEF ReadCardToCharge, Reads
    <2>2. Capped(z)
      BY <1>5, <2>1, SpendIs
    <2> HIDE DEF z
    <2>3. QED
      BY <1>4, <2>1, <2>2
  <1>8. QED
    BY <1>3, <1>6, <1>7

\* Where a request goes from a commit.
LEMMA AfterCommitIs ==
    ASSUME NEW c \in Calls
    PROVE  /\ AfterStore(c) \in {"evictInvoice", "evictCard", "done"}
           /\ AfterStore(c) = "evictInvoice" <=> c.op \in {"pay", "charge"}
           /\ AfterCommit(c) \in {"store", AfterStore(c)}
           /\ AfterCommit(c) = "store" => c.key # NoKey
  <1>1. /\ AfterStore(c) \in {"evictInvoice", "evictCard", "done"}
        /\ AfterStore(c) = "evictInvoice" <=> c.op \in {"pay", "charge"}
    <2>1. CASE c.op \in {"pay", "charge"}
      BY <2>1 DEF AfterStore
    <2>2. CASE c.op \in {"updateCard", "createInvoice"}
      BY <2>2 DEF AfterStore
    <2>3. CASE c.op \notin {"pay", "charge", "updateCard", "createInvoice"}
      BY <2>3 DEF AfterStore
    <2>4. QED
      BY <2>1, <2>2, <2>3
  <1>2. /\ AfterCommit(c) \in {"store", AfterStore(c)}
        /\ AfterCommit(c) = "store" => c.key # NoKey
    BY <1>1 DEF AfterCommit
  <1>3. QED
    BY <1>1, <1>2

LEMMA CommitMoves ==
    ASSUME CreditInv, NEW r \in Requests, NEW op, Commits(r, op), TablesOK', Grows
    PROVE  CreditInv'
  <1> DEFINE c == call[r]
             s == AfterCommit(c)
             x == Holding(BlankCard, BlankInvoice, copy[r].target)
  <1>0. /\ RequestOK(r) /\ c \in Calls /\ copy[r] \in Copies
    BY DEF CreditInv, FrameOK
  <1>1. Begin(r, c, s, x) /\ pc[r] = "commit"
    BY DEF Commits, Goto
  <1>2. x \in Copies /\ x.card = BlankCard /\ x.invoice = BlankInvoice
    BY <1>0, CopyIs, Blanks, HoldingIs
  <1>3. /\ s \in {"store", "evictInvoice", "evictCard", "done"}
        /\ s = "evictInvoice" => c.op \in {"pay", "charge"}
        /\ s = "store" => c.key # NoKey
    BY <1>0, AfterCommitIs
  <1> HIDE DEF s, x
  <1>4. Asked(c, s)
    BY <1>0, <1>3 DEF RequestOK, Asked
  <1>5. Held(c, s, x, charged', received')
    BY <1>2, <1>3, Blanks DEF Held
  <1>6. s \in Places
    BY <1>3 DEF Places
  <1>7. QED
    BY <1>0, <1>1, <1>2, <1>4, <1>5, <1>6, Moves

\* UPDATE credit_cards, from a copy.
LEMMA UpdateCardKeeps ==
    ASSUME TablesOK, NEW c, NEW x, Capped(x), UpdateCard(c, x)
    PROVE  /\ card' \in [Cards -> CardImages]
           /\ \A d \in Cards : Capped(card'[d]) /\ card'[d].available >= 0
  <1>1. card \in [Cards -> CardImages] /\ \A d \in Cards : Capped(card[d]) /\ card[d].available >= 0
    BY DEF TablesOK
  <1>2. CASE cardRow[c] = "live"
    <2>1. card' = [card EXCEPT ![c] = x] /\ x.available >= 0 /\ x \in CardImages
      BY <1>2 DEF UpdateCard, CheckHolds, Capped
    <2>2. \A d \in Cards : card'[d] = IF d = c THEN x ELSE card[d]
      BY <1>1, <2>1
    <2>3. card' \in [Cards -> CardImages]
      BY <1>1, <2>1
    <2>4. QED
      BY <1>1, <2>1, <2>2, <2>3
  <1>3. CASE cardRow[c] # "live"
    BY <1>1, <1>3 DEF UpdateCard
  <1>4. QED
    BY <1>2, <1>3

LEMMA CommitCardCredit ==
    ASSUME CreditInv, NEW r \in Requests,
           CommitCreateCard(r) \/ CommitUpdateCard(r) \/ CommitDeleteCard(r)
    PROVE  CreditInv'
  <1> DEFINE c == call[r]
             x == copy[r].card
  <1>0. /\ TablesOK /\ RequestOK(r) /\ c \in Calls
    BY DEF CreditInv, FrameOK
  <1>1. PICK op : Commits(r, op) /\ op \in {"createCard", "updateCard", "deleteCard"}
    BY DEF CommitCreateCard, CommitUpdateCard, CommitDeleteCard
  <1>2. pc[r] = "commit" /\ UNCHANGED <<cachedCard, cachedInvoice, stored, faults>>
        /\ UNCHANGED <<invoice, charged, received>>
    BY <1>1 DEF Commits, redisVars, CommitCreateCard, CommitUpdateCard, CommitDeleteCard
  <1>3. Capped(x)
    BY <1>0 DEF RequestOK, Held
  <1>4. /\ cardRow' \in [Cards -> {"absent", "live", "deleted"}]
        /\ card' \in [Cards -> CardImages]
        /\ \A d \in Cards : Capped(card'[d]) /\ card'[d].available >= 0
    <2>1. CASE CommitCreateCard(r)
      <3>1. /\ c.op = "createCard" /\ cardRow' = [cardRow EXCEPT ![c.card] = "live"]
            /\ card' = [card EXCEPT ![c.card] = x]
        BY <2>1 DEF CommitCreateCard, Commits
      <3>2. x.available >= 0 /\ x \in CardImages
        BY <1>0, <1>2, <1>3, <3>1 DEF RequestOK, Held, Capped
      <3>3. \A d \in Cards : card'[d] = IF d = c.card THEN x ELSE card[d]
        BY <1>0, <3>1 DEF TablesOK
      <3>4. card' \in [Cards -> CardImages] /\ cardRow' \in [Cards -> {"absent", "live", "deleted"}]
        BY <1>0, <3>1, <3>2 DEF TablesOK
      <3>5. QED
        BY <1>0, <1>3, <3>2, <3>3, <3>4 DEF TablesOK
    <2>2. CASE CommitUpdateCard(r)
      <3>1. UpdateCard(c.card, x) /\ cardRow' = cardRow
        BY <2>2 DEF CommitUpdateCard
      <3>2. QED
        BY <1>0, <1>3, <3>1, UpdateCardKeeps DEF TablesOK
    <2>3. CASE CommitDeleteCard(r)
      BY <1>0, <2>3 DEF CommitDeleteCard, TablesOK
    <2>4. QED
      BY <2>1, <2>2, <2>3
  <1>5. TablesOK' /\ Grows
    BY <1>0, <1>2, <1>4 DEF TablesOK, Grows
  <1>6. QED
    BY <1>1, <1>5, CommitMoves

\* A transaction that writes the invoice t from the copy: what it claims is behind
\* what the same transaction makes of the rows and events.
LEMMA InvoiceWritten ==
    ASSUME TablesOK, NEW t \in Invoices, NEW x, Sound(x), NEW g \in Nat, NEW p \in Nat,
           invoice' = [invoice EXCEPT ![t] = x], charged' = [charged EXCEPT ![t] = g],
           received' = [received EXCEPT ![t] = p], charged[t] <= g, received[t] <= p,
           Behind(x, g, p)
    PROVE  /\ invoice' \in [Invoices -> InvoiceImages]
           /\ charged' \in [Invoices -> Nat] /\ received' \in [Invoices -> Nat]
           /\ \A i \in Invoices : Sound(invoice'[i]) /\ Behind(invoice'[i], charged'[i], received'[i])
           /\ Grows
  <1>1. /\ invoice \in [Invoices -> InvoiceImages] /\ charged \in [Invoices -> Nat]
        /\ received \in [Invoices -> Nat] /\ x \in InvoiceImages
        /\ \A i \in Invoices : Sound(invoice[i]) /\ Behind(invoice[i], charged[i], received[i])
    BY DEF TablesOK, Sound
  <1>2. /\ invoice'[t] = x /\ charged'[t] = g /\ received'[t] = p
        /\ \A i \in Invoices : i # t => /\ invoice'[i] = invoice[i] /\ charged'[i] = charged[i]
                                        /\ received'[i] = received[i]
    BY <1>1
  <1>3. /\ invoice' \in [Invoices -> InvoiceImages]
        /\ charged' \in [Invoices -> Nat] /\ received' \in [Invoices -> Nat]
    BY <1>1
  <1>4. Grows
    BY <1>1, <1>2 DEF Grows
  <1>5. QED
    BY <1>1, <1>2, <1>3, <1>4

LEMMA CommitInvoiceCredit ==
    ASSUME CreditInv, NEW r \in Requests,
           CommitCreateInvoice(r) \/ CommitPay(r) \/ CommitCharge(r)
    PROVE  CreditInv'
  <1> DEFINE c == call[r]
             x == copy[r].invoice
             t == copy[r].target
             a == c.amount
  <1>0. /\ TablesOK /\ RequestOK(r) /\ c \in Calls /\ copy[r] \in Copies
        /\ charged \in [Invoices -> Nat] /\ received \in [Invoices -> Nat]
    BY DEF CreditInv, FrameOK, TablesOK
  <1>1. PICK op : Commits(r, op)
    BY DEF CommitCreateInvoice, CommitPay, CommitCharge
  <1>2. /\ pc[r] = "commit" /\ UNCHANGED <<cachedCard, cachedInvoice, stored, faults>>
        /\ cardRow' = cardRow
    BY <1>1 DEF Commits, redisVars, CommitCreateInvoice, CommitPay, CommitCharge
  <1>3. Capped(copy[r].card) /\ Sound(x) /\ x.total \in Nat /\ x.paid \in Nat
    BY <1>0 DEF RequestOK, Held, Sound, InvoiceImages
  <1>4. ASSUME NEW g \in Nat, NEW p \in Nat, t \in Invoices, Behind(x, g, p),
               invoice' = [invoice EXCEPT ![t] = x], charged' = [charged EXCEPT ![t] = g],
               received' = [received EXCEPT ![t] = p], charged[t] <= g, received[t] <= p,
               card' = card \/ \E d : UpdateCard(d, copy[r].card)
        PROVE  CreditInv'
    <2>1. /\ card' \in [Cards -> CardImages]
          /\ \A d \in Cards : Capped(card'[d]) /\ card'[d].available >= 0
      BY <1>0, <1>3, <1>4, UpdateCardKeeps DEF TablesOK
    <2>2. /\ invoice' \in [Invoices -> InvoiceImages]
          /\ charged' \in [Invoices -> Nat] /\ received' \in [Invoices -> Nat]
          /\ \A i \in Invoices : Sound(invoice'[i]) /\ Behind(invoice'[i], charged'[i], received'[i])
          /\ Grows
      BY <1>0, <1>3, <1>4, InvoiceWritten
    <2>3. TablesOK'
      BY <1>0, <1>2, <2>1, <2>2 DEF TablesOK
    <2>4. QED
      BY <1>1, <2>2, <2>3, CommitMoves
  <1>5. CASE CommitCreateInvoice(r)
    <2>1. /\ c.op = "createInvoice" /\ invoice' = [invoice EXCEPT ![t] = x]
          /\ charged' = charged /\ received' = received /\ card' = card
      BY <1>5 DEF CommitCreateInvoice, Commits
    <2>2. t \in Invoices /\ x.total = 0 /\ x.paid = 0
      BY <1>0, <1>2, <2>1 DEF RequestOK, Held
    <2>3. /\ charged' = [charged EXCEPT ![t] = charged[t]]
          /\ received' = [received EXCEPT ![t] = received[t]]
          /\ charged[t] \in Nat /\ received[t] \in Nat
      BY <1>0, <2>1, <2>2
    <2>4. /\ Behind(x, charged[t], received[t]) /\ charged[t] <= charged[t]
          /\ received[t] <= received[t]
      BY <2>2, <2>3 DEF Behind
    <2>5. QED
      BY <1>4, <2>1, <2>2, <2>3, <2>4
  <1>6. CASE CommitPay(r)
    <2>1. /\ c.op = "pay" /\ invoice' = [invoice EXCEPT ![t] = x]
          /\ received' = [received EXCEPT ![t] = @ + a] /\ charged' = charged
          /\ UpdateCard(x.card, copy[r].card)
      BY <1>6 DEF CommitPay, Commits
    <2>2. t \in Invoices /\ a > 0 /\ a \in Int /\ Behind(x, charged[t], received[t] + a)
      BY <1>0, <1>2, <2>1 DEF RequestOK, Held, Asked
    <2>3. /\ charged' = [charged EXCEPT ![t] = charged[t]]
          /\ received' = [received EXCEPT ![t] = received[t] + a]
          /\ charged[t] \in Nat /\ received[t] \in Nat
      BY <1>0, <2>1, <2>2
    <2>4. received[t] + a \in Nat /\ charged[t] <= charged[t] /\ received[t] <= received[t] + a
      BY <2>2, <2>3
    <2>5. QED
      BY <1>4, <2>1, <2>2, <2>3, <2>4
  <1>7. CASE CommitCharge(r)
    <2>1. /\ c.op = "charge" /\ invoice' = [invoice EXCEPT ![t] = x] /\ t # NoInvoice
          /\ charged' = [charged EXCEPT ![t] = @ + a] /\ received' = received
          /\ UpdateCard(x.card, copy[r].card)
      BY <1>7 DEF CommitCharge, Commits
    <2>2. t \in Invoices
      BY <1>0, <2>1, CopyIs
    <2>3. a > 0 /\ a \in Int /\ Behind(x, charged[t] + a, received[t])
      BY <1>0, <1>2, <2>1, <2>2 DEF RequestOK, Held, Asked
    <2>4. /\ charged' = [charged EXCEPT ![t] = charged[t] + a]
          /\ received' = [received EXCEPT ![t] = received[t]]
          /\ charged[t] \in Nat /\ received[t] \in Nat
      BY <1>0, <2>1, <2>2
    <2>5. charged[t] + a \in Nat /\ charged[t] <= charged[t] + a /\ received[t] <= received[t]
      BY <2>3, <2>4
    <2>6. QED
      BY <1>4, <2>1, <2>2, <2>3, <2>4, <2>5
  <1>8. QED
    BY <1>5, <1>6, <1>7

LEMMA RedisCredit ==
    ASSUME CreditInv, NEW r \in Requests,
           StoreKey(r) \/ EvictInvoice(r) \/ EvictCard(r) \/ FillCache(r) \/ RedisFails(r)
    PROVE  CreditInv'
  <1> DEFINE c == call[r]
             x == copy[r]
  <1>0. /\ TablesOK /\ RequestOK(r) /\ c \in Calls /\ x \in Copies
    BY DEF CreditInv, FrameOK
  <1>1. /\ x.card \in CardImages /\ x.invoice \in InvoiceImages
    BY <1>0, CopyIs
  <1>2. UNCHANGED dbVars
    BY DEF StoreKey, EvictInvoice, EvictCard, FillCache, RedisFails
  <1>3. faults' \in [Faults -> Nat] /\ stored' \subseteq Keys
    <2>1. CASE RedisFails(r)
      <3>1. Fault("redis") /\ "redis" \in Faults /\ stored' = stored
        BY <2>1 DEF RedisFails, Faults, redisVars
      <3>2. QED
        BY <1>0, <3>1, FaultCounts DEF TablesOK
    <2>2. CASE StoreKey(r)
      <3>1. stored' = stored \union {c.key} /\ faults' = faults /\ pc[r] = "store"
        BY <2>2 DEF StoreKey
      <3>2. c.key \in Keys \union {NoKey}
        BY <1>0 DEF Calls
      <3>3. QED
        BY <1>0, <3>1, <3>2 DEF TablesOK, RequestOK, Asked
    <2>3. CASE EvictInvoice(r) \/ EvictCard(r) \/ FillCache(r)
      BY <1>0, <2>3 DEF EvictInvoice, EvictCard, FillCache, TablesOK
    <2>4. QED
      BY <2>1, <2>2, <2>3
  <1>4. /\ cachedCard' \in [Cards -> SUBSET CardImages]
        /\ cachedInvoice' \in [Invoices -> SUBSET InvoiceImages]
    BY <1>0, <1>1 DEF StoreKey, EvictInvoice, EvictCard, FillCache, RedisFails, redisVars, TablesOK
  <1>5. PICK s \in {"evictInvoice", "evictCard", "done"}, y \in {x, NoCopy} :
           Goto(r, s, y) /\ (s = "evictInvoice" => c.op \in {"pay", "charge"})
    <2>1. AfterStore(c) \in {"evictInvoice", "evictCard", "done"}
          /\ (AfterStore(c) = "evictInvoice" <=> c.op \in {"pay", "charge"})
      BY <1>0, AfterCommitIs
    <2>2. AfterEvictInvoice(c) \in {"evictCard", "done"}
      BY DEF AfterEvictInvoice
    <2>3. \/ Goto(r, AfterStore(c), x) \/ Goto(r, AfterEvictInvoice(c), x) \/ Goto(r, "done", NoCopy)
      BY DEF StoreKey, EvictInvoice, EvictCard, FillCache, RedisFails, Return
    <2>4. QED
      BY <2>1, <2>2, <2>3
  <1>6. s \in Places /\ y \in Copies /\ Begin(r, c, s, y)
    BY <1>0, <1>5, NoCopyIs DEF Places, Goto
  <1>7. Asked(c, s)
    BY <1>0, <1>5 DEF RequestOK, Asked
  <1>8. Capped(y.card) /\ Sound(y.invoice)
    BY <1>0, NoCopyIs DEF RequestOK, Held
  <1>9. Held(c, s, y, charged, received)
    BY <1>5, <1>8 DEF Held
  <1>10. QED
    BY <1>0, <1>2, <1>3, <1>4, <1>6, <1>7, <1>9, QuietMoves

LEMMA StepCredit ==
    ASSUME CreditInv, NEW r \in Requests, Step(r)
    PROVE  CreditInv'
  <1>1. CASE \/ Refused(r) \/ RolloverRefused(r) \/ ReadCardRefused(r)
             \/ RolloverBreaksForeignKey(r) \/ CheckFails(r) \/ DatabaseFails(r) \/ Abandon(r)
    BY <1>1, ReadRefused
  <1>2. CASE FindCard(r) \/ FindInvoice(r) \/ StartRollover(r)
    BY <1>2, FindCardCredit, FindInvoiceCredit
  <1>3. CASE RolloverFound(r) \/ RolloverNew(r)
    BY <1>3, RolloverCredit
  <1>4. CASE LockInvoice(r) \/ ReadCardToPay(r) \/ ReadCardToCharge(r)
    BY <1>4, TransactionCredit
  <1>5. CASE CommitCreateCard(r) \/ CommitUpdateCard(r) \/ CommitDeleteCard(r)
    BY <1>5, CommitCardCredit
  <1>6. CASE CommitCreateInvoice(r) \/ CommitPay(r) \/ CommitCharge(r)
    BY <1>6, CommitInvoiceCredit
  <1>7. CASE StoreKey(r) \/ EvictInvoice(r) \/ EvictCard(r) \/ FillCache(r) \/ RedisFails(r)
    BY <1>7, RedisCredit
  <1>8. QED
    BY <1>1, <1>2, <1>3, <1>4, <1>5, <1>6, <1>7 DEF Step

LEMMA ExpireCredit ==
    ASSUME CreditInv, ExpireCache \/ UNCHANGED vars
    PROVE  CreditInv'
  <1>0. TablesOK /\ FrameOK
    BY DEF CreditInv
  <1>1. /\ UNCHANGED <<cardRow, card, invoice, charged, received, stored, faults>>
        /\ UNCHANGED <<pc, call, copy>>
    BY DEF ExpireCache, vars, dbVars
  <1>2. /\ cachedCard' \in [Cards -> SUBSET CardImages]
        /\ cachedInvoice' \in [Invoices -> SUBSET InvoiceImages]
    <2>1. CASE ExpireCache
      BY <1>0, <2>1 DEF ExpireCache, TablesOK
    <2>2. CASE UNCHANGED vars
      BY <1>0, <2>2 DEF vars, TablesOK
    <2>3. QED
      BY <2>1, <2>2
  <1>3. TablesOK' /\ FrameOK'
    BY <1>0, <1>1, <1>2 DEF TablesOK, FrameOK
  <1>4. \A r \in Requests : RequestOK(r)'
    BY <1>1 DEF CreditInv, RequestOK
  <1>5. QED
    BY <1>3, <1>4 DEF CreditInv

LEMMA CreditInvInit == Init => CreditInv
  <1> SUFFICES ASSUME Init PROVE CreditInv
    OBVIOUS
  <1>1. ASSUME NEW c \in Cards
        PROVE  /\ card[c] \in CardImages /\ Capped(card[c]) /\ card[c].available >= 0
               /\ cardRow[c] \in {"absent", "live", "deleted"}
    <2>1. CASE c \in DOMAIN OpenCards
      <3>1. card[c] = NewCreditCard(OpenCards[c]) /\ OpenCards[c] \in Nat
        BY <1>1, <2>1, ConstantsAssumption DEF Init
      <3>2. QED
        BY <1>1, <2>1, <3>1, NewCreditCardIs DEF Capped, Init
    <2>2. CASE c \notin DOMAIN OpenCards
      <3>1. card[c] = BlankCard /\ cardRow[c] = "absent"
        BY <1>1, <2>2 DEF Init
      <3>2. QED
        BY <3>1, Blanks
    <2>3. QED
      BY <2>1, <2>2
  <1>2. ASSUME NEW i \in Invoices
        PROVE  /\ Sound(invoice[i]) /\ invoice[i].total = 0 /\ invoice[i].paid = 0
               /\ charged[i] = 0 /\ received[i] = 0
    <2>1. CASE i \in DOMAIN OpenInvoices
      <3> DEFINE d == OpenInvoices[i].card
                 m == OpenInvoices[i].month
      <3>1. invoice[i] = NewInvoice(d, m)
        BY <1>2, <2>1 DEF Init
      <3>2. d \in Cards /\ m \in Nat
        BY <2>1, ConstantsAssumption DEF Months
      <3> HIDE DEF d, m
      <3>3. Sound(invoice[i]) /\ invoice[i].total = 0 /\ invoice[i].paid = 0
        BY <3>1, <3>2, NewInvoiceIs
      <3>4. QED
        BY <1>2, <3>3 DEF Init
    <2>2. CASE i \notin DOMAIN OpenInvoices
      <3>1. invoice[i] = BlankInvoice
        BY <1>2, <2>2 DEF Init
      <3>2. QED
        BY <1>2, <3>1, Blanks DEF Init
    <2>3. QED
      BY <2>1, <2>2
  <1>3. DOMAIN card = Cards /\ DOMAIN cardRow = Cards /\ DOMAIN invoice = Invoices
        /\ card = [c \in Cards |-> card[c]] /\ cardRow = [c \in Cards |-> cardRow[c]]
        /\ invoice = [i \in Invoices |-> invoice[i]]
    BY DEF Init
  <1>4. /\ charged = [i \in Invoices |-> 0] /\ received = [i \in Invoices |-> 0]
        /\ cachedCard = [c \in Cards |-> {}] /\ cachedInvoice = [i \in Invoices |-> {}]
        /\ stored = {} /\ faults = [f \in Faults |-> 0]
        /\ pc = [r \in Requests |-> "idle"] /\ call = [r \in Requests |-> NoCall]
        /\ copy = [r \in Requests |-> NoCopy]
    BY DEF Init
  <1>5. /\ card \in [Cards -> CardImages] /\ cardRow \in [Cards -> {"absent", "live", "deleted"}]
        /\ invoice \in [Invoices -> InvoiceImages]
    BY <1>1, <1>2, <1>3 DEF Sound
  <1>6. TablesOK
    BY <1>1, <1>2, <1>4, <1>5 DEF TablesOK, Behind
  <1>7. FrameOK
    BY <1>4, NoCallIs, NoCopyIs DEF FrameOK, Places
  <1>8. ASSUME NEW r \in Requests PROVE RequestOK(r)
    <2>1. pc[r] = "idle" /\ call[r] = NoCall /\ copy[r] = NoCopy
      BY <1>4
    <2>2. QED
      BY <2>1, NoCallIs, NoCopyIs DEF RequestOK, Asked, Held, CardOps, InvoiceOps
  <1>9. QED
    BY <1>6, <1>7, <1>8 DEF CreditInv

LEMMA CreditInvStep == CreditInv /\ [Next]_vars => CreditInv'
  <1> SUFFICES ASSUME CreditInv, [Next]_vars PROVE CreditInv'
    OBVIOUS
  <1>1. ASSUME NEW r \in Requests, Arrival(r) \/ Step(r) PROVE CreditInv'
    BY <1>1, ArrivalCredit, StepCredit
  <1>2. QED
    BY <1>1, ExpireCredit DEF Next

\* CreditInv holds in every reachable state of creditcard-svc, however requests
\* overlap.
THEOREM CreditInvAlways == Spec => []CreditInv
  BY CreditInvInit, CreditInvStep, PTL DEF Spec

\* Every card and invoice that a handler stores, caches or holds has its type, and
\* no card's credit is negative: stale copies included.
THEOREM CreditTypeCorrect == Spec => []TypeOK
  <1>1. CreditInv => TypeOK
    BY DEF CreditInv, TablesOK, FrameOK, TypeOK, Places, Calls, Copies
  <1>2. QED
    BY <1>1, CreditInvAlways, PTL

\* However charges, payments and updates of one card overlap, its available credit
\* stays within its limit.
THEOREM CreditStaysWithinLimit == Spec => []CreditWithinLimit
  <1>1. CreditInv => CreditWithinLimit
    BY DEF CreditInv, TablesOK, Capped, CreditWithinLimit
  <1>2. QED
    BY <1>1, CreditInvAlways, PTL

\* However they overlap, an invoice says "paid" exactly when it was paid in full.
THEOREM PaidIsCovered == Spec => []PaidMeansCovered
  <1>1. CreditInv => PaidMeansCovered
    BY DEF CreditInv, TablesOK, Sound, PaidMeansCovered
  <1>2. QED
    BY <1>1, CreditInvAlways, PTL

\* However they overlap, an invoice bills no more than its transaction rows and
\* counts no more as paid than its events announced.
THEOREM InvoiceStaysBacked == Spec => []InvoiceBacked
  <1>1. CreditInv => InvoiceBacked
    BY DEF CreditInv, TablesOK, Behind, InvoiceBacked
  <1>2. QED
    BY <1>1, CreditInvAlways, PTL

------------------------------------------------------------------------------
(***************************************************************************)
(* Requests that come one at a time: the request r acts.                   *)
(***************************************************************************)

\* Before the step: an entry behind its table is r's to evict.
LEMMA EntriesBefore ==
    ASSUME SerialInv, NEW r \in Requests, InFlight(r) \/ \A q \in Requests : ~InFlight(q),
           NEW i \in Invoices
    PROVE  /\ \A y \in cachedInvoice[i] : y.status # "none"
           /\ Lost = 0 => cachedInvoice[i] \subseteq {invoice[i]} \/ WillEvict(r, i)
  <1>1. \A q \in Requests : q # r => ~WillEvict(q, i)
    BY DEF SerialInv, OneAtATime, WillEvict, InFlight
  <1>2. QED
    BY <1>1 DEF SerialInv, EntryOK

LEMMA SerialMoves ==
    ASSUME CreditInv, SerialInv, NEW r \in Requests, NEW c \in Calls, NEW s \in Places,
           NEW x \in Copies, Begin(r, c, s, x),
           InFlight(r) \/ \A q \in Requests : ~InFlight(q),
           InvoiceExact', Exact(c, s, x, invoice', charged', received'),
           \A i \in Invoices :
              /\ \A y \in cachedInvoice'[i] : y.status # "none"
              /\ Lost' = 0 => \/ cachedInvoice'[i] \subseteq {invoice'[i]}
                              \/ /\ s \in {"store", "evictInvoice"}
                                 /\ c.op \in {"pay", "charge"} /\ x.target = i
    PROVE  SerialInv'
  <1>0. FrameOK
    BY DEF CreditInv
  <1>1. /\ pc'[r] = s /\ copy'[r] = x /\ (s # "done" => call'[r] = c)
        /\ \A q \in Requests : q # r => pc'[q] = pc[q] /\ call'[q] = call[q] /\ copy'[q] = copy[q]
    BY <1>0, BeginEffect
  <1>2. \A q \in Requests : q # r => ~InFlight(q)'
    BY <1>1 DEF SerialInv, OneAtATime, InFlight
  <1>3. OneAtATime'
    BY <1>2 DEF OneAtATime
  <1>4. \A q \in Requests : ExactOK(q)'
    BY <1>1, <1>2 DEF ExactOK, InFlight
  <1>5. \A i \in Invoices : EntryOK(i)'
    BY <1>1 DEF EntryOK, WillEvict
  <1>6. QED
    BY <1>3, <1>4, <1>5 DEF SerialInv

\* A step that leaves the tables and the entries of the invoices alone.
LEMMA SerialQuiet ==
    ASSUME CreditInv, SerialInv, NEW r \in Requests, NEW c \in Calls, NEW s \in Places,
           NEW x \in Copies, Begin(r, c, s, x),
           InFlight(r) \/ \A q \in Requests : ~InFlight(q),
           UNCHANGED dbVars, cachedInvoice' = cachedInvoice, Lost' = 0 => Lost = 0,
           Exact(c, s, x, invoice, charged, received),
           (pc[r] \in {"store", "evictInvoice"} /\ Lost' = 0)
              => s \in {"store", "evictInvoice"} /\ c = call[r] /\ x = copy[r]
    PROVE  SerialInv'
  <1>1. UNCHANGED <<invoice, charged, received>>
    BY DEF dbVars
  <1>2. InvoiceExact'
    BY <1>1 DEF SerialInv, InvoiceExact
  <1>3. ASSUME NEW i \in Invoices
        PROVE  /\ \A y \in cachedInvoice'[i] : y.status # "none"
               /\ Lost' = 0 => \/ cachedInvoice'[i] \subseteq {invoice'[i]}
                               \/ /\ s \in {"store", "evictInvoice"}
                                  /\ c.op \in {"pay", "charge"} /\ x.target = i
    BY <1>1, EntriesBefore DEF WillEvict
  <1>4. QED
    BY <1>1, <1>2, <1>3, SerialMoves

LEMMA SettledIsExact ==
    ASSUME NEW c, NEW s \in {"store", "evictInvoice", "evictCard", "done"}, NEW x
    PROVE  \A inv, g, p : Exact(c, s, x, inv, g, p)
  BY DEF Exact

LEMMA SerialReturns ==
    ASSUME CreditInv, SerialInv, NEW r \in Requests,
           \/ Refused(r) \/ RolloverRefused(r) \/ ReadCardRefused(r)
           \/ RolloverBreaksForeignKey(r) \/ CheckFails(r) \/ DatabaseFails(r) \/ Abandon(r)
    PROVE  SerialInv'
  <1>0. TablesOK /\ call[r] \in Calls
    BY DEF CreditInv, FrameOK
  <1>1. /\ Begin(r, call[r], "done", NoCopy) /\ UNCHANGED dbVars /\ cachedInvoice' = cachedInvoice
        /\ InFlight(r)
        /\ \/ faults' = faults /\ pc[r] \notin {"store", "evictInvoice"}
           \/ Fault("db") /\ pc[r] \notin {"store", "evictInvoice"}
           \/ Fault("abandon")
    BY DEF Refused, RolloverRefused, ReadCardRefused, RolloverBreaksForeignKey, CheckFails,
           DatabaseFails, Abandon, Reads, Return, Goto, redisVars, InFlight
  <1>2. /\ Lost' = 0 => Lost = 0
        /\ Lost' = 0 => pc[r] \notin {"store", "evictInvoice"}
    <2>1. CASE faults' = faults /\ pc[r] \notin {"store", "evictInvoice"}
      BY <2>1 DEF Lost
    <2>2. CASE Fault("db") /\ pc[r] \notin {"store", "evictInvoice"}
      BY <1>0, <2>2, FaultCounts DEF Faults
    <2>3. CASE Fault("abandon")
      <3>1. Lost' = Lost + 1 /\ Lost \in Nat
        BY <1>0, <2>3, FaultCounts DEF Faults
      <3>2. QED
        BY <3>1
    <2>4. QED
      BY <1>1, <2>1, <2>2, <2>3
  <1>3. "done" \in Places
    BY DEF Places
  <1>4. QED
    BY <1>0, <1>1, <1>2, <1>3, NoCopyIs, SettledIsExact, SerialQuiet

LEMMA SerialReads ==
    ASSUME CreditInv, SerialInv, NEW r \in Requests, NEW at, NEW s \in Places, NEW x \in Copies,
           Reads(r, at), at \notin {"idle", "done", "store", "evictInvoice"}, Goto(r, s, x),
           Exact(call[r], s, x, invoice, charged, received)
    PROVE  SerialInv'
  <1>1. /\ UNCHANGED dbVars /\ UNCHANGED <<cachedInvoice, faults>> /\ pc[r] = at /\ InFlight(r)
        /\ Begin(r, call[r], s, x) /\ call[r] \in Calls
    BY DEF Reads, redisVars, InFlight, Goto, CreditInv, FrameOK
  <1>2. Lost' = 0 => Lost = 0
    BY <1>1 DEF Lost
  <1>3. QED
    BY <1>1, <1>2, SerialQuiet

LEMMA ExactBefore ==
    ASSUME SerialInv, NEW r \in Requests, InFlight(r)
    PROVE  Exact(call[r], pc[r], copy[r], invoice, charged, received)
  BY DEF SerialInv, ExactOK

LEMMA SerialFindCard ==
    ASSUME CreditInv, SerialInv, NEW r \in Requests, FindCard(r)
    PROVE  SerialInv'
  <1> DEFINE c == call[r]
             y == card[c.card]
  <1>0. /\ TablesOK /\ RequestOK(r) /\ c \in Calls
    BY DEF CreditInv, FrameOK
  <1>1. /\ Reads(r, "find") /\ c.op \in CardOps /\ pc[r] = "find" /\ InFlight(r)
        /\ AcceptsCard(c, y)
    BY DEF FindCard, Reads, InFlight
  <1>2. c.card \in Cards /\ c.amount \in Int \union {Keep} /\ c.active \in BOOLEAN \union {Keep}
        /\ c.invoice \in Invoices \union {NoInvoice} /\ c.month \in Nat
    BY <1>0, <1>1 DEF RequestOK, Asked, Calls
  <1>3. Capped(y) /\ y \in CardImages
    BY <1>0, <1>2 DEF TablesOK, Capped
  <1>4. ASSUME NEW z \in CardImages, NEW w \in InvoiceImages, NEW t \in Invoices \union {NoInvoice},
               NEW s \in {"commit", "fill"}, Goto(r, s, Holding(z, w, t)),
               c.op = "createInvoice" => t = c.invoice
        PROVE  SerialInv'
    <2> DEFINE x == Holding(z, w, t)
    <2>1. x \in Copies /\ x.target = t /\ s \in Places
      BY HoldingIs DEF Places
    <2>2. Goto(r, s, x)
      BY <1>4
    <2> HIDE DEF x
    <2>3. Exact(c, "find", copy[r], invoice, charged, received)
      BY <1>1, ExactBefore
    <2>4. Exact(c, s, x, invoice, charged, received)
      BY <1>1, <1>4, <2>1, <2>3 DEF Exact, CardOps
    <2>5. QED
      BY <1>1, <2>1, <2>2, <2>4, SerialReads
  <1>5. CASE c.op = "updateCard"
    <2>1. Goto(r, "commit", Holding(ApplyUpdate(y, c.amount, c.active), BlankInvoice, NoInvoice))
      BY <1>5 DEF FindCard
    <2>2. c.amount # Keep => c.amount >= 0
      BY <1>1, <1>5 DEF AcceptsCard
    <2>3. ApplyUpdate(y, c.amount, c.active) \in CardImages
      BY <1>2, <1>3, <2>2, ApplyUpdateIs DEF Capped
    <2>4. QED
      BY <1>4, <1>5, <2>1, <2>3, Blanks
  <1>6. CASE c.op = "createInvoice"
    <2>1. Goto(r, "commit", Holding(BlankCard, NewInvoice(c.card, c.month), c.invoice))
      BY <1>6 DEF FindCard
    <2>2. NewInvoice(c.card, c.month) \in InvoiceImages
      BY <1>2, NewInvoiceIs DEF Sound
    <2>3. QED
      BY <1>2, <1>4, <1>6, <2>1, <2>2, Blanks
  <1>7. CASE c.op = "getCard"
    <2>1. Goto(r, "fill", Holding(y, BlankInvoice, NoInvoice))
      BY <1>7 DEF FindCard
    <2>2. QED
      BY <1>3, <1>4, <1>7, <2>1, Blanks
  <1>8. QED
    BY <1>1, <1>5, <1>6, <1>7 DEF CardOps

LEMMA SerialFindInvoice ==
    ASSUME CreditInv, SerialInv, NEW r \in Requests, FindInvoice(r) \/ StartRollover(r)
    PROVE  SerialInv'
  <1> DEFINE c == call[r]
             i == c.invoice
             y == invoice[i]
  <1>0. /\ TablesOK /\ RequestOK(r) /\ c \in Calls
    BY DEF CreditInv, FrameOK
  <1>1. Reads(r, "find") /\ c.op \in InvoiceOps
    BY DEF FindInvoice, StartRollover, InvoiceOps
  <1>2. i \in Invoices
    BY <1>0, <1>1 DEF RequestOK, Asked
  <1>3. /\ Sound(y) /\ y.total = charged[i] /\ y.paid = received[i]
    BY <1>0, <1>2 DEF TablesOK, SerialInv, InvoiceExact
  <1>4. ASSUME NEW z, Sound(z), NEW s \in {"lock", "card", "fill", "rollover"},
               NEW t \in {i, NoInvoice}, Goto(r, s, Holding(BlankCard, z, t)),
               (c.op = "pay" /\ s = "lock")
                  => t = i /\ z.total = charged[i] /\ z.paid = received[i] + c.amount,
               (c.op = "charge" /\ s = "card")
                  => t = i /\ z.total = charged[i] + c.amount /\ z.paid = received[i],
               c.op = "pay" => s = "lock",
               c.op = "getInvoice" => z = y /\ y.status # "none"
        PROVE  SerialInv'
    <2> DEFINE x == Holding(BlankCard, z, t)
    <2>1. x \in Copies /\ x.invoice = z /\ x.target = t /\ s \in Places
      BY <1>2, <1>4, Blanks, HoldingIs DEF Sound, Places
    <2>2. Goto(r, s, x)
      BY <1>4
    <2> HIDE DEF x
    <2>3. Exact(c, s, x, invoice, charged, received)
      BY <1>1, <1>2, <1>4, <2>1 DEF Exact, InvoiceOps
    <2>4. QED
      BY <1>1, <2>1, <2>2, <2>3, SerialReads
  <1>5. CASE FindInvoice(r)
    <2>1. AcceptsInvoice(c, y)
      BY <1>5 DEF FindInvoice
    <2>2. ASSUME c.op = "pay", Goto(r, "lock", Holding(BlankCard, Pay(y, c.amount), i))
          PROVE  SerialInv'
      <3>1. CanPay(y, c.amount) /\ y.status # "none" /\ c.amount \in Int
        BY <1>0, <2>1, <2>2 DEF AcceptsInvoice, RequestOK, Asked
      <3>2. /\ Sound(Pay(y, c.amount)) /\ Pay(y, c.amount).total = charged[i]
            /\ Pay(y, c.amount).paid = received[i] + c.amount
        BY <1>3, <3>1, PayIs
      <3>3. QED
        BY <1>4, <2>2, <3>2
    <2>3. ASSUME c.op = "charge", Goto(r, "card", Holding(BlankCard, AddTransactionAmount(y, c.amount), i))
          PROVE  SerialInv'
      <3>1. CanAdd(y, c.amount) /\ c.amount \in Int
        BY <1>0, <2>1, <2>3 DEF AcceptsInvoice, RequestOK, Asked
      <3>2. /\ Sound(AddTransactionAmount(y, c.amount))
            /\ AddTransactionAmount(y, c.amount).total = charged[i] + c.amount
            /\ AddTransactionAmount(y, c.amount).paid = received[i]
        BY <1>3, <3>1, AddIs
      <3>3. QED
        BY <1>4, <2>3, <3>2
    <2>4. ASSUME c.op = "getInvoice", Goto(r, "fill", Holding(BlankCard, y, i)) PROVE SerialInv'
      <3>1. y.status # "none"
        BY <2>1 DEF AcceptsInvoice
      <3>2. QED
        BY <1>3, <1>4, <2>4, <3>1
    <2>5. QED
      BY <1>5, <2>2, <2>3, <2>4 DEF FindInvoice
  <1>6. CASE StartRollover(r)
    <2>1. c.op = "charge" /\ Goto(r, "rollover", Holding(BlankCard, y, NoInvoice))
      BY <1>6 DEF StartRollover
    <2>2. QED
      BY <1>3, <1>4, <2>1
  <1>7. QED
    BY <1>5, <1>6

LEMMA SerialRollover ==
    ASSUME CreditInv, SerialInv, NEW r \in Requests, RolloverFound(r) \/ RolloverNew(r)
    PROVE  SerialInv'
  <1> DEFINE c == call[r]
             y == copy[r].invoice
             m == NextReferenceMonth(y.month)
  <1>0. /\ TablesOK /\ RequestOK(r) /\ copy[r] \in Copies
    BY DEF CreditInv, FrameOK
  <1>1. Reads(r, "rollover") /\ pc[r] = "rollover"
    BY DEF RolloverFound, RolloverNew, Reads
  <1>2. c.op = "charge" /\ c.amount \in Int /\ y.card \in Cards /\ m \in Nat
    BY <1>0, <1>1 DEF RequestOK, Asked, Held, Sound, InvoiceImages, NextReferenceMonth
  <1>3. ASSUME NEW z, Sound(z), NEW t \in Invoices \union {NoInvoice},
               Goto(r, "card", Holding(BlankCard, z, t)),
               t \in Invoices => z.total = charged[t] + c.amount /\ z.paid = received[t]
        PROVE  SerialInv'
    <2> DEFINE x == Holding(BlankCard, z, t)
    <2>1. x \in Copies /\ x.invoice = z /\ x.target = t /\ "card" \in Places
      BY <1>3, Blanks, HoldingIs DEF Sound, Places
    <2>2. Goto(r, "card", x)
      BY <1>3
    <2> HIDE DEF x
    <2>3. Exact(c, "card", x, invoice, charged, received)
      BY <1>2, <1>3, <2>1 DEF Exact
    <2>4. QED
      BY <1>1, <2>1, <2>2, <2>3, SerialReads
  <1>4. CASE RolloverFound(r)
    <2>1. PICK j \in InMonth(y.card, m) :
             /\ CanAdd(invoice[j], c.amount)
             /\ Goto(r, "card", Holding(BlankCard, AddTransactionAmount(invoice[j], c.amount), j))
      BY <1>4 DEF RolloverFound
    <2>2. j \in Invoices
      BY DEF InMonth
    <2>3. Sound(invoice[j]) /\ invoice[j].total = charged[j] /\ invoice[j].paid = received[j]
      BY <1>0, <2>2 DEF TablesOK, SerialInv, InvoiceExact
    <2>4. /\ Sound(AddTransactionAmount(invoice[j], c.amount))
          /\ AddTransactionAmount(invoice[j], c.amount).total = charged[j] + c.amount
          /\ AddTransactionAmount(invoice[j], c.amount).paid = received[j]
      BY <1>2, <2>1, <2>3, AddIs
    <2>5. QED
      BY <1>3, <2>1, <2>2, <2>4
  <1>5. CASE RolloverNew(r)
    <2> DEFINE w == NewInvoice(y.card, m)
    <2>1. /\ c.amount > 0
          /\ Goto(r, "card", Holding(BlankCard, AddTransactionAmount(w, c.amount), NoInvoice))
      BY <1>5 DEF RolloverNew
    <2>2. Sound(w) /\ w.status = "open"
      BY <1>2, NewInvoiceIs
    <2> HIDE DEF w
    <2>3. Sound(AddTransactionAmount(w, c.amount))
      BY <1>2, <2>1, <2>2, AddIs DEF CanAdd
    <2>4. NoInvoice \in Invoices \union {NoInvoice} /\ NoInvoice \notin Invoices
      BY ConstantsAssumption
    <2>5. QED
      BY <1>3, <2>1, <2>3, <2>4
  <1>6. QED
    BY <1>4, <1>5

LEMMA SerialTransaction ==
    ASSUME CreditInv, SerialInv, NEW r \in Requests,
           LockInvoice(r) \/ ReadCardToPay(r) \/ ReadCardToCharge(r)
    PROVE  SerialInv'
  <1> DEFINE c == call[r]
             x == copy[r]
             y == card[x.invoice.card]
  <1>0. /\ TablesOK /\ RequestOK(r) /\ x \in Copies
    BY DEF CreditInv, FrameOK
  <1>1. "card" \in Places /\ "commit" \in Places
    BY DEF Places
  <1>2. x.invoice \in InvoiceImages /\ x.target \in Invoices \union {NoInvoice}
    BY <1>0, CopyIs
  <1>3. pc[r] \in {"lock", "card"} /\ InFlight(r)
    BY DEF LockInvoice, ReadCardToPay, ReadCardToCharge, Reads, InFlight
  <1>4. c.op \in {"pay", "charge"} /\ (pc[r] = "lock" => c.op = "pay")
    BY <1>0, <1>3 DEF RequestOK, Asked
  <1>5. Exact(c, pc[r], x, invoice, charged, received)
    BY <1>3, ExactBefore
  <1>6. CASE LockInvoice(r)
    <2>1. Reads(r, "lock") /\ pc[r] = "lock" /\ Goto(r, "card", x)
      BY <1>6 DEF LockInvoice, Reads
    <2>2. Exact(c, "card", x, invoice, charged, received)
      BY <1>4, <1>5, <2>1 DEF Exact
    <2>3. QED
      BY <1>0, <1>1, <2>1, <2>2, SerialReads
  <1>7. ASSUME NEW z, Capped(z), Reads(r, "card"), Goto(r, "commit", Holding(z, x.invoice, x.target))
        PROVE  SerialInv'
    <2> DEFINE w == Holding(z, x.invoice, x.target)
    <2>1. w \in Copies /\ w.invoice = x.invoice /\ w.target = x.target
      BY <1>2, <1>7, HoldingIs DEF Capped
    <2>2. Goto(r, "commit", w) /\ pc[r] = "card"
      BY <1>7 DEF Reads
    <2> HIDE DEF w
    <2>3. Exact(c, "commit", w, invoice, charged, received)
      BY <1>4, <1>5, <2>1, <2>2 DEF Exact
    <2>4. QED
      BY <1>1, <1>7, <2>1, <2>2, <2>3, SerialReads
  <1>8. ASSUME pc[r] = "card"
        PROVE  Capped(y) /\ c.amount \in Int /\ c.amount > 0
    <2>1. x.invoice.card \in Cards
      BY <1>0, <1>8 DEF RequestOK, Held, Sound
    <2>2. c.amount \in Int /\ c.amount > 0
      BY <1>0, <1>4, <1>8 DEF RequestOK, Asked, Held
    <2>3. QED
      BY <1>0, <2>1, <2>2 DEF TablesOK
  <1>9. CASE ReadCardToPay(r)
    <2>1. /\ Reads(r, "card") /\ pc[r] = "card"
          /\ Goto(r, "commit", Holding(Restore(y, c.amount), x.invoice, x.target))
      BY <1>9 DEF ReadCardToPay, Reads
    <2>2. Capped(Restore(y, c.amount))
      BY <1>8, <2>1, RestoreIs
    <2>3. QED
      BY <1>7, <2>1, <2>2
  <1>10. CASE ReadCardToCharge(r)
    <2> DEFINE z == [y EXCEPT !.available = y.available - c.amount]
    <2>1. /\ Reads(r, "card") /\ pc[r] = "card"
          /\ Goto(r, "commit", Holding(z, x.invoice, x.target))
      BY <1>10 DEF ReadCardToCharge, Reads
    <2>2. Capped(z)
      BY <1>8, <2>1, SpendIs
    <2> HIDE DEF z
    <2>3. QED
      BY <1>7, <2>1, <2>2
  <1>11. QED
    BY <1>6, <1>9, <1>10

\* From a commit on, a request holds nothing but the identifier of its invoice.
LEMMA SerialCommits ==
    ASSUME CreditInv, SerialInv, NEW r \in Requests, NEW op, Commits(r, op), InvoiceExact',
           \A i \in Invoices :
              \/ (Lost = 0 => cachedInvoice[i] = {}) \/ invoice'[i] = invoice[i]
              \/ call[r].op \in {"pay", "charge"} /\ copy[r].target = i
    PROVE  SerialInv'
  <1> DEFINE c == call[r]
             s == AfterCommit(c)
             x == Holding(BlankCard, BlankInvoice, copy[r].target)
  <1>0. /\ c \in Calls /\ copy[r] \in Copies
    BY DEF CreditInv, FrameOK
  <1>1. /\ Begin(r, c, s, x) /\ pc[r] = "commit" /\ InFlight(r)
        /\ UNCHANGED <<cachedInvoice, faults>>
    BY DEF Commits, Goto, redisVars, InFlight
  <1>2. x \in Copies /\ x.target = copy[r].target
    BY <1>0, CopyIs, Blanks, HoldingIs
  <1>3. /\ s \in {"store", "evictInvoice", "evictCard", "done"}
        /\ c.op \in {"pay", "charge"} => s \in {"store", "evictInvoice"}
    BY <1>0, AfterCommitIs
  <1> HIDE DEF s, x
  <1>4. s \in Places /\ Exact(c, s, x, invoice', charged', received')
    BY <1>3, SettledIsExact DEF Places
  <1>5. Lost' = Lost
    BY <1>1 DEF Lost
  <1>6. ASSUME NEW i \in Invoices
        PROVE  /\ \A y \in cachedInvoice'[i] : y.status # "none"
               /\ Lost' = 0 => \/ cachedInvoice'[i] \subseteq {invoice'[i]}
                               \/ /\ s \in {"store", "evictInvoice"}
                                  /\ c.op \in {"pay", "charge"} /\ x.target = i
    <2>1. /\ \A y \in cachedInvoice[i] : y.status # "none"
          /\ Lost = 0 => cachedInvoice[i] \subseteq {invoice[i]}
      BY <1>1, EntriesBefore DEF WillEvict
    <2>2. QED
      BY <1>1, <1>2, <1>3, <1>5, <2>1
  <1>7. QED
    BY <1>0, <1>1, <1>2, <1>4, <1>6, SerialMoves

LEMMA SerialCommitCard ==
    ASSUME CreditInv, SerialInv, NEW r \in Requests,
           CommitCreateCard(r) \/ CommitUpdateCard(r) \/ CommitDeleteCard(r)
    PROVE  SerialInv'
  <1>1. PICK op : Commits(r, op)
    BY DEF CommitCreateCard, CommitUpdateCard, CommitDeleteCard
  <1>2. UNCHANGED <<invoice, charged, received>>
    BY DEF CommitCreateCard, CommitUpdateCard, CommitDeleteCard
  <1>3. InvoiceExact'
    BY <1>2 DEF SerialInv, InvoiceExact
  <1>4. QED
    BY <1>1, <1>2, <1>3, SerialCommits

LEMMA SerialCommitInvoice ==
    ASSUME CreditInv, SerialInv, NEW r \in Requests,
           CommitCreateInvoice(r) \/ CommitPay(r) \/ CommitCharge(r)
    PROVE  SerialInv'
  <1> DEFINE c == call[r]
             x == copy[r].invoice
             t == copy[r].target
  <1>0. /\ TablesOK /\ RequestOK(r) /\ copy[r] \in Copies
        /\ invoice \in [Invoices -> InvoiceImages]
        /\ charged \in [Invoices -> Nat] /\ received \in [Invoices -> Nat]
    BY DEF CreditInv, FrameOK, TablesOK
  <1>1. PICK op : Commits(r, op)
    BY DEF CommitCreateInvoice, CommitPay, CommitCharge
  <1>2. pc[r] = "commit" /\ InFlight(r)
    BY <1>1 DEF Commits, InFlight
  <1>3. Exact(c, "commit", copy[r], invoice, charged, received)
    BY <1>2, ExactBefore
  <1>4. \A i \in Invoices : invoice[i].total = charged[i] /\ invoice[i].paid = received[i]
    BY DEF SerialInv, InvoiceExact
  <1>5. ASSUME NEW g \in Nat, NEW p \in Nat, t \in Invoices, x.total = g, x.paid = p,
               invoice' = [invoice EXCEPT ![t] = x], charged' = [charged EXCEPT ![t] = g],
               received' = [received EXCEPT ![t] = p],
               c.op \in {"pay", "charge"} \/ (Lost = 0 => cachedInvoice[t] = {})
        PROVE  SerialInv'
    <2>1. /\ invoice'[t] = x /\ charged'[t] = g /\ received'[t] = p
          /\ \A i \in Invoices : i # t => /\ invoice'[i] = invoice[i] /\ charged'[i] = charged[i]
                                          /\ received'[i] = received[i]
      BY <1>0, <1>5
    <2>2. InvoiceExact'
      BY <1>4, <1>5, <2>1 DEF InvoiceExact
    <2>3. QED
      BY <1>1, <1>5, <2>1, <2>2, SerialCommits
  <1>6. CASE CommitCreateInvoice(r)
    <2>1. /\ c.op = "createInvoice" /\ invoice' = [invoice EXCEPT ![t] = x]
          /\ charged' = charged /\ received' = received
      BY <1>6 DEF CommitCreateInvoice, Commits
    <2>2. /\ t \in Invoices /\ x.total = 0 /\ x.paid = 0
          /\ invoice[t] = BlankInvoice
      BY <1>0, <1>2, <1>3, <2>1 DEF RequestOK, Held, Exact
    <2>3. charged[t] = 0 /\ received[t] = 0
      BY <1>4, <2>2, Blanks
    <2>4. /\ charged' = [charged EXCEPT ![t] = 0] /\ received' = [received EXCEPT ![t] = 0]
      BY <1>0, <2>1, <2>2, <2>3
    <2>5. Lost = 0 => cachedInvoice[t] = {}
      <3>1. /\ \A y \in cachedInvoice[t] : y.status # "none"
            /\ Lost = 0 => cachedInvoice[t] \subseteq {invoice[t]}
        BY <1>2, <2>2, EntriesBefore DEF WillEvict
      <3>2. QED
        BY <2>2, <3>1, Blanks
    <2>6. QED
      BY <1>5, <2>1, <2>2, <2>4, <2>5
  <1>7. CASE CommitPay(r)
    <2> DEFINE p == received[t] + c.amount
    <2>1. /\ c.op = "pay" /\ invoice' = [invoice EXCEPT ![t] = x]
          /\ received' = [received EXCEPT ![t] = @ + c.amount] /\ charged' = charged
      BY <1>7 DEF CommitPay, Commits
    <2>2. t \in Invoices /\ c.amount > 0 /\ c.amount \in Int
      BY <1>0, <1>2, <2>1 DEF RequestOK, Held, Asked
    <2>3. /\ charged' = [charged EXCEPT ![t] = charged[t]] /\ received' = [received EXCEPT ![t] = p]
          /\ charged[t] \in Nat /\ p \in Nat
      BY <1>0, <2>1, <2>2
    <2>4. x.total = charged[t] /\ x.paid = p
      BY <1>3, <2>1 DEF Exact
    <2>5. QED
      BY <1>5, <2>1, <2>2, <2>3, <2>4
  <1>8. CASE CommitCharge(r)
    <2> DEFINE g == charged[t] + c.amount
    <2>1. /\ c.op = "charge" /\ invoice' = [invoice EXCEPT ![t] = x] /\ t # NoInvoice
          /\ charged' = [charged EXCEPT ![t] = @ + c.amount] /\ received' = received
      BY <1>8 DEF CommitCharge, Commits
    <2>2. t \in Invoices
      BY <1>0, <2>1, CopyIs
    <2>3. c.amount > 0 /\ c.amount \in Int
      BY <1>0, <1>2, <2>1, <2>2 DEF RequestOK, Held, Asked
    <2>4. /\ charged' = [charged EXCEPT ![t] = g] /\ received' = [received EXCEPT ![t] = received[t]]
          /\ g \in Nat /\ received[t] \in Nat
      BY <1>0, <2>1, <2>2, <2>3
    <2>5. x.total = g /\ x.paid = received[t]
      BY <1>3, <2>1, <2>2 DEF Exact
    <2>6. QED
      BY <1>5, <2>1, <2>2, <2>4, <2>5
  <1>9. QED
    BY <1>6, <1>7, <1>8

LEMMA SerialRedis ==
    ASSUME CreditInv, SerialInv, NEW r \in Requests,
           StoreKey(r) \/ EvictInvoice(r) \/ EvictCard(r) \/ FillCache(r) \/ RedisFails(r)
    PROVE  SerialInv'
  <1> DEFINE c == call[r]
             x == copy[r]
  <1>0. /\ TablesOK /\ RequestOK(r) /\ c \in Calls /\ x \in Copies
        /\ cachedInvoice \in [Invoices -> SUBSET InvoiceImages]
    BY DEF CreditInv, FrameOK, TablesOK
  <1>1. /\ UNCHANGED dbVars /\ UNCHANGED <<invoice, charged, received>>
        /\ pc[r] \in {"store", "evictInvoice", "evictCard", "fill"} /\ InFlight(r)
    BY DEF StoreKey, EvictInvoice, EvictCard, FillCache, RedisFails, dbVars, InFlight
  <1>2. /\ AfterStore(c) \in {"evictInvoice", "evictCard", "done"}
        /\ AfterStore(c) = "evictInvoice" <=> c.op \in {"pay", "charge"}
        /\ AfterEvictInvoice(c) \in {"evictCard", "done"}
    BY <1>0, AfterCommitIs DEF AfterEvictInvoice
  <1>3. \A s \in {"evictInvoice", "evictCard", "done"} : s \in Places
    BY DEF Places
  <1>4. InvoiceExact'
    BY <1>1 DEF SerialInv, InvoiceExact
  <1>5. ASSUME NEW s \in {"evictInvoice", "evictCard", "done"}, NEW y \in Copies, Goto(r, s, y),
               \A i \in Invoices :
                  /\ \A z \in cachedInvoice'[i] : z.status # "none"
                  /\ Lost' = 0 => \/ cachedInvoice'[i] \subseteq {invoice[i]}
                                  \/ s = "evictInvoice" /\ c.op \in {"pay", "charge"} /\ y.target = i
        PROVE  SerialInv'
    <2>1. Begin(r, c, s, y) /\ s \in Places /\ Exact(c, s, y, invoice', charged', received')
      BY <1>3, <1>5, SettledIsExact DEF Goto
    <2>2. QED
      BY <1>0, <1>1, <1>4, <1>5, <2>1, SerialMoves
  <1>6. ASSUME NEW i \in Invoices
        PROVE  /\ \A z \in cachedInvoice[i] : z.status # "none"
               /\ Lost = 0 => cachedInvoice[i] \subseteq {invoice[i]} \/ WillEvict(r, i)
    BY <1>1, EntriesBefore
  <1>7. CASE StoreKey(r)
    <2>1. Goto(r, AfterStore(c), x) /\ UNCHANGED <<cachedInvoice, faults>>
      BY <1>7 DEF StoreKey
    <2>2. Lost' = Lost
      BY <2>1 DEF Lost
    <2>3. QED
      BY <1>0, <1>2, <1>5, <1>6, <2>1, <2>2 DEF WillEvict
  <1>8. CASE EvictInvoice(r)
    <2>1. /\ Goto(r, AfterEvictInvoice(c), x) /\ UNCHANGED faults
          /\ cachedInvoice' = [cachedInvoice EXCEPT ![x.target] = {}]
      BY <1>8 DEF EvictInvoice
    <2>2. Lost' = Lost
      BY <2>1 DEF Lost
    <2>3. \A i \in Invoices : cachedInvoice'[i] = IF i = x.target THEN {} ELSE cachedInvoice[i]
      BY <1>0, <2>1
    <2>4. QED
      BY <1>0, <1>2, <1>5, <1>6, <2>1, <2>2, <2>3 DEF WillEvict
  <1>9. CASE EvictCard(r)
    <2>1. Goto(r, "done", NoCopy) /\ UNCHANGED <<cachedInvoice, faults>> /\ pc[r] = "evictCard"
      BY <1>9 DEF EvictCard, Return
    <2>2. Lost' = Lost
      BY <2>1 DEF Lost
    <2>3. QED
      BY <1>5, <1>6, <2>1, <2>2, NoCopyIs DEF WillEvict
  <1>10. CASE FillCache(r)
    <2>1. Goto(r, "done", NoCopy) /\ UNCHANGED faults /\ pc[r] = "fill"
      BY <1>10 DEF FillCache, Return
    <2>2. Lost' = Lost
      BY <2>1 DEF Lost
    <2>3. CASE cachedInvoice' = cachedInvoice
      BY <1>5, <1>6, <2>1, <2>2, <2>3, NoCopyIs DEF WillEvict
    <2>4. CASE /\ c.op = "getInvoice"
               /\ cachedInvoice' = [cachedInvoice EXCEPT ![c.invoice] = {x.invoice}]
      <3>1. \A i \in Invoices :
               cachedInvoice'[i] = IF i = c.invoice THEN {x.invoice} ELSE cachedInvoice[i]
        BY <1>0, <2>4
      <3>2. x.invoice = invoice[c.invoice] /\ x.invoice.status # "none"
        BY <1>1, <2>1, <2>4, ExactBefore DEF Exact
      <3>3. QED
        BY <1>5, <1>6, <2>1, <2>2, <3>1, <3>2, NoCopyIs DEF WillEvict
    <2>5. QED
      BY <1>10, <2>3, <2>4 DEF FillCache
  <1>11. CASE RedisFails(r)
    <2>1. Fault("redis") /\ "redis" \in Faults /\ cachedInvoice' = cachedInvoice
      BY <1>11 DEF RedisFails, Faults, redisVars
    <2>2. Lost' # 0
      <3>1. Lost' = Lost + 1 /\ Lost \in Nat
        BY <1>0, <2>1, FaultCounts
      <3>2. QED
        BY <3>1
    <2>3. PICK s \in {"evictInvoice", "evictCard", "done"}, y \in {x, NoCopy} : Goto(r, s, y)
      BY <1>2, <1>11 DEF RedisFails, Return
    <2>4. QED
      BY <1>0, <1>5, <1>6, <2>1, <2>2, <2>3, NoCopyIs
  <1>12. QED
    BY <1>7, <1>8, <1>9, <1>10, <1>11

LEMMA SerialStep ==
    ASSUME CreditInv, SerialInv, NEW r \in Requests, Step(r)
    PROVE  SerialInv'
  <1>1. CASE \/ Refused(r) \/ RolloverRefused(r) \/ ReadCardRefused(r)
             \/ RolloverBreaksForeignKey(r) \/ CheckFails(r) \/ DatabaseFails(r) \/ Abandon(r)
    BY <1>1, SerialReturns
  <1>2. CASE FindCard(r) \/ FindInvoice(r) \/ StartRollover(r)
    BY <1>2, SerialFindCard, SerialFindInvoice
  <1>3. CASE RolloverFound(r) \/ RolloverNew(r)
    BY <1>3, SerialRollover
  <1>4. CASE LockInvoice(r) \/ ReadCardToPay(r) \/ ReadCardToCharge(r)
    BY <1>4, SerialTransaction
  <1>5. CASE CommitCreateCard(r) \/ CommitUpdateCard(r) \/ CommitDeleteCard(r)
    BY <1>5, SerialCommitCard
  <1>6. CASE CommitCreateInvoice(r) \/ CommitPay(r) \/ CommitCharge(r)
    BY <1>6, SerialCommitInvoice
  <1>7. CASE StoreKey(r) \/ EvictInvoice(r) \/ EvictCard(r) \/ FillCache(r) \/ RedisFails(r)
    BY <1>7, SerialRedis
  <1>8. QED
    BY <1>1, <1>2, <1>3, <1>4, <1>5, <1>6, <1>7 DEF Step

LEMMA SerialArrives ==
    ASSUME Serial, CreditInv, SerialInv, NEW r \in Requests, NEW c \in Calls, NEW up \in BOOLEAN,
           NEW s \in {"done", "find", "commit"}, NEW x \in Copies, Arrives(r, c, up),
           Begin(r, c, s, x), UNCHANGED dbVars, UNCHANGED cachedInvoice,
           s = "commit" => c.op \in {"createCard", "deleteCard"},
           c.op = "createInvoice" => invoice[c.invoice] = BlankInvoice
    PROVE  SerialInv'
  <1>0. TablesOK
    BY DEF CreditInv
  <1>1. pc[r] = "idle" /\ \A q \in Requests : ~InFlight(q)
    BY DEF Arrives
  <1>2. Lost' = 0 => Lost = 0
    BY <1>0, ArrivesFaults
  <1>3. s \in Places /\ Exact(c, s, x, invoice, charged, received)
    BY DEF Places, Exact
  <1>4. QED
    BY <1>1, <1>2, <1>3, SerialQuiet

LEMMA SerialArrival ==
    ASSUME Serial, CreditInv, SerialInv, NEW r \in Requests, Arrival(r)
    PROVE  SerialInv'
  <1>1. PICK up \in BOOLEAN, k \in Keys \union {NoKey} :
        \/ \E c \in Cards :
              \/ \E l \in Limits : CreateCreditCard(r, c, l, k, up)
              \/ \E l \in Limits \union {Keep}, on \in BOOLEAN \union {Keep} :
                    UpdateCreditCard(r, c, l, on, k, up)
              \/ \E i \in Invoices, m \in 1..(LastMonth + 1) : CreateInvoice(r, c, i, m, k, up)
              \/ k = NoKey /\ DeleteCreditCard(r, c, up)
              \/ k = NoKey /\ GetCreditCard(r, c, up)
        \/ \E i \in Invoices :
              \/ \E a \in Amounts : PayInvoice(r, i, a, k, up)
              \/ \E a \in Amounts : AddTransaction(r, i, a, k, up)
              \/ k = NoKey /\ GetInvoice(r, i, up)
    BY DEF Arrival
  <1>2. Limits \subseteq Int /\ Amounts \subseteq Int /\ LastMonth \in Nat
    BY ConstantsAssumption
  <1>3. Ops = {"updateCard", "createInvoice", "getCard", "pay", "charge", "getInvoice", "none",
               "createCard", "deleteCard"}
    BY DEF Ops, CardOps, InvoiceOps
  <1>4. ASSUME NEW c \in Calls, NEW s \in {"done", "find"}, Arrives(r, c, up),
               Begin(r, c, s, NoCopy), UNCHANGED <<dbVars, redisVars>>,
               c.op = "createInvoice" => invoice[c.invoice] = BlankInvoice
        PROVE  SerialInv'
    <2>1. UNCHANGED dbVars /\ UNCHANGED cachedInvoice
      BY <1>4 DEF redisVars
    <2>2. QED
      BY <1>4, <2>1, NoCopyIs, SerialArrives
  <1>5. ASSUME NEW c \in Cards, NEW l \in Limits, CreateCreditCard(r, c, l, k, up) PROVE SerialInv'
    <2> DEFINE q == CardCall("createCard", c, l, Keep, k)
               y == NewCreditCard(l)
               x == Holding(y, BlankInvoice, NoInvoice)
    <2>1. q \in Calls /\ q.op = "createCard"
      BY <1>2, <1>3, CardCallIs
    <2>2. /\ Arrives(r, q, up) /\ UNCHANGED dbVars /\ UNCHANGED cachedInvoice
          /\ Begin(r, q, "done", NoCopy) \/ (l >= 0 /\ Begin(r, q, "commit", x))
      BY <1>2, <1>5 DEF CreateCreditCard, redisVars
    <2> HIDE DEF q
    <2>3. CASE Begin(r, q, "done", NoCopy)
      BY <2>1, <2>2, <2>3, NoCopyIs, SerialArrives
    <2>4. CASE l >= 0 /\ Begin(r, q, "commit", x)
      <3>1. y \in CardImages
        BY <1>2, <2>4, NewCreditCardIs DEF Capped
      <3> HIDE DEF y
      <3>2. x \in Copies
        BY <3>1, Blanks, HoldingIs
      <3> HIDE DEF x
      <3>3. QED
        BY <2>1, <2>2, <2>4, <3>2, SerialArrives
    <2>5. QED
      BY <2>2, <2>3, <2>4
  <1>6. ASSUME NEW c \in Cards, NEW l \in Limits \union {Keep}, NEW on \in BOOLEAN \union {Keep},
               UpdateCreditCard(r, c, l, on, k, up)
        PROVE  SerialInv'
    <2> DEFINE q == CardCall("updateCard", c, l, on, k)
               s == IF Replayed(k, up) THEN "done" ELSE "find"
    <2>1. q \in Calls /\ q.op = "updateCard" /\ s \in {"done", "find"}
      BY <1>2, <1>3 DEF CardCall, Calls
    <2>2. Arrives(r, q, up) /\ Begin(r, q, s, NoCopy) /\ UNCHANGED <<dbVars, redisVars>>
      BY <1>6 DEF UpdateCreditCard
    <2> HIDE DEF q, s
    <2>3. QED
      BY <1>4, <2>1, <2>2
  <1>7. ASSUME NEW c \in Cards, NEW i \in Invoices, NEW m \in 1..(LastMonth + 1),
               CreateInvoice(r, c, i, m, k, up)
        PROVE  SerialInv'
    <2> DEFINE q == [op |-> "createInvoice", card |-> c, invoice |-> i, month |-> m,
                     amount |-> 0, active |-> Keep, key |-> k]
               s == IF Replayed(k, up) THEN "done" ELSE "find"
    <2>1. q \in Calls /\ q.op = "createInvoice" /\ q.invoice = i /\ s \in {"done", "find"}
      BY <1>2, <1>3 DEF Calls
    <2>2. /\ Arrives(r, q, up) /\ Begin(r, q, s, NoCopy) /\ UNCHANGED <<dbVars, redisVars>>
          /\ invoice[i] = BlankInvoice
      BY <1>7 DEF CreateInvoice, FreshInvoice
    <2> HIDE DEF q, s
    <2>3. QED
      BY <1>4, <2>1, <2>2
  <1>8. ASSUME NEW c \in Cards, DeleteCreditCard(r, c, up) PROVE SerialInv'
    <2> DEFINE q == CardCall("deleteCard", c, 0, Keep, NoKey)
    <2>1. q \in Calls /\ q.op = "deleteCard"
      BY <1>3 DEF CardCall, Calls
    <2>2. /\ Arrives(r, q, up) /\ Begin(r, q, "commit", NoCopy) /\ UNCHANGED dbVars
          /\ UNCHANGED cachedInvoice
      BY <1>8 DEF DeleteCreditCard
    <2> HIDE DEF q
    <2>3. QED
      BY <2>1, <2>2, NoCopyIs, SerialArrives
  <1>9. ASSUME NEW c \in Cards, GetCreditCard(r, c, up) PROVE SerialInv'
    <2> DEFINE q == CardCall("getCard", c, 0, Keep, NoKey)
               s == IF up /\ cachedCard[c] # {} THEN "done" ELSE "find"
    <2>1. q \in Calls /\ q.op = "getCard" /\ s \in {"done", "find"}
      BY <1>3 DEF CardCall, Calls
    <2>2. Arrives(r, q, up) /\ Begin(r, q, s, NoCopy) /\ UNCHANGED <<dbVars, redisVars>>
      BY <1>9 DEF GetCreditCard
    <2> HIDE DEF q, s
    <2>3. QED
      BY <1>4, <2>1, <2>2
  <1>10. ASSUME NEW i \in Invoices, NEW a \in Amounts,
                PayInvoice(r, i, a, k, up) \/ AddTransaction(r, i, a, k, up)
         PROVE  SerialInv'
    <2> DEFINE q(op) == InvoiceCall(op, i, a, k)
               s == IF Replayed(k, up) THEN "done" ELSE "find"
    <2>1. PICK op \in {"pay", "charge"} :
             /\ Arrives(r, q(op), up) /\ Begin(r, q(op), s, NoCopy)
             /\ UNCHANGED <<dbVars, redisVars>>
      BY <1>10 DEF PayInvoice, AddTransaction
    <2>2. q(op) \in Calls /\ q(op).op = op /\ s \in {"done", "find"}
      BY <1>2, <1>3, InvoiceCallIs
    <2> HIDE DEF q, s
    <2>3. QED
      BY <1>4, <2>1, <2>2
  <1>11. ASSUME NEW i \in Invoices, GetInvoice(r, i, up) PROVE SerialInv'
    <2> DEFINE q == InvoiceCall("getInvoice", i, 0, NoKey)
               s == IF up /\ cachedInvoice[i] # {} THEN "done" ELSE "find"
    <2>1. q \in Calls /\ q.op = "getInvoice" /\ s \in {"done", "find"}
      BY <1>3, InvoiceCallIs
    <2>2. Arrives(r, q, up) /\ Begin(r, q, s, NoCopy) /\ UNCHANGED <<dbVars, redisVars>>
      BY <1>11 DEF GetInvoice
    <2> HIDE DEF q, s
    <2>3. QED
      BY <1>4, <2>1, <2>2
  <1>12. QED
    BY <1>1, <1>5, <1>6, <1>7, <1>8, <1>9, <1>10, <1>11

LEMMA SerialExpire ==
    ASSUME CreditInv, SerialInv, ExpireCache \/ UNCHANGED vars
    PROVE  SerialInv'
  <1>1. UNCHANGED <<invoice, charged, received, faults, pc, call, copy>>
    BY DEF ExpireCache, vars, dbVars
  <1>2. \A i \in Invoices : cachedInvoice'[i] \subseteq cachedInvoice[i]
    BY DEF CreditInv, TablesOK, ExpireCache, vars
  <1>3. OneAtATime' /\ InvoiceExact' /\ \A r \in Requests : ExactOK(r)'
    BY <1>1 DEF SerialInv, OneAtATime, InvoiceExact, ExactOK, InFlight
  <1>4. ASSUME NEW i \in Invoices PROVE EntryOK(i)'
    <2>1. EntryOK(i) /\ Lost' = Lost
      BY <1>1 DEF SerialInv, Lost
    <2>2. \A r \in Requests : WillEvict(r, i)' <=> WillEvict(r, i)
      BY <1>1 DEF WillEvict
    <2>3. QED
      BY <1>1, <1>2, <2>1, <2>2 DEF EntryOK
  <1>5. QED
    BY <1>3, <1>4 DEF SerialInv

LEMMA SerialInvInit == Init => SerialInv
  <1> SUFFICES ASSUME Init PROVE SerialInv
    OBVIOUS
  <1>1. \A r \in Requests : ~InFlight(r)
    BY DEF Init, InFlight
  <1>2. OneAtATime /\ \A r \in Requests : ExactOK(r)
    BY <1>1 DEF OneAtATime, ExactOK
  <1>3. ASSUME NEW i \in Invoices
        PROVE  invoice[i].total = charged[i] /\ invoice[i].paid = received[i]
    <2>1. charged[i] = 0 /\ received[i] = 0
      BY DEF Init
    <2>2. CASE i \in DOMAIN OpenInvoices
      BY <2>1, <2>2 DEF Init, NewInvoice
    <2>3. CASE i \notin DOMAIN OpenInvoices
      BY <2>1, <2>3, Blanks DEF Init
    <2>4. QED
      BY <2>2, <2>3
  <1>4. \A i \in Invoices : EntryOK(i)
    BY DEF Init, EntryOK
  <1>5. QED
    BY <1>2, <1>3, <1>4 DEF SerialInv, InvoiceExact

LEMMA SerialInvStep ==
    ASSUME Serial
    PROVE  CreditInv /\ SerialInv /\ [Next]_vars => SerialInv'
  BY SerialArrival, SerialStep, SerialExpire DEF Next

\* When requests come one at a time, what a handler of an invoice holds is what
\* its transaction makes of the rows, and a cache entry that the table has
\* overtaken is the next to be evicted, unless Redis failed or a request died.
THEOREM SerialInvAlways ==
    ASSUME Serial
    PROVE  Spec => []SerialInv
  <1>1. SerialInv /\ CreditInv /\ [Next]_vars => SerialInv'
    BY SerialInvStep
  <1>2. QED
    BY <1>1, SerialInvInit, CreditInvAlways, PTL DEF Spec

\* The total and the paid columns of an invoice are the sums of its transaction
\* rows and of its invoice.paid events: AddTransaction and PayInvoice lose no
\* write when their calls do not overlap.
THEOREM InvoiceIsExact ==
    ASSUME Serial
    PROVE  Spec => []InvoiceExact
  <1>1. SerialInv => InvoiceExact
    BY DEF SerialInv
  <1>2. QED
    BY <1>1, SerialInvAlways, PTL

\* GetInvoice answers from Redis only what the table says: PayInvoice and
\* AddTransaction evict the entry of the very invoice they wrote, which after a
\* rollover is not the one they were asked for.
THEOREM InvoiceCacheTellsRow ==
    ASSUME Serial
    PROVE  Spec => []InvoiceCacheCoherent
  <1>1. SerialInv => InvoiceCacheCoherent
    BY DEF SerialInv, EntryOK, WillEvict, InFlight, InvoiceCacheCoherent, Quiet, Lost
  <1>2. QED
    BY <1>1, SerialInvAlways, PTL

------------------------------------------------------------------------------
(***************************************************************************)
(* Sums.  What holds of every proper subset of a finite set s only if it   *)
(* holds of s holds of all subsets: among those that lack it one would be  *)
(* minimal.  So the recursive function that SumFunctionOnSet chooses       *)
(* exists, and its value at a set does not depend on the order in which    *)
(* the terms are added.                                                    *)
(***************************************************************************)

\* f summed over the subsets of S, one chosen element at a time.
Adds(g, f, S) ==
    g = [s \in SUBSET S |->
            IF s = {} THEN 0
            ELSE f[CHOOSE x \in s : TRUE] + g[s \ {CHOOSE x \in s : TRUE}]]

LEMMA SumIsChosen ==
    ASSUME NEW f, NEW S
    PROVE  SumFunctionOnSet(f, S) = (CHOOSE g : Adds(g, f, S))[S]
  BY DEF SumFunctionOnSet, FoldFunctionOnSet, MapThenFoldSet, Adds

LEMMA SubsetInduct ==
    ASSUME NEW S, IsFiniteSet(S), NEW T,
           \A s \in SUBSET S : (\A t \in SUBSET s : t # s => t \in T) => s \in T
    PROVE  SUBSET S \subseteq T
  <1> DEFINE R == StrictSubsetOrdering(S)
             U == (SUBSET S) \ T
  <1>1. SUFFICES ASSUME U # {} PROVE FALSE
    OBVIOUS
  <1>2. IsWellFoundedOn(R, SUBSET S)
    BY FS_StrictSubsetOrderingWellFounded, FS_FiniteSubsetsOfFinite
  <1>3. \A s, t \in SUBSET S : s \subseteq t /\ s # t => <<s, t>> \in R
    BY DEF StrictSubsetOrdering
  <1>4. U \subseteq SUBSET S
    OBVIOUS
  <1>5. \E m \in U : \A y \in U : ~(<<y, m>> \in R)
    <2> HIDE DEF R, U
    <2> QED BY <1>1, <1>2, <1>4, WFMin
  <1> HIDE DEF R
  <1>6. PICK m \in U : \A y \in U : ~(<<y, m>> \in R)
    BY <1>5
  <1>7. ASSUME NEW t \in SUBSET m, t # m PROVE t \in T
    <2>1. t \in SUBSET S /\ m \in SUBSET S
      OBVIOUS
    <2>2. <<t, m>> \in R
      BY <1>3, <1>7, <2>1
    <2>3. QED
      BY <1>6, <2>1, <2>2
  <1>8. m \in SUBSET S /\ m \notin T
    OBVIOUS
  <1>9. QED
    BY <1>7, <1>8

Least(s) == CHOOSE x \in s : TRUE

LEMMA LeastIn == ASSUME NEW s, s # {} PROVE Least(s) \in s
  BY DEF Least

\* Adds, as equations.
LEMMA AddsEquations ==
    ASSUME NEW g, NEW f, NEW S
    PROVE  Adds(g, f, S)
           <=> /\ g = [s \in SUBSET S |-> g[s]]
               /\ {} \in SUBSET S => g[{}] = 0
               /\ \A s \in SUBSET S : s # {} => g[s] = f[Least(s)] + g[s \ {Least(s)}]
  BY DEF Adds, Least

\* Two sums of the same terms are the same, whatever set they are part of.
LEMMA SumsAgree ==
    ASSUME NEW S, NEW R, IsFiniteSet(R), R \subseteq S,
           NEW f, NEW e, \A x \in R : f[x] = e[x],
           NEW g, Adds(g, f, S), NEW h, Adds(h, e, R)
    PROVE  g[R] = h[R]
  <1> DEFINE T == {s \in SUBSET R : g[s] = h[s]}
  <1>1. ASSUME NEW s \in SUBSET R, \A t \in SUBSET s : t # s => t \in T PROVE s \in T
    <2>1. CASE s = {}
      BY <2>1, AddsEquations
    <2>2. CASE s # {}
      <3>1. Least(s) \in s
        BY <2>2, LeastIn
      <3>2. s \ {Least(s)} \in T
        BY <1>1, <3>1
      <3>3. g[s] = f[Least(s)] + g[s \ {Least(s)}] /\ h[s] = e[Least(s)] + h[s \ {Least(s)}]
        BY <2>2, AddsEquations
      <3>4. QED
        BY <3>1, <3>2, <3>3
    <2>3. QED
      BY <2>1, <2>2
  <1>2. SUBSET R \subseteq T
    <2> HIDE DEF T
    <2> QED BY <1>1, SubsetInduct
  <1>3. QED
    BY <1>2

LEMMA SumExists ==
    ASSUME NEW S, IsFiniteSet(S), NEW f
    PROVE  Adds(CHOOSE g : Adds(g, f, S), f, S)
  <1> DEFINE H(u) == CHOOSE g : Adds(g, f, u)
             T == {s \in SUBSET S : \E g : Adds(g, f, s)}
  <1>1. ASSUME NEW s \in SUBSET S, \A t \in SUBSET s : t # s => t \in T PROVE s \in T
    <2> DEFINE G == [t \in SUBSET s |-> IF t = {} THEN 0 ELSE
                        f[Least(t)] + H(t \ {Least(t)})[t \ {Least(t)}]]
    <2>1. ASSUME NEW t \in SUBSET s, t # s PROVE Adds(H(t), f, t) /\ IsFiniteSet(t)
      BY <1>1, <2>1, FS_Subset
    <2>2. ASSUME NEW t \in SUBSET s, t # s PROVE G[t] = H(t)[t]
      <3>1. Adds(H(t), f, t)
        BY <2>1, <2>2
      <3> HIDE DEF H
      <3>2. CASE t = {}
        BY <3>1, <3>2, AddsEquations
      <3>3. CASE t # {}
        <4> DEFINE u == t \ {Least(t)}
        <4>1. u \in SUBSET s /\ u # s /\ u \subseteq t
          BY <2>2, <3>3, LeastIn
        <4>2. Adds(H(u), f, u) /\ IsFiniteSet(u)
          BY <2>1, <4>1
        <4>3. H(t)[t] = f[Least(t)] + H(t)[u]
          BY <3>1, <3>3, AddsEquations
        <4>4. H(t)[u] = H(u)[u]
          <5> HIDE DEF u
          <5> QED BY <3>1, <4>1, <4>2, SumsAgree
        <4>5. QED
          BY <3>3, <4>3, <4>4
      <3>4. QED
        BY <3>2, <3>3
    <2>3. ASSUME NEW t \in SUBSET s, t # {}
          PROVE  G[t] = f[Least(t)] + G[t \ {Least(t)}]
      <3>1. t \ {Least(t)} \in SUBSET s /\ t \ {Least(t)} # s
        BY <2>3, LeastIn
      <3>2. G[t \ {Least(t)}] = H(t \ {Least(t)})[t \ {Least(t)}]
        BY <2>2, <3>1
      <3>3. QED
        BY <2>3, <3>2
    <2>4. G[{}] = 0 /\ G = [t \in SUBSET s |-> G[t]]
      OBVIOUS
    <2>5. Adds(G, f, s)
      <3> HIDE DEF G
      <3> QED BY <2>3, <2>4, AddsEquations
    <2>6. QED
      <3> HIDE DEF G
      <3> QED BY <2>5
  <1>2. SUBSET S \subseteq T
    <2> HIDE DEF T
    <2> QED BY <1>1, SubsetInduct
  <1>3. QED
    BY <1>2

\* The sum of a function does not depend on its values elsewhere.
LEMMA SumSame ==
    ASSUME NEW S, IsFiniteSet(S), NEW f, NEW e, \A x \in S : f[x] = e[x]
    PROVE  SumFunctionOnSet(f, S) = SumFunctionOnSet(e, S)
  <1>1. Adds(CHOOSE g : Adds(g, f, S), f, S) /\ Adds(CHOOSE g : Adds(g, e, S), e, S)
    BY SumExists
  <1>2. QED
    BY <1>1, SumsAgree, SumIsChosen

LEMMA SumEmpty == ASSUME NEW f PROVE SumFunctionOnSet(f, {}) = 0
  <1>1. Adds(CHOOSE g : Adds(g, f, {}), f, {})
    BY SumExists, FS_EmptySet
  <1>2. QED
    BY <1>1, AddsEquations, SumIsChosen

LEMMA SumUnfolds ==
    ASSUME NEW S, IsFiniteSet(S), S # {}, NEW f
    PROVE  SumFunctionOnSet(f, S)
             = f[Least(S)] + SumFunctionOnSet(f, S \ {Least(S)})
  <1> DEFINE R == S \ {Least(S)}
             g == CHOOSE g : Adds(g, f, S)
             h == CHOOSE h : Adds(h, f, R)
  <1>1. IsFiniteSet(R) /\ R \subseteq S
    BY FS_RemoveElement
  <1>2. Adds(g, f, S) /\ Adds(h, f, R)
    BY <1>1, SumExists
  <1>3. SumFunctionOnSet(f, S) = g[S] /\ SumFunctionOnSet(f, R) = h[R]
    BY SumIsChosen
  <1> HIDE DEF R, g, h
  <1>4. g[R] = h[R]
    BY <1>1, <1>2, SumsAgree
  <1>5. g[S] = f[Least(S)] + g[R]
    BY <1>2, AddsEquations DEF R
  <1>6. QED
    BY <1>3, <1>4, <1>5 DEF R

LEMMA SumType ==
    ASSUME NEW V, 0 \in V, \A m, n \in V : m + n \in V,
           NEW S, IsFiniteSet(S), NEW f, \A x \in S : f[x] \in V
    PROVE  SumFunctionOnSet(f, S) \in V
  <1> DEFINE T == {s \in SUBSET S : SumFunctionOnSet(f, s) \in V}
  <1>1. ASSUME NEW s \in SUBSET S, \A t \in SUBSET s : t # s => t \in T PROVE s \in T
    <2>1. CASE s = {}
      BY <2>1, SumEmpty
    <2>2. CASE s # {}
      <3>1. Least(s) \in s /\ IsFiniteSet(s)
        BY <2>2, LeastIn, FS_Subset
      <3>2. s \ {Least(s)} \in T
        BY <1>1, <3>1
      <3>3. SumFunctionOnSet(f, s) = f[Least(s)] + SumFunctionOnSet(f, s \ {Least(s)})
        BY <2>2, <3>1, SumUnfolds
      <3>4. QED
        BY <3>1, <3>2, <3>3
    <2>3. QED
      BY <2>1, <2>2
  <1>2. SUBSET S \subseteq T
    <2> HIDE DEF T
    <2> QED BY <1>1, SubsetInduct
  <1>3. QED
    BY <1>2

LEMMA SumInt ==
    ASSUME NEW S, IsFiniteSet(S), NEW f, \A x \in S : f[x] \in Int
    PROVE  SumFunctionOnSet(f, S) \in Int
  <1> DEFINE V == Int
  <1>1. 0 \in V /\ \A m, n \in V : m + n \in V
    OBVIOUS
  <1>2. \A x \in S : f[x] \in V
    OBVIOUS
  <1>3. SumFunctionOnSet(f, S) \in V
    <2> HIDE DEF V
    <2> QED BY <1>1, <1>2, SumType
  <1>4. QED
    BY <1>3

\* Any term can be taken out.
LEMMA SumWithout ==
    ASSUME NEW S, IsFiniteSet(S), NEW f, \A x \in S : f[x] \in Int, NEW x \in S
    PROVE  SumFunctionOnSet(f, S) = f[x] + SumFunctionOnSet(f, S \ {x})
  <1> DEFINE T == {s \in SUBSET S : \A y \in s :
                      SumFunctionOnSet(f, s) = f[y] + SumFunctionOnSet(f, s \ {y})}
  <1>0. ASSUME NEW s \in SUBSET S PROVE IsFiniteSet(s) /\ SumFunctionOnSet(f, s) \in Int
    BY FS_Subset, SumInt
  <1>1. ASSUME NEW s \in SUBSET S, \A t \in SUBSET s : t # s => t \in T, NEW y \in s
        PROVE  SumFunctionOnSet(f, s) = f[y] + SumFunctionOnSet(f, s \ {y})
    <2> DEFINE c == Least(s)
    <2>1. c \in s
      BY LeastIn
    <2> HIDE DEF c
    <2>2. SumFunctionOnSet(f, s) = f[c] + SumFunctionOnSet(f, s \ {c})
      BY <1>0, SumUnfolds DEF c
    <2>3. CASE y = c
      BY <2>2, <2>3
    <2>4. CASE y # c
      <3>1. s \ {c} \in T /\ s \ {y} \in T /\ y \in s \ {c} /\ c \in s \ {y}
        BY <1>1, <2>1, <2>4
      <3>2. SumFunctionOnSet(f, s \ {c}) = f[y] + SumFunctionOnSet(f, (s \ {c}) \ {y})
        BY <3>1
      <3>3. SumFunctionOnSet(f, s \ {y}) = f[c] + SumFunctionOnSet(f, (s \ {y}) \ {c})
        BY <3>1
      <3>4. (s \ {c}) \ {y} = (s \ {y}) \ {c} /\ (s \ {y}) \ {c} \in SUBSET S
        OBVIOUS
      <3>5. SumFunctionOnSet(f, (s \ {y}) \ {c}) \in Int /\ f[y] \in Int /\ f[c] \in Int
        BY <1>0, <2>1, <3>4
      <3>6. QED
        <4> DEFINE n == SumFunctionOnSet(f, (s \ {y}) \ {c})
        <4>1. /\ n \in Int /\ SumFunctionOnSet(f, s) = f[c] + (f[y] + n)
              /\ SumFunctionOnSet(f, s \ {y}) = f[c] + n
          BY <2>2, <3>2, <3>3, <3>4, <3>5
        <4> HIDE DEF n
        <4>2. QED
          BY <3>5, <4>1
    <2>5. QED
      BY <2>3, <2>4
  <1>2. \A s \in SUBSET S : (\A t \in SUBSET s : t # s => t \in T) => s \in T
    BY <1>1
  <1>3. SUBSET S \subseteq T
    <2> HIDE DEF T
    <2> QED BY <1>2, SubsetInduct
  <1>4. QED
    BY <1>3

\* A sum moves by what one of its terms does.
LEMMA SumMoves ==
    ASSUME NEW S, IsFiniteSet(S), NEW f, NEW e, NEW x \in S,
           \A y \in S : f[y] \in Int /\ e[y] \in Int /\ (y # x => e[y] = f[y])
    PROVE  SumFunctionOnSet(e, S) = SumFunctionOnSet(f, S) + e[x] - f[x]
  <1> DEFINE R == S \ {x}
  <1>1. IsFiniteSet(R)
    BY FS_RemoveElement
  <1>2. /\ SumFunctionOnSet(f, S) = f[x] + SumFunctionOnSet(f, R)
        /\ SumFunctionOnSet(e, S) = e[x] + SumFunctionOnSet(e, R)
    BY SumWithout
  <1>3. SumFunctionOnSet(f, R) = SumFunctionOnSet(e, R)
    BY <1>1, SumSame
  <1>4. SumFunctionOnSet(f, R) \in Int
    BY <1>1, SumInt
  <1>5. QED
    BY <1>2, <1>3, <1>4

------------------------------------------------------------------------------
(***************************************************************************)
(* What the invoices of a card owe, and how the write of one moves it.     *)
(***************************************************************************)

LEMMA OwedIs ==
    ASSUME TablesOK, NEW i \in Invoices
    PROVE  /\ invoice[i].total \in Nat /\ invoice[i].paid \in Nat
           /\ Owed[i] = invoice[i].total - invoice[i].paid /\ Owed[i] \in Nat
  <1>1. invoice[i] \in InvoiceImages /\ invoice[i].paid <= invoice[i].total
    BY DEF TablesOK, Sound
  <1>2. invoice[i].total \in Nat /\ invoice[i].paid \in Nat
    BY <1>1 DEF InvoiceImages
  <1>3. QED
    BY <1>1, <1>2 DEF Owed

LEMMA OutstandingIs ==
    ASSUME TablesOK, NEW c
    PROVE  /\ IsFiniteSet(InvoicesOf(c)) /\ Outstanding(c) \in Nat
           /\ \A i \in InvoicesOf(c) : Owed[i] <= Outstanding(c)
  <1> DEFINE V == Nat
             S == InvoicesOf(c)
  <1>1. S \subseteq Invoices /\ IsFiniteSet(S)
    BY ConstantsAssumption, FS_Subset DEF InvoicesOf
  <1>2. /\ 0 \in V /\ \A m, n \in V : m + n \in V
        /\ \A i \in S : Owed[i] \in V /\ Owed[i] \in Int
    BY <1>1, OwedIs
  <1> HIDE DEF S
  <1>3. ASSUME NEW s \in SUBSET S PROVE SumFunctionOnSet(Owed, s) \in V
    <2>1. IsFiniteSet(s)
      BY <1>1, FS_Subset
    <2> HIDE DEF V
    <2> QED BY <1>2, <2>1, SumType
  <1>4. ASSUME NEW i \in S PROVE Owed[i] <= SumFunctionOnSet(Owed, S)
    <2>1. SumFunctionOnSet(Owed, S) = Owed[i] + SumFunctionOnSet(Owed, S \ {i})
      BY <1>1, <1>2, SumWithout
    <2>2. SumFunctionOnSet(Owed, S \ {i}) \in Nat /\ Owed[i] \in Nat
      BY <1>2, <1>3
    <2>3. QED
      BY <2>1, <2>2
  <1>5. QED
    BY <1>1, <1>3, <1>4 DEF S, Outstanding

\* The invoice t becomes y, an invoice of card d: if it was another's before, it
\* was no card's and owed nothing.
LEMMA OutstandingMoves ==
    ASSUME TablesOK, TablesOK', NEW t \in Invoices, NEW y,
           invoice' = [invoice EXCEPT ![t] = y], NEW d \in Cards, y.card = d,
           invoice[t].card = d \/ (invoice[t].card = NoCard /\ Owed[t] = 0)
    PROVE  /\ Outstanding(d)' = Outstanding(d) + (y.total - y.paid) - Owed[t]
           /\ \A c \in Cards : c # d => Outstanding(c)' = Outstanding(c)
  <1> DEFINE S(c) == InvoicesOf(c)
             U(c) == InvoicesOf(c)'
             f == Owed
             e == Owed'
  <1>1. /\ invoice'[t] = y /\ \A i \in Invoices : i # t => invoice'[i] = invoice[i]
    BY DEF TablesOK
  <1>2. \A i \in Invoices : /\ f[i] \in Int /\ e[i] \in Int
                            /\ e[i] = invoice'[i].total - invoice'[i].paid
                            /\ f[i] = invoice[i].total - invoice[i].paid
    <2>1. ASSUME NEW i \in Invoices
          PROVE  f[i] \in Int /\ f[i] = invoice[i].total - invoice[i].paid
      BY OwedIs
    <2>2. ASSUME NEW i \in Invoices
          PROVE  e[i] \in Int /\ e[i] = invoice'[i].total - invoice'[i].paid
      <3>1. invoice'[i] \in InvoiceImages
        BY DEF TablesOK
      <3>2. QED
        BY <3>1 DEF Owed, InvoiceImages
    <2>3. QED
      BY <2>1, <2>2
  <1>3. e[t] = y.total - y.paid /\ \A i \in Invoices : i # t => e[i] = f[i]
    BY <1>1, <1>2
  <1>4. NoCard \notin Cards
    BY ConstantsAssumption
  <1>5. \A c \in Cards : /\ c # d => t \notin S(c) /\ t \notin U(c)
                         /\ U(c) \ {t} = S(c) \ {t}
                         /\ S(c) \subseteq Invoices /\ U(c) \subseteq Invoices
    BY <1>1, <1>4 DEF InvoicesOf
  <1>6. t \in U(d)
    BY <1>1 DEF InvoicesOf
  <1>7. \A c : IsFiniteSet(S(c)) /\ IsFiniteSet(U(c))
    <2>1. ASSUME NEW c PROVE S(c) \subseteq Invoices /\ U(c) \subseteq Invoices
      BY DEF InvoicesOf
    <2>2. QED
      BY <2>1, ConstantsAssumption, FS_Subset
  <1>8. \A c : Outstanding(c) = SumFunctionOnSet(f, S(c)) /\ Outstanding(c)' = SumFunctionOnSet(e, U(c))
    BY DEF Outstanding
  <1>9. Owed[t] = f[t]
    OBVIOUS
  <1>10. t \notin S(d) => f[t] = 0
    BY DEF InvoicesOf
  <1> HIDE DEF S, U, f, e
  <1>11. ASSUME NEW c \in Cards, c # d PROVE Outstanding(c)' = Outstanding(c)
    <2>1. U(c) = S(c) /\ t \notin S(c)
      BY <1>5, <1>11
    <2>2. \A i \in S(c) : e[i] = f[i]
      BY <1>3, <1>5, <2>1
    <2>3. SumFunctionOnSet(e, S(c)) = SumFunctionOnSet(f, S(c))
      BY <1>7, <2>2, SumSame
    <2>4. QED
      BY <1>8, <2>1, <2>3
  <1>12. SumFunctionOnSet(f, S(d)) \in Int
    BY <1>2, <1>5, <1>7, SumInt
  <1>13. CASE t \in S(d)
    <2>1. U(d) = S(d)
      BY <1>5, <1>6, <1>13
    <2>2. SumFunctionOnSet(e, S(d)) = SumFunctionOnSet(f, S(d)) + e[t] - f[t]
      <3>1. \A i \in S(d) : f[i] \in Int /\ e[i] \in Int /\ (i # t => e[i] = f[i])
        BY <1>2, <1>3, <1>5
      <3>2. QED
        BY <1>7, <1>13, <3>1, SumMoves
    <2>3. QED
      BY <1>3, <1>8, <1>9, <1>11, <2>1, <2>2
  <1>14. CASE t \notin S(d)
    <2>1. U(d) \ {t} = S(d)
      BY <1>5, <1>14
    <2>2. SumFunctionOnSet(e, U(d)) = e[t] + SumFunctionOnSet(e, S(d))
      <3>1. \A i \in U(d) : e[i] \in Int
        BY <1>2, <1>5
      <3>2. SumFunctionOnSet(e, U(d)) = e[t] + SumFunctionOnSet(e, U(d) \ {t})
        BY <1>6, <1>7, <3>1, SumWithout
      <3>3. QED
        BY <2>1, <3>2
    <2>3. SumFunctionOnSet(e, S(d)) = SumFunctionOnSet(f, S(d))
      <3>1. \A i \in S(d) : e[i] = f[i]
        BY <1>3, <1>5, <1>14
      <3>2. QED
        BY <1>7, <3>1, SumSame
    <2>4. f[t] = 0
      BY <1>10, <1>14
    <2>5. e[t] \in Int
      BY <1>2
    <2>6. QED
      BY <1>3, <1>8, <1>9, <1>11, <1>12, <2>2, <2>3, <2>4, <2>5
  <1>15. QED
    BY <1>13, <1>14

------------------------------------------------------------------------------
(***************************************************************************)
(* Requests that come one at a time: cards and invoices in balance.        *)
(***************************************************************************)

LEMMA BalanceMoves ==
    ASSUME CreditInv, SerialInv, BalanceInv, NEW r \in Requests, NEW c, NEW s, NEW x,
           Begin(r, c, s, x), InFlight(r) \/ \A q \in Requests : ~InFlight(q),
           CreditAccounted', InvoicesHaveCards',
           s # "done" => Prepared(c, s, x, cardRow', card', invoice')
    PROVE  BalanceInv'
  <1>0. FrameOK
    BY DEF CreditInv
  <1>1. /\ pc'[r] = s /\ copy'[r] = x /\ (s # "done" => call'[r] = c)
        /\ \A q \in Requests : q # r => pc'[q] = pc[q]
    BY <1>0, BeginEffect
  <1>2. \A q \in Requests : q # r => ~InFlight(q)'
    BY <1>1 DEF SerialInv, OneAtATime, InFlight
  <1>3. \A q \in Requests : PreparedOK(q)'
    BY <1>1, <1>2 DEF PreparedOK, InFlight
  <1>4. QED
    BY <1>3 DEF BalanceInv

\* A step that leaves the tables alone.
LEMMA BalanceQuiet ==
    ASSUME CreditInv, SerialInv, BalanceInv, NEW r \in Requests, NEW c, NEW s, NEW x,
           Begin(r, c, s, x), InFlight(r) \/ \A q \in Requests : ~InFlight(q),
           UNCHANGED dbVars, s # "done" => Prepared(c, s, x, cardRow, card, invoice)
    PROVE  BalanceInv'
  <1>1. UNCHANGED <<cardRow, card, invoice>>
    BY DEF dbVars
  <1>2. CreditAccounted /\ InvoicesHaveCards
    BY DEF BalanceInv
  <1>3. ASSUME NEW c1 \in Cards PROVE Outstanding(c1)' = Outstanding(c1)
    BY <1>1 DEF Outstanding, Owed, InvoicesOf
  <1>4. CreditAccounted' /\ InvoicesHaveCards'
    BY <1>1, <1>2, <1>3 DEF CreditAccounted, InvoicesHaveCards
  <1>5. QED
    BY <1>1, <1>4, BalanceMoves

\* Away from the transactions a request has nothing prepared.
LEMMA NothingPrepared ==
    ASSUME NEW c, NEW s, s \notin {"lock", "card", "commit"}, NEW x
    PROVE  \A rows, cards, inv : Prepared(c, s, x, rows, cards, inv)
  BY DEF Prepared

LEMMA BalanceAfter ==
    ASSUME CreditInv, SerialInv, BalanceInv, NEW r \in Requests,
           \/ Refused(r) \/ RolloverRefused(r) \/ ReadCardRefused(r) \/ StartRollover(r)
           \/ RolloverBreaksForeignKey(r) \/ CheckFails(r) \/ DatabaseFails(r) \/ Abandon(r)
           \/ StoreKey(r) \/ EvictInvoice(r) \/ EvictCard(r) \/ FillCache(r) \/ RedisFails(r)
    PROVE  BalanceInv'
  <1>0. call[r] \in Calls
    BY DEF CreditInv, FrameOK
  <1>1. /\ AfterStore(call[r]) \in {"evictInvoice", "evictCard", "done"}
        /\ AfterEvictInvoice(call[r]) \in {"evictCard", "done"}
    BY <1>0, AfterCommitIs DEF AfterEvictInvoice
  <1>2. UNCHANGED dbVars /\ InFlight(r)
    BY DEF Refused, RolloverRefused, ReadCardRefused, StartRollover, RolloverBreaksForeignKey,
           CheckFails, DatabaseFails, Abandon, StoreKey, EvictInvoice, EvictCard, FillCache,
           RedisFails, Reads, InFlight
  <1>3. \E s \in {"rollover", "evictInvoice", "evictCard", "done"} : \E x : Goto(r, s, x)
    BY <1>1 DEF Refused, RolloverRefused, ReadCardRefused, StartRollover,
           RolloverBreaksForeignKey, CheckFails, DatabaseFails, Abandon, StoreKey, EvictInvoice,
           EvictCard, FillCache, RedisFails, Return
  <1>4. PICK s \in {"rollover", "evictInvoice", "evictCard", "done"} : \E x : Goto(r, s, x)
    BY <1>3
  <1>5. PICK x : Begin(r, call[r], s, x)
    BY <1>4 DEF Goto
  <1>6. QED
    BY <1>2, <1>5, NothingPrepared, BalanceQuiet

LEMMA BalanceReads ==
    ASSUME CreditInv, SerialInv, BalanceInv, NEW r \in Requests, NEW at, NEW s, NEW x,
           Reads(r, at), at \notin {"idle", "done"}, Goto(r, s, x),
           Prepared(call[r], s, x, cardRow, card, invoice)
    PROVE  BalanceInv'
  <1>1. /\ UNCHANGED dbVars /\ InFlight(r) /\ Begin(r, call[r], s, x)
    BY DEF Reads, InFlight, Goto
  <1>2. QED
    BY <1>1, BalanceQuiet

\* A change of the limit moves both columns by as much.
LEMMA ApplyUpdateKeepsUse ==
    ASSUME NEW x \in CardImages, NEW limit \in Int \union {Keep}, NEW active
    PROVE  LET y == ApplyUpdate(x, limit, active) IN
           y.limit - y.available = x.limit - x.available
  <1>1. x.limit \in Nat /\ x.available \in Int
    BY DEF CardImages
  <1>2. CASE limit = Keep
    BY <1>2 DEF ApplyUpdate
  <1>3. CASE limit # Keep
    <2>1. /\ ApplyUpdate(x, limit, active).limit = limit
          /\ ApplyUpdate(x, limit, active).available = x.available + (limit - x.limit)
      BY <1>3 DEF ApplyUpdate
    <2>2. limit \in Int
      BY <1>3
    <2>3. QED
      BY <1>1, <2>1, <2>2
  <1>4. QED
    BY <1>2, <1>3

LEMMA BalanceFindCard ==
    ASSUME CreditInv, SerialInv, BalanceInv, NEW r \in Requests, FindCard(r)
    PROVE  BalanceInv'
  <1> DEFINE c == call[r]
             y == card[c.card]
  <1>0. /\ TablesOK /\ RequestOK(r) /\ c \in Calls
    BY DEF CreditInv, FrameOK
  <1>1. /\ Reads(r, "find") /\ c.op \in CardOps /\ AcceptsCard(c, y) /\ cardRow[c.card] = "live"
    BY DEF FindCard
  <1>2. /\ c.card \in Cards /\ c.amount \in Int \union {Keep} /\ c.active \in BOOLEAN \union {Keep}
        /\ c.month \in Nat /\ c.invoice \in Invoices \union {NoInvoice}
    BY <1>0, <1>1 DEF RequestOK, Asked, Calls
  <1>3. Capped(y) /\ y \in CardImages
    BY <1>0, <1>2 DEF TablesOK, Capped
  <1>4. CASE c.op = "updateCard"
    <2> DEFINE z == ApplyUpdate(y, c.amount, c.active)
               x == Holding(z, BlankInvoice, NoInvoice)
    <2>1. Goto(r, "commit", x)
      BY <1>4 DEF FindCard
    <2>2. c.amount # Keep => c.amount >= 0
      BY <1>1, <1>4 DEF AcceptsCard
    <2>3. z \in CardImages /\ z.limit - z.available = y.limit - y.available
      BY <1>2, <1>3, <2>2, ApplyUpdateIs, ApplyUpdateKeepsUse DEF Capped
    <2> HIDE DEF z
    <2>4. x.card = z
      BY <2>3, Blanks, HoldingIs
    <2> HIDE DEF x
    <2>5. Prepared(c, "commit", x, cardRow, card, invoice)
      BY <1>4, <2>3, <2>4 DEF Prepared
    <2>6. QED
      BY <1>1, <2>1, <2>5, BalanceReads
  <1>5. CASE c.op = "createInvoice"
    <2> DEFINE z == NewInvoice(c.card, c.month)
               x == Holding(BlankCard, z, c.invoice)
    <2>1. Goto(r, "commit", x)
      BY <1>5 DEF FindCard
    <2>2. z \in InvoiceImages
      BY <1>2, NewInvoiceIs DEF Sound
    <2>3. z.card = c.card
      BY DEF NewInvoice
    <2> HIDE DEF z
    <2>4. x.invoice = z
      BY <1>2, <2>2, Blanks, HoldingIs
    <2> HIDE DEF x
    <2>5. Prepared(c, "commit", x, cardRow, card, invoice)
      BY <1>1, <1>2, <1>5, <2>3, <2>4 DEF Prepared
    <2>6. QED
      BY <1>1, <2>1, <2>5, BalanceReads
  <1>6. CASE c.op = "getCard"
    <2>1. Goto(r, "fill", Holding(y, BlankInvoice, NoInvoice))
      BY <1>6 DEF FindCard
    <2>2. QED
      BY <1>1, <2>1, NothingPrepared, BalanceReads
  <1>7. QED
    BY <1>1, <1>4, <1>5, <1>6 DEF CardOps

\* Neither a payment nor a charge moves an invoice to another card.
LEMMA StaysOnCard ==
    ASSUME NEW x \in InvoiceImages, NEW a
    PROVE  Pay(x, a).card = x.card /\ AddTransactionAmount(x, a).card = x.card
  BY DEF Pay, AddTransactionAmount, InvoiceImages

LEMMA BalanceFindInvoice ==
    ASSUME CreditInv, SerialInv, BalanceInv, NEW r \in Requests, FindInvoice(r)
    PROVE  BalanceInv'
  <1> DEFINE c == call[r]
             i == c.invoice
             y == invoice[i]
  <1>0. /\ TablesOK /\ RequestOK(r) /\ c \in Calls
    BY DEF CreditInv, FrameOK
  <1>1. Reads(r, "find") /\ c.op \in InvoiceOps /\ AcceptsInvoice(c, y)
    BY DEF FindInvoice
  <1>2. i \in Invoices
    BY <1>0, <1>1 DEF RequestOK, Asked
  <1>3. Sound(y) /\ y \in InvoiceImages /\ y.status # "none" /\ y.card \in Cards
    BY <1>0, <1>1, <1>2 DEF TablesOK, AcceptsInvoice, Sound
  <1>4. ASSUME NEW z, Sound(z), z.card = y.card, NEW s \in {"lock", "card"},
               Goto(r, s, Holding(BlankCard, z, i)), c.op \in {"pay", "charge"}
        PROVE  BalanceInv'
    <2> DEFINE x == Holding(BlankCard, z, i)
    <2>1. x.invoice = z /\ x.target = i
      BY <1>2, <1>4, Blanks, HoldingIs DEF Sound
    <2>2. Goto(r, s, x)
      BY <1>4
    <2> HIDE DEF x
    <2>3. Prepared(c, s, x, cardRow, card, invoice)
      BY <1>3, <1>4, <2>1 DEF Prepared
    <2>4. QED
      BY <1>1, <2>2, <2>3, BalanceReads
  <1>5. ASSUME c.op = "pay", Goto(r, "lock", Holding(BlankCard, Pay(y, c.amount), i))
        PROVE  BalanceInv'
    <2>1. CanPay(y, c.amount) /\ c.amount \in Int
      BY <1>0, <1>1, <1>5 DEF AcceptsInvoice, RequestOK, Asked
    <2>2. Sound(Pay(y, c.amount)) /\ Pay(y, c.amount).card = y.card
      BY <1>3, <2>1, PayIs, StaysOnCard
    <2>3. QED
      BY <1>4, <1>5, <2>2
  <1>6. ASSUME c.op = "charge", Goto(r, "card", Holding(BlankCard, AddTransactionAmount(y, c.amount), i))
        PROVE  BalanceInv'
    <2>1. CanAdd(y, c.amount) /\ c.amount \in Int
      BY <1>0, <1>1, <1>6 DEF AcceptsInvoice, RequestOK, Asked
    <2>2. Sound(AddTransactionAmount(y, c.amount)) /\ AddTransactionAmount(y, c.amount).card = y.card
      BY <1>3, <2>1, AddIs, StaysOnCard
    <2>3. QED
      BY <1>4, <1>6, <2>2
  <1>7. ASSUME Goto(r, "fill", Holding(BlankCard, y, i)) PROVE BalanceInv'
    BY <1>1, <1>7, NothingPrepared, BalanceReads
  <1>8. QED
    BY <1>5, <1>6, <1>7 DEF FindInvoice

LEMMA BalanceRollover ==
    ASSUME CreditInv, SerialInv, BalanceInv, NEW r \in Requests, RolloverFound(r) \/ RolloverNew(r)
    PROVE  BalanceInv'
  <1> DEFINE c == call[r]
             y == copy[r].invoice
             m == NextReferenceMonth(y.month)
  <1>0. /\ TablesOK /\ RequestOK(r) /\ copy[r] \in Copies
    BY DEF CreditInv, FrameOK
  <1>1. Reads(r, "rollover") /\ pc[r] = "rollover"
    BY DEF RolloverFound, RolloverNew, Reads
  <1>2. c.op = "charge" /\ c.amount \in Int /\ y.card \in Cards /\ m \in Nat
    BY <1>0, <1>1 DEF RequestOK, Asked, Held, Sound, InvoiceImages, NextReferenceMonth
  <1>3. ASSUME NEW z, Sound(z), NEW t \in Invoices \union {NoInvoice},
               Goto(r, "card", Holding(BlankCard, z, t)),
               t \in Invoices => z.card = invoice[t].card /\ z.card \in Cards
        PROVE  BalanceInv'
    <2> DEFINE x == Holding(BlankCard, z, t)
    <2>1. x.invoice = z /\ x.target = t
      BY <1>3, Blanks, HoldingIs DEF Sound
    <2>2. Goto(r, "card", x)
      BY <1>3
    <2> HIDE DEF x
    <2>3. Prepared(c, "card", x, cardRow, card, invoice)
      BY <1>2, <1>3, <2>1 DEF Prepared
    <2>4. QED
      BY <1>1, <2>2, <2>3, BalanceReads
  <1>4. CASE RolloverFound(r)
    <2>1. PICK j \in InMonth(y.card, m) :
             /\ CanAdd(invoice[j], c.amount)
             /\ Goto(r, "card", Holding(BlankCard, AddTransactionAmount(invoice[j], c.amount), j))
      BY <1>4 DEF RolloverFound
    <2>2. j \in Invoices
      BY DEF InMonth
    <2>3. /\ Sound(invoice[j]) /\ invoice[j] \in InvoiceImages /\ invoice[j].card \in Cards
      BY <1>0, <2>1, <2>2 DEF TablesOK, Sound, CanAdd
    <2>4. /\ Sound(AddTransactionAmount(invoice[j], c.amount))
          /\ AddTransactionAmount(invoice[j], c.amount).card = invoice[j].card
      BY <1>2, <2>1, <2>3, AddIs, StaysOnCard
    <2>5. QED
      BY <1>3, <2>1, <2>2, <2>3, <2>4
  <1>5. CASE RolloverNew(r)
    <2> DEFINE w == NewInvoice(y.card, m)
    <2>1. /\ c.amount > 0
          /\ Goto(r, "card", Holding(BlankCard, AddTransactionAmount(w, c.amount), NoInvoice))
      BY <1>5 DEF RolloverNew
    <2>2. Sound(w) /\ w.status = "open"
      BY <1>2, NewInvoiceIs
    <2> HIDE DEF w
    <2>3. Sound(AddTransactionAmount(w, c.amount))
      BY <1>2, <2>1, <2>2, AddIs DEF CanAdd
    <2>4. NoInvoice \in Invoices \union {NoInvoice} /\ NoInvoice \notin Invoices
      BY ConstantsAssumption
    <2>5. QED
      BY <1>3, <2>1, <2>3, <2>4
  <1>6. QED
    BY <1>4, <1>5

\* The cap of a payment never bites: the card lacks at least what the invoice
\* owes, and the payment is no more than that.
LEMMA PaymentFits ==
    ASSUME CreditInv, SerialInv, BalanceInv, NEW r \in Requests, call[r].op = "pay",
           pc[r] = "card", NEW d \in Cards, copy[r].invoice.card = d, cardRow[d] = "live"
    PROVE  card[d].available + call[r].amount <= card[d].limit
  <1> DEFINE x == copy[r].invoice
             t == copy[r].target
             a == call[r].amount
  <1>0. /\ TablesOK /\ RequestOK(r) /\ InFlight(r)
    BY DEF CreditInv, InFlight
  <1>1. t \in Invoices /\ a \in Int /\ x.paid <= x.total
    BY <1>0 DEF RequestOK, Held, Asked, Sound
  <1>2. x.total = charged[t] /\ x.paid = received[t] + a
    BY <1>0, ExactBefore DEF Exact
  <1>3. invoice[t].total = charged[t] /\ invoice[t].paid = received[t]
    BY <1>1 DEF SerialInv, InvoiceExact
  <1>4. invoice[t].card = d
    BY <1>0 DEF BalanceInv, PreparedOK, Prepared
  <1>5. invoice[t].total \in Nat /\ invoice[t].paid \in Nat /\ Owed[t] = invoice[t].total - invoice[t].paid
    BY <1>0, <1>1, OwedIs
  <1>6. a <= Owed[t]
    BY <1>1, <1>2, <1>3, <1>5
  <1>7. Outstanding(d) \in Nat /\ Owed[t] <= Outstanding(d)
    BY <1>0, <1>1, <1>4, OutstandingIs DEF InvoicesOf
  <1>8. card[d].limit = card[d].available + Outstanding(d)
    BY DEF BalanceInv, CreditAccounted
  <1>9. card[d].available \in Int /\ Owed[t] \in Nat
    BY <1>0, <1>1, OwedIs DEF TablesOK, CardImages
  <1>10. QED
    BY <1>1, <1>6, <1>7, <1>8, <1>9

LEMMA BalanceTransaction ==
    ASSUME CreditInv, SerialInv, BalanceInv, NEW r \in Requests,
           LockInvoice(r) \/ ReadCardToPay(r) \/ ReadCardToCharge(r)
    PROVE  BalanceInv'
  <1> DEFINE c == call[r]
             x == copy[r]
             d == x.invoice.card
             y == card[d]
  <1>0. /\ TablesOK /\ RequestOK(r) /\ x \in Copies
    BY DEF CreditInv, FrameOK
  <1>1. x.invoice \in InvoiceImages /\ x.target \in Invoices \union {NoInvoice}
    BY <1>0, CopyIs
  <1>2. pc[r] \in {"lock", "card"} /\ InFlight(r)
    BY DEF LockInvoice, ReadCardToPay, ReadCardToCharge, Reads, InFlight
  <1>3. c.op \in {"pay", "charge"} /\ c.amount \in Int
    BY <1>0, <1>2 DEF RequestOK, Asked
  <1>4. Prepared(c, pc[r], x, cardRow, card, invoice)
    BY <1>2 DEF BalanceInv, PreparedOK
  <1>5. d \in Cards
    BY <1>0, <1>2 DEF RequestOK, Held, Sound
  <1>6. Capped(y) /\ y \in CardImages
    BY <1>0, <1>5 DEF TablesOK, Capped
  <1>7. y.available \in Int /\ y.limit \in Nat
    BY <1>6 DEF CardImages
  <1>8. CASE LockInvoice(r)
    <2>1. Reads(r, "lock") /\ pc[r] = "lock" /\ Goto(r, "card", x) /\ c.op = "pay"
      BY <1>0, <1>8 DEF LockInvoice, Reads, RequestOK, Asked
    <2>2. Prepared(c, "card", x, cardRow, card, invoice)
      BY <1>4, <2>1 DEF Prepared
    <2>3. QED
      BY <2>1, <2>2, BalanceReads
  <1>9. ASSUME NEW z, z \in CardImages, Reads(r, "card"),
               Goto(r, "commit", Holding(z, x.invoice, x.target)), cardRow[d] = "live",
               z.limit = y.limit,
               z.available = y.available + (IF c.op = "pay" THEN c.amount ELSE -c.amount)
        PROVE  BalanceInv'
    <2> DEFINE w == Holding(z, x.invoice, x.target)
    <2>1. w.card = z /\ w.invoice = x.invoice /\ w.target = x.target
      BY <1>1, <1>9, HoldingIs
    <2>2. Goto(r, "commit", w) /\ pc[r] = "card"
      BY <1>9 DEF Reads
    <2> HIDE DEF w
    <2>3. Prepared(c, "commit", w, cardRow, card, invoice)
      BY <1>3, <1>4, <1>9, <2>1, <2>2 DEF Prepared
    <2>4. QED
      BY <1>9, <2>2, <2>3, BalanceReads
  <1>10. CASE ReadCardToPay(r)
    <2> DEFINE z == [y EXCEPT !.available = y.available + c.amount]
    <2>1. /\ Reads(r, "card") /\ pc[r] = "card" /\ c.op = "pay" /\ cardRow[d] = "live"
          /\ Goto(r, "commit", Holding(Restore(y, c.amount), x.invoice, x.target))
      BY <1>10 DEF ReadCardToPay, Reads
    <2>2. y.available + c.amount <= y.limit
      BY <1>5, <2>1, PaymentFits
    <2>3. Restore(y, c.amount) = z
      BY <1>3, <1>7, <2>2 DEF Restore
    <2>4. z \in CardImages /\ z.limit = y.limit /\ z.available = y.available + c.amount
      BY <1>3, <1>6, <1>7 DEF CardImages
    <2> HIDE DEF z
    <2>5. QED
      BY <1>9, <2>1, <2>3, <2>4
  <1>11. CASE ReadCardToCharge(r)
    <2> DEFINE z == [y EXCEPT !.available = y.available - c.amount]
    <2>1. /\ Reads(r, "card") /\ pc[r] = "card" /\ c.op = "charge" /\ cardRow[d] = "live"
          /\ Goto(r, "commit", Holding(z, x.invoice, x.target))
      BY <1>11 DEF ReadCardToCharge, Reads
    <2>2. z \in CardImages /\ z.limit = y.limit /\ z.available = y.available + (-c.amount)
      BY <1>3, <1>6, <1>7 DEF CardImages
    <2> HIDE DEF z
    <2>3. QED
      BY <1>9, <2>1, <2>2
  <1>12. QED
    BY <1>8, <1>10, <1>11

\* From its commit on a request has nothing prepared.
LEMMA BalanceCommits ==
    ASSUME CreditInv, SerialInv, BalanceInv, NEW r \in Requests, NEW op, Commits(r, op),
           CreditAccounted', InvoicesHaveCards'
    PROVE  BalanceInv'
  <1> DEFINE c == call[r]
             s == AfterCommit(c)
             x == Holding(BlankCard, BlankInvoice, copy[r].target)
  <1>0. c \in Calls
    BY DEF CreditInv, FrameOK
  <1>1. Begin(r, c, s, x) /\ InFlight(r)
    BY DEF Commits, Goto, InFlight
  <1>2. s \in {"store", "evictInvoice", "evictCard", "done"}
    BY <1>0, AfterCommitIs
  <1> HIDE DEF s, x
  <1>3. QED
    BY <1>1, <1>2, NothingPrepared, BalanceMoves

LEMMA BalanceCommitCard ==
    ASSUME CreditInv, SerialInv, BalanceInv, NEW r \in Requests,
           CommitCreateCard(r) \/ CommitUpdateCard(r) \/ CommitDeleteCard(r)
    PROVE  BalanceInv'
  <1> DEFINE c == call[r]
             d == c.card
             x == copy[r].card
  <1>0. /\ TablesOK /\ RequestOK(r) /\ c \in Calls /\ CreditAccounted /\ InvoicesHaveCards
        /\ card \in [Cards -> CardImages]
        /\ cardRow \in [Cards -> {"absent", "live", "deleted"}]
    BY DEF CreditInv, FrameOK, BalanceInv, TablesOK
  <1>1. PICK op \in {"createCard", "updateCard", "deleteCard"} : Commits(r, op)
    BY DEF CommitCreateCard, CommitUpdateCard, CommitDeleteCard
  <1>2. pc[r] = "commit" /\ InFlight(r) /\ c.op = op /\ invoice' = invoice
    BY <1>1 DEF Commits, InFlight, CommitCreateCard, CommitUpdateCard, CommitDeleteCard
  <1>3. d \in Cards /\ Prepared(c, "commit", copy[r], cardRow, card, invoice)
    BY <1>0, <1>1, <1>2 DEF RequestOK, Asked, CardOps, BalanceInv, PreparedOK
  <1>4. ASSUME NEW e \in Cards PROVE Outstanding(e)' = Outstanding(e) /\ Outstanding(e) \in Nat
    BY <1>0, <1>2, OutstandingIs DEF Outstanding, Owed, InvoicesOf
  <1>5. Capped(x) /\ x.limit \in Nat /\ x.available \in Int
    BY <1>0 DEF RequestOK, Held, Capped, CardImages
  <1>6. CASE CommitCreateCard(r)
    <2>1. /\ cardRow' = [cardRow EXCEPT ![d] = "live"] /\ card' = [card EXCEPT ![d] = x]
          /\ c.op = "createCard"
      BY <1>6 DEF CommitCreateCard, Commits
    <2>2. cardRow[d] = "absent" /\ x.limit = x.available
      BY <1>3, <2>1 DEF Prepared
    <2>3. Outstanding(d) = 0
      <3>1. InvoicesOf(d) = {}
        BY <1>0, <1>3, <2>2 DEF InvoicesHaveCards, InvoicesOf
      <3>2. QED
        BY <3>1, SumEmpty DEF Outstanding
    <2>4. \A e \in Cards : /\ cardRow'[e] = IF e = d THEN "live" ELSE cardRow[e]
                           /\ card'[e] = IF e = d THEN x ELSE card[e]
      BY <1>0, <2>1
    <2>5. x.limit = x.available + Outstanding(d)
      BY <1>5, <2>2, <2>3
    <2>6. CreditAccounted'
      BY <1>0, <1>4, <2>4, <2>5 DEF CreditAccounted
    <2>7. InvoicesHaveCards'
      BY <1>0, <1>2, <2>4 DEF InvoicesHaveCards
    <2>8. QED
      BY <1>1, <2>6, <2>7, BalanceCommits
  <1>7. CASE CommitUpdateCard(r)
    <2>1. UpdateCard(d, x) /\ cardRow' = cardRow /\ c.op = "updateCard"
      BY <1>7 DEF CommitUpdateCard, Commits
    <2>2. x.limit - x.available = card[d].limit - card[d].available
      BY <1>3, <2>1 DEF Prepared
    <2>3. ASSUME NEW e \in Cards, cardRow[e] = "live"
          PROVE  card'[e].limit = card'[e].available + Outstanding(e)
      <3>1. card[e].limit = card[e].available + Outstanding(e)
        BY <1>0, <2>3 DEF CreditAccounted
      <3>2. CASE e = d
        <4>1. card'[d] = x
          BY <1>0, <1>3, <2>1, <2>3, <3>2 DEF UpdateCard
        <4>2. card[d].limit \in Nat /\ card[d].available \in Int
          BY <1>0, <1>3 DEF CardImages
        <4>3. QED
          BY <1>4, <1>5, <2>2, <3>1, <3>2, <4>1, <4>2
      <3>3. CASE e # d
        BY <1>0, <2>1, <3>1, <3>3 DEF UpdateCard
      <3>4. QED
        BY <3>2, <3>3
    <2>4. CreditAccounted' /\ InvoicesHaveCards'
      BY <1>0, <1>2, <1>4, <2>1, <2>3 DEF CreditAccounted, InvoicesHaveCards
    <2>5. QED
      BY <1>1, <2>4, BalanceCommits
  <1>8. CASE CommitDeleteCard(r)
    <2>1. /\ card' = card
          /\ \A e \in Cards : /\ cardRow'[e] = "live" => cardRow[e] = "live"
                              /\ cardRow'[e] = "absent" => cardRow[e] = "absent"
      BY <1>0, <1>3, <1>8 DEF CommitDeleteCard
    <2>2. CreditAccounted' /\ InvoicesHaveCards'
      BY <1>0, <1>2, <1>4, <2>1 DEF CreditAccounted, InvoicesHaveCards
    <2>3. QED
      BY <1>1, <2>2, BalanceCommits
  <1>9. QED
    BY <1>6, <1>7, <1>8

\* The transaction of an invoice: card d gains a of credit and its invoice t owes
\* that much less.
LEMMA InBalance ==
    ASSUME TablesOK, TablesOK', BalanceInv, cardRow' = cardRow, NEW t \in Invoices, NEW y,
           invoice' = [invoice EXCEPT ![t] = y], NEW d \in Cards, y.card = d,
           invoice[t].card = d \/ (invoice[t].card = NoCard /\ Owed[t] = 0),
           cardRow[d] # "absent", NEW a \in Int, y.total - y.paid = Owed[t] - a,
           \A c \in Cards : c # d => card'[c] = card[c],
           cardRow[d] = "live" => /\ card'[d].limit = card[d].limit
                                  /\ card'[d].available = card[d].available + a
    PROVE  CreditAccounted' /\ InvoicesHaveCards'
  <1>1. /\ Outstanding(d)' = Outstanding(d) + (y.total - y.paid) - Owed[t]
        /\ \A c \in Cards : c # d => Outstanding(c)' = Outstanding(c)
    BY OutstandingMoves
  <1>2. /\ \A c \in Cards : Outstanding(c) \in Nat
        /\ Owed[t] \in Nat /\ card[d].available \in Int
    BY OutstandingIs, OwedIs DEF TablesOK, CardImages
  <1>3. Outstanding(d)' = Outstanding(d) - a
    BY <1>1, <1>2
  <1>4. CreditAccounted /\ InvoicesHaveCards
    BY DEF BalanceInv
  <1>5. ASSUME cardRow[d] = "live" PROVE card'[d].limit = card'[d].available + Outstanding(d)'
    <2>1. card[d].limit = card[d].available + Outstanding(d)
      BY <1>4, <1>5 DEF CreditAccounted
    <2>2. QED
      BY <1>2, <1>3, <1>5, <2>1
  <1>6. CreditAccounted'
    BY <1>1, <1>4, <1>5 DEF CreditAccounted
  <1>7. \A i \in Invoices : invoice'[i] = IF i = t THEN y ELSE invoice[i]
    BY DEF TablesOK
  <1>8. InvoicesHaveCards'
    BY <1>4, <1>7 DEF InvoicesHaveCards
  <1>9. QED
    BY <1>6, <1>8

LEMMA BalanceCommitInvoice ==
    ASSUME CreditInv, SerialInv, BalanceInv, NEW r \in Requests,
           CommitCreateInvoice(r) \/ CommitPay(r) \/ CommitCharge(r)
    PROVE  BalanceInv'
  <1> DEFINE c == call[r]
             x == copy[r].invoice
             z == copy[r].card
             d == x.card
             t == copy[r].target
             g == IF c.op = "pay" THEN c.amount ELSE -c.amount
  <1>0. /\ TablesOK /\ RequestOK(r) /\ copy[r] \in Copies /\ card \in [Cards -> CardImages]
    BY DEF CreditInv, FrameOK, TablesOK
  <1>1. TablesOK'
    BY CommitInvoiceCredit DEF CreditInv
  <1>2. PICK op \in {"createInvoice", "pay", "charge"} : Commits(r, op)
    BY DEF CommitCreateInvoice, CommitPay, CommitCharge
  <1>3. /\ pc[r] = "commit" /\ InFlight(r) /\ c.op = op /\ cardRow' = cardRow
        /\ invoice' = [invoice EXCEPT ![t] = x]
    BY <1>2 DEF Commits, InFlight, CommitCreateInvoice, CommitPay, CommitCharge
  <1>4. /\ Prepared(c, "commit", copy[r], cardRow, card, invoice)
        /\ Exact(c, "commit", copy[r], invoice, charged, received)
    BY <1>3, ExactBefore DEF BalanceInv, PreparedOK
  <1>5. \A i \in Invoices : /\ invoice[i].total = charged[i] /\ invoice[i].paid = received[i]
                            /\ invoice[i].total \in Nat /\ invoice[i].paid \in Nat
                            /\ Owed[i] = invoice[i].total - invoice[i].paid
    BY <1>0, OwedIs DEF SerialInv, InvoiceExact
  <1>6. CASE CommitCreateInvoice(r)
    <2>1. c.op = "createInvoice" /\ card' = card
      BY <1>6 DEF CommitCreateInvoice, Commits
    <2>2. /\ t \in Invoices /\ x.total = 0 /\ x.paid = 0 /\ invoice[t] = BlankInvoice
      BY <1>0, <1>3, <1>4, <2>1 DEF RequestOK, Held, Exact
    <2>3. d \in Cards /\ cardRow[d] # "absent"
      BY <1>4, <2>1 DEF Prepared
    <2>4. invoice[t].card = NoCard /\ Owed[t] = 0
      BY <1>5, <2>2 DEF BlankInvoice
    <2>5. x.total - x.paid = Owed[t] - 0 /\ 0 \in Int
      BY <2>2, <2>4
    <2>6. cardRow[d] = "live" => card'[d].available = card[d].available + 0
      BY <1>0, <2>1, <2>3 DEF CardImages
    <2>7. CreditAccounted' /\ InvoicesHaveCards'
      BY <1>0, <1>1, <1>3, <2>1, <2>2, <2>3, <2>4, <2>5, <2>6, InBalance
    <2>8. QED
      BY <1>2, <2>7, BalanceCommits
  <1>7. CASE CommitPay(r) \/ CommitCharge(r)
    <2>1. c.op \in {"pay", "charge"} /\ UpdateCard(d, z) /\ (c.op = "charge" => t # NoInvoice)
      BY <1>7 DEF CommitPay, CommitCharge, Commits
    <2>2. t \in Invoices /\ c.amount \in Int
      BY <1>0, <1>3, <2>1, CopyIs DEF RequestOK, Held, Asked
    <2>3. /\ d \in Cards /\ invoice[t].card = d /\ cardRow[d] = "live"
          /\ z.limit = card[d].limit /\ z.available = card[d].available + g
      BY <1>4, <2>1, <2>2 DEF Prepared
    <2>4. x.total - x.paid = Owed[t] - g /\ g \in Int
      <3>1. CASE c.op = "pay"
        <4>1. x.total = charged[t] /\ x.paid = received[t] + c.amount
          BY <1>4, <3>1 DEF Exact
        <4>2. QED
          BY <1>5, <2>2, <3>1, <4>1
      <3>2. CASE c.op = "charge"
        <4>1. x.total = charged[t] + c.amount /\ x.paid = received[t]
          BY <1>4, <2>2, <3>2 DEF Exact
        <4>2. QED
          BY <1>5, <2>2, <3>2, <4>1
      <3>3. QED
        BY <2>1, <3>1, <3>2
    <2>5. card' = [card EXCEPT ![d] = z]
      BY <2>1, <2>3 DEF UpdateCard
    <2>6. card'[d] = z /\ \A e \in Cards : e # d => card'[e] = card[e]
      BY <1>0, <2>3, <2>5
    <2>7. /\ card'[d].limit = card[d].limit /\ card'[d].available = card[d].available + g
          /\ cardRow[d] # "absent"
      BY <2>3, <2>6
    <2> HIDE DEF g, d, x, z, t
    <2>8. CreditAccounted' /\ InvoicesHaveCards'
      BY <1>0, <1>1, <1>3, <2>2, <2>3, <2>4, <2>6, <2>7, InBalance DEF d
    <2>9. QED
      BY <1>2, <2>8, BalanceCommits
  <1>8. QED
    BY <1>6, <1>7

LEMMA BalanceStep ==
    ASSUME CreditInv, SerialInv, BalanceInv, NEW r \in Requests, Step(r)
    PROVE  BalanceInv'
  <1>1. CASE FindCard(r) \/ FindInvoice(r)
    BY <1>1, BalanceFindCard, BalanceFindInvoice
  <1>2. CASE RolloverFound(r) \/ RolloverNew(r)
    BY <1>2, BalanceRollover
  <1>3. CASE LockInvoice(r) \/ ReadCardToPay(r) \/ ReadCardToCharge(r)
    BY <1>3, BalanceTransaction
  <1>4. CASE CommitCreateCard(r) \/ CommitUpdateCard(r) \/ CommitDeleteCard(r)
    BY <1>4, BalanceCommitCard
  <1>5. CASE CommitCreateInvoice(r) \/ CommitPay(r) \/ CommitCharge(r)
    BY <1>5, BalanceCommitInvoice
  <1>6. CASE \/ Refused(r) \/ RolloverRefused(r) \/ ReadCardRefused(r) \/ StartRollover(r)
             \/ RolloverBreaksForeignKey(r) \/ CheckFails(r) \/ DatabaseFails(r) \/ Abandon(r)
             \/ StoreKey(r) \/ EvictInvoice(r) \/ EvictCard(r) \/ FillCache(r) \/ RedisFails(r)
    BY <1>6, BalanceAfter
  <1>7. QED
    BY <1>1, <1>2, <1>3, <1>4, <1>5, <1>6 DEF Step

\* A request arrives with nothing prepared, unless it creates a card.
LEMMA ArrivalBegins ==
    ASSUME Serial, NEW r \in Requests, Arrival(r)
    PROVE  /\ UNCHANGED dbVars /\ \A q \in Requests : ~InFlight(q)
           /\ \E c, s, x : /\ Begin(r, c, s, x)
                           /\ \/ s \in {"done", "find"}
                              \/ s = "commit" /\ c.op = "deleteCard"
                              \/ /\ c.op = "createCard" /\ cardRow[c.card] = "absent"
                                 /\ x.card.limit = x.card.available
  <1> DEFINE Ready(c, s, x) ==
               /\ Begin(r, c, s, x)
               /\ \/ s \in {"done", "find"}
                  \/ s = "commit" /\ c.op = "deleteCard"
                  \/ /\ c.op = "createCard" /\ cardRow[c.card] = "absent"
                     /\ x.card.limit = x.card.available
             Goal == /\ UNCHANGED dbVars /\ \A q \in Requests : ~InFlight(q)
                     /\ \E c, s, x : Ready(c, s, x)
  <1>1. SUFFICES Goal
    OBVIOUS
  <1>2. PICK up \in BOOLEAN, k \in Keys \union {NoKey} :
        \/ \E c \in Cards :
              \/ \E l \in Limits : CreateCreditCard(r, c, l, k, up)
              \/ \E l \in Limits \union {Keep}, on \in BOOLEAN \union {Keep} :
                    UpdateCreditCard(r, c, l, on, k, up)
              \/ \E i \in Invoices, m \in 1..(LastMonth + 1) : CreateInvoice(r, c, i, m, k, up)
              \/ k = NoKey /\ DeleteCreditCard(r, c, up)
              \/ k = NoKey /\ GetCreditCard(r, c, up)
        \/ \E i \in Invoices :
              \/ \E a \in Amounts : PayInvoice(r, i, a, k, up)
              \/ \E a \in Amounts : AddTransaction(r, i, a, k, up)
              \/ k = NoKey /\ GetInvoice(r, i, up)
    BY DEF Arrival
  <1>3. ASSUME NEW c \in Cards, NEW l \in Limits, CreateCreditCard(r, c, l, k, up) PROVE Goal
    <2> DEFINE q == CardCall("createCard", c, l, Keep, k)
               x == Holding(NewCreditCard(l), BlankInvoice, NoInvoice)
    <2>1. /\ Arrives(r, q, up) /\ UNCHANGED dbVars /\ cardRow[c] = "absent"
          /\ Begin(r, q, "done", NoCopy) \/ Begin(r, q, "commit", x)
      BY <1>3 DEF CreateCreditCard, FreshCard
    <2>2. q.op = "createCard" /\ q.card = c /\ x.card.limit = x.card.available
      BY DEF CardCall, Holding, NewCreditCard
    <2> HIDE DEF q, x
    <2>3. Ready(q, "done", NoCopy) \/ Ready(q, "commit", x)
      BY <2>1, <2>2
    <2> HIDE DEF Ready
    <2>4. QED
      BY <2>1, <2>3 DEF Arrives
  <1>4. ASSUME NEW c, NEW s \in {"done", "find"}, Arrives(r, c, up), Begin(r, c, s, NoCopy),
               UNCHANGED dbVars
        PROVE  Goal
    <2>1. Ready(c, s, NoCopy)
      BY <1>4
    <2> HIDE DEF Ready
    <2>2. QED
      BY <1>4, <2>1 DEF Arrives
  <1>5. ASSUME NEW c \in Cards, DeleteCreditCard(r, c, up) PROVE Goal
    <2> DEFINE q == CardCall("deleteCard", c, 0, Keep, NoKey)
    <2>1. Arrives(r, q, up) /\ Begin(r, q, "commit", NoCopy) /\ UNCHANGED dbVars
      BY <1>5 DEF DeleteCreditCard
    <2>2. q.op = "deleteCard"
      BY DEF CardCall
    <2> HIDE DEF q
    <2>3. Ready(q, "commit", NoCopy)
      BY <2>1, <2>2
    <2> HIDE DEF Ready
    <2>4. QED
      BY <2>1, <2>3 DEF Arrives
  <1> HIDE DEF Goal
  <1>6. ASSUME NEW c \in Cards, NEW l, NEW on, UpdateCreditCard(r, c, l, on, k, up) PROVE Goal
    BY <1>4, <1>6 DEF UpdateCreditCard
  <1>7. ASSUME NEW c \in Cards, NEW i, NEW m, CreateInvoice(r, c, i, m, k, up) PROVE Goal
    BY <1>4, <1>7 DEF CreateInvoice
  <1>8. ASSUME NEW c \in Cards, GetCreditCard(r, c, up) PROVE Goal
    BY <1>4, <1>8 DEF GetCreditCard
  <1>9. ASSUME NEW i \in Invoices, NEW a, PayInvoice(r, i, a, k, up) PROVE Goal
    BY <1>4, <1>9 DEF PayInvoice
  <1>10. ASSUME NEW i \in Invoices, NEW a, AddTransaction(r, i, a, k, up) PROVE Goal
    BY <1>4, <1>10 DEF AddTransaction
  <1>11. ASSUME NEW i \in Invoices, GetInvoice(r, i, up) PROVE Goal
    BY <1>4, <1>11 DEF GetInvoice
  <1>12. QED
    BY <1>2, <1>3, <1>5, <1>6, <1>7, <1>8, <1>9, <1>10, <1>11

LEMMA BalanceArrival ==
    ASSUME Serial, CreditInv, SerialInv, BalanceInv, NEW r \in Requests, Arrival(r)
    PROVE  BalanceInv'
  <1>1. UNCHANGED dbVars /\ \A q \in Requests : ~InFlight(q)
    BY ArrivalBegins
  <1>2. PICK c, s, x : /\ Begin(r, c, s, x)
                       /\ \/ s \in {"done", "find"}
                          \/ s = "commit" /\ c.op = "deleteCard"
                          \/ /\ c.op = "createCard" /\ cardRow[c.card] = "absent"
                             /\ x.card.limit = x.card.available
    BY ArrivalBegins
  <1>3. Prepared(c, s, x, cardRow, card, invoice)
    BY <1>2 DEF Prepared
  <1>4. QED
    BY <1>1, <1>2, <1>3, BalanceQuiet

LEMMA BalanceExpire ==
    ASSUME BalanceInv, ExpireCache \/ UNCHANGED vars
    PROVE  BalanceInv'
  <1>1. UNCHANGED <<cardRow, card, invoice, pc, call, copy>>
    BY DEF ExpireCache, vars, dbVars
  <1>2. ASSUME NEW c \in Cards PROVE Outstanding(c)' = Outstanding(c)
    BY <1>1 DEF Outstanding, Owed, InvoicesOf
  <1>3. CreditAccounted' /\ InvoicesHaveCards'
    BY <1>1, <1>2 DEF BalanceInv, CreditAccounted, InvoicesHaveCards
  <1>4. \A r \in Requests : PreparedOK(r)'
    BY <1>1 DEF BalanceInv, PreparedOK, InFlight
  <1>5. QED
    BY <1>3, <1>4 DEF BalanceInv

LEMMA BalanceInvInit == Init => BalanceInv
  <1> SUFFICES ASSUME Init PROVE BalanceInv
    OBVIOUS
  <1>1. \A r \in Requests : PreparedOK(r)
    BY DEF Init, PreparedOK, InFlight
  <1>2. ASSUME NEW i \in Invoices
        PROVE  /\ Owed[i] = 0
               /\ \/ invoice[i].card \in DOMAIN OpenCards
                  \/ invoice[i].card = NoCard
    <2>1. CASE i \in DOMAIN OpenInvoices
      <3>1. invoice[i] = NewInvoice(OpenInvoices[i].card, OpenInvoices[i].month)
        BY <2>1 DEF Init
      <3>2. invoice[i].total - invoice[i].paid = 0 /\ invoice[i].card = OpenInvoices[i].card
        BY <3>1 DEF NewInvoice
      <3>3. QED
        BY <2>1, <3>2, ConstantsAssumption DEF Owed
    <2>2. CASE i \notin DOMAIN OpenInvoices
      <3>1. invoice[i] = BlankInvoice
        BY <2>2 DEF Init
      <3>2. invoice[i].total - invoice[i].paid = 0 /\ invoice[i].card = NoCard
        BY <3>1 DEF BlankInvoice
      <3>3. QED
        BY <3>2 DEF Owed
    <2>3. QED
      BY <2>1, <2>2
  <1>3. InvoicesHaveCards
    BY <1>2, ConstantsAssumption DEF Init, InvoicesHaveCards
  <1>4. ASSUME NEW c \in Cards PROVE Outstanding(c) = 0
    <2> DEFINE V == {0}
               S == InvoicesOf(c)
    <2>1. IsFiniteSet(S) /\ \A i \in S : Owed[i] \in V
      BY <1>2, ConstantsAssumption, FS_Subset DEF InvoicesOf
    <2>2. 0 \in V /\ \A m, n \in V : m + n \in V
      OBVIOUS
    <2> HIDE DEF V, S
    <2>3. SumFunctionOnSet(Owed, S) \in V
      BY <2>1, <2>2, SumType
    <2>4. QED
      BY <2>3 DEF V, S, Outstanding
  <1>5. ASSUME NEW c \in Cards, cardRow[c] = "live"
        PROVE  card[c].limit = card[c].available + Outstanding(c)
    <2>1. card[c] = NewCreditCard(OpenCards[c]) /\ OpenCards[c] \in Nat
      BY <1>5, ConstantsAssumption DEF Init
    <2>2. QED
      BY <1>4, <2>1 DEF NewCreditCard
  <1>6. QED
    BY <1>1, <1>3, <1>5 DEF BalanceInv, CreditAccounted

LEMMA BalanceInvStep ==
    ASSUME Serial
    PROVE  CreditInv /\ SerialInv /\ BalanceInv /\ [Next]_vars => BalanceInv'
  BY BalanceArrival, BalanceStep, BalanceExpire DEF Next

\* The credit of a live card is its limit less what its invoices still owe.  What
\* AddTransaction takes from the credit it adds to an invoice; what PayInvoice
\* takes from an invoice it gives back in full, for the cap at the limit never
\* bites; UpdateCreditCard moves the limit and the credit by as much.
THEOREM CreditIsAccounted ==
    ASSUME Serial
    PROVE  Spec => []CreditAccounted
  <1>1. CreditInv /\ SerialInv /\ BalanceInv /\ [Next]_vars => BalanceInv'
    BY BalanceInvStep
  <1>2. BalanceInv => CreditAccounted
    BY DEF BalanceInv
  <1>3. QED
    BY <1>1, <1>2, BalanceInvInit, CreditInvAlways, SerialInvAlways, PTL DEF Spec

\* A payment that is about to read its card finds room there for all of its amount.
PaymentsFit ==
    \A r \in Requests :
        LET d == copy[r].invoice.card IN
        (call[r].op = "pay" /\ pc[r] = "card" /\ cardRow[d] = "live")
        => card[d].available + call[r].amount <= card[d].limit

\* The cap of PayInvoice at the limit never takes effect while calls do not
\* overlap: a customer gets back as credit every cent of a payment.
THEOREM PaymentsAreNeverCapped ==
    ASSUME Serial
    PROVE  Spec => []PaymentsFit
  <1>1. CreditInv /\ SerialInv /\ BalanceInv /\ [Next]_vars => BalanceInv'
    BY BalanceInvStep
  <1>2. CreditInv /\ SerialInv /\ BalanceInv => PaymentsFit
    <2> SUFFICES ASSUME CreditInv, SerialInv, BalanceInv, NEW r \in Requests, call[r].op = "pay",
                        pc[r] = "card", cardRow[copy[r].invoice.card] = "live"
                 PROVE  card[copy[r].invoice.card].available + call[r].amount
                          <= card[copy[r].invoice.card].limit
      BY DEF PaymentsFit
    <2>1. copy[r].invoice.card \in Cards
      BY DEF CreditInv, RequestOK, Held, Sound
    <2>2. QED
      BY <2>1, PaymentFits
  <1>3. QED
    BY <1>1, <1>2, BalanceInvInit, CreditInvAlways, SerialInvAlways, PTL DEF Spec
==============================================================================
