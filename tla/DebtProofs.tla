------------------------------ MODULE DebtProofs ------------------------------
(***************************************************************************)
(* Theorems about Debt, for any set of requests, debts, keys and amounts   *)
(* and any number of faults.                                               *)
(***************************************************************************)
EXTENDS Debt, TLAPS

\* The columns of an image agree: nothing left means paid off.
ZeroRule(x) == x.remaining = 0 => x.status = "paid_off"

\* What the write of a request in its commit step takes off the balance.
Credit(c) == IF c.op = "pay" THEN c.amount ELSE 0

(***************************************************************************)
(* A request only gets to a step with a call that the step can serve.      *)
(***************************************************************************)
CallInv ==
    \A r \in Requests :
        /\ InFlight(r) => call[r].debt \in Debts
        /\ pc[r] = "find" => call[r].op \in {"pay", "update", "get"}
        /\ (pc[r] \in {"find", "commit"} /\ call[r].op = "pay") => call[r].amount > 0
        /\ pc[r] = "store" => call[r].key \in Keys

\* A debt has one creator, and no row before its creator commits.
CreatorInv ==
    /\ \A r \in Requests :
          (pc[r] = "commit" /\ call[r].op = "create")
          => /\ row[call[r].debt] = "absent"
             /\ copy[r].remaining > 0
    /\ \A q, r \in Requests :
          (call[q].op = "create" /\ call[r].op = "create" /\ call[q].debt = call[r].debt
             /\ call[q].debt \in Debts)
          => q = r

\* The stale copies that are about to be written: each is well formed and takes
\* no more off the balance than its own payment and the payments before it.
CopyInv ==
    \A r \in Requests :
        (pc[r] = "commit" /\ call[r].op \in {"pay", "update"})
        => /\ row[call[r].debt] # "absent"
           /\ ZeroRule(copy[r])
           /\ opened[call[r].debt]
                <= copy[r].remaining + Credit(call[r]) + paid[call[r].debt]

RowInv ==
    \A d \in Debts :
        /\ row[d] = "live" => ZeroRule(debt[d]) /\ event[d].status = debt[d].status
        /\ opened[d] <= debt[d].remaining + paid[d]

DebtInv == TypeOK /\ CallInv /\ CreatorInv /\ CopyInv /\ RowInv

\* ApplyPayment takes the amount off and keeps the columns in agreement.
LEMMA PaymentApplied ==
    ASSUME NEW x \in Images, NEW a \in Int, CanPay(x, a)
    PROVE  /\ ApplyPayment(x, a) \in Images
           /\ ApplyPayment(x, a).remaining = x.remaining - a
           /\ ApplyPayment(x, a).total = x.total
           /\ ZeroRule(ApplyPayment(x, a))
  <1> DEFINE s == IF x.remaining = a THEN "paid_off" ELSE x.status
             y == [x EXCEPT !.remaining = x.remaining - a, !.status = s]
  <1>1. x.remaining - a \in Nat /\ s \in Statuses \union {"none"}
    BY DEF Images, CanPay, Statuses
  <1>2. ApplyPayment(x, a) = y
    BY DEF Images, ApplyPayment
  <1>3. y \in Images /\ y.remaining = x.remaining - a /\ y.total = x.total /\ y.status = s
    BY <1>1 DEF Images
  <1>4. QED
    BY <1>2, <1>3 DEF Images, ZeroRule

\* ApplyUpdate leaves the balance alone and cannot leave the paid-off status.
LEMMA UpdateApplied ==
    ASSUME NEW x \in Images, NEW t \in Int, NEW s, CanUpdate(x, t, s)
    PROVE  /\ ApplyUpdate(x, t, s) \in Images
           /\ ApplyUpdate(x, t, s).remaining = x.remaining
           /\ ApplyUpdate(x, t, s).total = IF t = NoAmount THEN x.total ELSE t
           /\ ZeroRule(x) => ZeroRule(ApplyUpdate(x, t, s))
  <1> DEFINE y == ApplyUpdate(x, t, s)
             n == IF t = NoAmount THEN x.total ELSE t
  <1>1. n \in Nat
    BY DEF CanUpdate, IsValidAmount, Images
  <1>2. CASE s = Keep
    <2>1. y = [x EXCEPT !.total = n]
      BY <1>2 DEF ApplyUpdate, Images
    <2>2. QED
      BY <1>1, <2>1 DEF Images, ZeroRule
  <1>3. CASE s # Keep
    <2>1. s \in Allowed(x.status) /\ y = [x EXCEPT !.total = n, !.status = s]
      BY <1>3 DEF CanUpdate, ApplyUpdate
    <2>2. s \in Statuses /\ x.status # "paid_off"
      BY <2>1 DEF Allowed, Statuses
    <2>3. QED
      BY <1>1, <2>1, <2>2 DEF Images, ZeroRule
  <1>4. QED
    BY <1>2, <1>3

\* A fault only counts itself.
LEMMA FaultTyped ==
    ASSUME TypeOK, NEW f \in Faults, Fault(f)
    PROVE  faults' \in [Faults -> Nat]
  BY DEF TypeOK, Fault

\* The image that stands for nothing has the shape of an image.
LEMMA NoImageTyped == NoImage \in Images
  BY DEF NoImage, Images

\* Goto changes the place and the memory of one request.
LEMMA GotoEffect ==
    ASSUME TypeOK, NEW r \in Requests, NEW s, NEW x, Goto(r, s, x)
    PROVE  /\ pc'[r] = s /\ copy'[r] = x
           /\ \A q \in Requests : q # r => pc'[q] = pc[q] /\ copy'[q] = copy[q]
           /\ pc' = [pc EXCEPT ![r] = s]
           /\ copy' = [copy EXCEPT ![r] = x]
  BY DEF TypeOK, Goto

\* A step that leaves the database and the calls alone and in which no request
\* enters its find or commit step keeps the invariant.
LEMMA LocalStep ==
    ASSUME DebtInv, TypeOK', UNCHANGED <<dbVars, call>>,
           \A q \in Requests :
               /\ pc'[q] \in {"find", "commit"} => pc'[q] = pc[q] /\ copy'[q] = copy[q]
               /\ pc'[q] = "store" => pc[q] = "store"
               /\ InFlight(q)' => InFlight(q)
    PROVE  DebtInv'
  <1>1. CallInv'
    BY DEF DebtInv, CallInv, dbVars
  <1>2. CreatorInv'
    BY DEF DebtInv, CreatorInv, dbVars
  <1>3. CopyInv'
    BY DEF DebtInv, CopyInv, dbVars, ZeroRule
  <1>4. RowInv'
    BY DEF DebtInv, RowInv, dbVars, ZeroRule
  <1>5. QED
    BY <1>1, <1>2, <1>3, <1>4 DEF DebtInv

Calls == [op : Ops, debt : Debts \union {NoDebt}, amount : Int,
          status : Statuses \union {Keep}, key : Keys \union {NoKey}]

Places == {"idle", "find", "commit", "store", "evict", "fill", "done"}

\* An arrival: one request takes a call and a first step, the table is left alone.
LEMMA ArrivalTyped ==
    ASSUME TypeOK, NEW r \in Requests, NEW c \in Calls, NEW up, Arrives(r, c, up),
           NEW s \in Places, NEW x \in Images, Goto(r, s, x),
           cached' \in [Debts -> Images], UNCHANGED <<dbVars, stored>>
    PROVE  TypeOK'
  <1>1. faults' \in [Faults -> Nat]
    <2>1. CASE up
      BY <2>1 DEF Arrives, TypeOK
    <2>2. CASE ~up
      <3>1. Fault("redis")
        BY <2>2 DEF Arrives
      <3>2. QED
        BY <3>1, FaultTyped DEF Faults
    <2>3. QED
      BY <2>1, <2>2
  <1>2. pc' \in [Requests -> Places] /\ copy' \in [Requests -> Images]
    BY DEF TypeOK, Goto, Places
  <1>3. call' \in [Requests -> Calls]
    BY DEF TypeOK, Arrives, Calls
  <1>4. QED
    BY <1>1, <1>2, <1>3 DEF TypeOK, dbVars, Places, Calls

\* The shape of an arrival: who arrives, with which call, and where it goes.
ArrivesWith(r, c, up, s, x) ==
    /\ c \in Calls /\ s \in Places /\ x \in Images
    /\ c.key = NoKey \/ c.key \in Keys
    /\ Arrives(r, c, up)
    /\ Goto(r, s, x)
    /\ UNCHANGED <<dbVars, stored>>
    /\ cached' \in [Debts -> Images]
    /\ s \in {"done", "find", "commit"}
    /\ s # "done" => c.debt \in Debts
    /\ s = "find" => c.op \in {"pay", "update", "get"} /\ (c.op = "pay" => c.amount > 0)
    /\ s = "commit" => c.op \in {"create", "delete", "deleteOther"}
    /\ (c.op = "create" /\ c.debt \in Debts) => IsFresh(c.debt) /\ c.amount > 0
    /\ (s = "commit" /\ c.op = "create") => x.remaining > 0 /\ x.total = x.remaining
    /\ c.op # "none"

\* Every arrival has that shape.
LEMMA ArrivalShape ==
    ASSUME TypeOK, NEW r \in Requests, Arrival(r)
    PROVE  \E c \in Calls, up \in BOOLEAN, s \in Places, x \in Images : ArrivesWith(r, c, up, s, x)
  <1> USE NoImageTyped DEF ArrivesWith, Places, Ops, Deletes, Keep, IsValidAmount, NewDebt
  <1>K. NoKey \in Keys \union {NoKey} /\ Keep \in Statuses \union {Keep}
    OBVIOUS
  <1>1. ASSUME NEW d \in Debts, NEW n \in {d, NoDebt}, NEW a \in Amounts, NEW t \in OpenAs,
               NEW k \in Keys \union {NoKey}, NEW up \in BOOLEAN, CreateDebt(r, n, a, t, k, up)
        PROVE  \E c \in Calls, u \in BOOLEAN, s \in Places, x \in Images : ArrivesWith(r, c, u, s, x)
    <2> DEFINE c == [op |-> "create", debt |-> n, amount |-> a, status |-> t, key |-> k]
    <2>1. a \in Int /\ t \in Statuses
      BY ConstantsAssumption
    <2>2. c \in Calls
      BY <2>1 DEF Calls
    <2>3. UNCHANGED <<dbVars, stored>> /\ cached' \in [Debts -> Images] /\ Arrives(r, c, up)
      BY <1>1 DEF CreateDebt, TypeOK, redisVars
    <2>4. CASE Replayed(k, up) \/ ~IsValidAmount(a)
      <3>1. n = NoDebt /\ Goto(r, "done", NoImage)
        BY <1>1, <2>4 DEF CreateDebt, Return
      <3>2. NoDebt \notin Debts
        BY ConstantsAssumption
      <3>3. ArrivesWith(r, c, up, "done", NoImage)
        BY <2>2, <2>3, <3>1, <3>2
      <3>4. QED
        BY <2>2, <3>3
    <2>5. CASE ~(Replayed(k, up) \/ ~IsValidAmount(a))
      <3>1. IsFresh(n) /\ Goto(r, "commit", [total |-> a, remaining |-> a, status |-> t])
        BY <1>1, <2>5 DEF CreateDebt
      <3>2. [total |-> a, remaining |-> a, status |-> t] \in Images /\ n \in Debts /\ a > 0
        BY <2>1, <2>5, <3>1 DEF Images, IsFresh
      <3>3. ArrivesWith(r, c, up, "commit", [total |-> a, remaining |-> a, status |-> t])
        BY <2>2, <2>3, <3>1, <3>2
      <3>4. QED
        BY <2>2, <3>2, <3>3
    <2>6. QED
      BY <2>4, <2>5
  <1>2. ASSUME NEW d \in Debts, NEW a \in Amounts, NEW k \in Keys \union {NoKey},
               NEW up \in BOOLEAN, RegisterPayment(r, d, a, k, up)
        PROVE  \E c \in Calls, u \in BOOLEAN, s \in Places, x \in Images : ArrivesWith(r, c, u, s, x)
    <2> DEFINE c == [op |-> "pay", debt |-> d, amount |-> a, status |-> Keep, key |-> k]
    <2>1. a \in Int
      BY ConstantsAssumption
    <2>2. c \in Calls
      BY <2>1 DEF Calls
    <2>3. UNCHANGED <<dbVars, stored>> /\ cached' \in [Debts -> Images] /\ Arrives(r, c, up)
      BY <1>2 DEF RegisterPayment, TypeOK, redisVars
    <2>4. CASE Replayed(k, up) \/ ~IsValidAmount(a)
      <3>1. Goto(r, "done", NoImage)
        BY <1>2, <2>4 DEF RegisterPayment, Return
      <3>2. ArrivesWith(r, c, up, "done", NoImage)
        BY <2>2, <2>3, <3>1
      <3>3. QED
        BY <2>2, <3>2
    <2>5. CASE ~(Replayed(k, up) \/ ~IsValidAmount(a))
      <3>1. Goto(r, "find", NoImage)
        BY <1>2, <2>5 DEF RegisterPayment
      <3>2. ArrivesWith(r, c, up, "find", NoImage)
        BY <2>1, <2>2, <2>3, <2>5, <3>1
      <3>3. QED
        BY <2>2, <3>2
    <2>6. QED
      BY <2>4, <2>5
  <1>3. ASSUME NEW d \in Debts, NEW a \in Totals \union {NoAmount}, NEW t \in Changes \union {Keep},
               NEW k \in Keys \union {NoKey}, NEW up \in BOOLEAN, UpdateDebt(r, d, a, t, k, up)
        PROVE  \E c \in Calls, u \in BOOLEAN, s \in Places, x \in Images : ArrivesWith(r, c, u, s, x)
    <2> DEFINE c == [op |-> "update", debt |-> d, amount |-> a, status |-> t, key |-> k]
    <2>1. a \in Int /\ t \in Statuses \union {Keep}
      BY ConstantsAssumption DEF NoAmount
    <2>2. c \in Calls
      BY <2>1 DEF Calls
    <2>3. UNCHANGED <<dbVars, stored>> /\ cached' \in [Debts -> Images] /\ Arrives(r, c, up)
      BY <1>3 DEF UpdateDebt, TypeOK, redisVars
    <2>4. PICK s \in {"done", "find"} : Goto(r, s, NoImage)
      BY <1>3 DEF UpdateDebt, Return
    <2>5. ArrivesWith(r, c, up, s, NoImage)
      BY <2>2, <2>3, <2>4
    <2>6. QED
      BY <2>2, <2>5
  <1>4. ASSUME NEW d \in Debts, NEW op \in Deletes, NEW up \in BOOLEAN, DeleteDebt(r, d, op, up)
        PROVE  \E c \in Calls, u \in BOOLEAN, s \in Places, x \in Images : ArrivesWith(r, c, u, s, x)
    <2> DEFINE c == [op |-> op, debt |-> d, amount |-> 0, status |-> Keep, key |-> NoKey]
    <2>2. c \in Calls
      BY DEF Calls
    <2>3. UNCHANGED <<dbVars, stored>> /\ Arrives(r, c, up) /\ Goto(r, "commit", NoImage)
      BY <1>4 DEF DeleteDebt
    <2>4. cached' \in [Debts -> Images]
      BY <1>4 DEF DeleteDebt, TypeOK
    <2>5. ArrivesWith(r, c, up, "commit", NoImage)
      BY <2>2, <2>3, <2>4
    <2>6. QED
      BY <2>2, <2>5
  <1>5. ASSUME NEW d \in Debts, NEW up \in BOOLEAN, GetDebt(r, d, up)
        PROVE  \E c \in Calls, u \in BOOLEAN, s \in Places, x \in Images : ArrivesWith(r, c, u, s, x)
    <2> DEFINE c == [op |-> "get", debt |-> d, amount |-> 0, status |-> Keep, key |-> NoKey]
    <2>2. c \in Calls
      BY DEF Calls
    <2>3. UNCHANGED <<dbVars, stored>> /\ cached' \in [Debts -> Images] /\ Arrives(r, c, up)
      BY <1>5 DEF GetDebt, TypeOK, redisVars
    <2>4. PICK s \in {"done", "find"} : Goto(r, s, NoImage)
      BY <1>5 DEF GetDebt, Return
    <2>5. ArrivesWith(r, c, up, s, NoImage)
      BY <2>2, <2>3, <2>4
    <2>6. QED
      BY <2>2, <2>5
  <1>6. QED
    BY <1>1, <1>2, <1>3, <1>4, <1>5 DEF Arrival

\* An arrival keeps the invariant.
LEMMA ArrivalStep ==
    ASSUME DebtInv, NEW r \in Requests, Arrival(r)
    PROVE  DebtInv'
  <1>0. TypeOK
    BY DEF DebtInv
  <1>1. PICK c \in Calls, up \in BOOLEAN, s \in Places, x \in Images : ArrivesWith(r, c, up, s, x)
    BY <1>0, ArrivalShape
  <1>2. TypeOK'
    BY <1>0, <1>1, ArrivalTyped DEF ArrivesWith
  <1>3. /\ pc'[r] = s /\ copy'[r] = x
        /\ \A q \in Requests : q # r => pc'[q] = pc[q] /\ copy'[q] = copy[q]
    BY <1>0, <1>1, GotoEffect DEF ArrivesWith
  <1>4. call'[r] = c /\ \A q \in Requests : q # r => call'[q] = call[q]
    BY <1>0, <1>1 DEF ArrivesWith, Arrives, TypeOK
  <1>5. UNCHANGED <<row, debt, paid, event, opened>>
    BY <1>1 DEF ArrivesWith, dbVars
  <1>6. CallInv'
    <2> SUFFICES ASSUME NEW q \in Requests
                 PROVE  /\ InFlight(q)' => call'[q].debt \in Debts
                        /\ pc'[q] = "find" => call'[q].op \in {"pay", "update", "get"}
                        /\ (pc'[q] \in {"find", "commit"} /\ call'[q].op = "pay") => call'[q].amount > 0
                        /\ pc'[q] = "store" => call'[q].key \in Keys
      BY DEF CallInv
    <2>1. CASE q = r
      BY <2>1, <1>1, <1>3, <1>4 DEF ArrivesWith, InFlight
    <2>2. CASE q # r
      BY <2>2, <1>3, <1>4 DEF DebtInv, CallInv, InFlight
    <2>3. QED
      BY <2>1, <2>2
  <1>7. CreatorInv'
    <2>1. \A q \in Requests :
             (pc'[q] = "commit" /\ call'[q].op = "create")
             => row'[call'[q].debt] = "absent" /\ copy'[q].remaining > 0
      <3> SUFFICES ASSUME NEW q \in Requests, pc'[q] = "commit", call'[q].op = "create"
                   PROVE  row'[call'[q].debt] = "absent" /\ copy'[q].remaining > 0
        OBVIOUS
      <3>1. CASE q = r
        BY <3>1, <1>1, <1>3, <1>4, <1>5 DEF ArrivesWith, IsFresh
      <3>2. CASE q # r
        BY <3>2, <1>3, <1>4, <1>5 DEF DebtInv, CreatorInv
      <3>3. QED
        BY <3>1, <3>2
    <2>2. ASSUME NEW q \in Requests, q # r, call'[q].op = "create", c.op = "create",
                 call'[q].debt = c.debt, c.debt \in Debts
          PROVE  FALSE
      BY <2>2, <1>1, <1>4 DEF ArrivesWith, IsFresh
    <2>3. \A q, p \in Requests :
             (call'[q].op = "create" /\ call'[p].op = "create" /\ call'[q].debt = call'[p].debt
                /\ call'[q].debt \in Debts)
             => q = p
      <3> SUFFICES ASSUME NEW q \in Requests, NEW p \in Requests,
                          call'[q].op = "create", call'[p].op = "create",
                          call'[q].debt = call'[p].debt, call'[q].debt \in Debts, q # p
                   PROVE  FALSE
        OBVIOUS
      <3>1. CASE q # r /\ p # r
        BY <3>1, <1>4 DEF DebtInv, CreatorInv
      <3>2. CASE q = r
        BY <3>2, <2>2, <1>4
      <3>3. CASE p = r
        BY <3>3, <2>2, <1>4
      <3>4. QED
        BY <3>1, <3>2, <3>3
    <2>4. QED
      BY <2>1, <2>3 DEF CreatorInv
  <1>8. CopyInv'
    <2> SUFFICES ASSUME NEW q \in Requests, pc'[q] = "commit", call'[q].op \in {"pay", "update"}
                 PROVE  /\ row'[call'[q].debt] # "absent"
                        /\ ZeroRule(copy'[q])
                        /\ opened'[call'[q].debt]
                             <= copy'[q].remaining + Credit(call'[q]) + paid'[call'[q].debt]
      BY DEF CopyInv, ZeroRule, Credit
    <2>1. q # r
      BY <1>1, <1>3, <1>4 DEF ArrivesWith
    <2>2. pc'[q] = pc[q] /\ copy'[q] = copy[q] /\ call'[q] = call[q]
      BY <2>1, <1>3, <1>4
    <2>3. QED
      BY <2>2, <1>5 DEF DebtInv, CopyInv
  <1>9. RowInv'
    BY <1>5 DEF DebtInv, RowInv, ZeroRule
  <1>10. QED
    BY <1>2, <1>6, <1>7, <1>8, <1>9 DEF DebtInv

\* What FindDebt leaves in memory: the row less the payment.
LEMMA FindCopy ==
    ASSUME DebtInv, NEW r \in Requests, FindDebt(r)
    PROVE  LET c == call[r]
               x == Changed(c, debt[c.debt])
           IN  /\ x \in Images /\ ZeroRule(x)
               /\ x.remaining + Credit(c) = debt[c.debt].remaining
               /\ Retotalled(c.debt) \/ x.total = debt[c.debt].total
  <1> DEFINE c == call[r]
             x == Changed(c, debt[c.debt])
  <1>0. TypeOK
    BY DEF DebtInv
  <1>1. pc[r] = "find" /\ row[c.debt] = "live" /\ Accepts(c, debt[c.debt])
    BY DEF FindDebt
  <1>2. c.debt \in Debts /\ c.op \in {"pay", "update", "get"}
    BY <1>1 DEF DebtInv, CallInv, InFlight
  <1>3. c.amount \in Int /\ debt[c.debt] \in Images
    BY <1>0, <1>2 DEF TypeOK
  <1>4. ZeroRule(debt[c.debt]) /\ debt[c.debt].remaining \in Nat
    BY <1>1, <1>2, <1>3 DEF DebtInv, RowInv, Images
  <1>5. CASE c.op = "pay"
    <2>1. CanPay(debt[c.debt], c.amount) /\ x = ApplyPayment(debt[c.debt], c.amount) /\ Credit(c) = c.amount
      BY <1>1, <1>5 DEF Accepts, Changed, Credit
    <2>2. QED
      BY <1>3, <1>4, <2>1, PaymentApplied
  <1>6. CASE c.op = "update"
    <2>1. CanUpdate(debt[c.debt], c.amount, c.status)
          /\ x = ApplyUpdate(debt[c.debt], c.amount, c.status) /\ Credit(c) = 0
      BY <1>1, <1>6 DEF Accepts, Changed, Credit
    <2>2. x.total = debt[c.debt].total \/ c.amount # NoAmount
      BY <1>3, <2>1, UpdateApplied
    <2>3. QED
      BY <1>3, <1>4, <1>6, <2>1, <2>2, UpdateApplied DEF Retotalled
  <1>7. CASE c.op = "get"
    <2>1. x = debt[c.debt] /\ Credit(c) = 0
      BY <1>7 DEF Changed, Credit
    <2>2. QED
      BY <1>3, <1>4, <2>1
  <1>8. QED
    BY <1>2, <1>5, <1>6, <1>7

\* FindByID and the domain method: the copy is as good as the row it was read from.
LEMMA FindStep ==
    ASSUME DebtInv, NEW r \in Requests, FindDebt(r)
    PROVE  DebtInv'
  <1> DEFINE c == call[r]
             x == Changed(c, debt[c.debt])
             s == IF c.op = "get" THEN "fill" ELSE "commit"
  <1>0. TypeOK
    BY DEF DebtInv
  <1>1. /\ pc[r] = "find" /\ row[c.debt] = "live" /\ Accepts(c, debt[c.debt])
        /\ Goto(r, s, x)
        /\ UNCHANGED <<row, debt, paid, event, opened, commits, cached, stored, call, faults>>
    BY DEF FindDebt, dbVars, redisVars
  <1>2. /\ c.debt \in Debts /\ c.op \in {"pay", "update", "get"}
        /\ c.op = "pay" => c.amount > 0
    BY <1>1 DEF DebtInv, CallInv, InFlight
  <1>3. c.amount \in Int /\ debt[c.debt] \in Images
    BY <1>0, <1>2 DEF TypeOK
  <1>4. ZeroRule(debt[c.debt]) /\ opened[c.debt] <= debt[c.debt].remaining + paid[c.debt]
    BY <1>1, <1>2 DEF DebtInv, RowInv
  <1>5. x \in Images /\ ZeroRule(x) /\ x.remaining + Credit(c) = debt[c.debt].remaining
    BY FindCopy
  <1>6. /\ pc'[r] = s /\ copy'[r] = x
        /\ \A q \in Requests : q # r => pc'[q] = pc[q] /\ copy'[q] = copy[q]
        /\ pc' = [pc EXCEPT ![r] = s] /\ copy' = [copy EXCEPT ![r] = x]
    BY <1>0, <1>1, GotoEffect
  <1>7. TypeOK'
    BY <1>0, <1>1, <1>5, <1>6 DEF TypeOK
  <1>8. CallInv'
    BY <1>1, <1>2, <1>6 DEF DebtInv, CallInv, InFlight
  <1>9. CreatorInv'
    BY <1>1, <1>2, <1>6 DEF DebtInv, CreatorInv
  <1>10. CopyInv'
    <2> SUFFICES ASSUME NEW q \in Requests, pc'[q] = "commit", call[q].op \in {"pay", "update"}
                 PROVE  /\ row[call[q].debt] # "absent"
                        /\ ZeroRule(copy'[q])
                        /\ opened[call[q].debt]
                             <= copy'[q].remaining + Credit(call[q]) + paid[call[q].debt]
      BY <1>1 DEF CopyInv, ZeroRule, Credit
    <2>1. CASE q = r
      BY <2>1, <1>1, <1>4, <1>5, <1>6
    <2>2. CASE q # r
      BY <2>2, <1>6 DEF DebtInv, CopyInv
    <2>3. QED
      BY <2>1, <2>2
  <1>11. RowInv'
    BY <1>1 DEF DebtInv, RowInv, ZeroRule
  <1>12. QED
    BY <1>7, <1>8, <1>9, <1>10, <1>11 DEF DebtInv

\* The commit of a request: where it goes, and what it leaves alone.
LEMMA CommitShape ==
    ASSUME DebtInv, NEW r \in Requests, NEW op \in {"create", "pay", "update", "delete", "deleteOther"}, Commits(r, op)
    PROVE  /\ pc[r] = "commit" /\ call[r].op = op /\ call[r].debt \in Debts
           /\ UNCHANGED <<cached, stored, call, faults>>
           /\ pc' \in [Requests -> Places] /\ copy' \in [Requests -> Images]
           /\ commits' \in [Keys -> Nat]
           /\ pc'[r] \in {"store", "evict", "done"}
           /\ pc'[r] = "store" => call[r].key \in Keys
           /\ \A q \in Requests : q # r => pc'[q] = pc[q] /\ copy'[q] = copy[q]
  <1>0. TypeOK
    BY DEF DebtInv
  <1>1. /\ pc[r] = "commit" /\ call[r].op = op
        /\ commits' = [k \in Keys |-> IF k = call[r].key THEN commits[k] + 1 ELSE commits[k]]
        /\ Goto(r, AfterCommit(call[r]), NoImage)
        /\ UNCHANGED <<cached, stored, call, faults>>
    BY DEF Commits, redisVars
  <1>2. call[r].debt \in Debts
    BY <1>1 DEF DebtInv, CallInv, InFlight
  <1>3. /\ AfterCommit(call[r]) \in {"store", "evict", "done"}
        /\ AfterCommit(call[r]) = "store" => call[r].key \in Keys
    BY <1>0 DEF AfterCommit, TypeOK
  <1>4. commits' \in [Keys -> Nat]
    BY <1>0, <1>1 DEF TypeOK
  <1>5. /\ pc'[r] = AfterCommit(call[r])
        /\ \A q \in Requests : q # r => pc'[q] = pc[q] /\ copy'[q] = copy[q]
        /\ pc' = [pc EXCEPT ![r] = AfterCommit(call[r])] /\ copy' = [copy EXCEPT ![r] = NoImage]
    BY <1>0, <1>1, GotoEffect
  <1>6. pc' \in [Requests -> Places] /\ copy' \in [Requests -> Images]
    BY <1>0, <1>3, <1>5, NoImageTyped DEF TypeOK, Places
  <1>7. QED
    BY <1>1, <1>2, <1>3, <1>4, <1>5, <1>6

\* A commit that keeps the rows well formed keeps the invariant: rows do not
\* vanish, totals do not change and the payments only grow, so the copies that
\* other requests hold stay sound.
LEMMA CommitKeeps ==
    ASSUME DebtInv, NEW r \in Requests, NEW op \in {"create", "pay", "update", "delete", "deleteOther"},
           Commits(r, op), TypeOK', RowInv',
           \A d \in Debts : row[d] # "absent" => row'[d] # "absent" /\ opened'[d] = opened[d],
           \A d \in Debts : (row[d] = "absent" /\ row'[d] # "absent")
                            => op = "create" /\ d = call[r].debt,
           \A d \in Debts : paid[d] <= paid'[d]
    PROVE  DebtInv'
  <1>0. TypeOK
    BY DEF DebtInv
  <1>1. /\ pc[r] = "commit" /\ call[r].op = op /\ call[r].debt \in Debts
        /\ call' = call
        /\ pc'[r] \in {"store", "evict", "done"}
        /\ pc'[r] = "store" => call[r].key \in Keys
        /\ \A q \in Requests : q # r => pc'[q] = pc[q] /\ copy'[q] = copy[q]
    BY CommitShape
  <1>2. CallInv'
    BY <1>1 DEF DebtInv, CallInv, InFlight
  <1>3. CreatorInv'
    <2>1. ASSUME NEW q \in Requests, pc'[q] = "commit", call[q].op = "create"
          PROVE  row'[call[q].debt] = "absent" /\ copy'[q].remaining > 0
      <3>1. q # r
        BY <1>1, <2>1
      <3>2. pc[q] = "commit" /\ copy'[q] = copy[q]
        BY <1>1, <2>1, <3>1
      <3>3. call[q].debt \in Debts
        BY <3>2 DEF DebtInv, CallInv, InFlight
      <3>4. row[call[q].debt] = "absent" /\ copy[q].remaining > 0
        BY <2>1, <3>2 DEF DebtInv, CreatorInv
      <3>5. ~(op = "create" /\ call[q].debt = call[r].debt)
        BY <1>1, <2>1, <3>1, <3>3 DEF DebtInv, CreatorInv
      <3>6. QED
        BY <3>2, <3>3, <3>4, <3>5
    <2>2. QED
      BY <1>1, <2>1 DEF DebtInv, CreatorInv
  <1>4. CopyInv'
    <2> SUFFICES ASSUME NEW q \in Requests, pc'[q] = "commit", call[q].op \in {"pay", "update"}
                 PROVE  /\ row'[call[q].debt] # "absent"
                        /\ ZeroRule(copy'[q])
                        /\ opened'[call[q].debt]
                             <= copy'[q].remaining + Credit(call[q]) + paid'[call[q].debt]
      BY <1>1 DEF CopyInv, ZeroRule, Credit
    <2>1. q # r
      BY <1>1
    <2>2. pc[q] = "commit" /\ copy'[q] = copy[q]
      BY <1>1, <2>1
    <2>3. call[q].debt \in Debts
      BY <2>2 DEF DebtInv, CallInv, InFlight
    <2>4. /\ row[call[q].debt] # "absent" /\ ZeroRule(copy[q])
          /\ opened[call[q].debt] <= copy[q].remaining + Credit(call[q]) + paid[call[q].debt]
      BY <2>2 DEF DebtInv, CopyInv
    <2>5. opened'[call[q].debt] = opened[call[q].debt] /\ paid[call[q].debt] <= paid'[call[q].debt]
      BY <2>3, <2>4
    <2>6. copy[q].remaining \in Int /\ Credit(call[q]) \in Int
      BY <1>0 DEF TypeOK, Images, Credit
    <2>7. /\ opened[call[q].debt] \in Int /\ paid[call[q].debt] \in Int /\ paid'[call[q].debt] \in Int
      BY <1>0, <2>3 DEF TypeOK
    <2>8. QED
      BY <2>2, <2>3, <2>4, <2>5, <2>6, <2>7
  <1>5. QED
    BY <1>2, <1>3, <1>4 DEF DebtInv

\* DeleteDebt's transaction may end a row; its event tells no status.
LEMMA DeleteEffect ==
    ASSUME NEW r \in Requests, CommitDelete(r)
    PROVE  LET d == call[r].debt IN
           /\ call[r].op \in {"delete", "deleteOther"} /\ Commits(r, call[r].op)
           /\ row' = row \/ (row' = [row EXCEPT ![d] = "deleted"] /\ row[d] = "live")
           /\ event' = [event EXCEPT ![d].type = "deleted"]
           /\ UNCHANGED <<debt, paid, opened>>
  <1>1. CASE call[r].op = "delete" /\ row[call[r].debt] = "live"
    BY <1>1 DEF CommitDelete, Deletes
  <1>2. CASE ~(call[r].op = "delete" /\ row[call[r].debt] = "live")
    BY <1>2 DEF CommitDelete, Deletes
  <1>3. QED
    BY <1>1, <1>2

\* Which call a transaction serves.
LEMMA CommitOp ==
    ASSUME NEW r \in Requests,
           CommitCreate(r) \/ CommitPayment(r) \/ CommitUpdate(r) \/ CommitDelete(r)
    PROVE  \E op \in {"create", "pay", "update", "delete", "deleteOther"} : Commits(r, op)
  BY DeleteEffect DEF CommitCreate, CommitPayment, CommitUpdate

\* The four transactions keep the invariant.
LEMMA CommitStep ==
    ASSUME DebtInv, NEW r \in Requests,
           CommitCreate(r) \/ CommitPayment(r) \/ CommitUpdate(r) \/ CommitDelete(r)
    PROVE  DebtInv'
  <1> DEFINE d == call[r].debt
  <1>0. TypeOK
    BY DEF DebtInv
  <1>Y. copy[r] \in Images /\ call[r].amount \in Int
    BY <1>0 DEF TypeOK
  <1>Z. copy[r].remaining \in Nat /\ copy[r].status \in Statuses \union {"none"}
    BY <1>Y DEF Images
  <1>R. ASSUME NEW e \in Debts
        PROVE  /\ row[e] = "live" => ZeroRule(debt[e]) /\ event[e].status = debt[e].status
               /\ opened[e] <= debt[e].remaining + paid[e]
               /\ opened[e] \in Nat /\ debt[e].remaining \in Nat /\ paid[e] \in Nat
    <2>1. debt[e] \in Images /\ opened[e] \in Nat /\ paid[e] \in Nat
      BY <1>0 DEF TypeOK
    <2>2. QED
      BY <2>1 DEF DebtInv, RowInv, Images
  <1>1. CASE CommitCreate(r)
    <2>1. /\ Commits(r, "create")
          /\ row' = [row EXCEPT ![d] = "live"] /\ debt' = [debt EXCEPT ![d] = copy[r]]
          /\ opened' = [opened EXCEPT ![d] = copy[r].remaining]
          /\ event' = [event EXCEPT ![d] = [type |-> "created", status |-> copy[r].status]]
          /\ paid' = paid
      BY <1>1 DEF CommitCreate, SaveEvent
    <2>2. /\ pc[r] = "commit" /\ call[r].op = "create" /\ d \in Debts
          /\ UNCHANGED <<cached, stored, call, faults>>
          /\ pc' \in [Requests -> Places] /\ copy' \in [Requests -> Images]
          /\ commits' \in [Keys -> Nat]
      BY <2>1, CommitShape
    <2>3. row[d] = "absent" /\ copy[r].remaining > 0
      BY <2>2 DEF DebtInv, CreatorInv
    <2>4. TypeOK'
      BY <1>0, <1>Y, <1>Z, <2>1, <2>2 DEF TypeOK, Places
    <2>5. RowInv'
      <3> SUFFICES ASSUME NEW e \in Debts
                   PROVE  /\ row'[e] = "live" => ZeroRule(debt'[e]) /\ event'[e].status = debt'[e].status
                          /\ opened'[e] <= debt'[e].remaining + paid'[e]
        BY DEF RowInv, ZeroRule
      <3>1. CASE e = d
        <4>1. debt'[e] = copy[r] /\ opened'[e] = copy[r].remaining /\ event'[e].status = copy[r].status
          BY <1>0, <2>1, <2>2, <3>1 DEF TypeOK
        <4>2. QED
          BY <1>R, <1>Z, <2>1, <2>3, <4>1 DEF ZeroRule
      <3>2. CASE e # d
        BY <1>0, <1>R, <2>1, <3>2 DEF TypeOK
      <3>3. QED
        BY <3>1, <3>2
    <2>6. \A e \in Debts :
             /\ row[e] # "absent" => row'[e] # "absent" /\ opened'[e] = opened[e]
             /\ (row[e] = "absent" /\ row'[e] # "absent") => e = d
             /\ paid[e] <= paid'[e]
      BY <1>0, <1>R, <2>1, <2>2, <2>3 DEF TypeOK
    <2>7. QED
      BY <2>1, <2>4, <2>5, <2>6, CommitKeeps
  <1>2. CASE CommitPayment(r) \/ CommitUpdate(r)
    <2> DEFINE op == call[r].op
    <2>1. /\ op \in {"pay", "update"} /\ Commits(r, op)
          /\ paid' = [paid EXCEPT ![d] = @ + Credit(call[r])]
          /\ debt' = IF row[d] = "live" THEN [debt EXCEPT ![d] = copy[r]] ELSE debt
          /\ UNCHANGED <<row, opened>>
      <3>1. CASE CommitPayment(r)
        BY <3>1 DEF CommitPayment, Commits, WriteBack, Credit
      <3>2. CASE CommitUpdate(r)
        <4>1. /\ Commits(r, op) /\ op = "update" /\ UNCHANGED <<row, opened, paid>>
              /\ debt' = IF row[d] = "live" THEN [debt EXCEPT ![d] = copy[r]] ELSE debt
          BY <3>2 DEF CommitUpdate, Commits, WriteBack
        <4>2. d \in Debts
          BY <4>1, CommitShape
        <4>3. paid[d] + Credit(call[r]) = paid[d] /\ paid = [paid EXCEPT ![d] = @ + Credit(call[r])]
          BY <1>0, <1>R, <4>1, <4>2 DEF Credit, TypeOK
        <4>4. QED
          BY <4>1, <4>3
      <3>3. QED
        BY <1>2, <3>1, <3>2
    <2>2. /\ pc[r] = "commit" /\ d \in Debts
          /\ UNCHANGED <<cached, stored, call, faults>>
          /\ pc' \in [Requests -> Places] /\ copy' \in [Requests -> Images]
          /\ commits' \in [Keys -> Nat]
      BY <2>1, CommitShape
    <2>3. \E t \in {"payment", "updated"} :
             event' = [event EXCEPT ![d] = [type |-> t, status |-> copy[r].status]]
      BY <1>2 DEF CommitPayment, CommitUpdate, SaveEvent
    <2>4. /\ row[d] # "absent" /\ ZeroRule(copy[r])
          /\ opened[d] <= copy[r].remaining + Credit(call[r]) + paid[d]
      BY <2>1, <2>2 DEF DebtInv, CopyInv
    <2>5. Credit(call[r]) \in Nat
      BY <1>Y, <2>1, <2>2 DEF DebtInv, CallInv, Credit
    <2>6. TypeOK'
      <3>1. paid' \in [Debts -> Nat]
        BY <1>0, <2>1, <2>2, <2>5 DEF TypeOK
      <3>2. debt' \in [Debts -> Images]
        BY <1>0, <1>Y, <2>1, <2>2 DEF TypeOK
      <3>3. event' \in [Debts -> [type : {"none", "created", "payment", "updated", "deleted"},
                                  status : Statuses \union {"none"}]]
        BY <1>0, <1>Z, <2>2, <2>3 DEF TypeOK
      <3>4. QED
        BY <1>0, <2>1, <2>2, <3>1, <3>2, <3>3 DEF TypeOK, Places
    <2>7. RowInv'
      <3> SUFFICES ASSUME NEW e \in Debts
                   PROVE  /\ row'[e] = "live" => ZeroRule(debt'[e]) /\ event'[e].status = debt'[e].status
                          /\ opened'[e] <= debt'[e].remaining + paid'[e]
        BY DEF RowInv, ZeroRule
      <3>1. CASE e = d
        <4>1. paid'[e] = paid[e] + Credit(call[r]) /\ event'[e].status = copy[r].status
          BY <1>0, <2>1, <2>2, <2>3, <3>1 DEF TypeOK
        <4>2. CASE row[d] = "live"
          <5>1. debt'[e] = copy[r]
            BY <1>0, <2>1, <2>2, <3>1, <4>2 DEF TypeOK
          <5>2. QED
            BY <1>R, <1>Z, <2>1, <2>4, <2>5, <3>1, <4>1, <5>1
        <4>3. CASE row[d] # "live"
          <5>1. debt' = debt /\ row' = row /\ opened' = opened
            BY <2>1, <4>3
          <5>2. QED
            BY <1>R, <2>5, <3>1, <4>1, <4>3, <5>1
        <4>4. QED
          BY <4>2, <4>3
      <3>2. CASE e # d
        <4>1. debt'[e] = debt[e] /\ event'[e] = event[e] /\ paid'[e] = paid[e]
          BY <1>0, <2>1, <2>2, <2>3, <3>2 DEF TypeOK
        <4>2. QED
          BY <1>R, <2>1, <4>1
      <3>3. QED
        BY <3>1, <3>2
    <2>8. \A e \in Debts : paid[e] <= paid'[e]
      <3>1. ASSUME NEW e \in Debts PROVE paid'[e] = paid[e] \/ paid'[e] = paid[e] + Credit(call[r])
        BY <1>0, <2>1, <2>2 DEF TypeOK
      <3>2. QED
        BY <1>R, <2>5, <3>1
    <2>9. QED
      BY <2>1, <2>6, <2>7, <2>8, CommitKeeps
  <1>3. CASE CommitDelete(r)
    <2> DEFINE op == call[r].op
    <2>1. /\ op \in {"delete", "deleteOther"} /\ Commits(r, op)
          /\ row' = row \/ (row' = [row EXCEPT ![d] = "deleted"] /\ row[d] = "live")
          /\ event' = [event EXCEPT ![d].type = "deleted"]
          /\ UNCHANGED <<debt, paid, opened>>
      BY <1>3, DeleteEffect
    <2>2. /\ d \in Debts
          /\ UNCHANGED <<cached, stored, call, faults>>
          /\ pc' \in [Requests -> Places] /\ copy' \in [Requests -> Images]
          /\ commits' \in [Keys -> Nat]
      BY <2>1, CommitShape
    <2>E. event' \in [Debts -> [type : {"none", "created", "payment", "updated", "deleted"},
                                status : Statuses \union {"none"}]]
      <3>1. event[d] \in [type : {"none", "created", "payment", "updated", "deleted"},
                          status : Statuses \union {"none"}]
        BY <1>0, <2>2 DEF TypeOK
      <3>D. [event[d] EXCEPT !.type = "deleted"] = [type |-> "deleted", status |-> event[d].status]
        BY <3>1
      <3>2. event' = [event EXCEPT ![d] = [type |-> "deleted", status |-> event[d].status]]
        BY <2>1, <3>D
      <3>3. QED
        BY <1>0, <2>2, <3>1, <3>2 DEF TypeOK
    <2>3. TypeOK'
      BY <1>0, <2>1, <2>2, <2>E DEF TypeOK, Places
    <2>4. \A e \in Debts :
             (row'[e] = "live" => row[e] = "live") /\ event'[e].status = event[e].status
      BY <1>0, <2>1, <2>2 DEF TypeOK
    <2>5. RowInv'
      BY <1>R, <2>1, <2>4 DEF RowInv, ZeroRule
    <2>6. \A e \in Debts :
             /\ row[e] # "absent" => row'[e] # "absent"
             /\ row[e] = "absent" => row'[e] = "absent"
             /\ paid[e] <= paid'[e]
      BY <1>0, <1>R, <2>1, <2>2 DEF TypeOK
    <2>7. QED
      BY <2>1, <2>3, <2>5, <2>6, CommitKeeps
  <1>4. QED
    BY <1>1, <1>2, <1>3

\* The steps of a request that touch neither the table nor a copy.
LEMMA QuietStep ==
    ASSUME DebtInv, NEW r \in Requests,
           \/ Refused(r) \/ DatabaseFails(r) \/ StoreKey(r) \/ EvictCache(r)
           \/ FillCache(r) \/ RedisFails(r) \/ Abandon(r)
    PROVE  DebtInv'
  <1>0. TypeOK
    BY DEF DebtInv
  <1>1. UNCHANGED <<dbVars, call>>
    BY DEF Refused, DatabaseFails, StoreKey, EvictCache, FillCache, RedisFails, Abandon
  <1>2. InFlight(r)
    BY DEF Refused, DatabaseFails, StoreKey, EvictCache, FillCache, RedisFails, Abandon, InFlight
  <1>3. call[r].debt \in Debts
    BY <1>2 DEF DebtInv, CallInv
  <1>4. PICK s \in {"done", "evict"} : Goto(r, s, NoImage)
    BY DEF Refused, DatabaseFails, StoreKey, EvictCache, FillCache, RedisFails, Abandon,
           Return, AfterStore
  <1>5. /\ pc'[r] = s /\ copy'[r] = NoImage
        /\ \A q \in Requests : q # r => pc'[q] = pc[q] /\ copy'[q] = copy[q]
        /\ pc' = [pc EXCEPT ![r] = s] /\ copy' = [copy EXCEPT ![r] = NoImage]
    BY <1>0, <1>4, GotoEffect
  <1>6. cached' \in [Debts -> Images]
    <2>1. CASE EvictCache(r) \/ FillCache(r)
      <3>1. \E x \in Images : cached' = [cached EXCEPT ![call[r].debt] = x]
        BY <1>0, <2>1, NoImageTyped DEF EvictCache, FillCache, TypeOK
      <3>2. QED
        BY <1>0, <3>1 DEF TypeOK
    <2>2. CASE ~(EvictCache(r) \/ FillCache(r))
      <3>1. cached' = cached
        BY <2>2 DEF Refused, DatabaseFails, StoreKey, RedisFails, Abandon, redisVars
      <3>2. QED
        BY <1>0, <3>1 DEF TypeOK
    <2>3. QED
      BY <2>1, <2>2
  <1>7. stored' \subseteq Keys
    <2>1. CASE StoreKey(r)
      <3>1. call[r].key \in Keys /\ stored' = stored \union {call[r].key}
        BY <2>1 DEF StoreKey, DebtInv, CallInv
      <3>2. QED
        BY <1>0, <3>1 DEF TypeOK
    <2>2. CASE ~StoreKey(r)
      <3>1. stored' = stored
        BY <2>2 DEF Refused, DatabaseFails, EvictCache, FillCache, RedisFails, Abandon, redisVars
      <3>2. QED
        BY <1>0, <3>1 DEF TypeOK
    <2>3. QED
      BY <2>1, <2>2
  <1>8. faults' \in [Faults -> Nat]
    <2>1. faults' = faults \/ \E f \in Faults : Fault(f)
      BY DEF Refused, DatabaseFails, StoreKey, EvictCache, FillCache, RedisFails, Abandon, Faults
    <2>2. QED
      BY <1>0, <2>1, FaultTyped DEF TypeOK
  <1>9. TypeOK'
    BY <1>0, <1>1, <1>5, <1>6, <1>7, <1>8, NoImageTyped DEF TypeOK, dbVars
  <1>10. QED
    BY <1>1, <1>2, <1>5, <1>9, LocalStep DEF InFlight

\* Every step of the service keeps the invariant.
LEMMA DebtInvStep == DebtInv /\ [Next]_vars => DebtInv'
  <1> SUFFICES ASSUME DebtInv, [Next]_vars PROVE DebtInv'
    OBVIOUS
  <1>0. TypeOK
    BY DEF DebtInv
  <1>1. ASSUME NEW r \in Requests, Step(r) PROVE DebtInv'
    BY <1>1, FindStep, CommitStep, QuietStep DEF Step
  <1>2. ASSUME NEW d \in Debts, ExpireCache(d) PROVE DebtInv'
    <2>1. TypeOK'
      BY <1>0, <1>2, NoImageTyped DEF ExpireCache, TypeOK, dbVars
    <2>2. UNCHANGED <<dbVars, call, pc, copy>>
      BY <1>2 DEF ExpireCache
    <2>3. QED
      BY <2>1, <2>2, LocalStep DEF InFlight
  <1>3. CASE UNCHANGED vars
    <2>1. TypeOK'
      BY <1>0, <1>3 DEF vars, TypeOK
    <2>2. UNCHANGED <<dbVars, call, pc, copy>>
      BY <1>3 DEF vars, dbVars
    <2>3. QED
      BY <2>1, <2>2, LocalStep DEF InFlight
  <1>4. QED
    BY <1>1, <1>2, <1>3, ArrivalStep DEF Next

\* The empty service satisfies it.
LEMMA DebtInvInit == Init => DebtInv
  <1> SUFFICES ASSUME Init PROVE DebtInv
    OBVIOUS
  <1>1. NoCall \in Calls
    BY DEF NoCall, Calls, Ops, Deletes
  <1>2. TypeOK
    BY <1>1, NoImageTyped DEF Init, TypeOK, Calls, NoEvent
  <1>3. CallInv /\ CopyInv
    BY DEF Init, CallInv, CopyInv, InFlight
  <1>4. CreatorInv
    BY DEF Init, CreatorInv, NoCall
  <1>5. RowInv
    BY DEF Init, RowInv, NoImage
  <1>6. QED
    BY <1>2, <1>3, <1>4, <1>5 DEF DebtInv

\* The inductive invariant holds in every reachable state.
THEOREM DebtInvAlways == Spec => []DebtInv
  BY DebtInvInit, DebtInvStep, PTL DEF Spec

\* Types are kept by every handler, however requests interleave and fail.
THEOREM DebtTypeCorrect == Spec => []TypeOK
  <1>1. DebtInv => TypeOK
    BY DEF DebtInv
  <1>2. QED
    BY <1>1, DebtInvAlways, PTL

\* However many requests race on a debt, a zero balance is a paid-off debt: no
\* stale write of RegisterPayment or UpdateDebt separates the two columns.
THEOREM ZeroIsPaidOff == Spec => []ZeroMeansPaidOff
  <1>1. DebtInv => ZeroMeansPaidOff
    BY DEF DebtInv, RowInv, ZeroRule, ZeroMeansPaidOff
  <1>2. QED
    BY <1>1, DebtInvAlways, PTL

\* However many requests race and fail, a balance never falls by more than the
\* recorded payments: lost updates of RegisterPayment err on one side only.
THEOREM NothingForgiven == Spec => []NeverOverCredited
  <1>1. DebtInv => NeverOverCredited
    BY DEF DebtInv, RowInv, NeverOverCredited
  <1>2. QED
    BY <1>1, DebtInvAlways, PTL

\* The last status that an event told of a live debt is its row's, whichever of the
\* racing transactions committed last and whoever else called DeleteDebt.
THEOREM EventsTellStatus == Spec => []LastEventTellsStatus
  <1>1. DebtInv => LastEventTellsStatus
    BY DEF DebtInv, RowInv, LastEventTellsStatus
  <1>2. QED
    BY <1>1, DebtInvAlways, PTL

------------------------------------------------------------------------------
(***************************************************************************)
(* One request at a time.  The copy in memory is then the row itself less  *)
(* the payment being made (FreshInv), which is what the concurrent service *)
(* cannot promise, and the ledger balances to the cent.                    *)
(***************************************************************************)
OneInv == \A q, r \in Requests : InFlight(q) /\ InFlight(r) => q = r

FreshInv ==
    \A r \in Requests :
        (pc[r] = "commit" /\ call[r].op \in {"pay", "update"})
        => /\ row[call[r].debt] = "live"
           /\ copy[r].remaining + Credit(call[r]) = debt[call[r].debt].remaining
           /\ Retotalled(call[r].debt) \/ copy[r].total = debt[call[r].debt].total

\* A request asks for nothing before it arrives, and a new debt owes its total.
AskInv ==
    \A r \in Requests :
        /\ pc[r] = "idle" => call[r].op = "none"
        /\ (pc[r] = "commit" /\ call[r].op = "create") => copy[r].total = copy[r].remaining

\* No payment precedes the row it pays.
UnpaidInv == \A d \in Debts : row[d] = "absent" => paid[d] = 0

SerialInv == DebtInv /\ OneInv /\ AskInv /\ FreshInv /\ UnpaidInv /\ LedgerBalanced

\* A step that leaves the table alone and starts no commit of a copy keeps it.
LEMMA SerialLocal ==
    ASSUME SerialInv, DebtInv', OneInv', UNCHANGED dbVars,
           AskInv', \A q \in Requests : call'[q] # call[q] => pc[q] = "idle",
           \A q \in Requests :
               (pc'[q] = "commit" /\ call'[q].op \in {"pay", "update"})
               => pc[q] = "commit" /\ call'[q] = call[q] /\ copy'[q] = copy[q]
    PROVE  SerialInv'
  <1>0. \A d \in Debts : Retotalled(d) => Retotalled(d)'
    BY DEF SerialInv, AskInv, Retotalled
  <1>1. FreshInv'
    <2> SUFFICES ASSUME NEW r \in Requests, pc'[r] = "commit", call'[r].op \in {"pay", "update"}
                 PROVE  /\ row'[call'[r].debt] = "live"
                        /\ copy'[r].remaining + Credit(call'[r]) = debt'[call'[r].debt].remaining
                        /\ \/ \E q \in Requests : /\ call'[q].op = "update"
                                                   /\ call'[q].debt = call'[r].debt
                                                   /\ call'[q].amount # NoAmount
                           \/ copy'[r].total = debt'[call'[r].debt].total
      BY DEF FreshInv, Credit, Retotalled
    <2>1. pc[r] = "commit" /\ call'[r] = call[r] /\ copy'[r] = copy[r]
      OBVIOUS
    <2>2. call[r].debt \in Debts
      BY <2>1 DEF SerialInv, DebtInv, CallInv, InFlight
    <2>3. QED
      BY <1>0, <2>1, <2>2 DEF SerialInv, FreshInv, dbVars, Retotalled
  <1>2. UnpaidInv' /\ LedgerBalanced'
    BY <1>0 DEF SerialInv, UnpaidInv, LedgerBalanced, dbVars
  <1>3. QED
    BY <1>1, <1>2 DEF SerialInv

\* A step in which no request starts keeps the requests one at a time.
LEMMA OneKept ==
    ASSUME OneInv, \A q \in Requests : InFlight(q)' => InFlight(q)
    PROVE  OneInv'
  BY DEF OneInv

\* Every step of the serial service keeps the ledger balanced.
LEMMA SerialStep ==
    ASSUME Serial, SerialInv, [Next]_vars
    PROVE  SerialInv'
  <1>0. DebtInv /\ TypeOK /\ OneInv
    BY DEF SerialInv, DebtInv
  <1>D. DebtInv'
    BY <1>0, DebtInvStep
  <1>1. ASSUME NEW r \in Requests, Arrival(r) PROVE SerialInv'
    <2>1. PICK c \in Calls, up \in BOOLEAN, s \in Places, x \in Images : ArrivesWith(r, c, up, s, x)
      BY <1>0, <1>1, ArrivalShape
    <2>2. /\ pc'[r] = s
          /\ \A q \in Requests : q # r => pc'[q] = pc[q] /\ copy'[q] = copy[q]
      BY <1>0, <2>1, GotoEffect DEF ArrivesWith
    <2>3. \A q \in Requests : ~InFlight(q)
      BY <2>1 DEF ArrivesWith, Arrives
    <2>4. OneInv'
      BY <2>2, <2>3 DEF OneInv, InFlight
    <2>5. /\ call'[r] = c /\ UNCHANGED dbVars
          /\ \A q \in Requests : call'[q] # call[q] => pc[q] = "idle"
          /\ copy'[r] = x
      BY <1>0, <2>1, GotoEffect DEF ArrivesWith, Arrives, TypeOK
    <2>A. AskInv'
      <3> SUFFICES ASSUME NEW q \in Requests
                   PROVE  /\ pc'[q] = "idle" => call'[q].op = "none"
                          /\ (pc'[q] = "commit" /\ call'[q].op = "create")
                             => copy'[q].total = copy'[q].remaining
        BY DEF AskInv
      <3>1. CASE q = r
        BY <3>1, <2>1, <2>2, <2>5 DEF ArrivesWith
      <3>2. CASE q # r
        <4>1. call'[q] = call[q]
          BY <1>0, <2>1, <3>2 DEF ArrivesWith, Arrives, TypeOK
        <4>2. QED
          BY <2>2, <3>2, <4>1 DEF SerialInv, AskInv
      <3>3. QED
        BY <3>1, <3>2
    <2>6. \A q \in Requests : ~(pc'[q] = "commit" /\ call'[q].op \in {"pay", "update"})
      <3> SUFFICES ASSUME NEW q \in Requests, pc'[q] = "commit", call'[q].op \in {"pay", "update"}
                   PROVE  FALSE
        OBVIOUS
      <3>1. CASE q = r
        BY <3>1, <2>1, <2>2, <2>5 DEF ArrivesWith
      <3>2. CASE q # r
        BY <3>2, <2>2, <2>3 DEF InFlight
      <3>3. QED
        BY <3>1, <3>2
    <2>7. QED
      BY <1>D, <2>4, <2>5, <2>6, <2>A, SerialLocal
  <1>2. ASSUME NEW r \in Requests, FindDebt(r) PROVE SerialInv'
    <2> DEFINE c == call[r]
               x == Changed(c, debt[c.debt])
    <2>1. /\ pc[r] = "find" /\ row[c.debt] = "live" /\ UNCHANGED dbVars /\ call' = call
          /\ Goto(r, IF c.op = "get" THEN "fill" ELSE "commit", x)
      BY <1>2 DEF FindDebt
    <2>2. /\ x.remaining + Credit(c) = debt[c.debt].remaining
          /\ Retotalled(c.debt) \/ x.total = debt[c.debt].total
          /\ c.op # "create"
      BY <1>0, <1>2, <2>1, FindCopy DEF DebtInv, CallInv
    <2>3. /\ copy'[r] = x /\ pc'[r] # "idle"
          /\ \A q \in Requests : q # r => pc'[q] = pc[q] /\ copy'[q] = copy[q]
      BY <1>0, <2>1, GotoEffect
    <2>4. OneInv'
      BY <1>0, <2>1, <2>3, OneKept DEF InFlight
    <2>5. FreshInv'
      <3> SUFFICES ASSUME NEW q \in Requests, pc'[q] = "commit", call[q].op \in {"pay", "update"}
                   PROVE  /\ row[call[q].debt] = "live"
                          /\ copy'[q].remaining + Credit(call[q]) = debt[call[q].debt].remaining
                          /\ Retotalled(call[q].debt) \/ copy'[q].total = debt[call[q].debt].total
        BY <2>1 DEF FreshInv, Credit, dbVars, Retotalled
      <3>1. CASE q = r
        BY <3>1, <2>1, <2>2, <2>3
      <3>2. CASE q # r
        BY <3>2, <2>3 DEF SerialInv, FreshInv
      <3>3. QED
        BY <3>1, <3>2
    <2>6. UnpaidInv' /\ LedgerBalanced'
      BY <2>1 DEF SerialInv, UnpaidInv, LedgerBalanced, Retotalled, dbVars
    <2>A. AskInv'
      BY <2>1, <2>2, <2>3 DEF SerialInv, AskInv
    <2>7. QED
      BY <1>D, <2>4, <2>5, <2>6, <2>A DEF SerialInv
  <1>3. ASSUME NEW r \in Requests,
               CommitCreate(r) \/ CommitPayment(r) \/ CommitUpdate(r) \/ CommitDelete(r)
        PROVE  SerialInv'
    <2> DEFINE d == call[r].debt
    <2>1. PICK op \in {"create", "pay", "update", "delete", "deleteOther"} : Commits(r, op)
      BY <1>3, CommitOp
    <2>2. /\ pc[r] = "commit" /\ d \in Debts /\ call' = call
          /\ pc'[r] \in {"store", "evict", "done"}
          /\ \A q \in Requests : q # r => pc'[q] = pc[q] /\ copy'[q] = copy[q]
      BY <1>0, <2>1, CommitShape
    <2>3. OneInv'
      BY <1>0, <2>2, OneKept DEF InFlight
    <2>4. FreshInv'
      <3>1. \A q \in Requests : pc'[q] # "commit"
        BY <1>0, <2>2 DEF OneInv, InFlight
      <3>2. QED
        BY <3>1 DEF FreshInv
    <2>A. AskInv'
      BY <2>2 DEF SerialInv, AskInv
    <2>T. \A e \in Debts : /\ debt[e].remaining \in Nat /\ paid[e] \in Nat /\ opened[e] \in Nat
      <3>1. \A e \in Debts : debt[e] \in Images /\ paid[e] \in Nat /\ opened[e] \in Nat
        BY <1>0 DEF TypeOK
      <3>2. QED
        BY <3>1 DEF Images
    <2>Y. copy[r].remaining \in Nat /\ Credit(call[r]) \in Int
      <3>1. copy[r] \in Images /\ call[r].amount \in Int
        BY <1>0 DEF TypeOK
      <3>2. QED
        BY <3>1 DEF Images, Credit
    <2>5. CASE CommitCreate(r)
      <3>1. /\ row' = [row EXCEPT ![d] = "live"] /\ debt' = [debt EXCEPT ![d] = copy[r]]
            /\ opened' = [opened EXCEPT ![d] = copy[r].remaining] /\ paid' = paid
            /\ call[r].op = "create"
        BY <2>5 DEF CommitCreate, Commits
      <3>2. row[d] = "absent"
        BY <1>0, <2>2, <3>1 DEF DebtInv, CreatorInv
      <3>3. paid[d] = 0
        BY <2>2, <3>2 DEF SerialInv, UnpaidInv
      <3>4. \A e \in Debts : row'[e] = "absent" => row[e] = "absent"
        BY <1>0, <2>2, <3>1 DEF TypeOK
      <3>5. \A e \in Debts :
               row'[e] # "absent"
               => /\ opened'[e] = debt'[e].remaining + paid'[e]
                  /\ Retotalled(e)' \/ debt'[e].total = debt'[e].remaining + paid'[e]
        <4> SUFFICES ASSUME NEW e \in Debts, row'[e] # "absent"
                     PROVE  /\ opened'[e] = debt'[e].remaining + paid'[e]
                            /\ Retotalled(e) \/ debt'[e].total = debt'[e].remaining + paid'[e]
          BY <2>2 DEF Retotalled
        <4>1. CASE e = d
          <5>1. opened'[e] = copy[r].remaining /\ debt'[e] = copy[r] /\ paid'[e] = 0
            BY <1>0, <2>2, <3>1, <3>3, <4>1 DEF TypeOK
          <5>2. copy[r].total = copy[r].remaining
            BY <2>2, <3>1 DEF SerialInv, AskInv
          <5>3. QED
            BY <2>Y, <5>1, <5>2
        <4>2. CASE e # d
          <5>1. opened'[e] = opened[e] /\ debt'[e] = debt[e] /\ paid'[e] = paid[e] /\ row'[e] = row[e]
            BY <1>0, <2>2, <3>1, <4>2 DEF TypeOK
          <5>2. QED
            BY <5>1 DEF SerialInv, LedgerBalanced
        <4>3. QED
          BY <4>1, <4>2
      <3>6. UnpaidInv'
        BY <3>1, <3>4 DEF SerialInv, UnpaidInv
      <3>7. QED
        BY <1>D, <2>3, <2>4, <2>A, <3>5, <3>6 DEF SerialInv, LedgerBalanced
    <2>6. CASE CommitPayment(r) \/ CommitUpdate(r)
      <3>1. call[r].op \in {"pay", "update"} /\ UNCHANGED <<row, opened>>
        BY <2>6 DEF CommitPayment, CommitUpdate, Commits
      <3>2. /\ row[d] = "live" /\ copy[r].remaining + Credit(call[r]) = debt[d].remaining
            /\ Retotalled(d) \/ copy[r].total = debt[d].total
        BY <2>2, <3>1 DEF SerialInv, FreshInv
      <3>3. debt' = [debt EXCEPT ![d] = copy[r]]
        BY <2>6, <3>2 DEF CommitPayment, CommitUpdate, WriteBack
      <3>4. paid'[d] = paid[d] + Credit(call[r]) /\ \A e \in Debts : e # d => paid'[e] = paid[e]
        <4>1. CASE CommitPayment(r)
          BY <1>0, <2>2, <4>1 DEF CommitPayment, Commits, Credit, TypeOK
        <4>2. CASE CommitUpdate(r)
          BY <2>2, <2>T, <4>2 DEF CommitUpdate, Commits, Credit
        <4>3. QED
          BY <2>6, <4>1, <4>2
      <3>5. \A e \in Debts :
               row'[e] # "absent"
               => /\ opened'[e] = debt'[e].remaining + paid'[e]
                  /\ Retotalled(e)' \/ debt'[e].total = debt'[e].remaining + paid'[e]
        <4> SUFFICES ASSUME NEW e \in Debts, row'[e] # "absent"
                     PROVE  /\ opened'[e] = debt'[e].remaining + paid'[e]
                            /\ Retotalled(e) \/ debt'[e].total = debt'[e].remaining + paid'[e]
          BY <2>2 DEF Retotalled
        <4>1. /\ opened'[e] = opened[e] /\ opened[e] = debt[e].remaining + paid[e]
              /\ Retotalled(e) \/ debt[e].total = debt[e].remaining + paid[e]
          BY <3>1 DEF SerialInv, LedgerBalanced
        <4>2. CASE e = d
          <5>1. debt'[e] = copy[r]
            BY <1>0, <2>2, <3>3, <4>2 DEF TypeOK
          <5>2. QED
            BY <2>T, <2>Y, <3>2, <3>4, <4>1, <4>2, <5>1
        <4>3. CASE e # d
          <5>1. debt'[e] = debt[e]
            BY <1>0, <3>3, <4>3 DEF TypeOK
          <5>2. QED
            BY <3>4, <4>1, <4>3, <5>1
        <4>4. QED
          BY <4>2, <4>3
      <3>6. UnpaidInv'
        BY <3>1, <3>2, <3>4 DEF SerialInv, UnpaidInv
      <3>7. QED
        BY <1>D, <2>3, <2>4, <2>A, <3>5, <3>6 DEF SerialInv, LedgerBalanced
    <2>7. CASE CommitDelete(r)
      <3>1. /\ row' = row \/ (row' = [row EXCEPT ![d] = "deleted"] /\ row[d] = "live")
            /\ UNCHANGED <<debt, paid, opened>>
        BY <2>7, DeleteEffect
      <3>2. \A e \in Debts : row'[e] = "absent" <=> row[e] = "absent"
        BY <1>0, <2>2, <3>1 DEF TypeOK
      <3>3. UnpaidInv' /\ LedgerBalanced'
        BY <2>2, <3>1, <3>2 DEF SerialInv, UnpaidInv, LedgerBalanced, Retotalled
      <3>4. QED
        BY <1>D, <2>3, <2>4, <2>A, <3>3 DEF SerialInv
    <2>8. QED
      BY <1>3, <2>5, <2>6, <2>7
  <1>4. ASSUME NEW r \in Requests,
               \/ Refused(r) \/ DatabaseFails(r) \/ StoreKey(r) \/ EvictCache(r)
               \/ FillCache(r) \/ RedisFails(r) \/ Abandon(r)
        PROVE  SerialInv'
    <2>1. UNCHANGED <<dbVars, call>>
      BY <1>4 DEF Refused, DatabaseFails, StoreKey, EvictCache, FillCache, RedisFails, Abandon
    <2>2. InFlight(r)
      BY <1>4 DEF Refused, DatabaseFails, StoreKey, EvictCache, FillCache, RedisFails, Abandon, InFlight
    <2>3. PICK s \in {"done", "evict"} : Goto(r, s, NoImage)
      BY <1>4 DEF Refused, DatabaseFails, StoreKey, EvictCache, FillCache, RedisFails, Abandon,
             Return, AfterStore
    <2>4. /\ pc'[r] = s
          /\ \A q \in Requests : q # r => pc'[q] = pc[q] /\ copy'[q] = copy[q]
      BY <1>0, <2>3, GotoEffect
    <2>5. OneInv'
      BY <1>0, <2>2, <2>4, OneKept DEF InFlight
    <2>6. QED
      <3>1. AskInv'
        BY <2>1, <2>2, <2>4 DEF SerialInv, AskInv, InFlight
      <3>2. QED
        BY <1>D, <2>1, <2>4, <2>5, <3>1, SerialLocal
  <1>5. ASSUME UNCHANGED <<dbVars, pc, call, copy>> PROVE SerialInv'
    <2>1. OneInv'
      BY <1>0, <1>5, OneKept DEF InFlight
    <2>2. AskInv'
      BY <1>5 DEF SerialInv, AskInv
    <2>3. QED
      BY <1>D, <1>5, <2>1, <2>2, SerialLocal
  <1>6. ASSUME NEW d \in Debts, ExpireCache(d) PROVE UNCHANGED <<dbVars, pc, call, copy>>
    BY <1>6 DEF ExpireCache
  <1>7. UNCHANGED vars => UNCHANGED <<dbVars, pc, call, copy>>
    BY DEF vars, dbVars
  <1>8. QED
    BY <1>1, <1>2, <1>3, <1>4, <1>5, <1>6, <1>7 DEF Next, Step

LEMMA SerialInvInit == Init => SerialInv
  <1> SUFFICES ASSUME Init PROVE SerialInv
    OBVIOUS
  <1>1. DebtInv
    BY DebtInvInit
  <1>2. OneInv /\ FreshInv /\ AskInv
    BY DEF Init, OneInv, FreshInv, AskInv, NoCall, InFlight
  <1>3. UnpaidInv /\ LedgerBalanced
    BY DEF Init, UnpaidInv, LedgerBalanced
  <1>4. QED
    BY <1>1, <1>2, <1>3 DEF SerialInv

\* When requests do not overlap, the balance of every debt is what it was opened with
\* less its payments, and total_amount less its payments until an UpdateDebt is given
\* another total, whatever fails and whenever a request dies.
THEOREM SerialLedger ==
    ASSUME Serial
    PROVE  Spec => []LedgerBalanced
  <1>1. Init => SerialInv
    BY SerialInvInit
  <1>2. SerialInv /\ [Next]_vars => SerialInv'
    BY SerialStep
  <1>3. SerialInv => LedgerBalanced
    BY DEF SerialInv
  <1>4. QED
    BY <1>1, <1>2, <1>3, PTL DEF Spec

------------------------------------------------------------------------------
(***************************************************************************)
(* One request at a time, further: what a request holds in memory is what  *)
(* the handler makes of the row as it is now, every repetition of a key is *)
(* paid for with a fault, and only a change under way leaves an old entry  *)
(* in the cache.                                                           *)
(***************************************************************************)

\* The faults that let a Store or an eviction be lost.
LostSteps == faults["redis"] + faults["abandon"]

\* The copies are those of the row; deleted debts have seen their last event.
RowCopyInv ==
    /\ \A r \in Requests :
          LET x == debt[call[r].debt] IN
          /\ (pc[r] = "commit" /\ call[r].op \in {"pay", "update"})
             => Accepts(call[r], x) /\ copy[r] = Changed(call[r], x)
          /\ pc[r] = "fill" => row[call[r].debt] = "live" /\ copy[r] = x
    /\ \A d \in Debts : row[d] = "absent" => debt[d] = NoImage
    /\ DeletedIsLast

\* A key that is neither stored nor about to be has committed once per fault.
KeyInv ==
    \A k \in Keys :
        /\ commits[k] <= 1 + LostSteps
        /\ \A r \in Requests :
              (pc[r] \in {"find", "commit"} /\ call[r].key = k) => commits[k] <= LostSteps
        /\ (k \notin stored /\ \A r \in Requests : ~(pc[r] = "store" /\ call[r].key = k))
           => commits[k] <= LostSteps

\* The request r has changed debt d and has yet to evict its entry.
WillEvict(r, d) ==
    pc[r] \in {"store", "evict"} /\ call[r].op \in {"pay", "update"} /\ call[r].debt = d

CacheInv ==
    LostSteps = 0 =>
        /\ \A d \in Debts :
              cached[d] # NoImage => \/ row[d] = "live" /\ cached[d] = debt[d]
                                     \/ \E r \in Requests : WillEvict(r, d)
        /\ \A r \in Requests :
              (pc[r] = "commit" /\ call[r].op \in Deletes) => cached[call[r].debt] = NoImage

QuietInv == SerialInv /\ RowCopyInv /\ KeyInv /\ CacheInv

\* How the faults of a step count.
LEMMA LostCounts ==
    ASSUME TypeOK
    PROVE  /\ LostSteps \in Nat
           /\ faults' = faults => LostSteps' = LostSteps
           /\ Fault("db") => LostSteps' = LostSteps
           /\ Fault("redis") \/ Fault("abandon") => LostSteps' = LostSteps + 1
  <1>1. faults \in [Faults -> Nat] /\ LostSteps \in Nat
    BY DEF TypeOK, LostSteps, Faults
  <1>2. ASSUME Fault("db") PROVE LostSteps' = LostSteps
    BY <1>1, <1>2 DEF Fault, LostSteps, Faults
  <1>3. ASSUME Fault("redis") PROVE LostSteps' = LostSteps + 1
    BY <1>1, <1>3 DEF Fault, LostSteps, Faults
  <1>4. ASSUME Fault("abandon") PROVE LostSteps' = LostSteps + 1
    BY <1>1, <1>4 DEF Fault, LostSteps, Faults
  <1>5. faults' = faults => LostSteps' = LostSteps
    BY DEF LostSteps
  <1>6. QED
    BY <1>1, <1>2, <1>3, <1>4, <1>5

\* A step of a request moves that request alone, and no other is in flight.
LEMMA StepMoves ==
    ASSUME SerialInv, NEW r \in Requests, Step(r)
    PROVE  /\ InFlight(r) /\ call' = call
           /\ \A q \in Requests : q # r => /\ pc'[q] = pc[q] /\ copy'[q] = copy[q]
                                           /\ pc[q] \in {"idle", "done"}
  <1>0. TypeOK /\ OneInv
    BY DEF SerialInv, DebtInv
  <1>1. InFlight(r) /\ call' = call
    BY DEF Step, FindDebt, Refused, CommitCreate, CommitPayment, CommitUpdate, CommitDelete,
           Deletes, Commits, DatabaseFails, StoreKey, EvictCache, FillCache, RedisFails, Abandon, InFlight
  <1>2. \E s, x : Goto(r, s, x)
    BY DEF Step, FindDebt, Refused, CommitCreate, CommitPayment, CommitUpdate, CommitDelete,
           Deletes, Commits, DatabaseFails, StoreKey, EvictCache, FillCache, RedisFails, Abandon, Return
  <1>3. \A q \in Requests : q # r => pc'[q] = pc[q] /\ copy'[q] = copy[q]
    BY <1>0, <1>2, GotoEffect
  <1>4. \A q \in Requests : q # r => pc[q] \in {"idle", "done"}
    BY <1>0, <1>1 DEF OneInv, InFlight
  <1>5. QED
    BY <1>1, <1>3, <1>4

\* A request arrives when no other is in flight, and touches no table.
LEMMA SerialArrival ==
    ASSUME Serial, SerialInv, NEW r \in Requests, Arrival(r)
    PROVE  /\ \A q \in Requests : ~InFlight(q)
           /\ \A q \in Requests : q # r => pc'[q] = pc[q] /\ call'[q] = call[q]
           /\ pc'[r] \in {"done", "find", "commit"}
           /\ pc'[r] = "commit" => call'[r].op \in {"create", "delete", "deleteOther"}
           /\ UNCHANGED <<dbVars, stored>>
  <1>0. TypeOK
    BY DEF SerialInv, DebtInv
  <1>1. PICK c \in Calls, up \in BOOLEAN, s \in Places, x \in Images : ArrivesWith(r, c, up, s, x)
    BY <1>0, ArrivalShape
  <1>2. /\ pc'[r] = s
        /\ \A q \in Requests : q # r => pc'[q] = pc[q]
    BY <1>0, <1>1, GotoEffect DEF ArrivesWith
  <1>3. call'[r] = c /\ \A q \in Requests : q # r => call'[q] = call[q]
    BY <1>0, <1>1 DEF ArrivesWith, Arrives, TypeOK
  <1>4. QED
    BY <1>1, <1>2, <1>3 DEF ArrivesWith, Arrives

\* The steps of a request that leave the table alone and end its work on a copy.
Quiet(r) ==
    \/ Refused(r) \/ DatabaseFails(r) \/ StoreKey(r) \/ EvictCache(r)
    \/ FillCache(r) \/ RedisFails(r) \/ Abandon(r)

LEMMA QuietMoves ==
    ASSUME SerialInv, NEW r \in Requests, Quiet(r)
    PROVE  UNCHANGED dbVars /\ pc'[r] \in {"done", "evict"}
  <1>1. UNCHANGED dbVars
    BY DEF Quiet, Refused, DatabaseFails, StoreKey, EvictCache, FillCache, RedisFails, Abandon
  <1>2. PICK s \in {"done", "evict"} : Goto(r, s, NoImage)
    BY DEF Quiet, Refused, DatabaseFails, StoreKey, EvictCache, FillCache, RedisFails, Abandon,
           Return, AfterStore
  <1>3. QED
    BY <1>1, <1>2, GotoEffect DEF SerialInv, DebtInv

\* The copy in memory stays the row's, and nothing follows a deletion.
LEMMA RowCopyStep ==
    ASSUME Serial, QuietInv, [Next]_vars
    PROVE  RowCopyInv'
  <1> DEFINE Held(q) == /\ (pc[q] = "commit" /\ call[q].op \in {"pay", "update"})
                           => /\ Accepts(call[q], debt[call[q].debt])
                              /\ copy[q] = Changed(call[q], debt[call[q].debt])
                        /\ pc[q] = "fill" => /\ row[call[q].debt] = "live"
                                             /\ copy[q] = debt[call[q].debt]
             Rest == /\ \A d \in Debts : row[d] = "absent" => debt[d] = NoImage
                     /\ DeletedIsLast
  <1>0. SerialInv /\ DebtInv /\ TypeOK /\ RowCopyInv
    BY DEF QuietInv, SerialInv, DebtInv
  <1>R. (\A q \in Requests : Held(q)') /\ Rest' => RowCopyInv'
    BY DEF RowCopyInv
  <1>U. UNCHANGED dbVars => Rest'
    BY <1>0 DEF RowCopyInv, dbVars, DeletedIsLast
  <1>1. ASSUME NEW r \in Requests, Arrival(r) PROVE RowCopyInv'
    <2>1. /\ \A q \in Requests : pc'[q] # "fill"
          /\ \A q \in Requests :
                pc'[q] = "commit" => call'[q].op \in {"create", "delete", "deleteOther"}
          /\ UNCHANGED dbVars
      BY <1>0, <1>1, SerialArrival DEF InFlight
    <2>2. QED
      BY <2>1, <1>R, <1>U
  <1>2. ASSUME NEW r \in Requests, FindDebt(r) PROVE RowCopyInv'
    <2>1. /\ pc[r] = "find" /\ row[call[r].debt] = "live" /\ Accepts(call[r], debt[call[r].debt])
          /\ Goto(r, IF call[r].op = "get" THEN "fill" ELSE "commit",
                     Changed(call[r], debt[call[r].debt]))
          /\ UNCHANGED dbVars
      BY <1>2 DEF FindDebt
    <2>2. /\ call' = call
          /\ \A q \in Requests : q # r => pc'[q] \in {"idle", "done"}
      BY <1>0, <1>2, StepMoves DEF Step
    <2>4. call[r].op = "get" => Changed(call[r], debt[call[r].debt]) = debt[call[r].debt]
      BY DEF Changed
    <2>5. pc'[r] = "fill" => call[r].op = "get"
      BY <1>0, <2>1, GotoEffect
    <2>6. copy'[r] = Changed(call[r], debt[call[r].debt])
      BY <1>0, <2>1, GotoEffect
    <2>7. Accepts(call'[r], debt'[call'[r].debt]) /\ Changed(call'[r], debt'[call'[r].debt]) = copy'[r]
      BY <2>1, <2>2, <2>6 DEF dbVars
    <2>8. Held(r)'
      BY <2>1, <2>2, <2>4, <2>5, <2>6, <2>7 DEF dbVars
    <2>9. \A q \in Requests : Held(q)'
      BY <2>2, <2>8
    <2>10. QED
      BY <2>1, <2>9, <1>R, <1>U
  <1>3. ASSUME NEW r \in Requests,
               CommitCreate(r) \/ CommitPayment(r) \/ CommitUpdate(r) \/ CommitDelete(r)
        PROVE  RowCopyInv'
    <2> DEFINE d == call[r].debt
    <2>1. PICK op \in {"create", "pay", "update", "delete", "deleteOther"} : Commits(r, op)
      BY <1>3, CommitOp
    <2>2. /\ pc[r] = "commit" /\ call[r].op = op /\ d \in Debts
          /\ pc'[r] \in {"store", "evict", "done"}
      BY <1>0, <2>1, CommitShape
    <2>3. \A q \in Requests : q # r => pc'[q] \in {"idle", "done"}
      BY <1>0, <1>3, StepMoves DEF Step
    <2>4. \A q \in Requests : Held(q)'
      BY <2>2, <2>3
    <2>T. \A e \in Debts : row[e] = "deleted" => event[e].type = "deleted"
      BY <1>0 DEF RowCopyInv, DeletedIsLast
    <2>A. \A e \in Debts : row[e] = "absent" => debt[e] = NoImage
      BY <1>0 DEF RowCopyInv
    <2>5. CASE CommitCreate(r)
      <3>1. /\ row' = [row EXCEPT ![d] = "live"] /\ debt' = [debt EXCEPT ![d] = copy[r]]
            /\ event' = [event EXCEPT ![d] = [type |-> "created", status |-> copy[r].status]]
        BY <2>5 DEF CommitCreate, SaveEvent
      <3>2. Rest'
        BY <1>0, <2>2, <2>T, <2>A, <3>1 DEF TypeOK, DeletedIsLast
      <3>3. QED
        BY <2>4, <3>2, <1>R
    <2>6. CASE CommitPayment(r) \/ CommitUpdate(r)
      <3>1. call[r].op \in {"pay", "update"} /\ row' = row
        BY <2>6 DEF CommitPayment, CommitUpdate, Commits
      <3>2. row[d] = "live"
        BY <1>0, <2>2, <3>1 DEF SerialInv, FreshInv
      <3>3. debt' = [debt EXCEPT ![d] = copy[r]] /\ \E e : event' = [event EXCEPT ![d] = e]
        BY <2>6, <3>2 DEF CommitPayment, CommitUpdate, WriteBack, SaveEvent
      <3>4. \A e \in Debts : e # d => debt'[e] = debt[e] /\ event'[e] = event[e]
        BY <1>0, <3>3 DEF TypeOK
      <3>5. Rest'
        BY <2>T, <2>A, <3>1, <3>2, <3>4 DEF DeletedIsLast
      <3>6. QED
        BY <2>4, <3>5, <1>R
    <2>7. CASE CommitDelete(r)
      <3>1. /\ row' = row \/ row' = [row EXCEPT ![d] = "deleted"]
            /\ event' = [event EXCEPT ![d].type = "deleted"]
            /\ debt' = debt
        BY <2>7, DeleteEffect
      <3>E. event'[d].type = "deleted" /\ \A e \in Debts : e # d => event'[e] = event[e]
        BY <1>0, <2>2, <3>1 DEF TypeOK
      <3>A. \A e \in Debts : /\ row'[e] = "absent" => row[e] = "absent"
                             /\ (row'[e] = "deleted" /\ e # d) => row[e] = "deleted"
        BY <1>0, <2>2, <3>1 DEF TypeOK
      <3>2. Rest'
        BY <2>T, <2>A, <3>1, <3>E, <3>A DEF DeletedIsLast
      <3>3. QED
        BY <2>4, <3>2, <1>R
    <2>8. QED
      BY <1>3, <2>5, <2>6, <2>7
  <1>4. ASSUME NEW r \in Requests, Quiet(r) PROVE RowCopyInv'
    <2>1. UNCHANGED dbVars /\ pc'[r] \in {"done", "evict"}
      BY <1>0, <1>4, QuietMoves
    <2>2. \A q \in Requests : q # r => pc'[q] \in {"idle", "done"}
      BY <1>0, <1>4, StepMoves DEF Step, Quiet
    <2>3. \A q \in Requests : Held(q)'
      BY <2>1, <2>2
    <2>4. QED
      BY <2>1, <2>3, <1>R, <1>U
  <1>5. ASSUME UNCHANGED <<dbVars, pc, call, copy>> PROVE RowCopyInv'
    <2>1. \A q \in Requests : Held(q)'
      BY <1>0, <1>5 DEF RowCopyInv, dbVars
    <2>2. QED
      BY <1>5, <2>1, <1>R, <1>U
  <1>6. ASSUME NEW d \in Debts, ExpireCache(d) PROVE UNCHANGED <<dbVars, pc, call, copy>>
    BY <1>6 DEF ExpireCache
  <1>7. UNCHANGED vars => UNCHANGED <<dbVars, pc, call, copy>>
    BY DEF vars, dbVars
  <1>8. QED
    BY <1>1, <1>2, <1>3, <1>4, <1>5, <1>6, <1>7 DEF Next, Step, Quiet

\* A request gets past the check of its key when the response is not stored or
\* Redis did not answer.
LEMMA ArrivalUnstored ==
    ASSUME TypeOK, NEW r \in Requests, Arrival(r), call'[r].key \in stored
    PROVE  pc'[r] = "done" \/ Fault("redis")
  <1>0. NoKey \notin stored
    BY ConstantsAssumption DEF TypeOK
  <1>1. ASSUME NEW c \in Calls, NEW up \in BOOLEAN, Arrives(r, c, up)
        PROVE  call'[r] = c /\ (up \/ Fault("redis"))
    BY <1>1 DEF Arrives, TypeOK
  <1>2. Return(r) => pc'[r] = "done"
    BY GotoEffect DEF Return
  <1>3. ASSUME NEW d \in Debts \union {NoDebt}, NEW a \in Amounts, NEW t \in OpenAs,
               NEW k \in Keys \union {NoKey}, NEW up \in BOOLEAN, CreateDebt(r, d, a, t, k, up)
        PROVE  pc'[r] = "done" \/ Fault("redis")
    <2> DEFINE c == [op |-> "create", debt |-> d, amount |-> a, status |-> t, key |-> k]
    <2>1. c \in Calls
      BY ConstantsAssumption DEF Calls, Ops
    <2>2. Arrives(r, c, up) /\ (Replayed(k, up) => Return(r))
      BY <1>3 DEF CreateDebt
    <2>3. QED
      BY <1>1, <1>2, <2>1, <2>2 DEF Replayed
  <1>4. ASSUME NEW d \in Debts, NEW a \in Amounts, NEW k \in Keys \union {NoKey},
               NEW up \in BOOLEAN, RegisterPayment(r, d, a, k, up)
        PROVE  pc'[r] = "done" \/ Fault("redis")
    <2> DEFINE c == [op |-> "pay", debt |-> d, amount |-> a, status |-> Keep, key |-> k]
    <2>1. c \in Calls
      BY ConstantsAssumption DEF Calls, Ops
    <2>2. Arrives(r, c, up) /\ (Replayed(k, up) => Return(r))
      BY <1>4 DEF RegisterPayment
    <2>3. QED
      BY <1>1, <1>2, <2>1, <2>2 DEF Replayed
  <1>5. ASSUME NEW d \in Debts, NEW a \in Totals \union {NoAmount}, NEW t \in Changes \union {Keep},
               NEW k \in Keys \union {NoKey}, NEW up \in BOOLEAN, UpdateDebt(r, d, a, t, k, up)
        PROVE  pc'[r] = "done" \/ Fault("redis")
    <2> DEFINE c == [op |-> "update", debt |-> d, amount |-> a, status |-> t, key |-> k]
    <2>1. c \in Calls
      BY ConstantsAssumption DEF Calls, Ops, NoAmount
    <2>2. Arrives(r, c, up) /\ (Replayed(k, up) => Return(r))
      BY <1>5 DEF UpdateDebt
    <2>3. QED
      BY <1>1, <1>2, <2>1, <2>2 DEF Replayed
  <1>6. ASSUME NEW d \in Debts, NEW o \in Deletes, NEW up \in BOOLEAN,
               DeleteDebt(r, d, o, up) \/ GetDebt(r, d, up)
        PROVE  FALSE
    <2>1. \E op \in {o, "get"} :
             Arrives(r, [op |-> op, debt |-> d, amount |-> 0, status |-> Keep, key |-> NoKey], up)
      BY <1>6 DEF DeleteDebt, GetDebt
    <2>2. call'[r].key = NoKey
      BY <2>1 DEF Arrives, TypeOK
    <2>3. QED
      BY <1>0, <2>2
  <1>7. QED
    <2>1. ASSUME NEW d \in Debts, NEW up \in BOOLEAN, \E o \in Deletes : DeleteDebt(r, d, o, up)
          PROVE  FALSE
      BY <2>1, <1>6
    <2>2. ASSUME NEW d \in Debts, NEW up \in BOOLEAN, GetDebt(r, d, up) PROVE FALSE
      BY <2>2, <1>6 DEF Deletes
    <2>3. QED
      BY <1>3, <1>4, <1>5, <2>1, <2>2 DEF Arrival

\* Every repetition of a key is paid for with a fault.
LEMMA KeyStep ==
    ASSUME Serial, QuietInv, TypeOK', [Next]_vars
    PROVE  KeyInv'
  <1>0. SerialInv /\ DebtInv /\ TypeOK /\ KeyInv
    BY DEF QuietInv, SerialInv, DebtInv
  <1>L. LostSteps \in Nat /\ LostSteps' \in Nat
    BY <1>0, LostCounts DEF TypeOK, LostSteps, Faults
  <1>N. \A k \in Keys : commits[k] \in Nat /\ commits'[k] \in Nat
    BY <1>0 DEF TypeOK
  <1>1. ASSUME NEW r \in Requests, Arrival(r) PROVE KeyInv'
    <2>1. PICK c \in Calls, up \in BOOLEAN, s \in Places, x \in Images : ArrivesWith(r, c, up, s, x)
      BY <1>0, <1>1, ArrivalShape
    <2>2. /\ \A q \in Requests : ~InFlight(q)
          /\ \A q \in Requests : q # r => pc'[q] = pc[q]
          /\ pc'[r] \in {"done", "find", "commit"}
          /\ UNCHANGED <<commits, stored>>
      BY <1>0, <1>1, SerialArrival DEF dbVars
    <2>3. call'[r] = c
      BY <1>0, <2>1 DEF ArrivesWith, Arrives, TypeOK
    <2>4. LostSteps' = LostSteps \/ LostSteps' = LostSteps + 1
      BY <1>0, <2>1, LostCounts DEF ArrivesWith, Arrives
    <2>5. pc'[r] = "done" \/ LostSteps' = LostSteps + 1 \/ c.key \notin stored
      BY <1>0, <1>1, <2>3, ArrivalUnstored, LostCounts
    <2> SUFFICES ASSUME NEW k \in Keys
                 PROVE  /\ commits[k] <= 1 + LostSteps'
                        /\ \A q \in Requests :
                              (pc'[q] \in {"find", "commit"} /\ call'[q].key = k)
                              => commits[k] <= LostSteps'
                        /\ k \notin stored => commits[k] <= LostSteps'
      BY <2>2 DEF KeyInv
    <2>6. /\ commits[k] <= 1 + LostSteps
          /\ k \notin stored => commits[k] <= LostSteps
      BY <1>0, <2>2 DEF KeyInv, InFlight
    <2>7. ASSUME NEW q \in Requests, pc'[q] \in {"find", "commit"}, call'[q].key = k
          PROVE  commits[k] <= LostSteps'
      <3>1. q = r /\ c.key = k
        BY <2>2, <2>3, <2>7 DEF InFlight
      <3>2. QED
        BY <1>L, <1>N, <2>2, <2>4, <2>5, <2>6, <2>7, <3>1
    <2>8. QED
      BY <1>L, <1>N, <2>2, <2>4, <2>6, <2>7
  <1>2. ASSUME NEW r \in Requests, FindDebt(r) PROVE KeyInv'
    <2>1. /\ pc[r] = "find" /\ UNCHANGED <<commits, stored, call, faults>>
          /\ \E s \in {"fill", "commit"} : \E x : Goto(r, s, x)
      BY <1>2 DEF FindDebt, dbVars, redisVars
    <2>2. LostSteps' = LostSteps
      BY <1>0, <2>1, LostCounts
    <2>3. /\ pc'[r] \in {"fill", "commit"}
          /\ \A q \in Requests : q # r => pc'[q] = pc[q]
      BY <1>0, <2>1, GotoEffect
    <2>4. QED
      BY <1>0, <2>1, <2>2, <2>3 DEF KeyInv
  <1>3. ASSUME NEW r \in Requests,
               CommitCreate(r) \/ CommitPayment(r) \/ CommitUpdate(r) \/ CommitDelete(r)
        PROVE  KeyInv'
    <2>1. PICK op \in {"create", "pay", "update", "delete", "deleteOther"} : Commits(r, op)
      BY <1>3, CommitOp
    <2>2. /\ pc[r] = "commit" /\ UNCHANGED <<stored, call, faults>>
          /\ commits' = [k \in Keys |-> IF k = call[r].key THEN commits[k] + 1 ELSE commits[k]]
          /\ pc'[r] = AfterCommit(call[r])
      BY <1>0, <2>1, GotoEffect DEF Commits, redisVars
    <2>3. LostSteps' = LostSteps
      BY <1>0, <2>2, LostCounts
    <2>4. \A q \in Requests : q # r => pc'[q] = pc[q] /\ pc[q] \in {"idle", "done"}
      BY <1>0, <1>3, StepMoves DEF Step
    <2>5. pc'[r] \in {"store", "evict", "done"} /\ (call[r].key # NoKey => pc'[r] = "store")
      <3>1. CASE call[r].key # NoKey
        BY <2>2, <3>1 DEF AfterCommit
      <3>2. CASE call[r].key = NoKey
        BY <2>2, <3>2 DEF AfterCommit
      <3>3. QED
        BY <3>1, <3>2
    <2> SUFFICES ASSUME NEW k \in Keys
                 PROVE  /\ commits'[k] <= 1 + LostSteps
                        /\ (k \notin stored /\ \A q \in Requests : ~(pc'[q] = "store" /\ call[q].key = k))
                           => commits'[k] <= LostSteps
      BY <2>2, <2>3, <2>4, <2>5 DEF KeyInv
    <2>6. CASE k = call[r].key
      <3>1. k # NoKey
        BY ConstantsAssumption
      <3>2. commits[k] <= LostSteps /\ commits'[k] = commits[k] + 1
        BY <1>0, <2>2, <2>6 DEF KeyInv
      <3>3. QED
        BY <1>L, <1>N, <2>5, <2>6, <3>1, <3>2
    <2>7. CASE k # call[r].key
      <3>1. commits'[k] = commits[k]
        BY <2>2, <2>7
      <3>2. \A q \in Requests : pc[q] = "store" => pc'[q] = "store"
        BY <2>2, <2>4
      <3>3. QED
        BY <1>0, <3>1, <3>2 DEF KeyInv
    <2>8. QED
      BY <2>6, <2>7
  <1>4. ASSUME NEW r \in Requests, Quiet(r) PROVE KeyInv'
    <2>1. commits' = commits /\ pc'[r] \in {"done", "evict"}
      BY <1>0, <1>4, QuietMoves DEF dbVars
    <2>2. /\ InFlight(r) /\ call' = call
          /\ \A q \in Requests : q # r => pc'[q] = pc[q] /\ pc[q] \in {"idle", "done"}
      BY <1>0, <1>4, StepMoves DEF Step, Quiet
    <2>3. LostSteps <= LostSteps' /\ stored \subseteq stored'
      <3>1. stored \subseteq stored'
        BY <1>4 DEF Quiet, Refused, DatabaseFails, StoreKey, EvictCache, FillCache, RedisFails,
               Abandon, redisVars
      <3>2. faults' = faults \/ Fault("db") \/ Fault("redis") \/ Fault("abandon")
        BY <1>4 DEF Quiet, Refused, DatabaseFails, StoreKey, EvictCache, FillCache, RedisFails, Abandon
      <3>3. QED
        BY <1>0, <1>L, <3>1, <3>2, LostCounts
    <2>4. pc[r] = "store" => call[r].key \in stored' \/ LostSteps' = LostSteps + 1
      <3> SUFFICES ASSUME pc[r] = "store"
                   PROVE  call[r].key \in stored' \/ LostSteps' = LostSteps + 1
        OBVIOUS
      <3>1. StoreKey(r) \/ Fault("redis") \/ Fault("abandon")
        BY <1>4 DEF Quiet, Refused, DatabaseFails, EvictCache, FillCache, RedisFails, Abandon
      <3>2. QED
        BY <1>0, <3>1, LostCounts DEF StoreKey
    <2> SUFFICES ASSUME NEW k \in Keys
                 PROVE  /\ commits[k] <= 1 + LostSteps'
                        /\ k \notin stored' => commits[k] <= LostSteps'
      BY <2>1, <2>2 DEF KeyInv
    <2>5. commits[k] <= 1 + LostSteps
      BY <1>0 DEF KeyInv
    <2>6. ASSUME k \notin stored' PROVE commits[k] <= LostSteps'
      <3>1. CASE pc[r] = "store" /\ call[r].key = k
        BY <1>L, <1>N, <2>4, <2>5, <2>6, <3>1
      <3>2. CASE ~(pc[r] = "store" /\ call[r].key = k)
        <4>1. \A q \in Requests : ~(pc[q] = "store" /\ call[q].key = k)
          BY <2>2, <3>2
        <4>2. commits[k] <= LostSteps
          BY <1>0, <2>3, <2>6, <4>1 DEF KeyInv
        <4>3. QED
          BY <1>L, <1>N, <2>3, <4>2
      <3>3. QED
        BY <3>1, <3>2
    <2>7. QED
      BY <1>L, <1>N, <2>3, <2>5, <2>6
  <1>5. ASSUME UNCHANGED <<dbVars, stored, pc, call, faults>> PROVE KeyInv'
    BY <1>0, <1>5 DEF KeyInv, LostSteps, dbVars
  <1>6. ASSUME NEW d \in Debts, ExpireCache(d) PROVE UNCHANGED <<dbVars, stored, pc, call, faults>>
    BY <1>6 DEF ExpireCache
  <1>7. UNCHANGED vars => UNCHANGED <<dbVars, stored, pc, call, faults>>
    BY DEF vars, dbVars
  <1>8. QED
    BY <1>1, <1>2, <1>3, <1>4, <1>5, <1>6, <1>7 DEF Next, Step, Quiet

\* DeleteDebt gets to its transaction with the entry gone, if Redis answered.
LEMMA ArrivalEvicts ==
    ASSUME TypeOK, NEW r \in Requests, Arrival(r), call'[r].op \in Deletes
    PROVE  cached'[call'[r].debt] = NoImage \/ Fault("redis")
  <1>1. ASSUME NEW c, NEW up, Arrives(r, c, up) PROVE call'[r] = c
    BY <1>1 DEF Arrives, TypeOK
  <1>2. PICK d \in Debts, op \in Deletes, up \in BOOLEAN : DeleteDebt(r, d, op, up)
    <2>1. ASSUME NEW d \in Debts, NEW up \in BOOLEAN,
                 \/ \E n \in {d, NoDebt}, a \in Amounts, s \in OpenAs, k \in Keys \union {NoKey} :
                       CreateDebt(r, n, a, s, k, up)
                 \/ \E a \in Amounts, k \in Keys \union {NoKey} : RegisterPayment(r, d, a, k, up)
                 \/ \E t \in Totals \union {NoAmount}, s \in Changes \union {Keep},
                         k \in Keys \union {NoKey} : UpdateDebt(r, d, t, s, k, up)
                 \/ GetDebt(r, d, up)
          PROVE  FALSE
      <3>1. ASSUME NEW n, NEW a, NEW s, NEW k, CreateDebt(r, n, a, s, k, up) PROVE FALSE
        BY <1>1, <3>1 DEF CreateDebt, Deletes
      <3>2. ASSUME NEW a, NEW k, RegisterPayment(r, d, a, k, up) PROVE FALSE
        BY <1>1, <3>2 DEF RegisterPayment, Deletes
      <3>3. ASSUME NEW t, NEW s, NEW k, UpdateDebt(r, d, t, s, k, up) PROVE FALSE
        BY <1>1, <3>3 DEF UpdateDebt, Deletes
      <3>4. ASSUME GetDebt(r, d, up) PROVE FALSE
        BY <1>1, <3>4 DEF GetDebt, Deletes
      <3>5. QED
        BY <2>1, <3>1, <3>2, <3>3, <3>4
    <2>2. QED
      BY <2>1 DEF Arrival
  <1>3. call'[r].debt = d
    BY <1>1, <1>2 DEF DeleteDebt
  <1>4. CASE up
    BY <1>2, <1>3, <1>4 DEF DeleteDebt, TypeOK
  <1>5. CASE ~up
    BY <1>2, <1>5 DEF DeleteDebt, Arrives
  <1>6. QED
    BY <1>4, <1>5

\* Only a change under way leaves an old entry in the cache.
LEMMA CacheStep ==
    ASSUME Serial, QuietInv, TypeOK', [Next]_vars
    PROVE  CacheInv'
  <1> DEFINE Current(d) == row[d] = "live" /\ cached[d] = debt[d]
             Entries == \A d \in Debts :
                          cached[d] # NoImage => Current(d) \/ \E q \in Requests : WillEvict(q, d)
             Deleting == \A q \in Requests :
                          (pc[q] = "commit" /\ call[q].op \in Deletes) => cached[call[q].debt] = NoImage
  <1>0. SerialInv /\ DebtInv /\ TypeOK /\ CacheInv
    BY DEF QuietInv, SerialInv, DebtInv
  <1>L. LostSteps \in Nat /\ LostSteps' \in Nat
    BY <1>0, LostCounts DEF TypeOK, LostSteps, Faults
  <1>R. (LostSteps' = 0 => Entries' /\ Deleting') => CacheInv'
    BY DEF CacheInv
  <1>S. LostSteps = 0 => Entries /\ Deleting
    BY <1>0 DEF CacheInv
  <1>1. ASSUME NEW r \in Requests, Arrival(r), LostSteps' = 0 PROVE Entries' /\ Deleting'
    <2>1. /\ \A q \in Requests : ~InFlight(q)
          /\ \A q \in Requests : q # r => pc'[q] = pc[q]
          /\ UNCHANGED <<row, debt>>
      BY <1>0, <1>1, SerialArrival DEF dbVars
    <2>2. PICK c \in Calls, up \in BOOLEAN, s \in Places, x \in Images : ArrivesWith(r, c, up, s, x)
      BY <1>0, <1>1, ArrivalShape
    <2>3. up /\ LostSteps = 0
      <3>1. up => faults' = faults
        BY <2>2 DEF ArrivesWith, Arrives
      <3>2. ~up => Fault("redis")
        BY <2>2 DEF ArrivesWith, Arrives
      <3>3. QED
        BY <1>0, <1>1, <1>L, <3>1, <3>2, LostCounts
    <2>4. \A d \in Debts : cached[d] # NoImage => Current(d)
      BY <1>S, <2>1, <2>3 DEF WillEvict, InFlight
    <2>5. \A d \in Debts : cached'[d] = cached[d] \/ cached'[d] = NoImage
      BY <1>0, <1>1 DEF Arrival, CreateDebt, RegisterPayment, UpdateDebt, DeleteDebt, GetDebt,
                        redisVars, TypeOK
    <2>6. Entries'
      BY <2>1, <2>4, <2>5
    <2>7. (pc'[r] = "commit" /\ call'[r].op \in Deletes) => cached'[call'[r].debt] = NoImage
      BY <1>0, <1>1, <1>L, ArrivalEvicts, LostCounts
    <2>8. QED
      BY <2>1, <2>6, <2>7 DEF InFlight
  <1>2. ASSUME NEW r \in Requests, FindDebt(r), LostSteps' = 0 PROVE Entries' /\ Deleting'
    <2>1. /\ pc[r] = "find" /\ UNCHANGED <<row, debt, cached, call, faults>>
          /\ \E s \in {"fill", "commit"} : \E x : Goto(r, s, x)
      BY <1>2 DEF FindDebt, dbVars, redisVars
    <2>2. LostSteps = 0
      BY <1>0, <1>2, <2>1, LostCounts
    <2>3. \A q \in Requests : q # r => pc'[q] = pc[q]
      BY <1>0, <2>1, GotoEffect
    <2>4. call[r].op \notin Deletes
      BY <1>0, <2>1 DEF DebtInv, CallInv, Deletes
    <2>5. \A q \in Requests, d \in Debts : WillEvict(q, d) => WillEvict(q, d)'
      BY <2>1, <2>3 DEF WillEvict
    <2>6. Entries'
      BY <1>S, <2>1, <2>2, <2>5
    <2>7. Deleting'
      BY <1>S, <2>1, <2>2, <2>3, <2>4
    <2>8. QED
      BY <2>6, <2>7
  <1>3. ASSUME NEW r \in Requests, LostSteps' = 0,
               CommitCreate(r) \/ CommitPayment(r) \/ CommitUpdate(r) \/ CommitDelete(r)
        PROVE  Entries' /\ Deleting'
    <2> DEFINE d == call[r].debt
    <2>1. PICK op \in {"create", "pay", "update", "delete", "deleteOther"} : Commits(r, op)
      BY <1>3, CommitOp
    <2>2. /\ pc[r] = "commit" /\ call[r].op = op /\ d \in Debts
          /\ UNCHANGED <<cached, call, faults>>
          /\ pc'[r] \in {"store", "evict", "done"}
      BY <1>0, <2>1, CommitShape
    <2>3. \A q \in Requests : q # r => pc'[q] = pc[q] /\ pc[q] \in {"idle", "done"}
      BY <1>0, <1>3, StepMoves DEF Step
    <2>4. LostSteps = 0
      BY <1>0, <1>3, <2>2, LostCounts
    <2>5. \A e \in Debts : cached[e] # NoImage => Current(e)
      BY <1>S, <2>2, <2>3, <2>4 DEF WillEvict
    <2>6. Deleting'
      BY <2>2, <2>3
    <2>7. \A e \in Debts : e # d => row'[e] = row[e] /\ debt'[e] = debt[e]
      BY <1>0, <1>3, <2>2 DEF CommitCreate, CommitPayment, CommitUpdate, CommitDelete, WriteBack, TypeOK
    <2>8. cached[d] = NoImage \/ WillEvict(r, d)'
      <3>1. CASE op = "create"
        BY <1>0, <2>2, <2>5, <3>1 DEF DebtInv, CreatorInv
      <3>2. CASE op \in {"delete", "deleteOther"}
        BY <1>S, <2>2, <2>4, <3>2 DEF Deletes
      <3>3. CASE op \in {"pay", "update"}
        <4>1. pc'[r] = AfterCommit(call[r])
          BY <1>0, <2>1, GotoEffect DEF Commits
        <4>2. AfterCommit(call[r]) \in {"store", "evict"}
          BY <2>2, <3>3 DEF AfterCommit
        <4>3. QED
          BY <2>2, <3>3, <4>1, <4>2 DEF WillEvict
      <3>4. QED
        BY <3>1, <3>2, <3>3
    <2>9. ASSUME NEW e \in Debts, cached'[e] # NoImage
          PROVE  Current(e)' \/ \E q \in Requests : WillEvict(q, e)'
      <3>1. CASE e = d
        BY <2>2, <2>8, <2>9, <3>1 DEF WillEvict
      <3>2. CASE e # d
        BY <2>2, <2>5, <2>7, <2>9, <3>2
      <3>3. QED
        BY <3>1, <3>2
    <2>10. QED
      BY <2>6, <2>9
  <1>4. ASSUME NEW r \in Requests, Quiet(r), LostSteps' = 0 PROVE Entries' /\ Deleting'
    <2>1. UNCHANGED <<row, debt>> /\ pc'[r] \in {"done", "evict"}
      BY <1>0, <1>4, QuietMoves DEF dbVars
    <2>2. /\ InFlight(r) /\ call' = call
          /\ \A q \in Requests : q # r => pc'[q] = pc[q] /\ pc[q] \in {"idle", "done"}
      BY <1>0, <1>4, StepMoves DEF Step, Quiet
    <2>3. Deleting'
      BY <2>1, <2>2
    <2>4. /\ Refused(r) \/ DatabaseFails(r) \/ StoreKey(r) \/ EvictCache(r) \/ FillCache(r)
          /\ LostSteps = 0
      <3>1. ~Fault("redis") /\ ~Fault("abandon")
        BY <1>0, <1>4, <1>L, LostCounts
      <3>2. Refused(r) \/ DatabaseFails(r) \/ StoreKey(r) \/ EvictCache(r) \/ FillCache(r)
        BY <1>4, <3>1 DEF Quiet, RedisFails, Abandon
      <3>3. faults' = faults \/ Fault("db")
        BY <3>2 DEF Refused, DatabaseFails, StoreKey, EvictCache, FillCache
      <3>4. QED
        BY <1>0, <1>4, <3>2, <3>3, LostCounts
    <2>5. \A d \in Debts : cached[d] # NoImage => Current(d) \/ WillEvict(r, d)
      BY <1>S, <2>2, <2>4 DEF WillEvict
    <2>6. CASE Refused(r) \/ DatabaseFails(r)
      <3>1. cached' = cached /\ pc[r] \in {"find", "commit"}
        BY <2>6 DEF Refused, DatabaseFails, redisVars
      <3>2. QED
        BY <2>1, <2>3, <2>5, <3>1 DEF WillEvict
    <2>7. CASE StoreKey(r)
      <3>1. cached' = cached /\ pc'[r] = AfterStore(call[r])
        BY <1>0, <2>7, GotoEffect DEF StoreKey
      <3>2. \A d \in Debts : WillEvict(r, d) => WillEvict(r, d)'
        BY <2>2, <3>1 DEF WillEvict, AfterStore
      <3>3. Entries'
        BY <2>1, <2>5, <3>1, <3>2
      <3>4. QED
        BY <2>3, <3>3
    <2>8. CASE EvictCache(r)
      <3>1. cached' = [cached EXCEPT ![call[r].debt] = NoImage]
        BY <2>8 DEF EvictCache
      <3>2. \A d \in Debts : cached'[d] # NoImage => cached'[d] = cached[d] /\ d # call[r].debt
        BY <1>0, <3>1 DEF TypeOK
      <3>3. Entries'
        BY <2>1, <2>5, <3>2 DEF WillEvict
      <3>4. QED
        BY <2>3, <3>3
    <2>9. CASE FillCache(r)
      <3>1. pc[r] = "fill" /\ cached' = [cached EXCEPT ![call[r].debt] = copy[r]]
        BY <2>9 DEF FillCache
      <3>2. row[call[r].debt] = "live" /\ copy[r] = debt[call[r].debt]
        BY <3>1 DEF QuietInv, RowCopyInv
      <3>3. \A d \in Debts : cached[d] # NoImage => Current(d)
        BY <2>5, <3>1 DEF WillEvict
      <3>4. \A d \in Debts : cached'[d] # NoImage => Current(d)'
        BY <1>0, <2>1, <3>1, <3>2, <3>3 DEF TypeOK
      <3>5. QED
        BY <2>3, <3>4
    <2>10. QED
      BY <2>4, <2>6, <2>7, <2>8, <2>9
  <1>5. ASSUME NEW d \in Debts, ExpireCache(d), LostSteps' = 0 PROVE Entries' /\ Deleting'
    <2>1. /\ cached' = [cached EXCEPT ![d] = NoImage]
          /\ UNCHANGED <<row, debt, pc, call, faults>>
      BY <1>5 DEF ExpireCache, dbVars
    <2>2. LostSteps = 0
      BY <1>0, <1>5, <2>1, LostCounts
    <2>3. \A e \in Debts : cached'[e] = NoImage \/ cached'[e] = cached[e]
      BY <1>0, <2>1 DEF TypeOK
    <2>4. Entries'
      BY <1>S, <2>1, <2>2, <2>3 DEF WillEvict
    <2>5. \A q \in Requests : pc[q] = "commit" => call[q].debt \in Debts
      BY <1>0 DEF DebtInv, CallInv, InFlight
    <2>6. Deleting'
      BY <1>S, <2>1, <2>2, <2>3, <2>5
    <2>7. QED
      BY <2>4, <2>6
  <1>6. ASSUME UNCHANGED vars PROVE CacheInv'
    BY <1>0, <1>6 DEF CacheInv, LostSteps, WillEvict, vars
  <1>7. QED
    BY <1>1, <1>2, <1>3, <1>4, <1>5, <1>6, <1>R DEF Next, Step, Quiet

LEMMA QuietInvInit == Init => QuietInv
  <1> SUFFICES ASSUME Init PROVE QuietInv
    OBVIOUS
  <1>1. SerialInv
    BY SerialInvInit
  <1>2. RowCopyInv
    BY DEF Init, RowCopyInv, DeletedIsLast
  <1>3. KeyInv
    <2>1. LostSteps = 0
      BY DEF Init, LostSteps, Faults
    <2>2. QED
      BY <2>1 DEF Init, KeyInv
  <1>4. CacheInv
    BY DEF Init, CacheInv
  <1>5. QED
    BY <1>1, <1>2, <1>3, <1>4 DEF QuietInv

LEMMA QuietInvStep ==
    ASSUME Serial, QuietInv, [Next]_vars
    PROVE  QuietInv'
  <1>1. SerialInv'
    BY SerialStep DEF QuietInv
  <1>2. TypeOK'
    BY <1>1 DEF SerialInv, DebtInv
  <1>3. QED
    BY <1>1, <1>2, RowCopyStep, KeyStep, CacheStep DEF QuietInv

\* QuietInv holds in every reachable state of a serial execution.
THEOREM QuietInvAlways ==
    ASSUME Serial
    PROVE  Spec => []QuietInv
  <1>1. Init => QuietInv
    BY QuietInvInit
  <1>2. QuietInv /\ [Next]_vars => QuietInv'
    BY QuietInvStep
  <1>3. QED
    BY <1>1, <1>2, PTL DEF Spec

\* When requests do not overlap, the handlers commit once per Idempotency-Key, plus
\* at most once per Redis error and per request that died before its Store.
THEOREM KeyCommitsOnce ==
    ASSUME Serial
    PROVE  Spec => []AtMostOncePerKey
  <1>1. ASSUME SerialInv, KeyInv PROVE AtMostOncePerKey
    <2>1. faults["redis"] \in Nat /\ faults["abandon"] \in Nat /\ commits \in [Keys -> Nat]
      BY <1>1 DEF SerialInv, DebtInv, TypeOK, Faults
    <2>2. QED
      BY <1>1, <2>1 DEF KeyInv, LostSteps, AtMostOncePerKey
  <1>2. QuietInv => AtMostOncePerKey
    BY <1>1 DEF QuietInv
  <1>3. QED
    BY <1>2, QuietInvAlways, PTL

\* When requests do not overlap and Redis lost nothing, GetDebt finds in the cache
\* only the columns of a live row.
THEOREM CacheTellsRow ==
    ASSUME Serial
    PROVE  Spec => []CacheCoherent
  <1>1. QuietInv => CacheCoherent
    BY DEF QuietInv, CacheInv, CacheCoherent, LostSteps, WillEvict, InFlight
  <1>2. QED
    BY <1>1, QuietInvAlways, PTL

\* When requests do not overlap, no handler writes an event of a deleted debt after
\* its DebtDeleted.
THEOREM DeletionClosesStream ==
    ASSUME Serial
    PROVE  Spec => []DeletedIsLast
  <1>1. QuietInv => DeletedIsLast
    BY DEF QuietInv, RowCopyInv
  <1>2. QED
    BY <1>1, QuietInvAlways, PTL

\* TransitionStatus and ApplyPayment leave a debt that is paid off as it is.
LEMMA PaidOffRefuses ==
    ASSUME NEW c, NEW x \in Images, c.op \in {"pay", "update"}, Accepts(c, x),
           x.status = "paid_off"
    PROVE  Changed(c, x).status = "paid_off"
  <1>1. c.op = "update" /\ CanUpdate(x, c.amount, c.status)
    BY DEF Accepts, CanPay
  <1>2. Allowed(x.status) = {}
    BY DEF Allowed
  <1>3. c.status = Keep
    BY <1>1, <1>2 DEF CanUpdate
  <1>4. Changed(c, x) = ApplyUpdate(x, c.amount, c.status)
    BY <1>1 DEF Changed
  <1>5. QED
    BY <1>3, <1>4 DEF ApplyUpdate, Images

LEMMA PaidOffStep ==
    ASSUME QuietInv, [Next]_vars, NEW d \in Debts, debt[d].status = "paid_off"
    PROVE  debt'[d].status = "paid_off"
  <1>0. SerialInv /\ DebtInv /\ TypeOK /\ RowCopyInv
    BY DEF QuietInv, SerialInv, DebtInv
  <1>1. ASSUME NEW r \in Requests, CommitCreate(r) PROVE debt'[d].status = "paid_off"
    <2>1. pc[r] = "commit" /\ call[r].op = "create" /\ debt' = [debt EXCEPT ![call[r].debt] = copy[r]]
      BY <1>1 DEF CommitCreate, Commits
    <2>2. row[call[r].debt] = "absent"
      BY <1>0, <2>1 DEF DebtInv, CreatorInv
    <2>3. d # call[r].debt
      BY <1>0, <2>2 DEF RowCopyInv, NoImage
    <2>4. QED
      BY <1>0, <2>1, <2>3 DEF TypeOK
  <1>2. ASSUME NEW r \in Requests, CommitPayment(r) \/ CommitUpdate(r)
        PROVE  debt'[d].status = "paid_off"
    <2>1. /\ pc[r] = "commit" /\ call[r].op \in {"pay", "update"}
          /\ WriteBack(call[r].debt, copy[r])
      BY <1>2 DEF CommitPayment, CommitUpdate, Commits
    <2>2. /\ Accepts(call[r], debt[call[r].debt])
          /\ copy[r] = Changed(call[r], debt[call[r].debt])
      BY <1>0, <2>1 DEF RowCopyInv
    <2>3. d = call[r].debt => copy[r].status = "paid_off"
      BY <1>0, <2>1, <2>2, PaidOffRefuses DEF TypeOK
    <2>4. QED
      BY <1>0, <2>1, <2>3 DEF WriteBack, TypeOK
  <1>3. ASSUME debt' = debt PROVE debt'[d].status = "paid_off"
    BY <1>3
  <1>4. ASSUME NEW r \in Requests, Arrival(r) PROVE debt' = debt
    BY <1>4 DEF Arrival, CreateDebt, RegisterPayment, UpdateDebt, DeleteDebt, GetDebt, dbVars
  <1>5. ASSUME NEW r \in Requests, Quiet(r) \/ FindDebt(r) \/ CommitDelete(r) PROVE debt' = debt
    BY <1>0, <1>5, QuietMoves DEF FindDebt, CommitDelete, dbVars
  <1>6. ASSUME UNCHANGED vars \/ \E e \in Debts : ExpireCache(e) PROVE debt' = debt
    BY <1>6 DEF vars, ExpireCache, dbVars
  <1>7. QED
    BY <1>1, <1>2, <1>3, <1>4, <1>5, <1>6 DEF Next, Step, Quiet

\* When requests do not overlap, no operation takes a debt out of paid_off.
THEOREM PaidOffStays ==
    ASSUME Serial
    PROVE  Spec => PaidOffIsTerminal
  <1>1. QuietInv /\ [Next]_vars
        => [\A d \in Debts : debt[d].status = "paid_off" => debt'[d].status = "paid_off"]_vars
    BY PaidOffStep
  <1>2. QED
    BY <1>1, QuietInvAlways, PTL DEF Spec, PaidOffIsTerminal
==============================================================================
