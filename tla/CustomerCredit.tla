--------------------------- MODULE CustomerCredit ---------------------------
(***************************************************************************)
(* What customers hold: gift cards, coupons and loyalty points             *)
(* (modules/customer).  Each method runs as one transaction of a terminal, *)
(* except applyCoupon, which validates in a transaction and attaches the   *)
(* coupon after it.                                                        *)
(*                                                                         *)
(* A statement reads what is committed; a transaction's writes become      *)
(* visible at its commit.  Only gift_cards is written before the last      *)
(* statement of a transaction, so it is the one row whose lock is          *)
(* modelled: a terminal at "settle" has updated its card and holds it.     *)
(*                                                                         *)
(* Data: money is integral.  gift_card_transactions are kept as the number *)
(* of REDEMPTION rows of a card and an order (spent) and their total per   *)
(* card (redeemed); the rows are never updated.  No code sets expires_at   *)
(* or BLOCKED.  What validateCoupon derives from the items, the prices and *)
(* the dates is the constant Fits; what accruePointsForOrder derives from  *)
(* the total and the tier is the constant Points.                          *)
(***************************************************************************)
EXTENDS Integers, Sequences, FiniteSets

CONSTANTS
  Cards,        \* codes of gift cards
  Coupons, Customers, Orders, Terminals,
  None,
  Values,       \* values of new cards
  Amounts,      \* amounts asked for (the router checks only that there is one)
  CustomerOf,   \* CustomerOf[o]: the customer of order o, or None
  Points,       \* Points[o]: floor(floor(total) * multiplier of the tier)
  Fits,         \* Fits[k]: orders whose items and total satisfy coupon k
  Stackable,    \* coupons that may join another one
  Limit,        \* Limit[k]: maxUses
  PerCustomer,  \* PerCustomer[k]: maxUsesPerCustomer
  MaxCalls      \* bound: calls of all terminals

ASSUME CreditAssumption ==
  /\ Values \subseteq Nat /\ Amounts \subseteq Int
  /\ CustomerOf \in [Orders -> Customers \cup {None}]
  /\ Points \in [Orders -> Nat] /\ MaxCalls \in Nat
  /\ None \notin Cards \cup Coupons \cup Customers \cup Orders

VARIABLES
  card,      \* gift_cards: status, customer, initial_value and current_balance
  spent,     \* number of REDEMPTION rows of a card and an order
  redeemed,  \* total of the REDEMPTION rows of a card
  order,     \* orders: status, coupon_id, and whether an invoice exists
  uses,      \* coupons.current_uses
  usage,     \* coupon_customer_usages of a coupon: their orders and customers
  earned,    \* number of EARNED loyalty_ledgers of an order
  pc, tx,    \* each terminal: next statement and local variables
  calls,     \* calls so far (for the bound)
  raced      \* kinds of calls, and the card or order about which two of them overlapped

rows == <<card, spent, redeemed, order, uses, usage, earned>>
vars == <<card, spent, redeemed, order, uses, usage, earned, pc, tx, calls, raced>>

NoTx == [kind |-> "none",                    \* "card", "coupon", "use" or "points"
         card |-> None, order |-> None, coupon |-> None, customer |-> None,
         read |-> 0,                         \* balance or current_uses read
         ask |-> 0]                          \* amount asked for

Init ==
  /\ card = [c \in Cards |-> [status |-> "ABSENT", owner |-> None, initial |-> 0, balance |-> 0]]
  /\ spent = [c \in Cards |-> [o \in Orders |-> 0]]
  /\ redeemed = [c \in Cards |-> 0]
  /\ order = [o \in Orders |-> [status |-> "OPEN", coupon |-> None, invoiced |-> FALSE]]
  /\ uses = [k \in Coupons |-> 0]
  /\ usage = [k \in Coupons |-> <<>>]
  /\ earned = [o \in Orders |-> 0]
  /\ pc = [t \in Terminals |-> "off"]
  /\ tx = [t \in Terminals |-> NoTx]
  /\ calls = 0
  /\ raced = {}

Goto(t, from, to) == pc[t] = from /\ pc' = [pc EXCEPT ![t] = to]
Leave(t) == pc' = [pc EXCEPT ![t] = "off"] /\ tx' = [tx EXCEPT ![t] = NoTx]
Commit(t, from) == pc[t] = from /\ Leave(t)

CardLocked(t, c) == \E u \in Terminals \ {t} : pc[u] = "settle" /\ tx[u].card = c

\* A call is about its card, or about its order.
Subject(x) == IF x.kind = "card" THEN x.card ELSE x.order
Enter(t, to, x) ==
  /\ Goto(t, "off", to)
  /\ calls < MaxCalls /\ calls' = calls + 1
  /\ tx' = [tx EXCEPT ![t] = x]
  /\ raced' = IF \E u \in Terminals \ {t} : tx[u].kind = x.kind /\ Subject(tx[u]) = Subject(x)
                THEN raced \cup {<<x.kind, Subject(x)>>} ELSE raced

-----------------------------------------------------------------------------
(* Faulty variants of definitions below, for the mutants of the runs. *)

SettleUninvoiced(t) ==  \* the balance is written before the invoice is looked for, outside the transaction
  /\ Commit(t, "settle")
  /\ LET c == tx[t].card  o == tx[t].order  left == tx[t].read - tx[t].ask IN
     /\ card' = [card EXCEPT ![c].balance = left, ![c].status = IF left = 0 THEN "DEPLETED" ELSE @]
     /\ spent' = IF order[o].invoiced THEN [spent EXCEPT ![c][o] = @ + 1] ELSE spent
     /\ redeemed' = IF order[o].invoiced THEN [redeemed EXCEPT ![c] = @ + tx[t].ask] ELSE redeemed
     /\ UNCHANGED <<order, uses, usage, earned, calls, raced>>

FindAnyRedemption(t) ==  \* no look-up of earlier redemptions
  LET amount == IF tx[t].ask < tx[t].read THEN tx[t].ask ELSE tx[t].read IN
  /\ Goto(t, "find", "take")
  /\ amount > 0
  /\ tx' = [tx EXCEPT ![t].ask = amount]
  /\ UNCHANGED <<rows, calls, raced>>

FindUnclamped(t) ==  \* the amount asked for is not limited to the balance
  /\ Goto(t, "find", "take")
  /\ spent[tx[t].card][tx[t].order] = 0
  /\ tx[t].ask > 0
  /\ UNCHANGED <<rows, tx, calls, raced>>

CheckItemsOnly(t) ==  \* a coupon that is attached already is not looked at
  LET k == tx[t].coupon  o == tx[t].order IN
  /\ Goto(t, "check", "attach")
  /\ o \in Fits[k]
  /\ UNCHANGED <<rows, tx, calls, raced>>

CountUseAbsolute(t) ==  \* writes back the number it read
  LET k == tx[t].coupon  o == tx[t].order IN
  /\ Commit(t, "count")
  /\ uses' = [uses EXCEPT ![k] = tx[t].read + 1]
  /\ usage' = IF tx[t].customer # None
                THEN [usage EXCEPT ![k] = Append(@, [order |-> o, customer |-> tx[t].customer])]
                ELSE usage
  /\ UNCHANGED <<card, spent, redeemed, order, earned, calls, raced>>

FindNoEarned(t) ==  \* the look-up of the EARNED entry is gone
  /\ Goto(t, "earned", "earn")
  /\ Points[tx[t].order] > 0
  /\ UNCHANGED <<rows, tx, calls, raced>>

-----------------------------------------------------------------------------
(* Gift cards. *)

\* activateGiftCard.  Two activations of one code both find none; the unique
\* index of (tenant, code) lets one of them insert.
ActivateGiftCard(c, value, owner) ==
  /\ card[c].status = "ABSENT"
  /\ card' = [card EXCEPT ![c] =
       [status |-> "ACTIVE", owner |-> owner, initial |-> value, balance |-> value]]
  /\ UNCHANGED <<spent, redeemed, order, uses, usage, earned, pc, tx, calls, raced>>

\* redeemGiftCard: read the card.
ReadCard(t) ==
  \E c \in Cards, o \in Orders, amount \in Amounts, u \in Customers :
    /\ card[c].status = "ACTIVE"
    /\ card[c].owner \in {None, u}
    /\ Enter(t, "find", [NoTx EXCEPT !.kind = "card", !.card = c, !.order = o,
                                     !.read = card[c].balance, !.ask = amount])
    /\ UNCHANGED rows

\* No earlier redemption on this order: take what the balance allows.
FindRedemption(t) ==
  LET amount == IF tx[t].ask < tx[t].read THEN tx[t].ask ELSE tx[t].read IN
  /\ Goto(t, "find", "take")
  /\ spent[tx[t].card][tx[t].order] = 0
  /\ amount > 0
  /\ tx' = [tx EXCEPT ![t].ask = amount]
  /\ UNCHANGED <<rows, calls, raced>>

\* The update of the card waits for its row lock and keeps it.
TakeFromCard(t) ==
  /\ Goto(t, "take", "settle")
  /\ ~CardLocked(t, tx[t].card)
  /\ UNCHANGED <<rows, tx, calls, raced>>

\* With an invoice, the payment and the REDEMPTION row are inserted and all of
\* it is committed.  The balance is what was read less the amount.
Settle(t) ==
  LET c == tx[t].card  o == tx[t].order  left == tx[t].read - tx[t].ask IN
  /\ Commit(t, "settle")
  /\ order[o].invoiced
  /\ card' = [card EXCEPT ![c].balance = left,
                          ![c].status = IF left = 0 THEN "DEPLETED" ELSE "ACTIVE"]
  /\ spent' = [spent EXCEPT ![c][o] = @ + 1]
  /\ redeemed' = [redeemed EXCEPT ![c] = @ + tx[t].ask]
  /\ UNCHANGED <<order, uses, usage, earned, calls, raced>>

-----------------------------------------------------------------------------
(* Coupons. *)

\* validateCoupon: read the coupon, the customer's usage of it, and the order.
ReadCoupon(t) ==
  \E k \in Coupons, o \in Orders, u \in Customers :
    /\ uses[k] < Limit[k]
    /\ Enter(t, "limit", [NoTx EXCEPT !.kind = "coupon", !.coupon = k, !.order = o, !.customer = u])
    /\ UNCHANGED rows

CheckCustomer(t) ==
  LET k == tx[t].coupon IN
  /\ Goto(t, "limit", "check")
  /\ Cardinality({i \in DOMAIN usage[k] : usage[k][i].customer = tx[t].customer}) < PerCustomer[k]
  /\ UNCHANGED <<rows, tx, calls, raced>>

CheckOrder(t) ==
  LET k == tx[t].coupon  o == tx[t].order IN
  /\ Goto(t, "check", "attach")
  /\ k \in Stackable \/ order[o].coupon \in {None, k}
  /\ o \in Fits[k]
  /\ UNCHANGED <<rows, tx, calls, raced>>

\* applyCoupon: a statement of its own, after the transaction.
AttachCoupon(t) ==
  /\ Commit(t, "attach")
  /\ order' = [order EXCEPT ![tx[t].order].coupon = tx[t].coupon]
  /\ UNCHANGED <<card, spent, redeemed, uses, usage, earned, calls, raced>>

\* redeemCoupon, with or without a customer.
ReadPaidOrder(t) ==
  \E o \in Orders, u \in Customers \cup {None} :
    LET k == order[o].coupon IN
    /\ k # None
    /\ order[o].status = "PAID"
    /\ Enter(t, "usage", [NoTx EXCEPT !.kind = "use", !.coupon = k, !.order = o,
                                      !.customer = u, !.read = uses[k]])
    /\ UNCHANGED rows

FindUsage(t) ==
  /\ Goto(t, "usage", "count")
  /\ \A i \in DOMAIN usage[tx[t].coupon] : usage[tx[t].coupon][i].order # tx[t].order
  /\ UNCHANGED <<rows, tx, calls, raced>>

\* Only a customer leaves a row behind; the increment is relative.
CountUse(t) ==
  LET k == tx[t].coupon  o == tx[t].order IN
  /\ Commit(t, "count")
  /\ uses' = [uses EXCEPT ![k] = @ + 1]
  /\ usage' = IF tx[t].customer # None
                THEN [usage EXCEPT ![k] = Append(@, [order |-> o, customer |-> tx[t].customer])]
                ELSE usage
  /\ UNCHANGED <<card, spent, redeemed, order, earned, calls, raced>>

-----------------------------------------------------------------------------
(* Loyalty points: accruePointsForOrder. *)

ReadOrderToAccrue(t) ==
  \E o \in Orders :
    /\ CustomerOf[o] # None
    /\ order[o].status = "PAID"
    /\ Enter(t, "earned", [NoTx EXCEPT !.kind = "points", !.order = o])
    /\ UNCHANGED rows

FindEarned(t) ==
  /\ Goto(t, "earned", "earn")
  /\ earned[tx[t].order] = 0
  /\ Points[tx[t].order] > 0
  /\ UNCHANGED <<rows, tx, calls, raced>>

Earn(t) ==
  /\ Commit(t, "earn")
  /\ earned' = [earned EXCEPT ![tx[t].order] = @ + 1]
  /\ UNCHANGED <<card, spent, redeemed, order, uses, usage, calls, raced>>

-----------------------------------------------------------------------------
\* Every other way out of a call: an idempotent answer, an error, a lost
\* process.  The transaction is rolled back and its lock is free.
EndWithoutCommit(t) ==
  /\ pc[t] # "off"
  /\ Leave(t)
  /\ UNCHANGED <<rows, calls, raced>>

\* Billing, as far as it is read here (in detail: OrderBilling): the first
\* payment creates the invoice, a later one or the same makes the order PAID.
TakePayment(o) ==
  /\ order[o].status = "OPEN"
  /\ \E s \in {"OPEN", "PAID"} : order' = [order EXCEPT ![o].invoiced = TRUE, ![o].status = s]
  /\ UNCHANGED <<card, spent, redeemed, uses, usage, earned, pc, tx, calls, raced>>

\* A status change ends an order: PAID to CLOSED, or an open one is voided or cancelled.
EndOrder(o) ==
  /\ order[o].status # "ENDED"
  /\ order' = [order EXCEPT ![o].status = "ENDED"]
  /\ UNCHANGED <<card, spent, redeemed, uses, usage, earned, pc, tx, calls, raced>>

CardStep(t) == ReadCard(t) \/ FindRedemption(t) \/ TakeFromCard(t) \/ Settle(t)
CouponStep(t) == \/ ReadCoupon(t) \/ CheckCustomer(t) \/ CheckOrder(t) \/ AttachCoupon(t)
                 \/ ReadPaidOrder(t) \/ FindUsage(t) \/ CountUse(t)
PointsStep(t) == ReadOrderToAccrue(t) \/ FindEarned(t) \/ Earn(t)

Next ==
  \/ \E c \in Cards, v \in Values, u \in Customers \cup {None} : ActivateGiftCard(c, v, u)
  \/ \E t \in Terminals : CardStep(t) \/ CouponStep(t) \/ PointsStep(t) \/ EndWithoutCommit(t)
  \/ \E o \in Orders : TakePayment(o) \/ EndOrder(o)

Spec == Init /\ [][Next]_vars

-----------------------------------------------------------------------------
(* Properties. *)

Kinds == {"card", "coupon", "use", "points"}
Statements == {"off", "find", "take", "settle", "limit", "check", "attach",
               "usage", "count", "earned", "earn"}
Transactions ==
  [kind : Kinds \cup {"none"}, card : Cards \cup {None}, order : Orders \cup {None},
   coupon : Coupons \cup {None}, customer : Customers \cup {None}, read : Nat, ask : Int]
CardRows == [status : {"ABSENT", "ACTIVE", "DEPLETED"}, owner : Customers \cup {None},
             initial : Nat, balance : Nat]
OrderRows == [status : {"OPEN", "PAID", "ENDED"}, coupon : Coupons \cup {None}, invoiced : BOOLEAN]
Usages == [order : Orders, customer : Customers]

\* Every table and every local variable stays in its range: a balance between
\* nothing and the card's value, and a card is DEPLETED only when it is empty.
TypeOK ==
  /\ card \in [Cards -> CardRows]
  /\ \A c \in Cards : /\ card[c].balance <= card[c].initial
                      /\ card[c].status = "DEPLETED" => card[c].balance = 0
                      /\ card[c].status = "ABSENT" => card[c].initial = 0
  /\ spent \in [Cards -> [Orders -> Nat]]
  /\ redeemed \in [Cards -> Nat]
  /\ order \in [Orders -> OrderRows]
  /\ uses \in [Coupons -> Nat]
  /\ usage \in [Coupons -> Seq(Usages)]
  /\ earned \in [Orders -> Nat]
  /\ pc \in [Terminals -> Statements]
  /\ tx \in [Terminals -> Transactions]
  /\ calls \in 0..MaxCalls
  /\ raced \subseteq Kinds \X (Cards \cup Orders)

\* However redemptions of a card overlap, fail or are rolled back, its holder
\* loses no value that no REDEMPTION row accounts for (redeemGiftCard): an
\* overwritten balance errs in the holder's favour.
HolderNeverLoses == \A c \in Cards : card[c].balance + redeemed[c] >= card[c].initial

\* While no two redemptions of a card overlapped, its balance and its
\* redemptions make up its value, and an order has redeemed it at most once
\* (the idempotent return of redeemGiftCard).
CardExactWhenAlone ==
  \A c \in Cards : <<"card", c>> \notin raced =>
    /\ card[c].balance + redeemed[c] = card[c].initial
    /\ \A o \in Orders : spent[c][o] <= 1

\* The use count of a coupon never falls behind its recorded uses, although
\* redeemCoupon runs without a lock: no increment is lost.
NoUseLost == \A k \in Coupons : uses[k] >= Len(usage[k])

\* While no two calls overlapped on an order, its points are accrued once and
\* its coupon leaves one usage row (the idempotent returns of
\* accruePointsForOrder and redeemCoupon).
RewardedOnceWhenAlone ==
  \A o \in Orders :
    /\ <<"points", o>> \notin raced => earned[o] <= 1
    /\ <<"use", o>> \notin raced =>
         \A k \in Coupons : \A i, j \in DOMAIN usage[k] :
           usage[k][i].order = o /\ usage[k][j].order = o => i = j

\* applyCoupon attaches after the transaction that checked: still, a coupon
\* that may not be joined never displaces another one, unless two calls to
\* apply a coupon overlapped on the order.
NeverDisplaced ==
  [][\A o \in Orders : <<"coupon", o>> \notin raced /\ order'[o].coupon # order[o].coupon =>
       order[o].coupon = None \/ order'[o].coupon \in Stackable]_vars

-----------------------------------------------------------------------------
(* The inductive invariant of CustomerCreditProofs. *)

CardCall(t) == pc[t] \in {"find", "take", "settle"}
CouponCall(t) == pc[t] \in {"limit", "check", "attach"}
UseCall(t) == pc[t] \in {"usage", "count"}
PointsCall(t) == pc[t] \in {"earned", "earn"}

\* A call's position says what it is about, and what it has read is still a
\* value the card can have had.
CallIsAbout(t) ==
  /\ pc[t] = "off" => tx[t].kind = "none"
  /\ CardCall(t) =>
       /\ tx[t].kind = "card" /\ tx[t].card \in Cards /\ tx[t].order \in Orders
       /\ card[tx[t].card].status # "ABSENT"
       /\ tx[t].read <= card[tx[t].card].initial
       /\ tx[t].read + redeemed[tx[t].card] >= card[tx[t].card].initial
  /\ pc[t] \in {"take", "settle"} => tx[t].ask > 0 /\ tx[t].ask <= tx[t].read
  /\ CouponCall(t) => tx[t].kind = "coupon" /\ tx[t].coupon \in Coupons /\ tx[t].order \in Orders
  /\ UseCall(t) => tx[t].kind = "use" /\ tx[t].coupon \in Coupons /\ tx[t].order \in Orders
  /\ PointsCall(t) => tx[t].kind = "points" /\ tx[t].order \in Orders

UntouchedCards == \A c \in Cards : card[c].status = "ABSENT" => redeemed[c] = 0

\* Two calls of a kind about one card or order are known to have overlapped.
Noted(t, u) ==
  tx[t].kind # "none" /\ tx[t].kind = tx[u].kind /\ Subject(tx[t]) = Subject(tx[u])
    => <<tx[t].kind, Subject(tx[t])>> \in raced

\* What a call that was never overlapped has read is still so.
ReadHolds(t) ==
  <<tx[t].kind, Subject(tx[t])>> \notin raced =>
    /\ CardCall(t) => tx[t].read = card[tx[t].card].balance
    /\ pc[t] \in {"take", "settle"} => spent[tx[t].card][tx[t].order] = 0
    /\ pc[t] = "count" => \A i \in DOMAIN usage[tx[t].coupon] :
                            usage[tx[t].coupon][i].order # tx[t].order
    /\ pc[t] = "earn" => earned[tx[t].order] = 0

IndInv ==
  /\ TypeOK /\ UntouchedCards
  /\ \A t \in Terminals : CallIsAbout(t) /\ ReadHolds(t)
  /\ \A t, u \in Terminals : t # u => Noted(t, u)
  /\ HolderNeverLoses /\ CardExactWhenAlone /\ NoUseLost /\ RewardedOnceWhenAlone

\* What applyCoupon found of the order is still so when it attaches, unless another
\* call to apply a coupon overlapped: nobody else writes orders.coupon_id.
JoinHolds(t) ==
  pc[t] = "attach" /\ <<"coupon", tx[t].order>> \notin raced =>
    tx[t].coupon \in Stackable \/ order[tx[t].order].coupon \in {None, tx[t].coupon}
JoinInv == \A t \in Terminals : JoinHolds(t)
=============================================================================
