---------------------------- MODULE OrderBilling ----------------------------
(***************************************************************************)
(* Orders, invoices and payments of one tenant, as the API server's        *)
(* OrderService and PaymentService write them to PostgreSQL.               *)
(*                                                                         *)
(* A request is one call of updateOrderStatus, addItemToOrder,             *)
(* processPayment or redeemGiftCard, which inserts payments as well.       *)
(* Requests interleave at every awaited statement.  A                      *)
(* statement reads what is committed (READ COMMITTED, the default: no      *)
(* call sets an isolation level); what a transaction writes becomes        *)
(* visible at its commit, and a row it has updated stays locked until      *)
(* then.  The locks are therefore functions of the program counters.       *)
(*                                                                         *)
(* Data: an order's subtotal, tax and total are always written together    *)
(* and are one amount, `total`; the rows of order_items are their sum,     *)
(* `items`; the CAPTURED payments of an invoice are two sums, `paid` by    *)
(* processPayment and `gifted` by redeemGiftCard; an invoice is named by   *)
(* the request that inserts it.  Amounts are integral, but the program     *)
(* adds floats: several payments that make up a total exactly may add up   *)
(* to less than it in the program (0.7 + 0.1 < 0.8), so both outcomes of   *)
(* that comparison are possible.                                           *)
(***************************************************************************)
EXTENDS Integers, FiniteSets, Functions, OrderLifecycle

CONSTANTS
  Orders,        \* primary keys of orders
  None,          \* no such row
  Requests,      \* calls of the services, one use each
  Keys,          \* idempotency keys of payments
  Prices,        \* amounts an item adds to an order
  Tenders,       \* amounts a guest pays at once (less than half a cent is stored as 0)
  GiftAmounts,   \* amounts a gift card pays
  SentStatuses,  \* statuses that clients ask for
  MaxInFlight    \* bound: requests that overlap (1: a single serial terminal)

ASSUME OrdersAssumption == None \notin Orders
ASSUME AmountsAssumption == Prices \cup Tenders \cup GiftAmounts \subseteq Nat
ASSUME StatusAssumption == SentStatuses \subseteq OrderStatus
ASSUME BoundAssumption == MaxInFlight \in Nat \ {0}
ASSUME RequestsAssumption == IsFiniteSet(Requests)

VARIABLES
  order,     \* table orders (and the sum of order_items of each order)
  invoice,   \* table invoices (and the sum of payments of each invoice)
  captured,  \* how many payments carry each idempotency key
  accounts,  \* types of the ledger accounts that exist
  revenue,   \* CREDIT entries on the revenue account = DEBIT entries on the asset account
  pc,        \* the statement each request executes next, or its outcome
  rq,        \* each request's inputs and local variables
  raced      \* history: orders about which two calls overlapped, with the kinds of the two

tables == <<order, invoice, captured, accounts, revenue>>
vars == <<order, invoice, captured, accounts, revenue, pc, rq, raced>>

InvoiceStatus == {"ISSUED", "PARTIALLY_PAID", "PAID"}
BaselineAccounts == {"ASSET", "REVENUE"}

NoRow == [status |-> "ABSENT", version |-> 0, total |-> 0, items |-> 0]
NoInvoice == [order |-> None, status |-> "ABSENT", total |-> 0, paid |-> 0, gifted |-> 0]

Exists(o) == order[o].status # "ABSENT"
InvoicesOf(o) == {i \in Requests : invoice[i].order = o}

(* Outcomes: "ok" wrote the order row, "part" captured a partial payment,
   "gift" one by a gift card, "failed" wrote nothing. *)
Answered == {"ok", "part", "gift", "failed"}
StatusPC == {"status_read", "status_write"}
ItemPC == {"item_read", "item_write"}
PayPC == {"pay_read", "pay_invoice", "pay_capture", "pay_settle", "pay_order", "pay_accounts",
          "pay_commit"}
BusyPC == StatusPC \cup ItemPC \cup PayPC

InFlight == {r \in Requests : pc[r] \in BusyPC}

-----------------------------------------------------------------------------
(* Row locks held between an UPDATE and the end of its transaction. *)

BillTotal(r) == IF rq[r].bill = r THEN rq[r].seen.total ELSE invoice[rq[r].bill].total
PaidBefore(r) ==
  IF rq[r].bill = r THEN 0 ELSE invoice[rq[r].bill].paid + invoice[rq[r].bill].gifted

(* isFullyPaid, kept as the status that the invoice is about to get. *)
FullyPaid(r) == rq[r].verdict = "PAID"

OrderLocked(o) ==
  \E q \in Requests : /\ pc[q] \in {"pay_accounts", "pay_commit"}
                      /\ rq[q].order = o
                      /\ FullyPaid(q)

(* Fault: the invoice is locked when it is found, so that two payments can share it. *)
InvoiceLockedEarly(i) ==
  \E q \in Requests : /\ pc[q] \in {"pay_capture", "pay_settle", "pay_order", "pay_accounts", "pay_commit"}
                      /\ rq[q].bill = i
InvoiceLocked(i) ==
  \E q \in Requests : pc[q] \in {"pay_order", "pay_accounts", "pay_commit"} /\ rq[q].bill = i
KeyReserved(k) ==
  \E q \in Requests : /\ pc[q] \in {"pay_settle", "pay_order", "pay_accounts", "pay_commit"}
                      /\ rq[q].key = k

-----------------------------------------------------------------------------
Idle == [order |-> None, to |-> "ABSENT", version |-> 0, amount |-> 0, key |-> None,
         seen |-> NoRow, bill |-> None, sum |-> 0, verdict |-> "ABSENT", seeds |-> {}]

Init ==
  /\ order = [o \in Orders |-> NoRow]
  /\ invoice = [r \in Requests |-> NoInvoice]
  /\ captured = [k \in Keys |-> 0]
  /\ accounts \in SUBSET BaselineAccounts
  /\ revenue = 0
  /\ pc = [r \in Requests |-> "idle"]
  /\ rq = [r \in Requests |-> Idle]
  /\ raced = {}

Move(r, from, to) == pc[r] = from /\ pc' = [pc EXCEPT ![r] = to]

(* A call ends: its locals go, the order it was about is remembered. *)
Forget(r) == rq' = [rq EXCEPT ![r] = [Idle EXCEPT !.order = rq[r].order]]
Fail(r, from) == Move(r, from, "failed") /\ Forget(r)

Kind(at) == IF at \in PayPC THEN "pay" ELSE IF at \in ItemPC THEN "item" ELSE "status"

(* Which overlaps begin when a call of a kind about an order is sent. *)
Met(o) == {Kind(pc[q]) : q \in {p \in InFlight : rq[p].order = o}}
Overlaps(o, kind) ==
  {<<o, kind, other>> : other \in Met(o)} \cup {<<o, other, kind>> : other \in Met(o)}

(* A client sends a request. *)
Send(r, to, inputs) ==
  /\ Cardinality(InFlight) < MaxInFlight
  /\ Move(r, "idle", to)
  /\ rq' = [rq EXCEPT ![r] = inputs]
  /\ raced' = raced \cup Overlaps(inputs.order, Kind(to))
  /\ UNCHANGED tables

-----------------------------------------------------------------------------
(* Faulty variants of actions below: what each property must notice. *)

StatusUnchecked(r, row) == row.version = rq[r].version

StatusWriteAbsolute(r) ==  \* version: order.version + 1 instead of { increment: 1 }
  LET o == rq[r].order IN
  /\ Move(r, "status_write", "ok")
  /\ ~OrderLocked(o)
  /\ order' = [order EXCEPT ![o].status = rq[r].to, ![o].version = rq[r].seen.version + 1]
  /\ Forget(r)
  /\ UNCHANGED <<invoice, captured, accounts, revenue, raced>>

StatusWriteRow(r) ==  \* saves the whole row that it read
  LET o == rq[r].order IN
  /\ Move(r, "status_write", "ok")
  /\ ~OrderLocked(o)
  /\ order' = [order EXCEPT ![o] = [rq[r].seen EXCEPT !.status = rq[r].to,
                                                     !.version = order[o].version + 1,
                                                     !.items = order[o].items]]
  /\ Forget(r)
  /\ UNCHANGED <<invoice, captured, accounts, revenue, raced>>

ItemWriteAmount(r, billed) ==  \* the totals grow by another amount than the items
  LET o == rq[r].order IN
  /\ Move(r, "item_write", "ok")
  /\ ~OrderLocked(o)
  /\ order' = [order EXCEPT ![o].total = rq[r].seen.total + billed,
                            ![o].items = @ + rq[r].amount,
                            ![o].version = @ + 1]
  /\ Forget(r)
  /\ UNCHANGED <<invoice, captured, accounts, revenue, raced>>
ItemWriteTaxedTwice(r) == ItemWriteAmount(r, 2 * rq[r].amount)

PayInvoiceAgain(r) ==  \* a PAID invoice is not refused
  LET found == InvoicesOf(rq[r].order)
      Use(i) == Move(r, "pay_invoice", "pay_capture") /\ rq' = [rq EXCEPT ![r].bill = i]
  IN
  /\ \/ Use(r) /\ found = {}
     \/ \E i \in found : Use(i)
  /\ UNCHANGED <<tables, raced>>

PayInvoiceAlwaysNew(r) ==  \* every payment writes its own invoice
  /\ Move(r, "pay_invoice", "pay_capture")
  /\ rq' = [rq EXCEPT ![r].bill = r]
  /\ UNCHANGED <<tables, raced>>

VerdictOf(r, sum) == IF sum >= BillTotal(r) THEN "PAID" ELSE "PARTIALLY_PAID"
PayCaptureAs(r, sum, waits) ==
  /\ \/ /\ Move(r, "pay_capture", "pay_settle")
        /\ captured[rq[r].key] = 0
        /\ rq' = [rq EXCEPT ![r].sum = sum, ![r].verdict = VerdictOf(r, sum)]
     \/ Fail(r, "pay_capture") /\ captured[rq[r].key] > 0
  /\ waits => ~KeyReserved(rq[r].key)
  /\ UNCHANGED <<tables, raced>>
PayCaptureTwice(r) ==  \* the new payment is in allPayments and added again
  pc[r] = "pay_capture" /\ PayCaptureAs(r, PaidBefore(r) + 2 * rq[r].amount, TRUE)
PayCaptureOnlyThis(r) ==  \* the earlier payments are not added up
  pc[r] = "pay_capture" /\ PayCaptureAs(r, rq[r].amount, TRUE)
PayCaptureUnguarded(r) ==  \* look-up of the key instead of a unique index
  pc[r] = "pay_capture" /\ PayCaptureAs(r, PaidBefore(r) + rq[r].amount, FALSE)

-----------------------------------------------------------------------------
(* createOrder and createOrderWithItems: the rows and the totals appear in one commit. *)

CreateOrder(o) ==
  /\ ~Exists(o)
  /\ order' = [order EXCEPT ![o] = [NoRow EXCEPT !.status = "DRAFT", !.version = 1]]
  /\ UNCHANGED <<invoice, captured, accounts, revenue, pc, rq, raced>>

CreateOrderWithItems(o) ==
  /\ ~Exists(o)
  /\ \E p \in Prices \cup {0} :   \* `items` may be empty
       order' = [order EXCEPT ![o] = [status |-> "PLACED", version |-> 1, total |-> p, items |-> p]]
  /\ UNCHANGED <<invoice, captured, accounts, revenue, pc, rq, raced>>

-----------------------------------------------------------------------------
(* updateOrderStatus: a read, the checks, then an UPDATE by primary key; no transaction. *)

SendStatus(r) ==
  \E o \in Orders, s \in SentStatuses : \E v \in 1..order[o].version :
    /\ Exists(o)
    /\ Send(r, "status_read", [Idle EXCEPT !.order = o, !.to = s, !.version = v])

StatusAccepted(r, row) ==
  row.version = rq[r].version /\ TransitionAllowed(row.status, rq[r].to)

StatusRead(r) ==
  LET row == order[rq[r].order] IN
  /\ \/ /\ Move(r, "status_read", "status_write")
        /\ StatusAccepted(r, row)
        /\ rq' = [rq EXCEPT ![r].seen = row]
     \/ Fail(r, "status_read") /\ ~StatusAccepted(r, row)
  /\ UNCHANGED <<tables, raced>>

StatusWrite(r) ==
  LET o == rq[r].order IN
  /\ Move(r, "status_write", "ok")
  /\ ~OrderLocked(o)
  /\ order' = [order EXCEPT ![o].status = rq[r].to, ![o].version = @ + 1]
  /\ Forget(r)
  /\ UNCHANGED <<invoice, captured, accounts, revenue, raced>>

-----------------------------------------------------------------------------
(* addItemToOrder: neither the status nor the version is looked at; the    *)
(* totals are written as absolute amounts computed from the row read.      *)

SendItem(r) ==
  \E o \in Orders, p \in Prices :
    Exists(o) /\ Send(r, "item_read", [Idle EXCEPT !.order = o, !.amount = p])

ItemRead(r) ==
  /\ Move(r, "item_read", "item_write")
  /\ rq' = [rq EXCEPT ![r].seen = order[rq[r].order]]
  /\ UNCHANGED <<tables, raced>>

ItemWrite(r) ==
  LET o == rq[r].order IN
  /\ Move(r, "item_write", "ok")
  /\ ~OrderLocked(o)
  /\ order' = [order EXCEPT ![o].total = rq[r].seen.total + rq[r].amount,
                            ![o].items = @ + rq[r].amount,
                            ![o].version = @ + 1]
  /\ Forget(r)
  /\ UNCHANGED <<invoice, captured, accounts, revenue, raced>>

-----------------------------------------------------------------------------
(* processPayment: one transaction, statement by statement. *)

SendPayment(r) ==
  \E o \in Orders, a \in Tenders, k \in Keys : \E v \in 1..order[o].version :
    /\ Exists(o)
    /\ Send(r, "pay_read", [Idle EXCEPT !.order = o, !.version = v, !.amount = a, !.key = k])

PaymentAccepted(r, row) == row.version = rq[r].version /\ row.status \notin UnpayableStatus

PayRead(r) ==
  LET row == order[rq[r].order] IN
  /\ \/ /\ Move(r, "pay_read", "pay_invoice")
        /\ PaymentAccepted(r, row)
        /\ rq' = [rq EXCEPT ![r].seen = row]
     \/ Fail(r, "pay_read") /\ ~PaymentAccepted(r, row)
  /\ UNCHANGED <<tables, raced>>

(* findFirst without an order: any committed invoice of the order, or a new one. *)
PayInvoice(r) ==
  LET found == InvoicesOf(rq[r].order)
      Use(i) == Move(r, "pay_invoice", "pay_capture") /\ rq' = [rq EXCEPT ![r].bill = i]
  IN
  /\ \/ Use(r) /\ found = {}
     \/ \E i \in found : Use(i) /\ invoice[i].status # "PAID"
     \/ \E i \in found : Fail(r, "pay_invoice") /\ invoice[i].status = "PAID"
  /\ UNCHANGED <<tables, raced>>

(* totalPaid >= Number(invoice.total).  One payment is compared exactly; a  *)
(* float sum of several that equals the total may have come out below it.  *)
Verdicts(r, sum) ==
  {v \in {"PAID", "PARTIALLY_PAID"} :
     IF v = "PAID" THEN sum >= BillTotal(r)
                   ELSE sum < BillTotal(r) \/ (sum = BillTotal(r) /\ sum > rq[r].amount)}

(* The INSERT waits for another transaction's uncommitted row with the     *)
(* key; then all captured payments of the invoice are added up.            *)
PayCapture(r) ==
  LET k == rq[r].key
      sum == PaidBefore(r) + rq[r].amount
  IN
  /\ \/ /\ Move(r, "pay_capture", "pay_settle")
        /\ captured[k] = 0
        /\ \E v \in Verdicts(r, sum) : rq' = [rq EXCEPT ![r].sum = sum, ![r].verdict = v]
     \/ Fail(r, "pay_capture") /\ captured[k] > 0
  /\ ~KeyReserved(k)
  /\ UNCHANGED <<tables, raced>>

PaySettle(r) ==
  /\ \/ Move(r, "pay_settle", "pay_order") /\ FullyPaid(r)
     \/ Move(r, "pay_settle", "pay_accounts") /\ ~FullyPaid(r)
  /\ ~InvoiceLocked(rq[r].bill)
  /\ UNCHANGED <<tables, rq, raced>>

PayOrder(r) ==
  /\ Move(r, "pay_order", "pay_accounts")
  /\ ~OrderLocked(rq[r].order)
  /\ UNCHANGED <<tables, rq, raced>>

PayAccounts(r) ==
  /\ Move(r, "pay_accounts", "pay_commit")
  /\ rq' = [rq EXCEPT ![r].seeds = BaselineAccounts \ accounts]
  /\ UNCHANGED <<tables, raced>>

SettledInvoice(r) ==
  LET old == IF rq[r].bill = r
             THEN [order |-> rq[r].order, status |-> "ISSUED", total |-> rq[r].seen.total,
                   paid |-> 0, gifted |-> 0]
             ELSE invoice[rq[r].bill]
  IN [old EXCEPT !.status = rq[r].verdict, !.paid = @ + rq[r].amount]

(* The journal: DEBIT of the asset account, CREDIT of revenue. *)
PostedBill(r) == IF FullyPaid(r) THEN BillTotal(r) ELSE 0  \* fault: the bill, once it is covered
Posted(r) == rq[r].amount

PayCommit(r) ==
  LET o == rq[r].order IN
  /\ \/ Move(r, "pay_commit", "ok") /\ FullyPaid(r)
     \/ Move(r, "pay_commit", "part") /\ ~FullyPaid(r)
  /\ rq[r].seeds \cap accounts = {}
  /\ invoice' = [invoice EXCEPT ![rq[r].bill] = SettledInvoice(r)]
  /\ order' = IF FullyPaid(r)
              THEN [order EXCEPT ![o].status = "PAID", ![o].version = @ + 1]
              ELSE order
  /\ captured' = [captured EXCEPT ![rq[r].key] = @ + 1]
  /\ accounts' = accounts \cup rq[r].seeds
  /\ revenue' = revenue + Posted(r)
  /\ Forget(r)
  /\ UNCHANGED raced

(* Another payment seeded the same account code meanwhile: unique violation, rollback. *)
PayDuplicateAccount(r) ==
  Fail(r, "pay_commit") /\ rq[r].seeds \cap accounts # {} /\ UNCHANGED <<tables, raced>>

(* The transaction times out, or the connection or the process is lost: rollback. *)
Abort(r) ==
  /\ pc[r] \in BusyPC
  /\ Fail(r, pc[r])
  /\ UNCHANGED <<tables, raced>>

-----------------------------------------------------------------------------
(* redeemGiftCard inserts a CAPTURED payment on an invoice of its order,   *)
(* whatever the status of either, and writes no row of orders, invoices or *)
(* the journal.  An invoice it has found stays, so that its commit is all  *)
(* that is seen of it here; its statements are those of CustomerCredit.    *)

RedeemGiftCard(r) ==
  \E i \in Requests, a \in GiftAmounts :
    /\ invoice[i].order # None
    /\ Move(r, "idle", "gift")
    /\ invoice' = [invoice EXCEPT ![i].gifted = @ + a]
    /\ UNCHANGED <<order, captured, accounts, revenue, rq, raced>>

-----------------------------------------------------------------------------
Arrive(r) == SendStatus(r) \/ SendItem(r) \/ SendPayment(r)

Proceed(r) ==
  \/ StatusRead(r) \/ StatusWrite(r)
  \/ ItemRead(r) \/ ItemWrite(r)
  \/ PayRead(r) \/ PayInvoice(r) \/ PayCapture(r) \/ PaySettle(r)
  \/ PayOrder(r) \/ PayAccounts(r) \/ PayCommit(r) \/ PayDuplicateAccount(r)

Next ==
  \/ \E o \in Orders : CreateOrder(o) \/ CreateOrderWithItems(o)
  \/ \E r \in Requests : Arrive(r) \/ Proceed(r) \/ Abort(r) \/ RedeemGiftCard(r)

Spec == Init /\ [][Next]_vars

(* The event loop and the database run every statement that is not waiting for a lock. *)
FairSpec == Spec /\ \A r \in Requests : WF_vars(Proceed(r))

-----------------------------------------------------------------------------
(* What the tables and the requests look like: every row and every local
   variable of a call has its column's or its type's values. *)

Kinds == {"status", "item", "pay"}

OrderRow ==
  [status : OrderStatus \cup {"ABSENT"}, version : Nat, total : Nat, items : Nat]

InvoiceRow ==
  [order : Orders \cup {None}, status : InvoiceStatus \cup {"ABSENT"}, total : Nat,
   paid : Nat, gifted : Nat]

Request ==
  [order : Orders \cup {None}, to : OrderStatus \cup {"ABSENT"}, version : Nat, amount : Nat,
   key : Keys \cup {None}, seen : OrderRow, bill : Requests \cup {None}, sum : Nat,
   verdict : {"ABSENT", "PAID", "PARTIALLY_PAID"}, seeds : SUBSET BaselineAccounts]

TypeOK ==
  /\ order \in [Orders -> OrderRow]
  /\ invoice \in [Requests -> InvoiceRow]
  /\ captured \in [Keys -> Nat]
  /\ accounts \in SUBSET BaselineAccounts
  /\ revenue \in Nat
  /\ pc \in [Requests -> BusyPC \cup Answered \cup {"idle"}]
  /\ rq \in [Requests -> Request]
  /\ raced \subseteq Orders \X Kinds \X Kinds

-----------------------------------------------------------------------------
(* Safety that holds however requests overlap, abort and fail. *)

(* An invoice is PAID only when the payments captured for it cover its     *)
(* total, although the sum that decided it was read before the row lock.   *)
PaidInvoiceCovered ==
  \A i \in Requests : invoice[i].status = "PAID" => invoice[i].paid + invoice[i].gifted >= invoice[i].total

(* The lost updates of addItemToOrder may lose an item's amount, never     *)
(* invent one: no order total and no invoice exceeds what was ordered.     *)
NeverOverbilled ==
  /\ \A o \in Orders : order[o].total <= order[o].items
  /\ \A i \in Requests : \A o \in Orders :
       invoice[i].order = o => invoice[i].total <= order[o].items

(* The version of an order is one plus the number of requests that wrote   *)
(* its row: no increment is lost or made without an answer, so a client    *)
(* that compares versions can tell whether anything was written.           *)
Writers(o) == {r \in Requests : pc[r] = "ok" /\ rq[r].order = o}
VersionCountsWrites ==
  \A o \in Orders : Exists(o) => order[o].version = 1 + Cardinality(Writers(o))

(* processPayment posts each amount it captures, once, whichever payments  *)
(* rolled back: revenue is what it captured for all invoices.  What gift   *)
(* cards paid is missing from the ledger (RevenueMatchesPayments).         *)
DeskPaymentsPosted == revenue = SumFunction([i \in Requests |-> invoice[i].paid])

(* One idempotency key captures at most one payment, also when calls with  *)
(* the same key overlap.                                                   *)
KeyPaysOnce == \A k \in Keys : captured[k] <= 1

(* A request that updated a row and waits for another lock waits for one   *)
(* whose holder can run: every call is answered.                           *)
EveryRequestAnswered == \A r \in Requests : pc[r] \in BusyPC ~> pc[r] \in Answered

-----------------------------------------------------------------------------
(* Safety that the code gives to calls about an order unless two calls of  *)
(* the kinds that a property names overlapped; other overlaps do no harm.  *)

Overlapped(o, a, b) == <<o, a, b>> \in raced

(* The denormalised totals agree with order_items unless two calls of      *)
(* addItemToOrder overlapped: status changes and payments that write the   *)
(* row in between do not disturb them.                                     *)
TotalsMatchItems ==
  \A o \in Orders : ~Overlapped(o, "item", "item") => order[o].total = order[o].items

(* The order of a PAID invoice has left the kitchen states for good,       *)
(* unless a payment and a status change overlapped.                        *)
PaidInvoiceSettlesOrder ==
  \A i \in Requests : \A o \in Orders :
    /\ invoice[i].order = o
    /\ invoice[i].status = "PAID"
    /\ ~Overlapped(o, "pay", "status")
    => order[o].status \in {"PAID", "CLOSED"}

(* processPayment takes no more than the total for an invoice that it      *)
(* leaves open, unless two payments each missed the other.                 *)
OpenInvoiceNotOverpaid ==
  \A i \in Requests : \A o \in Orders :
    /\ invoice[i].order = o
    /\ invoice[i].status # "PAID"
    /\ ~Overlapped(o, "pay", "pay")
    => invoice[i].paid <= invoice[i].total

(* An order is billed once, unless two payments found no invoice.          *)
OneInvoicePerOrder ==
  \A o \in Orders : ~Overlapped(o, "pay", "pay") => Cardinality(InvoicesOf(o)) <= 1

(* processPayment neither rewrites a PAID invoice nor captures for it,     *)
(* unless two payments overlapped.                                         *)
PaidInvoiceImmutable ==
  [][\A i \in Requests : \A o \in Orders :
       /\ invoice[i].order = o
       /\ invoice[i].status = "PAID"
       /\ ~Overlapped(o, "pay", "pay")
       => invoice'[i] = [invoice[i] EXCEPT !.gifted = invoice'[i].gifted]]_vars

(* updateOrderStatus moves the row it writes along the transition table,   *)
(* although it checked a row read earlier, unless another status change or *)
(* a payment overlapped: an item that is added in between does no harm.    *)
StatusWriteLegal ==
  [][\A r \in Requests : \A o \in Orders :
       /\ pc[r] = "status_write" /\ pc'[r] = "ok" /\ rq[r].order = o
       /\ ~Overlapped(o, "status", "status")
       /\ ~Overlapped(o, "pay", "status")
       => TransitionAllowed(order[o].status, rq[r].to)]_vars

-----------------------------------------------------------------------------
(* What a document says and the code does not do. *)

(* DatabaseSchema.md 107: the database rejects an update if the version    *)
(* that the client knew has been incremented.  The version is compared     *)
(* when the row is read, and again by nobody.                              *)
WritesOrder(r) == pc[r] \in {"status_write", "pay_commit"} /\ pc'[r] = "ok"
VersionCheckHonoured ==
  [][\A r \in Requests : WritesOrder(r) => order[rq[r].order].version = rq[r].version]_vars

(* PRD.md 526: a redeemed gift card is credited to revenue.  redeemGiftCard *)
(* captures a payment and writes no journal, so revenue is less than what   *)
(* the invoices have been paid.                                             *)
RevenueMatchesPayments ==
  revenue = SumFunction([i \in Requests |-> invoice[i].paid + invoice[i].gifted])

(* payment.service.ts 81-87: an invoice whose payments cover its total is   *)
(* PAID.  Floats may fall short of it, and redeemGiftCard does not look.    *)
CoveredInvoicePaid ==
  \A i \in Requests :
    invoice[i].order # None /\ invoice[i].paid + invoice[i].gifted >= invoice[i].total =>
      invoice[i].status = "PAID"

(* Architecture.md 13: every change of an order's status follows the       *)
(* directed state machine.  processPayment writes PAID over any status.    *)
StatusFollowsMachine ==
  [][\A o \in Orders : Exists(o) /\ order'[o].status # order[o].status =>
       order'[o].status \in ValidTransitions[order[o].status]]_vars

-----------------------------------------------------------------------------
(* Why the safety properties hold: an inductive invariant in named parts. *)

HasSeen == {"status_write", "item_write"} \cup (PayPC \ {"pay_read"})
HasBill == PayPC \ {"pay_read", "pay_invoice"}
HasSum == HasBill \ {"pay_capture"}
Committed == {"ok", "part"}

(* A call in progress is about an order that exists, and carries its inputs. *)
CallsBound ==
  \A r \in Requests :
    /\ pc[r] \in BusyPC \cup Committed => rq[r].order \in Orders /\ Exists(rq[r].order)
    /\ pc[r] \in {"status_read", "status_write"} => rq[r].to \in OrderStatus
    /\ pc[r] \in PayPC => rq[r].key \in Keys
    /\ pc[r] \in HasBill => rq[r].bill \in Requests

(* An order that does not exist yet has been written by nobody. *)
AbsentOrders == \A o \in Orders : ~Exists(o) => order[o] = NoRow

(* An invoice is inserted by the commit of the request it is named after,  *)
(* so the invoice that another request found cannot be replaced later.     *)
InvoicesCommitted ==
  \A r \in Requests :
    /\ invoice[r].order # None => pc[r] \in Committed
    /\ pc[r] \in HasBill /\ rq[r].bill # r => pc[rq[r].bill] \in Committed

(* What an order held when it was read is at most what it holds now; what  *)
(* a payment added up is at most what its commit leaves captured, and at   *)
(* least the total if the verdict is PAID.                                 *)
ReadsLagBehind ==
  \A r \in Requests :
    /\ pc[r] \in HasSeen => rq[r].seen.total <= order[rq[r].order].items
    /\ pc[r] \in HasSum => rq[r].sum <= PaidBefore(r) + rq[r].amount
    /\ pc[r] \in HasSum /\ FullyPaid(r) => rq[r].sum >= BillTotal(r)

(* A key is inserted only where no other transaction holds or used it. *)
KeysExclusive ==
  \A r \in Requests : pc[r] \in HasSum =>
    /\ captured[rq[r].key] = 0
    /\ \A q \in Requests \ {r} : pc[q] \in HasSum => rq[q].key # rq[r].key

IndInv ==
  /\ TypeOK
  /\ CallsBound
  /\ AbsentOrders
  /\ InvoicesCommitted
  /\ ReadsLagBehind
  /\ KeysExclusive
  /\ NeverOverbilled
  /\ PaidInvoiceCovered
  /\ KeyPaysOnce
  /\ VersionCountsWrites

-----------------------------------------------------------------------------
(* Why the ledger agrees with the invoices: a commit adds what it posts to *)
(* a row that holds exactly what was captured for it before.               *)

(* A row of invoices that no commit has inserted yet holds nothing. *)
UnissuedInvoices == \A i \in Requests : invoice[i].order = None => invoice[i] = NoInvoice

(* An existing invoice that a payment settles is one of its order. *)
BillsOwnOrder ==
  \A r \in Requests : pc[r] \in HasBill /\ rq[r].bill # r =>
    invoice[rq[r].bill].order = rq[r].order

RevenueInv == UnissuedInvoices /\ BillsOwnOrder /\ DeskPaymentsPosted

-----------------------------------------------------------------------------
(* Why the rest holds: of two calls that are in flight about one order the *)
(* later one noted the overlap, and what a call has read of an order is    *)
(* still so unless a call that may change it overlapped.                   *)

OverlapsNoted ==
  \A q, r \in InFlight :
    q # r /\ rq[q].order = rq[r].order => Overlapped(rq[q].order, Kind(pc[q]), Kind(pc[r]))

(* An invoice of the order that is not PAID, or none when a new one is due. *)
BillFound(r) ==
  IF rq[r].bill = r
  THEN InvoicesOf(rq[r].order) = {}
  ELSE invoice[rq[r].bill].status # "PAID"

(* addItemToOrder: nobody else writes the totals. *)
ItemHolds(r) ==
  pc[r] = "item_write" /\ ~Overlapped(rq[r].order, "item", "item") =>
    rq[r].seen.total = order[rq[r].order].total

(* updateOrderStatus: the row had a status from which the new one is       *)
(* allowed; it still has, and it had the one of a paid order if it is one. *)
StatusHolds(r) ==
  pc[r] = "status_write" =>
    LET o == rq[r].order IN
    /\ TransitionAllowed(rq[r].seen.status, rq[r].to)
    /\ ~Overlapped(o, "pay", "status") =>
         /\ ~Overlapped(o, "status", "status") => rq[r].seen.status = order[o].status
         /\ (\E i \in InvoicesOf(o) : invoice[i].status = "PAID") =>
              rq[r].seen.status \in {"PAID", "CLOSED"}

(* processPayment: the invoice it found is still open, its payments are    *)
(* those it added up, gift cards aside, and the verdict suits the sum.     *)
PaymentHolds(r) ==
  /\ pc[r] \in HasSum => rq[r].verdict \in {"PAID", "PARTIALLY_PAID"}
  /\ pc[r] \in HasSum /\ rq[r].verdict = "PARTIALLY_PAID" => rq[r].sum <= BillTotal(r)
  /\ pc[r] \in HasBill /\ ~Overlapped(rq[r].order, "pay", "pay") => BillFound(r)
  /\ pc[r] \in HasSum /\ ~Overlapped(rq[r].order, "pay", "pay") =>
       rq[r].amount + (IF rq[r].bill = r THEN 0 ELSE invoice[rq[r].bill].paid) <= rq[r].sum

BilledOnce ==
  \A i, j \in Requests :
    /\ invoice[i].order # None
    /\ invoice[i].order = invoice[j].order
    /\ ~Overlapped(invoice[i].order, "pay", "pay")
    => i = j

OverlapInv ==
  /\ OverlapsNoted
  /\ \A r \in Requests : ItemHolds(r) /\ StatusHolds(r) /\ PaymentHolds(r)
  /\ TotalsMatchItems
  /\ PaidInvoiceSettlesOrder
  /\ OpenInvoiceNotOverpaid
  /\ BilledOnce

=============================================================================
