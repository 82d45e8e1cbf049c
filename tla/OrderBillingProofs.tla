-------------------------- MODULE OrderBillingProofs --------------------------
(***************************************************************************)
(* Theorems about OrderBilling for every number of orders, requests and    *)
(* keys, all prices, tenders and gift amounts, and any overlap of the      *)
(* requests.                                                               *)
(***************************************************************************)
EXTENDS OrderBilling, SumLemmas

(***************************************************************************)
(* Types.  They need CallsBound: only a call about an order that exists    *)
(* reads and writes a row of the table.                                    *)
(***************************************************************************)
Typed == TypeOK /\ CallsBound

(* A request that was not sent has the type of a request. *)
LEMMA IdleType == Idle \in Request
BY DEF Idle, Request, NoRow, OrderRow

(* Empty tables and unsent requests are typed. *)
LEMMA InitTyped == Init => Typed
<1> SUFFICES ASSUME Init PROVE Typed
  OBVIOUS
<1>1. TypeOK
  BY IdleType DEF Init, TypeOK, NoRow, OrderRow, NoInvoice, InvoiceRow
<1>2. CallsBound
  BY DEF Init, CallsBound, BusyPC, StatusPC, ItemPC, PayPC, Committed, HasBill
<1> QED BY <1>1, <1>2 DEF Typed

(* What Forget leaves of a request's record. *)
LEMMA ForgetType ==
  ASSUME Typed, NEW r \in Requests
  PROVE  [Idle EXCEPT !.order = rq[r].order] \in Request
BY IdleType DEF Typed, TypeOK, Request, Idle, NoRow, OrderRow

(* Both ways of creating an order insert one row at version 1 whose total is its items. *)
LEMMA CreateEffect ==
  ASSUME NEW o \in Orders, CreateOrder(o) \/ CreateOrderWithItems(o)
  PROVE  \E row \in OrderRow :
           /\ ~Exists(o)
           /\ order' = [order EXCEPT ![o] = row]
           /\ row.status # "ABSENT" /\ row.version = 1 /\ row.total = row.items
           /\ UNCHANGED <<invoice, captured, accounts, revenue, pc, rq, raced>>
<1>1. CASE CreateOrder(o)
  <2>1. [NoRow EXCEPT !.status = "DRAFT", !.version = 1] \in OrderRow
    BY DEF NoRow, OrderRow, OrderStatus
  <2> QED BY <1>1, <2>1 DEF CreateOrder, NoRow
<1>2. CASE CreateOrderWithItems(o)
  <2>1. PICK p \in Prices \cup {0} :
          order' = [order EXCEPT ![o] =
                      [status |-> "PLACED", version |-> 1, total |-> p, items |-> p]]
    BY <1>2 DEF CreateOrderWithItems
  <2>2. [status |-> "PLACED", version |-> 1, total |-> p, items |-> p] \in OrderRow
    BY AmountsAssumption DEF OrderRow, OrderStatus
  <2> QED BY <1>2, <2>1, <2>2 DEF CreateOrderWithItems
<1> QED BY <1>1, <1>2

(* Creating an order inserts one typed row; nobody refers to it yet. *)
LEMMA CreateTyped ==
  ASSUME Typed, NEW o \in Orders, CreateOrder(o) \/ CreateOrderWithItems(o)
  PROVE  Typed'
<1>1. PICK row \in OrderRow :
        /\ order' = [order EXCEPT ![o] = row]
        /\ row.status # "ABSENT"
        /\ UNCHANGED <<invoice, captured, accounts, revenue, pc, rq, raced>>
  BY CreateEffect
<1>2. \A x \in Orders : Exists(x) => Exists(x)'
  BY <1>1 DEF Typed, TypeOK, Exists
<1>3. TypeOK'
  BY <1>1 DEF Typed, TypeOK
<1>4. CallsBound'
  BY <1>1, <1>2 DEF Typed, CallsBound
<1> QED BY <1>3, <1>4 DEF Typed

(* Every kind of call is one of the three. *)
LEMMA KindType == \A at : Kind(at) \in Kinds
BY DEF Kind, Kinds

(* What a sent call may have overlapped is a triple of an order and two kinds. *)
LEMMA OverlapsType ==
  ASSUME NEW o \in Orders, NEW kind \in Kinds
  PROVE  Overlaps(o, kind) \subseteq Orders \X Kinds \X Kinds
BY KindType DEF Overlaps, Met

(* A request is sent with typed inputs, about an order that exists. *)
LEMMA ArriveSends ==
  ASSUME Typed, NEW r \in Requests, Arrive(r)
  PROVE  \E to \in {"status_read", "item_read", "pay_read"}, call \in Request :
           /\ Send(r, to, call)
           /\ call.order \in Orders /\ Exists(call.order)
           /\ to = "status_read" => call.to \in OrderStatus
           /\ to = "pay_read" => call.key \in Keys
<1>1. CASE SendStatus(r)
  <2>0. PICK o \in Orders, s \in SentStatuses : \E v \in 1..order[o].version :
          Exists(o) /\ Send(r, "status_read", [Idle EXCEPT !.order = o, !.to = s, !.version = v])
    BY <1>1, Zenon DEF SendStatus
  <2>1. PICK v \in 1..order[o].version :
          Exists(o) /\ Send(r, "status_read", [Idle EXCEPT !.order = o, !.to = s, !.version = v])
    BY <2>0, Zenon
  <2>2. v \in Nat
    BY DEF Typed, TypeOK, OrderRow
  <2>3. [Idle EXCEPT !.order = o, !.to = s, !.version = v] \in Request
    BY <2>2, IdleType, StatusAssumption DEF Idle, Request
  <2> QED BY <2>1, <2>3, StatusAssumption DEF Idle
<1>2. CASE SendItem(r)
  <2>1. PICK o \in Orders, p \in Prices :
          Exists(o) /\ Send(r, "item_read", [Idle EXCEPT !.order = o, !.amount = p])
    BY <1>2 DEF SendItem
  <2>2. [Idle EXCEPT !.order = o, !.amount = p] \in Request
    BY IdleType, AmountsAssumption DEF Idle, Request
  <2> QED BY <2>1, <2>2 DEF Idle
<1>3. CASE SendPayment(r)
  <2>0. PICK o \in Orders, a \in Tenders, k \in Keys : \E v \in 1..order[o].version :
          /\ Exists(o)
          /\ Send(r, "pay_read",
                  [Idle EXCEPT !.order = o, !.version = v, !.amount = a, !.key = k])
    BY <1>3, Zenon DEF SendPayment
  <2>1. PICK v \in 1..order[o].version :
          /\ Exists(o)
          /\ Send(r, "pay_read",
                  [Idle EXCEPT !.order = o, !.version = v, !.amount = a, !.key = k])
    BY <2>0, Zenon
  <2>2. v \in Nat
    BY DEF Typed, TypeOK, OrderRow
  <2>3. [Idle EXCEPT !.order = o, !.version = v, !.amount = a, !.key = k] \in Request
    BY <2>2, IdleType, AmountsAssumption DEF Idle, Request
  <2> QED BY <2>1, <2>3 DEF Idle
<1> QED BY <1>1, <1>2, <1>3 DEF Arrive

(* Sending a request keeps the types. *)
LEMMA ArriveTyped ==
  ASSUME Typed, NEW r \in Requests, Arrive(r)
  PROVE  Typed'
<1>1. PICK to \in {"status_read", "item_read", "pay_read"}, call \in Request :
         /\ Send(r, to, call)
         /\ call.order \in Orders /\ Exists(call.order)
         /\ to = "status_read" => call.to \in OrderStatus
         /\ to = "pay_read" => call.key \in Keys
  BY ArriveSends
<1>2. /\ pc' = [pc EXCEPT ![r] = to]
      /\ rq' = [rq EXCEPT ![r] = call]
      /\ raced' = raced \cup Overlaps(call.order, Kind(to))
      /\ UNCHANGED tables
  BY <1>1 DEF Send, Move
<1>3. TypeOK'
  <2>1. Overlaps(call.order, Kind(to)) \subseteq Orders \X Kinds \X Kinds
    BY <1>1, OverlapsType, KindType
  <2> QED BY <1>2, <2>1 DEF Typed, TypeOK, tables, BusyPC, StatusPC, ItemPC, PayPC
<1>4. CallsBound'
  BY <1>1, <1>2 DEF Typed, TypeOK, CallsBound, tables, Exists, BusyPC, StatusPC, ItemPC, PayPC, HasBill, Committed
<1> QED BY <1>3, <1>4 DEF Typed

(* A rollback touches only the request's own counter and locals. *)
LEMMA FailTyped ==
  ASSUME Typed, NEW r \in Requests, NEW from, Fail(r, from), UNCHANGED <<tables, raced>>
  PROVE  Typed'
<1>1. /\ pc' = [pc EXCEPT ![r] = "failed"]
      /\ rq' = [rq EXCEPT ![r] = [Idle EXCEPT !.order = rq[r].order]]
  BY DEF Fail, Move, Forget
<1>2. TypeOK'
  BY <1>1, ForgetType DEF Typed, TypeOK, tables, Answered
<1>3. CallsBound'
  BY <1>1 DEF Typed, TypeOK, CallsBound, tables, Exists, BusyPC, StatusPC, ItemPC, PayPC, HasBill, Committed
<1> QED BY <1>2, <1>3 DEF Typed

(* A step inside a call changes locals only; what they may become is their type. *)
LEMMA LocalTyped ==
  ASSUME Typed, NEW r \in Requests, NEW call \in Request, UNCHANGED <<tables, raced>>,
         NEW from \in BusyPC, NEW to \in BusyPC,
         Move(r, from, to), rq' = [rq EXCEPT ![r] = call],
         call.order = rq[r].order, call.to = rq[r].to, call.key = rq[r].key,
         from \in PayPC <=> to \in PayPC,
         to \in {"status_read", "status_write"} => from \in {"status_read", "status_write"},
         to \in HasBill => call.bill \in Requests
  PROVE  Typed'
<1>1. pc[r] = from /\ pc' = [pc EXCEPT ![r] = to]
  BY DEF Move
<1>2. TypeOK'
  BY <1>1 DEF Typed, TypeOK, tables
<1>3. CallsBound'
  BY <1>1 DEF Typed, TypeOK, CallsBound, tables, Exists, BusyPC, StatusPC, ItemPC, PayPC, HasBill, Committed
<1> QED BY <1>2, <1>3 DEF Typed

(* The row that a call in progress is about. *)
LEMMA RowType ==
  ASSUME Typed, NEW r \in Requests, pc[r] \in BusyPC
  PROVE  /\ rq[r] \in Request
         /\ rq[r].order \in Orders /\ Exists(rq[r].order)
         /\ order[rq[r].order] \in OrderRow
BY DEF Typed, TypeOK, CallsBound

(* A write of the order's row that ends a call. *)
LEMMA RowWriteTyped ==
  ASSUME Typed, NEW r \in Requests, pc[r] \in BusyPC,
         NEW row \in OrderRow, row.status # "ABSENT",
         order' = [order EXCEPT ![rq[r].order] = row],
         pc' = [pc EXCEPT ![r] = "ok"], Forget(r), UNCHANGED raced,
         invoice' \in [Requests -> InvoiceRow], captured' \in [Keys -> Nat],
         accounts' \in SUBSET BaselineAccounts, revenue' \in Nat
  PROVE  Typed'
<1>1. rq' = [rq EXCEPT ![r] = [Idle EXCEPT !.order = rq[r].order]]
  BY DEF Forget
<1>2. rq[r].order \in Orders
  BY RowType
<1>3. TypeOK'
  BY <1>1, <1>2, ForgetType DEF Typed, TypeOK, Answered
<1>4. \A x \in Orders : Exists(x) => Exists(x)'
  BY <1>2 DEF Typed, TypeOK, Exists
<1>5. Exists(rq[r].order)'
  BY <1>1, <1>2 DEF Typed, TypeOK, Exists, Idle
<1>6. CallsBound'
  BY <1>1, <1>2, <1>4, <1>5
  DEF Typed, TypeOK, CallsBound, BusyPC, StatusPC, ItemPC, PayPC, HasBill, Committed, Idle
<1> QED BY <1>3, <1>6 DEF Typed

(* Reading the order row is the first statement of all three kinds of call. *)
LEMMA ReadTyped ==
  ASSUME Typed, NEW r \in Requests, UNCHANGED <<tables, raced>>,
         NEW from \in {"status_read", "item_read", "pay_read"},
         NEW to \in {"status_write", "item_write", "pay_invoice"},
         from = "status_read" <=> to = "status_write",
         from = "pay_read" <=> to = "pay_invoice",
         Move(r, from, to),
         rq' = [rq EXCEPT ![r].seen = order[rq[r].order]]
  PROVE  Typed'
<1> DEFINE call == [rq[r] EXCEPT !.seen = order[rq[r].order]]
<1>1. pc[r] = from /\ from \in BusyPC /\ to \in BusyPC
  BY DEF Move, BusyPC, StatusPC, ItemPC, PayPC
<1>2. call \in Request
  BY <1>1, RowType DEF Request
<1>3. rq' = [rq EXCEPT ![r] = call]
  BY DEF Typed, TypeOK
<1>4. call.order = rq[r].order /\ call.to = rq[r].to /\ call.key = rq[r].key
  BY <1>1, RowType DEF Request
<1>5. (from \in PayPC <=> to \in PayPC) /\ to \notin HasBill
  BY DEF PayPC, HasBill
<1> HIDE DEF call
<1> QED BY <1>1, <1>2, <1>3, <1>4, <1>5, LocalTyped

(* The row that a status change writes is an order and exists. *)
LEMMA StatusUpdateType ==
  ASSUME NEW x \in OrderRow, NEW s \in OrderStatus
  PROVE  /\ [x EXCEPT !.status = s, !.version = @ + 1] \in OrderRow
         /\ [x EXCEPT !.status = s, !.version = @ + 1].status # "ABSENT"
<1>1. s # "ABSENT"
  BY DEF OrderStatus
<1>2. x.version + 1 \in Nat
  BY DEF OrderRow
<1>3. [x EXCEPT !.status = s, !.version = @ + 1] \in OrderRow
  BY <1>2 DEF OrderRow
<1>4. [x EXCEPT !.status = s, !.version = @ + 1].status = s
  BY DEF OrderRow
<1> QED BY <1>1, <1>3, <1>4

ItemUpdate(x, t, a) == [x EXCEPT !.total = t, !.items = @ + a, !.version = @ + 1]

(* The row that an added item leaves is an order with the same status. *)
LEMMA ItemUpdateType ==
  ASSUME NEW x \in OrderRow, NEW t \in Nat, NEW a \in Nat
  PROVE  ItemUpdate(x, t, a) \in OrderRow /\ ItemUpdate(x, t, a).status = x.status
<1>1. x.version + 1 \in Nat /\ x.items + a \in Nat
  BY DEF OrderRow
<1>2. ItemUpdate(x, t, a) \in OrderRow
  BY <1>1 DEF OrderRow, ItemUpdate
<1>3. ItemUpdate(x, t, a).status = x.status
  BY DEF OrderRow, ItemUpdate
<1> QED BY <1>2, <1>3

(* Both statements of updateOrderStatus keep the types. *)
LEMMA StatusTyped ==
  ASSUME Typed, NEW r \in Requests, StatusRead(r) \/ StatusWrite(r)
  PROVE  Typed'
<1>1. CASE StatusRead(r)
  <2>1. CASE Fail(r, "status_read")
    BY <1>1, <2>1, FailTyped DEF StatusRead
  <2>2. CASE ~Fail(r, "status_read")
    BY <1>1, <2>2, ReadTyped DEF StatusRead
  <2> QED BY <2>1, <2>2
<1>2. CASE StatusWrite(r)
  <2> DEFINE row == [order[rq[r].order] EXCEPT !.status = rq[r].to, !.version = @ + 1]
  <2>1. pc[r] \in BusyPC /\ pc' = [pc EXCEPT ![r] = "ok"] /\ Forget(r) /\ rq[r].to \in OrderStatus
    BY <1>2 DEF StatusWrite, Move, BusyPC, StatusPC, Typed, CallsBound
  <2>2. row \in OrderRow /\ row.status # "ABSENT"
    BY <2>1, RowType, StatusUpdateType
  <2>3. order' = [order EXCEPT ![rq[r].order] = row]
    BY <1>2, <2>1, RowType DEF StatusWrite, Typed, TypeOK
  <2>4. UNCHANGED <<invoice, captured, accounts, revenue, raced>>
    BY <1>2 DEF StatusWrite
  <2> HIDE DEF row
  <2> QED BY <2>1, <2>2, <2>3, <2>4, RowWriteTyped DEF Typed, TypeOK
<1> QED BY <1>1, <1>2

(* Both statements of addItemToOrder keep the types. *)
LEMMA ItemTyped ==
  ASSUME Typed, NEW r \in Requests, ItemRead(r) \/ ItemWrite(r)
  PROVE  Typed'
<1>1. CASE ItemRead(r)
  BY <1>1, ReadTyped DEF ItemRead
<1>2. CASE ItemWrite(r)
  <2> DEFINE row == ItemUpdate(order[rq[r].order], rq[r].seen.total + rq[r].amount, rq[r].amount)
  <2>1. pc[r] \in BusyPC /\ pc' = [pc EXCEPT ![r] = "ok"] /\ Forget(r)
    BY <1>2 DEF ItemWrite, Move, BusyPC, ItemPC
  <2>2. row \in OrderRow /\ row.status # "ABSENT"
    <3>1. rq[r].seen.total + rq[r].amount \in Nat /\ rq[r].amount \in Nat
      BY <2>1, RowType DEF Request, OrderRow
    <3>2. order[rq[r].order] \in OrderRow /\ order[rq[r].order].status # "ABSENT"
      BY <2>1, RowType DEF Exists
    <3> QED BY <3>1, <3>2, ItemUpdateType
  <2>3. order' = [order EXCEPT ![rq[r].order] = row]
    BY <1>2, <2>1, RowType DEF ItemWrite, Typed, TypeOK, ItemUpdate
  <2>4. UNCHANGED <<invoice, captured, accounts, revenue, raced>>
    BY <1>2 DEF ItemWrite
  <2> HIDE DEF row
  <2> QED BY <2>1, <2>2, <2>3, <2>4, RowWriteTyped DEF Typed, TypeOK
<1> QED BY <1>1, <1>2

(* The invoice a payment settles, once it has one. *)
LEMMA BillType ==
  ASSUME Typed, NEW r \in Requests, pc[r] \in HasBill
  PROVE  /\ pc[r] \in BusyPC /\ pc[r] \in PayPC
         /\ rq[r].bill \in Requests /\ rq[r].key \in Keys
         /\ PaidBefore(r) \in Nat /\ BillTotal(r) \in Nat
         /\ SettledInvoice(r) \in InvoiceRow
<1>1. pc[r] \in BusyPC /\ pc[r] \in PayPC /\ rq[r].bill \in Requests /\ rq[r].key \in Keys
  BY DEF HasBill, PayPC, BusyPC, Typed, CallsBound
<1>2. rq[r] \in Request /\ rq[r].order \in Orders /\ invoice[rq[r].bill] \in InvoiceRow
  BY <1>1, RowType DEF Typed, TypeOK
<1>3. PaidBefore(r) \in Nat /\ BillTotal(r) \in Nat
  BY <1>2 DEF PaidBefore, BillTotal, Request, OrderRow, InvoiceRow
<1>4. SettledInvoice(r) \in InvoiceRow
  <2> DEFINE fresh == [order |-> rq[r].order, status |-> "ISSUED",
                       total |-> rq[r].seen.total, paid |-> 0, gifted |-> 0]
  <2>1. fresh \in InvoiceRow
    BY <1>2 DEF InvoiceRow, InvoiceStatus, Request, OrderRow
  <2>2. \A old \in InvoiceRow, s \in InvoiceStatus \cup {"ABSENT"}, a \in Nat :
          [old EXCEPT !.status = s, !.paid = @ + a] \in InvoiceRow
    <3> SUFFICES ASSUME NEW old \in InvoiceRow, NEW s \in InvoiceStatus \cup {"ABSENT"}, NEW a \in Nat
                 PROVE  [old EXCEPT !.status = s, !.paid = @ + a] \in InvoiceRow
      OBVIOUS
    <3>1. old.paid + a \in Nat
      BY DEF InvoiceRow
    <3> QED BY <3>1 DEF InvoiceRow
  <2>3. rq[r].amount \in Nat /\ rq[r].verdict \in InvoiceStatus \cup {"ABSENT"}
    BY <1>2 DEF Request, InvoiceStatus
  <2> HIDE DEF fresh
  <2>4. CASE rq[r].bill = r
    BY <2>1, <2>2, <2>3, <2>4 DEF SettledInvoice, fresh
  <2>5. CASE rq[r].bill # r
    BY <1>2, <2>2, <2>3, <2>5 DEF SettledInvoice
  <2> QED BY <2>4, <2>5
<1> QED BY <1>1, <1>3, <1>4

(* A payment commits typed rows: the invoice it found, the order it may settle. *)
LEMMA PayCommitTyped ==
  ASSUME Typed, NEW r \in Requests, PayCommit(r)
  PROVE  Typed'
<1>1. pc[r] = "pay_commit" /\ Forget(r)
  BY DEF PayCommit, Move
<1>2. pc[r] \in HasBill
  BY <1>1 DEF HasBill, PayPC
<1>3. /\ pc[r] \in BusyPC
      /\ rq[r].bill \in Requests /\ rq[r].key \in Keys /\ SettledInvoice(r) \in InvoiceRow
  BY <1>2, BillType
<1>4. /\ rq[r] \in Request /\ rq[r].order \in Orders
      /\ order[rq[r].order] \in OrderRow /\ Exists(rq[r].order)
  BY <1>3, RowType
<1>5. /\ invoice' \in [Requests -> InvoiceRow]
      /\ captured' \in [Keys -> Nat]
      /\ accounts' \in SUBSET BaselineAccounts
      /\ revenue' \in Nat
      /\ UNCHANGED raced
  BY <1>3, <1>4 DEF PayCommit, Posted, Typed, TypeOK, Request
<1>6. CASE FullyPaid(r)
  <2> DEFINE row == [order[rq[r].order] EXCEPT !.status = "PAID", !.version = @ + 1]
  <2>1. pc' = [pc EXCEPT ![r] = "ok"]
    BY <1>6 DEF PayCommit, Move
  <2>2. order' = [order EXCEPT ![rq[r].order] = row]
    BY <1>4, <1>6 DEF PayCommit, Typed, TypeOK
  <2>3. "PAID" \in OrderStatus
    BY DEF OrderStatus
  <2>4. row \in OrderRow /\ row.status # "ABSENT"
    BY <1>4, <2>3, StatusUpdateType
  <2> HIDE DEF row
  <2> QED BY <1>1, <1>3, <1>5, <2>1, <2>2, <2>4, RowWriteTyped
<1>7. CASE ~FullyPaid(r)
  <2>1. pc' = [pc EXCEPT ![r] = "part"] /\ order' = order
    BY <1>7 DEF PayCommit, Move
  <2>2. rq' = [rq EXCEPT ![r] = [Idle EXCEPT !.order = rq[r].order]]
    BY <1>1 DEF Forget
  <2>3. TypeOK'
    BY <1>5, <2>1, <2>2, ForgetType DEF Typed, TypeOK, Answered
  <2>4. CallsBound'
    BY <1>4, <2>1, <2>2
    DEF Typed, TypeOK, CallsBound, Exists, BusyPC, StatusPC, ItemPC, PayPC, HasBill, Committed, Idle
  <2> QED BY <2>3, <2>4 DEF Typed
<1> QED BY <1>6, <1>7

(* A payment captures: it notes its sum and a verdict that suits the sum. *)
LEMMA CaptureEffect ==
  ASSUME NEW r \in Requests, PayCapture(r), ~Fail(r, "pay_capture")
  PROVE  /\ Move(r, "pay_capture", "pay_settle")
         /\ captured[rq[r].key] = 0 /\ ~KeyReserved(rq[r].key)
         /\ UNCHANGED <<tables, raced>>
         /\ \E v \in Verdicts(r, PaidBefore(r) + rq[r].amount) :
              rq' = [rq EXCEPT ![r].sum = PaidBefore(r) + rq[r].amount, ![r].verdict = v]
BY DEF PayCapture

(* Every statement of processPayment keeps the types. *)
LEMMA PaymentTyped ==
  ASSUME Typed, NEW r \in Requests,
         \/ PayRead(r) \/ PayInvoice(r) \/ PayCapture(r) \/ PaySettle(r)
         \/ PayOrder(r) \/ PayAccounts(r) \/ PayCommit(r) \/ PayDuplicateAccount(r)
  PROVE  Typed'
<1>1. CASE \E from : Fail(r, from) /\ UNCHANGED <<tables, raced>>
  BY <1>1, FailTyped
<1>2. CASE PayRead(r) /\ ~Fail(r, "pay_read")
  BY <1>2, ReadTyped DEF PayRead
<1>3. CASE PayInvoice(r) /\ ~Fail(r, "pay_invoice")
  <2>1. PICK i \in Requests :
          /\ Move(r, "pay_invoice", "pay_capture")
          /\ rq' = [rq EXCEPT ![r].bill = i]
    BY <1>3 DEF PayInvoice, InvoicesOf
  <2> DEFINE call == [rq[r] EXCEPT !.bill = i]
  <2>2. pc[r] = "pay_invoice" /\ rq[r] \in Request
    BY <2>1 DEF Move, Typed, TypeOK
  <2>3. call \in Request /\ rq' = [rq EXCEPT ![r] = call] /\ call.bill = i
        /\ call.order = rq[r].order /\ call.to = rq[r].to /\ call.key = rq[r].key
    BY <2>1, <2>2 DEF Request, Typed, TypeOK
  <2>4. UNCHANGED <<tables, raced>>
    BY <1>3 DEF PayInvoice
  <2> HIDE DEF call
  <2> QED BY <2>1, <2>3, <2>4, LocalTyped DEF BusyPC, StatusPC, ItemPC, PayPC, HasBill
<1>4. CASE PayCapture(r) /\ ~Fail(r, "pay_capture")
  <2> DEFINE sum == PaidBefore(r) + rq[r].amount
  <2>1. PICK v \in Verdicts(r, sum) : Move(r, "pay_capture", "pay_settle") /\ UNCHANGED <<tables, raced>>
        /\ rq' = [rq EXCEPT ![r].sum = sum, ![r].verdict = v]
    BY <1>4, CaptureEffect DEF Move
  <2> DEFINE call == [rq[r] EXCEPT !.sum = sum, !.verdict = v]
  <2>2. pc[r] \in HasBill /\ rq[r] \in Request
    BY <2>1 DEF Move, HasBill, PayPC, Typed, TypeOK
  <2>3. sum \in Nat /\ rq[r].bill \in Requests /\ v \in {"PAID", "PARTIALLY_PAID"}
    BY <2>2, BillType DEF Request, Verdicts
  <2>4. call \in Request /\ rq' = [rq EXCEPT ![r] = call] /\ call.bill = rq[r].bill
        /\ call.order = rq[r].order /\ call.to = rq[r].to /\ call.key = rq[r].key
    BY <2>1, <2>2, <2>3 DEF Request, Typed, TypeOK
  <2> HIDE DEF call
  <2> QED BY <2>1, <2>3, <2>4, LocalTyped DEF BusyPC, StatusPC, ItemPC, PayPC
<1>5. CASE PaySettle(r) \/ PayOrder(r)
  <2>1. PICK from \in {"pay_settle", "pay_order"}, to \in {"pay_order", "pay_accounts"} :
          Move(r, from, to) /\ UNCHANGED <<tables, raced>> /\ rq' = rq
    BY <1>5 DEF PaySettle, PayOrder
  <2>2. pc[r] \in HasBill /\ rq[r] \in Request /\ rq' = [rq EXCEPT ![r] = rq[r]]
    BY <2>1 DEF Move, HasBill, PayPC, Typed, TypeOK
  <2>3. rq[r].bill \in Requests
    BY <2>2, BillType
  <2> QED BY <2>1, <2>2, <2>3, LocalTyped DEF BusyPC, StatusPC, ItemPC, PayPC
<1>6. CASE PayAccounts(r)
  <2>1. Move(r, "pay_accounts", "pay_commit") /\ UNCHANGED <<tables, raced>>
        /\ rq' = [rq EXCEPT ![r].seeds = BaselineAccounts \ accounts]
    BY <1>6 DEF PayAccounts
  <2> DEFINE call == [rq[r] EXCEPT !.seeds = BaselineAccounts \ accounts]
  <2>2. pc[r] \in HasBill /\ rq[r] \in Request
    BY <2>1 DEF Move, HasBill, PayPC, Typed, TypeOK
  <2>3. rq[r].bill \in Requests
    BY <2>2, BillType
  <2>4. call \in Request /\ rq' = [rq EXCEPT ![r] = call] /\ call.bill = rq[r].bill
        /\ call.order = rq[r].order /\ call.to = rq[r].to /\ call.key = rq[r].key
    BY <2>1, <2>2 DEF Request, Typed, TypeOK
  <2> HIDE DEF call
  <2> QED BY <2>1, <2>3, <2>4, LocalTyped DEF BusyPC, StatusPC, ItemPC, PayPC
<1>7. CASE PayCommit(r)
  BY <1>7, PayCommitTyped
<1>8. CASE PayDuplicateAccount(r)
  BY <1>8, FailTyped DEF PayDuplicateAccount
<1> QED BY <1>1, <1>2, <1>3, <1>4, <1>5, <1>6, <1>7, <1>8 DEF PayRead, PayInvoice, PayCapture

(* A gift card pays: one invoice has been given more. *)
LEMMA GiftEffect ==
  ASSUME Typed, NEW r \in Requests, RedeemGiftCard(r)
  PROVE  \E i \in Requests, a \in Nat :
           /\ invoice[i].order # None
           /\ pc[r] = "idle" /\ pc' = [pc EXCEPT ![r] = "gift"]
           /\ invoice' = [invoice EXCEPT ![i] = [invoice[i] EXCEPT !.gifted = @ + a]]
           /\ UNCHANGED <<order, captured, accounts, revenue, rq, raced>>
<1>1. PICK i \in Requests, a \in GiftAmounts :
        /\ invoice[i].order # None
        /\ Move(r, "idle", "gift")
        /\ invoice' = [invoice EXCEPT ![i].gifted = @ + a]
        /\ UNCHANGED <<order, captured, accounts, revenue, rq, raced>>
  BY DEF RedeemGiftCard
<1>2. a \in Nat
  BY AmountsAssumption
<1>3. invoice' = [invoice EXCEPT ![i] = [invoice[i] EXCEPT !.gifted = @ + a]]
  BY <1>1 DEF Typed, TypeOK
<1> QED BY <1>1, <1>2, <1>3 DEF Move

(* What a gift card leaves of an invoice row. *)
LEMMA GiftedType ==
  ASSUME NEW x \in InvoiceRow, NEW a \in Nat
  PROVE  /\ [x EXCEPT !.gifted = @ + a] \in InvoiceRow
         /\ [x EXCEPT !.gifted = @ + a].gifted = x.gifted + a
         /\ [x EXCEPT !.gifted = @ + a].order = x.order
         /\ [x EXCEPT !.gifted = @ + a].status = x.status
         /\ [x EXCEPT !.gifted = @ + a].total = x.total
         /\ [x EXCEPT !.gifted = @ + a].paid = x.paid
<1>1. x.gifted + a \in Nat
  BY DEF InvoiceRow
<1> QED BY <1>1 DEF InvoiceRow

(* A gift card's payment is typed. *)
LEMMA GiftTyped ==
  ASSUME Typed, NEW r \in Requests, RedeemGiftCard(r)
  PROVE  Typed'
<1>1. PICK i \in Requests, a \in Nat :
        /\ pc[r] = "idle" /\ pc' = [pc EXCEPT ![r] = "gift"]
        /\ invoice' = [invoice EXCEPT ![i] = [invoice[i] EXCEPT !.gifted = @ + a]]
        /\ UNCHANGED <<order, captured, accounts, revenue, rq, raced>>
  BY GiftEffect
<1>2. [invoice[i] EXCEPT !.gifted = @ + a] \in InvoiceRow
  BY GiftedType DEF Typed, TypeOK
<1>3. TypeOK'
  BY <1>1, <1>2 DEF Typed, TypeOK, Answered
<1>4. CallsBound'
  BY <1>1 DEF Typed, TypeOK, CallsBound, Exists, BusyPC, StatusPC, ItemPC, PayPC, HasBill, Committed
<1> QED BY <1>3, <1>4 DEF Typed

(* So does every step. *)
LEMMA NextTyped == Typed /\ [Next]_vars => Typed'
<1> SUFFICES ASSUME Typed, [Next]_vars PROVE Typed'
  OBVIOUS
<1>1. ASSUME NEW o \in Orders, CreateOrder(o) \/ CreateOrderWithItems(o) PROVE Typed'
  BY <1>1, CreateTyped
<1>2. ASSUME NEW r \in Requests, Arrive(r) PROVE Typed'
  BY <1>2, ArriveTyped
<1>3. ASSUME NEW r \in Requests, Proceed(r) PROVE Typed'
  BY <1>3, StatusTyped, ItemTyped, PaymentTyped DEF Proceed
<1>4. ASSUME NEW r \in Requests, Abort(r) PROVE Typed'
  BY <1>4, FailTyped DEF Abort
<1>5. ASSUME NEW r \in Requests, RedeemGiftCard(r) PROVE Typed'
  BY <1>5, GiftTyped
<1>6. CASE UNCHANGED vars
  BY <1>6 DEF vars, Typed, TypeOK, CallsBound, Exists
<1> QED BY <1>1, <1>2, <1>3, <1>4, <1>5, <1>6 DEF Next

(* Every row and every local variable of a call keeps its type, and a call *)
(* in progress is about an order that exists: no request reads a missing   *)
(* row, however the requests overlap.                                      *)
THEOREM TypeCorrect == Spec => [](TypeOK /\ CallsBound)
<1>1. Init => Typed
  BY InitTyped
<1>2. Typed /\ [Next]_vars => Typed'
  BY NextTyped
<1> QED BY <1>1, <1>2, PTL DEF Spec, Typed

-----------------------------------------------------------------------------
(***************************************************************************)
(* Idempotency keys.  Between its INSERT and its end a payment holds its   *)
(* key alone, so the commit finds no payment with the key.                 *)
(***************************************************************************)
KeysInv == KeysExclusive /\ KeyPaysOnce

(* A step of one request that holds no key afterwards and captures nothing. *)
LEMMA KeysReleased ==
  ASSUME Typed, KeysInv, NEW r \in Requests, NEW to, to \notin HasSum, NEW call,
         pc' = [pc EXCEPT ![r] = to], rq' = [rq EXCEPT ![r] = call], UNCHANGED captured
  PROVE  KeysInv'
BY DEF Typed, TypeOK, KeysInv, KeysExclusive, KeyPaysOnce

(* A step of one request that holds its key before and after. *)
LEMMA KeysHeld ==
  ASSUME Typed, KeysInv, NEW r \in Requests, pc[r] \in HasSum, NEW to, NEW call,
         pc' = [pc EXCEPT ![r] = to], rq' = [rq EXCEPT ![r] = call], UNCHANGED captured,
         call.key = rq[r].key
  PROVE  KeysInv'
BY DEF Typed, TypeOK, KeysInv, KeysExclusive, KeyPaysOnce

(* A request that fails lets go of its key and takes no other. *)
LEMMA KeysFailed ==
  ASSUME Typed, KeysInv, NEW r \in Requests, NEW from, Fail(r, from), UNCHANGED tables
  PROVE  KeysInv'
BY KeysReleased DEF Fail, Move, Forget, HasSum, HasBill, PayPC, tables

(* No step captures a second payment under a key. *)
LEMMA NextKeys == Typed /\ KeysInv /\ [Next]_vars => KeysInv'
<1> SUFFICES ASSUME Typed, KeysInv, [Next]_vars PROVE KeysInv'
  OBVIOUS
<1>1. ASSUME NEW o \in Orders, CreateOrder(o) \/ CreateOrderWithItems(o) PROVE KeysInv'
  BY <1>1, CreateEffect DEF KeysInv, KeysExclusive, KeyPaysOnce
<1>2. ASSUME NEW r \in Requests, Arrive(r) PROVE KeysInv'
  <2>1. \E to \in {"status_read", "item_read", "pay_read"} : \E call : Send(r, to, call)
    BY <1>2 DEF Arrive, SendStatus, SendItem, SendPayment
  <2> QED BY <2>1, KeysReleased DEF Send, Move, tables, HasSum, HasBill, PayPC
<1>3. ASSUME NEW r \in Requests, Proceed(r) PROVE KeysInv'
  <2>1. CASE \E from : Fail(r, from) /\ UNCHANGED tables
    BY <2>1, KeysFailed
  <2>2. CASE (StatusRead(r) \/ ItemRead(r) \/ PayRead(r)) /\ ~\E from : Fail(r, from)
    <3>1. /\ \E from, to : to \notin HasSum /\ Move(r, from, to)
          /\ rq' = [rq EXCEPT ![r].seen = order[rq[r].order]] /\ UNCHANGED tables
      BY <2>2 DEF StatusRead, ItemRead, PayRead, HasSum, HasBill, PayPC
    <3>2. rq' = [rq EXCEPT ![r] = [rq[r] EXCEPT !.seen = order[rq[r].order]]]
      BY <3>1 DEF Typed, TypeOK
    <3> QED BY <3>1, <3>2, KeysReleased DEF Move, tables
  <2>3. CASE StatusWrite(r) \/ ItemWrite(r)
    BY <2>3, KeysReleased
    DEF StatusWrite, ItemWrite, Move, Forget, HasSum, HasBill, PayPC
  <2>4. CASE PayInvoice(r) /\ ~Fail(r, "pay_invoice")
    <3>1. PICK i : Move(r, "pay_invoice", "pay_capture") /\ rq' = [rq EXCEPT ![r].bill = i]
                   /\ UNCHANGED tables
      BY <2>4 DEF PayInvoice
    <3>2. rq' = [rq EXCEPT ![r] = [rq[r] EXCEPT !.bill = i]]
      BY <3>1 DEF Typed, TypeOK
    <3> QED BY <3>1, <3>2, KeysReleased DEF Move, tables, HasSum
  <2>5. CASE PayCapture(r) /\ ~Fail(r, "pay_capture")
    <3>1. /\ pc[r] = "pay_capture" /\ pc' = [pc EXCEPT ![r] = "pay_settle"]
          /\ \E v : rq' = [rq EXCEPT ![r].sum = PaidBefore(r) + rq[r].amount, ![r].verdict = v]
          /\ captured[rq[r].key] = 0 /\ ~KeyReserved(rq[r].key) /\ UNCHANGED captured
      BY <2>5, CaptureEffect DEF Move, tables
    <3>2. \A q \in Requests : rq'[q].key = rq[q].key
      BY <3>1 DEF Typed, TypeOK, Request
    <3>3. \A q \in Requests : pc[q] \in HasSum => rq[q].key # rq[r].key
      BY <3>1 DEF KeyReserved, HasSum, HasBill, PayPC
    <3> QED BY <3>1, <3>2, <3>3 DEF Typed, TypeOK, KeysInv, KeysExclusive, KeyPaysOnce
  <2>6. CASE PaySettle(r) \/ PayOrder(r)
    <3>1. PICK from \in {"pay_settle", "pay_order"}, to \in {"pay_order", "pay_accounts"} :
            Move(r, from, to) /\ UNCHANGED tables /\ rq' = [rq EXCEPT ![r] = rq[r]]
      BY <2>6 DEF PaySettle, PayOrder, Typed, TypeOK
    <3> QED BY <3>1, KeysHeld DEF Move, tables, HasSum, HasBill, PayPC
  <2>7. CASE PayAccounts(r)
    <3>1. rq' = [rq EXCEPT ![r] = [rq[r] EXCEPT !.seeds = BaselineAccounts \ accounts]]
      BY <2>7 DEF PayAccounts, Typed, TypeOK
    <3>2. [rq[r] EXCEPT !.seeds = BaselineAccounts \ accounts].key = rq[r].key
      BY DEF Typed, TypeOK, Request
    <3> QED BY <2>7, <3>1, <3>2, KeysHeld DEF PayAccounts, Move, tables, HasSum, HasBill, PayPC
  <2>8. CASE PayCommit(r)
    <3>1. /\ pc[r] = "pay_commit"
          /\ \E to \in {"ok", "part"} : pc' = [pc EXCEPT ![r] = to]
          /\ captured' = [captured EXCEPT ![rq[r].key] = @ + 1]
          /\ \A q \in Requests \ {r} : rq'[q] = rq[q]
      BY <2>8 DEF PayCommit, Move, Forget, Typed, TypeOK
    <3>2. pc[r] \in HasSum
      BY <3>1 DEF HasSum, HasBill, PayPC
    <3>3. \A q \in Requests : pc'[q] \in HasSum => q # r /\ pc[q] \in HasSum
      BY <3>1 DEF HasSum, HasBill, PayPC, Typed, TypeOK
    <3>4. captured[rq[r].key] = 0 /\ rq[r].key \in Keys
      BY <3>1, <3>2 DEF KeysInv, KeysExclusive, Typed, CallsBound, PayPC
    <3>5. KeyPaysOnce'
      BY <3>1, <3>4 DEF KeysInv, KeyPaysOnce, Typed, TypeOK
    <3>6. KeysExclusive'
      BY <3>1, <3>2, <3>3 DEF KeysInv, KeysExclusive, Typed, TypeOK
    <3> QED BY <3>5, <3>6 DEF KeysInv
  <2> QED
    BY <1>3, <2>1, <2>2, <2>3, <2>4, <2>5, <2>6, <2>7, <2>8
    DEF Proceed, StatusRead, ItemRead, PayRead, PayInvoice, PayCapture, PayDuplicateAccount
<1>4. ASSUME NEW r \in Requests, Abort(r) PROVE KeysInv'
  BY <1>4, KeysFailed DEF Abort
<1>5. ASSUME NEW r \in Requests, RedeemGiftCard(r) PROVE KeysInv'
  <2>1. rq' = [rq EXCEPT ![r] = rq[r]]
    BY <1>5, GiftEffect DEF Typed, TypeOK
  <2> QED BY <1>5, <2>1, GiftEffect, KeysReleased DEF HasSum, HasBill, PayPC
<1>6. CASE UNCHANGED vars
  BY <1>6 DEF vars, KeysInv, KeysExclusive, KeyPaysOnce
<1> QED BY <1>1, <1>2, <1>3, <1>4, <1>5, <1>6 DEF Next

(* No idempotency key captures two payments, also when calls with the same *)
(* key overlap or one of them is rolled back.                              *)
THEOREM KeyOnce == Spec => []KeyPaysOnce
<1>1. Init => KeysInv
  BY DEF Init, KeysInv, KeysExclusive, KeyPaysOnce, HasSum, HasBill, PayPC
<1>2. Typed /\ KeysInv /\ [Next]_vars => KeysInv'
  BY NextKeys
<1>3. KeysInv => KeyPaysOnce
  BY DEF KeysInv
<1> QED BY <1>1, <1>2, <1>3, TypeCorrect, PTL DEF Spec, Typed

-----------------------------------------------------------------------------
(***************************************************************************)
(* Versions.  An increment in the UPDATE itself adds one to the version    *)
(* and one request to the writers of the order in the same step.           *)
(***************************************************************************)

(* A step of one unanswered request that leaves the versions alone. *)
LEMMA VersionsQuiet ==
  ASSUME Typed, VersionCountsWrites, NEW r \in Requests, pc[r] # "ok",
         NEW to, to # "ok", pc' = [pc EXCEPT ![r] = to],
         \A q \in Requests \ {r} : rq'[q] = rq[q],
         \A o \in Orders : Exists(o)' => Exists(o) /\ order'[o].version = order[o].version
  PROVE  VersionCountsWrites'
<1>1. \A o \in Orders : Writers(o)' = Writers(o)
  BY DEF Writers, Typed, TypeOK
<1> QED BY <1>1 DEF VersionCountsWrites

(* A request writes the row of its order and is answered. *)
LEMMA VersionsWrite ==
  ASSUME Typed, VersionCountsWrites, NEW r \in Requests, pc[r] \in BusyPC,
         NEW row \in OrderRow, row.version = order[rq[r].order].version + 1,
         order' = [order EXCEPT ![rq[r].order] = row],
         pc' = [pc EXCEPT ![r] = "ok"], Forget(r)
  PROVE  VersionCountsWrites'
<1> DEFINE mine == rq[r].order
<1>1. mine \in Orders /\ Exists(mine) /\ order[mine] \in OrderRow
  BY RowType
<1>2. /\ \A q \in Requests : rq'[q].order = rq[q].order
      /\ pc[r] # "ok"
  BY DEF Forget, Typed, TypeOK, Request, Idle, BusyPC, StatusPC, ItemPC, PayPC
<1>3. Writers(mine)' = Writers(mine) \cup {r} /\ r \notin Writers(mine)
  BY <1>2 DEF Writers, Typed, TypeOK
<1>4. IsFiniteSet(Writers(mine))
  BY RequestsAssumption, FS_Subset DEF Writers
<1>5. Cardinality(Writers(mine)') = Cardinality(Writers(mine)) + 1
  BY <1>3, <1>4, FS_AddElement
<1>6. Cardinality(Writers(mine)) \in Nat
  BY <1>4, FS_CardinalityType
<1>7. order'[mine].version = 1 + Cardinality(Writers(mine)')
  BY <1>1, <1>5, <1>6 DEF VersionCountsWrites, Typed, TypeOK
<1>8. \A o \in Orders \ {mine} : Writers(o)' = Writers(o) /\ order'[o] = order[o]
  BY <1>2 DEF Writers, Typed, TypeOK
<1>9. ASSUME NEW o \in Orders, Exists(o)'
      PROVE  order'[o].version = 1 + Cardinality(Writers(o)')
  <2>1. CASE o = mine
    <3>1. Writers(o)' = Writers(mine)'
      BY <2>1, <1>2 DEF Writers
    <3> QED BY <1>7, <2>1, <3>1
  <2>2. CASE o # mine
    <3>1. Writers(o)' = Writers(o) /\ order'[o] = order[o]
      BY <1>8, <2>2
    <3>2. order[o].version = 1 + Cardinality(Writers(o))
      BY <1>9, <3>1 DEF VersionCountsWrites, Exists
    <3> QED BY <3>1, <3>2
  <2> QED BY <2>1, <2>2
<1> HIDE DEF mine
<1> QED BY <1>9 DEF VersionCountsWrites

(* A request that fails has not written the order row. *)
LEMMA VersionsFailed ==
  ASSUME Typed, VersionCountsWrites, NEW r \in Requests, NEW from \in BusyPC,
         Fail(r, from), UNCHANGED tables
  PROVE  VersionCountsWrites'
<1>1. pc[r] # "ok" /\ pc' = [pc EXCEPT ![r] = "failed"] /\ UNCHANGED order
  BY DEF Fail, Move, BusyPC, StatusPC, ItemPC, PayPC, tables
<1>2. \A q \in Requests \ {r} : rq'[q] = rq[q]
  BY DEF Fail, Forget, Typed, TypeOK
<1> QED BY <1>1, <1>2, VersionsQuiet DEF Exists

(* Each step counts a version exactly when a request ends that wrote the order row. *)
LEMMA NextVersions == Typed /\ VersionCountsWrites /\ [Next]_vars => VersionCountsWrites'
<1> SUFFICES ASSUME Typed, VersionCountsWrites, [Next]_vars PROVE VersionCountsWrites'
  OBVIOUS
<1>1. ASSUME NEW o \in Orders, CreateOrder(o) \/ CreateOrderWithItems(o)
      PROVE  VersionCountsWrites'
  <2>1. PICK row \in OrderRow :
          /\ ~Exists(o) /\ order' = [order EXCEPT ![o] = row] /\ row.version = 1
          /\ UNCHANGED <<pc, rq>>
    BY <1>1, CreateEffect
  <2>2. Writers(o) = {}
    BY <2>1 DEF Writers, Typed, CallsBound, Committed
  <2>3. Writers(o)' = {} /\ order'[o].version = 1
    BY <2>1, <2>2 DEF Writers, Typed, TypeOK
  <2>4. order'[o].version = 1 + Cardinality(Writers(o)')
    BY <2>3, FS_EmptySet
  <2>5. \A x \in Orders \ {o} : order'[x] = order[x] /\ Writers(x)' = Writers(x)
    BY <2>1 DEF Writers, Typed, TypeOK
  <2> QED BY <2>4, <2>5 DEF VersionCountsWrites, Exists
<1>2. ASSUME NEW r \in Requests, Arrive(r) PROVE VersionCountsWrites'
  <2>1. \E to \in {"status_read", "item_read", "pay_read"} : \E call : Send(r, to, call)
    BY <1>2 DEF Arrive, SendStatus, SendItem, SendPayment
  <2> QED BY <2>1, VersionsQuiet DEF Send, Move, tables, Typed, TypeOK, Exists
<1>3. ASSUME NEW r \in Requests, Proceed(r) PROVE VersionCountsWrites'
  <2>1. CASE \E from \in BusyPC : Fail(r, from) /\ UNCHANGED tables
    BY <2>1, VersionsFailed
  <2>2. CASE \E from, to \in BusyPC : /\ Move(r, from, to) /\ UNCHANGED tables
                                      /\ \A q \in Requests \ {r} : rq'[q] = rq[q]
    BY <2>2, VersionsQuiet DEF Move, BusyPC, StatusPC, ItemPC, PayPC, tables, Exists
  <2>3. CASE StatusWrite(r)
    <3> DEFINE row == [order[rq[r].order] EXCEPT !.status = rq[r].to, !.version = @ + 1]
    <3>1. pc[r] \in BusyPC /\ pc' = [pc EXCEPT ![r] = "ok"] /\ Forget(r) /\ rq[r].to \in OrderStatus
      BY <2>3 DEF StatusWrite, Move, BusyPC, StatusPC, Typed, CallsBound
    <3>2. order[rq[r].order] \in OrderRow /\ rq[r].order \in Orders
      BY <3>1, RowType
    <3>3. row \in OrderRow
      BY <3>1, <3>2, StatusUpdateType
    <3>4. row.version = order[rq[r].order].version + 1
      BY <3>2 DEF OrderRow
    <3>5. order' = [order EXCEPT ![rq[r].order] = row]
      BY <2>3, <3>2 DEF StatusWrite, Typed, TypeOK
    <3> HIDE DEF row
    <3> QED BY <3>1, <3>3, <3>4, <3>5, VersionsWrite
  <2>4. CASE ItemWrite(r)
    <3> DEFINE row == ItemUpdate(order[rq[r].order], rq[r].seen.total + rq[r].amount, rq[r].amount)
    <3>1. pc[r] \in BusyPC /\ pc' = [pc EXCEPT ![r] = "ok"] /\ Forget(r)
      BY <2>4 DEF ItemWrite, Move, BusyPC, ItemPC
    <3>2. /\ order[rq[r].order] \in OrderRow /\ rq[r].order \in Orders
          /\ rq[r].seen.total + rq[r].amount \in Nat /\ rq[r].amount \in Nat
      BY <3>1, RowType DEF Request, OrderRow
    <3>3. row \in OrderRow
      BY <3>2, ItemUpdateType
    <3>4. row.version = order[rq[r].order].version + 1
      BY <3>2 DEF OrderRow, ItemUpdate
    <3>5. order' = [order EXCEPT ![rq[r].order] = row]
      BY <2>4, <3>2 DEF ItemWrite, Typed, TypeOK, ItemUpdate
    <3> HIDE DEF row
    <3> QED BY <3>1, <3>3, <3>4, <3>5, VersionsWrite
  <2>5. CASE PayCommit(r) /\ FullyPaid(r)
    <3> DEFINE row == [order[rq[r].order] EXCEPT !.status = "PAID", !.version = @ + 1]
    <3>1. pc[r] \in BusyPC /\ pc' = [pc EXCEPT ![r] = "ok"] /\ Forget(r) /\ "PAID" \in OrderStatus
      BY <2>5 DEF PayCommit, Move, BusyPC, StatusPC, ItemPC, PayPC, OrderStatus
    <3>2. order[rq[r].order] \in OrderRow /\ rq[r].order \in Orders
      BY <3>1, RowType
    <3>3. row \in OrderRow
      BY <3>1, <3>2, StatusUpdateType
    <3>4. row.version = order[rq[r].order].version + 1
      BY <3>2 DEF OrderRow
    <3>5. order' = [order EXCEPT ![rq[r].order] = row]
      BY <2>5, <3>2 DEF PayCommit, Typed, TypeOK
    <3> HIDE DEF row
    <3> QED BY <3>1, <3>3, <3>4, <3>5, VersionsWrite
  <2>6. CASE PayCommit(r) /\ ~FullyPaid(r)
    BY <2>6, VersionsQuiet DEF PayCommit, Move, Forget, Typed, TypeOK, Exists
  <2>7. (StatusRead(r) \/ ItemRead(r) \/ PayRead(r) \/ PayInvoice(r) \/ PayCapture(r)
           \/ PaySettle(r) \/ PayOrder(r) \/ PayAccounts(r) \/ PayDuplicateAccount(r))
        => \/ \E from \in BusyPC : Fail(r, from) /\ UNCHANGED tables
           \/ \E from, to \in BusyPC : /\ Move(r, from, to) /\ UNCHANGED tables
                                       /\ \A q \in Requests \ {r} : rq'[q] = rq[q]
    BY DEF StatusRead, ItemRead, PayRead, PayInvoice, PayCapture, PaySettle, PayOrder, PayAccounts,
           PayDuplicateAccount, BusyPC, StatusPC, ItemPC, PayPC, Typed, TypeOK
  <2> QED BY <1>3, <2>1, <2>2, <2>3, <2>4, <2>5, <2>6, <2>7 DEF Proceed
<1>4. ASSUME NEW r \in Requests, Abort(r) PROVE VersionCountsWrites'
  BY <1>4, VersionsFailed DEF Abort
<1>5. ASSUME NEW r \in Requests, RedeemGiftCard(r) PROVE VersionCountsWrites'
  BY <1>5, GiftEffect, VersionsQuiet DEF Exists
<1>6. CASE UNCHANGED vars
  BY <1>6 DEF vars, VersionCountsWrites, Exists, Writers
<1> QED BY <1>1, <1>2, <1>3, <1>4, <1>5, <1>6 DEF Next

(* The version of an order counts every write of its row: no increment is  *)
(* lost, however status changes, added items and payments overlap.         *)
THEOREM VersionsCount == Spec => []VersionCountsWrites
<1>1. Init => VersionCountsWrites
  BY DEF Init, VersionCountsWrites, Exists, NoRow
<1>2. Typed /\ VersionCountsWrites /\ [Next]_vars => VersionCountsWrites'
  BY NextVersions
<1> QED BY <1>1, <1>2, TypeCorrect, PTL DEF Spec, Typed

-----------------------------------------------------------------------------
(***************************************************************************)
(* Billing.  The items of an order and the payments of a committed invoice *)
(* only grow, and nobody replaces a committed invoice; so what a call read *)
(* is a lower bound of what its commit finds.                              *)
(***************************************************************************)
BillInv ==
  /\ AbsentOrders
  /\ InvoicesCommitted
  /\ ReadsLagBehind
  /\ NeverOverbilled
  /\ PaidInvoiceCovered

(* What BillInv says of one call and of the tables. *)
CallLags(r) ==
  /\ pc[r] \in HasBill /\ rq[r].bill # r => pc[rq[r].bill] \in Committed
  /\ pc[r] \in HasSeen => rq[r].seen.total <= order[rq[r].order].items
  /\ pc[r] \in HasSum => rq[r].sum <= PaidBefore(r) + rq[r].amount
  /\ pc[r] \in HasSum /\ FullyPaid(r) => rq[r].sum >= BillTotal(r)

RowsBilled ==
  /\ \A o \in Orders : ~Exists(o) => order[o] = NoRow
  /\ \A o \in Orders : order[o].total <= order[o].items
  /\ \A i \in Requests : invoice[i].order # None => pc[i] \in Committed
  /\ \A i \in Requests : \A o \in Orders :
       invoice[i].order = o => invoice[i].total <= order[o].items
  /\ \A i \in Requests :
       invoice[i].status = "PAID" => invoice[i].paid + invoice[i].gifted >= invoice[i].total

(* BillInv, now and after a step, is a fact of the rows and one of each request. *)
LEMMA BillParts ==
  /\ BillInv => RowsBilled /\ \A r \in Requests : CallLags(r)
  /\ RowsBilled' /\ (\A r \in Requests : CallLags(r)') => BillInv'
BY DEF BillInv, RowsBilled, CallLags, AbsentOrders, InvoicesCommitted, ReadsLagBehind,
       NeverOverbilled, PaidInvoiceCovered

(* Nobody loses items, nobody loses an answer, no committed invoice loses payments. *)
Grows ==
  /\ \A o \in Orders : order[o].items <= order'[o].items
  /\ \A i \in Requests : pc[i] \in Committed =>
       /\ pc'[i] \in Committed
       /\ invoice'[i].total = invoice[i].total
       /\ invoice[i].paid <= invoice'[i].paid
       /\ invoice[i].gifted <= invoice'[i].gifted

(* What a request has read still lags behind when the rows have only grown. *)
LEMMA OtherLags ==
  ASSUME Typed, Typed', Grows, NEW q \in Requests, CallLags(q), pc'[q] = pc[q], rq'[q] = rq[q]
  PROVE  CallLags(q)'
<1>1. ASSUME pc[q] \in HasBill, rq[q].bill # q
      PROVE  /\ rq[q].bill \in Requests
             /\ pc[rq[q].bill] \in Committed /\ pc'[rq[q].bill] \in Committed
             /\ invoice'[rq[q].bill].total = invoice[rq[q].bill].total
             /\ invoice[rq[q].bill].paid <= invoice'[rq[q].bill].paid
             /\ invoice[rq[q].bill].gifted <= invoice'[rq[q].bill].gifted
  BY <1>1, BillType DEF CallLags, Grows
<1>2. ASSUME pc[q] \in HasSeen
      PROVE  rq[q].seen.total <= order'[rq[q].order].items
  <2>1. rq[q] \in Request /\ rq[q].order \in Orders
    BY <1>2, RowType DEF HasSeen, BusyPC, StatusPC, ItemPC, PayPC
  <2>2. order[rq[q].order] \in OrderRow /\ order'[rq[q].order] \in OrderRow
    BY <2>1 DEF Typed, TypeOK
  <2> QED BY <1>2, <2>1, <2>2 DEF CallLags, Grows, OrderRow, Request
<1>3. ASSUME pc[q] \in HasSum
      PROVE  rq[q].sum <= (IF rq[q].bill = q THEN 0
                           ELSE invoice'[rq[q].bill].paid + invoice'[rq[q].bill].gifted) + rq[q].amount
  <2>1. pc[q] \in HasBill /\ rq[q] \in Request
    BY <1>3 DEF HasSum, Typed, TypeOK
  <2>2. rq[q].bill \in Requests
    BY <2>1, BillType
  <2>3. /\ invoice[rq[q].bill].paid \in Nat /\ invoice'[rq[q].bill].paid \in Nat
        /\ invoice[rq[q].bill].gifted \in Nat /\ invoice'[rq[q].bill].gifted \in Nat
    BY <2>2 DEF Typed, TypeOK, InvoiceRow
  <2>4. rq[q].sum \in Nat /\ rq[q].amount \in Nat
    BY <2>1 DEF Request
  <2>5. rq[q].sum <= PaidBefore(q) + rq[q].amount
    BY <1>3 DEF CallLags
  <2> QED BY <1>1, <2>1, <2>3, <2>4, <2>5 DEF PaidBefore
<1>4. ASSUME pc[q] \in HasSum, FullyPaid(q)
      PROVE  rq[q].sum >= BillTotal(q)'
  <2>1. pc[q] \in HasBill
    BY <1>4 DEF HasSum
  <2>2. BillTotal(q)' = BillTotal(q)
    BY <1>1, <2>1 DEF BillTotal
  <2> QED BY <1>4, <2>2 DEF CallLags
<1> QED BY <1>1, <1>2, <1>3, <1>4 DEF CallLags, PaidBefore, FullyPaid

(* A step inside a call, or its rollback: the tables stay. *)
LEMMA BillQuiet ==
  ASSUME Typed, Typed', BillInv, NEW r \in Requests, pc[r] \notin Committed, UNCHANGED tables,
         NEW to, pc' = [pc EXCEPT ![r] = to],
         \A q \in Requests \ {r} : rq'[q] = rq[q],
         CallLags(r)'
  PROVE  BillInv'
<1>1. \A q \in Requests \ {r} : pc'[q] = pc[q]
  BY DEF Typed, TypeOK
<1>2. Grows
  BY <1>1 DEF Grows, tables, Typed, TypeOK, OrderRow, InvoiceRow
<1>3. \A q \in Requests : CallLags(q)'
  BY <1>1, <1>2, OtherLags, BillParts
<1>4. RowsBilled'
  BY <1>1, BillParts DEF RowsBilled, tables, Exists
<1> QED BY <1>3, <1>4, BillParts

(* A request that fails leaves the bill as it is. *)
LEMMA BillFailed ==
  ASSUME Typed, Typed', BillInv, NEW r \in Requests, NEW from \in BusyPC,
         Fail(r, from), UNCHANGED tables
  PROVE  BillInv'
<1>1. pc[r] \notin Committed /\ pc' = [pc EXCEPT ![r] = "failed"] /\ pc'[r] = "failed"
  BY DEF Fail, Move, BusyPC, StatusPC, ItemPC, PayPC, Committed, Typed, TypeOK
<1>2. \A q \in Requests \ {r} : rq'[q] = rq[q]
  BY DEF Fail, Forget, Typed, TypeOK
<1>3. CallLags(r)'
  BY <1>1 DEF CallLags, HasSeen, HasBill, HasSum, PayPC
<1> QED BY <1>1, <1>2, <1>3, BillQuiet

(* The total of a new order is that of its items. *)
LEMMA BillCreated ==
  ASSUME Typed, Typed', BillInv, NEW o \in Orders, CreateOrder(o) \/ CreateOrderWithItems(o)
  PROVE  BillInv'
<1>1. PICK row \in OrderRow :
        /\ ~Exists(o)
        /\ order' = [order EXCEPT ![o] = row]
        /\ row.status # "ABSENT" /\ row.version = 1 /\ row.total = row.items
        /\ UNCHANGED <<invoice, captured, accounts, revenue, pc, rq, raced>>
  BY CreateEffect
<1>2. order[o].items = 0 /\ row.items \in Nat /\ row.total \in Nat
  BY <1>1, BillParts DEF RowsBilled, NoRow, OrderRow
<1>3. \A x \in Orders : order[x].items <= order'[x].items
  BY <1>1, <1>2 DEF Typed, TypeOK, OrderRow
<1>4. Grows
  BY <1>1, <1>3 DEF Grows, Typed, TypeOK, InvoiceRow
<1>5. \A q \in Requests : CallLags(q)'
  BY <1>1, <1>4, OtherLags, BillParts
<1>6. RowsBilled'
  <2>1. \A x \in Orders : order'[x] = IF x = o THEN row ELSE order[x]
    BY <1>1 DEF Typed, TypeOK
  <2>2. \A x \in Orders : ~Exists(x)' => order'[x] = NoRow
    BY <1>1, <2>1, BillParts DEF RowsBilled, Exists
  <2>3. \A x \in Orders : order'[x].total <= order'[x].items
    BY <1>1, <1>2, <2>1, BillParts DEF RowsBilled
  <2>4. \A i \in Requests : \A x \in Orders :
          invoice'[i].order = x => invoice'[i].total <= order'[x].items
    <3> SUFFICES ASSUME NEW i \in Requests, NEW x \in Orders, invoice[i].order = x
                 PROVE  invoice[i].total <= order'[x].items
      BY <1>1
    <3>1. invoice[i].total <= order[x].items /\ order[x].items <= order'[x].items
      BY <1>3, BillParts DEF RowsBilled
    <3>2. invoice[i].total \in Nat /\ order[x].items \in Nat /\ order'[x].items \in Nat
      BY DEF Typed, TypeOK, InvoiceRow, OrderRow
    <3> QED BY <3>1, <3>2
  <2> QED BY <1>1, <2>2, <2>3, <2>4, BillParts DEF RowsBilled
<1> QED BY <1>5, <1>6, BillParts

(* A status change or an added item: the row's items do not shrink and cover its total. *)
LEMMA BillWritten ==
  ASSUME Typed, Typed', BillInv, NEW r \in Requests, pc[r] \in BusyPC,
         NEW row \in OrderRow, row.status # "ABSENT",
         order[rq[r].order].items <= row.items, row.total <= row.items,
         order' = [order EXCEPT ![rq[r].order] = row],
         pc' = [pc EXCEPT ![r] = "ok"], Forget(r), UNCHANGED invoice
  PROVE  BillInv'
<1> DEFINE mine == rq[r].order
<1>1. mine \in Orders /\ order[mine] \in OrderRow /\ pc[r] \notin Committed /\ pc'[r] = "ok"
  BY RowType DEF BusyPC, StatusPC, ItemPC, PayPC, Committed, Typed, TypeOK
<1>2. \A q \in Requests \ {r} : pc'[q] = pc[q] /\ rq'[q] = rq[q]
  BY DEF Forget, Typed, TypeOK
<1>3. \A x \in Orders : order'[x] = IF x = mine THEN row ELSE order[x]
  BY <1>1 DEF Typed, TypeOK
<1> HIDE DEF mine
<1>4. \A x \in Orders : order[x].items <= order'[x].items
  BY <1>3 DEF Typed, TypeOK, OrderRow, mine
<1>5. Grows
  BY <1>1, <1>2, <1>4 DEF Grows, Typed, TypeOK, InvoiceRow
<1>6. ASSUME NEW q \in Requests PROVE CallLags(q)'
  <2>1. CASE q = r
    BY <1>1, <2>1 DEF CallLags, HasSeen, HasBill, HasSum, PayPC
  <2>2. CASE q # r
    BY <1>2, <1>5, <2>2, OtherLags, BillParts
  <2> QED BY <2>1, <2>2
<1>7. RowsBilled'
  <2>1. \A x \in Orders : ~Exists(x)' => order'[x] = NoRow
    BY <1>3, BillParts DEF RowsBilled, Exists
  <2>2. \A x \in Orders : order'[x].total <= order'[x].items
    BY <1>3, BillParts DEF RowsBilled
  <2>3. \A i \in Requests : \A x \in Orders :
          invoice'[i].order = x => invoice'[i].total <= order'[x].items
    <3> SUFFICES ASSUME NEW i \in Requests, NEW x \in Orders, invoice[i].order = x
                 PROVE  invoice[i].total <= order'[x].items
      OBVIOUS
    <3>1. invoice[i].total <= order[x].items /\ order[x].items <= order'[x].items
      BY <1>4, BillParts DEF RowsBilled
    <3>2. invoice[i].total \in Nat /\ order[x].items \in Nat /\ order'[x].items \in Nat
      BY DEF Typed, TypeOK, InvoiceRow, OrderRow
    <3> QED BY <3>1, <3>2
  <2>4. \A i \in Requests : invoice'[i].order # None => pc'[i] \in Committed
    BY <1>1, <1>2, BillParts DEF RowsBilled
  <2> QED BY <2>1, <2>2, <2>3, <2>4, BillParts DEF RowsBilled
<1> QED BY <1>6, <1>7, BillParts

(* A payment commits: it inserts its invoice, or adds to a committed one. *)
LEMMA BillSettled ==
  ASSUME Typed, Typed', BillInv, NEW r \in Requests, PayCommit(r)
  PROVE  BillInv'
<1> DEFINE bill == rq[r].bill
           mine == rq[r].order
           new == SettledInvoice(r)
<1>1. pc[r] = "pay_commit" /\ pc'[r] \in Committed /\ Forget(r)
  BY DEF PayCommit, Move, Committed, Typed, TypeOK
<1>2. pc[r] \in HasBill /\ pc[r] \in HasSum /\ pc[r] \in HasSeen /\ pc[r] \notin Committed
  BY <1>1 DEF HasBill, HasSum, HasSeen, PayPC, Committed
<1>3. /\ bill \in Requests /\ rq[r] \in Request /\ mine \in Orders
      /\ new \in InvoiceRow /\ BillTotal(r) \in Nat /\ PaidBefore(r) \in Nat
      /\ order[mine] \in OrderRow /\ Exists(mine)
  BY <1>2, BillType, RowType
<1>4. CallLags(r)
  BY BillParts
<1>5. /\ new.total = BillTotal(r) /\ new.paid + new.gifted = PaidBefore(r) + rq[r].amount
      /\ new.status = rq[r].verdict
      /\ new.order = IF bill = r THEN mine ELSE invoice[bill].order
      /\ bill # r => new.paid = invoice[bill].paid + rq[r].amount /\ new.gifted = invoice[bill].gifted
  <2>1. invoice[bill] \in InvoiceRow
    BY <1>3 DEF Typed, TypeOK
  <2>2. CASE bill = r
    BY <1>3, <2>2 DEF SettledInvoice, BillTotal, PaidBefore, Request
  <2>3. CASE bill # r
    BY <1>3, <2>1, <2>3 DEF SettledInvoice, BillTotal, PaidBefore, InvoiceRow, Request
  <2> QED BY <2>2, <2>3
<1>6. \A q \in Requests \ {r} : pc'[q] = pc[q] /\ rq'[q] = rq[q]
  BY DEF PayCommit, Move, Forget, Typed, TypeOK
<1>7. \A i \in Requests : invoice'[i] = IF i = bill THEN new ELSE invoice[i]
  BY <1>3 DEF PayCommit, Typed, TypeOK
<1>8. \A x \in Orders : /\ order'[x].items = order[x].items
                        /\ order'[x].total = order[x].total
                        /\ Exists(x)' <=> Exists(x)
                        /\ ~Exists(x) => order'[x] = order[x]
  BY <1>3 DEF PayCommit, Exists, Typed, TypeOK, OrderRow
<1> HIDE DEF bill, mine, new
<1>9. Grows
  <2>1. \A x \in Orders : order[x].items <= order'[x].items
    BY <1>8 DEF Typed, TypeOK, OrderRow
  <2>2. ASSUME NEW i \in Requests, pc[i] \in Committed
        PROVE  /\ pc'[i] \in Committed /\ invoice'[i].total = invoice[i].total
               /\ invoice[i].paid <= invoice'[i].paid /\ invoice[i].gifted <= invoice'[i].gifted
    <3>1. i # r /\ invoice[i].paid \in Nat /\ invoice[i].gifted \in Nat
      BY <1>2, <2>2 DEF Typed, TypeOK, InvoiceRow
    <3>2. CASE i = bill
      BY <1>3, <1>5, <1>6, <1>7, <2>2, <3>1, <3>2 DEF BillTotal, bill, Request
    <3>3. CASE i # bill
      BY <1>6, <1>7, <2>2, <3>1, <3>3
    <3> QED BY <3>2, <3>3
  <2> QED BY <2>1, <2>2 DEF Grows
<1>10. ASSUME NEW q \in Requests PROVE CallLags(q)'
  <2>1. CASE q = r
    BY <1>1, <2>1 DEF CallLags, HasSeen, HasBill, HasSum, PayPC, Committed
  <2>2. CASE q # r
    BY <1>6, <1>9, <2>2, OtherLags, BillParts
  <2> QED BY <2>1, <2>2
<1>11. RowsBilled'
  <2>1. \A x \in Orders : ~Exists(x)' => order'[x] = NoRow
    BY <1>8, BillParts DEF RowsBilled
  <2>2. \A x \in Orders : order'[x].total <= order'[x].items
    BY <1>8, BillParts DEF RowsBilled
  <2>3. \A i \in Requests : invoice'[i].order # None => pc'[i] \in Committed
    <3>1. pc'[bill] \in Committed
      BY <1>1, <1>2, <1>4, <1>6, <1>3 DEF CallLags, bill
    <3> QED BY <1>1, <1>6, <1>7, <3>1, BillParts DEF RowsBilled
  <2>4. ASSUME NEW i \in Requests, NEW x \in Orders, invoice'[i].order = x
        PROVE  invoice'[i].total <= order'[x].items
    <3>1. CASE i = bill /\ bill = r
      <4>1. x = mine /\ invoice'[i].total = rq[r].seen.total
        BY <1>5, <1>7, <2>4, <3>1 DEF BillTotal, bill
      <4>2. rq[r].seen.total <= order[mine].items
        BY <1>2, <1>4 DEF CallLags, mine
      <4> QED BY <1>8, <4>1, <4>2
    <3>2. CASE i = bill /\ bill # r
      BY <1>5, <1>7, <1>8, <2>4, <3>2, BillParts DEF RowsBilled, BillTotal, bill
    <3>3. CASE i # bill
      BY <1>7, <1>8, <2>4, <3>3, BillParts DEF RowsBilled
    <3> QED BY <3>1, <3>2, <3>3
  <2>5. ASSUME NEW i \in Requests, invoice'[i].status = "PAID"
        PROVE  invoice'[i].paid + invoice'[i].gifted >= invoice'[i].total
    <3>1. CASE i = bill
      <4>1. FullyPaid(r)
        BY <1>5, <1>7, <2>5, <3>1 DEF FullyPaid
      <4>2. rq[r].sum >= BillTotal(r) /\ rq[r].sum <= PaidBefore(r) + rq[r].amount
        BY <1>2, <1>4, <4>1 DEF CallLags
      <4>3. rq[r].sum \in Nat /\ rq[r].amount \in Nat
        BY <1>3 DEF Request
      <4> QED BY <1>3, <1>5, <1>7, <3>1, <4>2, <4>3
    <3>2. CASE i # bill
      BY <1>7, <2>5, <3>2, BillParts DEF RowsBilled
    <3> QED BY <3>1, <3>2
  <2> QED BY <2>1, <2>2, <2>3, <2>4, <2>5 DEF RowsBilled
<1> QED BY <1>10, <1>11, BillParts

(* A gift card only adds to what an invoice has been paid. *)
LEMMA BillGifted ==
  ASSUME Typed, Typed', BillInv, NEW r \in Requests, RedeemGiftCard(r)
  PROVE  BillInv'
<1>1. PICK i \in Requests, a \in Nat :
        /\ invoice[i].order # None
        /\ pc[r] = "idle" /\ pc' = [pc EXCEPT ![r] = "gift"]
        /\ invoice' = [invoice EXCEPT ![i] = [invoice[i] EXCEPT !.gifted = @ + a]]
        /\ UNCHANGED <<order, captured, accounts, revenue, rq, raced>>
  BY GiftEffect
<1>2. \A j \in Requests :
        /\ invoice'[j].order = invoice[j].order /\ invoice'[j].status = invoice[j].status
        /\ invoice'[j].total = invoice[j].total /\ invoice'[j].paid = invoice[j].paid
        /\ invoice'[j].gifted \in Nat /\ invoice[j].gifted <= invoice'[j].gifted
  <2> SUFFICES ASSUME NEW j \in Requests
               PROVE  /\ invoice'[j].order = invoice[j].order
                      /\ invoice'[j].status = invoice[j].status
                      /\ invoice'[j].total = invoice[j].total
                      /\ invoice'[j].paid = invoice[j].paid
                      /\ invoice'[j].gifted \in Nat /\ invoice[j].gifted <= invoice'[j].gifted
    OBVIOUS
  <2>1. invoice[j] \in InvoiceRow /\ invoice[j].gifted \in Nat
    BY DEF Typed, TypeOK, InvoiceRow
  <2>2. invoice'[j] = IF j = i THEN [invoice[j] EXCEPT !.gifted = @ + a] ELSE invoice[j]
    BY <1>1 DEF Typed, TypeOK
  <2> QED BY <2>1, <2>2, GiftedType
<1>3. \A q \in Requests : pc[q] # "idle" => pc'[q] = pc[q]
  BY <1>1 DEF Typed, TypeOK
<1>4. pc'[r] = "gift"
  BY <1>1 DEF Typed, TypeOK
<1>5. Grows
  BY <1>1, <1>2, <1>3 DEF Grows, Committed, Typed, TypeOK, OrderRow, InvoiceRow
<1>6. ASSUME NEW q \in Requests PROVE CallLags(q)'
  <2>1. CASE q = r
    BY <1>4, <2>1 DEF CallLags, HasSeen, HasBill, HasSum, PayPC
  <2>2. CASE q # r
    <3>1. pc'[q] = pc[q] /\ rq'[q] = rq[q]
      BY <1>1, <2>2 DEF Typed, TypeOK
    <3> QED BY <1>5, <3>1, OtherLags, BillParts
  <2> QED BY <2>1, <2>2
<1>7. RowsBilled'
  <2>1. \A j \in Requests :
          invoice'[j].status = "PAID" => invoice'[j].paid + invoice'[j].gifted >= invoice'[j].total
    BY <1>2, BillParts DEF RowsBilled, Typed, TypeOK, InvoiceRow
  <2>2. \A j \in Requests : invoice'[j].order # None => pc'[j] \in Committed
    BY <1>2, <1>3, BillParts DEF RowsBilled, Committed
  <2>3. \A x \in Orders : order'[x] = order[x] /\ (Exists(x)' <=> Exists(x))
    BY <1>1 DEF Exists
  <2> QED BY <1>2, <2>1, <2>2, <2>3, BillParts DEF RowsBilled
<1> QED BY <1>6, <1>7, BillParts

(* No step bills more than was ordered or lets a decision rest on too large a sum. *)
LEMMA NextBill == Typed /\ Typed' /\ BillInv /\ [Next]_vars => BillInv'
<1> SUFFICES ASSUME Typed, Typed', BillInv, [Next]_vars PROVE BillInv'
  OBVIOUS
<1>1. ASSUME NEW o \in Orders, CreateOrder(o) \/ CreateOrderWithItems(o) PROVE BillInv'
  BY <1>1, BillCreated
<1>2. ASSUME NEW r \in Requests, Arrive(r) PROVE BillInv'
  <2>1. PICK to \in {"status_read", "item_read", "pay_read"} : \E call : Send(r, to, call)
    BY <1>2 DEF Arrive, SendStatus, SendItem, SendPayment
  <2>2. pc[r] \notin Committed /\ pc' = [pc EXCEPT ![r] = to] /\ UNCHANGED tables
        /\ pc'[r] = to /\ \A q \in Requests \ {r} : rq'[q] = rq[q]
    BY <2>1 DEF Send, Move, Committed, Typed, TypeOK
  <2>3. CallLags(r)'
    BY <2>2 DEF CallLags, HasSeen, HasBill, HasSum, PayPC
  <2> QED BY <2>2, <2>3, BillQuiet
<1>3. ASSUME NEW r \in Requests, Proceed(r) PROVE BillInv'
  <2>1. CASE \E from \in BusyPC : Fail(r, from) /\ UNCHANGED tables
    BY <2>1, BillFailed
  <2>2. CASE StatusWrite(r)
    <3> DEFINE row == [order[rq[r].order] EXCEPT !.status = rq[r].to, !.version = @ + 1]
    <3>1. pc[r] \in BusyPC /\ pc' = [pc EXCEPT ![r] = "ok"] /\ Forget(r) /\ rq[r].to \in OrderStatus
      BY <2>2 DEF StatusWrite, Move, BusyPC, StatusPC, Typed, CallsBound
    <3>2. order[rq[r].order] \in OrderRow /\ rq[r].order \in Orders
      BY <3>1, RowType
    <3>3. row \in OrderRow /\ row.status # "ABSENT"
      BY <3>1, <3>2, StatusUpdateType
    <3>4. row.items = order[rq[r].order].items /\ row.total = order[rq[r].order].total
      BY <3>2 DEF OrderRow
    <3>5. order[rq[r].order].items <= row.items /\ row.total <= row.items
      BY <3>2, <3>4, BillParts DEF RowsBilled, OrderRow
    <3>6. order' = [order EXCEPT ![rq[r].order] = row] /\ UNCHANGED invoice
      BY <2>2, <3>2 DEF StatusWrite, Typed, TypeOK
    <3> HIDE DEF row
    <3> QED BY <3>1, <3>3, <3>5, <3>6, BillWritten
  <2>3. CASE ItemWrite(r)
    <3> DEFINE row == ItemUpdate(order[rq[r].order], rq[r].seen.total + rq[r].amount, rq[r].amount)
    <3>1. pc[r] \in BusyPC /\ pc' = [pc EXCEPT ![r] = "ok"] /\ Forget(r) /\ pc[r] \in HasSeen
      BY <2>3 DEF ItemWrite, Move, BusyPC, ItemPC, HasSeen
    <3>2. /\ order[rq[r].order] \in OrderRow /\ rq[r].order \in Orders
          /\ order[rq[r].order].status # "ABSENT"
          /\ rq[r].amount \in Nat /\ rq[r].seen.total \in Nat
          /\ rq[r].seen.total + rq[r].amount \in Nat
      BY <3>1, RowType DEF Request, OrderRow, Exists
    <3>3. row \in OrderRow /\ row.status # "ABSENT"
      BY <3>2, ItemUpdateType
    <3>4. /\ row.items = order[rq[r].order].items + rq[r].amount
          /\ row.total = rq[r].seen.total + rq[r].amount
      BY <3>2 DEF OrderRow, ItemUpdate
    <3>5. rq[r].seen.total <= order[rq[r].order].items
      BY <3>1, BillParts DEF CallLags
    <3>6. order[rq[r].order].items <= row.items /\ row.total <= row.items
      BY <3>2, <3>4, <3>5 DEF OrderRow
    <3>7. order' = [order EXCEPT ![rq[r].order] = row] /\ UNCHANGED invoice
      BY <2>3, <3>2 DEF ItemWrite, Typed, TypeOK, ItemUpdate
    <3> HIDE DEF row
    <3> QED BY <3>1, <3>3, <3>6, <3>7, BillWritten
  <2>4. CASE StatusRead(r) \/ ItemRead(r) \/ PayRead(r)
    <3>1. CASE ~\E from \in BusyPC : Fail(r, from) /\ UNCHANGED tables
      <4>1. PICK to \in {"status_write", "item_write", "pay_invoice"} :
              /\ pc[r] \in {"status_read", "item_read", "pay_read"}
              /\ pc' = [pc EXCEPT ![r] = to]
              /\ rq' = [rq EXCEPT ![r].seen = order[rq[r].order]]
              /\ UNCHANGED tables
        BY <2>4, <3>1 DEF StatusRead, ItemRead, PayRead, Move, BusyPC, StatusPC, ItemPC, PayPC
      <4>2. /\ rq[r] \in Request /\ rq[r].order \in Orders
            /\ order[rq[r].order] \in OrderRow
        BY <4>1, RowType DEF BusyPC, StatusPC, ItemPC, PayPC
      <4>3. /\ rq'[r].seen = order[rq[r].order] /\ rq'[r].order = rq[r].order
            /\ pc'[r] = to /\ pc[r] \notin Committed
            /\ \A q \in Requests \ {r} : rq'[q] = rq[q]
        BY <4>1, <4>2 DEF Request, Committed, Typed, TypeOK
      <4>4. rq'[r].seen.total <= order'[rq'[r].order].items
        BY <4>1, <4>2, <4>3, BillParts DEF RowsBilled, tables
      <4>5. CallLags(r)'
        BY <4>3, <4>4 DEF CallLags, HasBill, HasSum, PayPC
      <4> QED BY <4>1, <4>3, <4>5, BillQuiet
    <3> QED BY <2>1, <3>1
  <2>5. CASE PayInvoice(r)
    <3>1. CASE ~\E from \in BusyPC : Fail(r, from) /\ UNCHANGED tables
      <4>1. PICK i \in Requests :
              /\ pc[r] = "pay_invoice" /\ pc' = [pc EXCEPT ![r] = "pay_capture"]
              /\ rq' = [rq EXCEPT ![r].bill = i] /\ UNCHANGED tables
              /\ i # r => invoice[i].order \in Orders
        BY <2>5, <3>1, RowType DEF PayInvoice, InvoicesOf, Move, BusyPC, StatusPC, ItemPC, PayPC
      <4>2. rq[r] \in Request /\ rq[r].order \in Orders /\ pc[r] \in HasSeen
        BY <4>1, RowType DEF BusyPC, StatusPC, ItemPC, PayPC, HasSeen
      <4>3. /\ rq'[r].bill = i /\ rq'[r].order = rq[r].order /\ rq'[r].seen = rq[r].seen
            /\ pc'[r] = "pay_capture" /\ pc[r] \notin Committed
            /\ \A q \in Requests \ {r} : rq'[q] = rq[q]
        BY <4>1, <4>2 DEF Request, Committed, Typed, TypeOK
      <4>4. i # r => pc'[i] \in Committed
        BY <4>1, BillParts, OrdersAssumption DEF RowsBilled, Typed, TypeOK
      <4>5. rq[r].seen.total <= order'[rq[r].order].items
        BY <4>1, <4>2, BillParts DEF CallLags, tables
      <4>6. CallLags(r)'
        BY <4>3, <4>4, <4>5 DEF CallLags, HasSum, HasBill, PayPC
      <4> QED BY <4>1, <4>3, <4>6, BillQuiet
    <3> QED BY <2>1, <3>1
  <2>6. CASE PayCapture(r)
    <3>1. CASE ~\E from \in BusyPC : Fail(r, from) /\ UNCHANGED tables
      <4>0. ~Fail(r, "pay_capture")
        BY <2>6, <3>1 DEF PayCapture, BusyPC, PayPC
      <4>1. PICK v \in Verdicts(r, PaidBefore(r) + rq[r].amount) :
              /\ pc[r] = "pay_capture" /\ pc' = [pc EXCEPT ![r] = "pay_settle"]
              /\ rq' = [rq EXCEPT ![r].sum = PaidBefore(r) + rq[r].amount, ![r].verdict = v]
              /\ UNCHANGED tables
        BY <2>6, <4>0, CaptureEffect DEF Move
      <4>2. rq[r] \in Request /\ pc[r] \in HasSeen /\ pc[r] \in HasBill
        BY <4>1, RowType DEF BusyPC, StatusPC, ItemPC, PayPC, HasSeen, HasBill
      <4>3. PaidBefore(r) \in Nat /\ rq[r].amount \in Nat
        BY <4>2, BillType DEF Request
      <4>4. /\ rq'[r].bill = rq[r].bill /\ rq'[r].order = rq[r].order /\ rq'[r].seen = rq[r].seen
            /\ rq'[r].sum = PaidBefore(r) + rq[r].amount /\ rq'[r].amount = rq[r].amount
            /\ rq'[r].verdict = v
            /\ pc'[r] = "pay_settle" /\ pc[r] \notin Committed
            /\ \A q \in Requests \ {r} : rq'[q] = rq[q] /\ pc'[q] = pc[q]
        BY <4>1, <4>2 DEF Request, Committed, Typed, TypeOK
      <4>5. rq[r].bill \in Requests
        BY <4>2, BillType
      <4>7. PaidBefore(r)' = PaidBefore(r) /\ BillTotal(r)' = BillTotal(r)
        BY <4>1, <4>4 DEF PaidBefore, BillTotal, tables
      <4>8. rq'[r].sum <= PaidBefore(r)' + rq'[r].amount
        BY <4>3, <4>4, <4>7
      <4>9. rq'[r].bill # r => pc'[rq'[r].bill] \in Committed
        BY <4>2, <4>4, <4>5, BillParts DEF CallLags
      <4>10. rq'[r].seen.total <= order'[rq'[r].order].items
        BY <4>1, <4>2, <4>4, BillParts DEF CallLags, tables
      <4>11. FullyPaid(r)' => rq'[r].sum >= BillTotal(r)'
        BY <4>4, <4>7 DEF FullyPaid, Verdicts
      <4>12. CallLags(r)'
        BY <4>8, <4>9, <4>10, <4>11 DEF CallLags
      <4> QED BY <4>1, <4>4, <4>12, BillQuiet
    <3> QED BY <2>1, <3>1
  <2>7. CASE PaySettle(r) \/ PayOrder(r) \/ PayAccounts(r)
    <3>1. PICK from \in HasSum, to \in HasSum :
            /\ pc[r] = from /\ pc' = [pc EXCEPT ![r] = to] /\ UNCHANGED tables
      BY <2>7 DEF PaySettle, PayOrder, PayAccounts, Move, HasSum, HasBill, PayPC
    <3>2. /\ pc[r] \in HasSeen /\ pc[r] \in HasBill /\ pc[r] \in HasSum
          /\ rq[r] \in Request /\ pc[r] \notin Committed
      BY <3>1 DEF HasSeen, HasBill, HasSum, PayPC, Committed, Typed, TypeOK
    <3>3. rq[r].bill \in Requests
      BY <3>2, BillType
    <3>4. /\ rq'[r].bill = rq[r].bill /\ rq'[r].order = rq[r].order /\ rq'[r].seen = rq[r].seen
          /\ rq'[r].sum = rq[r].sum /\ rq'[r].amount = rq[r].amount
          /\ rq'[r].verdict = rq[r].verdict
          /\ \A q \in Requests \ {r} : rq'[q] = rq[q] /\ pc'[q] = pc[q]
      BY <2>7, <3>1, <3>2 DEF PaySettle, PayOrder, PayAccounts, Request, Typed, TypeOK
    <3>5. PaidBefore(r)' = PaidBefore(r) /\ BillTotal(r)' = BillTotal(r)
      BY <3>1, <3>4 DEF PaidBefore, BillTotal, tables
    <3>6. CallLags(r)
      BY BillParts
    <3>7. CallLags(r)'
      BY <3>1, <3>2, <3>3, <3>4, <3>5, <3>6 DEF CallLags, FullyPaid, tables
    <3> QED BY <3>1, <3>2, <3>4, <3>7, BillQuiet
  <2>8. CASE PayCommit(r)
    BY <2>8, BillSettled
  <2>9. CASE PayDuplicateAccount(r)
    BY <2>9, BillFailed DEF PayDuplicateAccount, BusyPC, StatusPC, ItemPC, PayPC
  <2> QED BY <1>3, <2>2, <2>3, <2>4, <2>5, <2>6, <2>7, <2>8, <2>9 DEF Proceed
<1>4. ASSUME NEW r \in Requests, Abort(r) PROVE BillInv'
  BY <1>4, BillFailed DEF Abort
<1>5. ASSUME NEW r \in Requests, RedeemGiftCard(r) PROVE BillInv'
  BY <1>5, BillGifted
<1>6. CASE UNCHANGED vars
  BY <1>6 DEF vars, BillInv, AbsentOrders, InvoicesCommitted, ReadsLagBehind, NeverOverbilled,
              PaidInvoiceCovered, Exists, PaidBefore, BillTotal, FullyPaid
<1> QED BY <1>1, <1>2, <1>3, <1>4, <1>5, <1>6 DEF Next

(* BillInv holds in every reachable state. *)
LEMMA BillAlways == Spec => []BillInv
<1>1. Init => BillInv
  BY OrdersAssumption
  DEF Init, BillInv, AbsentOrders, InvoicesCommitted, ReadsLagBehind, NeverOverbilled,
      PaidInvoiceCovered, NoRow, NoInvoice, HasSeen, HasBill, HasSum, PayPC
<1>2. Typed /\ Typed' /\ BillInv /\ [Next]_vars => BillInv'
  BY NextBill
<1> QED BY <1>1, <1>2, TypeCorrect, PTL DEF Spec, Typed

(* No order total and no invoice exceeds what was ordered: the lost updates of *)
(* concurrent addItemToOrder calls never invent an amount.                     *)
THEOREM NoOverbilling == Spec => []NeverOverbilled
<1>1. BillInv => NeverOverbilled
  BY DEF BillInv
<1> QED BY <1>1, BillAlways, PTL

(* An invoice that a payment marked PAID is covered by captured payments, though the *)
(* payment decided so from a sum it read before it locked the invoice.               *)
THEOREM PaidCovered == Spec => []PaidInvoiceCovered
<1>1. BillInv => PaidInvoiceCovered
  BY DEF BillInv
<1> QED BY <1>1, BillAlways, PTL

(* The whole strengthening that the run checks on a small instance is invariant. *)
THEOREM Inductive == Spec => []IndInv
<1>1. Spec => []KeysInv
  <2>1. Init => KeysInv
    BY DEF Init, KeysInv, KeysExclusive, KeyPaysOnce, HasSum, HasBill, PayPC
  <2> QED BY <2>1, NextKeys, TypeCorrect, PTL DEF Spec, Typed
<1>2. Typed /\ KeysInv /\ BillInv /\ VersionCountsWrites => IndInv
  BY DEF Typed, KeysInv, BillInv, IndInv
<1> QED BY <1>1, <1>2, TypeCorrect, BillAlways, VersionsCount, PTL DEF Typed
-----------------------------------------------------------------------------
(***************************************************************************)
(* Revenue.  The journal of a commit posts what the commit adds to one     *)
(* invoice, and nothing else writes either.                                *)
(***************************************************************************)
Paid == [i \in Requests |-> invoice[i].paid]

(* The property in terms of the sum that the lemmas are about. *)
LEMMA RevenueOfPaid == DeskPaymentsPosted <=> revenue = SumFunctionOnSet(Paid, Requests)
BY DEF DeskPaymentsPosted, Paid, SumFunction

(* What a call knows of the invoice that it settles. *)
KnowsBill(r) ==
  pc[r] \in HasBill /\ rq[r].bill # r => invoice[rq[r].bill].order = rq[r].order

(* A step of one request that writes neither invoices nor the journal. *)
LEMMA RevenueQuiet ==
  ASSUME Typed, RevenueInv, NEW r \in Requests, UNCHANGED <<invoice, revenue>>,
         NEW to, pc' = [pc EXCEPT ![r] = to],
         \A q \in Requests \ {r} : rq'[q] = rq[q],
         KnowsBill(r)'
  PROVE  RevenueInv'
<1>1. \A q \in Requests \ {r} : pc'[q] = pc[q]
  BY DEF Typed, TypeOK
<1>2. \A q \in Requests : KnowsBill(q)'
  BY <1>1 DEF RevenueInv, BillsOwnOrder, KnowsBill
<1>3. BillsOwnOrder'
  BY <1>2 DEF BillsOwnOrder, KnowsBill
<1> QED BY <1>3 DEF RevenueInv, UnissuedInvoices, DeskPaymentsPosted

(* A commit adds its amount to one invoice and to revenue. *)
LEMMA RevenuePosted ==
  ASSUME Typed, Typed', InvoicesCommitted, RevenueInv, NEW r \in Requests, PayCommit(r)
  PROVE  RevenueInv'
<1> DEFINE bill == rq[r].bill
           new == SettledInvoice(r)
<1>1. pc[r] = "pay_commit" /\ pc[r] \in HasBill /\ pc[r] \notin Committed /\ pc'[r] \notin HasBill
  BY DEF PayCommit, Move, HasBill, PayPC, Committed, Typed, TypeOK
<1>2. /\ bill \in Requests /\ rq[r] \in Request /\ rq[r].order \in Orders
      /\ new \in InvoiceRow /\ invoice[bill] \in InvoiceRow
  BY <1>1, BillType, RowType DEF Typed, TypeOK
<1>3. invoice[r].order = None /\ invoice[r] = NoInvoice
  BY <1>1 DEF InvoicesCommitted, RevenueInv, UnissuedInvoices
<1>4. new.order = rq[r].order /\ new.paid = invoice[bill].paid + rq[r].amount
  <2>1. CASE bill = r
    BY <1>2, <1>3, <2>1 DEF SettledInvoice, NoInvoice, Request
  <2>2. CASE bill # r
    BY <1>1, <1>2, <2>2 DEF SettledInvoice, RevenueInv, BillsOwnOrder, InvoiceRow
  <2> QED BY <2>1, <2>2
<1>5. \A i \in Requests : invoice'[i] = IF i = bill THEN new ELSE invoice[i]
  BY <1>2 DEF PayCommit, Typed, TypeOK
<1>6. \A q \in Requests \ {r} : pc'[q] = pc[q] /\ rq'[q] = rq[q]
  BY DEF PayCommit, Move, Forget, Typed, TypeOK
<1>7. revenue' = revenue + rq[r].amount
  BY DEF PayCommit, Posted
<1> HIDE DEF bill, new
<1>8. UnissuedInvoices'
  BY <1>2, <1>4, <1>5, OrdersAssumption DEF RevenueInv, UnissuedInvoices
<1>9. BillsOwnOrder'
  <2> SUFFICES ASSUME NEW q \in Requests, pc'[q] \in HasBill, rq'[q].bill # q
               PROVE  invoice'[rq'[q].bill].order = rq'[q].order
    BY DEF BillsOwnOrder
  <2>1. q # r /\ pc[q] \in HasBill /\ rq'[q] = rq[q]
    BY <1>1, <1>6
  <2>2. invoice[rq[q].bill].order = rq[q].order /\ pc[rq[q].bill] \in Committed
    BY <2>1 DEF RevenueInv, BillsOwnOrder, InvoicesCommitted
  <2>3. rq[q].bill \in Requests /\ rq[q].order \in Orders
    BY <2>1, BillType, RowType
  <2>4. rq[q].bill = bill => bill # r /\ invoice[bill].order = rq[r].order
    BY <1>1, <2>2 DEF RevenueInv, BillsOwnOrder, bill
  <2> QED BY <1>4, <1>5, <2>1, <2>2, <2>3, <2>4
<1>10. DeskPaymentsPosted'
  <2>1. \A i \in Requests : Paid[i] \in Int /\ Paid'[i] \in Int
    BY DEF Paid, Typed, TypeOK, InvoiceRow
  <2>2. \A i \in Requests \ {bill} : Paid'[i] = Paid[i]
    BY <1>5 DEF Paid
  <2>3. Paid'[bill] = Paid[bill] + rq[r].amount
    BY <1>2, <1>4, <1>5 DEF Paid
  <2>4. SumFunctionOnSet(Paid', Requests) = SumFunctionOnSet(Paid, Requests) + (Paid'[bill] - Paid[bill])
    BY <1>2, <2>1, <2>2, RequestsAssumption, SumChange
  <2>5. Paid'[bill] - Paid[bill] = rq[r].amount
    BY <1>2, <2>1, <2>3 DEF Request
  <2>6. revenue' = SumFunctionOnSet(Paid', Requests)
    BY <1>7, <2>4, <2>5, RevenueOfPaid DEF RevenueInv
  <2> QED BY <2>6 DEF DeskPaymentsPosted, Paid, SumFunction
<1> QED BY <1>8, <1>9, <1>10 DEF RevenueInv

(* A gift card pays an existing invoice and posts nothing. *)
LEMMA RevenueGifted ==
  ASSUME Typed, RevenueInv, NEW r \in Requests, RedeemGiftCard(r)
  PROVE  RevenueInv'
<1>1. PICK i \in Requests, a \in Nat :
        /\ invoice[i].order # None
        /\ pc[r] = "idle" /\ pc' = [pc EXCEPT ![r] = "gift"]
        /\ invoice' = [invoice EXCEPT ![i] = [invoice[i] EXCEPT !.gifted = @ + a]]
        /\ UNCHANGED <<order, captured, accounts, revenue, rq, raced>>
  BY GiftEffect
<1>2. \A j \in Requests :
        /\ invoice'[j].order = invoice[j].order /\ invoice'[j].paid = invoice[j].paid
        /\ invoice[j].order = None => invoice'[j] = invoice[j]
  BY <1>1, GiftedType DEF Typed, TypeOK
<1>3. \A q \in Requests : pc'[q] \in HasBill => pc[q] \in HasBill
  BY <1>1 DEF Typed, TypeOK, HasBill, PayPC
<1>4. UnissuedInvoices'
  BY <1>2 DEF RevenueInv, UnissuedInvoices
<1>5. BillsOwnOrder'
  BY <1>1, <1>2, <1>3, BillType DEF RevenueInv, BillsOwnOrder
<1>6. DeskPaymentsPosted'
  <2>1. [j \in Requests |-> invoice'[j].paid] = [j \in Requests |-> invoice[j].paid]
    BY <1>2
  <2> QED BY <1>1, <2>1 DEF RevenueInv, DeskPaymentsPosted
<1> QED BY <1>4, <1>5, <1>6 DEF RevenueInv

(* A commit adds the same amount to the revenue and to one invoice. *)
LEMMA NextRevenue == Typed /\ Typed' /\ InvoicesCommitted /\ RevenueInv /\ [Next]_vars => RevenueInv'
<1> SUFFICES ASSUME Typed, Typed', InvoicesCommitted, RevenueInv, [Next]_vars PROVE RevenueInv'
  OBVIOUS
<1>1. ASSUME NEW o \in Orders, CreateOrder(o) \/ CreateOrderWithItems(o) PROVE RevenueInv'
  BY <1>1, CreateEffect
  DEF RevenueInv, UnissuedInvoices, BillsOwnOrder, DeskPaymentsPosted
<1>2. ASSUME NEW r \in Requests, Arrive(r) PROVE RevenueInv'
  <2>1. PICK to \in {"status_read", "item_read", "pay_read"} : \E call : Send(r, to, call)
    BY <1>2 DEF Arrive, SendStatus, SendItem, SendPayment
  <2>2. /\ UNCHANGED <<invoice, revenue>> /\ pc' = [pc EXCEPT ![r] = to] /\ pc'[r] = to
        /\ \A q \in Requests \ {r} : rq'[q] = rq[q]
    BY <2>1 DEF Send, Move, tables, Typed, TypeOK
  <2>3. KnowsBill(r)'
    BY <2>2 DEF KnowsBill, HasBill, PayPC
  <2> QED BY <2>2, <2>3, RevenueQuiet
<1>3. ASSUME NEW r \in Requests, NEW from \in BusyPC, Fail(r, from), UNCHANGED tables
      PROVE  RevenueInv'
  <2>1. /\ pc' = [pc EXCEPT ![r] = "failed"] /\ pc'[r] = "failed"
        /\ \A q \in Requests \ {r} : rq'[q] = rq[q]
    BY <1>3 DEF Fail, Move, Forget, Typed, TypeOK
  <2>2. KnowsBill(r)'
    BY <2>1 DEF KnowsBill, HasBill, PayPC
  <2> QED BY <1>3, <2>1, <2>2, RevenueQuiet DEF tables
<1>4. ASSUME NEW r \in Requests, Proceed(r) PROVE RevenueInv'
  <2>1. CASE \E from \in BusyPC : Fail(r, from) /\ UNCHANGED tables
    BY <1>3, <2>1
  <2>2. CASE StatusRead(r) \/ ItemRead(r) \/ PayRead(r) \/ StatusWrite(r) \/ ItemWrite(r)
    <3>1. CASE ~\E from \in BusyPC : Fail(r, from) /\ UNCHANGED tables
      <4>1. PICK to \in {"status_write", "item_write", "pay_invoice", "ok"} :
              /\ pc' = [pc EXCEPT ![r] = to] /\ UNCHANGED <<invoice, revenue>>
              /\ \A q \in Requests \ {r} : rq'[q] = rq[q]
        BY <2>2, <3>1
        DEF StatusRead, ItemRead, PayRead, StatusWrite, ItemWrite, Move, Forget, tables,
            BusyPC, StatusPC, ItemPC, PayPC, Typed, TypeOK
      <4>2. KnowsBill(r)'
        BY <4>1 DEF KnowsBill, HasBill, PayPC, Typed, TypeOK
      <4> QED BY <4>1, <4>2, RevenueQuiet
    <3> QED BY <2>1, <3>1
  <2>3. CASE PayInvoice(r)
    <3>1. CASE ~\E from \in BusyPC : Fail(r, from) /\ UNCHANGED tables
      <4>1. PICK i \in Requests :
              /\ pc[r] = "pay_invoice" /\ pc' = [pc EXCEPT ![r] = "pay_capture"]
              /\ rq' = [rq EXCEPT ![r].bill = i] /\ UNCHANGED tables
              /\ i # r => invoice[i].order = rq[r].order
        BY <2>3, <3>1 DEF PayInvoice, InvoicesOf, Move, BusyPC, StatusPC, ItemPC, PayPC
      <4>2. rq[r] \in Request
        BY DEF Typed, TypeOK
      <4>3. rq'[r].bill = i /\ rq'[r].order = rq[r].order /\ \A q \in Requests \ {r} : rq'[q] = rq[q]
        BY <4>1, <4>2 DEF Request, Typed, TypeOK
      <4>4. KnowsBill(r)'
        BY <4>1, <4>3 DEF KnowsBill, tables
      <4> QED BY <4>1, <4>3, <4>4, RevenueQuiet DEF tables
    <3> QED BY <2>1, <3>1
  <2>4. CASE PayCapture(r) \/ PaySettle(r) \/ PayOrder(r) \/ PayAccounts(r)
    <3>1. CASE ~\E from \in BusyPC : Fail(r, from) /\ UNCHANGED tables
      <4>1. PICK to \in HasSum :
              /\ pc[r] \in HasBill /\ pc' = [pc EXCEPT ![r] = to] /\ UNCHANGED tables
              /\ \/ rq' = rq
                 \/ \E v : rq' = [rq EXCEPT ![r].sum = PaidBefore(r) + rq[r].amount,
                                            ![r].verdict = v]
                 \/ rq' = [rq EXCEPT ![r].seeds = BaselineAccounts \ accounts]
        BY <2>4, <3>1
        DEF PayCapture, PaySettle, PayOrder, PayAccounts, Move, HasSum, HasBill, PayPC, BusyPC
      <4>2. rq[r] \in Request /\ rq \in [Requests -> Request]
        BY DEF Typed, TypeOK
      <4>3. /\ rq'[r].bill = rq[r].bill /\ rq'[r].order = rq[r].order
            /\ \A q \in Requests \ {r} : rq'[q] = rq[q]
        BY <4>1, <4>2 DEF Request
      <4>4. KnowsBill(r)'
        BY <4>1, <4>3 DEF KnowsBill, tables, RevenueInv, BillsOwnOrder
      <4> QED BY <4>1, <4>3, <4>4, RevenueQuiet DEF tables
    <3> QED BY <2>1, <3>1
  <2>5. CASE PayCommit(r)
    BY <2>5, RevenuePosted
  <2>6. CASE PayDuplicateAccount(r)
    BY <1>3, <2>6 DEF PayDuplicateAccount, BusyPC, StatusPC, ItemPC, PayPC
  <2> QED BY <1>4, <2>2, <2>3, <2>4, <2>5, <2>6 DEF Proceed
<1>5. ASSUME NEW r \in Requests, Abort(r) PROVE RevenueInv'
  BY <1>3, <1>5 DEF Abort
<1>6. ASSUME NEW r \in Requests, RedeemGiftCard(r) PROVE RevenueInv'
  BY <1>6, RevenueGifted
<1>7. CASE UNCHANGED vars
  BY <1>7 DEF vars, RevenueInv, UnissuedInvoices, BillsOwnOrder, DeskPaymentsPosted
<1> QED BY <1>1, <1>2, <1>4, <1>5, <1>6, <1>7 DEF Next

(* RevenueInv holds in every reachable state. *)
LEMMA RevenueAlways == Spec => []RevenueInv
<1>1. Init => RevenueInv
  <2> SUFFICES ASSUME Init PROVE RevenueInv
    OBVIOUS
  <2>1. UnissuedInvoices /\ BillsOwnOrder
    BY DEF Init, UnissuedInvoices, BillsOwnOrder, HasBill, PayPC
  <2>2. \A i \in Requests : Paid[i] = 0
    BY DEF Init, Paid, NoInvoice
  <2>3. SumFunctionOnSet(Paid, Requests) = 0
    BY <2>2, RequestsAssumption, SumZero
  <2> QED BY <2>1, <2>3, RevenueOfPaid DEF RevenueInv, Init
<1>2. Typed /\ Typed' /\ InvoicesCommitted /\ RevenueInv /\ [Next]_vars => RevenueInv'
  BY NextRevenue
<1>3. IndInv => Typed /\ InvoicesCommitted
  BY DEF IndInv, Typed
<1> QED BY <1>1, <1>2, <1>3, Inductive, PTL DEF Spec

(* The ledger's revenue is the sum of what processPayment captured for all      *)
(* invoices, however payments overlap and whichever of them are rolled back.    *)
THEOREM DeskRevenue == Spec => []DeskPaymentsPosted
<1>1. RevenueInv => DeskPaymentsPosted
  BY DEF RevenueInv
<1> QED BY <1>1, RevenueAlways, PTL

-----------------------------------------------------------------------------
(***************************************************************************)
(* Overlaps.  Of two calls in flight about one order the later one noted   *)
(* the overlap when it was sent, and nothing is ever struck from `raced`.  *)
(* So where two kinds are not noted about an order, no call of the one     *)
(* kind can disturb what a call of the other has read.                     *)
(***************************************************************************)
Rows ==
  /\ TotalsMatchItems
  /\ PaidInvoiceSettlesOrder
  /\ OpenInvoiceNotOverpaid
  /\ BilledOnce

CallHolds(r) == ItemHolds(r) /\ StatusHolds(r) /\ PaymentHolds(r)

(* What the earlier sections have established of calls and invoices. *)
Known == Typed /\ InvoicesCommitted /\ UnissuedInvoices /\ BillsOwnOrder

(* OverlapInv, now and after a step, in its three parts. *)
LEMMA OverlapParts ==
  /\ OverlapInv <=> (OverlapsNoted /\ (\A r \in Requests : CallHolds(r)) /\ Rows)
  /\ OverlapInv' <=> (OverlapsNoted' /\ (\A r \in Requests : CallHolds(r)') /\ Rows')
BY DEF OverlapInv, CallHolds, Rows

(* A call that is not in flight has read nothing. *)
LEMMA NotHeld == \A q \in Requests : pc'[q] \notin BusyPC => CallHolds(q)'
BY DEF CallHolds, ItemHolds, StatusHolds, PaymentHolds, HasBill, HasSum, PayPC, ItemPC, StatusPC,
       BusyPC

(* A step of one call that keeps its kind and its order, or ends it. *)
LEMMA NotedKept ==
  ASSUME Typed, OverlapsNoted, NEW r \in Requests, NEW to, pc' = [pc EXCEPT ![r] = to],
         \A q \in Requests \ {r} : rq'[q] = rq[q], raced \subseteq raced',
         \/ to \notin BusyPC
         \/ pc[r] \in BusyPC /\ Kind(to) = Kind(pc[r]) /\ rq'[r].order = rq[r].order
  PROVE  OverlapsNoted'
<1> SUFFICES ASSUME NEW p \in Requests, NEW q \in Requests, p # q,
                    pc'[p] \in BusyPC, pc'[q] \in BusyPC, rq'[p].order = rq'[q].order
             PROVE  <<rq'[p].order, Kind(pc'[p]), Kind(pc'[q])>> \in raced'
  BY DEF OverlapsNoted, InFlight, Overlapped, Kind
<1>1. ASSUME NEW x \in Requests, pc'[x] \in BusyPC
      PROVE  pc[x] \in BusyPC /\ rq'[x].order = rq[x].order /\ Kind(pc'[x]) = Kind(pc[x])
  <2>1. CASE x = r
    BY <1>1, <2>1 DEF Typed, TypeOK
  <2>2. CASE x # r
    BY <1>1, <2>2 DEF Typed, TypeOK
  <2> QED BY <2>1, <2>2
<1>2. <<rq[p].order, Kind(pc[p]), Kind(pc[q])>> \in raced
  BY <1>1 DEF OverlapsNoted, InFlight, Overlapped
<1> QED BY <1>1, <1>2

(* A call that is sent notes which calls about its order it meets. *)
LEMMA NotedSent ==
  ASSUME Typed, OverlapsNoted, NEW r \in Requests, NEW to \in BusyPC, NEW call \in Request,
         Send(r, to, call)
  PROVE  OverlapsNoted'
<1>1. /\ pc' = [pc EXCEPT ![r] = to] /\ rq' = [rq EXCEPT ![r] = call] /\ pc[r] = "idle"
      /\ raced' = raced \cup Overlaps(call.order, Kind(to))
  BY DEF Send, Move
<1>2. /\ pc'[r] = to /\ rq'[r] = call
      /\ \A q \in Requests \ {r} : pc'[q] = pc[q] /\ rq'[q] = rq[q]
  BY <1>1 DEF Typed, TypeOK
<1>3. ASSUME NEW q \in Requests, q # r, pc[q] \in BusyPC, rq[q].order = call.order
      PROVE  /\ <<call.order, Kind(to), Kind(pc[q])>> \in raced'
             /\ <<call.order, Kind(pc[q]), Kind(to)>> \in raced'
  BY <1>1, <1>3 DEF Overlaps, Met, InFlight
<1> SUFFICES ASSUME NEW p \in Requests, NEW q \in Requests, p # q,
                    pc'[p] \in BusyPC, pc'[q] \in BusyPC, rq'[p].order = rq'[q].order
             PROVE  <<rq'[p].order, Kind(pc'[p]), Kind(pc'[q])>> \in raced'
  BY DEF OverlapsNoted, InFlight, Overlapped, Kind
<1>4. CASE p = r
  BY <1>2, <1>3, <1>4
<1>5. CASE q = r
  BY <1>2, <1>3, <1>5
<1>6. CASE p # r /\ q # r
  BY <1>1, <1>2, <1>6 DEF OverlapsNoted, InFlight, Overlapped
<1> QED BY <1>4, <1>5, <1>6

(* What a step of another call must leave to q for q to keep what it knows. *)
Undisturbed(q) ==
  LET o == rq[q].order IN
  /\ pc'[q] = pc[q] /\ rq'[q] = rq[q] /\ raced \subseteq raced'
  /\ pc[q] = "item_write" /\ ~Overlapped(o, "item", "item") => order'[o].total = order[o].total
  /\ pc[q] = "status_write" /\ ~Overlapped(o, "pay", "status") =>
       /\ ~Overlapped(o, "status", "status") => order'[o].status = order[o].status
       /\ \A i \in Requests : invoice'[i].order = o /\ invoice'[i].status = "PAID" =>
                                invoice[i].order = o /\ invoice[i].status = "PAID"
  /\ pc[q] \in HasBill /\ rq[q].bill # q =>
       invoice'[rq[q].bill].total = invoice[rq[q].bill].total
  /\ pc[q] \in HasBill /\ ~Overlapped(o, "pay", "pay") =>
       /\ rq[q].bill = q => InvoicesOf(o)' = InvoicesOf(o)
       /\ rq[q].bill # q => /\ invoice'[rq[q].bill].status = invoice[rq[q].bill].status
                            /\ invoice'[rq[q].bill].paid = invoice[rq[q].bill].paid

(* An undisturbed call keeps what it knows. *)
LEMMA UndisturbedHolds ==
  ASSUME NEW q \in Requests, CallHolds(q), Undisturbed(q)
  PROVE  CallHolds(q)'
<1>1. \A a, b : <<rq[q].order, a, b>> \notin raced' => <<rq[q].order, a, b>> \notin raced
  BY DEF Undisturbed
<1>2. pc'[q] = pc[q] /\ rq'[q] = rq[q]
  BY DEF Undisturbed
<1>3. ItemHolds(q)'
  BY <1>1, <1>2 DEF CallHolds, Undisturbed, ItemHolds, Overlapped
<1>4. StatusHolds(q)'
  <2> SUFFICES ASSUME pc[q] = "status_write"
               PROVE  StatusHolds(q)'
    BY <1>2 DEF StatusHolds
  <2>1. TransitionAllowed(rq[q].seen.status, rq[q].to)
    BY DEF CallHolds, StatusHolds
  <2>2. ASSUME <<rq[q].order, "pay", "status">> \notin raced',
               <<rq[q].order, "status", "status">> \notin raced'
        PROVE  rq[q].seen.status = order'[rq[q].order].status
    BY <1>1, <2>2 DEF CallHolds, StatusHolds, Undisturbed, Overlapped
  <2>3. ASSUME <<rq[q].order, "pay", "status">> \notin raced',
               NEW i \in Requests, invoice'[i].order = rq[q].order, invoice'[i].status = "PAID"
        PROVE  rq[q].seen.status \in {"PAID", "CLOSED"}
    <3>1. i \in InvoicesOf(rq[q].order) /\ invoice[i].status = "PAID"
      BY <1>1, <2>3 DEF Undisturbed, Overlapped, InvoicesOf
    <3> QED BY <1>1, <2>3, <3>1 DEF CallHolds, StatusHolds, Overlapped
  <2> QED BY <1>2, <2>1, <2>2, <2>3 DEF StatusHolds, InvoicesOf, Overlapped
<1>5. PaymentHolds(q)'
  <2>1. pc[q] \in HasSum => pc[q] \in HasBill
    BY DEF HasSum
  <2>2. pc[q] \in HasSum => BillTotal(q)' = BillTotal(q)
    BY <1>2, <2>1 DEF Undisturbed, BillTotal
  <2>3. ASSUME pc[q] \in HasBill, <<rq[q].order, "pay", "pay">> \notin raced'
        PROVE  BillFound(q)'
    BY <1>1, <1>2, <2>3 DEF CallHolds, PaymentHolds, Undisturbed, Overlapped, BillFound
  <2>4. ASSUME pc[q] \in HasSum, <<rq[q].order, "pay", "pay">> \notin raced'
        PROVE  rq[q].amount + (IF rq[q].bill = q THEN 0 ELSE invoice'[rq[q].bill].paid) <= rq[q].sum
    BY <1>1, <2>1, <2>4 DEF CallHolds, PaymentHolds, Undisturbed, Overlapped
  <2> QED BY <1>2, <2>2, <2>3, <2>4 DEF CallHolds, PaymentHolds, Overlapped
<1> QED BY <1>3, <1>4, <1>5 DEF CallHolds

(* The rows as they are still agree when more overlaps are noted. *)
LEMMA RowsKept ==
  ASSUME Rows, UNCHANGED <<order, invoice>>, raced \subseteq raced'
  PROVE  Rows'
BY DEF Rows, TotalsMatchItems, PaidInvoiceSettlesOrder, OpenInvoiceNotOverpaid, BilledOnce, Overlapped

(* A call starts, goes on or is rolled back: the tables stay. *)
LEMMA OverlapQuiet ==
  ASSUME Typed, OverlapInv, NEW r \in Requests, NEW to, pc' = [pc EXCEPT ![r] = to],
         \A q \in Requests \ {r} : rq'[q] = rq[q], UNCHANGED tables, raced \subseteq raced',
         OverlapsNoted', CallHolds(r)'
  PROVE  OverlapInv'
<1>1. \A q \in Requests \ {r} : Undisturbed(q)
  BY DEF Undisturbed, tables, InvoicesOf, Typed, TypeOK
<1>2. \A q \in Requests : CallHolds(q)'
  BY <1>1, UndisturbedHolds, OverlapParts
<1>3. Rows'
  BY RowsKept, OverlapParts DEF tables
<1> QED BY <1>2, <1>3, OverlapParts

(* A step inside a call. *)
LEMMA OverlapLocal ==
  ASSUME Typed, OverlapInv, NEW r \in Requests, NEW from \in BusyPC, NEW to,
         Move(r, from, to), Kind(to) = Kind(from), rq'[r].order = rq[r].order,
         \A q \in Requests \ {r} : rq'[q] = rq[q], UNCHANGED <<tables, raced>>,
         CallHolds(r)'
  PROVE  OverlapInv'
<1>1. pc[r] \in BusyPC /\ Kind(to) = Kind(pc[r]) /\ pc' = [pc EXCEPT ![r] = to]
  BY DEF Move
<1>2. UNCHANGED tables /\ raced \subseteq raced'
  OBVIOUS
<1>3. OverlapsNoted'
  BY <1>1, <1>2, NotedKept, OverlapParts
<1> QED BY <1>1, <1>2, <1>3, OverlapQuiet

(* A request that fails leaves the rows and the other calls as they are. *)
LEMMA OverlapFailed ==
  ASSUME Typed, OverlapInv, NEW r \in Requests, NEW from \in BusyPC, Fail(r, from),
         UNCHANGED <<tables, raced>>
  PROVE  OverlapInv'
<1>1. /\ pc' = [pc EXCEPT ![r] = "failed"] /\ pc'[r] = "failed" /\ "failed" \notin BusyPC
      /\ \A q \in Requests \ {r} : rq'[q] = rq[q]
      /\ UNCHANGED tables /\ raced \subseteq raced'
  BY DEF Fail, Move, Forget, Typed, TypeOK, BusyPC, StatusPC, ItemPC, PayPC
<1>2. CallHolds(r)'
  BY <1>1, NotHeld
<1>3. OverlapsNoted'
  BY <1>1, NotedKept, OverlapParts
<1> QED BY <1>1, <1>2, <1>3, OverlapQuiet

(* A call is sent. *)
LEMMA OverlapSent ==
  ASSUME Typed, OverlapInv, NEW r \in Requests, Arrive(r)
  PROVE  OverlapInv'
<1>1. PICK to \in {"status_read", "item_read", "pay_read"}, call \in Request : Send(r, to, call)
  BY ArriveSends
<1>2. to \in BusyPC
  BY DEF BusyPC, StatusPC, ItemPC, PayPC
<1>3. /\ pc' = [pc EXCEPT ![r] = to] /\ pc'[r] = to /\ UNCHANGED tables /\ raced \subseteq raced'
      /\ \A q \in Requests \ {r} : rq'[q] = rq[q]
  BY <1>1 DEF Send, Move, Typed, TypeOK
<1>4. OverlapsNoted'
  BY <1>1, <1>2, NotedSent, OverlapParts
<1>5. CallHolds(r)'
  BY <1>3 DEF CallHolds, ItemHolds, StatusHolds, PaymentHolds, HasBill, HasSum, PayPC
<1> QED BY <1>3, <1>4, <1>5, OverlapQuiet

(* The first statement of a call reads the row that it is about. *)
LEMMA OverlapRead ==
  ASSUME Typed, OverlapInv, NEW r \in Requests, StatusRead(r) \/ ItemRead(r) \/ PayRead(r)
  PROVE  OverlapInv'
<1>1. CASE \E from \in BusyPC : Fail(r, from) /\ UNCHANGED <<tables, raced>>
  BY <1>1, OverlapFailed
<1>2. CASE ~\E from \in BusyPC : Fail(r, from) /\ UNCHANGED <<tables, raced>>
  <2>1. PICK from \in {"status_read", "item_read", "pay_read"},
             to \in {"status_write", "item_write", "pay_invoice"} :
          /\ Move(r, from, to) /\ Kind(to) = Kind(from)
          /\ rq' = [rq EXCEPT ![r].seen = order[rq[r].order]]
          /\ UNCHANGED <<tables, raced>>
          /\ to = "status_write" => TransitionAllowed(order[rq[r].order].status, rq[r].to)
    BY <1>2 DEF StatusRead, ItemRead, PayRead, StatusAccepted, Kind, BusyPC, StatusPC, ItemPC, PayPC
  <2>2. /\ from \in BusyPC /\ pc[r] \in BusyPC /\ pc'[r] = to
        /\ rq[r] \in Request /\ to \notin HasBill /\ to \notin HasSum
    BY <2>1 DEF Move, BusyPC, StatusPC, ItemPC, PayPC, HasBill, HasSum, Typed, TypeOK
  <2>3. /\ rq'[r].seen = order[rq[r].order] /\ rq'[r].order = rq[r].order /\ rq'[r].to = rq[r].to
        /\ \A q \in Requests \ {r} : rq'[q] = rq[q]
    BY <2>1, <2>2 DEF Request, Typed, TypeOK
  <2>4. order' = order /\ invoice' = invoice /\ raced' = raced
    BY <2>1 DEF tables
  <2>5. rq[r].order \in Orders
    BY <2>2, RowType
  <2>6. ItemHolds(r)'
    BY <2>3, <2>4 DEF ItemHolds
  <2>7. StatusHolds(r)'
    <3>1. ASSUME ~Overlapped(rq[r].order, "pay", "status"),
                 NEW i \in InvoicesOf(rq[r].order), invoice[i].status = "PAID"
          PROVE  order[rq[r].order].status \in {"PAID", "CLOSED"}
      BY <2>5, <3>1, OverlapParts DEF Rows, PaidInvoiceSettlesOrder, InvoicesOf
    <3> QED BY <2>1, <2>2, <2>3, <2>4, <3>1 DEF StatusHolds, Overlapped, InvoicesOf
  <2>8. PaymentHolds(r)'
    BY <2>2 DEF PaymentHolds
  <2> QED BY <2>1, <2>2, <2>3, <2>6, <2>7, <2>8, OverlapLocal DEF CallHolds
<1> QED BY <1>1, <1>2

(* The invoice that a payment finds is its order's, and not PAID. *)
LEMMA OverlapInvoice ==
  ASSUME Known, OverlapInv, NEW r \in Requests, PayInvoice(r)
  PROVE  OverlapInv'
<1>0. Typed
  BY DEF Known
<1>1. CASE \E from \in BusyPC : Fail(r, from) /\ UNCHANGED <<tables, raced>>
  BY <1>0, <1>1, OverlapFailed
<1>2. CASE ~\E from \in BusyPC : Fail(r, from) /\ UNCHANGED <<tables, raced>>
  <2>1. PICK i \in Requests :
          /\ Move(r, "pay_invoice", "pay_capture")
          /\ rq' = [rq EXCEPT ![r].bill = i] /\ UNCHANGED <<tables, raced>>
          /\ \/ i = r /\ InvoicesOf(rq[r].order) = {}
             \/ i \in InvoicesOf(rq[r].order) /\ invoice[i].status # "PAID"
    BY <1>2 DEF PayInvoice, InvoicesOf, BusyPC, PayPC
  <2>2. /\ pc[r] = "pay_invoice" /\ pc[r] \in BusyPC /\ rq[r] \in Request
        /\ pc'[r] = "pay_capture" /\ pc'[r] \notin HasSum /\ pc[r] \notin Committed
        /\ Kind("pay_capture") = Kind("pay_invoice")
    BY <1>0, <2>1 DEF Move, Kind, BusyPC, PayPC, HasSum, Committed, Typed, TypeOK
  <2>3. /\ rq'[r].bill = i /\ rq'[r].order = rq[r].order
        /\ \A q \in Requests \ {r} : rq'[q] = rq[q]
    BY <1>0, <2>1, <2>2 DEF Request, Typed, TypeOK
  <2>4. rq[r].order # None
    BY <1>0, <2>2, RowType, OrdersAssumption
  <2>5. i = r => InvoicesOf(rq[r].order) = {}
    BY <2>1, <2>2, <2>4 DEF InvoicesOf, InvoicesCommitted, Known
  <2>6. i # r => invoice[i].status # "PAID"
    BY <2>1
  <2>7. BillFound(r)'
    BY <2>1, <2>3, <2>5, <2>6 DEF BillFound, InvoicesOf, tables
  <2>8. CallHolds(r)'
    BY <2>2, <2>7 DEF CallHolds, ItemHolds, StatusHolds, PaymentHolds
  <2> QED BY <1>0, <2>1, <2>2, <2>3, <2>8, OverlapLocal
<1> QED BY <1>1, <1>2

(* A payment adds up: its sum covers what the desk took and its verdict suits it. *)
LEMMA OverlapCapture ==
  ASSUME Typed, OverlapInv, NEW r \in Requests, PayCapture(r)
  PROVE  OverlapInv'
<1>1. CASE Fail(r, "pay_capture")
  BY <1>1, OverlapFailed DEF PayCapture, BusyPC, PayPC
<1>2. CASE ~Fail(r, "pay_capture")
  <2> DEFINE sum == PaidBefore(r) + rq[r].amount
  <2>1. PICK v \in Verdicts(r, sum) :
          /\ Move(r, "pay_capture", "pay_settle")
          /\ rq' = [rq EXCEPT ![r].sum = sum, ![r].verdict = v] /\ UNCHANGED <<tables, raced>>
    BY <1>2, CaptureEffect
  <2>2. /\ pc[r] = "pay_capture" /\ pc[r] \in BusyPC /\ pc[r] \in HasBill /\ rq[r] \in Request
        /\ pc'[r] = "pay_settle" /\ Kind("pay_settle") = Kind("pay_capture")
    BY <2>1 DEF Move, Kind, BusyPC, PayPC, HasBill, Typed, TypeOK
  <2>3. /\ rq'[r].bill = rq[r].bill /\ rq'[r].order = rq[r].order /\ rq'[r].seen = rq[r].seen
        /\ rq'[r].amount = rq[r].amount /\ rq'[r].sum = sum /\ rq'[r].verdict = v
        /\ \A q \in Requests \ {r} : rq'[q] = rq[q]
    BY <2>1, <2>2 DEF Request, Typed, TypeOK
  <2>4. order' = order /\ invoice' = invoice /\ raced' = raced
    BY <2>1 DEF tables
  <2>5. /\ rq[r].bill \in Requests /\ PaidBefore(r) \in Nat /\ BillTotal(r) \in Nat
        /\ rq[r].amount \in Nat /\ sum \in Nat
    BY <2>2, BillType DEF Request
  <2>6. rq[r].bill # r => invoice[rq[r].bill].paid \in Nat /\ invoice[rq[r].bill].gifted \in Nat
    BY <2>5 DEF Typed, TypeOK, InvoiceRow
  <2>7. BillTotal(r)' = BillTotal(r) /\ BillFound(r)' = BillFound(r)
    BY <2>3, <2>4 DEF BillTotal, BillFound, InvoicesOf
  <2>8. v \in {"PAID", "PARTIALLY_PAID"} /\ (v = "PARTIALLY_PAID" => sum <= BillTotal(r))
    BY <2>5 DEF Verdicts
  <2>9. rq[r].amount + (IF rq[r].bill = r THEN 0 ELSE invoice[rq[r].bill].paid) <= sum
    BY <2>5, <2>6 DEF PaidBefore
  <2>10. ~Overlapped(rq[r].order, "pay", "pay") => BillFound(r)
    BY <2>2, OverlapParts DEF CallHolds, PaymentHolds
  <2> HIDE DEF sum
  <2>11. PaymentHolds(r)'
    BY <2>3, <2>4, <2>7, <2>8, <2>9, <2>10 DEF PaymentHolds, Overlapped
  <2>12. CallHolds(r)'
    BY <2>2, <2>11 DEF CallHolds, ItemHolds, StatusHolds
  <2> QED BY <2>1, <2>2, <2>3, <2>12, OverlapLocal
<1> QED BY <1>1, <1>2

(* Taking the locks and seeding the accounts changes nothing a payment knows. *)
LEMMA OverlapPays ==
  ASSUME Typed, OverlapInv, NEW r \in Requests, PaySettle(r) \/ PayOrder(r) \/ PayAccounts(r)
  PROVE  OverlapInv'
<1>1. PICK from \in HasSum, to \in HasSum : Move(r, from, to) /\ UNCHANGED <<tables, raced>>
  BY DEF PaySettle, PayOrder, PayAccounts, HasSum, HasBill, PayPC
<1>2. /\ pc[r] = from /\ from \in BusyPC /\ pc[r] \in HasSum /\ pc[r] \in HasBill
      /\ rq[r] \in Request /\ pc'[r] = to /\ Kind(to) = Kind(from)
      /\ to # "status_write" /\ to # "item_write"
  BY <1>1 DEF Move, Kind, HasSum, HasBill, BusyPC, PayPC, Typed, TypeOK
<1>3. /\ rq'[r].bill = rq[r].bill /\ rq'[r].order = rq[r].order /\ rq'[r].seen = rq[r].seen
      /\ rq'[r].amount = rq[r].amount /\ rq'[r].sum = rq[r].sum /\ rq'[r].verdict = rq[r].verdict
      /\ \A q \in Requests \ {r} : rq'[q] = rq[q]
  BY <1>2 DEF PaySettle, PayOrder, PayAccounts, Request, Typed, TypeOK
<1>4. order' = order /\ invoice' = invoice /\ raced' = raced
  BY <1>1 DEF tables
<1>5. BillTotal(r)' = BillTotal(r) /\ BillFound(r)' = BillFound(r)
  BY <1>3, <1>4 DEF BillTotal, BillFound, InvoicesOf
<1>6. PaymentHolds(r)
  BY OverlapParts DEF CallHolds
<1>7. PaymentHolds(r)'
  BY <1>2, <1>3, <1>4, <1>5, <1>6 DEF PaymentHolds, Overlapped
<1>8. CallHolds(r)'
  BY <1>2, <1>7 DEF CallHolds, ItemHolds, StatusHolds
<1> QED BY <1>1, <1>2, <1>3, <1>8, OverlapLocal

(* A write of an order row ends its call; what it leaves others decides. *)
LEMMA OverlapWritten ==
  ASSUME Typed, OverlapInv, NEW r \in Requests, NEW to, to \notin BusyPC,
         pc' = [pc EXCEPT ![r] = to], \A q \in Requests \ {r} : rq'[q] = rq[q],
         UNCHANGED raced, \A q \in Requests \ {r} : Undisturbed(q), Rows'
  PROVE  OverlapInv'
<1>1. OverlapsNoted'
  BY NotedKept, OverlapParts
<1>2. pc'[r] \notin BusyPC
  BY DEF Typed, TypeOK
<1>3. \A q \in Requests : CallHolds(q)'
  BY <1>2, NotHeld, UndisturbedHolds, OverlapParts
<1> QED BY <1>1, <1>3, OverlapParts

(* Two calls in flight about one order, as seen from either. *)
LEMMA BothNoted ==
  ASSUME OverlapsNoted, NEW q \in InFlight, NEW r \in InFlight, q # r, rq[q].order = rq[r].order
  PROVE  /\ Overlapped(rq[q].order, Kind(pc[q]), Kind(pc[r]))
         /\ Overlapped(rq[q].order, Kind(pc[r]), Kind(pc[q]))
BY DEF OverlapsNoted

(* updateOrderStatus writes: other status changes about the order overlapped, *)
(* and an order that a PAID invoice settled stays settled.                    *)
LEMMA OverlapStatusWrite ==
  ASSUME Typed, OverlapInv, NEW r \in Requests, StatusWrite(r)
  PROVE  OverlapInv'
<1> DEFINE mine == rq[r].order
<1>1. /\ pc[r] = "status_write" /\ pc[r] \in BusyPC /\ pc' = [pc EXCEPT ![r] = "ok"]
      /\ "ok" \notin BusyPC /\ Kind(pc[r]) = "status"
      /\ UNCHANGED <<invoice, raced>> /\ \A q \in Requests \ {r} : rq'[q] = rq[q]
  BY DEF StatusWrite, Move, Forget, Kind, BusyPC, StatusPC, ItemPC, PayPC, Typed, TypeOK
<1>2. mine \in Orders /\ order[mine] \in OrderRow
  BY <1>1, RowType
<1>3. \A x \in Orders : /\ order'[x].total = order[x].total
                        /\ order'[x].items = order[x].items
                        /\ order'[x].status = IF x = mine THEN rq[r].to ELSE order[x].status
  BY <1>2 DEF StatusWrite, Typed, TypeOK, OrderRow
<1>4. ASSUME NEW q \in Requests \ {r} PROVE Undisturbed(q)
  <2>1. pc'[q] = pc[q] /\ rq'[q] = rq[q]
    BY <1>1 DEF Typed, TypeOK
  <2>2. pc[q] = "item_write" => order'[rq[q].order].total = order[rq[q].order].total
    BY <1>3, RowType DEF BusyPC, ItemPC
  <2>3. ASSUME pc[q] = "status_write", ~Overlapped(rq[q].order, "status", "status")
        PROVE  order'[rq[q].order].status = order[rq[q].order].status
    <3>1. q \in InFlight /\ r \in InFlight /\ Kind(pc[q]) = "status" /\ rq[q].order \in Orders
      BY <1>1, <2>3, RowType DEF InFlight, Kind, BusyPC, StatusPC, ItemPC, PayPC
    <3>2. rq[q].order # mine
      BY <1>1, <2>3, <3>1, BothNoted, OverlapParts
    <3> QED BY <1>3, <3>1, <3>2
  <2> QED BY <1>1, <2>1, <2>2, <2>3 DEF Undisturbed, InvoicesOf
<1>5. Rows'
  <2>1. ASSUME NEW i \in Requests, invoice[i].order = mine, invoice[i].status = "PAID",
               ~Overlapped(mine, "pay", "status")
        PROVE  rq[r].to \in {"PAID", "CLOSED"}
    <3>1. /\ TransitionAllowed(rq[r].seen.status, rq[r].to)
          /\ rq[r].seen.status \in {"PAID", "CLOSED"}
      BY <1>1, <2>1, OverlapParts DEF CallHolds, StatusHolds, InvoicesOf
    <3> QED BY <3>1 DEF TransitionAllowed, ValidTransitions, OrderStatus
  <2>2. PaidInvoiceSettlesOrder'
    BY <1>1, <1>3, <2>1, OverlapParts DEF Rows, PaidInvoiceSettlesOrder, Overlapped
  <2>3. TotalsMatchItems'
    BY <1>1, <1>3, OverlapParts DEF Rows, TotalsMatchItems, Overlapped
  <2>4. OpenInvoiceNotOverpaid' /\ BilledOnce'
    BY <1>1, OverlapParts DEF Rows, OpenInvoiceNotOverpaid, BilledOnce, Overlapped
  <2> QED BY <2>2, <2>3, <2>4 DEF Rows
<1> QED BY <1>1, <1>4, <1>5, OverlapWritten

(* addItemToOrder writes: other additions to the order overlapped, or the *)
(* totals are still those that it read.                                   *)
LEMMA OverlapItemWrite ==
  ASSUME Typed, OverlapInv, NEW r \in Requests, ItemWrite(r)
  PROVE  OverlapInv'
<1> DEFINE mine == rq[r].order
<1>1. /\ pc[r] = "item_write" /\ pc[r] \in BusyPC /\ pc' = [pc EXCEPT ![r] = "ok"]
      /\ "ok" \notin BusyPC /\ Kind(pc[r]) = "item"
      /\ UNCHANGED <<invoice, raced>> /\ \A q \in Requests \ {r} : rq'[q] = rq[q]
  BY DEF ItemWrite, Move, Forget, Kind, BusyPC, StatusPC, ItemPC, PayPC, Typed, TypeOK
<1>2. mine \in Orders /\ order[mine] \in OrderRow
  BY <1>1, RowType
<1>3. \A x \in Orders :
        /\ order'[x].status = order[x].status
        /\ order'[x].total = IF x = mine THEN rq[r].seen.total + rq[r].amount ELSE order[x].total
        /\ order'[x].items = IF x = mine THEN order[x].items + rq[r].amount ELSE order[x].items
  BY <1>2 DEF ItemWrite, Typed, TypeOK, OrderRow
<1>4. ASSUME NEW q \in Requests \ {r} PROVE Undisturbed(q)
  <2>1. pc'[q] = pc[q] /\ rq'[q] = rq[q]
    BY <1>1 DEF Typed, TypeOK
  <2>2. pc[q] = "status_write" => order'[rq[q].order].status = order[rq[q].order].status
    BY <1>3, RowType DEF BusyPC, StatusPC
  <2>3. ASSUME pc[q] = "item_write", ~Overlapped(rq[q].order, "item", "item")
        PROVE  order'[rq[q].order].total = order[rq[q].order].total
    <3>1. q \in InFlight /\ r \in InFlight /\ Kind(pc[q]) = "item" /\ rq[q].order \in Orders
      BY <1>1, <2>3, RowType DEF InFlight, Kind, BusyPC, StatusPC, ItemPC, PayPC
    <3>2. rq[q].order # mine
      BY <1>1, <2>3, <3>1, BothNoted, OverlapParts
    <3> QED BY <1>3, <3>1, <3>2
  <2> QED BY <1>1, <2>1, <2>2, <2>3 DEF Undisturbed, InvoicesOf
<1>5. Rows'
  <2>1. ~Overlapped(mine, "item", "item") => rq[r].seen.total = order[mine].items
    BY <1>1, <1>2, OverlapParts DEF CallHolds, ItemHolds, Rows, TotalsMatchItems
  <2>2. TotalsMatchItems'
    BY <1>1, <1>3, <2>1, OverlapParts DEF Rows, TotalsMatchItems, Overlapped
  <2>3. PaidInvoiceSettlesOrder'
    BY <1>1, <1>3, OverlapParts DEF Rows, PaidInvoiceSettlesOrder, Overlapped
  <2>4. OpenInvoiceNotOverpaid' /\ BilledOnce'
    BY <1>1, OverlapParts DEF Rows, OpenInvoiceNotOverpaid, BilledOnce, Overlapped
  <2> QED BY <2>2, <2>3, <2>4 DEF Rows
<1> QED BY <1>1, <1>4, <1>5, OverlapWritten

(* processPayment commits: other payments and status changes about the order *)
(* overlapped, or the invoice it found is still the open one of the order.   *)
LEMMA OverlapSettled ==
  ASSUME Known, OverlapInv, NEW r \in Requests, PayCommit(r)
  PROVE  OverlapInv'
<1> DEFINE bill == rq[r].bill
           mine == rq[r].order
           new == SettledInvoice(r)
<1>0. Typed
  BY DEF Known
<1>1. PICK to \in Answered : pc[r] = "pay_commit" /\ pc' = [pc EXCEPT ![r] = to]
  BY DEF PayCommit, Move, Answered
<1>2. /\ pc[r] \in HasBill /\ pc[r] \in HasSum /\ pc[r] \in BusyPC /\ to \notin BusyPC
      /\ pc[r] \notin Committed /\ Kind(pc[r]) = "pay"
      /\ UNCHANGED raced /\ \A q \in Requests \ {r} : rq'[q] = rq[q]
  BY <1>0, <1>1
  DEF PayCommit, Forget, HasBill, HasSum, PayPC, StatusPC, ItemPC, BusyPC, Answered, Committed, Kind,
      Typed, TypeOK
<1>3. /\ bill \in Requests /\ rq[r] \in Request /\ mine \in Orders /\ mine # None
      /\ new \in InvoiceRow /\ BillTotal(r) \in Nat
      /\ order[mine] \in OrderRow /\ invoice[bill] \in InvoiceRow
  BY <1>0, <1>2, BillType, RowType, OrdersAssumption DEF Typed, TypeOK
<1>4. PaymentHolds(r)
  BY OverlapParts DEF CallHolds
<1>5. invoice[r] = NoInvoice /\ (bill # r => invoice[bill].order = mine)
  BY <1>2 DEF Known, InvoicesCommitted, UnissuedInvoices, BillsOwnOrder
<1>6. /\ new.order = mine /\ new.status = rq[r].verdict /\ new.total = BillTotal(r)
      /\ new.paid = rq[r].amount + (IF bill = r THEN 0 ELSE invoice[bill].paid)
  <2>1. CASE bill = r
    BY <1>3, <2>1 DEF SettledInvoice, BillTotal, Request
  <2>2. CASE bill # r
    BY <1>3, <1>5, <2>2 DEF SettledInvoice, BillTotal, InvoiceRow, Request
  <2> QED BY <2>1, <2>2
<1>7. \A i \in Requests : invoice'[i] = IF i = bill THEN new ELSE invoice[i]
  BY <1>0, <1>3 DEF PayCommit, Typed, TypeOK
<1>8. \A x \in Orders : /\ order'[x].items = order[x].items
                        /\ order'[x].total = order[x].total
                        /\ order'[x].status = IF x = mine /\ FullyPaid(r) THEN "PAID"
                                              ELSE order[x].status
  BY <1>0, <1>3 DEF PayCommit, Typed, TypeOK, OrderRow
<1> HIDE DEF bill, mine, new
<1>9. ASSUME NEW q \in Requests \ {r} PROVE Undisturbed(q)
  <2> DEFINE o == rq[q].order
             held == rq[q].bill
  <2>1. pc'[q] = pc[q] /\ rq'[q] = rq[q]
    BY <1>0, <1>1, <1>2 DEF Typed, TypeOK
  <2>2. pc[q] = "item_write" => order'[o].total = order[o].total
    BY <1>0, <1>8, RowType DEF BusyPC, ItemPC
  <2>3. ASSUME pc[q] = "status_write", ~Overlapped(o, "pay", "status")
        PROVE  /\ order'[o].status = order[o].status
               /\ \A i \in Requests : invoice'[i].order = o => invoice'[i] = invoice[i]
    <3>1. q \in InFlight /\ r \in InFlight /\ Kind(pc[q]) = "status" /\ o \in Orders
      BY <1>0, <1>2, <2>3, RowType DEF InFlight, Kind, BusyPC, StatusPC, ItemPC, PayPC
    <3>2. o # mine
      BY <1>2, <2>3, <3>1, BothNoted, OverlapParts DEF mine
    <3> QED BY <1>6, <1>7, <1>8, <3>1, <3>2
  <2>4. ASSUME pc[q] \in HasBill, held # q
        PROVE  /\ held \in Requests /\ invoice[held].order = o /\ pc[held] \in Committed
               /\ held = bill => bill # r
    <3>1. held \in Requests /\ invoice[held].order = o /\ pc[held] \in Committed
      BY <1>0, <2>4, BillType DEF Known, BillsOwnOrder, InvoicesCommitted
    <3> QED BY <1>2, <3>1
  <2>5. pc[q] \in HasBill /\ held # q => invoice'[held].total = invoice[held].total
    BY <1>6, <1>7, <2>4 DEF BillTotal, bill
  <2>6. ASSUME pc[q] \in HasBill, ~Overlapped(o, "pay", "pay")
        PROVE  /\ InvoicesOf(o)' = InvoicesOf(o)
               /\ held # q => invoice'[held] = invoice[held]
    <3>1. q \in InFlight /\ r \in InFlight /\ Kind(pc[q]) = "pay" /\ o \in Orders
      BY <1>0, <1>2, <2>6, RowType DEF InFlight, Kind, HasBill, BusyPC, StatusPC, ItemPC, PayPC
    <3>2. o # mine
      BY <1>2, <2>6, <3>1, BothNoted, OverlapParts DEF mine
    <3>3. invoice[bill].order # o
      BY <1>3, <1>5, <3>1, <3>2, OrdersAssumption DEF NoInvoice
    <3>4. InvoicesOf(o)' = InvoicesOf(o)
      BY <1>6, <1>7, <2>1, <3>2, <3>3 DEF InvoicesOf
    <3>5. held # q => invoice'[held] = invoice[held]
      BY <1>7, <2>4, <2>6, <3>3
    <3> QED BY <3>4, <3>5
  <2> HIDE DEF o, held
  <2> QED BY <1>2, <2>1, <2>2, <2>3, <2>5, <2>6 DEF Undisturbed, o, held
<1>10. Rows'
  <2>1. TotalsMatchItems'
    BY <1>2, <1>8, OverlapParts DEF Rows, TotalsMatchItems, Overlapped
  <2>2. ASSUME NEW i \in Requests, NEW x \in Orders, invoice'[i].order = x,
               invoice'[i].status = "PAID", ~Overlapped(x, "pay", "status")
        PROVE  order'[x].status \in {"PAID", "CLOSED"}
    <3>1. CASE i = bill
      BY <1>3, <1>6, <1>7, <1>8, <2>2, <3>1 DEF FullyPaid
    <3>2. CASE i # bill
      <4>1. order[x].status \in {"PAID", "CLOSED"}
        BY <1>7, <2>2, <3>2, OverlapParts DEF Rows, PaidInvoiceSettlesOrder
      <4> QED BY <1>8, <4>1
    <3> QED BY <3>1, <3>2
  <2>3. ASSUME NEW i \in Requests, NEW x \in Orders, invoice'[i].order = x,
               invoice'[i].status # "PAID", ~Overlapped(x, "pay", "pay")
        PROVE  invoice'[i].paid <= invoice'[i].total
    <3>1. CASE i = bill
      <4>1. x = mine /\ rq[r].verdict = "PARTIALLY_PAID"
        BY <1>2, <1>3, <1>4, <1>6, <1>7, <2>3, <3>1 DEF PaymentHolds
      <4>2. rq[r].sum <= BillTotal(r) /\ new.paid <= rq[r].sum
        BY <1>2, <1>4, <1>6, <2>3, <4>1 DEF PaymentHolds, mine, bill
      <4>3. new.paid \in Nat /\ rq[r].sum \in Nat
        BY <1>3 DEF InvoiceRow, Request
      <4> QED BY <1>3, <1>6, <1>7, <3>1, <4>2, <4>3
    <3>2. CASE i # bill
      BY <1>7, <2>3, <3>2, OverlapParts DEF Rows, OpenInvoiceNotOverpaid
    <3> QED BY <3>1, <3>2
  <2>4. BilledOnce'
    <3>1. ~Overlapped(mine, "pay", "pay") => \A i \in Requests : i # bill => invoice[i].order # mine
      <4> SUFFICES ASSUME ~Overlapped(mine, "pay", "pay"), NEW i \in Requests, i # bill
                   PROVE  invoice[i].order # mine
        OBVIOUS
      <4>1. BillFound(r)
        BY <1>2, <1>4 DEF PaymentHolds, mine
      <4>2. CASE bill = r
        BY <4>1, <4>2 DEF BillFound, InvoicesOf, bill, mine
      <4>3. CASE bill # r
        BY <1>3, <1>5, <4>3, OverlapParts DEF Rows, BilledOnce
      <4> QED BY <4>2, <4>3
    <3> QED BY <1>2, <1>3, <1>6, <1>7, <3>1, OverlapParts DEF Rows, BilledOnce, Overlapped
  <2> QED BY <1>2, <2>1, <2>2, <2>3, <2>4
          DEF Rows, PaidInvoiceSettlesOrder, OpenInvoiceNotOverpaid, Overlapped
<1> QED BY <1>0, <1>1, <1>2, <1>9, <1>10, OverlapWritten

(* A gift card changes nothing that any of this is about. *)
LEMMA OverlapGifted ==
  ASSUME Typed, OverlapInv, NEW r \in Requests, RedeemGiftCard(r)
  PROVE  OverlapInv'
<1>1. PICK i \in Requests, a \in Nat :
        /\ invoice[i].order # None
        /\ pc[r] = "idle" /\ pc' = [pc EXCEPT ![r] = "gift"]
        /\ invoice' = [invoice EXCEPT ![i] = [invoice[i] EXCEPT !.gifted = @ + a]]
        /\ UNCHANGED <<order, captured, accounts, revenue, rq, raced>>
  BY GiftEffect
<1>2. \A j \in Requests :
        /\ invoice'[j].order = invoice[j].order /\ invoice'[j].status = invoice[j].status
        /\ invoice'[j].total = invoice[j].total /\ invoice'[j].paid = invoice[j].paid
  BY <1>1, GiftedType DEF Typed, TypeOK
<1>3. "gift" \notin BusyPC
  BY DEF BusyPC, StatusPC, ItemPC, PayPC
<1>4. ASSUME NEW q \in Requests \ {r} PROVE Undisturbed(q)
  <2>1. pc'[q] = pc[q] /\ rq'[q] = rq[q]
    BY <1>1 DEF Typed, TypeOK
  <2>2. pc[q] \in HasBill => rq[q].bill \in Requests
    BY BillType
  <2>3. InvoicesOf(rq[q].order)' = InvoicesOf(rq[q].order)
    BY <1>1, <1>2 DEF InvoicesOf
  <2> QED BY <1>1, <1>2, <2>1, <2>2, <2>3 DEF Undisturbed
<1>5. Rows'
  BY <1>1, <1>2, OverlapParts
  DEF Rows, TotalsMatchItems, PaidInvoiceSettlesOrder, OpenInvoiceNotOverpaid, BilledOnce, Overlapped
<1> QED BY <1>1, <1>3, <1>4, <1>5, OverlapWritten

(* A new order has the totals of its items, no invoice and no call. *)
LEMMA OverlapCreated ==
  ASSUME Typed, OverlapInv, NEW o \in Orders, CreateOrder(o) \/ CreateOrderWithItems(o)
  PROVE  OverlapInv'
<1>1. PICK row \in OrderRow :
        /\ ~Exists(o) /\ order' = [order EXCEPT ![o] = row] /\ row.total = row.items
        /\ UNCHANGED <<invoice, captured, accounts, revenue, pc, rq, raced>>
  BY CreateEffect
<1>2. \A x \in Orders : /\ Exists(x) => order'[x] = order[x]
                        /\ order'[x] = order[x] \/ (x = o /\ order'[x] = row)
  BY <1>1 DEF Typed, TypeOK
<1>3. ASSUME NEW q \in Requests PROVE CallHolds(q)'
  <2>1. CASE pc[q] \in BusyPC
    <3>1. order'[rq[q].order] = order[rq[q].order]
      BY <1>2, <2>1, RowType
    <3>2. Undisturbed(q)
      BY <1>1, <3>1 DEF Undisturbed, InvoicesOf
    <3> QED BY <3>2, UndisturbedHolds, OverlapParts
  <2>2. CASE pc[q] \notin BusyPC
    BY <1>1, <2>2, NotHeld
  <2> QED BY <2>1, <2>2
<1>4. OverlapsNoted'
  BY <1>1, OverlapParts DEF OverlapsNoted, InFlight, Overlapped
<1>5. TotalsMatchItems' /\ OpenInvoiceNotOverpaid' /\ BilledOnce'
  BY <1>1, <1>2, OverlapParts
  DEF Rows, TotalsMatchItems, OpenInvoiceNotOverpaid, BilledOnce, Overlapped
<1>6. PaidInvoiceSettlesOrder'
  BY <1>1, <1>2, OverlapParts DEF Rows, PaidInvoiceSettlesOrder, Overlapped, Exists
<1> QED BY <1>3, <1>4, <1>5, <1>6, OverlapParts DEF Rows

(* No step breaks what calls know that nothing overlapped. *)
LEMMA NextOverlap == Known /\ OverlapInv /\ [Next]_vars => OverlapInv'
<1> SUFFICES ASSUME Known, OverlapInv, [Next]_vars PROVE OverlapInv'
  OBVIOUS
<1>0. Typed
  BY DEF Known
<1>1. ASSUME NEW o \in Orders, CreateOrder(o) \/ CreateOrderWithItems(o) PROVE OverlapInv'
  BY <1>0, <1>1, OverlapCreated
<1>2. ASSUME NEW r \in Requests, Arrive(r) PROVE OverlapInv'
  BY <1>0, <1>2, OverlapSent
<1>3. ASSUME NEW r \in Requests, Proceed(r) PROVE OverlapInv'
  <2>1. CASE PayDuplicateAccount(r)
    BY <1>0, <2>1, OverlapFailed DEF PayDuplicateAccount, BusyPC, PayPC
  <2> QED BY <1>0, <1>3, <2>1, OverlapRead, OverlapStatusWrite, OverlapItemWrite, OverlapInvoice,
             OverlapCapture, OverlapPays, OverlapSettled DEF Proceed
<1>4. ASSUME NEW r \in Requests, Abort(r) PROVE OverlapInv'
  BY <1>0, <1>4, OverlapFailed DEF Abort
<1>5. ASSUME NEW r \in Requests, RedeemGiftCard(r) PROVE OverlapInv'
  BY <1>0, <1>5, OverlapGifted
<1>6. CASE UNCHANGED vars
  <2>1. \A q \in Requests : Undisturbed(q)
    BY <1>6 DEF vars, Undisturbed, InvoicesOf
  <2>2. Rows' /\ OverlapsNoted'
    BY <1>6, RowsKept, OverlapParts DEF vars, OverlapsNoted, InFlight, Overlapped
  <2> QED BY <2>1, <2>2, UndisturbedHolds, OverlapParts
<1> QED BY <1>1, <1>2, <1>3, <1>4, <1>5, <1>6 DEF Next

(* What the proofs about overlaps take from the earlier sections. *)
LEMMA KnownAlways == Spec => []Known
<1>1. IndInv /\ RevenueInv => Known
  BY DEF IndInv, RevenueInv, Known, Typed
<1> QED BY <1>1, Inductive, RevenueAlways, PTL

(* However many requests are in flight, what a call has read of an order, and what *)
(* the rows promise, holds unless a call of a kind that may break it overlapped.   *)
THEOREM OverlapInductive == Spec => []OverlapInv
<1>1. Init => OverlapInv
  <2> SUFFICES ASSUME Init PROVE OverlapInv
    OBVIOUS
  <2>1. \A r \in Requests : pc[r] = "idle" /\ invoice[r] = NoInvoice
    BY DEF Init
  <2>2. OverlapsNoted /\ \A r \in Requests : CallHolds(r)
    BY <2>1 DEF OverlapsNoted, InFlight, CallHolds, ItemHolds, StatusHolds, PaymentHolds, HasBill,
                HasSum, PayPC, ItemPC, StatusPC, BusyPC
  <2>3. Rows
    BY <2>1 DEF Init, Rows, TotalsMatchItems, PaidInvoiceSettlesOrder, OpenInvoiceNotOverpaid,
                BilledOnce, NoRow, NoInvoice
  <2> QED BY <2>2, <2>3, OverlapParts
<1>2. Known /\ OverlapInv /\ [Next]_vars => OverlapInv'
  BY NextOverlap
<1> QED BY <1>1, <1>2, KnownAlways, PTL DEF Spec

(* The totals of an order agree with its items unless two addItemToOrder overlapped, *)
(* whatever status changes and payments write the row meanwhile.                     *)
THEOREM TotalsMatch == Spec => []TotalsMatchItems
<1>1. OverlapInv => TotalsMatchItems
  BY DEF OverlapInv
<1> QED BY <1>1, OverlapInductive, PTL

(* The order of a PAID invoice is PAID or CLOSED for good unless a payment and a *)
(* status change overlapped.                                                     *)
THEOREM PaidSettles == Spec => []PaidInvoiceSettlesOrder
<1>1. OverlapInv => PaidInvoiceSettlesOrder
  BY DEF OverlapInv
<1> QED BY <1>1, OverlapInductive, PTL

(* processPayment leaves no invoice open for which it took more than the total, *)
(* unless two payments overlapped.                                              *)
THEOREM OpenNotOverpaid == Spec => []OpenInvoiceNotOverpaid
<1>1. OverlapInv => OpenInvoiceNotOverpaid
  BY DEF OverlapInv
<1> QED BY <1>1, OverlapInductive, PTL

(* An order has at most one invoice unless two payments overlapped. *)
THEOREM OneInvoice == Spec => []OneInvoicePerOrder
<1>1. OverlapInv => OneInvoicePerOrder
  <2> SUFFICES ASSUME OverlapInv, NEW o \in Orders, ~Overlapped(o, "pay", "pay")
               PROVE  Cardinality(InvoicesOf(o)) <= 1
    BY DEF OneInvoicePerOrder
  <2>1. \A i, j \in InvoicesOf(o) : i = j
    BY OrdersAssumption DEF OverlapInv, BilledOnce, InvoicesOf
  <2>2. CASE InvoicesOf(o) = {}
    BY <2>2, FS_EmptySet
  <2>3. CASE InvoicesOf(o) # {}
    <3>1. PICK i \in InvoicesOf(o) : InvoicesOf(o) = {i}
      BY <2>1, <2>3
    <3>2. Cardinality({i}) = 1
      BY FS_Singleton
    <3> QED BY <3>1, <3>2
  <2> QED BY <2>2, <2>3
<1> QED BY <1>1, OverlapInductive, PTL

(* Only a gift card touches a PAID invoice unless two payments overlapped: a   *)
(* payment that found the invoice open holds back any other that found it so. *)
THEOREM PaidImmutable == Spec => PaidInvoiceImmutable
<1>1. Known /\ OverlapInv /\ [Next]_vars =>
        [\A i \in Requests : \A o \in Orders :
           /\ invoice[i].order = o
           /\ invoice[i].status = "PAID"
           /\ ~Overlapped(o, "pay", "pay")
           => invoice'[i] = [invoice[i] EXCEPT !.gifted = invoice'[i].gifted]]_vars
  <2> SUFFICES ASSUME Known, OverlapInv, [Next]_vars, NEW i \in Requests, NEW o \in Orders,
                      invoice[i].order = o, invoice[i].status = "PAID",
                      ~Overlapped(o, "pay", "pay")
               PROVE  invoice'[i] = [invoice[i] EXCEPT !.gifted = invoice'[i].gifted]
    OBVIOUS
  <2>1. Typed /\ invoice[i] \in InvoiceRow
    BY DEF Known, Typed, TypeOK
  <2>2. CASE invoice'[i] = invoice[i]
    BY <2>1, <2>2 DEF InvoiceRow
  <2>3. ASSUME NEW r \in Requests, PayCommit(r) PROVE invoice'[i] = invoice[i]
    <3>1. pc[r] \in HasBill /\ pc[r] \notin Committed
      BY <2>3 DEF PayCommit, Move, HasBill, PayPC, Committed
    <3>2. rq[r].bill \in Requests
      BY <2>1, <3>1, BillType
    <3>3. invoice[r] = NoInvoice
      BY <3>1 DEF Known, InvoicesCommitted, UnissuedInvoices
    <3>4. i # rq[r].bill
      <4>1. CASE rq[r].bill = r
        BY <3>3, <4>1, OrdersAssumption DEF NoInvoice
      <4>2. CASE rq[r].bill # r /\ rq[r].order = o
        BY <3>1, <4>2, OverlapParts DEF CallHolds, PaymentHolds, BillFound
      <4>3. CASE rq[r].bill # r /\ rq[r].order # o
        BY <3>1, <4>3 DEF Known, BillsOwnOrder
      <4> QED BY <4>1, <4>2, <4>3
    <3> QED BY <2>1, <2>3, <3>2, <3>4 DEF PayCommit, Typed, TypeOK
  <2>4. ASSUME NEW r \in Requests, RedeemGiftCard(r)
        PROVE  invoice'[i] = [invoice[i] EXCEPT !.gifted = invoice'[i].gifted]
    <3>1. PICK j \in Requests, a \in Nat :
            invoice' = [invoice EXCEPT ![j] = [invoice[j] EXCEPT !.gifted = @ + a]]
      BY <2>1, <2>4, GiftEffect
    <3>2. CASE i = j
      <4>1. invoice'[i] = [invoice[i] EXCEPT !.gifted = @ + a]
        BY <2>1, <3>1, <3>2 DEF Typed, TypeOK
      <4> QED BY <2>1, <4>1 DEF InvoiceRow
    <3>3. CASE i # j
      BY <2>1, <2>2, <3>1, <3>3 DEF Typed, TypeOK
    <3> QED BY <3>2, <3>3
  <2>5. ASSUME NEW x \in Orders, CreateOrder(x) \/ CreateOrderWithItems(x) PROVE UNCHANGED invoice
    BY <2>5 DEF CreateOrder, CreateOrderWithItems
  <2>6. ASSUME NEW r \in Requests, Arrive(r) PROVE UNCHANGED invoice
    BY <2>6 DEF Arrive, SendStatus, SendItem, SendPayment, Send, tables
  <2>7. ASSUME NEW r \in Requests, Proceed(r), ~PayCommit(r) PROVE UNCHANGED invoice
    BY <2>7 DEF Proceed, StatusRead, StatusWrite, ItemRead, ItemWrite, PayRead, PayInvoice,
                PayCapture, PaySettle, PayOrder, PayAccounts, PayDuplicateAccount, tables
  <2>8. ASSUME NEW r \in Requests, Abort(r) PROVE UNCHANGED invoice
    BY <2>8 DEF Abort, tables
  <2> QED BY <2>2, <2>3, <2>4, <2>5, <2>6, <2>7, <2>8 DEF Next, vars
<1> QED BY <1>1, OverlapInductive, KnownAlways, PTL DEF Spec, PaidInvoiceImmutable

(* The status that updateOrderStatus writes is one that the table allows from the  *)
(* row's, though it checked a row read earlier, unless another status change or a  *)
(* payment overlapped.                                                             *)
THEOREM StatusLegal == Spec => StatusWriteLegal
<1>1. OverlapInv =>
        [\A r \in Requests : \A o \in Orders :
           /\ pc[r] = "status_write" /\ pc'[r] = "ok" /\ rq[r].order = o
           /\ ~Overlapped(o, "status", "status")
           /\ ~Overlapped(o, "pay", "status")
           => TransitionAllowed(order[o].status, rq[r].to)]_vars
  BY OverlapParts DEF CallHolds, StatusHolds
<1> QED BY <1>1, OverlapInductive, PTL DEF Spec, StatusWriteLegal
=============================================================================
