---------------------------- MODULE StockLedger ----------------------------
(***************************************************************************)
(* Stock of one branch: inventory_items, inventory_batches and             *)
(* stock_movements, as three kinds of callers write them.                  *)
(*                                                                         *)
(*  - Depletion jobs.  An order item is committed, a job for it is queued  *)
(*    in BullMQ, and a worker runs the job as one transaction.             *)
(*  - Terminals call createPurchaseOrder, updatePurchaseOrderStatus,       *)
(*    createGoodsReceipt and completeGoodsReceipt (a transaction).         *)
(*  - A manager creates or edits an inventory item by hand.                *)
(*                                                                         *)
(* A statement reads what is committed.  What a transaction writes becomes *)
(* visible at its commit, and a row it has updated stays locked until      *)
(* then: tx[p].wrote and tx[p].took are the items and batches that         *)
(* transaction p has updated and therefore holds.                          *)
(*                                                                         *)
(* Data: stock_movements are kept as their sum per ingredient (ledger) and *)
(* as the number of transactions that committed movements for a reference  *)
(* (posted).  Quantities are naturals, in units of the columns' last digit *)
(* (Decimal(10,4)); where the program adds them as floats, what it decides *)
(* at equality is left open.  The lines of a receipt about one ingredient  *)
(* are one, those of a purchase order are not.  Batches stand in the order *)
(* of their commits, which is the order of received_at unless two receipts *)
(* overlap within a transaction's time; expires_at is never set.           *)
(***************************************************************************)
EXTENDS Integers, Sequences, FiniteSets, Functions

CONSTANTS
  Ingredients,
  Items,           \* order items, and the depletion job of each
  Receipts,        \* goods receipts
  PurchaseOrders,
  Terminals,       \* callers, one call at a time each
  None,            \* no such row
  Recipe,          \* Recipe[i][k]: amount of k in the recipe snapshot of order item i
  Accepted,        \* Accepted[g][k]: accepted_qty of k on receipt g
  OfOrder,         \* OfOrder[g]: purchase order of receipt g
  Ordered,         \* Ordered[p]: the lines of purchase order p, several may be of one ingredient
  ByHand,          \* quantities a manager enters
  MaxAttempts,     \* attempts of a job (defaultJobOptions: 3)
  MaxBatches       \* bound: batches that may exist

Amounts == [Ingredients -> Nat]
OrderLines == [ingredient : Ingredients, qty : Nat]
ASSUME RowsAssumption ==
  /\ None \notin Ingredients \cup Items \cup Receipts \cup PurchaseOrders \cup Terminals
  /\ Items \cap Receipts = {} /\ Items \cap Terminals = {}
ASSUME AmountsAssumption ==
  /\ Recipe \in [Items -> Amounts] /\ Accepted \in [Receipts -> Amounts]
  /\ OfOrder \in [Receipts -> PurchaseOrders] /\ Ordered \in [PurchaseOrders -> Seq(OrderLines)]
  /\ IsFiniteSet(Ingredients)
  /\ ByHand \subseteq Nat /\ MaxBatches \in Nat /\ MaxAttempts \in Nat \ {0}

VARIABLES
  item,      \* inventory_items: does a live row exist, and its actual_qty
  batch,     \* inventory_batches: ingredient and remaining_qty
  ledger,    \* sum of quantity_delta over the stock_movements of an ingredient
  byHand,    \* what hands changed in actual_qty (no movement is written for it)
  posted,    \* committed transactions with movements of an order item or a receipt
  job,       \* the BullMQ job of an order item
  receipt,   \* status of each goods receipt
  po,        \* status of each purchase order
  pc,        \* next statement of each worker's job and of each terminal
  tx,        \* local variables of each call
  raced      \* receipts and purchase orders about which two calls overlapped

tables == <<item, batch, ledger, byHand, posted, receipt, po>>
vars == <<item, batch, ledger, byHand, posted, job, receipt, po, pc, tx, raced>>

Refs == Items \cup Receipts
Callers == Items \cup Terminals
OrderStatus == {"ABSENT", "DRAFT", "SUBMITTED", "APPROVED", "CANCELLED",
                "PARTIALLY_RECEIVED", "RECEIVED"}
MaxStalls == 1     \* BullMQ's default maxStalledCount

NoTx == [ref |-> None,             \* the order item, receipt or purchase order of the call
         todo |-> {}, at |-> None, \* lines left, and the one in work
         plan |-> [b \in 1..MaxBatches |-> 0], \* how much to take from which batch
         took |-> {}, wrote |-> {},\* batches and items updated so far
         found |-> FALSE,          \* was an inventory item found?
         to |-> "ABSENT"]          \* status to write

Init ==
  /\ item = [k \in Ingredients |-> [live |-> FALSE, qty |-> 0]]
  /\ batch = <<>>
  /\ ledger = [k \in Ingredients |-> 0]
  /\ byHand = [k \in Ingredients |-> 0]
  /\ posted = [ref \in Refs |-> 0]
  /\ job = [i \in Items |-> [state |-> "unplaced", attempts |-> 0, stalls |-> 0]]
  /\ receipt = [g \in Receipts |-> "ABSENT"]
  /\ po = [p \in PurchaseOrders |-> "ABSENT"]
  /\ pc = [p \in Callers |-> "off"]
  /\ tx = [p \in Callers |-> NoTx]
  /\ raced = {}

Lines(amounts) == {k \in Ingredients : amounts[k] > 0}

\* Row locks, held from an update to the end of the transaction.
ItemLocked(p, k) == \E q \in Callers \ {p} : k \in tx[q].wrote
BatchLocked(p, b) == \E q \in Callers \ {p} : b \in tx[q].took
\* The first update of a completion is that of the receipt's row.
Completing(t) == pc[t] \in {"lines", "put", "finish"}
ReceiptLocked(t, g) == \E u \in Terminals \ {t} : Completing(u) /\ tx[u].ref = g

Goto(p, from, to) == pc[p] = from /\ pc' = [pc EXCEPT ![p] = to]
\* Every way out of a call: nothing uncommitted is left, nothing is locked.
Leave(p) == pc' = [pc EXCEPT ![p] = "off"] /\ tx' = [tx EXCEPT ![p] = NoTx]

\* The receipts and purchase orders a call is about.
Subjects(ref) == {ref} \cup {OfOrder[g] : g \in {ref} \cap Receipts}
Overlap(t, ref) ==
  raced' = raced \cup
    {s \in Subjects(ref) : \E u \in Terminals \ {t} : s \in Subjects(tx[u].ref)}

-----------------------------------------------------------------------------
(* Faulty variants of definitions below, for the mutants of the runs. *)

StartUnchecked(i) ==  \* no look-up of earlier movements
  /\ job[i].state = "waiting"
  /\ job' = [job EXCEPT ![i].state = "active"]
  /\ Goto(i, "off", "lines")
  /\ tx' = [tx EXCEPT ![i] = [NoTx EXCEPT !.ref = i, !.todo = Lines(Recipe[i])]]
  /\ UNCHANGED <<tables, raced>>

WriteItemOnce(i) ==  \* the CHECK sees the quantity before the earlier lines of others
  LET k == tx[i].at IN
  /\ Goto(i, "take", "lines")
  /\ item[k].live
  /\ item[k].qty >= Recipe[i][k]
  /\ tx' = [tx EXCEPT ![i].wrote = @ \cup {k}, ![i].at = None]
  /\ UNCHANGED <<tables, job, raced>>

WriteItemIfAny(i) ==  \* a missing inventory item is skipped
  LET k == tx[i].at IN
  /\ Goto(i, "take", "lines")
  /\ ~ItemLocked(i, k)
  /\ item[k].qty >= Recipe[i][k] \/ ~item[k].live
  /\ tx' = [tx EXCEPT ![i].wrote = IF item[k].live THEN @ \cup {k} ELSE @, ![i].at = None]
  /\ UNCHANGED <<tables, job, raced>>

PlanWholeBatch(i) ==  \* the oldest batch is emptied, whatever the need
  \E k \in tx[i].todo :
    LET ofK == {b \in DOMAIN batch : batch[b].ingredient = k /\ batch[b].left > 0} IN
    /\ Goto(i, "lines", "take")
    /\ tx' = [tx EXCEPT ![i].at = k, ![i].todo = @ \ {k},
                        ![i].plan = [b \in 1..MaxBatches |->
                           IF b \in ofK /\ \A c \in ofK : b <= c THEN batch[b].left ELSE @[b]]]
    /\ UNCHANGED <<tables, job, raced>>

FailsForever(i) ==  \* the attempt is not counted
  /\ pc[i] \notin {"off", "report"}
  /\ job' = [job EXCEPT ![i].state = "waiting"]
  /\ Leave(i)
  /\ UNCHANGED <<tables, raced>>

ReadAnyReceipt(t) ==  \* the status of the receipt is not looked at
  \E g \in Receipts :
    /\ Goto(t, "off", "mark")
    /\ receipt[g] # "ABSENT"
    /\ tx' = [tx EXCEPT ![t].ref = g]
    /\ Overlap(t, g)
    /\ UNCHANGED <<tables, job>>

CompletedOthers(p, own) ==  \* the receipts are read before this one is marked
  {g \in Receipts : OfOrder[g] = p /\ receipt[g] = "COMPLETED"}

-----------------------------------------------------------------------------
(* createOrderWithItems commits the order item with its recipe snapshot    *)
(* and then awaits queueDepletionJob; a failure is only logged.            *)

PlaceItem(i) ==
  /\ job[i].state = "unplaced"
  /\ job' = [job EXCEPT ![i].state = "placed"]
  /\ UNCHANGED <<tables, pc, tx, raced>>

QueueJob(i) ==
  /\ job[i].state = "placed"
  /\ \E s \in {"waiting", "lost"} : job' = [job EXCEPT ![i].state = s]
  /\ UNCHANGED <<tables, pc, tx, raced>>

-----------------------------------------------------------------------------
(* The depletion worker.  A job is active in one worker at a time: it is   *)
(* given to another only when its lock (30 s) has expired, and the         *)
(* transaction of the first has then been rolled back (timeout 5 s).       *)

StartJob(i) ==  \* look for earlier movements of the order item, and for something to deplete
  LET idle == posted[i] > 0 \/ Lines(Recipe[i]) = {} IN
  /\ job[i].state = "waiting"
  /\ job' = [job EXCEPT ![i].state = "active"]
  /\ Goto(i, "off", IF idle THEN "report" ELSE "lines")
  /\ tx' = [tx EXCEPT ![i] = [NoTx EXCEPT !.ref = i, !.todo = IF idle THEN {} ELSE Lines(Recipe[i])]]
  /\ UNCHANGED <<tables, raced>>

BatchesOf(k) == {b \in DOMAIN batch : batch[b].ingredient = k /\ batch[b].left > 0}
\* FIFO: a batch is touched once the older ones are emptied, until the need is met.
OldestFirst(k, need, plan) ==
  /\ SumFunction(plan) <= need
  /\ \A b \in DOMAIN plan : plan[b] <= batch[b].left
  /\ SumFunction(plan) < need => \A b \in DOMAIN plan : plan[b] = batch[b].left
  /\ \A b, c \in DOMAIN plan : b < c /\ plan[c] > 0 => plan[b] = batch[b].left

PlanLine(i) ==  \* read the batches of one ingredient; what they lack moves without a batch
  \E k \in tx[i].todo : \E plan \in [BatchesOf(k) -> 0..Recipe[i][k]] :
    /\ Goto(i, "lines", "take")
    /\ OldestFirst(k, Recipe[i][k], plan)
    /\ tx' = [tx EXCEPT ![i].at = k, ![i].todo = @ \ {k},
                        ![i].plan = [b \in 1..MaxBatches |->
                                       IF b \in BatchesOf(k) THEN plan[b] ELSE @[b]]]
    /\ UNCHANGED <<tables, job, raced>>

ToTake(i) == {b \in DOMAIN batch \ tx[i].took : tx[i].plan[b] > 0}
TakeBatch(i) ==  \* decrement; CHECK (remaining_qty >= 0)
  \E b \in ToTake(i) :
    /\ pc[i] = "take"
    /\ \A c \in ToTake(i) : b <= c
    /\ ~BatchLocked(i, b)
    /\ batch[b].left >= tx[i].plan[b]
    /\ tx' = [tx EXCEPT ![i].took = @ \cup {b}]
    /\ UNCHANGED <<tables, job, pc, raced>>

\* Find the inventory item and decrement it; CHECK (actual_qty >= 0).  Without
\* an item the code creates one with a negative quantity: the CHECK refuses it.
WriteItem(i) ==
  LET k == tx[i].at IN
  /\ Goto(i, "take", "lines")
  /\ ToTake(i) = {}
  /\ item[k].live
  /\ ~ItemLocked(i, k)
  /\ item[k].qty >= Recipe[i][k]
  /\ tx' = [tx EXCEPT ![i].wrote = @ \cup {k}, ![i].at = None]
  /\ UNCHANGED <<tables, job, raced>>

CommitJob(i) ==
  /\ pc[i] = "lines" /\ tx[i].todo = {}
  /\ item' = [k \in Ingredients |-> IF k \in tx[i].wrote
                                      THEN [item[k] EXCEPT !.qty = @ - Recipe[i][k]] ELSE item[k]]
  /\ ledger' = [k \in Ingredients |-> ledger[k] - Recipe[i][k]]
  /\ batch' = [b \in DOMAIN batch |-> IF b \in tx[i].took
                                        THEN [batch[b] EXCEPT !.left = @ - tx[i].plan[b]] ELSE batch[b]]
  /\ posted' = [posted EXCEPT ![i] = @ + 1]
  /\ pc' = [pc EXCEPT ![i] = "report"]
  /\ tx' = [tx EXCEPT ![i] = NoTx]
  /\ UNCHANGED <<byHand, receipt, po, job, raced>>

ReportDone(i) ==
  /\ pc[i] = "report"
  /\ job' = [job EXCEPT ![i].state = "done"]
  /\ Leave(i)
  /\ UNCHANGED <<tables, raced>>

\* A statement failed (a CHECK, a deadlock, the transaction's timeout): the
\* attempt counts, and the job is delayed and tried again or given up.
AttemptFails(i) ==
  LET n == job[i].attempts + 1 IN
  /\ pc[i] \notin {"off", "report"}
  /\ job' = [job EXCEPT ![i].attempts = n,
                        ![i].state = IF n < MaxAttempts THEN "waiting" ELSE "failed"]
  /\ Leave(i)
  /\ UNCHANGED <<tables, raced>>

\* The worker's process ends; the job's lock expires and the job is stalled.
WorkerCrashes(i) ==
  LET n == job[i].stalls + 1 IN
  /\ pc[i] # "off"
  /\ job' = [job EXCEPT ![i].stalls = n,
                        ![i].state = IF n <= MaxStalls THEN "waiting" ELSE "failed"]
  /\ Leave(i)
  /\ UNCHANGED <<tables, raced>>

-----------------------------------------------------------------------------
(* A manager's hand: createInventoryItem and updateInventoryItem. *)

SetQuantity(k, q) ==
  /\ ~ItemLocked(None, k)
  /\ item' = [item EXCEPT ![k] = [live |-> TRUE, qty |-> q]]
  /\ byHand' = [byHand EXCEPT ![k] = @ + q - item[k].qty]
  /\ UNCHANGED <<batch, ledger, posted, receipt, po, job, pc, tx, raced>>

CreateItem(k) == ~item[k].live /\ \E q \in ByHand : SetQuantity(k, q)
EditItem(k) == item[k].live /\ \E q \in ByHand : SetQuantity(k, q)

-----------------------------------------------------------------------------
(* Purchase orders: a status is checked in one statement and written in another. *)

CreateOrder(p) ==
  /\ po[p] = "ABSENT"
  /\ po' = [po EXCEPT ![p] = "DRAFT"]
  /\ UNCHANGED <<item, batch, ledger, byHand, posted, receipt, job, pc, tx, raced>>

MayBecome(from, to) ==  \* CANCELLED from everywhere
  /\ to = "SUBMITTED" => from = "DRAFT"
  /\ to = "APPROVED" => from = "SUBMITTED"

ReadOrder(t) ==
  \E p \in PurchaseOrders, to \in {"SUBMITTED", "APPROVED", "CANCELLED"} :
    /\ Goto(t, "off", "status")
    /\ po[p] # "ABSENT" /\ MayBecome(po[p], to)
    /\ tx' = [tx EXCEPT ![t].ref = p, ![t].to = to]
    /\ Overlap(t, p)
    /\ UNCHANGED <<tables, job>>

WriteOrder(t) ==
  /\ pc[t] = "status"
  /\ po' = [po EXCEPT ![tx[t].ref] = tx[t].to]
  /\ Leave(t)
  /\ UNCHANGED <<item, batch, ledger, byHand, posted, receipt, job, raced>>

-----------------------------------------------------------------------------
(* createGoodsReceipt: the purchase order is checked, then the receipt inserted. *)

ReadReceivable(t) ==
  \E g \in Receipts :
    /\ Goto(t, "off", "insert")
    /\ receipt[g] = "ABSENT" /\ \A u \in Terminals : tx[u].ref # g
    /\ po[OfOrder[g]] \in {"APPROVED", "PARTIALLY_RECEIVED"}
    /\ tx' = [tx EXCEPT ![t].ref = g]
    /\ Overlap(t, g)
    /\ UNCHANGED <<tables, job>>

InsertReceipt(t) ==
  /\ pc[t] = "insert"
  /\ receipt' = [receipt EXCEPT ![tx[t].ref] = "PENDING"]
  /\ Leave(t)
  /\ UNCHANGED <<item, batch, ledger, byHand, posted, po, job, raced>>

-----------------------------------------------------------------------------
(* completeGoodsReceipt: one transaction. *)

ReadReceipt(t) ==  \* find the receipt and its purchase order
  \E g \in Receipts :
    /\ Goto(t, "off", "mark")
    /\ receipt[g] = "PENDING"
    /\ tx' = [tx EXCEPT ![t].ref = g]
    /\ Overlap(t, g)
    /\ UNCHANGED <<tables, job>>

MarkCompleted(t) ==  \* an update by primary key, which does not look at the status again
  /\ Goto(t, "mark", "lines")
  /\ ~ReceiptLocked(t, tx[t].ref)
  /\ tx' = [tx EXCEPT ![t].todo = Lines(Accepted[tx[t].ref])]
  /\ UNCHANGED <<tables, job, raced>>

FindItem(t) ==  \* one line: insert its batch and movement, look for the inventory item
  \E k \in tx[t].todo :
    /\ Goto(t, "lines", "put")
    /\ tx' = [tx EXCEPT ![t].todo = @ \ {k}, ![t].at = k, ![t].found = item[k].live]
    /\ UNCHANGED <<tables, job, raced>>

\* Increment the item found, or insert one: refused by the unique index when
\* there is one by now.
PutItem(t) ==
  LET k == tx[t].at IN
  /\ Goto(t, "put", "lines")
  /\ ~ItemLocked(t, k)
  /\ tx[t].found = item[k].live
  /\ tx' = [tx EXCEPT ![t].wrote = @ \cup {k}, ![t].at = None]
  /\ UNCHANGED <<tables, job, raced>>

\* The completed receipts that the transaction sees: committed ones and its own.
Completed(p, own) ==
  {g \in Receipts : OfOrder[g] = p /\ (receipt[g] = "COMPLETED" \/ g = own)}
\* Each line is compared with all that came of its ingredient, for other lines too.
Arrived(k, receipts) == SumFunctionOnSet([g \in receipts |-> Accepted[g][k]], receipts)
LinesMet(p, receipts) ==
  \A n \in DOMAIN Ordered[p] : Arrived(Ordered[p][n].ingredient, receipts) >= Ordered[p][n].qty
LinesExceeded(p, receipts) ==
  \A n \in DOMAIN Ordered[p] :
    Ordered[p][n].qty = 0 \/ Arrived(Ordered[p][n].ingredient, receipts) > Ordered[p][n].qty
\* The program's sum is one of floats: where a line is met to the last digit it may
\* come out below the line (0.7 + 0.1 < 0.8), and nowhere else.
Verdicts(p, receipts) ==
  {to \in {"RECEIVED", "PARTIALLY_RECEIVED"} :
     /\ to = "RECEIVED" => LinesMet(p, receipts)
     /\ to = "PARTIALLY_RECEIVED" => ~LinesExceeded(p, receipts)}

SumReceipts(t) ==
  LET p == OfOrder[tx[t].ref] IN
  /\ Goto(t, "lines", "finish")
  /\ tx[t].todo = {}
  /\ \E to \in Verdicts(p, Completed(p, tx[t].ref)) : tx' = [tx EXCEPT ![t].to = to]
  /\ UNCHANGED <<tables, job, raced>>

CommitReceipt(t) ==  \* update the purchase order, whatever its status is by now, and commit
  LET g == tx[t].ref
      brought == Lines(Accepted[g])
      n == Cardinality(brought)
  IN
  /\ pc[t] = "finish"
  /\ Len(batch) + n <= MaxBatches
  /\ po' = [po EXCEPT ![OfOrder[g]] = tx[t].to]
  /\ receipt' = [receipt EXCEPT ![g] = "COMPLETED"]
  /\ item' = [k \in Ingredients |->
                IF k \in tx[t].wrote THEN [live |-> TRUE, qty |-> item[k].qty + Accepted[g][k]]
                                     ELSE item[k]]
  /\ ledger' = [k \in Ingredients |-> ledger[k] + Accepted[g][k]]
  /\ \E order \in [1..n -> brought] :
       /\ IsInjective(order)
       /\ batch' = batch \o [b \in 1..n |-> [ingredient |-> order[b], left |-> Accepted[g][order[b]]]]
  /\ posted' = [posted EXCEPT ![g] = @ + 1]
  /\ Leave(t)
  /\ UNCHANGED <<byHand, job, raced>>

Abort(t) ==  \* a statement fails, the transaction times out, or the process ends
  /\ pc[t] # "off"
  /\ Leave(t)
  /\ UNCHANGED <<tables, job, raced>>

-----------------------------------------------------------------------------
JobStep(i) ==
  \/ StartJob(i) \/ PlanLine(i) \/ TakeBatch(i)
  \/ WriteItem(i) \/ CommitJob(i) \/ ReportDone(i) \/ AttemptFails(i)
TerminalStep(t) ==
  \/ ReadOrder(t) \/ WriteOrder(t) \/ ReadReceivable(t) \/ InsertReceipt(t)
  \/ ReadReceipt(t) \/ MarkCompleted(t) \/ FindItem(t) \/ PutItem(t)
  \/ SumReceipts(t) \/ CommitReceipt(t) \/ Abort(t)

Next ==
  \/ \E i \in Items : PlaceItem(i) \/ QueueJob(i) \/ JobStep(i) \/ WorkerCrashes(i)
  \/ \E t \in Terminals : TerminalStep(t)
  \/ \E k \in Ingredients : CreateItem(k) \/ EditItem(k)
  \/ \E p \in PurchaseOrders : CreateOrder(p)

Spec == Init /\ [][Next]_vars
\* Workers run, and a statement of theirs ends one way or the other; a caller
\* at a terminal may stop for good in the middle of a call.
FairSpec == Spec /\ \A i \in Items : WF_vars(JobStep(i))
-----------------------------------------------------------------------------
(* Properties. *)

Batches == [ingredient : Ingredients, left : Nat]
Transactions ==
  [ref : {None} \cup Refs \cup PurchaseOrders, todo : SUBSET Ingredients,
   at : {None} \cup Ingredients, plan : [1..MaxBatches -> Nat],
   took : SUBSET (1..MaxBatches), wrote : SUBSET Ingredients, found : BOOLEAN, to : OrderStatus]

TypeOK ==
  /\ item \in [Ingredients -> [live : BOOLEAN, qty : Nat]]
  /\ batch \in Seq(Batches) /\ Len(batch) <= MaxBatches
  /\ ledger \in [Ingredients -> Int] /\ byHand \in [Ingredients -> Int]
  /\ posted \in [Refs -> Nat]
  /\ job \in [Items -> [state : {"unplaced", "placed", "lost", "waiting", "active", "done", "failed"},
                        attempts : 0..MaxAttempts, stalls : 0..MaxStalls + 1]]
  /\ receipt \in [Receipts -> {"ABSENT", "PENDING", "COMPLETED"}]
  /\ po \in [PurchaseOrders -> OrderStatus]
  /\ pc \in [Callers -> {"off", "lines", "take", "report", "status", "insert", "mark", "put", "finish"}]
  /\ tx \in [Callers -> Transactions]
  /\ raced \subseteq Receipts \cup PurchaseOrders

\* Whatever overlaps, fails or crashes: the quantity on hand is what the movements
\* add up to, apart from what a hand entered without a movement
\* (inventory-item.service.ts, updateInventoryItem).
QuantityIsLedger ==
  \A k \in Ingredients : item[k].qty = ledger[k] + byHand[k]

\* An order item leaves stock at most once however often its job runs, and a job
\* that ends well has left its movements (depletion.worker.ts, idempotency check).
DepletedOnce ==
  \A i \in Items :
    /\ posted[i] <= 1
    /\ job[i].state = "done" /\ Lines(Recipe[i]) # {} => posted[i] = 1

\* The batches never hold less than the ledger says: each movement out of a batch
\* came with its decrement, also when two workers planned with the same batch.
BatchesCoverLedger ==
  \A k \in Ingredients :
    ledger[k] <= SumFunctionOnSet([b \in DOMAIN batch |-> batch[b].left],
                                  {b \in DOMAIN batch : batch[b].ingredient = k})

\* A receipt enters stock once, unless two calls about it overlapped
\* (goods-receipt.service.ts: its status is checked before it is written).
ReceiptCountsOnce ==
  \A g \in Receipts :
    /\ posted[g] > 0 <=> receipt[g] = "COMPLETED"
    /\ g \notin raced => posted[g] <= 1

\* A purchase order is RECEIVED only if the completed receipts meet each of its lines,
\* whatever overlaps; and when no calls about it overlapped, one of which something was
\* received and whose lines are exceeded is RECEIVED (or was cancelled afterwards).  An
\* order without lines is met before anything is received (purchase-order.controller.ts,
\* items || []).  It does not follow that all that was ordered came: two lines of one
\* ingredient are both met by what meets the larger (goods-receipt.service.ts).
CompletedOf(p) == {g \in Receipts : OfOrder[g] = p /\ receipt[g] = "COMPLETED"}
ReceivedMeansCovered ==
  \A p \in PurchaseOrders :
    LET receipts == CompletedOf(p) IN
    /\ po[p] = "RECEIVED" => LinesMet(p, receipts)
    /\ LinesExceeded(p, receipts) /\ receipts # {} /\ p \notin raced =>
         po[p] \in {"RECEIVED", "CANCELLED"}

\* A job that was queued is done or given up in the end: waiting for rows that others
\* hold, failing and retrying come to an end.
JobsSettle ==
  \A i \in Items : job[i].state = "waiting" ~> job[i].state \in {"done", "failed"}

\* All of it implements the book: postings are whole, each order item's at most once,
\* and no quantity becomes negative.
Book == INSTANCE StockBook WITH quantity <- [k \in Ingredients |-> item[k].qty]
ImplementsBook == Book!BookSpec

\* The inductive invariant: rows in work are held by one transaction; a job in work is
\* not posted, has updated what it has not left to do, and its decrements fit; a
\* receipt in work has updated what it has not left to do.
LocksExclusive ==
  \A p, q \in Callers :
    p # q => tx[p].wrote \cap tx[q].wrote = {} /\ tx[p].took \cap tx[q].took = {}
PlanFits(i) ==
  \A b \in 1..MaxBatches : tx[i].plan[b] > 0 =>
    /\ b \in DOMAIN batch /\ batch[b].ingredient \notin tx[i].todo
    /\ b \in tx[i].took => batch[b].left >= tx[i].plan[b]
JobInOrder(i) ==
  /\ job[i].state # "failed" => job[i].attempts < MaxAttempts /\ job[i].stalls <= MaxStalls
  /\ pc[i] \in {"off", "lines", "take", "report"}
  /\ pc[i] # "off" <=> job[i].state = "active"
  /\ pc[i] \in {"lines", "take"} => posted[i] = 0
  /\ pc[i] = "lines" => tx[i].todo \cup tx[i].wrote = Lines(Recipe[i])
  /\ pc[i] = "take" => tx[i].todo \cup tx[i].wrote \cup {tx[i].at} = Lines(Recipe[i])
  /\ pc[i] \in {"off", "report"} => tx[i].wrote = {} /\ tx[i].took = {}
  /\ \A k \in tx[i].wrote : item[k].live /\ item[k].qty >= Recipe[i][k]
  /\ \A b \in tx[i].took : tx[i].plan[b] > 0
  /\ PlanFits(i)
  /\ posted[i] <= 1
  /\ (pc[i] = "report" \/ job[i].state = "done") /\ Lines(Recipe[i]) # {} => posted[i] = 1
CallInOrder(t) ==
  /\ pc[t] \in {"off", "status", "insert", "mark", "lines", "put", "finish"}
  /\ pc[t] = "status" => tx[t].ref \in PurchaseOrders
  /\ pc[t] \in {"insert", "mark", "lines", "put", "finish"} => tx[t].ref \in Receipts
  /\ pc[t] = "lines" => tx[t].todo \cup tx[t].wrote = Lines(Accepted[tx[t].ref])
  /\ pc[t] = "put" => tx[t].todo \cup tx[t].wrote \cup {tx[t].at} = Lines(Accepted[tx[t].ref])
  /\ pc[t] = "finish" => tx[t].wrote = Lines(Accepted[tx[t].ref])
  /\ pc[t] \in {"off", "status", "insert", "mark"} => tx[t].wrote = {}
  /\ tx[t].took = {}
IndInv ==
  /\ TypeOK /\ LocksExclusive /\ QuantityIsLedger
  /\ \A i \in Items : JobInOrder(i)
  /\ \A t \in Terminals : CallInOrder(t)

\* Why the receipts count: of a receipt or order that no calls overlapped about, one call
\* at most is in work, and what that call has read of it is still so.
OneCallEach ==
  \A s \in (Receipts \cup PurchaseOrders) \ raced, t, u \in Terminals :
    t # u => s \notin Subjects(tx[t].ref) \/ s \notin Subjects(tx[u].ref)
Receiving(t) == pc[t] \in {"insert", "mark", "lines", "put", "finish"}
StillAbsent(t) ==
  pc[t] = "insert" =>
    /\ receipt[tx[t].ref] = "ABSENT"
    /\ \A u \in Terminals \ {t} : Receiving(u) => tx[u].ref # tx[t].ref
StillPending(t) ==
  pc[t] \in {"mark", "lines", "put", "finish"} /\ tx[t].ref \notin raced =>
    receipt[tx[t].ref] = "PENDING"
StillAllowed(t) ==
  pc[t] = "status" =>
    /\ tx[t].to \in {"SUBMITTED", "APPROVED", "CANCELLED"}
    /\ tx[t].ref \notin raced => po[tx[t].ref] # "ABSENT" /\ MayBecome(po[tx[t].ref], tx[t].to)
StillSummed(t) ==
  pc[t] = "finish" =>
    LET p == OfOrder[tx[t].ref]
        receipts == Completed(p, tx[t].ref) IN
    /\ tx[t].to \in {"RECEIVED", "PARTIALLY_RECEIVED"}
    /\ tx[t].to = "RECEIVED" => LinesMet(p, receipts)
    /\ LinesExceeded(p, receipts) /\ p \notin raced => tx[t].to = "RECEIVED"
CallFresh(t) ==
  /\ pc[t] = "off" => tx[t].ref = None
  /\ StillAbsent(t) /\ StillPending(t) /\ StillAllowed(t) /\ StillSummed(t)
ReceiptInv ==
  /\ OneCallEach /\ \A t \in Terminals : CallFresh(t)
  /\ \A p \in PurchaseOrders : IsFiniteSet(CompletedOf(p))
  /\ ReceiptCountsOnce /\ ReceivedMeansCovered

\* Why the batches cover the ledger: a job never plans more of an ingredient than it needs.
OfKind(k) == {b \in DOMAIN batch : batch[b].ingredient = k}
PlanWithin(i) == \A k \in Ingredients : SumFunctionOnSet(tx[i].plan, OfKind(k)) <= Recipe[i][k]
BatchInv == BatchesCoverLedger /\ \A i \in Items : PlanWithin(i)

\* What the comment in depletion.worker.ts expects when stock runs short: "We must
\* record the remaining depletion so actualQty remains accurate (goes negative if
\* needed)".  A job that is given up has recorded its movements.
ShortageIsRecorded ==
  \A i \in Items : job[i].state = "failed" => posted[i] = 1
=============================================================================
