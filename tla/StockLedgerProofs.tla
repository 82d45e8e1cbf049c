------------------------- MODULE StockLedgerProofs -------------------------
(***************************************************************************)
(* Theorems about StockLedger: typing, the quantity on hand against the    *)
(* movements, one depletion per order item, receipts that count once,      *)
(* orders received when they are covered, batches that cover the ledger,   *)
(* and the refinement of StockBook, for every set of rows, callers and     *)
(* amounts.                                                                *)
(*                                                                         *)
(* IndInv is inductive.  Its core is LocksExclusive: an item that a        *)
(* transaction has decremented cannot change before that transaction       *)
(* ends, so the CHECK it passed still holds when it commits.  ReceiptInv   *)
(* and BatchInv are inductive beside it.                                   *)
(***************************************************************************)
EXTENDS StockLedger, SumLemmas

\* What an action of one caller leaves alone when it writes no table.
OnlyOf(p) ==
  /\ UNCHANGED tables
  /\ tx' = [tx EXCEPT ![p] = tx'[p]]
  /\ pc' = [pc EXCEPT ![p] = pc'[p]]
  /\ job' = IF p \in Items THEN [job EXCEPT ![p] = job'[p]] ELSE job

Statements == {"off", "lines", "take", "report", "status", "insert", "mark", "put", "finish"}
Jobs == [state : {"unplaced", "placed", "lost", "waiting", "active", "done", "failed"},
         attempts : 0..MaxAttempts, stalls : 0..MaxStalls + 1]
WellTyped(p) ==
  /\ tx[p] \in Transactions /\ pc[p] \in Statements
  /\ p \in Items => job[p] \in Jobs
InOrder(p) == (p \in Items => JobInOrder(p)) /\ (p \in Terminals => CallInOrder(p))

(* No transaction is a transaction record. *)
LEMMA NoTxTyped == NoTx \in Transactions
BY AmountsAssumption DEF NoTx, Transactions, OrderStatus

(* A transaction that has started is typed. *)
LEMMA StartTyped ==
  ASSUME NEW x \in Transactions, NEW ref \in Refs, NEW T \in SUBSET Ingredients
  PROVE  [x EXCEPT !.ref = ref, !.todo = T] \in Transactions
BY DEF Transactions

(* A transaction that has planned a line is typed. *)
LEMMA PlanTyped ==
  ASSUME NEW x \in Transactions, NEW k \in Ingredients, NEW T \in SUBSET Ingredients,
         NEW plan \in [1..MaxBatches -> Nat]
  PROVE  [x EXCEPT !.at = k, !.todo = T, !.plan = plan] \in Transactions
BY DEF Transactions

(* A transaction that has updated batches is typed. *)
LEMMA TookTyped ==
  ASSUME NEW x \in Transactions, NEW B \in SUBSET (1..MaxBatches)
  PROVE  [x EXCEPT !.took = B] \in Transactions
BY DEF Transactions

(* A transaction that has looked for an item is typed. *)
LEMMA FoundTyped ==
  ASSUME NEW x \in Transactions, NEW k \in Ingredients, NEW T \in SUBSET Ingredients, NEW f \in BOOLEAN
  PROVE  [x EXCEPT !.todo = T, !.at = k, !.found = f] \in Transactions
BY DEF Transactions

(* Typing, as each caller sees it. *)
LEMMA TypesOf == ASSUME TypeOK, NEW p \in Callers PROVE WellTyped(p)
BY DEF TypeOK, WellTyped, Statements, Jobs

(* Workers and terminals are different callers, and none is None. *)
LEMMA CallersDiffer == Items \cap Terminals = {} /\ Items \subseteq Callers /\ Terminals \subseteq Callers /\ None \notin Callers
BY RowsAssumption DEF Callers

\* The initial state.
LEMMA InitIndInv == Init => IndInv
<1> SUFFICES ASSUME Init PROVE IndInv
  OBVIOUS
<1> USE RowsAssumption, AmountsAssumption
<1>1. NoTx \in Transactions
  BY NoTxTyped
<1>2. TypeOK
  <2>1. batch \in Seq(Batches)
    BY DEF Init
  <2> QED BY <1>1, <2>1 DEF TypeOK, Init, MaxStalls, Refs, OrderStatus
<1>3. LocksExclusive
  BY DEF LocksExclusive, Init, NoTx
<1>4. QuantityIsLedger
  BY DEF QuantityIsLedger, Init
<1>5. ASSUME NEW i \in Items PROVE JobInOrder(i)
  BY CallersDiffer DEF JobInOrder, PlanFits, Init, NoTx, MaxStalls, Refs
<1>6. ASSUME NEW t \in Terminals PROVE CallInOrder(t)
  BY CallersDiffer DEF CallInOrder, Init, NoTx
<1> QED BY <1>2, <1>3, <1>4, <1>5, <1>6 DEF IndInv

\* A step of one caller that writes no table keeps the invariant if it keeps that
\* caller's part of it and takes no row that another holds.
LEMMA FrameTypes ==
  ASSUME TypeOK, NEW p \in Callers, OnlyOf(p), WellTyped(p)', raced' \subseteq Receipts \cup PurchaseOrders
  PROVE  TypeOK'
<1>1. tx' \in [Callers -> Transactions]
  BY DEF TypeOK, OnlyOf, WellTyped
<1>1a. Transactions' = Transactions
  BY DEF Transactions, Refs
<1>2. pc' \in [Callers -> Statements]
  BY DEF TypeOK, OnlyOf, WellTyped, Statements
<1>3. job' \in [Items -> Jobs]
  BY DEF TypeOK, OnlyOf, WellTyped, Jobs, Callers
<1>4. /\ item' = item /\ batch' = batch /\ ledger' = ledger /\ byHand' = byHand
      /\ posted' = posted /\ receipt' = receipt /\ po' = po
  BY DEF OnlyOf, tables
<1> QED BY <1>1, <1>2, <1>3, <1>4 DEF TypeOK, Statements, Jobs

(* What a step of one caller must show: its own part of the invariant, and that the     *)
(* locks it takes are nobody else's.                                                    *)
LEMMA CallerFrame ==
  ASSUME IndInv, NEW p \in Callers, OnlyOf(p), WellTyped(p)', InOrder(p)',
         raced' \subseteq Receipts \cup PurchaseOrders,
         \A q \in Callers \ {p} : /\ tx'[p].wrote \cap tx[q].wrote = {}
                                  /\ tx'[p].took \cap tx[q].took = {}
  PROVE  IndInv'
<1>0. TypeOK'
  BY FrameTypes DEF IndInv
<1>1. LocksExclusive'
  <2> SUFFICES ASSUME NEW q \in Callers, NEW r \in Callers, q # r
               PROVE tx'[q].wrote \cap tx'[r].wrote = {} /\ tx'[q].took \cap tx'[r].took = {}
    BY DEF LocksExclusive
  <2>1. \A c \in Callers \ {p} : tx'[c] = tx[c]
    BY DEF IndInv, TypeOK, OnlyOf
  <2>2. CASE q = p
    BY <2>1, <2>2
  <2>3. CASE r = p
    BY <2>1, <2>3
  <2>4. CASE q # p /\ r # p
    BY <2>1, <2>4 DEF IndInv, LocksExclusive
  <2> QED BY <2>2, <2>3, <2>4
<1>2. QuantityIsLedger'
  BY DEF IndInv, QuantityIsLedger, OnlyOf, tables
<1>3. ASSUME NEW i \in Items PROVE JobInOrder(i)'
  <2>1. CASE i = p
    BY <2>1 DEF InOrder
  <2>2. CASE i # p
    <3>1. tx'[i] = tx[i] /\ pc'[i] = pc[i] /\ job'[i] = job[i]
      BY <2>2, CallersDiffer DEF OnlyOf, IndInv, TypeOK
    <3> QED BY <3>1 DEF IndInv, JobInOrder, PlanFits, OnlyOf, tables
  <2> QED BY <2>1, <2>2
<1>4. ASSUME NEW t \in Terminals PROVE CallInOrder(t)'
  <2>1. CASE t = p
    BY <2>1 DEF InOrder
  <2>2. CASE t # p
    <3>1. tx'[t] = tx[t] /\ pc'[t] = pc[t]
      BY <2>2, CallersDiffer DEF OnlyOf, IndInv, TypeOK
    <3> QED BY <3>1 DEF IndInv, CallInOrder
  <2> QED BY <2>1, <2>2
<1> QED BY <1>0, <1>1, <1>2, <1>3, <1>4 DEF IndInv

(* A job starts: it holds nothing, and its item was not posted. *)
LEMMA StartJobInv == ASSUME IndInv, NEW i \in Items, StartJob(i) PROVE IndInv'
<1> USE CallersDiffer, AmountsAssumption, RowsAssumption
<1> DEFINE idle == posted[i] > 0 \/ Lines(Recipe[i]) = {}
<1>0. WellTyped(i) /\ JobInOrder(i)
  BY TypesOf DEF IndInv
<1>1. OnlyOf(i)
  BY DEF IndInv, TypeOK, StartJob, OnlyOf, Goto, Leave, tables
<1>a. /\ tx'[i] = [NoTx EXCEPT !.ref = i, !.todo = IF idle THEN {} ELSE Lines(Recipe[i])]
      /\ pc'[i] = IF idle THEN "report" ELSE "lines"
      /\ job[i].state = "waiting" /\ job'[i] = [job[i] EXCEPT !.state = "active"]
  BY DEF IndInv, TypeOK, StartJob, Goto
<1>b. tx'[i].todo \subseteq Ingredients
  BY <1>a DEF Lines, NoTx
<1>2. WellTyped(i)'
  <2>1. tx'[i] \in Transactions
    <3>1. i \in Refs /\ (IF idle THEN {} ELSE Lines(Recipe[i])) \in SUBSET Ingredients
      BY DEF Refs, Lines
    <3> HIDE DEF idle
    <3>2. [NoTx EXCEPT !.ref = i, !.todo = IF idle THEN {} ELSE Lines(Recipe[i])] \in Transactions
      BY <3>1, NoTxTyped, StartTyped, Zenon
    <3> QED BY <1>a, <3>2
  <2>2. Transactions' = Transactions
    BY DEF Transactions, Refs
  <2> QED BY <1>0, <1>a, <2>1, <2>2 DEF WellTyped, Jobs, Statements
<1>3. JobInOrder(i)'
  <2>1. /\ tx'[i].wrote = {} /\ tx'[i].took = {}
        /\ \A b \in 1..MaxBatches : tx'[i].plan[b] = 0
        /\ tx'[i].todo = IF idle THEN {} ELSE Lines(Recipe[i])
    BY <1>a DEF NoTx
  <2>2. posted' = posted /\ posted[i] \in Nat
    BY DEF StartJob, tables, IndInv, TypeOK, Refs
  <2>3. PlanFits(i)'
    BY <2>1 DEF PlanFits
  <2>4. job'[i].attempts = job[i].attempts /\ job'[i].stalls = job[i].stalls /\ job'[i].state = "active"
    BY <1>0, <1>a DEF WellTyped, Jobs
  <2> QED BY <1>0, <1>a, <2>1, <2>2, <2>3, <2>4 DEF JobInOrder
<1>4. \A q \in Callers \ {i} : tx'[i].wrote \cap tx[q].wrote = {} /\ tx'[i].took \cap tx[q].took = {}
  BY <1>a DEF NoTx
<1>5. raced' \subseteq Receipts \cup PurchaseOrders
  BY DEF IndInv, TypeOK, StartJob
<1> QED BY <1>1, <1>2, <1>3, <1>4, <1>5, CallerFrame DEF InOrder

(* The plan of a line takes from each batch at most what it holds. *)
LEMMA PlanLineInv == ASSUME IndInv, NEW i \in Items, PlanLine(i) PROVE IndInv'
<1> USE CallersDiffer, AmountsAssumption, RowsAssumption
<1>0. WellTyped(i) /\ JobInOrder(i)
  BY TypesOf DEF IndInv
<1>p. PICK k \in tx[i].todo : \E plan \in [BatchesOf(k) -> 0..Recipe[i][k]] :
        /\ Goto(i, "lines", "take")
        /\ tx' = [tx EXCEPT ![i].at = k, ![i].todo = @ \ {k},
                            ![i].plan = [b \in 1..MaxBatches |->
                                           IF b \in BatchesOf(k) THEN plan[b] ELSE @[b]]]
        /\ UNCHANGED <<tables, job, raced>>
  BY DEF PlanLine
<1>q. PICK plan \in [BatchesOf(k) -> 0..Recipe[i][k]] :
        /\ Goto(i, "lines", "take")
        /\ tx' = [tx EXCEPT ![i].at = k, ![i].todo = @ \ {k},
                            ![i].plan = [b \in 1..MaxBatches |->
                                           IF b \in BatchesOf(k) THEN plan[b] ELSE @[b]]]
        /\ UNCHANGED <<tables, job, raced>>
  BY <1>p
<1> DEFINE p == [b \in 1..MaxBatches |-> IF b \in BatchesOf(k) THEN plan[b] ELSE tx[i].plan[b]]
<1>k. /\ k \in Ingredients /\ Recipe[i][k] \in Nat
      /\ tx[i].plan \in [1..MaxBatches -> Nat] /\ tx[i].todo \subseteq Ingredients
  BY <1>0 DEF WellTyped, Transactions, Amounts
<1>r. p \in [1..MaxBatches -> Nat]
  <2> SUFFICES ASSUME NEW b \in 1..MaxBatches PROVE p[b] \in Nat
    OBVIOUS
  <2>1. CASE b \in BatchesOf(k)
    <3>1. plan[b] \in 0..Recipe[i][k]
      BY <1>q, <2>1
    <3> QED BY <2>1, <3>1, <1>k
  <2>2. CASE b \notin BatchesOf(k)
    BY <2>2, <1>k
  <2> QED BY <2>1, <2>2
<1>a. /\ tx'[i] = [tx[i] EXCEPT !.at = k, !.todo = @ \ {k}, !.plan = p]
      /\ tx' = [tx EXCEPT ![i] = tx'[i]]
      /\ pc[i] = "lines" /\ pc' = [pc EXCEPT ![i] = "take"]
      /\ UNCHANGED <<tables, job, raced>>
  BY <1>q DEF IndInv, TypeOK, Goto
<1>f. /\ tx'[i].todo = tx[i].todo \ {k} /\ tx'[i].at = k /\ tx'[i].plan = p
      /\ tx'[i].wrote = tx[i].wrote /\ tx'[i].took = tx[i].took
  BY <1>0, <1>a DEF WellTyped, Transactions
<1>1. OnlyOf(i)
  BY <1>a DEF IndInv, TypeOK, OnlyOf, tables
<1>2. WellTyped(i)'
  <2>1. tx'[i] \in Transactions
    <3> HIDE DEF p
    <3>1. tx[i] \in Transactions /\ tx[i].todo \ {k} \in SUBSET Ingredients
      BY <1>0, <1>k DEF WellTyped
    <3>2. [tx[i] EXCEPT !.at = k, !.todo = tx[i].todo \ {k}, !.plan = p] \in Transactions
      BY <1>k, <1>r, <3>1, PlanTyped, Zenon
    <3> QED BY <1>a, <3>2
  <2>2. Transactions' = Transactions
    BY DEF Transactions, Refs
  <2>3. pc'[i] = "take"
    BY <1>a DEF IndInv, TypeOK
  <2> QED BY <1>0, <1>a, <2>1, <2>2, <2>3 DEF WellTyped, Jobs, Statements
<1>3. JobInOrder(i)'
  <2>1. pc'[i] = "take"
    BY <1>a DEF IndInv, TypeOK
  <2>2. batch' = batch /\ posted' = posted /\ item' = item /\ job' = job
    BY <1>a DEF tables
  <2>3. ASSUME NEW b \in tx[i].took PROVE p[b] = tx[i].plan[b] /\ b \in 1..MaxBatches
    <3>1. b \in 1..MaxBatches /\ tx[i].plan[b] > 0 /\ batch[b].ingredient \notin tx[i].todo
      BY <1>0 DEF WellTyped, Transactions, JobInOrder, PlanFits
    <3>2. b \notin BatchesOf(k)
      BY <3>1 DEF BatchesOf
    <3> QED BY <3>1, <3>2
  <2>4. PlanFits(i)'
    <3> SUFFICES ASSUME NEW b \in 1..MaxBatches, p[b] > 0
                 PROVE /\ b \in DOMAIN batch /\ batch[b].ingredient \notin tx[i].todo \ {k}
                       /\ b \in tx[i].took => batch[b].left >= p[b]
      BY <1>f, <2>2 DEF PlanFits
    <3>1. CASE b \in BatchesOf(k)
      <4>1. b \notin tx[i].took
        <5> SUFFICES ASSUME b \in tx[i].took PROVE FALSE
          OBVIOUS
        <5>1. tx[i].plan[b] > 0 /\ batch[b].ingredient \notin tx[i].todo
          BY <1>0 DEF JobInOrder, PlanFits
        <5> QED BY <3>1, <5>1 DEF BatchesOf
      <4> QED BY <3>1, <4>1 DEF BatchesOf
    <3>2. CASE b \notin BatchesOf(k)
      BY <3>2, <1>0, <1>k DEF JobInOrder, PlanFits
    <3> QED BY <3>1, <3>2
  <2>5. \A b \in tx'[i].took : tx'[i].plan[b] > 0
    BY <1>f, <2>3, <1>0 DEF JobInOrder
  <2>6. tx'[i].todo \cup tx'[i].wrote \cup {tx'[i].at} = Lines(Recipe[i])
    BY <1>f, <1>a, <1>0 DEF JobInOrder
  <2> QED BY <1>0, <1>f, <1>a, <2>1, <2>2, <2>4, <2>5, <2>6 DEF JobInOrder
<1>4. \A q \in Callers \ {i} : tx'[i].wrote \cap tx[q].wrote = {} /\ tx'[i].took \cap tx[q].took = {}
  BY <1>f DEF IndInv, LocksExclusive
<1>5. raced' \subseteq Receipts \cup PurchaseOrders
  BY <1>a DEF IndInv, TypeOK
<1> QED BY <1>1, <1>2, <1>3, <1>4, <1>5, CallerFrame DEF InOrder

(* A batch is decremented: it was locked by nobody, and has enough. *)
LEMMA TakeBatchInv == ASSUME IndInv, NEW i \in Items, TakeBatch(i) PROVE IndInv'
<1> USE CallersDiffer, AmountsAssumption, RowsAssumption
<1>0. WellTyped(i) /\ JobInOrder(i)
  BY TypesOf DEF IndInv
<1>p. PICK b \in ToTake(i) :
        /\ pc[i] = "take" /\ ~BatchLocked(i, b) /\ batch[b].left >= tx[i].plan[b]
        /\ tx' = [tx EXCEPT ![i].took = @ \cup {b}]
        /\ UNCHANGED <<tables, job, pc, raced>>
  BY DEF TakeBatch
<1>a. tx'[i] = [tx[i] EXCEPT !.took = @ \cup {b}]
  BY <1>p DEF IndInv, TypeOK
<1>b. b \in 1..MaxBatches /\ tx[i].plan[b] > 0
  <2>1. tx[i].plan \in [1..MaxBatches -> Nat]
    BY <1>0 DEF WellTyped, Transactions
  <2>2. b \in DOMAIN batch /\ tx[i].plan[b] > 0
    BY DEF ToTake
  <2>3. Len(batch) <= MaxBatches
    BY DEF IndInv, TypeOK
  <2> QED BY <2>1, <2>2, <2>3 DEF IndInv, TypeOK
<1>f. /\ tx'[i].took = tx[i].took \cup {b} /\ tx'[i].wrote = tx[i].wrote /\ tx'[i].todo = tx[i].todo
      /\ tx'[i].plan = tx[i].plan /\ tx'[i].at = tx[i].at
  BY <1>0, <1>a DEF WellTyped, Transactions
<1>1. OnlyOf(i)
  BY <1>p DEF IndInv, TypeOK, OnlyOf, tables
<1>2. WellTyped(i)'
  <2>1. tx'[i] \in Transactions
    <3>1. tx[i] \in Transactions /\ tx[i].took \in SUBSET (1..MaxBatches)
      BY <1>0 DEF WellTyped, Transactions
    <3>2. tx[i].took \cup {b} \in SUBSET (1..MaxBatches)
      BY <3>1, <1>b
    <3>3. [tx[i] EXCEPT !.took = tx[i].took \cup {b}] \in Transactions
      BY <3>1, <3>2, TookTyped, Zenon
    <3> QED BY <1>a, <3>3
  <2>2. Transactions' = Transactions
    BY DEF Transactions, Refs
  <2> QED BY <1>0, <1>p, <2>1, <2>2 DEF WellTyped, Jobs, Statements
<1>3. JobInOrder(i)'
  <2>1. batch' = batch /\ posted' = posted /\ item' = item /\ job' = job /\ pc' = pc
    BY <1>p DEF tables
  <2>2. PlanFits(i)'
    BY <1>0, <1>f, <1>p, <2>1 DEF JobInOrder, PlanFits
  <2> QED BY <1>0, <1>f, <1>p, <1>b, <2>1, <2>2 DEF JobInOrder
<1>4. \A q \in Callers \ {i} : tx'[i].wrote \cap tx[q].wrote = {} /\ tx'[i].took \cap tx[q].took = {}
  BY <1>f, <1>p DEF IndInv, LocksExclusive, BatchLocked
<1>5. raced' \subseteq Receipts \cup PurchaseOrders
  BY <1>p DEF IndInv, TypeOK
<1> QED BY <1>1, <1>2, <1>3, <1>4, <1>5, CallerFrame DEF InOrder

(* An item is decremented: it was locked by nobody, and has enough. *)
LEMMA WriteItemInv == ASSUME IndInv, NEW i \in Items, WriteItem(i) PROVE IndInv'
<1> USE CallersDiffer, AmountsAssumption, RowsAssumption
<1>0. WellTyped(i) /\ JobInOrder(i)
  BY TypesOf DEF IndInv
<1>1. OnlyOf(i)
  BY DEF IndInv, TypeOK, WriteItem, OnlyOf, Goto, Leave, tables
<1>a. tx'[i] = [tx[i] EXCEPT !.wrote = @ \cup {tx[i].at}, !.at = None]
  BY DEF IndInv, TypeOK, WriteItem, Goto
<1>2. WellTyped(i)'
  BY <1>0, <1>a DEF IndInv, TypeOK, JobInOrder, WellTyped, Jobs, Statements, WriteItem, Goto, Leave, Callers, Refs, Transactions, NoTx, OrderStatus, Lines
<1>3. JobInOrder(i)'
  BY <1>0, <1>a DEF IndInv, TypeOK, JobInOrder, PlanFits, WellTyped, WriteItem, Goto, Leave, tables, Transactions, NoTx, Lines
<1>4. \A q \in Callers \ {i} : tx'[i].wrote \cap tx[q].wrote = {} /\ tx'[i].took \cap tx[q].took = {}
  BY DEF IndInv, TypeOK, LocksExclusive, WriteItem, Goto, Leave, NoTx, ItemLocked, BatchLocked
<1>5. raced' \subseteq Receipts \cup PurchaseOrders
  BY DEF IndInv, TypeOK, WriteItem
<1> QED BY <1>1, <1>2, <1>3, <1>4, <1>5, CallerFrame DEF InOrder

(* A job that has committed is reported done. *)
LEMMA ReportDoneInv == ASSUME IndInv, NEW i \in Items, ReportDone(i) PROVE IndInv'
<1> USE CallersDiffer, AmountsAssumption, RowsAssumption
<1>0. WellTyped(i) /\ JobInOrder(i)
  BY TypesOf DEF IndInv
<1>1. OnlyOf(i)
  BY DEF IndInv, TypeOK, ReportDone, OnlyOf, Goto, Leave, tables
<1>2. WellTyped(i)'
  BY <1>0 DEF IndInv, TypeOK, JobInOrder, WellTyped, Jobs, Statements, ReportDone, Goto, Leave, Callers, Refs, Transactions, NoTx, OrderStatus, Lines
<1>3. JobInOrder(i)'
  BY <1>0 DEF IndInv, TypeOK, JobInOrder, PlanFits, WellTyped, ReportDone, Goto, Leave, tables, Transactions, NoTx, Lines
<1>4. \A q \in Callers \ {i} : tx'[i].wrote \cap tx[q].wrote = {} /\ tx'[i].took \cap tx[q].took = {}
  BY DEF IndInv, TypeOK, LocksExclusive, ReportDone, Goto, Leave, NoTx, ItemLocked, BatchLocked
<1>5. raced' \subseteq Receipts \cup PurchaseOrders
  BY DEF IndInv, TypeOK, ReportDone
<1> QED BY <1>1, <1>2, <1>3, <1>4, <1>5, CallerFrame DEF InOrder

(* A failed attempt gives up its locks and is counted. *)
LEMMA AttemptFailsInv == ASSUME IndInv, NEW i \in Items, AttemptFails(i) PROVE IndInv'
<1> USE CallersDiffer, AmountsAssumption, RowsAssumption
<1>0. WellTyped(i) /\ JobInOrder(i)
  BY TypesOf DEF IndInv
<1>1. OnlyOf(i)
  BY DEF IndInv, TypeOK, AttemptFails, OnlyOf, Goto, Leave, tables
<1>a. /\ tx'[i] = NoTx /\ job[i].attempts < MaxAttempts /\ job'[i].state \in {"waiting", "failed"}
      /\ job'[i] = [job[i] EXCEPT !.attempts = @ + 1, !.state = job'[i].state]
  BY <1>0 DEF IndInv, TypeOK, AttemptFails, Leave, JobInOrder
<1>2. WellTyped(i)'
  <2>1. pc'[i] = "off"
    BY DEF IndInv, TypeOK, AttemptFails, Leave
  <2>2. tx'[i] \in Transactions /\ Transactions' = Transactions
    BY <1>a, NoTxTyped DEF Transactions, Refs
  <2>3. job'[i] \in Jobs
    <3>1. job[i].attempts \in Nat /\ job[i].attempts + 1 \in 0..MaxAttempts
      BY <1>0, <1>a DEF WellTyped, Jobs
    <3> QED BY <1>0, <1>a, <3>1 DEF WellTyped, Jobs
  <2> QED BY <2>1, <2>2, <2>3 DEF WellTyped, Statements, Jobs
<1>3. JobInOrder(i)'
  BY <1>0 DEF IndInv, TypeOK, JobInOrder, PlanFits, WellTyped, AttemptFails, Goto, Leave, tables, Transactions, NoTx, Lines
<1>4. \A q \in Callers \ {i} : tx'[i].wrote \cap tx[q].wrote = {} /\ tx'[i].took \cap tx[q].took = {}
  BY DEF IndInv, TypeOK, LocksExclusive, AttemptFails, Goto, Leave, NoTx, ItemLocked, BatchLocked
<1>5. raced' \subseteq Receipts \cup PurchaseOrders
  BY DEF IndInv, TypeOK, AttemptFails
<1> QED BY <1>1, <1>2, <1>3, <1>4, <1>5, CallerFrame DEF InOrder

(* A crashed worker gives up its locks, and the job waits again. *)
LEMMA WorkerCrashesInv == ASSUME IndInv, NEW i \in Items, WorkerCrashes(i) PROVE IndInv'
<1> USE CallersDiffer, AmountsAssumption, RowsAssumption
<1>0. WellTyped(i) /\ JobInOrder(i)
  BY TypesOf DEF IndInv
<1>1. OnlyOf(i)
  BY DEF IndInv, TypeOK, WorkerCrashes, OnlyOf, Goto, Leave, tables
<1>2. WellTyped(i)'
  BY <1>0 DEF IndInv, TypeOK, JobInOrder, WellTyped, Jobs, Statements, WorkerCrashes, Goto, Leave, Callers, Refs, Transactions, NoTx, OrderStatus, Lines
<1>3. JobInOrder(i)'
  BY <1>0 DEF IndInv, TypeOK, JobInOrder, PlanFits, WellTyped, WorkerCrashes, Goto, Leave, tables, Transactions, NoTx, Lines
<1>4. \A q \in Callers \ {i} : tx'[i].wrote \cap tx[q].wrote = {} /\ tx'[i].took \cap tx[q].took = {}
  BY DEF IndInv, TypeOK, LocksExclusive, WorkerCrashes, Goto, Leave, NoTx, ItemLocked, BatchLocked
<1>5. raced' \subseteq Receipts \cup PurchaseOrders
  BY DEF IndInv, TypeOK, WorkerCrashes
<1> QED BY <1>1, <1>2, <1>3, <1>4, <1>5, CallerFrame DEF InOrder

(* Reading a purchase order takes no lock. *)
LEMMA ReadOrderInv == ASSUME IndInv, NEW t \in Terminals, ReadOrder(t) PROVE IndInv'
<1> USE CallersDiffer, AmountsAssumption, RowsAssumption
<1>0. WellTyped(t) /\ CallInOrder(t)
  BY TypesOf DEF IndInv
<1>1. OnlyOf(t)
  BY DEF IndInv, TypeOK, ReadOrder, OnlyOf, Goto, Leave, tables
<1>a. \E p \in PurchaseOrders, to \in {"SUBMITTED", "APPROVED", "CANCELLED"} : tx'[t] = [tx[t] EXCEPT !.ref = p, !.to = to]
  BY DEF IndInv, TypeOK, ReadOrder
<1>b. tx'[t] \in Transactions
  BY <1>0, <1>a DEF WellTyped, Transactions, OrderStatus
<1>2. WellTyped(t)'
  BY <1>0, <1>b DEF IndInv, TypeOK, CallInOrder, WellTyped, Statements, ReadOrder, Goto, Leave, Callers, Refs, Transactions, NoTx, OrderStatus, Lines
<1>3. CallInOrder(t)'
  BY <1>0 DEF IndInv, TypeOK, CallInOrder, WellTyped, ReadOrder, Goto, Leave, Transactions, NoTx, Lines, Callers
<1>4. \A q \in Callers \ {t} : tx'[t].wrote \cap tx[q].wrote = {} /\ tx'[t].took \cap tx[q].took = {}
  BY <1>0 DEF IndInv, TypeOK, LocksExclusive, CallInOrder, ReadOrder, Goto, Leave, NoTx, ItemLocked, BatchLocked
<1>5. raced' \subseteq Receipts \cup PurchaseOrders
  BY <1>0 DEF IndInv, TypeOK, ReadOrder, Overlap, Subjects
<1> QED BY <1>1, <1>2, <1>3, <1>4, <1>5, CallerFrame DEF InOrder

(* Reading an order to receive takes no lock. *)
LEMMA ReadReceivableInv == ASSUME IndInv, NEW t \in Terminals, ReadReceivable(t) PROVE IndInv'
<1> USE CallersDiffer, AmountsAssumption, RowsAssumption
<1>0. WellTyped(t) /\ CallInOrder(t)
  BY TypesOf DEF IndInv
<1>1. OnlyOf(t)
  BY DEF IndInv, TypeOK, ReadReceivable, OnlyOf, Goto, Leave, tables
<1>a. \E g \in Receipts : tx'[t] = [tx[t] EXCEPT !.ref = g]
  BY DEF IndInv, TypeOK, ReadReceivable
<1>b. tx'[t] \in Transactions
  BY <1>0, <1>a DEF WellTyped, Transactions, Refs
<1>2. WellTyped(t)'
  BY <1>0, <1>b DEF IndInv, TypeOK, CallInOrder, WellTyped, Statements, ReadReceivable, Goto, Leave, Callers, Refs, Transactions, NoTx, OrderStatus, Lines
<1>3. CallInOrder(t)'
  BY <1>0 DEF IndInv, TypeOK, CallInOrder, WellTyped, ReadReceivable, Goto, Leave, Transactions, NoTx, Lines, Callers
<1>4. \A q \in Callers \ {t} : tx'[t].wrote \cap tx[q].wrote = {} /\ tx'[t].took \cap tx[q].took = {}
  BY <1>0 DEF IndInv, TypeOK, LocksExclusive, CallInOrder, ReadReceivable, Goto, Leave, NoTx, ItemLocked, BatchLocked
<1>5. raced' \subseteq Receipts \cup PurchaseOrders
  BY <1>0 DEF IndInv, TypeOK, ReadReceivable, Overlap, Subjects
<1> QED BY <1>1, <1>2, <1>3, <1>4, <1>5, CallerFrame DEF InOrder

(* Reading a receipt to complete takes no lock. *)
LEMMA ReadReceiptInv == ASSUME IndInv, NEW t \in Terminals, ReadReceipt(t) PROVE IndInv'
<1> USE CallersDiffer, AmountsAssumption, RowsAssumption
<1>0. WellTyped(t) /\ CallInOrder(t)
  BY TypesOf DEF IndInv
<1>1. OnlyOf(t)
  BY DEF IndInv, TypeOK, ReadReceipt, OnlyOf, Goto, Leave, tables
<1>a. \E g \in Receipts : tx'[t] = [tx[t] EXCEPT !.ref = g]
  BY DEF IndInv, TypeOK, ReadReceipt
<1>b. tx'[t] \in Transactions
  BY <1>0, <1>a DEF WellTyped, Transactions, Refs
<1>2. WellTyped(t)'
  BY <1>0, <1>b DEF IndInv, TypeOK, CallInOrder, WellTyped, Statements, ReadReceipt, Goto, Leave, Callers, Refs, Transactions, NoTx, OrderStatus, Lines
<1>3. CallInOrder(t)'
  BY <1>0 DEF IndInv, TypeOK, CallInOrder, WellTyped, ReadReceipt, Goto, Leave, Transactions, NoTx, Lines, Callers
<1>4. \A q \in Callers \ {t} : tx'[t].wrote \cap tx[q].wrote = {} /\ tx'[t].took \cap tx[q].took = {}
  BY <1>0 DEF IndInv, TypeOK, LocksExclusive, CallInOrder, ReadReceipt, Goto, Leave, NoTx, ItemLocked, BatchLocked
<1>5. raced' \subseteq Receipts \cup PurchaseOrders
  BY <1>0 DEF IndInv, TypeOK, ReadReceipt, Overlap, Subjects
<1> QED BY <1>1, <1>2, <1>3, <1>4, <1>5, CallerFrame DEF InOrder

(* Marking a receipt takes its row lock and touches no stock. *)
LEMMA MarkCompletedInv == ASSUME IndInv, NEW t \in Terminals, MarkCompleted(t) PROVE IndInv'
<1> USE CallersDiffer, AmountsAssumption, RowsAssumption
<1>0. WellTyped(t) /\ CallInOrder(t)
  BY TypesOf DEF IndInv
<1>1. OnlyOf(t)
  BY DEF IndInv, TypeOK, MarkCompleted, OnlyOf, Goto, Leave, tables
<1>a. tx'[t] = [tx[t] EXCEPT !.todo = Lines(Accepted[tx[t].ref])]
  BY DEF IndInv, TypeOK, MarkCompleted, Goto
<1>2. WellTyped(t)'
  BY <1>0, <1>a DEF IndInv, TypeOK, CallInOrder, WellTyped, Statements, MarkCompleted, Goto, Leave, Callers, Refs, Transactions, NoTx, OrderStatus, Lines
<1>3. CallInOrder(t)'
  BY <1>0, <1>a DEF IndInv, TypeOK, CallInOrder, WellTyped, MarkCompleted, Goto, Leave, Transactions, NoTx, Lines, Callers
<1>4. \A q \in Callers \ {t} : tx'[t].wrote \cap tx[q].wrote = {} /\ tx'[t].took \cap tx[q].took = {}
  BY <1>0 DEF IndInv, TypeOK, LocksExclusive, CallInOrder, MarkCompleted, Goto, Leave, NoTx, ItemLocked, BatchLocked
<1>5. raced' \subseteq Receipts \cup PurchaseOrders
  BY <1>0 DEF IndInv, TypeOK, MarkCompleted, Overlap, Subjects
<1> QED BY <1>1, <1>2, <1>3, <1>4, <1>5, CallerFrame DEF InOrder

(* Looking for an item takes no lock. *)
LEMMA FindItemInv == ASSUME IndInv, NEW t \in Terminals, FindItem(t) PROVE IndInv'
<1> USE CallersDiffer, AmountsAssumption, RowsAssumption
<1>0. WellTyped(t) /\ CallInOrder(t)
  BY TypesOf DEF IndInv
<1>1. OnlyOf(t)
  BY DEF IndInv, TypeOK, FindItem, OnlyOf, Goto, Leave, tables
<1>a. \E k \in tx[t].todo : tx'[t] = [tx[t] EXCEPT !.todo = @ \ {k}, !.at = k, !.found = item[k].live]
  BY DEF IndInv, TypeOK, FindItem
<1>b. tx'[t] \in Transactions
  <2>1. PICK k \in tx[t].todo : tx'[t] = [tx[t] EXCEPT !.todo = @ \ {k}, !.at = k, !.found = item[k].live]
    BY <1>a
  <2>2. tx[t] \in Transactions /\ tx[t].todo \in SUBSET Ingredients /\ k \in Ingredients
    BY <1>0 DEF WellTyped, Transactions
  <2>3. item[k].live \in BOOLEAN
    BY <2>2 DEF IndInv, TypeOK
  <2>4. tx[t].todo \ {k} \in SUBSET Ingredients
    BY <2>2
  <2>5. [tx[t] EXCEPT !.todo = tx[t].todo \ {k}, !.at = k, !.found = item[k].live] \in Transactions
    BY <2>2, <2>3, <2>4, FoundTyped, Zenon
  <2> QED BY <2>1, <2>5
<1>2. WellTyped(t)'
  BY <1>0, <1>b DEF IndInv, TypeOK, CallInOrder, WellTyped, Statements, FindItem, Goto, Leave, Callers, Refs, Transactions, NoTx, OrderStatus, Lines
<1>3. CallInOrder(t)'
  BY <1>0 DEF IndInv, TypeOK, CallInOrder, WellTyped, FindItem, Goto, Leave, Transactions, NoTx, Lines, Callers
<1>4. \A q \in Callers \ {t} : tx'[t].wrote \cap tx[q].wrote = {} /\ tx'[t].took \cap tx[q].took = {}
  BY <1>0 DEF IndInv, TypeOK, LocksExclusive, CallInOrder, FindItem, Goto, Leave, NoTx, ItemLocked, BatchLocked
<1>5. raced' \subseteq Receipts \cup PurchaseOrders
  BY <1>0 DEF IndInv, TypeOK, FindItem, Overlap, Subjects
<1> QED BY <1>1, <1>2, <1>3, <1>4, <1>5, CallerFrame DEF InOrder

(* An item is incremented: it was locked by nobody. *)
LEMMA PutItemInv == ASSUME IndInv, NEW t \in Terminals, PutItem(t) PROVE IndInv'
<1> USE CallersDiffer, AmountsAssumption, RowsAssumption
<1>0. WellTyped(t) /\ CallInOrder(t)
  BY TypesOf DEF IndInv
<1>1. OnlyOf(t)
  BY DEF IndInv, TypeOK, PutItem, OnlyOf, Goto, Leave, tables
<1>a. tx'[t] = [tx[t] EXCEPT !.wrote = @ \cup {tx[t].at}, !.at = None]
  BY DEF IndInv, TypeOK, PutItem, Goto
<1>2. WellTyped(t)'
  BY <1>0, <1>a DEF IndInv, TypeOK, CallInOrder, WellTyped, Statements, PutItem, Goto, Leave, Callers, Refs, Transactions, NoTx, OrderStatus, Lines
<1>3. CallInOrder(t)'
  BY <1>0, <1>a DEF IndInv, TypeOK, CallInOrder, WellTyped, PutItem, Goto, Leave, Transactions, NoTx, Lines, Callers
<1>4. \A q \in Callers \ {t} : tx'[t].wrote \cap tx[q].wrote = {} /\ tx'[t].took \cap tx[q].took = {}
  BY <1>0 DEF IndInv, TypeOK, LocksExclusive, CallInOrder, PutItem, Goto, Leave, NoTx, ItemLocked, BatchLocked
<1>5. raced' \subseteq Receipts \cup PurchaseOrders
  BY <1>0 DEF IndInv, TypeOK, PutItem, Overlap, Subjects
<1> QED BY <1>1, <1>2, <1>3, <1>4, <1>5, CallerFrame DEF InOrder

(* Adding up the receipts of an order takes no lock. *)
LEMMA SumReceiptsInv == ASSUME IndInv, NEW t \in Terminals, SumReceipts(t) PROVE IndInv'
<1> USE CallersDiffer, AmountsAssumption, RowsAssumption
<1>0. WellTyped(t) /\ CallInOrder(t)
  BY TypesOf DEF IndInv
<1>1. OnlyOf(t)
  BY DEF IndInv, TypeOK, SumReceipts, OnlyOf, Goto, Leave, tables
<1>a. tx'[t] = [tx[t] EXCEPT !.to = tx'[t].to] /\ tx'[t].to \in OrderStatus
  <2>1. PICK to \in Verdicts(OfOrder[tx[t].ref], Completed(OfOrder[tx[t].ref], tx[t].ref)) :
          tx' = [tx EXCEPT ![t].to = to]
    BY DEF SumReceipts
  <2>2. to \in OrderStatus
    BY DEF Verdicts, OrderStatus
  <2>3. tx'[t] = [tx[t] EXCEPT !.to = to]
    BY <2>1 DEF IndInv, TypeOK
  <2> QED BY <1>0, <2>2, <2>3 DEF WellTyped, Transactions
<1>2. WellTyped(t)'
  BY <1>0, <1>a DEF IndInv, TypeOK, CallInOrder, WellTyped, Statements, SumReceipts, Goto, Leave, Callers, Refs, Transactions, NoTx, OrderStatus, Lines
<1>3. CallInOrder(t)'
  BY <1>0, <1>a DEF IndInv, TypeOK, CallInOrder, WellTyped, SumReceipts, Goto, Leave, Transactions, NoTx, Lines, Callers
<1>4. \A q \in Callers \ {t} : tx'[t].wrote \cap tx[q].wrote = {} /\ tx'[t].took \cap tx[q].took = {}
  BY <1>0 DEF IndInv, TypeOK, LocksExclusive, CallInOrder, SumReceipts, Goto, Leave, NoTx, ItemLocked, BatchLocked
<1>5. raced' \subseteq Receipts \cup PurchaseOrders
  BY <1>0 DEF IndInv, TypeOK, SumReceipts, Overlap, Subjects
<1> QED BY <1>1, <1>2, <1>3, <1>4, <1>5, CallerFrame DEF InOrder

(* A call that fails gives up its locks. *)
LEMMA AbortInv == ASSUME IndInv, NEW t \in Terminals, Abort(t) PROVE IndInv'
<1> USE CallersDiffer, AmountsAssumption, RowsAssumption
<1>0. WellTyped(t) /\ CallInOrder(t)
  BY TypesOf DEF IndInv
<1>1. OnlyOf(t)
  BY DEF IndInv, TypeOK, Abort, OnlyOf, Goto, Leave, tables
<1>2. WellTyped(t)'
  BY <1>0 DEF IndInv, TypeOK, CallInOrder, WellTyped, Statements, Abort, Goto, Leave, Callers, Refs, Transactions, NoTx, OrderStatus, Lines
<1>3. CallInOrder(t)'
  BY <1>0 DEF IndInv, TypeOK, CallInOrder, WellTyped, Abort, Goto, Leave, Transactions, NoTx, Lines, Callers
<1>4. \A q \in Callers \ {t} : tx'[t].wrote \cap tx[q].wrote = {} /\ tx'[t].took \cap tx[q].took = {}
  BY <1>0 DEF IndInv, TypeOK, LocksExclusive, CallInOrder, Abort, Goto, Leave, NoTx, ItemLocked, BatchLocked
<1>5. raced' \subseteq Receipts \cup PurchaseOrders
  BY <1>0 DEF IndInv, TypeOK, Abort, Overlap, Subjects
<1> QED BY <1>1, <1>2, <1>3, <1>4, <1>5, CallerFrame DEF InOrder

(* A placed order item has no movement yet. *)
LEMMA PlaceItemInv == ASSUME IndInv, NEW i \in Items, PlaceItem(i) PROVE IndInv'
<1> USE CallersDiffer, AmountsAssumption, RowsAssumption
<1>0. WellTyped(i) /\ JobInOrder(i)
  BY TypesOf DEF IndInv
<1>1. OnlyOf(i)
  BY DEF IndInv, TypeOK, PlaceItem, OnlyOf, tables
<1>2. WellTyped(i)'
  BY <1>0 DEF IndInv, TypeOK, WellTyped, Jobs, PlaceItem, Transactions, Refs
<1>3. JobInOrder(i)'
  BY <1>0 DEF IndInv, TypeOK, JobInOrder, PlanFits, PlaceItem, tables
<1>4. \A q \in Callers \ {i} : tx'[i].wrote \cap tx[q].wrote = {} /\ tx'[i].took \cap tx[q].took = {}
  BY DEF IndInv, LocksExclusive, PlaceItem
<1>5. raced' \subseteq Receipts \cup PurchaseOrders
  BY DEF IndInv, TypeOK, PlaceItem
<1> QED BY <1>1, <1>2, <1>3, <1>4, <1>5, CallerFrame DEF InOrder

(* A job is queued, or lost, before anything is posted for it. *)
LEMMA QueueJobInv == ASSUME IndInv, NEW i \in Items, QueueJob(i) PROVE IndInv'
<1> USE CallersDiffer, AmountsAssumption, RowsAssumption
<1>0. WellTyped(i) /\ JobInOrder(i)
  BY TypesOf DEF IndInv
<1>1. OnlyOf(i)
  BY DEF IndInv, TypeOK, QueueJob, OnlyOf, tables
<1>a. PICK st \in {"waiting", "lost"} : job' = [job EXCEPT ![i].state = st]
  BY DEF QueueJob
<1>2. WellTyped(i)'
  <2>1. job'[i] \in Jobs
    BY <1>0, <1>a DEF IndInv, TypeOK, WellTyped, Jobs
  <2> QED BY <1>0, <2>1 DEF WellTyped, Jobs, QueueJob, Transactions, Refs
<1>3. JobInOrder(i)'
  BY <1>0 DEF IndInv, TypeOK, JobInOrder, PlanFits, QueueJob, tables
<1>4. \A q \in Callers \ {i} : tx'[i].wrote \cap tx[q].wrote = {} /\ tx'[i].took \cap tx[q].took = {}
  BY DEF IndInv, LocksExclusive, QueueJob
<1>5. raced' \subseteq Receipts \cup PurchaseOrders
  BY DEF IndInv, TypeOK, QueueJob
<1> QED BY <1>1, <1>2, <1>3, <1>4, <1>5, CallerFrame DEF InOrder

\* Steps that write a status, and leave stock and all other callers alone.
StockUnchanged == UNCHANGED <<item, batch, ledger, byHand, posted, job, raced>>

(* Steps that write orders and receipts only leave stock and locks alone. *)
LEMMA StatusFrame ==
  ASSUME IndInv, StockUnchanged,
         receipt' \in [Receipts -> {"ABSENT", "PENDING", "COMPLETED"}],
         po' \in [PurchaseOrders -> OrderStatus],
         \/ UNCHANGED <<pc, tx>>
         \/ \E t \in Terminals : pc' = [pc EXCEPT ![t] = "off"] /\ tx' = [tx EXCEPT ![t] = NoTx]
  PROVE  IndInv'
<1> USE CallersDiffer, AmountsAssumption
<1>0. \A p \in Callers : (tx'[p] = tx[p] /\ pc'[p] = pc[p]) \/ (tx'[p] = NoTx /\ pc'[p] = "off" /\ p \in Terminals)
  BY DEF IndInv, TypeOK
<1>1. TypeOK'
  <2>1. Transactions' = Transactions
    BY DEF Transactions, Refs
  <2>1a. tx' \in [Callers -> Transactions]
    BY NoTxTyped DEF IndInv, TypeOK
  <2>2. pc' \in [Callers -> {"off", "lines", "take", "report", "status", "insert", "mark", "put", "finish"}]
    BY DEF IndInv, TypeOK
  <2> QED BY <2>1, <2>1a, <2>2 DEF IndInv, TypeOK, StockUnchanged
<1>2. LocksExclusive'
  <2>1. NoTx.wrote = {} /\ NoTx.took = {}
    BY DEF NoTx
  <2> QED BY <1>0, <2>1 DEF IndInv, LocksExclusive
<1>3. QuantityIsLedger'
  BY DEF IndInv, QuantityIsLedger, StockUnchanged
<1>4. ASSUME NEW i \in Items PROVE JobInOrder(i)'
  <2>1. tx'[i] = tx[i] /\ pc'[i] = pc[i]
    BY <1>0
  <2> QED BY <2>1 DEF IndInv, JobInOrder, PlanFits, StockUnchanged
<1>5. ASSUME NEW t \in Terminals PROVE CallInOrder(t)'
  <2>1. CASE tx'[t] = tx[t] /\ pc'[t] = pc[t]
    BY <2>1 DEF IndInv, CallInOrder
  <2>2. CASE tx'[t] = NoTx /\ pc'[t] = "off"
    BY <2>2 DEF NoTx, CallInOrder
  <2> QED BY <1>0, <2>1, <2>2
<1> QED BY <1>1, <1>2, <1>3, <1>4, <1>5 DEF IndInv

(* A new purchase order touches no stock. *)
LEMMA CreateOrderInv == ASSUME IndInv, NEW p \in PurchaseOrders, CreateOrder(p) PROVE IndInv'
BY StatusFrame DEF IndInv, TypeOK, CreateOrder, StockUnchanged, OrderStatus

(* A status of a purchase order touches no stock. *)
LEMMA WriteOrderInv == ASSUME IndInv, NEW t \in Terminals, WriteOrder(t) PROVE IndInv'
<1>1. tx[t].to \in OrderStatus
  BY DEF IndInv, TypeOK, Transactions, Callers
<1>2. po' \in [PurchaseOrders -> OrderStatus] /\ receipt' = receipt
  BY <1>1 DEF IndInv, TypeOK, WriteOrder
<1> QED BY <1>2, StatusFrame DEF IndInv, TypeOK, WriteOrder, Leave, StockUnchanged

(* A pending receipt touches no stock. *)
LEMMA InsertReceiptInv == ASSUME IndInv, NEW t \in Terminals, InsertReceipt(t) PROVE IndInv'
<1>1. receipt' \in [Receipts -> {"ABSENT", "PENDING", "COMPLETED"}] /\ po' = po
  BY DEF IndInv, TypeOK, InsertReceipt
<1> QED BY <1>1, StatusFrame DEF IndInv, TypeOK, InsertReceipt, Leave, StockUnchanged

\* A hand changes an item that no transaction holds.
LEMMA SetQuantityInv ==
  ASSUME IndInv, NEW k \in Ingredients, NEW q \in ByHand, SetQuantity(k, q) PROVE IndInv'
<1> USE CallersDiffer, AmountsAssumption
<1>0. /\ UNCHANGED <<batch, ledger, posted, receipt, po, job, pc, tx, raced>>
      /\ item' = [item EXCEPT ![k] = [live |-> TRUE, qty |-> q]]
      /\ byHand' = [byHand EXCEPT ![k] = @ + q - item[k].qty]
      /\ \A p \in Callers : k \notin tx[p].wrote
  BY DEF SetQuantity, ItemLocked
<1>t. item \in [Ingredients -> [live : BOOLEAN, qty : Nat]] /\ ledger \in [Ingredients -> Int] /\ byHand \in [Ingredients -> Int]
  BY DEF IndInv, TypeOK
<1>1. TypeOK'
  <2>1. Transactions' = Transactions
    BY DEF Transactions, Refs
  <2>2. item' \in [Ingredients -> [live : BOOLEAN, qty : Nat]] /\ byHand' \in [Ingredients -> Int]
    BY <1>0, <1>t
  <2> QED BY <1>0, <2>1, <2>2 DEF IndInv, TypeOK
<1>2. LocksExclusive'
  BY <1>0 DEF IndInv, LocksExclusive
<1>3. QuantityIsLedger'
  BY <1>0, <1>t DEF IndInv, QuantityIsLedger
<1>4. ASSUME NEW i \in Items PROVE JobInOrder(i)'
  <2>1. \A j \in tx[i].wrote : item'[j] = item[j]
    BY <1>0, <1>t
  <2> QED BY <1>0, <2>1 DEF IndInv, JobInOrder, PlanFits
<1>5. ASSUME NEW t \in Terminals PROVE CallInOrder(t)'
  BY <1>0 DEF IndInv, CallInOrder
<1> QED BY <1>1, <1>2, <1>3, <1>4, <1>5 DEF IndInv

\* The commit of a depletion: what it decrements it holds, so its CHECKs still hold.
LEMMA CommitJobInv == ASSUME IndInv, NEW i \in Items, CommitJob(i) PROVE IndInv'
<1> USE CallersDiffer, AmountsAssumption, RowsAssumption
<1>0. WellTyped(i) /\ JobInOrder(i)
  BY TypesOf DEF IndInv
<1>t. /\ item \in [Ingredients -> [live : BOOLEAN, qty : Nat]]
      /\ batch \in Seq(Batches) /\ Len(batch) <= MaxBatches
      /\ ledger \in [Ingredients -> Int] /\ posted \in [Refs -> Nat]
      /\ tx \in [Callers -> Transactions] /\ pc \in [Callers -> Statements]
  BY DEF IndInv, TypeOK, Statements
<1>a. /\ pc[i] = "lines" /\ tx[i].wrote = Lines(Recipe[i]) /\ posted[i] = 0 /\ job[i].state = "active"
      /\ pc' = [pc EXCEPT ![i] = "report"] /\ tx' = [tx EXCEPT ![i] = NoTx]
      /\ posted' = [posted EXCEPT ![i] = @ + 1]
      /\ UNCHANGED <<byHand, receipt, po, job, raced>>
  BY <1>0 DEF CommitJob, JobInOrder
<1>r. \A k \in Ingredients : Recipe[i][k] \in Nat
  BY DEF Amounts
<1>k. \A k \in Ingredients :
        /\ item'[k].live = item[k].live
        /\ item'[k].qty = item[k].qty - Recipe[i][k]
        /\ k \notin tx[i].wrote => item'[k] = item[k]
        /\ item'[k] \in [live : BOOLEAN, qty : Nat]
        /\ ledger'[k] = ledger[k] - Recipe[i][k]
  <2> SUFFICES ASSUME NEW k \in Ingredients
               PROVE /\ item'[k].live = item[k].live
                     /\ item'[k].qty = item[k].qty - Recipe[i][k]
                     /\ k \notin tx[i].wrote => item'[k] = item[k]
                     /\ item'[k] \in [live : BOOLEAN, qty : Nat]
                     /\ ledger'[k] = ledger[k] - Recipe[i][k]
    OBVIOUS
  <2>1. ledger'[k] = ledger[k] - Recipe[i][k]
    BY DEF CommitJob
  <2>2. CASE k \in tx[i].wrote
    <3>0. item[k].qty >= Recipe[i][k]
      BY <2>2, <1>0 DEF JobInOrder
    <3>a. item' = [j \in Ingredients |-> IF j \in tx[i].wrote
                                           THEN [item[j] EXCEPT !.qty = @ - Recipe[i][j]] ELSE item[j]]
      BY DEF CommitJob
    <3>1. item'[k] = [item[k] EXCEPT !.qty = @ - Recipe[i][k]]
      BY <2>2, <3>a
    <3>2. /\ item[k].live \in BOOLEAN /\ item[k].qty \in Nat /\ Recipe[i][k] \in Nat
          /\ item[k] = [live |-> item[k].live, qty |-> item[k].qty]
      BY <1>t, <1>r
    <3>3. item'[k] = [live |-> item[k].live, qty |-> item[k].qty - Recipe[i][k]] /\ item[k].qty - Recipe[i][k] \in Nat
      BY <3>0, <3>1, <3>2
    <3> QED BY <2>1, <2>2, <3>2, <3>3
  <2>3. CASE k \notin tx[i].wrote
    <3>1. item'[k] = item[k]
      BY <2>3 DEF CommitJob
    <3>2. ~(Recipe[i][k] > 0)
      BY <2>3, <1>a DEF Lines
    <3> QED BY <2>1, <2>3, <3>1, <3>2, <1>t, <1>r
  <2> QED BY <2>2, <2>3
<1>b. /\ batch' \in Seq(Batches) /\ DOMAIN batch' = DOMAIN batch /\ Len(batch') = Len(batch)
      /\ \A b \in DOMAIN batch : /\ batch'[b].ingredient = batch[b].ingredient
                                 /\ batch'[b] \in Batches
                                 /\ b \notin tx[i].took => batch'[b] = batch[b]
  <2>1. batch' = [b \in DOMAIN batch |-> IF b \in tx[i].took
                                           THEN [batch[b] EXCEPT !.left = @ - tx[i].plan[b]] ELSE batch[b]]
    BY DEF CommitJob
  <2>2. DOMAIN batch = 1..Len(batch) /\ Len(batch) \in Nat
    BY <1>t
  <2>3. ASSUME NEW b \in DOMAIN batch
        PROVE  /\ batch'[b].ingredient = batch[b].ingredient
               /\ batch'[b] \in Batches
               /\ b \notin tx[i].took => batch'[b] = batch[b]
    <3>1. batch[b] \in Batches
      BY <1>t, <2>2
    <3>2. CASE b \in tx[i].took
      <4>1. tx[i].plan[b] \in Nat /\ batch[b].left >= tx[i].plan[b]
        BY <3>2, <1>0 DEF JobInOrder, PlanFits, WellTyped, Transactions
      <4>2. batch'[b] = [batch[b] EXCEPT !.left = @ - tx[i].plan[b]]
        BY <2>1, <3>2
      <4> QED BY <3>1, <3>2, <4>1, <4>2 DEF Batches
    <3>3. CASE b \notin tx[i].took
      BY <2>1, <3>1, <3>3
    <3> QED BY <3>2, <3>3
  <2>4. batch' \in Seq(Batches) /\ Len(batch') = Len(batch) /\ DOMAIN batch' = DOMAIN batch
    BY <2>1, <2>2, <2>3
  <2> QED BY <2>3, <2>4
<1>1. TypeOK'
  <2>1. Transactions' = Transactions
    BY DEF Transactions, Refs
  <2>2. item' \in [Ingredients -> [live : BOOLEAN, qty : Nat]]
    <3>1. item' = [k \in Ingredients |-> item'[k]]
      BY DEF CommitJob
    <3> QED BY <3>1, <1>k
  <2>3. ledger' \in [Ingredients -> Int]
    BY <1>t, <1>r DEF CommitJob
  <2>4. batch' \in Seq(Batches) /\ Len(batch') <= MaxBatches
    BY <1>b, <1>t
  <2>5. posted' \in [Refs -> Nat]
    BY <1>a, <1>t DEF Refs
  <2>6. tx' \in [Callers -> Transactions] /\ pc' \in [Callers -> Statements]
    BY <1>a, <1>t, NoTxTyped DEF Statements
  <2> QED BY <1>a, <2>1, <2>2, <2>3, <2>4, <2>5, <2>6 DEF IndInv, TypeOK, Statements
<1>2. LocksExclusive'
  BY <1>a, <1>t DEF IndInv, LocksExclusive, NoTx
<1>3. QuantityIsLedger'
  <2> SUFFICES ASSUME NEW k \in Ingredients PROVE item'[k].qty = ledger'[k] + byHand'[k]
    BY DEF QuantityIsLedger
  <2>1. item[k].qty = ledger[k] + byHand[k] /\ byHand' = byHand /\ byHand[k] \in Int /\ ledger[k] \in Int
    BY <1>a DEF IndInv, QuantityIsLedger, TypeOK
  <2> QED BY <2>1, <1>k, <1>r
<1>4. ASSUME NEW j \in Items PROVE JobInOrder(j)'
  <2>1. CASE j = i
    <3>1. /\ tx'[i] = NoTx /\ pc'[i] = "report" /\ posted'[i] = 1 /\ job' = job
      BY <1>a, <1>t DEF Refs
    <3>2. /\ NoTx.wrote = {} /\ NoTx.took = {} /\ \A b \in 1..MaxBatches : NoTx.plan[b] = 0
      BY DEF NoTx
    <3>3. PlanFits(i)'
      BY <3>1, <3>2 DEF PlanFits
    <3> QED BY <1>0, <1>a, <2>1, <3>1, <3>2, <3>3 DEF JobInOrder
  <2>2. CASE j # i
    <3>1. tx'[j] = tx[j] /\ pc'[j] = pc[j] /\ posted'[j] = posted[j] /\ job' = job
      BY <1>a, <1>t, <2>2 DEF Refs
    <3>2. \A k \in tx[j].wrote : item'[k] = item[k]
      <4>1. tx[j].wrote \subseteq Ingredients /\ tx[j].wrote \cap tx[i].wrote = {}
        BY <2>2, <1>t DEF IndInv, LocksExclusive, Transactions
      <4> QED BY <4>1, <1>k
    <3>3. \A b \in tx[j].took : b \in DOMAIN batch => batch'[b] = batch[b]
      BY <2>2, <1>b DEF IndInv, LocksExclusive
    <3>4. JobInOrder(j)
      BY DEF IndInv
    <3>5. PlanFits(j)'
      BY <3>1, <3>3, <3>4, <1>b DEF JobInOrder, PlanFits
    <3> QED BY <3>1, <3>2, <3>4, <3>5 DEF JobInOrder
  <2> QED BY <2>1, <2>2
<1>5. ASSUME NEW t \in Terminals PROVE CallInOrder(t)'
  <2>1. tx'[t] = tx[t] /\ pc'[t] = pc[t]
    BY <1>a, <1>t
  <2> QED BY <2>1 DEF IndInv, CallInOrder
<1> QED BY <1>1, <1>2, <1>3, <1>4, <1>5 DEF IndInv

\* The commit of a receipt.
LEMMA CommitReceiptInv == ASSUME IndInv, NEW t \in Terminals, CommitReceipt(t) PROVE IndInv'
<1> USE CallersDiffer, AmountsAssumption, RowsAssumption
<1> DEFINE g == tx[t].ref
           brought == Lines(Accepted[g])
           n == Cardinality(brought)
<1>0. WellTyped(t) /\ CallInOrder(t)
  BY TypesOf DEF IndInv
<1>t. /\ item \in [Ingredients -> [live : BOOLEAN, qty : Nat]]
      /\ batch \in Seq(Batches) /\ Len(batch) <= MaxBatches
      /\ ledger \in [Ingredients -> Int] /\ posted \in [Refs -> Nat]
      /\ tx \in [Callers -> Transactions] /\ pc \in [Callers -> Statements]
  BY DEF IndInv, TypeOK, Statements
<1>a. /\ pc[t] = "finish" /\ g \in Receipts /\ tx[t].wrote = brought
      /\ Len(batch) + n <= MaxBatches
      /\ pc' = [pc EXCEPT ![t] = "off"] /\ tx' = [tx EXCEPT ![t] = NoTx]
      /\ posted' = [posted EXCEPT ![g] = @ + 1]
      /\ UNCHANGED <<byHand, job, raced>>
  BY <1>0 DEF CommitReceipt, CallInOrder, Leave
<1>r. \A k \in Ingredients : Accepted[g][k] \in Nat
  BY <1>a DEF Amounts
<1>k. \A k \in Ingredients :
        /\ item'[k].live = item[k].live \/ k \in brought
        /\ item'[k].qty = item[k].qty + Accepted[g][k]
        /\ k \notin brought => item'[k] = item[k]
        /\ item'[k] \in [live : BOOLEAN, qty : Nat]
        /\ ledger'[k] = ledger[k] + Accepted[g][k]
  <2> SUFFICES ASSUME NEW k \in Ingredients
               PROVE /\ item'[k].live = item[k].live \/ k \in brought
                     /\ item'[k].qty = item[k].qty + Accepted[g][k]
                     /\ k \notin brought => item'[k] = item[k]
                     /\ item'[k] \in [live : BOOLEAN, qty : Nat]
                     /\ ledger'[k] = ledger[k] + Accepted[g][k]
    OBVIOUS
  <2>1. ledger'[k] = ledger[k] + Accepted[g][k]
    BY DEF CommitReceipt
  <2>2. CASE k \in brought
    <3>a. item' = [j \in Ingredients |->
                     IF j \in tx[t].wrote THEN [live |-> TRUE, qty |-> item[j].qty + Accepted[g][j]]
                                          ELSE item[j]]
      BY DEF CommitReceipt
    <3>1. item'[k] = [live |-> TRUE, qty |-> item[k].qty + Accepted[g][k]]
      BY <2>2, <1>a, <3>a
    <3>2. item[k].qty \in Nat /\ Accepted[g][k] \in Nat /\ item[k].qty + Accepted[g][k] \in Nat
      BY <1>t, <1>r
    <3>3. item'[k] \in [live : BOOLEAN, qty : Nat] /\ item'[k].qty = item[k].qty + Accepted[g][k]
      BY <3>1, <3>2
    <3> QED BY <2>1, <2>2, <3>3, Zenon
  <2>3. CASE k \notin brought
    <3>1. item'[k] = item[k]
      BY <2>3, <1>a DEF CommitReceipt
    <3>2. ~(Accepted[g][k] > 0)
      BY <2>3 DEF Lines
    <3> QED BY <2>1, <2>3, <3>1, <3>2, <1>t, <1>r
  <2> QED BY <2>2, <2>3
<1>n. n \in Nat
  <2>1. IsFiniteSet(brought)
    BY FS_Subset DEF Lines
  <2> QED BY <2>1, FS_CardinalityType
<1>b. /\ batch' \in Seq(Batches) /\ Len(batch') <= MaxBatches
      /\ \A b \in DOMAIN batch : b \in DOMAIN batch' /\ batch'[b] = batch[b]
  <2>1. PICK order \in [1..n -> brought] :
          batch' = batch \o [b \in 1..n |-> [ingredient |-> order[b], left |-> Accepted[g][order[b]]]]
    BY DEF CommitReceipt
  <2> DEFINE new == [b \in 1..n |-> [ingredient |-> order[b], left |-> Accepted[g][order[b]]]]
  <2>2. ASSUME NEW b \in 1..n PROVE new[b] \in Batches
    <3>1. order[b] \in Ingredients
      BY <2>1 DEF Lines
    <3> QED BY <3>1, <1>r DEF Batches
  <2>3. new \in Seq(Batches) /\ Len(new) = n
    BY <2>2, <1>n
  <2> HIDE DEF new, n
  <2>4. batch' = batch \o new
    BY <2>1 DEF new
  <2> QED BY <2>3, <2>4, <1>t, <1>a, <1>n
<1>1. TypeOK'
  <2>1. Transactions' = Transactions
    BY DEF Transactions, Refs
  <2>2. item' \in [Ingredients -> [live : BOOLEAN, qty : Nat]]
    <3>1. item' = [k \in Ingredients |-> item'[k]]
      BY DEF CommitReceipt
    <3> QED BY <3>1, <1>k
  <2>3. ledger' \in [Ingredients -> Int]
    <3>1. ledger' = [k \in Ingredients |-> ledger[k] + Accepted[g][k]]
      BY DEF CommitReceipt
    <3>2. ASSUME NEW k \in Ingredients PROVE ledger[k] + Accepted[g][k] \in Int
      BY <1>t, <1>r
    <3> QED BY <3>1, <3>2
  <2>5. posted' \in [Refs -> Nat]
    BY <1>a, <1>t DEF Refs
  <2>6. tx' \in [Callers -> Transactions] /\ pc' \in [Callers -> Statements]
    BY <1>a, <1>t, NoTxTyped DEF Statements
  <2>7. receipt' \in [Receipts -> {"ABSENT", "PENDING", "COMPLETED"}]
    BY DEF IndInv, TypeOK, CommitReceipt
  <2>8. po' \in [PurchaseOrders -> OrderStatus]
    <3>1. tx[t].to \in OrderStatus
      BY <1>0 DEF WellTyped, Transactions
    <3> QED BY <3>1 DEF IndInv, TypeOK, CommitReceipt
  <2> QED BY <1>a, <1>b, <2>1, <2>2, <2>3, <2>5, <2>6, <2>7, <2>8 DEF IndInv, TypeOK, Statements
<1>2. LocksExclusive'
  BY <1>a, <1>t DEF IndInv, LocksExclusive, NoTx
<1>3. QuantityIsLedger'
  <2> SUFFICES ASSUME NEW k \in Ingredients PROVE item'[k].qty = ledger'[k] + byHand'[k]
    BY DEF QuantityIsLedger
  <2>1. item[k].qty = ledger[k] + byHand[k] /\ byHand' = byHand /\ byHand[k] \in Int /\ ledger[k] \in Int
    BY <1>a DEF IndInv, QuantityIsLedger, TypeOK
  <2>2. item'[k].qty = item[k].qty + Accepted[g][k] /\ ledger'[k] = ledger[k] + Accepted[g][k]
    BY <1>k
  <2>3. item[k].qty \in Int /\ Accepted[g][k] \in Int
    BY <1>t, <1>r
  <2> HIDE AmountsAssumption, RowsAssumption, CallersDiffer
  <2> QED BY <2>1, <2>2, <2>3
<1>4. ASSUME NEW j \in Items PROVE JobInOrder(j)'
  <2>1. tx'[j] = tx[j] /\ pc'[j] = pc[j] /\ posted'[j] = posted[j] /\ job' = job
    BY <1>a, <1>t DEF Refs
  <2>2. \A k \in tx[j].wrote : item'[k] = item[k]
    <3>1. tx[j].wrote \subseteq Ingredients /\ tx[j].wrote \cap brought = {}
      BY <1>a, <1>t DEF IndInv, LocksExclusive, Transactions
    <3> QED BY <3>1, <1>k
  <2>3. JobInOrder(j)
    BY DEF IndInv
  <2>4. PlanFits(j)'
    BY <2>1, <2>3, <1>b DEF JobInOrder, PlanFits
  <2> QED BY <2>1, <2>2, <2>3, <2>4 DEF JobInOrder
<1>5. ASSUME NEW u \in Terminals PROVE CallInOrder(u)'
  <2>1. CASE u = t
    <3>1. tx'[t] = NoTx /\ pc'[t] = "off"
      BY <1>a, <1>t
    <3> QED BY <2>1, <3>1 DEF CallInOrder, NoTx
  <2>2. CASE u # t
    <3>1. tx'[u] = tx[u] /\ pc'[u] = pc[u]
      BY <1>a, <1>t, <2>2
    <3> QED BY <3>1 DEF IndInv, CallInOrder
  <2> QED BY <2>1, <2>2
<1> QED BY <1>1, <1>2, <1>3, <1>4, <1>5 DEF IndInv

-----------------------------------------------------------------------------
(* The invariant and what follows from it. *)

(* A step of somebody else changes nothing. *)
LEMMA StutterIndInv == ASSUME IndInv, UNCHANGED vars PROVE IndInv'
<1>1. Transactions' = Transactions
  BY DEF Transactions, Refs
<1>2. /\ item' = item /\ batch' = batch /\ ledger' = ledger /\ byHand' = byHand /\ posted' = posted
      /\ receipt' = receipt /\ po' = po /\ job' = job /\ pc' = pc /\ tx' = tx /\ raced' = raced
  BY DEF vars
<1> QED BY <1>1, <1>2 DEF IndInv, TypeOK, LocksExclusive, QuantityIsLedger, JobInOrder, PlanFits, CallInOrder

(* Every action keeps the invariant. *)
LEMMA NextIndInv == ASSUME IndInv, Next PROVE IndInv'
<1>1. ASSUME NEW i \in Items, PlaceItem(i) \/ QueueJob(i) \/ JobStep(i) \/ WorkerCrashes(i) PROVE IndInv'
  BY <1>1, PlaceItemInv, QueueJobInv, StartJobInv, PlanLineInv, TakeBatchInv, WriteItemInv,
     CommitJobInv, ReportDoneInv, AttemptFailsInv, WorkerCrashesInv DEF JobStep
<1>2. ASSUME NEW t \in Terminals, TerminalStep(t) PROVE IndInv'
  BY <1>2, ReadOrderInv, WriteOrderInv, ReadReceivableInv, InsertReceiptInv, ReadReceiptInv,
     MarkCompletedInv, FindItemInv, PutItemInv, SumReceiptsInv, CommitReceiptInv, AbortInv DEF TerminalStep
<1>3. ASSUME NEW k \in Ingredients, CreateItem(k) \/ EditItem(k) PROVE IndInv'
  BY <1>3, SetQuantityInv DEF CreateItem, EditItem
<1>4. ASSUME NEW p \in PurchaseOrders, CreateOrder(p) PROVE IndInv'
  BY <1>4, CreateOrderInv
<1> QED BY <1>1, <1>2, <1>3, <1>4 DEF Next

\* The strengthening of the invariants below, for every instance.
THEOREM Invariance == Spec => []IndInv
<1>1. IndInv /\ [Next]_vars => IndInv'
  BY NextIndInv, StutterIndInv
<1> QED BY <1>1, InitIndInv, PTL DEF Spec

\* Every row and every local variable keeps its type; no CHECK is ever broken at a commit.
THEOREM Typing == Spec => []TypeOK
BY Invariance, PTL DEF IndInv

\* The quantity on hand is what its movements and its hand edits add up to.
THEOREM QuantityAgrees == Spec => []QuantityIsLedger
BY Invariance, PTL DEF IndInv

\* An order item is depleted once, and a finished job has depleted it.
THEOREM DepletedAtMostOnce == Spec => []DepletedOnce
<1>1. IndInv => DepletedOnce
  BY DEF IndInv, JobInOrder, DepletedOnce
<1> QED BY <1>1, Invariance, PTL

-----------------------------------------------------------------------------
(* Receipts and purchase orders.  ReceiptInv is inductive beside IndInv:   *)
(* what a call has read of a receipt or an order is still so when it       *)
(* writes, unless another call about it overlapped and it is in raced.     *)

(* A call about a receipt is also about its order. *)
LEMMA SubjectsOf ==
  ASSUME NEW s, NEW r PROVE s \in Subjects(r) <=> s = r \/ (r \in Receipts /\ s = OfOrder[r])
BY DEF Subjects

\* One more receipt leaves the lines met that were.
LEMMA MetGrows ==
  ASSUME NEW p \in PurchaseOrders, NEW S \in SUBSET Receipts, IsFiniteSet(S), NEW g \in Receipts,
         LinesMet(p, S)
  PROVE  LinesMet(p, S \cup {g})
<1> SUFFICES ASSUME NEW n \in DOMAIN Ordered[p], g \notin S
             PROVE  Arrived(Ordered[p][n].ingredient, S \cup {g}) >= Ordered[p][n].qty
  <2>1. CASE g \in S
    <3>1. S \cup {g} = S
      BY <2>1
    <3> QED BY <3>1
  <2> QED BY <2>1 DEF LinesMet
<1> DEFINE k == Ordered[p][n].ingredient
           need == Ordered[p][n].qty
           f == [h \in S |-> Accepted[h][k]]
           e == [h \in S \cup {g} |-> Accepted[h][k]]
<1>0. k \in Ingredients /\ need \in Nat
  <2>1. Ordered[p] \in Seq(OrderLines)
    BY AmountsAssumption
  <2>2. Ordered[p][n] \in OrderLines
    BY <2>1
  <2> QED BY <2>2 DEF OrderLines
<1>1. \A h \in S \cup {g} : e[h] \in Nat /\ e[h] \in Int
  BY <1>0, AmountsAssumption DEF Amounts
<1>2. \A h \in S : f[h] \in Int /\ f[h] = e[h]
  BY <1>0, AmountsAssumption DEF Amounts
<1>3. SumFunctionOnSet(f, S) >= need
  BY DEF LinesMet, Arrived
<1>4. SumFunctionOnSet(e, S \cup {g}) = SumFunctionOnSet(e, S) + e[g]
  <2> HIDE DEF e
  <2>1. g \notin S /\ e[g] \in Int /\ \A h \in S : e[h] \in Int
    BY <1>1
  <2> QED BY <2>1, SumAdd
<1>5. SumFunctionOnSet(f, S) = SumFunctionOnSet(e, S) /\ SumFunctionOnSet(f, S) \in Int
  <2> HIDE DEF e, f
  <2>1. SumFunctionOnSet(f, S) = SumFunctionOnSet(e, S)
    BY <1>2, SumSame
  <2>2. SumFunctionOnSet(f, S) \in Int
    BY <1>2, SumType
  <2> QED BY <2>1, <2>2
<1>6. e[g] \in Nat
  BY <1>1
<1> DEFINE x == SumFunctionOnSet(e, S)
           y == SumFunctionOnSet(e, S \cup {g})
<1>7. y = x + e[g] /\ x >= need /\ x \in Int
  BY <1>3, <1>4, <1>5
<1>8. y >= need
  <2> HIDE DEF x, y, e, need
  <2> QED BY <1>0, <1>6, <1>7
<1> QED BY <1>8 DEF Arrived

\* A step that leaves receipts, orders and the calls of terminals alone.
LEMMA ReceiptQuiet ==
  ASSUME ReceiptInv, UNCHANGED <<receipt, po, raced>>,
         \A t \in Terminals : tx'[t] = tx[t] /\ pc'[t] = pc[t],
         \A g \in Receipts : posted'[g] = posted[g]
  PROVE  ReceiptInv'
<1>1. OneCallEach'
  BY DEF ReceiptInv, OneCallEach
<1>2. ASSUME NEW t \in Terminals PROVE CallFresh(t)'
  <2>1. CallFresh(t) /\ tx'[t] = tx[t] /\ pc'[t] = pc[t]
    BY DEF ReceiptInv
  <2>2. StillAbsent(t)'
    BY <2>1 DEF CallFresh, StillAbsent, Receiving
  <2>3. StillPending(t)' /\ StillAllowed(t)'
    BY <2>1 DEF CallFresh, StillPending, StillAllowed
  <2>4. StillSummed(t)'
    BY <2>1 DEF CallFresh, StillSummed, Completed
  <2> QED BY <2>1, <2>2, <2>3, <2>4 DEF CallFresh
<1>3. \A p \in PurchaseOrders : IsFiniteSet(CompletedOf(p)')
  BY DEF ReceiptInv, CompletedOf
<1>4. ReceiptCountsOnce'
  BY DEF ReceiptInv, ReceiptCountsOnce
<1>5. ReceivedMeansCovered'
  BY DEF ReceiptInv, ReceivedMeansCovered, CompletedOf
<1> QED BY <1>1, <1>2, <1>3, <1>4, <1>5 DEF ReceiptInv

\* A step of one call that writes no table keeps the invariant if it keeps that call's
\* part of it and does not disturb the insertion of another.
OnlyCall(t) ==
  /\ raced \subseteq raced'
  /\ \A u \in Terminals \ {t} : tx'[u] = tx[u] /\ pc'[u] = pc[u]
(* A call that changes no table keeps the receipt invariant if what it has read is      *)
(* current and nobody else inserts the same receipt.                                    *)
LEMMA CallQuiet ==
  ASSUME ReceiptInv, NEW t \in Terminals, OnlyCall(t), UNCHANGED tables, OneCallEach', CallFresh(t)',
         \A u \in Terminals \ {t} : pc[u] = "insert" /\ Receiving(t)' => tx'[t].ref # tx[u].ref
  PROVE  ReceiptInv'
<1>0. receipt' = receipt /\ po' = po /\ posted' = posted
  BY DEF tables
<1>2. ASSUME NEW u \in Terminals \ {t} PROVE CallFresh(u)'
  <2>1. tx'[u] = tx[u] /\ pc'[u] = pc[u] /\ CallFresh(u)
    BY DEF OnlyCall, ReceiptInv
  <2>2. StillAbsent(u)'
    <3>1. \A v \in Terminals \ {t} : tx'[v] = tx[v] /\ pc'[v] = pc[v]
      BY DEF OnlyCall
    <3> QED BY <1>0, <2>1, <3>1 DEF CallFresh, StillAbsent, Receiving
  <2>3. StillPending(u)' /\ StillAllowed(u)'
    BY <1>0, <2>1 DEF CallFresh, StillPending, StillAllowed, OnlyCall
  <2>4. StillSummed(u)'
    BY <1>0, <2>1 DEF CallFresh, StillSummed, Completed, OnlyCall
  <2> QED BY <2>1, <2>2, <2>3, <2>4 DEF CallFresh
<1>3. \A p \in PurchaseOrders : IsFiniteSet(CompletedOf(p)')
  BY <1>0 DEF ReceiptInv, CompletedOf
<1>4. ReceiptCountsOnce'
  BY <1>0 DEF ReceiptInv, ReceiptCountsOnce, OnlyCall
<1>5. ReceivedMeansCovered'
  BY <1>0 DEF ReceiptInv, ReceivedMeansCovered, CompletedOf, OnlyCall
<1> QED BY <1>2, <1>3, <1>4, <1>5 DEF ReceiptInv

\* A call keeps its subjects to itself when it goes on and when it ends ...
LEMMA SameSubjects ==
  ASSUME ReceiptInv, NEW t \in Terminals, OnlyCall(t), tx'[t].ref \in {tx[t].ref, None}
  PROVE  OneCallEach'
<1> SUFFICES ASSUME NEW s \in (Receipts \cup PurchaseOrders) \ raced, NEW u \in Terminals, NEW v \in Terminals,
                    u # v, s \in Subjects(tx'[u].ref), s \in Subjects(tx'[v].ref)
             PROVE  FALSE
  BY DEF OneCallEach, OnlyCall, Subjects
<1>1. s \notin Subjects(None)
  BY RowsAssumption, SubjectsOf
<1>2. s \in Subjects(tx[u].ref) /\ s \in Subjects(tx[v].ref)
  BY <1>1 DEF OnlyCall
<1> QED BY <1>2 DEF ReceiptInv, OneCallEach

\* ... and when it begins, since an overlap is noted.
LEMMA NewSubjects ==
  ASSUME ReceiptInv, NEW t \in Terminals, OnlyCall(t), NEW r, tx'[t].ref = r, Overlap(t, r)
  PROVE  OneCallEach'
<1> SUFFICES ASSUME NEW s \in (Receipts \cup PurchaseOrders) \ raced', NEW u \in Terminals, NEW v \in Terminals,
                    u # v, s \in Subjects(tx'[u].ref), s \in Subjects(tx'[v].ref)
             PROVE  FALSE
  BY DEF OneCallEach, Subjects
<1>1. \A w \in Terminals \ {t} : s \in Subjects(r) => s \notin Subjects(tx[w].ref)
  BY DEF Overlap
<1>2. CASE u = t
  BY <1>1, <1>2 DEF OnlyCall
<1>3. CASE v = t
  BY <1>1, <1>3 DEF OnlyCall
<1>4. CASE u # t /\ v # t
  BY <1>4 DEF OnlyCall, ReceiptInv, OneCallEach
<1> QED BY <1>2, <1>3, <1>4

\* What a step of a terminal does to its own and to the other calls.
LEMMA CallTyped ==
  ASSUME IndInv, NEW t \in Terminals
  PROVE  /\ tx[t] \in Transactions /\ CallInOrder(t)
         /\ tx \in [Callers -> Transactions] /\ pc \in [Callers -> Statements] /\ t \in Callers
BY CallersDiffer DEF IndInv, TypeOK, Statements

(* A statement of one terminal leaves the calls of the others alone. *)
LEMMA OthersStay ==
  ASSUME IndInv, NEW t \in Terminals, TerminalStep(t)
  PROVE  OnlyCall(t)
<1>1. tx \in [Callers -> Transactions] /\ pc \in [Callers -> Statements] /\ t \in Callers
  BY CallTyped
<1>2. /\ \A u \in Callers \ {t} : tx'[u] = tx[u] /\ pc'[u] = pc[u]
      /\ raced \subseteq raced'
  BY <1>1 DEF TerminalStep, ReadOrder, WriteOrder, ReadReceivable, InsertReceipt, ReadReceipt,
              MarkCompleted, FindItem, PutItem, SumReceipts, CommitReceipt, Abort, Goto, Leave, Overlap
<1> QED BY <1>2, CallersDiffer DEF OnlyCall

(* The status a call has just read is current. *)
LEMMA ReadOrderFresh == ASSUME IndInv, ReceiptInv, NEW t \in Terminals, ReadOrder(t) PROVE ReceiptInv'
<1>0. OnlyCall(t)
  BY OthersStay DEF TerminalStep
<1>1. PICK p \in PurchaseOrders, to \in {"SUBMITTED", "APPROVED", "CANCELLED"} :
        /\ Goto(t, "off", "status")
        /\ po[p] # "ABSENT" /\ MayBecome(po[p], to)
        /\ tx' = [tx EXCEPT ![t].ref = p, ![t].to = to]
        /\ Overlap(t, p) /\ UNCHANGED <<tables, job>>
  BY DEF ReadOrder
<1>2. pc'[t] = "status" /\ tx'[t].ref = p /\ tx'[t].to = to
  BY <1>1, CallTyped DEF Goto, Transactions
<1>3. OneCallEach'
  BY <1>0, <1>1, <1>2, NewSubjects
<1>4. CallFresh(t)'
  BY <1>1, <1>2 DEF CallFresh, StillAbsent, StillPending, StillAllowed, StillSummed, MayBecome, tables
<1> QED BY <1>0, <1>1, <1>2, <1>3, <1>4, CallQuiet DEF Receiving

(* The order a call has just found receivable is. *)
LEMMA ReadReceivableFresh == ASSUME IndInv, ReceiptInv, NEW t \in Terminals, ReadReceivable(t) PROVE ReceiptInv'
<1>0. OnlyCall(t)
  BY OthersStay DEF TerminalStep
<1>1. PICK g \in Receipts :
        /\ Goto(t, "off", "insert")
        /\ receipt[g] = "ABSENT" /\ \A u \in Terminals : tx[u].ref # g
        /\ tx' = [tx EXCEPT ![t].ref = g]
        /\ Overlap(t, g) /\ UNCHANGED <<tables, job>>
  BY DEF ReadReceivable
<1>2. pc'[t] = "insert" /\ tx'[t].ref = g
  BY <1>1, CallTyped DEF Goto, Transactions
<1>3. OneCallEach'
  BY <1>0, <1>1, <1>2, NewSubjects
<1>4. CallFresh(t)'
  <2>1. StillAbsent(t)'
    BY <1>0, <1>1, <1>2 DEF StillAbsent, OnlyCall, tables
  <2> QED BY <1>2, <2>1 DEF CallFresh, StillPending, StillAllowed, StillSummed
<1> QED BY <1>0, <1>1, <1>2, <1>3, <1>4, CallQuiet

(* The receipt a call has just found pending is. *)
LEMMA ReadReceiptFresh == ASSUME IndInv, ReceiptInv, NEW t \in Terminals, ReadReceipt(t) PROVE ReceiptInv'
<1>0. OnlyCall(t)
  BY OthersStay DEF TerminalStep
<1>1. PICK g \in Receipts :
        /\ Goto(t, "off", "mark")
        /\ receipt[g] = "PENDING"
        /\ tx' = [tx EXCEPT ![t].ref = g]
        /\ Overlap(t, g) /\ UNCHANGED <<tables, job>>
  BY DEF ReadReceipt
<1>2. pc'[t] = "mark" /\ tx'[t].ref = g
  BY <1>1, CallTyped DEF Goto, Transactions
<1>3. OneCallEach'
  BY <1>0, <1>1, <1>2, NewSubjects
<1>4. CallFresh(t)'
  BY <1>1, <1>2 DEF CallFresh, StillAbsent, StillPending, StillAllowed, StillSummed, tables
<1>5. \A u \in Terminals \ {t} : pc[u] = "insert" => tx[u].ref # g
  BY <1>1 DEF ReceiptInv, CallFresh, StillAbsent
<1> QED BY <1>0, <1>1, <1>2, <1>3, <1>4, <1>5, CallQuiet

\* A statement within completeGoodsReceipt before the last.
LEMMA WithinFresh ==
  ASSUME IndInv, ReceiptInv, NEW t \in Terminals, OnlyCall(t), UNCHANGED <<tables, raced>>,
         pc[t] \in {"mark", "lines", "put"}, pc'[t] \in {"lines", "put", "finish"},
         tx'[t].ref = tx[t].ref, StillSummed(t)'
  PROVE  ReceiptInv'
<1>1. OneCallEach'
  BY SameSubjects
<1>2. CallFresh(t)'
  <2>1. CallFresh(t)
    BY DEF ReceiptInv
  <2>2. StillPending(t)'
    BY <2>1 DEF CallFresh, StillPending, tables
  <2> QED BY <2>2 DEF CallFresh, StillAbsent, StillAllowed
<1>3. \A u \in Terminals \ {t} : pc[u] = "insert" => tx'[t].ref # tx[u].ref
  BY DEF ReceiptInv, CallFresh, StillAbsent, Receiving
<1> QED BY <1>1, <1>2, <1>3, CallQuiet

(* A marked receipt is still pending to the others. *)
LEMMA MarkCompletedFresh == ASSUME IndInv, ReceiptInv, NEW t \in Terminals, MarkCompleted(t) PROVE ReceiptInv'
<1>0. OnlyCall(t)
  BY OthersStay DEF TerminalStep
<1>1. pc[t] = "mark" /\ pc'[t] = "lines" /\ UNCHANGED <<tables, raced>>
  BY CallTyped DEF MarkCompleted, Goto
<1>2. tx'[t].ref = tx[t].ref
  BY CallTyped DEF MarkCompleted, Transactions
<1>3. StillSummed(t)'
  BY <1>1 DEF StillSummed
<1> QED BY <1>0, <1>1, <1>2, <1>3, WithinFresh

(* Looking for an item changes nothing the calls have read. *)
LEMMA FindItemFresh == ASSUME IndInv, ReceiptInv, NEW t \in Terminals, FindItem(t) PROVE ReceiptInv'
<1>0. OnlyCall(t)
  BY OthersStay DEF TerminalStep
<1>1. pc[t] = "lines" /\ pc'[t] = "put" /\ UNCHANGED <<tables, raced>>
  BY CallTyped DEF FindItem, Goto
<1>2. tx'[t].ref = tx[t].ref
  BY CallTyped DEF FindItem, Transactions
<1>3. StillSummed(t)'
  BY <1>1 DEF StillSummed
<1> QED BY <1>0, <1>1, <1>2, <1>3, WithinFresh

(* Stock that is put is invisible before the commit. *)
LEMMA PutItemFresh == ASSUME IndInv, ReceiptInv, NEW t \in Terminals, PutItem(t) PROVE ReceiptInv'
<1>0. OnlyCall(t)
  BY OthersStay DEF TerminalStep
<1>1. pc[t] = "put" /\ pc'[t] = "lines" /\ UNCHANGED <<tables, raced>>
  BY CallTyped DEF PutItem, Goto
<1>2. tx'[t].ref = tx[t].ref
  BY CallTyped DEF PutItem, Transactions
<1>3. StillSummed(t)'
  BY <1>1 DEF StillSummed
<1> QED BY <1>0, <1>1, <1>2, <1>3, WithinFresh

(* The receipts that were added up are those completed, and this one. *)
LEMMA SumReceiptsFresh == ASSUME IndInv, ReceiptInv, NEW t \in Terminals, SumReceipts(t) PROVE ReceiptInv'
<1>0. OnlyCall(t)
  BY OthersStay DEF TerminalStep
<1> DEFINE p == OfOrder[tx[t].ref]
           done == Completed(p, tx[t].ref)
<1>1. pc[t] = "lines" /\ pc'[t] = "finish" /\ UNCHANGED <<tables, raced>>
  BY CallTyped DEF SumReceipts, Goto
<1>2. tx'[t].ref = tx[t].ref /\ tx'[t].to \in Verdicts(p, done)
  <2>1. PICK to \in Verdicts(p, done) : tx' = [tx EXCEPT ![t].to = to]
    BY DEF SumReceipts
  <2> HIDE DEF done
  <2>2. tx'[t] = [tx[t] EXCEPT !.to = to]
    BY <2>1, CallTyped
  <2> QED BY <2>2, CallTyped DEF Transactions
<1>3. StillSummed(t)'
  <2>1. Completed(p, tx[t].ref)' = Completed(p, tx[t].ref)
    BY <1>1, <1>2 DEF Completed, tables
  <2> QED BY <1>2, <2>1 DEF StillSummed, Verdicts, LinesMet, LinesExceeded, Arrived
<1> QED BY <1>0, <1>1, <1>2, <1>3, WithinFresh

(* A call that fails has read nothing. *)
LEMMA AbortFresh == ASSUME IndInv, ReceiptInv, NEW t \in Terminals, Abort(t) PROVE ReceiptInv'
<1>0. OnlyCall(t)
  BY OthersStay DEF TerminalStep
<1>1. pc'[t] = "off" /\ tx'[t].ref = None /\ UNCHANGED <<tables, raced>>
  BY CallTyped DEF Abort, Leave, NoTx
<1>2. OneCallEach'
  BY <1>0, <1>1, SameSubjects
<1>3. CallFresh(t)'
  BY <1>1 DEF CallFresh, StillAbsent, StillPending, StillAllowed, StillSummed
<1> QED BY <1>0, <1>1, <1>2, <1>3, CallQuiet DEF Receiving

\* The insertion of a receipt.
LEMMA InsertReceiptFresh == ASSUME IndInv, ReceiptInv, NEW t \in Terminals, InsertReceipt(t) PROVE ReceiptInv'
<1> DEFINE g == tx[t].ref
<1>0. OnlyCall(t)
  BY OthersStay DEF TerminalStep
<1>1. /\ pc[t] = "insert" /\ g \in Receipts /\ pc'[t] = "off" /\ tx'[t].ref = None
      /\ receipt' = [receipt EXCEPT ![g] = "PENDING"] /\ UNCHANGED <<posted, po, raced>>
  BY CallTyped DEF InsertReceipt, Leave, NoTx, CallInOrder
<1>2. receipt[g] = "ABSENT" /\ \A u \in Terminals \ {t} : Receiving(u) => tx[u].ref # g
  BY <1>1 DEF ReceiptInv, CallFresh, StillAbsent
<1>3. /\ \A h \in Receipts : receipt'[h] = "COMPLETED" <=> receipt[h] = "COMPLETED"
      /\ \A h \in Receipts \ {g} : receipt'[h] = receipt[h]
  BY <1>1, <1>2 DEF IndInv, TypeOK
<1>4. \A p : CompletedOf(p)' = CompletedOf(p) /\ \A own : Completed(p, own)' = Completed(p, own)
  BY <1>3 DEF CompletedOf, Completed
<1>5. OneCallEach'
  BY <1>0, <1>1, SameSubjects
<1>6. ASSUME NEW u \in Terminals PROVE CallFresh(u)'
  <2>1. CASE u = t
    BY <1>1, <2>1 DEF CallFresh, StillAbsent, StillPending, StillAllowed, StillSummed
  <2>2. CASE u # t
    <3>1. tx'[u] = tx[u] /\ pc'[u] = pc[u] /\ CallFresh(u) /\ CallInOrder(u)
      BY <1>0, <2>2, CallTyped DEF OnlyCall, ReceiptInv
    <3>2. Receiving(u) => receipt'[tx[u].ref] = receipt[tx[u].ref]
      BY <1>2, <1>3, <2>2, <3>1 DEF CallInOrder, Receiving
    <3>3. StillAbsent(u)'
      <4>1. \A v \in Terminals : Receiving(v)' => Receiving(v) /\ tx'[v] = tx[v]
        BY <1>0, <1>1 DEF OnlyCall, Receiving
      <4> QED BY <3>1, <3>2, <4>1 DEF CallFresh, StillAbsent, Receiving
    <3>4. StillPending(u)' /\ StillAllowed(u)'
      BY <1>1, <3>1, <3>2 DEF CallFresh, StillPending, StillAllowed, Receiving
    <3>5. StillSummed(u)'
      BY <1>1, <1>4, <3>1 DEF CallFresh, StillSummed
    <3> QED BY <3>1, <3>3, <3>4, <3>5 DEF CallFresh
  <2> QED BY <2>1, <2>2
<1>7. \A p \in PurchaseOrders : IsFiniteSet(CompletedOf(p)')
  BY <1>4 DEF ReceiptInv
<1>8. ReceiptCountsOnce'
  BY <1>1, <1>3 DEF ReceiptInv, ReceiptCountsOnce
<1>9. ReceivedMeansCovered'
  BY <1>1, <1>4 DEF ReceiptInv, ReceivedMeansCovered
<1> QED BY <1>5, <1>6, <1>7, <1>8, <1>9 DEF ReceiptInv

\* The two writes of an order's status outside a receipt.
LEMMA WriteOrderFresh == ASSUME IndInv, ReceiptInv, NEW t \in Terminals, WriteOrder(t) PROVE ReceiptInv'
<1> DEFINE p == tx[t].ref
<1>0. OnlyCall(t)
  BY OthersStay DEF TerminalStep
<1>1. /\ pc[t] = "status" /\ p \in PurchaseOrders /\ pc'[t] = "off" /\ tx'[t].ref = None
      /\ po' = [po EXCEPT ![p] = tx[t].to] /\ UNCHANGED <<posted, receipt, raced>>
  BY CallTyped DEF WriteOrder, Leave, NoTx, CallInOrder
<1>2. /\ tx[t].to \in {"SUBMITTED", "APPROVED", "CANCELLED"}
      /\ p \notin raced => MayBecome(po[p], tx[t].to)
  BY <1>1 DEF ReceiptInv, CallFresh, StillAllowed
<1>3. po'[p] = tx[t].to /\ \A q \in PurchaseOrders \ {p} : po'[q] = po[q]
  BY <1>1 DEF IndInv, TypeOK
<1>5. OneCallEach'
  BY <1>0, <1>1, SameSubjects
<1>6. ASSUME NEW u \in Terminals PROVE CallFresh(u)'
  <2>1. CASE u = t
    BY <1>1, <2>1 DEF CallFresh, StillAbsent, StillPending, StillAllowed, StillSummed
  <2>2. CASE u # t
    <3>1. tx'[u] = tx[u] /\ pc'[u] = pc[u] /\ CallFresh(u) /\ CallInOrder(u)
      BY <1>0, <2>2, CallTyped DEF OnlyCall, ReceiptInv
    <3>2. StillAbsent(u)'
      <4>1. \A v \in Terminals : Receiving(v)' => Receiving(v) /\ tx'[v] = tx[v]
        BY <1>0, <1>1 DEF OnlyCall, Receiving
      <4> QED BY <1>1, <3>1, <4>1 DEF CallFresh, StillAbsent
    <3>3. StillPending(u)'
      BY <1>1, <3>1 DEF CallFresh, StillPending
    <3>4. StillAllowed(u)'
      <4>1. tx[u].ref \in PurchaseOrders \ raced => tx[u].ref # p
        <5>1. \A r : r \in Subjects(r)
          BY SubjectsOf
        <5> QED BY <2>2, <5>1 DEF ReceiptInv, OneCallEach
      <4> QED BY <1>1, <1>3, <3>1, <4>1 DEF CallFresh, StillAllowed, CallInOrder
    <3>5. StillSummed(u)'
      BY <1>1, <3>1 DEF CallFresh, StillSummed, Completed
    <3> QED BY <3>1, <3>2, <3>3, <3>4, <3>5 DEF CallFresh
  <2> QED BY <2>1, <2>2
<1>7. \A q \in PurchaseOrders : IsFiniteSet(CompletedOf(q)') /\ CompletedOf(q)' = CompletedOf(q)
  BY <1>1 DEF ReceiptInv, CompletedOf
<1>8. ReceiptCountsOnce'
  BY <1>1 DEF ReceiptInv, ReceiptCountsOnce
<1>9. ReceivedMeansCovered'
  <2> SUFFICES ASSUME NEW q \in PurchaseOrders
               PROVE  LET receipts == CompletedOf(q) IN
                      /\ po'[q] = "RECEIVED" => LinesMet(q, receipts)
                      /\ LinesExceeded(q, receipts) /\ receipts # {} /\ q \notin raced =>
                           po'[q] \in {"RECEIVED", "CANCELLED"}
    BY <1>1, <1>7 DEF ReceivedMeansCovered, LinesMet, LinesExceeded, Arrived
  <2>1. CASE q # p
    BY <1>3, <2>1 DEF ReceiptInv, ReceivedMeansCovered
  <2>2. CASE q = p
    BY <1>2, <1>3, <2>2 DEF ReceiptInv, ReceivedMeansCovered, MayBecome
  <2> QED BY <2>1, <2>2
<1> QED BY <1>5, <1>6, <1>7, <1>8, <1>9 DEF ReceiptInv

(* A new order has no receipt and no caller. *)
LEMMA CreateOrderFresh == ASSUME IndInv, ReceiptInv, NEW p \in PurchaseOrders, CreateOrder(p) PROVE ReceiptInv'
<1>1. /\ po[p] = "ABSENT" /\ po' = [po EXCEPT ![p] = "DRAFT"]
      /\ UNCHANGED <<posted, receipt, raced, tx, pc>>
  BY DEF CreateOrder
<1>3. po'[p] = "DRAFT" /\ \A q \in PurchaseOrders \ {p} : po'[q] = po[q]
  BY <1>1 DEF IndInv, TypeOK
<1>5. OneCallEach'
  BY <1>1 DEF ReceiptInv, OneCallEach
<1>6. ASSUME NEW u \in Terminals PROVE CallFresh(u)'
  <2>1. CallFresh(u) /\ CallInOrder(u)
    BY CallTyped DEF ReceiptInv
  <2>2. StillAllowed(u)'
    BY <1>1, <1>3, <2>1 DEF CallFresh, StillAllowed, CallInOrder
  <2> QED BY <1>1, <2>1, <2>2 DEF CallFresh, StillAbsent, Receiving, StillPending, StillSummed, Completed
<1>7. \A q \in PurchaseOrders : IsFiniteSet(CompletedOf(q)') /\ CompletedOf(q)' = CompletedOf(q)
  BY <1>1 DEF ReceiptInv, CompletedOf
<1>8. ReceiptCountsOnce'
  BY <1>1 DEF ReceiptInv, ReceiptCountsOnce
<1>9. ReceivedMeansCovered'
  BY <1>1, <1>3, <1>7 DEF ReceiptInv, ReceivedMeansCovered
<1> QED BY <1>5, <1>6, <1>7, <1>8, <1>9 DEF ReceiptInv

\* The commit of a receipt.
LEMMA CommitReceiptFresh == ASSUME IndInv, ReceiptInv, NEW t \in Terminals, CommitReceipt(t) PROVE ReceiptInv'
<1>g. PICK g \in Receipts : g = tx[t].ref
  BY CallTyped DEF CommitReceipt, CallInOrder
<1> DEFINE p == OfOrder[g]
<1>0. OnlyCall(t)
  BY OthersStay DEF TerminalStep
<1>1. /\ pc[t] = "finish" /\ tx[t].ref = g /\ p \in PurchaseOrders /\ pc'[t] = "off" /\ tx'[t].ref = None
      /\ receipt' = [receipt EXCEPT ![g] = "COMPLETED"] /\ po' = [po EXCEPT ![p] = tx[t].to]
      /\ posted' = [posted EXCEPT ![g] = @ + 1] /\ UNCHANGED raced
  BY <1>g, CallTyped, AmountsAssumption DEF CommitReceipt, Leave, NoTx
<1>2. /\ receipt'[g] = "COMPLETED" /\ \A h \in Receipts \ {g} : receipt'[h] = receipt[h]
      /\ po'[p] = tx[t].to /\ \A q \in PurchaseOrders \ {p} : po'[q] = po[q]
  BY <1>1 DEF IndInv, TypeOK
<1>3. /\ posted[g] \in Nat /\ posted'[g] = posted[g] + 1
      /\ \A h \in Receipts \ {g} : posted'[h] = posted[h]
  BY <1>1 DEF IndInv, TypeOK, Refs
<1>4. CallFresh(t)
  BY DEF ReceiptInv
<1>5. OneCallEach'
  BY <1>0, <1>1, SameSubjects
<1>6. /\ \A u \in Terminals \ {t} : g \notin raced => g \notin Subjects(tx[u].ref)
      /\ \A u \in Terminals \ {t} : p \notin raced => p \notin Subjects(tx[u].ref)
  <2>1. g \in Subjects(g) /\ p \in Subjects(g)
    BY <1>1, SubjectsOf
  <2> QED BY <1>1, <2>1 DEF ReceiptInv, OneCallEach
<1>7. /\ CompletedOf(p)' = Completed(p, g) /\ Completed(p, g) = CompletedOf(p) \cup {g}
      /\ \A q \in PurchaseOrders \ {p} : CompletedOf(q)' = CompletedOf(q)
      /\ \A own : Completed(p, own)' = Completed(p, own) \cup {g}
      /\ \A q \in PurchaseOrders \ {p} : \A own : Completed(q, own)' = Completed(q, own)
  BY <1>1, <1>2 DEF CompletedOf, Completed
<1>8. ASSUME NEW u \in Terminals PROVE CallFresh(u)'
  <2>1. CASE u = t
    BY <1>1, <2>1 DEF CallFresh, StillAbsent, StillPending, StillAllowed, StillSummed
  <2>2. CASE u # t
    <3>1. tx'[u] = tx[u] /\ pc'[u] = pc[u] /\ CallFresh(u) /\ CallInOrder(u)
      BY <1>0, <2>2, CallTyped DEF OnlyCall, ReceiptInv
    <3>2. StillAbsent(u)'
      <4>1. \A v \in Terminals : Receiving(v)' => Receiving(v) /\ tx'[v] = tx[v]
        BY <1>0, <1>1 DEF OnlyCall, Receiving
      <4>2. pc[u] = "insert" => tx[u].ref \in Receipts \ {g}
        BY <1>1, <2>2, <3>1 DEF CallFresh, StillAbsent, Receiving, CallInOrder
      <4> QED BY <1>2, <3>1, <4>1, <4>2 DEF CallFresh, StillAbsent
    <3>3. StillPending(u)'
      <4>1. tx[u].ref \notin raced => tx[u].ref # g
        BY <1>6, <2>2, SubjectsOf
      <4> QED BY <1>1, <1>2, <3>1, <4>1 DEF CallFresh, StillPending, CallInOrder
    <3>4. StillAllowed(u)'
      <4>1. tx[u].ref \notin raced => tx[u].ref # p
        BY <1>6, <2>2, SubjectsOf
      <4> QED BY <1>1, <1>2, <3>1, <4>1 DEF CallFresh, StillAllowed, CallInOrder
    <3>5. StillSummed(u)'
      <4> SUFFICES ASSUME pc[u] = "finish"
                   PROVE  StillSummed(u)'
        BY <3>1 DEF StillSummed
      <4>h. PICK h \in Receipts : h = tx[u].ref
        BY <3>1 DEF CallInOrder
      <4> DEFINE q == OfOrder[h]
      <4>1. q \in PurchaseOrders /\ h = tx[u].ref /\ h = tx'[u].ref
        BY <3>1, <4>h, AmountsAssumption
      <4>2. /\ tx[u].to \in {"RECEIVED", "PARTIALLY_RECEIVED"}
            /\ tx[u].to = "RECEIVED" => LinesMet(q, Completed(q, h))
            /\ LinesExceeded(q, Completed(q, h)) /\ q \notin raced => tx[u].to = "RECEIVED"
        BY <3>1, <4>1 DEF CallFresh, StillSummed
      <4>3. tx[u].to = "RECEIVED" => LinesMet(q, Completed(q, h)')
        <5>1. CASE q # p
          BY <1>7, <4>1, <4>2, <5>1
        <5>2. CASE q = p
          <6>1. Completed(q, h) = CompletedOf(q) \cup {h}
            BY <4>1 DEF Completed, CompletedOf
          <6>2. IsFiniteSet(Completed(q, h)) /\ Completed(q, h) \in SUBSET Receipts
            BY <4>1, <6>1, FS_AddElement DEF ReceiptInv, Completed
          <6> HIDE DEF p, q
          <6>3. LinesMet(q, Completed(q, h)) => LinesMet(q, Completed(q, h) \cup {g})
            BY <1>1, <4>1, <6>2, MetGrows
          <6> QED BY <1>7, <4>2, <5>2, <6>3
        <5> QED BY <5>1, <5>2
      <4>4. LinesExceeded(q, Completed(q, h)') /\ q \notin raced => tx[u].to = "RECEIVED"
        <5>1. q \notin raced => q # p
          BY <1>6, <2>2, <4>1, SubjectsOf
        <5> QED BY <1>7, <4>1, <4>2, <5>1
      <4>5. /\ LinesMet(q, Completed(q, h))' <=> LinesMet(q, Completed(q, h)')
            /\ LinesExceeded(q, Completed(q, h))' <=> LinesExceeded(q, Completed(q, h)')
        BY DEF LinesMet, LinesExceeded, Arrived
      <4> QED BY <1>1, <3>1, <4>1, <4>2, <4>3, <4>4, <4>5 DEF StillSummed
    <3> QED BY <3>1, <3>2, <3>3, <3>4, <3>5 DEF CallFresh
  <2> QED BY <2>1, <2>2
<1>9. \A q \in PurchaseOrders : IsFiniteSet(CompletedOf(q)')
  <2>1. \A q \in PurchaseOrders : IsFiniteSet(CompletedOf(q))
    BY DEF ReceiptInv
  <2>2. CompletedOf(p)' = CompletedOf(p) \cup {g} /\ p \in PurchaseOrders
    BY <1>1, <1>7
  <2>3. IsFiniteSet(CompletedOf(p) \cup {g})
    BY <2>1, <2>2, FS_AddElement
  <2> HIDE DEF p
  <2> QED BY <1>7, <2>1, <2>2, <2>3
<1>10. ReceiptCountsOnce'
  <2> SUFFICES ASSUME NEW h \in Receipts
               PROVE  /\ posted'[h] > 0 <=> receipt'[h] = "COMPLETED"
                      /\ h \notin raced => posted'[h] <= 1
    BY <1>1 DEF ReceiptCountsOnce
  <2>1. CASE h # g
    BY <1>2, <1>3, <2>1 DEF ReceiptInv, ReceiptCountsOnce
  <2>2. CASE h = g
    <3>1. g \notin raced => receipt[g] = "PENDING"
      BY <1>1, <1>4 DEF CallFresh, StillPending
    <3>2. posted[g] > 0 <=> receipt[g] = "COMPLETED"
      BY <1>1 DEF ReceiptInv, ReceiptCountsOnce
    <3> QED BY <1>2, <1>3, <2>2, <3>1, <3>2
  <2> QED BY <2>1, <2>2
<1>11. ReceivedMeansCovered'
  <2> SUFFICES ASSUME NEW q \in PurchaseOrders
               PROVE  LET receipts == CompletedOf(q)' IN
                      /\ po'[q] = "RECEIVED" => LinesMet(q, receipts)
                      /\ LinesExceeded(q, receipts) /\ receipts # {} /\ q \notin raced =>
                           po'[q] \in {"RECEIVED", "CANCELLED"}
    BY <1>1 DEF ReceivedMeansCovered, LinesMet, LinesExceeded, Arrived
  <2>1. CASE q # p
    BY <1>2, <1>7, <2>1 DEF ReceiptInv, ReceivedMeansCovered
  <2>2. CASE q = p
    <3>1. /\ tx[t].to = "RECEIVED" => LinesMet(p, Completed(p, g))
          /\ LinesExceeded(p, Completed(p, g)) /\ p \notin raced => tx[t].to = "RECEIVED"
      BY <1>1, <1>4 DEF CallFresh, StillSummed
    <3> QED BY <1>2, <1>7, <2>2, <3>1
  <2> QED BY <2>1, <2>2
<1> QED BY <1>5, <1>8, <1>9, <1>10, <1>11 DEF ReceiptInv

(* Nothing is ordered or received at first. *)
LEMMA InitReceiptInv == Init => ReceiptInv
<1> SUFFICES ASSUME Init PROVE ReceiptInv
  OBVIOUS
<1>1. \A t \in Terminals : tx[t].ref = None /\ pc[t] = "off"
  BY CallersDiffer DEF Init, NoTx
<1>2. OneCallEach
  <2>1. \A s \in Receipts \cup PurchaseOrders : s \notin Subjects(None)
    BY RowsAssumption, SubjectsOf
  <2> QED BY <1>1, <2>1 DEF OneCallEach
<1>3. \A t \in Terminals : CallFresh(t)
  BY <1>1 DEF CallFresh, StillAbsent, StillPending, StillAllowed, StillSummed
<1>4. \A p : CompletedOf(p) = {}
  BY DEF Init, CompletedOf
<1>5. ReceiptCountsOnce
  BY DEF Init, ReceiptCountsOnce, Refs
<1>6. ReceivedMeansCovered
  BY <1>4 DEF Init, ReceivedMeansCovered
<1> QED BY <1>2, <1>3, <1>4, <1>5, <1>6, FS_EmptySet DEF ReceiptInv

(* Every action keeps the receipt invariant. *)
LEMMA NextReceiptInv == ASSUME IndInv, ReceiptInv, Next PROVE ReceiptInv'
<1>1. ASSUME NEW i \in Items, PlaceItem(i) \/ QueueJob(i) \/ JobStep(i) \/ WorkerCrashes(i) PROVE ReceiptInv'
  <2>1. i \in Callers /\ i \notin Terminals /\ i \notin Receipts /\ Terminals \subseteq Callers
    BY CallersDiffer, RowsAssumption
  <2>2. tx \in [Callers -> Transactions] /\ pc \in [Callers -> Statements] /\ posted \in [Refs -> Nat]
    BY DEF IndInv, TypeOK, Statements
  <2>3. \A t \in Terminals : tx'[t] = tx[t] /\ pc'[t] = pc[t]
    BY <1>1, <2>1, <2>2 DEF PlaceItem, QueueJob, JobStep, StartJob, PlanLine, TakeBatch, WriteItem, CommitJob,
                            ReportDone, AttemptFails, WorkerCrashes, Goto, Leave
  <2>4. UNCHANGED <<receipt, po, raced>> /\ \A g \in Receipts : posted'[g] = posted[g]
    BY <1>1, <2>1, <2>2 DEF PlaceItem, QueueJob, JobStep, StartJob, PlanLine, TakeBatch, WriteItem, CommitJob,
                            ReportDone, AttemptFails, WorkerCrashes, tables, Refs
  <2> QED BY <2>3, <2>4, ReceiptQuiet
<1>2. ASSUME NEW t \in Terminals, TerminalStep(t) PROVE ReceiptInv'
  BY <1>2, ReadOrderFresh, WriteOrderFresh, ReadReceivableFresh, InsertReceiptFresh, ReadReceiptFresh,
     MarkCompletedFresh, FindItemFresh, PutItemFresh, SumReceiptsFresh, CommitReceiptFresh, AbortFresh DEF TerminalStep
<1>3. ASSUME NEW k \in Ingredients, CreateItem(k) \/ EditItem(k) PROVE ReceiptInv'
  <2>1. UNCHANGED <<receipt, po, raced, tx, pc, posted>>
    BY <1>3 DEF CreateItem, EditItem, SetQuantity
  <2> QED BY <2>1, ReceiptQuiet
<1>4. ASSUME NEW p \in PurchaseOrders, CreateOrder(p) PROVE ReceiptInv'
  BY <1>4, CreateOrderFresh
<1> QED BY <1>1, <1>2, <1>3, <1>4 DEF Next

(* A step of somebody else changes nothing that was read. *)
LEMMA StutterReceiptInv == ASSUME ReceiptInv, UNCHANGED vars PROVE ReceiptInv'
<1>1. UNCHANGED <<receipt, po, raced, tx, pc, posted>>
  BY DEF vars
<1> QED BY <1>1, ReceiptQuiet

\* What a call has read of a receipt or an order still holds, unless calls overlapped.
THEOREM ReadsStillHold == Spec => []ReceiptInv
<1>1. IndInv /\ ReceiptInv /\ [Next]_vars => ReceiptInv'
  BY NextReceiptInv, StutterReceiptInv
<1> QED BY <1>1, InitReceiptInv, Invariance, PTL DEF Spec

\* A receipt enters stock exactly when it is completed, and once unless calls about it overlapped.
THEOREM ReceiptsCountOnce == Spec => []ReceiptCountsOnce
BY ReadsStillHold, PTL DEF ReceiptInv

\* A purchase order is RECEIVED only when completed receipts meet each of its lines, and
\* is RECEIVED once they exceed them, unless calls about it overlapped.
THEOREM OrdersReceived == Spec => []ReceivedMeansCovered
BY ReadsStillHold, PTL DEF ReceiptInv

-----------------------------------------------------------------------------
(* Batches.  BatchInv is inductive beside IndInv: what a job has planned   *)
(* to take of an ingredient's batches is no more than the movement it will *)
(* write, and a receipt brings a batch for all that it enters.             *)

Left == [b \in DOMAIN batch |-> batch[b].left]
(* The property in terms of the sum that the lemmas are about. *)
LEMMA CoverMeans == BatchesCoverLedger <=> \A k \in Ingredients : ledger[k] <= SumFunctionOnSet(Left, OfKind(k))
BY DEF BatchesCoverLedger, Left, OfKind

(* Batches are numbered, and those of an ingredient are finitely many. *)
LEMMA KindsFinite ==
  ASSUME TypeOK
  PROVE  /\ DOMAIN batch = 1..Len(batch) /\ Len(batch) \in Nat /\ DOMAIN batch \subseteq 1..MaxBatches
         /\ \A b \in DOMAIN batch : Left[b] \in Nat /\ Left[b] \in Int /\ Left[b] = batch[b].left
         /\ \A k : OfKind(k) \subseteq DOMAIN batch /\ IsFiniteSet(OfKind(k))
<1>1. DOMAIN batch = 1..Len(batch) /\ Len(batch) \in Nat /\ Len(batch) <= MaxBatches
  BY DEF TypeOK
<1>2. DOMAIN batch \subseteq 1..MaxBatches
  BY <1>1, AmountsAssumption
<1>3. \A b \in DOMAIN batch : Left[b] \in Nat /\ Left[b] \in Int /\ Left[b] = batch[b].left
  <2> SUFFICES ASSUME NEW b \in DOMAIN batch PROVE Left[b] \in Nat /\ Left[b] = batch[b].left
    OBVIOUS
  <2>1. batch[b] \in Batches
    BY <1>1 DEF TypeOK
  <2> QED BY <2>1 DEF Batches, Left
<1>4. IsFiniteSet(DOMAIN batch)
  BY <1>1, FS_Interval
<1>5. \A k : OfKind(k) \subseteq DOMAIN batch /\ IsFiniteSet(OfKind(k))
  BY <1>4, FS_Subset DEF OfKind
<1> QED BY <1>1, <1>2, <1>3, <1>5

\* No plan takes nothing.
LEMMA NoPlanWithin ==
  ASSUME TypeOK, NEW i \in Items, NEW k \in Ingredients
  PROVE  SumFunctionOnSet(NoTx.plan, OfKind(k)) <= Recipe[i][k]
<1>1. \A b \in OfKind(k) : NoTx.plan[b] = 0
  BY KindsFinite DEF NoTx
<1>2. SumFunctionOnSet(NoTx.plan, OfKind(k)) = 0
  BY <1>1, KindsFinite, SumZero
<1>3. Recipe[i][k] \in Nat
  BY AmountsAssumption DEF Amounts
<1> QED BY <1>2, <1>3

\* A step that writes no batch and no movement, and keeps or drops each plan.
LEMMA BatchQuiet ==
  ASSUME TypeOK, BatchInv, UNCHANGED <<batch, ledger>>,
         \A i \in Items : tx'[i].plan \in {tx[i].plan, NoTx.plan}
  PROVE  BatchInv'
<1>1. BatchesCoverLedger'
  BY DEF BatchInv, BatchesCoverLedger
<1>2. ASSUME NEW i \in Items PROVE PlanWithin(i)'
  <2> SUFFICES ASSUME NEW k \in Ingredients PROVE SumFunctionOnSet(tx'[i].plan, OfKind(k)) <= Recipe[i][k]
    BY DEF PlanWithin, OfKind
  <2>1. SumFunctionOnSet(tx[i].plan, OfKind(k)) <= Recipe[i][k]
    BY DEF BatchInv, PlanWithin
  <2>2. SumFunctionOnSet(NoTx.plan, OfKind(k)) <= Recipe[i][k]
    BY NoPlanWithin
  <2>3. tx'[i].plan = tx[i].plan \/ tx'[i].plan = NoTx.plan
    OBVIOUS
  <2> QED BY <2>1, <2>2, <2>3, Zenon
<1> QED BY <1>1, <1>2 DEF BatchInv

\* A plan, oldest batch first, takes of its ingredient what is needed at most, and
\* takes of the others what was planned before.
LEMMA PlanLineWithin == ASSUME IndInv, BatchInv, NEW i \in Items, PlanLine(i) PROVE BatchInv'
<1>t. TypeOK /\ JobInOrder(i) /\ i \in Callers /\ tx \in [Callers -> Transactions] /\ Items \subseteq Callers
  BY CallersDiffer DEF IndInv, TypeOK
<1>p. PICK k \in tx[i].todo : \E plan \in [BatchesOf(k) -> 0..Recipe[i][k]] :
        /\ Goto(i, "lines", "take")
        /\ OldestFirst(k, Recipe[i][k], plan)
        /\ tx' = [tx EXCEPT ![i].at = k, ![i].todo = @ \ {k},
                            ![i].plan = [b \in 1..MaxBatches |->
                                           IF b \in BatchesOf(k) THEN plan[b] ELSE @[b]]]
        /\ UNCHANGED <<tables, job, raced>>
  BY DEF PlanLine
<1>q. PICK plan \in [BatchesOf(k) -> 0..Recipe[i][k]] :
        /\ OldestFirst(k, Recipe[i][k], plan)
        /\ tx' = [tx EXCEPT ![i].at = k, ![i].todo = @ \ {k},
                            ![i].plan = [b \in 1..MaxBatches |->
                                           IF b \in BatchesOf(k) THEN plan[b] ELSE @[b]]]
        /\ UNCHANGED <<tables, job, raced>>
  BY <1>p
<1> DEFINE f == [b \in 1..MaxBatches |-> IF b \in BatchesOf(k) THEN plan[b] ELSE tx[i].plan[b]]
<1>1. tx[i].plan \in [1..MaxBatches -> Nat] /\ k \in Ingredients
  BY <1>t DEF Transactions
<1>2. tx'[i].plan = f /\ \A j \in Items \ {i} : tx'[j] = tx[j]
  BY <1>q, <1>t DEF Transactions
<1>3. batch' = batch /\ ledger' = ledger
  BY <1>q DEF tables
<1>4. BatchesCoverLedger'
  BY <1>3 DEF BatchInv, BatchesCoverLedger
<1>5. /\ DOMAIN batch \subseteq 1..MaxBatches
      /\ \A j : OfKind(j) \subseteq DOMAIN batch /\ IsFiniteSet(OfKind(j))
  BY <1>t, KindsFinite
<1>6. /\ BatchesOf(k) \subseteq OfKind(k) /\ IsFiniteSet(BatchesOf(k))
      /\ \A j \in Ingredients \ {k} : OfKind(j) \cap BatchesOf(k) = {}
  <2>1. /\ BatchesOf(k) \subseteq OfKind(k)
        /\ \A j \in Ingredients \ {k} : OfKind(j) \cap BatchesOf(k) = {}
    BY DEF BatchesOf, OfKind
  <2> QED BY <2>1, <1>5, FS_Subset
<1>7. \A b \in BatchesOf(k) : plan[b] \in Int /\ f[b] = plan[b]
  <2> SUFFICES ASSUME NEW b \in BatchesOf(k) PROVE plan[b] \in Int /\ f[b] = plan[b]
    OBVIOUS
  <2>1. plan[b] \in 0..Recipe[i][k] /\ b \in 1..MaxBatches
    BY <1>5, <1>6
  <2> QED BY <2>1
<1>8. \A b \in OfKind(k) \ BatchesOf(k) : f[b] = 0
  <2> SUFFICES ASSUME NEW b \in OfKind(k) \ BatchesOf(k) PROVE f[b] = 0
    OBVIOUS
  <2>1. b \in 1..MaxBatches /\ batch[b].ingredient = k
    BY <1>5 DEF OfKind
  <2>2. ~(tx[i].plan[b] > 0)
    BY <1>t, <2>1 DEF JobInOrder, PlanFits
  <2>3. f[b] = tx[i].plan[b] /\ tx[i].plan[b] \in Nat
    BY <1>1, <2>1
  <2> HIDE DEF f
  <2> QED BY <2>2, <2>3
<1>9. SumFunctionOnSet(f, OfKind(k)) <= Recipe[i][k]
  <2>1. DOMAIN plan = BatchesOf(k)
    OBVIOUS
  <2>2. SumFunctionOnSet(plan, BatchesOf(k)) <= Recipe[i][k]
    BY <1>q, <2>1 DEF OldestFirst, SumFunction
  <2> HIDE DEF f
  <2>3. SumFunctionOnSet(f, OfKind(k)) = SumFunctionOnSet(f, BatchesOf(k))
    <3>1. \A b \in BatchesOf(k) : f[b] \in Int
      BY <1>7
    <3> QED BY <3>1, <1>5, <1>6, <1>8, SumOfPart
  <2>4. SumFunctionOnSet(plan, BatchesOf(k)) = SumFunctionOnSet(f, BatchesOf(k))
    BY <1>6, <1>7, SumSame
  <2> QED BY <2>2, <2>3, <2>4
<1>10. ASSUME NEW j \in Ingredients \ {k} PROVE SumFunctionOnSet(f, OfKind(j)) <= Recipe[i][j]
  <2>1. \A b \in OfKind(j) : tx[i].plan[b] \in Int /\ tx[i].plan[b] = f[b]
    <3> SUFFICES ASSUME NEW b \in OfKind(j) PROVE tx[i].plan[b] \in Int /\ tx[i].plan[b] = f[b]
      OBVIOUS
    <3>1. b \in 1..MaxBatches /\ b \notin BatchesOf(k)
      BY <1>5, <1>6
    <3>2. tx[i].plan[b] \in Nat /\ f[b] = tx[i].plan[b]
      BY <1>1, <3>1
    <3> HIDE DEF f
    <3> QED BY <3>2
  <2> HIDE DEF f
  <2>2. SumFunctionOnSet(tx[i].plan, OfKind(j)) = SumFunctionOnSet(f, OfKind(j))
    BY <2>1, <1>5, SumSame
  <2>3. SumFunctionOnSet(tx[i].plan, OfKind(j)) <= Recipe[i][j]
    BY DEF BatchInv, PlanWithin
  <2> QED BY <2>2, <2>3
<1>11. ASSUME NEW j \in Items PROVE PlanWithin(j)'
  <2>0. \A h \in Ingredients : OfKind(h)' = OfKind(h)
    BY <1>3 DEF OfKind
  <2>1. CASE j # i
    BY <1>2, <2>0, <2>1 DEF BatchInv, PlanWithin
  <2>2. CASE j = i
    <3> HIDE DEF f
    <3>1. \A h \in Ingredients : SumFunctionOnSet(f, OfKind(h)) <= Recipe[i][h]
      BY <1>9, <1>10
    <3> QED BY <1>2, <2>0, <2>2, <3>1 DEF PlanWithin
  <2> QED BY <2>1, <2>2
<1> QED BY <1>4, <1>11 DEF BatchInv

\* The commit of a job takes from the batches no more than its movements say.
LEMMA CommitJobCovers == ASSUME IndInv, BatchInv, NEW i \in Items, CommitJob(i) PROVE BatchInv'
<1>t. TypeOK /\ JobInOrder(i) /\ i \in Callers /\ tx \in [Callers -> Transactions] /\ Items \subseteq Callers
  BY CallersDiffer DEF IndInv, TypeOK
<1>1. tx[i].plan \in [1..MaxBatches -> Nat] /\ tx[i].took \subseteq 1..MaxBatches
  BY <1>t DEF Transactions
<1>2. /\ tx' = [tx EXCEPT ![i] = NoTx]
      /\ batch' = [b \in DOMAIN batch |-> IF b \in tx[i].took
                                           THEN [batch[b] EXCEPT !.left = @ - tx[i].plan[b]] ELSE batch[b]]
      /\ \A k \in Ingredients : ledger'[k] = ledger[k] - Recipe[i][k]
  BY DEF CommitJob
<1>3. /\ DOMAIN batch \subseteq 1..MaxBatches
      /\ \A b \in DOMAIN batch : Left[b] \in Int /\ Left[b] = batch[b].left
      /\ \A k : OfKind(k) \subseteq DOMAIN batch /\ IsFiniteSet(OfKind(k))
  BY <1>t, KindsFinite
<1>4. ASSUME NEW b \in DOMAIN batch
      PROVE  /\ batch'[b].ingredient = batch[b].ingredient /\ Left'[b] = batch'[b].left
             /\ tx[i].plan[b] \in Int /\ Left'[b] \in Int /\ Left[b] - tx[i].plan[b] <= Left'[b]
  <2>1. batch[b] \in Batches /\ tx[i].plan[b] \in Nat /\ b \in DOMAIN batch'
    <3>1. b \in 1..MaxBatches /\ b \in DOMAIN batch'
      BY <1>2, <1>3
    <3>2. batch[b] \in Batches
      BY <1>t DEF TypeOK
    <3> QED BY <1>1, <3>1, <3>2
  <2>2. CASE b \in tx[i].took
    <3>1. batch'[b] = [batch[b] EXCEPT !.left = @ - tx[i].plan[b]]
      BY <1>2, <2>2
    <3>2. batch'[b].ingredient = batch[b].ingredient /\ batch'[b].left = batch[b].left - tx[i].plan[b]
      BY <2>1, <3>1 DEF Batches
    <3> QED BY <1>3, <2>1, <3>2 DEF Left
  <2>3. CASE b \notin tx[i].took
    <3>1. batch'[b] = batch[b]
      BY <1>2, <2>3
    <3> QED BY <1>3, <2>1, <3>1 DEF Left
  <2> QED BY <2>2, <2>3
<1>5. \A k \in Ingredients : OfKind(k)' = OfKind(k)
  <2>1. DOMAIN batch' = DOMAIN batch
    BY <1>2
  <2> QED BY <1>4, <2>1 DEF OfKind
<1>6. BatchesCoverLedger'
  <2> SUFFICES ASSUME NEW k \in Ingredients PROVE ledger'[k] <= SumFunctionOnSet(Left', OfKind(k))
    <3>1. BatchesCoverLedger' <=> \A k \in Ingredients : ledger'[k] <= SumFunctionOnSet(Left', OfKind(k)')
      BY DEF BatchesCoverLedger, Left, OfKind
    <3> QED BY <1>5, <3>1
  <2> DEFINE d == [b \in OfKind(k) |-> Left[b] - tx[i].plan[b]]
             f == tx[i].plan
             all == SumFunctionOnSet(Left, OfKind(k))
             less == SumFunctionOnSet(d, OfKind(k))
             taken == SumFunctionOnSet(f, OfKind(k))
  <2>1. \A b \in OfKind(k) : d[b] \in Int /\ f[b] \in Int /\ Left[b] = d[b] + f[b] /\ d[b] <= Left'[b] /\ Left'[b] \in Int
    BY <1>3, <1>4
  <2>2. ledger[k] <= all /\ taken <= Recipe[i][k]
    BY CoverMeans DEF BatchInv, PlanWithin
  <2>3. ledger[k] \in Int /\ Recipe[i][k] \in Nat
    BY <1>t, AmountsAssumption DEF TypeOK, Amounts
  <2> HIDE DEF d, f
  <2>4. all = less + taken
    BY <2>1, <1>3, SumPlus
  <2>5. less <= SumFunctionOnSet(Left', OfKind(k))
    BY <2>1, <1>3, SumMonotone
  <2>6. less \in Int /\ taken \in Int /\ SumFunctionOnSet(Left', OfKind(k)) \in Int
    BY <2>1, <1>3, SumType
  <2> DEFINE new == SumFunctionOnSet(Left', OfKind(k))
  <2>7. less <= new /\ new \in Int
    BY <2>5, <2>6
  <2> HIDE DEF all, less, taken, new
  <2>8. ledger[k] - Recipe[i][k] <= new
    BY <2>2, <2>3, <2>4, <2>6, <2>7
  <2> QED BY <1>2, <2>8 DEF new
<1>7. ASSUME NEW j \in Items PROVE PlanWithin(j)'
  <2>1. CASE j # i
    <3>1. tx'[j] = tx[j]
      BY <1>2, <1>t, <2>1
    <3> QED BY <1>5, <3>1 DEF BatchInv, PlanWithin
  <2>2. CASE j = i
    <3>1. tx'[i].plan = NoTx.plan
      BY <1>2, <1>t
    <3> QED BY <1>5, <1>t, <2>2, <3>1, NoPlanWithin DEF PlanWithin
  <2> QED BY <2>1, <2>2
<1> QED BY <1>6, <1>7 DEF BatchInv

\* What a sequence holds when another is appended to it.
LEMMA Appended ==
  ASSUME NEW S, NEW s \in Seq(S), NEW T, NEW u \in Seq(T)
  PROVE  /\ DOMAIN (s \o u) = 1..(Len(s) + Len(u))
         /\ \A b \in 1..Len(s) : (s \o u)[b] = s[b]
         /\ \A m \in 1..Len(u) : (s \o u)[Len(s) + m] = u[m]
OBVIOUS

\* The commit of a receipt adds a batch for each ingredient that it brings.
LEMMA CommitReceiptCovers == ASSUME IndInv, BatchInv, NEW t \in Terminals, CommitReceipt(t) PROVE BatchInv'
<1>g. PICK g \in Receipts : g = tx[t].ref
  BY CallTyped DEF CommitReceipt, CallInOrder
<1> DEFINE brought == Lines(Accepted[g])
           n == Cardinality(brought)
<1>t. TypeOK /\ TypeOK' /\ tx \in [Callers -> Transactions] /\ Items \subseteq Callers /\ t \in Callers /\ t \notin Items
  BY CommitReceiptInv, CallersDiffer DEF IndInv, TypeOK
<1>1. /\ tx' = [tx EXCEPT ![t] = NoTx]
      /\ \A k \in Ingredients : ledger'[k] = ledger[k] + Accepted[g][k] /\ Accepted[g][k] \in Nat
  BY <1>g, AmountsAssumption DEF CommitReceipt, Leave, Amounts
<1>2. PICK order \in [1..n -> brought] :
        /\ IsInjective(order)
        /\ batch' = batch \o [b \in 1..n |-> [ingredient |-> order[b], left |-> Accepted[g][order[b]]]]
  BY <1>g DEF CommitReceipt
<1>3. IsFiniteSet(brought) /\ n \in Nat
  <2>1. IsFiniteSet(brought)
    BY FS_Subset, AmountsAssumption DEF Lines
  <2> QED BY <2>1, FS_CardinalityType
<1>4. ASSUME NEW k \in brought PROVE \E m \in 1..n : order[m] = k
  <2>1. order \in Injection(1..n, brought)
    BY <1>2 DEF Injection, IsInjective
  <2>2. Cardinality(1..n) = n
    BY <1>3, FS_Interval
  <2> HIDE DEF n
  <2>3. order \in Surjection(1..n, brought)
    <3>1. Cardinality(1..n) = Cardinality(brought)
      BY <2>2 DEF n
    <3> HIDE DEF brought
    <3> QED BY <2>1, <3>1, <1>3, FS_Injection
  <2> QED BY <2>3 DEF Surjection
<1> HIDE DEF n, brought
<1>5. /\ DOMAIN batch = 1..Len(batch) /\ Len(batch) \in Nat /\ DOMAIN batch' = 1..(Len(batch) + n)
      /\ \A b \in DOMAIN batch : b \in DOMAIN batch' /\ batch'[b] = batch[b]
      /\ \A m \in 1..n : /\ Len(batch) + m \in DOMAIN batch' /\ Len(batch) + m \notin DOMAIN batch
                         /\ batch'[Len(batch) + m] = [ingredient |-> order[m], left |-> Accepted[g][order[m]]]
  <2> DEFINE new == [b \in 1..n |-> [ingredient |-> order[b], left |-> Accepted[g][order[b]]]]
  <2>1. /\ new \in Seq({new[b] : b \in 1..n}) /\ Len(new) = n
        /\ \A m \in 1..n : new[m] = [ingredient |-> order[m], left |-> Accepted[g][order[m]]]
    BY <1>3
  <2> HIDE DEF new
  <2>2. batch' = batch \o new
    BY <1>2 DEF new
  <2>3. DOMAIN batch = 1..Len(batch) /\ Len(batch) \in Nat
    BY <1>t, KindsFinite
  <2>4. batch \in Seq(Batches)
    BY <1>t DEF TypeOK
  <2> DEFINE T == {new[b] : b \in 1..n}
  <2>5. /\ DOMAIN batch' = 1..(Len(batch) + n)
        /\ \A b \in 1..Len(batch) : batch'[b] = batch[b]
        /\ \A m \in 1..n : batch'[Len(batch) + m] = new[m]
    <3>1. new \in Seq(T) /\ Len(new) = n
      BY <2>1
    <3> HIDE DEF T
    <3> QED BY <2>2, <2>4, <3>1, Appended
  <2>6. ASSUME NEW b \in DOMAIN batch PROVE b \in DOMAIN batch' /\ batch'[b] = batch[b]
    BY <2>3, <2>5, <1>3
  <2>7. ASSUME NEW m \in 1..n
        PROVE  /\ Len(batch) + m \in DOMAIN batch' /\ Len(batch) + m \notin DOMAIN batch
               /\ batch'[Len(batch) + m] = new[m]
    BY <2>3, <2>5, <1>3
  <2> QED BY <2>1, <2>3, <2>5, <2>6, <2>7
<1>6. /\ \A b \in DOMAIN batch : Left[b] \in Int /\ Left[b] = batch[b].left
      /\ \A k : OfKind(k) \subseteq DOMAIN batch /\ IsFiniteSet(OfKind(k))
      /\ DOMAIN batch \subseteq 1..MaxBatches
  BY <1>t, KindsFinite
<1>7. /\ \A b \in DOMAIN batch' : Left'[b] \in Nat /\ Left'[b] = batch'[b].left
      /\ \A k : OfKind(k)' \subseteq DOMAIN batch' /\ IsFiniteSet(OfKind(k)')
      /\ DOMAIN batch' \subseteq 1..MaxBatches
  <2>1. DOMAIN batch' = 1..Len(batch') /\ Len(batch') \in Nat /\ Len(batch') <= MaxBatches /\ MaxBatches \in Nat
    BY <1>t, AmountsAssumption DEF TypeOK
  <2>2. \A b \in DOMAIN batch' : Left'[b] \in Nat /\ Left'[b] = batch'[b].left
    <3> SUFFICES ASSUME NEW b \in DOMAIN batch' PROVE Left'[b] \in Nat /\ Left'[b] = batch'[b].left
      OBVIOUS
    <3>1. batch'[b] \in Batches
      <4>1. batch' \in Seq(Batches)
        <5>1. Batches' = Batches
          BY DEF Batches
        <5> QED BY <1>t, <5>1 DEF TypeOK
      <4> QED BY <4>1, <2>1
    <3> QED BY <3>1 DEF Batches, Left
  <2>3. IsFiniteSet(DOMAIN batch')
    BY <2>1, FS_Interval
  <2>4. \A k : OfKind(k)' \subseteq DOMAIN batch'
    BY DEF OfKind
  <2>5. \A k : IsFiniteSet(OfKind(k)')
    BY <2>3, <2>4, FS_Subset
  <2>6. DOMAIN batch' \subseteq 1..MaxBatches
    BY <2>1
  <2> QED BY <2>2, <2>4, <2>5, <2>6
<1>8. \A k : OfKind(k) \subseteq OfKind(k)' /\ (OfKind(k)' \ OfKind(k)) \cap DOMAIN batch = {}
  BY <1>5 DEF OfKind
<1>9. BatchesCoverLedger'
  <2> SUFFICES ASSUME NEW k \in Ingredients PROVE ledger'[k] <= SumFunctionOnSet(Left', OfKind(k)')
    <3>1. BatchesCoverLedger' <=> \A k \in Ingredients : ledger'[k] <= SumFunctionOnSet(Left', OfKind(k)')
      BY DEF BatchesCoverLedger, Left, OfKind
    <3> QED BY <3>1
  <2> DEFINE old == SumFunctionOnSet(Left, OfKind(k))
             sum == SumFunctionOnSet(Left', OfKind(k)')
             part(S) == SumFunctionOnSet(Left', S)
  <2>1. ledger[k] <= old /\ ledger[k] \in Int
    BY CoverMeans, <1>t DEF BatchInv, TypeOK
  <2>2. \A b \in OfKind(k) : Left[b] \in Int /\ Left[b] = Left'[b]
    BY <1>5, <1>6, <1>7
  <2>3. old = part(OfKind(k)) /\ old \in Int
    BY <2>2, <1>6, SumSame, SumType
  <2>4. \A b \in OfKind(k)' : Left'[b] \in Nat /\ Left'[b] \in Int
    BY <1>7
  <2>5. CASE k \notin brought
    <3>1. ~(Accepted[g][k] > 0)
      BY <2>5 DEF brought, Lines
    <3>2. part(OfKind(k)) <= sum
      BY <2>4, <1>7, <1>8, SumWithin
    <3>3. sum \in Int
      BY <2>4, <1>7, SumType
    <3>4. ledger'[k] = ledger[k]
      BY <1>1, <2>1, <3>1
    <3>5. old <= sum
      BY <2>3, <3>2
    <3> HIDE DEF old, sum
    <3>6. ledger[k] <= sum
      BY <2>1, <2>3, <3>3, <3>5
    <3> QED BY <3>4, <3>6 DEF sum
  <2>6. CASE k \in brought
    <3>1. PICK m \in 1..n : order[m] = k
      BY <1>4, <2>6
    <3> DEFINE b == Len(batch) + m
    <3>2. b \in OfKind(k)' /\ b \notin OfKind(k) /\ Left'[b] = Accepted[g][k]
      <4>1. /\ b \in DOMAIN batch' /\ b \notin DOMAIN batch
            /\ batch'[b] = [ingredient |-> k, left |-> Accepted[g][k]]
        BY <1>5, <3>1
      <4> HIDE DEF b
      <4>2. Left'[b] = Accepted[g][k]
        BY <1>7, <4>1
      <4> QED BY <4>1, <4>2, <1>6 DEF OfKind
    <3> HIDE DEF b
    <3>3. part(OfKind(k) \cup {b}) = part(OfKind(k)) + Left'[b]
      <4>1. Left'[b] \in Int /\ \A c \in OfKind(k) : Left'[c] \in Int
        BY <2>4, <3>2, <1>8
      <4> QED BY <3>2, <4>1, <1>6, SumAdd
    <3>4. part(OfKind(k) \cup {b}) <= sum
      <4>1. OfKind(k) \cup {b} \in SUBSET (OfKind(k)')
        BY <3>2, <1>8
      <4> QED BY <4>1, <2>4, <1>7, SumWithin
    <3>5. sum \in Int
      BY <2>4, <1>7, SumType
    <3>6. ledger'[k] = ledger[k] + Accepted[g][k] /\ Accepted[g][k] \in Nat
      BY <1>1
    <3>7. old + Accepted[g][k] <= sum
      BY <2>3, <3>2, <3>3, <3>4
    <3> HIDE DEF old, sum
    <3>8. ledger[k] + Accepted[g][k] <= sum
      BY <2>1, <2>3, <3>5, <3>6, <3>7
    <3> QED BY <3>6, <3>8 DEF sum
  <2> QED BY <2>5, <2>6
<1>10. ASSUME NEW i \in Items PROVE PlanWithin(i)'
  <2>1. tx'[i] = tx[i] /\ tx[i].plan \in [1..MaxBatches -> Nat] /\ JobInOrder(i)
    BY <1>1, <1>t DEF Transactions, IndInv
  <2> SUFFICES ASSUME NEW k \in Ingredients PROVE SumFunctionOnSet(tx[i].plan, OfKind(k)') <= Recipe[i][k]
    BY <2>1 DEF PlanWithin
  <2> DEFINE f == tx[i].plan
  <2>2. \A b \in OfKind(k) : f[b] \in Int
    <3> SUFFICES ASSUME NEW b \in OfKind(k) PROVE f[b] \in Int
      OBVIOUS
    <3>1. b \in 1..MaxBatches
      BY <1>6
    <3>2. tx[i].plan[b] \in Nat
      BY <2>1, <3>1
    <3> QED BY <3>2
  <2>3. \A b \in OfKind(k)' \ OfKind(k) : f[b] = 0
    <3> SUFFICES ASSUME NEW b \in OfKind(k)' \ OfKind(k) PROVE f[b] = 0
      OBVIOUS
    <3>1. b \in 1..MaxBatches /\ b \notin DOMAIN batch
      BY <1>7, <1>8
    <3>2. ~(f[b] > 0)
      BY <2>1, <3>1 DEF JobInOrder, PlanFits
    <3>3. f[b] \in Nat
      BY <2>1, <3>1
    <3> HIDE DEF f
    <3> QED BY <3>2, <3>3
  <2>4. SumFunctionOnSet(f, OfKind(k)) <= Recipe[i][k]
    BY DEF BatchInv, PlanWithin
  <2> HIDE DEF f
  <2>5. SumFunctionOnSet(f, OfKind(k)') = SumFunctionOnSet(f, OfKind(k))
    BY <2>2, <2>3, <1>7, <1>8, SumOfPart
  <2>6. SumFunctionOnSet(f, OfKind(k)') <= Recipe[i][k]
    BY <2>4, <2>5
  <2> QED BY <2>6 DEF f
<1> QED BY <1>9, <1>10 DEF BatchInv

(* Nothing is posted and no batch exists at first. *)
LEMMA InitBatchInv == Init => BatchInv
<1> SUFFICES ASSUME Init PROVE BatchInv
  OBVIOUS
<1>1. TypeOK
  BY InitIndInv DEF IndInv
<1>2. \A k : OfKind(k) = {}
  BY DEF Init, OfKind
<1>3. BatchesCoverLedger
  <2>1. \A k \in Ingredients : ledger[k] = 0 /\ SumFunctionOnSet(Left, OfKind(k)) = 0
    BY <1>2, SumEmpty DEF Init
  <2> QED BY <2>1, CoverMeans
<1>4. \A i \in Items : tx[i] = NoTx
  BY CallersDiffer DEF Init
<1> QED BY <1>1, <1>3, <1>4, NoPlanWithin DEF BatchInv, PlanWithin

(* Every action keeps the ledger covered: a job takes off the batches at most what it   *)
(* posts, a receipt posts what its batches hold.                                        *)
LEMMA NextBatchInv == ASSUME IndInv, BatchInv, Next PROVE BatchInv'
<1>t. TypeOK /\ Items \subseteq Callers /\ Terminals \subseteq Callers /\ Items \cap Terminals = {}
      /\ tx \in [Callers -> Transactions]
  BY CallersDiffer DEF IndInv, TypeOK
<1>1. ASSUME NEW i \in Items, PlaceItem(i) \/ QueueJob(i) \/ JobStep(i) \/ WorkerCrashes(i) PROVE BatchInv'
  <2>1. CASE PlanLine(i) \/ CommitJob(i)
    BY <2>1, PlanLineWithin, CommitJobCovers
  <2>2. CASE ~(PlanLine(i) \/ CommitJob(i))
    <3>1. UNCHANGED <<batch, ledger>>
      BY <1>1, <2>2 DEF PlaceItem, QueueJob, JobStep, StartJob, TakeBatch, WriteItem, ReportDone, AttemptFails,
                        WorkerCrashes, tables
    <3>2. \A j \in Items \ {i} : tx'[j] = tx[j]
      BY <1>1, <1>t, <2>2 DEF PlaceItem, QueueJob, JobStep, StartJob, TakeBatch, WriteItem, ReportDone, AttemptFails,
                             WorkerCrashes, Leave
    <3>3. tx'[i].plan \in {tx[i].plan, NoTx.plan}
      <4>0. i \in Callers /\ tx[i] \in Transactions
        BY <1>t
      <4>1. CASE StartJob(i)
        <5>1. tx'[i].plan = NoTx.plan
          BY <4>0, <4>1, <1>t DEF StartJob, NoTx
        <5> QED BY <5>1
      <4>2. CASE TakeBatch(i)
        BY <4>0, <4>2, <1>t DEF TakeBatch, Transactions
      <4>3. CASE WriteItem(i)
        BY <4>0, <4>3, <1>t DEF WriteItem, Transactions
      <4>4. CASE ReportDone(i) \/ AttemptFails(i) \/ WorkerCrashes(i)
        BY <4>0, <4>4, <1>t DEF ReportDone, AttemptFails, WorkerCrashes, Leave
      <4>5. CASE PlaceItem(i) \/ QueueJob(i)
        BY <4>5 DEF PlaceItem, QueueJob
      <4> QED BY <1>1, <2>2, <4>1, <4>2, <4>3, <4>4, <4>5 DEF JobStep
    <3> QED BY <1>t, <3>1, <3>2, <3>3, BatchQuiet
  <2> QED BY <2>1, <2>2
<1>2. ASSUME NEW t \in Terminals, TerminalStep(t) PROVE BatchInv'
  <2>1. CASE CommitReceipt(t)
    BY <2>1, CommitReceiptCovers
  <2>2. CASE ~CommitReceipt(t)
    <3>1. UNCHANGED <<batch, ledger>> /\ \A i \in Items : tx'[i] = tx[i]
      BY <1>2, <1>t, <2>2 DEF TerminalStep, ReadOrder, WriteOrder, ReadReceivable, InsertReceipt,
                        ReadReceipt, MarkCompleted, FindItem, PutItem, SumReceipts, Abort, tables, Leave
    <3> QED BY <1>t, <3>1, BatchQuiet
  <2> QED BY <2>1, <2>2
<1>3. ASSUME NEW k \in Ingredients, CreateItem(k) \/ EditItem(k) PROVE BatchInv'
  <2>1. UNCHANGED <<batch, ledger, tx>>
    BY <1>3 DEF CreateItem, EditItem, SetQuantity
  <2> QED BY <1>t, <2>1, BatchQuiet
<1>4. ASSUME NEW p \in PurchaseOrders, CreateOrder(p) PROVE BatchInv'
  <2>1. UNCHANGED <<batch, ledger, tx>>
    BY <1>4 DEF CreateOrder
  <2> QED BY <1>t, <2>1, BatchQuiet
<1> QED BY <1>1, <1>2, <1>3, <1>4 DEF Next

(* A step of somebody else changes no batch. *)
LEMMA StutterBatchInv == ASSUME IndInv, BatchInv, UNCHANGED vars PROVE BatchInv'
<1>1. UNCHANGED <<batch, ledger, tx>>
  BY DEF vars
<1> QED BY <1>1, BatchQuiet DEF IndInv

\* No job plans to take more of an ingredient than the recipe's movement, and the
\* batches of an ingredient hold at least what its movements add up to.
THEOREM BatchesCover == Spec => []BatchesCoverLedger
<1>1. IndInv /\ BatchInv /\ [Next]_vars => BatchInv'
  BY NextBatchInv, StutterBatchInv
<1>2. BatchInv => BatchesCoverLedger
  BY DEF BatchInv
<1> QED BY <1>1, <1>2, InitBatchInv, Invariance, PTL DEF Spec

-----------------------------------------------------------------------------
(* Refinement of the book: both commits are postings, hands are hands, and *)
(* every other step leaves quantities and postings alone.                  *)

(* A step that changes neither items nor postings is a stutter of the book. *)
LEMMA ElsewhereNothingIsPosted ==
  ASSUME UNCHANGED <<item, posted>> PROVE UNCHANGED <<[k \in Ingredients |-> item[k].qty], posted>>
OBVIOUS

(* The commit of a job is one whole posting of its item. *)
LEMMA DepletionIsPosting ==
  ASSUME IndInv, IndInv', NEW i \in Items, CommitJob(i) PROVE Book!Post(i)
<1> USE AmountsAssumption, CallersDiffer
<1>0. JobInOrder(i) /\ pc[i] = "lines" /\ tx[i].todo = {}
  BY DEF IndInv, CommitJob
<1>1. posted[i] = 0 /\ posted' = [posted EXCEPT ![i] = @ + 1] /\ tx[i].wrote = Lines(Recipe[i])
  BY <1>0 DEF JobInOrder, CommitJob
<1>2. ASSUME NEW k \in Ingredients PROVE item'[k].qty = item[k].qty + -Recipe[i][k] /\ item'[k].qty >= 0
  <2>1. item[k].qty \in Nat /\ item'[k].qty \in Nat /\ Recipe[i][k] \in Nat
    BY DEF IndInv, TypeOK, Amounts
  <2>2. item[k] \in [live : BOOLEAN, qty : Nat]
    BY DEF IndInv, TypeOK
  <2>3. CASE k \in tx[i].wrote
    <3>1. item'[k] = [item[k] EXCEPT !.qty = @ - Recipe[i][k]]
      BY <2>3 DEF CommitJob
    <3> QED BY <2>1, <2>2, <3>1
  <2>4. CASE k \notin tx[i].wrote
    <3>1. item'[k] = item[k] /\ ~(Recipe[i][k] > 0)
      BY <1>1, <2>4 DEF CommitJob, Lines
    <3> QED BY <2>1, <3>1
  <2> QED BY <2>3, <2>4
<1> QED BY <1>1, <1>2 DEF Book!Post, Book!Movement

(* The commit of a receipt is one whole posting. *)
LEMMA ReceiptIsPosting ==
  ASSUME IndInv, IndInv', NEW t \in Terminals, CommitReceipt(t), NEW g \in Receipts, tx[t].ref = g
  PROVE  Book!Post(g)
<1> USE AmountsAssumption, CallersDiffer, RowsAssumption
<1>1. g \in Receipts /\ g \notin Items /\ tx[t].wrote = Lines(Accepted[g]) /\ posted' = [posted EXCEPT ![g] = @ + 1]
  BY DEF IndInv, CallInOrder, CommitReceipt
<1>2. ASSUME NEW k \in Ingredients PROVE item'[k].qty = item[k].qty + Accepted[g][k] /\ item'[k].qty >= 0
  <2>1. item[k].qty \in Nat /\ item'[k].qty \in Nat /\ Accepted[g][k] \in Nat
    BY <1>1 DEF IndInv, TypeOK, Amounts
  <2>3. CASE k \in tx[t].wrote
    BY <2>1, <2>3 DEF CommitReceipt
  <2>4. CASE k \notin tx[t].wrote
    <3>1. item'[k] = item[k] /\ ~(Accepted[g][k] > 0)
      BY <1>1, <2>4 DEF CommitReceipt, Lines
    <3> QED BY <2>1, <3>1
  <2> QED BY <2>3, <2>4
<1> QED BY <1>1, <1>2 DEF Book!Post, Book!Movement

(* An edit of a quantity is the hand of a manager. *)
LEMMA HandIsHand ==
  ASSUME IndInv, NEW k \in Ingredients, NEW q \in ByHand, SetQuantity(k, q) PROVE Book!SetByHand(k)
<1>1. \A j \in Ingredients : item'[j].qty = IF j = k THEN q ELSE item[j].qty
  BY DEF IndInv, TypeOK, SetQuantity
<1>2. [j \in Ingredients |-> item'[j].qty] = [[j \in Ingredients |-> item[j].qty] EXCEPT ![k] = q]
  BY <1>1
<1> QED BY <1>2 DEF Book!SetByHand, SetQuantity

\* Stock keeping implements the book, whatever overlaps, fails or crashes.
THEOREM BookImplemented == Spec => ImplementsBook
<1> DEFINE quantity == [k \in Ingredients |-> item[k].qty]
<1>1. Init => Book!BookInit
  BY DEF Init, Book!BookInit, Refs
<1>2. ASSUME IndInv, IndInv', [Next]_vars PROVE [Book!BookNext]_<<quantity, posted>>
  <2>1. ASSUME NEW i \in Items, PlaceItem(i) \/ QueueJob(i) \/ JobStep(i) \/ WorkerCrashes(i)
        PROVE  [Book!BookNext]_<<quantity, posted>>
    <3>1. CASE CommitJob(i)
      BY <1>2, <3>1, DepletionIsPosting DEF Book!BookNext
    <3>2. CASE ~CommitJob(i)
      <4>1. UNCHANGED <<item, posted>>
        BY <2>1, <3>2 DEF PlaceItem, QueueJob, JobStep, StartJob, PlanLine, TakeBatch, WriteItem,
                          ReportDone, AttemptFails, WorkerCrashes, tables
      <4> QED BY <4>1, ElsewhereNothingIsPosted
    <3> QED BY <3>1, <3>2
  <2>2. ASSUME NEW t \in Terminals, TerminalStep(t) PROVE [Book!BookNext]_<<quantity, posted>>
    <3>1. CASE CommitReceipt(t)
      <4>1. PICK g \in Receipts : tx[t].ref = g
        <5>1. CallInOrder(t) /\ pc[t] = "finish"
          BY <1>2, <3>1 DEF IndInv, CommitReceipt
        <5> QED BY <5>1 DEF CallInOrder
      <4> QED BY <1>2, <3>1, <4>1, ReceiptIsPosting DEF Book!BookNext
    <3>2. CASE ~CommitReceipt(t)
      <4>1. UNCHANGED <<item, posted>>
        BY <2>2, <3>2 DEF TerminalStep, ReadOrder, WriteOrder, ReadReceivable, InsertReceipt,
                          ReadReceipt, MarkCompleted, FindItem, PutItem, SumReceipts, Abort, tables
      <4> QED BY <4>1, ElsewhereNothingIsPosted
    <3> QED BY <3>1, <3>2
  <2>3. ASSUME NEW k \in Ingredients, CreateItem(k) \/ EditItem(k) PROVE [Book!BookNext]_<<quantity, posted>>
    BY <1>2, <2>3, HandIsHand DEF CreateItem, EditItem, Book!BookNext
  <2>4. ASSUME NEW p \in PurchaseOrders, CreateOrder(p) PROVE [Book!BookNext]_<<quantity, posted>>
    BY <2>4, ElsewhereNothingIsPosted DEF CreateOrder
  <2>5. CASE UNCHANGED vars
    BY <2>5, ElsewhereNothingIsPosted DEF vars
  <2> QED BY <1>2, <2>1, <2>2, <2>3, <2>4, <2>5 DEF Next
<1> QED BY <1>1, <1>2, Invariance, PTL DEF Spec, ImplementsBook, Book!BookSpec
=============================================================================
