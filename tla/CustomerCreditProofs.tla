------------------------ MODULE CustomerCreditProofs ------------------------
(***************************************************************************)
(* Theorems about CustomerCredit, for every set of cards, coupons, orders, *)
(* customers and terminals.                                                *)
(*                                                                         *)
(* IndInv is inductive.  Its core is what a call has read: without a lock  *)
(* the balance read is some earlier balance, which with the redemptions    *)
(* made since still covers the card's value (CallIsAbout), and it is the   *)
(* present one as long as no other redemption of the card overlapped       *)
(* (ReadHolds).                                                            *)
(***************************************************************************)
EXTENDS CustomerCredit, SequenceTheorems, TLAPS

\* A terminal's step that writes no row.
OnlyOf(t) ==
  /\ UNCHANGED rows
  /\ tx' = [tx EXCEPT ![t] = tx'[t]]
  /\ pc' = [pc EXCEPT ![t] = pc'[t]]
  /\ raced \subseteq raced'

(* No transaction is a transaction record. *)
LEMMA NoTxTyped == NoTx \in Transactions
BY DEF NoTx, Transactions, Kinds

(* No row and no call at first. *)
LEMMA InitIndInv == Init => IndInv
<1> SUFFICES ASSUME Init PROVE IndInv
  OBVIOUS
<1> USE CreditAssumption
<1>1. TypeOK
  BY NoTxTyped DEF TypeOK, Init, CardRows, OrderRows, Statements
<1>2. ASSUME NEW t \in Terminals PROVE CallIsAbout(t) /\ ReadHolds(t)
  BY <1>2 DEF CallIsAbout, ReadHolds, Init, NoTx, CardCall, CouponCall, UseCall, PointsCall
<1>3. ASSUME NEW t \in Terminals, NEW u \in Terminals PROVE Noted(t, u)
  BY <1>3 DEF Noted, Init, NoTx
<1>4. UntouchedCards /\ HolderNeverLoses /\ CardExactWhenAlone
  BY DEF Init, UntouchedCards, HolderNeverLoses, CardExactWhenAlone
<1>5. NoUseLost /\ RewardedOnceWhenAlone
  BY DEF Init, NoUseLost, RewardedOnceWhenAlone
<1> QED BY <1>1, <1>2, <1>3, <1>4, <1>5 DEF IndInv

\* What holds of the rows still holds when no row changes and more overlaps are noted.
LEMMA RowsKept ==
  ASSUME IndInv, UNCHANGED rows, raced \subseteq raced'
  PROVE  /\ UntouchedCards' /\ HolderNeverLoses' /\ CardExactWhenAlone'
         /\ NoUseLost' /\ RewardedOnceWhenAlone'
<1> USE DEF rows
<1>1. UntouchedCards' /\ HolderNeverLoses' /\ CardExactWhenAlone'
  BY DEF IndInv, UntouchedCards, HolderNeverLoses, CardExactWhenAlone
<1>2. NoUseLost' /\ RewardedOnceWhenAlone'
  BY DEF IndInv, NoUseLost, RewardedOnceWhenAlone
<1> QED BY <1>1, <1>2

(* A step of one terminal leaves what the others know as it is. *)
LEMMA OthersKept ==
  ASSUME IndInv, NEW t \in Terminals, OnlyOf(t), NEW u \in Terminals \ {t}
  PROVE  /\ tx'[u] = tx[u] /\ pc'[u] = pc[u]
         /\ CallIsAbout(u)' /\ ReadHolds(u)'
<1>1. tx'[u] = tx[u] /\ pc'[u] = pc[u]
  BY DEF IndInv, TypeOK, OnlyOf
<1>2. CallIsAbout(u) /\ ReadHolds(u)
  BY DEF IndInv
<1>3. CallIsAbout(u)'
  BY <1>1, <1>2 DEF OnlyOf, rows, CallIsAbout, CardCall, CouponCall, UseCall, PointsCall
<1>4. ReadHolds(u)'
  BY <1>1, <1>2 DEF OnlyOf, rows, ReadHolds, CardCall, Subject
<1> QED BY <1>1, <1>3, <1>4

(* What a step of one terminal must show: its own part of the invariant, and that       *)
(* overlaps are noted.                                                                  *)
LEMMA TerminalFrame ==
  ASSUME IndInv, NEW t \in Terminals, OnlyOf(t),
         tx'[t] \in Transactions, pc'[t] \in Statements,
         calls' \in 0..MaxCalls, raced' \subseteq Kinds \X (Cards \cup Orders),
         CallIsAbout(t)', ReadHolds(t)',
         \A u \in Terminals \ {t} : Noted(t, u)'
  PROVE  IndInv'
<1>1. TypeOK'
  <2>1. tx' \in [Terminals -> Transactions] /\ pc' \in [Terminals -> Statements]
    BY DEF OnlyOf, IndInv, TypeOK
  <2>2. UNCHANGED rows
    BY DEF OnlyOf
  <2> QED BY <2>1, <2>2 DEF IndInv, TypeOK, rows
<1>2. ASSUME NEW u \in Terminals PROVE CallIsAbout(u)' /\ ReadHolds(u)'
  BY OthersKept
<1>3. ASSUME NEW u \in Terminals, NEW v \in Terminals, u # v PROVE Noted(u, v)'
  <2>1. CASE u = t
    BY <1>3, <2>1
  <2>2. CASE v = t
    BY <1>3, <2>2 DEF Noted
  <2>3. CASE u # t /\ v # t
    <3>1. tx'[u] = tx[u] /\ tx'[v] = tx[v]
      BY <2>3, OthersKept
    <3> QED BY <1>3, <3>1 DEF IndInv, Noted, OnlyOf, Subject
  <2> QED BY <2>1, <2>2, <2>3
<1>4. /\ UntouchedCards' /\ HolderNeverLoses' /\ CardExactWhenAlone'
      /\ NoUseLost' /\ RewardedOnceWhenAlone'
  BY RowsKept DEF OnlyOf
<1> QED BY <1>1, <1>2, <1>3, <1>4 DEF IndInv

-----------------------------------------------------------------------------
(* The first statement of a call, a further one, and the end of a call. *)

(* A call begins: typed, counted, and noted as overlapping where it does. *)
LEMMA EnterTyped ==
  ASSUME IndInv, NEW t \in Terminals, NEW x \in Transactions, NEW to \in Statements,
         x.kind \in Kinds, Subject(x) \in Cards \cup Orders, Enter(t, to, x), UNCHANGED rows
  PROVE  /\ OnlyOf(t) /\ tx'[t] = x /\ pc'[t] = to
         /\ calls' \in 0..MaxCalls /\ raced' \subseteq Kinds \X (Cards \cup Orders)
         /\ \A u \in Terminals \ {t} : Noted(t, u)'
<1>1. tx'[t] = x /\ pc'[t] = to /\ \A u \in Terminals \ {t} : tx'[u] = tx[u]
  BY DEF IndInv, TypeOK, Enter, Goto
<1>2. OnlyOf(t)
  BY <1>1 DEF OnlyOf, Enter, Goto
<1>3. calls' \in 0..MaxCalls
  BY CreditAssumption DEF IndInv, TypeOK, Enter
<1>4. raced' \subseteq Kinds \X (Cards \cup Orders)
  BY DEF IndInv, TypeOK, Enter
<1>5. ASSUME NEW u \in Terminals \ {t} PROVE Noted(t, u)'
  BY <1>1 DEF Noted, Enter, Subject
<1> QED BY <1>1, <1>2, <1>3, <1>4, <1>5

(* A check passed changes no row. *)
LEMMA AdvanceKeeps ==
  ASSUME IndInv, NEW t \in Terminals, NEW from \in Statements, NEW to \in Statements,
         Goto(t, from, to), UNCHANGED <<rows, tx, calls, raced>>,
         CallIsAbout(t)', ReadHolds(t)'
  PROVE  IndInv'
<1>1. tx'[t] = tx[t] /\ pc'[t] = to
  BY DEF IndInv, TypeOK, Goto
<1>2. OnlyOf(t)
  BY <1>1 DEF OnlyOf, IndInv, TypeOK, Goto
<1>3. \A u \in Terminals \ {t} : Noted(t, u)'
  BY DEF IndInv, Noted, Subject
<1> QED BY <1>1, <1>2, <1>3, TerminalFrame DEF IndInv, TypeOK

\* A call that ends is about nothing.
LEMMA LeaveAbout ==
  ASSUME IndInv, NEW t \in Terminals, Leave(t), raced' = raced
  PROVE  /\ tx' = [tx EXCEPT ![t] = NoTx] /\ pc' = [pc EXCEPT ![t] = "off"]
         /\ tx'[t] = NoTx /\ pc'[t] = "off"
         /\ tx' \in [Terminals -> Transactions] /\ pc' \in [Terminals -> Statements]
         /\ \A u \in Terminals \ {t} : tx'[u] = tx[u] /\ pc'[u] = pc[u]
         /\ CallIsAbout(t)' /\ ReadHolds(t)'
         /\ \A u, v \in Terminals : u # v => Noted(u, v)'
<1>1. tx' = [tx EXCEPT ![t] = NoTx] /\ pc' = [pc EXCEPT ![t] = "off"]
  BY DEF Leave
<1>2. tx'[t] = NoTx /\ pc'[t] = "off"
  BY <1>1 DEF IndInv, TypeOK
<1>3. \A u \in Terminals \ {t} : tx'[u] = tx[u] /\ pc'[u] = pc[u]
  BY <1>1 DEF IndInv, TypeOK
<1>4. tx' \in [Terminals -> Transactions] /\ pc' \in [Terminals -> Statements]
  BY <1>1, NoTxTyped DEF IndInv, TypeOK, Statements
<1>5. CallIsAbout(t)'
  BY <1>2 DEF CallIsAbout, NoTx, CardCall, CouponCall, UseCall, PointsCall
<1>6. ReadHolds(t)'
  BY <1>2 DEF ReadHolds, CardCall
<1>7. ASSUME NEW u \in Terminals, NEW v \in Terminals, u # v PROVE Noted(u, v)'
  <2>1. CASE u = t
    BY <1>2, <2>1 DEF Noted, NoTx
  <2>2. CASE v = t
    BY <1>2, <2>2 DEF Noted, NoTx
  <2>3. CASE u # t /\ v # t
    BY <1>3, <1>7, <2>3 DEF IndInv, Noted, Subject
  <2> QED BY <2>1, <2>2, <2>3
<1> QED BY <1>1, <1>2, <1>3, <1>4, <1>5, <1>6, <1>7

(* A call that ends without a commit changes no row. *)
LEMMA EndKeeps == ASSUME IndInv, NEW t \in Terminals, EndWithoutCommit(t) PROVE IndInv'
<1>1. Leave(t) /\ UNCHANGED <<rows, calls, raced>>
  BY DEF EndWithoutCommit
<1>2. OnlyOf(t)
  BY <1>1, LeaveAbout DEF OnlyOf
<1>3. calls' \in 0..MaxCalls /\ raced' \subseteq Kinds \X (Cards \cup Orders)
  BY <1>1 DEF IndInv, TypeOK
<1>4. \A u \in Terminals \ {t} : Noted(t, u)'
  BY <1>1, LeaveAbout
<1> QED BY <1>1, <1>2, <1>3, <1>4, LeaveAbout, TerminalFrame DEF Statements

-----------------------------------------------------------------------------
(* Reads and checks. *)

(* The balance just read is the present one. *)
LEMMA ReadCardKeeps == ASSUME IndInv, NEW t \in Terminals, ReadCard(t) PROVE IndInv'
<1>1. PICK c \in Cards, o \in Orders, amount \in Amounts, u \in Customers :
        /\ card[c].status = "ACTIVE"
        /\ Enter(t, "find", [NoTx EXCEPT !.kind = "card", !.card = c, !.order = o,
                                         !.read = card[c].balance, !.ask = amount])
        /\ UNCHANGED rows
  BY DEF ReadCard
<1> DEFINE x == [NoTx EXCEPT !.kind = "card", !.card = c, !.order = o,
                             !.read = card[c].balance, !.ask = amount]
<1>2. card[c] \in CardRows /\ card[c].balance \in Nat /\ card[c].initial \in Nat /\ redeemed[c] \in Nat
  BY DEF IndInv, TypeOK, CardRows
<1>3. /\ x \in Transactions /\ x.kind = "card" /\ x.card = c
      /\ x.order = o /\ x.read = card[c].balance
  <2>1. amount \in Int
    BY CreditAssumption
  <2>2. x \in Transactions
    BY <1>2, <2>1, NoTxTyped DEF Transactions, Kinds
  <2>3. x.kind = "card" /\ x.card = c /\ x.order = o /\ x.read = card[c].balance
    BY NoTxTyped DEF Transactions
  <2> QED BY <2>2, <2>3
<1>4. Subject(x) \in Cards \cup Orders /\ x.kind \in Kinds /\ Enter(t, "find", x) /\ UNCHANGED rows
  BY <1>1, <1>3 DEF Subject, Kinds
<1> HIDE DEF x
<1>5. /\ OnlyOf(t) /\ tx'[t] = x /\ pc'[t] = "find"
      /\ calls' \in 0..MaxCalls /\ raced' \subseteq Kinds \X (Cards \cup Orders)
      /\ \A v \in Terminals \ {t} : Noted(t, v)'
  BY <1>3, <1>4, EnterTyped DEF Statements
<1>6. card[c].balance <= card[c].initial /\ card[c].balance + redeemed[c] >= card[c].initial
  BY DEF IndInv, TypeOK, HolderNeverLoses
<1>7. CallIsAbout(t)'
  BY <1>1, <1>2, <1>3, <1>5, <1>6 DEF CallIsAbout, CardCall, CouponCall, UseCall, PointsCall, rows
<1>8. ReadHolds(t)'
  BY <1>3, <1>5 DEF ReadHolds, CardCall, OnlyOf, rows
<1> QED BY <1>3, <1>5, <1>7, <1>8, TerminalFrame DEF Statements

(* The coupon just read is the present one. *)
LEMMA ReadCouponKeeps == ASSUME IndInv, NEW t \in Terminals, ReadCoupon(t) PROVE IndInv'
<1>1. PICK k \in Coupons, o \in Orders, u \in Customers :
        /\ Enter(t, "limit", [NoTx EXCEPT !.kind = "coupon", !.coupon = k, !.order = o, !.customer = u])
        /\ UNCHANGED rows
  BY DEF ReadCoupon
<1> DEFINE x == [NoTx EXCEPT !.kind = "coupon", !.coupon = k, !.order = o, !.customer = u]
<1>2. x \in Transactions /\ x.kind = "coupon" /\ x.coupon = k /\ x.order = o
  <2>1. x \in Transactions
    BY NoTxTyped DEF Transactions, Kinds
  <2>2. x.kind = "coupon" /\ x.coupon = k /\ x.order = o
    BY NoTxTyped DEF Transactions
  <2> QED BY <2>1, <2>2
<1>3. Subject(x) \in Cards \cup Orders /\ x.kind \in Kinds /\ Enter(t, "limit", x) /\ UNCHANGED rows
  BY <1>1, <1>2 DEF Subject, Kinds
<1> HIDE DEF x
<1>4. /\ OnlyOf(t) /\ tx'[t] = x /\ pc'[t] = "limit"
      /\ calls' \in 0..MaxCalls /\ raced' \subseteq Kinds \X (Cards \cup Orders)
      /\ \A v \in Terminals \ {t} : Noted(t, v)'
  BY <1>2, <1>3, EnterTyped DEF Statements
<1>5. CallIsAbout(t)' /\ ReadHolds(t)'
  BY <1>2, <1>4 DEF CallIsAbout, ReadHolds, CardCall, CouponCall, UseCall, PointsCall
<1> QED BY <1>2, <1>4, <1>5, TerminalFrame DEF Statements

(* The order just found paid is. *)
LEMMA ReadPaidOrderKeeps == ASSUME IndInv, NEW t \in Terminals, ReadPaidOrder(t) PROVE IndInv'
<1>1. PICK o \in Orders, u \in Customers \cup {None} :
        /\ order[o].coupon # None
        /\ Enter(t, "usage", [NoTx EXCEPT !.kind = "use", !.coupon = order[o].coupon, !.order = o,
                                          !.customer = u, !.read = uses[order[o].coupon]])
        /\ UNCHANGED rows
  BY DEF ReadPaidOrder
<1> DEFINE k == order[o].coupon
           x == [NoTx EXCEPT !.kind = "use", !.coupon = k, !.order = o, !.customer = u, !.read = uses[k]]
<1>2. k \in Coupons /\ uses[k] \in Nat
  BY <1>1 DEF IndInv, TypeOK, OrderRows
<1>3. x \in Transactions /\ x.kind = "use" /\ x.coupon = k /\ x.order = o
  <2>1. x \in Transactions
    BY <1>2, NoTxTyped DEF Transactions, Kinds
  <2>2. x.kind = "use" /\ x.coupon = k /\ x.order = o
    BY NoTxTyped DEF Transactions
  <2> QED BY <2>1, <2>2
<1>4. Subject(x) \in Cards \cup Orders /\ x.kind \in Kinds /\ Enter(t, "usage", x) /\ UNCHANGED rows
  BY <1>1, <1>3 DEF Subject, Kinds
<1> HIDE DEF x, k
<1>5. /\ OnlyOf(t) /\ tx'[t] = x /\ pc'[t] = "usage"
      /\ calls' \in 0..MaxCalls /\ raced' \subseteq Kinds \X (Cards \cup Orders)
      /\ \A v \in Terminals \ {t} : Noted(t, v)'
  BY <1>3, <1>4, EnterTyped DEF Statements
<1>6. CallIsAbout(t)' /\ ReadHolds(t)'
  BY <1>2, <1>3, <1>5 DEF CallIsAbout, ReadHolds, CardCall, CouponCall, UseCall, PointsCall
<1> QED BY <1>3, <1>5, <1>6, TerminalFrame DEF Statements

(* The order just found to reward is. *)
LEMMA ReadOrderToAccrueKeeps ==
  ASSUME IndInv, NEW t \in Terminals, ReadOrderToAccrue(t) PROVE IndInv'
<1>1. PICK o \in Orders : /\ Enter(t, "earned", [NoTx EXCEPT !.kind = "points", !.order = o])
                          /\ UNCHANGED rows
  BY DEF ReadOrderToAccrue
<1> DEFINE x == [NoTx EXCEPT !.kind = "points", !.order = o]
<1>2. x \in Transactions /\ x.kind = "points" /\ x.order = o
  <2>1. x \in Transactions
    BY NoTxTyped DEF Transactions, Kinds
  <2>2. x.kind = "points" /\ x.order = o
    BY NoTxTyped DEF Transactions
  <2> QED BY <2>1, <2>2
<1>3. Subject(x) \in Cards \cup Orders /\ x.kind \in Kinds /\ Enter(t, "earned", x) /\ UNCHANGED rows
  BY <1>1, <1>2 DEF Subject, Kinds
<1> HIDE DEF x
<1>4. /\ OnlyOf(t) /\ tx'[t] = x /\ pc'[t] = "earned"
      /\ calls' \in 0..MaxCalls /\ raced' \subseteq Kinds \X (Cards \cup Orders)
      /\ \A v \in Terminals \ {t} : Noted(t, v)'
  BY <1>2, <1>3, EnterTyped DEF Statements
<1>5. CallIsAbout(t)' /\ ReadHolds(t)'
  BY <1>2, <1>4 DEF CallIsAbout, ReadHolds, CardCall, CouponCall, UseCall, PointsCall
<1> QED BY <1>2, <1>4, <1>5, TerminalFrame DEF Statements

(* A redemption found again changes nothing; one not found is not there while nobody    *)
(* overlaps.                                                                            *)
LEMMA FindRedemptionKeeps == ASSUME IndInv, NEW t \in Terminals, FindRedemption(t) PROVE IndInv'
<1> DEFINE amount == IF tx[t].ask < tx[t].read THEN tx[t].ask ELSE tx[t].read
           x == [tx[t] EXCEPT !.ask = amount]
<1>1. /\ spent[tx[t].card][tx[t].order] = 0 /\ amount > 0
      /\ Goto(t, "find", "take") /\ tx' = [tx EXCEPT ![t].ask = amount]
      /\ UNCHANGED <<rows, calls, raced>>
  BY DEF FindRedemption
<1>2. tx[t] \in Transactions /\ tx[t].ask \in Int /\ tx[t].read \in Nat
  BY DEF IndInv, TypeOK, Transactions
<1>3. amount \in Int /\ amount <= tx[t].read
  BY <1>2
<1>4. /\ x \in Transactions /\ x.kind = tx[t].kind /\ x.card = tx[t].card
      /\ x.order = tx[t].order /\ x.coupon = tx[t].coupon /\ x.read = tx[t].read /\ x.ask = amount
  BY <1>2, <1>3 DEF Transactions
<1> HIDE DEF amount
<1>5. tx'[t] = x /\ pc[t] = "find" /\ pc'[t] = "take" /\ \A u \in Terminals \ {t} : tx'[u] = tx[u]
  BY <1>1 DEF IndInv, TypeOK, Goto
<1>6. OnlyOf(t)
  BY <1>1, <1>5 DEF OnlyOf, Goto, IndInv, TypeOK
<1> HIDE DEF x
<1>7. CallIsAbout(t) /\ ReadHolds(t)
  BY DEF IndInv
<1>8. CallIsAbout(t)'
  BY <1>1, <1>3, <1>4, <1>5, <1>7 DEF CallIsAbout, CardCall, CouponCall, UseCall, PointsCall, rows
<1>9. ReadHolds(t)'
  BY <1>1, <1>4, <1>5, <1>7 DEF ReadHolds, CardCall, rows, Subject
<1>10. \A u \in Terminals \ {t} : Noted(t, u)'
  BY <1>1, <1>4, <1>5 DEF IndInv, Noted, Subject
<1>11. calls' \in 0..MaxCalls /\ raced' \subseteq Kinds \X (Cards \cup Orders)
  BY <1>1 DEF IndInv, TypeOK
<1> QED BY <1>4, <1>5, <1>6, <1>8, <1>9, <1>10, <1>11, TerminalFrame DEF Statements

(* The other checks change no row and forget nothing. *)
LEMMA ChecksKeep ==
  ASSUME IndInv, NEW t \in Terminals,
         \/ TakeFromCard(t) \/ CheckCustomer(t) \/ CheckOrder(t) \/ FindUsage(t) \/ FindEarned(t)
  PROVE  IndInv'
<1>0. CallIsAbout(t) /\ ReadHolds(t) /\ pc \in [Terminals -> Statements]
  BY DEF IndInv, TypeOK
<1> USE DEF CallIsAbout, ReadHolds, CardCall, CouponCall, UseCall, PointsCall
<1>1. CASE TakeFromCard(t)
  <2>1. Goto(t, "take", "settle") /\ UNCHANGED <<rows, tx, calls, raced>>
    BY <1>1 DEF TakeFromCard
  <2>2. CallIsAbout(t)' /\ ReadHolds(t)'
    BY <1>0, <2>1 DEF Goto, rows, Subject
  <2> QED BY <2>1, <2>2, AdvanceKeeps DEF Statements
<1>2. CASE CheckCustomer(t)
  <2>1. Goto(t, "limit", "check") /\ UNCHANGED <<rows, tx, calls, raced>>
    BY <1>2 DEF CheckCustomer
  <2>2. CallIsAbout(t)' /\ ReadHolds(t)'
    BY <1>0, <2>1 DEF Goto, rows, Subject
  <2> QED BY <2>1, <2>2, AdvanceKeeps DEF Statements
<1>3. CASE CheckOrder(t)
  <2>1. Goto(t, "check", "attach") /\ UNCHANGED <<rows, tx, calls, raced>>
    BY <1>3 DEF CheckOrder
  <2>2. CallIsAbout(t)' /\ ReadHolds(t)'
    BY <1>0, <2>1 DEF Goto, rows, Subject
  <2> QED BY <2>1, <2>2, AdvanceKeeps DEF Statements
<1>4. CASE FindUsage(t)
  <2>1. /\ Goto(t, "usage", "count") /\ UNCHANGED <<rows, tx, calls, raced>>
        /\ \A i \in DOMAIN usage[tx[t].coupon] : usage[tx[t].coupon][i].order # tx[t].order
    BY <1>4 DEF FindUsage
  <2>2. CallIsAbout(t)' /\ ReadHolds(t)'
    BY <1>0, <2>1 DEF Goto, rows, Subject
  <2> QED BY <2>1, <2>2, AdvanceKeeps DEF Statements
<1>5. CASE FindEarned(t)
  <2>1. /\ Goto(t, "earned", "earn") /\ UNCHANGED <<rows, tx, calls, raced>>
        /\ earned[tx[t].order] = 0
    BY <1>5 DEF FindEarned
  <2>2. CallIsAbout(t)' /\ ReadHolds(t)'
    BY <1>0, <2>1 DEF Goto, rows, Subject
  <2> QED BY <2>1, <2>2, AdvanceKeeps DEF Statements
<1> QED BY <1>1, <1>2, <1>3, <1>4, <1>5

-----------------------------------------------------------------------------
(* Commits. *)

(* A redemption writes the balance it computed together with its row. *)
LEMMA SettleKeeps == ASSUME IndInv, NEW t \in Terminals, Settle(t) PROVE IndInv'
<1> DEFINE c == tx[t].card
           o == tx[t].order
           left == tx[t].read - tx[t].ask
           status == IF left = 0 THEN "DEPLETED" ELSE "ACTIVE"
<1>1. /\ pc[t] = "settle" /\ Leave(t)
      /\ card' = [card EXCEPT ![c].balance = left, ![c].status = status]
      /\ spent' = [spent EXCEPT ![c][o] = @ + 1]
      /\ redeemed' = [redeemed EXCEPT ![c] = @ + tx[t].ask]
      /\ UNCHANGED <<order, uses, usage, earned, calls, raced>>
  BY DEF Settle, Commit
<1>2. CallIsAbout(t) /\ ReadHolds(t) /\ TypeOK
  BY DEF IndInv
<1>3. /\ tx[t].kind = "card" /\ c \in Cards /\ o \in Orders
      /\ card[c].status # "ABSENT" /\ tx[t].read <= card[c].initial
      /\ tx[t].read + redeemed[c] >= card[c].initial
      /\ tx[t].ask > 0 /\ tx[t].ask <= tx[t].read
  BY <1>1, <1>2 DEF CallIsAbout, CardCall
<1>4. tx[t].ask \in Int /\ tx[t].read \in Nat /\ tx[t].ask \in Nat /\ left \in Nat
  <2>1. tx[t].ask \in Int /\ tx[t].read \in Nat
    BY <1>2 DEF TypeOK, Transactions
  <2> QED BY <1>3, <2>1
<1>5. /\ card[c] \in CardRows /\ card[c].initial \in Nat /\ card[c].balance \in Nat
      /\ redeemed[c] \in Nat /\ spent[c][o] \in Nat
  BY <1>2, <1>3 DEF TypeOK, CardRows
<1> DEFINE row == [card[c] EXCEPT !.balance = left, !.status = status]
<1>6. row \in CardRows /\ row.balance = left /\ row.status = status /\ row.initial = card[c].initial
  BY <1>4, <1>5 DEF CardRows
<1>7. card' = [card EXCEPT ![c] = row]
  BY <1>1
<1> HIDE DEF row
<1>8. card'[c] = row /\ \A d \in Cards \ {c} : card'[d] = card[d]
  BY <1>2, <1>3, <1>7 DEF TypeOK
<1>9. redeemed'[c] = redeemed[c] + tx[t].ask /\ \A d \in Cards \ {c} : redeemed'[d] = redeemed[d]
  BY <1>1, <1>2, <1>3 DEF TypeOK
<1>10. /\ spent'[c][o] = spent[c][o] + 1
       /\ \A d \in Cards, p \in Orders : d # c \/ p # o => spent'[d][p] = spent[d][p]
  BY <1>1, <1>2, <1>3 DEF TypeOK
<1> HIDE DEF c, o, left, status
<1>11. TypeOK'
  <2>1. card' \in [Cards -> CardRows]
    BY <1>2, <1>3, <1>6, <1>7 DEF TypeOK
  <2>2. /\ row.balance <= row.initial
        /\ row.status = "DEPLETED" => row.balance = 0
        /\ row.status = "ABSENT" => row.initial = 0
    BY <1>3, <1>4, <1>5, <1>6 DEF left, status, c
  <2>3. \A d \in Cards : /\ card'[d].balance <= card'[d].initial
                         /\ card'[d].status = "DEPLETED" => card'[d].balance = 0
                         /\ card'[d].status = "ABSENT" => card'[d].initial = 0
    BY <1>2, <1>8, <2>2 DEF TypeOK
  <2>4. redeemed' \in [Cards -> Nat]
    <3>1. redeemed[c] + tx[t].ask \in Nat
      BY <1>4, <1>5
    <3> QED BY <1>1, <1>2, <3>1 DEF TypeOK
  <2>5. spent' \in [Cards -> [Orders -> Nat]]
    <3>1. spent[c][o] + 1 \in Nat
      BY <1>5
    <3>2. spent[c] \in [Orders -> Nat]
      BY <1>2, <1>3 DEF TypeOK
    <3>3. [spent[c] EXCEPT ![o] = spent[c][o] + 1] \in [Orders -> Nat]
      BY <3>1, <3>2
    <3> QED BY <1>1, <1>2, <3>3 DEF TypeOK
  <2>6. tx' \in [Terminals -> Transactions] /\ pc' \in [Terminals -> Statements]
    BY <1>1, LeaveAbout
  <2> QED BY <1>1, <1>2, <2>1, <2>3, <2>4, <2>5, <2>6 DEF TypeOK
<1>12. UntouchedCards'
  BY <1>6, <1>8, <1>9 DEF UntouchedCards, IndInv, status
<1>13. HolderNeverLoses'
  <2>1. row.balance + redeemed'[c] >= row.initial
    BY <1>3, <1>4, <1>5, <1>6, <1>9 DEF left, c
  <2> QED BY <1>8, <1>9, <2>1 DEF HolderNeverLoses, IndInv
<1>14. CardExactWhenAlone'
  <2> SUFFICES ASSUME NEW d \in Cards, <<"card", d>> \notin raced
               PROVE  /\ card'[d].balance + redeemed'[d] = card'[d].initial
                      /\ \A p \in Orders : spent'[d][p] <= 1
    BY <1>1 DEF CardExactWhenAlone
  <2>1. CASE d = c
    <3>1. <<tx[t].kind, Subject(tx[t])>> \notin raced
      BY <1>3, <2>1 DEF Subject, c
    <3>2. tx[t].read = card[c].balance /\ spent[c][o] = 0
      BY <1>1, <1>2, <3>1 DEF ReadHolds, CardCall, c, o
    <3>3. /\ card[c].balance + redeemed[c] = card[c].initial
          /\ \A p \in Orders : spent[c][p] <= 1
      BY <1>3, <2>1 DEF IndInv, CardExactWhenAlone
    <3>4. row.balance + redeemed'[c] = row.initial
      BY <1>4, <1>5, <1>6, <1>9, <3>2, <3>3 DEF left
    <3>5. \A p \in Orders : spent'[c][p] <= 1
      BY <1>3, <1>10, <3>2, <3>3
    <3> QED BY <1>8, <2>1, <3>4, <3>5
  <2>2. CASE d # c
    BY <1>8, <1>9, <1>10, <2>2 DEF IndInv, CardExactWhenAlone
  <2> QED BY <2>1, <2>2
<1>15. NoUseLost' /\ RewardedOnceWhenAlone'
  BY <1>1 DEF IndInv, NoUseLost, RewardedOnceWhenAlone
<1>16. ASSUME NEW u \in Terminals PROVE CallIsAbout(u)' /\ ReadHolds(u)'
  <2>1. CASE u = t
    BY <1>1, <2>1, LeaveAbout
  <2>2. CASE u # t
    <3>1. tx'[u] = tx[u] /\ pc'[u] = pc[u] /\ tx[u] \in Transactions /\ tx[u].read \in Nat
      BY <1>1, <1>2, <2>2, LeaveAbout DEF TypeOK, Transactions
    <3>2. CallIsAbout(u) /\ ReadHolds(u) /\ Noted(t, u)
      BY <2>2 DEF IndInv
    <3>3. CallIsAbout(u)'
      <4>1. CASE CardCall(u) /\ tx[u].card = c
        <5>1. /\ tx[u].read <= row.initial /\ row.status # "ABSENT"
              /\ tx[u].read + redeemed'[c] >= row.initial
          BY <1>4, <1>5, <1>6, <1>9, <3>1, <3>2, <4>1 DEF CallIsAbout, CardCall, status
        <5> QED BY <1>8, <3>1, <3>2, <4>1, <5>1 DEF CallIsAbout, CardCall, CouponCall, UseCall, PointsCall
      <4>2. CASE ~(CardCall(u) /\ tx[u].card = c)
        BY <1>8, <1>9, <3>1, <3>2, <4>2 DEF CallIsAbout, CardCall, CouponCall, UseCall, PointsCall
      <4> QED BY <4>1, <4>2
    <3>4. ReadHolds(u)'
      <4> SUFFICES ASSUME <<tx[u].kind, Subject(tx[u])>> \notin raced PROVE ReadHolds(u)'
        BY <1>1, <3>1 DEF ReadHolds, Subject
      <4>1. CardCall(u) => tx[u].card \in Cards \ {c} /\ tx[u].order \in Orders
        BY <1>3, <3>2 DEF CallIsAbout, CardCall, Noted, Subject, c
      <4>2. UNCHANGED <<usage, earned, raced>>
        BY <1>1
      <4>3. pc[u] \in {"take", "settle"} => CardCall(u)
        BY DEF CardCall
      <4> QED BY <1>8, <1>10, <3>1, <3>2, <4>1, <4>2, <4>3 DEF ReadHolds, CardCall, Subject
    <3> QED BY <3>3, <3>4
  <2> QED BY <2>1, <2>2
<1>17. \A u, v \in Terminals : u # v => Noted(u, v)'
  BY <1>1, LeaveAbout
<1> QED BY <1>11, <1>12, <1>13, <1>14, <1>15, <1>16, <1>17 DEF IndInv

(* Points are written with the row that says so. *)
LEMMA EarnKeeps == ASSUME IndInv, NEW t \in Terminals, Earn(t) PROVE IndInv'
<1> DEFINE o == tx[t].order
<1>1. /\ pc[t] = "earn" /\ Leave(t)
      /\ earned' = [earned EXCEPT ![o] = @ + 1]
      /\ UNCHANGED <<card, spent, redeemed, order, uses, usage, calls, raced>>
  BY DEF Earn, Commit
<1>2. CallIsAbout(t) /\ ReadHolds(t) /\ TypeOK
  BY DEF IndInv
<1>3. tx[t].kind = "points" /\ o \in Orders /\ earned[o] \in Nat
  BY <1>1, <1>2 DEF CallIsAbout, PointsCall, TypeOK
<1>4. earned'[o] = earned[o] + 1 /\ \A p \in Orders \ {o} : earned'[p] = earned[p]
  BY <1>1, <1>2, <1>3 DEF TypeOK
<1> HIDE DEF o
<1>5. TypeOK'
  <2>1. earned[o] + 1 \in Nat
    BY <1>3
  <2>2. earned' \in [Orders -> Nat]
    BY <1>1, <1>2, <2>1 DEF TypeOK
  <2>3. tx' \in [Terminals -> Transactions] /\ pc' \in [Terminals -> Statements]
    BY <1>1, LeaveAbout
  <2> QED BY <1>1, <1>2, <2>2, <2>3 DEF TypeOK
<1>6. UntouchedCards' /\ HolderNeverLoses' /\ CardExactWhenAlone' /\ NoUseLost'
  BY <1>1 DEF IndInv, UntouchedCards, HolderNeverLoses, CardExactWhenAlone, NoUseLost
<1>7. RewardedOnceWhenAlone'
  <2>1. <<"points", o>> \notin raced => earned'[o] <= 1
    BY <1>1, <1>2, <1>3, <1>4 DEF ReadHolds, Subject, o
  <2> QED BY <1>1, <1>4, <2>1 DEF IndInv, RewardedOnceWhenAlone
<1>8. ASSUME NEW u \in Terminals PROVE CallIsAbout(u)' /\ ReadHolds(u)'
  <2>1. CASE u = t
    BY <1>1, <2>1, LeaveAbout
  <2>2. CASE u # t
    <3>1. tx'[u] = tx[u] /\ pc'[u] = pc[u]
      BY <1>1, <2>2, LeaveAbout
    <3>2. CallIsAbout(u) /\ ReadHolds(u) /\ Noted(t, u)
      BY <2>2 DEF IndInv
    <3>3. CallIsAbout(u)'
      BY <1>1, <3>1, <3>2 DEF CallIsAbout, CardCall, CouponCall, UseCall, PointsCall
    <3>4. ReadHolds(u)'
      <4> SUFFICES ASSUME <<tx[u].kind, Subject(tx[u])>> \notin raced PROVE ReadHolds(u)'
        BY <1>1, <3>1 DEF ReadHolds, Subject
      <4>1. pc[u] = "earn" => tx[u].order \in Orders \ {o}
        BY <1>3, <3>2 DEF CallIsAbout, PointsCall, Noted, Subject, o
      <4> QED BY <1>1, <1>4, <3>1, <3>2, <4>1 DEF ReadHolds, CardCall, Subject
    <3> QED BY <3>3, <3>4
  <2> QED BY <2>1, <2>2
<1>9. \A u, v \in Terminals : u # v => Noted(u, v)'
  BY <1>1, LeaveAbout
<1> QED BY <1>5, <1>6, <1>7, <1>8, <1>9 DEF IndInv

(* A use is counted with the row that records it. *)
LEMMA CountUseKeeps == ASSUME IndInv, NEW t \in Terminals, CountUse(t) PROVE IndInv'
<1> DEFINE k == tx[t].coupon
           o == tx[t].order
           row == [order |-> o, customer |-> tx[t].customer]
           named == tx[t].customer # None
<1>1. /\ pc[t] = "count" /\ Leave(t)
      /\ uses' = [uses EXCEPT ![k] = @ + 1]
      /\ usage' = IF named THEN [usage EXCEPT ![k] = Append(@, row)] ELSE usage
      /\ UNCHANGED <<card, spent, redeemed, order, earned, calls, raced>>
  BY DEF CountUse, Commit
<1>2. CallIsAbout(t) /\ ReadHolds(t) /\ TypeOK
  BY DEF IndInv
<1>3. /\ tx[t].kind = "use" /\ k \in Coupons /\ o \in Orders
      /\ uses[k] \in Nat /\ usage[k] \in Seq(Usages) /\ Len(usage[k]) \in Nat
  BY <1>1, <1>2 DEF CallIsAbout, UseCall, TypeOK
<1>4. named => row \in Usages
  BY <1>2, <1>3 DEF TypeOK, Transactions, Usages
<1>5. uses'[k] = uses[k] + 1 /\ \A j \in Coupons \ {k} : uses'[j] = uses[j] /\ usage'[j] = usage[j]
  BY <1>1, <1>2, <1>3 DEF TypeOK
<1>6. usage'[k] = IF named THEN Append(usage[k], row) ELSE usage[k]
  BY <1>1, <1>2, <1>3 DEF TypeOK
<1> HIDE DEF k, named
<1>7. TypeOK'
  <2>1. uses[k] + 1 \in Nat
    BY <1>3
  <2>2. uses' \in [Coupons -> Nat]
    BY <1>1, <1>2, <2>1 DEF TypeOK
  <2>3. named => Append(usage[k], row) \in Seq(Usages)
    BY <1>3, <1>4, AppendProperties
  <2>4. usage' \in [Coupons -> Seq(Usages)]
    BY <1>1, <1>2, <2>3 DEF TypeOK
  <2>5. tx' \in [Terminals -> Transactions] /\ pc' \in [Terminals -> Statements]
    BY <1>1, LeaveAbout
  <2> QED BY <1>1, <1>2, <2>2, <2>4, <2>5 DEF TypeOK
<1>8. UntouchedCards' /\ HolderNeverLoses' /\ CardExactWhenAlone'
  BY <1>1 DEF IndInv, UntouchedCards, HolderNeverLoses, CardExactWhenAlone
<1>9. NoUseLost'
  <2>1. Len(usage'[k]) <= Len(usage[k]) + 1
    BY <1>3, <1>4, <1>6, AppendProperties
  <2>2. uses[k] >= Len(usage[k]) /\ Len(usage'[k]) \in Nat
    <3>1. usage'[k] \in Seq(Usages)
      BY <1>3, <1>7 DEF TypeOK
    <3> QED BY <1>3, <3>1 DEF IndInv, NoUseLost
  <2>3. uses'[k] >= Len(usage'[k])
    BY <1>3, <1>5, <2>1, <2>2
  <2> QED BY <1>5, <2>3 DEF IndInv, NoUseLost
<1>10. /\ DOMAIN usage[k] = 1..Len(usage[k])
       /\ \A i \in DOMAIN usage'[k] : \/ i \in DOMAIN usage[k] /\ usage'[k][i] = usage[k][i]
                                      \/ i = Len(usage[k]) + 1 /\ usage'[k][i].order = o
  <2>1. CASE named
    <3>1. usage'[k] = Append(usage[k], row) /\ row.order = o
      BY <1>6, <2>1
    <3>2. /\ Len(usage'[k]) = Len(usage[k]) + 1 /\ DOMAIN usage'[k] = 1..Len(usage'[k])
          /\ \A i \in 1..Len(usage[k]) : usage'[k][i] = usage[k][i]
          /\ usage'[k][Len(usage[k]) + 1] = row
      BY <1>3, <1>4, <2>1, <3>1, AppendProperties
    <3> QED BY <1>3, <3>1, <3>2
  <2>2. CASE ~named
    BY <1>3, <1>6, <2>2
  <2> QED BY <2>1, <2>2
<1> HIDE DEF o, row
<1>11. RewardedOnceWhenAlone'
  <2> SUFFICES ASSUME NEW p \in Orders, <<"use", p>> \notin raced, NEW j \in Coupons,
                      NEW a \in DOMAIN usage'[j], NEW b \in DOMAIN usage'[j],
                      usage'[j][a].order = p, usage'[j][b].order = p
               PROVE  a = b
    BY <1>1 DEF RewardedOnceWhenAlone, IndInv
  <2>1. CASE j # k
    <3>1. usage'[j] = usage[j]
      BY <1>5, <2>1
    <3>2. /\ a \in DOMAIN usage[j] /\ b \in DOMAIN usage[j]
          /\ usage[j][a].order = p /\ usage[j][b].order = p
      BY <3>1
    <3> QED BY <3>2 DEF IndInv, RewardedOnceWhenAlone
  <2>2. CASE j = k /\ p # o
    BY <1>10, <2>2 DEF IndInv, RewardedOnceWhenAlone
  <2>3. CASE j = k /\ p = o
    <3>1. \A i \in DOMAIN usage[k] : usage[k][i].order # o
      BY <1>1, <1>2, <1>3, <2>3 DEF ReadHolds, Subject, o, k
    <3> QED BY <1>10, <2>3, <3>1
  <2> QED BY <2>1, <2>2, <2>3
<1>12. ASSUME NEW u \in Terminals PROVE CallIsAbout(u)' /\ ReadHolds(u)'
  <2>1. CASE u = t
    BY <1>1, <2>1, LeaveAbout
  <2>2. CASE u # t
    <3>1. tx'[u] = tx[u] /\ pc'[u] = pc[u]
      BY <1>1, <2>2, LeaveAbout
    <3>2. CallIsAbout(u) /\ ReadHolds(u) /\ Noted(t, u)
      BY <2>2 DEF IndInv
    <3>3. CallIsAbout(u)'
      BY <1>1, <3>1, <3>2 DEF CallIsAbout, CardCall, CouponCall, UseCall, PointsCall
    <3>4. ReadHolds(u)'
      <4> SUFFICES ASSUME <<tx[u].kind, Subject(tx[u])>> \notin raced PROVE ReadHolds(u)'
        BY <1>1, <3>1 DEF ReadHolds, Subject
      <4>1. ASSUME pc[u] = "count"
            PROVE  \A i \in DOMAIN usage'[tx[u].coupon] : usage'[tx[u].coupon][i].order # tx[u].order
        <5>1. tx[u].coupon \in Coupons /\ tx[u].order # o
          BY <1>3, <3>2, <4>1 DEF CallIsAbout, UseCall, Noted, Subject, o
        <5>2. \A i \in DOMAIN usage[tx[u].coupon] : usage[tx[u].coupon][i].order # tx[u].order
          BY <3>2, <4>1 DEF ReadHolds
        <5> QED BY <1>5, <1>10, <5>1, <5>2
      <4> QED BY <1>1, <3>1, <3>2, <4>1 DEF ReadHolds, CardCall, Subject
    <3> QED BY <3>3, <3>4
  <2> QED BY <2>1, <2>2
<1>13. \A u, v \in Terminals : u # v => Noted(u, v)'
  BY <1>1, LeaveAbout
<1> QED BY <1>7, <1>8, <1>9, <1>11, <1>12, <1>13 DEF IndInv

\* A step that changes orders only, and may end the call of a terminal.
LEMMA OrdersKeep ==
  ASSUME IndInv, order' \in [Orders -> OrderRows],
         UNCHANGED <<card, spent, redeemed, uses, usage, earned, calls, raced>>,
         \/ UNCHANGED <<pc, tx>>
         \/ \E t \in Terminals : Leave(t)
  PROVE  IndInv'
<1>1. /\ UntouchedCards' /\ HolderNeverLoses' /\ CardExactWhenAlone'
      /\ NoUseLost' /\ RewardedOnceWhenAlone'
  BY DEF IndInv, UntouchedCards, HolderNeverLoses, CardExactWhenAlone, NoUseLost, RewardedOnceWhenAlone
<1>2. ASSUME NEW u \in Terminals, tx'[u] = tx[u], pc'[u] = pc[u]
      PROVE  CallIsAbout(u)' /\ ReadHolds(u)'
  <2>1. CallIsAbout(u) /\ ReadHolds(u)
    BY DEF IndInv
  <2>2. CallIsAbout(u)'
    BY <1>2, <2>1 DEF CallIsAbout, CardCall, CouponCall, UseCall, PointsCall
  <2>3. ReadHolds(u)'
    BY <1>2, <2>1 DEF ReadHolds, CardCall, Subject
  <2> QED BY <2>2, <2>3
<1>3. CASE UNCHANGED <<pc, tx>>
  <2>1. TypeOK'
    BY <1>3 DEF IndInv, TypeOK
  <2>2. \A u \in Terminals : CallIsAbout(u)' /\ ReadHolds(u)'
    BY <1>2, <1>3
  <2>3. \A u, v \in Terminals : u # v => Noted(u, v)'
    BY <1>3 DEF IndInv, Noted, Subject
  <2> QED BY <1>1, <2>1, <2>2, <2>3 DEF IndInv
<1>4. ASSUME NEW t \in Terminals, Leave(t) PROVE IndInv'
  <2>1. TypeOK'
    <3>1. tx' \in [Terminals -> Transactions] /\ pc' \in [Terminals -> Statements]
      BY <1>4, LeaveAbout
    <3> QED BY <3>1 DEF IndInv, TypeOK
  <2>2. ASSUME NEW u \in Terminals PROVE CallIsAbout(u)' /\ ReadHolds(u)'
    <3>1. CASE u = t
      BY <1>4, <3>1, LeaveAbout
    <3>2. CASE u # t
      BY <1>2, <1>4, <3>2, LeaveAbout
    <3> QED BY <3>1, <3>2
  <2>3. \A u, v \in Terminals : u # v => Noted(u, v)'
    BY <1>4, LeaveAbout
  <2> QED BY <1>1, <2>1, <2>2, <2>3 DEF IndInv
<1> QED BY <1>3, <1>4

(* The rows that the handlers write are orders. *)
LEMMA OrderRowTyped ==
  ASSUME TypeOK, NEW o \in Orders
  PROVE  /\ \A k \in Coupons : [order EXCEPT ![o].coupon = k] \in [Orders -> OrderRows]
         /\ \A s \in {"OPEN", "PAID", "ENDED"} : [order EXCEPT ![o].status = s] \in [Orders -> OrderRows]
         /\ \A s \in {"OPEN", "PAID"} :
              [order EXCEPT ![o].invoiced = TRUE, ![o].status = s] \in [Orders -> OrderRows]
<1>1. order[o] \in OrderRows /\ order \in [Orders -> OrderRows]
  BY DEF TypeOK
<1>2. \A k \in Coupons : [order[o] EXCEPT !.coupon = k] \in OrderRows
  BY <1>1 DEF OrderRows
<1>3. \A s \in {"OPEN", "PAID", "ENDED"} : [order[o] EXCEPT !.status = s] \in OrderRows
  BY <1>1 DEF OrderRows
<1>4. \A s \in {"OPEN", "PAID"} : [order[o] EXCEPT !.invoiced = TRUE, !.status = s] \in OrderRows
  BY <1>1 DEF OrderRows
<1> QED BY <1>1, <1>2, <1>3, <1>4

(* Attaching a coupon changes an order and no card, no use and no points. *)
LEMMA AttachKeeps == ASSUME IndInv, NEW t \in Terminals, AttachCoupon(t) PROVE IndInv'
<1>1. /\ Leave(t) /\ pc[t] = "attach"
      /\ order' = [order EXCEPT ![tx[t].order].coupon = tx[t].coupon]
      /\ UNCHANGED <<card, spent, redeemed, uses, usage, earned, calls, raced>>
  BY DEF AttachCoupon, Commit
<1>2. tx[t].order \in Orders /\ tx[t].coupon \in Coupons
  BY <1>1 DEF IndInv, CallIsAbout, CouponCall
<1>3. order' \in [Orders -> OrderRows]
  BY <1>1, <1>2, OrderRowTyped DEF IndInv
<1> QED BY <1>1, <1>3, OrdersKeep

(* Payments and status changes touch no card, coupon or points. *)
LEMMA BillingKeeps ==
  ASSUME IndInv, NEW o \in Orders, TakePayment(o) \/ EndOrder(o) PROVE IndInv'
<1>1. order' \in [Orders -> OrderRows]
  <2>1. CASE TakePayment(o)
    <3>1. PICK s \in {"OPEN", "PAID"} :
            order' = [order EXCEPT ![o].invoiced = TRUE, ![o].status = s]
      BY <2>1 DEF TakePayment
    <3> QED BY <3>1, OrderRowTyped DEF IndInv
  <2>2. CASE EndOrder(o)
    <3>1. order' = [order EXCEPT ![o].status = "ENDED"]
      BY <2>2 DEF EndOrder
    <3> QED BY <3>1, OrderRowTyped DEF IndInv
  <2> QED BY <2>1, <2>2
<1>2. UNCHANGED <<card, spent, redeemed, uses, usage, earned, pc, tx, calls, raced>>
  BY DEF TakePayment, EndOrder
<1> QED BY <1>1, <1>2, OrdersKeep

(* A new card has its whole value. *)
LEMMA ActivateKeeps ==
  ASSUME IndInv, NEW c \in Cards, NEW v \in Values, NEW owner \in Customers \cup {None},
         ActivateGiftCard(c, v, owner)
  PROVE  IndInv'
<1> DEFINE row == [status |-> "ACTIVE", owner |-> owner, initial |-> v, balance |-> v]
<1>1. /\ card[c].status = "ABSENT" /\ card' = [card EXCEPT ![c] = row]
      /\ UNCHANGED <<spent, redeemed, order, uses, usage, earned, pc, tx, calls, raced>>
  BY DEF ActivateGiftCard
<1>2. v \in Nat
  BY CreditAssumption
<1>3. row \in CardRows /\ row.status = "ACTIVE" /\ row.initial = v /\ row.balance = v
  BY <1>2 DEF CardRows
<1> HIDE DEF row
<1>4. card'[c] = row /\ \A d \in Cards \ {c} : card'[d] = card[d]
  BY <1>1 DEF IndInv, TypeOK
<1>5. TypeOK'
  <2>1. card' \in [Cards -> CardRows]
    BY <1>1, <1>3 DEF IndInv, TypeOK
  <2>2. \A d \in Cards : /\ card'[d].balance <= card'[d].initial
                         /\ card'[d].status = "DEPLETED" => card'[d].balance = 0
                         /\ card'[d].status = "ABSENT" => card'[d].initial = 0
    <3>1. row.balance <= row.initial
      BY <1>2, <1>3
    <3>2. \A d \in Cards \ {c} :
            /\ card[d].balance <= card[d].initial
            /\ card[d].status = "DEPLETED" => card[d].balance = 0
            /\ card[d].status = "ABSENT" => card[d].initial = 0
      BY DEF IndInv, TypeOK
    <3> QED BY <1>3, <1>4, <3>1, <3>2
  <2> QED BY <1>1, <2>1, <2>2 DEF IndInv, TypeOK
<1>6. redeemed[c] = 0
  BY <1>1 DEF IndInv, UntouchedCards
<1>7. UntouchedCards' /\ HolderNeverLoses'
  BY <1>1, <1>2, <1>3, <1>4, <1>6 DEF IndInv, UntouchedCards, HolderNeverLoses
<1>8. CardExactWhenAlone'
  BY <1>1, <1>2, <1>3, <1>4, <1>6 DEF IndInv, CardExactWhenAlone
<1>9. NoUseLost' /\ RewardedOnceWhenAlone'
  BY <1>1 DEF IndInv, NoUseLost, RewardedOnceWhenAlone
<1>10. ASSUME NEW u \in Terminals PROVE CallIsAbout(u)' /\ ReadHolds(u)'
  <2>1. CallIsAbout(u) /\ ReadHolds(u)
    BY DEF IndInv
  <2>2. CardCall(u) => tx[u].card \in Cards \ {c}
    BY <1>1, <2>1 DEF CallIsAbout
  <2>3. CallIsAbout(u)'
    BY <1>1, <1>4, <2>1, <2>2 DEF CallIsAbout, CardCall, CouponCall, UseCall, PointsCall
  <2>4. ReadHolds(u)'
    BY <1>1, <1>4, <2>1, <2>2 DEF ReadHolds, CardCall, Subject
  <2> QED BY <2>3, <2>4
<1>11. \A u, w \in Terminals : u # w => Noted(u, w)'
  BY <1>1 DEF IndInv, Noted, Subject
<1> QED BY <1>5, <1>7, <1>8, <1>9, <1>10, <1>11 DEF IndInv

-----------------------------------------------------------------------------
(* Every step keeps the invariant. *)
LEMMA StepKeepsIndInv == IndInv /\ [Next]_vars => IndInv'
<1> SUFFICES ASSUME IndInv, [Next]_vars PROVE IndInv'
  OBVIOUS
<1>1. ASSUME NEW c \in Cards, NEW v \in Values, NEW u \in Customers \cup {None}, ActivateGiftCard(c, v, u)
      PROVE  IndInv'
  BY <1>1, ActivateKeeps
<1>2. ASSUME NEW t \in Terminals, CardStep(t) PROVE IndInv'
  BY <1>2, ReadCardKeeps, FindRedemptionKeeps, ChecksKeep, SettleKeeps DEF CardStep
<1>3. ASSUME NEW t \in Terminals, CouponStep(t) PROVE IndInv'
  BY <1>3, ReadCouponKeeps, ReadPaidOrderKeeps, ChecksKeep, AttachKeeps, CountUseKeeps DEF CouponStep
<1>4. ASSUME NEW t \in Terminals, PointsStep(t) PROVE IndInv'
  BY <1>4, ReadOrderToAccrueKeeps, ChecksKeep, EarnKeeps DEF PointsStep
<1>5. ASSUME NEW t \in Terminals, EndWithoutCommit(t) PROVE IndInv'
  BY <1>5, EndKeeps
<1>6. ASSUME NEW o \in Orders, TakePayment(o) \/ EndOrder(o) PROVE IndInv'
  BY <1>6, BillingKeeps
<1>7. CASE UNCHANGED vars
  <2>1. order' \in [Orders -> OrderRows]
    BY <1>7 DEF vars, IndInv, TypeOK
  <2> QED BY <1>7, <2>1, OrdersKeep DEF vars
<1> QED BY <1>1, <1>2, <1>3, <1>4, <1>5, <1>6, <1>7 DEF Next

\* IndInv holds in every reachable state of gift cards, coupons and points.
THEOREM Invariance == Spec => []IndInv
BY InitIndInv, StepKeepsIndInv, PTL DEF Spec

\* The tables stay in their ranges: in particular a gift card's balance lies
\* between nothing and its value, however its redemptions overlap.
THEOREM Typing == Spec => []TypeOK
<1>1. IndInv => TypeOK
  BY DEF IndInv
<1> QED BY <1>1, Invariance, PTL

\* The holder of a gift card loses no value that no redemption accounts for.
THEOREM HolderIsSafe == Spec => []HolderNeverLoses
<1>1. IndInv => HolderNeverLoses
  BY DEF IndInv
<1> QED BY <1>1, Invariance, PTL

\* A card whose redemptions never overlapped is exact, and redeemed once per order.
THEOREM CardExact == Spec => []CardExactWhenAlone
<1>1. IndInv => CardExactWhenAlone
  BY DEF IndInv
<1> QED BY <1>1, Invariance, PTL

\* The use count of a coupon never falls behind its recorded uses.
THEOREM UsesCounted == Spec => []NoUseLost
<1>1. IndInv => NoUseLost
  BY DEF IndInv
<1> QED BY <1>1, Invariance, PTL

\* An order whose calls never overlapped earns points once and uses its coupon once.
THEOREM RewardedOnce == Spec => []RewardedOnceWhenAlone
<1>1. IndInv => RewardedOnceWhenAlone
  BY DEF IndInv
<1> QED BY <1>1, Invariance, PTL

-----------------------------------------------------------------------------
(* Coupons displace no other.  JoinInv is inductive beside IndInv: only    *)
(* AttachCoupon writes the coupon of an order, and two calls about to      *)
(* attach to one order are known to have overlapped.                       *)

\* The steps that attach no coupon leave the coupons of the orders alone, and the
\* positions of all calls but one; that one does not come to attach without the check.
LEMMA OnlyAttachWrites ==
  ASSUME IndInv, NEW t \in Terminals,
         CardStep(t) \/ CouponStep(t) \/ PointsStep(t) \/ EndWithoutCommit(t)
  PROVE  /\ raced \subseteq raced'
         /\ \A u \in Terminals \ {t} : tx'[u] = tx[u] /\ pc'[u] = pc[u]
         /\ AttachCoupon(t) \/ order' = order
         /\ CheckOrder(t) \/ pc'[t] # "attach"
<1>1. tx \in [Terminals -> Transactions] /\ pc \in [Terminals -> Statements]
  BY DEF IndInv, TypeOK
<1>2. CASE CardStep(t)
  <2>1. CASE ReadCard(t)
    <3>1. UNCHANGED rows /\ \E x : Enter(t, "find", x)
      BY <2>1 DEF ReadCard
    <3>2. PICK x : Enter(t, "find", x)
      BY <3>1
    <3> QED BY <1>1, <3>1, <3>2 DEF Enter, Goto, rows
  <2>2. CASE FindRedemption(t)
    BY <1>1, <2>2 DEF FindRedemption, Goto, rows
  <2>3. CASE TakeFromCard(t)
    BY <1>1, <2>3 DEF TakeFromCard, Goto, rows
  <2>4. CASE Settle(t)
    BY <1>1, <2>4 DEF Settle, Commit, Leave
  <2> QED BY <1>2, <2>1, <2>2, <2>3, <2>4 DEF CardStep
<1>3. CASE CouponStep(t)
  BY <1>1, <1>3 DEF CouponStep, ReadCoupon, CheckCustomer, CheckOrder, AttachCoupon, ReadPaidOrder, FindUsage,
                    CountUse, Goto, Leave, Commit, Enter, rows
<1>4. CASE PointsStep(t)
  BY <1>1, <1>4 DEF PointsStep, ReadOrderToAccrue, FindEarned, Earn, Goto, Leave, Commit, Enter, rows
<1>5. CASE EndWithoutCommit(t)
  BY <1>1, <1>5 DEF EndWithoutCommit, Leave, rows
<1> QED BY <1>2, <1>3, <1>4, <1>5

(* A coupon that passed the check may join those of its order. *)
LEMMA CheckJoins ==
  ASSUME IndInv, NEW t \in Terminals, CheckOrder(t)
  PROVE  JoinHolds(t)'
<1>1. /\ tx[t].coupon \in Stackable \/ order[tx[t].order].coupon \in {None, tx[t].coupon}
      /\ UNCHANGED <<rows, tx, raced>>
  BY DEF CheckOrder
<1> QED BY <1>1 DEF JoinHolds, rows

\* Another call's attachment to the same order is an overlap.
LEMMA AttachJoins ==
  ASSUME IndInv, NEW t \in Terminals, AttachCoupon(t), NEW u \in Terminals \ {t}, JoinHolds(u),
         tx'[u] = tx[u], pc'[u] = pc[u]
  PROVE  JoinHolds(u)'
<1>1. /\ pc[t] = "attach" /\ order' = [order EXCEPT ![tx[t].order].coupon = tx[t].coupon]
      /\ UNCHANGED raced
  BY DEF AttachCoupon, Commit
<1>2. tx[t].kind = "coupon" /\ tx[t].order \in Orders
  BY <1>1 DEF IndInv, CallIsAbout, CouponCall
<1> SUFFICES ASSUME pc[u] = "attach", <<"coupon", tx[u].order>> \notin raced
             PROVE  JoinHolds(u)'
  BY <1>1 DEF JoinHolds
<1>3. tx[u].kind = "coupon" /\ tx[u].order \in Orders
  BY DEF IndInv, CallIsAbout, CouponCall
<1>4. tx[u].order # tx[t].order
  <2>1. Noted(u, t)
    BY DEF IndInv
  <2> QED BY <1>2, <1>3, <2>1 DEF Noted, Subject
<1>5. order'[tx[u].order] = order[tx[u].order]
  BY <1>1, <1>2, <1>3, <1>4 DEF IndInv, TypeOK
<1> QED BY <1>1, <1>5 DEF JoinHolds

(* Every step keeps what the checks have found about coupons. *)
LEMMA StepKeepsJoinInv == IndInv /\ JoinInv /\ [Next]_vars => JoinInv'
<1> SUFFICES ASSUME IndInv, JoinInv, [Next]_vars, NEW u \in Terminals PROVE JoinHolds(u)'
  BY DEF JoinInv
<1>0. JoinHolds(u)
  BY DEF JoinInv
<1>1. ASSUME NEW c \in Cards, NEW v \in Values, NEW w \in Customers \cup {None}, ActivateGiftCard(c, v, w)
      PROVE  JoinHolds(u)'
  BY <1>0, <1>1 DEF ActivateGiftCard, JoinHolds
<1>2. ASSUME NEW t \in Terminals, CardStep(t) \/ CouponStep(t) \/ PointsStep(t) \/ EndWithoutCommit(t)
      PROVE  JoinHolds(u)'
  <2>1. /\ raced \subseteq raced'
        /\ \A w \in Terminals \ {t} : tx'[w] = tx[w] /\ pc'[w] = pc[w]
        /\ AttachCoupon(t) \/ order' = order
        /\ CheckOrder(t) \/ pc'[t] # "attach"
    BY <1>2, OnlyAttachWrites
  <2>2. CASE u = t
    BY <2>1, <2>2, CheckJoins DEF JoinHolds
  <2>3. CASE u # t
    <3>1. tx'[u] = tx[u] /\ pc'[u] = pc[u]
      BY <2>1, <2>3
    <3>2. CASE AttachCoupon(t)
      BY <1>0, <2>3, <3>1, <3>2, AttachJoins
    <3>3. CASE order' = order
      BY <1>0, <2>1, <3>1, <3>3 DEF JoinHolds
    <3> QED BY <2>1, <3>2, <3>3
  <2> QED BY <2>2, <2>3
<1>3. ASSUME NEW o \in Orders, TakePayment(o) \/ EndOrder(o) PROVE JoinHolds(u)'
  <2>1. \A p \in Orders : order'[p].coupon = order[p].coupon
    <3>1. \A p \in Orders : order[p] \in OrderRows
      BY DEF IndInv, TypeOK
    <3>2. CASE TakePayment(o)
      BY <3>1, <3>2 DEF TakePayment, OrderRows, IndInv, TypeOK
    <3>3. CASE EndOrder(o)
      BY <3>1, <3>3 DEF EndOrder, OrderRows, IndInv, TypeOK
    <3> QED BY <1>3, <3>2, <3>3
  <2>2. UNCHANGED <<pc, tx, raced>>
    BY <1>3 DEF TakePayment, EndOrder
  <2>3. pc[u] = "attach" => tx[u].order \in Orders
    BY DEF IndInv, CallIsAbout, CouponCall
  <2> QED BY <1>0, <2>1, <2>2, <2>3 DEF JoinHolds
<1>4. CASE UNCHANGED vars
  BY <1>0, <1>4 DEF vars, JoinHolds
<1> QED BY <1>1, <1>2, <1>3, <1>4 DEF Next

\* A coupon that may not be joined never displaces another one, unless two calls to
\* apply a coupon overlapped on the order.
THEOREM CouponsStay == Spec => NeverDisplaced
<1>1. Init => JoinInv
  BY DEF Init, JoinInv, JoinHolds
<1>2. IndInv /\ JoinInv /\ [Next]_vars =>
        [\A o \in Orders : <<"coupon", o>> \notin raced /\ order'[o].coupon # order[o].coupon =>
           order[o].coupon = None \/ order'[o].coupon \in Stackable]_vars
  <2> SUFFICES ASSUME IndInv, JoinInv, Next, NEW o \in Orders,
                      <<"coupon", o>> \notin raced, order'[o].coupon # order[o].coupon
               PROVE  order[o].coupon = None \/ order'[o].coupon \in Stackable
    OBVIOUS
  <2>1. ASSUME NEW t \in Terminals, CardStep(t) \/ CouponStep(t) \/ PointsStep(t) \/ EndWithoutCommit(t)
        PROVE  order[o].coupon = None \/ order'[o].coupon \in Stackable
    <3>1. AttachCoupon(t)
      BY <2>1, OnlyAttachWrites
    <3>2. pc[t] = "attach" /\ order' = [order EXCEPT ![tx[t].order].coupon = tx[t].coupon] /\ JoinHolds(t)
      BY <3>1 DEF AttachCoupon, Commit, JoinInv
    <3>3. o = tx[t].order /\ order[o] \in OrderRows /\ order \in [Orders -> OrderRows]
      BY <3>2 DEF IndInv, TypeOK
    <3>4. order'[o].coupon = tx[t].coupon
      BY <3>2, <3>3 DEF OrderRows
    <3> QED BY <3>2, <3>3, <3>4 DEF JoinHolds
  <2>2. ASSUME NEW p \in Orders, TakePayment(p) \/ EndOrder(p)
        PROVE  order[o].coupon = None \/ order'[o].coupon \in Stackable
    <3>1. order[o] \in OrderRows
      BY DEF IndInv, TypeOK
    <3> QED BY <2>2, <3>1 DEF TakePayment, EndOrder, OrderRows, IndInv, TypeOK
  <2>3. ASSUME NEW c \in Cards, NEW v \in Values, NEW w \in Customers \cup {None}, ActivateGiftCard(c, v, w)
        PROVE  order[o].coupon = None \/ order'[o].coupon \in Stackable
    BY <2>3 DEF ActivateGiftCard
  <2> QED BY <2>1, <2>2, <2>3 DEF Next
<1> QED BY <1>1, <1>2, StepKeepsJoinInv, Invariance, PTL DEF Spec, NeverDisplaced
=============================================================================
