----------------------------- MODULE StockBook -----------------------------
(***************************************************************************)
(* What stock keeping promises, without transactions, workers or queues:   *)
(* a posting (the depletion of an order item, the arrival of a goods       *)
(* receipt) changes the quantities of all its ingredients at once, an      *)
(* order item is posted at most once, and no quantity becomes negative.    *)
(* Besides postings there is only the hand of a manager.                   *)
(***************************************************************************)
EXTENDS Integers

CONSTANTS
  Ingredients,
  Items,      \* order items
  Receipts,   \* goods receipts
  Recipe,     \* Recipe[i][k]: how much of k one depletion of item i takes
  Accepted,   \* Accepted[g][k]: how much of k receipt g brings
  ByHand      \* quantities a manager enters

VARIABLES
  quantity,   \* quantity on hand of each ingredient
  posted      \* how often each order item and each receipt was posted

Movement(ref) ==
  IF ref \in Items THEN [k \in Ingredients |-> -Recipe[ref][k]] ELSE Accepted[ref]

BookInit ==
  /\ quantity = [k \in Ingredients |-> 0]
  /\ posted = [ref \in Items \cup Receipts |-> 0]

Post(ref) ==
  /\ ref \in Items => posted[ref] = 0
  /\ posted' = [posted EXCEPT ![ref] = @ + 1]
  /\ quantity' = [k \in Ingredients |-> quantity[k] + Movement(ref)[k]]
  /\ \A k \in Ingredients : quantity'[k] >= 0

SetByHand(k) ==
  /\ \E q \in ByHand : quantity' = [quantity EXCEPT ![k] = q]
  /\ UNCHANGED posted

BookNext == \/ \E ref \in Items \cup Receipts : Post(ref)
            \/ \E k \in Ingredients : SetByHand(k)

BookSpec == BookInit /\ [][BookNext]_<<quantity, posted>>
=============================================================================
