--------------------------- MODULE StockLedgerMC ---------------------------
EXTENDS StockLedger, TLC
CONSTANTS flour, eggs, i1, i2, g1, g2, p1

\* Two dishes of the same two ingredients; one receipt brings too little for both.
MCDishes == (i1 :> (flour :> 1 @@ eggs :> 1)) @@ (i2 :> (flour :> 2 @@ eggs :> 1))
MCDelivery == g1 :> (flour :> 2 @@ eggs :> 2)
MCOneOfOne == g1 :> p1
Line(k, n) == [ingredient |-> k, qty |-> n]
MCOrderedOnce == p1 :> <<Line(flour, 2), Line(eggs, 2)>>

\* One ingredient on two lines of an order, which arrives in two parts.
MCDish == i1 :> (flour :> 2)
MCParts == (g1 :> (flour :> 1)) @@ (g2 :> (flour :> 2))
MCTwoOfOne == (g1 :> p1) @@ (g2 :> p1)
MCOrderedTwice == p1 :> <<Line(flour, 1), Line(flour, 2)>>

MCByHand == {1}
MCSymmetry == Permutations(Terminals)
=============================================================================
