-------------------------- MODULE CustomerCreditMC --------------------------
EXTENDS CustomerCredit, TLC
CONSTANTS c1, o1, o2, k1, k2, u1, u2

\* The second order belongs to nobody; k1 may not be joined, k2 may join it.
MCCustomerOf == o1 :> u1 @@ o2 :> None
MCPoints == o1 :> 2 @@ o2 :> 2
MCFits == k1 :> {o1, o2} @@ k2 :> {o1}
MCLimit == k1 :> 1 @@ k2 :> 2
MCPerCustomer == k1 :> 1 @@ k2 :> 1
MCAmounts == {-1, 1, 3}
MCSymmetry == Permutations(Terminals)
=============================================================================
