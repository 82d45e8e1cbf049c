--------------------------- MODULE OrderBillingMC ---------------------------
(* OrderBilling on small instances; the cfg files give the constants. *)
EXTENDS OrderBilling, TLC

(* Requests, keys and orders are interchangeable: no definition compares them otherwise than by
   equality.  Used by the runs that check no liveness property. *)
Symmetry == Permutations(Requests) \cup Permutations(Keys)

(* Statuses that the clients of a run ask for. *)
AllStatuses == OrderStatus
PrepStatus == {"IN_PREP"}
=============================================================================
