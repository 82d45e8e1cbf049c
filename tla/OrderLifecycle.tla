--------------------------- MODULE OrderLifecycle ---------------------------
(***************************************************************************)
(* The statuses of an order and the transition table that                  *)
(* OrderService.updateOrderStatus consults.  A table lookup only: which    *)
(* writers consult it, and when, is modelled in OrderBilling.              *)
(***************************************************************************)

OrderStatus ==
  {"DRAFT", "PLACED", "IN_PREP", "READY", "SERVED", "PAID", "CLOSED", "VOIDED", "CANCELLED"}

(* The record `validTransitions` of updateOrderStatus. *)
ValidTransitions ==
  [s \in OrderStatus |->
     CASE s = "DRAFT"   -> {"PLACED", "VOIDED"}
       [] s = "PLACED"  -> {"IN_PREP", "CANCELLED"}
       [] s = "IN_PREP" -> {"READY"}
       [] s = "READY"   -> {"SERVED"}
       [] s = "SERVED"  -> {"PAID"}
       [] s = "PAID"    -> {"CLOSED"}
       [] OTHER         -> {}]

(* Writing the current status again is accepted and bumps the version. *)
TransitionAllowed(from, to) == from = to \/ to \in ValidTransitions[from]

(* The statuses in which processPayment refuses an order.  PAID is not one. *)
UnpayableStatus == {"CLOSED", "VOIDED", "CANCELLED"}
=============================================================================
