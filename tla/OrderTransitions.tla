--------------------------- MODULE OrderTransitions ---------------------------
(***************************************************************************)
(* The status vocabulary of orders, payments and deliveries                *)
(* (app/models/orders.py) and the transition tables every handler consults *)
(* (app/services/order_transitions.py).  Pure definitions, no state.       *)
(***************************************************************************)

OrderStatus == {"placed", "accepted", "preparing", "ready",
                "out_for_delivery", "delivered", "returned", "cancelled"}

PaymentMethod == {"cod", "upi"}

PaymentStatus == {"pending", "paid", "failed", "refund_pending", "refunded"}

DeliveryStatus == {"unassigned", "assigned", "picked_up", "delivered", "failed"}

(* Mutant: goods that left the store can only be delivered. *)
ORDER_TRANSITIONS_NoReturn ==
    [ s \in {"placed", "accepted", "preparing", "ready", "out_for_delivery"} |->
        CASE s = "placed"           -> {"accepted", "cancelled"}
          [] s = "accepted"         -> {"preparing", "cancelled"}
          [] s = "preparing"        -> {"ready"}
          [] s = "ready"            -> {"out_for_delivery"}
          [] s = "out_for_delivery" -> {"delivered"} ]

(* Statuses that are no key of the table are terminal (or no row at all). *)
ORDER_TRANSITIONS ==
    [ s \in {"placed", "accepted", "preparing", "ready", "out_for_delivery"} |->
        CASE s = "placed"           -> {"accepted", "cancelled"}
          [] s = "accepted"         -> {"preparing", "cancelled"}
          [] s = "preparing"        -> {"ready"}
          [] s = "ready"            -> {"out_for_delivery"}
          [] s = "out_for_delivery" -> {"delivered", "returned"} ]

MERCHANT_ASSIGNABLE_STATUSES == {"accepted", "preparing", "ready", "cancelled"}

DELIVERY_TRANSITIONS ==
    [ s \in {"unassigned", "assigned", "picked_up", "failed"} |->
        CASE s = "unassigned" -> {"assigned"}
          [] s = "assigned"   -> {"unassigned", "picked_up", "failed"}
          [] s = "picked_up"  -> {"delivered", "failed"}
          [] s = "failed"     -> {"unassigned"} ]

can_transition_order(current, target) ==
    /\ current \in DOMAIN ORDER_TRANSITIONS
    /\ target \in ORDER_TRANSITIONS[current]

can_transition_delivery(current, target) ==
    /\ current \in DOMAIN DELIVERY_TRANSITIONS
    /\ target \in DELIVERY_TRANSITIONS[current]

(* COD is settled at the door; every other method must be paid first. *)
payment_allows_fulfillment(method, payment) ==
    method = "cod" \/ payment = "paid"

(* Deliveries that occupy their rider. *)
ACTIVE_DELIVERY_STATUSES == {"assigned", "picked_up"}
===============================================================================
