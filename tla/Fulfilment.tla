------------------------------ MODULE Fulfilment ------------------------------
(***************************************************************************)
(* The handlers that move an order and its delivery: checkout, customer    *)
(* and merchant order mutations, rider assignment, pickup, failure and its *)
(* resolution, proof of delivery, cash collection and completion.          *)
(*                                                                         *)
(* Each handler locks its delivery, order and (when it assigns) rider row  *)
(* before it reads them and holds the locks to its single commit, so one   *)
(* handler is one action.  A rejected request (4xx) changes nothing and is *)
(* a disabled action.  Authorisation decides who may call, never what the  *)
(* call does, and is left out: an action may be taken by any caller the    *)
(* handler admits.                                                         *)
(***************************************************************************)
EXTENDS OrderState

moneyVars == <<attemptVars, refundVars, settlementVars, providerVars, callVars>>

(* The order and its delivery row are created in the placed and unassigned  *)
(* states; the cart and the stock it consumes belong to the inventory.     *)
safe_checkout(o, m) ==
    /\ ~Exists(o)
    /\ status' = [status EXCEPT ![o] = "placed"]
    /\ payment_method' = [payment_method EXCEPT ![o] = m]
    /\ UNCHANGED <<payment_status, stock_restored, deliveryVars, proofVars, moneyVars>>

-------------------------------------------------------------------------------
(* order_mutations.py.  The refund dispatch that follows the commit is the  *)
(* claim of some dispatcher in Refunds.                                    *)

CancelOrder(o) ==
    /\ restore_order_stock_once(o)
    /\ status' = [status EXCEPT ![o] = "cancelled"]
    /\ ensure_refund_request(o, payment_status[o])
    /\ UNCHANGED <<payment_method, deliveryVars, proofVars, attemptVars,
                   settlementVars, providerVars, callVars>>

cancel_my_order_safely(o) ==
    /\ Exists(o)
    /\ can_transition_order(status[o], "cancelled")
    /\ CancelOrder(o)

(* The payment gate in front of "ready". *)
ready_is_allowed(o, target) ==
    target = "ready" => payment_allows_fulfillment(payment_method[o], payment_status[o])

update_order_status_safely(o, target) ==
    /\ Exists(o)
    /\ target \in MERCHANT_ASSIGNABLE_STATUSES
    /\ can_transition_order(status[o], target)
    /\ ready_is_allowed(o, target)
    /\ IF target = "cancelled"
       THEN CancelOrder(o)
       ELSE /\ status' = [status EXCEPT ![o] = target]
            /\ UNCHANGED <<payment_method, payment_status, stock_restored,
                           deliveryVars, proofVars, moneyVars>>

-------------------------------------------------------------------------------
(* Assignment.  All four paths check, under the delivery, order and rider   *)
(* locks, that the order is ready and paid and that the rider is free.     *)

(* Mutant: only a rider already on the road counts as busy. *)
rider_is_busy_PickedUp(r) ==
    \E o \in Orders : delivery_partner[o] = r /\ delivery_status[o] = "picked_up"

rider_is_busy(r) ==
    \E o \in Orders : /\ delivery_partner[o] = r
                      /\ delivery_status[o] \in ACTIVE_DELIVERY_STATUSES

ready_for_rider(o) ==
    /\ status[o] = "ready"
    /\ payment_allows_fulfillment(payment_method[o], payment_status[o])
    /\ delivery_status[o] = "unassigned"

AssignRider(o, r) ==
    /\ ready_for_rider(o)
    /\ ~rider_is_busy(r)
    /\ delivery_partner' = [delivery_partner EXCEPT ![o] = r]
    /\ delivery_status' = [delivery_status EXCEPT ![o] = "assigned"]
    /\ UNCHANGED <<orderVars, picked_up, proofVars, moneyVars>>

claim_delivery(o, r) == AssignRider(o, r)

admin_assign_delivery(o, r) == AssignRider(o, r)

(* nearest_eligible_rider offers some rider without an active delivery; the *)
(* distance order and the presence rows are not modelled here.             *)
auto_assign_delivery(o, r) == AssignRider(o, r)

(* One iteration of the worker's batch; each is a transaction of its own. *)
dispatch_ready_deliveries(o, r) == AssignRider(o, r)

ReleaseRider(o) ==
    /\ delivery_partner' = [delivery_partner EXCEPT ![o] = NoRider]
    /\ delivery_status' = [delivery_status EXCEPT ![o] = "unassigned"]
    /\ UNCHANGED <<orderVars, picked_up, proofVars, moneyVars>>

admin_unassign_delivery(o) ==
    /\ delivery_status[o] = "assigned"
    /\ status[o] = "ready"
    /\ ReleaseRider(o)

(* update_delivery_status.  Its schema turns away delivered and failed, so   *)
(* three targets reach the handler; each is an action.                     *)
release_delivery(o) ==
    /\ can_transition_delivery(delivery_status[o], "unassigned")
    /\ status[o] = "ready"
    /\ ReleaseRider(o)

pick_up_delivery(o) ==
    /\ can_transition_delivery(delivery_status[o], "picked_up")
    /\ payment_allows_fulfillment(payment_method[o], payment_status[o])
    /\ can_transition_order(status[o], "out_for_delivery")
    /\ picked_up' = [picked_up EXCEPT ![o] = TRUE]
    /\ status' = [status EXCEPT ![o] = "out_for_delivery"]
    /\ delivery_status' = [delivery_status EXCEPT ![o] = "picked_up"]
    /\ UNCHANGED <<payment_method, payment_status, stock_restored,
                   delivery_partner, proofVars, moneyVars>>

(* Target assigned: an administrator's request passes every check, and no   *)
(* branch looks at the order or names a rider.                             *)
mark_delivery_assigned(o) ==
    /\ Exists(o)
    /\ can_transition_delivery(delivery_status[o], "assigned")
    /\ delivery_status' = [delivery_status EXCEPT ![o] = "assigned"]
    /\ UNCHANGED <<orderVars, delivery_partner, picked_up, proofVars, moneyVars>>

-------------------------------------------------------------------------------
(* Failure and its resolution.  The rider stays on a failed delivery. *)

fail_delivery(o) ==
    /\ delivery_status[o] \in ACTIVE_DELIVERY_STATUSES
    /\ delivery_status' = [delivery_status EXCEPT ![o] = "failed"]
    /\ UNCHANGED <<orderVars, delivery_partner, picked_up, proofVars, moneyVars>>

(* Mutant: the failure alone is looked at. *)
may_be_reassigned_AnyCustody(o) == delivery_status[o] = "failed"

(* Custody never left the merchant. *)
may_be_reassigned(o) ==
    /\ delivery_status[o] = "failed"
    /\ status[o] = "ready"
    /\ ~picked_up[o]

recover_failed_delivery(o) ==
    /\ may_be_reassigned(o)
    /\ ReleaseRider(o)

resolve_failure_by_reassignment(o) ==
    /\ may_be_reassigned(o)
    /\ ReleaseRider(o)

(* The goods are back: stock returns, the merchant's entitlement goes, the  *)
(* customer is owed a refund.  Recorded cash stops it with a 409.          *)
resolve_failure_by_return(o) ==
    /\ delivery_status[o] = "failed"
    /\ can_transition_order(status[o], "returned")
    /\ payment_method[o] = "cod" => ~cod_collected[o]
    /\ restore_order_stock_once(o)
    /\ status' = [status EXCEPT ![o] = "returned"]
    /\ void_settlement_for_refund(o)
    /\ ensure_refund_request(o, payment_status[o])
    /\ UNCHANGED <<payment_method, deliveryVars, proofVars, attemptVars,
                   providerVars, callVars>>

-------------------------------------------------------------------------------
(* Proof of delivery, cash and completion.  Clock guards (the resend        *)
(* cooldown, the code's lifetime) only reject requests, so an action that  *)
(* may happen at any moment covers them.                                   *)

in_customer_handover(o) ==
    delivery_status[o] = "picked_up" /\ status[o] = "out_for_delivery"


proof_is_locked(o) == guess_count[o] >= MaxGuesses

issue_delivery_proof_challenge(o) ==
    /\ in_customer_handover(o)
    /\ ~proof_verified[o]
    /\ ~proof_is_locked(o)
    /\ challenge_count[o] < MaxChallenges
    /\ challenge_count' = [challenge_count EXCEPT ![o] = @ + 1]
    /\ UNCHANGED <<orderVars, deliveryVars, guess_count, proof_verified,
                   cod_collected, moneyVars>>

may_guess(o) ==
    /\ in_customer_handover(o)
    /\ challenge_count[o] > 0
    /\ ~proof_verified[o]
    /\ ~proof_is_locked(o)

(* A wrong guess is committed before the error is raised. *)
reject_delivery_proof(o) ==
    /\ may_guess(o)
    /\ guess_count' = [guess_count EXCEPT ![o] = @ + 1]
    /\ UNCHANGED <<orderVars, deliveryVars, challenge_count, proof_verified,
                   cod_collected, moneyVars>>

verify_delivery_proof(o) ==
    /\ may_guess(o)
    /\ proof_verified' = [proof_verified EXCEPT ![o] = TRUE]
    /\ UNCHANGED <<orderVars, deliveryVars, challenge_count, guess_count,
                   cod_collected, moneyVars>>

record_cod_collection(o) ==
    /\ payment_method[o] = "cod"
    /\ in_customer_handover(o)
    /\ ~cod_collected[o]
    /\ cod_collected' = [cod_collected EXCEPT ![o] = TRUE]
    /\ UNCHANGED <<orderVars, deliveryVars, challenge_count, guess_count,
                   proof_verified, moneyVars>>

(* Mutants: cash is taken for granted; the proof is taken for granted. *)
completion_evidence_NoCash(o) == proof_verified[o]
completion_evidence_NoProof(o) == payment_method[o] = "cod" => cod_collected[o]

completion_evidence(o) ==
    /\ proof_verified[o]
    /\ payment_method[o] = "cod" => cod_collected[o]

complete_delivery_with_financials(o) ==
    LET pay == IF payment_method[o] = "cod" THEN "paid" ELSE payment_status[o] IN
    /\ can_transition_delivery(delivery_status[o], "delivered")
    /\ can_transition_order(status[o], "delivered")
    /\ payment_allows_fulfillment(payment_method[o], payment_status[o])
    /\ completion_evidence(o)
    /\ delivery_status' = [delivery_status EXCEPT ![o] = "delivered"]
    /\ status' = [status EXCEPT ![o] = "delivered"]
    /\ payment_status' = [payment_status EXCEPT ![o] = pay]
    /\ ensure_settlement_entry(o, pay)
    /\ UNCHANGED <<payment_method, stock_restored, delivery_partner, picked_up,
                   proofVars, attemptVars, refundVars, providerVars, callVars>>

-------------------------------------------------------------------------------
FulfilmentNext(o) ==
    \/ \E m \in Methods : safe_checkout(o, m)
    \/ cancel_my_order_safely(o)
    \/ \E s \in OrderStatus : update_order_status_safely(o, s)
    \/ \E r \in Riders : \/ claim_delivery(o, r)
                         \/ admin_assign_delivery(o, r)
                         \/ auto_assign_delivery(o, r)
                         \/ dispatch_ready_deliveries(o, r)
    \/ admin_unassign_delivery(o)
    \/ release_delivery(o)
    \/ pick_up_delivery(o)
    \/ mark_delivery_assigned(o)
    \/ fail_delivery(o)
    \/ recover_failed_delivery(o)
    \/ resolve_failure_by_reassignment(o)
    \/ resolve_failure_by_return(o)
    \/ issue_delivery_proof_challenge(o)
    \/ reject_delivery_proof(o)
    \/ verify_delivery_proof(o)
    \/ record_cod_collection(o)
    \/ complete_delivery_with_financials(o)
===============================================================================
