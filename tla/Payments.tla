------------------------------- MODULE Payments -------------------------------
(***************************************************************************)
(* Online payment: intents (payments.py), client verification and provider *)
(* webhooks (payment_hardening.py), against the provider's own record of   *)
(* which of its orders were paid.  Every handler locks the order before    *)
(* the attempt and commits once, so it is one action.  Webhooks arrive in  *)
(* any order and are redelivered; an event key that was committed before   *)
(* is answered without effect.                                             *)
(***************************************************************************)
EXTENDS OrderState

fulfilmentVars == <<status, payment_method, stock_restored, deliveryVars, proofVars>>

REFUND_STATES == {"refunded", "refund_pending"}

(* A live attempt is handed out again; otherwise the provider opens an      *)
(* order while the row lock is held.                                       *)
no_live_attempt(o) ==
    \A a \in Attempts : attempt_status[o][a] # "attempted"

create_payment_intent(o, a) ==
    /\ Exists(o)
    /\ payment_method[o] = "upi"
    /\ payment_status[o] # "paid"
    /\ status[o] # "cancelled"
    /\ no_live_attempt(o)
    /\ attempt_status[o][a] = "none"
    /\ attempt_status' = [attempt_status EXCEPT ![o][a] = "attempted"]
    /\ provider_order' = [provider_order EXCEPT ![o][a] = "open"]
    /\ UNCHANGED <<fulfilmentVars, payment_status, webhook_seen, refundVars,
                   settlementVars, provider_refund, callVars>>

(* The customer pays at the provider, who keeps an order payable until it   *)
(* is paid, whatever this system has decided meanwhile.                    *)
provider_capture(o, a) ==
    /\ provider_order[o][a] = "open"
    /\ provider_order' = [provider_order EXCEPT ![o][a] = "captured"]
    /\ UNCHANGED <<fulfilmentVars, payment_status, attemptVars, refundVars,
                   settlementVars, provider_refund, callVars>>

(* Mutant: only the payment status is looked at. *)
capture_is_orphaned_NoCancel(o) == payment_status[o] \in REFUND_STATES

(* _apply_paid: a capture for a dead order becomes a refund obligation and  *)
(* never reopens the order; otherwise the order is paid and the merchant   *)
(* entitled.                                                               *)
capture_is_orphaned(o) ==
    status[o] = "cancelled" \/ payment_status[o] \in REFUND_STATES

apply_paid(o, a) ==
    /\ attempt_status' = [attempt_status EXCEPT ![o][a] = "paid"]
    /\ IF capture_is_orphaned(o)
       THEN /\ IF payment_status[o] \notin REFUND_STATES
               THEN ensure_refund_request(o, "paid")
               ELSE UNCHANGED <<payment_status, refundVars>>
            /\ UNCHANGED settlementVars
       ELSE /\ payment_status' = [payment_status EXCEPT ![o] = "paid"]
            /\ ensure_settlement_entry(o, "paid")
            /\ UNCHANGED refundVars

(* Mutants: a paid order can fail; a refunding order can fail. *)
failure_is_late_NoPaid(o) ==
    status[o] = "cancelled" \/ payment_status[o] \in REFUND_STATES
failure_is_late_NoRefund(o) ==
    status[o] = "cancelled" \/ payment_status[o] = "paid"

(* _apply_failed: only an active, unpaid order can become payment-failed. *)
failure_is_late(o) ==
    status[o] = "cancelled" \/ payment_status[o] \in REFUND_STATES \cup {"paid"}

apply_failed(o, a) ==
    /\ IF failure_is_late(o)
       THEN UNCHANGED <<attempt_status, payment_status>>
       ELSE /\ attempt_status' = [attempt_status EXCEPT ![o][a] = "failed"]
            /\ payment_status' = [payment_status EXCEPT ![o] = "failed"]
    /\ UNCHANGED <<refundVars, settlementVars>>

(* hardened_verify_payment with a valid signature: the provider signs only  *)
(* what was paid.  A replay for an attempt already paid re-checks the      *)
(* settlement entry.                                                       *)
verify_payment(o, a) ==
    /\ provider_order[o][a] = "captured"
    /\ IF attempt_status[o][a] = "paid"
       THEN /\ IF capture_is_orphaned(o)
               THEN UNCHANGED settlementVars
               ELSE ensure_settlement_entry(o, payment_status[o])
            /\ UNCHANGED <<payment_status, attempt_status, refundVars>>
       ELSE apply_paid(o, a)
    /\ UNCHANGED <<fulfilmentVars, webhook_seen, providerVars, callVars>>

(* The same endpoint with a signature that does not match: the attempt is   *)
(* failed here, while its order stays open at the provider.                *)
reject_payment_signature(o, a) ==
    /\ attempt_status[o][a] # "none"
    /\ apply_failed(o, a)
    /\ UNCHANGED <<fulfilmentVars, webhook_seen, providerVars, callVars>>

(* hardened_razorpay_webhook: the event row and its effect commit together. *)
first_delivery(key) ==
    /\ key \notin webhook_seen
    /\ webhook_seen' = webhook_seen \cup {key}

captured_webhook(o, a, event) ==
    /\ provider_order[o][a] = "captured"
    /\ first_delivery(<<event, o, a>>)
    /\ apply_paid(o, a)
    /\ UNCHANGED <<fulfilmentVars, providerVars, callVars>>

(* A payment that failed at the provider; its order may still be paid. *)
failed_webhook(o, a) ==
    /\ provider_order[o][a] # "none"
    /\ first_delivery(<<"payment.failed", o, a>>)
    /\ apply_failed(o, a)
    /\ UNCHANGED <<fulfilmentVars, providerVars, callVars>>

PaymentNext(o) ==
    \E a \in Attempts :
        \/ create_payment_intent(o, a)
        \/ provider_capture(o, a)
        \/ verify_payment(o, a)
        \/ reject_payment_signature(o, a)
        \/ \E event \in PaidEvents : captured_webhook(o, a, event)
        \/ failed_webhook(o, a)
===============================================================================
