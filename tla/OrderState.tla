------------------------------ MODULE OrderState ------------------------------
(***************************************************************************)
(* The database rows that belong to an order, and the services that write  *)
(* them inside somebody else's transaction: refunds.py, settlements.py and *)
(* stock.py.  Every order owns exactly one delivery row, at most one       *)
(* proof, cash collection, refund and settlement row (unique constraints), *)
(* so each row is a set of functions over Orders.                          *)
(*                                                                         *)
(* The service operators below are action fragments: they say what the     *)
(* service leaves in the rows it owns, and the handler that calls them     *)
(* adds its own guards and writes.  They read the unprimed (committed)     *)
(* rows, because sessions are opened with autoflush=False.                 *)
(***************************************************************************)
EXTENDS Naturals, OrderTransitions

CONSTANTS
    Orders,             \* commercial orders
    Methods,            \* payment methods customers choose from
    Riders,             \* active, verified delivery accounts
    Attempts,           \* payment attempts (provider orders) an order may open
    Dispatchers,        \* threads running dispatch_refund: worker, requests
    NoRider, NoOrder,   \* NULL references
    MaxRefundAttempts,  \* MAX_REFUND_ATTEMPTS
    MaxChallenges,      \* OTP_MAX_CHALLENGES
    MaxGuesses,         \* OTP_MAX_VERIFICATION_ATTEMPTS
    CanCrash            \* whether a dispatching thread may die

ASSUME OrderStateAssumption ==
    /\ Methods \subseteq PaymentMethod
    /\ NoRider \notin Riders
    /\ NoOrder \notin Orders
    /\ MaxRefundAttempts \in Nat \ {0}
    /\ MaxChallenges \in Nat \ {0}
    /\ MaxGuesses \in Nat \ {0}
    /\ CanCrash \in BOOLEAN

VARIABLES
    \* orders
    status, payment_method, payment_status, stock_restored,
    \* deliveries, delivery_proofs, cod_collections
    delivery_status, delivery_partner, picked_up,
    challenge_count, guess_count, proof_verified, cod_collected,
    \* payment_attempts, payment_webhook_events
    attempt_status, webhook_seen,
    \* payment_refunds
    refund_status, refund_attempts, refund_payment_known,
    \* settlement_entries, settlement_adjustments
    settlement_status, adjustment_owed,
    \* the payment provider's own books
    provider_order, provider_refund,
    \* threads: an outstanding refund call, an operator retry being written
    call_state, call_order, retry_read

orderVars      == <<status, payment_method, payment_status, stock_restored>>
deliveryVars   == <<delivery_status, delivery_partner, picked_up>>
proofVars      == <<challenge_count, guess_count, proof_verified, cod_collected>>
attemptVars    == <<attempt_status, webhook_seen>>
refundVars     == <<refund_status, refund_attempts, refund_payment_known>>
settlementVars == <<settlement_status, adjustment_owed>>
providerVars   == <<provider_order, provider_refund>>
callVars       == <<call_state, call_order, retry_read>>
vars == <<orderVars, deliveryVars, proofVars, attemptVars, refundVars,
          settlementVars, providerVars, callVars>>

AttemptStatus    == {"none", "attempted", "paid", "failed"}
RefundStatus     == {"none", "requested", "processing", "succeeded", "failed"}
SettlementStatus == {"none", "pending", "settled", "voided"}
ProviderOrder    == {"none", "open", "captured"}
ProviderRefund   == {"none", "pending", "processed", "failed"}
CallState        == {"idle", "calling", "error", "pending", "processed", "failed"}

DISPATCHABLE_NoRetry         == {"requested"}  \* mutant: failed refunds are dropped
DISPATCHABLE_REFUND_STATUSES == {"requested", "failed"}

(* Webhook event keys; refund events are told apart by the status of the   *)
(* refund entity they carry.                                               *)
PaidEvents    == {"order.paid", "payment.captured"}
PaymentEvents == (PaidEvents \cup {"payment.failed"}) \X Orders \X Attempts
RefundEvents  == {"refund"} \X Orders \X {"pending", "processed", "failed"}

Exists(o) == status[o] # "absent"

Init ==
    /\ status = [o \in Orders |-> "absent"]
    /\ payment_method = [o \in Orders |-> "cod"]  \* placeholder until checkout
    /\ payment_status = [o \in Orders |-> "pending"]
    /\ stock_restored = [o \in Orders |-> FALSE]
    /\ delivery_status = [o \in Orders |-> "unassigned"]
    /\ delivery_partner = [o \in Orders |-> NoRider]
    /\ picked_up = [o \in Orders |-> FALSE]
    /\ challenge_count = [o \in Orders |-> 0]
    /\ guess_count = [o \in Orders |-> 0]
    /\ proof_verified = [o \in Orders |-> FALSE]
    /\ cod_collected = [o \in Orders |-> FALSE]
    /\ attempt_status = [o \in Orders |-> [a \in Attempts |-> "none"]]
    /\ webhook_seen = {}
    /\ refund_status = [o \in Orders |-> "none"]
    /\ refund_attempts = [o \in Orders |-> 0]
    /\ refund_payment_known = [o \in Orders |-> FALSE]
    /\ settlement_status = [o \in Orders |-> "none"]
    /\ adjustment_owed = [o \in Orders |-> FALSE]
    /\ provider_order = [o \in Orders |-> [a \in Attempts |-> "none"]]
    /\ provider_refund = [o \in Orders |-> "none"]
    /\ call_state = [d \in Dispatchers |-> "idle"]
    /\ call_order = [d \in Dispatchers |-> NoOrder]
    /\ retry_read = {}

-------------------------------------------------------------------------------
(* stock.py: the listings themselves are not part of this module; what a    *)
(* second restoration would be decided by is.                              *)
restore_order_stock_once(o) ==
    stock_restored' = [stock_restored EXCEPT ![o] = TRUE]

-------------------------------------------------------------------------------
(* settlements.py *)

(* pay is the payment status the calling handler holds in memory. *)
settlement_is_eligible(o, pay) ==
    /\ pay = "paid"
    /\ status[o] # "cancelled"
    /\ refund_status[o] = "none"

ensure_settlement_entry(o, pay) ==
    /\ settlement_status' =
        IF settlement_status[o] = "none" /\ settlement_is_eligible(o, pay)
        THEN [settlement_status EXCEPT ![o] = "pending"]
        ELSE settlement_status
    /\ UNCHANGED adjustment_owed

(* Mutant: an entry already paid out is left as it is. *)
void_settlement_NoReversal(o) ==
    /\ settlement_status' =
        IF settlement_status[o] = "pending"
        THEN [settlement_status EXCEPT ![o] = "voided"]
        ELSE settlement_status
    /\ UNCHANGED adjustment_owed

(* A pending entry is voided in place; a settled one is corrected by one    *)
(* adjustment row, keyed by the entry.                                     *)
void_settlement_for_refund(o) ==
    /\ settlement_status' =
        IF settlement_status[o] = "pending"
        THEN [settlement_status EXCEPT ![o] = "voided"]
        ELSE settlement_status
    /\ adjustment_owed' =
        IF settlement_status[o] = "settled"
        THEN [adjustment_owed EXCEPT ![o] = TRUE]
        ELSE adjustment_owed

-------------------------------------------------------------------------------
(* refunds.py *)

(* _latest_captured_attempt, a SELECT over committed attempts. *)
captured_attempt_recorded(o) ==
    \E a \in Attempts : attempt_status[o][a] = "paid"

refund_is_owed(o, pay) ==
    payment_method[o] = "upi" /\ pay \in {"paid", "refund_pending"}

(* Writes the refund row and the order's payment status. *)
ensure_refund_request(o, pay) ==
    LET creates == refund_is_owed(o, pay) /\ refund_status[o] = "none" IN
    /\ refund_status' =
        IF creates THEN [refund_status EXCEPT ![o] = "requested"] ELSE refund_status
    /\ refund_payment_known' =
        IF creates
        THEN [refund_payment_known EXCEPT ![o] = captured_attempt_recorded(o)]
        ELSE refund_payment_known
    /\ payment_status' =
        [payment_status EXCEPT ![o] = IF creates THEN "refund_pending" ELSE pay]
    /\ UNCHANGED refund_attempts

mark_succeeded(o) ==
    /\ refund_status' = [refund_status EXCEPT ![o] = "succeeded"]
    /\ payment_status' = [payment_status EXCEPT ![o] = "refunded"]
    /\ IF payment_status[o] # "refunded"
       THEN void_settlement_for_refund(o)
       ELSE UNCHANGED settlementVars

(* Mutant: an accepted refund counts as a paid one. *)
apply_refund_result_Eager(o, result) ==
    /\ IF result # "failed"
       THEN mark_succeeded(o)
       ELSE /\ refund_status' = [refund_status EXCEPT ![o] = "failed"]
            /\ UNCHANGED <<payment_status, settlementVars>>
    /\ UNCHANGED <<refund_attempts, refund_payment_known>>

(* Folds a provider refund object (API answer or webhook) into the row.  It *)
(* does not look at the status the row already has.                        *)
apply_provider_refund_result(o, result) ==
    /\ IF result = "processed"
       THEN mark_succeeded(o)
       ELSE /\ refund_status' = [refund_status EXCEPT ![o] =
                  IF result = "failed" THEN "failed" ELSE "processing"]
            /\ UNCHANGED <<payment_status, settlementVars>>
    /\ UNCHANGED <<refund_attempts, refund_payment_known>>
===============================================================================
