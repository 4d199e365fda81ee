---------------------------- MODULE OrderLifecycle ----------------------------
(***************************************************************************)
(* The order from checkout to its last rupee: Fulfilment, Payments and     *)
(* Refunds composed over the rows of OrderState, and what the composition  *)
(* has to guarantee.                                                       *)
(***************************************************************************)
EXTENDS Fulfilment, Payments, Refunds

Next ==
    \/ \E o \in Orders : FulfilmentNext(o)
    \/ \E o \in Orders : PaymentNext(o)
    \/ \E o \in Orders : RefundNext(o)
    \/ \E d \in Dispatchers : DispatcherNext(d)

Spec == Init /\ [][Next]_vars

(* The worker polls for due refunds for ever and finishes the call it has   *)
(* begun; the provider settles what it accepted, redelivers webhooks until *)
(* they are acknowledged and is not unreachable for ever.                  *)
RefundFairness ==
    /\ \A o \in Orders : /\ WF_vars(\E d \in Dispatchers : claim_refund(d, o))
                         /\ WF_vars(\E s \in {"processed", "failed"} :
                                        provider_settles_refund(o, s))
                         /\ \A s \in {"pending", "processed", "failed"} :
                                WF_vars(refund_webhook(o, s))
    /\ \A d \in Dispatchers : /\ WF_vars(record_refund_answer(d))
                              /\ WF_vars(record_refund_error(d))
                              /\ WF_vars(provider_answers(d))
                              /\ SF_vars(provider_accepts_refund(d))

(* Operations staff work through the failed-delivery queue. *)
OperationsFairness ==
    \A o \in Orders : /\ WF_vars(resolve_failure_by_reassignment(o))
                      /\ WF_vars(resolve_failure_by_return(o))

FairSpec == Spec /\ RefundFairness /\ OperationsFairness

-------------------------------------------------------------------------------
(* Every row keeps the type of its columns, and every counter its ceiling: *)
(* in particular wrong delivery codes never exceed the guess budget,       *)
(* whatever codes are requested in between.                                *)
TypeOK ==
    /\ status \in [Orders -> OrderStatus \cup {"absent"}]
    /\ payment_method \in [Orders -> PaymentMethod]
    /\ payment_status \in [Orders -> PaymentStatus]
    /\ stock_restored \in [Orders -> BOOLEAN]
    /\ delivery_status \in [Orders -> DeliveryStatus]
    /\ delivery_partner \in [Orders -> Riders \cup {NoRider}]
    /\ picked_up \in [Orders -> BOOLEAN]
    /\ challenge_count \in [Orders -> 0..MaxChallenges]
    /\ guess_count \in [Orders -> 0..MaxGuesses]
    /\ proof_verified \in [Orders -> BOOLEAN]
    /\ cod_collected \in [Orders -> BOOLEAN]
    /\ attempt_status \in [Orders -> [Attempts -> AttemptStatus]]
    /\ webhook_seen \subseteq PaymentEvents \cup RefundEvents
    /\ refund_status \in [Orders -> RefundStatus]
    /\ refund_attempts \in [Orders -> 0..MaxRefundAttempts]
    /\ refund_payment_known \in [Orders -> BOOLEAN]
    /\ settlement_status \in [Orders -> SettlementStatus]
    /\ adjustment_owed \in [Orders -> BOOLEAN]
    /\ provider_order \in [Orders -> [Attempts -> ProviderOrder]]
    /\ provider_refund \in [Orders -> ProviderRefund]
    /\ call_state \in [Dispatchers -> CallState]
    /\ call_order \in [Dispatchers -> Orders \cup {NoOrder}]
    /\ retry_read \subseteq Orders

(* A rider never carries two active deliveries, whichever of self-claim,    *)
(* manual assignment, automatic dispatch and the worker assigned them.     *)
OneActiveDeliveryPerRider ==
    \A o1, o2 \in Orders :
        /\ delivery_partner[o1] = delivery_partner[o2]
        /\ delivery_partner[o1] # NoRider
        /\ delivery_status[o1] \in ACTIVE_DELIVERY_STATUSES
        /\ delivery_status[o2] \in ACTIVE_DELIVERY_STATUSES
        => o1 = o2

(* Goods of an online order are released (ready, under way, delivered) only *)
(* while its payment is confirmed: no late failure event, bad signature or *)
(* refund result takes the confirmation away from an order on its way.     *)
OnlineGoodsArePaid ==
    \A o \in Orders :
        payment_method[o] = "upi"
            /\ status[o] \in {"ready", "out_for_delivery", "delivered"}
        => payment_status[o] = "paid"

(* A refund is an obligation of dead orders: it exists exactly when the      *)
(* payment status says so, only for cancelled or returned orders, and no   *)
(* dead order keeps the customer's confirmed payment without one.          *)
RefundIsOwedExactlyWhenDead ==
    \A o \in Orders :
        /\ refund_status[o] # "none" <=> payment_status[o] \in REFUND_STATES
        /\ refund_status[o] # "none" => status[o] \in {"cancelled", "returned"}
        /\ status[o] \in {"cancelled", "returned"} => payment_status[o] # "paid"

(* "Refunded" is told to the customer only when the provider's own refund    *)
(* has been processed, across lost answers, retries and crashes.           *)
RefundedOnlyAfterProvider ==
    \A o \in Orders :
        payment_status[o] = "refunded" => provider_refund[o] = "processed"

(* Money that went back to the customer, or goods that went back to the     *)
(* store, leave no merchant entitlement: the entry is void, or, if it was  *)
(* paid out first, corrected by an owed adjustment.                        *)
MoneyBackIsNotTheMerchants ==
    \A o \in Orders :
        payment_status[o] = "refunded" \/ status[o] = "returned"
        => /\ settlement_status[o] # "pending"
           /\ settlement_status[o] = "settled" => adjustment_owed[o]

(* A delivered order was handed over against a verified proof, its money is  *)
(* in (cash recorded or payment confirmed) and the merchant's entitlement  *)
(* stands uncorrected.                                                     *)
DeliveredIsEarned ==
    \A o \in Orders :
        status[o] = "delivered"
        => /\ delivery_status[o] = "delivered"
           /\ proof_verified[o]
           /\ payment_method[o] = "cod" => cod_collected[o]
           /\ payment_status[o] = "paid"
           /\ settlement_status[o] \in {"pending", "settled"}
           /\ ~adjustment_owed[o]

(* Once goods left the store they are delivered or returned: the delivery   *)
(* never goes back to the pool and the order never back to the shelf.      *)
CustodyIsNeverReassigned ==
    \A o \in Orders :
        picked_up[o]
        => /\ delivery_status[o] \in {"picked_up", "failed", "delivered"}
           /\ status[o] \in {"out_for_delivery", "delivered", "returned"}

StaysClosed(o) ==
    /\ status[o] \in {"delivered", "returned", "cancelled"} => status'[o] = status[o]
    /\ payment_status[o] = "refund_pending" =>
           payment_status'[o] \in {"refund_pending", "refunded"}
    /\ payment_status[o] = "refunded" => payment_status'[o] = "refunded"
    /\ settlement_status[o] = "voided" => settlement_status'[o] = "voided"
    /\ adjustment_owed[o] => adjustment_owed'[o]

(* No step reopens what is closed: terminal orders stay as they are, a      *)
(* refund obligation is only ever followed by the refund, a correction of  *)
(* the ledger is never dropped.                                            *)
NothingReopens == [][\A o \in Orders : StaysClosed(o)]_vars

(* Without crashes, an owed refund whose captured payment is known reaches  *)
(* the customer unless the provider itself fails it or the automatic       *)
(* attempts run out.                                                       *)
OwedRefundIsPaid ==
    \A o \in Orders :
        payment_status[o] = "refund_pending" /\ refund_payment_known[o]
        ~> \/ payment_status[o] = "refunded"
           \/ provider_refund[o] = "failed"
           \/ refund_attempts[o] = MaxRefundAttempts

(* A delivery that failed with no cash recorded is closed once operations    *)
(* staff work the queue: back to the pool before pickup, returned after.   *)
FailedDeliveryIsClosed ==
    \A o \in Orders :
        /\ delivery_status[o] = "failed"
        /\ status[o] \in {"ready", "out_for_delivery"}
        /\ ~cod_collected[o]
        ~> \/ delivery_status[o] # "failed"
           \/ status[o] = "returned"

-------------------------------------------------------------------------------
(* The refinement: how the rows of an order stand for the deal of Deal. *)
OutcomeOf(o) ==
    CASE status[o] = "absent" -> "none"
      [] status[o] \in {"delivered", "cancelled", "returned"} -> status[o]
      [] OTHER -> "open"

MoneyOf(o) ==
    CASE payment_status[o] = "paid" -> "held"
      [] payment_status[o] = "refund_pending" -> "owed"
      [] payment_status[o] = "refunded" -> "back"
      [] OTHER -> "none"

ShareOf(o) ==
    CASE settlement_status[o] = "voided" \/ adjustment_owed[o] -> "lost"
      [] settlement_status[o] = "pending" /\ ~adjustment_owed[o] -> "due"
      [] settlement_status[o] = "settled" /\ ~adjustment_owed[o] -> "paid"
      [] OTHER -> "none"

AsDeal == INSTANCE Deal WITH
    outcome <- [o \in Orders |-> OutcomeOf(o)],
    money   <- [o \in Orders |-> MoneyOf(o)],
    share   <- [o \in Orders |-> ShareOf(o)]

(* Every handler, webhook, dispatch and crash is one step of the deal or     *)
(* none: cash, refunds and the ledger move together or not at all.         *)
ImplementsDeal == AsDeal!DealSpec

-------------------------------------------------------------------------------
(* Claims the repository makes that its code does not keep. *)

(* refunds.py: "a crash mid-call leaves a recoverable record": the promise   *)
(* above, with crashing dispatchers.                                       *)
CrashLeavesRecoverableRefund == OwedRefundIsPaid

(* payment_hardening.py on a capture after cancellation: the debt is         *)
(* recorded, not left as something "nothing would ever act on": a          *)
(* dispatcher can act on a refund only if it names the captured payment.   *)
RecordedDebtCanBePaid ==
    \A o \in Orders : refund_status[o] # "none" => refund_payment_known[o]
===============================================================================
