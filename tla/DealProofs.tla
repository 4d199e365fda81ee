------------------------------ MODULE DealProofs ------------------------------
(***************************************************************************)
(* What the steps of OrderLifecycle may do, for every instance: none       *)
(* reopens what is closed, and each is a step of the abstract Deal.        *)
(***************************************************************************)
EXTENDS OrderLifecycleProofs

(* Nothing reopens: from the money invariant and the transition table. *)

AllStayClosed == \A x \in Orders : StaysClosed(x)

LEMMA FulfilmentCloses ==
    ASSUME TypeOK, MoneyInv, NEW o \in Orders, FulfilmentNext(o)
    PROVE  AllStayClosed
  <1> USE DEF AllStayClosed, StaysClosed, TypeOK, orderVars, settlementVars, moneyVars,
              Exists
  <1>1. ASSUME NEW m \in Methods, safe_checkout(o, m) PROVE AllStayClosed
    BY <1>1 DEF safe_checkout
  <1>2. ASSUME CancelOrder(o), status[o] \in {"placed", "accepted"}
        PROVE  AllStayClosed
    BY <1>2 DEF CancelOrder, ensure_refund_request, refund_is_owed
  <1>3. CASE cancel_my_order_safely(o)
    BY <1>2, <1>3, OrderTable DEF cancel_my_order_safely
  <1>4. ASSUME NEW s \in OrderStatus, update_order_status_safely(o, s)
        PROVE  AllStayClosed
    <2>1. CASE s = "cancelled"
      BY <1>2, <1>4, <2>1, OrderTable DEF update_order_status_safely
    <2>2. CASE s # "cancelled"
      <3>1. /\ status' = [status EXCEPT ![o] = s]
            /\ UNCHANGED <<payment_status, settlementVars>>
            /\ can_transition_order(status[o], s)
        BY <1>4, <2>2 DEF update_order_status_safely
      <3> QED
        BY <3>1, OrderTable
    <2> QED
      BY <2>1, <2>2
  <1>5. ASSUME UNCHANGED <<status, payment_status, settlementVars>> PROVE AllStayClosed
    BY <1>5
  <1>6. CASE pick_up_delivery(o)
    BY <1>6, OrderTable DEF pick_up_delivery
  <1>7. CASE resolve_failure_by_return(o)
    BY <1>7, OrderTable
    DEF resolve_failure_by_return, void_settlement_for_refund,
        ensure_refund_request, refund_is_owed
  <1>8. CASE complete_delivery_with_financials(o)
    BY <1>8, OrderTable
    DEF complete_delivery_with_financials, ensure_settlement_entry, MoneyInv,
        Bookkeeping
  <1>9. FulfilmentNext(o) =>
          \/ \E m \in Methods : safe_checkout(o, m)
          \/ cancel_my_order_safely(o)
          \/ \E s \in OrderStatus : update_order_status_safely(o, s)
          \/ pick_up_delivery(o)
          \/ resolve_failure_by_return(o)
          \/ complete_delivery_with_financials(o)
          \/ UNCHANGED <<status, payment_status, settlementVars>>
    BY DEF FulfilmentNext, claim_delivery, admin_assign_delivery,
        auto_assign_delivery, dispatch_ready_deliveries, AssignRider,
        admin_unassign_delivery, release_delivery, recover_failed_delivery,
        resolve_failure_by_reassignment, ReleaseRider, mark_delivery_assigned,
        fail_delivery, issue_delivery_proof_challenge, reject_delivery_proof,
        verify_delivery_proof, record_cod_collection
  <1> QED
    BY <1>1, <1>3, <1>4, <1>5, <1>6, <1>7, <1>8, <1>9

LEMMA PaymentsClose ==
    ASSUME TypeOK, NEW o \in Orders, PaymentNext(o)
    PROVE  AllStayClosed
  <1> USE DEF AllStayClosed, StaysClosed, TypeOK, fulfilmentVars, settlementVars,
              REFUND_STATES
  <1>1. PICK a \in Attempts :
            \/ create_payment_intent(o, a)
            \/ provider_capture(o, a)
            \/ verify_payment(o, a)
            \/ reject_payment_signature(o, a)
            \/ \E event \in PaidEvents : captured_webhook(o, a, event)
            \/ failed_webhook(o, a)
    BY DEF PaymentNext
  <1>2. ASSUME apply_paid(o, a), UNCHANGED status PROVE AllStayClosed
    <2>1. CASE ~capture_is_orphaned(o)
      <3>1. /\ payment_status' = [payment_status EXCEPT ![o] = "paid"]
            /\ ensure_settlement_entry(o, "paid")
            /\ payment_status[o] \notin REFUND_STATES
        BY <1>2, <2>1 DEF apply_paid, capture_is_orphaned
      <3> QED
        BY <1>2, <3>1 DEF ensure_settlement_entry
    <2>2. CASE capture_is_orphaned(o) /\ payment_status[o] \notin REFUND_STATES
      <3>1. ensure_refund_request(o, "paid") /\ UNCHANGED settlementVars
        BY <1>2, <2>2 DEF apply_paid
      <3> QED
        BY <1>2, <2>2, <3>1 DEF ensure_refund_request
    <2>3. CASE capture_is_orphaned(o) /\ payment_status[o] \in REFUND_STATES
      BY <1>2, <2>3 DEF apply_paid
    <2> QED
      BY <2>1, <2>2, <2>3
  <1>3. ASSUME apply_failed(o, a), UNCHANGED status PROVE AllStayClosed
    <2>1. CASE failure_is_late(o)
      BY <1>3, <2>1 DEF apply_failed
    <2>2. CASE ~failure_is_late(o)
      <3>1. /\ payment_status' = [payment_status EXCEPT ![o] = "failed"]
            /\ UNCHANGED settlementVars
            /\ payment_status[o] \notin REFUND_STATES
        BY <1>3, <2>2 DEF apply_failed, failure_is_late
      <3> QED
        BY <1>3, <3>1
    <2> QED
      BY <2>1, <2>2
  <1>4. CASE create_payment_intent(o, a) \/ provider_capture(o, a)
    BY <1>4 DEF create_payment_intent, provider_capture
  <1>5. CASE verify_payment(o, a)
    <2>1. CASE attempt_status[o][a] = "paid"
      BY <1>5, <2>1 DEF verify_payment, ensure_settlement_entry
    <2>2. CASE attempt_status[o][a] # "paid"
      BY <1>2, <1>5, <2>2 DEF verify_payment
    <2> QED
      BY <2>1, <2>2
  <1>6. CASE reject_payment_signature(o, a) \/ failed_webhook(o, a)
    BY <1>3, <1>6 DEF reject_payment_signature, failed_webhook
  <1>7. ASSUME NEW event \in PaidEvents, captured_webhook(o, a, event)
        PROVE  AllStayClosed
    BY <1>2, <1>7 DEF captured_webhook
  <1> QED
    BY <1>1, <1>4, <1>5, <1>6, <1>7

LEMMA RefundsClose ==
    ASSUME TypeOK, (\E o \in Orders : RefundNext(o)) \/ (\E d \in Dispatchers : DispatcherNext(d))
    PROVE  AllStayClosed
  <1> USE DEF AllStayClosed, StaysClosed, TypeOK, commerceVars, settlementVars
  <1>1. ASSUME NEW o, NEW result, apply_provider_refund_result(o, result),
               UNCHANGED status
        PROVE  AllStayClosed
    <2>1. CASE result = "processed" /\ payment_status[o] # "refunded"
      BY <1>1, <2>1 DEF apply_provider_refund_result, mark_succeeded,
                        void_settlement_for_refund
    <2>2. CASE result = "processed" /\ payment_status[o] = "refunded"
      BY <1>1, <2>2 DEF apply_provider_refund_result, mark_succeeded
    <2>3. CASE result # "processed"
      BY <1>1, <2>3 DEF apply_provider_refund_result
    <2> QED
      BY <2>1, <2>2, <2>3
  <1>2. ASSUME NEW o \in Orders, RefundNext(o) PROVE AllStayClosed
    <2>1. ASSUME NEW s, refund_webhook(o, s) PROVE AllStayClosed
      BY <1>1, <2>1 DEF refund_webhook
    <2>2. \/ park_refund(o) \/ fail_unconfigured_refund(o) \/ payout_settles(o)
          \/ \E d \in Dispatchers : claim_refund(d, o)
          => AllStayClosed
      BY DEF park_refund, fail_unconfigured_refund, payout_settles, claim_refund
    <2>3. \/ admin_retry_reads(o) \/ admin_retry_writes(o)
          \/ \E s \in {"processed", "failed"} : provider_settles_refund(o, s)
          => AllStayClosed
      BY DEF admin_retry_reads, admin_retry_writes, provider_settles_refund
    <2> QED
      BY <1>2, <2>1, <2>2, <2>3, Zenon DEF RefundNext
  <1>3. ASSUME NEW d \in Dispatchers, DispatcherNext(d) PROVE AllStayClosed
    BY <1>1, <1>3
    DEF DispatcherNext, provider_accepts_refund, provider_answers,
        provider_call_fails, record_refund_answer, record_refund_error,
        dispatcher_crash
  <1> QED
    BY <1>2, <1>3

(* Late captures, failures, refund results and operator actions never take   *)
(* an order, a refund or a ledger correction back.                         *)
THEOREM ClosedStaysClosed == Spec => NothingReopens
  <1>1. TypeInv /\ MoneyInv /\ [Next]_vars => [\A o \in Orders : StaysClosed(o)]_vars
    BY FulfilmentCloses, PaymentsClose, RefundsClose DEF Next, TypeInv, AllStayClosed
  <1> QED
    BY <1>1, MoneyInvariant, PTL DEF Spec, NothingReopens

-------------------------------------------------------------------------------
(* OrderLifecycle implements Deal: under its mapping each step of the      *)
(* detailed specification moves one order by one step of the deal, or      *)
(* nothing.  Besides the money invariant it takes that a confirmed payment *)
(* has its settlement entry: a second capture would otherwise entitle the  *)
(* merchant in a step of its own.                                          *)

PaidIsEntitled ==
    \A o \in Orders : payment_status[o] = "paid" => settlement_status[o] # "none"

(* The four columns the mapping reads. *)
Row(o) == <<status[o], payment_status[o], settlement_status[o], adjustment_owed[o]>>

OthersStay(o) == \A x \in Orders \ {o} : Row(x)' = Row(x)

Becomes(o, goods, cash, part) ==
    OutcomeOf(o)' = goods /\ MoneyOf(o)' = cash /\ ShareOf(o)' = part

Stays(o) == Becomes(o, OutcomeOf(o), MoneyOf(o), ShareOf(o))

GrantedOf(o)   == IF ShareOf(o) = "none" THEN "due" ELSE ShareOf(o)
TakenBackOf(o) == IF ShareOf(o) = "none" THEN "none" ELSE "lost"
OwedOf(o)      == IF MoneyOf(o) = "held" THEN "owed" ELSE MoneyOf(o)

(* A step of the deal, read off the mapping. *)
DealStep(o) ==
    \/ OutcomeOf(o) = "none" /\ Becomes(o, "open", MoneyOf(o), ShareOf(o))
    \/ /\ OutcomeOf(o) = "open" /\ MoneyOf(o) = "none"
       /\ Becomes(o, "open", "held", GrantedOf(o))
    \/ /\ OutcomeOf(o) = "open" /\ MoneyOf(o) \in {"none", "held"}
       /\ Becomes(o, "delivered", "held", GrantedOf(o))
    \/ OutcomeOf(o) = "open" /\ Becomes(o, "cancelled", OwedOf(o), ShareOf(o))
    \/ OutcomeOf(o) = "open" /\ Becomes(o, "returned", OwedOf(o), TakenBackOf(o))
    \/ /\ OutcomeOf(o) = "cancelled" /\ MoneyOf(o) = "none"
       /\ Becomes(o, "cancelled", "owed", ShareOf(o))
    \/ ShareOf(o) = "due" /\ Becomes(o, OutcomeOf(o), MoneyOf(o), "paid")
    \/ MoneyOf(o) = "owed" /\ Becomes(o, OutcomeOf(o), "back", TakenBackOf(o))

Simulated ==
    \/ \A x \in Orders : Row(x)' = Row(x)
    \/ \E o \in Orders : OthersStay(o) /\ (Stays(o) \/ DealStep(o))

LEMMA SimulatedIsAStep ==
    ASSUME Simulated
    PROVE  [AsDeal!DealNext]_(AsDeal!dealVars)
  <1>1. ASSUME NEW x \in Orders, Row(x)' = Row(x) PROVE Stays(x)
    BY <1>1 DEF Row, Stays, Becomes, OutcomeOf, MoneyOf, ShareOf
  <1>2. ASSUME \A x \in Orders : Stays(x) PROVE UNCHANGED AsDeal!dealVars
    BY <1>2 DEF Stays, Becomes, AsDeal!dealVars
  <1>3. ASSUME NEW o \in Orders, OthersStay(o), NEW g, NEW c, NEW p, Becomes(o, g, c, p)
        PROVE  AsDeal!Move(o, g, c, p)
    <2>1. \A x \in Orders \ {o} : Stays(x)
      BY <1>1, <1>3 DEF OthersStay
    <2> QED
      BY <1>3, <2>1 DEF Stays, Becomes, AsDeal!Move
  <1>4. ASSUME NEW o \in Orders, OthersStay(o), DealStep(o) PROVE AsDeal!DealNext
    <2>1. /\ GrantedOf(o) = AsDeal!Granted(o)
          /\ TakenBackOf(o) = AsDeal!TakenBack(o)
          /\ OwedOf(o) = AsDeal!OwedIfHeld(o)
      BY DEF GrantedOf, TakenBackOf, OwedOf, AsDeal!Granted, AsDeal!TakenBack,
             AsDeal!OwedIfHeld
    <2>2. \/ AsDeal!Order(o) \/ AsDeal!Pay(o) \/ AsDeal!Deliver(o)
          \/ AsDeal!Cancel(o) \/ AsDeal!Return(o)
          \/ AsDeal!PayTooLate(o) \/ AsDeal!Payout(o) \/ AsDeal!Repay(o)
      BY <1>3, <1>4, <2>1
      DEF DealStep, AsDeal!Order, AsDeal!Pay, AsDeal!Deliver, AsDeal!Cancel,
          AsDeal!Return, AsDeal!PayTooLate, AsDeal!Payout, AsDeal!Repay
    <2> QED
      BY <2>2 DEF AsDeal!DealNext
  <1>5. ASSUME NEW o \in Orders, OthersStay(o), Stays(o) PROVE \A x \in Orders : Stays(x)
    BY <1>1, <1>5 DEF OthersStay
  <1> QED
    BY <1>1, <1>2, <1>4, <1>5 DEF Simulated

-------------------------------------------------------------------------------
Good == Simulated /\ PaidIsEntitled'

(* What every case below comes down to: one row changes, by a known step. *)
LEMMA OneRow ==
    ASSUME TypeOK, PaidIsEntitled, NEW o \in Orders, OthersStay(o),
           Stays(o) \/ DealStep(o),
           payment_status'[o] = "paid" => settlement_status'[o] # "none"
    PROVE  Good
  BY DEF Good, Simulated, PaidIsEntitled, OthersStay, Row

LEMMA NoRow ==
    ASSUME PaidIsEntitled, UNCHANGED <<status, payment_status, settlementVars>>
    PROVE  Good
  BY DEF Good, Simulated, PaidIsEntitled, Row, settlementVars

USE DEF OutcomeOf, MoneyOf, ShareOf

LEMMA FulfilmentIsGood ==
    ASSUME TypeOK, MoneyInv, PaidIsEntitled, NEW o \in Orders, FulfilmentNext(o)
    PROVE  Good
  <1> USE DEF TypeOK, orderVars, settlementVars, moneyVars, Exists, OthersStay, Row,
              Stays, Becomes
  <1>1. ASSUME NEW m \in Methods, safe_checkout(o, m) PROVE Good
    <2>1. status[o] = "absent" /\ status' = [status EXCEPT ![o] = "placed"]
          /\ UNCHANGED <<payment_status, settlementVars>>
      BY <1>1 DEF safe_checkout
    <2>2. OthersStay(o) /\ DealStep(o)
      BY <2>1 DEF DealStep
    <2> QED
      BY <2>1, <2>2, OneRow DEF PaidIsEntitled
  <1>2. ASSUME CancelOrder(o), status[o] \in {"placed", "accepted"} PROVE Good
    <2>1. /\ status' = [status EXCEPT ![o] = "cancelled"]
          /\ UNCHANGED settlementVars
          /\ ensure_refund_request(o, payment_status[o])
      BY <1>2 DEF CancelOrder
    <2>2. /\ payment_status' = [payment_status EXCEPT ![o] =
                IF payment_status[o] = "paid" THEN "refund_pending" ELSE payment_status[o]]
          /\ payment_status[o] \notin REFUND_STATES
      <3>1. /\ refund_status[o] = "none" /\ payment_status[o] \notin REFUND_STATES
            /\ payment_status[o] = "paid" => payment_method[o] = "upi"
        BY <1>2, <2>1 DEF MoneyInv, Bookkeeping, RefundIsOwedExactlyWhenDead, PaymentMethod
      <3> QED
        BY <2>1, <3>1 DEF ensure_refund_request, refund_is_owed, REFUND_STATES
    <2>3. OthersStay(o) /\ DealStep(o)
      BY <1>2, <2>1, <2>2 DEF DealStep, OwedOf
    <2> QED
      BY <2>1, <2>2, <2>3, OneRow DEF PaidIsEntitled
  <1>3. CASE cancel_my_order_safely(o)
    BY <1>2, <1>3, OrderTable DEF cancel_my_order_safely
  <1>4. ASSUME NEW s \in OrderStatus, update_order_status_safely(o, s) PROVE Good
    <2>1. CASE s = "cancelled"
      BY <1>2, <1>4, <2>1, OrderTable DEF update_order_status_safely
    <2>2. CASE s # "cancelled"
      <3>1. /\ status' = [status EXCEPT ![o] = s]
            /\ UNCHANGED <<payment_status, settlementVars>>
            /\ s \in {"accepted", "preparing", "ready"}
            /\ can_transition_order(status[o], s)
            /\ status[o] # "absent"
        BY <1>4, <2>2, OrderTable
        DEF update_order_status_safely, MERCHANT_ASSIGNABLE_STATUSES
      <3>2. status[o] \in {"placed", "accepted", "preparing"}
        BY <3>1 DEF can_transition_order, ORDER_TRANSITIONS
      <3>3. OthersStay(o) /\ Stays(o)
        BY <3>1, <3>2
      <3> QED
        BY <3>1, <3>3, OneRow DEF PaidIsEntitled
    <2> QED
      BY <2>1, <2>2
  <1>5. CASE pick_up_delivery(o)
    <2>1. /\ status' = [status EXCEPT ![o] = "out_for_delivery"]
          /\ status[o] = "ready"
          /\ UNCHANGED <<payment_status, settlementVars>>
      BY <1>5, OrderTable DEF pick_up_delivery
    <2>2. OthersStay(o) /\ Stays(o)
      BY <2>1
    <2> QED
      BY <2>1, <2>2, OneRow DEF PaidIsEntitled
  <1>6. CASE resolve_failure_by_return(o)
    <2>1. /\ status' = [status EXCEPT ![o] = "returned"]
          /\ status[o] = "out_for_delivery"
          /\ void_settlement_for_refund(o)
          /\ ensure_refund_request(o, payment_status[o])
      BY <1>6, OrderTable DEF resolve_failure_by_return
    <2>2. /\ payment_status' = [payment_status EXCEPT ![o] =
                IF payment_status[o] = "paid" THEN "refund_pending" ELSE payment_status[o]]
          /\ payment_status[o] \notin REFUND_STATES
      <3>1. /\ refund_status[o] = "none" /\ payment_status[o] \notin REFUND_STATES
            /\ payment_status[o] = "paid" => payment_method[o] = "upi"
        BY <2>1 DEF MoneyInv, Bookkeeping, RefundIsOwedExactlyWhenDead, PaymentMethod
      <3> QED
        BY <2>1, <3>1 DEF ensure_refund_request, refund_is_owed, REFUND_STATES
    <2>3. OthersStay(o) /\ DealStep(o)
      BY <2>1, <2>2
      DEF DealStep, OwedOf, TakenBackOf, void_settlement_for_refund, SettlementStatus
    <2> QED
      BY <2>1, <2>2, <2>3, OneRow
  <1>7. CASE complete_delivery_with_financials(o)
    <2>1. /\ status' = [status EXCEPT ![o] = "delivered"]
          /\ status[o] = "out_for_delivery"
          /\ payment_status' = [payment_status EXCEPT ![o] = "paid"]
          /\ ensure_settlement_entry(o, "paid")
      BY <1>7, OrderTable
      DEF complete_delivery_with_financials, payment_allows_fulfillment, PaymentMethod
    <2>2. /\ payment_status[o] \notin REFUND_STATES
          /\ refund_status[o] = "none"
          /\ settlement_status[o] # "voided" /\ ~adjustment_owed[o]
      BY <2>1 DEF MoneyInv, Bookkeeping, RefundIsOwedExactlyWhenDead, REFUND_STATES
    <2>3. /\ settlement_status' = [settlement_status EXCEPT ![o] =
                IF settlement_status[o] = "none" THEN "pending" ELSE settlement_status[o]]
          /\ UNCHANGED adjustment_owed
      BY <2>1, <2>2 DEF ensure_settlement_entry, settlement_is_eligible
    <2>4. OthersStay(o) /\ DealStep(o)
      BY <2>1, <2>2, <2>3 DEF DealStep, GrantedOf, REFUND_STATES, SettlementStatus
    <2> QED
      BY <2>1, <2>3, <2>4, OneRow
  <1>8. FulfilmentNext(o) =>
          \/ \E m \in Methods : safe_checkout(o, m)
          \/ cancel_my_order_safely(o)
          \/ \E s \in OrderStatus : update_order_status_safely(o, s)
          \/ pick_up_delivery(o)
          \/ resolve_failure_by_return(o)
          \/ complete_delivery_with_financials(o)
          \/ UNCHANGED <<status, payment_status, settlementVars>>
    BY DEF FulfilmentNext, claim_delivery, admin_assign_delivery,
        auto_assign_delivery, dispatch_ready_deliveries, AssignRider,
        admin_unassign_delivery, release_delivery, recover_failed_delivery,
        resolve_failure_by_reassignment, ReleaseRider, mark_delivery_assigned,
        fail_delivery, issue_delivery_proof_challenge, reject_delivery_proof,
        verify_delivery_proof, record_cod_collection
  <1> QED
    BY <1>1, <1>3, <1>4, <1>5, <1>6, <1>7, <1>8, NoRow

LEMMA PaymentsAreGood ==
    ASSUME TypeOK, MoneyInv, PaidIsEntitled, NEW o \in Orders, PaymentNext(o)
    PROVE  Good
  <1> USE DEF TypeOK, fulfilmentVars, settlementVars, REFUND_STATES, OthersStay, Row,
              Stays, Becomes
  <1>1. PICK a \in Attempts :
            \/ create_payment_intent(o, a)
            \/ provider_capture(o, a)
            \/ verify_payment(o, a)
            \/ reject_payment_signature(o, a)
            \/ \E event \in PaidEvents : captured_webhook(o, a, event)
            \/ failed_webhook(o, a)
    BY DEF PaymentNext
  <1>2. provider_order[o][a] # "none" \/ attempt_status[o][a] # "none" =>
            payment_method[o] = "upi" /\ status[o] # "absent"
    BY DEF MoneyInv, Bookkeeping
  <1>3. ASSUME apply_paid(o, a), provider_order[o][a] = "captured", UNCHANGED status
        PROVE  Good
    <2>1. CASE ~capture_is_orphaned(o) /\ payment_status[o] = "paid"
      <3>1. UNCHANGED <<payment_status, settlementVars>>
        BY <1>3, <2>1
        DEF apply_paid, capture_is_orphaned, ensure_settlement_entry, PaidIsEntitled
      <3> QED
        BY <1>3, <3>1, NoRow
    <2>2. CASE ~capture_is_orphaned(o) /\ payment_status[o] # "paid"
      <3>1. /\ payment_status' = [payment_status EXCEPT ![o] = "paid"]
            /\ ensure_settlement_entry(o, "paid")
            /\ status[o] # "cancelled"
            /\ payment_status[o] \notin REFUND_STATES
        BY <1>3, <2>2 DEF apply_paid, capture_is_orphaned
      <3>2. /\ status[o] \notin {"absent", "cancelled", "returned", "delivered"}
            /\ refund_status[o] = "none"
            /\ settlement_status[o] # "voided" /\ ~adjustment_owed[o]
        BY <1>2, <1>3, <2>2, <3>1
        DEF MoneyInv, Bookkeeping, RefundIsOwedExactlyWhenDead, DeliveredIsEarned
      <3>3. /\ settlement_status' = [settlement_status EXCEPT ![o] =
                  IF settlement_status[o] = "none" THEN "pending"
                  ELSE settlement_status[o]]
            /\ UNCHANGED adjustment_owed
        BY <3>1, <3>2 DEF ensure_settlement_entry, settlement_is_eligible
      <3>4. OthersStay(o) /\ DealStep(o)
        BY <1>3, <2>2, <3>1, <3>2, <3>3 DEF DealStep, GrantedOf, SettlementStatus
      <3> QED
        BY <3>1, <3>3, <3>4, OneRow
    <2>3. CASE capture_is_orphaned(o) /\ payment_status[o] \notin REFUND_STATES
      <3>1. /\ ensure_refund_request(o, "paid") /\ UNCHANGED settlementVars
            /\ status[o] = "cancelled"
        BY <1>3, <2>3 DEF apply_paid, capture_is_orphaned
      <3>2. payment_status[o] # "paid" /\ refund_status[o] = "none"
        BY <2>3, <3>1 DEF MoneyInv, RefundIsOwedExactlyWhenDead
      <3>3. payment_status' = [payment_status EXCEPT ![o] = "refund_pending"]
        BY <1>2, <1>3, <3>1, <3>2 DEF ensure_refund_request, refund_is_owed
      <3>4. OthersStay(o) /\ DealStep(o)
        BY <1>3, <2>3, <3>1, <3>2, <3>3 DEF DealStep
      <3> QED
        BY <3>3, <3>4, OneRow
    <2>4. CASE capture_is_orphaned(o) /\ payment_status[o] \in REFUND_STATES
      BY <1>3, <2>4, NoRow DEF apply_paid
    <2> QED
      BY <2>1, <2>2, <2>3, <2>4
  <1>4. ASSUME apply_failed(o, a), UNCHANGED status PROVE Good
    <2>1. CASE failure_is_late(o)
      BY <1>4, <2>1, NoRow DEF apply_failed
    <2>2. CASE ~failure_is_late(o)
      <3>1. /\ payment_status' = [payment_status EXCEPT ![o] = "failed"]
            /\ UNCHANGED settlementVars
            /\ payment_status[o] \notin REFUND_STATES \cup {"paid"}
        BY <1>4, <2>2 DEF apply_failed, failure_is_late
      <3>2. OthersStay(o) /\ Stays(o)
        BY <1>4, <3>1
      <3> QED
        BY <3>1, <3>2, OneRow
    <2> QED
      BY <2>1, <2>2
  <1>5. CASE create_payment_intent(o, a) \/ provider_capture(o, a)
    BY <1>5, NoRow DEF create_payment_intent, provider_capture
  <1>6. CASE verify_payment(o, a)
    <2>1. CASE attempt_status[o][a] = "paid"
      <3>1. UNCHANGED <<status, payment_status, settlementVars>>
        BY <1>6, <2>1
        DEF verify_payment, ensure_settlement_entry, settlement_is_eligible, PaidIsEntitled
      <3> QED
        BY <3>1, NoRow
    <2>2. CASE attempt_status[o][a] # "paid"
      BY <1>3, <1>6, <2>2 DEF verify_payment
    <2> QED
      BY <2>1, <2>2
  <1>7. CASE reject_payment_signature(o, a) \/ failed_webhook(o, a)
    BY <1>4, <1>7 DEF reject_payment_signature, failed_webhook
  <1>8. ASSUME NEW event \in PaidEvents, captured_webhook(o, a, event) PROVE Good
    BY <1>3, <1>8 DEF captured_webhook
  <1> QED
    BY <1>1, <1>5, <1>6, <1>7, <1>8

LEMMA RefundsAreGood ==
    ASSUME TypeInv, MoneyInv, PaidIsEntitled,
           \/ \E o \in Orders : RefundNext(o)
           \/ \E d \in Dispatchers : DispatcherNext(d)
    PROVE  Good
  <1> USE DEF TypeInv, TypeOK, commerceVars, settlementVars, OthersStay, Row, Stays, Becomes
  <1>1. ASSUME NEW o \in Orders, NEW result, apply_provider_refund_result(o, result),
               refund_status[o] # "none", UNCHANGED status
        PROVE  Good
    <2>1. CASE result = "processed" /\ payment_status[o] # "refunded"
      <3>1. /\ payment_status' = [payment_status EXCEPT ![o] = "refunded"]
            /\ void_settlement_for_refund(o)
        BY <1>1, <2>1 DEF apply_provider_refund_result, mark_succeeded
      <3>2. payment_status[o] = "refund_pending"
        BY <1>1, <2>1 DEF MoneyInv, RefundIsOwedExactlyWhenDead, REFUND_STATES
      <3>3. OthersStay(o) /\ DealStep(o)
        BY <1>1, <3>1, <3>2
        DEF DealStep, TakenBackOf, void_settlement_for_refund, SettlementStatus
      <3> QED
        BY <3>1, <3>3, OneRow
    <2>2. CASE result = "processed" /\ payment_status[o] = "refunded"
      <3>1. UNCHANGED <<payment_status, settlementVars>>
        BY <1>1, <2>2 DEF apply_provider_refund_result, mark_succeeded
      <3> QED
        BY <1>1, <3>1, NoRow
    <2>3. CASE result # "processed"
      BY <1>1, <2>3, NoRow DEF apply_provider_refund_result
    <2> QED
      BY <2>1, <2>2, <2>3
  <1>2. ASSUME NEW o \in Orders, RefundNext(o) PROVE Good
    <2>1. ASSUME NEW s, refund_webhook(o, s) PROVE Good
      <3>1. refund_status[o] # "none"
        BY <2>1 DEF refund_webhook, reported_statuses, MoneyInv, Bookkeeping
      <3> QED
        BY <1>1, <2>1, <3>1 DEF refund_webhook
    <2>2. CASE payout_settles(o)
      <3>1. /\ settlement_status[o] = "pending"
            /\ settlement_status' = [settlement_status EXCEPT ![o] = "settled"]
            /\ UNCHANGED <<status, payment_status, adjustment_owed>>
        BY <2>2 DEF payout_settles
      <3>2. OthersStay(o) /\ (Stays(o) \/ DealStep(o))
        BY <3>1 DEF DealStep
      <3> QED
        BY <3>1, <3>2, OneRow
    <2>3. \/ park_refund(o) \/ fail_unconfigured_refund(o)
          \/ \E d \in Dispatchers : claim_refund(d, o)
          => Good
      BY NoRow DEF park_refund, fail_unconfigured_refund, claim_refund
    <2>4. \/ admin_retry_reads(o) \/ admin_retry_writes(o)
          \/ \E s \in {"processed", "failed"} : provider_settles_refund(o, s)
          => Good
      BY NoRow DEF admin_retry_reads, admin_retry_writes, provider_settles_refund
    <2> QED
      BY <1>2, <2>1, <2>2, <2>3, <2>4, Zenon DEF RefundNext
  <1>3. ASSUME NEW d \in Dispatchers, DispatcherNext(d) PROVE Good
    <2>1. CASE record_refund_answer(d)
      <3>1. call_order[d] \in Orders /\ refund_status[call_order[d]] # "none"
        BY <2>1 DEF record_refund_answer, MoneyInv, Bookkeeping, CallsNameOrders
      <3> QED
        BY <1>1, <2>1, <3>1 DEF record_refund_answer
    <2>2. \/ provider_accepts_refund(d) \/ provider_answers(d)
          \/ provider_call_fails(d) \/ record_refund_error(d) \/ dispatcher_crash(d)
          => Good
      BY NoRow
      DEF provider_accepts_refund, provider_answers, provider_call_fails,
          record_refund_error, dispatcher_crash
    <2> QED
      BY <1>3, <2>1, <2>2 DEF DispatcherNext
  <1> QED
    BY <1>2, <1>3

(* Whatever the number of orders, attempts, riders and refund threads: what  *)
(* the handlers, webhooks and dispatchers do to the goods, the customer's  *)
(* money and the merchant's share is the deal and nothing else.            *)
THEOREM DealIsKept == Spec => ImplementsDeal
  <1>1. Init => PaidIsEntitled /\ AsDeal!DealInit
    BY DEF Init, PaidIsEntitled, AsDeal!DealInit
  <1>2. TypeInv /\ MoneyInv /\ PaidIsEntitled /\ [Next]_vars =>
          PaidIsEntitled' /\ [AsDeal!DealNext]_(AsDeal!dealVars)
    <2>1. UNCHANGED vars => UNCHANGED <<status, payment_status, settlementVars>>
      BY DEF vars, orderVars
    <2>2. ASSUME TypeInv, MoneyInv, PaidIsEntitled, [Next]_vars PROVE Good
      BY <2>1, <2>2, FulfilmentIsGood, PaymentsAreGood, RefundsAreGood, NoRow
      DEF Next, TypeInv
    <2> QED
      BY <2>2, SimulatedIsAStep DEF Good
  <1> QED
    BY <1>1, <1>2, MoneyInvariant, PTL DEF Spec, ImplementsDeal, AsDeal!DealSpec
===============================================================================
