-------------------------- MODULE OrderLifecycleProofs --------------------------
(***************************************************************************)
(* The invariants of OrderLifecycle for every number of orders, riders,    *)
(* attempts and dispatchers and every value of the ceilings: types, one    *)
(* delivery per rider, and money.                                          *)
(***************************************************************************)
EXTENDS OrderLifecycle, TLAPS

(* What the two transition tables allow, as the proofs use them. *)
LEMMA OrderTable ==
    ASSUME NEW s, NEW t, can_transition_order(s, t)
    PROVE  /\ s \in {"placed", "accepted", "preparing", "ready", "out_for_delivery"}
           /\ t = "cancelled" => s \in {"placed", "accepted"}
           /\ t = "ready" => s = "preparing"
           /\ t = "out_for_delivery" => s = "ready"
           /\ t \in {"delivered", "returned"} => s = "out_for_delivery"
  BY DEF can_transition_order, ORDER_TRANSITIONS

LEMMA DeliveryTable ==
    ASSUME NEW s, NEW t, can_transition_delivery(s, t)
    PROVE  /\ t = "assigned" => s = "unassigned"
           /\ t = "unassigned" => s \in {"assigned", "failed"}
           /\ t = "picked_up" => s = "assigned"
           /\ t = "delivered" => s = "picked_up"
  BY DEF can_transition_delivery, DELIVERY_TRANSITIONS

-------------------------------------------------------------------------------
(* Type correctness, one lemma per component.  It needs one fact about       *)
(* threads: a call in flight names the order it is for.                    *)

CallsNameOrders ==
    \A d \in Dispatchers : call_state[d] # "idle" => call_order[d] \in Orders

TypeInv == TypeOK /\ CallsNameOrders

LEMMA InitTyped == Init => TypeOK
  BY OrderStateAssumption
  DEF Init, TypeOK, OrderStatus, PaymentMethod, PaymentStatus, DeliveryStatus,
      AttemptStatus, RefundStatus, SettlementStatus, ProviderOrder, ProviderRefund,
      CallState

(* Every handler of Fulfilment keeps the types. *)
LEMMA FulfilmentTyped ==
    ASSUME TypeOK, NEW o \in Orders, FulfilmentNext(o)
    PROVE  TypeOK'
  <1> USE OrderStateAssumption
      DEF TypeOK, orderVars, deliveryVars, proofVars, attemptVars, refundVars,
          settlementVars, providerVars, callVars, moneyVars
  <1>1. ASSUME NEW m \in Methods, safe_checkout(o, m) PROVE TypeOK'
    BY <1>1 DEF safe_checkout, OrderStatus
  <1>2. ASSUME CancelOrder(o) PROVE TypeOK'
    BY <1>2 DEF CancelOrder, restore_order_stock_once, ensure_refund_request,
                OrderStatus, PaymentStatus, RefundStatus, captured_attempt_recorded
  <1>3. CASE cancel_my_order_safely(o)
    BY <1>2, <1>3 DEF cancel_my_order_safely
  <1>4. ASSUME NEW s \in OrderStatus, update_order_status_safely(o, s) PROVE TypeOK'
    <2>1. CASE s = "cancelled"
      BY <1>2, <1>4, <2>1 DEF update_order_status_safely
    <2>2. CASE s # "cancelled"
      <3>1. /\ status' = [status EXCEPT ![o] = s]
            /\ UNCHANGED <<payment_method, payment_status, stock_restored,
                           deliveryVars, proofVars, moneyVars>>
        BY <1>4, <2>2 DEF update_order_status_safely
      <3> QED
        BY <3>1
    <2> QED
      BY <2>1, <2>2
  <1>5. ASSUME NEW r \in Riders, AssignRider(o, r) PROVE TypeOK'
    BY <1>5 DEF AssignRider, DeliveryStatus
  <1>6. ASSUME ReleaseRider(o) PROVE TypeOK'
    BY <1>6 DEF ReleaseRider, DeliveryStatus
  <1>7. CASE pick_up_delivery(o)
    BY <1>7 DEF pick_up_delivery, DeliveryStatus, OrderStatus
  <1>8. CASE mark_delivery_assigned(o)
    BY <1>8 DEF mark_delivery_assigned, DeliveryStatus
  <1>9. CASE fail_delivery(o)
    BY <1>9 DEF fail_delivery, DeliveryStatus
  <1>10. CASE resolve_failure_by_return(o)
    BY <1>10 DEF resolve_failure_by_return, restore_order_stock_once,
                 void_settlement_for_refund, ensure_refund_request,
                 captured_attempt_recorded, OrderStatus, PaymentStatus,
                 RefundStatus, SettlementStatus
  <1>11. CASE issue_delivery_proof_challenge(o)
    BY <1>11 DEF issue_delivery_proof_challenge
  <1>12. CASE reject_delivery_proof(o)
    BY <1>12 DEF reject_delivery_proof, may_guess, proof_is_locked
  <1>13. CASE verify_delivery_proof(o)
    BY <1>13 DEF verify_delivery_proof
  <1>14. CASE record_cod_collection(o)
    BY <1>14 DEF record_cod_collection
  <1>15. CASE complete_delivery_with_financials(o)
    BY <1>15 DEF complete_delivery_with_financials, ensure_settlement_entry,
                 OrderStatus, PaymentStatus, DeliveryStatus, SettlementStatus
  <1> QED
    BY <1>1, <1>3, <1>4, <1>5, <1>6, <1>7, <1>8, <1>9, <1>10, <1>11, <1>12,
       <1>13, <1>14, <1>15
    DEF FulfilmentNext, claim_delivery, admin_assign_delivery,
        auto_assign_delivery, dispatch_ready_deliveries, admin_unassign_delivery,
        release_delivery, recover_failed_delivery, resolve_failure_by_reassignment

(* So does every payment handler ... *)
LEMMA PaymentsTyped ==
    ASSUME TypeOK, NEW o \in Orders, PaymentNext(o)
    PROVE  TypeOK'
  <1> USE DEF TypeOK, fulfilmentVars, deliveryVars, proofVars, attemptVars, refundVars,
          settlementVars, providerVars, callVars
  <1>1. PICK a \in Attempts :
            \/ create_payment_intent(o, a)
            \/ provider_capture(o, a)
            \/ verify_payment(o, a)
            \/ reject_payment_signature(o, a)
            \/ \E event \in PaidEvents : captured_webhook(o, a, event)
            \/ failed_webhook(o, a)
    BY DEF PaymentNext
  <1>2. CASE create_payment_intent(o, a)
    BY <1>2 DEF create_payment_intent, AttemptStatus, ProviderOrder
  <1>3. CASE provider_capture(o, a)
    BY <1>3 DEF provider_capture, ProviderOrder
  <1>4. ASSUME apply_paid(o, a)
        PROVE  /\ (attempt_status \in [Orders -> [Attempts -> AttemptStatus]])'
               /\ (payment_status \in [Orders -> PaymentStatus])'
               /\ (refund_status \in [Orders -> RefundStatus])'
               /\ (refund_attempts \in [Orders -> 0..MaxRefundAttempts])'
               /\ (refund_payment_known \in [Orders -> BOOLEAN])'
               /\ (settlement_status \in [Orders -> SettlementStatus])'
               /\ (adjustment_owed \in [Orders -> BOOLEAN])'
    <2> USE DEF AttemptStatus, PaymentStatus, RefundStatus, SettlementStatus
    <2>1. attempt_status' = [attempt_status EXCEPT ![o][a] = "paid"]
      BY <1>4 DEF apply_paid
    <2>2. CASE ~capture_is_orphaned(o)
      <3>1. /\ payment_status' = [payment_status EXCEPT ![o] = "paid"]
            /\ ensure_settlement_entry(o, "paid")
            /\ UNCHANGED refundVars
        BY <1>4, <2>2 DEF apply_paid
      <3> QED
        BY <2>1, <3>1 DEF ensure_settlement_entry
    <2>3. CASE capture_is_orphaned(o) /\ payment_status[o] \notin REFUND_STATES
      <3>1. ensure_refund_request(o, "paid") /\ UNCHANGED settlementVars
        BY <1>4, <2>3 DEF apply_paid
      <3> QED
        BY <2>1, <3>1 DEF ensure_refund_request, captured_attempt_recorded
    <2>4. CASE capture_is_orphaned(o) /\ payment_status[o] \in REFUND_STATES
      BY <1>4, <2>1, <2>4 DEF apply_paid
    <2> QED
      BY <2>2, <2>3, <2>4
  <1>5. ASSUME apply_failed(o, a)
        PROVE  /\ (attempt_status \in [Orders -> [Attempts -> AttemptStatus]])'
               /\ (payment_status \in [Orders -> PaymentStatus])'
               /\ UNCHANGED <<refundVars, settlementVars>>
    <2>1. CASE failure_is_late(o)
      BY <1>5, <2>1 DEF apply_failed
    <2>2. CASE ~failure_is_late(o)
      <3>1. /\ attempt_status' = [attempt_status EXCEPT ![o][a] = "failed"]
            /\ payment_status' = [payment_status EXCEPT ![o] = "failed"]
            /\ UNCHANGED <<refundVars, settlementVars>>
        BY <1>5, <2>2 DEF apply_failed
      <3> QED
        BY <3>1 DEF AttemptStatus, PaymentStatus
    <2> QED
      BY <2>1, <2>2
  <1>6. CASE verify_payment(o, a)
    <2>1. CASE attempt_status[o][a] = "paid"
      BY <1>6, <2>1 DEF verify_payment, ensure_settlement_entry, SettlementStatus
    <2>2. CASE attempt_status[o][a] # "paid"
      BY <1>4, <1>6, <2>2 DEF verify_payment
    <2> QED
      BY <2>1, <2>2
  <1>7. CASE reject_payment_signature(o, a)
    BY <1>5, <1>7 DEF reject_payment_signature
  <1>8. ASSUME NEW event \in PaidEvents, captured_webhook(o, a, event) PROVE TypeOK'
    BY <1>4, <1>8 DEF captured_webhook, first_delivery, PaymentEvents
  <1>9. CASE failed_webhook(o, a)
    BY <1>5, <1>9 DEF failed_webhook, first_delivery, PaymentEvents
  <1> QED
    BY <1>1, <1>2, <1>3, <1>6, <1>7, <1>8, <1>9

(* What a refund answer or webhook leaves in the rows it may touch. *)
LEMMA RefundResultTyped ==
    ASSUME TypeOK, NEW o, NEW result, apply_provider_refund_result(o, result)
    PROVE  /\ (payment_status \in [Orders -> PaymentStatus])'
           /\ (refund_status \in [Orders -> RefundStatus])'
           /\ (settlement_status \in [Orders -> SettlementStatus])'
           /\ (adjustment_owed \in [Orders -> BOOLEAN])'
           /\ UNCHANGED <<refund_attempts, refund_payment_known>>
  <1>0. /\ payment_status \in [Orders -> PaymentStatus]
        /\ refund_status \in [Orders -> RefundStatus]
        /\ settlement_status \in [Orders -> SettlementStatus]
        /\ adjustment_owed \in [Orders -> BOOLEAN]
    BY DEF TypeOK
  <1> USE <1>0 DEF PaymentStatus, RefundStatus, SettlementStatus
  <1>1. CASE result = "processed" /\ payment_status[o] # "refunded"
    <2>1. /\ refund_status' = [refund_status EXCEPT ![o] = "succeeded"]
          /\ payment_status' = [payment_status EXCEPT ![o] = "refunded"]
          /\ void_settlement_for_refund(o)
          /\ UNCHANGED <<refund_attempts, refund_payment_known>>
      BY <1>1 DEF apply_provider_refund_result, mark_succeeded
    <2>2. /\ settlement_status' \in [Orders -> SettlementStatus]
          /\ adjustment_owed' \in [Orders -> BOOLEAN]
      BY <2>1 DEF void_settlement_for_refund
    <2> QED
      BY <2>1, <2>2
  <1>2. CASE result = "processed" /\ payment_status[o] = "refunded"
    BY <1>2 DEF apply_provider_refund_result, mark_succeeded, settlementVars
  <1>3. CASE result # "processed"
    BY <1>3 DEF apply_provider_refund_result, settlementVars
  <1> QED
    BY <1>1, <1>2, <1>3

(* ... every operation on one order's refund ... *)
LEMMA RefundsTyped ==
    ASSUME TypeOK, NEW o \in Orders, RefundNext(o)
    PROVE  TypeOK'
  <1> USE OrderStateAssumption
      DEF TypeOK, commerceVars, deliveryVars, proofVars, refundVars,
          settlementVars, providerVars, callVars
  <1>1. CASE park_refund(o)
    BY <1>1 DEF park_refund, RefundStatus
  <1>2. CASE fail_unconfigured_refund(o)
    BY <1>2 DEF fail_unconfigured_refund, RefundStatus
  <1>3. CASE admin_retry_reads(o)
    BY <1>3 DEF admin_retry_reads
  <1>4. CASE admin_retry_writes(o)
    BY <1>4 DEF admin_retry_writes
  <1>5. CASE payout_settles(o)
    BY <1>5 DEF payout_settles, SettlementStatus
  <1>6. ASSUME NEW s \in {"processed", "failed"}, provider_settles_refund(o, s)
        PROVE  TypeOK'
    BY <1>6 DEF provider_settles_refund, ProviderRefund
  <1>7. ASSUME NEW s \in {"pending", "processed", "failed"}, refund_webhook(o, s)
        PROVE  TypeOK'
    BY <1>7, RefundResultTyped DEF refund_webhook, RefundEvents
  <1>8. ASSUME NEW d \in Dispatchers, claim_refund(d, o) PROVE TypeOK'
    BY <1>8 DEF claim_refund, dispatchable, RefundStatus, CallState
  <1> QED
    BY <1>1, <1>2, <1>3, <1>4, <1>5, <1>6, <1>7, <1>8 DEF RefundNext

(* ... and every step of a dispatching thread. *)
LEMMA DispatchersTyped ==
    ASSUME TypeOK, CallsNameOrders, NEW d \in Dispatchers, DispatcherNext(d)
    PROVE  TypeOK'
  <1> USE DEF TypeOK, commerceVars, deliveryVars, proofVars, refundVars,
          settlementVars, providerVars, callVars
  <1>1. CASE provider_accepts_refund(d)
    BY <1>1 DEF provider_accepts_refund, ProviderRefund
  <1>2. CASE provider_answers(d)
    BY <1>2 DEF provider_answers, CallsNameOrders, ProviderRefund, CallState
  <1>3. CASE provider_call_fails(d)
    BY <1>3 DEF provider_call_fails, CallState
  <1>4. CASE record_refund_answer(d)
    BY <1>4, RefundResultTyped DEF record_refund_answer, CallEnds, CallState
  <1>5. CASE record_refund_error(d)
    BY <1>5 DEF record_refund_error, CallEnds, RefundStatus, CallState
  <1>6. CASE dispatcher_crash(d)
    BY <1>6 DEF dispatcher_crash, CallEnds, CallState
  <1> QED
    BY <1>1, <1>2, <1>3, <1>4, <1>5, <1>6 DEF DispatcherNext

LEMMA StutterTyped == TypeOK /\ UNCHANGED vars => TypeOK'
  BY DEF TypeOK, vars, orderVars, deliveryVars, proofVars, attemptVars, refundVars,
         settlementVars, providerVars, callVars

LEMMA CallsStayNamed ==
    ASSUME TypeOK, CallsNameOrders, [Next]_vars
    PROVE  CallsNameOrders'
  <1>1. ASSUME UNCHANGED callVars PROVE CallsNameOrders'
    BY <1>1 DEF CallsNameOrders, callVars
  <1>2. ASSUME NEW o \in Orders, FulfilmentNext(o) PROVE UNCHANGED callVars
    BY <1>2 DEF FulfilmentNext, safe_checkout, cancel_my_order_safely, CancelOrder,
        update_order_status_safely, claim_delivery, admin_assign_delivery,
        auto_assign_delivery, dispatch_ready_deliveries, AssignRider,
        admin_unassign_delivery, release_delivery, ReleaseRider, pick_up_delivery,
        mark_delivery_assigned, fail_delivery, recover_failed_delivery,
        resolve_failure_by_reassignment, resolve_failure_by_return,
        issue_delivery_proof_challenge, reject_delivery_proof,
        verify_delivery_proof, record_cod_collection,
        complete_delivery_with_financials, moneyVars
  <1>3. ASSUME NEW o \in Orders, PaymentNext(o) PROVE UNCHANGED callVars
    BY <1>3 DEF PaymentNext, create_payment_intent, provider_capture, verify_payment,
        reject_payment_signature, captured_webhook, failed_webhook
  <1>4. ASSUME NEW o \in Orders, NEW d \in Dispatchers, claim_refund(d, o)
        PROVE  CallsNameOrders'
    BY <1>4 DEF claim_refund, CallsNameOrders, TypeOK
  <1>5. ASSUME NEW o \in Orders, RefundNext(o) PROVE CallsNameOrders'
    BY <1>1, <1>4, <1>5
    DEF RefundNext, park_refund, fail_unconfigured_refund, admin_retry_reads,
        admin_retry_writes, payout_settles, provider_settles_refund,
        refund_webhook, callVars, CallsNameOrders
  <1>6. ASSUME NEW d \in Dispatchers, CallEnds(d) PROVE CallsNameOrders'
    BY <1>6 DEF CallEnds, CallsNameOrders, TypeOK
  <1>7. ASSUME NEW d \in Dispatchers, DispatcherNext(d) PROVE CallsNameOrders'
    BY <1>1, <1>6, <1>7
    DEF DispatcherNext, provider_accepts_refund, provider_answers,
        provider_call_fails, record_refund_answer, record_refund_error,
        dispatcher_crash, CallsNameOrders, TypeOK
  <1> QED
    BY <1>1, <1>2, <1>3, <1>5, <1>7 DEF Next, vars

LEMMA InitTypeInv == Init => TypeInv
  BY InitTyped DEF Init, TypeInv, CallsNameOrders

LEMMA NextTypeInv == TypeInv /\ [Next]_vars => TypeInv'
  BY FulfilmentTyped, PaymentsTyped, RefundsTyped, DispatchersTyped, StutterTyped,
     CallsStayNamed
  DEF Next, TypeInv

(* Type correctness, the ceilings on wrong delivery codes, issued codes and  *)
(* refund attempts included, for every number of orders, riders, threads   *)
(* and every value of the ceilings.                                        *)
THEOREM TypeCorrect == Spec => []TypeOK
  <1>1. TypeInv => TypeOK
    BY DEF TypeInv
  <1> QED
    BY InitTypeInv, NextTypeInv, <1>1, PTL DEF Spec

-------------------------------------------------------------------------------
(* One active delivery per rider.  The busy check of the assignment paths  *)
(* is not the whole argument: a delivery marked assigned without naming a  *)
(* rider, or picked up, stays with whoever its row names, so the pool must *)
(* hold no named rider.                                                    *)

PoolIsUnnamed ==
    \A o \in Orders : delivery_status[o] = "unassigned" => delivery_partner[o] = NoRider

RiderInv == OneActiveDeliveryPerRider /\ PoolIsUnnamed

(* Only fulfilment touches the delivery rows. *)
LEMMA DeliveriesAreFulfilments ==
    ASSUME [Next]_vars
    PROVE  (\E o \in Orders : FulfilmentNext(o)) \/ UNCHANGED deliveryVars
  <1>1. ASSUME NEW o \in Orders, PaymentNext(o) PROVE UNCHANGED deliveryVars
    BY <1>1 DEF PaymentNext, create_payment_intent, provider_capture, verify_payment,
        reject_payment_signature, captured_webhook, failed_webhook, fulfilmentVars
  <1>2. ASSUME NEW o \in Orders, RefundNext(o) PROVE UNCHANGED deliveryVars
    BY <1>2 DEF RefundNext, park_refund, fail_unconfigured_refund, admin_retry_reads,
        admin_retry_writes, payout_settles, provider_settles_refund,
        refund_webhook, claim_refund, commerceVars
  <1>3. ASSUME NEW d \in Dispatchers, DispatcherNext(d) PROVE UNCHANGED deliveryVars
    BY <1>3 DEF DispatcherNext, provider_accepts_refund, provider_answers,
        provider_call_fails, record_refund_answer, record_refund_error,
        dispatcher_crash, commerceVars
  <1> QED
    BY <1>1, <1>2, <1>3 DEF Next, vars

LEMMA FulfilmentRiders ==
    ASSUME TypeOK, RiderInv, NEW o \in Orders, FulfilmentNext(o)
    PROVE  RiderInv'
  <1> USE OrderStateAssumption
      DEF RiderInv, OneActiveDeliveryPerRider, PoolIsUnnamed, TypeOK, deliveryVars,
          ACTIVE_DELIVERY_STATUSES
  <1>1. ASSUME NEW r \in Riders, AssignRider(o, r) PROVE RiderInv'
    BY <1>1 DEF AssignRider, rider_is_busy
  <1>2. ASSUME ReleaseRider(o) PROVE RiderInv'
    BY <1>2 DEF ReleaseRider
  <1>3. CASE pick_up_delivery(o)
    BY <1>3, DeliveryTable DEF pick_up_delivery
  <1>4. CASE mark_delivery_assigned(o)
    BY <1>4, DeliveryTable DEF mark_delivery_assigned
  <1>5. CASE fail_delivery(o)
    BY <1>5 DEF fail_delivery
  <1>6. CASE complete_delivery_with_financials(o)
    BY <1>6 DEF complete_delivery_with_financials
  <1>7. ASSUME UNCHANGED deliveryVars PROVE RiderInv'
    BY <1>7
  <1>8. ASSUME NEW s \in OrderStatus, update_order_status_safely(o, s)
        PROVE  UNCHANGED deliveryVars
    BY <1>8 DEF update_order_status_safely, CancelOrder
  <1>9. (\E m \in Methods : safe_checkout(o, m)) \/ cancel_my_order_safely(o)
        \/ resolve_failure_by_return(o) \/ issue_delivery_proof_challenge(o)
        \/ reject_delivery_proof(o) \/ verify_delivery_proof(o)
        \/ record_cod_collection(o) => UNCHANGED deliveryVars
    BY DEF safe_checkout, cancel_my_order_safely, CancelOrder,
           resolve_failure_by_return, issue_delivery_proof_challenge,
           reject_delivery_proof, verify_delivery_proof, record_cod_collection
  <1> QED
    BY <1>1, <1>2, <1>3, <1>4, <1>5, <1>6, <1>7, <1>8, <1>9
    DEF FulfilmentNext, claim_delivery, admin_assign_delivery,
        auto_assign_delivery, dispatch_ready_deliveries, admin_unassign_delivery,
        release_delivery, recover_failed_delivery, resolve_failure_by_reassignment

(* Self-claim, manual assignment, automatic dispatch and the worker never    *)
(* give a rider a second active delivery, in any order of their requests.  *)
THEOREM RidersCarryOneDelivery == Spec => []OneActiveDeliveryPerRider
  <1>1. Init => RiderInv
    BY DEF Init, RiderInv, OneActiveDeliveryPerRider, PoolIsUnnamed
  <1>2. TypeOK /\ RiderInv /\ [Next]_vars => RiderInv'
    <2> SUFFICES ASSUME TypeOK, RiderInv, [Next]_vars PROVE RiderInv'
      OBVIOUS
    <2>1. CASE UNCHANGED deliveryVars
      BY <2>1 DEF RiderInv, OneActiveDeliveryPerRider, PoolIsUnnamed, deliveryVars
    <2> QED
      BY <2>1, DeliveriesAreFulfilments, FulfilmentRiders
  <1>3. RiderInv => OneActiveDeliveryPerRider
    BY DEF RiderInv
  <1> QED
    BY <1>1, <1>2, <1>3, TypeCorrect, PTL DEF Spec

-------------------------------------------------------------------------------
(* Money.  No invariant is inductive alone: that a refund answer may not   *)
(* contradict the order's status, for one, rests on which orders can have  *)
(* a refund in flight at all.  MoneyInv is their conjunction with the      *)
(* bookkeeping they share.                                                 *)

(* Which orders own which rows, and that an answer in flight is true. *)
Bookkeeping ==
    /\ \A o \in Orders :
        /\ status[o] = "absent" => payment_status[o] = "pending"
        /\ payment_method[o] = "cod" =>
             /\ payment_status[o] \in {"pending", "paid"}
             /\ payment_status[o] = "paid" <=> status[o] = "delivered"
        /\ payment_method[o] = "upi" /\ status[o] = "returned" =>
             payment_status[o] \in REFUND_STATES
        /\ settlement_status[o] = "voided" \/ adjustment_owed[o] =>
             payment_status[o] = "refunded" \/ status[o] = "returned"
        /\ provider_refund[o] # "none" => refund_status[o] # "none"
        /\ \A a \in Attempts :
             attempt_status[o][a] # "none" \/ provider_order[o][a] # "none" =>
                payment_method[o] = "upi" /\ status[o] # "absent"
    /\ \A d \in Dispatchers :
        call_state[d] # "idle" =>
            /\ refund_status[call_order[d]] # "none"
            /\ call_state[d] = "processed" =>
                 provider_refund[call_order[d]] = "processed"

MoneyInv ==
    /\ OnlineGoodsArePaid
    /\ RefundIsOwedExactlyWhenDead
    /\ RefundedOnlyAfterProvider
    /\ MoneyBackIsNotTheMerchants
    /\ DeliveredIsEarned
    /\ CustodyIsNeverReassigned
    /\ Bookkeeping

USE DEF MoneyInv, OnlineGoodsArePaid, RefundIsOwedExactlyWhenDead,
        RefundedOnlyAfterProvider, MoneyBackIsNotTheMerchants, DeliveredIsEarned,
        CustodyIsNeverReassigned, Bookkeeping, REFUND_STATES, TypeInv,
        CallsNameOrders, Exists

LEMMA InitMoney == Init => MoneyInv
  BY DEF Init

(* Handlers of Fulfilment preserve it ... *)
LEMMA FulfilmentMoney ==
    ASSUME TypeInv, MoneyInv, NEW o \in Orders, FulfilmentNext(o)
    PROVE  MoneyInv'
  <1> USE OrderStateAssumption
      DEF TypeOK, orderVars, deliveryVars, proofVars, attemptVars, refundVars,
          settlementVars, providerVars, callVars, moneyVars
  <1>1. ASSUME NEW m \in Methods, safe_checkout(o, m) PROVE MoneyInv'
    BY <1>1 DEF safe_checkout, PaymentMethod
  <1>2. ASSUME CancelOrder(o), status[o] \in {"placed", "accepted"} PROVE MoneyInv'
    BY <1>2 DEF CancelOrder, ensure_refund_request, refund_is_owed, PaymentMethod
  <1>3. CASE cancel_my_order_safely(o)
    BY <1>2, <1>3, OrderTable DEF cancel_my_order_safely
  <1>4. ASSUME NEW s \in OrderStatus, update_order_status_safely(o, s) PROVE MoneyInv'
    <2>1. CASE s = "cancelled"
      BY <1>2, <1>4, <2>1, OrderTable DEF update_order_status_safely
    <2>2. CASE s # "cancelled"
      <3>1. /\ status' = [status EXCEPT ![o] = s]
            /\ UNCHANGED <<payment_method, payment_status, stock_restored,
                           deliveryVars, proofVars, moneyVars>>
        BY <1>4, <2>2 DEF update_order_status_safely
      <3>2. /\ s \in {"accepted", "preparing", "ready"}
            /\ status[o] \in {"placed", "accepted", "preparing", "ready", "out_for_delivery"}
            /\ s = "ready" =>
                 payment_method[o] = "cod" \/ payment_status[o] = "paid"
        BY <1>4, <2>2, OrderTable
        DEF update_order_status_safely, MERCHANT_ASSIGNABLE_STATUSES,
            ready_is_allowed, payment_allows_fulfillment
      <3>3. status[o] \in {"placed", "accepted", "preparing"}
        BY <1>4, <3>2
        DEF update_order_status_safely, can_transition_order, ORDER_TRANSITIONS
      <3> QED
        BY <3>1, <3>2, <3>3
    <2> QED
      BY <2>1, <2>2
  <1>5. ASSUME NEW r \in Riders, AssignRider(o, r) PROVE MoneyInv'
    BY <1>5 DEF AssignRider, ready_for_rider
  <1>6. ASSUME ReleaseRider(o), status[o] = "ready" PROVE MoneyInv'
    BY <1>6 DEF ReleaseRider
  <1>7. CASE pick_up_delivery(o)
    BY <1>7, OrderTable DEF pick_up_delivery, payment_allows_fulfillment
  <1>8. CASE mark_delivery_assigned(o)
    BY <1>8, DeliveryTable DEF mark_delivery_assigned
  <1>9. CASE fail_delivery(o)
    BY <1>9 DEF fail_delivery, ACTIVE_DELIVERY_STATUSES
  <1>10. CASE resolve_failure_by_return(o)
    BY <1>10, OrderTable
    DEF resolve_failure_by_return, void_settlement_for_refund,
        ensure_refund_request, refund_is_owed, PaymentMethod, SettlementStatus
  <1>11. CASE issue_delivery_proof_challenge(o)
    BY <1>11 DEF issue_delivery_proof_challenge
  <1>12. CASE reject_delivery_proof(o)
    BY <1>12 DEF reject_delivery_proof
  <1>13. CASE verify_delivery_proof(o)
    BY <1>13 DEF verify_delivery_proof
  <1>14. CASE record_cod_collection(o)
    BY <1>14 DEF record_cod_collection
  <1>15. CASE complete_delivery_with_financials(o)
    BY <1>15, OrderTable
    DEF complete_delivery_with_financials, completion_evidence,
        ensure_settlement_entry, settlement_is_eligible,
        payment_allows_fulfillment, PaymentMethod, SettlementStatus
  <1> QED
    BY <1>1, <1>3, <1>4, <1>5, <1>6, <1>7, <1>8, <1>9, <1>10, <1>11, <1>12,
       <1>13, <1>14, <1>15
    DEF FulfilmentNext, claim_delivery, admin_assign_delivery,
        auto_assign_delivery, dispatch_ready_deliveries, admin_unassign_delivery,
        release_delivery, recover_failed_delivery, resolve_failure_by_reassignment,
        may_be_reassigned

(* ... so do the payment handlers: a capture or failure that comes late      *)
(* finds the order in a state the guards of _apply_paid and _apply_failed  *)
(* tell apart ...                                                          *)
LEMMA PaymentsMoney ==
    ASSUME TypeInv, MoneyInv, NEW o \in Orders, PaymentNext(o)
    PROVE  MoneyInv'
  <1> USE DEF TypeOK, fulfilmentVars, deliveryVars, proofVars, attemptVars,
              refundVars, settlementVars, providerVars, callVars
  <1>1. PICK a \in Attempts :
            \/ create_payment_intent(o, a)
            \/ provider_capture(o, a)
            \/ verify_payment(o, a)
            \/ reject_payment_signature(o, a)
            \/ \E event \in PaidEvents : captured_webhook(o, a, event)
            \/ failed_webhook(o, a)
    BY DEF PaymentNext
  <1>2. CASE create_payment_intent(o, a)
    BY <1>2 DEF create_payment_intent
  <1>3. CASE provider_capture(o, a)
    BY <1>3 DEF provider_capture
  <1>4. ASSUME apply_paid(o, a), provider_order[o][a] = "captured",
               UNCHANGED <<fulfilmentVars, providerVars, callVars>>
        PROVE  MoneyInv'
    <2>1. /\ attempt_status' = [attempt_status EXCEPT ![o][a] = "paid"]
          /\ payment_method[o] = "upi" /\ status[o] # "absent"
      BY <1>4 DEF apply_paid
    <2>2. CASE ~capture_is_orphaned(o)
      <3>1. /\ payment_status' = [payment_status EXCEPT ![o] = "paid"]
            /\ ensure_settlement_entry(o, "paid")
            /\ UNCHANGED refundVars
            /\ status[o] \notin {"cancelled", "returned"}
            /\ payment_status[o] \notin REFUND_STATES
        BY <1>4, <2>1, <2>2 DEF apply_paid, capture_is_orphaned
      <3> QED
        BY <1>4, <2>1, <3>1 DEF ensure_settlement_entry, settlement_is_eligible
    <2>3. CASE capture_is_orphaned(o) /\ payment_status[o] \notin REFUND_STATES
      <3>1. /\ ensure_refund_request(o, "paid")
            /\ UNCHANGED settlementVars
            /\ status[o] = "cancelled"
        BY <1>4, <2>3 DEF apply_paid, capture_is_orphaned
      <3> QED
        BY <1>4, <2>1, <2>3, <3>1 DEF ensure_refund_request, refund_is_owed
    <2>4. CASE capture_is_orphaned(o) /\ payment_status[o] \in REFUND_STATES
      <3>1. UNCHANGED <<payment_status, refundVars, settlementVars>>
        BY <1>4, <2>4 DEF apply_paid
      <3> QED
        BY <1>4, <2>1, <3>1
    <2> QED
      BY <2>2, <2>3, <2>4
  <1>5. ASSUME apply_failed(o, a),
               payment_method[o] = "upi" /\ status[o] # "absent",
               UNCHANGED <<fulfilmentVars, providerVars, callVars>>
        PROVE  MoneyInv'
    <2>1. CASE failure_is_late(o)
      BY <1>5, <2>1 DEF apply_failed
    <2>2. CASE ~failure_is_late(o)
      <3>1. /\ attempt_status' = [attempt_status EXCEPT ![o][a] = "failed"]
            /\ payment_status' = [payment_status EXCEPT ![o] = "failed"]
            /\ UNCHANGED <<refundVars, settlementVars>>
            /\ status[o] # "cancelled"
            /\ payment_status[o] \notin REFUND_STATES \cup {"paid"}
        BY <1>5, <2>2 DEF apply_failed, failure_is_late
      <3> QED
        BY <1>5, <3>1
    <2> QED
      BY <2>1, <2>2
  <1>6. CASE verify_payment(o, a)
    <2>1. CASE attempt_status[o][a] # "paid"
      BY <1>4, <1>6, <2>1 DEF verify_payment
    <2>2. CASE attempt_status[o][a] = "paid" /\ capture_is_orphaned(o)
      BY <1>6, <2>2 DEF verify_payment
    <2>3. CASE attempt_status[o][a] = "paid" /\ ~capture_is_orphaned(o)
      <3>1. /\ ensure_settlement_entry(o, payment_status[o])
            /\ UNCHANGED <<payment_status, attempt_status, refundVars,
                           fulfilmentVars, providerVars, callVars>>
            /\ status[o] # "cancelled"
        BY <1>6, <2>3 DEF verify_payment, capture_is_orphaned
      <3> QED
        BY <3>1 DEF ensure_settlement_entry, settlement_is_eligible
    <2> QED
      BY <2>1, <2>2, <2>3
  <1>7. CASE reject_payment_signature(o, a)
    BY <1>5, <1>7 DEF reject_payment_signature
  <1>8. ASSUME NEW event \in PaidEvents, captured_webhook(o, a, event) PROVE MoneyInv'
    BY <1>4, <1>8 DEF captured_webhook
  <1>9. CASE failed_webhook(o, a)
    BY <1>5, <1>9 DEF failed_webhook
  <1> QED
    BY <1>1, <1>2, <1>3, <1>6, <1>7, <1>8, <1>9

(* ... a refund result, as long as the refund exists and the provider has    *)
(* processed it if the result says so ...                                  *)
LEMMA RefundResultMoney ==
    ASSUME TypeInv, MoneyInv, NEW o \in Orders, NEW result,
           apply_provider_refund_result(o, result),
           refund_status[o] # "none",
           result = "processed" => provider_refund[o] = "processed",
           UNCHANGED <<commerceVars, providerVars>>,
           \A d \in Dispatchers :
               call_state'[d] # "idle" =>
                   call_state'[d] = call_state[d] /\ call_order'[d] = call_order[d]
    PROVE  MoneyInv'
  <1> USE DEF TypeOK, commerceVars, deliveryVars, proofVars, refundVars,
              settlementVars, providerVars
  <1>1. CASE result = "processed" /\ payment_status[o] # "refunded"
    <2>1. /\ refund_status' = [refund_status EXCEPT ![o] = "succeeded"]
          /\ payment_status' = [payment_status EXCEPT ![o] = "refunded"]
          /\ void_settlement_for_refund(o)
      BY <1>1 DEF apply_provider_refund_result, mark_succeeded
    <2>2. /\ status[o] \in {"cancelled", "returned"}
          /\ payment_method[o] = "upi"
      BY DEF PaymentMethod
    <2> QED
      BY <1>1, <2>1, <2>2 DEF void_settlement_for_refund
  <1>2. CASE result = "processed" /\ payment_status[o] = "refunded"
    BY <1>2 DEF apply_provider_refund_result, mark_succeeded
  <1>3. CASE result # "processed"
    BY <1>3 DEF apply_provider_refund_result
  <1> QED
    BY <1>1, <1>2, <1>3

(* ... and with it everything else that happens to an order's refund ... *)
LEMMA RefundsMoney ==
    ASSUME TypeInv, MoneyInv, NEW o \in Orders, RefundNext(o)
    PROVE  MoneyInv'
  <1> USE DEF TypeOK, commerceVars, deliveryVars, proofVars, refundVars,
              settlementVars, providerVars, callVars
  <1>1. CASE park_refund(o)
    BY <1>1 DEF park_refund, dispatchable, DISPATCHABLE_REFUND_STATUSES
  <1>2. CASE fail_unconfigured_refund(o)
    BY <1>2 DEF fail_unconfigured_refund, dispatchable, DISPATCHABLE_REFUND_STATUSES
  <1>3. CASE admin_retry_reads(o)
    BY <1>3 DEF admin_retry_reads
  <1>4. CASE admin_retry_writes(o)
    BY <1>4 DEF admin_retry_writes
  <1>5. CASE payout_settles(o)
    BY <1>5 DEF payout_settles
  <1>6. ASSUME NEW s \in {"processed", "failed"}, provider_settles_refund(o, s)
        PROVE  MoneyInv'
    BY <1>6 DEF provider_settles_refund
  <1>7. ASSUME NEW s \in {"pending", "processed", "failed"}, refund_webhook(o, s)
        PROVE  MoneyInv'
    <2>1. /\ apply_provider_refund_result(o, s)
          /\ provider_refund[o] # "none"
          /\ s = "processed" => provider_refund[o] = "processed"
          /\ UNCHANGED <<commerceVars, providerVars, callVars>>
      BY <1>7 DEF refund_webhook, reported_statuses
    <2> QED
      BY <2>1, RefundResultMoney
  <1>8. ASSUME NEW d \in Dispatchers, claim_refund(d, o) PROVE MoneyInv'
    BY <1>8 DEF claim_refund, dispatchable, DISPATCHABLE_REFUND_STATUSES
  <1> HIDE DEF MoneyInv
  <1> QED
    BY <1>1, <1>2, <1>3, <1>4, <1>5, <1>6, <1>7, <1>8 DEF RefundNext

(* ... and every step of a dispatching thread. *)
LEMMA DispatchersMoney ==
    ASSUME TypeInv, MoneyInv, NEW d \in Dispatchers, DispatcherNext(d)
    PROVE  MoneyInv'
  <1> USE DEF TypeOK, commerceVars, deliveryVars, proofVars, refundVars,
              settlementVars, providerVars, callVars
  <1>1. CASE provider_accepts_refund(d)
    BY <1>1 DEF provider_accepts_refund
  <1>2. CASE provider_answers(d)
    BY <1>2 DEF provider_answers
  <1>3. CASE provider_call_fails(d)
    BY <1>3 DEF provider_call_fails
  <1>4. CASE record_refund_answer(d)
    <2> DEFINE o == call_order[d]
    <2>1. /\ o \in Orders
          /\ refund_status[o] # "none"
          /\ call_state[d] = "processed" => provider_refund[o] = "processed"
      BY <1>4 DEF record_refund_answer
    <2>2. /\ apply_provider_refund_result(o, call_state[d])
          /\ CallEnds(d)
          /\ UNCHANGED <<commerceVars, providerVars>>
      BY <1>4 DEF record_refund_answer
    <2>3. \A e \in Dispatchers :
             call_state'[e] # "idle" =>
                 call_state'[e] = call_state[e] /\ call_order'[e] = call_order[e]
      BY <2>2 DEF CallEnds
    <2> HIDE DEF o
    <2> QED
      BY <2>1, <2>2, <2>3, RefundResultMoney
  <1>5. CASE record_refund_error(d)
    BY <1>5 DEF record_refund_error, CallEnds
  <1>6. CASE dispatcher_crash(d)
    BY <1>6 DEF dispatcher_crash, CallEnds
  <1> QED
    BY <1>1, <1>2, <1>3, <1>4, <1>5, <1>6 DEF DispatcherNext

LEMMA StutterMoney == MoneyInv /\ UNCHANGED vars => MoneyInv'
  BY DEF vars, orderVars, deliveryVars, proofVars, attemptVars, refundVars,
         settlementVars, providerVars, callVars

HIDE DEF MoneyInv, OnlineGoodsArePaid, RefundIsOwedExactlyWhenDead,
         RefundedOnlyAfterProvider, MoneyBackIsNotTheMerchants, DeliveredIsEarned,
         CustodyIsNeverReassigned, Bookkeeping, REFUND_STATES, TypeInv,
         CallsNameOrders, Exists

(* The money invariant holds in every reachable state of every instance. *)
THEOREM MoneyInvariant == Spec => [](TypeInv /\ MoneyInv)
  <1>1. Init => TypeInv /\ MoneyInv
    BY InitMoney, InitTypeInv
  <1>2. TypeInv /\ MoneyInv /\ [Next]_vars => (TypeInv /\ MoneyInv)'
    <2> SUFFICES ASSUME TypeInv, MoneyInv, [Next]_vars PROVE TypeInv' /\ MoneyInv'
      OBVIOUS
    <2>1. TypeInv'
      BY NextTypeInv
    <2>2. MoneyInv'
      BY FulfilmentMoney, PaymentsMoney, RefundsMoney, DispatchersMoney, StutterMoney
      DEF Next
    <2> QED
      BY <2>1, <2>2
  <1> QED
    BY <1>1, <1>2, PTL DEF Spec

(* Goods of an online order are out only while its payment is confirmed:    *)
(* the guards of _apply_failed and _apply_paid, for every interleaving.    *)
THEOREM GoodsArePaid == Spec => []OnlineGoodsArePaid
  <1>1. MoneyInv => OnlineGoodsArePaid
    BY DEF MoneyInv
  <1> QED
    BY <1>1, MoneyInvariant, PTL

(* Refund rows and refund payment statuses exist together, for dead orders   *)
(* only, and no dead order keeps a confirmed payment: cancellation, return *)
(* and late capture all go through ensure_refund_request.                  *)
THEOREM DeadOrdersOwe == Spec => []RefundIsOwedExactlyWhenDead
  <1>1. MoneyInv => RefundIsOwedExactlyWhenDead
    BY DEF MoneyInv
  <1> QED
    BY <1>1, MoneyInvariant, PTL

(* dispatch_refund, webhooks, retries and crashes never record a refund as   *)
(* paid that the provider has not processed.                               *)
THEOREM RefundedIsTrue == Spec => []RefundedOnlyAfterProvider
  <1>1. MoneyInv => RefundedOnlyAfterProvider
    BY DEF MoneyInv
  <1> QED
    BY <1>1, MoneyInvariant, PTL

(* void_settlement_for_refund leaves no entitlement for returned goods or    *)
(* refunded money, whether the payout or the refund came first.            *)
THEOREM NoEntitlementForMoneyBack == Spec => []MoneyBackIsNotTheMerchants
  <1>1. MoneyInv => MoneyBackIsNotTheMerchants
    BY DEF MoneyInv
  <1> QED
    BY <1>1, MoneyInvariant, PTL

(* complete_delivery_with_financials is the only way to delivered, and what  *)
(* it checked and wrote stays true.                                        *)
THEOREM DeliveredStaysEarned == Spec => []DeliveredIsEarned
  <1>1. MoneyInv => DeliveredIsEarned
    BY DEF MoneyInv
  <1> QED
    BY <1>1, MoneyInvariant, PTL

(* Goods that left the store are never given to the pool again by            *)
(* recover_failed_delivery, resolve_failed_delivery or a release.          *)
THEOREM CustodyIsKept == Spec => []CustodyIsNeverReassigned
  <1>1. MoneyInv => CustodyIsNeverReassigned
    BY DEF MoneyInv
  <1> QED
    BY <1>1, MoneyInvariant, PTL
===============================================================================
