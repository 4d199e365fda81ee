-------------------------------- MODULE Refunds --------------------------------
(***************************************************************************)
(* Execution of owed refunds (refunds.py: dispatch_refund and its callers, *)
(* routes/refunds.py: the operator's retry, payment_hardening.py: refund   *)
(* webhooks).  dispatch_refund is claim, commit, call, commit: the steps   *)
(* are actions, and between them other threads, webhooks and a crash of    *)
(* the calling thread interleave.  The callers (worker batch, the request  *)
(* that cancelled, the operator) all come down to one claim per refund.    *)
(***************************************************************************)
EXTENDS OrderState

commerceVars == <<status, payment_method, stock_restored, deliveryVars, proofVars,
                  attempt_status>>

(* Mutant: one attempt more than the ceiling. *)
dispatchable_Late(o) ==
    /\ refund_status[o] \in DISPATCHABLE_REFUND_STATUSES
    /\ refund_attempts[o] <= MaxRefundAttempts

dispatchable(o) ==
    /\ refund_status[o] \in DISPATCHABLE_REFUND_STATUSES
    /\ refund_attempts[o] < MaxRefundAttempts

(* Commit before any network I/O. *)
claim_refund(d, o) ==
    /\ call_state[d] = "idle"
    /\ dispatchable(o)
    /\ refund_payment_known[o]
    /\ refund_status' = [refund_status EXCEPT ![o] = "processing"]
    /\ refund_attempts' = [refund_attempts EXCEPT ![o] = @ + 1]
    /\ call_state' = [call_state EXCEPT ![d] = "calling"]
    /\ call_order' = [call_order EXCEPT ![d] = o]
    /\ UNCHANGED <<commerceVars, payment_status, webhook_seen, refund_payment_known,
                   settlementVars, providerVars, retry_read>>

(* No captured payment id on the row: parked for manual reconciliation. *)
park_refund(o) ==
    /\ dispatchable(o)
    /\ ~refund_payment_known[o]
    /\ refund_status' = [refund_status EXCEPT ![o] = "failed"]
    /\ refund_attempts' = [refund_attempts EXCEPT ![o] = MaxRefundAttempts]
    /\ UNCHANGED <<commerceVars, payment_status, webhook_seen, refund_payment_known,
                   settlementVars, providerVars, callVars>>

(* Dispatch on a deployment whose provider credentials are missing. *)
fail_unconfigured_refund(o) ==
    /\ dispatchable(o)
    /\ refund_payment_known[o]
    /\ refund_status' = [refund_status EXCEPT ![o] = "failed"]
    /\ UNCHANGED <<commerceVars, payment_status, webhook_seen, refund_attempts,
                   refund_payment_known, settlementVars, providerVars, callVars>>

(* create_razorpay_refund at the provider: the idempotency key makes every  *)
(* call for the order meet the same refund.                                *)
provider_accepts_refund(d) ==
    LET o == call_order[d] IN
    /\ call_state[d] = "calling"
    /\ provider_refund[o] = "none"
    /\ provider_refund' = [provider_refund EXCEPT ![o] = "pending"]
    /\ UNCHANGED <<commerceVars, payment_status, webhook_seen, refundVars,
                   settlementVars, provider_order, callVars>>

provider_settles_refund(o, outcome) ==
    /\ provider_refund[o] = "pending"
    /\ provider_refund' = [provider_refund EXCEPT ![o] = outcome]
    /\ UNCHANGED <<commerceVars, payment_status, webhook_seen, refundVars,
                   settlementVars, provider_order, callVars>>

(* The call returns the refund as it is now ... *)
provider_answers(d) ==
    /\ call_state[d] = "calling"
    /\ provider_refund[call_order[d]] # "none"
    /\ call_state' = [call_state EXCEPT ![d] = provider_refund[call_order[d]]]
    /\ UNCHANGED <<commerceVars, payment_status, webhook_seen, refundVars,
                   settlementVars, providerVars, call_order, retry_read>>

(* ... or fails or times out, whether or not the provider acted on it. *)
provider_call_fails(d) ==
    /\ call_state[d] = "calling"
    /\ call_state' = [call_state EXCEPT ![d] = "error"]
    /\ UNCHANGED <<commerceVars, payment_status, webhook_seen, refundVars,
                   settlementVars, providerVars, call_order, retry_read>>

CallEnds(d) ==
    /\ call_state' = [call_state EXCEPT ![d] = "idle"]
    /\ call_order' = [call_order EXCEPT ![d] = NoOrder]
    /\ UNCHANGED retry_read

(* The refund row is locked again and takes the answer. *)
record_refund_answer(d) ==
    LET o == call_order[d] IN
    /\ call_state[d] \in {"pending", "processed", "failed"}
    /\ apply_provider_refund_result(o, call_state[d])
    /\ CallEnds(d)
    /\ UNCHANGED <<commerceVars, webhook_seen, providerVars>>

record_refund_error(d) ==
    LET o == call_order[d] IN
    /\ call_state[d] = "error"
    /\ refund_status' = [refund_status EXCEPT ![o] = "failed"]
    /\ CallEnds(d)
    /\ UNCHANGED <<commerceVars, payment_status, webhook_seen, refund_attempts,
                   refund_payment_known, settlementVars, providerVars>>

dispatcher_crash(d) ==
    /\ CanCrash
    /\ call_state[d] # "idle"
    /\ CallEnds(d)
    /\ UNCHANGED <<commerceVars, payment_status, webhook_seen, refundVars,
                   settlementVars, providerVars>>

(* admin_retry_refund reads the row without a lock and later writes only    *)
(* the attempt counter; its dispatch is a claim like any other.            *)
admin_retry_reads(o) ==
    /\ refund_status[o] = "failed"
    /\ refund_attempts[o] > 0
    /\ retry_read' = retry_read \cup {o}
    /\ UNCHANGED <<commerceVars, payment_status, webhook_seen, refundVars,
                   settlementVars, providerVars, call_state, call_order>>

admin_retry_writes(o) ==
    /\ o \in retry_read
    /\ retry_read' = retry_read \ {o}
    /\ refund_attempts' = [refund_attempts EXCEPT ![o] = 0]
    /\ UNCHANGED <<commerceVars, payment_status, webhook_seen, refund_status,
                   refund_payment_known, settlementVars, providerVars,
                   call_state, call_order>>

(* _process_refund_event.  The provider reports every status its refund     *)
(* has been in; the row is found by refund id or by payment id.            *)
reported_statuses(o) ==
    IF provider_refund[o] = "none" THEN {} ELSE {"pending", provider_refund[o]}

refund_webhook(o, result) ==
    LET key == <<"refund", o, result>> IN
    /\ result \in reported_statuses(o)
    /\ key \notin webhook_seen
    /\ webhook_seen' = webhook_seen \cup {key}
    /\ apply_provider_refund_result(o, result)
    /\ UNCHANGED <<commerceVars, providerVars, callVars>>

(* External: paying merchants out is no code of this repository, but the    *)
(* ledger provides for it.                                                 *)
payout_settles(o) ==
    /\ settlement_status[o] = "pending"
    /\ settlement_status' = [settlement_status EXCEPT ![o] = "settled"]
    /\ UNCHANGED <<commerceVars, payment_status, webhook_seen, refundVars,
                   adjustment_owed, providerVars, callVars>>

RefundNext(o) ==
    \/ park_refund(o)
    \/ fail_unconfigured_refund(o)
    \/ admin_retry_reads(o)
    \/ admin_retry_writes(o)
    \/ payout_settles(o)
    \/ \E s \in {"processed", "failed"} : provider_settles_refund(o, s)
    \/ \E s \in {"pending", "processed", "failed"} : refund_webhook(o, s)
    \/ \E d \in Dispatchers : claim_refund(d, o)

DispatcherNext(d) ==
    \/ provider_accepts_refund(d)
    \/ provider_answers(d)
    \/ provider_call_fails(d)
    \/ record_refund_answer(d)
    \/ record_refund_error(d)
    \/ dispatcher_crash(d)
================================================================================
