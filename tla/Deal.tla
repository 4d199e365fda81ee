--------------------------------- MODULE Deal ---------------------------------
(***************************************************************************)
(* What an order promises its three parties, and nothing about how: where  *)
(* the goods end up, where the customer's money is, and what the merchant  *)
(* may keep of it.  Abstract specification; OrderLifecycle implements it.  *)
(***************************************************************************)
CONSTANT Orders

VARIABLES
    outcome,    \* none, open, delivered, cancelled, returned
    money,      \* none, held, owed to the customer, back with the customer
    share       \* the merchant's: none, due, paid out, lost again

dealVars == <<outcome, money, share>>

DealInit ==
    /\ outcome = [o \in Orders |-> "none"]
    /\ money = [o \in Orders |-> "none"]
    /\ share = [o \in Orders |-> "none"]

Move(o, goods, cash, part) ==
    /\ outcome' = [outcome EXCEPT ![o] = goods]
    /\ money' = [money EXCEPT ![o] = cash]
    /\ share' = [share EXCEPT ![o] = part]

Granted(o)    == IF share[o] = "none" THEN "due" ELSE share[o]
TakenBack(o)  == IF share[o] = "none" THEN "none" ELSE "lost"
OwedIfHeld(o) == IF money[o] = "held" THEN "owed" ELSE money[o]

Order(o) ==
    outcome[o] = "none" /\ Move(o, "open", money[o], share[o])

Pay(o) ==
    /\ outcome[o] = "open"
    /\ money[o] = "none"
    /\ Move(o, "open", "held", Granted(o))

(* Cash changes hands at the door; online money must be in already. *)
Deliver(o) ==
    /\ outcome[o] = "open"
    /\ money[o] \in {"none", "held"}
    /\ Move(o, "delivered", "held", Granted(o))

(* A cancelled order's money is owed at once; the merchant's part of it goes *)
(* when the money does.                                                    *)
Cancel(o) ==
    outcome[o] = "open" /\ Move(o, "cancelled", OwedIfHeld(o), share[o])

Return(o) ==
    outcome[o] = "open" /\ Move(o, "returned", OwedIfHeld(o), TakenBack(o))

(* The customer's payment went through after the order had been cancelled. *)
PayTooLate(o) ==
    /\ outcome[o] = "cancelled"
    /\ money[o] = "none"
    /\ Move(o, "cancelled", "owed", share[o])

Payout(o) ==
    share[o] = "due" /\ Move(o, outcome[o], money[o], "paid")

Repay(o) ==
    money[o] = "owed" /\ Move(o, outcome[o], "back", TakenBack(o))

DealNext ==
    \E o \in Orders :
        \/ Order(o) \/ Pay(o) \/ Deliver(o) \/ Cancel(o) \/ Return(o)
        \/ PayTooLate(o) \/ Payout(o) \/ Repay(o)

DealSpec == DealInit /\ [][DealNext]_dealVars
===============================================================================
