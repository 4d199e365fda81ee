------------------------------ MODULE MCInventory ------------------------------
(* Inventory for TLC: two stores, one of which offers two products.  No     *)
(* action or property tells orders, keys or threads apart.                 *)
EXTENDS Inventory, TLC

CONSTANTS s1, s2, p1, p2

Interchangeable ==
    UNION {Permutations(S) : S \in {Orders, Keys, Threads}}

(* Store s1 offers p1 and p2, store s2 only p1: one unit of each. *)
MCInit ==
    /\ Init
    /\ \A l \in Listings : stock_quantity[l] = IF l = <<s2, p2>> THEN 0 ELSE 1

MCSpec == MCInit /\ [][Next]_vars

(* The merchant of s1 switches p1 off at zero.  What was seen decides       *)
(* whether the zero is written: it is not if the unit was then in an order. *)
SwitchOff == {<<0, FALSE>>}
OneListingIsEdited ==
    \A t \in Threads :
        ~Idle(t) /\ request[t].op = "edit" => request[t].listing = <<s1, p1>>
===============================================================================
