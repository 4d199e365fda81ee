------------------------------- MODULE MCSupport -------------------------------
(* Support for TLC.  c1 ordered from both stores and c2 from one of them;   *)
(* r1 delivers one order of each customer and one is not assigned.         *)
EXTENDS Support, TLC

CONSTANTS c1, c2, m1, m2, r1, o1, o2, o3, s1, s2

OrderUser == o1 :> c1 @@ o2 :> c1 @@ o3 :> c2
OrderStore == o1 :> s1 @@ o2 :> s2 @@ o3 :> s1
StoreMerchant == s1 :> m1 @@ s2 :> m2
DeliveryPartner == o1 :> r1 @@ o2 :> None @@ o3 :> r1

Ask(u, k, o, d, s) ==
    [user |-> u, key |-> k, text |-> CHOOSE x \in Texts : TRUE,
     refs |-> [order |-> o, delivery |-> d, store |-> s]]

(* Requests that are in order, one that reuses a key for something else, and *)
(* for every role one that names a row of somebody else or rows that do    *)
(* not belong together.                                                    *)
TicketRequests ==
    LET k == CHOOSE k \in Keys : TRUE
    IN {Ask(c1, k, None, None, None), Ask(c1, k, None, o1, None), Ask(c1, k, o1, o1, s1),
        Ask(c1, k, o1, o3, None), Ask(c1, k, o1, None, s2), Ask(c1, None, None, None, s2),
        Ask(m1, k, o1, None, s2), Ask(m1, k, None, o2, None), Ask(r1, k, o2, None, None),
        Ask(r1, k, o1, o3, None)}

Interchangeable == UNION {Permutations(S) : S \in {Tickets, Threads, Admins}}
===============================================================================
