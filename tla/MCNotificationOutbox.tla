-------------------------- MODULE MCNotificationOutbox --------------------------
(* NotificationOutbox for TLC: one user has two devices and shares one of   *)
(* them with the other user.                                                *)
EXTENDS NotificationOutbox, TLC

CONSTANTS t1, t2, u1, u2

Holders == t1 :> {u1} @@ t2 :> {u1, u2}
Recipient == <<u1, u2>>
===============================================================================
