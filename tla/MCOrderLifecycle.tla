--------------------------- MODULE MCOrderLifecycle ---------------------------
(* OrderLifecycle for TLC.  Attempts, riders and dispatchers are            *)
(* interchangeable: no action or invariant tells them apart.               *)
EXTENDS OrderLifecycle, TLC

Interchangeable ==
    Permutations(Attempts) \cup Permutations(Riders) \cup Permutations(Dispatchers)

OrdersToo == Interchangeable \cup Permutations(Orders)
===============================================================================
