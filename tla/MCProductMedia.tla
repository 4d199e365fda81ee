----------------------------- MODULE MCProductMedia -----------------------------
(* ProductMedia for TLC: two images are uploaded for one listing and one    *)
(* for another, so jobs compete for workers and uploads for room.           *)
EXTENDS ProductMedia, TLC

CONSTANTS a1, a2, a3, l1, l2

Content == a1 :> "unsafe" @@ a2 :> "clean" @@ a3 :> "clean"
ListingOf == a1 :> l1 @@ a2 :> l1 @@ a3 :> l2
===============================================================================
