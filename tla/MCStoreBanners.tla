----------------------------- MODULE MCStoreBanners -----------------------------
(* StoreBanners for TLC. *)
EXTENDS StoreBanners
===============================================================================
