---------------------------- MODULE MCPromoUsage ----------------------------
(* A small instance of PromoUsage for TLC. *)
EXTENDS PromoUsage, TLC

CONSTANTS o1, o2, o3, o4, ann, bob

MCUserOf == o1 :> ann @@ o2 :> ann @@ o3 :> bob @@ o4 :> Guest
=============================================================================
