----------------------------- MODULE StockLedger -----------------------------
(***************************************************************************)
(* What the stock of the shop promises, with no request, no statement and  *)
(* no metadata in sight: every order has a claim on the units of its lines,*)
(* granted as a whole and only out of units nobody claims, given back as a *)
(* whole and once.  A failing request may lose units, which then no order  *)
(* can claim until somebody counts the shelf again; nothing invents any.   *)
(***************************************************************************)
EXTENDS Naturals

CONSTANTS
  Orders,
  Variants,
  Need,      \* the units of each variant an order asks for
  InitFree   \* the units nobody claims at the start

VARIABLES
  free,   \* the units nobody claims
  claim   \* what became of the claim of an order

vars == <<free, claim>>

Init ==
  /\ free = InitFree
  /\ claim = [o \in Orders |-> "none"]

Grant(o) ==
  /\ claim[o] = "none"
  /\ \A v \in Variants : Need[o][v] <= free[v]
  /\ free' = [v \in Variants |-> free[v] - Need[o][v]]
  /\ claim' = [claim EXCEPT ![o] = "held"]

GiveBack(o) ==
  /\ claim[o] = "held"
  /\ free' = [v \in Variants |-> free[v] + Need[o][v]]
  /\ claim' = [claim EXCEPT ![o] = "returned"]

Lose ==
  /\ DOMAIN free' = Variants
  /\ \A v \in Variants : free'[v] \in 0..free[v]
  /\ UNCHANGED claim

Next == (\E o \in Orders : Grant(o) \/ GiveBack(o)) \/ Lose

Spec == Init /\ [][Next]_vars
===============================================================================
