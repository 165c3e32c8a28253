---------------------------- MODULE MCOrderStock ----------------------------
(* Small instances of OrderStock for TLC. *)
EXTENDS OrderStockLedger, TLC

CONSTANTS p1, p2, v1, v2, o1, o2, o3, a1, a2

MCProducts == {p1, p2}
MCVariants == {v1, v2}
MCProductOf == v1 :> p1 @@ v2 :> p2
OneProduct == {p1}
SameProduct == v1 :> p1 @@ v2 :> p1
MCInitStock == v1 :> 2 @@ v2 :> 1
Line(v, n) == [variant |-> v, qty |-> n]

CartOf == o1 :> <<Line(v1, 1), Line(v2, 1)>> @@ o2 :> <<Line(v1, 2)>>
           @@ o3 :> <<Line(v2, 1), Line(v1, 1)>>
MCLines == [o \in Orders |-> CartOf[o]]
=============================================================================
