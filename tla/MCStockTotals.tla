---------------------------- MODULE MCStockTotals ----------------------------
(* Three sizes and two colors, of which four pairs are made.  The forms: the rows
   there are with another number, whose sizes and colors were not changed with
   it; a size taken out and another added; every size renamed, no color left. *)
EXTENDS StockTotals, TLC

CONSTANTS S, M, L, black, white, b1, b2, b3

MCSizes == {S, M, L}
MCColors == {black, white}
MCVariants == {<<S, black>>, <<S, white>>, <<M, black>>, <<L, black>>}
MCInitTables == Totals(<<S, black>> :> 2 @@ <<S, white>> :> 1 @@ <<M, black>> :> 1)
MCBuyers(f) == [b \in Buyers |-> (b1 :> f[1] @@ b2 :> f[2] @@ b3 :> f[3])[b]]
MCWants == MCBuyers(<< <<S, black>>, <<S, white>>, <<M, black>> >>)
MCChange == MCBuyers(<<-1, -1, 1>>)

Form(sizes, colors, variants) ==
  [t \in Tables |-> IF t = "sizes" THEN sizes ELSE IF t = "colors" THEN colors ELSE variants]
MCForms == {
  Form(S :> 3 @@ M :> 1, black :> 3 @@ white :> 1, <<S, black>> :> 0 @@ <<M, black>> :> 3),
  Form(S :> 2 @@ L :> 1, black :> 3, <<S, black>> :> 2 @@ <<L, black>> :> 1),
  Form(L :> 4, << >>, <<L, black>> :> 4)}
===============================================================================
