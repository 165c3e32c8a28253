--------------------------- MODULE OrderStockLedger ---------------------------
(***************************************************************************)
(* OrderStock implements StockLedger when the PATCH requests of an order   *)
(* come one after the other and run to their end.                          *)
(***************************************************************************)
EXTENDS OrderStock, FiniteSets

(* The units of v in the lines I of o, a line of three being three units. *)
Units(o, I, v) ==
  UNION {{i} \X (1..Lines[o][i].qty) : i \in {i \in I : Lines[o][i].variant = v}}

Needs == [o \in Orders |-> [v \in Variants |-> Cardinality(Units(o, LinesOf(o), v))]]

Releasing(j) ==
  j.pc = "release" \/ (j.pc = "write" /\ MustRelease(j.prev, j.want))

(* An order claims its lines from the moment it is marked reserved until a
   cancellation begins to give them back.                                   *)
ClaimOf(o) ==
  IF ~orders[o].reserved THEN "none"
  ELSE IF orders[o].released \/ \E a \in Admins : job[a].order = o /\ Releasing(job[a])
       THEN "returned" ELSE "held"

(* The lines a request has taken off the shelf for no claim: those it reserved
   before the order is marked, those it has not put back yet.               *)
InHand(j) ==
  LET lines == IF j.order = NoOrder THEN {} ELSE LinesOf(j.order)
  IN CASE j.pc = "reserve" -> {i \in lines : i < j.at}
       [] j.pc = "persist" -> lines
       [] j.pc = "write" /\ MustReserve(j.prev, j.want) -> lines
       [] j.pc \in {"rollback", "release"} -> {i \in lines : j.at <= i /\ i <= j.upto}
       [] OTHER -> {}

(* The units of v that the requests have in hand. *)
Out(v) == UNION {{r} \X Units(job[r].order, InHand(job[r]), v) : r \in Requests}

Free == [v \in Variants |-> stock[v] + Cardinality(Out(v))]

Ledger == INSTANCE StockLedger WITH
            Need <- Needs, InitFree <- InitStock,
            free <- Free, claim <- [o \in Orders |-> ClaimOf(o)]

(* Every statement of every request, under every interleaving, is a step of the
   ledger or none: a claim is granted from units nobody has, given back once,
   and what a failing checkout does to the stock can only lose units.       *)
LedgerSpec == Ledger!Spec
===============================================================================
