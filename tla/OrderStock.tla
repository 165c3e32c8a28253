------------------------------ MODULE OrderStock ------------------------------
(***************************************************************************)
(* The stock side of an order: service/order_service.go with the two       *)
(* stores it calls, store/postgres/product_store.go and order_store.go.    *)
(*                                                                         *)
(* A checkout (OrderService.Create) checks every line against the product  *)
(* it reads, takes the lines from the stock one UPDATE at a time and then  *)
(* inserts the order, undoing the reservation by hand when something       *)
(* fails.  A PATCH of an administrator (OrderService.UpdateStatus) reads   *)
(* the order, takes or gives back its lines one UPDATE at a time and then  *)
(* writes the new status.  None of this is inside one database             *)
(* transaction: every statement is a step here, and the statements of      *)
(* different requests interleave.                                          *)
(*                                                                         *)
(* A checkout is named by the order it will create.                        *)
(*                                                                         *)
(* A few definitions stand before the one they vary and are used by no     *)
(* action: InStockUnguarded, StatementHangs, UndoAllButOne, ReservedEarly, *)
(* MustReleaseAgain, MustReleaseAny and WrittenStatusOnly are what a       *)
(* slip in the code would make of it, each breaking a property below.      *)
(***************************************************************************)
EXTENDS Integers, Sequences

CONSTANTS
  Products,        \* rows of the table products
  Variants,        \* (product, size, color) rows of product_variants
  ProductOf,       \* the product of a variant
  Orders,          \* orders, each with the checkout that creates it
  Legacy,          \* orders of before the reservation existed: no metadata
  NoOrder,         \* the order of an administrator who is doing nothing
  Admins,          \* administrators, each with at most one PATCH under way
  Lines,           \* the lines of an order: a variant and a quantity each
  InitStock,       \* the stock of a variant at the start
  SerialPatches,   \* TRUE: no two PATCH of one order at the same time
  CheckoutFaults,  \* what may go wrong in a checkout, see Faults
  AdminFaults,     \* what may go wrong in a PATCH
  MaxFaults,       \* bound on the faults of a behaviour
  MaxEdits,        \* bound on the edits of the catalogue
  MaxPatches       \* bound on the PATCH requests

Statuses == {"pending", "confirmed", "shipped", "delivered", "cancelled"}

(* "statement": one SQL statement fails.  "sync": the stock UPDATE is
   committed and the synchronisation of the size and color totals after it
   fails.  "reload": the order is committed and the SELECT that returns it
   fails.  "disconnect": the client leaves, its context is cancelled and every
   later statement of the request fails.  "crash": the process restarts.     *)
Faults == {"statement", "sync", "reload", "disconnect", "crash"}

ASSUME OrderStockAssumption ==
  /\ ProductOf \in [Variants -> Products]
  /\ Legacy \subseteq Orders
  /\ NoOrder \notin Orders
  /\ Orders \cap Admins = {}
  /\ Lines \in [Orders -> Seq([variant : Variants, qty : Nat \ {0}])]
  /\ \A o \in Orders : Lines[o] # << >>
  /\ InitStock \in [Variants -> Nat]
  /\ SerialPatches \in BOOLEAN
  /\ CheckoutFaults \subseteq Faults /\ AdminFaults \subseteq Faults
  /\ MaxFaults \in Nat /\ MaxEdits \in Nat /\ MaxPatches \in Nat

VARIABLES
  products,  \* the products that still exist
  rows,      \* the variant rows that still exist
  stock,     \* product_variants.stock
  orders,    \* the table orders: status and the two metadata flags
  job,       \* the request each checkout or administrator is executing
  held,      \* history: how often line i of order o was taken and not given back
  faults, edits, patches   \* how much of each bound is used

vars == <<products, rows, stock, orders, job, held, faults, edits, patches>>
counters == <<faults, edits, patches>>
catalogue == <<products, rows>>

Requests == Orders \cup Admins
LinesOf(o) == DOMAIN Lines[o]

(* What UpdateStatus keeps of the order it read: `previous`.  `gone` are the
   items whose product_id was NULL, their product being deleted.            *)
Seen == [status : Statuses, reserved : BOOLEAN, released : BOOLEAN,
         gone : SUBSET Nat]
NothingSeen == [status |-> "pending", reserved |-> FALSE, released |-> FALSE,
                gone |-> {}]

Steps == {"new", "check", "reserve", "rollback", "persist", "done", "failed",
          "lost", "idle", "release", "write"}
Job == [pc : Steps, order : Orders \cup {NoOrder}, at : Nat, upto : Nat,
        err : BOOLEAN, cut : BOOLEAN, want : Statuses, prev : Seen]

Started(pc, o, n, want, prev) ==
  [pc |-> pc, order |-> o, at |-> 1, upto |-> n, err |-> FALSE, cut |-> FALSE,
   want |-> want, prev |-> prev]
Checkout(pc, o) == Started(pc, o, 0, "pending", NothingSeen)
Idle == Checkout("idle", NoOrder)
Move(j, pc, i, n) == [j EXCEPT !.pc = pc, !.at = i, !.upto = n]

Init ==
  /\ products = Products
  /\ rows = Variants
  /\ stock = InitStock
  /\ orders = [o \in Orders |-> [placed |-> o \in Legacy, status |-> "pending",
                                 reserved |-> FALSE, released |-> FALSE]]
  /\ job = [r \in Requests |->
              IF r \in Admins THEN Idle
              ELSE Checkout(IF r \in Legacy THEN "done" ELSE "new", r)]
  /\ held = [o \in Orders |-> [i \in LinesOf(o) |-> 0]]
  /\ faults = 0 /\ edits = 0 /\ patches = 0
-------------------------------------------------------------------------------
(* Faults                                                                    *)

Fault(r, kind) ==
  /\ kind \in IF r \in Admins THEN AdminFaults ELSE CheckoutFaults
  /\ faults < MaxFaults
  /\ faults' = faults + 1

StatementRuns(r) == ~job[r].cut /\ UNCHANGED faults

StatementHangs(r) == ~job[r].cut /\ Fault(r, "statement")
StatementFails(r) ==
  \/ job[r].cut /\ UNCHANGED faults
  \/ ~job[r].cut /\ Fault(r, "statement")
-------------------------------------------------------------------------------
(* What a statement on the stock sees, and where a request goes after it     *)

Exists(l) == l.variant \in rows
InStockUnguarded(l) == Exists(l)
InStock(l) == Exists(l) /\ stock[l.variant] >= l.qty

(* hasVariantStock and the checks around it, on the product as it is read. *)
Orderable(l) == ProductOf[l.variant] \in products /\ InStock(l)

AddStock(l, n) == stock' = [stock EXCEPT ![l.variant] = @ + n]
Hold(o, i, n) == held' = [held EXCEPT ![o][i] = @ + n]

Erred(j) == [j EXCEPT !.err = TRUE]
Cut(j) == [j EXCEPT !.cut = TRUE]
Goto(j, pc) == Move(j, pc, j.at, j.upto)
Advance(j) == Move(j, j.pc, j.at + 1, j.upto)
Failed(r, j) == IF r \in Admins THEN Idle ELSE Goto(j, "failed")

(* releaseStockForItems of the first n lines, then the error is returned. *)
UndoAllButOne(r, j, n) ==
  IF n <= 1 THEN Failed(r, j)
  ELSE Move(j, "rollback", 1, n - 1)
Undo(r, j, n) ==
  IF n = 0 THEN Failed(r, j)
  ELSE Move(j, "rollback", 1, n)

(* The next turn of the loop of reserveStockForItems. *)
Reserved(r, j) == Goto(j, IF r \in Admins THEN "write" ELSE "persist")
ReservedEarly(r, j) ==
  IF j.at + 1 >= Len(Lines[j.order]) THEN Reserved(r, j) ELSE Advance(j)
AfterReserve(r, j) ==
  IF j.at = Len(Lines[j.order]) THEN Reserved(r, j) ELSE Advance(j)

(* The next turn of the loop of releaseStockForItems: an error is remembered,
   never the end of the loop.                                               *)
AfterRelease(r, j) ==
  IF j.at < j.upto THEN Advance(j)
  ELSE IF j.pc = "release" /\ ~j.err THEN Goto(j, "write") ELSE Failed(r, j)
-------------------------------------------------------------------------------
(* OrderService.Create                                                       *)

Begin(o) ==
  /\ job[o].pc = "new"
  /\ job' = [job EXCEPT ![o] = Goto(@, "check")]
  /\ UNCHANGED <<catalogue, stock, orders, held, counters>>

(* buildOrderItem: one line is checked against the product just read.  Nothing
   is locked: the stock may be gone when the line is reserved.  A product that
   is not active (order_service.go:170) is refused like a statement that fails. *)
CheckLine(o) ==
  LET j == job[o]
      l == Lines[o][j.at]
  IN
  /\ j.pc = "check"
  /\ \/ /\ StatementRuns(o) /\ Orderable(l)
        /\ job' = [job EXCEPT ![o] =
                     IF j.at = Len(Lines[o]) THEN Move(j, "reserve", 1, j.upto)
                     ELSE Advance(j)]
     \/ /\ (StatementRuns(o) /\ ~Orderable(l)) \/ StatementFails(o)
        /\ job' = [job EXCEPT ![o] = Failed(o, j)]
  /\ UNCHANGED <<catalogue, stock, orders, held, edits, patches>>

(* One turn of reserveStockForItems, with its DecrementVariantStock.  An item
   without a product ends the loop and leaves what was reserved; an UPDATE that
   changed no row, or failed, undoes the lines before this one; so does a failed
   synchronisation, whose own UPDATE stays.                                 *)
Reserve(r) ==
  LET j == job[r]
      i == j.at
      l == Lines[j.order][i]
  IN
  /\ j.pc = "reserve"
  /\ \/ /\ i \in j.prev.gone
        /\ job' = [job EXCEPT ![r] = Failed(r, j)]
        /\ UNCHANGED <<stock, held, faults>>
     \/ /\ i \notin j.prev.gone /\ InStock(l) /\ StatementRuns(r)
        /\ AddStock(l, -l.qty) /\ Hold(j.order, i, 1)
        /\ job' = [job EXCEPT ![r] = AfterReserve(r, j)]
     \/ /\ i \notin j.prev.gone /\ InStock(l) /\ ~j.cut /\ Fault(r, "sync")
        /\ AddStock(l, -l.qty) /\ Hold(j.order, i, 1)
        /\ job' = [job EXCEPT ![r] = Undo(r, Erred(j), i - 1)]
     \/ /\ i \notin j.prev.gone
        /\ (~InStock(l) /\ StatementRuns(r)) \/ StatementFails(r)
        /\ job' = [job EXCEPT ![r] = Undo(r, j, i - 1)]
        /\ UNCHANGED <<stock, held>>
  /\ UNCHANGED <<catalogue, orders, edits, patches>>

(* One turn of releaseStockForItems, with its IncrementVariantStock: the undoing
   of a reservation ("rollback") or the cancellation of an order ("release"). *)
Release(r) ==
  LET j == job[r]
      i == j.at
      l == Lines[j.order][i]
  IN
  /\ j.pc \in {"rollback", "release"}
  /\ \/ /\ i \in j.prev.gone
        /\ job' = [job EXCEPT ![r] = AfterRelease(r, j)]
        /\ UNCHANGED <<stock, held, faults>>
     \/ /\ i \notin j.prev.gone /\ Exists(l) /\ StatementRuns(r)
        /\ AddStock(l, l.qty) /\ Hold(j.order, i, -1)
        /\ job' = [job EXCEPT ![r] = AfterRelease(r, j)]
     \/ /\ i \notin j.prev.gone /\ Exists(l) /\ ~j.cut /\ Fault(r, "sync")
        /\ AddStock(l, l.qty) /\ Hold(j.order, i, -1)
        /\ job' = [job EXCEPT ![r] = AfterRelease(r, Erred(j))]
     \/ /\ i \notin j.prev.gone
        /\ (~Exists(l) /\ StatementRuns(r)) \/ StatementFails(r)
        /\ job' = [job EXCEPT ![r] = AfterRelease(r, Erred(j))]
        /\ UNCHANGED <<stock, held>>
  /\ UNCHANGED <<catalogue, orders, edits, patches>>

(* OrderStore.Create, one transaction and then a SELECT.  A line whose product
   is gone breaks the foreign key of order_items.                           *)
Persist(o) ==
  LET j == job[o]
      undone == Undo(o, j, Len(Lines[o]))
      alive == \A i \in LinesOf(o) : ProductOf[Lines[o][i].variant] \in products
      insert == orders' = [orders EXCEPT ![o].placed = TRUE, ![o].reserved = TRUE]
  IN
  /\ j.pc = "persist"
  /\ \/ /\ alive /\ StatementRuns(o) /\ insert
        /\ job' = [job EXCEPT ![o] = Goto(j, "done")]
     \/ /\ alive /\ ~j.cut /\ Fault(o, "reload") /\ insert
        /\ job' = [job EXCEPT ![o] = undone]
     \/ /\ (~alive /\ StatementRuns(o)) \/ StatementFails(o)
        /\ job' = [job EXCEPT ![o] = undone]
        /\ UNCHANGED orders
  /\ UNCHANGED <<catalogue, stock, held, edits, patches>>
-------------------------------------------------------------------------------
(* OrderService.UpdateStatus                                                 *)

MustReserve(prev, want) ==
  want = "shipped" /\ prev.status # "shipped" /\ ~prev.reserved

MustReleaseAgain(prev, want) ==
  want = "cancelled" /\ prev.status # "cancelled" /\ prev.reserved
MustReleaseAny(prev, want) ==
  want = "cancelled" /\ prev.status # "cancelled" /\ ~prev.released
MustRelease(prev, want) ==
  want = "cancelled" /\ prev.status # "cancelled" /\ prev.reserved /\ ~prev.released

(* The request arrives and the order is read.  Everything decided afterwards is
   decided on this reading.  Every status may follow every other.           *)
Patch(a, o, want) ==
  LET prev == [status |-> orders[o].status, reserved |-> orders[o].reserved,
               released |-> orders[o].released,
               gone |-> {i \in LinesOf(o) : ProductOf[Lines[o][i].variant] \notin products}]
      pc == IF MustReserve(prev, want) THEN "reserve"
            ELSE IF MustRelease(prev, want) THEN "release" ELSE "write"
  IN
  /\ job[a].pc = "idle" /\ orders[o].placed
  /\ patches < MaxPatches /\ patches' = patches + 1
  /\ SerialPatches => \A r \in Requests \ {a} :
                         job[r].order = o => job[r].pc \in {"done", "failed", "lost"}
  /\ job' = [job EXCEPT ![a] = Started(pc, o, Len(Lines[o]), want, prev)]
  /\ UNCHANGED <<catalogue, stock, orders, held, faults, edits>>

(* The metadata is written as a whole, from the reading of the request, and only
   when its stock moved.                                                    *)
WrittenStatusOnly(row, prev, want) == [row EXCEPT !.status = want]
Written(row, prev, want) ==
  LET moved == MustReserve(prev, want) \/ MustRelease(prev, want) IN
  [row EXCEPT
     !.status = want,
     !.reserved = IF moved THEN MustReserve(prev, want) \/ prev.reserved ELSE @,
     !.released = IF moved THEN MustRelease(prev, want) \/ prev.released ELSE @]

(* OrderStore.UpdateStatus: an UPDATE by id, whatever the row holds by now. *)
Write(a) ==
  LET j == job[a] IN
  /\ j.pc = "write"
  /\ \/ /\ StatementRuns(a)
        /\ orders' = [orders EXCEPT ![j.order] = Written(@, j.prev, j.want)]
     \/ StatementFails(a) /\ UNCHANGED orders
  /\ job' = [job EXCEPT ![a] = Idle]
  /\ UNCHANGED <<catalogue, stock, held, edits, patches>>
-------------------------------------------------------------------------------
(* Around the requests                                                       *)

Running(r) == job[r].pc \notin {"new", "done", "failed", "lost", "idle"}

(* The client closes its connection: the context every statement uses ends. *)
Disconnect(r) ==
  /\ Running(r) /\ ~job[r].cut
  /\ Fault(r, "disconnect")
  /\ job' = [job EXCEPT ![r] = Cut(@)]
  /\ UNCHANGED <<catalogue, stock, orders, held, edits, patches>>

(* The process restarts: what the requests held in memory is lost. *)
Crash ==
  /\ \E r \in Requests : Running(r)
  /\ \A r \in Requests : Running(r) => Fault(r, "crash")
  /\ job' = [r \in Requests |->
               IF ~Running(r) THEN job[r]
               ELSE IF r \in Admins THEN Idle ELSE Goto(job[r], "lost")]
  /\ UNCHANGED <<catalogue, stock, orders, held, edits, patches>>

Edit == edits < MaxEdits /\ edits' = edits + 1

(* ProductStore.Delete: the row goes, its variants with it (ON DELETE CASCADE),
   and product_id of its order items becomes NULL.                          *)
DeleteProduct(p) ==
  /\ Edit /\ p \in products
  /\ products' = products \ {p}
  /\ rows' = {v \in rows : ProductOf[v] # p}
  /\ UNCHANGED <<stock, orders, job, held, faults, patches>>

(* ProductStore.UpsertVariants with a form that leaves v out and repeats the
   current number of every other variant.                                   *)
DropVariant(v) ==
  /\ Edit /\ v \in rows
  /\ rows' = rows \ {v}
  /\ UNCHANGED <<products, stock, orders, job, held, faults, patches>>
-------------------------------------------------------------------------------
Step(r) ==
  \/ r \in Orders /\ (CheckLine(r) \/ Persist(r))
  \/ r \in Admins /\ Write(r)
  \/ Reserve(r)
  \/ Release(r)

Next ==
  \/ \E o \in Orders : Begin(o)
  \/ \E r \in Requests : Step(r)
  \/ \E a \in Admins, o \in Orders, want \in Statuses : Patch(a, o, want)
  \/ \E r \in Requests : Disconnect(r)
  \/ Crash
  \/ \E p \in Products : DeleteProduct(p)
  \/ \E v \in Variants : DropVariant(v)

Spec == Init /\ [][Next]_vars

(* A handler that is running goes on running: its goroutine is scheduled and its
   statements return, with a result or with an error.                       *)
FairSpec == Spec /\ \A r \in Requests : WF_vars(Step(r))
-------------------------------------------------------------------------------
(* Properties                                                                *)

(* Every variable has its type; in particular no stock is ever negative, which
   the guard of DecrementVariantStock sees to, not the check of the checkout. *)
TypeOK ==
  /\ products \subseteq Products
  /\ rows \subseteq Variants
  /\ stock \in [Variants -> Nat]
  /\ orders \in [Orders -> [placed : BOOLEAN, status : Statuses,
                            reserved : BOOLEAN, released : BOOLEAN]]
  /\ job \in [Requests -> Job]
  /\ DOMAIN held = Orders
  /\ \A o \in Orders : held[o] \in [LinesOf(o) -> Int]
  /\ faults \in 0..MaxFaults /\ edits \in 0..MaxEdits /\ patches \in 0..MaxPatches

(* OrderService.Create inserts an order only when every one of its lines has
   been taken from the stock exactly once.                                  *)
PlacedFullyReserved ==
  [][\A o \in Orders : ~orders[o].placed /\ orders'[o].placed =>
       \A i \in LinesOf(o) : held[o][i] = 1]_vars

(* A checkout that failed, none of whose stock calls reported an error it could
   not undo, has left nothing reserved, at whatever line it failed.         *)
RollbackComplete ==
  \A o \in Orders :
    job[o].pc = "failed" /\ ~job[o].err /\ ~orders[o].placed =>
      \A i \in LinesOf(o) : held[o][i] = 0

(* An order marked stock_released is marked stock_reserved, whichever PATCH
   requests overwrote each other's metadata.                                *)
ReleasedImpliesReserved ==
  \A o \in Orders : orders[o].released => orders[o].reserved

(* Every checkout and every PATCH that has begun is answered, or is lost in a
   restart, however many of its statements fail.                            *)
RequestsEnd == \A r \in Requests : Running(r) ~> ~Running(r)

(* The two metadata flags say what the stock says: when no PATCH is at work on an
   order, an order that is reserved and not released holds each of its lines
   once, and any other order of the table holds none.                       *)
FlagsTellStock ==
  \A o \in Orders :
    orders[o].placed /\ (\A a \in Admins : job[a].order # o) =>
      \A i \in LinesOf(o) :
        held[o][i] = IF orders[o].reserved /\ ~orders[o].released THEN 1 ELSE 0

(* Cancelling gives back what the order holds and no more. *)
NothingReleasedTwice == \A o \in Orders : \A i \in LinesOf(o) : held[o][i] >= 0

(* An order on its way to the customer holds its lines: shipping takes the stock
   of an order that had not reserved it.                                    *)
ShippedHoldsStock ==
  \A o \in Orders :
    orders[o].placed /\ orders[o].status = "shipped"
      /\ (\A a \in Admins : job[a].order # o) =>
      \A i \in LinesOf(o) : held[o][i] = 1
===============================================================================
