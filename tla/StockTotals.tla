----------------------------- MODULE StockTotals -----------------------------
(***************************************************************************)
(* The stock tables of one product: product_variants, and product_sizes    *)
(* and product_colors, which repeat the stock of the variants per size and *)
(* per color.  store/postgres/product_store.go writes them, for the        *)
(* checkouts and cancellations (DecrementVariantStock and                  *)
(* IncrementVariantStock, each followed by syncAggregatedStockFromVariants)*)
(* and for the form of the administrator, whose three lists are written as *)
(* they were sent, whatever they say of each other                         *)
(* (service/product_service.go, ProductService.Update).                    *)
(*                                                                         *)
(* The synchronisation reads the variants, and then replaces the sizes and *)
(* the colors in a transaction each: DELETE of the rows it sees, INSERT of *)
(* the new ones.  PostgreSQL runs these at READ COMMITTED.  A DELETE sees  *)
(* the rows committed when it began; it waits for a transaction that is    *)
(* deleting them, and when that one commits it does not see the rows put   *)
(* in their place, which the UNIQUE index then makes its INSERT collide    *)
(* with.  So a transaction is two steps here: what its DELETE sees, and    *)
(* the rest up to the COMMIT or the collision.                             *)
(*                                                                         *)
(* EnoughAlways, AfterSizesOnly, CollidesNever and Retried vary the        *)
(* definition that follows them as a slip in the code would; no action     *)
(* uses them.                                                              *)
(***************************************************************************)
EXTENDS Integers, FiniteSets, Functions

CONSTANTS
  Sizes,      \* the sizes there may be
  Colors,     \* the colors there may be
  Variants,   \* the variants there may be, each a <<size, color>>
  InitTables, \* the rows of the three tables at the start
  Buyers,     \* the checkouts and cancellations, one line of an order each
  Wants,      \* the variant of the line
  Change,     \* what it adds to the stock: negative to take, positive to give back
  Admins,     \* administrators, who save a form of the product once each
  Forms,      \* the forms they may send: a list for each table
  Faulty      \* the requests of which a statement may fail

Tables == {"variants", "sizes", "colors"}
TotalTables == {"sizes", "colors"}
Requests == Buyers \cup Admins

KeysOf(t) == IF t = "sizes" THEN Sizes ELSE IF t = "colors" THEN Colors ELSE Variants
IsRows(t, f) == DOMAIN f \subseteq KeysOf(t) /\ f \in [DOMAIN f -> Nat]
IsLists(l) == l = [t \in Tables |-> l[t]] /\ \A t \in Tables : IsRows(t, l[t])

ASSUME StockTotalsAssumption ==
  /\ IsFiniteSet(Variants) /\ Variants \subseteq Sizes \X Colors
  /\ IsLists(InitTables) /\ \A l \in Forms : IsLists(l)
  /\ Buyers \cap Admins = {}
  /\ Wants \in [Buyers -> Variants]
  /\ Change \in [Buyers -> Int \ {0}]
  /\ Faulty \subseteq Requests

VARIABLES
  tables,   \* the rows of each table: key -> stock
  job,      \* what each request is doing
  written,  \* history: every content a table had, or that a request meant to write to it
  met       \* history: the requests beside which another one ran

vars == <<tables, job, written, met>>

Key(t, v) == IF t = "sizes" THEN v[1] ELSE v[2]

(* The totals that syncAggregatedStockFromVariants computes from the variants: a
   sum of stocks is the number of their units.                              *)
Keys(t, f) == {Key(t, v) : v \in DOMAIN f}
Units(t, f, k) == UNION {{v} \X (1 .. f[v]) : v \in {w \in DOMAIN f : Key(t, w) = k}}
Total(t, f) == [k \in Keys(t, f) |-> Cardinality(Units(t, f, k))]
Totals(f) == [t \in Tables |-> IF t = "variants" THEN f ELSE Total(t, f)]

NoLists == [t \in Tables |-> << >>]
Fresh == [pc |-> "new", begun |-> FALSE, seen |-> {}, lists |-> NoLists, moved |-> FALSE, broke |-> FALSE]

Init ==
  /\ tables = InitTables
  /\ job = [r \in Requests |-> Fresh]
  /\ written = [t \in Tables |-> {InitTables[t]}]
  /\ met = {}

Running(r) == job[r].pc \notin {"new", "done", "failed"}

(* A request begins beside those that are under way. *)
Meets(r) ==
  LET others == {q \in Requests \ {r} : Running(q)} IN
  met' = IF others = {} THEN met ELSE met \cup {r} \cup others

Records(l) == written' = [t \in Tables |-> written[t] \cup {l[t]}]
-------------------------------------------------------------------------------
(* DecrementVariantStock and IncrementVariantStock                           *)

EnoughAlways(b) == Wants[b] \in DOMAIN tables["variants"]
Enough(b) ==
  /\ Wants[b] \in DOMAIN tables["variants"]
  /\ tables["variants"][Wants[b]] + Change[b] >= 0

(* A form that is replacing the rows of product_variants. *)
Replacing(a) == a \in Admins /\ job[a].pc = "variants" /\ job[a].begun

(* The UPDATE, committed by itself.  It changes no row when the row is not there
   or, for a decrement, holds too little; nor when it waited for a form that
   replaced the row; nor when it fails.                                     *)
Update(b) ==
  /\ job[b].pc = "new"
  /\ Meets(b)
  /\ \/ /\ Enough(b)
        /\ tables' = [tables EXCEPT !["variants"][Wants[b]] = @ + Change[b]]
        /\ job' = [job EXCEPT ![b].pc = "read", ![b].moved = TRUE]
        /\ Records(tables')
     \/ /\ ~Enough(b) \/ b \in Faulty \/ \E a \in Admins : Replacing(a)
        /\ job' = [job EXCEPT ![b].pc = "failed"]
        /\ UNCHANGED <<tables, written>>

(* syncAggregatedStockFromVariants reads the variants as they are by now, and
   computes the totals it is about to write.  A product without variants keeps
   the totals it has.                                                       *)
Read(b) ==
  LET f == tables["variants"]
      empty == DOMAIN f = {}
  IN
  /\ job[b].pc = "read"
  /\ job' = [job EXCEPT ![b].lists = IF empty THEN NoLists ELSE Totals(f),
                        ![b].pc = IF empty THEN "done" ELSE "sizes"]
  /\ IF empty THEN UNCHANGED written ELSE Records(Totals(f))
  /\ UNCHANGED <<tables, met>>
-------------------------------------------------------------------------------
(* UpsertSizes, UpsertColors, UpsertVariants                                 *)

(* The DELETE begins: these are the rows it sees. *)
Delete(r) ==
  LET t == job[r].pc IN
  /\ t \in Tables /\ ~job[r].begun
  /\ job' = [job EXCEPT ![r].begun = TRUE, ![r].seen = DOMAIN tables[t]]
  /\ UNCHANGED <<tables, written, met>>

(* The order in which the tables of a product are written. *)
AfterSizesOnly(r, t) ==
  IF t = "sizes" /\ r \in Admins THEN "variants" ELSE "done"
After(r, t) ==
  IF t = "sizes" THEN "colors"
  ELSE IF t = "colors" /\ r \in Admins THEN "variants" ELSE "done"

Retried(j) == j
Ended(j, pc) == [j EXCEPT !.pc = pc, !.begun = FALSE, !.seen = {}, !.lists = NoLists]
Collided(j) == Ended(j, "failed")
Written(r, j) ==
  LET pc == After(r, j.pc) IN
  IF pc = "done" THEN Ended(j, pc) ELSE [j EXCEPT !.pc = pc, !.begun = FALSE, !.seen = {}]

(* The UNIQUE index of the table. *)
CollidesNever(stay, new) == FALSE
Collides(stay, new) == DOMAIN stay \cap DOMAIN new # {}

(* The INSERT and the COMMIT.  The rows of the table that the DELETE did not see
   stay; when one of them has the key of a new row the transaction is rolled
   back and the request fails.  A transaction that commits takes the rows it
   replaced away from every other one that has seen them.                   *)
Insert(r) ==
  LET j == job[r]
      t == j.pc
      new == j.lists[t]
      stay == Restrict(tables[t], DOMAIN tables[t] \ j.seen)
      taken == j.seen \cup DOMAIN new
  IN
  /\ t \in Tables /\ j.begun
  /\ \/ /\ Collides(stay, new)
        /\ job' = [job EXCEPT ![r] = Collided(j)]
        /\ UNCHANGED tables
     \/ /\ ~Collides(stay, new)
        /\ tables' = [tables EXCEPT ![t] =
             [k \in DOMAIN stay \cup DOMAIN new |->
                IF k \in DOMAIN new THEN new[k] ELSE stay[k]]]
        /\ job' = [q \in Requests |->
             IF q = r THEN Written(r, j)
             ELSE IF job[q].pc = t THEN [job[q] EXCEPT !.seen = @ \ taken]
             ELSE job[q]]
  /\ UNCHANGED <<written, met>>

(* A statement of a request under way fails, or the process stops: what its
   transaction did is rolled back, what it committed before stays.  The INSERT
   of a form that names a key twice, or a negative stock, is one.           *)
Fail(r) ==
  /\ r \in Faulty /\ Running(r)
  /\ job' = [job EXCEPT ![r] = [Ended(job[r], "failed") EXCEPT !.broke = TRUE]]
  /\ UNCHANGED <<tables, written, met>>
-------------------------------------------------------------------------------
(* ProductService.Update: sizes, colors and variants are written as the form has
   them.  A list may add keys, rename them, leave them out, and be empty.    *)
Save(a) ==
  /\ job[a].pc = "new"
  /\ Meets(a)
  /\ \E l \in Forms :
       /\ job' = [job EXCEPT ![a].lists = l, ![a].pc = "sizes"]
       /\ Records(l)
  /\ UNCHANGED tables
-------------------------------------------------------------------------------
Step(r) ==
  \/ r \in Buyers /\ Read(r)
  \/ Delete(r)
  \/ Insert(r)

Next ==
  \/ \E b \in Buyers : Update(b)
  \/ \E r \in Requests : Step(r) \/ Fail(r)
  \/ \E a \in Admins : Save(a)

Spec == Init /\ [][Next]_vars

(* A request under way goes on: its statements return, those that wait for a
   transaction when that one ends.  Nobody has to send a form, and no statement
   has to fail.                                                             *)
FairSpec == Spec /\ \A r \in Requests : WF_vars(Step(r))
-------------------------------------------------------------------------------
(* Properties                                                                *)

TotalsRight == \A t \in TotalTables : tables[t] = Total(t, tables["variants"])

(* Every row has a stock that is not negative, and a request waits on rows of
   the table it is writing only.                                            *)
TypeOK ==
  /\ IsLists(tables)
  /\ DOMAIN job = Requests
  /\ \A r \in Requests :
       /\ job[r].pc \in Tables \cup {"new", "read", "done", "failed"}
       /\ job[r].begun \in BOOLEAN /\ job[r].moved \in BOOLEAN /\ job[r].broke \in BOOLEAN
       /\ IsLists(job[r].lists)
       /\ IF job[r].pc \in Tables THEN job[r].seen \subseteq DOMAIN tables[job[r].pc]
          ELSE job[r].seen = {}
  /\ \A t \in Tables : \A f \in written[t] : IsRows(t, f)
  /\ met \subseteq Requests

(* However checkouts, cancellations and forms interleave and fail, a table holds
   what one of them wrote to it, never a mixture of two.  What keeps two writers
   from mixing is that they collide on a key they have in common; where two of
   the contents written to a table share none, as after a form that renames
   every size, they may mix.                                                *)
Akin(t) == \A f, g \in written[t] : DOMAIN f \cap DOMAIN g = {} => {} \in {DOMAIN f, DOMAIN g}
NeverAMixture == \A t \in Tables : Akin(t) => tables[t] \in written[t]

(* A checkout or a cancellation beside which no other request ran leaves the
   totals of both tables right, however wrong a form or a collision had left
   them, or one of its own statements failed.                               *)
AloneRepairs ==
  [][\A b \in Buyers \ met : Running(b) /\ ~Running(b)' =>
       \/ job'[b].pc = "done" /\ TotalsRight'
       \/ job'[b].broke]_vars

(* Every call that reached the database returns, with a result or an error,
   whatever it collides with: nothing is tried again for ever.               *)
CallsReturn == \A r \in Requests : Running(r) ~> ~Running(r)

(* The totals are those of the variants when every call has returned without an
   error.                                                                   *)
TotalsTellVariants == (\A r \in Requests : job[r].pc \in {"new", "done"}) => TotalsRight

(* A decrement or an increment is atomic: when it returns an error the stock of
   the variant is as it was.                                                *)
FailedMovesNothing == \A b \in Buyers : job[b].pc = "failed" => ~job[b].moved
===============================================================================
