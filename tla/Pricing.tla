-------------------------------- MODULE Pricing --------------------------------
(***************************************************************************)
(* What an order costs: the rule of a promotional code as administrators   *)
(* edit it (service/promo_service.go), the shipping settings               *)
(* (service/settings_service.go) and the part of OrderService.Create that  *)
(* reads both and computes the amounts (service/order_service.go).  The    *)
(* limits on the uses of a code are in PromoUsage, the stock of the order  *)
(* in OrderStock.                                                          *)
(*                                                                         *)
(* The subtotal and whatever an administrator writes are in cents.  The    *)
(* code computes in floating point and the columns keep two decimals:      *)
(* here the amounts under way are exact, in hundredths of a cent, and      *)
(* rounded when they are stored.                                           *)
(*                                                                         *)
(* FieldsOfDelta and Unbounded are used by no action: each is what a slip  *)
(* in the code would make of the definition that follows it.               *)
(***************************************************************************)
EXTENDS Integers

CONSTANTS
  Editors,    \* administrators with one edit of the code under way at most
  Rules,      \* the rules an administrator may give a new code
  Deltas,     \* the fields an update may carry
  Seeded,     \* the shipping settings the migration leaves
  Shippings,  \* the values an administrator may give them, absent fields with NULL;
              \* NULL for a row that cannot be read
  Defaults,   \* the two constants the code falls back to
  Subtotals,  \* what a cart may come to
  NULL,
  Empty,      \* the empty string, which clears a date
  MaxRules,   \* bound on the codes that are created
  MaxUpdates, \* bound on the updates of the code
  MaxSettings \* bound on the updates of the settings

\* What NULL and Empty stand for is neither a number nor an order, a rule and an update have
\* the columns of the table.  The module that has an instance of this one assumes it.
Columns == {"kind", "value", "min", "max", "starts", "expires"}
Setting == [threshold : Int \union {NULL}, cost : Int \union {NULL}]
Amounts == [subtotal : Int, fee : Int, discount : Int, total : Int, coded : BOOLEAN]
PricingAssumption ==
  /\ NULL \notin Int /\ NULL # Empty /\ NULL \notin Amounts
  /\ \A rule \in Rules :
       /\ DOMAIN rule = Columns
       /\ rule.value \in Int /\ rule.min \in Int /\ rule.max \in Int \union {NULL}
  /\ \A delta \in Deltas :
       /\ DOMAIN delta \subseteq Columns
       /\ \A f \in {"value", "min", "max"} \intersect DOMAIN delta : delta[f] \in Int
  /\ Seeded \in Setting /\ Shippings \subseteq Setting \union {NULL}
  /\ Defaults.threshold \in Int /\ Defaults.cost \in Int
  /\ Subtotals \subseteq Nat
  /\ MaxRules \in Nat /\ MaxUpdates \in Nat /\ MaxSettings \in Nat

VARIABLES
  promo,     \* the row of the code, NULL when there is none
  shipping,  \* the value of the row "shipping"
  update,    \* local state of each editor
  cart,      \* local state of the checkout
  order,     \* the amounts of the order it stored, NULL before
  created,   \* codes created so far
  updates,   \* updates so far
  changes,   \* changes of the settings so far
  crossed    \* history: an update of this code was decided on a window that was no more

vars == <<promo, shipping, update, cart, order, created, updates, changes, crossed>>

NoUpdate == [seen |-> NULL, delta |-> << >>]
EmptyCart == [at |-> "items", subtotal |-> 0, fee |-> 0, discount |-> 0, coded |-> FALSE]

Init ==
  /\ promo = NULL
  /\ shipping = Seeded
  /\ update = [e \in Editors |-> NoUpdate]
  /\ cart = EmptyCart
  /\ order = NULL
  /\ created = 0 /\ updates = 0 /\ changes = 0
  /\ crossed = FALSE

-----------------------------------------------------------------------------
(* The rule of a code. *)

validateDiscount(kind, value) ==
  CASE kind = "percentage" -> 0 < value /\ value <= 100
    [] kind = "fixed" -> value > 0
    [] OTHER -> FALSE

InOrder(starts, expires) == starts # NULL /\ expires # NULL => starts <= expires

Create(e, rule) ==
  /\ promo = NULL /\ created < MaxRules
  /\ validateDiscount(rule.kind, rule.value)
  /\ rule.min >= 0 /\ (rule.max # NULL => rule.max >= 0)
  /\ InOrder(rule.starts, rule.expires)
  /\ created' = created + 1
  /\ promo' = [f \in Columns \union {"id"} |-> IF f = "id" THEN created' ELSE rule[f]]
  /\ crossed' = FALSE
  /\ UNCHANGED <<shipping, update, cart, order, updates, changes>>

\* The rows of the table go by their id.
GetByID(e, delta) ==
  /\ update[e] = NoUpdate /\ promo # NULL /\ updates < MaxUpdates
  /\ updates' = updates + 1
  /\ update' = [update EXCEPT ![e] = [seen |-> promo, delta |-> delta]]
  /\ UNCHANGED <<promo, shipping, cart, order, created, changes, crossed>>

\* The columns that are written: where the kind or the value is given both are,
\* as they will be; a date may be cleared.
Given(delta, field, otherwise) == IF field \in DOMAIN delta THEN delta[field] ELSE otherwise
Cleared(x) == IF x = Empty THEN NULL ELSE x
Discount(delta, seen) ==
  [kind |-> Given(delta, "kind", seen.kind), value |-> Given(delta, "value", seen.value)]
Touched(delta) == {"kind", "value"} \intersect DOMAIN delta # {}
Plain(delta, f) == IF f \in {"starts", "expires"} THEN Cleared(delta[f]) ELSE delta[f]
FieldsOfDelta(delta, seen) == [f \in DOMAIN delta |-> Plain(delta, f)]
Fields(delta, seen) ==
  [f \in DOMAIN delta \union (IF Touched(delta) THEN {"kind", "value"} ELSE {}) |->
     IF f \in {"kind", "value"} THEN Discount(delta, seen)[f] ELSE Plain(delta, f)]

\* The new window is judged with the dates read before; a date that is cleared
\* is judged as if it stayed.
Accepted(delta, seen) ==
  LET kept(f) == IF Given(delta, f, Empty) = Empty THEN seen[f] ELSE delta[f]
  IN  /\ Touched(delta) => validateDiscount(Discount(delta, seen).kind, Discount(delta, seen).value)
      /\ Given(delta, "min", 0) >= 0 /\ Given(delta, "max", 0) >= 0
      /\ InOrder(kept("starts"), kept("expires"))

\* The second half of an update; no row is changed when the code has gone meanwhile,
\* and the fields that are not given keep what others wrote.
Update(e) ==
  LET seen == update[e].seen
      delta == update[e].delta
      fields == Fields(delta, seen)
      writes == seen # NULL /\ promo # NULL /\ promo.id = seen.id /\ Accepted(delta, seen)
  IN
  /\ seen # NULL
  /\ IF writes
       THEN /\ promo' = [f \in DOMAIN promo |-> IF f \in DOMAIN fields THEN fields[f] ELSE promo[f]]
            /\ crossed' = (crossed \/ <<seen.starts, seen.expires>> # <<promo.starts, promo.expires>>)
       ELSE UNCHANGED <<promo, crossed>>
  /\ update' = [update EXCEPT ![e] = NoUpdate]
  /\ UNCHANGED <<shipping, cart, order, created, updates, changes>>

Delete(e) ==
  /\ promo # NULL
  /\ promo' = NULL /\ crossed' = FALSE
  /\ UNCHANGED <<shipping, update, cart, order, created, updates, changes>>

-----------------------------------------------------------------------------
(* The settings: a group is replaced as a whole, whatever the form sends. *)

Upsert(value) ==
  /\ changes < MaxSettings /\ changes' = changes + 1
  /\ shipping' = value
  /\ UNCHANGED <<promo, update, cart, order, created, updates, crossed>>

-----------------------------------------------------------------------------
(* The checkout. *)

Step(at) == cart' = [cart EXCEPT !.at = at]
OnlyCart == UNCHANGED <<promo, shipping, update, order, created, updates, changes, crossed>>

buildOrderItems(subtotal) ==
  /\ cart.at = "items"
  /\ cart' = [cart EXCEPT !.at = "fee", !.subtotal = subtotal]
  /\ OnlyCart

\* A field that is missing, or no number, leaves its default.
ShippingFee(value, subtotal) ==
  LET setting(f) == IF value = NULL \/ value[f] = NULL THEN Defaults[f] ELSE value[f]
  IN  IF setting("threshold") > 0 /\ subtotal >= setting("threshold") THEN 0 ELSE setting("cost")

computeShippingFee ==
  /\ cart.at = "fee"
  /\ cart' = [cart EXCEPT !.at = "promo", !.fee = ShippingFee(shipping, cart.subtotal)]
  /\ OnlyCart

\* CalculateDiscount, in hundredths of a cent.
Lesser(a, b) == IF b < a THEN b ELSE a
RawDiscount(rule, subtotal) ==
  IF rule.kind = "percentage" THEN subtotal * rule.value ELSE 100 * rule.value
Unbounded(rule, subtotal) == RawDiscount(rule, subtotal)
CalculateDiscount(rule, subtotal) ==
  IF subtotal < rule.min THEN 0
  ELSE LET raw == RawDiscount(rule, subtotal)
       IN  Lesser(IF rule.max = NULL THEN raw ELSE Lesser(raw, 100 * rule.max), 100 * subtotal)

Open(rule, now) ==
  /\ rule.starts # NULL => rule.starts <= now
  /\ rule.expires # NULL => now <= rule.expires

\* The code is read and judged, at a time that may be any.
Moments == 0..3
Valid(rule, now, subtotal) == rule # NULL /\ Open(rule, now) /\ subtotal >= rule.min
applyPromoCode(coded, now) ==
  /\ cart.at = "promo"
  /\ IF ~coded THEN Step("order")
     ELSE IF Valid(promo, now, cart.subtotal)
       THEN cart' = [cart EXCEPT !.at = "reload", !.discount = CalculateDiscount(promo, cart.subtotal)]
       ELSE Step("refused")
  /\ OnlyCart

\* It is read a second time; the order carries its name if that succeeds.
GetByCode ==
  /\ cart.at = "reload"
  /\ \E found \in {promo # NULL, FALSE} : cart' = [cart EXCEPT !.at = "order", !.coded = found]
  /\ OnlyCart

\* The columns round half a cent up, each for itself, and refuse a negative fee.
Rounded(exact) == (exact + 50) \div 100
Exact == 100 * cart.subtotal + 100 * cart.fee - cart.discount
buildOrder ==
  /\ cart.at = "order"
  /\ IF cart.fee < 0
       THEN Step("refused") /\ UNCHANGED order
       ELSE /\ order' = [subtotal |-> cart.subtotal, fee |-> cart.fee, discount |-> Rounded(cart.discount),
                         total |-> IF Exact < 0 THEN 0 ELSE Rounded(Exact), coded |-> cart.coded]
            /\ Step("done")
  /\ UNCHANGED <<promo, shipping, update, created, updates, changes, crossed>>

\* Any step may be the last: a line that cannot be taken, a statement that fails.
Refuse ==
  /\ cart.at \notin {"done", "refused"}
  /\ Step("refused")
  /\ OnlyCart

-----------------------------------------------------------------------------
Next ==
  \/ \E e \in Editors :
       \/ \E rule \in Rules : Create(e, rule)
       \/ \E delta \in Deltas : GetByID(e, delta)
       \/ Update(e) \/ Delete(e)
  \/ \E value \in Shippings : Upsert(value)
  \/ \E subtotal \in Subtotals : buildOrderItems(subtotal)
  \/ computeShippingFee
  \/ \E coded \in BOOLEAN, now \in Moments : applyPromoCode(coded, now)
  \/ GetByCode \/ buildOrder \/ Refuse

Spec == Init /\ [][Next]_vars

-----------------------------------------------------------------------------
\* Each variable has its type.
TypeOK ==
  /\ promo # NULL => promo.id \in 1..MaxRules /\ DOMAIN promo = {"id", "kind", "value", "min", "max", "starts", "expires"}
  /\ shipping \in Shippings \union {Seeded}
  /\ \A e \in Editors : DOMAIN update[e] = {"seen", "delta"}
  /\ cart.at \in {"items", "fee", "promo", "reload", "order", "done", "refused"}
  /\ order # NULL <=> cart.at = "done"
  /\ created \in 0..MaxRules /\ updates \in 0..MaxUpdates /\ changes \in 0..MaxSettings
  /\ crossed \in BOOLEAN

\* The discount of a code is always one an administrator could have asked for, however
\* updates that each carry a part of it cross; its window is in order unless an update
\* was judged on dates another one was changing: "cross-field validation runs against
\* the final state" for the first and not for the second
\* (promo_service.go:97-190).
RuleInOrder ==
  promo # NULL =>
    /\ validateDiscount(promo.kind, promo.value)
    /\ InOrder(promo.starts, promo.expires) \/ crossed

\* An order is never discounted by more than its goods, and its four amounts agree to
\* the cent though each was rounded for itself, whatever rule and settings were read
\* in between (order_service.go:266-344, promo.go:72-92).
BooksBalance ==
  order # NULL =>
    /\ 0 <= order.discount /\ order.discount <= order.subtotal
    /\ order.fee >= 0
    /\ order.total - (order.subtotal + order.fee - order.discount) \in {-1, 0, 1}
=============================================================================
