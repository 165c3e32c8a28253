--------------------------------- MODULE MCSales ---------------------------------
(***************************************************************************)
(* What surrounds an order beside its stock: the uses of a promotional     *)
(* code (PromoUsage), the amounts it leads to (Pricing), the e-mails       *)
(* (Mails) and the lists of the orders (OrderList), each in an instance of *)
(* its own.  They share nothing that another looks at; a behaviour is      *)
(* about one of them, its focus.                                           *)
(***************************************************************************)
EXTENDS MCPromoUsage

CONSTANTS
  Editors, Rules, Deltas, Seeded, Shippings, Defaults, Subtotals,     \* Pricing
  NULL, Empty, MaxRules, MaxUpdates, MaxSettings,
  Bought, Patches, Contacts, Signups, MaxForms,                       \* Mails
  Customers, Statuses, DefaultLimit, MaxLimit, MaxPlaced, MaxMoves    \* OrderList

VARIABLES
  focus,
  rule, shipping, update, cart, order, created, updates, changes, crossed,
  mailer, enabled, account, bought, proofs, task, outbox, sent, shipments, overtaken, muted, forms,
  placed, query, page, shown, steady, slid, moves

\* A rule that may end at half a cent, a fixed one that may exceed the goods, a
\* percentage above 100 and updates that carry a part of each.
Percent == [kind |-> "percentage", value |-> 50, min |-> 0, max |-> NULL, starts |-> 1, expires |-> 2]
MCRules == {
  Percent,
  [Percent EXCEPT !.value = 110],
  [kind |-> "fixed", value |-> 9, min |-> 4, max |-> 8, starts |-> NULL, expires |-> 1]}
MCDeltas == {
  [value |-> 110], "kind" :> "fixed", [kind |-> "percentage", value |-> 50],
  [starts |-> 2], [expires |-> 1, min |-> 9], [starts |-> Empty, max |-> 2]}
MCSeeded == [threshold |-> 0, cost |-> 8]
MCShippings == {NULL, [threshold |-> NULL, cost |-> -20]}
MCDefaults == [threshold |-> 7, cost |-> 2]

Price == INSTANCE Pricing WITH promo <- rule
Mail == INSTANCE MailsProofs WITH MaxMailFaults <- MaxFaults, mailFaults <- faults, crossed <- overtaken
Placed == INSTANCE OrderList WITH MaxEdits <- MaxMoves, edits <- moves

\* What the theorems assume of the constants of these parts.
ASSUME SalesAssumption == Price!PricingAssumption /\ Mail!MailAssumption /\ Placed!OrderListAssumption

\* No PATCH requests differ.
MCSymmetry == Permutations(Patches)

priceVars == <<rule, shipping, update, cart, order, created, updates, changes, crossed>>
mailVars == <<mailer, enabled, account, bought, proofs, task, outbox, sent, shipments, overtaken, muted, forms>>
listVars == <<placed, query, page, shown, steady, slid, moves>>
salesVars == <<focus, vars, priceVars, mailVars, listVars>>
otherUses == <<promo, usages, pc, perUser, discounted, untracked, peak, changed, edits>>

\* A part that is not in focus has one initial state.
SalesInit ==
  /\ focus \in {"uses", "price", "mail", "list"}
  /\ Init
  /\ Price!Init
  /\ Mail!MailInit /\ (focus # "mail" => mailer)
  /\ Placed!Init /\ (focus # "list" => placed = << >>)

SalesNext ==
  /\ UNCHANGED focus
  /\ \/ focus = "uses" /\ Next /\ UNCHANGED <<priceVars, mailVars, listVars>>
     \/ focus = "price" /\ Price!Next /\ UNCHANGED <<vars, mailVars, listVars>>
     \/ focus = "mail" /\ Mail!MailNext /\ UNCHANGED <<otherUses, priceVars, listVars>>
     \/ focus = "list" /\ Placed!Next /\ UNCHANGED <<vars, priceVars, mailVars>>

SalesSpec == SalesInit /\ [][SalesNext]_salesVars

-----------------------------------------------------------------------------
(* Every variable has the type its module gives it. *)
SalesTypeOK == TypeOK /\ Price!TypeOK /\ Mail!MailTypeOK /\ Placed!TypeOK

(* The rule of a code is one that may be asked for (Pricing!RuleInOrder). *)
RuleInOrder == Price!RuleInOrder

(* The amounts of an order agree (Pricing!BooksBalance). *)
BooksBalance == Price!BooksBalance

(* An e-mail tells what happened, once (Mails!ToldOnce). *)
ToldOnce == Mail!ToldOnce

(* The pages show every order that matched all along (OrderList!SteadySeen). *)
SteadySeen == Placed!SteadySeen
==================================================================================
