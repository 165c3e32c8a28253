------------------------------ MODULE PromoUsage ------------------------------
(***************************************************************************)
(* One promotional code and the checkouts that use it: the promo part of   *)
(* OrderService.Create (applyPromoCode, afterOrderCreated) with            *)
(* service/promo_service.go and store/postgres/promo_store.go.             *)
(*                                                                         *)
(* A checkout validates the code on what it reads, grants the discount,    *)
(* creates the order and only then records the use: an audit row in        *)
(* promo_usages, then the counter usage_count.  Each is one statement, and *)
(* nothing ties the validation to the recording.                           *)
(*                                                                         *)
(* A few definitions stand before the one they vary and are used by no     *)
(* action: IsValidOff, CountsUsesOfAll, RecordLate and MayIncrementAlways  *)
(* are what a slip in the code would make of it, each breaking a property  *)
(* below.                                                                  *)
(***************************************************************************)
EXTENDS Integers, FiniteSets

CONSTANTS
  Orders,       \* the orders, each named for its checkout
  UserOf,       \* the user of an order
  Guest,        \* the user of an order without an account
  NoLimit,      \* usage_limit or per_user_limit IS NULL, as the table allows
  Limits,       \* the values an administrator gives to the limits
  InitLimit, InitPerUser,
  MaxParallel,  \* bound on the checkouts under way at the same time
  MaxEdits,     \* bound on the edits of the code
  MaxFaults     \* bound on failing statements and restarts

ASSUME PromoAssumption ==
  /\ NoLimit \notin Nat
  /\ Limits \subseteq Nat \cup {NoLimit}
  /\ InitLimit \in Limits /\ InitPerUser \in Limits
  /\ MaxParallel \in Nat \ {0} /\ MaxEdits \in Nat /\ MaxFaults \in Nat
  /\ DOMAIN UserOf = Orders

VARIABLES
  promo,       \* the row of promo_codes
  usages,      \* promo_usages: the orders with an audit row
  pc,          \* where each checkout is
  perUser,     \* the per_user_limit each checkout read
  discounted,  \* the orders created with the discount
  untracked,   \* history: discounted orders whose use could not be recorded
  peak,        \* history: the largest usage_limit the code ever had
  changed,     \* history: usage_limit was changed
  edits, faults

vars == <<promo, usages, pc, perUser, discounted, untracked, peak, changed, edits, faults>>
history == <<peak, changed>>

Limit == Nat \cup {NoLimit}
Below(n, limit) == limit = NoLimit \/ n < limit
Larger(l, m) == IF l = NoLimit \/ m = NoLimit THEN NoLimit ELSE IF l < m THEN m ELSE l

Steps == {"new", "validate", "count", "reload", "create", "createUntracked",
          "record", "increment", "done", "refused"}

Init ==
  /\ promo = [exists |-> TRUE, open |-> TRUE, limit |-> InitLimit,
              perUser |-> InitPerUser, count |-> 0]
  /\ usages = {} /\ discounted = {} /\ untracked = {}
  /\ pc = [o \in Orders |-> "new"]
  /\ perUser = [o \in Orders |-> NoLimit]
  /\ peak = InitLimit /\ changed = FALSE
  /\ edits = 0 /\ faults = 0
-------------------------------------------------------------------------------
Running == {o \in Orders : pc[o] \notin {"new", "done", "refused"}}
Goto(o, step) == pc' = [pc EXCEPT ![o] = step]
Fails == faults < MaxFaults /\ faults' = faults + 1
Works == UNCHANGED faults

Begin(o) ==
  /\ pc[o] = "new" /\ Cardinality(Running) < MaxParallel
  /\ Goto(o, "validate")
  /\ UNCHANGED <<promo, usages, perUser, discounted, untracked, history, edits, faults>>

IsValidOff(p) == p.exists /\ p.open /\ (p.limit = NoLimit \/ p.count <= p.limit)
IsValid(p) == p.exists /\ p.open /\ Below(p.count, p.limit)

CountsUsesOfAll(o, p) == UserOf[o] # Guest
CountsUses(o, p) == UserOf[o] # Guest /\ p.perUser # NoLimit

(* Validate: GetByCode and IsValid, then the limit per user for a known user.
   `open` stands for is_active and the dates of the code.                   *)
Validate(o) ==
  /\ pc[o] = "validate"
  /\ perUser' = [perUser EXCEPT ![o] = promo.perUser]
  /\ \/ /\ Works /\ IsValid(promo)
        /\ Goto(o, IF CountsUses(o, promo) THEN "count" ELSE "reload")
     \/ ((Works /\ ~IsValid(promo)) \/ Fails) /\ Goto(o, "refused")
  /\ UNCHANGED <<promo, usages, discounted, untracked, history, edits>>

UsesOf(u) == Cardinality({p \in usages : UserOf[p] = u})

(* Validate: CountUserUsage against the limit read before. *)
CountUses(o) ==
  /\ pc[o] = "count"
  /\ \/ Works /\ UsesOf(UserOf[o]) < perUser[o] /\ Goto(o, "reload")
     \/ ((Works /\ UsesOf(UserOf[o]) >= perUser[o]) \/ Fails) /\ Goto(o, "refused")
  /\ UNCHANGED <<promo, usages, perUser, discounted, untracked, history, edits>>

(* applyPromoCode reads the code a second time; when that fails the discount
   stays and the use will not be recorded.                                  *)
Reload(o) ==
  /\ pc[o] = "reload"
  /\ \/ Works /\ promo.exists /\ Goto(o, "create")
     \/ ((Works /\ ~promo.exists) \/ Fails) /\ Goto(o, "createUntracked")
  /\ UNCHANGED <<promo, usages, perUser, discounted, untracked, history, edits>>

(* The order is created with its discount, or is refused for another reason.
   Where the reload after the COMMIT fails (order_store.go:84) the order is
   there and nothing is recorded: the state of an untracked order, or of one
   whose first RecordUsage fails.                                           *)
Create(o) ==
  /\ pc[o] \in {"create", "createUntracked"}
  /\ \/ /\ discounted' = discounted \cup {o}
        /\ untracked' = IF pc[o] = "create" THEN untracked ELSE untracked \cup {o}
        /\ Goto(o, IF pc[o] = "create" THEN "record" ELSE "done")
     \/ Goto(o, "refused") /\ UNCHANGED <<discounted, untracked>>
  /\ UNCHANGED <<promo, usages, perUser, history, edits, faults>>

(* MarkUsed, first RecordUsage; its row refers to the code.  An error ends
   MarkUsed and is logged.                                                  *)
RecordLate(o) ==
  /\ pc[o] = "record" /\ Works
  /\ Goto(o, "increment")
  /\ UNCHANGED <<promo, usages, perUser, discounted, untracked, history, edits>>
Record(o) ==
  /\ pc[o] = "record"
  /\ \/ /\ Works /\ promo.exists
        /\ usages' = usages \cup {o}
        /\ Goto(o, "increment")
        /\ UNCHANGED untracked
     \/ /\ (Works /\ ~promo.exists) \/ Fails
        /\ untracked' = untracked \cup {o}
        /\ Goto(o, "done")
        /\ UNCHANGED usages
  /\ UNCHANGED <<promo, perUser, discounted, history, edits>>

(* MarkUsed, then IncrementUsage: one UPDATE that changes no row once the limit
   is reached.  The order has its discount all the same.                    *)
MayIncrementAlways(p) == p.exists
MayIncrement(p) == p.exists /\ Below(p.count, p.limit)
Increment(o) ==
  /\ pc[o] = "increment"
  /\ \/ /\ Works /\ MayIncrement(promo)
        /\ promo' = [promo EXCEPT !.count = @ + 1]
        /\ UNCHANGED untracked
     \/ Works /\ ~MayIncrement(promo) /\ UNCHANGED <<promo, untracked>>
     \/ Fails /\ untracked' = untracked \cup {o} /\ UNCHANGED promo
  /\ Goto(o, "done")
  /\ UNCHANGED <<usages, perUser, discounted, history, edits>>

(* The process restarts: no checkout under way is finished. *)
Crash ==
  /\ Running # {} /\ Fails
  /\ untracked' = untracked \cup {o \in Running : pc[o] \in {"record", "increment"}}
  /\ pc' = [o \in Orders |-> IF o \notin Running THEN pc[o]
                             ELSE IF o \in discounted THEN "done" ELSE "refused"]
  /\ UNCHANGED <<promo, usages, perUser, discounted, history, edits>>
-------------------------------------------------------------------------------
(* PromoService.Update and Delete.  Nothing relates a new limit to the uses
   there are; the count is not touched.                                     *)
Edit == promo.exists /\ edits < MaxEdits /\ edits' = edits + 1

SetLimit(n) ==
  /\ Edit /\ n # promo.limit
  /\ promo' = [promo EXCEPT !.limit = n]
  /\ peak' = Larger(peak, n)
  /\ changed' = TRUE
  /\ UNCHANGED <<usages, pc, perUser, discounted, untracked, faults>>

SetPerUser(n) ==
  /\ Edit /\ n # promo.perUser
  /\ promo' = [promo EXCEPT !.perUser = n]
  /\ UNCHANGED <<usages, pc, perUser, discounted, untracked, history, faults>>

SetOpen(b) ==
  /\ Edit /\ b # promo.open
  /\ promo' = [promo EXCEPT !.open = b]
  /\ UNCHANGED <<usages, pc, perUser, discounted, untracked, history, faults>>

(* The audit rows go with the code (ON DELETE CASCADE). *)
Delete ==
  /\ Edit
  /\ promo' = [promo EXCEPT !.exists = FALSE]
  /\ usages' = {}
  /\ UNCHANGED <<pc, perUser, discounted, untracked, history, faults>>
-------------------------------------------------------------------------------
Next ==
  \/ \E o \in Orders : \/ Begin(o) \/ Validate(o) \/ CountUses(o) \/ Reload(o)
                       \/ Create(o) \/ Record(o) \/ Increment(o)
  \/ Crash
  \/ \E n \in Limits \ {NoLimit} : SetLimit(n) \/ SetPerUser(n)
  \/ \E b \in BOOLEAN : SetOpen(b)
  \/ Delete

Spec == Init /\ [][Next]_vars
-------------------------------------------------------------------------------
(* Every variable has its type, and no checkout compares a count with a limit
   per user that is NULL.                                                   *)
TypeOK ==
  /\ promo \in [exists : BOOLEAN, open : BOOLEAN, limit : Limit, perUser : Limit,
                count : Nat]
  /\ usages \subseteq Orders /\ discounted \subseteq Orders /\ untracked \subseteq Orders
  /\ pc \in [Orders -> Steps]
  /\ perUser \in [Orders -> Limit]
  /\ \A o \in Orders : pc[o] = "count" => perUser[o] \in Nat
  /\ peak \in Limit /\ changed \in BOOLEAN
  /\ edits \in 0..MaxEdits /\ faults \in 0..MaxFaults

(* IncrementUsage: concurrent orders never push usage_count past the limit.  An
   administrator may lower the limit below the count, so the bound is the largest
   limit the code has had.                                                  *)
CountWithinPeak == promo.count <= peak \/ peak = NoLimit

(* MarkUsed writes the audit row before the counter: every use the counter
   counts has its row, whatever statement fails and wherever the process stops. *)
CountIsAudited == promo.exists => promo.count <= Cardinality(usages)

(* A row of promo_usages belongs to an order that exists with its discount. *)
AuditedIsDiscounted == usages \subseteq discounted

(* The discounts granted beyond usage_limit are those of checkouts that were
   under way together, and those whose use could not be recorded: n checkouts at
   a time exceed the limit by n - 1 at most.  Once the limit is changed this no
   longer holds: the counter has forgotten the increments it refused.       *)
OverrunBounded ==
  ~changed /\ promo.limit # NoLimit =>
    Cardinality(discounted) <= promo.limit + (MaxParallel - 1) + Cardinality(untracked)

(* The discounts stay within usage_limit: what IncrementUsage says it guards
   against, a check-then-act race.                                          *)
DiscountsWithinLimit ==
  ~changed /\ untracked = {} /\ promo.limit # NoLimit =>
    Cardinality(discounted) <= promo.limit
===============================================================================
