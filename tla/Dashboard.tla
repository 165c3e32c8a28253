------------------------------- MODULE Dashboard -------------------------------
(***************************************************************************)
(* The overview of the administrators: service/stats_service.go asks for   *)
(* its sections side by side, in one goroutine each, and                   *)
(* store/postgres/stats_store.go reads each of them with statements of its *)
(* own while customers order and administrators work.  The first section   *)
(* that fails fails the overview.                                          *)
(*                                                                         *)
(* Time is counted in half days, so that a day of the server, Zone ahead   *)
(* of the database's UTC, may not be a day of the database.  Of an order   *)
(* the model keeps when it was made, its status and its price; its payment *)
(* method is fixed.  The sections about products and customers are the     *)
(* same kind of reads of other tables and are left out.                    *)
(*                                                                         *)
(* BeforeToday is used by no action: it is what a slip in the code would   *)
(* make of the definition that follows it.                                 *)
(***************************************************************************)
EXTENDS Integers, FiniteSets, Sequences

CONSTANTS
  Zone,      \* how far the day of the server is ahead of the database's, in half days
  MethodOf,  \* order -> payment method; an order costs its number
  MaxClock,  \* bound on time
  MaxEdits,  \* bound on what happens to the orders during an overview
  MaxFaults, \* bound on failing statements
  Days,      \* what an administrator may ask for, 30 by default and 365 at most
  SparkDays  \* days of the sparklines before today, 6 in the code

\* The module that has an instance of this one assumes it.
DashboardAssumption ==
  /\ Zone \in Int /\ SparkDays \in Nat /\ Days \subseteq Nat
  /\ DOMAIN MethodOf \subseteq Nat /\ IsFiniteSet(DOMAIN MethodOf)
  /\ MaxClock \in Nat \ {0} /\ MaxEdits \in Nat /\ MaxFaults \in Nat

VARIABLES
  orders,   \* the table: order -> when it was made and its status
  clock,
  overview, \* what the request is at, and the span of its windows
  out,      \* section -> what was read for it, for those read so far
  edits,    \* changes of the orders so far
  faults,   \* statements failed so far
  stirred   \* history: has an order changed since the overview began

vars == <<orders, clock, overview, out, edits, faults, stirred>>

Ids == DOMAIN MethodOf
Statuses == {"none", "pending", "confirmed", "delivered", "cancelled"}  \* shipped counts like confirmed
KpiOrder == <<"revenue", "previous", "pending", "decided", "delivered">>
Sections == {"revenue", "previous", "pending", "decided", "delivered", "status", "days", "payment", "spark"}

Init ==
  /\ clock = MaxClock - 1
  /\ \E i \in Ids, at \in 0..clock, status \in {"delivered", "cancelled"} :
       orders = [j \in Ids |-> IF j = i THEN [at |-> at, status |-> status] ELSE [at |-> 0, status |-> "none"]]
  /\ overview = [at |-> "new", since |-> 0, now |-> 0, length |-> 0]
  /\ out = << >>
  /\ edits = 0
  /\ faults = 0
  /\ stirred = FALSE

-----------------------------------------------------------------------------
(* The statements. *)

DayOf(time) == time \div 2
Made(from) == {i \in Ids : orders[i].status # "none" /\ orders[i].at >= from}
Sold(from) == {i \in Made(from) : orders[i].status # "cancelled"}
Processed(s) == {i \in s : orders[i].status \in {"confirmed", "delivered"}}

Price(i) == i
Units(amount) == UNION {{i} \X (1 .. amount[i]) : i \in DOMAIN amount}  \* a sum is the number of units
Revenue(s) == Cardinality(Units([i \in s |-> Price(i)]))
Totals(s) == [revenue |-> Revenue(s), count |-> Cardinality(s)]
GroupBy(s, key(_)) == [k \in {key(i) : i \in s} |-> Totals({i \in s : key(i) = k})]

\* The KPIs, one statement after the other.
CurrentWindow == Totals(Sold(overview.since))
PreviousWindow ==
  Totals({i \in Sold(overview.since - overview.length) : orders[i].at < overview.since})
Pending == [count |-> Cardinality({i \in Ids : orders[i].status = "pending"})]  \* of all time
Decided ==
  LET made == Made(overview.since)
  IN  [processed |-> Cardinality(Processed(made)),
       cancelled |-> Cardinality({i \in made : orders[i].status = "cancelled"})]
\* Of the orders here none is cancelled after it was shipped (stats_store.go:122-126).
Delivered == [count |-> Cardinality({i \in Made(overview.since) : orders[i].status = "delivered"})]

OrdersByStatus == GroupBy(Made(overview.since), LAMBDA i : orders[i].status)
PaymentMethods == GroupBy(Sold(overview.since), LAMBDA i : MethodOf[i])
RevenueByDay == GroupBy(Sold(overview.since), LAMBDA i : DayOf(orders[i].at))

\* One point for every day of the server; a row of another day has no place.
BeforeToday == DayOf(overview.since + Zone) .. (DayOf(overview.now + Zone) - 1)
DaysShown == DayOf(overview.since + Zone) .. DayOf(overview.now + Zone)
fillDayGaps(rows) == [d \in DaysShown |-> IF d \in DOMAIN rows THEN rows[d] ELSE Totals({})]

\* From the midnight of the database SparkDays ago to its today.
Sparklines ==
  [d \in (DayOf(overview.now) - SparkDays) .. DayOf(clock) |->
     LET made == {i \in Made(0) : DayOf(orders[i].at) = d}
     IN  [orders |-> Cardinality(made), processed |-> Cardinality(Processed(made))]]

Read(s) ==
  CASE s = "revenue" -> CurrentWindow
    [] s = "previous" -> PreviousWindow
    [] s = "pending" -> Pending
    [] s = "decided" -> Decided
    [] s = "delivered" -> Delivered
    [] s = "status" -> OrdersByStatus
    [] s = "days" -> fillDayGaps(RevenueByDay)
    [] s = "payment" -> PaymentMethods
    [] s = "spark" -> Sparklines

-----------------------------------------------------------------------------
(* StatsService.Overview. *)

Overview ==
  /\ overview.at = "new"
  /\ \E days \in Days :
       overview' = [at |-> "reading", now |-> clock, since |-> clock - 2 * days, length |-> 2 * days]
  /\ stirred' = FALSE
  /\ UNCHANGED <<orders, clock, out, edits, faults>>

\* The KPIs follow one another, the other sections come in any order.
Turn(s) == \A k \in 1 .. Len(KpiOrder) - 1 : s = KpiOrder[k + 1] => KpiOrder[k] \in DOMAIN out

Fetch(s) ==
  /\ overview.at = "reading" /\ s \notin DOMAIN out /\ Turn(s)
  /\ out' = [t \in DOMAIN out \union {s} |-> IF t = s THEN Read(s) ELSE out[t]]
  /\ UNCHANGED <<orders, clock, overview, edits, faults, stirred>>

FetchFails ==
  /\ overview.at = "reading" /\ faults < MaxFaults
  /\ faults' = faults + 1
  /\ overview' = [overview EXCEPT !.at = "failed"]
  /\ out' = << >>
  /\ UNCHANGED <<orders, clock, edits, stirred>>

Wait ==
  /\ overview.at = "reading" /\ DOMAIN out = Sections
  /\ overview' = [overview EXCEPT !.at = "answered"]
  /\ UNCHANGED <<orders, clock, out, edits, faults, stirred>>

-----------------------------------------------------------------------------
(* The shop goes on; what happens after the overview is of no interest. *)

Edit ==
  /\ edits < MaxEdits /\ overview.at \in {"new", "reading"}
  /\ edits' = edits + 1
  /\ stirred' = TRUE
  /\ UNCHANGED <<clock, overview, out, faults>>

CreateOrder(i) ==
  /\ orders[i].status = "none"
  /\ orders' = [orders EXCEPT ![i] = [at |-> clock, status |-> "pending"]]
  /\ Edit

PatchOrder(i) ==
  /\ orders[i].status # "none"
  /\ \E status \in Statuses \ {"none"} : orders' = [orders EXCEPT ![i].status = status]
  /\ Edit

Tick ==
  /\ clock < MaxClock /\ overview.at \in {"new", "reading"}
  /\ clock' = clock + 1
  /\ UNCHANGED <<orders, overview, out, edits, faults, stirred>>

Next ==
  \/ Overview \/ FetchFails \/ Wait \/ Tick
  \/ \E s \in Sections : Fetch(s)
  \/ \E i \in Ids : CreateOrder(i) \/ PatchOrder(i)

Spec == Init /\ [][Next]_vars

-----------------------------------------------------------------------------
\* Each variable has its type.
TypeOK ==
  /\ \A i \in Ids : orders[i].at \in 0..MaxClock /\ orders[i].status \in Statuses
  /\ clock \in 0..MaxClock
  /\ overview.at \in {"new", "reading", "answered", "failed"}
  /\ DOMAIN out \subseteq Sections
  /\ edits \in 0..MaxEdits /\ faults \in 0..MaxFaults /\ stirred \in BOOLEAN

SumOf(rows, keys) == Cardinality(Units([k \in keys |-> rows[k].revenue]))

CountOf(status) == IF status \in DOMAIN out["status"] THEN out["status"][status].count ELSE 0

\* The sections of an answered overview tell the same story when no order changed
\* while they were read and the server runs in UTC: the revenue is that of its
\* days, of its payment methods and of the statuses but the cancelled, the
\* cancelled, processed and delivered are those of the ratios, and a day never
\* shows more sales than its sparkline shows orders (stats_service.go:59-192, stats_store.go:55-403).
SectionsAgree ==
  overview.at = "answered" /\ ~stirred =>
    /\ SumOf(out["days"], DOMAIN out["days"]) = out["revenue"].revenue
    /\ SumOf(out["payment"], DOMAIN out["payment"]) = out["revenue"].revenue
    /\ SumOf(out["status"], DOMAIN out["status"] \ {"cancelled"}) = out["revenue"].revenue
    /\ out["decided"].cancelled = CountOf("cancelled")
    /\ out["decided"].processed = CountOf("confirmed") + CountOf("delivered")
    /\ out["delivered"].count = CountOf("delivered")
    /\ out["pending"].count >= CountOf("pending")
    /\ \A d \in DOMAIN out["days"] \intersect DOMAIN out["spark"] :
         out["days"][d].count <= out["spark"][d].orders
=============================================================================
