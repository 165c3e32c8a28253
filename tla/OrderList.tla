------------------------------ MODULE OrderList ------------------------------
(***************************************************************************)
(* Somebody who goes through orders page by page, an administrator through *)
(* those of a status or a customer through his own: handler/order.go,      *)
(* service/order_service.go and store/postgres/order_store.go.  A page     *)
(* counts the orders that match and then reads its rows by an offset; the  *)
(* shop goes on meanwhile, checkouts bring new orders to the head of the   *)
(* list and PATCHes move orders into the status and out of it.             *)
(*                                                                         *)
(* MoreByOne is used by no action: it is what a slip in the code would     *)
(* make of the definition that follows it.                                 *)
(***************************************************************************)
EXTENDS Integers, FiniteSets, Sequences

CONSTANTS
  Customers,    \* those who place orders
  Statuses,     \* the statuses a PATCH gives, "pending" is one
  DefaultLimit, \* the rows of a page when no limit is asked for, 20 or 50 in the code
  MaxLimit,     \* bound on the limits asked for
  MaxPlaced,    \* bound on the orders
  MaxEdits      \* bound on the checkouts and PATCHes beside the reader

\* A page has rows, and a new order a status.  The module that has an instance of this one
\* assumes it.
OrderListAssumption ==
  /\ "pending" \in Statuses
  /\ DefaultLimit \in Nat \ {0} /\ MaxLimit \in Nat /\ MaxPlaced \in Nat /\ MaxEdits \in Nat

VARIABLES
  placed, \* the orders as they were created: [user, status]
  query,  \* what is asked for: [user, status, limit], "" for any
  page,   \* where the reader is: the statement, the offset, the total
  shown,  \* the orders he has been shown
  steady, \* history: the orders that have matched since he began
  slid,   \* history: may the rows have moved under a page of his
  edits   \* orders placed and changed so far

vars == <<placed, query, page, shown, steady, slid, edits>>

OrderRows == [user : Customers, status : Statuses]
Nowhere == [at |-> "new", offset |-> 0, total |-> 0]
Queries == [user : Customers \union {""}, status : Statuses \union {""}, limit : 0..MaxLimit]

Init ==
  /\ placed \in UNION {[1..n -> OrderRows] : n \in 0..MaxPlaced}
  /\ query = [user |-> "", status |-> "", limit |-> 0]
  /\ page = Nowhere
  /\ shown = {} /\ steady = {}
  /\ slid = FALSE
  /\ edits = 0

-----------------------------------------------------------------------------
(* OrderStore and OrderService: the rows of a page, and whether one follows. *)

\* ListByUserID looks at the owner alone, List at every filter that is given.
OfUser(o) == query.user # "" => o.user = query.user
Wanted(o) == OfUser(o) /\ (query.status # "" => o.status = query.status)
Matches(list) == {i \in DOMAIN list : Wanted(list[i])}

Limit == IF query.limit <= 0 THEN DefaultLimit ELSE query.limit

\* ORDER BY created_at DESC: as many newer ones match as the offset leaves out.
Rows == {i \in Matches(placed) :
           Cardinality({j \in Matches(placed) : j > i}) \in page.offset .. page.offset + Limit - 1}

MoreByOne(offset, total) == offset + Limit + 1 < total
HasMore(offset, total) == offset + Limit < total

-----------------------------------------------------------------------------
(* The reader. *)

Ask(q) ==
  /\ page.at = "new"
  /\ query' = q
  /\ page' = [Nowhere EXCEPT !.at = "count"]
  /\ steady' = {i \in DOMAIN placed : (q.user # "" => placed[i].user = q.user)
                                      /\ (q.status # "" => placed[i].status = q.status)}
  /\ UNCHANGED <<placed, shown, slid, edits>>

\* An administrator's filters, and the orders of the session's user.
AdminList == \E q \in Queries : Ask(q)
ListMyOrders == \E q \in Queries : q.user # "" /\ q.status = "" /\ Ask(q)

CountPage ==
  /\ page.at = "count"
  /\ page' = [page EXCEPT !.at = "find", !.total = Cardinality(Matches(placed))]
  /\ UNCHANGED <<placed, query, shown, steady, slid, edits>>

FindPage ==
  /\ page.at = "find"
  /\ shown' = shown \union Rows
  /\ page' = [page EXCEPT !.at = IF HasMore(page.offset, page.total) THEN "count" ELSE "done",
                          !.offset = @ + Limit]
  /\ UNCHANGED <<placed, query, steady, slid, edits>>

-----------------------------------------------------------------------------
(* Beside him: a row that leaves pulls later ones up, one that comes while a page *)
(* has been counted and not read pushes the last of it out.                       *)

Change(list) ==
  /\ edits < MaxEdits
  /\ edits' = edits + 1
  /\ placed' = list
  /\ steady' = steady \intersect Matches(list)
  /\ slid' = \/ slid
             \/ page.at \in {"count", "find"} /\ ~(Matches(placed) \subseteq Matches(list))
             \/ page.at = "find" /\ Matches(placed) # Matches(list)
  /\ UNCHANGED <<query, page, shown>>

Create == \E u \in Customers : Len(placed) < MaxPlaced /\ Change(Append(placed, [user |-> u, status |-> "pending"]))
UpdateStatus == \E i \in DOMAIN placed, s \in Statuses : Change([placed EXCEPT ![i].status = s])

Next == AdminList \/ ListMyOrders \/ CountPage \/ FindPage \/ Create \/ UpdateStatus

Spec == Init /\ [][Next]_vars

-----------------------------------------------------------------------------
\* Each variable has its type.
TypeOK ==
  /\ placed \in UNION {[1..n -> OrderRows] : n \in 0..MaxPlaced}
  /\ query \in Queries
  /\ page \in [at : {"new", "count", "find", "done"}, offset : Nat, total : 0..MaxPlaced]
  /\ shown \subseteq 1..MaxPlaced /\ steady \subseteq 1..MaxPlaced
  /\ slid \in BOOLEAN /\ edits \in 0..MaxEdits

\* Whoever goes on until has_more is false was shown every order that matched
\* all along, however many came in between two of his pages; but not when a
\* PATCH took an order out of the list, nor when one came between the count and
\* the rows of a page (order_store.go:145-235, order_service.go:460-494).
SteadySeen == page.at = "done" /\ ~slid => steady \subseteq shown
=============================================================================
