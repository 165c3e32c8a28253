----------------------------- MODULE ProductList -----------------------------
(***************************************************************************)
(* A visitor who goes through the listing of the shop page by page:        *)
(* handler/product.go, service/product_service.go and store/postgres/      *)
(* product_store.go.  A page counts the products that match and then reads *)
(* its rows, two statements between which the shop may change.  The order  *)
(* of rows the ORDER BY says nothing about is any, and need not be that of *)
(* the page before.                                                        *)
(*                                                                         *)
(* OffsetOnly is used by no action: it is what a slip in the code would    *)
(* make of the definition that follows it.                                 *)
(***************************************************************************)
EXTENDS Integers, FiniteSets, Sequences, SequencesExt

CONSTANTS
  Kinds,    \* the products there may be: records [category, active, new, sale, hit, featured, price]
  ParentOf, \* category slug -> the slug of its group, for the sub-categories
  MaxShelf, \* bound on the products
  MaxEdits  \* bound on what the administrator does

\* Prices are numbers.  The module that has an instance of this one assumes it.
ProductListAssumption ==
  /\ \A kind \in Kinds : kind.price \in Int /\ kind.featured \in BOOLEAN
  /\ MaxShelf \in Nat /\ MaxEdits \in Nat

VARIABLES
  shelf,   \* the products in the order of their creation: each of a kind
  filters, \* what the visitor asked for
  walk,    \* where he is: the statement, the offset, the total, the products seen
  edits,   \* changes made to the shelf so far
  stirred  \* history: has the shelf changed since the visitor began

vars == <<shelf, filters, walk, edits, stirred>>

Categories == DOMAIN ParentOf \union {ParentOf[c] : c \in DOMAIN ParentOf}
Filters == [category : {"all", "new", "soldes"} \union Categories, search : BOOLEAN,
            sort : {"newest", "price", "relevance"}, limit : 1..2]

Init ==
  /\ shelf \in UNION {[1..n -> Kinds] : n \in 0..MaxShelf}
  /\ filters \in Filters
  /\ walk = [at |-> "new", offset |-> 0, total |-> 0, seen |-> {}]
  /\ edits = 0
  /\ stirred = FALSE

-----------------------------------------------------------------------------
(* ProductStore.List: the WHERE, the ORDER BY, the page. *)

\* A group also shows what is in its sub-categories.
InCategory(kind, c) ==
  CASE c = "all" -> TRUE
    [] c = "new" -> kind.new
    [] c = "soldes" -> kind.sale
    [] OTHER -> kind.category = c \/ (kind.category \in DOMAIN ParentOf /\ ParentOf[kind.category] = c)

Matches == {i \in DOMAIN shelf : /\ shelf[i].active
                                 /\ InCategory(shelf[i], filters.category)
                                 /\ filters.search => shelf[i].hit}

\* A category joins tables that have a name and a description too, and the
\* search does not say whose it means: the statement is refused.
Ambiguous == filters.search /\ filters.category \in Categories

Before(i, j) ==
  CASE filters.sort = "newest" -> i > j
    [] filters.sort = "price" -> shelf[i].price < shelf[j].price
    [] OTHER -> \/ shelf[i].featured /\ ~shelf[j].featured
                \/ shelf[i].featured = shelf[j].featured /\ i > j

Arrangements ==
  {s \in SetToSeqs(Matches) : \A a, b \in DOMAIN s : a < b => ~Before(s[b], s[a])}

Lesser(a, b) == IF a < b THEN a ELSE b
Rows(s, offset, limit) == ToSet(SubSeq(s, offset + 1, Lesser(offset + limit, Len(s))))

\* ProductsResponse.has_more
OffsetOnly(offset, limit, total) == offset + limit + 1 < total
HasMore(offset, limit, total) == offset + limit < total

-----------------------------------------------------------------------------
(* The visitor. *)

List ==
  /\ walk.at = "new"
  /\ walk' = [walk EXCEPT !.at = "count"]
  /\ stirred' = FALSE
  /\ UNCHANGED <<shelf, filters, edits>>

CountTotal ==
  /\ walk.at = "count"
  /\ walk' = IF Ambiguous THEN [walk EXCEPT !.at = "failed"]
             ELSE [walk EXCEPT !.at = "find", !.total = Cardinality(Matches)]
  /\ UNCHANGED <<shelf, filters, edits, stirred>>

FindPage ==
  /\ walk.at = "find"
  /\ \E s \in Arrangements :
       walk' = [walk EXCEPT !.seen = @ \union Rows(s, walk.offset, filters.limit),
                            !.at = IF HasMore(walk.offset, filters.limit, walk.total) THEN "count" ELSE "done",
                            !.offset = @ + filters.limit]
  /\ UNCHANGED <<shelf, filters, edits, stirred>>

-----------------------------------------------------------------------------
(* The administrator: a product appears, or changes its kind. *)

Edit ==
  /\ edits < MaxEdits
  /\ edits' = edits + 1
  /\ stirred' = TRUE
  /\ UNCHANGED <<filters, walk>>

Create == \E kind \in Kinds : Len(shelf) < MaxShelf /\ shelf' = Append(shelf, kind) /\ Edit
Update == \E i \in DOMAIN shelf, kind \in Kinds : shelf' = [shelf EXCEPT ![i] = kind] /\ Edit

Next == List \/ CountTotal \/ FindPage \/ Create \/ Update

Spec == Init /\ [][Next]_vars

-----------------------------------------------------------------------------
\* Each variable has its type.
TypeOK ==
  /\ shelf \in BoundedSeq(Kinds, MaxShelf)
  /\ filters \in Filters
  /\ walk.at \in {"new", "count", "find", "failed", "done"}
  /\ walk.seen \subseteq 1..MaxShelf /\ walk.total \in 0..MaxShelf
  /\ edits \in 0..MaxEdits /\ stirred \in BOOLEAN

\* Going from page to page until has_more is false shows every product that
\* matches, and no other, when the shelf stayed as it was and the sort tells
\* any two of them apart: not so by price, where equal prices may swap pages
\* (product_store.go:254-286, product_service.go:153-169).
WalkSeesAll ==
  walk.at = "done" /\ ~stirred
    /\ (filters.sort = "price" => \A i, j \in Matches : shelf[i].price = shelf[j].price => i = j)
    => walk.seen = Matches
=============================================================================
