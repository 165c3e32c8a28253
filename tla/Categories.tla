------------------------------ MODULE Categories ------------------------------
(***************************************************************************)
(* The tree of categories: handler/category.go, service/                   *)
(* category_service.go and store/postgres/category_store.go over the table *)
(* of migration 003.  Every start of the server, and every run of          *)
(* cmd/importproducts, seeds the default taxonomy in three statements; a   *)
(* failure is logged and the start goes on.  Starts and administrators     *)
(* interleave, statement by statement.                                     *)
(*                                                                         *)
(* Of a category the model keeps the slug, the parent, whether it is       *)
(* active and whether its metadata name the genders it is for.             *)
(*                                                                         *)
(* ActiveGroup is used by no action: it is what a slip in the code would   *)
(* make of the definition that follows it.                                 *)
(***************************************************************************)
EXTENDS Integers, FiniteSets

CONSTANTS
  Groups,    \* the slugs of the default groups
  GroupOf,   \* sub-category -> its group, for the default sub-categories
  Scoped,    \* the default categories that are for some genders only
  OwnSlugs,    \* slugs an administrator may use beside these
  Starts,    \* starts of the server, each used once
  MaxRows,   \* bound on the categories ever created
  MaxEdits,  \* bound on what administrators do
  MaxFaults  \* bound on failing statements

\* The groups and the scope are those of the defaults; no category is called "none".  The
\* module that has an instance of this one assumes it.
CategoriesAssumption ==
  /\ IsFiniteSet(Groups \union DOMAIN GroupOf)
  /\ \A s \in DOMAIN GroupOf : GroupOf[s] \in Groups
  /\ Scoped \subseteq Groups \union DOMAIN GroupOf
  /\ "none" \notin Groups \union DOMAIN GroupOf \union OwnSlugs
  /\ MaxRows \in Nat /\ MaxEdits \in Nat /\ MaxFaults \in Nat

VARIABLES
  table,   \* the categories: id -> row, 0 stands for none
  born,    \* ids given so far
  start,   \* what each start is at
  edits,   \* changes made by administrators
  faults,  \* statements failed so far
  calm     \* history: starts during which no administrator changed anything

vars == <<table, born, start, edits, faults, calm>>

Ids == 1..MaxRows
Defaults == Groups \union DOMAIN GroupOf
Slugs == Defaults \union OwnSlugs
Absent == [slug |-> "none", parent |-> 0, active |-> FALSE, scope |-> "none"]

Present(i) == table[i] # Absent
GetBySlug(s) == {i \in Ids : table[i].slug = s}
Named(s) == GetBySlug(s) # {}

Init ==
  /\ table = [i \in Ids |-> Absent]
  /\ born = 0
  /\ start = [b \in Starts |-> "new"]
  /\ edits = 0
  /\ faults = 0
  /\ calm = Starts

-----------------------------------------------------------------------------
(* SeedDefaultCategories: ON CONFLICT (slug) DO NOTHING, twice, then the scope. *)

\* An insert of rows: a slug that is there keeps its row.  Which number a new row
\* gets makes no difference.
InsertIgnoring(rows) ==
  LET new == {r \in rows : ~Named(r.slug)}
      last == born + Cardinality(new)
      row == CHOOSE f \in [born + 1 .. last -> new] : \A r \in new : \E i \in DOMAIN f : f[i] = r
  IN  /\ last <= MaxRows
      /\ table' = [i \in Ids |-> IF i \in DOMAIN row THEN row[i] ELSE table[i]]
      /\ born' = last

Row(s, parent) == [slug |-> s, parent |-> parent, active |-> TRUE, scope |-> "none"]

SeedGroups(b) ==
  /\ start[b] = "new"
  /\ InsertIgnoring({Row(s, 0) : s \in Groups})
  /\ start' = [start EXCEPT ![b] = "children"]
  /\ UNCHANGED <<edits, faults, calm>>

\* The JOIN finds the group by its slug; a sub-category without one is not inserted.
ActiveGroup(s) == {i \in GetBySlug(GroupOf[s]) : table[i].active}
GroupRows(s) == GetBySlug(GroupOf[s])
SeedChildren(b) ==
  /\ start[b] = "children"
  /\ InsertIgnoring({Row(s, CHOOSE i \in GroupRows(s) : TRUE) : s \in {c \in DOMAIN GroupOf : GroupRows(c) # {}}})
  /\ start' = [start EXCEPT ![b] = "scope"]
  /\ UNCHANGED <<edits, faults, calm>>

\* The scope is added where the key is absent.
Unscoped(row) == row.scope = "none"
SeedScope(b) ==
  /\ start[b] = "scope"
  /\ table' = [i \in Ids |-> IF table[i].slug \in Scoped /\ Unscoped(table[i])
                               THEN [table[i] EXCEPT !.scope = "default"] ELSE table[i]]
  /\ start' = [start EXCEPT ![b] = "done"]
  /\ UNCHANGED <<born, edits, faults, calm>>

\* A statement fails: SeedDefaults ends there, the start warns of it and serves all the same.
SeedFails(b) ==
  /\ start[b] \in {"new", "children", "scope"} /\ faults < MaxFaults
  /\ faults' = faults + 1
  /\ start' = [start EXCEPT ![b] = "failed"]
  /\ UNCHANGED <<table, born, edits, calm>>

-----------------------------------------------------------------------------
(* CategoryStore: what the statements of the administrator's calls write. *)

Written(rows) == table' = [i \in Ids |-> IF i \in DOMAIN rows THEN rows[i] ELSE table[i]]

\* A slug that is taken is refused.
CreateRow(s, parent) ==
  /\ born < MaxRows /\ ~Named(s)
  /\ born' = born + 1
  /\ Written([i \in {born + 1} |-> Row(s, parent)])

UpdateRow(i, row) ==
  /\ \A j \in GetBySlug(row.slug) : j = i
  /\ Written([j \in {i} |-> row])
  /\ UNCHANGED born

\* The row goes and its children have no parent any more (ON DELETE SET NULL).
DeleteRow(i) ==
  /\ table' = [j \in Ids |-> IF j = i THEN Absent
                             ELSE IF table[j].parent = i THEN [table[j] EXCEPT !.parent = 0] ELSE table[j]]
  /\ UNCHANGED born

-----------------------------------------------------------------------------
(* The administrator's calls. *)

Edited ==
  /\ edits < MaxEdits
  /\ edits' = edits + 1
  /\ calm' = {b \in calm : start[b] = "new"}
  /\ UNCHANGED <<start, faults>>

Parents == {0} \union {j \in Ids : Present(j)}
Create(s, parent) == CreateRow(s, parent) /\ Edited

\* One field of the request at a time: the statement writes those it is given.
FieldsOf(row) ==
  {[row EXCEPT !.slug = s] : s \in Slugs} \union {[row EXCEPT !.parent = parent] : parent \in Parents}
  \union {[row EXCEPT !.active = ~@]} \union {[row EXCEPT !.scope = scope] : scope \in {"none", "own"}}
Update(i) == (\E row \in FieldsOf(table[i]) : UpdateRow(i, row)) /\ Edited

Delete(i) == DeleteRow(i) /\ Edited

-----------------------------------------------------------------------------
Next ==
  \/ \E b \in Starts : SeedGroups(b) \/ SeedChildren(b) \/ SeedScope(b) \/ SeedFails(b)
  \/ \E s \in Slugs, parent \in Parents : Create(s, parent)
  \/ \E i \in {j \in Ids : Present(j)} : Update(i) \/ Delete(i)

Spec == Init /\ [][Next]_vars

-----------------------------------------------------------------------------
\* Each variable has its type, slugs are unique and a parent is there.
TypeOK ==
  /\ table \in [Ids -> [slug : Slugs \union {"none"}, parent : 0..MaxRows, active : BOOLEAN, scope : {"none", "default", "own"}]]
  /\ born \in 0..MaxRows /\ edits \in 0..MaxEdits /\ faults \in 0..MaxFaults
  /\ start \in [Starts -> {"new", "children", "scope", "done", "failed"}]
  /\ calm \subseteq Starts
  /\ \A i, j \in Ids : Present(i) /\ table[i].slug = table[j].slug => i = j
  /\ \A i \in Ids : table[i].parent # 0 => Present(table[i].parent)

\* Whatever administrators did before and other starts do beside it, a start
\* whose seeding went through has left the whole default taxonomy there
\* (category_store.go:116-179, main.go:154-157).
TaxonomyThere == \A b \in calm : start[b] = "done" => \A s \in Defaults : Named(s)
=============================================================================
