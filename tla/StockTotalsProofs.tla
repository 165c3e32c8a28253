-------------------------- MODULE StockTotalsProofs --------------------------
(***************************************************************************)
(* The theorems about the stock tables of a product, for any variants,     *)
(* orders, forms, failing statements and interleaving.  Three invariants,  *)
(* each with a lemma for every action:                                     *)
(*   - Typed: the types, and what a request can wait on;                   *)
(*   - OneContent: where any two contents written to a table share a key,  *)
(*     a DELETE sees the whole table or nothing of it any more;            *)
(*   - Repairing: a checkout beside which no other request ran carries the *)
(*     totals of the variants as they are, and has written its part.       *)
(***************************************************************************)
EXTENDS StockTotals, FiniteSetTheorems, TLAPS

TableRows(t) == UNION {[D -> Nat] : D \in SUBSET KeysOf(t)}
Lists == {l \in [Tables -> UNION {TableRows(t) : t \in Tables}] : \A t \in Tables : l[t] \in TableRows(t)}
Steps == Tables \cup {"new", "read", "done", "failed"}
JobState == [pc : Steps, begun : BOOLEAN, seen : SUBSET UNION {KeysOf(t) : t \in Tables},
             lists : Lists, moved : BOOLEAN, broke : BOOLEAN]

(* What a request waits on: rows of the table it writes, once its DELETE began. *)
Waits(r) ==
  /\ job[r].begun => job[r].pc \in Tables /\ job[r].seen \subseteq DOMAIN tables[job[r].pc]
  /\ ~job[r].begun => job[r].seen = {}

Typed ==
  /\ tables \in Lists
  /\ job \in [Requests -> JobState]
  /\ \A r \in Requests : Waits(r)
  /\ \A t \in Tables : written[t] \subseteq TableRows(t)
  /\ met \subseteq Requests

-----------------------------------------------------------------------------
(* Lists and sums. *)

LEMMA IsRowsOf == ASSUME NEW t, NEW f PROVE IsRows(t, f) <=> f \in TableRows(t)
<1>1. ASSUME IsRows(t, f) PROVE f \in TableRows(t)
  BY <1>1 DEF IsRows, TableRows
<1>2. ASSUME f \in TableRows(t) PROVE IsRows(t, f)
  <2>1. PICK D \in SUBSET KeysOf(t) : f \in [D -> Nat]
    BY <1>2 DEF TableRows
  <2>2. DOMAIN f = D
    BY <2>1
  <2> QED
    BY <2>1, <2>2 DEF IsRows
<1> QED
  BY <1>1, <1>2

LEMMA IsListsOf == ASSUME NEW l PROVE IsLists(l) <=> l \in Lists
<1>1. ASSUME IsLists(l) PROVE l \in Lists
  <2>1. \A t \in Tables : l[t] \in TableRows(t)
    BY <1>1, IsRowsOf DEF IsLists
  <2>2. l \in [Tables -> UNION {TableRows(t) : t \in Tables}]
    BY <1>1, <2>1 DEF IsLists
  <2> QED
    BY <2>1, <2>2 DEF Lists
<1>2. ASSUME l \in Lists PROVE IsLists(l)
  <2>1. \A t \in Tables : l[t] \in TableRows(t)
    BY <1>2 DEF Lists
  <2>2. l = [t \in Tables |-> l[t]]
    BY <1>2 DEF Lists
  <2> QED
    BY <2>1, <2>2, IsRowsOf DEF IsLists
<1> QED
  BY <1>1, <1>2

(* A function that gives each table rows of its own is a list for each. *)
LEMMA ListsOf ==
  ASSUME NEW l, l = [t \in Tables |-> l[t]], \A t \in Tables : l[t] \in TableRows(t)
  PROVE  l \in Lists
  BY DEF Lists

(* No rows at all. *)
LEMMA NoRows == NoLists \in Lists
<1>1. \A t : << >> \in TableRows(t)
  BY DEF TableRows
<1> QED
  BY <1>1, ListsOf DEF NoLists

LEMMA UnitsFinite == ASSUME NEW t, NEW f \in TableRows("variants"), NEW k PROVE IsFiniteSet(Units(t, f, k))
<1> DEFINE S == {w \in DOMAIN f : Key(t, w) = k}
           unit == [v \in S |-> {v} \X (1 .. f[v])]
           all == {{v} \X (1 .. f[v]) : v \in S}
<1>1. S \in SUBSET Variants /\ \A v \in S : f[v] \in Nat
  BY IsRowsOf DEF IsRows, KeysOf
<1>2. IsFiniteSet(S)
  BY <1>1, FS_Subset, StockTotalsAssumption
<1> HIDE DEF S
<1>3. ASSUME NEW v \in S PROVE IsFiniteSet({v} \X (1 .. f[v]))
  <2> DEFINE pair == [n \in 1 .. f[v] |-> <<v, n>>]
  <2>1. PICK a \in Int, b \in Int : a = 1 /\ b = f[v]
    BY <1>1
  <2>2. IsFiniteSet(1 .. f[v])
    BY <2>1, FS_Interval
  <2>3. pair \in Surjection(1 .. f[v], {v} \X (1 .. f[v]))
    BY DEF Surjection
  <2> HIDE DEF pair
  <2> QED
    BY <2>2, <2>3, FS_Surjection
<1>4. unit \in Surjection(S, all)
  BY DEF Surjection
<1>5. \A T \in all : IsFiniteSet(T)
  BY <1>3
<1>6. Units(t, f, k) = UNION all
  BY DEF Units, S
<1> HIDE DEF unit, all
<1> QED
  BY <1>2, <1>4, <1>5, <1>6, FS_Surjection, FS_UNION

(* What the synchronisation writes to a table is rows of this table. *)
LEMMA TotalsRows ==
  ASSUME NEW f \in TableRows("variants")
  PROVE  /\ Totals(f) \in Lists
         /\ Totals(f)["sizes"] = Total("sizes", f) /\ Totals(f)["colors"] = Total("colors", f)
         /\ Totals(f)["variants"] = f
<1>1. ASSUME NEW t \in TotalTables PROVE Total(t, f) \in TableRows(t)
  <2>1. \A k : Cardinality(Units(t, f, k)) \in Nat
    BY UnitsFinite, FS_CardinalityType
  <2>2. Total(t, f) \in [Keys(t, f) -> Nat]
    BY <2>1 DEF Total
  <2>3. DOMAIN f \subseteq Sizes \X Colors
    BY IsRowsOf, StockTotalsAssumption DEF IsRows, KeysOf
  <2>4. Keys(t, f) \in SUBSET KeysOf(t)
    <3>1. ASSUME NEW v \in DOMAIN f PROVE Key(t, v) \in KeysOf(t)
      BY <2>3, <3>1 DEF Key, KeysOf, TotalTables
    <3> QED
      BY <3>1 DEF Keys
  <2> QED
    BY <2>2, <2>4 DEF TableRows
<1>2. /\ Totals(f)["sizes"] = Total("sizes", f) /\ Totals(f)["colors"] = Total("colors", f)
      /\ Totals(f)["variants"] = f
  BY DEF Totals, Tables
<1>3. \A t \in Tables : Totals(f)[t] \in TableRows(t)
  BY <1>1, <1>2 DEF Tables, TotalTables
<1>4. Totals(f) = [t \in Tables |-> Totals(f)[t]]
  BY DEF Totals
<1> QED
  BY <1>2, <1>3, <1>4, ListsOf

(* What the histories record. *)
LEMMA Recorded ==
  ASSUME Typed, NEW l \in Lists, Records(l)
  PROVE  /\ \A t \in Tables : written'[t] = written[t] \cup {l[t]}
         /\ \A t \in Tables : written'[t] \subseteq TableRows(t)
<1>1. \A t \in Tables : l[t] \in TableRows(t)
  BY DEF Lists
<1>2. \A t \in Tables : written'[t] = written[t] \cup {l[t]}
  BY DEF Records
<1> QED
  BY <1>1, <1>2 DEF Typed

LEMMA MetTyped == ASSUME Typed, NEW r \in Requests, Meets(r) PROVE met' \subseteq Requests
<1> DEFINE others == {q \in Requests \ {r} : Running(q)}
<1>1. met' = IF others = {} THEN met ELSE met \cup {r} \cup others
  BY DEF Meets
<1>2. others \subseteq Requests
  OBVIOUS
<1> HIDE DEF others
<1> QED
  BY <1>1, <1>2 DEF Typed

-----------------------------------------------------------------------------
(* The two ends of an INSERT. *)

New(r) == job[r].lists[job[r].pc]
Left(r) == DOMAIN tables[job[r].pc] \ job[r].seen
Stay(r) == Restrict(tables[job[r].pc], Left(r))
Merged(r) == [k \in DOMAIN Stay(r) \cup DOMAIN New(r) |-> IF k \in DOMAIN New(r) THEN New(r)[k] ELSE Stay(r)[k]]

Rejected(r) ==
  /\ Left(r) \cap DOMAIN New(r) # {}
  /\ tables' = tables
  /\ job' = [job EXCEPT ![r] = Ended(job[r], "failed")]

Committed(r) ==
  /\ Left(r) \cap DOMAIN New(r) = {}
  /\ tables' = [tables EXCEPT ![job[r].pc] = Merged(r)]
  /\ job' = [q \in Requests |->
               IF q = r THEN Written(r, job[r])
               ELSE IF job[q].pc = job[r].pc
                    THEN [job[q] EXCEPT !.seen = @ \ (job[r].seen \cup DOMAIN New(r))]
               ELSE job[q]]

LEMMA Inserted ==
  ASSUME NEW r \in Requests, Insert(r)
  PROVE  /\ job[r].pc \in Tables /\ job[r].begun
         /\ Rejected(r) \/ Committed(r)
         /\ written' = written /\ met' = met
<1>1. DOMAIN Stay(r) = Left(r)
  BY DEF Stay, Restrict
<1> QED
  BY <1>1, Zenon DEF Insert, Rejected, Committed, Merged, Collides, Collided, Stay, Left, New

(* The rows there are after a COMMIT. *)
LEMMA MergedRows ==
  ASSUME Typed, NEW r \in Requests, job[r].pc \in Tables
  PROVE  /\ Merged(r) \in TableRows(job[r].pc)
         /\ DOMAIN Merged(r) = Left(r) \cup DOMAIN New(r)
         /\ Left(r) = {} => Merged(r) = New(r)
         /\ DOMAIN New(r) = {} /\ job[r].seen = {} => Merged(r) = tables[job[r].pc]
<1> DEFINE t == job[r].pc
<1>1. job[r].lists \in Lists /\ tables[t] \in TableRows(t)
  BY DEF Typed, JobState, Lists
<1>2. New(r) \in TableRows(t)
  BY <1>1 DEF New, Lists
<1>3. PICK D \in SUBSET KeysOf(t) : tables[t] \in [D -> Nat]
  BY <1>1 DEF TableRows
<1>4. PICK E \in SUBSET KeysOf(t) : New(r) \in [E -> Nat]
  BY <1>2 DEF TableRows
<1>5. DOMAIN New(r) = E /\ DOMAIN tables[t] = D /\ Left(r) \subseteq D
  BY <1>3, <1>4 DEF Left
<1>6. Stay(r) = [k \in Left(r) |-> tables[t][k]]
  BY <1>5 DEF Stay, Restrict
<1> HIDE DEF t
<1>7. Merged(r) = [k \in Left(r) \cup E |-> IF k \in E THEN New(r)[k] ELSE tables[t][k]]
  BY <1>5, <1>6 DEF Merged
<1>8. Merged(r) \in [Left(r) \cup E -> Nat] /\ Left(r) \cup E \in SUBSET KeysOf(t)
  BY <1>3, <1>4, <1>5, <1>7
<1>9. Left(r) = {} => Merged(r) = New(r)
  BY <1>4, <1>7
<1>10. ASSUME E = {}, job[r].seen = {} PROVE Merged(r) = tables[t]
  <2>1. Left(r) = D
    BY <1>5, <1>10 DEF Left, t
  <2> QED
    BY <1>3, <1>7, <1>10, <2>1
<1> QED
  BY <1>5, <1>8, <1>9, <1>10 DEF TableRows, t

-----------------------------------------------------------------------------
(* The types. *)

LEMMA EndedTyped ==
  ASSUME NEW j \in JobState, NEW pc \in {"done", "failed"}
  PROVE  /\ Ended(j, pc) \in JobState
         /\ Ended(j, pc).pc = pc /\ ~Ended(j, pc).begun /\ Ended(j, pc).seen = {}
         /\ Ended(j, pc).moved = j.moved
<1>1. pc \in Steps
  BY DEF Steps
<1> HIDE DEF NoLists
<1> QED
  BY <1>1, NoRows DEF Ended, JobState

LEMMA BrokenTyped ==
  ASSUME NEW j \in JobState
  PROVE  LET k == [Ended(j, "failed") EXCEPT !.broke = TRUE] IN
         k \in JobState /\ k.pc = "failed" /\ ~k.begun /\ k.seen = {} /\ k.broke
<1>1. PICK e \in JobState : e = Ended(j, "failed") /\ e.pc = "failed" /\ ~e.begun /\ e.seen = {}
  BY EndedTyped
<1>2. [e EXCEPT !.broke = TRUE] \in JobState
  BY DEF JobState
<1> QED
  BY <1>1, <1>2 DEF JobState

LEMMA WrittenTyped ==
  ASSUME NEW r, NEW j \in JobState
  PROVE  /\ Written(r, j) \in JobState /\ Written(r, j).pc = After(r, j.pc)
         /\ ~Written(r, j).begun /\ Written(r, j).seen = {} /\ Written(r, j).moved = j.moved
         /\ After(r, j.pc) # "done" => Written(r, j).lists = j.lists
<1>1. After(r, j.pc) \in {"colors", "variants", "done"}
  BY DEF After
<1>2. CASE After(r, j.pc) = "done"
  BY <1>2, EndedTyped DEF Written
<1>3. CASE After(r, j.pc) # "done"
  <2>1. After(r, j.pc) \in Steps
    BY <1>1 DEF Steps, Tables
  <2>2. Written(r, j) = [j EXCEPT !.pc = After(r, j.pc), !.begun = FALSE, !.seen = {}]
    BY <1>3 DEF Written
  <2> QED
    BY <1>3, <2>1, <2>2 DEF JobState
<1> QED
  BY <1>2, <1>3

LEMMA TypedInit == Init => Typed
<1> SUFFICES ASSUME Init PROVE Typed
  OBVIOUS
<1>1. InitTables \in Lists
  BY IsListsOf, StockTotalsAssumption
<1>2. \A t \in Tables : written[t] \subseteq TableRows(t)
  BY <1>1 DEF Init, Lists
<1>3. Fresh \in JobState
  <2>1. "new" \in Steps
    BY DEF Steps
  <2> HIDE DEF NoLists
  <2> QED
    BY <2>1, NoRows DEF Fresh, JobState
<1>4. job \in [Requests -> JobState] /\ \A r \in Requests : Waits(r)
  BY <1>3 DEF Init, Waits, Fresh
<1> QED
  BY <1>1, <1>2, <1>4 DEF Typed, Init

(* A step of one request that writes no table. *)
LEMMA OneStep ==
  ASSUME Typed, NEW r \in Requests, NEW k \in JobState, job' = [job EXCEPT ![r] = k], tables' = tables,
         k.begun => k.pc \in Tables /\ k.seen \subseteq DOMAIN tables[k.pc],
         ~k.begun => k.seen = {},
         \A t \in Tables : written'[t] \subseteq TableRows(t), met' \subseteq Requests
  PROVE  Typed'
<1>1. job' \in [Requests -> JobState]
  BY DEF Typed
<1>2. \A q \in Requests : Waits(q)'
  BY DEF Typed, Waits
<1> QED
  BY <1>1, <1>2 DEF Typed

(* The UPDATE that moves stock: one row of the variants has another number. *)
Moves(b) ==
  /\ Enough(b)
  /\ tables' = [tables EXCEPT !["variants"][Wants[b]] = @ + Change[b]]
  /\ job' = [job EXCEPT ![b].pc = "read", ![b].moved = TRUE]
  /\ Records(tables')

LEMMA MovesRows ==
  ASSUME Typed, NEW b \in Buyers, Moves(b)
  PROVE  /\ tables' \in Lists
         /\ \A t \in Tables : DOMAIN tables'[t] = DOMAIN tables[t]
         /\ \A t \in TotalTables : tables'[t] = tables[t]
<1> DEFINE old == tables["variants"]
           new == [old EXCEPT ![Wants[b]] = @ + Change[b]]
<1>1. "variants" \in Tables /\ tables \in [Tables -> UNION {TableRows(t) : t \in Tables}]
  BY DEF Typed, Lists, Tables
<1>2. PICK D \in SUBSET KeysOf("variants") : old \in [D -> Nat]
  BY <1>1 DEF Typed, Lists, TableRows
<1>3. tables' = [tables EXCEPT !["variants"] = new]
  BY <1>1 DEF Moves
<1>4. Change[b] \in Int /\ old[Wants[b]] + Change[b] >= 0 /\ Wants[b] \in D
  BY <1>2, StockTotalsAssumption DEF Moves, Enough
<1> HIDE DEF old
<1>5. new \in [D -> Nat]
  BY <1>2, <1>4
<1> HIDE DEF new
<1>6. new \in TableRows("variants") /\ DOMAIN new = DOMAIN old
  BY <1>2, <1>5 DEF TableRows
<1>7. tables' = [t \in Tables |-> IF t = "variants" THEN new ELSE tables[t]]
  BY <1>1, <1>3
<1>8. \A t \in Tables : tables'[t] \in TableRows(t)
  BY <1>6, <1>7 DEF Typed, Lists
<1>9. tables' \in Lists
  BY <1>7, <1>8, ListsOf
<1> QED
  BY <1>6, <1>7, <1>9 DEF old, Tables, TotalTables

LEMMA Updated ==
  ASSUME NEW b \in Buyers, Update(b)
  PROVE  /\ job[b].pc = "new" /\ Meets(b)
         /\ Moves(b) \/ (job' = [job EXCEPT ![b].pc = "failed"] /\ UNCHANGED <<tables, written>>)
  BY DEF Update, Moves

LEMMA TypedUpdate == ASSUME Typed, NEW b \in Buyers, Update(b) PROVE Typed'
<1>1. b \in Requests /\ job[b] \in JobState /\ job[b].pc = "new" /\ met' \subseteq Requests
  BY Updated, MetTyped DEF Requests, Typed
<1>2. ~job[b].begun /\ job[b].seen = {}
  BY <1>1 DEF Typed, Waits, Tables
<1>3. CASE job' = [job EXCEPT ![b].pc = "failed"] /\ UNCHANGED <<tables, written>>
  <2> DEFINE k == [job[b] EXCEPT !.pc = "failed"]
  <2>1. k \in JobState /\ ~k.begun /\ k.seen = {}
    BY <1>1, <1>2 DEF JobState, Steps
  <2>2. job' = [job EXCEPT ![b] = k]
    BY <1>1, <1>3 DEF Typed
  <2> HIDE DEF k
  <2> QED
    BY <1>1, <1>3, <2>1, <2>2, OneStep DEF Typed
<1>4. CASE Moves(b)
  <2> DEFINE k == [job[b] EXCEPT !.pc = "read", !.moved = TRUE]
  <2>1. k \in JobState /\ ~k.begun /\ k.seen = {}
    BY <1>1, <1>2 DEF JobState, Steps
  <2>2. job' = [job EXCEPT ![b] = k]
    BY <1>1, <1>4 DEF Typed, Moves
  <2> HIDE DEF k
  <2>3. tables' \in Lists /\ \A t \in Tables : DOMAIN tables'[t] = DOMAIN tables[t]
    BY <1>4, MovesRows
  <2>4. job' \in [Requests -> JobState]
    BY <2>1, <2>2 DEF Typed
  <2>5. \A q \in Requests : Waits(q)'
    BY <1>1, <2>1, <2>2, <2>3 DEF Typed, Waits
  <2>6. \A t \in Tables : written'[t] \subseteq TableRows(t)
    <3>1. PICK l \in Lists : l = tables'
      BY <2>3
    <3>2. Records(l)
      BY <1>4, <3>1 DEF Moves
    <3> QED
      BY <3>2, Recorded
  <2> QED
    BY <1>1, <2>3, <2>4, <2>5, <2>6 DEF Typed
<1> QED
  BY <1>3, <1>4, Updated

(* What the reading leaves in a request. *)
LEMMA ReadStep ==
  ASSUME Typed, NEW b \in Buyers, Read(b)
  PROVE  /\ b \in Requests /\ job[b] \in JobState /\ job[b].pc = "read" /\ ~job[b].begun /\ job[b].seen = {}
         /\ UNCHANGED <<tables, met>>
         /\ \E k \in JobState :
              /\ job' = [job EXCEPT ![b] = k] /\ ~k.begun /\ k.seen = {} /\ k.moved = job[b].moved
              /\ \/ /\ k.pc = "done" /\ DOMAIN tables["variants"] = {} /\ UNCHANGED written
                 \/ /\ k.pc = "sizes" /\ k.lists = Totals(tables["variants"])
                    /\ k.lists \in Lists /\ Records(k.lists)
<1> DEFINE f == tables["variants"]
           none == [job[b] EXCEPT !.lists = NoLists, !.pc = "done"]
           some == [job[b] EXCEPT !.lists = Totals(f), !.pc = "sizes"]
<1>1. b \in Requests /\ job[b] \in JobState /\ job[b].pc = "read"
  BY DEF Requests, Typed, Read
<1>2. ~job[b].begun /\ job[b].seen = {} /\ f \in TableRows("variants")
  BY <1>1 DEF Typed, Waits, Tables, Lists
<1>3. Totals(f) \in Lists /\ "done" \in Steps /\ "sizes" \in Steps
  BY <1>2, TotalsRows DEF Steps, Tables
<1>4. UNCHANGED <<tables, met>>
  BY DEF Read
<1>5. CASE DOMAIN f = {}
  <2>1. job' = [job EXCEPT ![b].lists = NoLists, ![b].pc = "done"] /\ UNCHANGED written
    BY <1>5 DEF Read
  <2>2. job' = [job EXCEPT ![b] = none]
    BY <1>1, <2>1 DEF Typed
  <2> HIDE DEF NoLists
  <2>3. none \in JobState /\ ~none.begun /\ none.seen = {} /\ none.moved = job[b].moved /\ none.pc = "done"
    BY <1>1, <1>2, <1>3, NoRows DEF JobState
  <2> HIDE DEF none
  <2> QED
    BY <1>1, <1>2, <1>4, <1>5, <2>1, <2>2, <2>3
<1>6. CASE DOMAIN f # {}
  <2>1. job' = [job EXCEPT ![b].lists = Totals(f), ![b].pc = "sizes"] /\ Records(Totals(f))
    BY <1>6 DEF Read
  <2>2. PICK l \in Lists : l = Totals(f)
    BY <1>3
  <2>3. job' = [job EXCEPT ![b] = some]
    BY <1>1, <2>1 DEF Typed
  <2>4. some = [job[b] EXCEPT !.lists = l, !.pc = "sizes"]
    BY <2>2
  <2> HIDE DEF some, f
  <2>5. some \in JobState /\ ~some.begun /\ some.seen = {} /\ some.moved = job[b].moved
        /\ some.pc = "sizes" /\ some.lists = l
    BY <1>1, <1>2, <1>3, <2>4 DEF JobState
  <2>6. some.lists = Totals(tables["variants"]) /\ some.lists \in Lists /\ Records(some.lists)
    BY <2>1, <2>2, <2>5 DEF f
  <2> QED
    BY <1>1, <1>2, <1>4, <2>3, <2>5, <2>6
<1> QED
  BY <1>5, <1>6

LEMMA TypedRead == ASSUME Typed, NEW b \in Buyers, Read(b) PROVE Typed'
<1>1. /\ b \in Requests /\ UNCHANGED <<tables, met>>
  BY ReadStep
<1>2. PICK k \in JobState :
        /\ job' = [job EXCEPT ![b] = k] /\ ~k.begun /\ k.seen = {}
        /\ UNCHANGED written \/ (k.lists \in Lists /\ Records(k.lists))
  BY ReadStep
<1>3. \A t \in Tables : written'[t] \subseteq TableRows(t)
  BY <1>2, Recorded DEF Typed
<1> QED
  BY <1>1, <1>2, <1>3, OneStep DEF Typed

LEMMA DeleteStep ==
  ASSUME Typed, NEW r \in Requests, Delete(r)
  PROVE  /\ job[r] \in JobState /\ job[r].pc \in Tables /\ UNCHANGED <<tables, written, met>>
         /\ \E k \in JobState :
              /\ job' = [job EXCEPT ![r] = k]
              /\ k.pc = job[r].pc /\ k.lists = job[r].lists /\ k.moved = job[r].moved
              /\ k.seen = DOMAIN tables[k.pc] /\ k.begun
<1> DEFINE k == [job[r] EXCEPT !.begun = TRUE, !.seen = DOMAIN tables[job[r].pc]]
<1>1. job[r] \in JobState /\ job[r].pc \in Tables /\ UNCHANGED <<tables, written, met>>
  BY DEF Typed, Delete
<1>2. DOMAIN tables[job[r].pc] \in SUBSET KeysOf(job[r].pc)
  <2>1. tables[job[r].pc] \in TableRows(job[r].pc)
    BY <1>1 DEF Typed, Lists
  <2>2. PICK D \in SUBSET KeysOf(job[r].pc) : tables[job[r].pc] \in [D -> Nat]
    BY <2>1 DEF TableRows
  <2> QED
    BY <2>2
<1>3. PICK D : D = DOMAIN tables[job[r].pc] /\ D \in SUBSET UNION {KeysOf(t) : t \in Tables}
  BY <1>1, <1>2
<1>4. k = [job[r] EXCEPT !.begun = TRUE, !.seen = D]
  BY <1>3
<1>5. job' = [job EXCEPT ![r] = k]
  BY DEF Delete, Typed
<1> HIDE DEF k
<1>6. k \in JobState /\ k.pc = job[r].pc /\ k.lists = job[r].lists /\ k.moved = job[r].moved /\ k.seen = D /\ k.begun
  BY <1>1, <1>3, <1>4 DEF JobState
<1> QED
  BY <1>1, <1>3, <1>5, <1>6

LEMMA TypedDelete == ASSUME Typed, NEW r \in Requests, Delete(r) PROVE Typed'
<1>1. job[r].pc \in Tables /\ UNCHANGED <<tables, written, met>>
  BY DeleteStep
<1>2. PICK k \in JobState : job' = [job EXCEPT ![r] = k] /\ k.pc = job[r].pc /\ k.seen = DOMAIN tables[k.pc] /\ k.begun
  BY DeleteStep
<1> QED
  BY <1>1, <1>2, OneStep DEF Typed

LEMMA TypedFail == ASSUME Typed, NEW r \in Requests, Fail(r) PROVE Typed'
<1>1. job[r] \in JobState /\ UNCHANGED <<tables, written, met>>
  BY DEF Typed, Fail
<1>2. PICK k \in JobState : job' = [job EXCEPT ![r] = k] /\ ~k.begun /\ k.seen = {}
  BY <1>1, BrokenTyped DEF Fail
<1> QED
  BY <1>1, <1>2, OneStep DEF Typed

(* What the others of a commit become. *)
LEMMA CommitStep ==
  ASSUME Typed, NEW r \in Requests, job[r].pc \in Tables, Committed(r)
  PROVE  /\ tables' = [u \in Tables |-> IF u = job[r].pc THEN Merged(r) ELSE tables[u]]
         /\ job' \in [Requests -> JobState]
         /\ job'[r] = Written(r, job[r])
         /\ \A q \in Requests \ {r} :
              /\ job'[q].pc = job[q].pc /\ job'[q].begun = job[q].begun
              /\ job'[q].lists = job[q].lists /\ job'[q].moved = job[q].moved
              /\ job'[q].seen = IF job[q].pc = job[r].pc THEN job[q].seen \ (job[r].seen \cup DOMAIN New(r))
                                ELSE job[q].seen
<1>1. PICK k \in JobState : k = Written(r, job[r])
  BY WrittenTyped DEF Typed
<1>2. PICK taken : taken = job[r].seen \cup DOMAIN New(r)
  OBVIOUS
<1>3. PICK t \in Tables : t = job[r].pc
  OBVIOUS
<1>4. tables' = [u \in Tables |-> IF u = t THEN Merged(r) ELSE tables[u]]
  BY <1>3 DEF Committed, Typed, Lists
<1>5. job' = [q \in Requests |-> IF q = r THEN k
                                 ELSE IF job[q].pc = t THEN [job[q] EXCEPT !.seen = @ \ taken] ELSE job[q]]
  BY <1>1, <1>2, <1>3 DEF Committed
<1>6. ASSUME NEW q \in Requests, q # r
      PROVE  /\ job'[q] \in JobState
             /\ job'[q].pc = job[q].pc /\ job'[q].begun = job[q].begun
             /\ job'[q].lists = job[q].lists /\ job'[q].moved = job[q].moved
             /\ job'[q].seen = IF job[q].pc = t THEN job[q].seen \ taken ELSE job[q].seen
  <2>1. job[q] \in JobState
    BY DEF Typed
  <2>2. job'[q] = IF job[q].pc = t THEN [job[q] EXCEPT !.seen = @ \ taken] ELSE job[q]
    BY <1>5, <1>6
  <2> QED
    BY <2>1, <2>2 DEF JobState
<1>7. job' \in [Requests -> JobState]
  <2>1. \A q \in Requests : job'[q] \in JobState
    BY <1>5, <1>6
  <2>2. job' = [q \in Requests |-> job'[q]]
    BY <1>5
  <2> QED
    BY <2>1, <2>2
<1>8. job'[r] = k
  BY <1>5
<1> QED
  BY <1>1, <1>2, <1>3, <1>4, <1>6, <1>7, <1>8

LEMMA TypedInsert == ASSUME Typed, NEW r \in Requests, Insert(r) PROVE Typed'
<1>1. /\ job[r].pc \in Tables /\ job[r].begun /\ job[r] \in JobState /\ met' = met /\ written' = written
  BY Inserted DEF Typed
<1>2. CASE Rejected(r)
  <2>1. PICK k \in JobState : job' = [job EXCEPT ![r] = k] /\ ~k.begun /\ k.seen = {}
    BY <1>1, <1>2, EndedTyped DEF Rejected
  <2> QED
    BY <1>1, <1>2, <2>1, OneStep DEF Typed, Rejected
<1>3. CASE Committed(r)
  <2>1. PICK t \in Tables : t = job[r].pc
    BY <1>1
  <2>2. Merged(r) \in TableRows(t) /\ DOMAIN Merged(r) = Left(r) \cup DOMAIN New(r)
    BY <1>1, <2>1, MergedRows
  <2>3. tables' = [u \in Tables |-> IF u = t THEN Merged(r) ELSE tables[u]]
    BY <1>1, <1>3, <2>1, CommitStep
  <2>4. tables' \in Lists
    <3>1. \A u \in Tables : tables'[u] \in TableRows(u)
      BY <2>2, <2>3 DEF Typed, Lists
    <3>2. tables' = [u \in Tables |-> tables'[u]]
      BY <2>3
    <3> QED
      BY <3>1, <3>2, ListsOf
  <2>5. ASSUME NEW q \in Requests PROVE Waits(q)'
    <3>1. CASE q = r
      <4>1. job'[q] = Written(r, job[r])
        BY <1>1, <1>3, <3>1, CommitStep
      <4> QED
        BY <1>1, <4>1, WrittenTyped DEF Waits
    <3>2. CASE q # r
      <4>1. /\ job'[q].pc = job[q].pc /\ job'[q].begun = job[q].begun
            /\ job'[q].seen = IF job[q].pc = t THEN job[q].seen \ (job[r].seen \cup DOMAIN New(r)) ELSE job[q].seen
        BY <1>1, <1>3, <2>1, <3>2, CommitStep
      <4>2. Waits(q)
        BY DEF Typed
      <4>3. CASE job[q].pc = t
        <5>1. DOMAIN tables'[t] = Left(r) \cup DOMAIN New(r)
          BY <2>2, <2>3
        <5>2. job[q].begun => job'[q].seen \subseteq Left(r)
          BY <2>1, <4>1, <4>2, <4>3 DEF Left, Waits
        <5> QED
          BY <4>1, <4>2, <4>3, <5>1, <5>2 DEF Waits
      <4>4. CASE job[q].pc # t
        BY <2>3, <4>1, <4>2, <4>4 DEF Waits
      <4> QED
        BY <4>3, <4>4
    <3> QED
      BY <3>1, <3>2
  <2>6. job' \in [Requests -> JobState]
    BY <1>1, <1>3, CommitStep
  <2> QED
    BY <1>1, <2>4, <2>5, <2>6 DEF Typed
<1> QED
  BY <1>2, <1>3, Inserted

LEMMA SaveStep ==
  ASSUME Typed, NEW a \in Admins, Save(a)
  PROVE  /\ a \in Requests /\ job[a] \in JobState /\ job[a].pc = "new" /\ ~job[a].begun /\ tables' = tables /\ Meets(a)
         /\ \E k \in JobState :
              /\ job' = [job EXCEPT ![a] = k] /\ k.pc = "sizes" /\ ~k.begun /\ k.seen = {}
              /\ k.lists \in Lists /\ Records(k.lists)
<1>1. a \in Requests /\ job[a] \in JobState /\ job[a].pc = "new" /\ tables' = tables /\ Meets(a)
  BY DEF Requests, Typed, Save
<1>2. ~job[a].begun /\ job[a].seen = {}
  BY <1>1 DEF Typed, Waits, Tables
<1>3. PICK l \in Forms : job' = [job EXCEPT ![a].lists = l, ![a].pc = "sizes"] /\ Records(l)
  BY DEF Save
<1>4. l \in Lists /\ "sizes" \in Steps
  BY IsListsOf, StockTotalsAssumption DEF Steps, Tables
<1> DEFINE k == [job[a] EXCEPT !.lists = l, !.pc = "sizes"]
<1>5. k \in JobState /\ ~k.begun /\ k.seen = {} /\ k.pc = "sizes" /\ k.lists = l
  BY <1>1, <1>2, <1>4 DEF JobState
<1>6. job' = [job EXCEPT ![a] = k]
  BY <1>1, <1>3 DEF Typed
<1> HIDE DEF k
<1> QED
  BY <1>1, <1>2, <1>3, <1>4, <1>5, <1>6

LEMMA TypedSave == ASSUME Typed, NEW a \in Admins, Save(a) PROVE Typed'
<1>1. a \in Requests /\ tables' = tables /\ met' \subseteq Requests
  BY SaveStep, MetTyped
<1>2. PICK k \in JobState : /\ job' = [job EXCEPT ![a] = k] /\ ~k.begun /\ k.seen = {}
                            /\ k.lists \in Lists /\ Records(k.lists)
  BY SaveStep
<1>3. \A t \in Tables : written'[t] \subseteq TableRows(t)
  BY <1>2, Recorded
<1> QED
  BY <1>1, <1>2, <1>3, OneStep DEF Typed

LEMMA TypedStep == Typed /\ [Next]_vars => Typed'
<1> SUFFICES ASSUME Typed, [Next]_vars PROVE Typed'
  OBVIOUS
<1>1. CASE UNCHANGED vars
  BY <1>1 DEF Typed, Waits, vars
<1> QED
  BY <1>1, TypedUpdate, TypedRead, TypedDelete, TypedInsert, TypedFail, TypedSave DEF Next, Step

LEMMA TypesOK == Typed => TypeOK
<1> SUFFICES ASSUME Typed PROVE TypeOK
  OBVIOUS
<1>1. IsLists(tables)
  BY IsListsOf DEF Typed
<1>2. ASSUME NEW r \in Requests
      PROVE  /\ job[r].pc \in Tables \cup {"new", "read", "done", "failed"}
             /\ job[r].begun \in BOOLEAN /\ job[r].moved \in BOOLEAN /\ job[r].broke \in BOOLEAN
             /\ IsLists(job[r].lists)
             /\ IF job[r].pc \in Tables THEN job[r].seen \subseteq DOMAIN tables[job[r].pc]
                ELSE job[r].seen = {}
  <2>1. job[r] \in JobState /\ Waits(r)
    BY DEF Typed
  <2>2. IsLists(job[r].lists)
    BY <2>1, IsListsOf DEF JobState
  <2> QED
    BY <2>1, <2>2 DEF JobState, Steps, Waits
<1>3. \A t \in Tables : \A f \in written[t] : IsRows(t, f)
  BY IsRowsOf DEF Typed
<1> QED
  BY <1>1, <1>2, <1>3 DEF TypeOK, Typed

LEMMA TypedHolds == Spec => []Typed
  BY TypedInit, TypedStep, PTL DEF Spec

(* Every row has a stock that is not negative, and a request waits on rows of the table
   it is writing only, whatever the product, its orders and its forms and however they
   interleave and fail (product_store.go:378-545). *)
THEOREM TotalsTypeCorrect == Spec => []TypeOK
  BY TypedHolds, TypesOK, PTL

-----------------------------------------------------------------------------
(* One content.  Where any two contents of a table share a key, or one is empty, a writer
   that does not see the rows of another collides with them or has nothing to add; and
   what a DELETE sees is the whole table, or nothing of it any more. *)

InPlay(t) ==
  /\ tables[t] \in written[t]
  /\ \A r \in Requests : job[r].pc \in Tables => job[r].lists[t] \in written[t]
  /\ \A r \in Requests : job[r].begun /\ job[r].pc = t => job[r].seen \in {{}, DOMAIN tables[t]}

ContentInv == \A t \in Tables : Akin(t) => InPlay(t)

LEMMA ContentInit == Init => ContentInv
<1> SUFFICES ASSUME Init, NEW t \in Tables PROVE InPlay(t)
  BY DEF ContentInv
<1>1. tables[t] \in written[t] /\ \A r \in Requests : job[r].pc = "new" /\ ~job[r].begun
  BY DEF Init, Fresh
<1> QED
  BY <1>1 DEF InPlay, Tables

(* The histories only grow. *)
LEMMA RecordsGrow ==
  ASSUME NEW l, Records(l), NEW t \in Tables
  PROVE  written[t] \subseteq written'[t] /\ l[t] \in written'[t]
  BY DEF Records

LEMMA AkinBefore ==
  ASSUME NEW t, written[t] \subseteq written'[t], Akin(t)'
  PROVE  Akin(t)
  BY DEF Akin

(* A step of one request that keeps the keys of the table. *)
LEMMA PlayStep ==
  ASSUME Typed, NEW t \in Tables, InPlay(t), NEW r \in Requests, NEW k \in JobState, job' = [job EXCEPT ![r] = k],
         written[t] \subseteq written'[t], DOMAIN tables'[t] = DOMAIN tables[t], tables'[t] \in written'[t],
         k.pc \in Tables => k.lists[t] \in written'[t],
         k.begun => k.seen \in {{}, DOMAIN tables[k.pc]}
  PROVE  InPlay(t)'
<1>1. ASSUME NEW q \in Requests, q # r PROVE job'[q] = job[q]
  BY <1>1 DEF Typed
<1>2. job'[r] = k
  BY DEF Typed
<1>3. ASSUME NEW q \in Requests
      PROVE  /\ job'[q].pc \in Tables => job'[q].lists[t] \in written'[t]
             /\ job'[q].begun /\ job'[q].pc = t => job'[q].seen \in {{}, DOMAIN tables'[t]}
  <2>1. CASE q = r
    BY <1>2, <2>1
  <2>2. CASE q # r
    BY <1>1, <2>2 DEF InPlay
  <2> QED
    BY <2>1, <2>2
<1> QED
  BY <1>3 DEF InPlay

LEMMA ContentUpdate ==
  ASSUME Typed, NEW t \in Tables, NEW b \in Buyers, Update(b), Akin(t) => InPlay(t), Akin(t)'
  PROVE  InPlay(t)'
<1>1. b \in Requests /\ job[b] \in JobState /\ job[b].pc = "new" /\ ~job[b].begun
  BY Updated DEF Requests, Typed, Waits, Tables
<1>2. CASE job' = [job EXCEPT ![b].pc = "failed"] /\ UNCHANGED <<tables, written>>
  <2> DEFINE k == [job[b] EXCEPT !.pc = "failed"]
  <2>1. k \in JobState /\ ~k.begun /\ k.pc = "failed"
    BY <1>1 DEF JobState, Steps
  <2>2. job' = [job EXCEPT ![b] = k]
    BY <1>1, <1>2 DEF Typed
  <2> HIDE DEF k
  <2>3. InPlay(t)
    BY <1>2, AkinBefore
  <2>4. k.pc \notin Tables
    BY <2>1 DEF Tables
  <2> QED
    BY <1>1, <1>2, <2>1, <2>2, <2>3, <2>4, PlayStep DEF InPlay
<1>3. CASE Moves(b)
  <2> DEFINE k == [job[b] EXCEPT !.pc = "read", !.moved = TRUE]
  <2>1. k \in JobState /\ ~k.begun /\ k.pc = "read"
    BY <1>1 DEF JobState, Steps
  <2>2. job' = [job EXCEPT ![b] = k]
    BY <1>1, <1>3 DEF Typed, Moves
  <2> HIDE DEF k
  <2>3. DOMAIN tables'[t] = DOMAIN tables[t]
    BY <1>3, MovesRows
  <2>4. written[t] \subseteq written'[t] /\ tables'[t] \in written'[t]
    <3>1. PICK l : l = tables'
      OBVIOUS
    <3>2. Records(l)
      BY <1>3, <3>1 DEF Moves
    <3> QED
      BY <3>1, <3>2, RecordsGrow
  <2>5. InPlay(t)
    BY <2>4, AkinBefore
  <2>6. k.pc \notin Tables
    BY <2>1 DEF Tables
  <2> QED
    BY <1>1, <2>1, <2>2, <2>3, <2>4, <2>5, <2>6, PlayStep
<1> QED
  BY <1>2, <1>3, Updated

LEMMA ContentRead ==
  ASSUME Typed, NEW t \in Tables, NEW b \in Buyers, Read(b), Akin(t) => InPlay(t), Akin(t)'
  PROVE  InPlay(t)'
<1>1. b \in Requests /\ UNCHANGED <<tables, met>>
  BY ReadStep
<1>2. PICK k \in JobState :
        /\ job' = [job EXCEPT ![b] = k] /\ ~k.begun
        /\ \/ k.pc = "done" /\ UNCHANGED written
           \/ k.pc = "sizes" /\ Records(k.lists)
  BY ReadStep
<1>3. written[t] \subseteq written'[t] /\ (k.pc \in Tables => k.lists[t] \in written'[t])
  <2>1. CASE k.pc = "done" /\ UNCHANGED written
    BY <2>1 DEF Tables
  <2>2. CASE k.pc = "sizes" /\ Records(k.lists)
    BY <2>2, RecordsGrow
  <2> QED
    BY <1>2, <2>1, <2>2
<1>4. InPlay(t) /\ tables'[t] \in written'[t]
  <2>1. InPlay(t)
    BY <1>3, AkinBefore
  <2> QED
    BY <1>1, <1>3, <2>1 DEF InPlay
<1> QED
  BY <1>1, <1>2, <1>3, <1>4, PlayStep

LEMMA ContentDelete ==
  ASSUME Typed, NEW t \in Tables, NEW r \in Requests, Delete(r), InPlay(t)
  PROVE  InPlay(t)'
<1>1. job[r].pc \in Tables /\ UNCHANGED <<tables, written, met>>
  BY DeleteStep
<1>2. PICK k \in JobState :
        job' = [job EXCEPT ![r] = k] /\ k.lists = job[r].lists /\ k.seen = DOMAIN tables[k.pc]
  BY DeleteStep
<1>3. tables'[t] \in written'[t] /\ k.lists[t] \in written'[t]
  BY <1>1, <1>2 DEF InPlay
<1> QED
  BY <1>1, <1>2, <1>3, PlayStep

LEMMA ContentFail ==
  ASSUME Typed, NEW t \in Tables, NEW r \in Requests, Fail(r), InPlay(t)
  PROVE  InPlay(t)'
<1>1. job[r] \in JobState /\ UNCHANGED <<tables, written, met>>
  BY DEF Typed, Fail
<1>2. PICK k \in JobState : job' = [job EXCEPT ![r] = k] /\ ~k.begun /\ k.pc = "failed"
  BY <1>1, BrokenTyped DEF Fail
<1>3. tables'[t] \in written'[t] /\ k.pc \notin Tables
  BY <1>1, <1>2 DEF InPlay, Tables
<1> QED
  BY <1>1, <1>2, <1>3, PlayStep

LEMMA ContentSave ==
  ASSUME Typed, NEW t \in Tables, NEW a \in Admins, Save(a), Akin(t) => InPlay(t), Akin(t)'
  PROVE  InPlay(t)'
<1>1. a \in Requests /\ tables' = tables
  BY SaveStep
<1>2. PICK k \in JobState : job' = [job EXCEPT ![a] = k] /\ ~k.begun /\ Records(k.lists)
  BY SaveStep
<1>3. written[t] \subseteq written'[t] /\ k.lists[t] \in written'[t]
  BY <1>2, RecordsGrow
<1>4. InPlay(t)
  BY <1>3, AkinBefore
<1>5. tables'[t] \in written'[t]
  BY <1>1, <1>3, <1>4 DEF InPlay
<1> QED
  BY <1>1, <1>2, <1>3, <1>4, <1>5, PlayStep

(* An INSERT that commits leaves one content, and whoever waited sees nothing of it; or
   it has nothing to write, and nothing changed. *)
LEMMA OneWritten ==
  ASSUME Typed, NEW r \in Requests, job[r].pc \in Tables, job[r].begun, Akin(job[r].pc), InPlay(job[r].pc),
         Left(r) \cap DOMAIN New(r) = {}
  PROVE  \/ Left(r) = {} /\ Merged(r) = New(r)
         \/ job[r].seen = {} /\ DOMAIN New(r) = {} /\ Merged(r) = tables[job[r].pc]
<1> DEFINE t == job[r].pc
<1>1. New(r) \in written[t] /\ tables[t] \in written[t] /\ job[r].seen \in {{}, DOMAIN tables[t]}
  BY DEF InPlay, New
<1>2. CASE job[r].seen = DOMAIN tables[t]
  BY <1>2, MergedRows DEF Left
<1>3. CASE job[r].seen = {}
  <2>1. Left(r) = DOMAIN tables[t]
    BY <1>3 DEF Left
  <2>2. {} \in {DOMAIN tables[t], DOMAIN New(r)}
    BY <1>1, <2>1 DEF Akin
  <2> QED
    BY <1>3, <2>1, <2>2, MergedRows
<1> QED
  BY <1>1, <1>2, <1>3

LEMMA ContentInsert ==
  ASSUME Typed, NEW t \in Tables, NEW r \in Requests, Insert(r), Akin(t), InPlay(t)
  PROVE  InPlay(t)'
<1>1. job[r].pc \in Tables /\ job[r].begun /\ job[r] \in JobState /\ written' = written
  BY Inserted DEF Typed
<1>2. CASE Rejected(r)
  <2>1. PICK k \in JobState : job' = [job EXCEPT ![r] = k] /\ ~k.begun /\ k.pc = "failed"
    BY <1>1, <1>2, EndedTyped DEF Rejected
  <2>2. tables'[t] \in written'[t] /\ k.pc \notin Tables /\ tables' = tables
    BY <1>1, <1>2, <2>1 DEF InPlay, Tables, Rejected
  <2> QED
    BY <1>1, <2>1, <2>2, PlayStep
<1>3. CASE Committed(r)
  <2>1. PICK u \in Tables : u = job[r].pc
    BY <1>1
  <2>2. PICK taken : taken = job[r].seen \cup DOMAIN New(r)
    OBVIOUS
  <2>3. tables' = [w \in Tables |-> IF w = u THEN Merged(r) ELSE tables[w]]
    BY <1>1, <1>3, <2>1, CommitStep
  <2>4. ASSUME NEW q \in Requests, q # r
        PROVE  /\ job'[q].pc = job[q].pc /\ job'[q].begun = job[q].begun /\ job'[q].lists = job[q].lists
               /\ job'[q].seen = IF job[q].pc = u THEN job[q].seen \ taken ELSE job[q].seen
    BY <1>1, <1>3, <2>1, <2>2, <2>4, CommitStep
  <2>5. ~job'[r].begun /\ (job'[r].pc \in Tables => job'[r].lists = job[r].lists)
    <3>1. job'[r] = Written(r, job[r])
      BY <1>1, <1>3, CommitStep
    <3> QED
      BY <1>1, <3>1, WrittenTyped DEF Tables
  <2>6. \A q \in Requests : job'[q].pc \in Tables => job'[q].lists[t] \in written'[t]
    BY <1>1, <2>4, <2>5 DEF InPlay
  <2>7. CASE t # u
    <3>1. tables'[t] = tables[t]
      BY <2>3, <2>7
    <3>2. ASSUME NEW q \in Requests, job'[q].begun, job'[q].pc = t
          PROVE  job'[q].seen \in {{}, DOMAIN tables'[t]}
      BY <2>4, <2>5, <2>7, <3>1, <3>2 DEF InPlay
    <3> QED
      BY <1>1, <2>6, <3>1, <3>2 DEF InPlay
  <2>8. CASE t = u
    <3>1. \/ Left(r) = {} /\ Merged(r) = New(r)
          \/ taken = {} /\ Merged(r) = tables[t]
      BY <1>1, <1>3, <2>1, <2>2, <2>8, OneWritten DEF Committed
    <3>2. tables'[t] = Merged(r) /\ New(r) \in written[t]
      BY <1>1, <2>1, <2>3, <2>8 DEF InPlay, New
    <3>3. tables'[t] \in written'[t]
      BY <1>1, <3>1, <3>2 DEF InPlay
    <3>4. ASSUME NEW q \in Requests, job'[q].begun, job'[q].pc = t
          PROVE  job'[q].seen \in {{}, DOMAIN tables'[t]}
      <4>1. /\ job[q].begun /\ job[q].pc = t /\ job'[q].seen = job[q].seen \ taken
            /\ job[q].seen \in {{}, DOMAIN tables[t]}
        BY <2>4, <2>5, <2>8, <3>4 DEF InPlay
      <4>2. CASE Left(r) = {}
        BY <2>1, <2>2, <2>8, <4>1, <4>2 DEF Left
      <4>3. CASE taken = {} /\ Merged(r) = tables[t]
        BY <3>2, <4>1, <4>3
      <4> QED
        BY <3>1, <4>2, <4>3
    <3> QED
      BY <2>6, <3>3, <3>4 DEF InPlay
  <2> QED
    BY <2>7, <2>8
<1> QED
  BY <1>2, <1>3, Inserted

LEMMA ContentStep == Typed /\ ContentInv /\ [Next]_vars => ContentInv'
<1> SUFFICES ASSUME Typed, ContentInv, [Next]_vars, NEW t \in Tables, Akin(t)' PROVE InPlay(t)'
  BY DEF ContentInv
<1>1. Akin(t) => InPlay(t)
  BY DEF ContentInv
<1>2. CASE UNCHANGED vars
  BY <1>1, <1>2 DEF InPlay, Akin, vars
<1>3. ASSUME NEW r \in Requests, Delete(r) \/ Insert(r) \/ Fail(r) PROVE InPlay(t)'
  <2>1. written' = written
    BY <1>3 DEF Delete, Insert, Fail
  <2>2. Akin(t)
    BY <2>1, AkinBefore
  <2> QED
    BY <1>1, <1>3, <2>2, ContentDelete, ContentInsert, ContentFail
<1>4. ASSUME NEW b \in Buyers, Update(b) \/ Read(b) PROVE InPlay(t)'
  BY <1>1, <1>4, ContentUpdate, ContentRead
<1>5. ASSUME NEW a \in Admins, Save(a) PROVE InPlay(t)'
  BY <1>1, <1>5, ContentSave
<1> QED
  BY <1>2, <1>3, <1>4, <1>5 DEF Next, Step

(* However checkouts, cancellations and forms interleave and fail, a table holds what one
   of them wrote to it, never a mixture of two, for any product, any orders, any number of
   forms with any lists, wherever the contents written to it share keys
   (product_store.go:378-545, product_service.go:189-288). *)
THEOREM ContentsCorrect == Spec => []NeverAMixture
<1>1. Spec => []ContentInv
  <2>1. Init => ContentInv
    BY ContentInit
  <2>2. Typed /\ ContentInv /\ [Next]_vars => ContentInv'
    BY ContentStep
  <2> QED
    BY <2>1, <2>2, TypedHolds, PTL DEF Spec
<1>2. ContentInv => NeverAMixture
  BY DEF ContentInv, InPlay, NeverAMixture
<1> QED
  BY <1>1, <1>2, PTL

-----------------------------------------------------------------------------
(* A checkout that runs alone.  It carries the totals of the variants as they are, what it
   has written of them is in the tables, and its DELETE sees the table as it is. *)

Alone(b) ==
  /\ job[b].pc = "read" => Wants[b] \in DOMAIN tables["variants"]
  /\ job[b].pc \in Tables =>
       job[b].pc # "variants" /\ b \notin Admins /\ job[b].lists = Totals(tables["variants"])
  /\ job[b].pc = "colors" => tables["sizes"] = Total("sizes", tables["variants"])
  /\ job[b].begun => job[b].seen = DOMAIN tables[job[b].pc]

NobodyBut(r) == \A q \in Requests \ {r} : ~Running(q)

RepairInv == \A b \in Buyers \ met : Running(b) => Alone(b) /\ NobodyBut(b)

(* What the property says of one checkout. *)
Returns(b) ==
  Running(b) /\ ~Running(b)' => (job'[b].pc = "done" /\ TotalsRight') \/ job'[b].broke

LEMMA RepairInit == Init => RepairInv
<1> SUFFICES ASSUME Init, NEW b \in Buyers PROVE ~Running(b)
  BY DEF RepairInv
<1> QED
  BY DEF Init, Fresh, Running, Requests

(* A step of r is no step of another checkout that runs alone. *)
LEMMA RepairFinish ==
  ASSUME RepairInv, NEW r \in Requests,
         Meets(r) \/ (Running(r) /\ met' = met),
         \A q \in Requests \ {r} : job'[q].pc = job[q].pc,
         r \in Buyers \ met' => (Running(r)' => Alone(r)'),
         r \in Buyers \ met => Returns(r)
  PROVE  RepairInv' /\ \A b \in Buyers \ met : Returns(b)
<1>1. met \subseteq met'
  BY DEF Meets
<1>2. ASSUME NEW b \in Buyers, b \notin met', b # r PROVE ~Running(b)'
  <2>1. b \in Requests /\ job'[b].pc = job[b].pc
    BY <1>2 DEF Requests
  <2>2. ~Running(b)
    <3>1. CASE Meets(r)
      <4>1. b \notin {q \in Requests \ {r} : Running(q)}
        BY <1>2, <3>1 DEF Meets
      <4> QED
        BY <1>2, <2>1, <4>1
    <3>2. CASE Running(r) /\ met' = met
      BY <1>2, <3>2 DEF RepairInv, NobodyBut
    <3> QED
      BY <3>1, <3>2
  <2> QED
    BY <2>1, <2>2 DEF Running
<1>3. ASSUME r \in Buyers \ met', Running(r)' PROVE Alone(r)' /\ NobodyBut(r)'
  <2>1. NobodyBut(r)
    <3>1. CASE Meets(r)
      <4>1. {q \in Requests \ {r} : Running(q)} = {}
        BY <1>3, <3>1 DEF Meets
      <4> QED
        BY <4>1 DEF NobodyBut
    <3>2. CASE Running(r) /\ met' = met
      BY <1>3, <3>2 DEF RepairInv
    <3> QED
      BY <3>1, <3>2
  <2>2. NobodyBut(r)'
    BY <2>1 DEF NobodyBut, Running
  <2> QED
    BY <1>3, <2>2
<1>4. RepairInv'
  BY <1>2, <1>3 DEF RepairInv
<1>5. ASSUME NEW b \in Buyers \ met PROVE Returns(b)
  <2>1. CASE b # r
    <3>1. job'[b].pc = job[b].pc
      BY <2>1 DEF Requests
    <3> QED
      BY <3>1 DEF Returns, Running
  <2>2. CASE b = r
    BY <2>2
  <2> QED
    BY <2>1, <2>2
<1> QED
  BY <1>4, <1>5

LEMMA RepairUpdate ==
  ASSUME Typed, RepairInv, NEW b \in Buyers, Update(b)
  PROVE  RepairInv' /\ \A c \in Buyers \ met : Returns(c)
<1>1. b \in Requests /\ job[b] \in JobState /\ job[b].pc = "new" /\ ~job[b].begun /\ Meets(b)
  BY Updated DEF Requests, Typed, Waits, Tables
<1>2. Returns(b)
  BY <1>1 DEF Returns, Running
<1>3. \A q \in Requests \ {b} : job'[q].pc = job[q].pc
  BY DEF Update, Typed
<1>4. Running(b)' => Alone(b)'
  <2>1. CASE job' = [job EXCEPT ![b].pc = "failed"]
    <3>1. job'[b].pc = "failed"
      BY <1>1, <2>1 DEF Typed, JobState
    <3> QED
      BY <3>1 DEF Running
  <2>2. CASE Moves(b)
    <3>1. job'[b].pc = "read" /\ ~job'[b].begun
      BY <1>1, <2>2 DEF Moves, Typed, JobState
    <3>2. Wants[b] \in DOMAIN tables'["variants"]
      BY <2>2, MovesRows DEF Moves, Enough, Tables
    <3> QED
      BY <3>1, <3>2 DEF Alone, Tables
  <2> QED
    BY <2>1, <2>2, Updated
<1> QED
  BY <1>1, <1>2, <1>3, <1>4, RepairFinish

LEMMA RepairRead ==
  ASSUME Typed, RepairInv, NEW b \in Buyers, Read(b)
  PROVE  RepairInv' /\ \A c \in Buyers \ met : Returns(c)
<1>1. b \in Requests /\ job[b].pc = "read" /\ UNCHANGED <<tables, met>> /\ Running(b) /\ b \notin Admins
  BY ReadStep, StockTotalsAssumption DEF Running
<1>2. PICK k \in JobState :
        /\ job' = [job EXCEPT ![b] = k] /\ ~k.begun
        /\ \/ DOMAIN tables["variants"] = {}
           \/ k.pc = "sizes" /\ k.lists = Totals(tables["variants"])
  BY ReadStep
<1>3. \A q \in Requests \ {b} : job'[q].pc = job[q].pc
  BY <1>2 DEF Typed
<1>4. job'[b] = k
  BY <1>1, <1>2 DEF Typed
<1>5. b \notin met => k.pc = "sizes" /\ k.lists = Totals(tables["variants"])
  BY <1>1, <1>2 DEF RepairInv, Alone
<1>6. b \notin met => Alone(b)' /\ Running(b)'
  BY <1>1, <1>2, <1>4, <1>5 DEF Alone, Running
<1>7. b \in Buyers \ met => Returns(b)
  BY <1>6 DEF Returns
<1> QED
  BY <1>1, <1>3, <1>6, <1>7, RepairFinish

LEMMA RepairDelete ==
  ASSUME Typed, RepairInv, NEW r \in Requests, Delete(r)
  PROVE  RepairInv' /\ \A c \in Buyers \ met : Returns(c)
<1>1. job[r].pc \in Tables /\ UNCHANGED <<tables, written, met>> /\ Running(r)
  BY DeleteStep DEF Running, Tables
<1>2. PICK k \in JobState :
        /\ job' = [job EXCEPT ![r] = k] /\ k.pc = job[r].pc /\ k.lists = job[r].lists
        /\ k.seen = DOMAIN tables[k.pc] /\ k.begun
  BY DeleteStep
<1>3. \A q \in Requests \ {r} : job'[q].pc = job[q].pc
  BY <1>2 DEF Typed
<1>4. job'[r] = k
  BY <1>2 DEF Typed
<1>5. r \in Buyers \ met => Alone(r)'
  BY <1>1, <1>2, <1>4 DEF RepairInv, Alone, Tables
<1>6. Returns(r)
  BY <1>1, <1>2, <1>4 DEF Returns, Running
<1> QED
  BY <1>1, <1>3, <1>5, <1>6, RepairFinish

LEMMA RepairFail ==
  ASSUME Typed, RepairInv, NEW r \in Requests, Fail(r)
  PROVE  RepairInv' /\ \A c \in Buyers \ met : Returns(c)
<1>1. job[r] \in JobState /\ UNCHANGED <<tables, written, met>> /\ Running(r)
  BY DEF Typed, Fail
<1>2. PICK k \in JobState : job' = [job EXCEPT ![r] = k] /\ k.pc = "failed" /\ k.broke
  BY <1>1, BrokenTyped DEF Fail
<1>3. (\A q \in Requests \ {r} : job'[q].pc = job[q].pc) /\ job'[r] = k
  BY <1>2 DEF Typed
<1>4. ~Running(r)' /\ Returns(r)
  BY <1>2, <1>3 DEF Returns, Running
<1> QED
  BY <1>1, <1>3, <1>4, RepairFinish

LEMMA RepairSave ==
  ASSUME Typed, RepairInv, NEW a \in Admins, Save(a)
  PROVE  RepairInv' /\ \A c \in Buyers \ met : Returns(c)
<1>1. a \in Requests /\ a \notin Buyers /\ Meets(a)
  BY SaveStep, StockTotalsAssumption
<1>2. PICK k \in JobState : job' = [job EXCEPT ![a] = k]
  BY SaveStep
<1>3. \A q \in Requests \ {a} : job'[q].pc = job[q].pc
  BY <1>2 DEF Typed
<1> QED
  BY <1>1, <1>3, RepairFinish

LEMMA RepairInsert ==
  ASSUME Typed, RepairInv, NEW r \in Requests, Insert(r)
  PROVE  RepairInv' /\ \A c \in Buyers \ met : Returns(c)
<1>1. job[r].pc \in Tables /\ job[r].begun /\ job[r] \in JobState /\ met' = met /\ Running(r)
  BY Inserted DEF Typed, Running, Tables
<1>2. \A q \in Requests \ {r} : job'[q].pc = job[q].pc
  <2>1. CASE Rejected(r)
    BY <2>1 DEF Rejected, Typed
  <2>2. CASE Committed(r)
    BY <1>1, <2>2, CommitStep
  <2> QED
    BY <2>1, <2>2, Inserted
<1>3. ASSUME r \in Buyers \ met PROVE Returns(r) /\ (Running(r)' => Alone(r)')
  <2>1. Alone(r)
    BY <1>1, <1>3 DEF RepairInv
  <2>2. /\ job[r].pc \in {"sizes", "colors"} /\ r \notin Admins /\ job[r].lists = Totals(tables["variants"])
        /\ job[r].seen = DOMAIN tables[job[r].pc]
    BY <1>1, <2>1 DEF Alone, Tables
  <2>3. PICK t \in Tables : t = job[r].pc
    BY <1>1
  <2>4. Left(r) = {} /\ Merged(r) = New(r)
    BY <1>1, <2>2, MergedRows DEF Left
  <2>5. Committed(r)
    BY <2>4, Inserted DEF Rejected
  <2>6. New(r) = Total(t, tables["variants"])
    <3>1. tables["variants"] \in TableRows("variants")
      BY DEF Typed, Lists, Tables
    <3> QED
      BY <2>2, <2>3, <3>1, TotalsRows DEF New
  <2>7. tables' = [u \in Tables |-> IF u = t THEN Total(t, tables["variants"]) ELSE tables[u]]
    BY <1>1, <2>3, <2>4, <2>5, <2>6, CommitStep
  <2>8. PICK k \in JobState : k = Written(r, job[r])
    BY <1>1, WrittenTyped
  <2>9. /\ job'[r] = k /\ k.pc = After(r, t) /\ ~k.begun
        /\ k.pc # "done" => k.lists = Totals(tables["variants"])
    BY <1>1, <2>2, <2>3, <2>5, <2>8, WrittenTyped, CommitStep
  <2>10. tables'["variants"] = tables["variants"]
    BY <2>2, <2>3, <2>7 DEF Tables
  <2>11. CASE t = "sizes"
    <3>1. k.pc = "colors" /\ tables'["sizes"] = Total("sizes", tables["variants"])
      BY <2>7, <2>9, <2>11 DEF After, Tables
    <3> QED
      BY <2>2, <2>9, <2>10, <3>1 DEF Alone, Returns, Running, Tables
  <2>12. CASE t = "colors"
    <3>1. k.pc = "done" /\ tables'["colors"] = Total("colors", tables["variants"])
      BY <2>2, <2>7, <2>9, <2>12 DEF After, Tables
    <3>2. tables'["sizes"] = Total("sizes", tables["variants"])
      BY <2>1, <2>3, <2>7, <2>12 DEF Alone, Tables
    <3>3. TotalsRight'
      BY <2>10, <3>1, <3>2 DEF TotalsRight, TotalTables
    <3> QED
      BY <2>9, <3>1, <3>3 DEF Returns, Running
  <2> QED
    BY <2>2, <2>3, <2>11, <2>12
<1> QED
  BY <1>1, <1>2, <1>3, RepairFinish

LEMMA RepairStep ==
  Typed /\ RepairInv /\ [Next]_vars => RepairInv' /\ (UNCHANGED vars \/ \A b \in Buyers \ met : Returns(b))
<1> SUFFICES ASSUME Typed, RepairInv, [Next]_vars
    PROVE  RepairInv' /\ (UNCHANGED vars \/ \A b \in Buyers \ met : Returns(b))
  OBVIOUS
<1>1. CASE UNCHANGED vars
  BY <1>1 DEF RepairInv, Alone, NobodyBut, Running, vars
<1> QED
  BY <1>1, RepairUpdate, RepairRead, RepairDelete, RepairInsert, RepairFail, RepairSave DEF Next, Step

(* A checkout or a cancellation beside which no other request ran leaves the totals of each
   size and color right, however wrong they were, or one of its own statements failed, for
   any product, any orders and any forms (product_store.go:440-545). *)
THEOREM RepairsCorrect == Spec => AloneRepairs
<1>1. Init => RepairInv
  BY RepairInit
<1>2. Typed /\ RepairInv /\ [Next]_vars => RepairInv'
  BY RepairStep
<1>3. Typed /\ RepairInv /\ [Next]_vars =>
        [\A b \in Buyers \ met : Running(b) /\ ~Running(b)' =>
           \/ job'[b].pc = "done" /\ TotalsRight'
           \/ job'[b].broke]_vars
  BY RepairStep DEF Returns
<1> QED
  BY <1>1, <1>2, <1>3, TypedHolds, PTL DEF Spec, AloneRepairs
=============================================================================
