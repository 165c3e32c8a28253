-------------------------- MODULE OrderStockProofs ---------------------------
(***************************************************************************)
(* The theorems about OrderStock: its types, the metadata under PATCH      *)
(* requests that overwrite each other, the checkout that is complete or    *)
(* undone, and where the PATCH requests come one by one the flags and the  *)
(* refinement of StockLedger.                                              *)
(***************************************************************************)
EXTENDS OrderStockLedger, SequenceTheorems, FiniteSetTheorems, TLAPS

-------------------------------------------------------------------------------
(***************************************************************************)
(* What holds of OrderStock for every catalogue, every set of orders,      *)
(* every cart, every bound and, where nothing else is said, every fault    *)
(* and every interleaving.                                                 *)
(***************************************************************************)

(* The loops stay inside the cart                                          *)

(* The request r is at work on the order of j. *)
Owns(r, j) ==
  /\ j \in Job
  /\ j.order \in Orders
  /\ r \in Orders => j.order = r /\ j.prev = NothingSeen

(* What a job may look like.  TypeOK alone is not inductive: the index of a loop
   has to point at a line of the cart.                                      *)
WellFormed(r, j) ==
  /\ j \in Job
  /\ r \in Orders => /\ j.pc \notin {"idle", "release", "write"}
                     /\ j.order = r /\ j.prev = NothingSeen
  /\ r \in Admins => j.pc \in {"idle", "reserve", "rollback", "release", "write"}
  /\ j.pc # "idle" => j.order \in Orders
  /\ j.pc = "new" => j.at = 1
  /\ j.pc \in {"check", "reserve"} => j.at \in LinesOf(j.order)
  /\ j.pc \in {"rollback", "release"} =>
       j.at \in 1..j.upto /\ j.upto \in LinesOf(j.order)

JobOK == \A r \in Requests : WellFormed(r, job[r])

(* A cart has lines, numbered from 1, of a variant and a positive quantity. *)
LEMMA LineFacts ==
  ASSUME NEW o \in Orders
  PROVE  /\ Len(Lines[o]) \in Nat \ {0}
         /\ LinesOf(o) = 1..Len(Lines[o])
         /\ \A i \in LinesOf(o) : /\ Lines[o][i].variant \in Variants
                                  /\ Lines[o][i].qty \in Nat \ {0}
<1> DEFINE Line == [variant : Variants, qty : Nat \ {0}]
<1>1. Lines[o] \in Seq(Line) /\ Lines[o] # << >>
  BY OrderStockAssumption
<1>2. \A l \in Line : l.variant \in Variants /\ l.qty \in Nat \ {0}
  OBVIOUS
<1> HIDE DEF Line
<1>3. Len(Lines[o]) \in Nat \ {0} /\ LinesOf(o) = 1..Len(Lines[o])
  BY <1>1, EmptySeq, LenProperties DEF LinesOf
<1>4. \A i \in LinesOf(o) : Lines[o][i] \in Line
  BY <1>1, <1>3, ElementOfSeq
<1> QED
  BY <1>2, <1>3, <1>4

(* A job that moves to another step, line and last line keeps the rest. *)
LEMMA MoveFacts ==
  ASSUME NEW j \in Job, NEW s \in Steps, NEW n \in Nat, NEW m \in Nat
  PROVE  /\ Move(j, s, n, m) \in Job
         /\ Move(j, s, n, m).pc = s
         /\ Move(j, s, n, m).at = n
         /\ Move(j, s, n, m).upto = m
         /\ Move(j, s, n, m).order = j.order
         /\ Move(j, s, n, m).prev = j.prev
         /\ Move(j, s, n, m).want = j.want
         /\ Move(j, s, n, m).err = j.err
<1>1. Move(j, s, n, m) \in Job
  BY Zenon DEF Job, Move
<1>2. /\ Move(j, s, n, m).pc = s
      /\ Move(j, s, n, m).at = n
      /\ Move(j, s, n, m).upto = m
  BY DEF Job, Move
<1>3. /\ Move(j, s, n, m).order = j.order
      /\ Move(j, s, n, m).prev = j.prev
      /\ Move(j, s, n, m).want = j.want
      /\ Move(j, s, n, m).err = j.err
  BY DEF Job, Move
<1> QED
  BY <1>1, <1>2, <1>3

LEMMA GotoFacts ==
  ASSUME NEW j \in Job, NEW s \in Steps
  PROVE  /\ Goto(j, s) \in Job
         /\ Goto(j, s).pc = s
         /\ Goto(j, s).at = j.at
         /\ Goto(j, s).upto = j.upto
         /\ Goto(j, s).order = j.order
         /\ Goto(j, s).prev = j.prev
         /\ Goto(j, s).want = j.want
         /\ Goto(j, s).err = j.err
<1>1. j.at \in Nat /\ j.upto \in Nat
  BY DEF Job
<1> QED
  BY <1>1, MoveFacts DEF Goto

LEMMA AdvanceFacts ==
  ASSUME NEW j \in Job
  PROVE  /\ Advance(j) \in Job
         /\ Advance(j).pc = j.pc
         /\ Advance(j).at = j.at + 1
         /\ Advance(j).upto = j.upto
         /\ Advance(j).order = j.order
         /\ Advance(j).prev = j.prev
         /\ Advance(j).want = j.want
         /\ Advance(j).err = j.err
<1>1. j.pc \in Steps /\ j.upto \in Nat
  BY DEF Job
<1>2. j.at + 1 \in Nat
  BY DEF Job
<1> DEFINE n == j.at + 1
<1> HIDE DEF n
<1>3. n \in Nat
  BY <1>2 DEF n
<1>4. /\ Move(j, j.pc, n, j.upto) \in Job
      /\ Move(j, j.pc, n, j.upto).pc = j.pc
      /\ Move(j, j.pc, n, j.upto).at = n
      /\ Move(j, j.pc, n, j.upto).upto = j.upto
      /\ Move(j, j.pc, n, j.upto).order = j.order
      /\ Move(j, j.pc, n, j.upto).prev = j.prev
      /\ Move(j, j.pc, n, j.upto).want = j.want
      /\ Move(j, j.pc, n, j.upto).err = j.err
  BY <1>1, <1>3, MoveFacts, SMTT(60)
<1>5. Advance(j) = Move(j, j.pc, n, j.upto)
  BY DEF Advance, n
<1> QED
  BY <1>4, <1>5, Zenon DEF n

(* A job whose call failed, or whose client left, is otherwise the same. *)
LEMMA ErredFacts ==
  ASSUME NEW j \in Job
  PROVE  /\ Erred(j) \in Job
         /\ Erred(j).pc = j.pc
         /\ Erred(j).at = j.at
         /\ Erred(j).upto = j.upto
         /\ Erred(j).order = j.order
         /\ Erred(j).prev = j.prev
         /\ Erred(j).want = j.want
         /\ Erred(j).err = TRUE
<1>1. Erred(j) \in Job
  BY Zenon DEF Job, Erred
<1>2. Erred(j).err = TRUE
  BY Zenon DEF Job, Erred
<1>3. Erred(j).pc = j.pc /\ Erred(j).at = j.at /\ Erred(j).upto = j.upto
  BY DEF Job, Erred
<1>4. Erred(j).order = j.order /\ Erred(j).prev = j.prev /\ Erred(j).want = j.want
  BY DEF Job, Erred
<1> QED
  BY <1>1, <1>2, <1>3, <1>4

LEMMA CutFacts ==
  ASSUME NEW j \in Job
  PROVE  /\ Cut(j) \in Job
         /\ Cut(j).pc = j.pc
         /\ Cut(j).at = j.at
         /\ Cut(j).upto = j.upto
         /\ Cut(j).order = j.order
         /\ Cut(j).prev = j.prev
         /\ Cut(j).want = j.want
         /\ Cut(j).err = j.err
<1>1. Cut(j) \in Job
  BY Zenon DEF Job, Cut
<1>2. Cut(j).err = j.err
  BY Zenon DEF Job, Cut
<1>3. Cut(j).pc = j.pc /\ Cut(j).at = j.at /\ Cut(j).upto = j.upto
  BY DEF Job, Cut
<1>4. Cut(j).order = j.order /\ Cut(j).prev = j.prev /\ Cut(j).want = j.want
  BY DEF Job, Cut
<1> QED
  BY <1>1, <1>2, <1>3, <1>4

(* A request that starts, at the first line. *)
LEMMA StartedFacts ==
  ASSUME NEW s \in Steps, NEW o \in Orders \cup {NoOrder}, NEW n \in Nat,
         NEW w \in Statuses, NEW p \in Seen
  PROVE  /\ Started(s, o, n, w, p) \in Job
         /\ Started(s, o, n, w, p).pc = s
         /\ Started(s, o, n, w, p).at = 1
         /\ Started(s, o, n, w, p).upto = n
         /\ Started(s, o, n, w, p).order = o
         /\ Started(s, o, n, w, p).prev = p
         /\ Started(s, o, n, w, p).want = w
         /\ Started(s, o, n, w, p).err = FALSE
<1>1. 1 \in Nat /\ FALSE \in BOOLEAN
  OBVIOUS
<1>2. Started(s, o, n, w, p) \in Job
  BY <1>1, Zenon DEF Job, Started
<1>3. Started(s, o, n, w, p).err = FALSE
  BY Zenon DEF Started
<1> QED
  BY <1>2, <1>3 DEF Started

(* An administrator who does nothing. *)
LEMMA IdleFacts ==
  /\ Idle \in Job /\ Idle.pc = "idle" /\ Idle.order = NoOrder
  /\ \A r \in Admins : WellFormed(r, Idle)
  /\ NothingSeen \in Seen
<1>1. /\ NothingSeen \in Seen /\ "idle" \in Steps /\ "pending" \in Statuses
  BY DEF NothingSeen, Seen, Statuses, Steps
<1>2. Idle \in Job /\ Idle.pc = "idle" /\ Idle.order = NoOrder
  BY <1>1 DEF Idle, Checkout, Started, Job, Steps, Statuses
<1> QED
  BY <1>1, <1>2, OrderStockAssumption DEF WellFormed

-------------------------------------------------------------------------------
(* Where the helpers send a request, it still points at a line of its cart. *)

LEMMA FailedOK ==
  ASSUME NEW r \in Requests, NEW j, Owns(r, j)
  PROVE  WellFormed(r, Failed(r, j))
<1>1. CASE r \in Admins
  BY <1>1, IdleFacts DEF Failed
<1>2. CASE r \notin Admins
  <2>1. j \in Job /\ "failed" \in Steps
    BY DEF Owns, Steps
  <2> QED
    BY <1>2, <2>1, GotoFacts DEF Failed, Owns, WellFormed, Requests
<1> QED
  BY <1>1, <1>2

LEMMA UndoOK ==
  ASSUME NEW r \in Requests, NEW j, Owns(r, j), NEW n \in 0..Len(Lines[j.order])
  PROVE  WellFormed(r, Undo(r, j, n))
<1>1. CASE n = 0
  BY <1>1, FailedOK DEF Undo
<1>2. CASE n # 0
  <2>1. j.order \in Orders
    BY DEF Owns
  <2>2. n \in Nat /\ n \in 1..n /\ n \in LinesOf(j.order)
    BY <1>2, <2>1, LineFacts
  <2>3. "rollback" \in Steps /\ j \in Job /\ 1 \in Nat
    BY DEF Owns, Steps
  <2> QED
    BY <1>2, <2>1, <2>2, <2>3, MoveFacts, SMTT(60) DEF Undo, Owns, WellFormed
<1> QED
  BY <1>1, <1>2

LEMMA AfterReserveOK ==
  ASSUME NEW r \in Requests, NEW j, Owns(r, j), j.pc = "reserve",
         j.at \in LinesOf(j.order)
  PROVE  WellFormed(r, AfterReserve(r, j))
<1>1. j \in Job /\ j.order \in Orders
  BY DEF Owns
<1>2. LinesOf(j.order) = 1..Len(Lines[j.order]) /\ Len(Lines[j.order]) \in Nat
  BY <1>1, LineFacts
<1>3. CASE j.at = Len(Lines[j.order])
  <2>1. "write" \in Steps /\ "persist" \in Steps
    BY DEF Steps
  <2>2. CASE r \in Admins
    BY <1>1, <1>3, <2>1, <2>2, GotoFacts, OrderStockAssumption
       DEF AfterReserve, Reserved, Owns, WellFormed
  <2>3. CASE r \notin Admins
    BY <1>1, <1>3, <2>1, <2>3, GotoFacts
       DEF AfterReserve, Reserved, Owns, WellFormed, Requests
  <2> QED
    BY <2>2, <2>3
<1>4. CASE j.at # Len(Lines[j.order])
  <2>1. j.at + 1 \in LinesOf(j.order)
    BY <1>2, <1>4
  <2> QED
    BY <1>1, <1>4, <2>1, AdvanceFacts, OrderStockAssumption
       DEF AfterReserve, Owns, WellFormed, Requests
<1> QED
  BY <1>3, <1>4

LEMMA AfterReleaseOK ==
  ASSUME NEW r \in Requests, NEW j, Owns(r, j), WellFormed(r, j),
         j.pc \in {"rollback", "release"}
  PROVE  WellFormed(r, AfterRelease(r, j))
<1>1. /\ j \in Job /\ j.order \in Orders
      /\ j.at \in 1..j.upto /\ j.upto \in Nat /\ "write" \in Steps
  BY DEF Owns, WellFormed, Job, Steps
<1>2. CASE j.at < j.upto
  BY <1>1, <1>2, AdvanceFacts DEF AfterRelease, Owns, WellFormed
<1>3. CASE ~(j.at < j.upto) /\ j.pc = "release" /\ ~j.err
  BY <1>1, <1>3, GotoFacts DEF AfterRelease, Owns, WellFormed
<1>4. CASE ~(j.at < j.upto) /\ ~(j.pc = "release" /\ ~j.err)
  BY <1>4, FailedOK DEF AfterRelease
<1> QED
  BY <1>2, <1>3, <1>4

-------------------------------------------------------------------------------
(* Type correctness: one step for each part a statement changes            *)

LEMMA JobStep ==
  ASSUME TypeOK, JobOK, NEW r \in Requests, NEW k, WellFormed(r, k),
         job' = [job EXCEPT ![r] = k]
  PROVE  JobOK' /\ job' \in [Requests -> Job]
<1>1. k \in Job /\ job \in [Requests -> Job]
  BY DEF WellFormed, TypeOK
<1>2. job' \in [Requests -> Job]
  BY <1>1
<1>3. \A q \in Requests : WellFormed(q, job'[q])
  BY <1>1 DEF JobOK
<1> QED
  BY <1>2, <1>3 DEF JobOK

LEMMA OwnsJob ==
  ASSUME TypeOK, JobOK, NEW r \in Requests, job[r].pc # "idle"
  PROVE  Owns(r, job[r]) /\ WellFormed(r, job[r])
  BY DEF TypeOK, JobOK, WellFormed, Owns

LEMMA ErredOwns ==
  ASSUME NEW r \in Requests, NEW j, Owns(r, j)
  PROVE  Owns(r, Erred(j))
  BY ErredFacts DEF Owns

LEMMA HoldType ==
  ASSUME TypeOK, NEW o \in Orders, NEW i \in LinesOf(o), NEW n \in Int, Hold(o, i, n)
  PROVE  /\ DOMAIN held' = Orders
         /\ \A q \in Orders : held'[q] \in [LinesOf(q) -> Int]
         /\ \A q \in Orders : q # o => held'[q] = held[q]
         /\ held'[o][i] = held[o][i] + n
         /\ \A k \in LinesOf(o) : k # i => held'[o][k] = held[o][k]
<1>1. DOMAIN held = Orders /\ \A q \in Orders : held[q] \in [LinesOf(q) -> Int]
  BY DEF TypeOK
<1>2. held' = [held EXCEPT ![o] = [held[o] EXCEPT ![i] = held[o][i] + n]]
  BY DEF Hold
<1> DEFINE h == [held[o] EXCEPT ![i] = held[o][i] + n]
<1>3. /\ h \in [LinesOf(o) -> Int]
      /\ h[i] = held[o][i] + n
      /\ \A k \in LinesOf(o) : k # i => h[k] = held[o][k]
  BY <1>1
<1>4. held' = [held EXCEPT ![o] = h]
  BY <1>2
<1> HIDE DEF h
<1>5. held'[o] = h /\ \A q \in Orders : q # o => held'[q] = held[q]
  BY <1>1, <1>4
<1>6. DOMAIN held' = Orders
  BY <1>1, <1>4
<1> QED
  BY <1>1, <1>3, <1>5, <1>6

LEMMA TakeType ==
  ASSUME TypeOK, NEW o \in Orders, NEW i \in LinesOf(o), InStock(Lines[o][i]),
         AddStock(Lines[o][i], -Lines[o][i].qty)
  PROVE  stock' \in [Variants -> Nat]
  BY LineFacts, SMTT(60) DEF TypeOK, InStock, AddStock

LEMMA GiveType ==
  ASSUME TypeOK, NEW o \in Orders, NEW i \in LinesOf(o),
         AddStock(Lines[o][i], Lines[o][i].qty)
  PROVE  stock' \in [Variants -> Nat]
  BY LineFacts DEF TypeOK, AddStock

LEMMA FaultType ==
  ASSUME TypeOK, NEW r, NEW kind, Fault(r, kind)
  PROVE  faults' \in 0..MaxFaults
  BY OrderStockAssumption DEF TypeOK, Fault

LEMMA InitCorrect == Init => TypeOK /\ JobOK
<1> SUFFICES ASSUME Init PROVE TypeOK /\ JobOK
  OBVIOUS
<1>1. ASSUME NEW r \in Requests
      PROVE  WellFormed(r, job[r])
  <2>1. CASE r \in Admins
    BY <2>1, IdleFacts DEF Init, Requests
  <2>2. CASE r \notin Admins
    <3>1. r \in Orders
      BY <2>2 DEF Requests
    <3> DEFINE s == IF r \in Legacy THEN "done" ELSE "new"
    <3>2. s \in {"done", "new"} /\ s \in Steps
      BY DEF Steps
    <3>3. job[r] = Started(s, r, 0, "pending", NothingSeen)
      BY <2>2 DEF Init, Checkout
    <3> HIDE DEF s
    <3>4. 0 \in Nat /\ "pending" \in Statuses /\ r \in Orders \cup {NoOrder}
      BY <3>1 DEF Statuses
    <3>5. NothingSeen \in Seen
      BY IdleFacts
    <3> DEFINE k == Started(s, r, 0, "pending", NothingSeen)
    <3>6. /\ k \in Job /\ k.pc = s /\ k.at = 1 /\ k.order = r /\ k.prev = NothingSeen
      BY <3>2, <3>4, <3>5 DEF Started, Job
    <3> HIDE DEF k
    <3>7. WellFormed(r, k)
      BY <2>2, <3>1, <3>2, <3>6 DEF WellFormed
    <3> QED
      BY <3>3, <3>7 DEF k
  <2> QED
    BY <2>1, <2>2
<1>2. JobOK
  BY <1>1 DEF JobOK
<1>3. job \in [Requests -> Job]
  <2>1. \A r \in Requests : job[r] \in Job
    BY <1>1 DEF WellFormed
  <2> QED
    BY <2>1 DEF Init
<1>4. /\ products \subseteq Products /\ rows \subseteq Variants
      /\ stock \in [Variants -> Nat]
      /\ faults \in 0..MaxFaults /\ edits \in 0..MaxEdits /\ patches \in 0..MaxPatches
  BY OrderStockAssumption DEF Init
<1>5. orders \in [Orders -> [placed : BOOLEAN, status : Statuses,
                            reserved : BOOLEAN, released : BOOLEAN]]
  BY DEF Init, Statuses
<1>6. DOMAIN held = Orders /\ \A o \in Orders : held[o] \in [LinesOf(o) -> Int]
  BY DEF Init
<1> QED
  BY <1>2, <1>3, <1>4, <1>5, <1>6 DEF TypeOK

LEMMA BeginType ==
  ASSUME TypeOK, JobOK, NEW o \in Orders, Begin(o)
  PROVE  TypeOK' /\ JobOK'
<1>1. o \in Requests /\ "check" \in Steps /\ job[o].pc = "new"
  BY DEF Requests, Steps, Begin
<1>2. Owns(o, job[o]) /\ WellFormed(o, job[o])
  BY <1>1, OwnsJob
<1>3. WellFormed(o, Goto(job[o], "check"))
  <2>1. o \notin Admins /\ 1 \in LinesOf(o)
    BY LineFacts, OrderStockAssumption
  <2>2. job[o] \in Job /\ job[o].order = o /\ job[o].prev = NothingSeen /\ job[o].at = 1
    BY <1>1, <1>2 DEF Owns, WellFormed, Requests
  <2> QED
    BY <1>1, <2>1, <2>2, GotoFacts DEF WellFormed
<1>4. job' = [job EXCEPT ![o] = Goto(job[o], "check")]
  BY DEF Begin
<1>5. JobOK' /\ job' \in [Requests -> Job]
  BY <1>1, <1>3, <1>4, JobStep
<1> QED
  BY <1>5 DEF Begin, TypeOK, catalogue, counters

LEMMA CheckLineType ==
  ASSUME TypeOK, JobOK, NEW o \in Orders, CheckLine(o)
  PROVE  TypeOK' /\ JobOK'
<1> DEFINE j == job[o]
<1>1. o \in Requests /\ "reserve" \in Steps /\ j.pc = "check" /\ o \notin Admins
  BY OrderStockAssumption DEF Requests, Steps, CheckLine
<1>2. Owns(o, j) /\ WellFormed(o, j)
  BY <1>1, OwnsJob
<1>3. /\ j \in Job /\ j.order = o /\ j.prev = NothingSeen
      /\ j.at \in LinesOf(o) /\ j.upto \in Nat
  BY <1>1, <1>2 DEF Owns, WellFormed, Job
<1>4. faults' \in 0..MaxFaults
  BY FaultType DEF CheckLine, StatementRuns, StatementFails, TypeOK
<1>5. PICK k : /\ job' = [job EXCEPT ![o] = k]
               /\ \/ j.at = Len(Lines[o]) /\ k = Move(j, "reserve", 1, j.upto)
                  \/ j.at # Len(Lines[o]) /\ k = Advance(j)
                  \/ k = Failed(o, j)
  BY DEF CheckLine
<1>6. WellFormed(o, k)
  <2>1. CASE k = Failed(o, j)
    BY <1>1, <1>2, <2>1, FailedOK
  <2>2. CASE k = Move(j, "reserve", 1, j.upto)
    <3>1. 1 \in LinesOf(o) /\ 1 \in Nat
      BY LineFacts
    <3> QED
      BY <1>1, <1>3, <2>2, <3>1, MoveFacts DEF WellFormed
  <2>3. CASE j.at # Len(Lines[o]) /\ k = Advance(j)
    <3>1. j.at + 1 \in LinesOf(o)
      BY <1>3, <2>3, LineFacts
    <3> QED
      BY <1>1, <1>3, <2>3, <3>1, AdvanceFacts DEF WellFormed
  <2> QED
    BY <1>5, <2>1, <2>2, <2>3
<1>7. JobOK' /\ job' \in [Requests -> Job]
  BY <1>1, <1>5, <1>6, JobStep
<1> QED
  BY <1>4, <1>7 DEF CheckLine, TypeOK, catalogue

(* What Reserve and Release do to the stock and to held, or leave alone. *)
LEMMA ReserveType ==
  ASSUME TypeOK, JobOK, NEW r \in Requests, Reserve(r)
  PROVE  TypeOK' /\ JobOK'
<1> DEFINE j == job[r]
           l == Lines[j.order][j.at]
<1>1. j.pc = "reserve"
  BY DEF Reserve
<1>2. Owns(r, j) /\ WellFormed(r, j)
  BY <1>1, OwnsJob
<1>3. j.order \in Orders /\ j.at \in LinesOf(j.order)
  BY <1>1, <1>2 DEF Owns, WellFormed
<1>4. j.at - 1 \in 0..Len(Lines[j.order])
  BY <1>3, LineFacts
<1>5. faults' \in 0..MaxFaults
  BY FaultType DEF Reserve, StatementRuns, StatementFails, TypeOK
<1>6. PICK k : /\ job' = [job EXCEPT ![r] = k]
               /\ \/ k = Failed(r, j)
                  \/ k = AfterReserve(r, j)
                  \/ k = Undo(r, Erred(j), j.at - 1)
                  \/ k = Undo(r, j, j.at - 1)
  BY DEF Reserve
<1>7. WellFormed(r, k)
  <2>1. Owns(r, Erred(j)) /\ Erred(j).order = j.order
    BY <1>2, ErredOwns, ErredFacts DEF Owns
  <2> QED
    BY <1>1, <1>2, <1>3, <1>4, <1>6, <2>1, FailedOK, AfterReserveOK, UndoOK
<1>8. JobOK' /\ job' \in [Requests -> Job]
  BY <1>6, <1>7, JobStep
<1>9. \/ UNCHANGED <<stock, held>>
      \/ InStock(l) /\ AddStock(l, -l.qty) /\ Hold(j.order, j.at, 1)
  BY DEF Reserve
<1>10. /\ stock' \in [Variants -> Nat]
       /\ DOMAIN held' = Orders /\ \A o \in Orders : held'[o] \in [LinesOf(o) -> Int]
  <2>1. CASE UNCHANGED <<stock, held>>
    BY <2>1 DEF TypeOK
  <2>2. CASE InStock(l) /\ AddStock(l, -l.qty) /\ Hold(j.order, j.at, 1)
    BY <1>3, <2>2, TakeType, HoldType
  <2> QED
    BY <1>9, <2>1, <2>2
<1> QED
  BY <1>5, <1>8, <1>10 DEF Reserve, TypeOK, catalogue

LEMMA ReleaseType ==
  ASSUME TypeOK, JobOK, NEW r \in Requests, Release(r)
  PROVE  TypeOK' /\ JobOK'
<1> DEFINE j == job[r]
           l == Lines[j.order][j.at]
<1>1. j.pc \in {"rollback", "release"}
  BY DEF Release
<1>2. Owns(r, j) /\ WellFormed(r, j)
  BY <1>1, OwnsJob
<1>3. j.order \in Orders /\ j.at \in LinesOf(j.order)
  BY <1>1, <1>2, LineFacts DEF Owns, WellFormed
<1>4. faults' \in 0..MaxFaults
  BY FaultType DEF Release, StatementRuns, StatementFails, TypeOK
<1>5. PICK k : /\ job' = [job EXCEPT ![r] = k]
               /\ k = AfterRelease(r, j) \/ k = AfterRelease(r, Erred(j))
  BY DEF Release
<1>6. WellFormed(r, k)
  <2>1. /\ Owns(r, Erred(j)) /\ Erred(j).pc \in {"rollback", "release"}
        /\ WellFormed(r, Erred(j))
    BY <1>1, <1>2, ErredOwns, ErredFacts DEF Owns, WellFormed
  <2> QED
    BY <1>1, <1>2, <1>5, <2>1, AfterReleaseOK
<1>7. JobOK' /\ job' \in [Requests -> Job]
  BY <1>5, <1>6, JobStep
<1>8. \/ UNCHANGED <<stock, held>>
      \/ AddStock(l, l.qty) /\ Hold(j.order, j.at, -1)
  BY DEF Release
<1>9. /\ stock' \in [Variants -> Nat]
      /\ DOMAIN held' = Orders /\ \A o \in Orders : held'[o] \in [LinesOf(o) -> Int]
  <2>1. CASE UNCHANGED <<stock, held>>
    BY <2>1 DEF TypeOK
  <2>2. CASE AddStock(l, l.qty) /\ Hold(j.order, j.at, -1)
    BY <1>3, <2>2, GiveType, HoldType
  <2> QED
    BY <1>8, <2>1, <2>2
<1> QED
  BY <1>4, <1>7, <1>9 DEF Release, TypeOK, catalogue

LEMMA PersistType ==
  ASSUME TypeOK, JobOK, NEW o \in Orders, Persist(o)
  PROVE  TypeOK' /\ JobOK'
<1> DEFINE j == job[o]
<1>1. o \in Requests /\ j.pc = "persist" /\ o \notin Admins /\ "done" \in Steps
  BY OrderStockAssumption DEF Requests, Persist, Steps
<1>2. Owns(o, j) /\ WellFormed(o, j)
  BY <1>1, OwnsJob
<1>3. j \in Job /\ j.order = o /\ j.prev = NothingSeen
  BY <1>1, <1>2 DEF Owns
<1>4. faults' \in 0..MaxFaults
  BY FaultType DEF Persist, StatementRuns, StatementFails, TypeOK
<1>5. PICK k : /\ job' = [job EXCEPT ![o] = k]
               /\ k = Goto(j, "done") \/ k = Undo(o, j, Len(Lines[o]))
  BY DEF Persist
<1>6. WellFormed(o, k)
  <2>1. CASE k = Goto(j, "done")
    BY <1>1, <1>3, <2>1, GotoFacts DEF WellFormed
  <2>2. CASE k = Undo(o, j, Len(Lines[o]))
    <3>1. Len(Lines[o]) \in 0..Len(Lines[j.order])
      BY <1>3, LineFacts
    <3> QED
      BY <1>1, <1>2, <2>2, <3>1, UndoOK
  <2> QED
    BY <1>5, <2>1, <2>2
<1>7. JobOK' /\ job' \in [Requests -> Job]
  BY <1>1, <1>5, <1>6, JobStep
<1>8. \/ UNCHANGED orders
      \/ orders' = [orders EXCEPT ![o].placed = TRUE, ![o].reserved = TRUE]
  BY DEF Persist
<1>9. orders' \in [Orders -> [placed : BOOLEAN, status : Statuses,
                             reserved : BOOLEAN, released : BOOLEAN]]
  <2>1. orders \in [Orders -> [placed : BOOLEAN, status : Statuses,
                             reserved : BOOLEAN, released : BOOLEAN]]
    BY DEF TypeOK
  <2>2. CASE UNCHANGED orders
    BY <2>1, <2>2
  <2>3. CASE orders' = [orders EXCEPT ![o].placed = TRUE, ![o].reserved = TRUE]
    BY <2>1, <2>3, Zenon
  <2> QED
    BY <1>8, <2>2, <2>3
<1> QED
  BY <1>4, <1>7, <1>9 DEF Persist, TypeOK, catalogue

LEMMA PatchType ==
  ASSUME TypeOK, JobOK, NEW a \in Admins, NEW o \in Orders, NEW want \in Statuses,
         Patch(a, o, want)
  PROVE  TypeOK' /\ JobOK'
<1>1. a \in Requests /\ a \notin Orders
  BY OrderStockAssumption DEF Requests
<1> DEFINE prev == [status |-> orders[o].status, reserved |-> orders[o].reserved,
                    released |-> orders[o].released,
                    gone |-> {i \in LinesOf(o) :
                                ProductOf[Lines[o][i].variant] \notin products}]
           pc == IF MustReserve(prev, want) THEN "reserve"
                 ELSE IF MustRelease(prev, want) THEN "release" ELSE "write"
<1>2. /\ pc \in {"reserve", "release", "write"}
      /\ job' = [job EXCEPT ![a] = Started(pc, o, Len(Lines[o]), want, prev)]
  BY DEF Patch
<1> HIDE DEF pc
<1>3. prev \in Seen
  <2>1. /\ orders[o].status \in Statuses /\ orders[o].reserved \in BOOLEAN
        /\ orders[o].released \in BOOLEAN
    BY DEF TypeOK
  <2>2. {i \in LinesOf(o) : ProductOf[Lines[o][i].variant] \notin products} \in SUBSET Nat
    BY LineFacts
  <2> QED
    BY <2>1, <2>2, Zenon DEF Seen
<1> HIDE DEF prev
<1>4. WellFormed(a, Started(pc, o, Len(Lines[o]), want, prev))
  <2>1. pc \in Steps /\ o \in Orders \cup {NoOrder}
    BY <1>2 DEF Steps
  <2> DEFINE n == Len(Lines[o])
  <2>2. n \in Nat /\ n \in LinesOf(o) /\ 1 \in 1..n /\ 1 \in LinesOf(o)
    BY LineFacts
  <2> HIDE DEF n
  <2>3. LET k == Started(pc, o, n, want, prev)
        IN k \in Job /\ k.pc = pc /\ k.at = 1 /\ k.upto = n /\ k.order = o
    BY <1>3, <2>1, <2>2 DEF Started, Job
  <2>4. WellFormed(a, Started(pc, o, n, want, prev))
    BY <1>1, <1>2, <2>2, <2>3 DEF WellFormed
  <2> QED
    BY <2>4 DEF n
<1>5. JobOK' /\ job' \in [Requests -> Job]
  BY <1>1, <1>2, <1>4, JobStep
<1>6. patches' \in 0..MaxPatches
  BY OrderStockAssumption DEF Patch, TypeOK
<1> QED
  BY <1>5, <1>6 DEF Patch, TypeOK, catalogue

LEMMA WriteType ==
  ASSUME TypeOK, JobOK, NEW a \in Admins, Write(a)
  PROVE  TypeOK' /\ JobOK'
<1> DEFINE j == job[a]
<1>1. a \in Requests /\ j.pc = "write" /\ job' = [job EXCEPT ![a] = Idle]
  BY DEF Requests, Write
<1>2. Owns(a, j)
  BY <1>1, OwnsJob
<1>3. JobOK' /\ job' \in [Requests -> Job]
  BY <1>1, IdleFacts, JobStep
<1>4. faults' \in 0..MaxFaults
  BY FaultType DEF Write, StatementRuns, StatementFails, TypeOK
<1>5. orders' \in [Orders -> [placed : BOOLEAN, status : Statuses,
                             reserved : BOOLEAN, released : BOOLEAN]]
  <2>1. orders \in [Orders -> [placed : BOOLEAN, status : Statuses,
                             reserved : BOOLEAN, released : BOOLEAN]]
    BY DEF TypeOK
  <2>2. CASE UNCHANGED orders
    BY <2>1, <2>2
  <2>3. CASE orders' = [orders EXCEPT ![j.order] = Written(@, j.prev, j.want)]
    <3> DEFINE row == orders[j.order]
               new == Written(row, j.prev, j.want)
    <3>1. /\ row \in [placed : BOOLEAN, status : Statuses,
                      reserved : BOOLEAN, released : BOOLEAN]
          /\ j.want \in Statuses
          /\ j.prev.reserved \in BOOLEAN /\ j.prev.released \in BOOLEAN
      BY <1>2, <2>1 DEF Owns, Job, Seen
    <3>2. new \in [placed : BOOLEAN, status : Statuses,
                   reserved : BOOLEAN, released : BOOLEAN]
      BY <3>1, Zenon DEF Written, MustReserve, MustRelease
    <3> QED
      BY <2>1, <2>3, <3>2
  <2> QED
    BY <2>2, <2>3 DEF Write
<1> QED
  BY <1>3, <1>4, <1>5 DEF Write, TypeOK, catalogue

LEMMA DisconnectType ==
  ASSUME TypeOK, JobOK, NEW r \in Requests, Disconnect(r)
  PROVE  TypeOK' /\ JobOK'
<1>1. job[r].pc # "idle" /\ job' = [job EXCEPT ![r] = Cut(job[r])]
  BY DEF Disconnect, Running
<1>2. Owns(r, job[r]) /\ WellFormed(r, job[r])
  BY <1>1, OwnsJob
<1>3. WellFormed(r, Cut(job[r]))
  BY <1>2, CutFacts DEF WellFormed
<1>4. JobOK' /\ job' \in [Requests -> Job]
  BY <1>1, <1>3, JobStep
<1>5. faults' \in 0..MaxFaults
  BY FaultType DEF Disconnect
<1> QED
  BY <1>4, <1>5 DEF Disconnect, TypeOK, catalogue

LEMMA CrashType ==
  ASSUME TypeOK, JobOK, Crash
  PROVE  TypeOK' /\ JobOK'
<1>1. ASSUME NEW r \in Requests
      PROVE  WellFormed(r, job'[r])
  <2>1. CASE ~Running(r)
    BY <2>1 DEF Crash, JobOK
  <2>2. CASE Running(r) /\ r \in Admins
    BY <2>2, IdleFacts DEF Crash
  <2>3. CASE Running(r) /\ r \notin Admins
    <3>1. Owns(r, job[r]) /\ "lost" \in Steps
      BY <2>3, OwnsJob DEF Running, Steps
    <3>2. job'[r] = Goto(job[r], "lost")
      BY <2>3 DEF Crash
    <3>3. WellFormed(r, Goto(job[r], "lost"))
      BY <2>3, <3>1, GotoFacts DEF Owns, WellFormed, Requests
    <3> QED
      BY <3>2, <3>3
  <2> QED
    BY <2>1, <2>2, <2>3
<1>2. job' \in [Requests -> Job]
  <2>1. \A r \in Requests : job'[r] \in Job
    BY <1>1 DEF WellFormed
  <2> QED
    BY <2>1 DEF Crash
<1>3. faults' \in 0..MaxFaults
  BY FaultType DEF Crash
<1> QED
  BY <1>1, <1>2, <1>3 DEF Crash, JobOK, TypeOK, catalogue

LEMMA EditType ==
  ASSUME TypeOK, JobOK,
         (\E p \in Products : DeleteProduct(p)) \/ (\E v \in Variants : DropVariant(v))
  PROVE  TypeOK' /\ JobOK'
<1>1. edits' \in 0..MaxEdits
  BY OrderStockAssumption DEF TypeOK, DeleteProduct, DropVariant, Edit
<1>2. /\ products' \subseteq Products /\ rows' \subseteq Variants
      /\ UNCHANGED <<stock, orders, job, held, faults, patches>>
  BY DEF TypeOK, DeleteProduct, DropVariant
<1> QED
  BY <1>1, <1>2 DEF TypeOK, JobOK

LEMMA NextType == TypeOK /\ JobOK /\ [Next]_vars => TypeOK' /\ JobOK'
<1> SUFFICES ASSUME TypeOK, JobOK, [Next]_vars PROVE TypeOK' /\ JobOK'
  OBVIOUS
<1>1. ASSUME NEW r \in Requests, Step(r) PROVE TypeOK' /\ JobOK'
  BY <1>1, CheckLineType, PersistType, WriteType, ReserveType, ReleaseType DEF Step
<1>2. CASE UNCHANGED vars
  BY <1>2 DEF vars, TypeOK, JobOK
<1> QED
  BY <1>1, <1>2, BeginType, PatchType, DisconnectType, CrashType, EditType DEF Next

(* Whatever fails and however the requests interleave, every variable keeps its
   type: the stock of a variant never goes below zero, and no request loops past
   the lines of its order.                                                  *)
THEOREM TypeCorrect == Spec => [](TypeOK /\ JobOK)
<1>1. Init => TypeOK /\ JobOK
  BY InitCorrect
<1>2. TypeOK /\ JobOK /\ [Next]_vars => (TypeOK /\ JobOK)'
  BY NextType
<1> QED
  BY <1>1, <1>2, PTL DEF Spec

-------------------------------------------------------------------------------
(***************************************************************************)
(* The metadata of an order under PATCH requests that overwrite each       *)
(* other: stock_released is never set on an order that is not marked       *)
(* stock_reserved, for every interleaving, fault and catalogue.            *)
(*                                                                         *)
(* ReleasedImpliesReserved speaks of the rows, and what is written to a    *)
(* row comes from what a request read a while ago: the invariant holds the *)
(* readings to the same.                                                   *)
(***************************************************************************)
Paired(flags) == flags.released => flags.reserved
PairedReadings == \A r \in Requests : Paired(job[r].prev)

-------------------------------------------------------------------------------
(* A request that goes on keeps its reading, one that ends forgets it. *)
Keeps(j, k) == k.prev \in {j.prev, NothingSeen}

LEMMA IdleForgets == Idle.prev = NothingSeen
  BY DEF Idle, Checkout, Started

LEMMA FailedKeeps ==
  ASSUME NEW r, NEW j \in Job
  PROVE  Keeps(j, Failed(r, j))
<1>1. "failed" \in Steps
  BY DEF Steps
<1>2. Goto(j, "failed").prev = j.prev
  BY <1>1, GotoFacts
<1> QED
  BY <1>2, IdleForgets DEF Failed, Keeps

LEMMA UndoKeeps ==
  ASSUME NEW r, NEW j \in Job, NEW n \in Nat
  PROVE  Keeps(j, Undo(r, j, n))
<1>1. "rollback" \in Steps /\ 1 \in Nat
  BY DEF Steps
<1>2. Move(j, "rollback", 1, n).prev = j.prev
  BY <1>1, MoveFacts
<1> QED
  BY <1>2, FailedKeeps DEF Undo, Keeps

LEMMA AfterReserveKeeps ==
  ASSUME NEW r, NEW j \in Job
  PROVE  Keeps(j, AfterReserve(r, j))
<1>1. "write" \in Steps /\ "persist" \in Steps
  BY DEF Steps
<1>2. /\ Goto(j, "write").prev = j.prev /\ Goto(j, "persist").prev = j.prev
      /\ Advance(j).prev = j.prev
  BY <1>1, GotoFacts, AdvanceFacts
<1> QED
  BY <1>2 DEF AfterReserve, Reserved, Keeps

LEMMA AfterReleaseKeeps ==
  ASSUME NEW r, NEW j \in Job
  PROVE  Keeps(j, AfterRelease(r, j))
<1>1. "write" \in Steps
  BY DEF Steps
<1>2. Goto(j, "write").prev = j.prev /\ Advance(j).prev = j.prev
  BY <1>1, GotoFacts, AdvanceFacts
<1> QED
  BY <1>2, FailedKeeps DEF AfterRelease, Keeps

(* One request steps to the job k. *)
LEMMA KeptReadings ==
  ASSUME TypeOK, PairedReadings, NEW r \in Requests, NEW k, Keeps(job[r], k),
         job' = [job EXCEPT ![r] = k]
  PROVE  PairedReadings'
<1>1. Paired(NothingSeen)
  BY DEF Paired, NothingSeen
<1>2. Paired(k.prev)
  BY <1>1 DEF PairedReadings, Keeps
<1> QED
  BY <1>2 DEF PairedReadings, TypeOK

LEMMA SameRows ==
  ASSUME ReleasedImpliesReserved, orders' = orders
  PROVE  ReleasedImpliesReserved'
  BY DEF ReleasedImpliesReserved

-------------------------------------------------------------------------------
LEMMA ReserveKeeps ==
  ASSUME TypeOK, JobOK, NEW r \in Requests, Reserve(r)
  PROVE  \E k : Keeps(job[r], k) /\ job' = [job EXCEPT ![r] = k]
<1> DEFINE j == job[r]
           n == j.at - 1
<1>1. j \in Job /\ j.order \in Orders /\ j.at \in LinesOf(j.order)
  BY DEF TypeOK, JobOK, WellFormed, Reserve
<1>2. n \in Nat
  BY <1>1, LineFacts
<1>3. Erred(j) \in Job /\ Erred(j).prev = j.prev
  BY <1>1, ErredFacts
<1>4. /\ Keeps(j, Failed(r, j)) /\ Keeps(j, AfterReserve(r, j))
      /\ Keeps(j, Undo(r, j, n)) /\ Keeps(j, Undo(r, Erred(j), n))
  BY <1>1, <1>2, <1>3, FailedKeeps, AfterReserveKeeps, UndoKeeps DEF Keeps
<1>5. \/ job' = [job EXCEPT ![r] = Failed(r, j)]
      \/ job' = [job EXCEPT ![r] = AfterReserve(r, j)]
      \/ job' = [job EXCEPT ![r] = Undo(r, Erred(j), n)]
      \/ job' = [job EXCEPT ![r] = Undo(r, j, n)]
  BY DEF Reserve
<1> HIDE DEF j, n
<1>6. j = job[r]
  BY DEF j
<1> QED
  BY <1>4, <1>5, <1>6

LEMMA ReleaseKeeps ==
  ASSUME TypeOK, JobOK, NEW r \in Requests, Release(r)
  PROVE  \E k : Keeps(job[r], k) /\ job' = [job EXCEPT ![r] = k]
<1> DEFINE j == job[r]
<1>1. j \in Job
  BY DEF TypeOK
<1>2. Erred(j) \in Job /\ Erred(j).prev = j.prev
  BY <1>1, ErredFacts
<1>3. Keeps(j, AfterRelease(r, j)) /\ Keeps(j, AfterRelease(r, Erred(j)))
  BY <1>1, <1>2, AfterReleaseKeeps DEF Keeps
<1>4. \/ job' = [job EXCEPT ![r] = AfterRelease(r, j)]
      \/ job' = [job EXCEPT ![r] = AfterRelease(r, Erred(j))]
  BY DEF Release
<1> HIDE DEF j
<1>5. j = job[r]
  BY DEF j
<1> QED
  BY <1>3, <1>4, <1>5

LEMMA CheckoutKeeps ==
  ASSUME TypeOK, JobOK, NEW o \in Orders, Begin(o) \/ CheckLine(o) \/ Persist(o)
  PROVE  \E k : Keeps(job[o], k) /\ job' = [job EXCEPT ![o] = k]
<1> DEFINE j == job[o]
           n == Len(Lines[o])
<1>1. /\ j \in Job /\ j.upto \in Nat /\ 1 \in Nat
      /\ "check" \in Steps /\ "done" \in Steps /\ "reserve" \in Steps
  BY DEF TypeOK, Steps, Requests, Job
<1>2. n \in Nat
  BY LineFacts
<1>3. /\ Keeps(j, Goto(j, "check")) /\ Keeps(j, Goto(j, "done")) /\ Keeps(j, Advance(j))
      /\ Keeps(j, Move(j, "reserve", 1, j.upto))
  <2> HIDE DEF j
  <2>1. Goto(j, "check").prev = j.prev /\ Goto(j, "done").prev = j.prev
    BY <1>1, GotoFacts
  <2>2. Advance(j).prev = j.prev
    BY <1>1, AdvanceFacts
  <2>3. \A m \in Nat : Move(j, "reserve", 1, m).prev = j.prev
    BY <1>1, MoveFacts
  <2> QED
    BY <1>1, <2>1, <2>2, <2>3 DEF Keeps
<1>4. Keeps(j, Failed(o, j)) /\ Keeps(j, Undo(o, j, n))
  BY <1>1, <1>2, FailedKeeps, UndoKeeps
<1>5. \/ job' = [job EXCEPT ![o] = Goto(j, "check")]
      \/ job' = [job EXCEPT ![o] = Goto(j, "done")]
      \/ job' = [job EXCEPT ![o] = Advance(j)]
      \/ job' = [job EXCEPT ![o] = Move(j, "reserve", 1, j.upto)]
      \/ job' = [job EXCEPT ![o] = Failed(o, j)]
      \/ job' = [job EXCEPT ![o] = Undo(o, j, n)]
  <2>1. CASE Begin(o)
    BY <2>1 DEF Begin
  <2>2. CASE CheckLine(o)
    BY <2>2 DEF CheckLine
  <2>3. CASE Persist(o)
    BY <2>3 DEF Persist
  <2> QED
    BY <2>1, <2>2, <2>3
<1> HIDE DEF j, n
<1>6. j = job[o]
  BY DEF j
<1> QED
  BY <1>3, <1>4, <1>5, <1>6

(* The INSERT of a checkout sets stock_reserved and leaves the other flag. *)
LEMMA PersistRows ==
  ASSUME TypeOK, ReleasedImpliesReserved, NEW o \in Orders, Persist(o)
  PROVE  ReleasedImpliesReserved'
<1>1. \/ orders' = orders
      \/ orders' = [orders EXCEPT ![o].placed = TRUE, ![o].reserved = TRUE]
  BY DEF Persist
<1>2. CASE orders' = [orders EXCEPT ![o].placed = TRUE, ![o].reserved = TRUE]
  <2>1. orders'[o].reserved = TRUE /\ \A q \in Orders : q # o => orders'[q] = orders[q]
    BY <1>2 DEF TypeOK
  <2> QED
    BY <2>1 DEF ReleasedImpliesReserved
<1> QED
  BY <1>1, <1>2, SameRows

(* A PATCH reads a row as it is. *)
LEMMA PatchPaired ==
  ASSUME TypeOK, PairedReadings, ReleasedImpliesReserved,
         NEW a \in Admins, NEW o \in Orders, NEW want \in Statuses, Patch(a, o, want)
  PROVE  PairedReadings'
<1>1. PICK pc, gone :
        job' = [job EXCEPT ![a] =
                  Started(pc, o, Len(Lines[o]), want,
                          [status |-> orders[o].status, reserved |-> orders[o].reserved,
                           released |-> orders[o].released, gone |-> gone])]
  BY DEF Patch
<1> DEFINE prev == [status |-> orders[o].status, reserved |-> orders[o].reserved,
                    released |-> orders[o].released, gone |-> gone]
           k == Started(pc, o, Len(Lines[o]), want, prev)
<1>2. Paired(prev)
  BY DEF Paired, ReleasedImpliesReserved
<1> HIDE DEF prev
<1>3. k.prev = prev
  BY DEF Started
<1>4. job' = [job EXCEPT ![a] = k]
  BY <1>1 DEF prev
<1> HIDE DEF k
<1> QED
  BY <1>2, <1>3, <1>4 DEF PairedReadings, TypeOK, Requests

(* What Write writes: either the flags stay, or both come from the reading, and
   stock_released is only set where the reading had stock_reserved.          *)
LEMMA WriteRows ==
  ASSUME TypeOK, PairedReadings, ReleasedImpliesReserved, JobOK, NEW a \in Admins, Write(a)
  PROVE  ReleasedImpliesReserved'
<1> DEFINE j == job[a]
           row == orders[j.order]
           w == Written(row, j.prev, j.want)
<1>1. j.order \in Orders /\ Paired(j.prev) /\ Paired(row)
  BY DEF Write, JobOK, WellFormed, PairedReadings, ReleasedImpliesReserved, Paired, Requests
<1>2. row \in [placed : BOOLEAN, status : Statuses, reserved : BOOLEAN, released : BOOLEAN]
  BY <1>1 DEF TypeOK
<1>3. /\ w.reserved = IF MustReserve(j.prev, j.want) \/ MustRelease(j.prev, j.want)
                      THEN MustReserve(j.prev, j.want) \/ j.prev.reserved ELSE row.reserved
      /\ w.released = IF MustReserve(j.prev, j.want) \/ MustRelease(j.prev, j.want)
                      THEN MustRelease(j.prev, j.want) \/ j.prev.released ELSE row.released
  BY <1>2 DEF Written
<1>4. MustRelease(j.prev, j.want) => j.prev.reserved
  BY DEF MustRelease
<1>5. Paired(w)
  BY <1>1, <1>3, <1>4, Zenon DEF Paired
<1>6. orders' = orders \/ orders' = [orders EXCEPT ![j.order] = w]
  BY DEF Write
<1> HIDE DEF w, j
<1> QED
  BY <1>1, <1>5, <1>6 DEF ReleasedImpliesReserved, TypeOK, Paired

LEMMA CrashKeeps ==
  ASSUME TypeOK, PairedReadings, Crash
  PROVE  PairedReadings'
<1>1. ASSUME NEW r \in Requests PROVE Paired(job'[r].prev)
  <2>1. job[r] \in Job /\ "lost" \in Steps
    BY DEF TypeOK, Steps
  <2>2. Goto(job[r], "lost").prev = job[r].prev
    BY <2>1, GotoFacts
  <2>3. job'[r] = job[r] \/ job'[r] = Idle \/ job'[r] = Goto(job[r], "lost")
    BY DEF Crash
  <2>4. Paired(job[r].prev) /\ Paired(NothingSeen)
    BY DEF PairedReadings, Paired, NothingSeen
  <2> QED
    BY <2>2, <2>3, <2>4, IdleForgets
<1> QED
  BY <1>1 DEF PairedReadings

-------------------------------------------------------------------------------
LEMMA PairedInit == Init => PairedReadings /\ ReleasedImpliesReserved
<1> SUFFICES ASSUME Init PROVE PairedReadings /\ ReleasedImpliesReserved
  OBVIOUS
<1>1. ReleasedImpliesReserved
  BY DEF Init, ReleasedImpliesReserved
<1>2. \A r \in Requests : job[r].prev = NothingSeen
  BY IdleForgets DEF Init, Checkout, Started
<1> QED
  BY <1>1, <1>2 DEF PairedReadings, Paired, NothingSeen

LEMMA PairedNext ==
  TypeOK /\ JobOK /\ PairedReadings /\ ReleasedImpliesReserved /\ [Next]_vars
    => PairedReadings' /\ ReleasedImpliesReserved'
<1> SUFFICES ASSUME TypeOK, JobOK, PairedReadings, ReleasedImpliesReserved, [Next]_vars
             PROVE  PairedReadings' /\ ReleasedImpliesReserved'
  OBVIOUS
<1> DEFINE Kept(r) == \E k : Keeps(job[r], k) /\ job' = [job EXCEPT ![r] = k]
<1>1. ASSUME NEW r \in Requests, Kept(r) PROVE PairedReadings'
  BY <1>1, KeptReadings
<1> HIDE DEF Kept
<1>2. ASSUME NEW o \in Orders, Begin(o) \/ CheckLine(o)
      PROVE  PairedReadings' /\ ReleasedImpliesReserved'
  <2>1. Kept(o) /\ orders' = orders
    BY <1>2, CheckoutKeeps DEF Kept, Begin, CheckLine
  <2> QED
    BY <1>1, <2>1, SameRows DEF Requests
<1>3. ASSUME NEW o \in Orders, Persist(o) PROVE PairedReadings' /\ ReleasedImpliesReserved'
  <2>1. Kept(o)
    BY <1>3, CheckoutKeeps, Zenon DEF Kept
  <2> QED
    BY <1>1, <1>3, <2>1, PersistRows DEF Requests
<1>4. ASSUME NEW r \in Requests, Reserve(r) \/ Release(r)
      PROVE  PairedReadings' /\ ReleasedImpliesReserved'
  <2>1. Kept(r) /\ orders' = orders
    BY <1>4, ReserveKeeps, ReleaseKeeps DEF Kept, Reserve, Release
  <2> QED
    BY <1>1, <2>1, SameRows, SMTT(60)
<1>5. ASSUME NEW a \in Admins, Write(a) PROVE PairedReadings' /\ ReleasedImpliesReserved'
  <2>1. Keeps(job[a], Idle) /\ job' = [job EXCEPT ![a] = Idle]
    BY <1>5, IdleForgets DEF Write, Keeps
  <2>2. Kept(a)
    BY <2>1, Zenon DEF Kept
  <2> QED
    BY <1>1, <1>5, <2>2, WriteRows DEF Requests
<1>6. ASSUME NEW a \in Admins, NEW o \in Orders, NEW want \in Statuses, Patch(a, o, want)
      PROVE  PairedReadings' /\ ReleasedImpliesReserved'
  BY <1>6, PatchPaired, SameRows DEF Patch
<1>7. ASSUME NEW r \in Requests, Disconnect(r)
      PROVE  PairedReadings' /\ ReleasedImpliesReserved'
  <2>1. job[r] \in Job
    BY DEF TypeOK
  <2>2. Keeps(job[r], Cut(job[r])) /\ job' = [job EXCEPT ![r] = Cut(job[r])]
    BY <1>7, <2>1, CutFacts DEF Disconnect, Keeps
  <2>3. Kept(r)
    BY <2>2, Zenon DEF Kept
  <2> QED
    BY <1>1, <1>7, <2>3, SameRows DEF Disconnect
<1>8. CASE Crash
  BY <1>8, CrashKeeps, SameRows DEF Crash
<1>9. CASE (\E p \in Products : DeleteProduct(p)) \/ (\E v \in Variants : DropVariant(v))
           \/ UNCHANGED vars
  <2>1. job' = job /\ orders' = orders
    BY <1>9 DEF DeleteProduct, DropVariant, vars
  <2> QED
    BY <2>1, SameRows DEF PairedReadings
<1> QED
  BY <1>2, <1>3, <1>4, <1>5, <1>6, <1>7, <1>8, <1>9 DEF Next, Step

(* UpdateStatus (order_service.go) writes both flags from the order it read; so
   however the PATCH requests overwrite each other, an order marked released is
   marked reserved.                                                         *)
THEOREM ReleasedCorrect == Spec => []ReleasedImpliesReserved
<1>1. TypeOK /\ JobOK /\ PairedReadings /\ ReleasedImpliesReserved /\ [Next]_vars
        => (PairedReadings /\ ReleasedImpliesReserved)'
  BY PairedNext
<1> QED
  BY <1>1, PairedInit, TypeCorrect, PTL DEF Spec

-------------------------------------------------------------------------------
(***************************************************************************)
(* A checkout inserts its order only with every line taken, and undoes     *)
(* exactly what it took when it fails: for every fault, every cart and     *)
(* every interleaving with other checkouts, administrators and edits.      *)
(***************************************************************************)
(* The lines a checkout has taken and not put back, read off its program counter. *)
HoldsLine(j, i) ==
  \/ j.pc = "reserve" /\ i < j.at
  \/ j.pc = "persist"
  \/ j.pc = "rollback" /\ j.at <= i /\ i <= j.upto

Balanced(o, j, h) == \A i \in LinesOf(o) : h[i] = IF HoldsLine(j, i) THEN 1 ELSE 0

Before == {"new", "check", "reserve", "persist"}

(* RollbackComplete says what is true when a checkout ends.  To be inductive it
   has to say what is true at every line of every loop, that nobody else moves
   the lines of an order that is not in the table yet, and that a checkout goes
   on to its INSERT only without an error.                                  *)
CheckoutOK(o) ==
  /\ job[o].pc \in Before => ~orders[o].placed /\ ~job[o].err
  /\ job[o].pc \in Before \cup {"rollback", "failed"}
       /\ ~orders[o].placed /\ ~job[o].err => Balanced(o, job[o], held[o])
AdminOK(a) == job[a].pc # "idle" => orders[job[a].order].placed
CheckoutInv == (\A o \in Orders : CheckoutOK(o)) /\ (\A a \in Admins : AdminOK(a))

-------------------------------------------------------------------------------
LEMMA OrdersDisjoint ==
  /\ \A o \in Orders : o \notin Admins /\ o \in Requests
  /\ \A a \in Admins : a \notin Orders /\ a \in Requests
  BY OrderStockAssumption DEF Requests

(* A checkout steps to the job k: the others see nothing of it. *)
LEMMA CheckoutStep ==
  ASSUME TypeOK, JobOK, CheckoutInv, NEW o \in Orders, NEW k,
         job' = [job EXCEPT ![o] = k],
         \A q \in Orders : q # o => held'[q] = held[q] /\ orders'[q] = orders[q],
         orders[o].placed => orders'[o].placed,
         k.pc \in Before => ~orders'[o].placed /\ ~k.err,
         k.pc \in Before \cup {"rollback", "failed"} /\ ~orders'[o].placed /\ ~k.err
           => Balanced(o, k, held'[o])
  PROVE  CheckoutInv'
<1>1. /\ job'[o] = k
      /\ \A r \in Requests : r # o => job'[r] = job[r]
  BY OrdersDisjoint DEF TypeOK
<1>2. CheckoutOK(o)'
  BY <1>1 DEF CheckoutOK
<1>3. ASSUME NEW q \in Orders, q # o PROVE CheckoutOK(q)'
  BY <1>1, <1>3, OrdersDisjoint DEF CheckoutInv, CheckoutOK
<1>4. ASSUME NEW a \in Admins PROVE AdminOK(a)'
  <2>1. job'[a] = job[a]
    BY <1>1, OrdersDisjoint
  <2>2. job[a].pc # "idle" => job[a].order \in Orders
    BY OrdersDisjoint DEF JobOK, WellFormed
  <2> QED
    BY <2>1, <2>2 DEF CheckoutInv, AdminOK
<1> QED
  BY <1>2, <1>3, <1>4 DEF CheckoutInv

(* An administrator steps to the job k: he touches only orders of the table*)
LEMMA AdminStep ==
  ASSUME TypeOK, JobOK, CheckoutInv, NEW a \in Admins, NEW k,
         job' = [job EXCEPT ![a] = k],
         \A o \in Orders : orders'[o].placed = orders[o].placed,
         \A o \in Orders : ~orders[o].placed => held'[o] = held[o],
         k.pc # "idle" => k.order \in Orders /\ orders[k.order].placed
  PROVE  CheckoutInv'
<1>1. /\ job'[a] = k
      /\ \A r \in Requests : r # a => job'[r] = job[r]
  BY OrdersDisjoint DEF TypeOK
<1>2. ASSUME NEW o \in Orders PROVE CheckoutOK(o)'
  <2>1. job'[o] = job[o]
    BY <1>1, OrdersDisjoint
  <2> QED
    BY <2>1 DEF CheckoutInv, CheckoutOK
<1>3. ASSUME NEW b \in Admins PROVE AdminOK(b)'
  <2>1. CASE b = a
    BY <1>1, <2>1 DEF AdminOK
  <2>2. CASE b # a
    <3>1. job'[b] = job[b]
      BY <1>1, <2>2, OrdersDisjoint
    <3>2. job[b].pc # "idle" => job[b].order \in Orders
      BY OrdersDisjoint DEF JobOK, WellFormed
    <3> QED
      BY <3>1, <3>2 DEF CheckoutInv, AdminOK
  <2> QED
    BY <2>1, <2>2
<1> QED
  BY <1>2, <1>3 DEF CheckoutInv

-------------------------------------------------------------------------------
(* What the helpers of the loops make of a checkout                        *)

LEMMA CheckoutFailed ==
  ASSUME NEW o \in Orders, NEW j \in Job
  PROVE  Failed(o, j).pc = "failed" /\ (Failed(o, j).err <=> j.err)
<1>1. "failed" \in Steps /\ o \notin Admins
  BY OrdersDisjoint DEF Steps
<1> QED
  BY <1>1, GotoFacts DEF Failed

LEMMA CheckoutUndo ==
  ASSUME NEW o \in Orders, NEW j \in Job, NEW n \in Nat
  PROVE  LET k == Undo(o, j, n) IN
         /\ k.pc \in {"rollback", "failed"}
         /\ k.err <=> j.err
         /\ \A i \in Nat \ {0} : HoldsLine(k, i) <=> i <= n
<1>1. CASE n = 0
  BY <1>1, CheckoutFailed DEF Undo, HoldsLine
<1>2. CASE n # 0
  <2> DEFINE k == Move(j, "rollback", 1, n)
  <2>1. "rollback" \in Steps /\ 1 \in Nat
    BY DEF Steps
  <2>2. k.pc = "rollback" /\ k.at = 1 /\ k.upto = n
    BY <2>1, MoveFacts
  <2>3. k.err <=> j.err
    BY <2>1, MoveFacts
  <2>4. Undo(o, j, n) = k
    BY <1>2 DEF Undo
  <2> HIDE DEF k
  <2>5. \A i \in Nat \ {0} : HoldsLine(k, i) <=> i <= n
    BY <2>2 DEF HoldsLine
  <2> QED
    BY <2>2, <2>3, <2>4, <2>5
<1> QED
  BY <1>1, <1>2

LEMMA CheckoutAfterReserve ==
  ASSUME NEW o \in Orders, NEW j \in Job, j.pc = "reserve", j.order = o,
         j.at \in LinesOf(o)
  PROVE  LET k == AfterReserve(o, j) IN
         /\ k.pc \in {"reserve", "persist"}
         /\ k.err <=> j.err
         /\ \A i \in LinesOf(o) : HoldsLine(k, i) <=> i <= j.at
<1>1. LinesOf(o) = 1..Len(Lines[o]) /\ Len(Lines[o]) \in Nat /\ o \notin Admins
  BY LineFacts, OrdersDisjoint
<1>2. CASE j.at = Len(Lines[o])
  <2> DEFINE k == Goto(j, "persist")
  <2>1. "persist" \in Steps
    BY DEF Steps
  <2>2. k.pc = "persist" /\ (k.err <=> j.err)
    BY <2>1, GotoFacts
  <2>3. AfterReserve(o, j) = k
    BY <1>1, <1>2 DEF AfterReserve, Reserved
  <2> HIDE DEF k
  <2>4. \A i \in LinesOf(o) : HoldsLine(k, i) <=> i <= j.at
    BY <1>1, <1>2, <2>2 DEF HoldsLine
  <2> QED
    BY <2>2, <2>3, <2>4
<1>3. CASE j.at # Len(Lines[o])
  <2> DEFINE k == Advance(j)
  <2>1. k.pc = "reserve" /\ k.at = j.at + 1
    BY AdvanceFacts
  <2>2. k.err <=> j.err
    BY AdvanceFacts
  <2>3. AfterReserve(o, j) = k
    BY <1>3 DEF AfterReserve
  <2> HIDE DEF k
  <2>4. \A i \in LinesOf(o) : HoldsLine(k, i) <=> i <= j.at
    BY <1>1, <2>1 DEF HoldsLine
  <2> QED
    BY <2>1, <2>2, <2>3, <2>4
<1> QED
  BY <1>2, <1>3

LEMMA CheckoutAfterRelease ==
  ASSUME NEW o \in Orders, NEW j \in Job, j.pc = "rollback", j.order = o,
         j.at \in 1..j.upto, j.upto \in LinesOf(o)
  PROVE  LET k == AfterRelease(o, j) IN
         /\ k.pc \in {"rollback", "failed"}
         /\ k.err <=> j.err
         /\ \A i \in LinesOf(o) : HoldsLine(k, i) <=> j.at < i /\ i <= j.upto
<1>1. LinesOf(o) = 1..Len(Lines[o]) /\ Len(Lines[o]) \in Nat
  BY LineFacts
<1>2. CASE j.at < j.upto
  <2> DEFINE k == Advance(j)
  <2>1. k.pc = "rollback" /\ k.at = j.at + 1 /\ k.upto = j.upto
    BY AdvanceFacts
  <2>2. k.err <=> j.err
    BY AdvanceFacts
  <2>3. AfterRelease(o, j) = k
    BY <1>2 DEF AfterRelease
  <2> HIDE DEF k
  <2>4. \A i \in LinesOf(o) : HoldsLine(k, i) <=> j.at < i /\ i <= j.upto
    BY <1>1, <2>1 DEF HoldsLine
  <2> QED
    BY <2>1, <2>2, <2>3, <2>4
<1>3. CASE ~(j.at < j.upto)
  <2> DEFINE k == Failed(o, j)
  <2>1. k.pc = "failed" /\ (k.err <=> j.err)
    BY CheckoutFailed
  <2>2. AfterRelease(o, j) = k
    BY <1>3 DEF AfterRelease
  <2> HIDE DEF k
  <2>3. \A i \in LinesOf(o) : HoldsLine(k, i) <=> j.at < i /\ i <= j.upto
    BY <1>1, <1>3, <2>1 DEF HoldsLine
  <2> QED
    BY <2>1, <2>2, <2>3
<1> QED
  BY <1>2, <1>3

-------------------------------------------------------------------------------
(* The statements of a checkout                                            *)

LEMMA CheckoutJob ==
  ASSUME TypeOK, JobOK, NEW o \in Orders
  PROVE  /\ job[o] \in Job /\ job[o].order = o /\ job[o].prev = NothingSeen
         /\ held[o] \in [LinesOf(o) -> Int]
         /\ job[o].pc \in {"check", "reserve", "rollback"} => job[o].at \in LinesOf(o)
         /\ job[o].pc = "rollback" => /\ job[o].at \in 1..job[o].upto
                                      /\ job[o].upto \in LinesOf(o)
  BY OrdersDisjoint, LineFacts DEF TypeOK, JobOK, WellFormed

LEMMA BeginInv ==
  ASSUME TypeOK, JobOK, CheckoutInv, NEW o \in Orders, Begin(o)
  PROVE  CheckoutInv'
<1> DEFINE k == Goto(job[o], "check")
<1>1. job[o] \in Job /\ "check" \in Steps /\ job[o].pc = "new"
  BY CheckoutJob DEF Steps, Begin
<1>2. k.pc = "check" /\ (k.err <=> job[o].err)
  BY <1>1, GotoFacts
<1>3. job' = [job EXCEPT ![o] = k] /\ UNCHANGED <<orders, held>>
  BY DEF Begin
<1> HIDE DEF k
<1>4. ~orders[o].placed /\ ~job[o].err /\ Balanced(o, job[o], held[o])
  BY <1>1 DEF CheckoutInv, CheckoutOK, Before
<1>5. Balanced(o, k, held'[o])
  BY <1>1, <1>2, <1>3, <1>4 DEF Balanced, HoldsLine
<1> QED
  BY <1>2, <1>3, <1>4, <1>5, CheckoutStep

LEMMA CheckLineInv ==
  ASSUME TypeOK, JobOK, CheckoutInv, NEW o \in Orders, CheckLine(o)
  PROVE  CheckoutInv'
<1> DEFINE j == job[o]
<1>1. /\ j \in Job /\ j.pc = "check" /\ j.upto \in Nat /\ "reserve" \in Steps /\ 1 \in Nat
  BY CheckoutJob DEF Steps, CheckLine, Job
<1>2. PICK k : /\ job' = [job EXCEPT ![o] = k]
               /\ \/ k = Move(j, "reserve", 1, j.upto)
                  \/ k = Advance(j)
                  \/ k = Failed(o, j)
  BY DEF CheckLine
<1>3. /\ k.pc \in {"reserve", "check", "failed"} /\ (k.pc = "reserve" => k.at = 1)
      /\ k.err <=> j.err
  <2>1. CASE k = Move(j, "reserve", 1, j.upto)
    <3>1. k.pc = "reserve" /\ k.at = 1
      BY <1>1, <2>1, MoveFacts
    <3>2. k.err <=> j.err
      BY <1>1, <2>1, MoveFacts, SMTT(60)
    <3> QED
      BY <3>1, <3>2
  <2>2. CASE k = Advance(j)
    <3>1. k.pc = "check"
      BY <1>1, <2>2, AdvanceFacts
    <3> QED
      BY <1>1, <2>2, <3>1, AdvanceFacts
  <2>3. CASE k = Failed(o, j)
    BY <1>1, <2>3, CheckoutFailed
  <2> QED
    BY <1>2, <2>1, <2>2, <2>3
<1>4. ~orders[o].placed /\ ~j.err /\ Balanced(o, j, held[o])
  BY <1>1 DEF CheckoutInv, CheckoutOK, Before
<1>5. UNCHANGED <<orders, held>>
  BY DEF CheckLine
<1>6. Balanced(o, k, held'[o])
  BY <1>1, <1>3, <1>4, <1>5, LineFacts DEF Balanced, HoldsLine
<1> QED
  BY <1>2, <1>3, <1>4, <1>5, <1>6, CheckoutStep

LEMMA ReserveInv ==
  ASSUME TypeOK, JobOK, CheckoutInv, NEW o \in Orders, Reserve(o)
  PROVE  CheckoutInv'
<1> DEFINE j == job[o]
           i == j.at
<1>1. /\ j \in Job /\ j.pc = "reserve" /\ j.order = o /\ i \in LinesOf(o)
      /\ j.prev.gone = {} /\ held[o] \in [LinesOf(o) -> Int]
      /\ i \in Nat /\ i - 1 \in Nat
  BY CheckoutJob, LineFacts DEF Reserve, NothingSeen
<1>2. ~orders[o].placed /\ ~j.err /\ Balanced(o, j, held[o]) /\ UNCHANGED orders
  BY <1>1 DEF CheckoutInv, CheckoutOK, Before, Reserve
<1>3. CASE Hold(o, i, 1) /\ job' = [job EXCEPT ![o] = AfterReserve(o, j)]
  <2> DEFINE k == AfterReserve(o, j)
  <2>1. /\ k.pc \in {"reserve", "persist"} /\ (k.err <=> j.err)
        /\ \A n \in LinesOf(o) : HoldsLine(k, n) <=> n <= i
    BY <1>1, CheckoutAfterReserve
  <2>2. /\ \A q \in Orders : q # o => held'[q] = held[q]
        /\ held'[o][i] = held[o][i] + 1
        /\ \A n \in LinesOf(o) : n # i => held'[o][n] = held[o][n]
    BY <1>1, <1>3, HoldType
  <2> HIDE DEF k
  <2>3. Balanced(o, k, held'[o])
    BY <1>1, <1>2, <2>1, <2>2, LineFacts, SMTT(60) DEF Balanced, HoldsLine
  <2>4. job' = [job EXCEPT ![o] = k]
    BY <1>3 DEF k
  <2> QED
    BY <1>2, <2>1, <2>2, <2>3, <2>4, CheckoutStep
<1>4. CASE Hold(o, i, 1) /\ job' = [job EXCEPT ![o] = Undo(o, Erred(j), i - 1)]
  <2> DEFINE k == Undo(o, Erred(j), i - 1)
  <2>1. Erred(j) \in Job /\ Erred(j).err
    BY <1>1, ErredFacts
  <2>2. k.pc \in {"rollback", "failed"} /\ k.err
    BY <1>1, <2>1, CheckoutUndo
  <2>3. \A q \in Orders : q # o => held'[q] = held[q]
    BY <1>1, <1>4, HoldType
  <2> HIDE DEF k
  <2>4. job' = [job EXCEPT ![o] = k]
    BY <1>4 DEF k
  <2> QED
    BY <1>2, <2>2, <2>3, <2>4, CheckoutStep DEF Before
<1>5. CASE UNCHANGED held /\ job' = [job EXCEPT ![o] = Undo(o, j, i - 1)]
  <2> DEFINE k == Undo(o, j, i - 1)
  <2>1. /\ k.pc \in {"rollback", "failed"} /\ (k.err <=> j.err)
        /\ \A n \in Nat \ {0} : HoldsLine(k, n) <=> n <= i - 1
    BY <1>1, CheckoutUndo
  <2> HIDE DEF k
  <2>2. Balanced(o, k, held'[o])
    BY <1>1, <1>2, <1>5, <2>1, LineFacts DEF Balanced, HoldsLine
  <2>3. job' = [job EXCEPT ![o] = k]
    BY <1>5 DEF k
  <2> QED
    BY <1>2, <1>5, <2>1, <2>2, <2>3, CheckoutStep DEF Before
<1> QED
  BY <1>1, <1>3, <1>4, <1>5, SMTT(60) DEF Reserve

LEMMA ReleaseInv ==
  ASSUME TypeOK, JobOK, CheckoutInv, NEW o \in Orders, Release(o)
  PROVE  CheckoutInv'
<1> DEFINE j == job[o]
           i == j.at
<1>1. /\ j \in Job /\ j.pc = "rollback" /\ j.order = o /\ i \in LinesOf(o)
      /\ i \in 1..j.upto /\ j.upto \in LinesOf(o)
      /\ j.prev.gone = {} /\ held[o] \in [LinesOf(o) -> Int]
  <2>1. j.pc \in {"rollback", "release"} /\ j.pc \notin {"idle", "release", "write"}
    BY OrdersDisjoint DEF Release, JobOK, WellFormed
  <2> QED
    BY <2>1, CheckoutJob, LineFacts DEF NothingSeen
<1>2. /\ ~orders[o].placed /\ ~j.err => Balanced(o, j, held[o])
      /\ UNCHANGED orders
  BY <1>1 DEF CheckoutInv, CheckoutOK, Release
<1>3. CASE Hold(o, i, -1) /\ job' = [job EXCEPT ![o] = AfterRelease(o, j)]
  <2> DEFINE k == AfterRelease(o, j)
  <2>1. /\ k.pc \in {"rollback", "failed"} /\ (k.err <=> j.err)
        /\ \A n \in LinesOf(o) : HoldsLine(k, n) <=> i < n /\ n <= j.upto
    BY <1>1, CheckoutAfterRelease
  <2>2. /\ \A q \in Orders : q # o => held'[q] = held[q]
        /\ held'[o][i] = held[o][i] - 1
        /\ \A n \in LinesOf(o) : n # i => held'[o][n] = held[o][n]
    BY <1>1, <1>3, HoldType
  <2> HIDE DEF k
  <2>3. Balanced(o, j, held[o]) => Balanced(o, k, held'[o])
    BY <1>1, <2>1, <2>2, LineFacts, SMTT(60) DEF Balanced, HoldsLine
  <2>4. job' = [job EXCEPT ![o] = k]
    BY <1>3 DEF k
  <2> QED
    BY <1>2, <2>1, <2>2, <2>3, <2>4, CheckoutStep DEF Before
<1>4. CASE /\ Hold(o, i, -1) \/ UNCHANGED held
           /\ job' = [job EXCEPT ![o] = AfterRelease(o, Erred(j))]
  <2> DEFINE e == Erred(j)
             k == AfterRelease(o, e)
  <2>1. /\ e \in Job /\ e.err /\ e.pc = "rollback" /\ e.order = o
        /\ e.at \in 1..e.upto /\ e.upto \in LinesOf(o)
    BY <1>1, ErredFacts
  <2> HIDE DEF e
  <2>2. k.pc \in {"rollback", "failed"} /\ k.err
    BY <2>1, CheckoutAfterRelease
  <2>3. \A q \in Orders : q # o => held'[q] = held[q]
    BY <1>1, <1>4, HoldType
  <2> HIDE DEF k
  <2>4. job' = [job EXCEPT ![o] = k]
    BY <1>4 DEF k, e
  <2> QED
    BY <1>2, <2>2, <2>3, <2>4, CheckoutStep DEF Before
<1> QED
  BY <1>1, <1>3, <1>4 DEF Release

LEMMA PersistInv ==
  ASSUME TypeOK, JobOK, CheckoutInv, NEW o \in Orders, Persist(o)
  PROVE  CheckoutInv'
<1> DEFINE j == job[o]
<1>1. j \in Job /\ j.pc = "persist" /\ UNCHANGED held
  BY CheckoutJob DEF Persist
<1>2. ~orders[o].placed /\ ~j.err /\ Balanced(o, j, held[o])
  BY <1>1 DEF CheckoutInv, CheckoutOK, Before
<1>3. \A q \in Orders : q # o => orders'[q] = orders[q]
  BY DEF Persist, TypeOK
<1>4. CASE job' = [job EXCEPT ![o] = Goto(j, "done")]
  <2> DEFINE k == Goto(j, "done")
  <2>1. "done" \in Steps
    BY DEF Steps
  <2>2. k.pc = "done"
    BY <1>1, <2>1, GotoFacts
  <2> HIDE DEF k
  <2>3. job' = [job EXCEPT ![o] = k]
    BY <1>4 DEF k
  <2> QED
    BY <1>1, <1>2, <1>3, <2>2, <2>3, CheckoutStep DEF Before
<1>5. CASE job' = [job EXCEPT ![o] = Undo(o, j, Len(Lines[o]))]
  <2> DEFINE n == Len(Lines[o])
             k == Undo(o, j, n)
  <2>1. n \in Nat /\ LinesOf(o) = 1..n
    BY LineFacts
  <2> HIDE DEF n
  <2>2. /\ k.pc \in {"rollback", "failed"} /\ (k.err <=> j.err)
        /\ \A m \in Nat \ {0} : HoldsLine(k, m) <=> m <= n
    BY <1>1, <2>1, CheckoutUndo
  <2> HIDE DEF k
  <2>3. Balanced(o, k, held'[o])
    BY <1>1, <1>2, <2>1, <2>2 DEF Balanced, HoldsLine
  <2>4. job' = [job EXCEPT ![o] = k]
    BY <1>5 DEF k, n
  <2> QED
    BY <1>1, <1>2, <1>3, <2>2, <2>3, <2>4, CheckoutStep DEF Before
<1> QED
  BY <1>4, <1>5 DEF Persist

-------------------------------------------------------------------------------
(* The statements of an administrator, and the rest                        *)

LEMMA AdminJob ==
  ASSUME TypeOK, JobOK, CheckoutInv, NEW a \in Admins, job[a].pc # "idle"
  PROVE  /\ job[a] \in Job /\ job[a].order \in Orders /\ orders[job[a].order].placed
         /\ job[a].pc \in {"reserve", "rollback", "release"} =>
              job[a].at \in LinesOf(job[a].order)
<1>1. a \in Requests /\ Owns(a, job[a]) /\ WellFormed(a, job[a])
  BY OrdersDisjoint, OwnsJob
<1> QED
  BY <1>1, LineFacts DEF Owns, WellFormed, CheckoutInv, AdminOK

(* Where the helpers send an administrator, he is idle or on the same order*)
LEMMA AdminHelpers ==
  ASSUME NEW a \in Admins, NEW j, Owns(a, j), NEW n \in Nat, NEW k,
         \/ k = Failed(a, j) \/ k = Undo(a, j, n)
         \/ k = AfterReserve(a, j) \/ k = AfterRelease(a, j)
  PROVE  k.pc # "idle" => k.order = j.order
<1>1. j \in Job /\ "rollback" \in Steps /\ "write" \in Steps /\ 1 \in Nat
  BY DEF Owns, Steps
<1>2. Failed(a, j).pc = "idle"
  BY IdleFacts DEF Failed
<1>3. Move(j, "rollback", 1, n).order = j.order
  BY <1>1, MoveFacts
<1>4. Goto(j, "write").order = j.order /\ Advance(j).order = j.order
  BY <1>1, GotoFacts, AdvanceFacts
<1> QED
  BY <1>2, <1>3, <1>4 DEF Undo, AfterReserve, Reserved, AfterRelease

LEMMA AdminStockInv ==
  ASSUME TypeOK, JobOK, CheckoutInv, NEW a \in Admins, Reserve(a) \/ Release(a)
  PROVE  CheckoutInv'
<1> DEFINE j == job[a]
<1>1. a \in Requests /\ j.pc \in {"reserve", "rollback", "release"}
  BY OrdersDisjoint DEF Reserve, Release
<1>2. /\ j \in Job /\ j.order \in Orders /\ orders[j.order].placed
      /\ j.at \in LinesOf(j.order) /\ Owns(a, j)
  BY <1>1, AdminJob, OwnsJob
<1>3. j.at - 1 \in Nat /\ Owns(a, Erred(j)) /\ Erred(j).order = j.order
  <2>1. j.at - 1 \in Nat
    BY <1>2, LineFacts
  <2>2. Owns(a, Erred(j)) /\ Erred(j).order = j.order
    BY <1>1, <1>2, ErredOwns, ErredFacts
  <2> QED
    BY <2>1, <2>2
<1>4. PICK k : /\ job' = [job EXCEPT ![a] = k]
               /\ k \in {Failed(a, j), AfterReserve(a, j), Undo(a, j, j.at - 1),
                         Undo(a, Erred(j), j.at - 1), AfterRelease(a, j),
                         AfterRelease(a, Erred(j))}
  BY DEF Reserve, Release
<1>5. k.pc # "idle" => k.order = j.order
  BY <1>2, <1>3, <1>4, AdminHelpers
<1>6. UNCHANGED held \/ Hold(j.order, j.at, 1) \/ Hold(j.order, j.at, -1)
  BY DEF Reserve, Release
<1>7. \A o \in Orders : o # j.order => held'[o] = held[o]
  BY <1>2, <1>6, HoldType
<1>8. UNCHANGED orders
  BY DEF Reserve, Release
<1> QED
  BY <1>2, <1>4, <1>5, <1>7, <1>8, AdminStep

LEMMA PatchInv ==
  ASSUME TypeOK, JobOK, CheckoutInv, NEW a \in Admins, NEW o \in Orders,
         NEW want \in Statuses, Patch(a, o, want)
  PROVE  CheckoutInv'
<1>1. PICK pc, prev : job' = [job EXCEPT ![a] = Started(pc, o, Len(Lines[o]), want, prev)]
  BY DEF Patch
<1>2. Started(pc, o, Len(Lines[o]), want, prev).order = o
  BY DEF Started
<1>3. orders[o].placed /\ UNCHANGED <<orders, held>>
  BY DEF Patch
<1> QED
  BY <1>1, <1>2, <1>3, AdminStep

LEMMA WriteInv ==
  ASSUME TypeOK, JobOK, CheckoutInv, NEW a \in Admins, Write(a)
  PROVE  CheckoutInv'
<1>1. job[a].order \in Orders
  BY AdminJob DEF Write
<1>2. \A o \in Orders : orders'[o].placed = orders[o].placed
  <2>1. CASE UNCHANGED orders
    BY <2>1
  <2>2. CASE orders' = [orders EXCEPT ![job[a].order] =
                          Written(@, job[a].prev, job[a].want)]
    <3> DEFINE row == Written(orders[job[a].order], job[a].prev, job[a].want)
    <3>1. orders[job[a].order] \in [placed : BOOLEAN, status : Statuses,
                                    reserved : BOOLEAN, released : BOOLEAN]
      BY <1>1 DEF TypeOK
    <3>2. row.placed = orders[job[a].order].placed
      BY <3>1, Zenon DEF Written
    <3>3. orders' = [orders EXCEPT ![job[a].order] = row]
      BY <2>2
    <3> HIDE DEF row
    <3> QED
      BY <1>1, <3>2, <3>3 DEF TypeOK
  <2> QED
    BY <2>1, <2>2 DEF Write
<1>3. Idle.pc = "idle" /\ job' = [job EXCEPT ![a] = Idle] /\ UNCHANGED held
  BY IdleFacts DEF Write
<1> QED
  BY <1>2, <1>3, AdminStep

LEMMA DisconnectInv ==
  ASSUME TypeOK, JobOK, CheckoutInv, NEW r \in Requests, Disconnect(r)
  PROVE  CheckoutInv'
<1> DEFINE j == job[r]
           k == Cut(job[r])
<1>1. job' = [job EXCEPT ![r] = k] /\ UNCHANGED <<orders, held>> /\ j.pc # "idle"
  BY DEF Disconnect, Running
<1>2. j \in Job
  BY DEF TypeOK
<1>3. /\ k.pc = j.pc /\ k.at = j.at /\ k.upto = j.upto /\ k.order = j.order
  BY <1>2, CutFacts
<1>4. k.err <=> j.err
  BY <1>2, CutFacts
<1> HIDE DEF k
<1>5. CASE r \in Orders
  BY <1>1, <1>3, <1>4, <1>5, CheckoutStep
     DEF CheckoutInv, CheckoutOK, Balanced, HoldsLine
<1>6. CASE r \in Admins
  BY <1>1, <1>3, <1>6, AdminJob, AdminStep
<1> QED
  BY <1>5, <1>6 DEF Requests

LEMMA CrashInv ==
  ASSUME TypeOK, JobOK, CheckoutInv, Crash
  PROVE  CheckoutInv'
<1>1. UNCHANGED <<orders, held>>
  BY DEF Crash
<1>2. ASSUME NEW o \in Orders PROVE CheckoutOK(o)'
  <2>1. CASE ~Running(o)
    BY <1>1, <2>1, OrdersDisjoint DEF Crash, CheckoutInv, CheckoutOK
  <2>2. CASE Running(o)
    <3>1. job'[o] = Goto(job[o], "lost") /\ job[o] \in Job /\ "lost" \in Steps
      BY <2>2, OrdersDisjoint DEF Crash, TypeOK, Steps
    <3>2. job'[o].pc = "lost"
      BY <3>1, GotoFacts
    <3> QED
      BY <3>2 DEF CheckoutOK, Before
  <2> QED
    BY <2>1, <2>2
<1>3. ASSUME NEW a \in Admins PROVE AdminOK(a)'
  BY <1>1, OrdersDisjoint, IdleFacts DEF Crash, CheckoutInv, AdminOK
<1> QED
  BY <1>2, <1>3 DEF CheckoutInv

-------------------------------------------------------------------------------
LEMMA CheckoutInitInv == Init => CheckoutInv
<1> SUFFICES ASSUME Init PROVE CheckoutInv
  OBVIOUS
<1>1. ASSUME NEW o \in Orders PROVE CheckoutOK(o)
  <2>1. job[o] = Checkout(IF o \in Legacy THEN "done" ELSE "new", o)
    BY OrdersDisjoint DEF Init
  <2>2. job[o].pc = (IF o \in Legacy THEN "done" ELSE "new") /\ ~job[o].err
    BY <2>1 DEF Checkout, Started
  <2>3. (orders[o].placed <=> o \in Legacy) /\ \A i \in LinesOf(o) : held[o][i] = 0
    BY DEF Init
  <2> QED
    BY <2>2, <2>3 DEF CheckoutOK, Before, Balanced, HoldsLine
<1>2. ASSUME NEW a \in Admins PROVE AdminOK(a)
  BY OrdersDisjoint, IdleFacts DEF Init, AdminOK
<1> QED
  BY <1>1, <1>2 DEF CheckoutInv

LEMMA CheckoutNextInv == TypeOK /\ JobOK /\ CheckoutInv /\ [Next]_vars => CheckoutInv'
<1> SUFFICES ASSUME TypeOK, JobOK, CheckoutInv, [Next]_vars PROVE CheckoutInv'
  OBVIOUS
<1>1. ASSUME NEW r \in Requests, Step(r) PROVE CheckoutInv'
  BY <1>1, CheckLineInv, PersistInv, WriteInv, ReserveInv, ReleaseInv, AdminStockInv
     DEF Step, Requests
<1>2. CASE \/ UNCHANGED vars \/ \E p \in Products : DeleteProduct(p)
           \/ \E v \in Variants : DropVariant(v)
  BY <1>2 DEF vars, DeleteProduct, DropVariant, CheckoutInv, CheckoutOK, AdminOK
<1> QED
  BY <1>1, <1>2, BeginInv, PatchInv, DisconnectInv, CrashInv DEF Next

LEMMA CheckoutCorrect == Spec => [](TypeOK /\ JobOK /\ CheckoutInv)
<1>1. Init => CheckoutInv
  BY CheckoutInitInv
<1>2. TypeOK /\ JobOK /\ CheckoutInv /\ [Next]_vars => CheckoutInv'
  BY CheckoutNextInv
<1> QED
  BY <1>1, <1>2, TypeCorrect, PTL DEF Spec

(* A checkout that fails with no stock call in error leaves nothing taken, at
   whatever line, whatever statement failed, and whoever else was at work.  *)
THEOREM RollbackCorrect == Spec => []RollbackComplete
<1>1. CheckoutInv => RollbackComplete
  BY SMTT(60) DEF CheckoutInv, CheckoutOK, Balanced, HoldsLine, RollbackComplete
<1> QED
  BY <1>1, CheckoutCorrect, PTL

(* An order enters the table only with every one of its lines taken once. *)
THEOREM PlacedCorrect == Spec => PlacedFullyReserved
<1> DEFINE Placing == \A o \in Orders : ~orders[o].placed /\ orders'[o].placed =>
                        \A i \in LinesOf(o) : held[o][i] = 1
<1>1. ASSUME TypeOK, JobOK, CheckoutInv, Next, NEW o \in Orders,
             ~orders[o].placed, orders'[o].placed
      PROVE  \A i \in LinesOf(o) : held[o][i] = 1
  <2>1. CASE Persist(o)
    <3>1. job[o].pc = "persist"
      BY <2>1 DEF Persist
    <3> QED
      BY <1>1, <3>1 DEF CheckoutInv, CheckoutOK, Before, Balanced, HoldsLine
  <2>2. ASSUME NEW q \in Orders, Persist(q), q # o PROVE FALSE
    BY <1>1, <2>2 DEF Persist, TypeOK
  <2>3. ASSUME NEW a \in Admins, Write(a) PROVE FALSE
    <3>1. /\ job[a].order \in Orders /\ orders[job[a].order].placed
      BY <1>1, <2>3, AdminJob DEF Write
    <3>2. o # job[a].order
      BY <1>1, <3>1
    <3> QED
      BY <1>1, <2>3, <3>2 DEF Write, TypeOK
  <2>4. CASE UNCHANGED orders
    BY <1>1, <2>4
  <2> QED
    BY <1>1, <2>1, <2>2, <2>3, <2>4
       DEF Next, Step, Begin, CheckLine, Reserve, Release, Patch, Disconnect, Crash,
           DeleteProduct, DropVariant
<1>2. TypeOK /\ JobOK /\ CheckoutInv /\ [Next]_vars => [Placing]_vars
  BY <1>1
<1> QED
  BY <1>2, CheckoutCorrect, PTL DEF Spec, PlacedFullyReserved

-------------------------------------------------------------------------------
(***************************************************************************)
(* The metadata flags of an order tell what the stock tells, for every     *)
(* number of orders, of administrators and of PATCH requests, as long as   *)
(* the PATCH requests of one order come one after the other and run to     *)
(* their end, and the catalogue is left alone.                             *)
(***************************************************************************)
(* Each of the four conjuncts is needed: OrderStock has a behaviour without it
   in which a flag and the stock disagree.                                  *)
Quiet ==
  /\ SerialPatches
  /\ AdminFaults = {}
  /\ "reload" \notin CheckoutFaults
  /\ MaxEdits = 0

(* The lines an order holds while an administrator is at work on it. *)
Has(j, i) ==
  \/ j.pc = "reserve" /\ i < j.at
  \/ j.pc = "rollback" /\ j.at <= i /\ i <= j.upto
  \/ j.pc = "release" /\ j.at <= i
  \/ j.pc = "write" /\ MustReserve(j.prev, j.want)
  \/ j.pc = "write" /\ ~MustRelease(j.prev, j.want) /\ j.prev.reserved /\ ~j.prev.released

Told(row, o, h) ==
  \A i \in LinesOf(o) : h[i] = IF row.reserved /\ ~row.released THEN 1 ELSE 0

(* What a PATCH has read is still what the row says, it works for a reason, and
   the stock is where its loop has brought it.                              *)
Reading(j, row) ==
  /\ j.prev.gone = {} /\ j.prev.status = row.status
  /\ j.prev.reserved <=> row.reserved
  /\ j.prev.released <=> row.released
Reasoned(j) ==
  /\ j.pc \in {"reserve", "rollback"} => MustReserve(j.prev, j.want)
  /\ j.pc = "release" => MustRelease(j.prev, j.want) /\ j.upto = Len(Lines[j.order])
QuietJob(j, row, h) ==
  /\ ~j.cut /\ ~j.err
  /\ Reading(j, row) /\ Reasoned(j)
  /\ \A i \in LinesOf(j.order) : h[i] = IF Has(j, i) THEN 1 ELSE 0

QuietAdmin(a) ==
  IF job[a].pc = "idle" THEN job[a].order = NoOrder
  ELSE QuietJob(job[a], orders[job[a].order], held[job[a].order])

FlagsOK(o) ==
  /\ orders[o].placed => job[o].pc = "done"
  /\ ~orders[o].placed => ~orders[o].released
  /\ orders[o].released => orders[o].reserved
  /\ orders[o].placed /\ (\A a \in Admins : job[a].order # o) => Told(orders[o], o, held[o])

Alone == \A a, b \in Admins : a # b /\ job[a].order \in Orders => job[a].order # job[b].order

FlagsInv ==
  /\ rows = Variants /\ products = Products
  /\ \A o \in Orders : FlagsOK(o)
  /\ \A a \in Admins : QuietAdmin(a)
  /\ Alone

Inv == TypeOK /\ JobOK /\ CheckoutInv

-------------------------------------------------------------------------------
(* Of two requests only one steps                                          *)

LEMMA QuietCheckoutStep ==
  ASSUME Inv, FlagsInv, NEW o \in Orders, NEW k, ~orders[o].placed,
         job' = [job EXCEPT ![o] = k], UNCHANGED <<rows, products>>,
         \A q \in Orders : q # o => held'[q] = held[q] /\ orders'[q] = orders[q],
         \/ orders'[o] = orders[o]
         \/ /\ orders'[o].placed /\ orders'[o].reserved /\ ~orders'[o].released
            /\ k.pc = "done" /\ Told(orders'[o], o, held'[o])
  PROVE  FlagsInv'
<1>1. /\ job'[o] = k
      /\ \A r \in Requests : r # o => job'[r] = job[r]
      /\ \A a \in Admins : job'[a] = job[a] /\ (job[a].pc # "idle" => job[a].order # o)
  BY OrdersDisjoint DEF Inv, TypeOK, CheckoutInv, AdminOK
<1>2. FlagsOK(o)'
  BY <1>1 DEF FlagsInv, FlagsOK
<1>3. ASSUME NEW q \in Orders, q # o PROVE FlagsOK(q)'
  BY <1>1, <1>3, OrdersDisjoint DEF FlagsInv, FlagsOK
<1>4. ASSUME NEW a \in Admins PROVE QuietAdmin(a)'
  <2>1. job[a].pc # "idle" => job[a].order \in Orders
    BY OrdersDisjoint DEF Inv, JobOK, WellFormed
  <2> QED
    BY <1>1, <2>1 DEF FlagsInv, QuietAdmin
<1>5. Alone'
  BY <1>1 DEF FlagsInv, Alone
<1> QED
  BY <1>2, <1>3, <1>4, <1>5 DEF FlagsInv

LEMMA QuietAdminStep ==
  ASSUME Inv, FlagsInv, NEW a \in Admins, NEW o \in Orders, NEW k,
         job' = [job EXCEPT ![a] = k], UNCHANGED <<rows, products>>,
         orders[o].placed /\ orders'[o].placed,
         orders'[o].released => orders'[o].reserved,
         \A b \in Admins : b # a => job[b].order # o,
         \A q \in Orders : q # o => held'[q] = held[q] /\ orders'[q] = orders[q],
         job[a].order \in {o, NoOrder},
         \/ k.pc = "idle" /\ k.order = NoOrder /\ Told(orders'[o], o, held'[o])
         \/ k.pc # "idle" /\ k.order = o /\ QuietJob(k, orders'[o], held'[o])
  PROVE  FlagsInv'
<1>1. /\ job'[a] = k
      /\ \A r \in Requests : r # a => job'[r] = job[r]
      /\ \A b \in Admins : b # a => job'[b] = job[b]
      /\ \A q \in Orders : job'[q] = job[q] /\ q # NoOrder
  BY OrdersDisjoint, OrderStockAssumption DEF Inv, TypeOK
<1>2. FlagsOK(o)'
  BY <1>1 DEF FlagsInv, FlagsOK
<1>3. ASSUME NEW q \in Orders, q # o PROVE FlagsOK(q)'
  <2>1. (\A b \in Admins : job'[b].order # q) => (\A b \in Admins : job[b].order # q)
    BY <1>1, <1>3
  <2> QED
    BY <1>1, <1>3, <2>1 DEF FlagsInv, FlagsOK
<1>4. ASSUME NEW b \in Admins PROVE QuietAdmin(b)'
  <2>1. CASE b = a
    BY <1>1, <2>1 DEF QuietAdmin
  <2>2. CASE b # a
    <3>1. job[b].pc # "idle" => job[b].order \in Orders
      BY OrdersDisjoint DEF Inv, JobOK, WellFormed
    <3> QED
      BY <1>1, <2>2, <3>1 DEF FlagsInv, QuietAdmin
  <2> QED
    BY <2>1, <2>2
<1>5. Alone'
  BY <1>1 DEF FlagsInv, Alone
<1> QED
  BY <1>2, <1>3, <1>4, <1>5 DEF FlagsInv

-------------------------------------------------------------------------------
(* What the helpers of the loops make of the job of an administrator       *)

LEMMA MoveCut ==
  ASSUME NEW j \in Job, NEW s, NEW n, NEW m
  PROVE  Move(j, s, n, m).cut <=> j.cut
<1>1. Move(j, s, n, m).cut = j.cut
  BY Zenon DEF Job, Move
<1> QED
  BY <1>1

(* k is at another place of the same PATCH as j. *)
Same(k, j) ==
  /\ k.order = j.order /\ k.prev = j.prev /\ k.want = j.want
  /\ k.err <=> j.err
  /\ k.cut <=> j.cut

LEMMA SameMove ==
  ASSUME NEW j \in Job, NEW s \in Steps, NEW n \in Nat, NEW m \in Nat
  PROVE  Same(Move(j, s, n, m), j)
<1> DEFINE k == Move(j, s, n, m)
<1>1. k.order = j.order /\ k.prev = j.prev /\ k.want = j.want
  BY MoveFacts
<1>2. k.err <=> j.err
  BY MoveFacts
<1>3. k.cut <=> j.cut
  BY MoveCut
<1> QED
  BY <1>1, <1>2, <1>3 DEF Same

LEMMA SameGoto ==
  ASSUME NEW j \in Job, NEW s \in Steps
  PROVE  Same(Goto(j, s), j)
<1>1. j.at \in Nat /\ j.upto \in Nat
  BY DEF Job
<1> QED
  BY <1>1, SameMove DEF Goto

LEMMA SameAdvance ==
  ASSUME NEW j \in Job
  PROVE  Same(Advance(j), j)
<1>1. j.pc \in Steps /\ j.upto \in Nat
  BY DEF Job
<1>2. j.at + 1 \in Nat
  BY DEF Job
<1> DEFINE n == j.at + 1
<1> HIDE DEF n
<1>3. Same(Move(j, j.pc, n, j.upto), j)
  BY <1>1, <1>2, SameMove DEF n
<1> QED
  BY <1>3 DEF Advance, n

LEMMA QuietUndo ==
  ASSUME NEW a \in Admins, NEW j \in Job, NEW n \in Nat
  PROVE  LET k == Undo(a, j, n) IN
         \/ n = 0 /\ k = Idle
         \/ /\ n # 0 /\ k.pc = "rollback" /\ Same(k, j)
            /\ \A i \in Nat \ {0} : Has(k, i) <=> i <= n
<1>1. CASE n = 0
  BY <1>1 DEF Undo, Failed
<1>2. CASE n # 0
  <2> DEFINE k == Move(j, "rollback", 1, n)
  <2>1. "rollback" \in Steps /\ 1 \in Nat
    BY DEF Steps
  <2>2. k.pc = "rollback" /\ k.at = 1 /\ k.upto = n
    BY <2>1, MoveFacts
  <2>3. Same(k, j)
    BY <2>1, SameMove
  <2>4. Undo(a, j, n) = k
    BY <1>2 DEF Undo
  <2> HIDE DEF k
  <2>5. \A i \in Nat \ {0} : Has(k, i) <=> i <= n
    BY <2>2 DEF Has
  <2> QED
    BY <1>2, <2>2, <2>3, <2>4, <2>5
<1> QED
  BY <1>1, <1>2

LEMMA QuietAfterReserve ==
  ASSUME NEW a \in Admins, NEW j \in Job, j.pc = "reserve", j.order \in Orders,
         j.at \in LinesOf(j.order), MustReserve(j.prev, j.want)
  PROVE  LET k == AfterReserve(a, j) IN
         /\ k.pc \in {"reserve", "write"} /\ Same(k, j)
         /\ \A i \in LinesOf(j.order) : Has(k, i) <=> i <= j.at
<1>1. LinesOf(j.order) = 1..Len(Lines[j.order]) /\ Len(Lines[j.order]) \in Nat
  BY LineFacts
<1>2. CASE j.at = Len(Lines[j.order])
  <2> DEFINE k == Goto(j, "write")
  <2>1. "write" \in Steps
    BY DEF Steps
  <2>2. k.pc = "write" /\ k.prev = j.prev /\ k.want = j.want
    BY <2>1, GotoFacts
  <2>3. Same(k, j)
    BY <2>1, SameGoto
  <2>4. AfterReserve(a, j) = k
    BY <1>2 DEF AfterReserve, Reserved
  <2> HIDE DEF k
  <2>5. \A i \in LinesOf(j.order) : Has(k, i) <=> i <= j.at
    BY <1>1, <1>2, <2>2 DEF Has
  <2> QED
    BY <2>2, <2>3, <2>4, <2>5
<1>3. CASE j.at # Len(Lines[j.order])
  <2> DEFINE k == Advance(j)
  <2>1. k.pc = "reserve" /\ k.at = j.at + 1
    BY AdvanceFacts
  <2>2. Same(k, j)
    BY SameAdvance
  <2>3. AfterReserve(a, j) = k
    BY <1>3 DEF AfterReserve
  <2> HIDE DEF k
  <2>4. \A i \in LinesOf(j.order) : Has(k, i) <=> i <= j.at
    BY <1>1, <2>1 DEF Has
  <2> QED
    BY <2>1, <2>2, <2>3, <2>4
<1> QED
  BY <1>2, <1>3

LEMMA QuietAfterRelease ==
  ASSUME NEW a \in Admins, NEW j \in Job, j.pc \in {"rollback", "release"},
         j.order \in Orders, j.at \in 1..j.upto, j.upto \in LinesOf(j.order),
         Reasoned(j), ~j.err
  PROVE  LET k == AfterRelease(a, j) IN
         \/ j.pc = "rollback" /\ j.at = j.upto /\ k = Idle
         \/ j.pc = "rollback" /\ k.pc = "rollback" /\ k.upto = j.upto /\ Same(k, j)
            /\ \A i \in LinesOf(j.order) : Has(k, i) <=> j.at < i /\ i <= j.upto
         \/ j.pc = "release" /\ k.pc \in {"release", "write"} /\ k.upto = j.upto
            /\ Same(k, j) /\ \A i \in LinesOf(j.order) : Has(k, i) <=> j.at < i
<1>1. LinesOf(j.order) = 1..Len(Lines[j.order]) /\ Len(Lines[j.order]) \in Nat
  BY LineFacts
<1>2. CASE j.at < j.upto
  <2> DEFINE k == Advance(j)
  <2>1. k.pc = j.pc /\ k.at = j.at + 1 /\ k.upto = j.upto
    BY AdvanceFacts
  <2>2. Same(k, j)
    BY SameAdvance
  <2>3. AfterRelease(a, j) = k
    BY <1>2 DEF AfterRelease
  <2> HIDE DEF k
  <2>4. j.pc = "rollback" =>
          \A i \in LinesOf(j.order) : Has(k, i) <=> j.at < i /\ i <= j.upto
    BY <1>1, <2>1 DEF Has
  <2>5. j.pc = "release" => \A i \in LinesOf(j.order) : Has(k, i) <=> j.at < i
    BY <1>1, <2>1 DEF Has
  <2> QED
    BY <2>1, <2>2, <2>3, <2>4, <2>5
<1>3. CASE ~(j.at < j.upto) /\ j.pc = "rollback"
  <2>1. j.at = j.upto
    BY <1>1, <1>3
  <2> QED
    BY <1>3, <2>1 DEF AfterRelease, Failed
<1>4. CASE ~(j.at < j.upto) /\ j.pc = "release"
  <2> DEFINE k == Goto(j, "write")
  <2>1. "write" \in Steps
    BY DEF Steps
  <2>2. k.pc = "write" /\ k.upto = j.upto /\ k.prev = j.prev /\ k.want = j.want
    BY <2>1, GotoFacts
  <2>3. Same(k, j)
    BY <2>1, SameGoto
  <2>4. AfterRelease(a, j) = k
    BY <1>4 DEF AfterRelease
  <2> HIDE DEF k
  <2>5. MustRelease(j.prev, j.want) /\ j.upto = Len(Lines[j.order])
    BY <1>4 DEF Reasoned
  <2>6. \A i \in LinesOf(j.order) : ~Has(k, i)
    BY <2>2, <2>5 DEF Has, MustReserve, MustRelease
  <2>7. \A i \in LinesOf(j.order) : ~(j.at < i)
    BY <1>1, <1>4, <2>5
  <2> QED
    BY <1>4, <2>2, <2>3, <2>4, <2>6, <2>7
<1> QED
  BY <1>2, <1>3, <1>4

-------------------------------------------------------------------------------
(* The statements of a checkout: its order is not in the table yet         *)

LEMMA NotDone ==
  ASSUME Inv, FlagsInv, NEW o \in Orders, job[o].pc # "done"
  PROVE  ~orders[o].placed /\ ~orders[o].released /\ job[o] \in Job /\ job[o].order = o
  BY CheckoutJob DEF Inv, FlagsInv, FlagsOK

LEMMA BeginQuiet ==
  ASSUME Inv, FlagsInv, NEW o \in Orders, Begin(o) \/ CheckLine(o)
  PROVE  FlagsInv'
<1>1. ~orders[o].placed
  BY NotDone DEF Begin, CheckLine
<1>2. PICK k : job' = [job EXCEPT ![o] = k]
  BY DEF Begin, CheckLine
<1>3. UNCHANGED <<rows, products, orders, held>>
  BY DEF Begin, CheckLine, catalogue
<1> QED
  BY <1>1, <1>2, <1>3, QuietCheckoutStep

LEMMA CheckoutStockQuiet ==
  ASSUME Inv, FlagsInv, NEW o \in Orders, Reserve(o) \/ Release(o)
  PROVE  FlagsInv'
<1>1. /\ ~orders[o].placed /\ job[o].order = o
      /\ job[o].pc \in {"reserve", "rollback", "release"}
  BY NotDone DEF Reserve, Release
<1>2. job[o].pc \in {"reserve", "rollback"} /\ job[o].at \in LinesOf(o)
  BY <1>1, CheckoutJob, OrdersDisjoint DEF Inv, JobOK, WellFormed
<1>3. PICK k : job' = [job EXCEPT ![o] = k]
  BY DEF Reserve, Release
<1>4. UNCHANGED held \/ Hold(o, job[o].at, 1) \/ Hold(o, job[o].at, -1)
  BY <1>1 DEF Reserve, Release
<1>5. \A q \in Orders : q # o => held'[q] = held[q]
  BY <1>2, <1>4, HoldType DEF Inv
<1>6. UNCHANGED <<rows, products, orders>>
  BY DEF Reserve, Release, catalogue
<1> QED
  BY <1>1, <1>3, <1>5, <1>6, QuietCheckoutStep

LEMMA PersistQuiet ==
  ASSUME Quiet, Inv, FlagsInv, NEW o \in Orders, Persist(o)
  PROVE  FlagsInv'
<1> DEFINE j == job[o]
<1>1. /\ ~orders[o].placed /\ ~orders[o].released /\ j \in Job /\ j.pc = "persist"
      /\ UNCHANGED <<rows, products, held>>
  BY NotDone DEF Persist, catalogue
<1>2. PICK k : job' = [job EXCEPT ![o] = k]
  BY DEF Persist
<1>3. ~Fault(o, "reload")
  BY OrdersDisjoint DEF Quiet, Fault
<1>4. CASE UNCHANGED orders
  BY <1>1, <1>2, <1>4, QuietCheckoutStep
<1>5. CASE /\ orders' = [orders EXCEPT ![o].placed = TRUE, ![o].reserved = TRUE]
           /\ job' = [job EXCEPT ![o] = Goto(j, "done")]
  <2> DEFINE d == Goto(j, "done")
  <2>1. "done" \in Steps
    BY DEF Steps
  <2>2. d.pc = "done"
    BY <1>1, <2>1, GotoFacts
  <2> HIDE DEF d
  <2>3. orders[o] \in [placed : BOOLEAN, status : Statuses,
                      reserved : BOOLEAN, released : BOOLEAN]
    BY DEF Inv, TypeOK
  <2>4. orders'[o] = [orders[o] EXCEPT !.placed = TRUE, !.reserved = TRUE]
    BY <1>5, Zenon DEF Inv, TypeOK
  <2>5. orders'[o].placed /\ orders'[o].reserved /\ ~orders'[o].released
    BY <1>1, <2>3, <2>4
  <2>6. \A q \in Orders : q # o => orders'[q] = orders[q]
    BY <1>5 DEF Inv, TypeOK
  <2>7. \A i \in LinesOf(o) : held[o][i] = 1
    BY <1>1 DEF Inv, CheckoutInv, CheckoutOK, Before, Balanced, HoldsLine
  <2>8. Told(orders'[o], o, held'[o])
    BY <1>1, <2>5, <2>7 DEF Told
  <2>9. job' = [job EXCEPT ![o] = d]
    BY <1>5 DEF d
  <2> QED
    BY <1>1, <2>2, <2>5, <2>6, <2>8, <2>9, QuietCheckoutStep
<1> QED
  BY <1>3, <1>4, <1>5 DEF Persist

-------------------------------------------------------------------------------
(* The statements of a PATCH                                               *)

LEMMA QuietJobFacts ==
  ASSUME Quiet, Inv, FlagsInv, NEW a \in Admins, job[a].pc # "idle"
  PROVE  LET j == job[a]
             o == j.order
         IN
         /\ j \in Job /\ o \in Orders /\ orders[o].placed
         /\ QuietJob(j, orders[o], held[o])
         /\ held[o] \in [LinesOf(o) -> Int]
         /\ \A b \in Admins : b # a => job[b].order # o
         /\ j.pc \in {"reserve", "rollback", "release"} => j.at \in LinesOf(o)
         /\ j.pc \in {"rollback", "release"} => /\ j.at \in 1..j.upto
                                                /\ j.upto \in LinesOf(o)
         /\ orders[o].released => orders[o].reserved
<1>1. job[a] \in Job /\ job[a].order \in Orders /\ orders[job[a].order].placed
  BY AdminJob DEF Inv
<1>2. /\ job[a].pc \in {"reserve", "rollback", "release"} =>
           job[a].at \in LinesOf(job[a].order)
      /\ job[a].pc \in {"rollback", "release"} => /\ job[a].at \in 1..job[a].upto
                                                  /\ job[a].upto \in LinesOf(job[a].order)
  BY <1>1, AdminJob, OrdersDisjoint DEF Inv, JobOK, WellFormed
<1>3. held[job[a].order] \in [LinesOf(job[a].order) -> Int]
  BY <1>1 DEF Inv, TypeOK
<1>4. QuietJob(job[a], orders[job[a].order], held[job[a].order])
  BY DEF FlagsInv, QuietAdmin
<1>5. \A b \in Admins : b # a => job[b].order # job[a].order
  BY <1>1 DEF FlagsInv, Alone
<1>6. orders[job[a].order].released => orders[job[a].order].reserved
  BY <1>1 DEF FlagsInv, FlagsOK
<1> QED
  BY <1>1, <1>2, <1>3, <1>4, <1>5, <1>6

(* No statement of an administrator fails, and nothing is gone. *)
LEMMA AdminRuns ==
  ASSUME Quiet, Inv, FlagsInv, NEW a \in Admins, job[a].pc # "idle"
  PROVE  /\ ~StatementFails(a)
         /\ \A kind : ~Fault(a, kind)
         /\ job[a].prev.gone = {}
         /\ \A i \in LinesOf(job[a].order) : Exists(Lines[job[a].order][i])
<1>1. \A kind : ~Fault(a, kind)
  BY DEF Quiet, Fault
<1>2. ~job[a].cut /\ job[a].prev.gone = {}
  BY QuietJobFacts DEF QuietJob, Reading
<1>3. \A i \in LinesOf(job[a].order) : Exists(Lines[job[a].order][i])
  BY QuietJobFacts, LineFacts DEF Exists, FlagsInv
<1> QED
  BY <1>1, <1>2, <1>3 DEF StatementFails

(* A PATCH that is done, and had a reason to reserve, holds nothing: so say the
   flags it read.                                                           *)
LEMMA IdleTold ==
  ASSUME NEW j, NEW row, NEW o, NEW h, Reading(j, row), MustReserve(j.prev, j.want),
         \A i \in LinesOf(o) : h[i] = 0
  PROVE  Told(row, o, h)
  BY DEF Told, Reading, MustReserve

LEMMA SameQuiet ==
  ASSUME NEW j, NEW k, NEW row, NEW h, QuietJob(j, row, h), Same(k, j), Reasoned(k),
         NEW g, \A i \in LinesOf(j.order) : g[i] = IF Has(k, i) THEN 1 ELSE 0
  PROVE  QuietJob(k, row, g)
  BY DEF QuietJob, Reading, Same

(* One turn of a loop, or its end. *)
LEMMA QuietLoopStep ==
  ASSUME Quiet, Inv, FlagsInv, NEW a \in Admins, NEW o, o = job[a].order,
         job[a].pc # "idle", NEW k, job' = [job EXCEPT ![a] = k],
         UNCHANGED <<rows, products, orders>>,
         \A q \in Orders : q # o => held'[q] = held[q],
         \/ k = Idle /\ Told(orders[o], o, held'[o])
         \/ k.pc # "idle" /\ k.order = o /\ QuietJob(k, orders[o], held'[o])
  PROVE  FlagsInv'
<1>1. /\ o \in Orders /\ orders[o].placed /\ (orders[o].released => orders[o].reserved)
      /\ \A b \in Admins : b # a => job[b].order # o
  BY QuietJobFacts
<1>2. /\ orders'[o].placed /\ (orders'[o].released => orders'[o].reserved)
      /\ \A q \in Orders : q # o => held'[q] = held[q] /\ orders'[q] = orders[q]
      /\ job[a].order \in {o, NoOrder}
  BY <1>1
<1>3. \/ k.pc = "idle" /\ k.order = NoOrder /\ Told(orders'[o], o, held'[o])
      \/ k.pc # "idle" /\ k.order = o /\ QuietJob(k, orders'[o], held'[o])
  BY IdleFacts
<1> QED
  BY <1>1, <1>2, <1>3, QuietAdminStep

LEMMA ReserveQuiet ==
  ASSUME Quiet, Inv, FlagsInv, NEW a \in Admins, Reserve(a)
  PROVE  FlagsInv'
<1> DEFINE j == job[a]
           o == j.order
           i == j.at
<1>1. j.pc = "reserve"
  BY DEF Reserve
<1>2. /\ j \in Job /\ o \in Orders /\ orders[o].placed /\ QuietJob(j, orders[o], held[o])
      /\ held[o] \in [LinesOf(o) -> Int] /\ i \in LinesOf(o)
      /\ \A b \in Admins : b # a => job[b].order # o
      /\ orders[o].released => orders[o].reserved
  BY <1>1, QuietJobFacts
<1>3. MustReserve(j.prev, j.want) /\ Reading(j, orders[o])
  BY <1>1, <1>2 DEF QuietJob, Reasoned
<1>4. i \in Nat /\ i - 1 \in Nat /\ LinesOf(o) \subseteq Nat \ {0}
  BY <1>2, LineFacts
<1>5. \A n \in LinesOf(o) : held[o][n] = IF n < i THEN 1 ELSE 0
  BY <1>1, <1>2 DEF QuietJob, Has
<1>6. UNCHANGED <<rows, products, orders>>
  BY DEF Reserve, catalogue
<1>7. CASE Hold(o, i, 1) /\ job' = [job EXCEPT ![a] = AfterReserve(a, j)]
  <2> DEFINE k == AfterReserve(a, j)
  <2>1. /\ k.pc \in {"reserve", "write"} /\ Same(k, j)
        /\ \A n \in LinesOf(o) : Has(k, n) <=> n <= i
    BY <1>1, <1>2, <1>3, QuietAfterReserve
  <2>2. /\ \A q \in Orders : q # o => held'[q] = held[q]
        /\ held'[o][i] = held[o][i] + 1
        /\ \A n \in LinesOf(o) : n # i => held'[o][n] = held[o][n]
    BY <1>2, <1>7, HoldType DEF Inv
  <2>3. job' = [job EXCEPT ![a] = k]
    BY <1>7
  <2> HIDE DEF k
  <2>4. \A n \in LinesOf(o) : held'[o][n] = IF Has(k, n) THEN 1 ELSE 0
    BY <1>2, <1>4, <1>5, <2>1, <2>2
  <2>5. Reasoned(k)
    BY <1>3, <2>1 DEF Reasoned, Same
  <2>6. QuietJob(k, orders[o], held'[o])
    BY <1>2, <2>1, <2>4, <2>5, SameQuiet
  <2>7. k.pc # "idle" /\ k.order = o
    BY <2>1 DEF Same
  <2> QED
    BY <1>1, <1>6, <2>2, <2>3, <2>6, <2>7, QuietLoopStep
<1>8. CASE UNCHANGED held /\ job' = [job EXCEPT ![a] = Undo(a, j, i - 1)]
  <2> DEFINE m == i - 1
             k == Undo(a, j, m)
  <2>1. job' = [job EXCEPT ![a] = k]
    BY <1>8
  <2>2. m \in Nat
    BY <1>4
  <2> HIDE DEF m
  <2>3. \/ m = 0 /\ k = Idle
        \/ /\ m # 0 /\ k.pc = "rollback" /\ Same(k, j)
           /\ \A n \in Nat \ {0} : Has(k, n) <=> n <= m
    BY <1>2, <2>2, QuietUndo
  <2> HIDE DEF k
  <2>4. CASE m = 0 /\ k = Idle
    <3>1. \A n \in LinesOf(o) : held[o][n] = 0
      BY <1>4, <1>5, <2>4 DEF m
    <3>2. Told(orders[o], o, held[o])
      BY <1>3, <3>1, IdleTold
    <3> QED
      BY <1>1, <1>6, <1>8, <2>1, <2>4, <3>2, QuietLoopStep
  <2>5. CASE /\ k.pc = "rollback" /\ Same(k, j)
             /\ \A n \in Nat \ {0} : Has(k, n) <=> n <= m
    <3>1. \A n \in LinesOf(o) : held'[o][n] = IF Has(k, n) THEN 1 ELSE 0
      BY <1>4, <1>5, <1>8, <2>5 DEF m
    <3>2. Reasoned(k)
      BY <1>3, <2>5 DEF Reasoned, Same
    <3>3. QuietJob(k, orders[o], held'[o])
      BY <1>2, <2>5, <3>1, <3>2, SameQuiet
    <3>4. k.pc # "idle" /\ k.order = o
      BY <2>5 DEF Same
    <3> QED
      BY <1>1, <1>6, <1>8, <2>1, <3>3, <3>4, QuietLoopStep
  <2> QED
    BY <2>3, <2>4, <2>5
<1> QED
  BY <1>1, <1>7, <1>8, AdminRuns DEF Reserve

LEMMA ReleaseQuiet ==
  ASSUME Quiet, Inv, FlagsInv, NEW a \in Admins, Release(a)
  PROVE  FlagsInv'
<1> DEFINE j == job[a]
           o == j.order
           i == j.at
           k == AfterRelease(a, j)
<1>1. j.pc \in {"rollback", "release"}
  BY DEF Release
<1>2. /\ j \in Job /\ o \in Orders /\ orders[o].placed /\ QuietJob(j, orders[o], held[o])
      /\ held[o] \in [LinesOf(o) -> Int] /\ i \in LinesOf(o)
      /\ i \in 1..j.upto /\ j.upto \in LinesOf(o)
      /\ \A b \in Admins : b # a => job[b].order # o
      /\ orders[o].released => orders[o].reserved
  BY <1>1, QuietJobFacts
<1>3. Reasoned(j) /\ Reading(j, orders[o]) /\ ~j.err
  BY <1>2 DEF QuietJob
<1>4. LinesOf(o) \subseteq Nat \ {0}
  BY <1>2, LineFacts, SMTT(60)
<1>5. Hold(o, i, -1) /\ job' = [job EXCEPT ![a] = k]
  BY <1>1, <1>2, AdminRuns DEF Release
<1>6. /\ \A q \in Orders : q # o => held'[q] = held[q]
      /\ held'[o][i] = held[o][i] - 1
      /\ \A n \in LinesOf(o) : n # i => held'[o][n] = held[o][n]
  BY <1>2, <1>5, HoldType DEF Inv
<1>7. \/ j.pc = "rollback" /\ i = j.upto /\ k = Idle
      \/ j.pc = "rollback" /\ k.pc = "rollback" /\ k.upto = j.upto /\ Same(k, j)
         /\ \A n \in LinesOf(o) : Has(k, n) <=> i < n /\ n <= j.upto
      \/ j.pc = "release" /\ k.pc \in {"release", "write"} /\ k.upto = j.upto
         /\ Same(k, j) /\ \A n \in LinesOf(o) : Has(k, n) <=> i < n
  BY <1>1, <1>2, <1>3, QuietAfterRelease
<1>8. UNCHANGED <<rows, products, orders>>
  BY DEF Release, catalogue
<1> HIDE DEF k
<1>9. CASE j.pc = "rollback"
  <2>1. \A n \in LinesOf(o) : held[o][n] = IF i <= n /\ n <= j.upto THEN 1 ELSE 0
    BY <1>2, <1>9 DEF QuietJob, Has
  <2>2. \A n \in LinesOf(o) : held'[o][n] = IF i < n /\ n <= j.upto THEN 1 ELSE 0
    BY <1>2, <1>4, <1>6, <2>1
  <2>3. CASE i = j.upto /\ k = Idle
    <3>1. \A n \in LinesOf(o) : held'[o][n] = 0
      BY <1>2, <1>4, <2>2, <2>3
    <3>2. Told(orders[o], o, held'[o])
      BY <1>3, <1>9, <3>1, IdleTold DEF Reasoned
    <3> QED
      BY <1>1, <1>5, <1>6, <1>8, <2>3, <3>2, QuietLoopStep
  <2>4. CASE /\ k.pc = "rollback" /\ k.upto = j.upto /\ Same(k, j)
             /\ \A n \in LinesOf(o) : Has(k, n) <=> i < n /\ n <= j.upto
    <3>1. Reasoned(k)
      BY <1>3, <1>9, <2>4 DEF Reasoned, Same
    <3>2. QuietJob(k, orders[o], held'[o])
      BY <1>2, <2>2, <2>4, <3>1, SameQuiet
    <3>3. k.pc # "idle" /\ k.order = o
      BY <2>4 DEF Same
    <3> QED
      BY <1>1, <1>5, <1>6, <1>8, <3>2, <3>3, QuietLoopStep
  <2> QED
    BY <1>7, <1>9, <2>3, <2>4
<1>10. CASE j.pc = "release"
  <2>1. \A n \in LinesOf(o) : held[o][n] = IF i <= n THEN 1 ELSE 0
    BY <1>2, <1>10 DEF QuietJob, Has
  <2>2. \A n \in LinesOf(o) : held'[o][n] = IF i < n THEN 1 ELSE 0
    BY <1>2, <1>4, <1>6, <2>1
  <2>3. /\ k.pc \in {"release", "write"} /\ k.upto = j.upto /\ Same(k, j)
        /\ \A n \in LinesOf(o) : Has(k, n) <=> i < n
    BY <1>7, <1>10
  <2>4. Reasoned(k)
    BY <1>3, <1>10, <2>3 DEF Reasoned, Same
  <2>5. QuietJob(k, orders[o], held'[o])
    BY <1>2, <2>2, <2>3, <2>4, SameQuiet
  <2>6. k.pc # "idle" /\ k.order = o
    BY <2>3 DEF Same
  <2> QED
    BY <1>1, <1>5, <1>6, <1>8, <2>5, <2>6, QuietLoopStep
<1> QED
  BY <1>1, <1>9, <1>10

LEMMA PatchQuiet ==
  ASSUME Quiet, Inv, FlagsInv, NEW a \in Admins, NEW o \in Orders, NEW want \in Statuses,
         Patch(a, o, want)
  PROVE  FlagsInv'
<1> DEFINE prev == [status |-> orders[o].status, reserved |-> orders[o].reserved,
                    released |-> orders[o].released,
                    gone |-> {i \in LinesOf(o) :
                                ProductOf[Lines[o][i].variant] \notin products}]
           pc == IF MustReserve(prev, want) THEN "reserve"
                 ELSE IF MustRelease(prev, want) THEN "release" ELSE "write"
           n == Len(Lines[o])
           k == Started(pc, o, n, want, prev)
<1>1. /\ job[a].pc = "idle" /\ orders[o].placed
      /\ job' = [job EXCEPT ![a] = k]
      /\ UNCHANGED <<rows, products, orders, held>>
  BY DEF Patch, catalogue
<1>2. \A r \in Requests \ {a} : job[r].order = o => job[r].pc \in {"done", "failed", "lost"}
  BY DEF Patch, Quiet
<1>3. \A b \in Admins : b # a => job[b].order # o
  <2>1. ASSUME NEW b \in Admins, b # a, job[b].order = o PROVE FALSE
    <3>1. job[b].pc \in {"done", "failed", "lost"}
      BY <1>2, <2>1, OrdersDisjoint
    <3> QED
      BY <3>1, OrdersDisjoint DEF Inv, JobOK, WellFormed
  <2> QED
    BY <2>1
<1>4. job[a].order = NoOrder
  BY <1>1 DEF FlagsInv, QuietAdmin
<1>5. Told(orders[o], o, held[o]) /\ (orders[o].released => orders[o].reserved)
  <2>1. \A b \in Admins : job[b].order # o
    BY <1>3, <1>4, OrderStockAssumption
  <2> QED
    BY <1>1, <2>1 DEF FlagsInv, FlagsOK
<1>6. Reading(k, orders[o])
  <2>1. \A i \in LinesOf(o) : ProductOf[Lines[o][i].variant] \in products
    BY LineFacts, OrderStockAssumption DEF FlagsInv
  <2>2. prev.gone = {}
    BY <2>1
  <2>3. prev.status = orders[o].status
    OBVIOUS
  <2>4. prev.reserved = orders[o].reserved /\ prev.released = orders[o].released
    OBVIOUS
  <2>5. k.prev = prev
    BY DEF Started
  <2> HIDE DEF prev, k
  <2> QED
    BY <2>2, <2>3, <2>4, <2>5 DEF Reading
<1>7. /\ k.pc = pc /\ k.at = 1 /\ k.upto = n /\ k.order = o /\ k.want = want
      /\ k.prev = prev
  BY DEF Started
<1>8. ~k.err /\ ~k.cut
  BY DEF Started
<1>9. /\ pc \in {"reserve", "release", "write"}
      /\ pc = "reserve" => MustReserve(prev, want)
      /\ pc = "release" => MustRelease(prev, want)
      /\ pc = "write" => ~MustReserve(prev, want) /\ ~MustRelease(prev, want)
  OBVIOUS
<1>10. LinesOf(o) = 1..n /\ n \in Nat
  BY LineFacts
<1> HIDE DEF prev, pc, n, k
<1>11. Reasoned(k)
  BY <1>7, <1>9 DEF Reasoned, n
<1>12. \A i \in LinesOf(o) : held[o][i] = IF Has(k, i) THEN 1 ELSE 0
  <2>1. CASE pc = "reserve"
    <3>1. ~orders[o].reserved
      BY <1>6, <1>7, <1>9, <2>1 DEF Reading, MustReserve
    <3>2. \A i \in LinesOf(o) : ~Has(k, i)
      BY <1>7, <1>10, <2>1 DEF Has
    <3> QED
      BY <1>5, <3>1, <3>2 DEF Told
  <2>2. CASE pc = "release"
    <3>1. orders[o].reserved /\ ~orders[o].released
      BY <1>6, <1>7, <1>9, <2>2 DEF Reading, MustRelease
    <3>2. \A i \in LinesOf(o) : Has(k, i)
      BY <1>7, <1>10, <2>2 DEF Has
    <3> QED
      BY <1>5, <3>1, <3>2 DEF Told
  <2>3. CASE pc = "write"
    <3>1. \A i \in LinesOf(o) : Has(k, i) <=> orders[o].reserved /\ ~orders[o].released
      BY <1>6, <1>7, <1>9, <2>3 DEF Has, Reading
    <3> QED
      BY <1>5, <3>1 DEF Told
  <2> QED
    BY <1>9, <2>1, <2>2, <2>3
<1>13. QuietJob(k, orders'[o], held'[o]) /\ k.pc # "idle" /\ k.order = o
  BY <1>1, <1>6, <1>7, <1>8, <1>9, <1>11, <1>12 DEF QuietJob
<1>14. /\ orders[o].placed /\ orders'[o].placed
       /\ orders'[o].released => orders'[o].reserved
       /\ \A q \in Orders : q # o => held'[q] = held[q] /\ orders'[q] = orders[q]
       /\ job[a].order \in {o, NoOrder}
  BY <1>1, <1>4, <1>5
<1> QED
  BY <1>1, <1>3, <1>13, <1>14, QuietAdminStep

LEMMA WrittenFacts ==
  ASSUME NEW row \in [placed : BOOLEAN, status : Statuses,
                      reserved : BOOLEAN, released : BOOLEAN],
         NEW prev \in Seen, NEW want
  PROVE  LET moved == MustReserve(prev, want) \/ MustRelease(prev, want)
             new == Written(row, prev, want)
         IN
         /\ new.placed <=> row.placed
         /\ new.reserved <=> IF moved THEN MustReserve(prev, want) \/ prev.reserved
                             ELSE row.reserved
         /\ new.released <=> IF moved THEN MustRelease(prev, want) \/ prev.released
                             ELSE row.released
<1> DEFINE moved == MustReserve(prev, want) \/ MustRelease(prev, want)
           new == Written(row, prev, want)
<1>1. new.placed = row.placed
  BY Zenon DEF Written
<1>2. new.reserved = IF moved THEN MustReserve(prev, want) \/ prev.reserved ELSE row.reserved
  BY Zenon DEF Written
<1>3. new.released = IF moved THEN MustRelease(prev, want) \/ prev.released ELSE row.released
  BY Zenon DEF Written
<1> HIDE DEF new, moved
<1>4. new.placed <=> row.placed
  BY <1>1
<1>5. new.reserved <=> IF moved THEN MustReserve(prev, want) \/ prev.reserved
                      ELSE row.reserved
  BY <1>2
<1>6. new.released <=> IF moved THEN MustRelease(prev, want) \/ prev.released
                      ELSE row.released
  BY <1>3
<1> QED
  BY <1>4, <1>5, <1>6 DEF new, moved

LEMMA WriteQuiet ==
  ASSUME Quiet, Inv, FlagsInv, NEW a \in Admins, Write(a)
  PROVE  FlagsInv'
<1> DEFINE j == job[a]
           o == j.order
           row == orders[o]
           new == Written(row, j.prev, j.want)
<1>1. j.pc = "write"
  BY DEF Write
<1>2. /\ j \in Job /\ o \in Orders /\ row.placed /\ QuietJob(j, row, held[o])
      /\ \A b \in Admins : b # a => job[b].order # o
      /\ row.released => row.reserved
  BY <1>1, QuietJobFacts
<1>3. /\ Reading(j, row)
      /\ \A i \in LinesOf(o) : held[o][i] = IF Has(j, i) THEN 1 ELSE 0
  BY <1>2 DEF QuietJob
<1>4. /\ orders' = [orders EXCEPT ![o] = new] /\ job' = [job EXCEPT ![a] = Idle]
      /\ UNCHANGED <<rows, products, held>>
  BY <1>1, AdminRuns DEF Write, catalogue
<1>5. row \in [placed : BOOLEAN, status : Statuses, reserved : BOOLEAN, released : BOOLEAN]
      /\ j.prev \in Seen
  BY <1>2 DEF Inv, TypeOK, Job
<1> HIDE DEF new
<1>6. orders'[o] = new /\ \A q \in Orders : q # o => orders'[q] = orders[q]
  BY <1>2, <1>4 DEF Inv, TypeOK
<1>7. /\ new.placed <=> row.placed
      /\ new.reserved <=> IF MustReserve(j.prev, j.want) \/ MustRelease(j.prev, j.want)
                          THEN MustReserve(j.prev, j.want) \/ j.prev.reserved
                          ELSE row.reserved
      /\ new.released <=> IF MustReserve(j.prev, j.want) \/ MustRelease(j.prev, j.want)
                          THEN MustRelease(j.prev, j.want) \/ j.prev.released
                          ELSE row.released
  BY <1>5, WrittenFacts DEF new
<1>8. \A i \in LinesOf(o) : Has(j, i) <=> new.reserved /\ ~new.released
  BY <1>1, <1>2, <1>3, <1>7 DEF Has, Reading, MustReserve, MustRelease
<1>9. Told(new, o, held[o]) /\ new.placed /\ (new.released => new.reserved)
  BY <1>2, <1>3, <1>7, <1>8 DEF Told, Reading, MustReserve, MustRelease
<1>10. /\ orders[o].placed /\ orders'[o].placed
       /\ orders'[o].released => orders'[o].reserved
       /\ \A q \in Orders : q # o => held'[q] = held[q] /\ orders'[q] = orders[q]
       /\ job[a].order \in {o, NoOrder}
  BY <1>2, <1>4, <1>6, <1>9
<1>11. Idle.pc = "idle" /\ Idle.order = NoOrder /\ Told(orders'[o], o, held'[o])
  BY <1>4, <1>6, <1>9, IdleFacts
<1> QED
  BY <1>2, <1>4, <1>10, <1>11, QuietAdminStep

-------------------------------------------------------------------------------
LEMMA AroundQuiet ==
  ASSUME Quiet, Inv, FlagsInv,
         \/ \E r \in Requests : Disconnect(r)
         \/ Crash
         \/ \E p \in Products : DeleteProduct(p)
         \/ \E v \in Variants : DropVariant(v)
  PROVE  FlagsInv'
<1>1. ASSUME NEW r \in Requests, Disconnect(r) PROVE FlagsInv'
  <2>1. CASE r \in Admins
    BY <1>1, <2>1 DEF Disconnect, Fault, Quiet
  <2>2. CASE r \in Orders
    <3>1. ~orders[r].placed
      BY <1>1, <2>2, NotDone DEF Disconnect, Running
    <3>2. job' = [job EXCEPT ![r] = Cut(job[r])] /\ UNCHANGED <<rows, products, orders, held>>
      BY <1>1 DEF Disconnect, catalogue
    <3> QED
      BY <2>2, <3>1, <3>2, QuietCheckoutStep
  <2> QED
    BY <2>1, <2>2 DEF Requests
<1>2. CASE Crash
  <2>1. \A a \in Admins : ~Running(a)
    BY <1>2, OrdersDisjoint DEF Crash, Fault, Quiet
  <2>2. \A a \in Admins : job'[a] = job[a]
    BY <1>2, <2>1, OrdersDisjoint DEF Crash
  <2>3. UNCHANGED <<rows, products, orders, held>>
    BY <1>2 DEF Crash, catalogue
  <2>4. ASSUME NEW o \in Orders PROVE FlagsOK(o)'
    <3>1. orders[o].placed => job'[o] = job[o]
      BY <1>2, OrdersDisjoint DEF Crash, Running, FlagsInv, FlagsOK
    <3> QED
      BY <2>2, <2>3, <3>1 DEF FlagsInv, FlagsOK
  <2> QED
    BY <2>2, <2>3, <2>4 DEF FlagsInv, QuietAdmin, Alone
<1>3. ~Edit
  BY DEF Edit, Quiet, Inv, TypeOK
<1> QED
  BY <1>1, <1>2, <1>3 DEF DeleteProduct, DropVariant

LEMMA QuietInit == Quiet /\ Init => FlagsInv
<1> SUFFICES ASSUME Quiet, Init PROVE FlagsInv
  OBVIOUS
<1>1. ASSUME NEW o \in Orders PROVE FlagsOK(o)
  <2>1. job[o] = Checkout(IF o \in Legacy THEN "done" ELSE "new", o)
    BY OrdersDisjoint DEF Init
  <2>2. job[o].pc = IF o \in Legacy THEN "done" ELSE "new"
    BY <2>1 DEF Checkout, Started
  <2>3. orders[o].placed <=> o \in Legacy
    BY DEF Init
  <2>4. ~orders[o].reserved /\ ~orders[o].released /\ \A i \in LinesOf(o) : held[o][i] = 0
    BY DEF Init
  <2> QED
    BY <2>2, <2>3, <2>4 DEF FlagsOK, Told
<1>2. \A a \in Admins : job[a] = Idle
  BY OrdersDisjoint DEF Init
<1>3. \A a \in Admins : QuietAdmin(a)
  BY <1>2, IdleFacts DEF QuietAdmin
<1>4. Alone
  BY <1>2, IdleFacts, OrderStockAssumption DEF Alone
<1> QED
  BY <1>1, <1>3, <1>4 DEF Init, FlagsInv

LEMMA QuietNext == Quiet /\ Inv /\ FlagsInv /\ [Next]_vars => FlagsInv'
<1> SUFFICES ASSUME Quiet, Inv, FlagsInv, [Next]_vars PROVE FlagsInv'
  OBVIOUS
<1>1. ASSUME NEW r \in Requests, Step(r) PROVE FlagsInv'
  <2>1. CASE r \in Orders
    BY <1>1, <2>1, BeginQuiet, PersistQuiet, CheckoutStockQuiet, OrdersDisjoint DEF Step
  <2>2. CASE r \in Admins
    BY <1>1, <2>2, WriteQuiet, ReserveQuiet, ReleaseQuiet, OrdersDisjoint DEF Step
  <2> QED
    BY <2>1, <2>2 DEF Requests
<1>2. CASE UNCHANGED vars
  BY <1>2 DEF vars, FlagsInv, FlagsOK, QuietAdmin, Alone
<1> QED
  BY <1>1, <1>2, BeginQuiet, PatchQuiet, AroundQuiet DEF Next

(* When the PATCH requests of an order come one after the other and none of their
   statements fails, the flags of every order tell what the stock tells.    *)
THEOREM FlagsCorrect ==
  ASSUME Quiet
  PROVE  Spec => []FlagsTellStock
<1>1. Init => FlagsInv
  BY QuietInit
<1>2. Inv /\ FlagsInv /\ [Next]_vars => FlagsInv'
  BY QuietNext
<1>3. FlagsInv => FlagsTellStock
  BY DEF FlagsInv, FlagsOK, Told, FlagsTellStock
<1>4. Spec => []Inv
  BY CheckoutCorrect DEF Inv
<1> QED
  BY <1>1, <1>2, <1>3, <1>4, PTL DEF Spec

-------------------------------------------------------------------------------
(***************************************************************************)
(* OrderStock implements StockLedger under the hypotheses of the flags.    *)
(*                                                                         *)
(* The ledger's free units are the shelf and what the requests have in     *)
(* hand, a sum over the requests and the lines of each.  The sum is the    *)
(* size of a set of units, so that a step that moves one line is a union   *)
(* of disjoint finite sets and no induction is needed.                     *)
(***************************************************************************)
(* Units: the sums of quantities, counted one by one.                      *)

(* As many pairs as there are elements to pair with. *)
LEMMA PairCount ==
  ASSUME NEW r, NEW S, IsFiniteSet(S)
  PROVE  IsFiniteSet({r} \X S) /\ Cardinality({r} \X S) = Cardinality(S)
<1> DEFINE f == [x \in S |-> <<r, x>>]
<1>1. f \in Bijection(S, {r} \X S)
  <2>1. f \in [S -> {r} \X S] /\ \A x \in S : f[x] = <<r, x>>
    OBVIOUS
  <2>2. \A x, y \in S : f[x] = f[y] => x = y
    BY <2>1
  <2>3. \A p \in {r} \X S : \E x \in S : f[x] = p
    BY <2>1
  <2> HIDE DEF f
  <2> QED
    BY <2>1, <2>2, <2>3 DEF Bijection, Injection, Surjection, IsInjective
<1>2. ExistsBijection(S, {r} \X S)
  BY <1>1 DEF ExistsBijection
<1> QED
  BY <1>2, FS_Bijection

LEMMA DisjointUnion ==
  ASSUME NEW S, NEW T, IsFiniteSet(S), IsFiniteSet(T), S \cap T = {}
  PROVE  IsFiniteSet(S \cup T) /\ Cardinality(S \cup T) = Cardinality(S) + Cardinality(T)
<1>1. Cardinality(S) \in Nat /\ Cardinality(T) \in Nat /\ Cardinality(S \cap T) = 0
  BY FS_CardinalityType, FS_EmptySet
<1>2. /\ IsFiniteSet(S \cup T)
      /\ Cardinality(S \cup T) = Cardinality(S) + Cardinality(T) - Cardinality(S \cap T)
  BY FS_Union
<1> QED
  BY <1>1, <1>2

(* One line more is so many units more. *)
LEMMA LineUnits ==
  ASSUME NEW o \in Orders, NEW I, NEW i \in LinesOf(o), i \notin I, NEW v,
         IsFiniteSet(Units(o, I, v))
  PROVE  /\ IsFiniteSet(Units(o, I \cup {i}, v))
         /\ Cardinality(Units(o, I \cup {i}, v)) =
              Cardinality(Units(o, I, v)) + IF Lines[o][i].variant = v THEN Lines[o][i].qty ELSE 0
<1> DEFINE q == Lines[o][i].qty
           new == {i} \X (1..q)
<1>1. q \in Nat /\ IsFiniteSet(1..q) /\ Cardinality(1..q) = q
  <2>1. PICK a \in Int, b \in Int : a = 1 /\ b = q /\ q \in Nat
    BY LineFacts
  <2>2. IsFiniteSet(a..b) /\ Cardinality(a..b) = IF a > b THEN 0 ELSE b - a + 1
    BY FS_Interval
  <2> QED
    BY <2>1, <2>2
<1>2. IsFiniteSet(new) /\ Cardinality(new) = q
  BY <1>1, PairCount
<1>3. Cardinality(Units(o, I, v)) \in Nat
  BY FS_CardinalityType
<1>4. CASE Lines[o][i].variant = v
  <2>1. Units(o, I \cup {i}, v) = Units(o, I, v) \cup new
    BY <1>4 DEF Units
  <2>2. Units(o, I, v) \cap new = {}
    BY DEF Units
  <2> HIDE DEF new, q
  <2>3. /\ IsFiniteSet(Units(o, I, v) \cup new)
        /\ Cardinality(Units(o, I, v) \cup new) = Cardinality(Units(o, I, v)) + Cardinality(new)
    BY <1>2, <2>2, DisjointUnion
  <2> QED
    BY <1>2, <1>4, <2>1, <2>3 DEF q
<1>5. CASE Lines[o][i].variant # v
  <2>1. Units(o, I \cup {i}, v) = Units(o, I, v)
    BY <1>5 DEF Units
  <2> QED
    BY <1>3, <1>5, <2>1
<1> QED
  BY <1>4, <1>5

LEMMA NoUnits == ASSUME NEW o, NEW v PROVE Units(o, {}, v) = {}
  BY DEF Units

(* A cart has finitely many units. *)
LEMMA UnitsFinite ==
  ASSUME NEW o \in Orders, NEW I, I \subseteq LinesOf(o), NEW v
  PROVE  IsFiniteSet(Units(o, I, v)) /\ Cardinality(Units(o, I, v)) \in Nat
<1> DEFINE J == {i \in I : Lines[o][i].variant = v}
           f == [i \in J |-> {i} \X (1..Lines[o][i].qty)]
           T == {{i} \X (1..Lines[o][i].qty) : i \in J}
<1>1. IsFiniteSet(J)
  <2>1. LinesOf(o) = 1..Len(Lines[o]) /\ Len(Lines[o]) \in Nat
    BY LineFacts
  <2>2. PICK a \in Int, b \in Int : a = 1 /\ b = Len(Lines[o])
    BY <2>1
  <2>3. IsFiniteSet(a..b)
    BY FS_Interval
  <2> QED
    BY <2>1, <2>2, <2>3, FS_Subset
<1>2. IsFiniteSet(T)
  <2>1. f \in Surjection(J, T)
    BY DEF Surjection
  <2> HIDE DEF f, J, T
  <2> QED
    BY <1>1, <2>1, FS_Surjection
<1>3. \A U \in T : IsFiniteSet(U)
  <2>1. SUFFICES ASSUME NEW i \in J PROVE IsFiniteSet({i} \X (1..Lines[o][i].qty))
    OBVIOUS
  <2>2. PICK a \in Int, b \in Int : a = 1 /\ b = Lines[o][i].qty
    BY LineFacts
  <2>3. IsFiniteSet(a..b)
    BY FS_Interval
  <2> QED
    BY <2>2, <2>3, PairCount
<1>4. Units(o, I, v) = UNION T
  BY DEF Units
<1> HIDE DEF T
<1> QED
  BY <1>2, <1>3, <1>4, FS_UNION, FS_CardinalityType

(* The units of v that a request at j has in hand. *)
Piece(j, v) == Units(j.order, InHand(j), v)

LEMMA PieceFinite ==
  ASSUME NEW j \in Job, NEW v
  PROVE  IsFiniteSet(Piece(j, v)) /\ Cardinality(Piece(j, v)) \in Nat
<1>1. j.order \in Orders \cup {NoOrder}
  BY DEF Job
<1>2. CASE j.order \in Orders
  <2>1. j.order # NoOrder
    BY <1>2, OrderStockAssumption
  <2>2. InHand(j) \subseteq LinesOf(j.order)
    BY <2>1 DEF InHand
  <2> QED
    BY <1>2, <2>2, UnitsFinite DEF Piece
<1>3. CASE j.order = NoOrder
  <2>1. InHand(j) = {}
    BY <1>3 DEF InHand
  <2> QED
    BY <2>1, NoUnits, FS_EmptySet DEF Piece
<1> QED
  BY <1>1, <1>2, <1>3

(* At j it has the lines I of o in hand. *)
Hand(j, o, I) == \A v \in Variants : Piece(j, v) = Units(o, I, v)

AllFinite == \A v \in Variants : IsFiniteSet(Out(v))

(* A request that goes on to k changes what it has in hand alone. *)
LEMMA OutStep ==
  ASSUME job \in [Requests -> Job], NEW r \in Requests, NEW k \in Job, job' = [job EXCEPT ![r] = k],
         NEW v, IsFiniteSet(Out(v))
  PROVE  /\ IsFiniteSet(Out(v)')
         /\ Cardinality(Out(v)) \in Nat /\ Cardinality(Out(v)') \in Nat
         /\ Cardinality(Piece(job[r], v)) <= Cardinality(Out(v))
         /\ Cardinality(Out(v)') = Cardinality(Out(v)) - Cardinality(Piece(job[r], v)) + Cardinality(Piece(k, v))
<1> DEFINE rest == UNION {{q} \X Piece(job[q], v) : q \in Requests \ {r}}
           old == {r} \X Piece(job[r], v)
           new == {r} \X Piece(k, v)
<1>1. job[r] \in Job
  OBVIOUS
<1>2. /\ IsFiniteSet(old) /\ Cardinality(old) = Cardinality(Piece(job[r], v))
      /\ IsFiniteSet(new) /\ Cardinality(new) = Cardinality(Piece(k, v))
      /\ Cardinality(Piece(job[r], v)) \in Nat /\ Cardinality(Piece(k, v)) \in Nat
  BY <1>1, PieceFinite, PairCount
<1>3. Out(v) = rest \cup old /\ rest \cap old = {}
  BY DEF Out, Piece
<1>4. Out(v)' = rest \cup new /\ rest \cap new = {}
  BY DEF Out, Piece
<1> HIDE DEF rest, old, new
<1>5. IsFiniteSet(rest) /\ Cardinality(rest) \in Nat
  BY <1>3, FS_Subset, FS_CardinalityType
<1>6. Cardinality(Out(v)) = Cardinality(rest) + Cardinality(old)
  BY <1>2, <1>3, <1>5, DisjointUnion
<1>7. IsFiniteSet(Out(v)') /\ Cardinality(Out(v)') = Cardinality(rest) + Cardinality(new)
  BY <1>2, <1>4, <1>5, DisjointUnion
<1> QED
  BY <1>2, <1>5, <1>6, <1>7

-------------------------------------------------------------------------------
(* What the free units are after a step, from what it did to the shelf and to what its
   request has in hand.                                                               *)
LEMMA FreeStep ==
  ASSUME TypeOK, TypeOK', AllFinite, NEW r \in Requests, NEW k \in Job, job' = [job EXCEPT ![r] = k]
  PROVE  /\ AllFinite'
         /\ DOMAIN Free = Variants /\ DOMAIN Free' = Variants
         /\ \A v \in Variants :
              /\ Free[v] \in Nat /\ Free'[v] \in Nat
              /\ Cardinality(Piece(job[r], v)) \in Nat /\ Cardinality(Piece(k, v)) \in Nat
              /\ stock[v] \in Nat /\ stock'[v] \in Nat
              /\ Cardinality(Piece(job[r], v)) <= Free[v]
              /\ Free'[v] = Free[v] + (stock'[v] - stock[v])
                              - Cardinality(Piece(job[r], v)) + Cardinality(Piece(k, v))
<1>1. AllFinite'
  BY OutStep DEF TypeOK, AllFinite
<1>2. DOMAIN Free = Variants /\ DOMAIN Free' = Variants
  BY DEF Free
<1>3. ASSUME NEW v \in Variants
      PROVE  /\ Free[v] \in Nat /\ Free'[v] \in Nat
             /\ Cardinality(Piece(job[r], v)) \in Nat /\ Cardinality(Piece(k, v)) \in Nat
             /\ stock[v] \in Nat /\ stock'[v] \in Nat
             /\ Cardinality(Piece(job[r], v)) <= Free[v]
             /\ Free'[v] = Free[v] + (stock'[v] - stock[v])
                             - Cardinality(Piece(job[r], v)) + Cardinality(Piece(k, v))
  <2>1. stock[v] \in Nat /\ stock'[v] \in Nat /\ job \in [Requests -> Job] /\ job[r] \in Job
    BY DEF TypeOK
  <2>2. Free[v] = stock[v] + Cardinality(Out(v)) /\ Free'[v] = stock'[v] + Cardinality(Out(v)')
    BY DEF Free
  <2>3. Cardinality(Piece(job[r], v)) \in Nat /\ Cardinality(Piece(k, v)) \in Nat
    BY <2>1, PieceFinite
  <2>4. /\ Cardinality(Out(v)) \in Nat /\ Cardinality(Out(v)') \in Nat
        /\ Cardinality(Piece(job[r], v)) <= Cardinality(Out(v))
        /\ Cardinality(Out(v)') = Cardinality(Out(v)) - Cardinality(Piece(job[r], v)) + Cardinality(Piece(k, v))
    BY <2>1, OutStep DEF AllFinite
  <2> QED
    BY <2>1, <2>2, <2>3, <2>4
<1> QED
  BY <1>1, <1>2, <1>3

Claims == [o \in Orders |-> ClaimOf(o)]

(* A step that takes no unit out of nowhere and moves no claim loses units at most. *)
LEMMA Losing ==
  ASSUME DOMAIN Free' = Variants, \A v \in Variants : Free[v] \in Nat /\ Free'[v] \in Nat /\ Free'[v] <= Free[v],
         Claims' = Claims
  PROVE  Ledger!Next
<1>1. Ledger!Lose
  BY DEF Ledger!Lose, Claims
<1> QED
  BY <1>1 DEF Ledger!Next

(* Claims are moved by the statements of administrators and by the table of the orders. *)
LEMMA CheckoutClaims ==
  ASSUME Inv, NEW o \in Orders, NEW k, job' = [job EXCEPT ![o] = k], orders' = orders
  PROVE  Claims' = Claims
<1>1. \A a \in Admins : job'[a] = job[a]
  BY OrdersDisjoint DEF Inv, TypeOK
<1>2. \A q \in Orders : ClaimOf(q)' = ClaimOf(q)
  BY <1>1 DEF ClaimOf
<1> QED
  BY <1>2 DEF Claims

LEMMA AdminClaims ==
  ASSUME Inv, NEW a \in Admins, NEW k, job' = [job EXCEPT ![a] = k], orders' = orders,
         \/ k.order = job[a].order /\ (Releasing(k) <=> Releasing(job[a]))
         \/ ~Releasing(k) /\ ~Releasing(job[a])
  PROVE  Claims' = Claims
<1>1. job'[a] = k /\ \A b \in Admins : b # a => job'[b] = job[b]
  BY OrdersDisjoint DEF Inv, TypeOK
<1>2. ASSUME NEW q \in Orders
      PROVE  (\E b \in Admins : job'[b].order = q /\ Releasing(job'[b]))
               <=> \E b \in Admins : job[b].order = q /\ Releasing(job[b])
  BY <1>1
<1>3. \A q \in Orders : ClaimOf(q)' = ClaimOf(q)
  BY <1>2 DEF ClaimOf, Releasing
<1> QED
  BY <1>3 DEF Claims

-------------------------------------------------------------------------------
(* What a request has in hand after a turn of a loop.                      *)

LEMMA HandAfterReserve ==
  ASSUME NEW r \in Requests, NEW j \in Job, j.pc = "reserve", j.order \in Orders, j.at \in LinesOf(j.order),
         r \in Admins => MustReserve(j.prev, j.want)
  PROVE  Hand(AfterReserve(r, j), j.order, InHand(j) \cup {j.at})
<1>1. LinesOf(j.order) = 1..Len(Lines[j.order]) /\ Len(Lines[j.order]) \in Nat /\ j.order # NoOrder
  BY LineFacts, OrderStockAssumption
<1>2. InHand(j) = {i \in LinesOf(j.order) : i < j.at}
  BY <1>1 DEF InHand
<1> DEFINE k == AfterReserve(r, j)
<1>3. CASE j.at = Len(Lines[j.order])
  <2> DEFINE pc == IF r \in Admins THEN "write" ELSE "persist"
  <2>1. pc \in Steps
    BY DEF Steps
  <2>2. k = Goto(j, pc)
    BY <1>3 DEF AfterReserve, Reserved
  <2>3. k.pc = pc /\ k.order = j.order /\ k.prev = j.prev /\ k.want = j.want
    <3> HIDE DEF pc
    <3> QED
      BY <2>1, <2>2, GotoFacts
  <2> HIDE DEF k
  <2>4. InHand(k) = LinesOf(j.order)
    BY <1>1, <2>3 DEF InHand
  <2>5. InHand(k) = InHand(j) \cup {j.at}
    BY <1>1, <1>2, <1>3, <2>4
  <2> QED
    BY <2>3, <2>5 DEF Hand, Piece, k
<1>4. CASE j.at # Len(Lines[j.order])
  <2>1. k.pc = "reserve" /\ k.at = j.at + 1 /\ k.order = j.order
    BY <1>4, AdvanceFacts DEF AfterReserve
  <2> HIDE DEF k
  <2>2. InHand(k) = {i \in LinesOf(j.order) : i < j.at + 1}
    BY <1>1, <2>1 DEF InHand
  <2>3. InHand(k) = InHand(j) \cup {j.at}
    BY <1>1, <1>2, <2>2
  <2> QED
    BY <2>1, <2>3 DEF Hand, Piece, k
<1> QED
  BY <1>3, <1>4

LEMMA HandAfterFailure ==
  ASSUME NEW r \in Requests, NEW j \in Job, NEW v
  PROVE  Piece(Failed(r, j), v) = {}
<1>1. Failed(r, j).pc \in {"failed", "idle"}
  BY IdleFacts, GotoFacts DEF Failed, Steps
<1>2. InHand(Failed(r, j)) = {}
  BY <1>1 DEF InHand
<1> QED
  BY <1>2, NoUnits DEF Piece

LEMMA HandAfterUndo ==
  ASSUME NEW r \in Requests, NEW j \in Job, j.order \in Orders, NEW n \in 0..Len(Lines[j.order])
  PROVE  Hand(Undo(r, j, n), j.order, {i \in LinesOf(j.order) : i < n + 1})
<1>1. LinesOf(j.order) = 1..Len(Lines[j.order]) /\ Len(Lines[j.order]) \in Nat /\ j.order # NoOrder
  BY LineFacts, OrderStockAssumption
<1>2. CASE n = 0
  <2>1. {i \in LinesOf(j.order) : i < n + 1} = {}
    BY <1>1, <1>2
  <2> QED
    BY <1>2, <2>1, HandAfterFailure, NoUnits DEF Undo, Hand
<1>3. CASE n # 0
  <2> DEFINE k == Undo(r, j, n)
  <2>1. k.pc = "rollback" /\ k.at = 1 /\ k.upto = n /\ k.order = j.order
    <3>1. "rollback" \in Steps /\ n \in Nat /\ 1 \in Nat
      BY <1>1 DEF Steps
    <3> QED
      BY <1>3, <3>1, MoveFacts DEF Undo
  <2> HIDE DEF k
  <2>2. InHand(k) = {i \in LinesOf(j.order) : i < n + 1}
    BY <1>1, <2>1 DEF InHand
  <2> QED
    BY <2>1, <2>2 DEF Hand, Piece, k
<1> QED
  BY <1>2, <1>3

LEMMA HandAfterRelease ==
  ASSUME NEW r \in Requests, NEW j \in Job, j.pc \in {"rollback", "release"}, j.order \in Orders,
         j.at \in 1..j.upto, j.upto \in LinesOf(j.order),
         j.pc = "release" => ~MustReserve(j.prev, j.want)
  PROVE  /\ InHand(j) = (InHand(j) \ {j.at}) \cup {j.at}
         /\ Hand(AfterRelease(r, j), j.order, InHand(j) \ {j.at})
<1>1. LinesOf(j.order) = 1..Len(Lines[j.order]) /\ Len(Lines[j.order]) \in Nat /\ j.order # NoOrder
  BY LineFacts, OrderStockAssumption
<1>2. InHand(j) = {i \in LinesOf(j.order) : j.at <= i /\ i <= j.upto}
  BY <1>1 DEF InHand
<1>3. InHand(j) = (InHand(j) \ {j.at}) \cup {j.at}
  BY <1>1, <1>2
<1> DEFINE k == AfterRelease(r, j)
<1>4. CASE j.at < j.upto
  <2>1. k.pc = j.pc /\ k.at = j.at + 1 /\ k.upto = j.upto /\ k.order = j.order
    BY <1>4, AdvanceFacts DEF AfterRelease
  <2> HIDE DEF k
  <2>2. InHand(k) = {i \in LinesOf(j.order) : j.at + 1 <= i /\ i <= j.upto}
    BY <1>1, <2>1 DEF InHand
  <2>3. InHand(k) = InHand(j) \ {j.at}
    BY <1>1, <1>2, <2>2
  <2> QED
    BY <1>3, <2>1, <2>3 DEF Hand, Piece, k
<1>5. CASE ~(j.at < j.upto)
  <2>1. InHand(j) \ {j.at} = {}
    BY <1>1, <1>2, <1>5
  <2>2. CASE j.pc = "release" /\ ~j.err
    <3>1. "write" \in Steps
      BY DEF Steps
    <3>2. k.pc = "write" /\ k.prev = j.prev /\ k.want = j.want
      BY <1>5, <2>2, <3>1, GotoFacts DEF AfterRelease
    <3> HIDE DEF k
    <3>3. InHand(k) = {}
      BY <2>2, <3>2 DEF InHand
    <3> QED
      BY <1>3, <2>1, <3>3, NoUnits DEF Hand, Piece, k
  <2>3. CASE ~(j.pc = "release" /\ ~j.err)
    BY <1>3, <1>5, <2>1, <2>3, HandAfterFailure, NoUnits DEF AfterRelease, Hand
  <2> QED
    BY <2>2, <2>3
<1> QED
  BY <1>4, <1>5

-------------------------------------------------------------------------------
(* The steps that move no claim.                                           *)

LEMMA Drops ==
  ASSUME TypeOK, TypeOK', AllFinite, NEW r \in Requests, NEW k \in Job, job' = [job EXCEPT ![r] = k],
         \A v \in Variants : /\ stock'[v] <= stock[v]
                             /\ Cardinality(Piece(k, v)) <= Cardinality(Piece(job[r], v)),
         Claims' = Claims
  PROVE  AllFinite' /\ Ledger!Next
<1>1. /\ AllFinite' /\ DOMAIN Free' = Variants
      /\ \A v \in Variants :
              /\ Free[v] \in Nat /\ Free'[v] \in Nat
              /\ Cardinality(Piece(job[r], v)) \in Nat /\ Cardinality(Piece(k, v)) \in Nat
              /\ stock[v] \in Nat /\ stock'[v] \in Nat
              /\ Free'[v] = Free[v] + (stock'[v] - stock[v])
                              - Cardinality(Piece(job[r], v)) + Cardinality(Piece(k, v))
  BY FreeStep
<1>2. \A v \in Variants : Free[v] \in Nat /\ Free'[v] \in Nat /\ Free'[v] <= Free[v]
  BY <1>1
<1> QED
  BY <1>1, <1>2, Losing

LEMMA Shelf ==
  ASSUME TypeOK, NEW o \in Orders, NEW i \in LinesOf(o), NEW n \in Int, AddStock(Lines[o][i], n),
         NEW v \in Variants
  PROVE  stock[v] \in Nat /\ stock'[v] = stock[v] + IF Lines[o][i].variant = v THEN n ELSE 0
<1>1. stock \in [Variants -> Nat] /\ Lines[o][i].variant \in Variants
  BY LineFacts DEF TypeOK
<1> DEFINE w == Lines[o][i].variant
<1>2. stock' = [stock EXCEPT ![w] = stock[w] + n]
  BY DEF AddStock
<1> HIDE DEF w
<1>3. w \in Variants
  BY <1>1 DEF w
<1>4. stock'[v] = stock[v] + IF w = v THEN n ELSE 0
  BY <1>1, <1>2, <1>3
<1> QED
  BY <1>1, <1>4 DEF w

(* A line is taken off the shelf into the hand, or lost on the way. *)
LEMMA Takes ==
  ASSUME TypeOK, TypeOK', AllFinite, NEW r \in Requests, NEW k \in Job, job' = [job EXCEPT ![r] = k],
         NEW o \in Orders, NEW i \in LinesOf(o), AddStock(Lines[o][i], -Lines[o][i].qty),
         NEW I, i \notin I,
         Hand(job[r], o, I), Hand(k, o, I \cup {i}) \/ Hand(k, o, I),
         Claims' = Claims
  PROVE  AllFinite' /\ Ledger!Next
<1>1. /\ AllFinite' /\ DOMAIN Free' = Variants
      /\ \A v \in Variants :
              /\ Free[v] \in Nat /\ Free'[v] \in Nat
              /\ Cardinality(Piece(job[r], v)) \in Nat /\ Cardinality(Piece(k, v)) \in Nat
              /\ stock[v] \in Nat /\ stock'[v] \in Nat
              /\ Free'[v] = Free[v] + (stock'[v] - stock[v])
                              - Cardinality(Piece(job[r], v)) + Cardinality(Piece(k, v))
  BY FreeStep
<1>2. ASSUME NEW v \in Variants PROVE Free'[v] <= Free[v]
  <2> DEFINE q == IF Lines[o][i].variant = v THEN Lines[o][i].qty ELSE 0
             c == Cardinality(Piece(job[r], v))
             d == Cardinality(Piece(k, v))
  <2>1. Lines[o][i].qty \in Nat /\ -Lines[o][i].qty \in Int
    BY LineFacts
  <2>2. stock'[v] = stock[v] - q /\ q \in Nat
    BY <1>1, <2>1, Shelf
  <2>3. IsFiniteSet(Units(o, I, v))
    <3>1. job[r] \in Job
      BY DEF TypeOK
    <3> QED
      BY <3>1, PieceFinite DEF Hand
  <2>4. d = c \/ d = c + q
    <3>1. Cardinality(Units(o, I \cup {i}, v)) = Cardinality(Units(o, I, v)) + q
      BY <2>3, LineUnits, ZenonT(30)
    <3>2. Piece(job[r], v) = Units(o, I, v) /\ (Piece(k, v) = Units(o, I, v) \/ Piece(k, v) = Units(o, I \cup {i}, v))
      BY DEF Hand
    <3> HIDE DEF q
    <3> QED
      BY <3>1, <3>2
  <2> HIDE DEF q, c, d
  <2>5. c \in Nat /\ d \in Nat /\ Free'[v] = Free[v] + (stock'[v] - stock[v]) - c + d
    BY <1>1 DEF c, d
  <2> QED
    BY <1>1, <2>2, <2>4, <2>5
<1> QED
  BY <1>1, <1>2, Losing

(* A line goes back from the hand to the shelf. *)
LEMMA PutsBack ==
  ASSUME TypeOK, TypeOK', AllFinite, NEW r \in Requests, NEW k \in Job, job' = [job EXCEPT ![r] = k],
         NEW o \in Orders, NEW i \in LinesOf(o), AddStock(Lines[o][i], Lines[o][i].qty),
         NEW I, i \notin I, I \subseteq LinesOf(o),
         Hand(job[r], o, I \cup {i}), Hand(k, o, I),
         Claims' = Claims
  PROVE  AllFinite' /\ Ledger!Next
<1>1. /\ AllFinite' /\ DOMAIN Free' = Variants
      /\ \A v \in Variants :
              /\ Free[v] \in Nat /\ Free'[v] \in Nat
              /\ Cardinality(Piece(job[r], v)) \in Nat /\ Cardinality(Piece(k, v)) \in Nat
              /\ stock[v] \in Nat /\ stock'[v] \in Nat
              /\ Free'[v] = Free[v] + (stock'[v] - stock[v])
                              - Cardinality(Piece(job[r], v)) + Cardinality(Piece(k, v))
  BY FreeStep
<1>2. ASSUME NEW v \in Variants PROVE Free'[v] <= Free[v]
  <2> DEFINE q == IF Lines[o][i].variant = v THEN Lines[o][i].qty ELSE 0
             c == Cardinality(Piece(job[r], v))
             d == Cardinality(Piece(k, v))
  <2>1. Lines[o][i].qty \in Nat /\ Lines[o][i].qty \in Int
    BY LineFacts
  <2>2. stock'[v] = stock[v] + q /\ q \in Nat
    BY <1>1, <2>1, Shelf
  <2>3. c = d + q
    <3>1. IsFiniteSet(Units(o, I, v))
      BY UnitsFinite
    <3>2. Cardinality(Units(o, I \cup {i}, v)) = Cardinality(Units(o, I, v)) + q
      BY <3>1, LineUnits, SMTT(20)
    <3>3. Piece(job[r], v) = Units(o, I \cup {i}, v) /\ Piece(k, v) = Units(o, I, v)
      BY DEF Hand
    <3> HIDE DEF q
    <3> QED
      BY <3>2, <3>3
  <2> HIDE DEF q, c, d
  <2>4. c \in Nat /\ d \in Nat /\ Free'[v] = Free[v] + (stock'[v] - stock[v]) - c + d
    BY <1>1 DEF c, d
  <2> QED
    BY <1>1, <2>2, <2>3, <2>4
<1> QED
  BY <1>1, <1>2, Losing

-------------------------------------------------------------------------------
(* The statements.                                                         *)
LedgerInv == Inv /\ FlagsInv /\ AllFinite

(* What a request in a loop is about. *)
LEMMA LoopFacts ==
  ASSUME Quiet, LedgerInv, NEW r \in Requests, job[r].pc \in {"reserve", "rollback", "release"}
  PROVE  LET j == job[r] IN
         /\ j \in Job /\ j.order \in Orders /\ j.order # NoOrder /\ j.prev.gone = {}
         /\ j.at \in LinesOf(j.order)
         /\ j.pc \in {"rollback", "release"} => j.at \in 1..j.upto /\ j.upto \in LinesOf(j.order)
         /\ r \in Orders => j.pc # "release" /\ j.order = r
         /\ r \in Admins => Reasoned(j) /\ ~j.err
<1>1. CASE r \in Orders
  <2>1. job[r] \in Job /\ WellFormed(r, job[r])
    BY DEF LedgerInv, Inv, TypeOK, JobOK
  <2>2. job[r].order = r /\ job[r].prev.gone = {} /\ job[r].pc # "release" /\ r \notin Admins /\ r # NoOrder
    BY <1>1, <2>1, OrdersDisjoint, OrderStockAssumption DEF WellFormed, NothingSeen
  <2>3. LinesOf(r) = 1..Len(Lines[r]) /\ Len(Lines[r]) \in Nat
    BY <1>1, LineFacts
  <2> QED
    BY <1>1, <2>1, <2>2, <2>3 DEF WellFormed
<1>2. CASE r \in Admins
  <2>1. /\ job[r] \in Job /\ job[r].order \in Orders /\ job[r].at \in LinesOf(job[r].order)
        /\ job[r].pc \in {"rollback", "release"} =>
             job[r].at \in 1..job[r].upto /\ job[r].upto \in LinesOf(job[r].order)
        /\ QuietJob(job[r], orders[job[r].order], held[job[r].order])
    BY <1>2, QuietJobFacts DEF LedgerInv
  <2>2. job[r].prev.gone = {} /\ Reasoned(job[r]) /\ ~job[r].err
    BY <2>1 DEF QuietJob, Reading
  <2>3. r \notin Orders /\ job[r].order # NoOrder
    BY <1>2, <2>1, OrdersDisjoint, OrderStockAssumption
  <2> QED
    BY <2>1, <2>2, <2>3
<1> QED
  BY <1>1, <1>2 DEF Requests

LEMMA ReserveLedger ==
  ASSUME Quiet, LedgerInv, TypeOK', NEW r \in Requests, Reserve(r)
  PROVE  AllFinite' /\ Ledger!Next
<1> DEFINE j == job[r]
           o == j.order
           i == j.at
           I == {m \in LinesOf(o) : m < i}
<1>1. j.pc = "reserve" /\ orders' = orders
  BY DEF Reserve
<1>2. /\ j \in Job /\ o \in Orders /\ o # NoOrder /\ j.prev.gone = {} /\ i \in LinesOf(o) /\ i \notin I
      /\ r \in Orders => o = r
      /\ r \in Admins => MustReserve(j.prev, j.want) /\ ~j.err
      /\ LinesOf(o) = 1..Len(Lines[o]) /\ Len(Lines[o]) \in Nat
  BY <1>1, LoopFacts, LineFacts DEF Reasoned
<1>3. InHand(j) = I /\ Hand(j, o, I)
  BY <1>1, <1>2 DEF InHand, Piece, Hand
<1>4. TypeOK /\ JobOK /\ AllFinite /\ Inv /\ FlagsInv
  BY DEF LedgerInv, Inv
<1>5. ASSUME NEW k \in Job, job' = [job EXCEPT ![r] = k],
             r \in Admins => \/ k.pc \in {"reserve", "rollback", "idle"}
                             \/ (k.pc = "write" /\ k.prev = j.prev /\ k.want = j.want)
      PROVE  Claims' = Claims
  <2>1. CASE r \in Orders
    BY <1>1, <1>4, <1>5, <2>1, CheckoutClaims
  <2>2. CASE r \in Admins
    <3>1. ~Releasing(k) /\ ~Releasing(j)
      BY <1>1, <1>2, <1>5, <2>2 DEF Releasing, MustReserve, MustRelease
    <3> QED
      BY <1>1, <1>4, <1>5, <2>2, <3>1, AdminClaims
  <2> QED
    BY <2>1, <2>2 DEF Requests
<1> HIDE DEF I
<1>6. CASE job' = [job EXCEPT ![r] = AfterReserve(r, j)] /\ AddStock(Lines[o][i], -Lines[o][i].qty)
  <2> DEFINE k == AfterReserve(r, j)
  <2>1. k \in Job
    BY <1>1, <1>2, <1>4, OwnsJob, AfterReserveOK DEF WellFormed
  <2>2. Hand(k, o, I \cup {i})
    BY <1>1, <1>2, <1>3, HandAfterReserve
  <2>3. r \in Admins => k.pc = "reserve" \/ (k.pc = "write" /\ k.prev = j.prev /\ k.want = j.want)
    BY <1>1, <1>2, QuietAfterReserve DEF Same
  <2>4. Claims' = Claims
    BY <1>5, <1>6, <2>1, <2>3
  <2>5. job' = [job EXCEPT ![r] = k] /\ AddStock(Lines[o][i], -Lines[o][i].qty)
    BY <1>6
  <2> HIDE DEF k, o, i
  <2> QED
    BY <1>2, <1>3, <1>4, <2>1, <2>2, <2>4, <2>5, Takes
<1>7. ASSUME NEW e \in Job, Owns(r, e), e.order = o, job' = [job EXCEPT ![r] = Undo(r, e, i - 1)],
             stock' = stock \/ AddStock(Lines[o][i], -Lines[o][i].qty)
      PROVE  AllFinite' /\ Ledger!Next
  <2> DEFINE k == Undo(r, e, i - 1)
  <2>1. i - 1 \in 0..Len(Lines[e.order]) /\ (i - 1) + 1 = i /\ i - 1 \in Nat
    BY <1>2, <1>7
  <2>2. k \in Job
    BY <1>7, <2>1, UndoOK DEF WellFormed
  <2>3. Hand(k, o, I)
    <3> DEFINE n == i - 1
    <3>1. n \in 0..Len(Lines[e.order]) /\ {m \in LinesOf(e.order) : m < n + 1} = I
      BY <1>2, <1>7, <2>1 DEF I
    <3>2. k = Undo(r, e, n)
      OBVIOUS
    <3> HIDE DEF n, k
    <3>3. Hand(Undo(r, e, n), e.order, {m \in LinesOf(e.order) : m < n + 1})
      BY <1>2, <1>7, <3>1, HandAfterUndo
    <3> QED
      BY <1>7, <3>1, <3>2, <3>3
  <2>4. r \in Admins => k.pc \in {"rollback", "idle"}
    BY <2>1, QuietUndo, IdleFacts
  <2>5. job' = [job EXCEPT ![r] = k]
    BY <1>7
  <2> HIDE DEF k
  <2>6. Claims' = Claims
    BY <1>5, <2>2, <2>4, <2>5
  <2>7. CASE stock' = stock
    <3>1. job[r] \in Job
      BY <1>2
    <3>2. \A v \in Variants : stock[v] \in Nat /\ stock'[v] <= stock[v]
      BY <1>4, <2>7 DEF TypeOK
    <3>3. \A v \in Variants : Cardinality(Piece(k, v)) = Cardinality(Piece(job[r], v)) /\ Cardinality(Piece(k, v)) \in Nat
      BY <1>3, <2>2, <2>3, PieceFinite DEF Hand
    <3>4. \A v \in Variants : /\ stock'[v] <= stock[v]
                             /\ Cardinality(Piece(k, v)) <= Cardinality(Piece(job[r], v))
      BY <3>2, <3>3
    <3> QED
      BY <1>4, <2>2, <2>6, <2>5, <3>4, Drops
  <2>8. CASE AddStock(Lines[o][i], -Lines[o][i].qty)
    <3> HIDE DEF o, i
    <3> QED
      BY <1>2, <1>3, <1>4, <2>2, <2>3, <2>6, <2>8, <2>5, Takes
  <2> QED
    BY <1>7, <2>7, <2>8
<1>8. Owns(r, j) /\ Owns(r, Erred(j)) /\ Erred(j) \in Job /\ Erred(j).order = o
  BY <1>1, <1>2, <1>4, OwnsJob, ErredOwns, ErredFacts
<1> QED
  BY <1>2, <1>6, <1>7, <1>8 DEF Reserve

LEMMA ReleaseLedger ==
  ASSUME Quiet, LedgerInv, TypeOK', NEW r \in Requests, Release(r)
  PROVE  AllFinite' /\ Ledger!Next
<1> DEFINE j == job[r]
           o == j.order
           i == j.at
           I == InHand(j) \ {i}
<1>1. j.pc \in {"rollback", "release"} /\ orders' = orders
  BY DEF Release
<1>2. /\ j \in Job /\ o \in Orders /\ o # NoOrder /\ j.prev.gone = {} /\ i \in LinesOf(o) /\ i \notin I
      /\ j.at \in 1..j.upto /\ j.upto \in LinesOf(o)
      /\ r \in Orders => j.pc # "release" /\ o = r
      /\ r \in Admins => Reasoned(j) /\ ~j.err
      /\ LinesOf(o) = 1..Len(Lines[o]) /\ Len(Lines[o]) \in Nat
  BY <1>1, LoopFacts, LineFacts
<1>3. TypeOK /\ JobOK /\ AllFinite /\ Inv /\ FlagsInv
  BY DEF LedgerInv, Inv
<1>4. j.pc = "release" => r \in Admins /\ MustRelease(j.prev, j.want) /\ ~MustReserve(j.prev, j.want)
  BY <1>2 DEF Reasoned, MustRelease, MustReserve, Requests
<1>5. I \subseteq LinesOf(o) /\ InHand(j) = I \cup {i} /\ Hand(j, o, I \cup {i})
  <2>1. I \subseteq LinesOf(o)
    BY <1>1, <1>2 DEF InHand
  <2>2. InHand(j) = I \cup {i}
    BY <1>1, <1>2, <1>4, HandAfterRelease
  <2> QED
    BY <2>1, <2>2 DEF Hand, Piece
<1>6. ASSUME NEW e \in Job, e.pc = j.pc, e.at = j.at, e.upto = j.upto, e.order = o, e.prev = j.prev, e.want = j.want,
             Owns(r, e), WellFormed(r, e), r \in Admins => e = j, job' = [job EXCEPT ![r] = AfterRelease(r, e)],
             stock' = stock \/ AddStock(Lines[o][i], Lines[o][i].qty)
      PROVE  AllFinite' /\ Ledger!Next
  <2> DEFINE k == AfterRelease(r, e)
  <2>1. k \in Job
    BY <1>1, <1>6, AfterReleaseOK DEF WellFormed
  <2>2. Hand(k, o, I)
    <3>1. InHand(e) = InHand(j)
      BY <1>6 DEF InHand
    <3>2. Hand(k, e.order, InHand(e) \ {e.at})
      BY <1>1, <1>2, <1>4, <1>6, HandAfterRelease
    <3> QED
      BY <1>6, <3>1, <3>2
  <2>3. Claims' = Claims
    <3>1. CASE r \in Orders
      BY <1>1, <1>3, <1>6, <3>1, CheckoutClaims
    <3>2. CASE r \in Admins
      <4>1. \/ j.pc = "rollback" /\ k.pc \in {"rollback", "idle"}
            \/ /\ j.pc = "release" /\ k.pc \in {"release", "write"}
               /\ k.order = o /\ k.prev = j.prev /\ k.want = j.want
        BY <1>1, <1>2, <1>6, <3>2, QuietAfterRelease, IdleFacts DEF Same
      <4>2. \/ k.order = o /\ Releasing(k) /\ Releasing(j)
            \/ ~Releasing(k) /\ ~Releasing(j)
        BY <1>4, <4>1 DEF Releasing
      <4>3. job' = [job EXCEPT ![r] = k]
        BY <1>6
      <4> HIDE DEF k
      <4> QED
        BY <1>1, <1>3, <3>2, <4>2, <4>3, AdminClaims
    <3> QED
      BY <3>1, <3>2 DEF Requests
  <2>4. job' = [job EXCEPT ![r] = k]
    BY <1>6
  <2> HIDE DEF k
  <2>5. CASE stock' = stock
    <3>1. \A v \in Variants : stock[v] \in Nat /\ stock'[v] <= stock[v]
      BY <1>3, <2>5 DEF TypeOK
    <3>2. ASSUME NEW v \in Variants PROVE Cardinality(Piece(k, v)) <= Cardinality(Piece(job[r], v))
      <4> DEFINE q == IF Lines[o][i].variant = v THEN Lines[o][i].qty ELSE 0
      <4>1. IsFiniteSet(Units(o, I, v)) /\ Cardinality(Units(o, I, v)) \in Nat /\ q \in Nat
        <5> HIDE DEF I
        <5> QED
          BY <1>2, <1>5, UnitsFinite, LineFacts
      <4>2. Cardinality(Units(o, I \cup {i}, v)) = Cardinality(Units(o, I, v)) + q
        <5>1. o \in Orders /\ i \in LinesOf(o) /\ i \notin I /\ IsFiniteSet(Units(o, I, v))
          BY <1>2, <4>1
        <5> HIDE DEF o, i, I
        <5> QED
          BY <5>1, LineUnits
      <4>3. Piece(k, v) = Units(o, I, v) /\ Piece(job[r], v) = Units(o, I \cup {i}, v)
        BY <1>5, <2>2 DEF Hand
      <4> HIDE DEF q
      <4> QED
        BY <4>1, <4>2, <4>3
    <3> QED
      BY <1>3, <2>1, <2>3, <2>4, <3>1, <3>2, Drops
  <2>6. CASE AddStock(Lines[o][i], Lines[o][i].qty)
    <3> HIDE DEF o, i, I
    <3> QED
      BY <1>2, <1>3, <1>5, <2>1, <2>2, <2>3, <2>4, <2>6, PutsBack
  <2> QED
    BY <1>6, <2>5, <2>6
<1>7. /\ Owns(r, j) /\ WellFormed(r, j)
      /\ Owns(r, Erred(j)) /\ WellFormed(r, Erred(j))
      /\ Erred(j) \in Job /\ Erred(j).pc = j.pc /\ Erred(j).at = j.at /\ Erred(j).upto = j.upto
      /\ Erred(j).order = o /\ Erred(j).prev = j.prev /\ Erred(j).want = j.want
  <2>1. Owns(r, j) /\ WellFormed(r, j)
    BY <1>1, <1>3, OwnsJob DEF JobOK
  <2>2. /\ Erred(j) \in Job /\ Erred(j).pc = j.pc /\ Erred(j).at = j.at /\ Erred(j).upto = j.upto
        /\ Erred(j).order = o /\ Erred(j).prev = j.prev /\ Erred(j).want = j.want
    BY <1>2, ErredFacts
  <2>3. Owns(r, Erred(j))
    BY <1>2, <2>1, ErredOwns
  <2>4. WellFormed(r, Erred(j))
    BY <2>1, <2>2, <2>3 DEF WellFormed
  <2> QED
    BY <2>1, <2>2, <2>3, <2>4
<1>8. CASE job' = [job EXCEPT ![r] = AfterRelease(r, j)]
  <2>1. stock' = stock \/ AddStock(Lines[o][i], Lines[o][i].qty)
    BY DEF Release
  <2> QED
    BY <1>2, <1>6, <1>7, <1>8, <2>1
<1>9. CASE job' = [job EXCEPT ![r] = AfterRelease(r, Erred(j))] /\ r \in Orders
  <2>1. stock' = stock \/ AddStock(Lines[o][i], Lines[o][i].qty)
    BY DEF Release
  <2>2. r \notin Admins
    BY <1>9, OrdersDisjoint
  <2> QED
    BY <1>6, <1>7, <1>9, <2>1, <2>2
<1>10. r \in Admins => job' = [job EXCEPT ![r] = AfterRelease(r, j)]
  BY <1>1, <1>2, <1>3, AdminRuns DEF Release
<1> QED
  BY <1>8, <1>9, <1>10 DEF Release, Requests

LEMMA FirstTurn ==
  ASSUME NEW j \in Job
  PROVE  LET k == Move(j, "reserve", 1, j.upto)
         IN  k \in Job /\ k.pc = "reserve" /\ k.at = 1 /\ k.order = j.order
<1>1. "reserve" \in Steps /\ 1 \in Nat /\ j.upto \in Nat
  BY DEF Steps, Job
<1> DEFINE n == j.upto
<1>2. n \in Nat
  BY <1>1
<1> HIDE DEF n
<1>3. LET k == Move(j, "reserve", 1, n)
      IN  k \in Job /\ k.pc = "reserve" /\ k.at = 1 /\ k.order = j.order
  BY <1>1, <1>2, MoveFacts
<1> QED
  BY <1>3 DEF n

(* A checkout that reads, or that ends with what it has in hand, moves no claim. *)
LEMMA BeginLedger ==
  ASSUME Quiet, LedgerInv, TypeOK', NEW o \in Orders, Begin(o) \/ CheckLine(o)
  PROVE  AllFinite' /\ Ledger!Next
<1>1. /\ TypeOK /\ JobOK /\ AllFinite /\ Inv /\ job[o] \in Job /\ WellFormed(o, job[o]) /\ o \in Requests
      /\ o \notin Admins /\ job[o].at \in Nat /\ job[o].upto \in Nat
  BY OrdersDisjoint DEF LedgerInv, Inv, TypeOK, JobOK, Job
<1>2. PICK k \in Job : /\ job' = [job EXCEPT ![o] = k] /\ stock' = stock /\ orders' = orders
                       /\ \/ k.pc \in {"check", "failed"}
                          \/ k.pc = "reserve" /\ k.at = 1 /\ k.order = o
  <2>1. {"check", "failed", "reserve"} \subseteq Steps /\ 1 \in Nat
    BY DEF Steps
  <2>2. Goto(job[o], "check") \in Job /\ Goto(job[o], "check").pc = "check"
    BY <1>1, <2>1, GotoFacts
  <2>3. Goto(job[o], "failed") \in Job /\ Goto(job[o], "failed").pc = "failed"
    BY <1>1, <2>1, GotoFacts
  <2>4. Advance(job[o]) \in Job /\ Advance(job[o]).pc = job[o].pc
    BY <1>1, AdvanceFacts
  <2> DEFINE first == Move(job[o], "reserve", 1, job[o].upto)
  <2>5. first \in Job /\ first.pc = "reserve" /\ first.at = 1 /\ first.order = job[o].order
    BY <1>1, FirstTurn
  <2>6. job[o].order = o
    BY <1>1 DEF WellFormed
  <2>7. CASE Begin(o)
    BY <2>2, <2>7 DEF Begin
  <2>8. CASE CheckLine(o)
    BY <1>1, <2>3, <2>4, <2>5, <2>6, <2>8 DEF CheckLine, Failed
  <2> QED
    BY <2>7, <2>8
<1>3. InHand(k) = {}
  BY <1>2, LineFacts DEF InHand
<1>4. \A v \in Variants : /\ stock'[v] <= stock[v]
                          /\ Cardinality(Piece(k, v)) <= Cardinality(Piece(job[o], v))
  <2>1. \A v : Cardinality(Piece(k, v)) = 0
    BY <1>3, NoUnits, FS_EmptySet DEF Piece
  <2>3. \A v : Cardinality(Piece(job[o], v)) \in Nat
    BY <1>1, PieceFinite
  <2>2. \A v \in Variants : stock[v] \in Nat
    BY <1>1 DEF TypeOK
  <2> QED
    BY <1>2, <2>1, <2>2, <2>3
<1> QED
  BY <1>1, <1>2, <1>4, CheckoutClaims, Drops

(* An order whose checkout has not written it is not marked reserved. *)
Blank == \A o \in Orders : ~orders[o].placed => ~orders[o].reserved

LEMMA BlankInit == Init => Blank
  BY DEF Init, Blank

LEMMA BlankNext == Inv /\ Blank /\ [Next]_vars => Blank'
<1> SUFFICES ASSUME Inv, Blank, [Next]_vars PROVE Blank'
  OBVIOUS
<1>1. CASE UNCHANGED orders
  BY <1>1 DEF Blank
<1>2. ASSUME NEW o \in Orders, orders' = [orders EXCEPT ![o].placed = TRUE, ![o].reserved = TRUE] PROVE Blank'
  <2>1. orders'[o].placed /\ \A q \in Orders : q # o => orders'[q] = orders[q]
    BY <1>2 DEF Inv, TypeOK
  <2> QED
    BY <2>1 DEF Blank
<1>3. ASSUME NEW a \in Admins, Write(a) PROVE Blank'
  <2> DEFINE o == job[a].order
  <2>1. o \in Orders /\ orders[o].placed
    BY <1>3, AdminJob DEF Write, Inv
  <2>2. orders[o] \in [placed : BOOLEAN, status : Statuses, reserved : BOOLEAN, released : BOOLEAN]
    BY <2>1 DEF Inv, TypeOK
  <2> DEFINE new == Written(orders[o], job[a].prev, job[a].want)
  <2>3. new.placed = orders[o].placed
    BY <2>2, Zenon DEF Written
  <2>4. orders' = orders \/ orders' = [orders EXCEPT ![o] = new]
    BY <1>3 DEF Write
  <2> HIDE DEF new, o
  <2>5. \A q \in Orders : orders'[q] = orders[q] \/ (q = o /\ orders'[q] = new)
    BY <2>1, <2>4 DEF Inv, TypeOK
  <2> QED
    BY <2>1, <2>3, <2>5 DEF Blank
<1>4. ASSUME NEW o \in Orders, Persist(o) PROVE Blank'
  BY <1>1, <1>2, <1>4 DEF Persist
<1> QED
  BY <1>1, <1>3, <1>4
     DEF Next, Step, Begin, CheckLine, Reserve, Release, Patch, Disconnect, Crash, DeleteProduct, DropVariant, vars

-------------------------------------------------------------------------------
(* The steps that grant a claim or give it back.                           *)

(* Only the row of o is written. *)
OnlyRow(o) == \A q \in Orders : q # o => orders'[q] = orders[q]

(* An administrator at j is at work on o or on nothing. *)
On(r, j, o) == r \in Admins => j.order \in {o, NoOrder}

(* The request r goes on to k. *)
Goes(r, k) == job' = [job EXCEPT ![r] = k]

LEMMA ClaimStep ==
  ASSUME Inv, NEW r \in Requests, NEW k, Goes(r, k), NEW o \in Orders,
         OnlyRow(o),
         On(r, job[r], o), On(r, k, o), NEW c, ClaimOf(o)' = c
  PROVE  Claims' = [Claims EXCEPT ![o] = c]
<1>1. job'[r] = k /\ \A b \in Requests : b # r => job'[b] = job[b]
  BY DEF Inv, TypeOK, Goes
<1>2. ASSUME NEW q \in Orders, q # o PROVE ClaimOf(q)' = ClaimOf(q)
  <2>1. (\E b \in Admins : job'[b].order = q /\ Releasing(job'[b]))
          <=> \E b \in Admins : job[b].order = q /\ Releasing(job[b])
    <3>1. \A b \in Admins : b # r => job'[b] = job[b]
      BY <1>1, OrdersDisjoint
    <3>2. r \in Admins => job[r].order # q /\ job'[r].order # q
      BY <1>1, <1>2, OrderStockAssumption DEF On
    <3> QED
      BY <3>1, <3>2
  <2>2. orders'[q] = orders[q]
    BY <1>2 DEF OnlyRow
  <2> QED
    BY <2>1, <2>2 DEF ClaimOf, Releasing
<1> QED
  BY <1>2 DEF Claims

LEMMA Granted ==
  ASSUME TypeOK, TypeOK', AllFinite, NEW r \in Requests, NEW k \in Job, job' = [job EXCEPT ![r] = k],
         stock' = stock, NEW o \in Orders, Hand(job[r], o, LinesOf(o)), Hand(k, o, {}),
         Claims[o] = "none", Claims' = [Claims EXCEPT ![o] = "held"]
  PROVE  AllFinite' /\ Ledger!Next
<1>1. /\ AllFinite' /\ DOMAIN Free' = Variants
      /\ \A v \in Variants :
              /\ Free[v] \in Nat /\ Free'[v] \in Nat
              /\ Cardinality(Piece(job[r], v)) \in Nat /\ Cardinality(Piece(k, v)) \in Nat
              /\ stock[v] \in Nat
              /\ Cardinality(Piece(job[r], v)) <= Free[v]
              /\ Free'[v] = Free[v] + (stock'[v] - stock[v])
                              - Cardinality(Piece(job[r], v)) + Cardinality(Piece(k, v))
  BY FreeStep
<1>2. ASSUME NEW v \in Variants
      PROVE  Needs[o][v] <= Free[v] /\ Free'[v] = Free[v] - Needs[o][v]
  <2>1. Needs[o][v] = Cardinality(Piece(job[r], v))
    BY DEF Needs, Hand
  <2>2. Cardinality(Piece(k, v)) = 0
    BY NoUnits, FS_EmptySet DEF Hand
  <2> QED
    BY <1>1, <2>1, <2>2
<1>3. Free' = [v \in Variants |-> Free[v] - Needs[o][v]]
  <2>1. Free' = [v \in Variants |-> Free'[v]]
    BY DEF Free
  <2> QED
    BY <1>2, <2>1
<1>4. Ledger!Grant(o)
  BY <1>2, <1>3 DEF Ledger!Grant, Claims
<1> QED
  BY <1>1, <1>4 DEF Ledger!Next

LEMMA GivenBack ==
  ASSUME TypeOK, TypeOK', AllFinite, NEW r \in Requests, NEW k \in Job, job' = [job EXCEPT ![r] = k],
         stock' = stock, NEW o \in Orders, Hand(job[r], o, {}), Hand(k, o, LinesOf(o)),
         Claims[o] = "held", Claims' = [Claims EXCEPT ![o] = "returned"]
  PROVE  AllFinite' /\ Ledger!Next
<1>1. /\ AllFinite' /\ DOMAIN Free' = Variants
      /\ \A v \in Variants :
              /\ Free[v] \in Nat /\ Free'[v] \in Nat
              /\ Cardinality(Piece(job[r], v)) \in Nat /\ Cardinality(Piece(k, v)) \in Nat
              /\ stock[v] \in Nat
              /\ Free'[v] = Free[v] + (stock'[v] - stock[v])
                              - Cardinality(Piece(job[r], v)) + Cardinality(Piece(k, v))
  BY FreeStep
<1>2. ASSUME NEW v \in Variants
      PROVE  Free'[v] = Free[v] + Needs[o][v]
  <2>1. Needs[o][v] = Cardinality(Piece(k, v))
    BY DEF Needs, Hand
  <2>2. Cardinality(Piece(job[r], v)) = 0
    BY NoUnits, FS_EmptySet DEF Hand
  <2> QED
    BY <1>1, <2>1, <2>2
<1>3. Free' = [v \in Variants |-> Free[v] + Needs[o][v]]
  <2>1. Free' = [v \in Variants |-> Free'[v]]
    BY DEF Free
  <2> QED
    BY <1>2, <2>1
<1>4. Ledger!GiveBack(o)
  BY <1>3 DEF Ledger!GiveBack, Claims
<1> QED
  BY <1>1, <1>4 DEF Ledger!Next

(* With no order, or none of the loops, a hand is empty. *)
LEMMA EmptyHand ==
  ASSUME NEW j, NEW o,
         \/ j.pc \in {"idle", "done", "failed", "lost"}
         \/ j.pc = "write" /\ ~MustReserve(j.prev, j.want)
  PROVE  Hand(j, o, {})
<1>1. InHand(j) = {}
  BY DEF InHand
<1> QED
  BY <1>1, NoUnits DEF Hand, Piece

(* A step that leaves the shelf and the hand alone. *)
LEMMA StaysInHand ==
  ASSUME TypeOK, TypeOK', AllFinite, NEW r \in Requests, NEW k \in Job, job' = [job EXCEPT ![r] = k],
         stock' = stock, NEW o, NEW I, Hand(job[r], o, I), Hand(k, o, I) \/ Hand(k, o, {}), Claims' = Claims
  PROVE  AllFinite' /\ Ledger!Next
<1>1. \A v \in Variants : stock[v] \in Nat /\ job[r] \in Job
  BY DEF TypeOK
<1>2. ASSUME NEW v \in Variants PROVE Cardinality(Piece(k, v)) <= Cardinality(Piece(job[r], v))
  <2>1. Cardinality(Piece(job[r], v)) \in Nat
    BY <1>1, PieceFinite
  <2>2. Piece(k, v) = Piece(job[r], v) \/ Piece(k, v) = {}
    BY NoUnits DEF Hand
  <2>3. Cardinality({}) = 0
    BY FS_EmptySet
  <2> QED
    BY <2>1, <2>2, <2>3
<1>3. \A v \in Variants : /\ stock'[v] <= stock[v]
                          /\ Cardinality(Piece(k, v)) <= Cardinality(Piece(job[r], v))
  BY <1>1, <1>2
<1> QED
  BY <1>3, Drops

LEMMA PersistLedger ==
  ASSUME Quiet, LedgerInv, Blank, TypeOK', NEW o \in Orders, Persist(o)
  PROVE  AllFinite' /\ Ledger!Next
<1> DEFINE j == job[o]
           n == Len(Lines[o])
<1>1. /\ TypeOK /\ JobOK /\ AllFinite /\ Inv /\ FlagsInv /\ CheckoutInv
      /\ j.pc = "persist" /\ stock' = stock
  BY DEF LedgerInv, Inv, Persist
<1>2. j \in Job /\ j.order = o /\ ~orders[o].placed /\ ~orders[o].reserved /\ ~orders[o].released
  BY <1>1, NotDone DEF Blank
<1>3. /\ o \in Requests /\ o \notin Admins /\ o # NoOrder
      /\ LinesOf(o) = 1..n /\ n \in Nat
  BY OrdersDisjoint, OrderStockAssumption, LineFacts
<1>4. Hand(j, o, LinesOf(o))
  BY <1>1, <1>2, <1>3 DEF InHand, Hand, Piece
<1>5. ~Fault(o, "reload")
  BY <1>3 DEF Quiet, Fault
<1>6. CASE job' = [job EXCEPT ![o] = Undo(o, j, n)] /\ orders' = orders
  <2> DEFINE k == Undo(o, j, n)
  <2>1. k \in Job
    <3>1. Owns(o, j)
      BY <1>1, <1>3, OwnsJob
    <3>2. n \in 0..Len(Lines[j.order])
      BY <1>2, <1>3
    <3> QED
      BY <1>3, <3>1, <3>2, UndoOK DEF WellFormed
  <2>2. Hand(k, o, LinesOf(o))
    <3>1. n \in 0..Len(Lines[j.order]) /\ {i \in LinesOf(j.order) : i < n + 1} = LinesOf(o)
      BY <1>2, <1>3
    <3> HIDE DEF n
    <3>2. Hand(Undo(o, j, n), j.order, {i \in LinesOf(j.order) : i < n + 1})
      BY <1>2, <1>3, <3>1, HandAfterUndo
    <3> QED
      BY <1>2, <3>1, <3>2
  <2>3. job' = [job EXCEPT ![o] = k]
    BY <1>6
  <2> HIDE DEF k
  <2>4. Claims' = Claims
    BY <1>1, <1>6, <2>3, CheckoutClaims
  <2> QED
    BY <1>1, <1>3, <1>4, <2>1, <2>2, <2>3, <2>4, StaysInHand
<1>7. CASE /\ job' = [job EXCEPT ![o] = Goto(j, "done")]
           /\ orders' = [orders EXCEPT ![o].placed = TRUE, ![o].reserved = TRUE]
  <2> DEFINE k == Goto(j, "done")
  <2>1. k \in Job /\ k.pc = "done"
    <3>1. "done" \in Steps
      BY DEF Steps
    <3> QED
      BY <1>2, <3>1, GotoFacts
  <2>2. job' = [job EXCEPT ![o] = k]
    BY <1>7
  <2> HIDE DEF k
  <2>3. orders[o] \in [placed : BOOLEAN, status : Statuses, reserved : BOOLEAN, released : BOOLEAN]
    BY <1>1 DEF TypeOK
  <2>4. orders'[o] = [orders[o] EXCEPT !.placed = TRUE, !.reserved = TRUE]
    BY <1>1, <1>7, Zenon DEF TypeOK
  <2>5. orders'[o].reserved /\ ~orders'[o].released
    BY <1>2, <2>3, <2>4
  <2>6. OnlyRow(o)
    BY <1>1, <1>7 DEF TypeOK, OnlyRow
  <2>7. \A a \in Admins : job'[a] = job[a] /\ (Releasing(job[a]) => job[a].order # o)
    <3>1. \A a \in Admins : job'[a] = job[a]
      BY <1>1, <2>2, OrdersDisjoint DEF TypeOK
    <3>2. \A a \in Admins : Releasing(job[a]) => job[a].pc # "idle"
      BY DEF Releasing
    <3> QED
      BY <1>1, <1>2, <3>1, <3>2, AdminJob
  <2>8. Claims[o] = "none"
    BY <1>2 DEF Claims, ClaimOf
  <2>9. ClaimOf(o)' = "held"
    BY <2>5, <2>7 DEF ClaimOf, Releasing
  <2>10. Claims' = [Claims EXCEPT ![o] = "held"]
    <3>1. On(o, j, o) /\ On(o, k, o) /\ Goes(o, k)
      BY <1>3, <2>2 DEF On, Goes
    <3> QED
      BY <1>1, <1>3, <2>6, <2>9, <3>1, ClaimStep
  <2>11. Hand(k, o, {})
    BY <2>1, EmptyHand
  <2> QED
    BY <1>1, <1>3, <1>4, <2>1, <2>2, <2>8, <2>10, <2>11, Granted
<1> QED
  BY <1>5, <1>6, <1>7 DEF Persist

(* A PATCH that cancels an order begins to give back what it claims; any other has
   nothing in hand yet.                                                     *)
LEMMA PatchLedger ==
  ASSUME Quiet, LedgerInv, TypeOK', NEW a \in Admins, NEW o \in Orders, NEW want \in Statuses, Patch(a, o, want)
  PROVE  AllFinite' /\ Ledger!Next
<1> DEFINE prev == [status |-> orders[o].status, reserved |-> orders[o].reserved,
                    released |-> orders[o].released,
                    gone |-> {i \in LinesOf(o) :
                                ProductOf[Lines[o][i].variant] \notin products}]
           pc == IF MustReserve(prev, want) THEN "reserve"
                 ELSE IF MustRelease(prev, want) THEN "release" ELSE "write"
           n == Len(Lines[o])
           k == Started(pc, o, n, want, prev)
<1>1. /\ TypeOK /\ JobOK /\ AllFinite /\ Inv /\ FlagsInv /\ CheckoutInv
      /\ job[a].pc = "idle" /\ orders[o].placed /\ stock' = stock /\ orders' = orders
      /\ job' = [job EXCEPT ![a] = k]
  BY DEF Patch, LedgerInv, Inv
<1>2. a \in Requests /\ o # NoOrder /\ LinesOf(o) = 1..n /\ n \in Nat
  BY OrdersDisjoint, OrderStockAssumption, LineFacts
<1>3. job[a].order = NoOrder
  BY <1>1 DEF FlagsInv, QuietAdmin
<1>4. \A b \in Admins : b # a => job[b].order # o
  <2>1. \A r \in Requests \ {a} : job[r].order = o => job[r].pc \in {"done", "failed", "lost"}
    BY DEF Patch, Quiet
  <2>2. ASSUME NEW b \in Admins, b # a, job[b].order = o PROVE FALSE
    <3>1. job[b].pc \in {"done", "failed", "lost"}
      BY <2>1, <2>2, OrdersDisjoint
    <3> QED
      BY <1>1, <3>1, OrdersDisjoint DEF JobOK, WellFormed
  <2> QED
    BY <2>2
<1>5. k.pc = pc /\ k.at = 1 /\ k.upto = n /\ k.order = o /\ k.want = want /\ k.prev = prev
  BY DEF Started
<1>6. /\ \/ pc = "reserve"
         \/ pc = "write" /\ ~MustReserve(prev, want) /\ ~MustRelease(prev, want)
         \/ pc = "release" /\ MustRelease(prev, want)
      /\ MustRelease(prev, want) => orders[o].reserved /\ ~orders[o].released
  <2>1. prev.reserved = orders[o].reserved /\ prev.released = orders[o].released
    OBVIOUS
  <2> HIDE DEF prev
  <2> QED
    BY <2>1 DEF MustRelease
<1>7. k \in Job
  <2>1. job'[a] = k
    BY <1>1, <1>2 DEF TypeOK
  <2> QED
    BY <1>2, <2>1 DEF TypeOK
<1> HIDE DEF k, prev, pc, n
<1>8. Hand(job[a], o, {})
  BY <1>1, EmptyHand
<1>9. CASE pc # "release"
  <2>1. Hand(k, o, {})
    <3>1. CASE pc = "write"
      BY <1>5, <1>6, <3>1, EmptyHand
    <3>2. CASE pc = "reserve"
      <4>1. InHand(k) = {}
        BY <1>2, <1>5, <3>2 DEF InHand
      <4> QED
        BY <4>1, NoUnits DEF Hand, Piece
    <3> QED
      BY <1>6, <1>9, <3>1, <3>2
  <2>2. ~Releasing(k) /\ ~Releasing(job[a])
    BY <1>1, <1>5, <1>6, <1>9 DEF Releasing
  <2>3. Claims' = Claims
    BY <1>1, <2>2, AdminClaims
  <2> QED
    BY <1>1, <1>2, <1>7, <1>8, <2>1, <2>3, StaysInHand
<1>10. CASE pc = "release"
  <2>1. Hand(k, o, LinesOf(o))
    <3>1. InHand(k) = LinesOf(o)
      BY <1>2, <1>5, <1>10 DEF InHand
    <3> QED
      BY <1>5, <3>1 DEF Hand, Piece
  <2>2. orders[o].reserved /\ ~orders[o].released
    BY <1>6, <1>10
  <2>3. \A b \in Admins : job[b].order = o => ~Releasing(job[b])
    BY <1>1, <1>4 DEF Releasing
  <2>4. Claims[o] = "held"
    BY <2>2, <2>3 DEF Claims, ClaimOf
  <2>5. job'[a].order = o /\ Releasing(job'[a])
    BY <1>1, <1>2, <1>5, <1>10 DEF Releasing, TypeOK
  <2>6. ClaimOf(o)' = "returned"
    BY <1>1, <2>2, <2>5 DEF ClaimOf, Releasing
  <2>7. Claims' = [Claims EXCEPT ![o] = "returned"]
    <3>1. On(a, job[a], o) /\ On(a, k, o)
      BY <1>3, <1>5 DEF On
    <3>2. OnlyRow(o)
      BY <1>1 DEF OnlyRow
    <3>3. Inv /\ Goes(a, k) /\ a \in Requests
      BY <1>1, <1>2 DEF Goes
    <3> QED
      BY <2>6, <3>1, <3>2, <3>3, ClaimStep
  <2> QED
    BY <1>1, <1>2, <1>7, <1>8, <2>1, <2>4, <2>7, GivenBack
<1> QED
  BY <1>9, <1>10

(* An administrator who is done with o. *)
LEMMA DoneClaim ==
  ASSUME Inv, NEW a \in Admins, NEW o \in Orders, job[a].order = o,
         Goes(a, Idle), OnlyRow(o), NEW c, ClaimOf(o)' = c
  PROVE  Claims' = [Claims EXCEPT ![o] = c]
<1>1. PICK k : k = Idle
  OBVIOUS
<1>2. a \in Requests /\ Goes(a, k)
  BY <1>1, OrdersDisjoint
<1>3. On(a, job[a], o) /\ On(a, k, o)
  BY <1>1, IdleFacts DEF On
<1> QED
  BY <1>2, <1>3, ClaimStep

(* The UPDATE at the end of a PATCH: of an order it has taken the lines of, the claim;
   of an order it has given the lines back of, what was already said.         *)
LEMMA WriteLedger ==
  ASSUME Quiet, LedgerInv, TypeOK', NEW a \in Admins, NEW o \in Orders, o = job[a].order, Write(a)
  PROVE  AllFinite' /\ Ledger!Next
<1> DEFINE j == job[a]
           row == orders[o]
           new == Written(row, j.prev, j.want)
<1>1. /\ TypeOK /\ JobOK /\ AllFinite /\ Inv /\ FlagsInv /\ CheckoutInv
      /\ j.pc = "write" /\ stock' = stock
  BY DEF Write, LedgerInv, Inv
<1>2. /\ j \in Job /\ o \in Orders /\ row.placed /\ QuietJob(j, row, held[o])
      /\ \A b \in Admins : b # a => job[b].order # o
      /\ row.released => row.reserved
      /\ a \in Requests /\ o # NoOrder
  BY <1>1, QuietJobFacts, OrdersDisjoint, OrderStockAssumption
<1>3. Reading(j, row)
  BY <1>2 DEF QuietJob
<1>4. orders' = [orders EXCEPT ![o] = new] /\ job' = [job EXCEPT ![a] = Idle]
  BY <1>1, AdminRuns DEF Write
<1>5. row \in [placed : BOOLEAN, status : Statuses, reserved : BOOLEAN, released : BOOLEAN]
      /\ j.prev \in Seen
  BY <1>1, <1>2 DEF TypeOK, Job
<1> HIDE DEF new
<1>6. orders'[o] = new /\ \A q \in Orders : q # o => orders'[q] = orders[q]
  BY <1>1, <1>2, <1>4 DEF TypeOK
<1>7. /\ new.reserved <=> IF MustReserve(j.prev, j.want) \/ MustRelease(j.prev, j.want)
                          THEN MustReserve(j.prev, j.want) \/ j.prev.reserved
                          ELSE row.reserved
      /\ new.released <=> IF MustReserve(j.prev, j.want) \/ MustRelease(j.prev, j.want)
                          THEN MustRelease(j.prev, j.want) \/ j.prev.released
                          ELSE row.released
  BY <1>5, WrittenFacts DEF new
<1>8. Idle \in Job /\ Idle.pc = "idle" /\ Idle.order = NoOrder /\ Hand(Idle, o, {})
  BY IdleFacts, EmptyHand
<1>9. \A b \in Admins : job'[b].order # o
  <2>1. job'[a] = Idle /\ \A b \in Admins : b # a => job'[b] = job[b]
    BY <1>1, <1>2, <1>4, OrdersDisjoint DEF TypeOK
  <2> QED
    BY <1>2, <1>8, <2>1
<1>10. OnlyRow(o) /\ Goes(a, Idle) /\ job[a].order = o
  BY <1>4, <1>6 DEF OnlyRow, Goes
<1>11. ClaimOf(o)' = IF ~new.reserved THEN "none" ELSE IF new.released THEN "returned" ELSE "held"
  BY <1>6, <1>9 DEF ClaimOf
<1>12. Claims[o] = IF ~row.reserved THEN "none"
                   ELSE IF row.released \/ MustRelease(j.prev, j.want) THEN "returned" ELSE "held"
  <2>1. (\E b \in Admins : job[b].order = o /\ Releasing(job[b])) <=> MustRelease(j.prev, j.want)
    BY <1>1, <1>2 DEF Releasing
  <2>2. Claims[o] = ClaimOf(o)
    BY <1>2 DEF Claims
  <2> QED
    BY <2>1, <2>2 DEF ClaimOf
<1>13. CASE MustReserve(j.prev, j.want)
  <2>1. Hand(j, o, LinesOf(o))
    BY <1>1, <1>2, <1>13 DEF InHand, Hand, Piece
  <2>2. ~row.reserved /\ new.reserved /\ ~new.released
    BY <1>2, <1>3, <1>7, <1>13 DEF Reading, MustReserve, MustRelease
  <2>3. Claims[o] = "none" /\ ClaimOf(o)' = "held"
    BY <1>11, <1>12, <2>2
  <2>4. Claims' = [Claims EXCEPT ![o] = "held"]
    BY <1>1, <1>10, <2>3, DoneClaim
  <2> QED
    BY <1>1, <1>2, <1>4, <1>8, <2>1, <2>3, <2>4, Granted
<1>14. CASE ~MustReserve(j.prev, j.want)
  <2>1. Hand(j, o, {})
    BY <1>1, <1>14, EmptyHand
  <2>2. ClaimOf(o)' = Claims[o]
    BY <1>2, <1>3, <1>7, <1>11, <1>12, <1>14 DEF Reading, MustRelease
  <2>3. Claims' = [Claims EXCEPT ![o] = Claims[o]]
    BY <1>1, <1>10, <2>2, DoneClaim
  <2>4. Claims' = Claims
    BY <2>3 DEF Claims
  <2> QED
    BY <1>1, <1>2, <1>4, <1>8, <2>1, <2>4, StaysInHand
<1> QED
  BY <1>13, <1>14

(* A client that leaves changes nothing yet. *)
LEMMA DisconnectLedger ==
  ASSUME Quiet, LedgerInv, TypeOK', NEW r \in Requests, Disconnect(r)
  PROVE  AllFinite' /\ Ledger!Next
<1>1. /\ TypeOK /\ AllFinite /\ Inv /\ stock' = stock /\ orders' = orders
      /\ job' = [job EXCEPT ![r] = Cut(job[r])] /\ job[r] \in Job
  BY DEF Disconnect, LedgerInv, Inv, TypeOK
<1>2. r \in Orders
  BY DEF Disconnect, Fault, Quiet, Requests
<1> DEFINE k == Cut(job[r])
           o == job[r].order
<1>3. /\ k \in Job /\ k.pc = job[r].pc /\ k.at = job[r].at /\ k.upto = job[r].upto /\ k.order = o
      /\ k.prev = job[r].prev /\ k.want = job[r].want
  BY <1>1, CutFacts
<1>4. job' = [job EXCEPT ![r] = k]
  BY <1>1
<1> HIDE DEF k
<1>5. InHand(k) = InHand(job[r])
  BY <1>3 DEF InHand
<1>6. Hand(job[r], o, InHand(k)) /\ Hand(k, o, InHand(k))
  BY <1>3, <1>5 DEF Hand, Piece
<1>7. Claims' = Claims
  BY <1>1, <1>2, <1>4, CheckoutClaims
<1> HIDE DEF o
<1> QED
  BY <1>1, <1>3, <1>4, <1>6, <1>7, StaysInHand

(* A restart loses what the checkouts had in hand. *)
LEMMA CrashLedger ==
  ASSUME Quiet, LedgerInv, TypeOK', Crash
  PROVE  AllFinite' /\ Ledger!Next
<1>1. /\ TypeOK /\ AllFinite /\ Inv /\ stock' = stock /\ orders' = orders
  BY DEF Crash, LedgerInv, Inv
<1>2. \A a \in Admins : job'[a] = job[a]
  <2>1. \A a \in Admins : ~Running(a)
    BY OrdersDisjoint DEF Crash, Fault, Quiet
  <2> QED
    BY <2>1, OrdersDisjoint DEF Crash
<1>3. ASSUME NEW r \in Requests PROVE job'[r] = job[r] \/ InHand(job'[r]) = {}
  <2>1. CASE ~Running(r)
    BY <2>1 DEF Crash
  <2>2. CASE r \in Admins
    BY <1>2, <2>2
  <2>3. CASE Running(r) /\ r \notin Admins
    <3>1. job'[r] = Goto(job[r], "lost") /\ job[r] \in Job /\ "lost" \in Steps
      BY <1>1, <2>3 DEF Crash, TypeOK, Steps
    <3>2. job'[r].pc = "lost"
      BY <3>1, GotoFacts
    <3> QED
      BY <3>2 DEF InHand
  <2> QED
    BY <2>1, <2>2, <2>3
<1>4. ASSUME NEW v \in Variants
      PROVE  /\ IsFiniteSet(Out(v)') /\ Free[v] \in Nat /\ Free'[v] \in Nat /\ Free'[v] <= Free[v]
  <2>1. \A r \in Requests : {r} \X Units(job'[r].order, InHand(job'[r]), v)
                              \subseteq {r} \X Units(job[r].order, InHand(job[r]), v)
    <3>1. ASSUME NEW r \in Requests
          PROVE  Units(job'[r].order, InHand(job'[r]), v) \subseteq Units(job[r].order, InHand(job[r]), v)
      BY <1>3, NoUnits
    <3> QED
      BY <3>1
  <2>2. Out(v)' \subseteq Out(v)
    BY <2>1 DEF Out
  <2>3. IsFiniteSet(Out(v)') /\ Cardinality(Out(v)') <= Cardinality(Out(v))
    BY <1>1, <2>2, FS_Subset DEF AllFinite
  <2>4. Cardinality(Out(v)') \in Nat /\ Cardinality(Out(v)) \in Nat /\ stock[v] \in Nat
    BY <1>1, <2>3, FS_CardinalityType DEF AllFinite, TypeOK
  <2>5. Free[v] = stock[v] + Cardinality(Out(v)) /\ Free'[v] = stock[v] + Cardinality(Out(v)')
    BY <1>1 DEF Free
  <2> QED
    BY <2>3, <2>4, <2>5
<1>5. Claims' = Claims
  BY <1>1, <1>2 DEF Claims, ClaimOf, Releasing
<1>6. AllFinite' /\ DOMAIN Free' = Variants
  BY <1>4 DEF AllFinite, Free
<1>7. \A v \in Variants : Free[v] \in Nat /\ Free'[v] \in Nat /\ Free'[v] <= Free[v]
  BY <1>4
<1> QED
  BY <1>5, <1>6, <1>7, Losing

-------------------------------------------------------------------------------
LEMMA LedgerInit == Init => AllFinite /\ Ledger!Init
<1> SUFFICES ASSUME Init PROVE AllFinite /\ Ledger!Init
  OBVIOUS
<1>1. ASSUME NEW r \in Requests PROVE InHand(job[r]) = {}
  <2>1. job[r] = Idle \/ job[r] = Checkout("done", r) \/ job[r] = Checkout("new", r)
    BY DEF Init
  <2>2. job[r].pc \in {"idle", "done", "new"}
    BY <2>1, IdleFacts DEF Checkout, Started
  <2> QED
    BY <2>2 DEF InHand
<1>2. \A v : Out(v) = {}
  BY <1>1, NoUnits DEF Out
<1>3. AllFinite
  BY <1>2, FS_EmptySet DEF AllFinite
<1>4. Free = InitStock
  <2>1. ASSUME NEW v \in Variants PROVE stock[v] + Cardinality(Out(v)) = InitStock[v]
    <3>1. Cardinality(Out(v)) = 0
      BY <1>2, FS_EmptySet
    <3>2. stock[v] = InitStock[v] /\ InitStock[v] \in Nat
      BY OrderStockAssumption DEF Init
    <3> QED
      BY <3>1, <3>2
  <2> QED
    BY <2>1, OrderStockAssumption DEF Free
<1>5. \A o \in Orders : ClaimOf(o) = "none"
  BY DEF Init, ClaimOf
<1> QED
  BY <1>3, <1>4, <1>5 DEF Ledger!Init

LEMMA LedgerNext ==
  Quiet /\ LedgerInv /\ Blank /\ TypeOK' /\ [Next]_vars => AllFinite' /\ [Ledger!Next]_(Ledger!vars)
<1> SUFFICES ASSUME Quiet, LedgerInv, Blank, TypeOK', [Next]_vars
             PROVE  AllFinite' /\ [Ledger!Next]_(Ledger!vars)
  OBVIOUS
<1>1. CASE UNCHANGED vars
  <2>1. \A v : Out(v)' = Out(v)
    BY <1>1 DEF vars, Out
  <2>2. Free' = Free
    BY <1>1, <2>1 DEF vars, Free
  <2>3. Claims' = Claims
    BY <1>1 DEF vars, Claims, ClaimOf, Releasing
  <2> QED
    BY <2>1, <2>2, <2>3 DEF Ledger!vars, LedgerInv, AllFinite, Claims
<1>2. ASSUME NEW r \in Requests, Step(r) PROVE AllFinite' /\ Ledger!Next
  <2>1. CASE r \in Admins /\ Write(r)
    <3>1. job[r].order \in Orders
      BY <2>1, AdminJob DEF Write, LedgerInv, Inv
    <3> QED
      BY <2>1, <3>1, WriteLedger
  <2> QED
    BY <1>2, <2>1, ReserveLedger, ReleaseLedger, BeginLedger, PersistLedger DEF Step
<1>3. ~Edit
  BY DEF Edit, Quiet, LedgerInv, Inv, TypeOK
<1> QED
  BY <1>1, <1>2, <1>3, BeginLedger, PatchLedger, DisconnectLedger, CrashLedger
     DEF Next, DeleteProduct, DropVariant

(* Under Quiet every statement of every request is a step of the ledger or none: an
   order's claim is granted from units nobody has and given back once, for every
   number of requests, every cart and every fault of a checkout but "reload". *)
THEOREM LedgerCorrect ==
  ASSUME Quiet
  PROVE  Spec => LedgerSpec
<1>1. Init => TypeOK /\ JobOK /\ FlagsInv /\ Blank /\ AllFinite /\ Ledger!Init
  BY InitCorrect, QuietInit, BlankInit, LedgerInit
<1>2. Inv /\ FlagsInv /\ [Next]_vars => FlagsInv'
  BY QuietNext
<1>3. Inv /\ Blank /\ [Next]_vars => Blank'
  BY BlankNext
<1>4. Inv /\ FlagsInv /\ AllFinite /\ Blank /\ Inv' /\ [Next]_vars => AllFinite' /\ [Ledger!Next]_(Ledger!vars)
  BY LedgerNext DEF LedgerInv, Inv
<1>5. Spec => []Inv
  BY CheckoutCorrect DEF Inv
<1> QED
  BY <1>1, <1>2, <1>3, <1>4, <1>5, PTL DEF Spec, LedgerSpec, Ledger!Spec
===============================================================================
