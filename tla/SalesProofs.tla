----------------------------- MODULE SalesProofs -----------------------------
(***************************************************************************)
(* What holds of what surrounds an order, for any number of orders, of     *)
(* limits, of edits and of faults: of the uses of a promotional code       *)
(* (PromoInv, OverrunInv), of the lists of orders (PagesInv), of the       *)
(* amounts (PriceInv), and of the whole with its e-mails (SalesInv, which  *)
(* takes what MailsProofs shows of these).                                 *)
(*                                                                         *)
(* CountIsAudited is not inductive: Increment adds one to the counter, and *)
(* what makes room for it is the row that the same checkout wrote one      *)
(* statement before.  So PromoInv counts the rows of the checkouts that    *)
(* are not about to increment.                                             *)
(***************************************************************************)
EXTENDS MCSales, FiniteSetTheorems, SequenceTheorems, TLAPS

Incrementing == {o \in Orders : pc[o] = "increment"}
Counted == usages \ Incrementing
NotYetRecorded == {"new", "validate", "count", "reload", "create", "createUntracked",
                   "record", "refused"}

LimitWithinPeak == peak = NoLimit \/ (promo.limit # NoLimit /\ promo.limit <= peak)

PromoInv ==
  /\ TypeOK
  /\ LimitWithinPeak
  /\ CountWithinPeak
  /\ IsFiniteSet(usages)
  /\ \A o \in usages : pc[o] \notin NotYetRecorded
  /\ promo.exists => Incrementing \subseteq usages
  /\ promo.exists => promo.count <= Cardinality(Counted)
  /\ \A o \in Orders : pc[o] \in {"record", "increment"} => o \in discounted
  /\ AuditedIsDiscounted

-------------------------------------------------------------------------------
(* A new code satisfies the invariant. *)
LEMMA PromoInit == ASSUME Init PROVE PromoInv
<1>1. TypeOK
  <2>1. promo \in [exists : BOOLEAN, open : BOOLEAN, limit : Limit, perUser : Limit, count : Nat]
    BY PromoAssumption DEF Init, Limit
  <2>2. pc \in [Orders -> Steps] /\ \A o \in Orders : pc[o] # "count"
    BY DEF Init, Steps
  <2>3. perUser \in [Orders -> Limit] /\ peak \in Limit
    BY PromoAssumption DEF Init, Limit
  <2>4. changed \in BOOLEAN
    BY DEF Init
  <2>5. edits \in 0..MaxEdits /\ faults \in 0..MaxFaults
    BY PromoAssumption DEF Init
  <2>6. usages \subseteq Orders /\ discounted \subseteq Orders /\ untracked \subseteq Orders
    BY DEF Init
  <2> QED
    BY <2>1, <2>2, <2>3, <2>4, <2>5, <2>6 DEF TypeOK
<1>a. promo.limit = InitLimit /\ promo.count = 0 /\ peak = InitLimit
  BY DEF Init
<1>b. InitLimit = NoLimit \/ InitLimit \in Nat
  BY PromoAssumption
<1>2. LimitWithinPeak /\ CountWithinPeak
  BY <1>a, <1>b, PromoAssumption DEF LimitWithinPeak, CountWithinPeak
<1>3. usages = {} /\ Incrementing = {} /\ promo.count = 0
  BY DEF Init, Incrementing
<1>4. IsFiniteSet(usages) /\ Counted = {} /\ Cardinality({}) = 0
  BY <1>3, FS_EmptySet DEF Counted
<1> QED
  BY <1>1, <1>2, <1>3, <1>4 DEF PromoInv, AuditedIsDiscounted, Init

(* Types are kept by every step. *)
LEMMA PromoType == ASSUME TypeOK, [Next]_vars PROVE TypeOK'
<1> USE PromoAssumption DEF TypeOK, Steps, Limit
<1>1. ASSUME NEW o \in Orders, Begin(o) PROVE TypeOK'
  BY <1>1 DEF Begin, Goto, history
<1>2. ASSUME NEW o \in Orders, Validate(o) PROVE TypeOK'
  BY <1>2 DEF Validate, Goto, history, Fails, Works, CountsUses
<1>3. ASSUME NEW o \in Orders, CountUses(o) PROVE TypeOK'
  BY <1>3 DEF CountUses, Goto, history, Fails, Works
<1>4. ASSUME NEW o \in Orders, Reload(o) PROVE TypeOK'
  BY <1>4 DEF Reload, Goto, history, Fails, Works
<1>5. ASSUME NEW o \in Orders, Create(o) PROVE TypeOK'
  BY <1>5 DEF Create, Goto, history
<1>6. ASSUME NEW o \in Orders, Record(o) PROVE TypeOK'
  BY <1>6 DEF Record, Goto, history, Fails, Works
<1>7. ASSUME NEW o \in Orders, Increment(o) PROVE TypeOK'
  BY <1>7 DEF Increment, Goto, history, Fails, Works
<1>8. CASE Crash
  BY <1>8 DEF Crash, history, Fails, Running
<1>9. ASSUME NEW n \in Limits \ {NoLimit}, SetLimit(n) \/ SetPerUser(n) PROVE TypeOK'
  <2>1. n \in Nat /\ Larger(peak, n) \in Limit
    BY DEF Larger
  <2>2. ASSUME NEW m \in Limit
        PROVE /\ [promo EXCEPT !.limit = m] \in [exists : BOOLEAN, open : BOOLEAN,
                     limit : Limit, perUser : Limit, count : Nat]
              /\ [promo EXCEPT !.perUser = m] \in [exists : BOOLEAN, open : BOOLEAN,
                     limit : Limit, perUser : Limit, count : Nat]
    BY Zenon
  <2>3. edits' \in 0..MaxEdits
    BY <1>9 DEF SetLimit, SetPerUser, Edit
  <2>4. CASE SetLimit(n)
    BY <2>1, <2>2, <2>3, <2>4 DEF SetLimit, Edit
  <2>5. CASE SetPerUser(n)
    BY <2>1, <2>2, <2>3, <2>5 DEF SetPerUser, Edit, history
  <2> QED
    BY <1>9, <2>4, <2>5
<1>10. ASSUME NEW b \in BOOLEAN, SetOpen(b) PROVE TypeOK'
  BY <1>10 DEF SetOpen, Edit, history
<1>11. CASE Delete
  <2>1. promo' \in [exists : BOOLEAN, open : BOOLEAN, limit : Limit, perUser : Limit, count : Nat]
    BY <1>11, Zenon DEF Delete
  <2> QED
    BY <1>11, <2>1 DEF Delete, Edit, history
<1>12. CASE UNCHANGED vars
  BY <1>12 DEF vars
<1> QED
  BY <1>1, <1>2, <1>3, <1>4, <1>5, <1>6, <1>7, <1>8, <1>9, <1>10, <1>11, <1>12 DEF Next

(* What no step but Record, Increment, Crash and Delete touches. *)
LEMMA Elsewhere ==
  ASSUME PromoInv, TypeOK',
         promo'.exists = promo.exists, promo'.count = promo.count, usages' = usages,
         discounted \subseteq discounted',
         LimitWithinPeak', CountWithinPeak',
         NEW o \in Orders, NEW step, pc' = [pc EXCEPT ![o] = step],
         pc[o] \in NotYetRecorded, step # "increment",
         step = "record" => o \in discounted'
  PROVE  PromoInv'
<1>1. pc \in [Orders -> Steps] /\ o \notin usages /\ pc[o] # "increment"
  BY DEF PromoInv, TypeOK, NotYetRecorded
<1>2. Incrementing' = Incrementing /\ Counted' = Counted
  BY <1>1 DEF Incrementing, Counted
<1>3. \A q \in usages' : pc'[q] \notin NotYetRecorded'
  BY <1>1 DEF PromoInv, NotYetRecorded, TypeOK
<1>4. \A q \in Orders : pc'[q] \in {"record", "increment"} => q \in discounted'
  BY <1>1 DEF PromoInv
<1> QED
  BY <1>2, <1>3, <1>4 DEF PromoInv, AuditedIsDiscounted

(* An edit of the code that touches neither its count nor its rows. *)
LEMMA Edited ==
  ASSUME PromoInv, TypeOK',
         promo'.exists = promo.exists, promo'.count = promo.count,
         usages' = usages, discounted' = discounted, pc' = pc,
         LimitWithinPeak', CountWithinPeak'
  PROVE  PromoInv'
<1>1. Incrementing' = Incrementing /\ Counted' = Counted
  BY DEF Incrementing, Counted
<1> QED
  BY <1>1 DEF PromoInv, AuditedIsDiscounted, NotYetRecorded

(* The row that Record writes belongs to a checkout that is about to increment:
   it is not counted yet.                                                   *)
LEMMA RecordStep == ASSUME PromoInv, TypeOK', NEW o \in Orders, Record(o) PROVE PromoInv'
<1>1. /\ pc[o] = "record" /\ o \in discounted /\ o \notin usages
      /\ pc \in [Orders -> Steps]
      /\ promo' = promo /\ discounted' = discounted /\ peak' = peak
  BY DEF Record, PromoInv, TypeOK, history, NotYetRecorded
<1>2. LimitWithinPeak' /\ CountWithinPeak'
  BY <1>1 DEF PromoInv, LimitWithinPeak, CountWithinPeak
<1>3. CASE pc' = [pc EXCEPT ![o] = "done"] /\ usages' = usages
  BY <1>1, <1>2, <1>3, Elsewhere DEF NotYetRecorded
<1>4. CASE pc' = [pc EXCEPT ![o] = "increment"] /\ usages' = usages \cup {o}
  <2>1. Incrementing' = Incrementing \cup {o}
    BY <1>1, <1>4 DEF Incrementing
  <2>2. Counted' = Counted
    BY <1>1, <1>4, <2>1 DEF Counted
  <2>3. IsFiniteSet(usages')
    BY <1>4, FS_AddElement DEF PromoInv
  <2>4. \A q \in usages' : pc'[q] \notin NotYetRecorded'
    BY <1>1, <1>4 DEF PromoInv, NotYetRecorded, TypeOK
  <2>5. \A q \in Orders : pc'[q] \in {"record", "increment"} => q \in discounted'
    BY <1>1, <1>4 DEF PromoInv
  <2> QED
    BY <1>1, <1>2, <1>4, <2>1, <2>2, <2>3, <2>4, <2>5 DEF PromoInv, AuditedIsDiscounted
<1> QED
  BY <1>3, <1>4 DEF Record, Goto

(* Increment counts the row of its own checkout. *)
LEMMA IncrementStep == ASSUME PromoInv, TypeOK', NEW o \in Orders, Increment(o) PROVE PromoInv'
<1>1. /\ pc[o] = "increment" /\ o \in discounted
      /\ pc \in [Orders -> Steps] /\ pc' = [pc EXCEPT ![o] = "done"]
      /\ usages' = usages /\ discounted' = discounted /\ peak' = peak
  BY DEF Increment, PromoInv, TypeOK, history, Goto
<1>2. /\ promo'.exists = promo.exists /\ promo'.limit = promo.limit
      /\ promo.count \in Nat
      /\ \/ promo'.count = promo.count
         \/ promo'.count = promo.count + 1 /\ Below(promo.count, promo.limit)
  BY DEF Increment, PromoInv, TypeOK, MayIncrement
<1>3. LimitWithinPeak'
  BY <1>1, <1>2 DEF PromoInv, LimitWithinPeak
<1>4. CountWithinPeak'
  <2>1. CASE peak = NoLimit
    BY <1>1, <2>1 DEF CountWithinPeak
  <2>2. CASE peak # NoLimit
    <3>1. promo.limit # NoLimit /\ promo.limit <= peak /\ promo.count <= peak
      BY <2>2 DEF PromoInv, LimitWithinPeak, CountWithinPeak
    <3>2. promo.limit \in Nat /\ peak \in Nat
      BY <2>2, <3>1 DEF PromoInv, TypeOK, Limit
    <3> QED
      BY <1>1, <1>2, <3>1, <3>2 DEF CountWithinPeak, Below
  <2> QED
    BY <2>1, <2>2
<1>5. Incrementing' = Incrementing \ {o}
  BY <1>1 DEF Incrementing
<1>6. promo'.exists => promo'.count <= Cardinality(Counted')
  <2> SUFFICES ASSUME promo.exists PROVE promo'.count <= Cardinality(Counted')
    BY <1>2
  <2>1. o \in usages /\ o \in Incrementing
    BY <1>1 DEF PromoInv, Incrementing
  <2>2. Counted' = Counted \cup {o} /\ o \notin Counted
    BY <1>1, <1>5, <2>1 DEF Counted
  <2>3. IsFiniteSet(Counted)
    BY FS_Subset DEF PromoInv, Counted
  <2>4. Cardinality(Counted') = Cardinality(Counted) + 1 /\ Cardinality(Counted) \in Nat
    BY <2>2, <2>3, FS_AddElement, FS_CardinalityType
  <2>5. promo.count <= Cardinality(Counted)
    BY DEF PromoInv
  <2> QED
    BY <1>2, <2>4, <2>5
<1>7. \A q \in usages' : pc'[q] \notin NotYetRecorded'
  BY <1>1 DEF PromoInv, NotYetRecorded, TypeOK
<1>8. \A q \in Orders : pc'[q] \in {"record", "increment"} => q \in discounted'
  BY <1>1 DEF PromoInv
<1> QED
  BY <1>1, <1>2, <1>3, <1>4, <1>5, <1>6, <1>7, <1>8 DEF PromoInv, AuditedIsDiscounted

(* A restart leaves rows without their increment, never the other way round. *)
LEMMA CrashStep == ASSUME PromoInv, TypeOK', Crash PROVE PromoInv'
<1>1. /\ promo' = promo /\ usages' = usages /\ discounted' = discounted /\ peak' = peak
      /\ pc \in [Orders -> Steps] /\ usages \subseteq Orders
      /\ pc' = [o \in Orders |-> IF o \notin Running THEN pc[o]
                                ELSE IF o \in discounted THEN "done" ELSE "refused"]
  BY DEF Crash, PromoInv, TypeOK, history
<1>2. Incrementing' = {}
  BY <1>1 DEF Incrementing, Running
<1>3. Counted \subseteq Counted' /\ IsFiniteSet(Counted')
  BY <1>1, <1>2 DEF Counted, PromoInv
<1>4. Cardinality(Counted) <= Cardinality(Counted')
      /\ Cardinality(Counted) \in Nat /\ Cardinality(Counted') \in Nat
  BY <1>3, FS_Subset, FS_CardinalityType
<1>5. promo'.exists => promo'.count <= Cardinality(Counted')
  BY <1>1, <1>4 DEF PromoInv, TypeOK
<1>6. \A q \in usages' : pc'[q] \notin NotYetRecorded'
  BY <1>1 DEF PromoInv, NotYetRecorded, AuditedIsDiscounted
<1>7. \A q \in Orders : pc'[q] \notin {"record", "increment"}
  BY <1>1 DEF Running
<1>8. LimitWithinPeak' /\ CountWithinPeak'
  BY <1>1 DEF PromoInv, LimitWithinPeak, CountWithinPeak
<1> QED
  BY <1>1, <1>2, <1>5, <1>6, <1>7, <1>8 DEF PromoInv, AuditedIsDiscounted

(* The code goes with its rows: nothing is left to count. *)
LEMMA DeleteStep == ASSUME PromoInv, TypeOK', Delete PROVE PromoInv'
<1>1. ~promo'.exists /\ promo'.count = promo.count /\ promo'.limit = promo.limit
  BY DEF Delete, PromoInv, TypeOK
<1>2. usages' = {} /\ IsFiniteSet(usages') /\ peak' = peak /\ pc' = pc /\ discounted' = discounted
  BY FS_EmptySet DEF Delete, history
<1>3. LimitWithinPeak' /\ CountWithinPeak'
  BY <1>1, <1>2 DEF PromoInv, LimitWithinPeak, CountWithinPeak
<1> QED
  BY <1>1, <1>2, <1>3 DEF PromoInv, AuditedIsDiscounted

(* A new limit raises the peak when it is above it, and only then. *)
LEMMA SetLimitStep ==
  ASSUME PromoInv, TypeOK', NEW n \in Limits \ {NoLimit}, SetLimit(n) PROVE PromoInv'
<1>1. n \in Nat /\ NoLimit \notin Nat
  BY PromoAssumption
<1>2. /\ promo'.exists = promo.exists /\ promo'.count = promo.count /\ promo'.limit = n
      /\ peak' = Larger(peak, n) /\ usages' = usages /\ discounted' = discounted /\ pc' = pc
  BY DEF SetLimit, PromoInv, TypeOK
<1>3. promo.count \in Nat /\ (peak = NoLimit \/ peak \in Nat)
  BY DEF PromoInv, TypeOK, Limit
<1>4. peak' = NoLimit \/ (peak # NoLimit /\ peak' = IF peak < n THEN n ELSE peak)
  BY <1>1, <1>2 DEF Larger
<1>5. LimitWithinPeak'
  BY <1>1, <1>2, <1>3, <1>4 DEF LimitWithinPeak
<1>6. CountWithinPeak'
  BY <1>1, <1>2, <1>3, <1>4 DEF PromoInv, CountWithinPeak
<1> QED
  BY <1>2, <1>5, <1>6, Edited

(* Every step keeps the invariant. *)
LEMMA PromoStep == ASSUME PromoInv, [Next]_vars PROVE PromoInv'
<1>1. TypeOK'
  BY PromoType DEF PromoInv
<1>2. ASSUME promo' = promo, peak' = peak PROVE LimitWithinPeak' /\ CountWithinPeak'
  BY <1>2 DEF PromoInv, LimitWithinPeak, CountWithinPeak
<1>3. ASSUME NEW o \in Orders, Begin(o) \/ Validate(o) \/ CountUses(o) \/ Reload(o)
      PROVE PromoInv'
  <2>1. /\ promo' = promo /\ peak' = peak /\ usages' = usages /\ discounted' = discounted
        /\ pc[o] \in NotYetRecorded
    BY <1>3 DEF Begin, Validate, CountUses, Reload, history, NotYetRecorded
  <2>2. PICK step \in NotYetRecorded \ {"record"} : pc' = [pc EXCEPT ![o] = step]
    BY <1>3 DEF Begin, Validate, CountUses, Reload, Goto, NotYetRecorded
  <2> QED
    BY <1>1, <1>2, <2>1, <2>2, Elsewhere DEF NotYetRecorded
<1>4. ASSUME NEW o \in Orders, Create(o) PROVE PromoInv'
  <2>1. /\ promo' = promo /\ peak' = peak /\ usages' = usages
        /\ discounted \subseteq discounted' /\ pc[o] \in NotYetRecorded
    BY <1>4 DEF Create, history, NotYetRecorded
  <2>2. PICK step \in {"record", "done", "refused"} :
           pc' = [pc EXCEPT ![o] = step] /\ (step = "record" => o \in discounted')
    BY <1>4 DEF Create, Goto
  <2> QED
    BY <1>1, <1>2, <2>1, <2>2, Elsewhere
<1>5. ASSUME NEW n \in Limits, SetPerUser(n) PROVE PromoInv'
  <2>1. /\ promo'.exists = promo.exists /\ promo'.count = promo.count
        /\ promo'.limit = promo.limit
        /\ usages' = usages /\ discounted' = discounted /\ pc' = pc /\ peak' = peak
    BY <1>5 DEF SetPerUser, history, PromoInv, TypeOK
  <2> QED
    BY <1>1, <2>1, Edited DEF PromoInv, LimitWithinPeak, CountWithinPeak
<1>6. ASSUME NEW b \in BOOLEAN, SetOpen(b) PROVE PromoInv'
  <2>1. /\ promo'.exists = promo.exists /\ promo'.count = promo.count
        /\ promo'.limit = promo.limit
        /\ usages' = usages /\ discounted' = discounted /\ pc' = pc /\ peak' = peak
    BY <1>6 DEF SetOpen, history, PromoInv, TypeOK
  <2> QED
    BY <1>1, <2>1, Edited DEF PromoInv, LimitWithinPeak, CountWithinPeak
<1>7. CASE UNCHANGED vars
  BY <1>1, <1>2, <1>7, Edited DEF vars, history
<1> QED
  BY <1>1, <1>3, <1>4, <1>5, <1>6, <1>7, RecordStep, IncrementStep, CrashStep,
     SetLimitStep, DeleteStep DEF Next

(* What the invariant says of the counter: it counts rows that are there. *)
LEMMA PromoImplies == ASSUME PromoInv PROVE CountIsAudited
<1>1. Counted \subseteq usages /\ IsFiniteSet(usages) /\ IsFiniteSet(Counted)
  BY FS_Subset DEF Counted, PromoInv
<1>2. /\ Cardinality(Counted) <= Cardinality(usages)
      /\ Cardinality(Counted) \in Nat /\ Cardinality(usages) \in Nat
  BY <1>1, FS_Subset, FS_CardinalityType
<1>3. promo.count \in Nat /\ (promo.exists => promo.count <= Cardinality(Counted))
  BY DEF PromoInv, TypeOK
<1> QED
  BY <1>2, <1>3 DEF CountIsAudited

-------------------------------------------------------------------------------
(* Discounts beyond the limit.  OverrunBounded counts orders, and is not inductive: what
   bounds them is who may still be given a discount that counts, Entitled, a set that
   only Validate enlarges and only below the limit; and those of it that are not under way
   have been counted, as long as the counter has room. *)
Granted == {o \in Orders : pc[o] \in {"count", "reload", "create"}}
Entitled == (discounted \ untracked) \union Granted
Settled == Entitled \ Running

OverrunInv ==
  /\ IsFiniteSet(Running) /\ Cardinality(Running) <= MaxParallel
  /\ IsFiniteSet(discounted) /\ IsFiniteSet(untracked)
  /\ \A o \in discounted : pc[o] \in {"record", "increment", "done"}
  /\ ~changed /\ promo.limit # NoLimit => Cardinality(Entitled) <= promo.limit + MaxParallel - 1
  /\ ~changed /\ promo.exists /\ promo.limit # NoLimit /\ promo.count < promo.limit =>
       Cardinality(Settled) <= promo.count

(* The sets are finite. *)
LEMMA Finite ==
  ASSUME TypeOK, OverrunInv
  PROVE  /\ IsFiniteSet(Entitled) /\ IsFiniteSet(Settled)
         /\ Cardinality(Entitled) \in Nat /\ Cardinality(Settled) \in Nat /\ Cardinality(Running) \in Nat
<1>1. IsFiniteSet(discounted \union Running)
  BY FS_Union DEF OverrunInv
<1>2. Entitled \subseteq discounted \union Running /\ Settled \subseteq Entitled
  BY DEF Entitled, Granted, Running, Settled
<1> QED
  BY <1>1, <1>2, FS_Subset, FS_CardinalityType DEF OverrunInv

(* A step that entitles nobody and changes neither the limit nor the count. *)
LEMMA NobodyNew ==
  ASSUME TypeOK, TypeOK', OverrunInv, Entitled' \subseteq Entitled, Settled' \subseteq Settled,
         IsFiniteSet(Running'), Cardinality(Running') <= MaxParallel,
         IsFiniteSet(discounted'), IsFiniteSet(untracked'),
         \A o \in discounted' : pc'[o] \in {"record", "increment", "done"},
         promo'.exists => promo.exists, promo'.count = promo.count, promo'.limit = promo.limit,
         changed' = changed
  PROVE  OverrunInv'
<1>1. /\ Cardinality(Entitled') <= Cardinality(Entitled) /\ Cardinality(Settled') <= Cardinality(Settled)
      /\ Cardinality(Entitled') \in Nat /\ Cardinality(Settled') \in Nat
      /\ Cardinality(Entitled) \in Nat /\ Cardinality(Settled) \in Nat
  BY Finite, FS_Subset, FS_CardinalityType
<1>2. promo.count \in Nat /\ (promo.limit = NoLimit \/ promo.limit \in Nat) /\ MaxParallel \in Nat
  BY PromoAssumption DEF TypeOK, Limit
<1> QED
  BY <1>1, <1>2 DEF OverrunInv

(* A checkout that goes from one step to another. *)
LEMMA Going ==
  ASSUME TypeOK, OverrunInv, NEW o \in Orders, NEW step, pc' = [pc EXCEPT ![o] = step],
         o \in Running
  PROVE  /\ Running' = IF step \in {"new", "done", "refused"} THEN Running \ {o} ELSE Running
         /\ IsFiniteSet(Running') /\ Cardinality(Running') <= MaxParallel
<1>1. Running' = IF step \in {"new", "done", "refused"} THEN Running \ {o} ELSE Running
  BY DEF Running, TypeOK
<1>2. Running' \subseteq Running
  BY <1>1
<1>3. Cardinality(Running') <= Cardinality(Running) /\ IsFiniteSet(Running')
      /\ Cardinality(Running') \in Nat /\ Cardinality(Running) \in Nat
  BY <1>2, FS_Subset, FS_CardinalityType DEF OverrunInv
<1> QED
  BY <1>1, <1>3, PromoAssumption DEF OverrunInv

(* A checkout that begins is not entitled to anything. *)
LEMMA BeginOver == ASSUME TypeOK, TypeOK', OverrunInv, NEW o \in Orders, Begin(o) PROVE OverrunInv'
<1>1. /\ pc[o] = "new" /\ pc' = [pc EXCEPT ![o] = "validate"] /\ pc \in [Orders -> Steps]
      /\ UNCHANGED <<promo, discounted, untracked, changed>>
      /\ Cardinality(Running) < MaxParallel
  BY DEF Begin, Goto, history, TypeOK
<1>2. Running' = Running \union {o} /\ o \notin Running
  BY <1>1 DEF Running
<1>3. IsFiniteSet(Running') /\ Cardinality(Running') <= MaxParallel
  <2>1. Cardinality(Running') = Cardinality(Running) + 1 /\ IsFiniteSet(Running') /\ Cardinality(Running) \in Nat
    BY <1>2, FS_AddElement, FS_CardinalityType DEF OverrunInv
  <2> QED
    BY <1>1, <2>1, PromoAssumption
<1>4. o \notin discounted
  BY <1>1 DEF OverrunInv
<1>5. Entitled' = Entitled /\ Settled' \subseteq Settled
  BY <1>1, <1>2 DEF Entitled, Granted, Settled
<1> QED
  BY <1>1, <1>3, <1>4, <1>5, NobodyNew DEF OverrunInv

(* Validate entitles one more, who is under way, while the counter has room. *)
LEMMA ValidateOver == ASSUME TypeOK, TypeOK', OverrunInv, NEW o \in Orders, Validate(o) PROVE OverrunInv'
<1>1. /\ pc[o] = "validate" /\ pc \in [Orders -> Steps] /\ o \in Running
      /\ UNCHANGED <<promo, discounted, untracked, changed>> /\ o \notin discounted
  BY DEF Validate, history, TypeOK, Running, OverrunInv
<1>2. CASE pc' = [pc EXCEPT ![o] = "refused"]
  <2>1. Running' = Running \ {o} /\ IsFiniteSet(Running') /\ Cardinality(Running') <= MaxParallel
    BY <1>1, <1>2, Going
  <2>2. Entitled' = Entitled /\ o \notin Entitled
    BY <1>1, <1>2 DEF Entitled, Granted
  <2>3. Settled' = Settled
    BY <2>1, <2>2 DEF Settled
  <2> QED
    BY <1>1, <1>2, <2>1, <2>2, <2>3, NobodyNew DEF OverrunInv
<1>3. ASSUME NEW step \in {"count", "reload"}, pc' = [pc EXCEPT ![o] = step], IsValid(promo)
      PROVE  OverrunInv'
  <2>1. Running' = Running /\ IsFiniteSet(Running') /\ Cardinality(Running') <= MaxParallel
    BY <1>1, <1>3, Going
  <2>2. Entitled' = Entitled \union {o}
    BY <1>1, <1>3 DEF Entitled, Granted
  <2>3. Settled' = Settled
    BY <1>1, <2>1, <2>2 DEF Settled
  <2>4. Entitled' \subseteq Settled \union Running
    BY <1>1, <2>2 DEF Settled
  <2>5. /\ IsFiniteSet(Settled \union Running)
        /\ Cardinality(Settled \union Running) <= Cardinality(Settled) + Cardinality(Running)
    <3>1. Cardinality(Settled \union Running)
            = Cardinality(Settled) + Cardinality(Running) - Cardinality(Settled \intersect Running)
          /\ IsFiniteSet(Settled \union Running)
      BY Finite, FS_Union DEF OverrunInv
    <3>2. Settled \intersect Running = {} /\ Cardinality({}) = 0
      BY FS_EmptySet DEF Settled
    <3> QED
      BY <3>1, <3>2, Finite
  <2>6. Cardinality(Entitled') <= Cardinality(Settled \union Running)
        /\ Cardinality(Entitled') \in Nat /\ Cardinality(Settled \union Running) \in Nat
    BY <2>4, <2>5, FS_Subset, FS_CardinalityType
  <2>7. promo.exists /\ (promo.limit = NoLimit \/ promo.count < promo.limit)
    BY <1>3 DEF IsValid, Below
  <2>8. promo.count \in Nat /\ (promo.limit = NoLimit \/ promo.limit \in Nat) /\ MaxParallel \in Nat
    BY PromoAssumption DEF TypeOK, Limit
  <2>9. ~changed /\ promo.limit # NoLimit => Cardinality(Entitled') <= promo.limit + MaxParallel - 1
    BY <2>5, <2>6, <2>7, <2>8, Finite DEF OverrunInv
  <2> QED
    BY <1>1, <1>3, <2>1, <2>3, <2>9 DEF OverrunInv
<1> QED
  BY <1>2, <1>3 DEF Validate, Goto

(* The rest of the validation, and the order. *)
LEMMA OnOver ==
  ASSUME TypeOK, TypeOK', OverrunInv, NEW o \in Orders, CountUses(o) \/ Reload(o)
  PROVE  OverrunInv'
<1>1. /\ pc[o] \in {"count", "reload"} /\ pc \in [Orders -> Steps] /\ o \in Running /\ o \notin discounted
      /\ UNCHANGED <<promo, discounted, untracked, changed>>
  BY DEF CountUses, Reload, history, TypeOK, Running, OverrunInv
<1>2. PICK step \in {"reload", "create", "createUntracked", "refused"} : pc' = [pc EXCEPT ![o] = step]
  BY DEF CountUses, Reload, Goto
<1>3. /\ Running' = IF step \in {"new", "done", "refused"} THEN Running \ {o} ELSE Running
      /\ IsFiniteSet(Running') /\ Cardinality(Running') <= MaxParallel
  BY <1>1, <1>2, Going
<1>4. Entitled' \subseteq Entitled /\ (step = "refused" => o \notin Entitled')
  BY <1>1, <1>2 DEF Entitled, Granted
<1>5. Settled' \subseteq Settled
  BY <1>3, <1>4 DEF Settled
<1> QED
  BY <1>1, <1>2, <1>3, <1>4, <1>5, NobodyNew DEF OverrunInv

LEMMA CreateOver == ASSUME TypeOK, TypeOK', OverrunInv, NEW o \in Orders, Create(o) PROVE OverrunInv'
<1>1. /\ pc[o] \in {"create", "createUntracked"} /\ pc \in [Orders -> Steps] /\ o \in Running
      /\ o \notin discounted /\ UNCHANGED <<promo, changed>>
  BY DEF Create, history, TypeOK, Running, OverrunInv
<1>2. PICK step \in {"record", "done", "refused"} : pc' = [pc EXCEPT ![o] = step]
  BY DEF Create, Goto
<1>3. /\ Running' = IF step \in {"new", "done", "refused"} THEN Running \ {o} ELSE Running
      /\ IsFiniteSet(Running') /\ Cardinality(Running') <= MaxParallel
  BY <1>1, <1>2, Going
<1>4. \/ step = "record" /\ pc[o] = "create" /\ discounted' = discounted \union {o} /\ untracked' = untracked
      \/ step = "done" /\ discounted' = discounted \union {o} /\ untracked' = untracked \union {o}
      \/ step = "refused" /\ discounted' = discounted /\ untracked' = untracked
  BY <1>1, <1>2 DEF Create, Goto
<1>5. IsFiniteSet(discounted') /\ IsFiniteSet(untracked')
  BY <1>4, FS_AddElement DEF OverrunInv
<1>6. Entitled' \subseteq Entitled /\ (step # "record" => o \notin Entitled')
  BY <1>1, <1>2, <1>4 DEF Entitled, Granted
<1>7. Settled' \subseteq Settled
  BY <1>3, <1>6 DEF Settled
<1>8. \A q \in discounted' : pc'[q] \in {"record", "increment", "done"}
  BY <1>1, <1>2, <1>4 DEF OverrunInv
<1> QED
  BY <1>1, <1>3, <1>5, <1>6, <1>7, <1>8, NobodyNew

LEMMA RecordOver == ASSUME TypeOK, TypeOK', OverrunInv, NEW o \in Orders, Record(o) PROVE OverrunInv'
<1>1. /\ pc[o] = "record" /\ pc \in [Orders -> Steps] /\ o \in Running /\ UNCHANGED <<promo, discounted, changed>>
  BY DEF Record, history, TypeOK, Running
<1>2. PICK step \in {"increment", "done"} : pc' = [pc EXCEPT ![o] = step]
  BY DEF Record, Goto
<1>3. /\ Running' = IF step \in {"new", "done", "refused"} THEN Running \ {o} ELSE Running
      /\ IsFiniteSet(Running') /\ Cardinality(Running') <= MaxParallel
  BY <1>1, <1>2, Going
<1>4. \/ step = "increment" /\ untracked' = untracked
      \/ step = "done" /\ untracked' = untracked \union {o}
  BY <1>1, <1>2 DEF Record, Goto
<1>5. IsFiniteSet(untracked')
  BY <1>4, FS_AddElement DEF OverrunInv
<1>6. Entitled' \subseteq Entitled /\ (step = "done" => o \notin Entitled')
  BY <1>1, <1>2, <1>4 DEF Entitled, Granted
<1>7. Settled' \subseteq Settled
  BY <1>3, <1>6 DEF Settled
<1>8. \A q \in discounted' : pc'[q] \in {"record", "increment", "done"}
  BY <1>1, <1>2 DEF OverrunInv
<1> QED
  BY <1>1, <1>3, <1>5, <1>6, <1>7, <1>8, NobodyNew DEF OverrunInv

(* What was under way is counted, or the counter has no room left, or nobody knows. *)
LEMMA IncrementOver == ASSUME TypeOK, TypeOK', OverrunInv, NEW o \in Orders, Increment(o) PROVE OverrunInv'
<1>1. /\ pc[o] = "increment" /\ pc \in [Orders -> Steps] /\ o \in Running /\ UNCHANGED <<discounted, changed>>
      /\ pc' = [pc EXCEPT ![o] = "done"]
  BY DEF Increment, Goto, history, TypeOK, Running
<1>2. Running' = Running \ {o} /\ IsFiniteSet(Running') /\ Cardinality(Running') <= MaxParallel
  BY <1>1, Going
<1>3. \A q \in discounted' : pc'[q] \in {"record", "increment", "done"}
  BY <1>1 DEF OverrunInv
<1>4. promo.count \in Nat /\ (promo.limit = NoLimit \/ promo.limit \in Nat) /\ MaxParallel \in Nat
  BY PromoAssumption DEF TypeOK, Limit
<1>5. CASE untracked' = untracked
  <2>1. Entitled' = Entitled
    BY <1>1, <1>5 DEF Entitled, Granted
  <2>2. Settled' \subseteq Settled \union {o}
    BY <1>2, <2>1 DEF Settled
  <2>3. o \notin Settled
    BY <1>1 DEF Settled
  <2>4. Cardinality(Settled \union {o}) = Cardinality(Settled) + 1 /\ IsFiniteSet(Settled \union {o})
        /\ Cardinality(Settled) \in Nat
    BY <2>3, Finite, FS_AddElement
  <2>5. Cardinality(Settled') <= Cardinality(Settled) + 1 /\ Cardinality(Settled') \in Nat
    BY <2>2, <2>4, FS_Subset, FS_CardinalityType
  <2>6. /\ promo'.limit = promo.limit /\ promo'.exists = promo.exists
        /\ \/ promo'.count = promo.count + 1 /\ promo.exists /\ Below(promo.count, promo.limit)
           \/ promo'.count = promo.count /\ ~(promo.exists /\ Below(promo.count, promo.limit))
           \/ promo'.count = promo.count /\ untracked' = untracked \union {o}
    BY DEF Increment, MayIncrement, TypeOK
  <2>7. CASE untracked' = untracked \union {o}
    <3>1. o \notin Settled'
      BY <1>1, <1>5, <2>7 DEF Settled, Entitled, Granted
    <3>2. Settled' \subseteq Settled /\ Entitled' \subseteq Entitled /\ IsFiniteSet(untracked')
      BY <1>5, <2>1, <2>2, <3>1 DEF OverrunInv
    <3>3. CASE promo'.count = promo.count
      BY <1>1, <1>2, <1>3, <2>6, <3>2, <3>3, NobodyNew DEF OverrunInv
    <3>4. CASE promo'.count # promo.count
      BY <1>1, <1>2, <1>3, <1>4, <1>5, <2>1, <2>4, <2>5, <2>6, <3>4 DEF OverrunInv, Below
    <3> QED
      BY <3>3, <3>4
  <2> QED
    BY <1>1, <1>2, <1>3, <1>4, <1>5, <2>1, <2>4, <2>5, <2>6, <2>7 DEF OverrunInv, Below
<1>6. CASE promo' = promo /\ untracked' = untracked \union {o}
  <2>1. IsFiniteSet(untracked')
    BY <1>6, FS_AddElement DEF OverrunInv
  <2>2. Entitled' \subseteq Entitled /\ o \notin Entitled'
    BY <1>1, <1>6 DEF Entitled, Granted
  <2>3. Settled' \subseteq Settled
    BY <1>2, <2>2 DEF Settled
  <2> QED
    BY <1>1, <1>2, <1>3, <1>6, <2>1, <2>2, <2>3, NobodyNew DEF OverrunInv
<1> QED
  BY <1>5, <1>6 DEF Increment

(* A restart takes what was entitled and under way out of both sides. *)
LEMMA CrashOver == ASSUME TypeOK, TypeOK', OverrunInv, Crash PROVE OverrunInv'
<1>1. /\ UNCHANGED <<promo, discounted, changed>> /\ pc \in [Orders -> Steps]
      /\ untracked' = untracked \union {o \in Running : pc[o] \in {"record", "increment"}}
      /\ pc' = [o \in Orders |-> IF o \notin Running THEN pc[o]
                                ELSE IF o \in discounted THEN "done" ELSE "refused"]
  BY DEF Crash, TypeOK, history
<1>2. Running' = {} /\ IsFiniteSet(Running') /\ Cardinality(Running') = 0
  BY <1>1, FS_EmptySet DEF Running
<1>3. IsFiniteSet(untracked')
  <2>1. {o \in Running : pc[o] \in {"record", "increment"}} \subseteq Running
    OBVIOUS
  <2> QED
    BY <1>1, <2>1, FS_Subset, FS_Union DEF OverrunInv
<1>4. discounted \subseteq Orders
  BY DEF TypeOK
<1>5. \A q \in discounted' : pc'[q] \in {"record", "increment", "done"}
  BY <1>1, <1>4 DEF OverrunInv
<1>6. Entitled' \subseteq Settled
  BY <1>1, <1>4 DEF Entitled, Granted, Settled, Running, OverrunInv
<1>7. Entitled' \subseteq Entitled /\ Settled' \subseteq Settled
  BY <1>6 DEF Settled
<1> QED
  BY <1>1, <1>2, <1>3, <1>5, <1>7, NobodyNew, PromoAssumption DEF OverrunInv

(* The edits of the code. *)
LEMMA EditOver ==
  ASSUME TypeOK, TypeOK', OverrunInv,
         \/ \E n \in Limits \ {NoLimit} : SetLimit(n) \/ SetPerUser(n)
         \/ \E b \in BOOLEAN : SetOpen(b)
         \/ Delete
  PROVE  OverrunInv'
<1>1. /\ UNCHANGED <<pc, discounted, untracked>>
      /\ \/ changed' = TRUE
         \/ /\ changed' = changed /\ promo'.limit = promo.limit /\ promo'.count = promo.count
            /\ promo'.exists => promo.exists
  BY DEF SetLimit, SetPerUser, SetOpen, Delete, history, TypeOK
<1>2. Running' = Running /\ Entitled' = Entitled /\ Settled' = Settled
  BY <1>1 DEF Running, Entitled, Granted, Settled
<1> QED
  BY <1>1, <1>2 DEF OverrunInv

LEMMA OverStep == ASSUME TypeOK, TypeOK', OverrunInv, [Next]_vars PROVE OverrunInv'
<1>1. CASE UNCHANGED vars
  BY <1>1 DEF vars, OverrunInv, Entitled, Granted, Settled, Running
<1> QED
  BY <1>1, BeginOver, ValidateOver, OnOver, CreateOver, RecordOver, IncrementOver, CrashOver, EditOver DEF Next

LEMMA OverInit == ASSUME Init, TypeOK PROVE OverrunInv
<1>1. Running = {} /\ Entitled = {} /\ Settled = {} /\ discounted = {} /\ untracked = {}
  BY DEF Init, Running, Entitled, Granted, Settled
<1>2. IsFiniteSet({}) /\ Cardinality({}) = 0
  BY FS_EmptySet
<1>3. promo.count = 0 /\ (promo.limit = NoLimit \/ promo.limit \in Nat) /\ MaxParallel \in Nat \ {0}
  BY PromoAssumption DEF Init, TypeOK, Limit
<1> QED
  BY <1>1, <1>2, <1>3 DEF OverrunInv

(* What it says: whoever has a discount is entitled to it or untracked. *)
LEMMA OverBounds == ASSUME TypeOK, OverrunInv PROVE OverrunBounded
<1> SUFFICES ASSUME ~changed, promo.limit # NoLimit
             PROVE  Cardinality(discounted) <= promo.limit + (MaxParallel - 1) + Cardinality(untracked)
  BY DEF OverrunBounded
<1>1. discounted \subseteq Entitled \union untracked
  BY DEF Entitled
<1>2. /\ IsFiniteSet(Entitled \union untracked)
      /\ Cardinality(Entitled \union untracked) =
           Cardinality(Entitled) + Cardinality(untracked) - Cardinality(Entitled \intersect untracked)
      /\ Cardinality(Entitled \intersect untracked) \in Nat
  <2>1. IsFiniteSet(Entitled) /\ IsFiniteSet(untracked) /\ IsFiniteSet(Entitled \intersect untracked)
    BY Finite, FS_Subset DEF OverrunInv
  <2> QED
    BY <2>1, FS_Union, FS_CardinalityType
<1>3. Cardinality(discounted) <= Cardinality(Entitled \union untracked)
  BY <1>1, <1>2, FS_Subset
<1>4. /\ Cardinality(Entitled) \in Nat /\ Cardinality(untracked) \in Nat /\ Cardinality(discounted) \in Nat
      /\ promo.limit \in Nat /\ MaxParallel \in Nat
  BY Finite, FS_CardinalityType, PromoAssumption DEF TypeOK, Limit, OverrunInv
<1>5. Cardinality(Entitled) <= promo.limit + MaxParallel - 1
  BY DEF OverrunInv
<1> QED
  BY <1>2, <1>3, <1>4, <1>5

-------------------------------------------------------------------------------
(* The lists of the orders.  While nothing has moved under the reader's pages, an order
   that has matched all along is shown or still stands behind what he has read: newer
   orders push it further back and never forward. *)
Found == Placed!Matches(placed)
Newer(list, i) == {j \in list : j > i}
Behind(i) == Cardinality(Newer(Found, i)) >= page.offset

PagesTyped ==
  /\ placed \in Seq(Placed!OrderRows) /\ Len(placed) <= MaxPlaced
  /\ query \in Placed!Queries
  /\ page \in [at : {"new", "count", "find", "done"}, offset : Nat, total : 0..MaxPlaced]
  /\ Found \subseteq 1..MaxPlaced
  /\ shown \subseteq 1..MaxPlaced /\ slid \in BOOLEAN /\ moves \in 0..MaxMoves

PagesInv ==
  /\ PagesTyped
  /\ steady \subseteq Found
  /\ ~slid /\ page.at \in {"count", "find"} => \A i \in steady \ shown : Behind(i)
  /\ ~slid /\ page.at = "find" => page.total = Cardinality(Found)
  /\ SteadySeen

(* OrderList counts with the Cardinality of an instance of its own. *)
LEMMA SameCount == ASSUME NEW S PROVE Placed!Cardinality(S) = Cardinality(S)
  BY DEF Cardinality, Placed!Cardinality

(* What matches is a finite part of the list. *)
LEMMA InList ==
  ASSUME NEW list \in Seq(Placed!OrderRows), Len(list) <= MaxPlaced
  PROVE  Placed!Matches(list) \subseteq 1..MaxPlaced
<1>1. Len(list) \in Nat /\ DOMAIN list = 1..Len(list) /\ MaxPlaced \in Nat
  BY LenProperties, SalesAssumption DEF Placed!OrderListAssumption
<1> QED
  BY <1>1 DEF Placed!Matches

LEMMA FewFound ==
  ASSUME NEW S, S \subseteq 1..MaxPlaced
  PROVE  /\ IsFiniteSet(S) /\ Cardinality(S) \in 0..MaxPlaced /\ Cardinality(S) \in Nat
         /\ \A i : IsFiniteSet(Newer(S, i)) /\ Cardinality(Newer(S, i)) \in Nat
<1>1. MaxPlaced \in Nat
  BY SalesAssumption DEF Placed!OrderListAssumption
<1>2. IsFiniteSet(1..MaxPlaced) /\ Cardinality(1..MaxPlaced) = MaxPlaced
  <2>1. 1 \in Int /\ MaxPlaced \in Int
    BY <1>1
  <2>2. IsFiniteSet(1..MaxPlaced) /\ Cardinality(1..MaxPlaced) = IF 1 > MaxPlaced THEN 0 ELSE MaxPlaced - 1 + 1
    BY <2>1, FS_Interval
  <2> QED
    BY <1>1, <2>2
<1>3. IsFiniteSet(S) /\ Cardinality(S) <= MaxPlaced /\ Cardinality(S) \in Nat
  BY <1>2, FS_Subset, FS_CardinalityType
<1>4. ASSUME NEW i PROVE IsFiniteSet(Newer(S, i)) /\ Cardinality(Newer(S, i)) \in Nat
  <2>1. Newer(S, i) \subseteq S
    BY DEF Newer
  <2> QED
    BY <1>3, <2>1, FS_Subset, FS_CardinalityType
<1> QED
  BY <1>1, <1>3, <1>4

(* One that matches stands before the end. *)
LEMMA BeforeTheEnd ==
  ASSUME PagesTyped, NEW i \in Found
  PROVE  Cardinality(Newer(Found, i)) < Cardinality(Found)
<1>1. Newer(Found, i) \subseteq Found \ {i} /\ Found \subseteq Nat
  BY DEF Newer, PagesTyped
<1>2. IsFiniteSet(Found) /\ Cardinality(Found) \in Nat
  BY FewFound DEF PagesTyped
<1>3. IsFiniteSet(Found \ {i}) /\ Cardinality(Found \ {i}) = Cardinality(Found) - 1
  BY <1>2, FS_RemoveElement
<1>4. Cardinality(Newer(Found, i)) <= Cardinality(Found \ {i}) /\ Cardinality(Newer(Found, i)) \in Nat
  BY <1>1, <1>3, FS_Subset, FS_CardinalityType
<1> QED
  BY <1>2, <1>3, <1>4

LEMMA PagesInit == ASSUME Placed!Init PROVE PagesInv
<1>1. placed \in Seq(Placed!OrderRows) /\ Len(placed) <= MaxPlaced
  <2>1. PICK n \in 0..MaxPlaced : placed \in [1..n -> Placed!OrderRows]
    BY DEF Placed!Init
  <2>2. n \in Nat /\ n <= MaxPlaced
    BY <2>1, SalesAssumption DEF Placed!OrderListAssumption
  <2>3. placed \in Seq(Placed!OrderRows)
    BY <2>1, <2>2, SeqDef
  <2>4. Len(placed) \in Nat /\ 1..Len(placed) = 1..n
    BY <2>1, <2>3, LenProperties
  <2> QED
    BY <2>2, <2>3, <2>4
<1>2. page = Placed!Nowhere /\ shown = {} /\ steady = {} /\ slid = FALSE
  BY DEF Placed!Init
<1>3. query \in Placed!Queries
  <2>1. 0 \in 0..MaxLimit
    BY SalesAssumption DEF Placed!OrderListAssumption
  <2> QED
    BY <2>1 DEF Placed!Init, Placed!Queries
<1>4. page \in [at : {"new", "count", "find", "done"}, offset : Nat, total : 0..MaxPlaced] /\ page.at = "new"
      /\ moves \in 0..MaxMoves
  <2>1. 0 \in 0..MaxPlaced /\ 0 \in 0..MaxMoves
    BY SalesAssumption DEF Placed!OrderListAssumption
  <2>2. page = [at |-> "new", offset |-> 0, total |-> 0] /\ moves = 0
    BY DEF Placed!Nowhere, Placed!Init
  <2> QED
    BY <2>1, <2>2
<1>5. Found \subseteq 1..MaxPlaced
  BY <1>1, InList DEF Found
<1> QED
  BY <1>1, <1>2, <1>3, <1>4, <1>5 DEF PagesInv, PagesTyped, SteadySeen, Placed!SteadySeen

(* He begins: nothing is behind the first page. *)
LEMMA Asks == ASSUME PagesInv, NEW q \in Placed!Queries, Placed!Ask(q) PROVE PagesInv'
<1>1. /\ placed' = placed /\ shown' = shown /\ slid' = slid /\ moves' = moves /\ query' = q
      /\ page' = [Placed!Nowhere EXCEPT !.at = "count"]
  BY DEF Placed!Ask
<1>2. page' = [at |-> "count", offset |-> 0, total |-> 0]
  BY <1>1 DEF Placed!Nowhere
<1>3. page' \in [at : {"new", "count", "find", "done"}, offset : Nat, total : 0..MaxPlaced]
      /\ page'.at = "count" /\ page'.offset = 0
  <2>1. 0 \in 0..MaxPlaced
    BY SalesAssumption DEF Placed!OrderListAssumption
  <2> QED
    BY <1>2, <2>1
<1>4. steady' = Found'
  BY <1>1 DEF Placed!Ask, Found, Placed!Matches, Placed!Wanted, Placed!OfUser
<1>5. PagesTyped'
  <2>1. Found' \subseteq DOMAIN placed
    BY <1>1 DEF Found, Placed!Matches
  <2>2. DOMAIN placed \subseteq 1..MaxPlaced
    BY SalesAssumption, LenProperties DEF PagesInv, PagesTyped, Placed!OrderListAssumption
  <2> QED
    BY <1>1, <1>3, <2>1, <2>2 DEF PagesInv, PagesTyped
<1>6. ASSUME NEW i \in steady' PROVE Behind(i)'
  <2>1. Cardinality(Newer(Found', i)) \in Nat
    BY <1>5, FewFound DEF PagesTyped
  <2> QED
    BY <1>3, <2>1 DEF Behind
<1> QED
  BY <1>3, <1>4, <1>5, <1>6 DEF PagesInv, SteadySeen, Placed!SteadySeen

(* The reader's statements leave the list as it is. *)
LEMMA Same == ASSUME placed' = placed, query' = query PROVE Found' = Found
  BY DEF Found, Placed!Matches, Placed!Wanted, Placed!OfUser

LEMMA Counts == ASSUME PagesInv, Placed!CountPage PROVE PagesInv'
<1>1. UNCHANGED <<placed, query, shown, steady, slid, moves>> /\ page.at = "count"
      /\ page' = [page EXCEPT !.at = "find", !.total = Cardinality(Found)]
  BY SameCount DEF Placed!CountPage, Found
<1>2. Cardinality(Found) \in 0..MaxPlaced
  BY FewFound DEF PagesInv, PagesTyped
<1>3. page' \in [at : {"new", "count", "find", "done"}, offset : Nat, total : 0..MaxPlaced]
      /\ page'.at = "find" /\ page'.total = Cardinality(Found) /\ page'.offset = page.offset
  BY <1>1, <1>2 DEF PagesInv, PagesTyped
<1>4. Found' = Found
  BY <1>1, Same
<1>5. PagesTyped'
  BY <1>1, <1>3, <1>4 DEF PagesInv, PagesTyped
<1> QED
  BY <1>1, <1>3, <1>4, <1>5 DEF PagesInv, Behind, SteadySeen, Placed!SteadySeen

(* A page shows those that stand on it, and the next one begins behind them; there is none
   when the offset has reached the total. *)
LEMMA Finds == ASSUME PagesInv, Placed!FindPage PROVE PagesInv'
<1> DEFINE size == Placed!Limit
<1>1. /\ UNCHANGED <<placed, query, steady, slid, moves>> /\ page.at = "find"
      /\ shown' = shown \union Placed!Rows
      /\ page' = [page EXCEPT !.at = IF page.offset + size < page.total THEN "count" ELSE "done",
                              !.offset = page.offset + size]
  BY DEF Placed!FindPage, Placed!HasMore
<1>2. size \in Nat
  <2>1. query.limit \in 0..MaxLimit
    BY DEF PagesInv, PagesTyped, Placed!Queries
  <2> QED
    BY <2>1, SalesAssumption DEF Placed!OrderListAssumption, Placed!Limit
<1>3. Placed!Rows = {i \in Found : Cardinality(Newer(Found, i)) \in page.offset .. page.offset + size - 1}
  BY SameCount DEF Placed!Rows, Found, Newer
<1> HIDE DEF size
<1>4. page.offset \in Nat /\ page.total \in 0..MaxPlaced /\ MaxPlaced \in Nat
  BY SalesAssumption DEF PagesInv, PagesTyped, Placed!OrderListAssumption
<1>5. /\ page' \in [at : {"new", "count", "find", "done"}, offset : Nat, total : 0..MaxPlaced]
      /\ page'.at = (IF page.offset + size < page.total THEN "count" ELSE "done")
      /\ page'.offset = page.offset + size
  <2> DEFINE at == IF page.offset + size < page.total THEN "count" ELSE "done"
             offset == page.offset + size
  <2>1. page \in [at : {"new", "count", "find", "done"}, offset : Nat, total : 0..MaxPlaced]
    BY DEF PagesInv, PagesTyped
  <2>2. at \in {"count", "done"} /\ offset \in Nat
    BY <1>2, <1>4
  <2>3. page' = [page EXCEPT !.at = at, !.offset = offset]
    BY <1>1
  <2> HIDE DEF at, offset
  <2>4. page' \in [at : {"new", "count", "find", "done"}, offset : Nat, total : 0..MaxPlaced]
        /\ page'.at = at /\ page'.offset = offset
    BY <2>1, <2>2, <2>3
  <2> QED
    BY <2>4 DEF at, offset
<1>6. Found' = Found
  BY <1>1, Same
<1>7. PagesTyped'
  BY <1>1, <1>3, <1>5, <1>6 DEF PagesInv, PagesTyped
<1>8. ASSUME ~slid, NEW i \in steady \ shown' PROVE Cardinality(Newer(Found, i)) >= page.offset + size
  <2>1. i \in Found /\ Behind(i)
    BY <1>1, <1>8 DEF PagesInv
  <2>2. Cardinality(Newer(Found, i)) \in Nat
    BY FewFound DEF PagesInv, PagesTyped
  <2>3. Cardinality(Newer(Found, i)) \notin page.offset .. page.offset + size - 1
    BY <1>1, <1>3, <1>8, <2>1
  <2> QED
    BY <1>2, <1>4, <2>1, <2>2, <2>3 DEF Behind
<1>9. ASSUME ~slid, page'.at = "done" PROVE steady \subseteq shown'
  <2> SUFFICES ASSUME NEW i \in steady \ shown' PROVE FALSE
    OBVIOUS
  <2>1. i \in Found /\ page.total = Cardinality(Found)
    BY <1>1, <1>9 DEF PagesInv
  <2>2. Cardinality(Newer(Found, i)) < page.total /\ Cardinality(Newer(Found, i)) \in Nat
    BY <2>1, BeforeTheEnd, FewFound DEF PagesInv, PagesTyped
  <2>3. page.offset + size >= page.total
    BY <1>2, <1>4, <1>5, <1>9
  <2> QED
    BY <1>2, <1>4, <1>8, <1>9, <2>2, <2>3
<1> QED
  BY <1>1, <1>5, <1>6, <1>7, <1>8, <1>9 DEF PagesInv, Behind, SteadySeen, Placed!SteadySeen

(* Beside him, an order that comes or joins pushes others back; one that leaves, or a list
   that changes between the count and the rows, is what slid says. *)
LEMMA Changes ==
  ASSUME PagesInv, NEW list \in Seq(Placed!OrderRows), Len(list) <= MaxPlaced, Placed!Change(list)
  PROVE  PagesInv'
<1> DEFINE found == Placed!Matches(list)
<1>1. /\ UNCHANGED <<query, page, shown>> /\ placed' = list /\ moves' \in 0..MaxMoves
      /\ steady' = steady \intersect found
      /\ slid' = (\/ slid
                  \/ page.at \in {"count", "find"} /\ ~(Found \subseteq found)
                  \/ page.at = "find" /\ Found # found)
  <2>1. moves' \in 0..MaxMoves
    BY SalesAssumption DEF Placed!Change, PagesInv, PagesTyped, Placed!OrderListAssumption
  <2> QED
    BY <2>1 DEF Placed!Change, Found
<1>2. Found' = found
  BY <1>1 DEF Found, Placed!Matches, Placed!Wanted, Placed!OfUser
<1>3. found \subseteq 1..MaxPlaced
  BY InList
<1> HIDE DEF found
<1>4. slid' \in BOOLEAN
  BY <1>1 DEF PagesInv, PagesTyped
<1>5. PagesTyped'
  BY <1>1, <1>2, <1>3, <1>4 DEF PagesInv, PagesTyped
<1>6. ASSUME ~slid', page.at \in {"count", "find"}, NEW i \in steady' \ shown PROVE Behind(i)'
  <2>1. Behind(i) /\ Found \subseteq found
    BY <1>1, <1>6 DEF PagesInv
  <2>2. Newer(Found, i) \subseteq Newer(found, i)
    BY <2>1 DEF Newer
  <2>3. IsFiniteSet(Newer(found, i)) /\ Cardinality(Newer(found, i)) \in Nat
    BY <1>3, FewFound
  <2>4. Cardinality(Newer(Found, i)) <= Cardinality(Newer(found, i)) /\ Cardinality(Newer(Found, i)) \in Nat
    BY <2>2, <2>3, FS_Subset, FS_CardinalityType
  <2>5. page.offset \in Nat
    BY DEF PagesInv, PagesTyped
  <2>6. Cardinality(Newer(found, i)) >= page.offset
    BY <2>1, <2>3, <2>4, <2>5 DEF Behind
  <2> QED
    BY <1>1, <1>2, <2>6 DEF Behind
<1>7. ~slid' /\ page'.at = "find" => page'.total = Cardinality(Found')
  BY <1>1, <1>2 DEF PagesInv
<1>8. SteadySeen'
  BY <1>1 DEF PagesInv, SteadySeen, Placed!SteadySeen
<1> QED
  BY <1>1, <1>2, <1>5, <1>6, <1>7, <1>8 DEF PagesInv

(* What the checkouts and the PATCHes beside him make of the list. *)
LEMMA Creating == ASSUME PagesInv, Placed!Create PROVE PagesInv'
<1> DEFINE row(u) == [user |-> u, status |-> "pending"]
<1>1. PICK u \in Customers : Len(placed) < MaxPlaced /\ Placed!Change(Append(placed, row(u)))
  BY DEF Placed!Create
<1>2. row(u) \in Placed!OrderRows
  BY SalesAssumption DEF Placed!OrderListAssumption, Placed!OrderRows
<1>3. placed \in Seq(Placed!OrderRows)
  BY DEF PagesInv, PagesTyped
<1> HIDE DEF row
<1>4. /\ Append(placed, row(u)) \in Seq(Placed!OrderRows) /\ Len(Append(placed, row(u))) = Len(placed) + 1
      /\ Len(placed) \in Nat /\ MaxPlaced \in Nat
  BY <1>2, <1>3, AppendProperties, LenProperties, SalesAssumption DEF Placed!OrderListAssumption
<1>5. Len(Append(placed, row(u))) <= MaxPlaced
  BY <1>1, <1>4
<1> QED
  BY <1>1, <1>4, <1>5, Changes

LEMMA Updating == ASSUME PagesInv, Placed!UpdateStatus PROVE PagesInv'
<1>1. PICK i \in DOMAIN placed, s \in Statuses : Placed!Change([placed EXCEPT ![i].status = s])
  BY DEF Placed!UpdateStatus
<1>2. placed \in Seq(Placed!OrderRows) /\ Len(placed) <= MaxPlaced /\ i \in 1..Len(placed)
  BY LenProperties DEF PagesInv, PagesTyped
<1> DEFINE row == [placed[i] EXCEPT !.status = s]
<1>3. placed[i] \in Placed!OrderRows
  BY <1>2, ElementOfSeq
<1>4. row \in Placed!OrderRows
  BY <1>3 DEF Placed!OrderRows
<1> HIDE DEF row
<1>5. [placed EXCEPT ![i] = row] \in Seq(Placed!OrderRows) /\ Len([placed EXCEPT ![i] = row]) = Len(placed)
  BY <1>2, <1>4, ExceptSeq
<1>6. Placed!Change([placed EXCEPT ![i] = row])
  BY <1>1 DEF row
<1> QED
  BY <1>2, <1>5, <1>6, Changes

LEMMA PagesStep == ASSUME PagesInv, Placed!Next PROVE PagesInv'
  BY Asks, Counts, Finds, Creating, Updating DEF Placed!Next, Placed!AdminList, Placed!ListMyOrders

LEMMA PagesStand == ASSUME PagesInv, UNCHANGED listVars PROVE PagesInv'
  BY DEF listVars, PagesInv, PagesTyped, Found, Behind, Newer, SteadySeen, Placed!SteadySeen,
         Placed!Matches, Placed!Wanted, Placed!OfUser

LEMMA PagesTypes == ASSUME PagesInv PROVE Placed!TypeOK
<1>1. placed \in UNION {[1..n -> Placed!OrderRows] : n \in 0..MaxPlaced}
  <2>1. Len(placed) \in 0..MaxPlaced /\ placed \in [1..Len(placed) -> Placed!OrderRows]
    BY LenProperties, SalesAssumption DEF PagesInv, PagesTyped, Placed!OrderListAssumption
  <2> QED
    BY <2>1
<1> QED
  BY <1>1 DEF PagesInv, PagesTyped, Placed!TypeOK

-------------------------------------------------------------------------------
(* What an order costs, for any rules, updates, settings and carts (PriceInv).  That the
   amounts agree rests on the rule a checkout reads, whichever update wrote it last
   (Sound), and on what the cart carries from there to the order (Bounded): a discount of
   no more than the goods, though rule and settings change in between. *)

(* The rule of a code, and whatever an editor has read of one. *)
Sound(code) ==
  /\ DOMAIN code = Price!Columns \union {"id"}
  /\ code.id \in 1..MaxRules
  /\ code.value \in Int /\ code.min \in Int /\ code.max \in Nat \union {NULL}

(* The cart. *)
Carts ==
  [at : {"items", "fee", "promo", "reload", "order", "done", "refused"},
   subtotal : Nat, fee : Int, discount : Int, coded : BOOLEAN]
Bounded ==
  /\ 0 <= cart.discount /\ cart.discount <= 100 * cart.subtotal
  /\ cart.at \in {"items", "fee", "promo"} => cart.discount = 0

(* An update under way carries what an administrator may send. *)
Carried(e) ==
  /\ DOMAIN update[e] = {"seen", "delta"}
  /\ update[e].seen # NULL => update[e].delta \in Deltas /\ update[e].seen.value \in Int

Counters ==
  /\ shipping \in Shippings \union {Seeded}
  /\ created \in 0..MaxRules /\ updates \in 0..MaxUpdates /\ changes \in 0..MaxSettings
  /\ crossed \in BOOLEAN

PriceInv ==
  /\ Counters
  /\ rule # NULL => Sound(rule)
  /\ DOMAIN update = Editors /\ \A e \in Editors : Carried(e)
  /\ cart \in Carts /\ Bounded
  /\ order # NULL <=> cart.at = "done"
  /\ Price!RuleInOrder
  /\ Price!BooksBalance

-------------------------------------------------------------------------------
(* The operators. *)

(* A discount is positive and no more than the goods (CalculateDiscount, promo.go). *)
LEMMA DiscountBounds ==
  ASSUME NEW code, NEW subtotal \in Nat, Sound(code), Price!validateDiscount(code.kind, code.value)
  PROVE  /\ Price!CalculateDiscount(code, subtotal) \in Int
         /\ 0 <= Price!CalculateDiscount(code, subtotal)
         /\ Price!CalculateDiscount(code, subtotal) <= 100 * subtotal
<1>1. code.value \in Nat /\ code.min \in Int
  BY DEF Sound, Price!validateDiscount
<1>2. subtotal * code.value \in Nat
  BY <1>1
<1>3. Price!RawDiscount(code, subtotal) \in Nat
  BY <1>1, <1>2 DEF Price!RawDiscount
<1>4. code.max = NULL \/ code.max \in Nat
  BY DEF Sound
<1> DEFINE capped == IF code.max = NULL THEN Price!RawDiscount(code, subtotal)
                     ELSE Price!Lesser(Price!RawDiscount(code, subtotal), 100 * code.max)
<1>5. capped \in Nat
  BY <1>3, <1>4 DEF Price!Lesser
<1>6. Price!CalculateDiscount(code, subtotal) = IF subtotal < code.min THEN 0 ELSE Price!Lesser(capped, 100 * subtotal)
  BY DEF Price!CalculateDiscount
<1> HIDE DEF capped
<1> QED
  BY <1>5, <1>6 DEF Price!Lesser

(* The fee is a number, whatever row of the settings is read (computeShippingFee). *)
LEMMA FeeIsNumber ==
  ASSUME Price!PricingAssumption, NEW value \in Shippings \union {Seeded}, NEW subtotal \in Nat
  PROVE  Price!ShippingFee(value, subtotal) \in Int
<1>1. value = NULL \/ value \in Price!Setting
  BY DEF Price!PricingAssumption
<1>2. Defaults.cost \in Int /\ (value \in Price!Setting => value.cost = NULL \/ value.cost \in Int)
  BY DEF Price!PricingAssumption, Price!Setting
<1> DEFINE cost == IF value = NULL \/ value["cost"] = NULL THEN Defaults["cost"] ELSE value["cost"]
<1>3. cost \in Int
  BY <1>1, <1>2
<1>4. Price!ShippingFee(value, subtotal) \in {0, cost}
  BY DEF Price!ShippingFee
<1> QED
  BY <1>3, <1>4

(* Each amount is rounded for itself, and they agree to the cent (buildOrder). *)
LEMMA CentsAgree ==
  ASSUME NEW s \in Nat, NEW f \in Nat, NEW d \in Int, 0 <= d, d <= 100 * s
  PROVE  /\ Price!Rounded(d) \in Int /\ 0 <= Price!Rounded(d) /\ Price!Rounded(d) <= s
         /\ 100 * s + 100 * f - d >= 0
         /\ Price!Rounded(100 * s + 100 * f - d) \in Int
         /\ Price!Rounded(100 * s + 100 * f - d) - (s + f - Price!Rounded(d)) \in {-1, 0, 1}
  BY DEF Price!Rounded

(* What an update leaves: the columns it carries, those it completes, and the rest. *)
LEMMA UpdateWritten ==
  ASSUME NEW delta, NEW seen, NEW row, DOMAIN delta \subseteq Price!Columns, DOMAIN row = Price!Columns \union {"id"}
  PROVE  LET fields == Price!Fields(delta, seen)
             new == [f \in DOMAIN row |-> IF f \in DOMAIN fields THEN fields[f] ELSE row[f]]
             chosen == Price!Discount(delta, seen)
         IN  /\ DOMAIN new = Price!Columns \union {"id"}
             /\ new.id = row.id
             /\ new.kind = IF Price!Touched(delta) THEN chosen.kind ELSE row.kind
             /\ new.value = IF Price!Touched(delta) THEN chosen.value ELSE row.value
             /\ new.min = IF "min" \in DOMAIN delta THEN delta.min ELSE row.min
             /\ new.max = IF "max" \in DOMAIN delta THEN delta.max ELSE row.max
             /\ new.starts = IF "starts" \in DOMAIN delta THEN Price!Cleared(delta.starts) ELSE row.starts
             /\ new.expires = IF "expires" \in DOMAIN delta THEN Price!Cleared(delta.expires) ELSE row.expires
  BY DEF Price!Fields, Price!Plain, Price!Discount, Price!Touched, Price!Columns

-------------------------------------------------------------------------------
(* It holds in the beginning. *)
LEMMA PriceInit == Price!PricingAssumption /\ Price!Init => PriceInv
<1> SUFFICES ASSUME Price!PricingAssumption, Price!Init PROVE PriceInv
  OBVIOUS
<1>1. Counters
  <2>1. created \in 0..MaxRules /\ updates \in 0..MaxUpdates /\ changes \in 0..MaxSettings
    BY DEF Price!Init, Price!PricingAssumption
  <2> QED
    BY <2>1 DEF Price!Init, Counters
<1>2. rule = NULL /\ order = NULL
  BY DEF Price!Init
<1>3. DOMAIN update = Editors /\ \A e \in Editors : Carried(e)
  BY DEF Price!Init, Carried, Price!NoUpdate
<1>4. cart \in Carts /\ Bounded /\ cart.at = "items"
  BY DEF Price!Init, Carts, Bounded, Price!EmptyCart
<1> QED
  BY <1>1, <1>2, <1>3, <1>4 DEF PriceInv, Price!RuleInOrder, Price!BooksBalance

(* A new code is judged as it is written. *)
LEMMA Creates ==
  ASSUME Price!PricingAssumption, PriceInv, NEW e \in Editors, NEW code \in Rules, Price!Create(e, code) PROVE PriceInv'
<1> DEFINE new == [f \in Price!Columns \union {"id"} |-> IF f = "id" THEN created + 1 ELSE code[f]]
<1>1. rule' = new /\ UNCHANGED <<shipping, update, cart, order, updates, changes>>
  BY DEF Price!Create
<1>2. created' \in 0..MaxRules /\ created' = created + 1 /\ created + 1 \in 1..MaxRules /\ crossed' = FALSE
  BY DEF Price!Create, PriceInv, Counters, Price!PricingAssumption
<1>3. /\ new.id = created + 1 /\ new.kind = code.kind /\ new.value = code.value /\ new.min = code.min
      /\ new.max = code.max /\ new.starts = code.starts /\ new.expires = code.expires
      /\ DOMAIN new = Price!Columns \union {"id"}
  BY DEF Price!Columns
<1>4. code.value \in Int /\ code.min \in Int /\ code.max \in Int \union {NULL}
      /\ (code.max # NULL => code.max >= 0)
  BY DEF Price!Create, Price!PricingAssumption
<1> HIDE DEF new
<1>5. Sound(rule')
  BY <1>1, <1>2, <1>3, <1>4 DEF Sound
<1>6. Price!RuleInOrder'
  BY <1>1, <1>3 DEF Price!Create, Price!RuleInOrder
<1> QED
  BY <1>1, <1>2, <1>5, <1>6 DEF PriceInv, Counters, Carried, Bounded, Price!BooksBalance

(* An editor reads the code. *)
LEMMA Reads ==
  ASSUME Price!PricingAssumption, PriceInv, NEW e \in Editors, NEW delta \in Deltas, Price!GetByID(e, delta) PROVE PriceInv'
<1>1. /\ UNCHANGED <<rule, shipping, cart, order, created, changes, crossed>>
      /\ update' = [update EXCEPT ![e] = [seen |-> rule, delta |-> delta]]
      /\ updates' \in 0..MaxUpdates
  BY DEF Price!GetByID, PriceInv, Counters, Price!PricingAssumption
<1>2. DOMAIN update' = Editors /\ \A d \in Editors : Carried(d)'
  BY <1>1 DEF Price!GetByID, PriceInv, Carried, Sound
<1> QED
  BY <1>1, <1>2 DEF PriceInv, Counters, Bounded, Price!RuleInOrder, Price!BooksBalance

(* An update: what it writes is a rule again, its discount one that was judged, its window
   too when the dates it was judged on are those it leaves. *)
LEMMA Updates == ASSUME Price!PricingAssumption, PriceInv, NEW e \in Editors, Price!Update(e) PROVE PriceInv'
<1>1. /\ UNCHANGED <<shipping, cart, order, created, updates, changes>>
      /\ update' = [update EXCEPT ![e] = Price!NoUpdate] /\ update[e].seen # NULL
  BY DEF Price!Update
<1>2. DOMAIN update' = Editors /\ \A d \in Editors : Carried(d)'
  BY <1>1 DEF PriceInv, Carried, Price!NoUpdate
<1>3. SUFFICES (rule' # NULL => Sound(rule')) /\ Price!RuleInOrder' /\ crossed' \in BOOLEAN
  BY <1>1, <1>2 DEF PriceInv, Counters, Bounded, Price!BooksBalance
<1>4. CASE UNCHANGED <<rule, crossed>>
  BY <1>4 DEF PriceInv, Counters, Price!RuleInOrder
<1>5. CASE ~UNCHANGED <<rule, crossed>>
  <2> DEFINE seen == update[e].seen
             delta == update[e].delta
             fields == Price!Fields(delta, seen)
             new == [f \in DOMAIN rule |-> IF f \in DOMAIN fields THEN fields[f] ELSE rule[f]]
  <2>1. /\ rule # NULL /\ rule' = new /\ Price!Accepted(delta, seen)
        /\ crossed' = (crossed \/ <<seen.starts, seen.expires>> # <<rule.starts, rule.expires>>)
    BY <1>5 DEF Price!Update
  <2>2. Sound(rule) /\ delta \in Deltas /\ DOMAIN delta \subseteq Price!Columns /\ DOMAIN rule = Price!Columns \union {"id"}
    BY <1>1, <2>1 DEF PriceInv, Carried, Price!PricingAssumption, Sound
  <2> DEFINE chosen == Price!Discount(delta, seen)
  <2>3. /\ DOMAIN new = Price!Columns \union {"id"}
        /\ new.id = rule.id
        /\ new.kind = IF Price!Touched(delta) THEN chosen.kind ELSE rule.kind
        /\ new.value = IF Price!Touched(delta) THEN chosen.value ELSE rule.value
        /\ new.min = IF "min" \in DOMAIN delta THEN delta.min ELSE rule.min
        /\ new.max = IF "max" \in DOMAIN delta THEN delta.max ELSE rule.max
        /\ new.starts = IF "starts" \in DOMAIN delta THEN Price!Cleared(delta.starts) ELSE rule.starts
        /\ new.expires = IF "expires" \in DOMAIN delta THEN Price!Cleared(delta.expires) ELSE rule.expires
    BY <2>2, UpdateWritten
  <2>4. /\ "min" \in DOMAIN delta => delta.min \in Int
        /\ "max" \in DOMAIN delta => delta.max \in Int /\ delta.max >= 0
    BY <2>1, <2>2 DEF Price!PricingAssumption, Price!Accepted, Price!Given
  <2>5. Price!validateDiscount(rule.kind, rule.value)
    BY <2>1 DEF PriceInv, Price!RuleInOrder
  <2>6. Price!Touched(delta) => Price!validateDiscount(chosen.kind, chosen.value)
    BY <2>1 DEF Price!Accepted
  <2>7. Price!InOrder(new.starts, new.expires) \/ crossed'
    <3> SUFFICES ASSUME ~crossed' PROVE Price!InOrder(new.starts, new.expires)
      OBVIOUS
    <3>1. seen.starts = rule.starts /\ seen.expires = rule.expires
      BY <2>1
    <3> DEFINE kept(f) == IF Price!Given(delta, f, Empty) = Empty THEN seen[f] ELSE delta[f]
    <3>2. Price!InOrder(kept("starts"), kept("expires"))
      BY <2>1 DEF Price!Accepted
    <3>3. /\ new.starts = NULL \/ new.starts = kept("starts")
          /\ new.expires = NULL \/ new.expires = kept("expires")
      BY <2>3, <3>1 DEF Price!Given, Price!Cleared
    <3> QED
      BY <3>2, <3>3 DEF Price!InOrder
  <2> HIDE DEF new, fields, seen, delta, chosen
  <2>8. Price!validateDiscount(new.kind, new.value)
    BY <2>3, <2>5, <2>6
  <2>9. new.value \in Int
    <3>1. chosen.value \in Int
      BY <1>1, <2>2 DEF PriceInv, Carried, Price!PricingAssumption, Price!Discount, Price!Given, seen, delta, chosen
    <3> QED
      BY <2>2, <2>3, <3>1 DEF Sound
  <2>10. Sound(rule')
    BY <2>1, <2>2, <2>3, <2>4, <2>9 DEF Sound
  <2>11. crossed' \in BOOLEAN
    BY <2>1 DEF PriceInv, Counters
  <2>12. Price!RuleInOrder'
    BY <2>1, <2>7, <2>8 DEF Price!RuleInOrder
  <2> QED
    BY <2>10, <2>11, <2>12
<1> QED
  BY <1>4, <1>5

(* The code goes, and takes its faults with it. *)
LEMMA Deletes == ASSUME PriceInv, NEW e \in Editors, Price!Delete(e) PROVE PriceInv'
<1>1. rule' = NULL /\ crossed' = FALSE /\ UNCHANGED <<shipping, update, cart, order, created, updates, changes>>
  BY DEF Price!Delete
<1> QED
  BY <1>1 DEF PriceInv, Counters, Carried, Bounded, Price!RuleInOrder, Price!BooksBalance

(* A form replaces the settings. *)
LEMMA Settings == ASSUME Price!PricingAssumption, PriceInv, NEW value \in Shippings, Price!Upsert(value) PROVE PriceInv'
<1>1. /\ shipping' = value /\ changes' \in 0..MaxSettings
      /\ UNCHANGED <<rule, update, cart, order, created, updates, crossed>>
  BY DEF Price!Upsert, PriceInv, Counters, Price!PricingAssumption
<1> QED
  BY <1>1 DEF PriceInv, Counters, Carried, Bounded, Price!RuleInOrder, Price!BooksBalance

(* Where only the cart moves, its own part of the invariant is what is left to show. *)
LEMMA Carting ==
  ASSUME PriceInv, UNCHANGED <<rule, shipping, update, order, created, updates, changes, crossed>>,
         cart' \in Carts, Bounded', cart.at # "done", cart'.at # "done"
  PROVE  PriceInv'
  BY DEF PriceInv, Counters, Carried, Price!RuleInOrder, Price!BooksBalance

LEMMA Moves ==
  ASSUME PriceInv, Price!OnlyCart, cart.at # "done", NEW at \in {"order", "refused"}, Price!Step(at)
  PROVE  PriceInv'
<1>1. cart' \in Carts /\ cart'.at = at /\ cart'.subtotal = cart.subtotal /\ cart'.discount = cart.discount
  BY DEF Price!Step, PriceInv, Carts
<1> QED
  BY <1>1, Carting DEF Price!OnlyCart, PriceInv, Bounded

(* The steps of a checkout up to the order. *)
LEMMA Fills ==
  ASSUME Price!PricingAssumption, PriceInv, NEW subtotal \in Subtotals, Price!buildOrderItems(subtotal)
  PROVE  PriceInv'
<1>1. subtotal \in Nat
  BY DEF Price!PricingAssumption
<1>2. /\ cart' = [cart EXCEPT !.at = "fee", !.subtotal = subtotal] /\ cart.at = "items"
      /\ cart \in Carts /\ cart.discount = 0
  BY DEF Price!buildOrderItems, PriceInv, Bounded
<1>3. cart' \in Carts /\ cart'.at = "fee" /\ cart'.subtotal = subtotal /\ cart'.discount = 0
  BY <1>1, <1>2 DEF Carts
<1> QED
  BY <1>1, <1>2, <1>3, Carting DEF Price!buildOrderItems, Price!OnlyCart, Bounded

LEMMA Fees == ASSUME Price!PricingAssumption, PriceInv, Price!computeShippingFee PROVE PriceInv'
<1> DEFINE fee == Price!ShippingFee(shipping, cart.subtotal)
<1>1. cart \in Carts /\ cart.at = "fee" /\ cart.discount = 0 /\ cart.subtotal \in Nat
  BY DEF Price!computeShippingFee, PriceInv, Bounded, Carts
<1>2. fee \in Int
  BY <1>1, FeeIsNumber DEF PriceInv, Counters
<1>3. cart' = [cart EXCEPT !.at = "promo", !.fee = fee]
  BY DEF Price!computeShippingFee
<1> HIDE DEF fee
<1>4. cart' \in Carts /\ cart'.at = "promo" /\ cart'.subtotal = cart.subtotal /\ cart'.discount = 0
  BY <1>1, <1>2, <1>3 DEF Carts
<1> QED
  BY <1>1, <1>4, Carting DEF Price!computeShippingFee, Price!OnlyCart, Bounded

LEMMA Applies ==
  ASSUME PriceInv, NEW coded \in BOOLEAN, NEW now \in Price!Moments, Price!applyPromoCode(coded, now)
  PROVE  PriceInv'
<1>1. Price!OnlyCart /\ cart.at = "promo" /\ cart \in Carts /\ cart.subtotal \in Nat
  BY DEF Price!applyPromoCode, PriceInv, Carts
<1>2. CASE Price!Step("order") \/ Price!Step("refused")
  BY <1>1, <1>2, Moves
<1>3. CASE /\ Price!Valid(rule, now, cart.subtotal)
           /\ cart' = [cart EXCEPT !.at = "reload", !.discount = Price!CalculateDiscount(rule, cart.subtotal)]
  <2> DEFINE discount == Price!CalculateDiscount(rule, cart.subtotal)
  <2>1. Sound(rule) /\ Price!validateDiscount(rule.kind, rule.value)
    BY <1>3 DEF Price!Valid, PriceInv, Price!RuleInOrder
  <2>2. discount \in Int /\ 0 <= discount /\ discount <= 100 * cart.subtotal
    BY <1>1, <2>1, DiscountBounds
  <2>3. cart' = [cart EXCEPT !.at = "reload", !.discount = discount]
    BY <1>3
  <2> HIDE DEF discount
  <2>4. cart' \in Carts /\ cart'.at = "reload" /\ cart'.subtotal = cart.subtotal /\ cart'.discount = discount
    BY <1>1, <2>2, <2>3 DEF Carts
  <2> QED
    BY <1>1, <2>2, <2>4, Carting DEF Price!OnlyCart, Bounded
<1> QED
  BY <1>2, <1>3 DEF Price!applyPromoCode

LEMMA Reloads == ASSUME PriceInv, Price!GetByCode PROVE PriceInv'
<1>1. PICK found \in BOOLEAN : cart' = [cart EXCEPT !.at = "order", !.coded = found]
  BY DEF Price!GetByCode
<1>2. cart \in Carts /\ cart.at = "reload" /\ Price!OnlyCart
  BY DEF Price!GetByCode, PriceInv
<1>3. cart' \in Carts /\ cart'.at = "order" /\ cart'.subtotal = cart.subtotal /\ cart'.discount = cart.discount
  BY <1>1, <1>2 DEF Carts
<1> QED
  BY <1>2, <1>3, Carting DEF Price!OnlyCart, Bounded, PriceInv

(* The order is written with the amounts of its cart. *)
LEMMA Builds == ASSUME Price!PricingAssumption, PriceInv, Price!buildOrder PROVE PriceInv'
<1>1. cart.at = "order" /\ cart \in Carts /\ UNCHANGED <<rule, shipping, update, created, updates, changes, crossed>>
  BY DEF Price!buildOrder, PriceInv
<1>2. CASE cart.fee < 0
  BY <1>1, <1>2, Moves DEF Price!buildOrder, Price!OnlyCart
<1>3. CASE ~(cart.fee < 0)
  <2>1. /\ cart.subtotal \in Nat /\ cart.fee \in Nat /\ cart.discount \in Int /\ cart.coded \in BOOLEAN
        /\ 0 <= cart.discount /\ cart.discount <= 100 * cart.subtotal
    BY <1>1, <1>3 DEF Carts, PriceInv, Bounded
  <2>2. /\ Price!Rounded(cart.discount) \in Int
        /\ 0 <= Price!Rounded(cart.discount) /\ Price!Rounded(cart.discount) <= cart.subtotal
        /\ Price!Exact >= 0 /\ Price!Rounded(Price!Exact) \in Int
        /\ Price!Rounded(Price!Exact) - (cart.subtotal + cart.fee - Price!Rounded(cart.discount)) \in {-1, 0, 1}
    <3>1. PICK s \in Nat, f \in Nat, d \in Int : s = cart.subtotal /\ f = cart.fee /\ d = cart.discount
      BY <2>1
    <3>2. 0 <= d /\ d <= 100 * s /\ Price!Exact = 100 * s + 100 * f - d
      BY <2>1, <3>1 DEF Price!Exact
    <3>3. /\ Price!Rounded(d) \in Int /\ 0 <= Price!Rounded(d) /\ Price!Rounded(d) <= s
          /\ 100 * s + 100 * f - d >= 0
          /\ Price!Rounded(100 * s + 100 * f - d) \in Int
          /\ Price!Rounded(100 * s + 100 * f - d) - (s + f - Price!Rounded(d)) \in {-1, 0, 1}
      BY <3>2, CentsAgree
    <3>4. Price!Rounded(cart.discount) = Price!Rounded(d) /\ Price!Rounded(Price!Exact) = Price!Rounded(100 * s + 100 * f - d)
      BY <3>1, <3>2
    <3> QED
      BY <3>1, <3>2, <3>3, <3>4
  <2>3. order' = [subtotal |-> cart.subtotal, fee |-> cart.fee, discount |-> Price!Rounded(cart.discount),
                  total |-> IF Price!Exact < 0 THEN 0 ELSE Price!Rounded(Price!Exact), coded |-> cart.coded]
    BY <1>3 DEF Price!buildOrder
  <2>4. ~(Price!Exact < 0)
    BY <2>1, <2>2 DEF Price!Exact
  <2>5. /\ order' \in Price!Amounts /\ order'.subtotal = cart.subtotal /\ order'.fee = cart.fee
        /\ order'.discount = Price!Rounded(cart.discount) /\ order'.total = Price!Rounded(Price!Exact)
    BY <2>1, <2>2, <2>3, <2>4 DEF Price!Amounts
  <2>6. order' # NULL
    BY <2>5 DEF Price!PricingAssumption
  <2>7. Price!BooksBalance'
    BY <2>1, <2>2, <2>5 DEF Price!BooksBalance
  <2>8. cart' \in Carts /\ cart'.at = "done" /\ cart'.subtotal = cart.subtotal /\ cart'.discount = cart.discount
    BY <1>1, <1>3 DEF Price!buildOrder, Price!Step, Carts
  <2>9. Bounded'
    BY <2>8 DEF PriceInv, Bounded
  <2> QED
    BY <1>1, <2>6, <2>7, <2>8, <2>9 DEF PriceInv, Counters, Carried, Price!RuleInOrder
<1> QED
  BY <1>2, <1>3

(* Every step keeps it. *)
LEMMA PriceStep == Price!PricingAssumption /\ PriceInv /\ Price!Next => PriceInv'
<1> SUFFICES ASSUME Price!PricingAssumption, PriceInv, Price!Next PROVE PriceInv'
  OBVIOUS
<1>1. ASSUME Price!Refuse PROVE PriceInv'
  BY <1>1, Moves DEF Price!Refuse
<1> QED
  BY <1>1, Creates, Reads, Updates, Deletes, Settings, Fills, Fees, Applies, Reloads, Builds DEF Price!Next

LEMMA PriceStands == PriceInv /\ UNCHANGED Price!vars => PriceInv'
  BY DEF PriceInv, Price!vars, Counters, Carried, Bounded, Price!RuleInOrder, Price!BooksBalance

(* What the invariant says of the properties. *)
LEMMA PriceTypes == PriceInv => Price!TypeOK
  BY DEF PriceInv, Price!TypeOK, Counters, Sound, Price!Columns, Carried, Carts

-------------------------------------------------------------------------------
(* The whole.  The uses of a code and the e-mails share the count of faults alone, which
   only grows: what the mails promise without a fault is promised of fewer states. *)
SalesInv == PromoInv /\ OverrunInv /\ PriceInv /\ Mail!MailInv /\ PagesInv

LEMMA FaultsGrow == ASSUME TypeOK, [Next]_vars PROVE faults' = faults \/ faults' = faults + 1
  BY DEF vars, history, Next, Begin, Validate, CountUses, Reload, Create, Record, Increment, Crash,
         SetLimit, SetPerUser, SetOpen, Delete, Fails, Works

LEMMA UsesStep ==
  ASSUME SalesInv, Next, UNCHANGED <<priceVars, mailVars, listVars>>
  PROVE  SalesInv'
<1>1. PromoInv' /\ TypeOK /\ TypeOK'
  BY PromoStep DEF SalesInv, PromoInv
<1>2. OverrunInv'
  BY <1>1, OverStep DEF SalesInv
<1>3. PriceInv'
  BY PriceStands DEF SalesInv, priceVars, Price!vars
<1>4. faults \in Nat /\ (faults' = 0 => faults = 0)
  <2>1. faults \in Nat
    BY <1>1 DEF TypeOK
  <2> QED
    BY <1>1, <2>1, FaultsGrow
<1>5. UNCHANGED <<mailer, enabled, account, bought, proofs, task, outbox, sent, <<shipments, overtaken, muted>>, forms>>
  BY DEF mailVars
<1>6. Mail!MailInv'
  BY <1>4, <1>5, Mail!Stands DEF SalesInv, Mail!past
<1>7. PagesInv'
  BY PagesStand DEF SalesInv
<1> QED
  BY <1>1, <1>2, <1>3, <1>6, <1>7 DEF SalesInv

LEMMA MailStep ==
  ASSUME SalesInv, Mail!MailNext, UNCHANGED <<otherUses, priceVars, listVars>>
  PROVE  SalesInv'
<1>1. TypeOK /\ faults \in 0..MaxFaults /\ MaxFaults \in Nat
  BY PromoAssumption DEF SalesInv, PromoInv, TypeOK
<1>2. faults' \in 0..MaxFaults
  BY <1>1, Mail!StepFaults
<1>3. PromoInv'
  BY <1>2 DEF SalesInv, otherUses, PromoInv, TypeOK, LimitWithinPeak, CountWithinPeak, Incrementing, Counted,
              AuditedIsDiscounted
<1>4. OverrunInv'
  BY DEF SalesInv, otherUses, OverrunInv, Entitled, Granted, Settled, Running
<1>5. PriceInv'
  BY PriceStands DEF SalesInv, priceVars, Price!vars
<1>6. Mail!MailInv'
  BY <1>1, SalesAssumption, Mail!StepInv DEF SalesInv
<1>7. PagesInv'
  BY PagesStand DEF SalesInv
<1> QED
  BY <1>3, <1>4, <1>5, <1>6, <1>7 DEF SalesInv

LEMMA RestStep ==
  ASSUME SalesInv,
         \/ Price!Next /\ UNCHANGED <<vars, mailVars, listVars>>
         \/ Placed!Next /\ UNCHANGED <<vars, priceVars, mailVars>>
         \/ UNCHANGED salesVars
  PROVE  SalesInv'
<1>1. UNCHANGED vars /\ UNCHANGED mailVars
  BY DEF salesVars
<1>2. PromoInv' /\ OverrunInv'
  BY <1>1, PromoStep, OverStep DEF SalesInv, PromoInv
<1>3. Mail!MailInv'
  <2>1. UNCHANGED <<mailer, enabled, account, bought, proofs, task, outbox, sent, <<shipments, overtaken, muted>>, forms>>
        /\ faults' = faults
    BY <1>1 DEF mailVars, vars
  <2> QED
    BY <2>1, Mail!Stands DEF SalesInv, Mail!past
<1>4. PriceInv'
  BY SalesAssumption, PriceStep, PriceStands DEF SalesInv, priceVars, Price!vars, salesVars
<1>5. PagesInv'
  BY PagesStep, PagesStand DEF SalesInv, salesVars
<1> QED
  BY <1>2, <1>3, <1>4, <1>5 DEF SalesInv

LEMMA SalesStep == ASSUME SalesInv, [SalesNext]_salesVars PROVE SalesInv'
  BY UsesStep, MailStep, RestStep DEF SalesNext

LEMMA SalesStarts == ASSUME SalesInit PROVE SalesInv
<1>1. PromoInv /\ OverrunInv
  BY PromoInit, OverInit DEF SalesInit, PromoInv
<1>2. PriceInv
  BY SalesAssumption, PriceInit DEF SalesInit
<1>3. Mail!MailInv
  BY SalesAssumption, Mail!InitInv DEF SalesInit
<1>4. PagesInv
  BY PagesInit DEF SalesInit
<1> QED
  BY <1>1, <1>2, <1>3, <1>4 DEF SalesInv

(* What the invariants say of the properties. *)
LEMMA SalesSays ==
  SalesInv => SalesTypeOK /\ RuleInOrder /\ BooksBalance /\ ToldOnce /\ SteadySeen
<1> SUFFICES ASSUME SalesInv PROVE SalesTypeOK /\ RuleInOrder /\ BooksBalance /\ ToldOnce /\ SteadySeen
  OBVIOUS
<1>1. TypeOK /\ faults \in 0..MaxFaults
  BY DEF SalesInv, PromoInv, TypeOK
<1>2. Price!TypeOK /\ Price!RuleInOrder /\ Price!BooksBalance
  BY PriceTypes DEF SalesInv, PriceInv
<1>3. Mail!MailTypeOK /\ Mail!ToldOnce
  BY <1>1, SalesAssumption, Mail!InvTypes, Mail!InvTold DEF SalesInv
<1>4. Placed!TypeOK /\ SteadySeen
  BY PagesTypes DEF SalesInv, PagesInv
<1> QED
  BY <1>1, <1>2, <1>3, <1>4 DEF SalesTypeOK, RuleInOrder, BooksBalance, ToldOnce

-------------------------------------------------------------------------------
(* The strengthened invariants hold of every behaviour: of a code on its own, and of the
   whole. *)
THEOREM PromoInvariant == Spec => [](PromoInv /\ OverrunInv)
<1>1. Init => PromoInv /\ OverrunInv
  BY PromoInit, OverInit DEF PromoInv
<1>2. PromoInv /\ OverrunInv /\ [Next]_vars => (PromoInv /\ OverrunInv)'
  BY PromoStep, OverStep DEF PromoInv
<1> QED
  BY <1>1, <1>2, PTL DEF Spec

THEOREM SalesInvariant == SalesSpec => []SalesInv
  BY SalesStarts, SalesStep, PTL DEF SalesSpec

(* IncrementUsage (promo_store.go): whatever orders run together and however
   the limit is edited, usage_count never passes the largest usage_limit.   *)
THEOREM CountCorrect == Spec => []CountWithinPeak
<1>1. PromoInv => CountWithinPeak
  BY DEF PromoInv
<1> QED
  BY <1>1, PromoInvariant, PTL

(* MarkUsed (promo_service.go): the row first, the counter second; so the
   counter never counts a use without a row, through faults and restarts.   *)
THEOREM AuditCorrect == Spec => []CountIsAudited
  BY PromoInvariant, PromoImplies, PTL

(* afterOrderCreated (order_service.go) runs only for an order that is in the
   table: a row of promo_usages has its discounted order.                   *)
THEOREM UsageCorrect == Spec => []AuditedIsDiscounted
<1>1. PromoInv => AuditedIsDiscounted
  BY DEF PromoInv
<1> QED
  BY <1>1, PromoInvariant, PTL

(* applyPromoCode and afterOrderCreated (order_service.go): nothing ties the check of the
   limit to the increment, and yet n checkouts under way at a time pass usage_limit by
   n - 1 discounts at most, beside those whose use could not be recorded.   *)
THEOREM OverrunCorrect == Spec => []OverrunBounded
<1>1. PromoInv /\ OverrunInv => OverrunBounded
  BY OverBounds DEF PromoInv
<1> QED
  BY <1>1, PromoInvariant, PTL

(* Every variable of the four parts has its type, for any constants: in particular an
   order has amounts from the end of its checkout on and not before. *)
THEOREM SalesTypesCorrect == SalesSpec => []SalesTypeOK
  BY SalesInvariant, SalesSays, PTL

(* PromoService.Update (promo_service.go): however the updates of a code cross, its
   discount is one an administrator could have asked for, and its window is in order
   unless one of them was judged on dates that another was changing. *)
THEOREM RulesCorrect == SalesSpec => []RuleInOrder
  BY SalesInvariant, SalesSays, PTL

(* OrderService.Create (order_service.go): for any rule, settings and subtotal, read at any
   moment between their edits, the four amounts of an order agree to the cent and the
   discount is no more than the goods. *)
THEOREM AmountsCorrect == SalesSpec => []BooksBalance
  BY SalesInvariant, SalesSays, PTL

(* The messages of orders and forms (order_email.go, consent_service.go): none tells what
   has not happened or tells it twice, and none is forgotten where no call failed. *)
THEOREM MailsCorrect == SalesSpec => []ToldOnce
  BY SalesInvariant, SalesSays, PTL

(* The lists of orders (order_store.go): for any page size, whoever goes on until has_more
   is false was shown every order that matched all along, unless the list moved under a
   page of his. *)
THEOREM PagesCorrect == SalesSpec => []SteadySeen
  BY SalesInvariant, SalesSays, PTL
=============================================================================
