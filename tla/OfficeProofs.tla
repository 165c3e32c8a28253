----------------------------- MODULE OfficeProofs -----------------------------
(***************************************************************************)
(* The theorems about the back office.                                     *)
(*                                                                         *)
(* The address book of a user, for any number of requests and addresses: a *)
(* book with addresses keeps a default one, and a request of its own never *)
(* meets a second one.  DefaultKept speaks of what is committed.  What     *)
(* makes it inductive is what the transactions hold: each row and the      *)
(* entry of the index are held by one of them (Locking), what a            *)
(* transaction will commit never has two defaults (OneDefault), and, as    *)
(* long as nothing lapsed, what it read still stands (Standing); of a      *)
(* request that runs alone all of it does (Undisturbed).                   *)
(*                                                                         *)
(* The accounts and the login: what AccountsProofs and GatekeeperProofs    *)
(* show of one step of their part, stated of the behaviours of the whole.  *)
(* A step of another part leaves the variables of this one alone, so each  *)
(* inductive invariant holds in every focus.                               *)
(*                                                                         *)
(* The categories, for any taxonomy: what each statement of a start has    *)
(* left (Seeded).  The import, for any file: what slugs a run has given    *)
(* (UsedOK) and what it is to show for the articles it went through        *)
(* (Covered).  The listing, for any shelf, filter and page: a page shows   *)
(* the products of the next ranks (Shown).  The types of all parts.        *)
(***************************************************************************)
EXTENDS MCBackOffice, FiniteSetTheorems, SequenceTheorems, WellFoundedInduction, TLAPS

-----------------------------------------------------------------------------
(* The address book. *)

Answers == {"none", "ok", "refused", "missing", "conflict", "failed"}
RequestState ==
  [op : Ops \union {"none"}, at : Steps, id : 0..MaxAddresses, want : BOOLEAN, prev : BOOLEAN,
   seen : 0..MaxAddresses, writes : [Ids -> Rows \union {"unwritten"}], alone : BOOLEAN, answer : Answers]

Typed ==
  /\ book \in [Ids -> Rows]
  /\ born \in 0..MaxAddresses
  /\ faults \in 0..MaxFaults
  /\ lapsed \in BOOLEAN
  /\ request \in [Requests -> RequestState]

(* The committed table: addresses are numbered as they come, one is the default. *)
Committed ==
  /\ \A i \in Ids : book[i] # "absent" => i <= born
  /\ \A i, j \in Ids : book[i] = "default" /\ book[j] = "default" => i = j

(* Which request is at which step, and what it can have written there. *)
Placed(r) ==
  /\ request[r].id <= born
  /\ \A i \in Ids : Wrote(r, i) => i <= born
  /\ request[r].at \in {"validate", "begin", "insert"} => request[r].op = "create"
  /\ request[r].at \in {"remove", "next"} => request[r].op = "delete"
  /\ request[r].at \in {"keep", "set"} => request[r].op = "update"
  /\ request[r].at = "unset" => request[r].op = "unset"
  /\ request[r].at = "take" => request[r].op \in {"update", "unset", "setDefault", "delete"}
  /\ request[r].at \in {"snap", "clear"} => request[r].op \in {"create", "update", "setDefault"} /\ request[r].want
  /\ request[r].at \in {"write", "commit"} => request[r].op # "none"
  /\ request[r].at = "write" => request[r].op # "create"
  /\ request[r].at = "set" => request[r].want
  /\ request[r].op = "unset" /\ request[r].at # "keep" => ~request[r].want
  /\ request[r].op = "setDefault" => request[r].want
  /\ request[r].op = "delete" /\ request[r].at = "write" => request[r].want
  /\ request[r].op \notin {"create", "none"} => request[r].id # 0
  /\ request[r].op \in {"create", "none"} => request[r].id = 0
  /\ request[r].at \in {"new", "done"} => request[r].op = "none"
  /\ request[r].at \notin {"insert", "write", "next", "commit"} => \A i \in Ids : ~Wrote(r, i)
  /\ \A i \in Ids : request[r].writes[i] = "absent" => request[r].op = "delete"
  /\ \A i \in Ids : request[r].writes[i] = "default" => request[r].at = "commit"
  /\ request[r].answer = "conflict" => ~request[r].alone

(* A row has one holder, and the uncommitted defaults are one at most. *)
Locking(r) ==
  \A q \in Requests \ {r}, i, j \in Ids :
    /\ ~(Wrote(r, i) /\ Wrote(q, i))
    /\ ~(request[r].writes[i] = "default" /\ request[q].writes[j] = "default")

(* The unique index, on what a transaction will commit. *)
OneDefault(r) ==
  \A i, j \in Ids : request[r].writes[i] = "default" /\ i # j => SeenBy(r, j) # "default"

(* What a request read stands, and what it wrote is what it was asked for. *)
Standing(r) ==
  /\ request[r].op = "create" /\ request[r].at = "commit" /\ request[r].want =>
       \E i \in Ids : request[r].writes[i] = "default"
  /\ request[r].op = "create" /\ ~request[r].want => \A i \in Ids : Wrote(r, i) => book[i] = "absent"
  /\ request[r].op = "update" /\ ~request[r].want => \A i \in Ids : Wrote(r, i) => i = request[r].id
  /\ ~lapsed =>
       /\ request[r].op = "create" /\ request[r].at \in {"insert", "commit"} /\ ~request[r].want =>
            \E i \in Ids : book[i] # "absent"
       /\ request[r].op \in {"update", "setDefault"} /\ request[r].at \in {"snap", "clear", "write", "commit"} =>
            book[request[r].id] # "absent"
       /\ request[r].op \in {"update", "setDefault"} /\ request[r].at = "commit" /\ request[r].want =>
            request[r].writes[request[r].id] = "default"

(* Nobody runs beside a request that is alone, so all it read still is so. *)
Undisturbed(r) ==
  request[r].alone /\ Running(r) =>
    /\ \A q \in Requests \ {r} : ~Running(q)
    /\ request[r].at = "clear" =>
         IF request[r].seen = 0 THEN \A i \in Ids : book[i] # "default" ELSE book[request[r].seen] = "default"
    /\ request[r].at \in {"insert", "write"} /\ request[r].want =>
         \A j \in Ids : j # request[r].id => SeenBy(r, j) # "default"
    /\ request[r].op = "update" /\ ~request[r].want /\ request[r].at \in {"take", "write", "commit"} =>
         book[request[r].id] # "default"
    /\ request[r].at = "remove" =>
         book[request[r].id] # "absent" /\ (request[r].prev <=> book[request[r].id] = "default")
    /\ request[r].at = "next" => \A j \in Ids : SeenBy(r, j) # "default"
    /\ request[r].op = "delete" /\ request[r].at = "write" => SeenBy(r, request[r].id) # "absent"
    /\ request[r].op = "delete" /\ request[r].at = "commit" /\ ~lapsed =>
         (\A i \in Ids : SeenBy(r, i) = "absent") \/ \E i \in Ids : SeenBy(r, i) = "default"

Sound(r) == Placed(r) /\ Locking(r) /\ OneDefault(r) /\ Standing(r) /\ Undisturbed(r)

(* The first part of DefaultKept; the other is in Placed. *)
HasDefault == lapsed \/ (\A i \in Ids : book[i] = "absent") \/ \E i \in Ids : book[i] = "default"

BookInv == Typed /\ Committed /\ HasDefault /\ \A r \in Requests : Sound(r)

(* A set of addresses has a newest one: what is left above it is a natural number. *)
Less == {ss \in Nat \X Nat : ss[1] < ss[2]}

LEMMA Newest ==
  ASSUME NEW S, S \subseteq Ids, S # {}
  PROVE  (CHOOSE i \in S : \A j \in S : j <= i) \in S
<1> DEFINE T == {MaxAddresses - i : i \in S}
<1>1. T \subseteq Nat /\ T # {}
  <2>1. ASSUME NEW i \in S PROVE MaxAddresses - i \in Nat
    <3>1. i \in 1..MaxAddresses
      BY DEF Ids
    <3> QED
      BY <3>1, AddressBookAssumption
  <2> QED
    BY <2>1
<1>2. \E x \in T : \A y \in T : ~(<<y, x>> \in Less)
  <2>1. IsWellFoundedOn(Less, Nat)
    BY NatLessThanWellFounded, Zenon DEF OpToRel, Less
  <2> HIDE DEF T
  <2> QED
    BY <1>1, <2>1, WFMin, Zenon
<1>3. PICK x \in T : \A y \in T : ~(<<y, x>> \in Less)
  BY <1>2
<1>4. ASSUME NEW y \in T PROVE x <= y
  <2>1. \A z, w \in Nat : z < w => <<z, w>> \in Less
    BY DEF Less
  <2> HIDE DEF T
  <2>2. ~(y < x)
    BY <1>1, <1>3, <2>1, Zenon
  <2> QED
    BY <1>1, <2>2
<1>5. PICK i \in S : x = MaxAddresses - i
  BY <1>3
<1>6. \A j \in S : j <= i
  <2> SUFFICES ASSUME NEW j \in S PROVE j <= i
    OBVIOUS
  <2>1. x <= MaxAddresses - j
    BY <1>4
  <2> QED
    BY <1>5, <2>1, AddressBookAssumption DEF Ids
<1> QED
  BY <1>6

(* A request that has not begun, or has ended, has its type. *)
LEMMA IdleTyped == Idle \in RequestState
  BY AddressBookAssumption DEF RequestState, Idle, Ops, Steps, Answers, Untouched

(* An initial book has at most one default, as its cardinality says. *)
LEMMA InitBook == Init => BookInv
<1> SUFFICES ASSUME Init PROVE BookInv
  OBVIOUS
<1> DEFINE D == {i \in Ids : book[i] = "default"}
<1>1. Typed
  <2>2. request \in [Requests -> RequestState]
    BY IdleTyped DEF Init
  <2>3. book \in [Ids -> Rows] /\ born \in 0..MaxAddresses /\ lapsed \in BOOLEAN
    BY DEF Init
  <2>4. faults \in 0..MaxFaults
    BY AddressBookAssumption DEF Init
  <2> QED
    BY <2>2, <2>3, <2>4 DEF Typed
<1>2. IsFiniteSet(D)
  <2>1. IsFiniteSet(Ids)
    BY AddressBookAssumption, FS_Interval DEF Ids
  <2> QED
    BY <2>1, FS_Subset
<1>3. \A i, j \in D : i = j
  <2>1. CASE Cardinality(D) = 0
    BY <1>2, <2>1, FS_EmptySet
  <2>2. CASE Cardinality(D) = 1
    <3>1. \E x : D = {x}
      BY <1>2, <2>2, FS_Singleton
    <3> QED
      BY <3>1
  <2> QED
    BY <2>1, <2>2 DEF Init
<1>4. Committed
  BY <1>3, AddressBookAssumption DEF Init, Committed, Ids, Rows
<1>5. HasDefault
  <2>1. CASE \E i \in Ids : book[i] # "absent"
    <3>1. D # {}
      BY <2>1, FS_EmptySet DEF Init
    <3> QED
      BY <3>1 DEF HasDefault
  <2> QED
    BY <2>1 DEF HasDefault
<1>6. \A r \in Requests : Sound(r)
  BY AddressBookAssumption
  DEF Init, Sound, Placed, Locking, OneDefault, Standing, Undisturbed, Wrote, SeenBy, Running, Idle, Untouched, Ids
<1> QED
  BY <1>1, <1>4, <1>5, <1>6 DEF BookInv

-------------------------------------------------------------------------------
(* A step of a running request that writes nothing to the committed table leaves *)
(* all others as they are: what it has to keep is its own.                        *)
LEMMA OwnStep ==
  ASSUME BookInv, NEW r \in Requests, Running(r), NEW new \in RequestState,
         request' = [request EXCEPT ![r] = new], UNCHANGED <<book, lapsed>>,
         born' \in born..MaxAddresses, faults' \in 0..MaxFaults,
         new.alone = request[r].alone,
         Placed(r)', Locking(r)', OneDefault(r)', Standing(r)',
         new.at \notin {"new", "done"} => Undisturbed(r)'
  PROVE  BookInv'
<1>1. Typed'
  BY AddressBookAssumption DEF BookInv, Typed
<1>2. Committed' /\ HasDefault'
  BY AddressBookAssumption DEF BookInv, Typed, Committed, HasDefault, Ids
<1>3. request'[r] = new
  BY DEF BookInv, Typed
<1>4. Undisturbed(r)'
  BY <1>3 DEF Undisturbed, Running
<1>5. ASSUME NEW q \in Requests, q # r PROVE Sound(q)'
  <2>1. request'[q] = request[q]
    BY <1>5 DEF BookInv, Typed
  <2>2. Sound(q)
    BY DEF BookInv
  <2>3. Placed(q)'
    <3>1. /\ born \in Int /\ born' \in Int /\ born <= born'
          /\ request[q].id \in Int
          /\ \A i \in Ids : i \in Int
      BY AddressBookAssumption DEF BookInv, Typed, RequestState, Ids
    <3>2. request'[q].id <= born' /\ \A i \in Ids : Wrote(q, i)' => i <= born'
      BY <2>1, <2>2, <3>1 DEF Sound, Placed, Wrote
    <3> QED
      BY <2>1, <2>2, <3>2 DEF Sound, Placed, Wrote
  <2>4. Locking(q)'
    <3> SUFFICES ASSUME NEW p \in Requests \ {q}, NEW i \in Ids, NEW j \in Ids
                 PROVE  /\ ~(Wrote(q, i)' /\ Wrote(p, i)')
                        /\ ~(request'[q].writes[i] = "default" /\ request'[p].writes[j] = "default")
      BY DEF Locking
    <3>1. CASE p = r
      BY <3>1, <1>5 DEF Locking
    <3>2. CASE p # r
      <4>1. request'[p] = request[p]
        BY <3>2 DEF BookInv, Typed
      <4> QED
        BY <4>1, <2>1, <2>2 DEF Sound, Locking, Wrote
    <3> QED
      BY <3>1, <3>2
  <2>5. OneDefault(q)' /\ Standing(q)'
    BY <2>1, <2>2 DEF Sound, OneDefault, Standing, SeenBy, Wrote
  <2>6. Undisturbed(q)'
    BY <2>1, <2>2, <1>5 DEF Sound, Undisturbed, Running
  <2> QED
    BY <2>3, <2>4, <2>5, <2>6 DEF Sound
<1> QED
  BY <1>1, <1>2, <1>4, <1>5 DEF BookInv, Sound

(* A step after which the request has the same writes as before. *)
LEMMA QuietStep ==
  ASSUME BookInv, NEW r \in Requests, Running(r), NEW new \in RequestState,
         request' = [request EXCEPT ![r] = new], UNCHANGED <<book, born, faults, lapsed>>,
         new.alone = request[r].alone, new.writes = request[r].writes,
         Placed(r)', Standing(r)',
         new.at \notin {"new", "done"} => Undisturbed(r)'
  PROVE  BookInv'
<1>1. request'[r] = new /\ \A q \in Requests \ {r} : request'[q] = request[q]
  BY DEF BookInv, Typed
<1>2. Sound(r)
  BY DEF BookInv
<1>3. Locking(r)' /\ OneDefault(r)'
  BY <1>1, <1>2 DEF Sound, Locking, OneDefault, SeenBy, Wrote
<1>4. born' \in born..MaxAddresses /\ faults' \in 0..MaxFaults
  BY AddressBookAssumption DEF BookInv, Typed
<1> QED
  BY <1>3, <1>4, OwnStep

(* A request that ends rolls back what it wrote, and was refused by the index only in company. *)
LEMMA StopStep ==
  ASSUME BookInv, NEW r \in Requests, Running(r), NEW answer \in Answers, Stop(r, answer),
         answer = "conflict" => ~request[r].alone,
         UNCHANGED <<book, lapsed>>, born' \in born..MaxAddresses, faults' \in 0..MaxFaults
  PROVE  BookInv'
<1> DEFINE new == [Idle EXCEPT !.at = "done", !.answer = answer, !.alone = request[r].alone]
<1>1. request' = [request EXCEPT ![r] = new]
  BY DEF Stop
<1>2. new \in RequestState /\ new.alone = request[r].alone
  <2>1. request[r].alone \in BOOLEAN
    BY DEF BookInv, Typed, RequestState
  <2> QED
    BY <2>1, IdleTyped DEF RequestState, Steps
<1>3. request'[r] = new /\ \A i \in Ids : ~Wrote(r, i)'
  BY <1>1 DEF BookInv, Typed, Wrote, Idle, Untouched
<1>4. 0 <= born'
  BY AddressBookAssumption DEF BookInv, Typed
<1>5. Placed(r)' /\ Locking(r)' /\ OneDefault(r)' /\ Standing(r)'
  BY <1>3, <1>4 DEF Placed, Locking, OneDefault, Standing, Wrote, Idle, Untouched
<1>6. new.at = "done"
  BY DEF Idle
<1> HIDE DEF new
<1> QED
  BY <1>1, <1>2, <1>5, <1>6, OwnStep

(* A request arrives: those that run are alone no more. *)
LEMMA ArriveStep ==
  ASSUME BookInv, NEW r \in Requests, NEW op \in Ops, NEW id \in 0..born, NEW want \in BOOLEAN, NEW step \in Steps,
         Arrive(r, op, id, want, step),
         step \in {"validate", "begin", "keep", "set", "unset", "take"},
         op = "create" <=> id = 0, op = "create" <=> step \in {"validate", "begin"},
         step = "keep" => op = "update", step = "set" => op = "update", step = "unset" => op = "unset",
         step = "set" => want, op = "unset" => ~want, op = "setDefault" => want,
         op = "update" /\ step = "take" /\ ~want => book[id] # "default"
  PROVE  BookInv'
<1> DEFINE new == [Idle EXCEPT !.op = op, !.id = id, !.want = want, !.at = step,
                               !.alone = \A p \in Requests : ~Running(p)]
<1>1. /\ request[r].at = "new"
      /\ request' = [q \in Requests |->
           IF q = r THEN new ELSE IF Running(q) THEN [request[q] EXCEPT !.alone = FALSE] ELSE request[q]]
      /\ UNCHANGED <<book, born, faults, lapsed>>
  BY DEF Arrive
<1>2. new \in RequestState
  <2>1. (\A p \in Requests : ~Running(p)) \in BOOLEAN
    OBVIOUS
  <2>2. id \in 0..MaxAddresses
    BY AddressBookAssumption DEF BookInv, Typed
  <2> QED
    BY <2>1, <2>2, IdleTyped, ZenonT(60) DEF RequestState
<1>3. Typed'
  <2>1. \A q \in Requests : [request[q] EXCEPT !.alone = FALSE] \in RequestState
    BY ZenonT(60) DEF BookInv, Typed, RequestState
  <2> QED
    BY <1>1, <1>2, <2>1 DEF BookInv, Typed
<1>4. Committed' /\ HasDefault'
  BY <1>1 DEF BookInv, Committed, HasDefault
<1>5. /\ new.op = op /\ new.id = id /\ new.want = want /\ new.at = step
      /\ new.writes = Untouched /\ new.answer = "none"
      /\ new.alone => \A p \in Requests : ~Running(p)
  BY DEF Idle
<1> HIDE DEF new
<1>6. request'[r] = new /\ \A i \in Ids : ~Wrote(r, i)' /\ request'[r].writes[i] = "unwritten"
  BY <1>1, <1>5 DEF Wrote, Untouched
<1>7. \A q \in Requests \ {r} :
        /\ request'[q].op = request[q].op /\ request'[q].at = request[q].at /\ request'[q].id = request[q].id
        /\ request'[q].want = request[q].want /\ request'[q].prev = request[q].prev
        /\ request'[q].seen = request[q].seen /\ request'[q].writes = request[q].writes
        /\ request'[q].answer = request[q].answer
        /\ request'[q].alone => ~Running(q) /\ request[q].alone
  BY <1>1 DEF BookInv, Typed, RequestState
<1>8. Sound(r)'
  <2>1. id <= born'
    BY <1>1, AddressBookAssumption DEF BookInv, Typed
  <2>2. Placed(r)'
    BY <1>5, <1>6, <2>1 DEF Placed, Wrote, Ops
  <2>3. Locking(r)' /\ OneDefault(r)' /\ Standing(r)'
    BY <1>5, <1>6 DEF Locking, OneDefault, Standing
  <2>4. Undisturbed(r)'
    BY <1>1, <1>5, <1>6, <1>7 DEF Undisturbed, Running
  <2> QED
    BY <2>2, <2>3, <2>4 DEF Sound
<1>9. ASSUME NEW q \in Requests, q # r PROVE Sound(q)'
  <2>1. Sound(q)
    BY DEF BookInv
  <2>2. Placed(q)'
    BY <1>1, <1>7, <1>9, <2>1 DEF Sound, Placed, Wrote
  <2>3. Locking(q)'
    <3> SUFFICES ASSUME NEW p \in Requests \ {q}, NEW i \in Ids, NEW j \in Ids
                 PROVE  /\ ~(Wrote(q, i)' /\ Wrote(p, i)')
                        /\ ~(request'[q].writes[i] = "default" /\ request'[p].writes[j] = "default")
      BY DEF Locking
    <3>1. CASE p = r
      BY <3>1, <1>6
    <3>2. CASE p # r
      BY <3>2, <1>7, <1>9, <2>1 DEF Sound, Locking, Wrote
    <3> QED
      BY <3>1, <3>2
  <2>4. OneDefault(q)' /\ Standing(q)'
    BY <1>1, <1>7, <1>9, <2>1 DEF Sound, OneDefault, Standing, SeenBy, Wrote
  <2>5. Undisturbed(q)'
    BY <1>7, <1>9 DEF Undisturbed, Running
  <2> QED
    BY <2>2, <2>3, <2>4, <2>5 DEF Sound
<1> QED
  BY <1>3, <1>4, <1>8, <1>9 DEF BookInv

-------------------------------------------------------------------------------
(* What the record of a running request is. *)
LEMMA Fields ==
  ASSUME BookInv, NEW r \in Requests
  PROVE  /\ request[r] \in RequestState /\ Sound(r)
         /\ request[r].id \in Int /\ born \in Int /\ request[r].id <= born /\ born <= MaxAddresses
         /\ request[r].id # 0 => request[r].id \in Ids
         /\ request[r].seen # 0 => request[r].seen \in Ids
         /\ \A q \in Requests : request[q].writes \in [Ids -> Rows \union {"unwritten"}]
         /\ book \in [Ids -> Rows]
  BY AddressBookAssumption DEF BookInv, Typed, RequestState, Ids, Sound, Placed

(* Before the transaction: an answer at once, or on to it. *)
LEMMA CreateStep == ASSUME BookInv, NEW r \in Requests, Create(r) PROVE BookInv'
<1>1. Running(r) /\ born' \in born..MaxAddresses /\ faults' \in 0..MaxFaults
  BY AddressBookAssumption DEF Create, Running, BookInv, Typed
<1>2. CASE Stop(r, "refused")
  BY <1>1, <1>2, StopStep DEF Create, Answers
<1>3. CASE Go(r, "begin")
  <2> DEFINE new == [request[r] EXCEPT !.at = "begin"]
  <2>1. request' = [request EXCEPT ![r] = new] /\ new \in RequestState
    BY <1>3, Fields, ZenonT(60) DEF Go, BookInv, Typed, RequestState, Steps
  <2>2. /\ new.at = "begin" /\ new.op = request[r].op /\ new.id = request[r].id /\ new.want = request[r].want
        /\ new.alone = request[r].alone /\ new.writes = request[r].writes /\ new.answer = request[r].answer
    BY Fields DEF RequestState
  <2> HIDE DEF new
  <2>3. request'[r] = new /\ \A q \in Requests \ {r} : request'[q] = request[q]
    BY <2>1 DEF BookInv, Typed
  <2>4. Placed(r)' /\ Standing(r)' /\ Undisturbed(r)'
    BY <2>2, <2>3, Fields DEF Create, Sound, Placed, Standing, Undisturbed, Running, Wrote
  <2> QED
    BY <1>1, <2>1, <2>2, <2>4, QuietStep DEF Create
<1> QED
  BY <1>2, <1>3 DEF Create

LEMMA UpdateServiceStep == ASSUME BookInv, NEW r \in Requests, UpdateService(r) PROVE BookInv'
<1>1. Running(r) /\ born' \in born..MaxAddresses /\ faults' \in 0..MaxFaults
  BY AddressBookAssumption DEF UpdateService, Running, BookInv, Typed
<1>2. CASE Stop(r, "missing") \/ Stop(r, "refused")
  BY <1>1, <1>2, StopStep DEF UpdateService, Answers
<1> DEFINE want == IF request[r].at = "keep" THEN book[request[r].id] = "default" ELSE request[r].want
           new == [request[r] EXCEPT !.at = "take", !.want = want]
<1>3. CASE request' = [request EXCEPT ![r] = new]
  <2>1. want \in BOOLEAN
    BY Fields DEF RequestState
  <2>2. new \in RequestState
    BY <2>1, Fields, ZenonT(60) DEF RequestState, Steps
  <2>3. /\ new.at = "take" /\ new.op = request[r].op /\ new.id = request[r].id /\ new.want = want
        /\ new.alone = request[r].alone /\ new.writes = request[r].writes /\ new.answer = request[r].answer
    BY Fields DEF RequestState
  <2> HIDE DEF new
  <2>4. request'[r] = new /\ \A q \in Requests \ {r} : request'[q] = request[q]
    BY <1>3 DEF BookInv, Typed
  <2>5. Placed(r)'
    BY <2>3, <2>4, Fields DEF UpdateService, Sound, Placed, Wrote
  <2>6. Standing(r)'
    BY <2>3, <2>4, Fields DEF UpdateService, Sound, Placed, Standing, Wrote
  <2>7. Undisturbed(r)'
    <3>1. request[r].op = "update" /\ ~want => book'[request[r].id] # "default"
      BY Fields DEF UpdateService, Sound, Placed
    <3>2. request[r].alone => \A q \in Requests \ {r} : ~Running(q)
      BY <1>1, Fields DEF Sound, Undisturbed
    <3> HIDE DEF want
    <3> QED
      BY <2>3, <2>4, <3>1, <3>2 DEF Undisturbed, Running
  <2> QED
    BY <1>1, <1>3, <2>2, <2>3, <2>5, <2>6, <2>7, QuietStep DEF UpdateService
<1>4. request' = [request EXCEPT ![r] = new] \/ Stop(r, "missing") \/ Stop(r, "refused")
  <2>1. CASE GetByID(request[r].id) /\ ~Stop(r, "refused")
    <3>1. request' = [request EXCEPT ![r].at = "take",
            ![r].want = IF request[r].at = "keep" THEN book[request[r].id] = "default" ELSE @]
      BY <2>1 DEF UpdateService
    <3> QED
      BY <3>1 DEF BookInv, Typed, RequestState
  <2> QED
    BY <2>1 DEF UpdateService
<1> HIDE DEF new
<1> QED
  BY <1>2, <1>3, <1>4

(* What a transaction reads before it writes; alone, what it read still stands. *)
LEMMA BeginStep == ASSUME BookInv, NEW r \in Requests, Begin(r) PROVE BookInv'
<1> DEFINE want == request[r].want \/ \A i \in Ids : book[i] = "absent"
           step == IF request[r].want THEN "snap" ELSE "insert"
           new == [request[r] EXCEPT !.at = step, !.want = want]
<1>1. Running(r) /\ request[r].at = "begin" /\ UNCHANGED <<book, born, faults, lapsed>>
  BY DEF Begin, Running
<1>2. want \in BOOLEAN /\ request[r].want \in BOOLEAN
  BY Fields DEF RequestState
<1>3. request' = [request EXCEPT ![r] = new]
  BY DEF Begin, BookInv, Typed, RequestState
<1>4. new \in RequestState
  BY <1>2, Fields, ZenonT(60) DEF RequestState, Steps
<1>5. /\ new.at = step /\ new.op = request[r].op /\ new.id = request[r].id /\ new.want = want
      /\ new.alone = request[r].alone /\ new.writes = request[r].writes /\ new.answer = request[r].answer
  BY Fields DEF RequestState
<1> HIDE DEF new
<1>6. request'[r] = new /\ \A q \in Requests \ {r} : request'[q] = request[q]
  BY <1>3 DEF BookInv, Typed
<1>7. \A i \in Ids : ~Wrote(r, i) /\ request[r].writes[i] = "unwritten"
  BY <1>1, Fields DEF Sound, Placed, Wrote
<1>8. request[r].op = "create" /\ request[r].id = 0
  BY <1>1, Fields DEF Sound, Placed
<1>9. Placed(r)'
  <2>1. step \in {"snap", "insert"} /\ (step = "snap" => want)
    OBVIOUS
  <2> HIDE DEF want, step
  <2> QED
    BY <1>1, <1>5, <1>6, <1>7, <1>8, <2>1, Fields DEF Sound, Placed, Wrote
<1>10. Standing(r)'
  BY <1>1, <1>5, <1>6, <1>7, <1>8 DEF Standing, Wrote
<1>11. Undisturbed(r)'
  <2>1. request[r].alone => \A q \in Requests \ {r} : ~Running(q)
    BY <1>1, Fields DEF Sound, Undisturbed
  <2>2. step = "insert" /\ want => \A i \in Ids : book[i] # "default"
    OBVIOUS
  <2> HIDE DEF want
  <2> QED
    BY <1>1, <1>5, <1>6, <1>7, <1>8, <2>1, <2>2 DEF Undisturbed, Running, SeenBy, Wrote
<1> QED
  BY <1>1, <1>3, <1>4, <1>5, <1>9, <1>10, <1>11, QuietStep

LEMMA TakeStep == ASSUME BookInv, NEW r \in Requests, Take(r) PROVE BookInv'
<1> DEFINE row == book[request[r].id]
           step == CASE request[r].op = "delete" -> "remove"
                     [] request[r].op = "setDefault" -> "snap"
                     [] OTHER -> IF request[r].want /\ row # "default" THEN "snap" ELSE "write"
           new == [request[r] EXCEPT !.at = step, !.prev = row = "default"]
<1>1. Running(r) /\ request[r].at = "take" /\ UNCHANGED <<book, born, faults, lapsed>>
  BY DEF Take, Running
<1>2. CASE row = "absent"
  <2>1. Stop(r, "missing") /\ born' \in born..MaxAddresses /\ faults' \in 0..MaxFaults
    BY <1>1, <1>2, AddressBookAssumption DEF Take, BookInv, Typed
  <2> QED
    BY <1>1, <2>1, StopStep DEF Answers
<1>3. CASE row # "absent"
  <2>1. request' = [request EXCEPT ![r] = new]
    BY <1>3 DEF Take, BookInv, Typed, RequestState
  <2>2. request[r].op \in {"update", "unset", "setDefault", "delete"} /\ request[r].id \in Ids
    BY <1>1, Fields DEF Sound, Placed
  <2>3. step \in {"remove", "snap", "write"} /\ (row = "default") \in BOOLEAN
    BY <2>2
  <2>4. new \in RequestState
    BY <2>3, Fields, ZenonT(60) DEF RequestState, Steps
  <2>5. /\ new.at = step /\ new.op = request[r].op /\ new.id = request[r].id /\ new.want = request[r].want
        /\ new.alone = request[r].alone /\ new.writes = request[r].writes /\ new.answer = request[r].answer
        /\ new.prev = (row = "default")
    BY Fields DEF RequestState
  <2> HIDE DEF new
  <2>6. request'[r] = new /\ \A q \in Requests \ {r} : request'[q] = request[q]
    BY <2>1 DEF BookInv, Typed
  <2>7. \A i \in Ids : ~Wrote(r, i) /\ request[r].writes[i] = "unwritten"
    BY <1>1, Fields DEF Sound, Placed, Wrote
  <2>8. /\ step = "remove" <=> request[r].op = "delete"
        /\ step = "snap" => request[r].op \in {"update", "setDefault"} /\ request[r].want
        /\ step = "write" => request[r].op \in {"update", "unset"} /\ (request[r].want => row = "default")
    BY <2>2, Fields DEF Sound, Placed
  <2>9. Placed(r)'
    BY <1>1, <2>3, <2>5, <2>6, <2>7, <2>8, Fields DEF Sound, Placed, Wrote
  <2>10. Standing(r)'
    BY <1>1, <1>3, <2>2, <2>3, <2>5, <2>6, <2>7, <2>8 DEF Standing, Wrote
  <2>11. Undisturbed(r)'
    <3>1. request[r].alone =>
            /\ \A q \in Requests \ {r} : ~Running(q)
            /\ request[r].op = "update" /\ ~request[r].want => row # "default"
      BY <1>1, Fields DEF Sound, Undisturbed
    <3>2. row = "default" => \A j \in Ids : j # request[r].id => book[j] # "default"
      BY <2>2 DEF BookInv, Committed
    <3> HIDE DEF step
    <3> QED
      BY <1>1, <1>3, <2>2, <2>3, <2>5, <2>6, <2>7, <2>8, <3>1, <3>2 DEF Undisturbed, Running, SeenBy, Wrote
  <2> QED
    BY <1>1, <2>1, <2>4, <2>5, <2>9, <2>10, <2>11, QuietStep
<1> QED
  BY <1>2, <1>3

LEMMA SnapStep == ASSUME BookInv, NEW r \in Requests, Snap(r) PROVE BookInv'
<1> DEFINE found == {i \in Ids : IsDefault(i)}
           seen == IF found = {} THEN 0 ELSE CHOOSE i \in found : TRUE
           new == [request[r] EXCEPT !.at = "clear", !.seen = seen]
<1>1. Running(r) /\ request[r].at = "snap" /\ UNCHANGED <<book, born, faults, lapsed>>
  BY DEF Snap, Running
<1>2. seen \in 0..MaxAddresses /\ IF seen = 0 THEN \A i \in Ids : book[i] # "default" ELSE book[seen] = "default"
  <2>1. CASE found = {}
    BY <2>1, AddressBookAssumption DEF IsDefault
  <2>2. CASE found # {}
    <3>1. seen \in found
      BY <2>2
    <3> QED
      BY <3>1, AddressBookAssumption DEF IsDefault, Ids
  <2> QED
    BY <2>1, <2>2
<1>3. request' = [request EXCEPT ![r] = new]
  BY DEF Snap, BookInv, Typed, RequestState
<1> HIDE DEF seen
<1>4. new \in RequestState
  BY <1>2, Fields, ZenonT(60) DEF RequestState, Steps
<1>5. /\ new.at = "clear" /\ new.op = request[r].op /\ new.id = request[r].id /\ new.want = request[r].want
      /\ new.alone = request[r].alone /\ new.writes = request[r].writes /\ new.answer = request[r].answer
      /\ new.seen = seen
  BY Fields DEF RequestState
<1> HIDE DEF new
<1>6. request'[r] = new /\ \A q \in Requests \ {r} : request'[q] = request[q]
  BY <1>3 DEF BookInv, Typed
<1>7. Placed(r)' /\ Standing(r)'
  BY <1>1, <1>5, <1>6, Fields DEF Sound, Placed, Standing, Wrote
<1>8. Undisturbed(r)'
  <2>1. request[r].alone => \A q \in Requests \ {r} : ~Running(q)
    BY <1>1, Fields DEF Sound, Undisturbed
  <2> QED
    BY <1>1, <1>2, <1>5, <1>6, <2>1, Fields DEF Undisturbed, Running, Sound, Placed
<1> QED
  BY <1>1, <1>3, <1>4, <1>5, <1>7, <1>8, QuietStep

-------------------------------------------------------------------------------
(* A statement that writes one row of its own transaction.  The locks and the *)
(* index let it: nobody else has the row, and a default meets no other.       *)
LEMMA WriteStep ==
  ASSUME BookInv, NEW r \in Requests, Running(r), NEW i \in Ids, NEW row \in Rows, NEW new \in RequestState,
         request' = [request EXCEPT ![r] = new], UNCHANGED <<book, lapsed>>,
         born' \in born..MaxAddresses, faults' \in 0..MaxFaults,
         new.alone = request[r].alone, new.writes = [request[r].writes EXCEPT ![i] = row],
         new.at \notin {"new", "done"}, request[r].at # "commit",
         ~Locked(r, i),
         row = "default" => ~IndexBusy(r, i) /\ ~IndexViolated(r, i),
         Placed(r)', Standing(r)', Undisturbed(r)'
  PROVE  BookInv'
<1>1. request'[r] = new /\ \A q \in Requests \ {r} : request'[q] = request[q]
  BY DEF BookInv, Typed
<1>2. /\ request'[r].writes[i] = row
      /\ \A j \in Ids \ {i} : request'[r].writes[j] = request[r].writes[j]
      /\ \A j \in Ids : request[r].writes[j] # "default"
  BY <1>1, Fields DEF Sound, Placed
<1>3. Locking(r)'
  <2> SUFFICES ASSUME NEW q \in Requests \ {r}, NEW j \in Ids, NEW k \in Ids
               PROVE  /\ ~(Wrote(r, j)' /\ Wrote(q, j)')
                      /\ ~(request'[r].writes[j] = "default" /\ request'[q].writes[k] = "default")
    BY DEF Locking
  <2>1. ~(Wrote(r, j)' /\ Wrote(q, j)')
    <3>1. CASE j = i
      BY <1>1, <3>1 DEF Locked, Wrote
    <3>2. CASE j # i
      BY <1>1, <1>2, <3>2, Fields DEF Sound, Locking, Wrote
    <3> QED
      BY <3>1, <3>2
  <2>2. ASSUME request'[r].writes[j] = "default", request'[q].writes[k] = "default" PROVE FALSE
    <3>1. j = i /\ row = "default"
      BY <1>2, <2>2
    <3>2. Wrote(q, k)
      BY <1>1, <2>2 DEF Wrote
    <3>3. CASE k = i
      BY <3>2, <3>3 DEF Locked
    <3>4. CASE k # i
      BY <1>1, <2>2, <3>1, <3>2, <3>4 DEF IndexBusy
    <3> QED
      BY <3>3, <3>4
  <2> QED
    BY <2>1, <2>2
<1>4. OneDefault(r)'
  <2> SUFFICES ASSUME NEW j \in Ids, NEW k \in Ids, request'[r].writes[j] = "default", j # k
               PROVE  SeenBy(r, k)' # "default"
    BY DEF OneDefault
  <2>1. j = i /\ row = "default"
    BY <1>2
  <2>2. SeenBy(r, k) # "default"
    BY <2>1 DEF IndexViolated
  <2> QED
    BY <1>2, <2>1, <2>2 DEF SeenBy, Wrote
<1> QED
  BY <1>3, <1>4, OwnStep

(* What a request writes of a row keeps its type. *)
LEMMA Rewritten ==
  ASSUME NEW s \in RequestState, NEW i \in Ids, NEW row \in Rows, NEW step \in Steps
  PROVE  [s EXCEPT !.writes = [@ EXCEPT ![i] = row], !.at = step] \in RequestState
  BY DEF RequestState

LEMMA ClearStep == ASSUME BookInv, NEW r \in Requests, Clear(r) PROVE BookInv'
<1> DEFINE i == request[r].seen
           step == IF request[r].op = "create" THEN "insert" ELSE "write"
<1>1. Running(r) /\ request[r].at = "clear" /\ UNCHANGED <<book, born, faults, lapsed>>
  BY DEF Clear, Running
<1>2. /\ request[r].op \in {"create", "update", "setDefault"} /\ request[r].want
      /\ \A j \in Ids : ~Wrote(r, j) /\ request[r].writes[j] = "unwritten"
      /\ request[r].op = "create" <=> request[r].id = 0
  BY <1>1, Fields DEF Sound, Placed, Wrote
<1>3. born' \in born..MaxAddresses /\ faults' \in 0..MaxFaults
  BY <1>1, AddressBookAssumption DEF BookInv, Typed
<1>4. request[r].alone =>
        /\ \A q \in Requests \ {r} : ~Running(q)
        /\ IF i = 0 THEN \A j \in Ids : book[j] # "default" ELSE book[i] = "default"
  BY <1>1, Fields DEF Sound, Undisturbed
<1>5. step \in {"insert", "write"} /\ (step = "insert" <=> request[r].op = "create")
  OBVIOUS
<1>6. Standing(r) /\ Placed(r)
  BY Fields DEF Sound
<1>7. CASE i # 0 /\ book[i] = "default"
  <2> DEFINE new == [request[r] EXCEPT !.writes = [@ EXCEPT ![i] = "plain"], !.at = step]
  <2>1. i \in Ids /\ i <= born
    BY <1>7, Fields DEF BookInv, Committed
  <2>2. request' = [request EXCEPT ![r] = new]
    BY <1>7 DEF Clear, BookInv, Typed, RequestState
  <2>3. new \in RequestState
    <3> HIDE DEF step
    <3>1. request[r] \in RequestState /\ step \in Steps /\ "plain" \in Rows
      BY <1>5, Fields DEF Steps, Rows
    <3> QED
      BY <2>1, <3>1, Rewritten
  <2>4. /\ new.at = step /\ new.op = request[r].op /\ new.id = request[r].id /\ new.want = request[r].want
        /\ new.alone = request[r].alone /\ new.answer = request[r].answer
        /\ new.writes = [request[r].writes EXCEPT ![i] = "plain"]
    BY Fields DEF RequestState
  <2> HIDE DEF new
  <2>5. request'[r] = new /\ \A q \in Requests \ {r} : request'[q] = request[q]
    BY <2>2 DEF BookInv, Typed
  <2> HIDE DEF step
  <2>6. \A j \in Ids : /\ Wrote(r, j)' <=> j = i
                       /\ request'[r].writes[j] \in {"plain", "unwritten"}
    BY <1>2, <2>1, <2>4, <2>5, Fields DEF Wrote
  <2>7. Placed(r)'
    BY <1>1, <1>2, <1>5, <1>6, <2>1, <2>4, <2>5, <2>6 DEF Placed
  <2>8. Standing(r)'
    BY <1>1, <1>2, <1>5, <1>6, <2>4, <2>5 DEF Standing
  <2>9. Undisturbed(r)'
    <3>1. \A j \in Ids : SeenBy(r, j)' # "default"
      <4> SUFFICES ASSUME NEW j \in Ids PROVE SeenBy(r, j)' # "default"
        OBVIOUS
      <4>1. CASE j = i
        BY <2>1, <2>6, <4>1 DEF SeenBy
      <4>2. CASE j # i
        BY <1>1, <1>7, <2>1, <2>6, <4>2 DEF SeenBy, BookInv, Committed
      <4> QED
        BY <4>1, <4>2
    <3> QED
      BY <1>1, <1>2, <1>4, <1>5, <2>4, <2>5, <3>1 DEF Undisturbed, Running
  <2>10. ~Locked(r, i)
    BY <1>7 DEF Clear
  <2> QED
    BY <1>1, <1>3, <1>5, <2>1, <2>2, <2>3, <2>4, <2>7, <2>8, <2>9, <2>10, WriteStep DEF Rows
<1>8. CASE ~(i # 0 /\ book[i] = "default")
  <2> DEFINE new == [request[r] EXCEPT !.at = step]
  <2>1. request' = [request EXCEPT ![r] = new]
    BY <1>8 DEF Clear, Go
  <2>2. new \in RequestState
    BY Fields DEF RequestState, Steps
  <2>3. /\ new.at = step /\ new.op = request[r].op /\ new.id = request[r].id /\ new.want = request[r].want
        /\ new.alone = request[r].alone /\ new.answer = request[r].answer /\ new.writes = request[r].writes
    BY Fields DEF RequestState
  <2> HIDE DEF new
  <2>4. request'[r] = new /\ \A q \in Requests \ {r} : request'[q] = request[q]
    BY <2>1 DEF BookInv, Typed
  <2> HIDE DEF step
  <2>5. Placed(r)'
    BY <1>1, <1>2, <1>5, <1>6, <2>3, <2>4, ZenonT(60) DEF Placed, Wrote
  <2>6. Standing(r)'
    BY <1>1, <1>2, <1>5, <1>6, <2>3, <2>4 DEF Standing, Wrote
  <2>7. Undisturbed(r)'
    <3>1. request[r].alone => \A j \in Ids : book[j] # "default"
      BY <1>4, <1>8
    <3> QED
      BY <1>1, <1>2, <1>4, <1>5, <2>3, <2>4, <3>1 DEF Undisturbed, Running, SeenBy, Wrote
  <2> QED
    BY <1>1, <2>1, <2>2, <2>3, <2>5, <2>6, <2>7, QuietStep
<1> QED
  BY <1>7, <1>8

(* A row written with its flag is the last statement before the COMMIT; alone it never conflicts. *)
LEMMA PutStep ==
  ASSUME BookInv, NEW r \in Requests, request[r].at \in {"insert", "write"}, NEW i \in Ids, ~Locked(r, i),
         Put(r, i, IF request[r].want THEN "default" ELSE "plain", "commit"),
         UNCHANGED <<book, lapsed>>, born' \in born..MaxAddresses, faults' \in 0..MaxFaults, i <= born',
         IF request[r].op = "create" THEN book[i] = "absent" ELSE i = request[r].id
  PROVE  BookInv'
<1> DEFINE row == IF request[r].want THEN "default" ELSE "plain"
           new == [request[r] EXCEPT !.writes = [@ EXCEPT ![i] = row], !.at = "commit"]
<1>1. Running(r) /\ row \in {"default", "plain"} /\ (row = "default" <=> request[r].want)
  BY Fields DEF Running, RequestState
<1>2. Placed(r) /\ Standing(r) /\ Undisturbed(r)
  BY Fields DEF Sound
<1> HIDE DEF row
<1>3. CASE row = "default" /\ IndexViolated(r, i)
  <2>1. PICK j \in Ids \ {i} : SeenBy(r, j) = "default"
    BY <1>3 DEF IndexViolated
  <2>2. j # request[r].id
    BY <1>2, <2>1 DEF Placed, Ids
  <2>3. ~request[r].alone
    BY <1>1, <1>2, <1>3, <2>1, <2>2 DEF Undisturbed
  <2>4. Stop(r, "conflict")
    BY <1>3 DEF Put, row
  <2> QED
    BY <1>1, <2>3, <2>4, StopStep DEF Answers
<1>4. CASE ~(row = "default" /\ IndexViolated(r, i))
  <2>1. request' = [request EXCEPT ![r] = new] /\ (row = "default" => ~IndexBusy(r, i))
    BY <1>4, SMTT(60) DEF Put, BookInv, Typed, RequestState, row
  <2>2. new \in RequestState
    BY <1>1, Fields, Rewritten DEF Rows, Steps
  <2>3. /\ new.at = "commit" /\ new.op = request[r].op /\ new.id = request[r].id /\ new.want = request[r].want
        /\ new.alone = request[r].alone /\ new.answer = request[r].answer
        /\ new.writes = [request[r].writes EXCEPT ![i] = row]
    BY Fields DEF RequestState
  <2> HIDE DEF new
  <2>4. request'[r] = new /\ \A q \in Requests \ {r} : request'[q] = request[q]
    BY <2>1 DEF BookInv, Typed
  <2>5. /\ request'[r].writes[i] = row /\ Wrote(r, i)'
        /\ \A j \in Ids \ {i} : /\ request'[r].writes[j] = request[r].writes[j]
                                /\ Wrote(r, j)' <=> Wrote(r, j)
    BY <1>1, <2>3, <2>4, Fields DEF Wrote
  <2>6. \A j \in Ids : Wrote(r, j)' => j <= born'
    BY <1>2, <2>5, AddressBookAssumption DEF Placed, Ids, BookInv, Typed
  <2>7. Placed(r)'
    <3>1. request'[r].id <= born'
      BY <2>3, <2>4, AddressBookAssumption, Fields DEF BookInv, Typed
    <3> QED
      BY <1>1, <1>2, <2>3, <2>4, <2>5, <2>6, <3>1 DEF Placed
  <2>8. Standing(r)'
    BY <1>1, <1>2, <2>3, <2>4, <2>5 DEF Placed, Standing
  <2>9. Undisturbed(r)'
    <3>1. request[r].op = "delete" => SeenBy(r, i)' = "default"
      BY <1>1, <1>2, <2>5 DEF Placed, SeenBy
    <3>2. request[r].op = "update" => request[r].at = "write"
      BY <1>2 DEF Placed
    <3> QED
      BY <1>1, <1>2, <2>3, <2>4, <3>1, <3>2 DEF Undisturbed, Running
  <2> QED
    BY <1>1, <1>4, <2>1, <2>2, <2>3, <2>7, <2>8, <2>9, WriteStep DEF Rows
<1> QED
  BY <1>3, <1>4

(* The row of an INSERT is new: nobody can have written it. *)
LEMMA InsertStep == ASSUME BookInv, NEW r \in Requests, Insert(r) PROVE BookInv'
<1>1. /\ born + 1 \in Ids /\ born' = born + 1 /\ born' \in born..MaxAddresses
      /\ UNCHANGED <<book, lapsed>> /\ faults' \in 0..MaxFaults
  BY AddressBookAssumption DEF Insert, BookInv, Typed, Ids
<1>2. \A q \in Requests : ~Wrote(q, born + 1)
  BY <1>1, AddressBookAssumption, Fields DEF Sound, Placed
<1>3. book[born + 1] = "absent"
  BY <1>1, AddressBookAssumption DEF BookInv, Typed, Committed
<1>4. request[r].at = "insert" /\ request[r].op = "create"
  BY Fields DEF Insert, Sound, Placed
<1> QED
  BY <1>1, <1>2, <1>3, <1>4, PutStep DEF Insert, Locked

(* An UPDATE by id, of a row that is there or of none. *)
LEMMA WriteActionStep == ASSUME BookInv, NEW r \in Requests, Write(r) PROVE BookInv'
<1> DEFINE i == request[r].id
<1>1. /\ Running(r) /\ request[r].at = "write" /\ ~Locked(r, i)
      /\ UNCHANGED <<book, born, faults, lapsed>>
  BY DEF Write, Running
<1>2. Placed(r) /\ Standing(r) /\ Undisturbed(r) /\ i \in Ids /\ i <= born
  BY <1>1, Fields DEF Sound, Placed
<1>3. CASE SeenBy(r, i) # "absent"
  <2>1. born' \in born..MaxAddresses /\ faults' \in 0..MaxFaults /\ i <= born'
    BY <1>1, <1>2, AddressBookAssumption DEF BookInv, Typed
  <2>2. Put(r, i, IF request[r].want THEN "default" ELSE "plain", "commit") /\ request[r].op # "create"
    BY <1>1, <1>2, <1>3 DEF Write, Placed
  <2> QED
    BY <1>1, <1>2, <2>1, <2>2, PutStep
<1>4. CASE SeenBy(r, i) = "absent"
  <2> DEFINE new == [request[r] EXCEPT !.at = "commit"]
  <2>1. request' = [request EXCEPT ![r] = new]
    BY <1>4 DEF Write, Go
  <2>2. new \in RequestState
    BY Fields DEF RequestState, Steps
  <2>3. /\ new.at = "commit" /\ new.op = request[r].op /\ new.id = request[r].id /\ new.want = request[r].want
        /\ new.alone = request[r].alone /\ new.answer = request[r].answer /\ new.writes = request[r].writes
    BY Fields DEF RequestState
  <2> HIDE DEF new
  <2>4. request'[r] = new /\ \A q \in Requests \ {r} : request'[q] = request[q]
    BY <2>1 DEF BookInv, Typed
  <2>5. request[r].op # "delete" => book[i] = "absent"
    BY <1>2, <1>4 DEF SeenBy, Placed
  <2>6. Placed(r)'
    BY <1>1, <1>2, <2>3, <2>4 DEF Placed, Wrote
  <2>7. Standing(r)'
    BY <1>1, <1>2, <2>3, <2>4, <2>5 DEF Placed, Standing, Wrote
  <2>8. Undisturbed(r)'
    BY <1>1, <1>2, <1>4, <2>3, <2>4 DEF Undisturbed, Running
  <2> QED
    BY <1>1, <2>1, <2>2, <2>3, <2>6, <2>7, <2>8, QuietStep
<1> QED
  BY <1>3, <1>4

(* A DELETE that runs alone removes the address it took, or has to promote another. *)
LEMMA RemoveStep == ASSUME BookInv, NEW r \in Requests, Remove(r) PROVE BookInv'
<1> DEFINE i == request[r].id
           step == IF request[r].prev THEN "next" ELSE "commit"
<1>1. /\ Running(r) /\ request[r].at = "remove" /\ ~Locked(r, i)
      /\ UNCHANGED <<book, born, faults, lapsed>>
  BY DEF Remove, Running
<1>2. /\ Placed(r) /\ Undisturbed(r) /\ i \in Ids /\ i <= born /\ request[r].op = "delete"
      /\ request[r].prev \in BOOLEAN /\ \A j \in Ids : ~Wrote(r, j) /\ request[r].writes[j] = "unwritten"
  BY <1>1, Fields DEF Sound, Placed, Wrote, RequestState
<1>3. step \in {"next", "commit"} /\ (step = "next" <=> request[r].prev)
  BY <1>2
<1>4. born' \in born..MaxAddresses /\ faults' \in 0..MaxFaults
  BY <1>1, AddressBookAssumption DEF BookInv, Typed
<1>5. CASE book[i] # "absent"
  <2> DEFINE new == [request[r] EXCEPT !.writes = [@ EXCEPT ![i] = "absent"], !.at = step]
  <2>1. request' = [request EXCEPT ![r] = new]
    BY <1>5 DEF Remove, BookInv, Typed, RequestState
  <2> HIDE DEF step
  <2>2. new \in RequestState
    <3>1. request[r] \in RequestState /\ step \in Steps /\ "absent" \in Rows
      BY <1>3, Fields DEF Steps, Rows
    <3> QED
      BY <1>2, <3>1, Rewritten
  <2>3. /\ new.at = step /\ new.op = "delete" /\ new.id = i /\ new.want = request[r].want
        /\ new.alone = request[r].alone /\ new.answer = request[r].answer
        /\ new.writes = [request[r].writes EXCEPT ![i] = "absent"]
    BY <1>2, Fields DEF RequestState
  <2> HIDE DEF new
  <2>4. request'[r] = new /\ \A q \in Requests \ {r} : request'[q] = request[q]
    BY <2>1 DEF BookInv, Typed
  <2>5. \A j \in Ids : IF j = i THEN request'[r].writes[j] = "absent" /\ Wrote(r, j)'
                               ELSE request'[r].writes[j] = "unwritten" /\ ~Wrote(r, j)'
    BY <1>2, <2>3, <2>4, Fields DEF Wrote
  <2>6. Placed(r)'
    BY <1>1, <1>2, <1>3, <2>3, <2>4, <2>5 DEF Placed
  <2>7. Standing(r)'
    BY <2>3, <2>4 DEF Standing
  <2>8. Undisturbed(r)'
    <3> SUFFICES ASSUME request[r].alone PROVE Undisturbed(r)'
      BY <2>3, <2>4 DEF Undisturbed
    <3>1. \A q \in Requests \ {r} : ~Running(q)'
      BY <1>1, <1>2, <2>4 DEF Undisturbed, Running
    <3>2. request[r].prev <=> book[i] = "default"
      BY <1>1, <1>2 DEF Undisturbed
    <3>3. \A j \in Ids : SeenBy(r, j)' = IF j = i THEN "absent" ELSE book[j]
      BY <1>1, <2>5 DEF SeenBy
    <3>4. request[r].prev => \A j \in Ids : SeenBy(r, j)' # "default"
      <4> SUFFICES ASSUME request[r].prev, NEW j \in Ids PROVE SeenBy(r, j)' # "default"
        OBVIOUS
      <4>1. CASE j = i
        BY <3>3, <4>1
      <4>2. CASE j # i
        <5>1. book[i] = "default" => book[j] # "default"
          BY <1>2, <4>2 DEF BookInv, Committed
        <5> QED
          BY <3>2, <3>3, <4>2, <5>1
      <4> QED
        BY <4>1, <4>2
    <3>5. ~request[r].prev /\ ~lapsed => \E j \in Ids : SeenBy(r, j)' = "default"
      <4> SUFFICES ASSUME ~request[r].prev, ~lapsed PROVE \E j \in Ids : SeenBy(r, j)' = "default"
        OBVIOUS
      <4>1. PICK j \in Ids : book[j] = "default"
        BY <1>2, <1>5 DEF BookInv, HasDefault
      <4> QED
        BY <3>2, <3>3, <4>1
    <3> QED
      BY <1>1, <1>3, <2>3, <2>4, <3>1, <3>4, <3>5 DEF Undisturbed
  <2> QED
    BY <1>1, <1>2, <1>3, <1>4, <2>1, <2>2, <2>3, <2>6, <2>7, <2>8, WriteStep DEF Rows
<1>6. CASE book[i] = "absent"
  <2> DEFINE new == [request[r] EXCEPT !.at = step]
  <2>1. request' = [request EXCEPT ![r] = new]
    <3>1. [request[r].writes EXCEPT ![i] = request[r].writes[i]] = request[r].writes
      BY <1>2, Fields
    <3> QED
      BY <1>6, <3>1 DEF Remove, BookInv, Typed, RequestState
  <2> HIDE DEF step
  <2>2. new \in RequestState
    BY <1>3, Fields DEF RequestState, Steps
  <2>3. /\ new.at = step /\ new.op = "delete" /\ new.id = i /\ new.want = request[r].want
        /\ new.alone = request[r].alone /\ new.answer = request[r].answer /\ new.writes = request[r].writes
    BY <1>2, Fields DEF RequestState
  <2> HIDE DEF new
  <2>4. request'[r] = new /\ \A q \in Requests \ {r} : request'[q] = request[q]
    BY <2>1 DEF BookInv, Typed
  <2>5. Placed(r)'
    BY <1>1, <1>2, <1>3, <2>3, <2>4 DEF Placed, Wrote
  <2>6. Standing(r)' /\ Undisturbed(r)'
    BY <1>1, <1>2, <1>6, <2>3, <2>4 DEF Standing, Undisturbed
  <2> QED
    BY <1>1, <1>3, <2>1, <2>2, <2>3, <2>5, <2>6, QuietStep
<1> QED
  BY <1>5, <1>6

(* The promoted address is one of the others. *)
LEMMA PromoteStep == ASSUME BookInv, NEW r \in Requests, Promote(r) PROVE BookInv'
<1>1. Running(r) /\ request[r].at = "next" /\ UNCHANGED <<book, born, faults, lapsed>>
  BY DEF Promote, Running
<1>2. Placed(r) /\ Undisturbed(r) /\ request[r].op = "delete"
  BY <1>1, Fields DEF Sound, Placed
<1>3. CASE Others(r) = {}
  <2> DEFINE new == [request[r] EXCEPT !.at = "commit"]
  <2>1. request' = [request EXCEPT ![r] = new]
    BY <1>3 DEF Promote, Go
  <2>2. new \in RequestState
    BY Fields DEF RequestState, Steps
  <2>3. /\ new.at = "commit" /\ new.op = "delete" /\ new.id = request[r].id /\ new.want = request[r].want
        /\ new.alone = request[r].alone /\ new.answer = request[r].answer /\ new.writes = request[r].writes
    BY <1>2, Fields DEF RequestState
  <2> HIDE DEF new
  <2>4. request'[r] = new /\ \A q \in Requests \ {r} : request'[q] = request[q]
    BY <2>1 DEF BookInv, Typed
  <2>5. Placed(r)' /\ Standing(r)'
    BY <1>1, <1>2, <2>3, <2>4 DEF Placed, Standing, Wrote
  <2>6. \A i \in Ids : SeenBy(r, i)' = "absent"
    BY <1>1, <1>3, <2>3, <2>4 DEF Others, SeenBy, Wrote
  <2>7. Undisturbed(r)'
    BY <1>1, <1>2, <2>3, <2>4, <2>6 DEF Undisturbed, Running
  <2> QED
    BY <1>1, <2>1, <2>2, <2>3, <2>5, <2>7, QuietStep
<1>4. CASE Others(r) # {}
  <2> DEFINE newest == CHOOSE i \in Others(r) : \A j \in Others(r) : j <= i
             new == [request[r] EXCEPT !.at = "write", !.want = TRUE, !.id = newest]
  <2>1. request' = [request EXCEPT ![r] = new]
    BY <1>4 DEF Promote, BookInv, Typed, RequestState
  <2>2. newest \in Ids /\ SeenBy(r, newest) # "absent"
    <3>1. Others(r) \subseteq Ids
      BY DEF Others
    <3>2. newest \in Others(r)
      BY <1>4, <3>1, Newest
    <3> QED
      BY <3>2 DEF Others
  <2> HIDE DEF newest
  <2>3. newest <= born /\ newest # 0 /\ newest \in 0..MaxAddresses
    BY <1>2, <2>2, AddressBookAssumption DEF SeenBy, Placed, Ids, BookInv, Committed
  <2>4. new \in RequestState
    BY <2>3, Fields, ZenonT(60) DEF RequestState, Steps
  <2>5. /\ new.at = "write" /\ new.op = "delete" /\ new.id = newest /\ new.want = TRUE
        /\ new.alone = request[r].alone /\ new.answer = request[r].answer /\ new.writes = request[r].writes
    BY <1>2, Fields DEF RequestState
  <2> HIDE DEF new
  <2>6. request'[r] = new /\ \A q \in Requests \ {r} : request'[q] = request[q]
    BY <2>1 DEF BookInv, Typed
  <2>7. Placed(r)' /\ Standing(r)'
    BY <1>1, <1>2, <2>3, <2>5, <2>6 DEF Placed, Standing, Wrote
  <2>8. \A i \in Ids : SeenBy(r, i)' = SeenBy(r, i)
    BY <1>1, <2>5, <2>6 DEF SeenBy, Wrote
  <2>9. Undisturbed(r)'
    BY <1>1, <1>2, <2>2, <2>5, <2>6, <2>8 DEF Undisturbed, Running
  <2> QED
    BY <1>1, <2>1, <2>4, <2>5, <2>7, <2>9, QuietStep
<1> QED
  BY <1>3, <1>4

-------------------------------------------------------------------------------
(* A COMMIT publishes what its transaction saw: one default, as its writes say, *)
(* and still one when nothing was given up.                                     *)
LEMMA CommitKeeps ==
  ASSUME BookInv, NEW r \in Requests, Commit(r)
  PROVE  Committed' /\ HasDefault'
<1>1. /\ Running(r) /\ request[r].at = "commit" /\ born' = born
      /\ \A i \in Ids : book'[i] = SeenBy(r, i)
      /\ lapsed' = (lapsed \/ GivesUp(r))
  BY DEF Commit, Running
<1>2. Placed(r) /\ OneDefault(r) /\ Standing(r) /\ Undisturbed(r)
  BY Fields DEF Sound
<1>3. \A i \in Ids : book'[i] # "absent" => i <= born'
  BY <1>1, <1>2 DEF Placed, SeenBy, BookInv, Committed
<1>4. ASSUME NEW i \in Ids, NEW j \in Ids, book'[i] = "default", book'[j] = "default" PROVE i = j
  <2> SUFFICES ASSUME i # j PROVE FALSE
    OBVIOUS
  <2>1. SeenBy(r, i) = "default" /\ SeenBy(r, j) = "default"
    BY <1>1, <1>4
  <2>2. request[r].writes[i] # "default" /\ request[r].writes[j] # "default"
    BY <1>2, <2>1 DEF OneDefault
  <2>3. book[i] = "default" /\ book[j] = "default"
    BY <2>1, <2>2 DEF SeenBy
  <2> QED
    BY <2>3 DEF BookInv, Committed
<1>5. HasDefault'
  <2> SUFFICES ASSUME ~lapsed, ~GivesUp(r)
               PROVE  (\A i \in Ids : SeenBy(r, i) = "absent") \/ \E i \in Ids : SeenBy(r, i) = "default"
    BY <1>1 DEF HasDefault
  <2>1. request[r].op \in {"create", "update", "setDefault", "delete"}
    BY <1>1, <1>2, Fields DEF Placed, GivesUp, RequestState, Ops
  <2>2. CASE request[r].op = "delete"
    BY <1>1, <1>2, <2>2 DEF GivesUp, Undisturbed
  <2>3. CASE request[r].op = "create" /\ request[r].want
    BY <1>1, <1>2, <2>3 DEF Standing, SeenBy, Wrote
  <2>4. CASE request[r].op = "create" /\ ~request[r].want
    <3>1. PICK d \in Ids : book[d] = "default"
      BY <1>1, <1>2, <2>4 DEF Standing, BookInv, HasDefault
    <3>2. ~Wrote(r, d)
      BY <1>2, <2>4, <3>1 DEF Standing
    <3> QED
      BY <3>1, <3>2 DEF SeenBy
  <2>5. CASE request[r].op \in {"update", "setDefault"} /\ request[r].want
    <3>1. request[r].id \in Ids
      BY <1>2, <2>5, Fields DEF Placed
    <3> QED
      BY <1>1, <1>2, <2>5, <3>1 DEF Standing, SeenBy, Wrote
  <2>6. CASE request[r].op = "update" /\ ~request[r].want
    <3>1. request[r].id \in Ids /\ book[request[r].id] # "absent"
      BY <1>1, <1>2, <2>6, Fields DEF Placed, Standing
    <3>2. PICK d \in Ids : book[d] = "default"
      BY <3>1 DEF BookInv, HasDefault
    <3>3. book[request[r].id] # "default"
      BY <1>1, <1>2, <2>6 DEF GivesUp, Undisturbed
    <3>4. ~Wrote(r, d)
      BY <1>2, <2>6, <3>2, <3>3 DEF Standing
    <3> QED
      BY <3>2, <3>4 DEF SeenBy
  <2>7. request[r].op = "setDefault" => request[r].want
    BY <1>2 DEF Placed
  <2> QED
    BY <2>1, <2>2, <2>3, <2>4, <2>5, <2>6, <2>7
<1> QED
  BY <1>3, <1>4, <1>5 DEF Committed

(* Those that go on hold nothing of what was published, and their own stays true: an address *)
(* is deleted beside them only when it gives up the default.                                 *)
LEMMA CommitBeside ==
  ASSUME BookInv, NEW r \in Requests, Commit(r), NEW q \in Requests \ {r},
         request'[q] = request[q], \A i \in Ids : ~Wrote(r, i)' /\ request'[r].writes[i] = "unwritten",
         \A p \in Requests \ {r} : request'[p] = request[p]
  PROVE  Sound(q)'
<1>1. /\ Running(r) /\ request[r].at = "commit" /\ born' = born
      /\ \A i \in Ids : book'[i] = SeenBy(r, i)
      /\ lapsed' = (lapsed \/ GivesUp(r))
  BY DEF Commit, Running
<1>2. Placed(r) /\ Locking(r) /\ Undisturbed(r) /\ Sound(q)
  BY Fields DEF Sound
<1>3. Placed(q)'
  BY <1>1, <1>2 DEF Sound, Placed, Wrote
<1>4. Locking(q)'
  <2> SUFFICES ASSUME NEW p \in Requests \ {q}, NEW i \in Ids, NEW j \in Ids
               PROVE  /\ ~(Wrote(q, i)' /\ Wrote(p, i)')
                      /\ ~(request'[q].writes[i] = "default" /\ request'[p].writes[j] = "default")
    BY DEF Locking
  <2>1. CASE p = r
    BY <2>1
  <2>2. CASE p # r
    BY <1>2, <2>2 DEF Sound, Locking, Wrote
  <2> QED
    BY <2>1, <2>2
<1>5. OneDefault(q)'
  <2> SUFFICES ASSUME NEW i \in Ids, NEW j \in Ids, request[q].writes[i] = "default", i # j
               PROVE  SeenBy(q, j)' # "default"
    BY DEF OneDefault
  <2>1. SeenBy(q, j) # "default"
    BY <1>2 DEF Sound, OneDefault
  <2>2. CASE Wrote(q, j)
    BY <2>1, <2>2 DEF SeenBy, Wrote
  <2>3. CASE ~Wrote(q, j)
    <3>1. book[j] # "default" /\ SeenBy(q, j)' = book'[j]
      BY <2>1, <2>3 DEF SeenBy, Wrote
    <3>2. request[r].writes[j] # "default"
      BY <1>2 DEF Locking
    <3> QED
      BY <1>1, <3>1, <3>2 DEF SeenBy
  <2> QED
    BY <2>2, <2>3
<1>6. Standing(q)'
  <2>1. ASSUME NEW i \in Ids, Wrote(q, i) PROVE book'[i] = book[i]
    <3>1. ~Wrote(r, i)
      BY <1>2, <2>1 DEF Locking
    <3> QED
      BY <1>1, <3>1 DEF SeenBy
  <2>2. ASSUME ~lapsed', Running(q), NEW i \in Ids, book[i] # "absent" PROVE book'[i] # "absent"
    <3>1. request[r].op # "delete"
      BY <1>1, <1>2, <2>2 DEF GivesUp, Undisturbed
    <3>2. request[r].writes[i] # "absent"
      BY <1>2, <3>1 DEF Placed
    <3> QED
      BY <1>1, <2>2, <3>2 DEF SeenBy
  <2>3. ~lapsed' => ~lapsed
    BY <1>1
  <2>4. request[q].op \in {"update", "setDefault"} => request[q].id \in Ids
    BY <1>2, Fields DEF Sound, Placed
  <2> QED
    BY <1>2, <2>1, <2>2, <2>3, <2>4 DEF Sound, Standing, Wrote, Running
<1>7. Undisturbed(q)'
  BY <1>1, <1>2 DEF Sound, Undisturbed, Running
<1> QED
  BY <1>3, <1>4, <1>5, <1>6, <1>7 DEF Sound

(* With what is published and what the others keep, a COMMIT is a step of the invariant. *)
LEMMA CommitStep == ASSUME BookInv, NEW r \in Requests, Commit(r) PROVE BookInv'
<1> DEFINE new == [Idle EXCEPT !.at = "done", !.answer = "ok", !.alone = request[r].alone]
<1>1. request' = [request EXCEPT ![r] = new] /\ UNCHANGED <<born, faults>>
  BY DEF Commit, Stop
<1>2. new \in RequestState /\ new.at = "done"
  <2>1. request[r].alone \in BOOLEAN
    BY Fields DEF RequestState
  <2> QED
    BY <2>1, IdleTyped DEF Idle, RequestState, Steps, Answers
<1>3. request'[r] = new /\ \A i \in Ids : ~Wrote(r, i)' /\ request'[r].writes[i] = "unwritten"
  BY <1>1 DEF BookInv, Typed, Wrote, Idle, Untouched
<1>4. \A q \in Requests \ {r} : request'[q] = request[q]
  BY <1>1 DEF BookInv, Typed
<1>5. Typed'
  <2>1. \A i \in Ids : SeenBy(r, i) \in Rows
    BY Fields DEF SeenBy, Wrote
  <2>2. book' \in [Ids -> Rows] /\ lapsed' \in BOOLEAN
    BY <2>1 DEF Commit
  <2> HIDE DEF new
  <2> QED
    BY <1>1, <1>2, <2>2 DEF BookInv, Typed
<1>6. Sound(r)'
  <2>1. 0 <= born'
    BY <1>1, AddressBookAssumption DEF BookInv, Typed
  <2>2. Placed(r)' /\ Locking(r)' /\ OneDefault(r)' /\ Standing(r)' /\ Undisturbed(r)'
    BY <1>3, <2>1 DEF Placed, Locking, OneDefault, Standing, Undisturbed, Running, Idle
  <2> QED
    BY <2>2 DEF Sound
<1> HIDE DEF new
<1>7. \A q \in Requests \ {r} : Sound(q)'
  BY <1>3, <1>4, CommitBeside
<1>8. Committed' /\ HasDefault'
  BY CommitKeeps
<1> QED
  BY <1>5, <1>6, <1>7, <1>8 DEF BookInv

(* A statement that fails rolls its transaction back. *)
LEMMA FailStep == ASSUME BookInv, NEW r \in Requests, Fail(r) PROVE BookInv'
<1>1. born' \in born..MaxAddresses /\ faults' \in 0..MaxFaults
  BY AddressBookAssumption DEF Fail, BookInv, Typed
<1> QED
  BY <1>1, StopStep DEF Fail, Answers

-------------------------------------------------------------------------------
(* The five ways a request of the user begins. *)
LEMMA Arrivals ==
  ASSUME BookInv, NEW r \in Requests,
         CreateRequest(r) \/ UpdateRequest(r) \/ SetDefaultRequest(r) \/ DeleteRequest(r) \/ SaveFromShipping(r)
  PROVE  BookInv'
<1>1. born \in Nat
  BY AddressBookAssumption DEF BookInv, Typed
<1>2. CASE CreateRequest(r)
  <2>1. PICK want \in BOOLEAN : Arrive(r, "create", 0, want, "validate")
    BY <1>2 DEF CreateRequest
  <2> QED
    BY <1>1, <2>1, ArriveStep DEF Ops, Steps
<1>3. CASE UpdateRequest(r)
  <2>1. PICK id \in 1..born, flag \in {"keep", "set", "unset"} :
          Arrive(r, IF flag = "unset" THEN "unset" ELSE "update", id, flag = "set", flag)
    BY <1>3 DEF UpdateRequest
  <2>2. id \in 0..born /\ id # 0
    BY <1>1
  <2>3. CASE flag = "unset"
    <3>1. Arrive(r, "unset", id, FALSE, "unset")
      BY <2>1, <2>3
    <3> QED
      BY <2>2, <3>1, ArriveStep DEF Ops, Steps
  <2>4. CASE flag = "set"
    <3>1. Arrive(r, "update", id, TRUE, "set")
      BY <2>1, <2>4
    <3> QED
      BY <2>2, <3>1, ArriveStep DEF Ops, Steps
  <2>5. CASE flag = "keep"
    <3>1. Arrive(r, "update", id, FALSE, "keep")
      BY <2>1, <2>5
    <3> QED
      BY <2>2, <3>1, ArriveStep DEF Ops, Steps
  <2> QED
    BY <2>3, <2>4, <2>5
<1>4. CASE SetDefaultRequest(r)
  <2>1. PICK id \in 1..born : Arrive(r, "setDefault", id, TRUE, "take")
    BY <1>4 DEF SetDefaultRequest
  <2>2. id \in 0..born /\ id # 0
    BY <1>1
  <2> QED
    BY <2>1, <2>2, ArriveStep DEF Ops, Steps
<1>5. CASE DeleteRequest(r)
  <2>1. PICK id \in 1..born : Arrive(r, "delete", id, FALSE, "take")
    BY <1>5 DEF DeleteRequest
  <2>2. id \in 0..born /\ id # 0
    BY <1>1
  <2> QED
    BY <2>1, <2>2, ArriveStep DEF Ops, Steps
<1>6. CASE SaveFromShipping(r)
  <2>1. CASE \E id \in FindMatching : Arrive(r, "update", id, book[id] = "default", "take")
    <3>1. PICK id \in FindMatching : Arrive(r, "update", id, book[id] = "default", "take")
      BY <2>1
    <3>2. id \in 0..born /\ id # 0 /\ (book[id] = "default") \in BOOLEAN
      BY <1>1 DEF FindMatching
    <3>3. ~(book[id] = "default") => book[id] # "default"
      OBVIOUS
    <3> QED
      BY <3>1, <3>2, <3>3, ArriveStep DEF Ops, Steps
  <2>2. CASE Arrive(r, "create", 0, FALSE, "begin")
    <3>1. PICK want \in BOOLEAN : ~want /\ Arrive(r, "create", 0, want, "begin")
      BY <2>2
    <3> QED
      BY <1>1, <3>1, ArriveStep DEF Ops, Steps
  <2> QED
    BY <1>6, <2>1, <2>2 DEF SaveFromShipping
<1> QED
  BY <1>2, <1>3, <1>4, <1>5, <1>6

(* Every step of the book, one lemma per action. *)
LEMMA BookStep == BookInv /\ [Next]_vars => BookInv'
<1> SUFFICES ASSUME BookInv, [Next]_vars PROVE BookInv'
  BY SMTT(60)
<1>1. CASE UNCHANGED vars
  BY <1>1 DEF vars, BookInv, Typed, Committed, HasDefault, Sound, Placed, Locking, OneDefault, Standing,
              Undisturbed, Wrote, SeenBy, Running
<1>2. CASE Next
  <2>1. PICK r \in Requests :
          \/ CreateRequest(r) \/ UpdateRequest(r) \/ SetDefaultRequest(r) \/ DeleteRequest(r)
          \/ SaveFromShipping(r)
          \/ Step(r)
          \/ Fail(r)
    BY <1>2 DEF Next
  <2>2. CASE Step(r)
    BY <2>2, CreateStep, UpdateServiceStep, BeginStep, TakeStep, SnapStep, ClearStep, InsertStep,
       WriteActionStep, RemoveStep, PromoteStep, CommitStep DEF Step
  <2> QED
    BY <2>1, <2>2, Arrivals, FailStep
<1> QED
  BY <1>1, <1>2

(* The inductive invariant: what is committed and what every transaction holds of it
   (address_store.go:90-217, migration 008). *)
THEOREM BookInvariant == Spec => []BookInv
<1> QED
  BY InitBook, BookStep, PTL DEF Spec

(* Each variable and each request has its type, and two transactions never hold the same  *)
(* row (address_store.go:90-217), for any number of requests and addresses.               *)
THEOREM AddressBookTypeCorrect == Spec => []TypeOK
<1>1. BookInv => TypeOK
  BY DEF BookInv, Typed, RequestState, Answers, TypeOK, Sound, Locking
<1> QED
  BY <1>1, BookInvariant, PTL

(* A user with addresses has a default one until he unsets it or deletes or edits beside   *)
(* another request of his, and a request of its own never meets a second default           *)
(* (address_store.go:103-117, 139-153, 179, 200-206).                                      *)
THEOREM DefaultKeptCorrect == Spec => []DefaultKept
<1>1. BookInv => DefaultKept
  BY DEF BookInv, HasDefault, DefaultKept, ConflictNeedsCompany, Sound, Placed
<1> QED
  BY <1>1, BookInvariant, PTL

-----------------------------------------------------------------------------
(* A step of the back office is one of the accounts, or leaves them alone. *)
LEMMA AccountStep == [OfficeNext]_officeVars => [Account!Next]_(Account!vars) \/ UNCHANGED accountVars
  BY DEF OfficeNext, officeVars, accountVars, Account!vars

LEMMA AccountsHold == OfficeSpec => []Account!AccountsInv
<1>1. OfficeInit => Account!AccountsInv
  BY BackOfficeAssumption, Account!InitInv DEF OfficeInit
<1>2. Account!AccountsInv /\ [OfficeNext]_officeVars => Account!AccountsInv'
  BY BackOfficeAssumption, AccountStep, Account!StepInv, Account!Stands DEF accountVars
<1> QED
  BY <1>1, <1>2, PTL DEF OfficeSpec

(* ResetPassword and ActivateAccount (auth_service.go:374-413, 451-480) read the
   token, use it and delete it in three statements: it is used a second time only
   where two requests held it together, or its deletion failed. *)
THEOREM TokensSpent == OfficeSpec => []TokenSpentOnce
<1>1. Account!AccountsInv => TokenSpentOnce
  BY Account!InvSpends DEF TokenSpentOnce
<1> QED
  BY <1>1, AccountsHold, PTL

(* The claims of a session were read when it was opened (handler/auth.go,
   auth_service.go:167-257): no account is changed so that it has less, as long
   as it is there. *)
THEOREM ClaimsHold == OfficeSpec => []ClaimsCovered
<1>1. Account!AccountsInv => ClaimsCovered
  BY Account!InvImplies DEF ClaimsCovered
<1> QED
  BY <1>1, AccountsHold, PTL

(* An account without password or provider is one whose sign-up is between its two
   statements, or failed there (auth_service.go:118-136). *)
THEOREM HalvesExplained == OfficeSpec => []HalfMadeIsExplained
<1>1. Account!AccountsInv => HalfMadeIsExplained
  BY Account!InvImplies DEF HalfMadeIsExplained
<1> QED
  BY <1>1, AccountsHold, PTL

(* A sign-up whose row an OAuth login meets between its two statements does not take
   the account back from the provider (auth_service.go:118-136, 198-210). *)
THEOREM LinksKept == OfficeSpec => LinkKept
<1>1. Account!AccountsInv /\ [OfficeNext]_officeVars
        => [\A id \in Account!Ids : users[id].provider = "oauth" /\ users'[id].email # "none"
                                      => users'[id].provider = "oauth"]_(Account!vars)
  BY BackOfficeAssumption, AccountStep, Account!StepLinks DEF accountVars
<1> QED
  BY <1>1, AccountsHold, PTL DEF OfficeSpec, LinkKept, Account!LinkKept

-----------------------------------------------------------------------------
(* The login through a provider: a step is one of its own, or leaves it alone. *)
LEMMA LoginStep == [OfficeNext]_officeVars => [Login!Next]_(Login!vars)
  BY DEF OfficeNext, officeVars, loginVars, Login!vars

LEMMA LoginHolds == OfficeSpec => []Login!GatekeeperInv
<1>1. OfficeInit => Login!GatekeeperInv
  BY BackOfficeAssumption, Login!InitInv DEF OfficeInit
<1>2. Login!GatekeeperInv /\ [OfficeNext]_officeVars => Login!GatekeeperInv'
  BY BackOfficeAssumption, LoginStep, Login!StepInv
<1> QED
  BY <1>1, <1>2, PTL DEF OfficeSpec

(* CallbackHandler deletes the entry it loads, and the provider takes back a code only
   with the verifier of its login (state_store.go:80-97, application.go:284-427). *)
THEOREM LoginsOwn == OfficeSpec => []OwnLogin
<1>1. Login!GatekeeperInv => OwnLogin
  BY Login!InvOwns DEF OwnLogin
<1> QED
  BY <1>1, LoginHolds, PTL

(* No request is let in that was sent more than SessionTTL after the response that
   brought its cookie: Max-Age is capped, though the store keeps the expiry of the
   provider and the response may take its time (application.go:429-494). *)
THEOREM SessionsEnd == OfficeSpec => []WithinTTL
<1>1. Login!GatekeeperInv => WithinTTL
  BY Login!InvInTime DEF WithinTTL
<1> QED
  BY <1>1, LoginHolds, PTL

-----------------------------------------------------------------------------
(* The categories.  What a start relies on between its statements is that nobody takes a
   slug away meanwhile: TaxonomyThere becomes inductive with what each statement has left
   (Seeded), and with where the rows stand in the table, for the next one to miss them. *)
CategoryRow ==
  [slug : Taxonomy!Slugs \union {"none"}, parent : 0..MaxRows, active : BOOLEAN, scope : {"none", "default", "own"}]

TableOK ==
  /\ table \in [Taxonomy!Ids -> CategoryRow]
  /\ rows \in 0..MaxRows
  /\ \A i \in Taxonomy!Ids : i > rows => table[i] = Taxonomy!Absent
  /\ \A i \in Taxonomy!Ids : table[i].slug = "none" => table[i] = Taxonomy!Absent
  /\ \A i, j \in Taxonomy!Ids : table[i].slug # "none" /\ table[i].slug = table[j].slug => i = j
  /\ \A i \in Taxonomy!Ids : table[i].parent # 0 => Taxonomy!Present(table[i].parent)

Seeded(b) ==
  /\ b \in calm /\ start[b] \in {"children", "scope", "done"} => \A s \in Groups : Taxonomy!Named(s)
  /\ b \in calm /\ start[b] \in {"scope", "done"} => \A s \in DOMAIN GroupOf : Taxonomy!Named(s)

TaxonomyInv ==
  /\ TableOK
  /\ start \in [Starts -> {"new", "children", "scope", "done", "failed"}]
  /\ calm \subseteq Starts
  /\ edits \in 0..MaxEdits /\ faults \in 0..MaxFaults
  /\ \A b \in Starts : Seeded(b)

(* Categories counts with the operators of an instance of its own. *)
LEMMA TaxonomyCount ==
  ASSUME NEW S
  PROVE  Taxonomy!Cardinality(S) = Cardinality(S) /\ (Taxonomy!IsFiniteSet(S) <=> IsFiniteSet(S))
  BY DEF Cardinality, Taxonomy!Cardinality, IsFiniteSet, Taxonomy!IsFiniteSet

LEMMA TaxonomyConstants ==
  /\ IsFiniteSet(Groups) /\ IsFiniteSet(DOMAIN GroupOf) /\ \A s \in DOMAIN GroupOf : GroupOf[s] \in Groups
  /\ "none" \notin Taxonomy!Slugs /\ "none" \notin Scoped /\ Taxonomy!Absent \in CategoryRow
  /\ Taxonomy!Absent.slug = "none" /\ Taxonomy!Absent.parent = 0
  /\ MaxRows \in Nat /\ MaxEdits \in Nat /\ MaxFaults \in Nat
<1>1. /\ Scoped \subseteq Groups \union DOMAIN GroupOf
      /\ IsFiniteSet(Groups \union DOMAIN GroupOf) /\ \A s \in DOMAIN GroupOf : GroupOf[s] \in Groups
      /\ "none" \notin Groups \union DOMAIN GroupOf \union OwnSlugs
      /\ MaxRows \in Nat /\ MaxEdits \in Nat /\ MaxFaults \in Nat
  BY BackOfficeAssumption, TaxonomyCount DEF Taxonomy!CategoriesAssumption
<1>2. IsFiniteSet(Groups) /\ IsFiniteSet(DOMAIN GroupOf)
  BY <1>1, FS_Subset
<1>3. "none" \notin Taxonomy!Slugs /\ "none" \notin Scoped
  BY <1>1 DEF Taxonomy!Slugs, Taxonomy!Defaults
<1>4. Taxonomy!Absent \in CategoryRow /\ Taxonomy!Absent.slug = "none" /\ Taxonomy!Absent.parent = 0
  BY <1>1 DEF Taxonomy!Absent, CategoryRow
<1> QED
  BY <1>1, <1>2, <1>3, <1>4

(* An insert numbers the rows whose slug is free, each once (InsertIgnoring). *)
LEMMA Numbered ==
  ASSUME NEW new, IsFiniteSet(new), NEW n \in Nat, NEW m, m = n + Cardinality(new)
  PROVE  (CHOOSE f \in [n + 1 .. m -> new] : \A r \in new : \E i \in DOMAIN f : f[i] = r) \in Bijection(n + 1 .. m, new)
<1> DEFINE onto(f) == \A r \in new : \E i \in DOMAIN f : f[i] = r
           f == CHOOSE f \in [n + 1 .. m -> new] : onto(f)
<1>1. Cardinality(new) \in Nat /\ n + 1 \in Int /\ m \in Int
  BY FS_CardinalityType
<1>2. IsFiniteSet(n + 1 .. m) /\ Cardinality(n + 1 .. m) = Cardinality(new)
  <2>1. PICK a \in Int, b \in Int : a = n + 1 /\ b = m
    BY <1>1
  <2>2. IsFiniteSet(a..b) /\ Cardinality(a..b) = IF a > b THEN 0 ELSE b - a + 1
    BY FS_Interval
  <2>3. Cardinality(a..b) = Cardinality(new)
    BY <1>1, <2>1, <2>2
  <2> QED
    BY <2>1, <2>2, <2>3
<1>3. PICK g : g \in Bijection(n + 1 .. m, new)
  BY <1>2, FS_SameCardinalityBij DEF ExistsBijection
<1>4. \E h \in [n + 1 .. m -> new] : onto(h)
  BY <1>3 DEF Bijection, Surjection
<1>5. f \in [n + 1 .. m -> new] /\ onto(f)
  BY <1>4
<1> HIDE DEF f
<1>6. f \in Surjection(n + 1 .. m, new)
  BY <1>5 DEF Surjection
<1>7. f \in Injection(n + 1 .. m, new)
  BY <1>2, <1>6, FS_SurjSameCardinalityImpliesInj
<1>8. f \in Bijection(n + 1 .. m, new)
  BY <1>6, <1>7 DEF Bijection
<1> QED
  BY <1>8 DEF f

LEMMA Inserted ==
  ASSUME TableOK, NEW given, IsFiniteSet(given), given \subseteq CategoryRow,
         \A r \in given : r.slug \in Taxonomy!Slugs /\ (r.parent # 0 => Taxonomy!Present(r.parent)),
         \A r, q \in given : r.slug = q.slug => r = q,
         Taxonomy!InsertIgnoring(given)
  PROVE  /\ TableOK'
         /\ \A r \in given : Taxonomy!Named(r.slug)'
         /\ \A i \in Taxonomy!Ids : Taxonomy!Present(i) => table'[i] = table[i]
<1> DEFINE new == {r \in given : ~Taxonomy!Named(r.slug)}
           last == rows + Taxonomy!Cardinality(new)
           row == CHOOSE f \in [rows + 1 .. last -> new] : \A r \in new : \E i \in DOMAIN f : f[i] = r
<1>1. IsFiniteSet(new) /\ Cardinality(new) \in Nat /\ last = rows + Cardinality(new)
  <2>1. new \subseteq given
    OBVIOUS
  <2>2. Taxonomy!Cardinality(new) = Cardinality(new)
    BY TaxonomyCount
  <2> QED
    BY <2>1, <2>2, FS_Subset, FS_CardinalityType
<1>2. rows \in Nat /\ rows <= MaxRows /\ MaxRows \in Nat
  BY TaxonomyConstants DEF TableOK
<1>3. /\ last <= MaxRows /\ rows' = last
      /\ table' = [i \in Taxonomy!Ids |-> IF i \in DOMAIN row THEN row[i] ELSE table[i]]
  BY DEF Taxonomy!InsertIgnoring
<1>4. row \in Bijection(rows + 1 .. last, new)
  BY <1>1, <1>2, Numbered
<1> HIDE DEF row, last
<1>5. last \in Nat /\ rows <= last
  <2> HIDE DEF new
  <2> QED
    BY <1>1, <1>2
<1>6. /\ DOMAIN row = rows + 1 .. last
      /\ \A i \in rows + 1 .. last : row[i] \in new
      /\ \A i, j \in rows + 1 .. last : row[i] = row[j] => i = j
      /\ \A r \in new : \E i \in rows + 1 .. last : row[i] = r
  BY <1>4 DEF Bijection, Injection, Surjection, IsInjective
<1>7. rows + 1 .. last \subseteq Taxonomy!Ids /\ rows' \in 0..MaxRows /\ rows <= last
  BY <1>2, <1>3, <1>5 DEF Taxonomy!Ids
<1>8. /\ \A i \in Taxonomy!Ids : i \in rows + 1 .. last => table'[i] = row[i]
      /\ \A i \in Taxonomy!Ids : i \notin rows + 1 .. last => table'[i] = table[i]
  BY <1>3, <1>6
<1>9. \A i \in Taxonomy!Ids : Taxonomy!Present(i) => table'[i] = table[i] /\ i \notin rows + 1 .. last
  BY <1>2, <1>8 DEF TableOK, Taxonomy!Present, Taxonomy!Ids
<1>10. \A r \in given : r.slug # "none" /\ r \in CategoryRow
  BY TaxonomyConstants
<1>11. \A i \in Taxonomy!Ids : i \in rows + 1 .. last =>
          table'[i] \in given /\ ~Taxonomy!Named(table'[i].slug) /\ table'[i].slug # "none"
  BY <1>6, <1>8, <1>10
<1>12. table' \in [Taxonomy!Ids -> CategoryRow]
  <2>1. \A i \in Taxonomy!Ids : table'[i] \in CategoryRow
    BY <1>8, <1>11 DEF TableOK
  <2>2. table' = [i \in Taxonomy!Ids |-> table'[i]]
    BY <1>3
  <2> QED
    BY <2>1, <2>2
<1>13. \A i \in Taxonomy!Ids : i > rows' => table'[i] = Taxonomy!Absent
  <2> SUFFICES ASSUME NEW i \in Taxonomy!Ids, i > rows' PROVE table'[i] = Taxonomy!Absent
    OBVIOUS
  <2>1. i > rows /\ i \notin rows + 1 .. last
    BY <1>2, <1>3, <1>5, <1>7 DEF Taxonomy!Ids
  <2> QED
    BY <1>8, <2>1 DEF TableOK
<1>14. \A i \in Taxonomy!Ids : table'[i].slug = "none" => table'[i] = Taxonomy!Absent
  BY <1>8, <1>11 DEF TableOK
<1>15. ASSUME NEW i \in Taxonomy!Ids, NEW j \in Taxonomy!Ids, table'[i].slug # "none", table'[i].slug = table'[j].slug
       PROVE  i = j
  <2>1. CASE i \in rows + 1 .. last /\ j \in rows + 1 .. last
    <3>1. row[i] \in given /\ row[j] \in given /\ row[i].slug = row[j].slug
      BY <1>6, <1>8, <1>15, <2>1
    <3> QED
      BY <1>6, <2>1, <3>1
  <2>2. CASE i \in rows + 1 .. last /\ j \notin rows + 1 .. last
    BY <1>8, <1>11, <1>15, <2>2 DEF Taxonomy!Named, Taxonomy!GetBySlug
  <2>3. CASE i \notin rows + 1 .. last /\ j \in rows + 1 .. last
    BY <1>8, <1>11, <1>15, <2>3 DEF Taxonomy!Named, Taxonomy!GetBySlug
  <2>4. CASE i \notin rows + 1 .. last /\ j \notin rows + 1 .. last
    BY <1>8, <1>15, <2>4 DEF TableOK
  <2> QED
    BY <2>1, <2>2, <2>3, <2>4
<1>16. ASSUME NEW i \in Taxonomy!Ids, table'[i].parent # 0 PROVE table'[table'[i].parent] # Taxonomy!Absent
  <2>1. Taxonomy!Present(table'[i].parent) /\ table'[i].parent \in Taxonomy!Ids
    <3>1. table'[i].parent \in 0..MaxRows
      BY <1>12 DEF CategoryRow
    <3>2. table'[i].parent \in Taxonomy!Ids
      BY <1>2, <1>16, <3>1 DEF Taxonomy!Ids
    <3>3. Taxonomy!Present(table'[i].parent)
      BY <1>8, <1>11, <1>16 DEF TableOK
    <3> QED
      BY <3>2, <3>3
  <2>2. table'[table'[i].parent] = table[table'[i].parent]
    BY <1>9, <2>1
  <2> QED
    BY <2>1, <2>2 DEF Taxonomy!Present
<1>17. ASSUME NEW r \in given PROVE Taxonomy!Named(r.slug)'
  <2>1. CASE r \in new
    BY <1>6, <1>7, <1>8, <2>1 DEF Taxonomy!Named, Taxonomy!GetBySlug
  <2>2. CASE r \notin new
    <3>1. PICK i \in Taxonomy!Ids : table[i].slug = r.slug
      BY <2>2 DEF Taxonomy!Named, Taxonomy!GetBySlug
    <3>2. Taxonomy!Present(i)
      BY <1>10, <3>1, TaxonomyConstants DEF Taxonomy!Present
    <3> QED
      BY <1>9, <3>1, <3>2 DEF Taxonomy!Named, Taxonomy!GetBySlug
  <2> QED
    BY <2>1, <2>2
<1>18. TableOK'
  BY <1>7, <1>12, <1>13, <1>14, <1>15, <1>16 DEF TableOK, Taxonomy!Present
<1> QED
  BY <1>9, <1>17, <1>18
(* A name that was given stays with its row as long as the row keeps its slug. *)
LEMMA NamesStay ==
  ASSUME TableOK, \A i \in Taxonomy!Ids : Taxonomy!Present(i) => table'[i].slug = table[i].slug,
         NEW s \in Taxonomy!Slugs, Taxonomy!Named(s)
  PROVE  Taxonomy!Named(s)'
<1>1. PICK i \in Taxonomy!Ids : table[i].slug = s
  BY DEF Taxonomy!Named, Taxonomy!GetBySlug
<1>2. Taxonomy!Present(i)
  BY <1>1, TaxonomyConstants DEF Taxonomy!Present
<1> QED
  BY <1>1, <1>2 DEF Taxonomy!Named, Taxonomy!GetBySlug

(* The statements of a start. *)
LEMMA RowTyped ==
  ASSUME NEW s \in Taxonomy!Slugs, NEW i \in 0..MaxRows
  PROVE  Taxonomy!Row(s, i) \in CategoryRow /\ Taxonomy!Row(s, i).slug = s /\ Taxonomy!Row(s, i).parent = i
         /\ Taxonomy!Row(s, i) # Taxonomy!Absent
  BY TaxonomyConstants DEF CategoryRow, Taxonomy!Row, Taxonomy!Absent

LEMMA SeedGroupsStep == ASSUME TaxonomyInv, NEW b \in Starts, Taxonomy!SeedGroups(b) PROVE TaxonomyInv'
<1> DEFINE given == {Taxonomy!Row(s, 0) : s \in Groups}
<1>1. Groups \subseteq Taxonomy!Slugs /\ DOMAIN GroupOf \subseteq Taxonomy!Slugs
  BY DEF Taxonomy!Slugs, Taxonomy!Defaults
<1>2. \A s \in Groups : /\ Taxonomy!Row(s, 0) \in CategoryRow
                        /\ Taxonomy!Row(s, 0).slug = s /\ Taxonomy!Row(s, 0).parent = 0
  <2>1. 0 \in 0..MaxRows
    BY TaxonomyConstants
  <2> QED
    BY <1>1, <2>1, RowTyped
<1>3. IsFiniteSet(given)
  <2>1. [s \in Groups |-> Taxonomy!Row(s, 0)] \in Surjection(Groups, given)
    BY DEF Surjection
  <2> QED
    BY <2>1, TaxonomyConstants, FS_Surjection
<1>4. TableOK /\ start \in [Starts -> {"new", "children", "scope", "done", "failed"}]
  BY DEF TaxonomyInv
<1>5. Taxonomy!InsertIgnoring(given) /\ start[b] = "new"
      /\ start' = [start EXCEPT ![b] = "children"] /\ UNCHANGED <<edits, faults, calm>>
  BY DEF Taxonomy!SeedGroups
<1>6. /\ given \subseteq CategoryRow
      /\ \A r \in given : r.slug \in Taxonomy!Slugs /\ (r.parent # 0 => Taxonomy!Present(r.parent))
      /\ \A r, q \in given : r.slug = q.slug => r = q
  BY <1>1, <1>2
<1>7. /\ TableOK'
      /\ \A r \in given : Taxonomy!Named(r.slug)'
      /\ \A i \in Taxonomy!Ids : Taxonomy!Present(i) => table'[i] = table[i]
  <2> HIDE DEF given
  <2> QED
    BY <1>3, <1>4, <1>5, <1>6, Inserted
<1>8. \A s \in Groups : Taxonomy!Named(s)'
  BY <1>2, <1>7
<1>9. \A s \in Taxonomy!Slugs : Taxonomy!Named(s) => Taxonomy!Named(s)'
  BY <1>4, <1>7, NamesStay
<1>10. ASSUME NEW a \in Starts PROVE Seeded(a)'
  BY <1>1, <1>4, <1>5, <1>8, <1>9 DEF TaxonomyInv, Seeded
<1> QED
  BY <1>4, <1>5, <1>7, <1>10 DEF TaxonomyInv

LEMMA SeedChildrenStep == ASSUME TaxonomyInv, NEW b \in Starts, Taxonomy!SeedChildren(b) PROVE TaxonomyInv'
<1> DEFINE group(s) == CHOOSE i \in Taxonomy!GroupRows(s) : TRUE
           found == {c \in DOMAIN GroupOf : Taxonomy!GroupRows(c) # {}}
           given == {Taxonomy!Row(s, group(s)) : s \in found}
<1>1. Groups \subseteq Taxonomy!Slugs /\ DOMAIN GroupOf \subseteq Taxonomy!Slugs
  BY DEF Taxonomy!Slugs, Taxonomy!Defaults
<1>2. \A s \in found : /\ s \in Taxonomy!Slugs /\ group(s) \in Taxonomy!Ids /\ group(s) \in 0..MaxRows
                       /\ Taxonomy!Present(group(s))
  <2> SUFFICES ASSUME NEW s \in found
               PROVE  s \in Taxonomy!Slugs /\ group(s) \in Taxonomy!Ids /\ group(s) \in 0..MaxRows
                      /\ Taxonomy!Present(group(s))
    OBVIOUS
  <2>1. group(s) \in Taxonomy!GroupRows(s)
    OBVIOUS
  <2>2. group(s) \in Taxonomy!Ids /\ table[group(s)].slug = GroupOf[s]
    BY <2>1 DEF Taxonomy!GroupRows, Taxonomy!GetBySlug
  <2>3. GroupOf[s] # "none"
    BY <1>1, TaxonomyConstants
  <2> HIDE DEF group
  <2> QED
    BY <1>1, <2>2, <2>3, TaxonomyConstants DEF Taxonomy!Present, Taxonomy!Ids
<1> HIDE DEF group
<1>3. \A s \in found : /\ Taxonomy!Row(s, group(s)) \in CategoryRow
                       /\ Taxonomy!Row(s, group(s)).slug = s /\ Taxonomy!Row(s, group(s)).parent = group(s)
  BY <1>2, RowTyped
<1>4. IsFiniteSet(given)
  <2>1. [s \in found |-> Taxonomy!Row(s, group(s))] \in Surjection(found, given)
    BY DEF Surjection
  <2>2. IsFiniteSet(found)
    BY TaxonomyConstants, FS_Subset
  <2> QED
    BY <2>1, <2>2, FS_Surjection
<1>5. TableOK /\ start \in [Starts -> {"new", "children", "scope", "done", "failed"}]
  BY DEF TaxonomyInv
<1>6. Taxonomy!InsertIgnoring(given) /\ start[b] = "children"
      /\ start' = [start EXCEPT ![b] = "scope"] /\ UNCHANGED <<edits, faults, calm>>
  BY DEF Taxonomy!SeedChildren, group
<1>7. /\ given \subseteq CategoryRow
      /\ \A r \in given : r.slug \in Taxonomy!Slugs /\ (r.parent # 0 => Taxonomy!Present(r.parent))
      /\ \A r, q \in given : r.slug = q.slug => r = q
  BY <1>2, <1>3
<1>8. /\ TableOK'
      /\ \A r \in given : Taxonomy!Named(r.slug)'
      /\ \A i \in Taxonomy!Ids : Taxonomy!Present(i) => table'[i] = table[i]
  <2> HIDE DEF given
  <2> QED
    BY <1>4, <1>5, <1>6, <1>7, Inserted
<1>9. \A s \in found : Taxonomy!Named(s)'
  BY <1>3, <1>8
<1>10. \A s \in Taxonomy!Slugs : Taxonomy!Named(s) => Taxonomy!Named(s)'
  BY <1>5, <1>8, NamesStay
<1>11. b \in calm => found = DOMAIN GroupOf
  BY <1>6, TaxonomyConstants DEF TaxonomyInv, Seeded, Taxonomy!Named, Taxonomy!GroupRows
<1>12. ASSUME NEW a \in Starts PROVE Seeded(a)'
  <2> HIDE DEF found
  <2> QED
    BY <1>1, <1>5, <1>6, <1>9, <1>10, <1>11 DEF TaxonomyInv, Seeded
<1> QED
  BY <1>5, <1>6, <1>8, <1>12 DEF TaxonomyInv

LEMMA SeedScopeStep == ASSUME TaxonomyInv, NEW b \in Starts, Taxonomy!SeedScope(b) PROVE TaxonomyInv'
<1>1. TableOK /\ start \in [Starts -> {"new", "children", "scope", "done", "failed"}]
  BY DEF TaxonomyInv
<1>2. /\ start[b] = "scope" /\ start' = [start EXCEPT ![b] = "done"] /\ UNCHANGED <<rows, edits, faults, calm>>
      /\ table' = [i \in Taxonomy!Ids |-> IF table[i].slug \in Scoped /\ Taxonomy!Unscoped(table[i])
                                          THEN [table[i] EXCEPT !.scope = "default"] ELSE table[i]]
  BY DEF Taxonomy!SeedScope
<1>3. \A i \in Taxonomy!Ids :
         /\ table'[i] \in CategoryRow
         /\ table'[i].slug = table[i].slug /\ table'[i].parent = table[i].parent
  BY <1>1, <1>2 DEF TableOK, CategoryRow
<1>4. \A i \in Taxonomy!Ids : table[i] = Taxonomy!Absent => table'[i] = Taxonomy!Absent
  BY <1>2, TaxonomyConstants
<1>5. \A i \in Taxonomy!Ids : Taxonomy!Present(i) => table'[i] # Taxonomy!Absent
  BY <1>1, <1>3, TaxonomyConstants DEF TableOK, Taxonomy!Present
<1>6. TableOK'
  <2>1. table' \in [Taxonomy!Ids -> CategoryRow]
    BY <1>2, <1>3
  <2>2. rows' \in 0..MaxRows /\ \A i \in Taxonomy!Ids : i > rows' => table'[i] = Taxonomy!Absent
    BY <1>1, <1>2, <1>4 DEF TableOK
  <2>3. \A i \in Taxonomy!Ids : table'[i].slug = "none" => table'[i] = Taxonomy!Absent
    BY <1>1, <1>3, <1>4 DEF TableOK
  <2>4. \A i, j \in Taxonomy!Ids : table'[i].slug # "none" /\ table'[i].slug = table'[j].slug => i = j
    BY <1>1, <1>3 DEF TableOK
  <2>5. \A i \in Taxonomy!Ids : table'[i].parent # 0 => table'[table'[i].parent] # Taxonomy!Absent
    <3> SUFFICES ASSUME NEW i \in Taxonomy!Ids, table'[i].parent # 0 PROVE table'[table[i].parent] # Taxonomy!Absent
      BY <1>3
    <3>1. table[i].parent \in 0..MaxRows /\ table[i].parent # 0
      BY <1>1, <1>3 DEF TableOK, CategoryRow
    <3>2. table[i].parent \in Taxonomy!Ids
      BY <3>1, TaxonomyConstants DEF Taxonomy!Ids
    <3> QED
      BY <1>1, <1>5, <3>1, <3>2 DEF TableOK
  <2> QED
    BY <2>1, <2>2, <2>3, <2>4, <2>5 DEF TableOK, Taxonomy!Present
<1>7. \A s \in Taxonomy!Slugs : Taxonomy!Named(s) => Taxonomy!Named(s)'
  BY <1>1, <1>3, NamesStay
<1>8. Groups \subseteq Taxonomy!Slugs /\ DOMAIN GroupOf \subseteq Taxonomy!Slugs
  BY DEF Taxonomy!Slugs, Taxonomy!Defaults
<1>9. ASSUME NEW a \in Starts PROVE Seeded(a)'
  BY <1>1, <1>2, <1>7, <1>8 DEF TaxonomyInv, Seeded
<1> QED
  BY <1>1, <1>2, <1>6, <1>9 DEF TaxonomyInv

LEMMA SeedFailsStep == ASSUME TaxonomyInv, NEW b \in Starts, Taxonomy!SeedFails(b) PROVE TaxonomyInv'
<1>1. TableOK /\ start \in [Starts -> {"new", "children", "scope", "done", "failed"}]
  BY DEF TaxonomyInv
<1>2. /\ start' = [start EXCEPT ![b] = "failed"] /\ UNCHANGED <<table, rows, edits, calm>>
      /\ faults < MaxFaults /\ faults' = faults + 1
  BY DEF Taxonomy!SeedFails
<1>3. TableOK'
  BY <1>1, <1>2 DEF TableOK, Taxonomy!Present
<1>4. \A s : Taxonomy!Named(s)' <=> Taxonomy!Named(s)
  BY <1>2 DEF Taxonomy!Named, Taxonomy!GetBySlug
<1>5. ASSUME NEW a \in Starts PROVE Seeded(a)'
  BY <1>1, <1>2, <1>4 DEF TaxonomyInv, Seeded
<1>6. faults' \in 0..MaxFaults
  BY <1>2, TaxonomyConstants DEF TaxonomyInv
<1> QED
  BY <1>1, <1>2, <1>3, <1>5, <1>6 DEF TaxonomyInv

(* A change by an administrator ends the calm of every start under way. *)
LEMMA EditStep == ASSUME TaxonomyInv, TableOK', Taxonomy!Edited PROVE TaxonomyInv'
<1>1. /\ edits < MaxEdits /\ edits' = edits + 1 /\ UNCHANGED <<start, faults>>
      /\ calm' = {b \in calm : start[b] = "new"}
  BY DEF Taxonomy!Edited
<1>2. edits' \in 0..MaxEdits
  BY <1>1, TaxonomyConstants DEF TaxonomyInv
<1>3. ASSUME NEW a \in Starts PROVE Seeded(a)'
  BY <1>1 DEF Seeded
<1> QED
  BY <1>1, <1>2, <1>3 DEF TaxonomyInv
LEMMA CreateRowStep ==
  ASSUME TableOK, NEW s \in Taxonomy!Slugs, NEW p \in Taxonomy!Parents, Taxonomy!CreateRow(s, p)
  PROVE  TableOK'
<1>1. /\ rows < MaxRows /\ rows' = rows + 1 /\ ~Taxonomy!Named(s)
      /\ table' = [i \in Taxonomy!Ids |-> IF i \in DOMAIN [j \in {rows + 1} |-> Taxonomy!Row(s, p)]
                                          THEN [j \in {rows + 1} |-> Taxonomy!Row(s, p)][i] ELSE table[i]]
  BY DEF Taxonomy!CreateRow, Taxonomy!Written
<1>2. p \in 0..MaxRows /\ (p # 0 => p \in Taxonomy!Ids /\ Taxonomy!Present(p)) /\ s # "none"
  BY TaxonomyConstants DEF Taxonomy!Parents, Taxonomy!Ids
<1>3. /\ Taxonomy!Row(s, p) \in CategoryRow /\ Taxonomy!Row(s, p).slug = s /\ Taxonomy!Row(s, p).parent = p
      /\ Taxonomy!Row(s, p) # Taxonomy!Absent
  BY <1>2, RowTyped
<1>4. rows \in Nat /\ rows + 1 \in Taxonomy!Ids
  BY <1>1, TaxonomyConstants DEF TableOK, Taxonomy!Ids
<1>5. /\ table'[rows + 1] = Taxonomy!Row(s, p)
      /\ \A i \in Taxonomy!Ids : i # rows + 1 => table'[i] = table[i]
  BY <1>1, <1>4
<1>6. \A i \in Taxonomy!Ids : Taxonomy!Present(i) => i # rows + 1
  <2>1. rows + 1 > rows
    BY <1>4
  <2> QED
    BY <1>4, <2>1 DEF TableOK, Taxonomy!Present
<1>7. table' \in [Taxonomy!Ids -> CategoryRow]
  <2>1. \A i \in Taxonomy!Ids : table'[i] \in CategoryRow
    BY <1>3, <1>5 DEF TableOK
  <2> QED
    BY <1>1, <2>1
<1>8. rows' \in 0..MaxRows /\ \A i \in Taxonomy!Ids : i > rows' => table'[i] = Taxonomy!Absent
  <2>1. \A i \in Taxonomy!Ids : i > rows' => i > rows /\ i # rows + 1
    BY <1>1, <1>4 DEF Taxonomy!Ids
  <2> QED
    BY <1>1, <1>4, <1>5, <2>1, TaxonomyConstants DEF TableOK
<1>9. \A i \in Taxonomy!Ids : table'[i].slug = "none" => table'[i] = Taxonomy!Absent
  BY <1>2, <1>3, <1>5 DEF TableOK
<1>10. \A i \in Taxonomy!Ids : table[i].slug # s
  BY <1>1 DEF Taxonomy!Named, Taxonomy!GetBySlug
<1>11. \A i, j \in Taxonomy!Ids : table'[i].slug # "none" /\ table'[i].slug = table'[j].slug => i = j
  BY <1>3, <1>5, <1>10 DEF TableOK
<1>12. \A i \in Taxonomy!Ids : Taxonomy!Present(i) => table'[i] # Taxonomy!Absent
  BY <1>5, <1>6 DEF Taxonomy!Present
<1>13. ASSUME NEW i \in Taxonomy!Ids, table'[i].parent # 0 PROVE table'[table'[i].parent] # Taxonomy!Absent
  <2>1. table'[i].parent \in Taxonomy!Ids
    BY <1>7, <1>13, TaxonomyConstants DEF CategoryRow, Taxonomy!Ids
  <2>2. Taxonomy!Present(table'[i].parent)
    BY <1>2, <1>3, <1>5, <1>13 DEF TableOK
  <2> QED
    BY <1>12, <2>1, <2>2
<1> QED
  BY <1>7, <1>8, <1>9, <1>11, <1>13 DEF TableOK, Taxonomy!Present

LEMMA UpdateRowStep ==
  ASSUME TableOK, NEW i \in Taxonomy!Ids, Taxonomy!Present(i), NEW row \in Taxonomy!FieldsOf(table[i]),
         Taxonomy!UpdateRow(i, row)
  PROVE  TableOK'
<1>1. /\ \A j \in Taxonomy!GetBySlug(row.slug) : j = i
      /\ table' = [k \in Taxonomy!Ids |-> IF k \in DOMAIN [j \in {i} |-> row] THEN [j \in {i} |-> row][k] ELSE table[k]]
      /\ rows' = rows
  BY DEF Taxonomy!UpdateRow, Taxonomy!Written
<1>2. \A p \in Taxonomy!Parents : p \in 0..MaxRows /\ (p # 0 => Taxonomy!Present(p))
  BY TaxonomyConstants DEF Taxonomy!Parents, Taxonomy!Ids
<1>3. table[i] \in CategoryRow /\ table[i].slug # "none" /\ table[i].slug \in Taxonomy!Slugs
  BY DEF TableOK, Taxonomy!Present, CategoryRow
<1>4. row \in CategoryRow /\ row.slug # "none" /\ (row.parent # 0 => Taxonomy!Present(row.parent))
  <2>1. CASE \E s \in Taxonomy!Slugs : row = [table[i] EXCEPT !.slug = s]
    BY <1>3, <2>1, TaxonomyConstants DEF CategoryRow, TableOK
  <2>2. CASE \E p \in Taxonomy!Parents : row = [table[i] EXCEPT !.parent = p]
    BY <1>2, <1>3, <2>2 DEF CategoryRow
  <2>3. CASE row = [table[i] EXCEPT !.active = ~@]
    BY <1>3, <2>3 DEF CategoryRow, TableOK
  <2>4. CASE \E scope \in {"none", "own"} : row = [table[i] EXCEPT !.scope = scope]
    BY <1>3, <2>4 DEF CategoryRow, TableOK
  <2> QED
    BY <2>1, <2>2, <2>3, <2>4 DEF Taxonomy!FieldsOf
<1>5. table'[i] = row /\ \A k \in Taxonomy!Ids : k # i => table'[k] = table[k]
  BY <1>1
<1>6. table' \in [Taxonomy!Ids -> CategoryRow]
  <2>1. \A k \in Taxonomy!Ids : table'[k] \in CategoryRow
    BY <1>4, <1>5 DEF TableOK
  <2> QED
    BY <1>1, <2>1
<1>7. \A k \in Taxonomy!Ids : k > rows' => table'[k] = Taxonomy!Absent
  BY <1>1, <1>5 DEF TableOK, Taxonomy!Present
<1>8. \A k \in Taxonomy!Ids : table'[k].slug = "none" => table'[k] = Taxonomy!Absent
  BY <1>4, <1>5 DEF TableOK
<1>9. \A k \in Taxonomy!Ids : table[k].slug = row.slug => k = i
  BY <1>1 DEF Taxonomy!GetBySlug
<1>10. \A k, j \in Taxonomy!Ids : table'[k].slug # "none" /\ table'[k].slug = table'[j].slug => k = j
  BY <1>5, <1>9 DEF TableOK
<1>11. row # Taxonomy!Absent
  BY <1>4, TaxonomyConstants
<1>12. \A k \in Taxonomy!Ids : Taxonomy!Present(k) => table'[k] # Taxonomy!Absent
  BY <1>5, <1>11 DEF Taxonomy!Present
<1>13. ASSUME NEW k \in Taxonomy!Ids, table'[k].parent # 0 PROVE table'[table'[k].parent] # Taxonomy!Absent
  <2>1. table'[k].parent \in Taxonomy!Ids
    BY <1>6, <1>13, TaxonomyConstants DEF CategoryRow, Taxonomy!Ids
  <2>2. Taxonomy!Present(table'[k].parent)
    BY <1>4, <1>5, <1>13 DEF TableOK
  <2> QED
    BY <1>12, <2>1, <2>2
<1> QED
  BY <1>1, <1>6, <1>7, <1>8, <1>10, <1>13 DEF TableOK, Taxonomy!Present

LEMMA DeleteRowStep == ASSUME TableOK, NEW i \in Taxonomy!Ids, Taxonomy!DeleteRow(i) PROVE TableOK'
<1>1. /\ rows' = rows
      /\ table' = [j \in Taxonomy!Ids |-> IF j = i THEN Taxonomy!Absent
                                          ELSE IF table[j].parent = i THEN [table[j] EXCEPT !.parent = 0] ELSE table[j]]
  BY DEF Taxonomy!DeleteRow
<1>2. 0 \in 0..MaxRows
  BY TaxonomyConstants
<1>3. \A j \in Taxonomy!Ids : j # i =>
        /\ table'[j] \in CategoryRow /\ table'[j].slug = table[j].slug
        /\ table'[j].parent = IF table[j].parent = i THEN 0 ELSE table[j].parent
  BY <1>1, <1>2 DEF TableOK, CategoryRow
<1>4. table' \in [Taxonomy!Ids -> CategoryRow]
  <2>1. \A j \in Taxonomy!Ids : table'[j] \in CategoryRow
    BY <1>1, <1>3, TaxonomyConstants
  <2> QED
    BY <1>1, <2>1
<1>5. i # 0
  BY TaxonomyConstants DEF Taxonomy!Ids
<1>6. \A j \in Taxonomy!Ids : table[j] = Taxonomy!Absent => table'[j] = Taxonomy!Absent
  BY <1>1, <1>5, TaxonomyConstants
<1>7. \A j \in Taxonomy!Ids : table'[j].slug = "none" => table'[j] = Taxonomy!Absent
  BY <1>1, <1>3, <1>6 DEF TableOK
<1>8. \A k, j \in Taxonomy!Ids : table'[k].slug # "none" /\ table'[k].slug = table'[j].slug => k = j
  BY <1>1, <1>3, TaxonomyConstants DEF TableOK
<1>9. \A j \in Taxonomy!Ids : j # i /\ Taxonomy!Present(j) => table'[j] # Taxonomy!Absent
  BY <1>3, TaxonomyConstants DEF TableOK, Taxonomy!Present
<1>10. ASSUME NEW j \in Taxonomy!Ids, table'[j].parent # 0 PROVE table'[table'[j].parent] # Taxonomy!Absent
  <2>1. j # i /\ table'[j].parent = table[j].parent /\ table[j].parent # i
    BY <1>1, <1>3, <1>10, TaxonomyConstants
  <2>2. table[j].parent \in Taxonomy!Ids
    BY <1>10, <2>1, TaxonomyConstants DEF TableOK, CategoryRow, Taxonomy!Ids
  <2>3. Taxonomy!Present(table[j].parent)
    BY <1>10, <2>1 DEF TableOK
  <2> QED
    BY <1>9, <2>1, <2>2, <2>3
<1>11. rows' \in 0..MaxRows /\ \A j \in Taxonomy!Ids : j > rows' => table'[j] = Taxonomy!Absent
  BY <1>1, <1>6 DEF TableOK
<1> QED
  BY <1>4, <1>7, <1>8, <1>10, <1>11 DEF TableOK, Taxonomy!Present

LEMMA TaxonomyStep == TaxonomyInv /\ [Taxonomy!Next]_(Taxonomy!vars) => TaxonomyInv'
<1> SUFFICES ASSUME TaxonomyInv, [Taxonomy!Next]_(Taxonomy!vars) PROVE TaxonomyInv'
  OBVIOUS
<1>1. TableOK
  BY DEF TaxonomyInv
<1>2. CASE \E b \in Starts : Taxonomy!SeedGroups(b) \/ Taxonomy!SeedChildren(b) \/ Taxonomy!SeedScope(b) \/ Taxonomy!SeedFails(b)
  BY <1>2, SeedGroupsStep, SeedChildrenStep, SeedScopeStep, SeedFailsStep
<1>3. ASSUME NEW s \in Taxonomy!Slugs, NEW p \in Taxonomy!Parents, Taxonomy!Create(s, p) PROVE TaxonomyInv'
  <2>1. TableOK'
    BY <1>1, <1>3, CreateRowStep DEF Taxonomy!Create
  <2> QED
    BY <1>3, <2>1, EditStep DEF Taxonomy!Create
<1>4. ASSUME NEW i \in Taxonomy!Ids, Taxonomy!Present(i), Taxonomy!Update(i) PROVE TaxonomyInv'
  <2>1. TableOK'
    BY <1>1, <1>4, UpdateRowStep DEF Taxonomy!Update
  <2> QED
    BY <1>4, <2>1, EditStep DEF Taxonomy!Update
<1>5. ASSUME NEW i \in Taxonomy!Ids, Taxonomy!Delete(i) PROVE TaxonomyInv'
  <2>1. TableOK'
    BY <1>1, <1>5, DeleteRowStep DEF Taxonomy!Delete
  <2> QED
    BY <1>5, <2>1, EditStep DEF Taxonomy!Delete
<1>6. CASE UNCHANGED Taxonomy!vars
  <2>1. UNCHANGED <<table, rows, start, edits, faults, calm>>
    BY <1>6 DEF Taxonomy!vars
  <2>2. TableOK'
    BY <1>1, <2>1 DEF TableOK, Taxonomy!Present
  <2>3. \A a \in Starts : Seeded(a)'
    BY <2>1 DEF TaxonomyInv, Seeded, Taxonomy!Named, Taxonomy!GetBySlug
  <2> QED
    BY <2>1, <2>2, <2>3 DEF TaxonomyInv
<1> QED
  BY <1>2, <1>3, <1>4, <1>5, <1>6 DEF Taxonomy!Next

LEMMA TaxonomyInit == Taxonomy!Init => TaxonomyInv
<1> SUFFICES ASSUME Taxonomy!Init PROVE TaxonomyInv
  OBVIOUS
<1>1. /\ table = [i \in Taxonomy!Ids |-> Taxonomy!Absent] /\ rows = 0 /\ edits = 0 /\ faults = 0
      /\ start = [b \in Starts |-> "new"] /\ calm = Starts
  BY DEF Taxonomy!Init
<1>2. rows \in 0..MaxRows /\ edits \in 0..MaxEdits /\ faults \in 0..MaxFaults
  BY <1>1, TaxonomyConstants
<1>3. TableOK
  BY <1>1, <1>2, TaxonomyConstants DEF TableOK
<1>4. \A b \in Starts : Seeded(b)
  BY <1>1 DEF Seeded
<1> QED
  BY <1>1, <1>2, <1>3, <1>4 DEF TaxonomyInv

(* The counters of the faults and of the edits are those of the part in focus; the
   categories of another focus are those of the beginning. *)
TaxonomyPart ==
  IF focus = "taxonomy" THEN TaxonomyInv ELSE start = [b \in Starts |-> "new"] /\ calm = Starts

LEMMA TaxonomyHolds == OfficeSpec => []TaxonomyPart
<1>1. OfficeInit => TaxonomyPart
  BY TaxonomyInit DEF OfficeInit, TaxonomyPart, Taxonomy!Init
<1>2. ASSUME TaxonomyPart, [OfficeNext]_officeVars PROVE TaxonomyPart'
  <2>1. focus' = focus
    BY <1>2 DEF OfficeNext, officeVars
  <2>2. CASE focus = "taxonomy"
    <3>1. [Taxonomy!Next]_(Taxonomy!vars)
      BY <1>2, <2>2 DEF OfficeNext, officeVars, taxonomyVars, Taxonomy!vars
    <3> QED
      BY <1>2, <2>1, <2>2, <3>1, TaxonomyStep DEF TaxonomyPart
  <2>3. CASE focus # "taxonomy"
    <3>1. UNCHANGED <<start, calm>>
      BY <1>2, <2>3 DEF OfficeNext, officeVars, taxonomyVars
    <3> QED
      BY <1>2, <2>1, <2>3, <3>1 DEF TaxonomyPart
  <2> QED
    BY <2>2, <2>3
<1> QED
  BY <1>1, <1>2, PTL DEF OfficeSpec

(* Whatever other starts and administrators did, a start whose seeding went through has the
   whole default taxonomy there (category_store.go:116-179). *)
THEOREM TaxonomyFound == OfficeSpec => []TaxonomyThere
<1>1. TaxonomyPart => TaxonomyThere
  <2> SUFFICES ASSUME TaxonomyPart, NEW b \in calm, start[b] = "done", NEW s \in Taxonomy!Defaults
               PROVE  Taxonomy!Named(s)
    BY DEF TaxonomyThere, Taxonomy!TaxonomyThere
  <2>1. TaxonomyInv /\ b \in Starts
    BY DEF TaxonomyPart, TaxonomyInv
  <2> QED
    BY <2>1 DEF TaxonomyInv, Seeded, Taxonomy!Defaults
<1> QED
  BY <1>1, TaxonomyHolds, PTL

-----------------------------------------------------------------------------
(* The import of products.  Two runs of it give an article the same slug, for they go
   through the same articles from the first one on and the slug of each depends on those
   before alone (UsedOK); and no two articles of a file have one (UniqueSlug).  So a slug
   that is there already is the article's own, or is strange. *)

LEMMA Least ==
  ASSUME NEW T, T \subseteq Nat, T # {}
  PROVE  \E x \in T : \A y \in T : x <= y
<1>1. \E x \in T : \A y \in T : ~(<<y, x>> \in Less)
  <2>1. IsWellFoundedOn(Less, Nat)
    BY NatLessThanWellFounded, Zenon DEF OpToRel, Less
  <2> QED
    BY <2>1, WFMin, Zenon
<1>2. PICK x \in T : \A y \in T : ~(<<y, x>> \in Less)
  BY <1>1
<1>3. ASSUME NEW y \in T PROVE x <= y
  <2>1. \A z, w \in Nat : z < w => <<z, w>> \in Less
    BY DEF Less
  <2>2. ~(y < x)
    BY <1>2, <2>1, Zenon
  <2> QED
    BY <2>2
<1> QED
  BY <1>3

(* Numbers are tried until one is free, and one of the first is (product_import.go:345-347). *)
LEMMA NumberFree ==
  ASSUME NEW base \in Import!Words, NEW used, NEW n \in Nat, Len(used) = n,
         \A i, j \in 2..(n + 2) : Import!ToString(i) \in STRING /\ (Import!ToString(i) = Import!ToString(j) => i = j)
  PROVE  \E i \in 2..(n + 2) : ~Import!Contains(used, Append(base, Import!ToString(i)))
<1> SUFFICES ASSUME \A i \in 2..(n + 2) : Import!Contains(used, Append(base, Import!ToString(i)))
             PROVE  FALSE
  OBVIOUS
<1> DEFINE S == 2..(n + 2)
           at == [i \in S |-> CHOOSE m \in 1..n : used[m] = Append(base, Import!ToString(i))]
<1>1. \A i \in S : at[i] \in 1..n /\ used[at[i]] = Append(base, Import!ToString(i))
  BY DEF Import!Contains
<1>2. at \in [S -> 1..n]
  BY <1>1
<1>3. IsFiniteSet(S) /\ Cardinality(S) = n + 1
  <2>1. PICK a \in Int, b \in Int : a = 2 /\ b = n + 2
    OBVIOUS
  <2>2. IsFiniteSet(a..b) /\ Cardinality(a..b) = IF a > b THEN 0 ELSE b - a + 1
    BY FS_Interval
  <2> QED
    BY <2>1, <2>2
<1>4. IsFiniteSet(1..n) /\ Cardinality(1..n) = n
  <2>1. PICK a \in Int, b \in Int : a = 1 /\ b = n
    OBVIOUS
  <2>2. IsFiniteSet(a..b) /\ Cardinality(a..b) = IF a > b THEN 0 ELSE b - a + 1
    BY FS_Interval
  <2> QED
    BY <2>1, <2>2
<1>5. \E i, j \in S : i # j /\ at[i] = at[j]
  <2>1. Cardinality(1..n) < Cardinality(S)
    BY <1>3, <1>4
  <2> HIDE DEF S, at
  <2> QED
    BY <1>2, <1>3, <1>4, <2>1, FS_PigeonHole
<1>6. PICK i \in S, j \in S : i # j /\ at[i] = at[j]
  BY <1>5
<1>7. Append(base, Import!ToString(i)) = Append(base, Import!ToString(j))
  BY <1>1, <1>6
<1>8. Import!ToString(i) = Import!ToString(j)
  BY <1>7, AppendInjective DEF Import!Words
<1> QED
  BY <1>6, <1>8

(* uniqueSlug gives a slug that is not used. *)
LEMMA SlugUnused ==
  ASSUME NEW article, NEW used \in Seq(Import!Words), Import!Base(article) \in Import!Words,
         Import!Slugify(article.sku) \in Import!Words,
         \A i, j \in 2..(Len(used) + 2) :
           Import!ToString(i) \in STRING /\ (Import!ToString(i) = Import!ToString(j) => i = j)
  PROVE  /\ Import!UniqueSlug(article, used) \in Import!Words
         /\ \A m \in 1..Len(used) : used[m] # Import!UniqueSlug(article, used)
<1> DEFINE base == Import!Base(article)
           withSku == base \o Import!Slugify(article.sku)
           numbered == {i \in 2..(Len(used) + 2) : ~Import!Contains(used, Append(base, Import!ToString(i)))}
           least == CHOOSE i \in numbered : \A j \in numbered : i <= j
           slug == Import!UniqueSlug(article, used)
<1>1. Len(used) \in Nat
  OBVIOUS
<1>2. numbered # {}
  <2> HIDE DEF base
  <2>1. \E i \in 2..(Len(used) + 2) : ~Import!Contains(used, Append(base, Import!ToString(i)))
    BY <1>1, NumberFree DEF base
  <2> QED
    BY <2>1
<1>3. least \in numbered
  <2>1. numbered \subseteq Nat
    BY <1>1
  <2> HIDE DEF numbered
  <2>2. \E i \in numbered : \A j \in numbered : i <= j
    BY <1>2, <2>1, Least
  <2> QED
    BY <2>2
<1>4. slug = CASE ~Import!Contains(used, base) -> base
               [] Import!Contains(used, base) /\ ~Import!Contains(used, withSku) -> withSku
               [] OTHER -> Append(base, Import!ToString(least))
  BY DEF Import!UniqueSlug
<1> HIDE DEF least, numbered, withSku, base, slug
<1>5. least \in 2..(Len(used) + 2) /\ ~Import!Contains(used, Append(base, Import!ToString(least)))
  BY <1>3 DEF numbered
<1>6. base \in Seq(STRING) /\ withSku \in Seq(STRING) /\ Append(base, Import!ToString(least)) \in Seq(STRING)
  <2>1. base \in Seq(STRING) /\ Import!Slugify(article.sku) \in Seq(STRING)
    BY DEF base, Import!Words
  <2>2. withSku \in Seq(STRING)
    BY <2>1 DEF withSku
  <2>3. Import!ToString(least) \in STRING
    BY <1>5
  <2> QED
    BY <2>1, <2>2, <2>3
<1>7. slug \in Seq(STRING) /\ ~Import!Contains(used, slug)
  BY <1>4, <1>5, <1>6
<1>8. \A m \in 1..Len(used) : used[m] # slug
  BY <1>7 DEF Import!Contains
<1> QED
  BY <1>7, <1>8 DEF Import!Words, slug

ImportState ==
  [at : {"new", "refused", "look", "create", "killed", "done"}, k : Nat, used : Seq(Import!Words),
   created : Nat, skipped : Nat, failed : Nat]
ProductRow == [slug : Import!Words, sku : Import!Words, of : 0..Len(file)]

(* How far a run has come, and the slugs it has given. *)
UsedOK(r) ==
  /\ Len(r.used) <= Len(file)
  /\ r.at = "new" => r.used = << >> /\ r.k = 1 /\ r.failed = 0
  /\ r.at \in {"look", "create"} => r.k \in 1..Len(file)
  /\ r.at = "look" => Len(r.used) = r.k - 1
  /\ r.at = "create" => Len(r.used) = r.k
  /\ r.at = "done" => Len(r.used) = Len(file) /\ r.k = Len(file) + 1
  /\ \A m, n \in 1..Len(r.used) : r.used[m] = r.used[n] => m = n
  /\ \A m \in 1..Len(r.used) : r.used[m] = Import!UniqueSlug(file[m], SubSeq(r.used, 1, m - 1))
  /\ r.created + r.skipped + r.failed = r.k - 1

Agree == \A i, j \in Imports : \A m \in 1..Len(run[i].used) : m <= Len(run[j].used) => run[i].used[m] = run[j].used[m]

(* An article whose turn is over, in a run without failure, is accounted for. *)
Covered(i) ==
  run[i].at \in {"look", "create", "done"} /\ run[i].failed = 0 =>
    \A k \in 1..Len(file) :
      k < run[i].k => (\E p \in shop : p.of = k) \/ k \in removed \/ run[i].used[k] \in strange

ShopOK ==
  /\ shop \subseteq ProductRow
  /\ \A p, q \in shop : p.slug = q.slug => p = q
  /\ \A p, q \in shop : p.sku = q.sku /\ p.sku # << >> => p = q
  /\ \A p \in shop : p.of # 0 /\ p.of \notin recoded => p.sku = file[p.of].sku
  /\ \A p \in shop : p.of # 0 /\ p.of \notin renamed => p.slug \in Import!SlugsOf(p.of)
  /\ \A p \in shop : p.slug \in strange \/ p.slug \in Import!SlugsOf(p.of)

ImportInv ==
  /\ \E lines \in Files : file = Import!Parse(lines)
  /\ run \in [Imports -> ImportState]
  /\ \A i \in Imports : UsedOK(run[i]) /\ Covered(i)
  /\ Agree
  /\ ShopOK
  /\ renamed \subseteq 0..Len(file) /\ recoded \subseteq 0..Len(file) /\ removed \subseteq 0..Len(file)

(* What is assumed of the files, said of the one that is imported. *)
LEMMA FileFacts ==
  ASSUME ImportInv
  PROVE  /\ Len(file) \in Nat
         /\ \A k \in 1..Len(file) : /\ file[k] \in Import!Article
                                    /\ Import!Base(file[k]) \in Import!Words
                                    /\ Import!Slugify(file[k].sku) \in Import!Words
         /\ \A i, j \in 2..(Len(file) + 2) :
              Import!ToString(i) \in STRING /\ (Import!ToString(i) = Import!ToString(j) => i = j)
<1>1. PICK lines \in Files : file = Import!Parse(lines)
  BY DEF ImportInv
<1>2. /\ file \in Seq(Import!Article)
      /\ \A k \in 1..Len(file) : /\ Import!Base(file[k]) \in Import!Words
                                 /\ Import!Slugify(file[k].sku) \in Import!Words
      /\ \A i, j \in 2..(Len(file) + 2) :
           Import!ToString(i) \in STRING /\ (Import!ToString(i) = Import!ToString(j) => i = j)
  BY <1>1, BackOfficeAssumption DEF Import!ImportAssumption
<1> QED
  BY <1>2

(* Slugs that go on those of a run as it stands, to its present article. *)
Extends(i, used) ==
  /\ used \in Seq(Import!Words) /\ Len(used) = run[i].k
  /\ \A m \in 1..Len(run[i].used) : m <= Len(used) /\ used[m] = run[i].used[m]
  /\ \A m, n \in 1..Len(used) : used[m] = used[n] => m = n
  /\ \A m \in 1..Len(used) : used[m] = Import!UniqueSlug(file[m], SubSeq(used, 1, m - 1))
  /\ \A j \in Imports : \A m \in 1..Len(used) : m <= Len(run[j].used) => used[m] = run[j].used[m]

LEMMA CreateExtends ==
  ASSUME ImportInv, NEW i \in Imports, run[i].at = "create"
  PROVE  Extends(i, run[i].used)
<1>1. run[i] \in ImportState /\ UsedOK(run[i]) /\ Agree
  BY DEF ImportInv
<1>2. run[i].used \in Seq(Import!Words)
  BY <1>1 DEF ImportState
<1> QED
  BY <1>1, <1>2 DEF UsedOK, Agree, Extends

LEMMA LookExtends ==
  ASSUME ImportInv, NEW i \in Imports, run[i].at = "look"
  PROVE  Extends(i, Append(run[i].used, Import!UniqueSlug(file[run[i].k], run[i].used)))
<1> DEFINE old == run[i].used
           k == run[i].k
           slug == Import!UniqueSlug(file[k], old)
           used == Append(old, slug)
<1>1. run[i] \in ImportState /\ UsedOK(run[i]) /\ Agree /\ Len(file) \in Nat
  BY FileFacts DEF ImportInv
<1>2. old \in Seq(Import!Words) /\ k \in 1..Len(file) /\ Len(old) = k - 1 /\ k \in Nat
  BY <1>1 DEF ImportState, UsedOK
<1>3. slug \in Import!Words /\ \A m \in 1..Len(old) : old[m] # slug
  <2>1. \A a, b \in 2..(Len(old) + 2) :
          Import!ToString(a) \in STRING /\ (Import!ToString(a) = Import!ToString(b) => a = b)
    <3>1. \A a \in 2..(Len(old) + 2) : a \in 2..(Len(file) + 2)
      BY <1>1, <1>2
    <3> QED
      BY <3>1, FileFacts
  <2>2. Import!Base(file[k]) \in Import!Words /\ Import!Slugify(file[k].sku) \in Import!Words
    BY <1>2, FileFacts
  <2> HIDE DEF old, k
  <2> QED
    BY <1>2, <2>1, <2>2, SlugUnused
<1> HIDE DEF slug
<1>4. /\ used \in Seq(Import!Words) /\ Len(used) = k
      /\ \A m \in 1..Len(old) : used[m] = old[m]
      /\ used[k] = slug
  BY <1>2, <1>3
<1>5. \A m \in 1..k : m = k \/ m \in 1..Len(old)
  BY <1>2
<1> HIDE DEF used
<1>6. \A m \in 1..Len(old) : m <= Len(used) /\ used[m] = old[m]
  BY <1>2, <1>4
<1>7. ASSUME NEW m \in 1..Len(used), NEW n \in 1..Len(used), used[m] = used[n] PROVE m = n
  <2>1. (m = k \/ m \in 1..Len(old)) /\ (n = k \/ n \in 1..Len(old))
    BY <1>4, <1>5
  <2>2. m \in 1..Len(old) /\ n \in 1..Len(old) => m = n
    BY <1>1, <1>4, <1>7 DEF UsedOK
  <2> QED
    BY <1>3, <1>4, <1>7, <2>1, <2>2
<1>8. \A m \in 1..k : SubSeq(used, 1, m - 1) = SubSeq(old, 1, m - 1)
  BY <1>2, <1>4
<1>9. SubSeq(used, 1, k - 1) = old
  BY <1>2, <1>4
<1>10. \A m \in 1..Len(used) : used[m] = Import!UniqueSlug(file[m], SubSeq(used, 1, m - 1))
  BY <1>1, <1>4, <1>5, <1>8, <1>9 DEF UsedOK, slug
<1>11. ASSUME NEW j \in Imports, NEW m \in 1..Len(used), m <= Len(run[j].used) PROVE used[m] = run[j].used[m]
  <2>1. run[j] \in ImportState /\ UsedOK(run[j])
    BY DEF ImportInv
  <2>2. run[j].used \in Seq(Import!Words) /\ m \in 1..Len(run[j].used)
    BY <1>4, <1>11, <2>1 DEF ImportState
  <2>3. CASE m \in 1..Len(old)
    BY <1>1, <1>4, <1>11, <2>3 DEF Agree
  <2>4. CASE m = k
    <3>1. run[j].used[k] = Import!UniqueSlug(file[k], SubSeq(run[j].used, 1, k - 1))
      BY <2>1, <2>2, <2>4 DEF UsedOK
    <3>2. ASSUME NEW n \in 1..(k - 1) PROVE run[j].used[n] = old[n]
      <4>1. n \in 1..Len(run[j].used) /\ n <= Len(run[i].used)
        BY <1>2, <2>2, <2>4
      <4> QED
        BY <1>1, <4>1 DEF Agree
    <3>3. SubSeq(run[j].used, 1, k - 1) = old
      BY <1>2, <2>2, <2>4, <3>2
    <3> QED
      BY <1>4, <2>4, <3>1, <3>3 DEF slug
  <2> QED
    BY <1>4, <1>5, <2>3, <2>4
<1> QED
  BY <1>4, <1>6, <1>7, <1>10, <1>11 DEF Extends, used, slug

(* A run goes on: it keeps the slugs it has given. *)
LEMMA Moved ==
  ASSUME ImportInv, NEW i \in Imports, NEW r \in ImportState, UsedOK(r),
         \A m \in 1..Len(run[i].used) : m <= Len(r.used) /\ r.used[m] = run[i].used[m],
         \A j \in Imports : \A m \in 1..Len(r.used) : m <= Len(run[j].used) => r.used[m] = run[j].used[m],
         run' = [run EXCEPT ![i] = r], file' = file
  PROVE  /\ run' \in [Imports -> ImportState] /\ run'[i] = r /\ \A j \in Imports : j # i => run'[j] = run[j]
         /\ \A j \in Imports : UsedOK(run[j])'
         /\ Agree'
         /\ \A k : Import!SlugsOf(k) \subseteq Import!SlugsOf(k)'
<1>1. run \in [Imports -> ImportState] /\ (\A j \in Imports : UsedOK(run[j])) /\ Agree
  BY DEF ImportInv
<1>2. run' \in [Imports -> ImportState] /\ run'[i] = r /\ \A j \in Imports : j # i => run'[j] = run[j]
  BY <1>1
<1>3. ASSUME NEW j \in Imports PROVE UsedOK(run[j])'
  <2>1. CASE j = i
    BY <1>2, <2>1 DEF UsedOK
  <2>2. CASE j # i
    BY <1>1, <1>2, <2>2 DEF UsedOK
  <2> QED
    BY <2>1, <2>2
<1>4. \A j \in Imports : run[j].used \in Seq(Import!Words) /\ Len(run[j].used) \in Nat
  BY <1>1 DEF ImportState
<1>5. r.used \in Seq(Import!Words) /\ Len(r.used) \in Nat
  BY DEF ImportState
<1>6. ASSUME NEW a \in Imports, NEW b \in Imports, NEW m \in 1..Len(run'[a].used), m <= Len(run'[b].used)
      PROVE  run'[a].used[m] = run'[b].used[m]
  <2>1. CASE a # i /\ b # i
    BY <1>1, <1>2, <1>6, <2>1 DEF Agree
  <2>2. CASE a = i /\ b # i
    BY <1>2, <1>6, <2>2
  <2>3. CASE a # i /\ b = i
    <3>1. m \in 1..Len(r.used) /\ m <= Len(run[a].used)
      BY <1>2, <1>4, <1>5, <1>6, <2>3
    <3> QED
      BY <1>2, <2>3, <3>1
  <2>4. CASE a = i /\ b = i
    BY <2>4
  <2> QED
    BY <2>1, <2>2, <2>3, <2>4
<1>7. ASSUME NEW k PROVE Import!SlugsOf(k) \subseteq Import!SlugsOf(k)'
  <2> SUFFICES ASSUME NEW slug \in Import!SlugsOf(k) PROVE slug \in Import!SlugsOf(k)'
    OBVIOUS
  <2>1. PICK j \in Imports : k \in 1..Len(run[j].used) /\ slug = run[j].used[k]
    BY DEF Import!SlugsOf
  <2>2. k \in 1..Len(run'[j].used) /\ slug = run'[j].used[k]
    <3>1. CASE j = i
      BY <1>2, <1>4, <1>5, <2>1, <3>1
    <3>2. CASE j # i
      BY <1>2, <2>1, <3>2
    <3> QED
      BY <3>1, <3>2
  <2> QED
    BY <2>2 DEF Import!SlugsOf
<1> QED
  BY <1>2, <1>3, <1>6, <1>7 DEF Agree

(* An article is counted. *)
LEMMA Counted ==
  ASSUME ImportInv, NEW i \in Imports, run[i].at \in {"look", "create"}, NEW used, Extends(i, used),
         NEW field \in {"created", "skipped", "failed"}, Import!Count(i, field, used), file' = file
  PROVE  /\ run' \in [Imports -> ImportState] /\ \A j \in Imports : j # i => run'[j] = run[j]
         /\ run'[i].used = used /\ run'[i].k = run[i].k + 1
         /\ run'[i].failed = 0 => run[i].failed = 0 /\ field # "failed"
         /\ \A j \in Imports : UsedOK(run[j])'
         /\ Agree'
         /\ \A k : Import!SlugsOf(k) \subseteq Import!SlugsOf(k)'
<1> DEFINE k == run[i].k
           to == IF k = Len(file) THEN "done" ELSE "look"
           r == [run[i] EXCEPT ![field] = @ + 1, !.k = @ + 1, !.used = used, !.at = to]
<1>1. run \in [Imports -> ImportState] /\ run[i] \in ImportState /\ UsedOK(run[i]) /\ Len(file) \in Nat
  BY FileFacts DEF ImportInv
<1>2. k \in 1..Len(file) /\ k \in Nat /\ used \in Seq(Import!Words) /\ Len(used) = k
  BY <1>1 DEF UsedOK, Extends
<1>3. to \in {"done", "look"}
  OBVIOUS
<1>4. run' = [run EXCEPT ![i] = r]
  BY DEF Import!Count
<1> HIDE DEF to
<1>5. /\ r \in ImportState /\ r.used = used /\ r.k = k + 1 /\ r.at = to
      /\ r.created = run[i].created + (IF field = "created" THEN 1 ELSE 0)
      /\ r.skipped = run[i].skipped + (IF field = "skipped" THEN 1 ELSE 0)
      /\ r.failed = run[i].failed + (IF field = "failed" THEN 1 ELSE 0)
  <2>1. run[i].created \in Nat /\ run[i].skipped \in Nat /\ run[i].failed \in Nat
    BY <1>1 DEF ImportState
  <2>2. to \in {"new", "refused", "look", "create", "killed", "done"} /\ k + 1 \in Nat /\ used \in Seq(Import!Words)
    BY <1>2, <1>3
  <2>3. CASE field = "created"
    <3>1. r = [run[i] EXCEPT !.created = run[i].created + 1, !.k = k + 1, !.used = used, !.at = to]
      BY <2>3
    <3>2. run[i].created + 1 \in Nat
      BY <2>1
    <3>3. r \in ImportState
      BY <1>1, <2>2, <3>1, <3>2 DEF ImportState
    <3>4. /\ r.used = used /\ r.k = k + 1 /\ r.at = to
          /\ r.created = run[i].created + 1
          /\ r.skipped = run[i].skipped
          /\ r.failed = run[i].failed
      BY <1>1, <3>1 DEF ImportState
    <3> HIDE DEF r
    <3> QED
      BY <2>1, <2>3, <3>3, <3>4
  <2>4. CASE field = "skipped"
    <3>1. r = [run[i] EXCEPT !.skipped = run[i].skipped + 1, !.k = k + 1, !.used = used, !.at = to]
      BY <2>4
    <3>2. run[i].skipped + 1 \in Nat
      BY <2>1
    <3>3. r \in ImportState
      BY <1>1, <2>2, <3>1, <3>2 DEF ImportState
    <3>4. /\ r.used = used /\ r.k = k + 1 /\ r.at = to
          /\ r.created = run[i].created
          /\ r.skipped = run[i].skipped + 1
          /\ r.failed = run[i].failed
      BY <1>1, <3>1 DEF ImportState
    <3> HIDE DEF r
    <3> QED
      BY <2>1, <2>4, <3>3, <3>4
  <2>5. CASE field = "failed"
    <3>1. r = [run[i] EXCEPT !.failed = run[i].failed + 1, !.k = k + 1, !.used = used, !.at = to]
      BY <2>5
    <3>2. run[i].failed + 1 \in Nat
      BY <2>1
    <3>3. r \in ImportState
      BY <1>1, <2>2, <3>1, <3>2 DEF ImportState
    <3>4. /\ r.used = used /\ r.k = k + 1 /\ r.at = to
          /\ r.created = run[i].created
          /\ r.skipped = run[i].skipped
          /\ r.failed = run[i].failed + 1
      BY <1>1, <3>1 DEF ImportState
    <3> HIDE DEF r
    <3> QED
      BY <2>1, <2>5, <3>3, <3>4
  <2> QED
    BY <2>3, <2>4, <2>5
<1> HIDE DEF r
<1>6. run[i].created \in Nat /\ run[i].skipped \in Nat /\ run[i].failed \in Nat
      /\ run[i].created + run[i].skipped + run[i].failed = k - 1
  BY <1>1 DEF ImportState, UsedOK
<1>7. r.created + r.skipped + r.failed = r.k - 1
  <2>1. PICK c \in Nat, s \in Nat, f \in Nat, n \in Nat :
          c = run[i].created /\ s = run[i].skipped /\ f = run[i].failed /\ n = k /\ c + s + f = n - 1
    BY <1>2, <1>6
  <2>5. r.k = n + 1
    BY <1>5, <2>1
  <2>2. CASE field = "created"
    <3>1. r.created = c + 1 /\ r.skipped = s /\ r.failed = f
      BY <1>5, <2>1, <2>2
    <3> QED
      BY <2>1, <2>5, <3>1
  <2>3. CASE field = "skipped"
    <3>1. r.created = c /\ r.skipped = s + 1 /\ r.failed = f
      BY <1>5, <2>1, <2>3
    <3> QED
      BY <2>1, <2>5, <3>1
  <2>4. CASE field = "failed"
    <3>1. r.created = c /\ r.skipped = s /\ r.failed = f + 1
      BY <1>5, <2>1, <2>4
    <3> QED
      BY <2>1, <2>5, <3>1
  <2> QED
    BY <2>2, <2>3, <2>4
<1>8. UsedOK(r)
  <2>1. Len(r.used) = k /\ Len(r.used) <= Len(file)
    BY <1>1, <1>2, <1>5
  <2>2. r.at # "new" /\ r.at # "create"
    BY <1>3, <1>5
  <2>3. r.at = "look" => r.k \in 1..Len(file) /\ Len(r.used) = r.k - 1
    BY <1>1, <1>2, <1>5, <2>1 DEF to
  <2>4. r.at = "done" => Len(r.used) = Len(file) /\ r.k = Len(file) + 1
    BY <1>1, <1>2, <1>5, <2>1 DEF to
  <2>5. /\ \A m, n \in 1..Len(r.used) : r.used[m] = r.used[n] => m = n
        /\ \A m \in 1..Len(r.used) : r.used[m] = Import!UniqueSlug(file[m], SubSeq(r.used, 1, m - 1))
    BY <1>5 DEF Extends
  <2> QED
    BY <1>7, <2>1, <2>2, <2>3, <2>4, <2>5 DEF UsedOK
<1>9. \A m \in 1..Len(run[i].used) : m <= Len(r.used) /\ r.used[m] = run[i].used[m]
  BY <1>5 DEF Extends
<1>10. \A j \in Imports : \A m \in 1..Len(r.used) : m <= Len(run[j].used) => r.used[m] = run[j].used[m]
  BY <1>5 DEF Extends
<1>11. /\ run' \in [Imports -> ImportState] /\ run'[i] = r /\ \A j \in Imports : j # i => run'[j] = run[j]
       /\ \A j \in Imports : UsedOK(run[j])'
       /\ Agree'
       /\ \A m : Import!SlugsOf(m) \subseteq Import!SlugsOf(m)'
  BY <1>4, <1>5, <1>8, <1>9, <1>10, Moved
<1>12. r.failed = 0 => run[i].failed = 0 /\ field # "failed"
  BY <1>5, <1>6
<1> QED
  BY <1>5, <1>11, <1>12

(* What was accounted for stays so. *)
LEMMA CoveredStays ==
  ASSUME NEW j \in Imports, Covered(j), run'[j] = run[j], file' = file, strange \subseteq strange', removed \subseteq removed',
         \A p \in shop : (\E q \in shop' : q.of = p.of) \/ p.of \in removed'
  PROVE  Covered(j)'
<1> SUFFICES ASSUME run[j].at \in {"look", "create", "done"}, run[j].failed = 0, NEW k \in 1..Len(file), k < run[j].k
             PROVE  (\E p \in shop' : p.of = k) \/ k \in removed' \/ run[j].used[k] \in strange'
  BY DEF Covered
<1>1. (\E p \in shop : p.of = k) \/ k \in removed \/ run[j].used[k] \in strange
  BY DEF Covered
<1> QED
  BY <1>1

LEMMA ShopStays ==
  ASSUME ShopOK, UNCHANGED <<file, shop, strange, renamed, recoded>>,
         \A k : Import!SlugsOf(k) \subseteq Import!SlugsOf(k)'
  PROVE  ShopOK'
<1>1. ProductRow' = ProductRow
  BY DEF ProductRow
<1>2. \A p \in shop : /\ p.of # 0 /\ p.of \notin renamed => p.slug \in Import!SlugsOf(p.of)'
                      /\ p.slug \in strange \/ p.slug \in Import!SlugsOf(p.of)'
  BY DEF ShopOK
<1>3. \A p \in shop' : /\ p.of # 0 /\ p.of \notin renamed' => p.slug \in Import!SlugsOf(p.of)'
                       /\ p.slug \in strange' \/ p.slug \in Import!SlugsOf(p.of)'
  BY <1>2
<1> QED
  BY <1>1, <1>3 DEF ShopOK

(* Nothing is known of a run that has not begun, was refused or was killed. *)
LEMMA BeginImport ==
  ASSUME ImportInv, NEW i \in Imports, run[i].at = "new", NEW a \in {"refused", "look", "done"},
         a = "look" <=> file # << >> /\ a # "refused", run' = [run EXCEPT ![i].at = a],
         UNCHANGED <<file, shop, strange, renamed, recoded, removed>>
  PROVE  ImportInv'
<1> DEFINE r == [run[i] EXCEPT !.at = a]
<1>1. run \in [Imports -> ImportState] /\ run[i] \in ImportState /\ UsedOK(run[i]) /\ Len(file) \in Nat /\ file \in Seq(Import!Article)
  BY FileFacts, BackOfficeAssumption DEF ImportInv, Import!ImportAssumption
<1>2. /\ r \in ImportState /\ r.at = a /\ r.k = run[i].k /\ r.used = run[i].used
      /\ r.created = run[i].created /\ r.skipped = run[i].skipped /\ r.failed = run[i].failed
  BY <1>1 DEF ImportState
<1>3. run' = [run EXCEPT ![i] = r]
  OBVIOUS
<1> HIDE DEF r
<1>4. r.used = << >> /\ r.k = 1 /\ Len(r.used) = 0
  BY <1>1, <1>2 DEF UsedOK
<1>5. UsedOK(r)
  <2>1. a = "look" => 1 \in 1..Len(file)
    BY <1>1
  <2>2. a = "done" => Len(file) = 0
    BY <1>1
  <2>3. r.created + r.skipped + r.failed = r.k - 1
    BY <1>1, <1>2 DEF UsedOK
  <2> QED
    BY <1>1, <1>2, <1>4, <2>1, <2>2, <2>3 DEF UsedOK
<1>6. /\ run' \in [Imports -> ImportState] /\ run'[i] = r /\ \A j \in Imports : j # i => run'[j] = run[j]
      /\ \A j \in Imports : UsedOK(run[j])'
      /\ Agree'
      /\ \A k : Import!SlugsOf(k) \subseteq Import!SlugsOf(k)'
  <2>1. \A m \in 1..Len(run[i].used) : m <= Len(r.used) /\ r.used[m] = run[i].used[m]
    BY <1>2, <1>4
  <2>2. \A j \in Imports : \A m \in 1..Len(r.used) : m <= Len(run[j].used) => r.used[m] = run[j].used[m]
    BY <1>4
  <2> QED
    BY <1>2, <1>3, <1>5, <2>1, <2>2, Moved
<1>7. ASSUME NEW j \in Imports PROVE Covered(j)'
  <2>1. CASE j = i
    <3>1. run'[i].k = 1 /\ file' = file
      BY <1>4, <1>6
    <3>2. \A k \in 1..Len(file) : ~(k < 1)
      BY <1>1
    <3> QED
      BY <2>1, <3>1, <3>2 DEF Covered
  <2>2. CASE j # i
    BY <1>6, <2>2, CoveredStays DEF ImportInv
  <2> QED
    BY <2>1, <2>2
<1>8. ShopOK'
  BY <1>6, ShopStays DEF ImportInv
<1> QED
  BY <1>6, <1>7, <1>8 DEF ImportInv

LEMMA InterruptImport == ASSUME ImportInv, NEW i \in Imports, Import!Interrupt(i) PROVE ImportInv'
<1> DEFINE r == [run[i] EXCEPT !.at = "killed"]
<1>1. run \in [Imports -> ImportState] /\ run[i] \in ImportState /\ UsedOK(run[i])
  BY DEF ImportInv
<1>2. /\ r \in ImportState /\ r.at = "killed" /\ r.k = run[i].k /\ r.used = run[i].used
      /\ r.created = run[i].created /\ r.skipped = run[i].skipped /\ r.failed = run[i].failed
  BY <1>1 DEF ImportState
<1>3. run' = [run EXCEPT ![i] = r] /\ UNCHANGED <<file, shop, strange, renamed, recoded, removed>>
  BY DEF Import!Interrupt
<1> HIDE DEF r
<1>4. UsedOK(r)
  BY <1>1, <1>2 DEF UsedOK
<1>5. /\ run' \in [Imports -> ImportState] /\ run'[i] = r /\ \A j \in Imports : j # i => run'[j] = run[j]
      /\ \A j \in Imports : UsedOK(run[j])'
      /\ Agree'
      /\ \A k : Import!SlugsOf(k) \subseteq Import!SlugsOf(k)'
  <2>1. run[i].used \in Seq(Import!Words)
    BY <1>1 DEF ImportState
  <2>2. \A m \in 1..Len(run[i].used) : m <= Len(r.used) /\ r.used[m] = run[i].used[m]
    BY <1>2, <2>1
  <2>3. \A j \in Imports : \A m \in 1..Len(r.used) : m <= Len(run[j].used) => r.used[m] = run[j].used[m]
    BY <1>2 DEF ImportInv, Agree
  <2> QED
    BY <1>2, <1>3, <1>4, <2>2, <2>3, Moved
<1>6. ASSUME NEW j \in Imports PROVE Covered(j)'
  <2>1. CASE j = i
    BY <1>2, <1>5, <2>1 DEF Covered
  <2>2. CASE j # i
    BY <1>3, <1>5, <2>2, CoveredStays DEF ImportInv
  <2> QED
    BY <2>1, <2>2
<1>7. ShopOK'
  BY <1>3, <1>5, ShopStays DEF ImportInv
<1> QED
  BY <1>3, <1>5, <1>6, <1>7 DEF ImportInv

(* The slug of an article that is there already is the slug of another product's only if
   that one is strange. *)
LEMMA OwnSlug ==
  ASSUME ImportInv, NEW i \in Imports, NEW used, Extends(i, used), run[i].k \in 1..Len(file),
         NEW p \in shop, p.slug = used[run[i].k]
  PROVE  p.of = run[i].k \/ p.slug \in strange
<1> DEFINE k == run[i].k
<1> SUFFICES ASSUME p.slug \notin strange PROVE p.of = k
  OBVIOUS
<1>1. p.slug \in Import!SlugsOf(p.of)
  BY DEF ImportInv, ShopOK
<1>2. PICK j \in Imports : p.of \in 1..Len(run[j].used) /\ p.slug = run[j].used[p.of]
  BY <1>1 DEF Import!SlugsOf
<1>3. PICK m \in Nat : m = p.of /\ m \in 1..Len(run[j].used)
  BY <1>2
<1>4. run[j] \in ImportState /\ UsedOK(run[j]) /\ Len(file) \in Nat
  BY FileFacts DEF ImportInv
<1>5. Len(run[j].used) \in Nat /\ k \in Nat /\ k \in 1..Len(used)
  BY <1>4 DEF ImportState, Extends
<1>6. CASE m <= k
  <2>1. m \in 1..Len(used) /\ used[m] = run[j].used[m]
    BY <1>3, <1>5, <1>6, SMTT(60) DEF Extends
  <2>2. used[m] = used[k]
    BY <1>2, <1>3, <2>1
  <2> QED
    BY <1>3, <1>5, <2>1, <2>2 DEF Extends
<1>7. CASE k < m
  <2>1. k \in 1..Len(run[j].used) /\ used[k] = run[j].used[k]
    BY <1>3, <1>5, <1>7 DEF Extends
  <2>2. run[j].used[k] = run[j].used[m]
    BY <1>2, <1>3, <2>1
  <2> QED
    BY <1>3, <1>4, <2>1, <2>2 DEF UsedOK
<1> QED
  BY <1>3, <1>5, <1>6, <1>7

LEMMA LookStep == ASSUME ImportInv, NEW i \in Imports, Import!Look(i) PROVE ImportInv'
<1> DEFINE k == run[i].k
           slug == Import!UniqueSlug(file[k], run[i].used)
           used == Append(run[i].used, slug)
<1>1. run[i].at = "look" /\ UNCHANGED <<file, shop, strange, renamed, recoded, removed>>
  BY DEF Import!Look
<1>2. Extends(i, used)
  BY <1>1, LookExtends
<1>3. \/ Import!GetBySlug(slug) # {} /\ Import!Count(i, "skipped", used)
      \/ run' = [run EXCEPT ![i].at = "create", ![i].used = used]
      \/ Import!Count(i, "failed", used)
  BY DEF Import!Look
<1>4. run \in [Imports -> ImportState] /\ run[i] \in ImportState /\ UsedOK(run[i]) /\ Len(file) \in Nat
      /\ k \in 1..Len(file) /\ k \in Nat
  BY <1>1, FileFacts DEF ImportInv, UsedOK
<1>5. used[k] = slug
  <2>1. run[i].used \in Seq(Import!Words) /\ Len(run[i].used) = k - 1
    BY <1>1, <1>4 DEF ImportState, UsedOK
  <2> HIDE DEF slug
  <2> QED
    BY <1>4, <2>1
<1> HIDE DEF used
<1>6. ASSUME NEW field \in {"skipped", "failed"}, Import!Count(i, field, used),
             field = "skipped" => \E p \in shop : p.slug = slug
      PROVE  ImportInv'
  <2>1. /\ run' \in [Imports -> ImportState] /\ \A j \in Imports : j # i => run'[j] = run[j]
        /\ run'[i].used = used /\ run'[i].k = k + 1
        /\ run'[i].failed = 0 => run[i].failed = 0 /\ field # "failed"
        /\ \A j \in Imports : UsedOK(run[j])'
        /\ Agree'
        /\ \A m : Import!SlugsOf(m) \subseteq Import!SlugsOf(m)'
    BY <1>1, <1>2, <1>6, Counted
  <2>2. Covered(i)'
    <3> SUFFICES ASSUME run'[i].failed = 0, NEW m \in 1..Len(file), m < k + 1
                 PROVE  (\E p \in shop : p.of = m) \/ m \in removed \/ used[m] \in strange
      BY <1>1, <2>1 DEF Covered
    <3>1. run[i].failed = 0 /\ field = "skipped"
      BY <1>6, <2>1
    <3>2. CASE m = k
      BY <1>2, <1>4, <1>5, <1>6, <3>1, <3>2, OwnSlug
    <3>3. CASE m # k
      <4>1. m < k
        BY <1>4, <3>3
      <4>2. used[m] = run[i].used[m]
        <5>1. m \in 1..Len(run[i].used)
          BY <1>1, <1>4, <4>1 DEF UsedOK
        <5> QED
          BY <1>2, <5>1 DEF Extends
      <4>3. (\E p \in shop : p.of = m) \/ m \in removed \/ run[i].used[m] \in strange
        BY <1>1, <3>1, <4>1 DEF ImportInv, Covered
      <4> QED
        BY <4>2, <4>3
    <3> QED
      BY <3>2, <3>3
  <2>3. ASSUME NEW j \in Imports PROVE Covered(j)'
    <3>1. CASE j = i
      BY <2>2, <3>1
    <3>2. CASE j # i
      BY <1>1, <2>1, <3>2, CoveredStays DEF ImportInv
    <3> QED
      BY <3>1, <3>2
  <2>4. ShopOK'
    BY <1>1, <2>1, ShopStays DEF ImportInv
  <2> QED
    BY <1>1, <2>1, <2>3, <2>4 DEF ImportInv
<1>7. CASE Import!GetBySlug(slug) # {} /\ Import!Count(i, "skipped", used)
  BY <1>6, <1>7 DEF Import!GetBySlug
<1>8. CASE Import!Count(i, "failed", used)
  BY <1>6, <1>8
<1>9. CASE run' = [run EXCEPT ![i].at = "create", ![i].used = used]
  <2> DEFINE r == [run[i] EXCEPT !.at = "create", !.used = used]
  <2>1. used \in Seq(Import!Words) /\ Len(used) = k
    BY <1>2 DEF Extends
  <2>2. /\ r \in ImportState /\ r.at = "create" /\ r.k = k /\ r.used = used
        /\ r.created = run[i].created /\ r.skipped = run[i].skipped /\ r.failed = run[i].failed
    BY <1>4, <2>1 DEF ImportState
  <2>3. run' = [run EXCEPT ![i] = r]
    BY <1>4, <1>9
  <2> HIDE DEF r
  <2>4. UsedOK(r)
    <3>1. r.created + r.skipped + r.failed = r.k - 1
      BY <1>4, <2>2 DEF UsedOK
    <3>2. /\ \A m, n \in 1..Len(r.used) : r.used[m] = r.used[n] => m = n
          /\ \A m \in 1..Len(r.used) : r.used[m] = Import!UniqueSlug(file[m], SubSeq(r.used, 1, m - 1))
      BY <1>2, <2>2 DEF Extends
    <3>3. Len(r.used) <= Len(file)
      BY <1>4, <2>1, <2>2
    <3> QED
      BY <1>4, <2>1, <2>2, <3>1, <3>2, <3>3 DEF UsedOK
  <2>5. /\ run' \in [Imports -> ImportState] /\ run'[i] = r /\ \A j \in Imports : j # i => run'[j] = run[j]
        /\ \A j \in Imports : UsedOK(run[j])'
        /\ Agree'
        /\ \A m : Import!SlugsOf(m) \subseteq Import!SlugsOf(m)'
    <3>1. \A m \in 1..Len(run[i].used) : m <= Len(r.used) /\ r.used[m] = run[i].used[m]
      BY <1>2, <2>2 DEF Extends
    <3>2. \A j \in Imports : \A m \in 1..Len(r.used) : m <= Len(run[j].used) => r.used[m] = run[j].used[m]
      BY <1>2, <2>2 DEF Extends
    <3> QED
      BY <1>1, <2>2, <2>3, <2>4, <3>1, <3>2, Moved
  <2>6. Covered(i)'
    <3> SUFFICES ASSUME r.failed = 0, NEW m \in 1..Len(file), m < k
                 PROVE  (\E p \in shop : p.of = m) \/ m \in removed \/ used[m] \in strange
      BY <1>1, <2>2, <2>5 DEF Covered
    <3>1. m \in 1..Len(run[i].used)
      BY <1>1, <1>4 DEF UsedOK
    <3>2. used[m] = run[i].used[m]
      BY <1>2, <3>1 DEF Extends
    <3>3. (\E p \in shop : p.of = m) \/ m \in removed \/ run[i].used[m] \in strange
      BY <1>1, <2>2 DEF ImportInv, Covered
    <3> QED
      BY <3>2, <3>3
  <2>7. ASSUME NEW j \in Imports PROVE Covered(j)'
    <3>1. CASE j = i
      BY <2>6, <3>1
    <3>2. CASE j # i
      BY <1>1, <2>5, <3>2, CoveredStays DEF ImportInv
    <3> QED
      BY <3>1, <3>2
  <2>8. ShopOK'
    BY <1>1, <2>5, ShopStays DEF ImportInv
  <2> QED
    BY <1>1, <2>5, <2>7, <2>8 DEF ImportInv
<1> QED
  BY <1>3, <1>7, <1>8, <1>9

LEMMA MakeStep == ASSUME ImportInv, NEW i \in Imports, Import!Create(i) PROVE ImportInv'
<1> DEFINE k == run[i].k
           used == run[i].used
           new == Import!BuildProduct(k, used[k])
<1>1. run[i].at = "create" /\ UNCHANGED <<file, strange, renamed, recoded, removed>>
  BY DEF Import!Create
<1>2. Extends(i, used)
  BY <1>1, CreateExtends
<1>3. PICK field \in {"created", "failed"} :
        /\ Import!Count(i, field, used)
        /\ \/ Import!Insertable(k, used[k]) /\ shop' = shop \union {new}
           \/ field = "failed" /\ shop' = shop
  BY DEF Import!Create
<1>4. run \in [Imports -> ImportState] /\ run[i] \in ImportState /\ UsedOK(run[i]) /\ Len(file) \in Nat
      /\ k \in 1..Len(file) /\ k \in Nat
  BY <1>1, FileFacts DEF ImportInv, UsedOK
<1>5. /\ run' \in [Imports -> ImportState] /\ \A j \in Imports : j # i => run'[j] = run[j]
      /\ run'[i].used = used /\ run'[i].k = k + 1
      /\ run'[i].failed = 0 => run[i].failed = 0 /\ field # "failed"
      /\ \A j \in Imports : UsedOK(run[j])'
      /\ Agree'
      /\ \A m : Import!SlugsOf(m) \subseteq Import!SlugsOf(m)'
  BY <1>1, <1>2, <1>3, Counted
<1>6. new = [slug |-> used[k], sku |-> file[k].sku, of |-> k]
  BY DEF Import!BuildProduct
<1>7. new \in ProductRow /\ new.slug = used[k] /\ new.sku = file[k].sku /\ new.of = k /\ k # 0
      /\ used[k] \in Import!SlugsOf(k)
  <2>1. used \in Seq(Import!Words) /\ Len(used) = k
    BY <1>2 DEF Extends
  <2>2. used[k] \in Import!Words /\ k \in 1..Len(used)
    BY <1>4, <2>1
  <2>3. file[k].sku \in Import!Words
    BY <1>4, FileFacts DEF Import!Article
  <2>4. k \in 0..Len(file)
    BY <1>4
  <2>5. used[k] \in Import!SlugsOf(k)
    BY <2>2 DEF Import!SlugsOf
  <2> QED
    BY <1>4, <1>6, <2>2, <2>3, <2>4, <2>5 DEF ProductRow
<1> HIDE DEF new
<1>8. CASE shop' = shop /\ field = "failed"
  <2>1. ShopOK'
    BY <1>1, <1>5, <1>8, ShopStays DEF ImportInv
  <2>2. ASSUME NEW j \in Imports PROVE Covered(j)'
    <3>1. CASE j = i
      BY <1>5, <1>8, <3>1 DEF Covered
    <3>2. CASE j # i
      BY <1>1, <1>5, <1>8, <3>2, CoveredStays DEF ImportInv
    <3> QED
      BY <3>1, <3>2
  <2> QED
    BY <1>1, <1>5, <2>1, <2>2 DEF ImportInv
<1>9. CASE Import!Insertable(k, used[k]) /\ shop' = shop \union {new}
  <2>1. /\ \A p \in shop : p.slug # new.slug
        /\ new.sku # << >> => \A p \in shop : p.sku # new.sku
    BY <1>7, <1>9 DEF Import!Insertable, Import!Takes, Import!GetBySlug, Import!SkuTaken
  <2>2. ShopOK'
    <3>1. ProductRow' = ProductRow
      BY <1>1 DEF ProductRow
    <3>2. \A p \in shop' : p \in shop \/ p = new
      BY <1>9
    <3>3. shop' \subseteq ProductRow
      BY <1>7, <3>2 DEF ImportInv, ShopOK
    <3>4. \A p, q \in shop' : p.slug = q.slug => p = q
      BY <2>1, <3>2 DEF ImportInv, ShopOK
    <3>5. \A p, q \in shop' : p.sku = q.sku /\ p.sku # << >> => p = q
      BY <2>1, <3>2 DEF ImportInv, ShopOK
    <3>6. \A p \in shop' : p.of # 0 /\ p.of \notin recoded' => p.sku = file'[p.of].sku
      BY <1>1, <1>7, <3>2 DEF ImportInv, ShopOK
    <3>7. \A p \in shop : /\ p.of # 0 /\ p.of \notin renamed => p.slug \in Import!SlugsOf(p.of)
                          /\ p.slug \in strange \/ p.slug \in Import!SlugsOf(p.of)
      BY DEF ImportInv, ShopOK
    <3>8. \A p \in shop' : /\ p.of # 0 /\ p.of \notin renamed => p.slug \in Import!SlugsOf(p.of)'
                           /\ p.slug \in strange \/ p.slug \in Import!SlugsOf(p.of)'
      BY <1>5, <1>7, <3>2, <3>7
    <3> QED
      BY <1>1, <3>1, <3>3, <3>4, <3>5, <3>6, <3>8 DEF ShopOK
  <2>3. ASSUME NEW j \in Imports PROVE Covered(j)'
    <3>1. CASE j # i
      BY <1>1, <1>5, <1>9, <3>1, CoveredStays DEF ImportInv
    <3>2. CASE j = i
      <4> SUFFICES ASSUME run'[i].failed = 0, NEW m \in 1..Len(file), m < k + 1
                   PROVE  (\E p \in shop' : p.of = m) \/ m \in removed \/ used[m] \in strange
        BY <1>1, <1>5, <3>2 DEF Covered
      <4>1. CASE m = k
        BY <1>7, <1>9, <4>1
      <4>2. CASE m # k
        <5>1. m < k
          BY <1>4, <4>2
        <5>2. (\E p \in shop : p.of = m) \/ m \in removed \/ used[m] \in strange
          BY <1>1, <1>5, <5>1 DEF ImportInv, Covered
        <5> QED
          BY <1>9, <5>2
      <4> QED
        BY <4>1, <4>2
    <3> QED
      BY <3>1, <3>2
  <2> QED
    BY <1>1, <1>5, <2>2, <2>3 DEF ImportInv
<1> QED
  BY <1>3, <1>8, <1>9

(* The administrator changes no run. *)
LEMMA ShopChanges ==
  ASSUME ImportInv, ShopOK', UNCHANGED <<file, run>>, strange \subseteq strange', removed \subseteq removed',
         renamed' \subseteq 0..Len(file), recoded' \subseteq 0..Len(file), removed' \subseteq 0..Len(file),
         \A p \in shop : (\E q \in shop' : q.of = p.of) \/ p.of \in removed'
  PROVE  ImportInv'
<1>1. \A i \in Imports : UsedOK(run[i])'
  BY DEF ImportInv, UsedOK
<1>2. \A i \in Imports : Covered(i)'
  BY CoveredStays DEF ImportInv
<1> QED
  BY <1>1, <1>2 DEF ImportInv, Agree

LEMMA SettleOne ==
  ASSUME NEW p
  PROVE  strange \subseteq Import!Settle(p) /\ (p.slug \in Import!Settle(p) \/ p.slug \in Import!SlugsOf(p.of))
  BY DEF Import!Settle

LEMMA CreateProductStep ==
  ASSUME ImportInv, NEW name \in Names, NEW sku \in Codes, Import!CreateProduct(name, sku) PROVE ImportInv'
<1> DEFINE p == [slug |-> Import!Slugify(name), sku |-> sku, of |-> 0]
<1>1. /\ Import!Takes(p.slug, p.sku, {}) /\ shop' = shop \union {p} /\ strange' = Import!Settle(p)
      /\ UNCHANGED <<file, run, renamed, recoded, removed>>
  BY DEF Import!CreateProduct
<1>2. p \in ProductRow /\ p.of = 0
  <2>1. Len(file) \in Nat /\ Import!Slugify(name) \in Import!Words /\ sku \in Import!Words
    BY FileFacts, BackOfficeAssumption DEF Import!ImportAssumption
  <2>2. 0 \in 0..Len(file)
    BY <2>1
  <2> QED
    BY <2>1, <2>2 DEF ProductRow
<1>3. \A q \in shop : q.slug # p.slug /\ (p.sku # << >> => q.sku # p.sku)
  BY <1>1 DEF Import!Takes, Import!GetBySlug, Import!SkuTaken
<1> HIDE DEF p
<1>4. strange \subseteq strange' /\ (p.slug \in strange' \/ p.slug \in Import!SlugsOf(p.of))
  BY <1>1, SettleOne
<1>5. \A k : Import!SlugsOf(k)' = Import!SlugsOf(k)
  BY <1>1 DEF Import!SlugsOf
<1>6. ShopOK'
  <2>1. ProductRow' = ProductRow
    BY <1>1 DEF ProductRow
  <2>2. \A q \in shop' : q \in shop \/ q = p
    BY <1>1
  <2>3. shop' \subseteq ProductRow
    BY <1>2, <2>2 DEF ImportInv, ShopOK
  <2>4. \A a, b \in shop' : a.slug = b.slug => a = b
    BY <1>3, <2>2 DEF ImportInv, ShopOK
  <2>5. \A a, b \in shop' : a.sku = b.sku /\ a.sku # << >> => a = b
    BY <1>3, <2>2 DEF ImportInv, ShopOK
  <2>6. \A q \in shop' : q.of # 0 /\ q.of \notin recoded' => q.sku = file'[q.of].sku
    BY <1>1, <1>2, <2>2 DEF ImportInv, ShopOK
  <2>7. \A q \in shop' : /\ q.of # 0 /\ q.of \notin renamed' => q.slug \in Import!SlugsOf(q.of)'
                         /\ q.slug \in strange' \/ q.slug \in Import!SlugsOf(q.of)'
    BY <1>1, <1>2, <1>4, <1>5, <2>2 DEF ImportInv, ShopOK
  <2> QED
    BY <2>1, <2>3, <2>4, <2>5, <2>6, <2>7 DEF ShopOK
<1> QED
  BY <1>1, <1>4, <1>6, ShopChanges DEF ImportInv

LEMMA RenameStep ==
  ASSUME ImportInv, NEW p \in shop, NEW name \in Names, NEW sku \in Codes, Import!Rename(p, name, sku)
  PROVE  ImportInv'
<1> DEFINE q == [p EXCEPT !.slug = Import!Slugify(name), !.sku = sku]
<1>1. /\ Import!Takes(q.slug, q.sku, {p}) /\ shop' = (shop \ {p}) \union {q}
      /\ strange' = Import!Settle(q) /\ UNCHANGED <<file, run, removed>>
      /\ renamed' = IF q.slug = p.slug THEN renamed ELSE renamed \union {p.of}
      /\ recoded' = IF q.sku = p.sku THEN recoded ELSE recoded \union {p.of}
  BY DEF Import!Rename
<1>2. p \in ProductRow /\ p.of \in 0..Len(file)
  BY DEF ImportInv, ShopOK, ProductRow
<1>3. q \in ProductRow /\ q.of = p.of
  <2>1. Import!Slugify(name) \in Import!Words /\ sku \in Import!Words
    BY BackOfficeAssumption DEF Import!ImportAssumption
  <2> QED
    BY <1>2, <2>1 DEF ProductRow
<1> HIDE DEF q
<1>4. /\ \A r \in shop : r.slug = q.slug => r = p
      /\ \A r \in shop : r.sku = q.sku /\ q.sku # << >> => r = p
  BY <1>1 DEF Import!Takes, Import!GetBySlug, Import!SkuTaken
<1>5. strange \subseteq strange' /\ (q.slug \in strange' \/ q.slug \in Import!SlugsOf(q.of))
  BY <1>1, SettleOne
<1>6. \A k : Import!SlugsOf(k)' = Import!SlugsOf(k)
  BY <1>1 DEF Import!SlugsOf
<1>7. ShopOK'
  <2>1. ProductRow' = ProductRow
    BY <1>1 DEF ProductRow
  <2>2. \A r \in shop' : (r \in shop /\ r # p) \/ r = q
    BY <1>1
  <2>3. shop' \subseteq ProductRow
    BY <1>3, <2>2 DEF ImportInv, ShopOK
  <2>4. \A a, b \in shop' : a.slug = b.slug => a = b
    <3>1. \A a, b \in shop : a.slug = b.slug => a = b
      BY DEF ImportInv, ShopOK
    <3> QED
      BY <1>4, <2>2, <3>1, Zenon
  <2>5. \A a, b \in shop' : a.sku = b.sku /\ a.sku # << >> => a = b
    <3>1. \A a, b \in shop : a.sku = b.sku /\ a.sku # << >> => a = b
      BY DEF ImportInv, ShopOK
    <3> QED
      BY <1>4, <2>2, <3>1, Zenon
  <2>6. \A r \in shop' : r.of # 0 /\ r.of \notin recoded' => r.sku = file'[r.of].sku
    BY <1>1, <1>3, <2>2 DEF ImportInv, ShopOK
  <2>7. \A r \in shop' : /\ r.of # 0 /\ r.of \notin renamed' => r.slug \in Import!SlugsOf(r.of)'
                         /\ r.slug \in strange' \/ r.slug \in Import!SlugsOf(r.of)'
    BY <1>1, <1>3, <1>5, <1>6, <2>2 DEF ImportInv, ShopOK
  <2> QED
    BY <2>1, <2>3, <2>4, <2>5, <2>6, <2>7 DEF ShopOK
<1>8. \A r \in shop : \E s \in shop' : s.of = r.of
  BY <1>1, <1>3
<1>9. renamed' \subseteq 0..Len(file) /\ recoded' \subseteq 0..Len(file)
  BY <1>1, <1>2 DEF ImportInv
<1> QED
  BY <1>1, <1>5, <1>7, <1>8, <1>9, ShopChanges DEF ImportInv

LEMMA DeleteStep == ASSUME ImportInv, NEW p \in shop, Import!Delete(p) PROVE ImportInv'
<1>1. shop' = shop \ {p} /\ removed' = removed \union {p.of} /\ UNCHANGED <<file, run, strange, renamed, recoded>>
  BY DEF Import!Delete
<1>2. \A k : Import!SlugsOf(k)' = Import!SlugsOf(k)
  BY <1>1 DEF Import!SlugsOf
<1>3. ShopOK'
  <2>1. ProductRow' = ProductRow
    BY <1>1 DEF ProductRow
  <2>2. \A q \in shop : /\ q.of # 0 /\ q.of \notin renamed => q.slug \in Import!SlugsOf(q.of)'
                        /\ q.slug \in strange \/ q.slug \in Import!SlugsOf(q.of)'
    BY <1>2 DEF ImportInv, ShopOK
  <2>3. \A q \in shop' : q \in shop
    BY <1>1
  <2> QED
    BY <1>1, <2>1, <2>2, <2>3 DEF ImportInv, ShopOK
<1>4. p.of \in 0..Len(file)
  BY DEF ImportInv, ShopOK, ProductRow
<1>5. \A q \in shop : (\E s \in shop' : s.of = q.of) \/ q.of \in removed'
  BY <1>1
<1> QED
  BY <1>1, <1>3, <1>4, <1>5, ShopChanges DEF ImportInv

LEMMA ImportStep == ImportInv /\ [Import!Next]_(Import!vars) => ImportInv'
<1> SUFFICES ASSUME ImportInv, [Import!Next]_(Import!vars) PROVE ImportInv'
  OBVIOUS
<1>1. ASSUME NEW i \in Imports, Import!ImportProducts(i) \/ Import!Command(i) PROVE ImportInv'
  <2>1. /\ run[i].at = "new" /\ UNCHANGED <<file, shop, strange, renamed, recoded, removed>>
        /\ \E a \in {"refused", "look", "done"} :
             (a = "look" <=> file # << >> /\ a # "refused") /\ run' = [run EXCEPT ![i].at = a]
    BY <1>1 DEF Import!ImportProducts, Import!Command, Import!ImportFromFile, Import!ImportFromCSV,
                Import!CategorySlugIndexFails, Import!Refuse
  <2> QED
    BY <2>1, BeginImport
<1>2. CASE UNCHANGED Import!vars
  <2>1. UNCHANGED <<file, shop, run, strange, renamed, recoded, removed>>
    BY <1>2 DEF Import!vars
  <2>2. \A k : Import!SlugsOf(k)' = Import!SlugsOf(k)
    BY <2>1 DEF Import!SlugsOf
  <2>3. ShopOK'
    BY <2>1, <2>2, ShopStays DEF ImportInv
  <2>4. \A p \in shop : \E q \in shop' : q.of = p.of
    BY <2>1
  <2> QED
    BY <2>1, <2>3, <2>4, ShopChanges DEF ImportInv
<1> QED
  BY <1>1, <1>2, LookStep, MakeStep, InterruptImport, CreateProductStep, RenameStep, DeleteStep DEF Import!Next

LEMMA ImportInit == Import!Init => ImportInv
<1> SUFFICES ASSUME Import!Init PROVE ImportInv
  OBVIOUS
<1>1. PICK lines \in Files : file = Import!Parse(lines)
  BY DEF Import!Init
<1>2. Len(file) \in Nat
  BY <1>1, BackOfficeAssumption DEF Import!ImportAssumption
<1>3. /\ shop = {} /\ renamed = {} /\ recoded = {} /\ removed = {}
      /\ run = [i \in Imports |-> [at |-> "new", k |-> 1, used |-> << >>, created |-> 0, skipped |-> 0, failed |-> 0]]
  BY DEF Import!Init, Import!Idle
<1>4. << >> \in Seq(Import!Words) /\ Len(<< >>) = 0
  OBVIOUS
<1>5. run \in [Imports -> ImportState]
  BY <1>3, <1>4 DEF ImportState
<1>6. ASSUME NEW i \in Imports PROVE UsedOK(run[i]) /\ Covered(i)
  <2>1. /\ run[i].at = "new" /\ run[i].k = 1 /\ run[i].used = << >>
        /\ run[i].created = 0 /\ run[i].skipped = 0 /\ run[i].failed = 0
    BY <1>3
  <2> QED
    BY <1>2, <1>4, <2>1 DEF UsedOK, Covered
<1>7. Agree
  BY <1>3, <1>4 DEF Agree
<1>8. ShopOK
  BY <1>3 DEF ShopOK
<1> QED
  BY <1>1, <1>3, <1>5, <1>6, <1>7, <1>8 DEF ImportInv

LEMMA ImportsHold == OfficeSpec => []ImportInv
<1>1. OfficeInit => ImportInv
  BY ImportInit DEF OfficeInit
<1>2. [OfficeNext]_officeVars => [Import!Next]_(Import!vars) \/ UNCHANGED importVars
  BY DEF OfficeNext, officeVars, importVars, Import!vars
<1>3. ASSUME ImportInv, UNCHANGED importVars PROVE ImportInv'
  <2>1. UNCHANGED <<file, shop, run, strange, renamed, recoded, removed>>
    BY <1>3 DEF importVars
  <2>2. \A k : Import!SlugsOf(k)' = Import!SlugsOf(k)
    BY <2>1 DEF Import!SlugsOf
  <2>3. ShopOK'
    BY <1>3, <2>1, <2>2, ShopStays DEF ImportInv
  <2>4. \A p \in shop : \E q \in shop' : q.of = p.of
    BY <2>1
  <2> QED
    BY <1>3, <2>1, <2>3, <2>4, ShopChanges DEF ImportInv
<1>4. ImportInv /\ [OfficeNext]_officeVars => ImportInv'
  BY <1>2, <1>3, ImportStep
<1> QED
  BY <1>1, <1>4, PTL DEF OfficeSpec

(* A run of the import that ends without a failure leaves every article of the file in the
   shop, whatever earlier runs failed on or were killed in, unless its slug was another
   product's or it was deleted (product_import.go:162-206). *)
THEOREM ImportsComplete == OfficeSpec => []CleanImportComplete
<1>1. ImportInv => CleanImportComplete
  <2> SUFFICES ASSUME ImportInv, NEW i \in Imports, run[i].at = "done", run[i].failed = 0, NEW k \in Import!Articles
               PROVE  (\E p \in shop : p.of = k) \/ k \in removed \/ run[i].used[k] \in strange
    BY DEF CleanImportComplete, Import!CleanImportComplete
  <2>1. k \in 1..Len(file) /\ Len(file) \in Nat /\ UsedOK(run[i]) /\ Covered(i)
    BY FileFacts DEF ImportInv, Import!Articles
  <2>2. k < run[i].k
    BY <2>1 DEF UsedOK
  <2> QED
    BY <2>1, <2>2 DEF Covered
<1> QED
  BY <1>1, ImportsHold, PTL

(* An article is in the shop once, unless it was given another name there and has no code
   there that the file knows it by (product_import.go:184-197, product_service.go:197-215,
   the unique columns of products). *)
THEOREM ArticlesOnce == OfficeSpec => []NoTwin
<1>1. ImportInv => NoTwin
  <2> SUFFICES ASSUME ImportInv, NEW p \in shop, NEW q \in shop, p.of = q.of, p.of # 0, p # q
               PROVE  p.of \in renamed /\ (file[p.of].sku = << >> \/ p.of \in recoded)
    BY DEF NoTwin, Import!NoTwin
  <2>1. file[p.of].sku = << >> \/ p.of \in recoded
    BY DEF ImportInv, ShopOK
  <2>2. ASSUME p.of \notin renamed PROVE FALSE
    <3>1. p.slug \in Import!SlugsOf(p.of) /\ q.slug \in Import!SlugsOf(p.of)
      BY <2>2 DEF ImportInv, ShopOK
    <3>2. PICK i \in Imports : p.of \in 1..Len(run[i].used) /\ p.slug = run[i].used[p.of]
      BY <3>1 DEF Import!SlugsOf
    <3>3. PICK j \in Imports : p.of \in 1..Len(run[j].used) /\ q.slug = run[j].used[p.of]
      BY <3>1 DEF Import!SlugsOf
    <3>4. p.of <= Len(run[j].used)
      <4>1. run[j].used \in Seq(Import!Words)
        BY DEF ImportInv, ImportState
      <4> QED
        BY <3>3, <4>1
    <3>5. p.slug = q.slug
      BY <3>2, <3>3, <3>4 DEF ImportInv, Agree
    <3> QED
      BY <3>5 DEF ImportInv, ShopOK
  <2> QED
    BY <2>1, <2>2
<1> QED
  BY <1>1, ImportsHold, PTL

-----------------------------------------------------------------------------
(* The listing of the shop.  Two rows that the sort tells apart stand in one order, so in
   every arrangement a product has as many before it as its rank says (Rank), and the pages
   up to an offset show those of a rank below it (Top), as long as the shelf stays. *)

Rank(i) == Cardinality({j \in Listing!Matches : Listing!Before(j, i)})
Top(n) == {i \in Listing!Matches : Rank(i) < n}
Shown == Top(walk.offset)
Apart == filters.sort = "price" => \A i, j \in Listing!Matches : shelf[i].price = shelf[j].price => i = j

WalkState == [at : {"new", "count", "find", "failed", "done"}, offset : Nat, total : 0..MaxShelf, seen : SUBSET (1..MaxShelf)]

ListTyped ==
  /\ shelf \in Seq(Kinds) /\ Len(shelf) <= MaxShelf
  /\ filters \in Listing!Filters
  /\ walk \in WalkState
  /\ edits \in 0..MaxChanges /\ stirred \in BOOLEAN

ListInv ==
  /\ ListTyped
  /\ walk.at = "new" => walk.offset = 0 /\ walk.seen = {}
  /\ ~stirred /\ Apart /\ walk.at \in {"count", "find"} => walk.seen = Shown
  /\ ~stirred /\ walk.at = "find" => walk.total = Cardinality(Listing!Matches)
  /\ WalkSeesAll

LEMMA ListingCount ==
  ASSUME NEW S
  PROVE  Listing!Cardinality(S) = Cardinality(S)
  BY DEF Cardinality, Listing!Cardinality, IsFiniteSet, Listing!IsFiniteSet

LEMMA MatchesFinite ==
  ASSUME ListTyped
  PROVE  /\ Listing!Matches \subseteq 1..Len(shelf) /\ Listing!Matches \subseteq 1..MaxShelf
         /\ Listing!Matches \subseteq Nat
         /\ IsFiniteSet(Listing!Matches)
         /\ Cardinality(Listing!Matches) \in 0..MaxShelf
<1>1. Len(shelf) \in Nat /\ DOMAIN shelf = 1..Len(shelf) /\ MaxShelf \in Nat /\ Len(shelf) <= MaxShelf
  BY BackOfficeAssumption DEF ListTyped, Listing!ProductListAssumption
<1>2. Listing!Matches \subseteq 1..Len(shelf)
  BY <1>1 DEF Listing!Matches
<1>3. IsFiniteSet(1..MaxShelf) /\ Cardinality(1..MaxShelf) = MaxShelf
  <2>1. PICK a \in Int, b \in Int : a = 1 /\ b = MaxShelf
    BY <1>1
  <2>2. IsFiniteSet(a..b) /\ Cardinality(a..b) = IF a > b THEN 0 ELSE b - a + 1
    BY FS_Interval
  <2> QED
    BY <1>1, <2>1, <2>2
<1>4. Listing!Matches \subseteq 1..MaxShelf /\ Listing!Matches \subseteq Nat
  BY <1>1, <1>2
<1>5. IsFiniteSet(Listing!Matches) /\ Cardinality(Listing!Matches) \in Nat /\ Cardinality(Listing!Matches) <= MaxShelf
  BY <1>3, <1>4, FS_Subset, FS_CardinalityType
<1> QED
  BY <1>1, <1>2, <1>4, <1>5

LEMMA Ordered ==
  ASSUME ListTyped, Apart, NEW i \in Listing!Matches, NEW j \in Listing!Matches
  PROVE  ~Listing!Before(i, i) /\ (i # j => Listing!Before(i, j) \/ Listing!Before(j, i))
<1>1. i \in Nat /\ j \in Nat /\ shelf[i] \in Kinds /\ shelf[j] \in Kinds
  BY MatchesFinite DEF ListTyped
<1>2. shelf[i].price \in Int /\ shelf[j].price \in Int /\ shelf[i].featured \in BOOLEAN /\ shelf[j].featured \in BOOLEAN
  BY <1>1, BackOfficeAssumption DEF Listing!ProductListAssumption
<1>3. CASE filters.sort = "price"
  <2>1. i # j => shelf[i].price # shelf[j].price
    BY <1>3 DEF Apart
  <2> QED
    BY <1>2, <1>3, <2>1 DEF Listing!Before
<1>4. CASE filters.sort = "newest"
  BY <1>1, <1>4 DEF Listing!Before
<1>5. CASE filters.sort \notin {"price", "newest"}
  BY <1>1, <1>2, <1>5 DEF Listing!Before
<1> QED
  BY <1>3, <1>4, <1>5

(* In any arrangement the product at a place has those of the places before it before it. *)
LEMMA Arranged ==
  ASSUME ListTyped, Apart, NEW s \in Listing!Arrangements
  PROVE  /\ s \in Seq(Listing!Matches) /\ Len(s) = Cardinality(Listing!Matches)
         /\ \A a \in 1..Len(s) : s[a] \in Listing!Matches /\ Rank(s[a]) = a - 1
         /\ \A i \in Listing!Matches : \E a \in 1..Len(s) : s[a] = i
<1> DEFINE M == Listing!Matches
           n == Cardinality(M)
<1>1. IsFiniteSet(M) /\ n \in Nat
  BY MatchesFinite
<1>2. /\ s \in [1..n -> M]
      /\ \A a, b \in 1..n : a # b => s[a] # s[b]
      /\ \A a, b \in DOMAIN s : a < b => ~Listing!Before(s[b], s[a])
  BY ListingCount DEF Listing!Arrangements, Listing!SetToSeqs
<1> HIDE DEF n
<1>3. s \in Seq(M) /\ Len(s) = n /\ DOMAIN s = 1..n
  BY <1>1, <1>2
<1>4. \A i \in M : \E a \in 1..n : s[a] = i
  <2>1. s \in Injection(1..n, M)
    BY <1>2 DEF Injection, IsInjective
  <2>2. Cardinality(1..n) = n
    <3>1. PICK a \in Int, b \in Int : a = 1 /\ b = n
      BY <1>1
    <3>2. IsFiniteSet(a..b) /\ Cardinality(a..b) = IF a > b THEN 0 ELSE b - a + 1
      BY FS_Interval
    <3> QED
      BY <1>1, <3>1, <3>2
  <2>3. s \in Surjection(1..n, M)
    BY <1>1, <2>1, <2>2, FS_Injection DEF n
  <2> QED
    BY <2>3 DEF Surjection
<1>5. ASSUME NEW a \in 1..n PROVE Rank(s[a]) = a - 1
  <2> DEFINE ahead == {j \in M : Listing!Before(j, s[a])}
             first == [b \in 1..(a - 1) |-> s[b]]
  <2>1. a \in Nat /\ a - 1 \in Nat /\ \A b \in 1..(a - 1) : b \in 1..n /\ b < a
    BY <1>1
  <2>2. \A b \in 1..(a - 1) : s[b] \in ahead
    <3> SUFFICES ASSUME NEW b \in 1..(a - 1) PROVE Listing!Before(s[b], s[a])
      BY <1>2, <2>1
    <3>1. b \in 1..n /\ b < a /\ s[b] \in M /\ s[a] \in M /\ s[b] # s[a]
      BY <1>2, <2>1
    <3>2. ~Listing!Before(s[a], s[b])
      BY <1>2, <1>3, <3>1
    <3> QED
      BY <3>1, <3>2, Ordered
  <2>3. ASSUME NEW j \in ahead PROVE \E b \in 1..(a - 1) : s[b] = j
    <3>1. PICK b \in 1..n : s[b] = j
      BY <1>4
    <3>2. Listing!Before(s[b], s[a])
      BY <3>1
    <3>3. b # a
      BY <1>2, <3>2, Ordered
    <3>4. ~(a < b)
      BY <1>2, <1>3, <3>2
    <3> QED
      BY <1>1, <3>1, <3>3, <3>4
  <2>4. first \in Surjection(1..(a - 1), ahead) /\ first \in Injection(1..(a - 1), ahead)
    <3>1. first \in [1..(a - 1) -> ahead]
      BY <2>2
    <3>2. \A j \in ahead : \E b \in 1..(a - 1) : first[b] = j
      BY <2>3
    <3>3. \A b, c \in 1..(a - 1) : first[b] = first[c] => b = c
      BY <1>2, <2>1
    <3> HIDE DEF first, ahead
    <3> QED
      BY <3>1, <3>2, <3>3 DEF Surjection, Injection, IsInjective
  <2>5. IsFiniteSet(1..(a - 1)) /\ Cardinality(1..(a - 1)) = a - 1
    <3>1. PICK c \in Int, d \in Int : c = 1 /\ d = a - 1
      BY <2>1
    <3>2. IsFiniteSet(c..d) /\ Cardinality(c..d) = IF c > d THEN 0 ELSE d - c + 1
      BY FS_Interval
    <3> QED
      BY <2>1, <3>1, <3>2
  <2>6. Cardinality(ahead) = Cardinality(1..(a - 1))
    <3> HIDE DEF first, ahead
    <3> QED
      BY <2>4, <2>5, FS_Surjection
  <2> QED
    BY <2>5, <2>6 DEF Rank
<1> QED
  BY <1>2, <1>3, <1>4, <1>5 DEF n

(* A page shows the next ranks. *)
LEMMA NextPage ==
  ASSUME ListTyped, Apart, NEW s \in Listing!Arrangements, NEW offset \in Nat, NEW limit \in Nat
  PROVE  /\ Top(offset) \union Listing!Rows(s, offset, limit) = Top(offset + limit)
         /\ offset + limit >= Cardinality(Listing!Matches) => Top(offset + limit) = Listing!Matches
<1> DEFINE n == Len(s)
           end == Listing!Lesser(offset + limit, n)
           piece == SubSeq(s, offset + 1, end)
<1>1. /\ s \in Seq(Listing!Matches) /\ n \in Nat /\ n = Cardinality(Listing!Matches)
      /\ \A a \in 1..n : s[a] \in Listing!Matches /\ Rank(s[a]) = a - 1
      /\ \A i \in Listing!Matches : \E a \in 1..n : s[a] = i
  BY Arranged
<1>2. end \in Nat /\ end <= n /\ end <= offset + limit /\ (end = n \/ end = offset + limit)
  BY <1>1 DEF Listing!Lesser
<1> HIDE DEF n, end
<1>3. \A m \in Nat, a \in 1..n : s[a] \in Top(m) <=> a <= m
  BY <1>1 DEF Top
<1>4. Listing!Rows(s, offset, limit) = {s[a] : a \in offset + 1 .. end}
  <2>1. Listing!Rows(s, offset, limit) = {piece[i] : i \in DOMAIN piece}
    BY DEF Listing!Rows, Listing!ToSet, end, n
  <2>2. \A a \in offset + 1 .. end : s[a] \in Listing!Matches
    BY <1>1, <1>2
  <2>3. PICK c \in Int, d \in Int : c = offset + 1 /\ d = end
    BY <1>2
  <2>4. /\ SubSeq(s, c, d) \in Seq(Listing!Matches)
        /\ Len(SubSeq(s, c, d)) = IF c <= d THEN d - c + 1 ELSE 0
        /\ \A i \in 1 .. d - c + 1 : SubSeq(s, c, d)[i] = s[c + i - 1]
    BY <2>2, <2>3, SubSeqProperties
  <2>5. DOMAIN piece = 1 .. d - c + 1
    BY <2>3, <2>4
  <2>6. ASSUME NEW a \in offset + 1 .. end PROVE \E i \in DOMAIN piece : piece[i] = s[a]
    <3>1. a - c + 1 \in 1 .. d - c + 1 /\ c + (a - c + 1) - 1 = a
      BY <2>3
    <3> QED
      BY <2>3, <2>4, <2>5, <3>1
  <2>7. ASSUME NEW i \in DOMAIN piece PROVE \E a \in offset + 1 .. end : piece[i] = s[a]
    <3>1. i \in 1 .. d - c + 1
      BY <2>5
    <3>2. c + i - 1 \in offset + 1 .. end
      BY <2>3, <3>1
    <3> QED
      BY <2>3, <2>4, <3>1, <3>2
  <2> HIDE DEF piece
  <2> QED
    BY <2>1, <2>6, <2>7
<1>5. Listing!Rows(s, offset, limit) \subseteq Top(offset + limit)
  <2> SUFFICES ASSUME NEW a \in offset + 1 .. end PROVE s[a] \in Top(offset + limit)
    BY <1>4
  <2>1. a \in 1..n /\ a <= offset + limit /\ offset + limit \in Nat
    BY <1>1, <1>2
  <2> QED
    BY <1>3, <2>1
<1>6. Top(offset) \subseteq Top(offset + limit)
  <2> SUFFICES ASSUME NEW i \in Top(offset) PROVE i \in Top(offset + limit)
    OBVIOUS
  <2>1. PICK a \in 1..n : s[a] = i
    BY <1>1 DEF Top
  <2>2. a <= offset
    BY <1>3, <2>1
  <2>3. a <= offset + limit /\ offset + limit \in Nat
    BY <1>1, <2>2
  <2> QED
    BY <1>3, <2>1, <2>3
<1>7. ASSUME NEW i \in Top(offset + limit) PROVE i \in Top(offset) \union Listing!Rows(s, offset, limit)
  <2>1. PICK a \in 1..n : s[a] = i
    BY <1>1 DEF Top
  <2>2. offset + limit \in Nat /\ a \in Nat /\ a <= n
    BY <1>1
  <2>3. a <= offset + limit
    BY <1>3, <2>1, <2>2
  <2>4. CASE a <= offset
    BY <1>3, <2>1, <2>4
  <2>5. CASE offset < a
    <3>1. a \in offset + 1 .. end
      BY <1>2, <2>2, <2>3, <2>5
    <3> QED
      BY <1>4, <2>1, <3>1
  <2> QED
    BY <2>2, <2>4, <2>5
<1>8. ASSUME offset + limit >= Cardinality(Listing!Matches), NEW i \in Listing!Matches PROVE i \in Top(offset + limit)
  <2>1. PICK a \in 1..n : s[a] = i
    BY <1>1
  <2>2. a <= offset + limit /\ offset + limit \in Nat
    BY <1>1, <1>8
  <2> QED
    BY <1>3, <2>1, <2>2
<1>9. Top(offset + limit) \subseteq Listing!Matches
  BY DEF Top
<1> QED
  BY <1>5, <1>6, <1>7, <1>8, <1>9

LEMMA AnyRows ==
  ASSUME ListTyped, NEW s \in Listing!Arrangements, NEW offset \in Nat, NEW limit \in Nat
  PROVE  Listing!Rows(s, offset, limit) \subseteq 1..MaxShelf
<1>1. /\ Cardinality(Listing!Matches) \in Nat /\ Listing!Matches \subseteq 1..MaxShelf
      /\ s \in [1..Cardinality(Listing!Matches) -> Listing!Matches]
  BY MatchesFinite, ListingCount DEF Listing!Arrangements, Listing!SetToSeqs
<1>2. PICK n \in Nat : n = Cardinality(Listing!Matches)
  BY <1>1
<1>3. s \in Seq(Listing!Matches) /\ Len(s) = n /\ \A a \in 1..n : s[a] \in Listing!Matches
  BY <1>1, <1>2
<1>4. PICK c \in Int, d \in Int : c = offset + 1 /\ d = Listing!Lesser(offset + limit, Len(s)) /\ d <= n
  BY <1>3 DEF Listing!Lesser
<1>5. SubSeq(s, c, d) \in Seq(Listing!Matches)
  <2>1. \A a \in c..d : s[a] \in Listing!Matches
    BY <1>3, <1>4
  <2> QED
    BY <2>1, SubSeqProperties
<1>6. \A i \in DOMAIN SubSeq(s, c, d) : SubSeq(s, c, d)[i] \in Listing!Matches
  BY <1>5
<1> QED
  BY <1>1, <1>4, <1>6, ZenonT(60) DEF Listing!Rows, Listing!ToSet

(* A step of the visitor, or of the administrator. *)
LEMMA SameShelf ==
  ASSUME UNCHANGED <<shelf, filters>>
  PROVE  /\ Listing!Matches' = Listing!Matches /\ (Apart' <=> Apart)
         /\ \A n : walk'.offset = n => Shown' = Top(n)
<1>1. Listing!Matches' = Listing!Matches
  BY DEF Listing!Matches
<1>2. \A i, j : Listing!Before(i, j)' <=> Listing!Before(i, j)
  BY DEF Listing!Before
<1>3. \A i : Rank(i)' = Rank(i)
  <2> SUFFICES ASSUME NEW i PROVE Rank(i)' = Rank(i)
    OBVIOUS
  <2>1. {j \in Listing!Matches : Listing!Before(j, i)}' = {j \in Listing!Matches : Listing!Before(j, i)}
    BY <1>1, <1>2
  <2> QED
    BY <2>1 DEF Rank
<1> QED
  BY <1>1, <1>3 DEF Apart, Top, Shown

LEMMA VisitStep == ASSUME ListInv, Listing!List \/ Listing!CountTotal PROVE ListInv'
<1>1. /\ UNCHANGED <<shelf, filters, edits>> /\ ListTyped
      /\ Listing!Matches' = Listing!Matches /\ (Apart' <=> Apart) /\ \A n : walk'.offset = n => Shown' = Top(n)
  BY SameShelf DEF ListInv, Listing!List, Listing!CountTotal
<1>2. CASE Listing!List
  <2>1. walk.at = "new" /\ walk' = [walk EXCEPT !.at = "count"] /\ stirred' = FALSE
    BY <1>2 DEF Listing!List
  <2>2. walk' \in WalkState /\ walk'.at = "count" /\ walk'.offset = 0 /\ walk'.seen = {}
    BY <1>1, <2>1 DEF ListTyped, WalkState, ListInv
  <2>3. Top(0) = {}
    <3>1. ASSUME NEW i \in Listing!Matches PROVE ~(Rank(i) < 0)
      <4>1. {j \in Listing!Matches : Listing!Before(j, i)} \subseteq Listing!Matches
        OBVIOUS
      <4>2. Rank(i) \in Nat
        BY <1>1, <4>1, MatchesFinite, FS_Subset, FS_CardinalityType DEF Rank
      <4> QED
        BY <4>2
    <3> QED
      BY <3>1 DEF Top
  <2>4. ListTyped'
    BY <1>1, <2>1, <2>2 DEF ListTyped
  <2>5. Shown' = {}
    BY <1>1, <2>2, <2>3
  <2> QED
    BY <2>2, <2>4, <2>5 DEF ListInv, WalkSeesAll, Listing!WalkSeesAll
<1>3. CASE Listing!CountTotal
  <2>1. /\ walk.at = "count" /\ stirred' = stirred
        /\ \/ walk' = [walk EXCEPT !.at = "failed"]
           \/ walk' = [walk EXCEPT !.at = "find", !.total = Cardinality(Listing!Matches)]
    BY <1>3, ListingCount DEF Listing!CountTotal
  <2>2. Cardinality(Listing!Matches) \in 0..MaxShelf
    BY <1>1, MatchesFinite
  <2>3. walk \in WalkState
    BY <1>1 DEF ListTyped
  <2>4. CASE walk' = [walk EXCEPT !.at = "failed"]
    <3>1. walk' \in WalkState /\ walk'.at = "failed"
      BY <2>3, <2>4 DEF WalkState
    <3>2. ListTyped'
      BY <1>1, <2>1, <3>1 DEF ListTyped
    <3> QED
      BY <3>1, <3>2 DEF ListInv, WalkSeesAll, Listing!WalkSeesAll
  <2>5. CASE walk' = [walk EXCEPT !.at = "find", !.total = Cardinality(Listing!Matches)]
    <3>1. /\ walk' \in WalkState /\ walk'.at = "find" /\ walk'.total = Cardinality(Listing!Matches)
          /\ walk'.offset = walk.offset /\ walk'.seen = walk.seen
      BY <2>2, <2>3, <2>5 DEF WalkState
    <3>2. ListTyped'
      BY <1>1, <2>1, <3>1 DEF ListTyped
    <3>3. ~stirred /\ Apart => walk.seen = Top(walk.offset)
      BY <2>1 DEF ListInv, Shown
    <3>4. ~stirred' /\ Apart' => walk'.seen = Shown'
      BY <1>1, <2>1, <3>1, <3>3
    <3>5. walk'.total = Cardinality(Listing!Matches')
      BY <1>1, <3>1
    <3> QED
      BY <3>1, <3>2, <3>4, <3>5 DEF ListInv, WalkSeesAll, Listing!WalkSeesAll
  <2> QED
    BY <2>1, <2>4, <2>5
<1> QED
  BY <1>2, <1>3

LEMMA PageStep == ASSUME ListInv, Listing!FindPage PROVE ListInv'
<1>1. /\ walk.at = "find" /\ UNCHANGED <<shelf, filters, edits, stirred>> /\ ListTyped
      /\ Listing!Matches' = Listing!Matches /\ (Apart' <=> Apart)
      /\ \A n : walk'.offset = n => Shown' = Top(n)
  BY SameShelf DEF ListInv, Listing!FindPage
<1>2. PICK o \in Nat, limit \in Nat, total \in Int : o = walk.offset /\ limit = filters.limit /\ total = walk.total
  <2>1. walk.offset \in Nat /\ walk.total \in Int
    BY <1>1, BackOfficeAssumption DEF ListTyped, WalkState, Listing!ProductListAssumption
  <2>2. filters.limit \in Nat
    BY <1>1 DEF ListTyped, Listing!Filters
  <2> QED
    BY <2>1, <2>2
<1>3. PICK s \in Listing!Arrangements :
        walk' = [walk EXCEPT !.seen = @ \union Listing!Rows(s, o, limit),
                             !.at = IF o + limit < total THEN "count" ELSE "done",
                             !.offset = @ + limit]
  BY <1>2 DEF Listing!FindPage, Listing!HasMore
<1>4. Listing!Rows(s, o, limit) \subseteq 1..MaxShelf
  BY <1>1, AnyRows
<1>5. /\ walk' \in WalkState /\ walk'.offset = o + limit /\ walk'.seen = walk.seen \union Listing!Rows(s, o, limit)
      /\ walk'.at = IF o + limit < total THEN "count" ELSE "done"
  <2> DEFINE to == IF o + limit < total THEN "count" ELSE "done"
             seen == walk.seen \union Listing!Rows(s, o, limit)
  <2>1. /\ to \in {"new", "count", "find", "failed", "done"} /\ seen \in SUBSET (1..MaxShelf) /\ o + limit \in Nat
        /\ walk \in WalkState
    BY <1>1, <1>4 DEF ListTyped, WalkState
  <2>2. walk' = [walk EXCEPT !.seen = seen, !.at = to, !.offset = o + limit]
    BY <1>2, <1>3
  <2> HIDE DEF to, seen
  <2>3. walk' \in WalkState /\ walk'.offset = o + limit /\ walk'.seen = seen /\ walk'.at = to
    BY <2>1, <2>2 DEF WalkState
  <2> QED
    BY <2>3 DEF to, seen
<1>6. ListTyped'
  BY <1>1, <1>5 DEF ListTyped
<1>7. ASSUME ~stirred, Apart
      PROVE  /\ walk'.seen = Top(o + limit)
             /\ walk'.at = "done" => walk'.seen = Listing!Matches
  <2>1. walk.seen = Top(o) /\ total = Cardinality(Listing!Matches)
    BY <1>1, <1>2, <1>7 DEF ListInv, Shown
  <2>2. /\ Top(o) \union Listing!Rows(s, o, limit) = Top(o + limit)
        /\ o + limit >= Cardinality(Listing!Matches) => Top(o + limit) = Listing!Matches
    BY <1>1, <1>7, NextPage
  <2>3. walk'.at = "done" => o + limit >= total
    BY <1>5
  <2> QED
    BY <1>5, <2>1, <2>2, <2>3
<1>8. ~stirred' /\ Apart' => walk'.seen = Shown'
  BY <1>1, <1>5, <1>7
<1>9. WalkSeesAll'
  <2> SUFFICES ASSUME walk'.at = "done", ~stirred', Apart' PROVE walk'.seen = Listing!Matches'
    BY DEF WalkSeesAll, Listing!WalkSeesAll, Apart
  <2> QED
    BY <1>1, <1>7
<1>10. walk'.at \notin {"new", "find"}
  BY <1>5
<1> QED
  BY <1>6, <1>8, <1>9, <1>10 DEF ListInv

LEMMA ShelfStep == ASSUME ListInv, Listing!Create \/ Listing!Update PROVE ListInv'
<1>1. /\ edits < MaxChanges /\ edits' = edits + 1 /\ stirred' = TRUE /\ UNCHANGED <<filters, walk>> /\ ListTyped
  BY DEF ListInv, Listing!Create, Listing!Update, Listing!Edit
<1>2. shelf' \in Seq(Kinds) /\ Len(shelf') <= MaxShelf
  <2>1. shelf \in Seq(Kinds) /\ Len(shelf) <= MaxShelf /\ Len(shelf) \in Nat /\ MaxShelf \in Nat
    BY <1>1, BackOfficeAssumption DEF ListTyped, Listing!ProductListAssumption
  <2>2. CASE Listing!Create
    <3>1. PICK kind \in Kinds : Len(shelf) < MaxShelf /\ shelf' = Append(shelf, kind)
      BY <2>2 DEF Listing!Create
    <3> QED
      BY <2>1, <3>1
  <2>3. CASE Listing!Update
    <3>1. PICK i \in DOMAIN shelf, kind \in Kinds : shelf' = [shelf EXCEPT ![i] = kind]
      BY <2>3 DEF Listing!Update
    <3>2. i \in 1..Len(shelf)
      BY <2>1, <3>1
    <3> QED
      BY <2>1, <3>1, <3>2, ExceptSeq
  <2> QED
    BY <2>2, <2>3
<1>3. edits' \in 0..MaxChanges
  BY <1>1, BackOfficeAssumption DEF ListTyped, Listing!ProductListAssumption
<1>4. ListTyped'
  BY <1>1, <1>2, <1>3 DEF ListTyped
<1> QED
  BY <1>1, <1>4 DEF ListInv, WalkSeesAll, Listing!WalkSeesAll

LEMMA ListStep == ListInv /\ [Listing!Next]_(Listing!vars) => ListInv'
<1>1. ASSUME ListInv, UNCHANGED Listing!vars PROVE ListInv'
  <2>1. UNCHANGED <<shelf, filters, walk, edits, stirred>>
    BY <1>1 DEF Listing!vars
  <2>2. Listing!Matches' = Listing!Matches /\ (Apart' <=> Apart) /\ Shown' = Shown
    <3>1. \A n : walk'.offset = n => Shown' = Top(n)
      BY <2>1, SameShelf
    <3> QED
      BY <2>1, <3>1, SameShelf DEF Shown
  <2>3. ListTyped'
    BY <1>1, <2>1 DEF ListInv, ListTyped
  <2>4. WalkSeesAll'
    <3> SUFFICES ASSUME walk'.at = "done", ~stirred', Apart' PROVE walk'.seen = Listing!Matches'
      BY DEF WalkSeesAll, Listing!WalkSeesAll, Apart
    <3> QED
      BY <1>1, <2>1, <2>2 DEF ListInv, WalkSeesAll, Listing!WalkSeesAll, Apart
  <2> QED
    BY <1>1, <2>1, <2>2, <2>3, <2>4 DEF ListInv
<1> QED
  BY <1>1, VisitStep, PageStep, ShelfStep DEF Listing!Next

LEMMA ListInit == OfficeInit => ListInv
<1> SUFFICES ASSUME OfficeInit PROVE ListInv
  OBVIOUS
<1>1. /\ shelf \in UNION {[1..n -> Kinds] : n \in 0..MaxShelf} /\ filters \in Listing!Filters
      /\ walk = [at |-> "new", offset |-> 0, total |-> 0, seen |-> {}] /\ edits = 0 /\ stirred = FALSE
  BY DEF OfficeInit, Listing!Init
<1>2. MaxShelf \in Nat /\ MaxChanges \in Nat
  BY BackOfficeAssumption DEF Listing!ProductListAssumption
<1>3. PICK n \in 0..MaxShelf : shelf \in [1..n -> Kinds]
  BY <1>1
<1>4. shelf \in Seq(Kinds) /\ Len(shelf) = n
  BY <1>2, <1>3
<1>5. walk \in WalkState /\ edits \in 0..MaxChanges
  BY <1>1, <1>2 DEF WalkState
<1>6. Len(shelf) <= MaxShelf
  <2>1. n \in Nat /\ n <= MaxShelf
    BY <1>2, <1>3
  <2> QED
    BY <1>4, <2>1
<1>7. stirred \in BOOLEAN
  BY <1>1
<1>8. ListTyped
  BY <1>1, <1>4, <1>5, <1>6, <1>7 DEF ListTyped
<1> QED
  BY <1>1, <1>8 DEF ListInv, WalkSeesAll, Listing!WalkSeesAll

(* The history of the changes and their bound are those of the part in focus. *)
ListPart == IF focus = "listing" THEN ListInv ELSE walk.at = "new"

LEMMA ListHolds == OfficeSpec => []ListPart
<1>1. OfficeInit => ListPart
  BY ListInit DEF OfficeInit, ListPart, Listing!Init
<1>2. ASSUME ListPart, [OfficeNext]_officeVars PROVE ListPart'
  <2>1. focus' = focus
    BY <1>2 DEF OfficeNext, officeVars
  <2>2. CASE focus = "listing"
    <3>1. [Listing!Next]_(Listing!vars)
      BY <1>2, <2>2 DEF OfficeNext, officeVars, listingVars, Listing!vars
    <3> QED
      BY <1>2, <2>1, <2>2, <3>1, ListStep DEF ListPart
  <2>3. CASE focus # "listing"
    <3>1. walk' = walk
      BY <1>2, <2>3 DEF OfficeNext, officeVars, listingVars
    <3> QED
      BY <1>2, <2>1, <2>3, <3>1 DEF ListPart
  <2> QED
    BY <2>2, <2>3
<1> QED
  BY <1>1, <1>2, PTL DEF OfficeSpec

(* Going from page to page until has_more is false shows every product that matches and no
   other, when the shelf stayed as it was and the sort tells any two of them apart
   (product_store.go:254-286, product_service.go:153-169). *)
THEOREM PagesShowAll == OfficeSpec => []WalkSeesAll
<1>1. ListPart => WalkSeesAll
  BY DEF ListPart, ListInv, WalkSeesAll, Listing!WalkSeesAll
<1> QED
  BY <1>1, ListHolds, PTL

-----------------------------------------------------------------------------
(* The overview.  As long as no order changed, each section read so far is what its
   statement would read now (StatsInv); that the sections agree is then a fact about one
   table.  Sums are sizes of sets of units, so a sum by groups is a bijection (SumOfGroups). *)
StatsTyped ==
  /\ orders \in [Stats!Ids -> [at : 0..MaxHalfDays, status : Stats!Statuses]]
  /\ halfDay \in 0..MaxHalfDays
  /\ \E at \in {"new", "reading", "answered", "failed"}, since, now, length \in Int :
       overview = [at |-> at, since |-> since, now |-> now, length |-> length]
  /\ DOMAIN out \subseteq Stats!Sections
  /\ edits \in 0..MaxChanges /\ faults \in 0..MaxFaults /\ stirred \in BOOLEAN

LEMMA StatsInit == Stats!Init => StatsTyped
<1> SUFFICES ASSUME Stats!Init PROVE StatsTyped
  OBVIOUS
<1>1. MaxHalfDays \in Nat \ {0} /\ MaxChanges \in Nat /\ MaxFaults \in Nat
  BY BackOfficeAssumption DEF Stats!DashboardAssumption
<1>2. halfDay \in 0..MaxHalfDays
  BY <1>1 DEF Stats!Init
<1>3. orders \in [Stats!Ids -> [at : 0..MaxHalfDays, status : Stats!Statuses]]
  <2>1. PICK i \in Stats!Ids, at \in 0..halfDay, status \in {"delivered", "cancelled"} :
          orders = [j \in Stats!Ids |-> IF j = i THEN [at |-> at, status |-> status] ELSE [at |-> 0, status |-> "none"]]
    BY DEF Stats!Init
  <2>2. at \in 0..MaxHalfDays /\ 0 \in 0..MaxHalfDays
    BY <1>1, <1>2
  <2>3. status \in Stats!Statuses /\ "none" \in Stats!Statuses
    BY DEF Stats!Statuses
  <2> QED
    BY <2>1, <2>2, <2>3
<1>4. 0 \in 0..MaxChanges /\ 0 \in 0..MaxFaults
  BY <1>1
<1>5. DOMAIN out = {}
  BY DEF Stats!Init
<1>6. \E at \in {"new", "reading", "answered", "failed"}, since, now, length \in Int :
        overview = [at |-> at, since |-> since, now |-> now, length |-> length]
  <2>1. overview = [at |-> "new", since |-> 0, now |-> 0, length |-> 0]
    BY DEF Stats!Init
  <2> QED
    BY <2>1
<1>7. edits \in 0..MaxChanges /\ faults \in 0..MaxFaults /\ stirred \in BOOLEAN
  BY <1>4 DEF Stats!Init
<1> QED
  BY <1>2, <1>3, <1>5, <1>6, <1>7 DEF StatsTyped

LEMMA StatsStep == StatsTyped /\ [Stats!Next]_(Stats!vars) => StatsTyped'
<1> SUFFICES ASSUME StatsTyped, [Stats!Next]_(Stats!vars) PROVE StatsTyped'
  OBVIOUS
<1>0. MaxHalfDays \in Nat \ {0} /\ MaxChanges \in Nat /\ MaxFaults \in Nat /\ Days \subseteq Nat
  BY BackOfficeAssumption DEF Stats!DashboardAssumption
<1>1. CASE UNCHANGED Stats!vars
  BY <1>1 DEF StatsTyped, Stats!vars
<1>2. PICK at \in {"new", "reading", "answered", "failed"}, since, now, length \in Int :
        overview = [at |-> at, since |-> since, now |-> now, length |-> length]
  BY DEF StatsTyped
<1>3. CASE Stats!Overview
  <2>1. PICK days \in Days :
          overview' = [at |-> "reading", now |-> halfDay, since |-> halfDay - 2 * days, length |-> 2 * days]
    BY <1>3 DEF Stats!Overview
  <2>2. halfDay \in Int /\ halfDay - 2 * days \in Int /\ 2 * days \in Int
    BY <1>0 DEF StatsTyped
  <2>3. \E a \in {"new", "reading", "answered", "failed"}, s, n, l \in Int :
          overview' = [at |-> a, since |-> s, now |-> n, length |-> l]
    BY <2>1, <2>2
  <2> QED
    BY <1>3, <2>3 DEF StatsTyped, Stats!Overview
<1>4. CASE Stats!FetchFails
  <2>1. overview' = [at |-> "failed", since |-> since, now |-> now, length |-> length]
    BY <1>2, <1>4 DEF Stats!FetchFails
  <2>2. \E a \in {"new", "reading", "answered", "failed"}, s, n, l \in Int :
          overview' = [at |-> a, since |-> s, now |-> n, length |-> l]
    BY <2>1
  <2>3. faults' \in 0..MaxFaults
    BY <1>0, <1>4, SMTT(60) DEF Stats!FetchFails, StatsTyped
  <2>4. DOMAIN out' \subseteq Stats!Sections
    BY <1>4 DEF Stats!FetchFails
  <2> QED
    BY <1>4, <2>2, <2>3, <2>4 DEF StatsTyped, Stats!FetchFails
<1>5. CASE Stats!Wait
  <2>1. overview' = [at |-> "answered", since |-> since, now |-> now, length |-> length]
    BY <1>2, <1>5 DEF Stats!Wait
  <2>2. \E a \in {"new", "reading", "answered", "failed"}, s, n, l \in Int :
          overview' = [at |-> a, since |-> s, now |-> n, length |-> l]
    BY <2>1
  <2> QED
    BY <1>5, <2>2 DEF StatsTyped, Stats!Wait
<1>6. CASE Stats!Tick
  <2>1. halfDay' \in 0..MaxHalfDays
    BY <1>0, <1>6 DEF Stats!Tick, StatsTyped
  <2> QED
    BY <1>6, <2>1 DEF StatsTyped, Stats!Tick
<1>7. ASSUME NEW s \in Stats!Sections, Stats!Fetch(s) PROVE StatsTyped'
  <2>1. DOMAIN out' \subseteq Stats!Sections
    BY <1>7 DEF StatsTyped, Stats!Fetch
  <2> QED
    BY <1>7, <2>1 DEF StatsTyped, Stats!Fetch
<1>8. ASSUME NEW i \in Stats!Ids, Stats!CreateOrder(i) \/ Stats!PatchOrder(i) PROVE StatsTyped'
  <2>1. orders' \in [Stats!Ids -> [at : 0..MaxHalfDays, status : Stats!Statuses]]
    <3>1. CASE Stats!CreateOrder(i)
      BY <3>1 DEF StatsTyped, Stats!CreateOrder, Stats!Statuses
    <3>2. CASE Stats!PatchOrder(i)
      BY <3>2 DEF StatsTyped, Stats!PatchOrder
    <3> QED
      BY <1>8, <3>1, <3>2
  <2>2. Stats!Edit
    BY <1>8 DEF Stats!CreateOrder, Stats!PatchOrder
  <2>3. edits' \in 0..MaxChanges
    BY <1>0, <2>2 DEF Stats!Edit, StatsTyped
  <2> QED
    BY <2>1, <2>2, <2>3 DEF StatsTyped, Stats!Edit
<1> QED
  BY <1>1, <1>3, <1>4, <1>5, <1>6, <1>7, <1>8 DEF Stats!Next

LEMMA StatsCount ==
  ASSUME NEW S
  PROVE  Stats!Cardinality(S) = Cardinality(S) /\ (Stats!IsFiniteSet(S) <=> IsFiniteSet(S))
  BY DEF Cardinality, Stats!Cardinality, IsFiniteSet, Stats!IsFiniteSet

(* What is sold has finitely many units. *)
LEMMA UnitsFinite ==
  ASSUME NEW S \in SUBSET Nat, IsFiniteSet(S)
  PROVE  IsFiniteSet(Stats!Units([i \in S |-> Stats!Price(i)]))
<1> DEFINE unit == [i \in S |-> {i} \X (1 .. i)]
           all == {{i} \X (1 .. i) : i \in S}
<1>1. ASSUME NEW i \in S PROVE IsFiniteSet({i} \X (1 .. i))
  <2> DEFINE pair == [n \in 1 .. i |-> <<i, n>>]
  <2>1. i \in Int /\ 1 \in Int
    OBVIOUS
  <2>2. IsFiniteSet(1 .. i)
    BY <2>1, FS_Interval
  <2>3. pair \in Surjection(1 .. i, {i} \X (1 .. i))
    <3>1. pair \in [1 .. i -> {i} \X (1 .. i)]
      OBVIOUS
    <3>2. ASSUME NEW t \in {i} \X (1 .. i) PROVE \E n \in 1 .. i : pair[n] = t
      OBVIOUS
    <3> QED
      BY <3>1, <3>2 DEF Surjection
  <2> QED
    BY <2>2, <2>3, FS_Surjection
<1>2. unit \in Surjection(S, all)
  BY DEF Surjection
<1>3. IsFiniteSet(all)
  BY <1>2, FS_Surjection
<1>4. \A T \in all : IsFiniteSet(T)
  BY <1>1
<1>5. Stats!Units([i \in S |-> Stats!Price(i)]) = UNION all
  BY DEF Stats!Units, Stats!Price
<1> HIDE DEF all, unit
<1> QED
  BY <1>3, <1>4, <1>5, FS_UNION

Group(S, key, k) == {i \in S : key[i] = k}

LEMMA RevenueOf == ASSUME NEW T PROVE Stats!Revenue(T) = Cardinality(Stats!Units([i \in T |-> Stats!Price(i)]))
BY StatsCount DEF Stats!Revenue

LEMMA UnitsOf ==
  ASSUME NEW a
  PROVE  \A u : u \in Stats!Units(a) <=> \E k \in DOMAIN a : \E n \in 1 .. a[k] : u = <<k, n>>
<1>1. Stats!Units(a) = UNION {{k} \X (1 .. a[k]) : k \in DOMAIN a}
  BY DEF Stats!Units
<1>2. ASSUME NEW u, NEW k \in DOMAIN a, u \in {k} \X (1 .. a[k]) PROVE \E n \in 1 .. a[k] : u = <<k, n>>
  BY <1>2
<1>3. ASSUME NEW k \in DOMAIN a, NEW n \in 1 .. a[k] PROVE <<k, n>> \in {k} \X (1 .. a[k])
  OBVIOUS
<1> QED
  BY <1>1, <1>2, <1>3

(* A sum by groups is the sum of the whole: each unit is in the row of its order. *)
LEMMA SumOfGroups ==
  ASSUME NEW S \in SUBSET Nat, IsFiniteSet(S), NEW key, NEW K, \A i \in S : key[i] \in K, NEW shown,
         \A k \in K : shown[k].revenue = Stats!Revenue(Group(S, key, k))
  PROVE  Stats!SumOf(shown, K) = Stats!Revenue(S)
<1> DEFINE whole == Stats!Units([i \in S |-> Stats!Price(i)])
           piece(k) == Stats!Units([i \in Group(S, key, k) |-> Stats!Price(i)])
           amount == [k \in K |-> shown[k].revenue]
           all == Stats!Units(amount)
           g == [k \in K |-> CHOOSE f : f \in Bijection(1 .. amount[k], piece(k))]
           h == [u \in all |-> g[u[1]][u[2]]]
<1>1. IsFiniteSet(whole)
  BY UnitsFinite
<1>2. \A k \in K : g[k] \in Bijection(1 .. amount[k], piece(k))
  <2> TAKE k \in K
  <2>1. Group(S, key, k) \in SUBSET S /\ Group(S, key, k) \in SUBSET Nat
    BY DEF Group
  <2>2. IsFiniteSet(Group(S, key, k))
    BY <2>1, FS_Subset
  <2>3. IsFiniteSet(piece(k))
    BY <2>1, <2>2, UnitsFinite
  <2>4. amount[k] = Cardinality(piece(k))
    BY RevenueOf
  <2> HIDE DEF amount
  <2>5. ExistsBijection(1 .. amount[k], piece(k))
    BY <2>3, <2>4, FS_CardinalityType
  <2> QED
    BY <2>5 DEF ExistsBijection
<1>3. \A k \in K : \A t : t \in piece(k) <=> t \in whole /\ key[t[1]] = k
  <2>1. ASSUME NEW T PROVE \A t : t \in Stats!Units([i \in T |-> Stats!Price(i)])
                                  <=> \E i \in T : \E n \in 1 .. i : t = <<i, n>>
    BY UnitsOf DEF Stats!Price
  <2> HIDE DEF whole, piece
  <2>2. \A t : t \in whole <=> \E i \in S : \E n \in 1 .. i : t = <<i, n>>
    BY <2>1 DEF whole
  <2>3. \A k : \A t : t \in piece(k) <=> \E i \in Group(S, key, k) : \E n \in 1 .. i : t = <<i, n>>
    BY <2>1 DEF piece
  <2>4. ASSUME NEW k, NEW t PROVE t \in piece(k) <=> t \in whole /\ key[t[1]] = k
    <3>1. ASSUME t \in piece(k) PROVE t \in whole /\ key[t[1]] = k
      <4>1. PICK i \in Group(S, key, k) : \E n \in 1 .. i : t = <<i, n>>
        BY <2>3, <3>1
      <4>2. i \in S /\ key[i] = k
        BY DEF Group
      <4>3. t[1] = i
        BY <4>1
      <4> QED
        BY <2>2, <4>1, <4>2, <4>3
    <3>2. ASSUME t \in whole, key[t[1]] = k PROVE t \in piece(k)
      <4>1. PICK i \in S : \E n \in 1 .. i : t = <<i, n>>
        BY <2>2, <3>2
      <4>2. i \in Group(S, key, k)
        BY <3>2, <4>1 DEF Group
      <4> QED
        BY <2>3, <4>1, <4>2
    <3> QED
      BY <3>1, <3>2
  <2> QED
    BY <2>4
<1>4. \A u : u \in all <=> \E k \in K : \E n \in 1 .. amount[k] : u = <<k, n>>
  BY UnitsOf
<1>5. Stats!SumOf(shown, K) = Cardinality(all) /\ Stats!Revenue(S) = Cardinality(whole)
  BY RevenueOf, StatsCount DEF Stats!SumOf
<1>6. \A t \in whole : key[t[1]] \in K
  BY DEF Stats!Units
<1> HIDE DEF g, piece, whole, all, amount
<1>7. ASSUME NEW u \in all PROVE h[u] \in whole /\ key[h[u][1]] = u[1] /\ h[u] = g[u[1]][u[2]]
                                 /\ u[1] \in K /\ u[2] \in 1 .. amount[u[1]] /\ u = <<u[1], u[2]>>
  <2>1. PICK k \in K : \E n \in 1 .. amount[k] : u = <<k, n>>
    BY <1>4
  <2>2. PICK n \in 1 .. amount[k] : u = <<k, n>>
    BY <2>1
  <2>3. h[u] = g[k][n]
    BY <2>2
  <2>4. g[k][n] \in piece(k)
    BY <1>2 DEF Bijection, Injection
  <2> QED
    BY <1>3, <2>2, <2>3, <2>4
<1>8. h \in [all -> whole]
  BY <1>7
<1>9. ASSUME NEW u \in all, NEW v \in all, h[u] = h[v] PROVE u = v
  <2>1. u[1] = v[1]
    BY <1>7, <1>9
  <2>2. IsInjective(g[u[1]]) /\ DOMAIN g[u[1]] = 1 .. amount[u[1]]
    BY <1>2, <1>7 DEF Bijection, Injection
  <2>3. u[2] = v[2]
    BY <1>7, <1>9, <2>1, <2>2 DEF IsInjective
  <2> QED
    BY <1>7, <2>1, <2>3
<1>10. ASSUME NEW t \in whole PROVE \E u \in all : h[u] = t
  <2>1. PICK k \in K : k = key[t[1]]
    BY <1>6
  <2>2. PICK n \in 1 .. amount[k] : g[k][n] = t
    BY <1>2, <1>3, <2>1 DEF Bijection, Surjection
  <2>3. <<k, n>> \in all
    BY <1>4
  <2>4. h[<<k, n>>] = g[k][n]
    BY <2>3
  <2> QED
    BY <2>2, <2>3, <2>4
<1> HIDE DEF h
<1>11. h \in Injection(all, whole) /\ h \in Surjection(all, whole)
  BY <1>8, <1>9, <1>10 DEF Injection, Surjection, IsInjective
<1>12. Cardinality(all) = Cardinality(whole)
  BY <1>1, <1>11, FS_Injection
<1> QED
  BY <1>5, <1>12

(* What an overview under way or answered shows: the sections read so far are those of the
   orders as they are, when none of them changed. *)
SparkTold ==
  \A d \in DOMAIN out["spark"] :
    out["spark"][d].orders = Cardinality({i \in Stats!Made(0) : Stats!DayOf(orders[i].at) = d})

StatsInv ==
  /\ StatsTyped
  /\ \A i \in Stats!Ids : orders[i].at <= halfDay
  /\ overview.at = "new" => DOMAIN out = {}
  /\ overview.at = "answered" => DOMAIN out = Stats!Sections
  /\ overview.at \in {"reading", "answered"} /\ ~stirred =>
       /\ overview.since <= overview.now
       /\ \A i \in Stats!Ids : orders[i].at <= overview.now
       /\ \A s \in DOMAIN out \ {"spark"} : out[s] = Stats!Read(s)
       /\ "spark" \in DOMAIN out => SparkTold

LEMMA StatsConstants ==
  /\ MaxHalfDays \in Nat \ {0} /\ Stats!Ids \in SUBSET Nat /\ IsFiniteSet(Stats!Ids)
  /\ Days \subseteq Nat
  BY BackOfficeAssumption, StatsCount DEF Stats!DashboardAssumption, Stats!Ids

(* Each statement but the one of the sparklines reads the orders and the window alone. *)
LEMMA SameReads ==
  ASSUME orders' = orders, overview'.since = overview.since, overview'.now = overview.now,
         overview'.length = overview.length
  PROVE  /\ \A s \in Stats!Sections \ {"spark"} : Stats!Read(s)' = Stats!Read(s)
         /\ out'["spark"] = out["spark"] /\ SparkTold => SparkTold'
<1>1. ASSUME NEW s \in Stats!Sections \ {"spark"} PROVE Stats!Read(s)' = Stats!Read(s)
  <2>1. \A from : Stats!Made(from)' = Stats!Made(from) /\ Stats!Sold(from)' = Stats!Sold(from)
    BY DEF Stats!Made, Stats!Sold
  <2>2. CASE s = "revenue"
    BY <2>2 DEF Stats!Read, Stats!CurrentWindow, Stats!Sold, Stats!Made
  <2>3. CASE s = "previous"
    BY <2>3 DEF Stats!Read, Stats!PreviousWindow, Stats!Sold, Stats!Made
  <2>4. CASE s = "pending"
    BY <2>4 DEF Stats!Read, Stats!Pending
  <2>5. CASE s = "decided"
    BY <2>5 DEF Stats!Read, Stats!Decided, Stats!Made, Stats!Processed
  <2>6. CASE s = "delivered"
    BY <2>6 DEF Stats!Read, Stats!Delivered, Stats!Made
  <2>7. CASE s = "status"
    BY <2>7 DEF Stats!Read, Stats!OrdersByStatus, Stats!GroupBy, Stats!Made
  <2>8. CASE s = "days"
    BY <2>8 DEF Stats!Read, Stats!RevenueByDay, Stats!fillDayGaps, Stats!DaysShown, Stats!GroupBy, Stats!Sold, Stats!Made
  <2>9. CASE s = "payment"
    BY <2>9 DEF Stats!Read, Stats!PaymentMethods, Stats!GroupBy, Stats!Sold, Stats!Made
  <2> QED
    BY <2>2, <2>3, <2>4, <2>5, <2>6, <2>7, <2>8, <2>9 DEF Stats!Sections
<1>2. ASSUME out'["spark"] = out["spark"], SparkTold PROVE SparkTold'
  BY <1>2 DEF SparkTold, Stats!Made
<1> QED
  BY <1>1, <1>2

LEMMA StatsInvInit == Stats!Init => StatsInv
<1> SUFFICES ASSUME Stats!Init PROVE StatsInv
  OBVIOUS
<1>1. StatsTyped
  BY StatsInit
<1>2. \A i \in Stats!Ids : orders[i].at <= halfDay
  BY StatsConstants DEF Stats!Init
<1>3. overview.at = "new" /\ out = << >>
  BY DEF Stats!Init
<1> QED
  BY <1>1, <1>2, <1>3 DEF StatsInv

LEMMA StatsInvStep == StatsInv /\ [Stats!Next]_(Stats!vars) => StatsInv'
<1> SUFFICES ASSUME StatsInv, [Stats!Next]_(Stats!vars) PROVE StatsInv'
  OBVIOUS
<1>1. StatsTyped /\ StatsTyped'
  BY StatsStep DEF StatsInv
<1>2. CASE UNCHANGED Stats!vars
  <2>1. \A s \in Stats!Sections \ {"spark"} : Stats!Read(s)' = Stats!Read(s)
    BY <1>2, SameReads DEF Stats!vars
  <2>2. SparkTold => SparkTold'
    BY <1>2, SameReads DEF Stats!vars
  <2> QED
    BY <1>1, <1>2, <2>1, <2>2 DEF StatsInv, Stats!vars, StatsTyped
<1>3. CASE Stats!Overview
  <2>1. PICK days \in Days :
          overview' = [at |-> "reading", now |-> halfDay, since |-> halfDay - 2 * days, length |-> 2 * days]
    BY <1>3 DEF Stats!Overview
  <2>2. DOMAIN out' = {} /\ orders' = orders /\ halfDay' = halfDay
    BY <1>3 DEF Stats!Overview, StatsInv
  <2>3. overview'.since <= overview'.now /\ overview'.now = halfDay /\ overview'.at = "reading"
    BY <1>1, <2>1, StatsConstants DEF StatsTyped
  <2> QED
    BY <1>1, <2>2, <2>3 DEF StatsInv
<1>4. CASE Stats!FetchFails
  <2>1. overview'.at = "failed" /\ orders' = orders /\ halfDay' = halfDay
    BY <1>1, <1>4 DEF Stats!FetchFails, StatsTyped
  <2> QED
    BY <1>1, <2>1 DEF StatsInv
<1>5. CASE Stats!Wait
  <2>1. /\ overview'.at = "answered" /\ overview'.since = overview.since /\ overview'.now = overview.now
        /\ overview'.length = overview.length
    BY <1>1, <1>5 DEF Stats!Wait, StatsTyped
  <2>2. /\ overview.at = "reading" /\ DOMAIN out = Stats!Sections
        /\ UNCHANGED <<orders, halfDay, out, stirred>>
    BY <1>5 DEF Stats!Wait
  <2>3. \A s \in Stats!Sections \ {"spark"} : Stats!Read(s)' = Stats!Read(s)
    BY <2>1, <2>2, SameReads
  <2>4. SparkTold => SparkTold'
    BY <2>1, <2>2, SameReads
  <2> QED
    BY <1>1, <2>1, <2>2, <2>3, <2>4 DEF StatsInv, StatsTyped
<1>6. CASE Stats!Tick
  <2>1. /\ UNCHANGED <<orders, out, stirred, overview>> /\ halfDay' = halfDay + 1
    BY <1>6 DEF Stats!Tick
  <2>2. \A s \in Stats!Sections \ {"spark"} : Stats!Read(s)' = Stats!Read(s)
    BY <2>1, SameReads
  <2>3. SparkTold => SparkTold'
    BY <2>1, SameReads
  <2>4. \A i \in Stats!Ids : orders'[i].at <= halfDay'
    BY <1>1, <2>1, StatsConstants DEF StatsInv, StatsTyped
  <2> QED
    BY <1>1, <2>1, <2>2, <2>3, <2>4 DEF StatsInv, StatsTyped
<1>7. ASSUME NEW s \in Stats!Sections, Stats!Fetch(s) PROVE StatsInv'
  <2>1. /\ overview.at = "reading" /\ UNCHANGED <<orders, halfDay, overview, stirred>>
        /\ DOMAIN out' = DOMAIN out \union {s} /\ out'[s] = Stats!Read(s)
        /\ \A t \in DOMAIN out : t # s /\ out'[t] = out[t]
    BY <1>7 DEF Stats!Fetch
  <2>2. \A t \in Stats!Sections \ {"spark"} : Stats!Read(t)' = Stats!Read(t)
    BY <2>1, SameReads
  <2>3. out'["spark"] = out["spark"] /\ SparkTold => SparkTold'
    BY <2>1, SameReads
  <2>4. CASE s = "spark"
    <3>1. out'["spark"] = Stats!Sparklines
      BY <2>1, <2>4 DEF Stats!Read
    <3>2. SparkTold'
      <4>1. Stats!Made(0)' = Stats!Made(0)
        BY <2>1 DEF Stats!Made
      <4>2. \A d \in DOMAIN Stats!Sparklines :
              Stats!Sparklines[d].orders = Cardinality({i \in Stats!Made(0) : Stats!DayOf(orders[i].at) = d})
        BY StatsCount DEF Stats!Sparklines
      <4> QED
        BY <2>1, <3>1, <4>1, <4>2 DEF SparkTold
    <3> QED
      BY <1>1, <2>1, <2>2, <2>4, <3>2 DEF StatsInv, StatsTyped
  <2>5. CASE s # "spark"
    BY <1>1, <2>1, <2>2, <2>3, <2>5 DEF StatsInv, StatsTyped
  <2> QED
    BY <2>4, <2>5
<1>8. ASSUME NEW i \in Stats!Ids, Stats!CreateOrder(i) \/ Stats!PatchOrder(i) PROVE StatsInv'
  <2>1. stirred' = TRUE /\ UNCHANGED <<halfDay, overview, out>>
    BY <1>8 DEF Stats!CreateOrder, Stats!PatchOrder, Stats!Edit
  <2>2. \A j \in Stats!Ids : orders'[j].at <= halfDay'
    <3>1. CASE Stats!CreateOrder(i)
      BY <1>1, <2>1, <3>1 DEF Stats!CreateOrder, StatsInv, StatsTyped
    <3>2. CASE Stats!PatchOrder(i)
      BY <1>1, <2>1, <3>2 DEF Stats!PatchOrder, StatsInv, StatsTyped
    <3> QED
      BY <1>8, <3>1, <3>2
  <2>3. overview.at # "answered"
    BY <1>8 DEF Stats!CreateOrder, Stats!PatchOrder, Stats!Edit
  <2> QED
    BY <1>1, <2>1, <2>2, <2>3 DEF StatsInv
<1> QED
  BY <1>2, <1>3, <1>4, <1>5, <1>6, <1>7, <1>8 DEF Stats!Next

(* The rows of a statement with a GROUP BY. *)
RowsOf(S, key) == [k \in {key[i] : i \in S} |-> Stats!Totals(Group(S, key, k))]
StatusKey == [i \in Stats!Ids |-> orders[i].status]
DayKey == [i \in Stats!Ids |-> Stats!DayOf(orders[i].at)]

LEMMA GroupTotals ==
  ASSUME NEW S, NEW key, NEW k, NEW row, row = Stats!Totals(Group(S, key, k))
  PROVE  row.revenue = Stats!Revenue(Group(S, key, k)) /\ row.count = Cardinality(Group(S, key, k))
  BY StatsCount DEF Stats!Totals

LEMMA StatementRows ==
  /\ Stats!OrdersByStatus = RowsOf(Stats!Made(overview.since), StatusKey)
  /\ Stats!PaymentMethods = RowsOf(Stats!Sold(overview.since), MethodOf)
  /\ Stats!RevenueByDay = RowsOf(Stats!Sold(overview.since), DayKey)
<1> DEFINE made == Stats!Made(overview.since)
           sold == Stats!Sold(overview.since)
<1>1. made \subseteq Stats!Ids /\ sold \subseteq Stats!Ids
  BY DEF Stats!Made, Stats!Sold
<1>2. Stats!OrdersByStatus = [k \in {orders[i].status : i \in made} |-> Stats!Totals({i \in made : orders[i].status = k})]
  BY DEF Stats!OrdersByStatus, Stats!GroupBy
<1>3. Stats!PaymentMethods = [k \in {MethodOf[i] : i \in sold} |-> Stats!Totals({i \in sold : MethodOf[i] = k})]
  BY DEF Stats!PaymentMethods, Stats!GroupBy
<1>4. Stats!RevenueByDay = [k \in {Stats!DayOf(orders[i].at) : i \in sold} |->
                              Stats!Totals({i \in sold : Stats!DayOf(orders[i].at) = k})]
  BY DEF Stats!RevenueByDay, Stats!GroupBy
<1> HIDE DEF made, sold
<1>5. {orders[i].status : i \in made} = {StatusKey[i] : i \in made}
  BY <1>1 DEF StatusKey
<1>6. \A k : {i \in made : orders[i].status = k} = Group(made, StatusKey, k)
  BY <1>1 DEF StatusKey, Group
<1>7. {Stats!DayOf(orders[i].at) : i \in sold} = {DayKey[i] : i \in sold}
  BY <1>1 DEF DayKey
<1>8. \A k : {i \in sold : Stats!DayOf(orders[i].at) = k} = Group(sold, DayKey, k)
  BY <1>1 DEF DayKey, Group
<1>9. \A k : {i \in sold : MethodOf[i] = k} = Group(sold, MethodOf, k)
  BY DEF Group
<1>10. Stats!OrdersByStatus = RowsOf(made, StatusKey)
  BY <1>2, <1>5, <1>6 DEF RowsOf
<1>11. Stats!PaymentMethods = RowsOf(sold, MethodOf)
  BY <1>3, <1>9 DEF RowsOf
<1>12. Stats!RevenueByDay = RowsOf(sold, DayKey)
  BY <1>4, <1>7, <1>8 DEF RowsOf
<1> QED
  BY <1>10, <1>11, <1>12 DEF made, sold

LEMMA StatsFinite == ASSUME NEW S \in SUBSET Stats!Ids PROVE S \in SUBSET Nat /\ IsFiniteSet(S)
  BY StatsConstants, FS_Subset

(* What is shown of the groups of S adds up to the revenue of S. *)
LEMMA ShownSum ==
  ASSUME NEW S \in SUBSET Stats!Ids, NEW key, NEW K, \A i \in S : key[i] \in K, NEW shown,
         \A k \in K : shown[k] = Stats!Totals(Group(S, key, k))
  PROVE  Stats!SumOf(shown, K) = Stats!Revenue(S)
<1>1. \A k \in K : shown[k].revenue = Stats!Revenue(Group(S, key, k))
  BY GroupTotals
<1> QED
  BY <1>1, StatsFinite, SumOfGroups

(* A row of a day, also of one without sales. *)
LEMMA DayRow ==
  ASSUME NEW d \in Stats!DaysShown
  PROVE  Stats!fillDayGaps(Stats!RevenueByDay)[d] = Stats!Totals(Group(Stats!Sold(overview.since), DayKey, d))
<1> DEFINE sold == Stats!Sold(overview.since)
           byDay == Stats!RevenueByDay
<1>1. byDay = RowsOf(sold, DayKey)
  BY StatementRows
<1> HIDE DEF byDay
<1>2. Stats!fillDayGaps(byDay)[d] = IF d \in DOMAIN byDay THEN byDay[d] ELSE Stats!Totals({})
  BY DEF Stats!fillDayGaps
<1> HIDE DEF sold
<1>3. CASE d \in DOMAIN byDay
  BY <1>1, <1>2, <1>3 DEF RowsOf, byDay, sold
<1>4. CASE d \notin DOMAIN byDay
  <2>1. \A i \in sold : DayKey[i] # d
    BY <1>1, <1>4 DEF RowsOf
  <2>2. Group(sold, DayKey, d) = {}
    BY <2>1 DEF Group
  <2> QED
    BY <1>2, <1>4, <2>2 DEF byDay, sold
<1> QED
  BY <1>3, <1>4

(* In UTC every day of a sale is shown. *)
LEMMA SaleShown ==
  ASSUME Zone = 0, StatsTyped, \A i \in Stats!Ids : orders[i].at <= overview.now,
         NEW i \in Stats!Sold(overview.since)
  PROVE  DayKey[i] \in Stats!DaysShown
<1>1. /\ i \in Stats!Ids /\ orders[i].at \in 0..MaxHalfDays
      /\ overview.since <= orders[i].at /\ orders[i].at <= overview.now
      /\ overview.since \in Int /\ overview.now \in Int
  BY DEF StatsTyped, Stats!Sold, Stats!Made
<1>2. PICK at \in Int : at = orders[i].at
  BY <1>1
<1>3. PICK since \in Int, now \in Int : since = overview.since /\ now = overview.now
  BY <1>1
<1>4. since <= at /\ at <= now => since \div 2 <= at \div 2 /\ at \div 2 <= now \div 2
  OBVIOUS
<1>5. DayKey[i] = at \div 2 /\ at \div 2 \in Int
  BY <1>1, <1>2 DEF DayKey, Stats!DayOf
<1>6. Stats!DaysShown = (since \div 2) .. (now \div 2)
  BY <1>3 DEF Stats!DaysShown, Stats!DayOf
<1> QED
  BY <1>1, <1>2, <1>3, <1>4, <1>5, <1>6

LEMMA CountRow ==
  ASSUME out["status"] = RowsOf(Stats!Made(overview.since), StatusKey), NEW status
  PROVE  Stats!CountOf(status) = Cardinality(Group(Stats!Made(overview.since), StatusKey, status))
<1> DEFINE made == Stats!Made(overview.since)
<1> HIDE DEF made
<1>1. CASE status \in DOMAIN out["status"]
  <2>1. out["status"][status] = Stats!Totals(Group(made, StatusKey, status))
    BY <1>1 DEF RowsOf, made
  <2>2. out["status"][status].count = Cardinality(Group(made, StatusKey, status))
    BY <2>1, GroupTotals
  <2> QED
    BY <1>1, <2>2 DEF Stats!CountOf, made
<1>2. CASE status \notin DOMAIN out["status"]
  <2>1. \A i \in made : StatusKey[i] # status
    BY <1>2 DEF RowsOf, made
  <2>2. Group(made, StatusKey, status) = {}
    BY <2>1 DEF Group
  <2> QED
    BY <1>2, <2>2, FS_EmptySet DEF Stats!CountOf, made
<1> QED
  BY <1>1, <1>2

LEMMA SectionsTold == ASSUME StatsInv, Zone = 0 PROVE Stats!SectionsAgree
<1> SUFFICES ASSUME overview.at = "answered", ~stirred PROVE Stats!SectionsAgree
  BY DEF Stats!SectionsAgree
<1> DEFINE made == Stats!Made(overview.since)
           sold == Stats!Sold(overview.since)
<1>1. StatsTyped /\ \A i \in Stats!Ids : orders[i].at <= overview.now
  BY DEF StatsInv
<1>2. \A s \in Stats!Sections \ {"spark"} : out[s] = Stats!Read(s)
  BY DEF StatsInv
<1>3. SparkTold
  BY DEF StatsInv, Stats!Sections
<1>4. /\ out["revenue"] = Stats!CurrentWindow /\ out["status"] = Stats!OrdersByStatus
      /\ out["days"] = Stats!fillDayGaps(Stats!RevenueByDay) /\ out["payment"] = Stats!PaymentMethods
      /\ out["decided"] = Stats!Decided /\ out["delivered"] = Stats!Delivered /\ out["pending"] = Stats!Pending
  BY <1>2 DEF Stats!Sections, Stats!Read
<1>5. out["revenue"].revenue = Stats!Revenue(sold)
  BY <1>4 DEF Stats!CurrentWindow, Stats!Totals
<1>6. /\ made \subseteq Stats!Ids /\ sold \subseteq made
      /\ \A i \in made : i \in sold <=> StatusKey[i] # "cancelled"
  BY DEF Stats!Made, Stats!Sold, StatusKey
<1>7. /\ out["status"] = RowsOf(made, StatusKey) /\ out["payment"] = RowsOf(sold, MethodOf)
  BY <1>4, StatementRows
<1>8. DOMAIN out["days"] = Stats!DaysShown
      /\ \A d \in Stats!DaysShown : out["days"][d] = Stats!Totals(Group(sold, DayKey, d))
  BY <1>4, DayRow DEF Stats!fillDayGaps
<1>9. \A i \in sold : DayKey[i] \in Stats!DaysShown
  BY <1>1, SaleShown
<1>10. \A s : Stats!CountOf(s) = Cardinality(Group(made, StatusKey, s))
  BY <1>7, CountRow
<1>11. /\ out["decided"].cancelled = Cardinality({i \in made : orders[i].status = "cancelled"})
       /\ out["decided"].processed = Cardinality({i \in made : orders[i].status \in {"confirmed", "delivered"}})
       /\ out["delivered"].count = Cardinality({i \in made : orders[i].status = "delivered"})
       /\ out["pending"].count = Cardinality({i \in Stats!Ids : orders[i].status = "pending"})
  BY <1>4, StatsCount DEF Stats!Decided, Stats!Processed, Stats!Delivered, Stats!Pending
<1>12. \A s : {i \in made : orders[i].status = s} = Group(made, StatusKey, s)
  BY <1>6 DEF Group, StatusKey
<1>13. sold \subseteq Stats!Made(0)
  BY <1>1 DEF Stats!Sold, Stats!Made, StatsTyped
<1> HIDE DEF made, sold
<1>14. Stats!SumOf(out["days"], DOMAIN out["days"]) = out["revenue"].revenue
  BY <1>5, <1>6, <1>8, <1>9, ShownSum
<1>15. Stats!SumOf(out["payment"], DOMAIN out["payment"]) = out["revenue"].revenue
  <2>1. /\ \A i \in sold : MethodOf[i] \in DOMAIN out["payment"]
        /\ \A k \in DOMAIN out["payment"] : out["payment"][k] = Stats!Totals(Group(sold, MethodOf, k))
    BY <1>7 DEF RowsOf
  <2> QED
    BY <1>5, <1>6, <2>1, ShownSum
<1>16. Stats!SumOf(out["status"], DOMAIN out["status"] \ {"cancelled"}) = out["revenue"].revenue
  <2>1. \A k : k # "cancelled" => Group(made, StatusKey, k) = Group(sold, StatusKey, k)
    BY <1>6 DEF Group
  <2>2. /\ \A i \in sold : StatusKey[i] \in DOMAIN out["status"] \ {"cancelled"}
        /\ \A k \in DOMAIN out["status"] \ {"cancelled"} : out["status"][k] = Stats!Totals(Group(sold, StatusKey, k))
    BY <1>6, <1>7, <2>1 DEF RowsOf
  <2> QED
    BY <1>5, <1>6, <2>2, ShownSum
<1>17. /\ out["decided"].cancelled = Stats!CountOf("cancelled")
      /\ out["delivered"].count = Stats!CountOf("delivered")
  BY <1>10, <1>11, <1>12
<1>18. out["decided"].processed = Stats!CountOf("confirmed") + Stats!CountOf("delivered")
  <2> DEFINE c == Group(made, StatusKey, "confirmed")
             d == Group(made, StatusKey, "delivered")
  <2>1. {i \in made : orders[i].status \in {"confirmed", "delivered"}} = c \union d /\ c \intersect d = {}
    BY <1>12 DEF Group
  <2>2. c \in SUBSET Stats!Ids /\ d \in SUBSET Stats!Ids
    BY <1>6 DEF Group
  <2>3. IsFiniteSet(c) /\ IsFiniteSet(d)
    BY <2>2, StatsFinite
  <2> HIDE DEF c, d
  <2>4. Cardinality(c \union d) = Cardinality(c) + Cardinality(d)
    <3>1. Cardinality(c \union d) = Cardinality(c) + Cardinality(d) - Cardinality(c \intersect d)
      BY <2>3, FS_Union
    <3>2. Cardinality(c \intersect d) = 0
      BY <2>1, FS_EmptySet
    <3>3. Cardinality(c) \in Nat /\ Cardinality(d) \in Nat
      BY <2>3, FS_CardinalityType
    <3> QED
      BY <3>1, <3>2, <3>3
  <2> QED
    BY <1>10, <1>11, <2>1, <2>4 DEF c, d
<1>19. out["pending"].count >= Stats!CountOf("pending")
  <2> DEFINE p == {i \in Stats!Ids : orders[i].status = "pending"}
  <2>1. p \in SUBSET Stats!Ids /\ Group(made, StatusKey, "pending") \in SUBSET p
    BY <1>6, <1>12
  <2>2. IsFiniteSet(p)
    BY <2>1, StatsFinite
  <2>3. Cardinality(Group(made, StatusKey, "pending")) <= Cardinality(p)
    BY <2>1, <2>2, FS_Subset
  <2>4. Cardinality(Group(made, StatusKey, "pending")) \in Nat /\ Cardinality(p) \in Nat
    BY <2>1, <2>2, FS_Subset, FS_CardinalityType
  <2> HIDE DEF p
  <2> QED
    BY <1>10, <1>11, <2>3, <2>4 DEF p
<1>20. ASSUME NEW d \in DOMAIN out["days"] \intersect DOMAIN out["spark"]
      PROVE  out["days"][d].count <= out["spark"][d].orders
  <2> DEFINE m == {i \in Stats!Made(0) : Stats!DayOf(orders[i].at) = d}
  <2>1. out["days"][d].count = Cardinality(Group(sold, DayKey, d))
    BY <1>8, GroupTotals
  <2>2. out["spark"][d].orders = Cardinality(m)
    BY <1>3 DEF SparkTold
  <2>3. m \in SUBSET Stats!Ids /\ Group(sold, DayKey, d) \in SUBSET m
    BY <1>6, <1>13 DEF Stats!Made, Group, DayKey
  <2>4. IsFiniteSet(m)
    BY <2>3, StatsFinite
  <2> HIDE DEF m
  <2>5. Cardinality(Group(sold, DayKey, d)) <= Cardinality(m)
    BY <2>3, <2>4, FS_Subset
  <2> QED
    BY <2>1, <2>2, <2>5
<1> QED
  BY <1>14, <1>15, <1>16, <1>17, <1>18, <1>19, <1>20 DEF Stats!SectionsAgree

StatsPart == IF focus = "stats" THEN StatsInv ELSE overview.at = "new"

LEMMA StatsHolds == OfficeSpec => []StatsPart
<1>1. ASSUME OfficeInit PROVE StatsPart
  <2>1. Stats!Init
    BY <1>1 DEF OfficeInit
  <2>2. StatsInv
    BY <2>1, StatsInvInit
  <2>3. overview.at = "new"
    BY <2>1 DEF Stats!Init
  <2> QED
    BY <2>2, <2>3 DEF StatsPart
<1>2. ASSUME StatsPart, [OfficeNext]_officeVars PROVE StatsPart'
  <2>1. focus' = focus
    BY <1>2 DEF OfficeNext, officeVars
  <2>2. CASE focus = "stats"
    <3>1. [Stats!Next]_(Stats!vars)
      BY <1>2, <2>2 DEF OfficeNext, officeVars, statsVars, Stats!vars
    <3> QED
      BY <1>2, <2>1, <2>2, <3>1, StatsInvStep DEF StatsPart
  <2>3. CASE focus # "stats"
    <3>1. overview' = overview
      BY <1>2, <2>3 DEF OfficeNext, officeVars, statsVars
    <3> QED
      BY <1>2, <2>1, <2>3, <3>1 DEF StatsPart
  <2> QED
    BY <2>2, <2>3
<1> QED
  BY <1>1, <1>2, PTL DEF OfficeSpec

(* Whatever orders there are and whatever the administrator asks for, the sections of an
   overview tell the same story when no order changed while they were read and the server
   runs in UTC: the revenue is that of its days, of its payment methods and of the statuses
   but the cancelled, and the counts agree (stats_service.go:59-192, stats_store.go:55-403). *)
THEOREM SectionsCorrect == Zone = 0 /\ OfficeSpec => []SectionsAgree
<1>1. StatsPart /\ Zone = 0 => SectionsAgree
  <2> SUFFICES ASSUME StatsPart, Zone = 0 PROVE Stats!SectionsAgree
    BY DEF SectionsAgree
  <2>1. CASE focus = "stats"
    BY <2>1, SectionsTold DEF StatsPart
  <2>2. CASE focus # "stats"
    BY <2>2 DEF StatsPart, Stats!SectionsAgree
  <2> QED
    BY <2>1, <2>2
<1>2. CASE Zone = 0
  <2>1. StatsPart => SectionsAgree
    BY <1>1, <1>2
  <2> QED
    BY <2>1, StatsHolds, PTL
<1>3. CASE Zone # 0
  BY <1>3
<1> QED
  BY <1>2, <1>3

-----------------------------------------------------------------------------
(* The part in focus is typed: by the invariants above, and by the bounds of the common
   counters where these do not speak of them. *)
Parts == {"listing", "stats", "account", "import", "book", "taxonomy", "login"}
OfficeInv ==
  /\ focus \in Parts
  /\ focus = "book" => BookInv
  /\ focus = "stats" => StatsTyped
  /\ focus = "account" => faults \in 0..MaxFaults
  /\ focus = "import" => edits \in 0..MaxEdits /\ faults \in 0..MaxFaults

Failing == faults' = faults \/ (faults < MaxFaults /\ faults' = faults + 1)
Editing == edits' = edits \/ (edits < MaxEdits /\ edits' = edits + 1)

LEMMA ImportCounters == [Import!Next]_(Import!vars) => Failing /\ Editing
<1> SUFFICES ASSUME [Import!Next]_(Import!vars) PROVE Failing /\ Editing
  OBVIOUS
<1>1. ASSUME NEW i \in Imports, Import!ImportProducts(i) \/ Import!Command(i) PROVE Failing /\ Editing
  BY <1>1 DEF Failing, Editing, Import!ImportProducts, Import!Command, Import!ImportFromFile, Import!ImportFromCSV,
              Import!CategorySlugIndexFails, Import!Fault
<1>2. ASSUME NEW i \in Imports, Import!Look(i) PROVE Failing /\ Editing
  BY <1>2 DEF Failing, Editing, Import!Look, Import!Fault
<1>3. ASSUME NEW i \in Imports, Import!Create(i) PROVE Failing /\ Editing
  BY <1>3 DEF Failing, Editing, Import!Create, Import!Fault
<1>4. ASSUME NEW i \in Imports, Import!Interrupt(i) PROVE Failing /\ Editing
  BY <1>4 DEF Failing, Editing, Import!Interrupt
<1>5. ASSUME NEW name \in Names, NEW sku \in Codes, Import!CreateProduct(name, sku) PROVE Failing /\ Editing
  BY <1>5 DEF Failing, Editing, Import!CreateProduct, Import!Edit
<1>6. ASSUME NEW p \in shop, Import!Delete(p) PROVE Failing /\ Editing
  BY <1>6 DEF Failing, Editing, Import!Delete, Import!Edit
<1>7. ASSUME NEW p \in shop, NEW name \in Names, NEW sku \in Codes, Import!Rename(p, name, sku)
      PROVE  Failing /\ Editing
  BY <1>7 DEF Failing, Editing, Import!Rename, Import!Edit
<1>8. CASE UNCHANGED Import!vars
  BY <1>8 DEF Failing, Editing, Import!vars
<1> QED
  BY <1>1, <1>2, <1>3, <1>4, <1>5, <1>6, <1>7, <1>8 DEF Import!Next

LEMMA OfficeInvHolds == OfficeSpec => []OfficeInv
<1>0. MaxFaults \in Nat /\ MaxEdits \in Nat
  BY BackOfficeAssumption, AddressBookAssumption DEF Taxonomy!CategoriesAssumption
<1>1. OfficeInit => OfficeInv
  <2> SUFFICES ASSUME OfficeInit PROVE OfficeInv
    OBVIOUS
  <2>1. focus \in Parts
    BY DEF OfficeInit, Parts
  <2>2. BookInv
    BY InitBook DEF OfficeInit
  <2>3. StatsTyped
    BY StatsInit DEF OfficeInit
  <2>4. edits = 0 /\ faults = 0
    BY DEF OfficeInit, Import!Init
  <2> QED
    BY <1>0, <2>1, <2>2, <2>3, <2>4 DEF OfficeInv
<1>2. ASSUME OfficeInv, [OfficeNext]_officeVars PROVE OfficeInv'
  <2>1. focus' = focus
    BY <1>2 DEF OfficeNext, officeVars
  <2>2. CASE focus = "book"
    <3>1. [Next]_vars
      BY <1>2, <2>2 DEF OfficeNext, officeVars, bookVars, vars
    <3> QED
      BY <1>2, <2>1, <2>2, <3>1, BookStep DEF OfficeInv
  <2>3. CASE focus = "stats"
    <3>1. [Stats!Next]_(Stats!vars)
      BY <1>2, <2>3 DEF OfficeNext, officeVars, statsVars, Stats!vars
    <3> QED
      BY <1>2, <2>1, <2>3, <3>1, StatsStep DEF OfficeInv
  <2>4. CASE focus = "account"
    <3>1. [Account!Next]_(Account!vars)
      BY <1>2, <2>4 DEF OfficeNext, officeVars, accountVars, Account!vars
    <3>2. Failing
      BY <3>1, Account!StepFaults DEF Failing
    <3> QED
      BY <1>0, <1>2, <2>1, <2>4, <3>2 DEF OfficeInv, Failing
  <2>5. CASE focus = "import"
    <3>1. [Import!Next]_(Import!vars)
      BY <1>2, <2>5 DEF OfficeNext, officeVars, importVars, Import!vars
    <3>2. Failing /\ Editing
      BY <3>1, ImportCounters
    <3> QED
      BY <1>0, <1>2, <2>1, <2>5, <3>2 DEF OfficeInv, Failing, Editing
  <2> QED
    BY <1>2, <2>1, <2>2, <2>3, <2>4, <2>5 DEF OfficeInv
<1> QED
  BY <1>1, <1>2, PTL DEF OfficeSpec

LEMMA BookTypes == BookInv => TypeOK
  BY DEF BookInv, Typed, RequestState, Answers, TypeOK, Sound, Locking

LEMMA StatsTypes == StatsTyped => Stats!TypeOK
<1> SUFFICES ASSUME StatsTyped PROVE Stats!TypeOK
  OBVIOUS
<1>1. overview.at \in {"new", "reading", "answered", "failed"}
  BY DEF StatsTyped
<1>2. \A i \in Stats!Ids : orders[i].at \in 0..MaxHalfDays /\ orders[i].status \in Stats!Statuses
  BY DEF StatsTyped
<1> QED
  BY <1>1, <1>2 DEF StatsTyped, Stats!TypeOK

LEMMA TaxonomyTypes == TaxonomyInv => Taxonomy!TypeOK
  BY DEF TaxonomyInv, TableOK, CategoryRow, Taxonomy!TypeOK, Taxonomy!Present

LEMMA ListTypes == ListInv => Listing!TypeOK
<1> SUFFICES ASSUME ListInv PROVE Listing!TypeOK
  OBVIOUS
<1>1. MaxShelf \in Nat
  BY BackOfficeAssumption DEF Listing!ProductListAssumption
<1>2. shelf \in Listing!BoundedSeq(Kinds, MaxShelf)
  <2>1. PICK n \in Nat : n = Len(shelf) /\ shelf \in [1..n -> Kinds]
    BY DEF ListInv, ListTyped
  <2>2. n \in 0..MaxShelf
    BY <1>1, <2>1 DEF ListInv, ListTyped
  <2> QED
    BY <2>1, <2>2 DEF Listing!BoundedSeq, Listing!SeqOf
<1> QED
  BY <1>2 DEF ListInv, ListTyped, WalkState, Listing!TypeOK

LEMMA ImportTypes == ImportInv /\ edits \in 0..MaxEdits /\ faults \in 0..MaxFaults => Import!TypeOK
<1> SUFFICES ASSUME ImportInv, edits \in 0..MaxEdits, faults \in 0..MaxFaults PROVE Import!TypeOK
  OBVIOUS
<1>1. (\A p \in shop : p.of \in 0..Len(file)) /\ \A p, q \in shop : p.slug = q.slug => p = q
  BY DEF ImportInv, ShopOK, ProductRow
<1>2. ASSUME NEW i \in Imports
      PROVE  /\ run[i].at \in {"new", "refused", "look", "create", "killed", "done"}
             /\ run[i].created + run[i].skipped + run[i].failed = run[i].k - 1
  BY DEF ImportInv, ImportState, UsedOK
<1> QED
  BY <1>1, <1>2 DEF ImportInv, Import!TypeOK

(* Every variable of the part in focus has its type: addresses, accounts and slugs are told
   apart by their unique indexes, and a run of the import counts each article once
   (AddressBook, Accounts, ProductImport, Categories, ProductList, Gatekeeper, Dashboard). *)
THEOREM OfficeTypesCorrect == OfficeSpec => []OfficeTypeOK
<1>1. /\ OfficeInv /\ Account!AccountsInv /\ Login!GatekeeperInv /\ TaxonomyPart /\ ListPart /\ ImportInv
      => OfficeTypeOK
  <2> SUFFICES ASSUME OfficeInv, Account!AccountsInv, Login!GatekeeperInv, TaxonomyPart, ListPart, ImportInv
               PROVE  OfficeTypeOK
    OBVIOUS
  <2>1. focus \in Parts
    BY DEF OfficeInv
  <2>2. focus = "book" => TypeOK
    BY BookTypes DEF OfficeInv
  <2>3. focus = "account" => Account!TypeOK
    BY Account!InvTypes DEF OfficeInv
  <2>4. focus = "import" => Import!TypeOK
    BY ImportTypes DEF OfficeInv
  <2>5. focus = "taxonomy" => Taxonomy!TypeOK
    BY TaxonomyTypes DEF TaxonomyPart
  <2>6. focus = "listing" => Listing!TypeOK
    BY ListTypes DEF ListPart
  <2>7. Login!TypeOK
    BY BackOfficeAssumption, Login!InvTypes
  <2>8. focus = "stats" => Stats!TypeOK
    BY StatsTypes DEF OfficeInv
  <2> QED
    BY <2>1, <2>2, <2>3, <2>4, <2>5, <2>6, <2>7, <2>8 DEF OfficeTypeOK, Parts
<1> QED
  BY <1>1, OfficeInvHolds, AccountsHold, LoginHolds, TaxonomyHolds, ListHolds, ImportsHold, PTL
=============================================================================
