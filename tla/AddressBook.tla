----------------------------- MODULE AddressBook -----------------------------
(***************************************************************************)
(* The addresses of one user: handler/address.go, service/                 *)
(* address_service.go and store/postgres/address_store.go, over the        *)
(* partial unique index of migration 008.  The requests of the user, from  *)
(* several windows or from his checkouts, run as transactions at READ      *)
(* COMMITTED, statement by statement.  An address is named by its place in *)
(* the order of creation.  Of an address only is_default is kept: the      *)
(* other columns are written as a whole and nothing here depends on them.  *)
(*                                                                         *)
(* LockedNone and PromoteNone are used by no action: each is what a slip   *)
(* in the code would make of what follows it.                              *)
(***************************************************************************)
EXTENDS Integers, FiniteSets

CONSTANTS
  Requests,     \* requests, each used once
  MaxAddresses, \* bound on the addresses ever created
  MaxFaults     \* bound on failing statements

ASSUME AddressBookAssumption == MaxAddresses \in Nat /\ MaxFaults \in Nat

VARIABLES
  book,     \* the committed table: an address is absent, plain or the default
  born,     \* number of addresses ever inserted
  request,  \* local state of each request
  faults,   \* statements failed so far
  lapsed    \* history: has something happened that may leave the user without a default

vars == <<book, born, request, faults, lapsed>>

Ids == 1..MaxAddresses
Rows == {"absent", "plain", "default"}
Ops == {"create", "update", "unset", "setDefault", "delete"}
Untouched == [i \in Ids |-> "unwritten"]

(* op and id are the request's; want is the flag it will write; prev the   *)
(* flag of the row its transaction took; seen the default its UPDATE       *)
(* found, 0 for none; writes what it has written and not committed.        *)
Idle == [op |-> "none", at |-> "new", id |-> 0, want |-> FALSE, prev |-> FALSE, seen |-> 0,
         writes |-> Untouched, alone |-> TRUE, answer |-> "none"]

\* Any book a user can have: no address, or addresses of which one is the default.
Init ==
  /\ born \in 0..MaxAddresses
  /\ book \in [Ids -> Rows]
  /\ \A i \in Ids : i > born => book[i] = "absent"
  /\ Cardinality({i \in Ids : book[i] = "default"}) =
       IF \E i \in Ids : book[i] # "absent" THEN 1 ELSE 0
  /\ request = [r \in Requests |-> Idle]
  /\ faults = 0
  /\ lapsed = FALSE

-----------------------------------------------------------------------------
(* What a transaction sees, and what it has to wait for. *)

Running(r) == request[r].at \notin {"new", "done"}
Wrote(r, i) == request[r].writes[i] # "unwritten"
SeenBy(r, i) == IF Wrote(r, i) THEN request[r].writes[i] ELSE book[i]

\* A row that another transaction has written and not committed is locked.
LockedNone(r, i) == FALSE
Locked(r, i) == \E q \in Requests \ {r} : Wrote(q, i)

\* An entry of the index that another transaction is about to remove or to add.
IndexBusy(r, i) ==
  \E q \in Requests \ {r}, j \in Ids \ {i} :
    Wrote(q, j) /\ "default" \in {book[j], request[q].writes[j]}

\* CREATE UNIQUE INDEX idx_addresses_user_default ... WHERE is_default = true
IndexViolated(r, i) == \E j \in Ids \ {i} : SeenBy(r, j) = "default"

Go(r, step) == request' = [request EXCEPT ![r].at = step]
Stop(r, answer) ==
  request' = [request EXCEPT ![r] = [Idle EXCEPT !.at = "done", !.answer = answer, !.alone = request[r].alone]]

\* An UPDATE or INSERT that gives row i its value; a default goes through the index.
Put(r, i, row, step) ==
  /\ row = "default" => ~IndexBusy(r, i)
  /\ IF row = "default" /\ IndexViolated(r, i)
       THEN Stop(r, "conflict")
       ELSE request' = [request EXCEPT ![r].writes[i] = row, ![r].at = step]

-----------------------------------------------------------------------------
(* The requests arrive. *)

\* Every running request is from now on beside r, and r beside them.
Arrive(r, op, id, want, step) ==
  /\ request[r].at = "new"
  /\ request' =
       [q \in Requests |->
         IF q = r THEN [Idle EXCEPT !.op = op, !.id = id, !.want = want, !.at = step,
                                    !.alone = \A p \in Requests : ~Running(p)]
         ELSE IF Running(q) THEN [request[q] EXCEPT !.alone = FALSE] ELSE request[q]]
  /\ UNCHANGED <<book, born, faults, lapsed>>

CreateRequest(r) ==
  \E want \in BOOLEAN : Arrive(r, "create", 0, want, "validate")

UpdateRequest(r) ==
  \E id \in 1..born, flag \in {"keep", "set", "unset"} :
    Arrive(r, IF flag = "unset" THEN "unset" ELSE "update", id, flag = "set", flag)

SetDefaultRequest(r) ==
  \E id \in 1..born : Arrive(r, "setDefault", id, TRUE, "take")

DeleteRequest(r) ==
  \E id \in 1..born : Arrive(r, "delete", id, FALSE, "take")

GetByID(id) == book[id] # "absent"
FindMatching == {id \in 1..born : book[id] # "absent"}

\* A checkout keeps its shipping address: a matching one is written again with
\* the flag it was read with, otherwise a plain one is created.
SaveFromShipping(r) ==
  \/ \E id \in FindMatching : Arrive(r, "update", id, book[id] = "default", "take")
  \/ Arrive(r, "create", 0, FALSE, "begin")

-----------------------------------------------------------------------------
(* AddressService, before the transaction. *)

Create(r) ==
  /\ request[r].at = "validate"
  /\ Go(r, "begin") \/ Stop(r, "refused")
  /\ UNCHANGED <<book, born, faults, lapsed>>

\* The flag of a request without one is that of the address as it is read here.
UpdateService(r) ==
  /\ request[r].at \in {"keep", "set", "unset"}
  /\ IF ~GetByID(request[r].id)
       THEN Stop(r, "missing")
       ELSE \/ Stop(r, "refused")
            \/ request' = [request EXCEPT ![r].at = "take",
                 ![r].want = IF request[r].at = "keep" THEN book[request[r].id] = "default" ELSE @]
  /\ UNCHANGED <<book, born, faults, lapsed>>

-----------------------------------------------------------------------------
(* AddressStore, one statement at a time. *)

\* A new default clears the old one; a plain address is the default of an empty book.
Begin(r) ==
  /\ request[r].at = "begin"
  /\ request' = [request EXCEPT ![r].at = IF request[r].want THEN "snap" ELSE "insert",
                                ![r].want = @ \/ \A i \in Ids : book[i] = "absent"]
  /\ UNCHANGED <<book, born, faults, lapsed>>

Take(r) ==
  /\ request[r].at = "take"
  /\ LET row == book[request[r].id]
         step == CASE request[r].op = "delete" -> "remove"
                   [] request[r].op = "setDefault" -> "snap"
                   [] OTHER -> IF request[r].want /\ row # "default" THEN "snap" ELSE "write"
     IN  IF row = "absent" THEN Stop(r, "missing")
         ELSE request' = [request EXCEPT ![r].at = step, ![r].prev = row = "default"]
  /\ UNCHANGED <<book, born, faults, lapsed>>

\* The UPDATE of clearDefaultAddress looks for the default in the table as it is now ...
IsDefault(i) == book[i] = "default"
Snap(r) ==
  /\ request[r].at = "snap"
  /\ LET found == {i \in Ids : IsDefault(i)}
     IN  request' = [request EXCEPT ![r].at = "clear",
                       ![r].seen = IF found = {} THEN 0 ELSE CHOOSE i \in found : TRUE]
  /\ UNCHANGED <<book, born, faults, lapsed>>

\* ... and writes it once nobody else holds it, if it is a default still.
Clear(r) ==
  /\ request[r].at = "clear"
  /\ LET i == request[r].seen
         next == IF request[r].op = "create" THEN "insert" ELSE "write"
     IN  /\ i # 0 => ~Locked(r, i)
         /\ IF i # 0 /\ book[i] = "default"
              THEN request' = [request EXCEPT ![r].writes[i] = "plain", ![r].at = next]
              ELSE Go(r, next)
  /\ UNCHANGED <<book, born, faults, lapsed>>

Insert(r) ==
  /\ request[r].at = "insert"
  /\ born < MaxAddresses
  /\ born' = born + 1
  /\ Put(r, born + 1, IF request[r].want THEN "default" ELSE "plain", "commit")
  /\ UNCHANGED <<book, faults, lapsed>>

\* An UPDATE by id: of no row when the address is gone.
Write(r) ==
  /\ request[r].at = "write"
  /\ ~Locked(r, request[r].id)
  /\ IF SeenBy(r, request[r].id) = "absent"
       THEN Go(r, "commit")
       ELSE Put(r, request[r].id, IF request[r].want THEN "default" ELSE "plain", "commit")
  /\ UNCHANGED <<book, born, faults, lapsed>>

Remove(r) ==
  /\ request[r].at = "remove"
  /\ ~Locked(r, request[r].id)
  /\ request' = [request EXCEPT ![r].writes[request[r].id] = IF book[request[r].id] = "absent" THEN @ ELSE "absent",
                                ![r].at = IF request[r].prev THEN "next" ELSE "commit"]
  /\ UNCHANGED <<book, born, faults, lapsed>>

\* The newest of the other addresses becomes the default.
PromoteNone(r) == {}
Others(r) == {i \in Ids : SeenBy(r, i) # "absent"}
Promote(r) ==
  /\ request[r].at = "next"
  /\ IF Others(r) = {}
       THEN Go(r, "commit")
       ELSE request' = [request EXCEPT ![r].at = "write", ![r].want = TRUE,
              ![r].id = CHOOSE i \in Others(r) : \A j \in Others(r) : j <= i]
  /\ UNCHANGED <<book, born, faults, lapsed>>

\* A default is given up by an update asked to unset it; it may get lost beside
\* another request, when the address is deleted or an update writes back the
\* flag it read before (address_service.go:77, address_store.go:143-153).
GivesUp(r) ==
  \/ request[r].op = "unset"
  \/ request[r].op = "delete" /\ ~request[r].alone
  \/ /\ request[r].op = "update" /\ ~request[r].want /\ ~request[r].alone
     /\ book[request[r].id] = "default"

Commit(r) ==
  /\ request[r].at = "commit"
  /\ book' = [i \in Ids |-> SeenBy(r, i)]
  /\ lapsed' = (lapsed \/ GivesUp(r))
  /\ Stop(r, "ok")
  /\ UNCHANGED <<born, faults>>

\* A statement fails or the client leaves: withTransaction rolls back.
Fail(r) ==
  /\ Running(r)
  /\ faults < MaxFaults
  /\ faults' = faults + 1
  /\ Stop(r, "failed")
  /\ UNCHANGED <<book, born, lapsed>>

-----------------------------------------------------------------------------
Step(r) ==
  \/ Create(r) \/ UpdateService(r)
  \/ Begin(r) \/ Take(r) \/ Snap(r) \/ Clear(r) \/ Insert(r)
  \/ Write(r) \/ Remove(r) \/ Promote(r) \/ Commit(r)

Next ==
  \E r \in Requests :
    \/ CreateRequest(r) \/ UpdateRequest(r) \/ SetDefaultRequest(r) \/ DeleteRequest(r)
    \/ SaveFromShipping(r)
    \/ Step(r)
    \/ Fail(r)

Spec == Init /\ [][Next]_vars

-----------------------------------------------------------------------------
Steps == {"new", "validate", "keep", "set", "unset", "begin", "take", "snap", "clear", "insert",
          "write", "remove", "next", "commit", "done"}

\* Each variable and each request has its type, and two transactions never hold the same row.
TypeOK ==
  /\ book \in [Ids -> Rows]
  /\ born \in 0..MaxAddresses
  /\ faults \in 0..MaxFaults
  /\ lapsed \in BOOLEAN
  /\ request \in [Requests -> [op : Ops \union {"none"}, at : Steps, id : 0..MaxAddresses,
       want : BOOLEAN, prev : BOOLEAN, seen : 0..MaxAddresses, writes : [Ids -> Rows \union {"unwritten"}],
       alone : BOOLEAN, answer : {"none", "ok", "refused", "missing", "conflict", "failed"}]]
  /\ \A i \in Ids, r, q \in Requests : Wrote(r, i) /\ Wrote(q, i) => r = q

\* The unique index refuses a request only beside another one: alone,
\* clearDefaultAddress has made room.
ConflictNeedsCompany == \A r \in Requests : request[r].answer = "conflict" => ~request[r].alone

\* A user with addresses has a default one: requests that create, choose, edit
\* and delete keep it in any interleaving, until an update is asked to unset it
\* or an address is deleted, or the default edited, beside another request of
\* the user; and a request of its own is never refused for a second default
\* (address_store.go:103-117, 139-153, 179, 200-206).
DefaultKept ==
  /\ lapsed \/ (\A i \in Ids : book[i] = "absent") \/ \E i \in Ids : book[i] = "default"
  /\ ConflictNeedsCompany
=============================================================================
