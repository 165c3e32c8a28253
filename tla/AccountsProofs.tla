--------------------------- MODULE AccountsProofs ---------------------------
(***************************************************************************)
(* What every step keeps of Accounts, for any addresses, requests, number  *)
(* of accounts, tokens and failing statements.  The inductive invariant    *)
(* AccountsInv has six parts, proved one after the other:                  *)
(*   Steady   the types, and requests that stand where their call is;      *)
(*   Apart    an e-mail belongs to one account;                            *)
(*   Claimed  what is claimed by sessions, and by requests about to open   *)
(*            one, is covered by the account;                              *)
(*   Linking  whose row a sign-up and a link are about to write;           *)
(*   HalfMadeIsExplained as it stands;                                     *)
(*   Spending who holds a token, how often it was used.                    *)
(* Apart, Claimed and HalfMadeIsExplained rest on UsersMove: a step inserts*)
(* one row, deletes one or raises one.  OfficeProofs states the results    *)
(* for the behaviours of the back office.                                  *)
(***************************************************************************)
EXTENDS Accounts, TLAPS

(* The types, those of TypeOK without the counter of faults, which others count too. *)
Typed ==
  /\ users \in [Ids -> UserRow]
  /\ tokens \in [Tokens -> TokenRow]
  /\ sessions \subseteq Session
  /\ call \in [Requests -> RequestState]
  /\ shaky \subseteq Tokens

(* An e-mail belongs to one account (the unique index of migration 001). *)
Apart == \A i, j \in Ids : Present(i) /\ users[i].email = users[j].email => i = j

(* What a request knows where it stands: the e-mail while its statements still need it,
   its token while it holds one, no answer before its end. *)
Placed(c) ==
  /\ c.at = "new" => c = Idle
  /\ c.at \in {"check", "insert", "password", "mail"} => c.op = "signup"
  /\ c.at \in {"check", "insert", "lookup", "join", "promote", "make"} => c.email \in Emails
  /\ c.at \in {"lookup", "join"} => c.role = "user"
  /\ c.at \in {"token", "apply", "reload", "spend"} => c.token \in Tokens
  /\ c.answer # "none" => c.at = "done"

(* Types, and requests that stand where their call takes them. *)
Steady == Typed /\ \A r \in Requests : Placed(call[r])

(* The rows that stand for none, or for a new one, are rows. *)
LEMMA Ranges ==
  ASSUME AccountsAssumption
  PROVE  /\ 0 \in Ids /\ 1 \in Ids /\ 0 \in 0..MaxTokens
         /\ \A t \in Tokens : t \in 0..MaxTokens
         /\ NoUser \in UserRow /\ Deleted \in UserRow /\ Founder \in UserRow
         /\ Idle \in RequestState /\ NoToken \in TokenRow
<1>1. 0 \in Ids /\ 1 \in Ids /\ 0 \in 0..MaxTokens /\ \A t \in Tokens : t \in 0..MaxTokens
  BY DEF AccountsAssumption, Ids, Tokens
<1>2. NoUser \in UserRow /\ Deleted \in UserRow /\ Founder \in UserRow
  BY DEF AccountsAssumption, NoUser, Deleted, Founder, UserRow, Roles, Providers
<1>3. Idle \in RequestState /\ NoToken \in TokenRow
  BY <1>1 DEF Idle, NoToken, RequestState, TokenRow, Roles, Providers, Steps
<1> QED
  BY <1>1, <1>2, <1>3

(* A request that goes on to a state of a request leaves the others where they are. *)
LEMMA Called ==
  ASSUME NEW r \in Requests, NEW new \in RequestState, Placed(new), Steady, call' = [call EXCEPT ![r] = new]
  PROVE  /\ call' \in [Requests -> RequestState]
         /\ \A q \in Requests : Placed(call'[q])
         /\ call'[r] = new /\ \A q \in Requests \ {r} : call'[q] = call[q]
  BY DEF Steady, Typed

(* One that only takes its next step keeps what it knows. *)
LEMMA Going ==
  ASSUME Steady, NEW r \in Requests, NEW step \in Steps, Go(r, step),
         call[r].answer = "none", step # "new",
         step \in {"check", "insert", "password", "mail"} => call[r].op = "signup",
         step \in {"check", "insert", "lookup", "join", "promote", "make"} => call[r].email \in Emails,
         step \in {"lookup", "join"} => call[r].role = "user",
         step \in {"token", "apply", "reload", "spend"} => call[r].token \in Tokens
  PROVE  /\ call' \in [Requests -> RequestState]
         /\ \A q \in Requests : Placed(call'[q])
         /\ \A q \in Requests \ {r} : call'[q] = call[q]
         /\ call'[r] = [call[r] EXCEPT !.at = step]
<1> DEFINE new == [call[r] EXCEPT !.at = step]
<1>1. call[r] \in RequestState
  BY DEF Steady, Typed
<1>2. new \in RequestState
  BY <1>1 DEF RequestState
<1>3. Placed(new)
  BY <1>1 DEF Placed, RequestState
<1>4. call' = [call EXCEPT ![r] = new]
  BY DEF Go
<1> QED
  BY <1>2, <1>3, <1>4, Called

(* One that ends keeps its kind and its account, with an answer. *)
LEMMA Stopping ==
  ASSUME AccountsAssumption, Steady, NEW r \in Requests, NEW answer \in {"created", "ok", "taken", "refused", "failed"},
         Stop(r, answer)
  PROVE  /\ call' \in [Requests -> RequestState]
         /\ \A q \in Requests : Placed(call'[q])
         /\ \A q \in Requests \ {r} : call'[q] = call[q]
         /\ call'[r].at = "done" /\ call'[r].answer = answer /\ call'[r].op = call[r].op
         /\ call'[r].user = call[r].user
<1> DEFINE new == [Idle EXCEPT !.op = call[r].op, !.user = call[r].user, !.at = "done", !.answer = answer]
<1>1. call[r] \in RequestState
  BY DEF Steady, Typed
<1>2. new \in RequestState
  BY <1>1, Ranges, ZenonT(60) DEF RequestState, Idle, Steps
<1>3. Placed(new) /\ new.at = "done" /\ new.answer = answer /\ new.op = call[r].op /\ new.user = call[r].user
  BY <1>1 DEF Placed, Idle
<1>4. call' = [call EXCEPT ![r] = new]
  BY DEF Stop
<1> QED
  BY <1>2, <1>3, <1>4, Called

(* A new request touches nothing else. *)
LEMMA Arriving ==
  ASSUME Steady, NEW r \in Requests, NEW new \in RequestState, Placed(new), Arrive(r, new)
  PROVE  Steady'
<1>1. call' = [call EXCEPT ![r] = new] /\ UNCHANGED <<users, tokens, sessions, faults, shaky>>
  BY DEF Arrive
<1> QED
  BY <1>1, Called DEF Steady, Typed

(* The seven ways a request arrives, each at the first step of its call. *)
LEMMA Arrivals ==
  ASSUME AccountsAssumption, Steady, NEW r \in Requests,
         \/ CreateUserRequest(r) \/ CreateAdmin(r) \/ CompleteAuth(r) \/ ForgotPassword(r)
         \/ ResetPasswordRequest(r) \/ ActivateAccountRequest(r) \/ Command(r)
  PROVE  \E new \in RequestState : /\ Placed(new) /\ Arrive(r, new)
                                   /\ new.at \in {"check", "lookup", "ask", "token", "promote"}
                                   /\ new.answer = "none"
<1> DEFINE Good(new) ==
      /\ new \in RequestState /\ Placed(new) /\ new.answer = "none"
      /\ new.at \in {"check", "lookup", "ask", "token", "promote"}
<1> USE DEF Idle, Steps, Roles
<1>1. CASE CreateUserRequest(r)
  <2>1. PICK e \in Emails : Arrive(r, [Idle EXCEPT !.op = "signup", !.at = "check", !.email = e])
    BY <1>1 DEF CreateUserRequest
  <2>2. Good([Idle EXCEPT !.op = "signup", !.at = "check", !.email = e])
    BY Ranges DEF RequestState, Placed
  <2> QED
    BY <2>1, <2>2
<1>2. CASE CreateAdmin(r)
  <2>1. PICK e \in Emails : Arrive(r, [Idle EXCEPT !.op = "signup", !.at = "check", !.email = e, !.role = "admin"])
    BY <1>2 DEF CreateAdmin
  <2>2. Good([Idle EXCEPT !.op = "signup", !.at = "check", !.email = e, !.role = "admin"])
    BY Ranges DEF RequestState, Placed
  <2> QED
    BY <2>1, <2>2
<1>3. CASE CompleteAuth(r)
  <2>1. PICK e \in Emails : Arrive(r, [Idle EXCEPT !.op = "oauth", !.at = "lookup", !.email = e])
    BY <1>3 DEF CompleteAuth
  <2>2. Good([Idle EXCEPT !.op = "oauth", !.at = "lookup", !.email = e])
    BY Ranges DEF RequestState, Placed
  <2> QED
    BY <2>1, <2>2
<1>4. CASE ForgotPassword(r)
  <2>1. PICK e \in Emails : Arrive(r, [Idle EXCEPT !.op = "forgot", !.at = "ask", !.email = e])
    BY <1>4 DEF ForgotPassword
  <2>2. Good([Idle EXCEPT !.op = "forgot", !.at = "ask", !.email = e])
    BY Ranges DEF RequestState, Placed
  <2> QED
    BY <2>1, <2>2
<1>5. CASE ResetPasswordRequest(r) \/ ActivateAccountRequest(r)
  <2>1. PICK op \in {"reset", "activate"}, t \in Tokens :
          Arrive(r, [Idle EXCEPT !.op = op, !.at = "token", !.token = t])
    BY <1>5 DEF ResetPasswordRequest, ActivateAccountRequest, TokenRequest, IssuedTokens
  <2>2. Good([Idle EXCEPT !.op = op, !.at = "token", !.token = t])
    BY Ranges DEF RequestState, Placed
  <2> QED
    BY <2>1, <2>2
<1>6. CASE Command(r)
  <2>1. PICK e \in Emails : Arrive(r, [Idle EXCEPT !.op = "command", !.at = "promote", !.email = e, !.role = "admin"])
    BY <1>6 DEF Command
  <2>2. Good([Idle EXCEPT !.op = "command", !.at = "promote", !.email = e, !.role = "admin"])
    BY Ranges, ZenonT(60) DEF RequestState, Placed
  <2> QED
    BY <2>1, <2>2
<1> QED
  BY <1>1, <1>2, <1>3, <1>4, <1>5, <1>6

(* The columns a statement writes keep a row a row. *)
LEMMA Rows ==
  ASSUME NEW row \in UserRow
  PROVE  /\ [row EXCEPT !.provider = "oauth"] \in UserRow /\ [row EXCEPT !.role = "admin"] \in UserRow
         /\ [row EXCEPT !.verified = TRUE] \in UserRow /\ [row EXCEPT !.password = TRUE] \in UserRow
         /\ WithHash(row) \in UserRow /\ \A set \in BOOLEAN : UpdateUser(row, set) \in UserRow
<1> USE DEF UserRow, Providers, Roles
<1>1. [row EXCEPT !.provider = "oauth"] \in UserRow /\ [row EXCEPT !.role = "admin"] \in UserRow
  OBVIOUS
<1>2. [row EXCEPT !.verified = TRUE] \in UserRow /\ [row EXCEPT !.password = TRUE] \in UserRow
  OBVIOUS
<1>3. WithHash(row) \in UserRow /\ \A set \in BOOLEAN : UpdateUser(row, set) \in UserRow
  BY DEF WithHash, UpdateUser
<1> QED
  BY <1>1, <1>2, <1>3

(* So do those of the two inserts. *)
LEMMA NewRows ==
  ASSUME NEW e \in Emails, NEW role \in Roles
  PROVE  /\ \A provider \in Providers :
              [NoUser EXCEPT !.email = e, !.provider = ProviderStored(provider), !.role = role] \in UserRow
         /\ [email |-> e, password |-> TRUE, provider |-> "password", role |-> "admin", verified |-> TRUE] \in UserRow
  BY DEF UserRow, ProviderStored, NoUser, Providers, Roles

(* A token is issued into a row that was unborn. *)
LEMMA Issued ==
  ASSUME AccountsAssumption, Steady, NEW type \in {"activation", "password_reset"}, NEW id \in Ids,
         CreateValidationToken(type, id)
  PROVE  tokens' \in [Tokens -> TokenRow]
<1>1. PICK t \in Tokens : tokens' = [tokens EXCEPT ![t] = [type |-> type, user |-> id, used |-> 0]]
  BY DEF CreateValidationToken
<1>2. [type |-> type, user |-> id, used |-> 0] \in TokenRow
  BY DEF TokenRow
<1> QED
  BY <1>1, <1>2 DEF Steady, Typed

(* A token that is used or deleted keeps a row. *)
LEMMA Spent ==
  ASSUME Steady, NEW t \in Tokens
  PROVE  /\ DeleteValidationToken(t) \in [Tokens -> TokenRow]
         /\ [tokens EXCEPT ![t].used = IF @ < 2 THEN @ + 1 ELSE @] \in [Tokens -> TokenRow]
<1>1. tokens[t] \in TokenRow
  BY DEF Steady, Typed
<1>2. [tokens[t] EXCEPT !.type = "gone"] \in TokenRow
  BY <1>1 DEF TokenRow
<1>3. [tokens[t] EXCEPT !.used = IF tokens[t].used < 2 THEN tokens[t].used + 1 ELSE tokens[t].used] \in TokenRow
  BY <1>1 DEF TokenRow
<1> QED
  BY <1>1, <1>2, <1>3 DEF Steady, Typed, DeleteValidationToken

(* What is claimed is a session. *)
LEMMA Opened ==
  ASSUME Steady, NEW claims \in Session, OpenSession(claims)
  PROVE  sessions' \subseteq Session
  BY DEF Steady, Typed, OpenSession

(* SignUpWithPassword (auth_service.go:76-165): its four statements. *)
LEMMA SignUpSteady ==
  ASSUME AccountsAssumption, Steady, NEW r \in Requests,
         SignUpCheck(r) \/ SignUpInsert(r) \/ SignUpPassword(r) \/ SignUpMail(r)
  PROVE  Steady'
<1> USE DEF Steady, Typed
<1>0. call[r] \in RequestState /\ Placed(call[r])
  OBVIOUS
<1>1. CASE SignUpCheck(r)
  <2>1. UNCHANGED <<users, tokens, sessions, shaky>> /\ (Stop(r, "taken") \/ Go(r, "insert"))
    BY <1>1 DEF SignUpCheck
  <2>2. call' \in [Requests -> RequestState] /\ \A q \in Requests : Placed(call'[q])
    <3>1. CASE Stop(r, "taken")
      BY <3>1, Stopping, SMTT(60)
    <3>2. CASE Go(r, "insert")
      BY <1>0, <1>1, <3>2, Going DEF SignUpCheck, Placed, Steps
    <3> QED
      BY <2>1, <3>1, <3>2
  <2> QED
    BY <2>1, <2>2
<1>2. CASE SignUpInsert(r)
  <2>1. CASE Stop(r, "taken") /\ UNCHANGED users
    BY <1>2, <2>1, Stopping DEF SignUpInsert
  <2>2. ASSUME NEW id \in Fresh, CreateUser(id, call[r].email, "", call[r].role),
               call' = [call EXCEPT ![r].at = "password", ![r].user = id]
        PROVE  Steady'
    <3> DEFINE new == [call[r] EXCEPT !.at = "password", !.user = id]
    <3>1. id \in Ids /\ call[r].op = "signup" /\ call[r].email \in Emails /\ call[r].answer = "none"
          /\ call[r].role \in Roles
      BY <1>0, <1>2 DEF Fresh, SignUpInsert, Placed, RequestState
    <3>2. new \in RequestState /\ Placed(new)
      BY <1>0, <3>1 DEF RequestState, Placed, Steps
    <3>3. call' = [call EXCEPT ![r] = new]
      BY <2>2
    <3>4. users' \in [Ids -> UserRow]
      BY <2>2, <3>1, NewRows DEF CreateUser, Providers
    <3> QED
      BY <1>2, <3>2, <3>3, <3>4, Called DEF SignUpInsert
  <2> QED
    BY <1>2, <2>1, <2>2 DEF SignUpInsert
<1>3. CASE SignUpPassword(r)
  <2>1. call[r].user \in Ids /\ UNCHANGED <<tokens, sessions, shaky>>
    BY <1>0, <1>3, SMTT(60) DEF SignUpPassword, RequestState
  <2>2. CASE users' = [users EXCEPT ![call[r].user] = WithHash(@)] /\ Go(r, "mail")
    <3>1. users' \in [Ids -> UserRow]
      BY <2>1, <2>2, Rows
    <3> QED
      BY <1>0, <1>3, <2>1, <2>2, <3>1, Going DEF SignUpPassword, Placed, Steps
  <2>3. CASE Stop(r, "failed") /\ UNCHANGED users
    BY <2>1, <2>3, Stopping
  <2> QED
    BY <1>3, <2>2, <2>3 DEF SignUpPassword
<1>4. CASE SignUpMail(r)
  <2>1. tokens' \in [Tokens -> TokenRow]
    BY <1>0, <1>4, Issued, SMTT(60) DEF SignUpMail, generateActivationToken, RequestState
  <2> QED
    BY <1>4, <2>1, Stopping DEF SignUpMail
<1> QED
  BY <1>1, <1>2, <1>3, <1>4

(* CompleteAuth (auth_service.go:167-257): the look-up, the join, the link, the session. *)
LEMMA OAuthSteady ==
  ASSUME AccountsAssumption, Steady, NEW r \in Requests,
         OAuthLookup(r) \/ OAuthJoin(r) \/ OAuthLink(r) \/ OAuthMint(r)
  PROVE  Steady'
<1> USE DEF Steady, Typed
<1>0. call[r] \in RequestState /\ Placed(call[r])
  OBVIOUS
<1>1. CASE OAuthLookup(r)
  <2>1. CASE Go(r, "join")
    BY <1>0, <1>1, <2>1, Going, ZenonT(60) DEF OAuthLookup, Placed, Steps
  <2>2. ASSUME NEW id \in GetUserByEmail(call[r].email),
               call' = [call EXCEPT ![r].user = id, ![r].role = users[id].role, ![r].provider = users[id].provider,
                         ![r].at = IF users[id].provider \in {"", "password"} THEN "link" ELSE "mint"]
        PROVE  Steady'
    <3> DEFINE new == [call[r] EXCEPT !.user = id, !.role = users[id].role, !.provider = users[id].provider,
                         !.at = IF users[id].provider \in {"", "password"} THEN "link" ELSE "mint"]
    <3>1. id \in Ids /\ call[r].answer = "none" /\ users[id] \in UserRow
      BY <1>0, <1>1 DEF GetUserByEmail, OAuthLookup, Placed
    <3>2. new \in RequestState
      BY <1>0, <3>1, ZenonT(60) DEF RequestState, Steps, UserRow
    <3>3. Placed(new)
      BY <1>0, <3>1 DEF Placed, RequestState
    <3>4. call' = [call EXCEPT ![r] = new]
      BY <2>2
    <3> QED
      BY <1>1, <3>2, <3>3, <3>4, Called, ZenonT(60) DEF OAuthLookup
  <2> QED
    BY <1>1, <2>1, <2>2, ZenonT(60) DEF OAuthLookup
<1>2. CASE OAuthJoin(r)
  <2>1. CASE Stop(r, "taken") /\ UNCHANGED users
    BY <1>2, <2>1, Stopping DEF OAuthJoin
  <2>2. ASSUME NEW id \in Fresh, CreateUser(id, call[r].email, "oauth", "user"),
               call' = [call EXCEPT ![r].at = "mint", ![r].user = id, ![r].provider = "oauth"]
        PROVE  Steady'
    <3> DEFINE new == [call[r] EXCEPT !.at = "mint", !.user = id, !.provider = "oauth"]
    <3>1. id \in Ids /\ call[r].email \in Emails /\ call[r].answer = "none"
      BY <1>0, <1>2 DEF Fresh, OAuthJoin, Placed, RequestState
    <3>2. new \in RequestState /\ Placed(new)
      BY <1>0, <3>1, ZenonT(60) DEF RequestState, Placed, Steps, Providers
    <3>3. call' = [call EXCEPT ![r] = new]
      BY <2>2
    <3>4. users' \in [Ids -> UserRow]
      BY <2>2, <3>1, NewRows DEF CreateUser, Providers, Roles
    <3> QED
      BY <1>2, <3>2, <3>3, <3>4, Called DEF OAuthJoin
  <2> QED
    BY <1>2, <2>1, <2>2 DEF OAuthJoin
<1>3. CASE OAuthLink(r)
  <2>1. call[r].user \in Ids /\ UNCHANGED <<tokens, sessions, shaky>>
    BY <1>0, <1>3 DEF OAuthLink, RequestState
  <2>2. CASE users' = [users EXCEPT ![call[r].user].provider = "oauth"] /\ Go(r, "mint")
    <3>1. users' \in [Ids -> UserRow]
      BY <2>1, <2>2, Rows
    <3> QED
      BY <1>0, <1>3, <2>1, <2>2, <3>1, Going DEF OAuthLink, Placed, Steps
  <2>3. CASE Stop(r, "failed") /\ UNCHANGED users
    BY <2>1, <2>3, Stopping
  <2> QED
    BY <1>3, <2>2, <2>3 DEF OAuthLink
<1>4. CASE OAuthMint(r)
  <2>1. CreateToken(call[r].user, call[r].role) \in Session
    BY <1>0 DEF CreateToken, Claims, Session, RequestState
  <2>2. sessions' \subseteq Session
    BY <1>4, <2>1, Opened DEF OAuthMint
  <2> QED
    BY <1>4, <2>2, Stopping DEF OAuthMint
<1> QED
  BY <1>1, <1>2, <1>3, <1>4

(* The tokens that are mailed (auth_service.go:265-315, 349-480): asked for, read, applied, deleted. *)
LEMMA ResetSteady ==
  ASSUME AccountsAssumption, Steady, NEW r \in Requests,
         \/ RequestPasswordReset(r) \/ GeneratePasswordResetToken(r)
         \/ ReadToken(r) \/ ResetPassword(r) \/ ActivateAccount(r) \/ Reload(r) \/ SpendToken(r)
  PROVE  Steady'
<1> USE DEF Steady, Typed
<1>0. call[r] \in RequestState /\ Placed(call[r])
  OBVIOUS
<1>1. CASE RequestPasswordReset(r)
  <2>1. CASE Stop(r, "ok")
    BY <1>1, <2>1, Stopping DEF RequestPasswordReset
  <2>2. ASSUME NEW id \in GetUserByEmail(call[r].email), call' = [call EXCEPT ![r].at = "issue", ![r].user = id]
        PROVE  Steady'
    <3> DEFINE new == [call[r] EXCEPT !.at = "issue", !.user = id]
    <3>1. id \in Ids /\ call[r].answer = "none"
      BY <1>0, <1>1 DEF GetUserByEmail, RequestPasswordReset, Placed
    <3>2. new \in RequestState /\ Placed(new)
      BY <1>0, <3>1, ZenonT(60) DEF RequestState, Placed, Steps
    <3>3. call' = [call EXCEPT ![r] = new]
      BY <2>2
    <3> QED
      BY <1>1, <3>2, <3>3, Called DEF RequestPasswordReset
  <2> QED
    BY <1>1, <2>1, <2>2 DEF RequestPasswordReset
<1>2. CASE GeneratePasswordResetToken(r)
  <2>1. UNCHANGED <<users, sessions, shaky>> /\ tokens' \in [Tokens -> TokenRow]
    BY <1>0, <1>2, Issued DEF GeneratePasswordResetToken, RequestState
  <2>2. Stop(r, "ok") \/ Stop(r, "failed")
    BY <1>2 DEF GeneratePasswordResetToken, SendPasswordResetEmail
  <2> QED
    BY <2>1, <2>2, Stopping
<1>3. CASE ReadToken(r)
  <2>1. call[r].token \in Tokens /\ call[r].answer = "none" /\ UNCHANGED <<users, sessions>>
    BY <1>0, <1>3 DEF ReadToken, Placed
  <2>2. CASE Stop(r, "refused") /\ UNCHANGED <<tokens, shaky>>
    BY <2>1, <2>2, Stopping
  <2>3. CASE tokens' = DeleteValidationToken(call[r].token) /\ Stop(r, "refused") /\ UNCHANGED shaky
    BY <2>1, <2>3, Stopping, Spent
  <2>4. CASE /\ call' = [call EXCEPT ![r].at = "apply", ![r].user = tokens[call[r].token].user]
             /\ shaky' \in {shaky, shaky \union {call[r].token}}
             /\ UNCHANGED tokens
    <3> DEFINE new == [call[r] EXCEPT !.at = "apply", !.user = tokens[call[r].token].user]
    <3>1. tokens[call[r].token].user \in Ids
      BY <2>1 DEF TokenRow
    <3>2. new \in RequestState /\ Placed(new)
      BY <1>0, <2>1, <3>1, ZenonT(60) DEF RequestState, Placed, Steps
    <3>3. call' = [call EXCEPT ![r] = new]
      BY <2>4
    <3> QED
      BY <2>1, <2>4, <3>2, <3>3, Called
  <2> QED
    BY <1>3, <2>2, <2>3, <2>4 DEF ReadToken
<1>4. CASE ResetPassword(r) \/ ActivateAccount(r)
  <2>1. /\ call[r].user \in Ids /\ call[r].token \in Tokens /\ call[r].answer = "none"
        /\ UNCHANGED <<sessions, shaky>>
    BY <1>0, <1>4, SMTT(60) DEF ResetPassword, ActivateAccount, Placed, RequestState
  <2>2. CASE /\ \/ users' = [users EXCEPT ![call[r].user].password = TRUE]
                \/ users' = [users EXCEPT ![call[r].user].verified = TRUE]
             /\ tokens' = [tokens EXCEPT ![call[r].token].used = IF @ < 2 THEN @ + 1 ELSE @]
             /\ Go(r, "reload")
    <3>1. users' \in [Ids -> UserRow]
      <4>1. users[call[r].user] \in UserRow
        BY <2>1
      <4>2. /\ [users[call[r].user] EXCEPT !.password = TRUE] \in UserRow
            /\ [users[call[r].user] EXCEPT !.verified = TRUE] \in UserRow
        BY <4>1, Rows
      <4> QED
        BY <2>1, <2>2, <4>2
    <3>2. tokens' \in [Tokens -> TokenRow]
      BY <2>1, <2>2, Spent
    <3> QED
      BY <1>0, <2>1, <2>2, <3>1, <3>2, Going DEF Placed, Steps
  <2>3. CASE Stop(r, "failed") /\ UNCHANGED <<users, tokens>>
    BY <2>1, <2>3, Stopping
  <2> QED
    BY <1>4, <2>2, <2>3 DEF ResetPassword, ActivateAccount
<1>5. CASE SpendToken(r)
  <2>1. call[r].token \in Tokens /\ Stop(r, "ok") /\ UNCHANGED <<users, sessions>>
    BY <1>0, <1>5 DEF SpendToken, Placed
  <2>2. tokens' \in [Tokens -> TokenRow] /\ shaky' \subseteq Tokens
    BY <1>5, <2>1, Spent DEF SpendToken
  <2> QED
    BY <2>1, <2>2, Stopping
<1>6. CASE Reload(r)
  <2>1. /\ call[r].token \in Tokens /\ call[r].answer = "none"
        /\ UNCHANGED <<users, tokens, sessions>> /\ shaky' \subseteq Tokens
    BY <1>0, <1>6 DEF Reload, Placed
  <2>2. CASE Go(r, "spend")
    BY <1>0, <2>1, <2>2, Going DEF Placed, Steps
  <2>3. CASE Stop(r, "failed")
    BY <2>1, <2>3, Stopping
  <2> QED
    BY <1>6, <2>2, <2>3 DEF Reload
<1> QED
  BY <1>1, <1>2, <1>3, <1>4, <1>5, <1>6

(* The command createadmin, and any statement that fails. *)
LEMMA CommandSteady ==
  ASSUME AccountsAssumption, Steady, NEW r \in Requests,
         CommandPromote(r) \/ CommandRaise(r) \/ CommandMake(r) \/ Fail(r)
  PROVE  Steady'
<1> USE DEF Steady, Typed
<1>0. call[r] \in RequestState /\ Placed(call[r])
  OBVIOUS
<1>1. CASE CommandPromote(r)
  <2>1. CASE Go(r, "make")
    BY <1>0, <1>1, <2>1, Going DEF CommandPromote, Placed, Steps
  <2>2. ASSUME NEW id \in GetUserByEmail(call[r].email), call' = [call EXCEPT ![r].at = "raise", ![r].user = id]
        PROVE  Steady'
    <3> DEFINE new == [call[r] EXCEPT !.at = "raise", !.user = id]
    <3>1. id \in Ids /\ call[r].answer = "none"
      BY <1>0, <1>1 DEF GetUserByEmail, CommandPromote, Placed
    <3>2. new \in RequestState /\ Placed(new)
      BY <1>0, <3>1, ZenonT(60) DEF RequestState, Placed, Steps
    <3>3. call' = [call EXCEPT ![r] = new]
      BY <2>2
    <3> QED
      BY <1>1, <3>2, <3>3, Called DEF CommandPromote
  <2> QED
    BY <1>1, <2>1, <2>2 DEF CommandPromote
<1>2. CASE CommandRaise(r)
  <2>1. call[r].user \in Ids /\ UNCHANGED <<tokens, sessions, shaky>> /\ (Stop(r, "ok") \/ Stop(r, "failed"))
    BY <1>0, <1>2 DEF CommandRaise, RequestState
  <2>2. users' \in [Ids -> UserRow]
    <3>1. users[call[r].user] \in UserRow
      BY <2>1
    <3>2. [users[call[r].user] EXCEPT !.role = "admin"] \in UserRow
      BY <3>1, Rows
    <3> QED
      BY <1>2, <2>1, <3>2 DEF CommandRaise
  <2> QED
    BY <2>1, <2>2, Stopping
<1>3. CASE CommandMake(r)
  <2>1. call[r].email \in Emails /\ UNCHANGED <<tokens, sessions, shaky>> /\ (Stop(r, "ok") \/ Stop(r, "taken"))
    BY <1>0, <1>3 DEF CommandMake, Placed
  <2>2. users' \in [Ids -> UserRow]
    <3>1. CASE UNCHANGED users
      BY <3>1
    <3>2. ASSUME NEW id \in Fresh,
                 users' = [users EXCEPT ![id] = [email |-> call[r].email, password |-> TRUE,
                             provider |-> "password", role |-> "admin", verified |-> TRUE]]
          PROVE  users' \in [Ids -> UserRow]
      BY <2>1, <3>2, NewRows DEF Roles
    <3> QED
      BY <1>3, <3>1, <3>2 DEF CommandMake
  <2> QED
    BY <2>1, <2>2, Stopping
<1>4. CASE Fail(r)
  <2>1. shaky' \subseteq Tokens
    BY <1>0, <1>4 DEF Fail, Placed
  <2> QED
    BY <1>4, <2>1, Stopping DEF Fail
<1> QED
  BY <1>1, <1>2, <1>3, <1>4

(* The calls of one statement. *)
LEMMA OthersSteady ==
  ASSUME AccountsAssumption, Steady,
         \/ \E id \in {i \in Ids : Present(i)} :
              Login(id) \/ PatchUser(id) \/ RemoveUser(id) \/ \E verified \in BOOLEAN : AdminUpdateUser(id, verified)
         \/ \E s \in sessions : GenerateToken(s) \/ SessionOver(s)
  PROVE  Steady'
<1> USE DEF Steady, Typed
<1>1. ASSUME NEW id \in Ids, Login(id) PROVE Steady'
  <2>1. users[id] \in UserRow
    OBVIOUS
  <2>2. Claims(id, "id", users[id].role, users[id].verified) \in Session
    BY <2>1 DEF Claims, Session, UserRow
  <2> QED
    BY <1>1, <2>2, Opened DEF Login
<1>2. ASSUME NEW id \in Ids, PatchUser(id) PROVE Steady'
  <2>1. users[id] \in UserRow
    OBVIOUS
  <2>2. UpdateUser(users[id], FALSE) \in UserRow
    BY <2>1, Rows
  <2> QED
    BY <1>2, <2>2 DEF PatchUser, UpdateUserSelf
<1>3. ASSUME NEW id \in Ids, NEW verified \in BOOLEAN, AdminUpdateUser(id, verified) PROVE Steady'
  <2>1. users[id] \in UserRow
    OBVIOUS
  <2>2. UpdateUser(users[id], verified) \in UserRow
    BY <2>1, Rows
  <2> QED
    BY <1>3, <2>2 DEF AdminUpdateUser, UpdateUserAdmin
<1>4. ASSUME NEW id \in Ids, RemoveUser(id) PROVE Steady'
  <2>1. users' \in [Ids -> UserRow]
    BY <1>4, Ranges DEF RemoveUser, DeleteUser
  <2>2. \A t \in Tokens : [tokens[t] EXCEPT !.type = "gone"] \in TokenRow
    BY DEF TokenRow
  <2>3. tokens' \in [Tokens -> TokenRow]
    BY <1>4, <2>2 DEF RemoveUser, DeleteUser
  <2> QED
    BY <1>4, <2>1, <2>3 DEF RemoveUser
<1>5. ASSUME NEW s \in sessions, GenerateToken(s) \/ SessionOver(s) PROVE Steady'
  <2>1. s \in Session
    OBVIOUS
  <2>2. [s EXCEPT !.verified = FALSE] \in Session
    BY <2>1 DEF Session
  <2> QED
    BY <1>5, <2>2, Opened DEF GenerateToken, SessionOver
<1> QED
  BY <1>1, <1>2, <1>3, <1>4, <1>5

(* Every step keeps the types and the requests in place. *)
LEMMA NextSteady == AccountsAssumption /\ Steady /\ [Next]_vars => Steady'
<1> SUFFICES ASSUME AccountsAssumption, Steady, [Next]_vars PROVE Steady'
  OBVIOUS
<1>1. CASE UNCHANGED vars
  BY <1>1 DEF vars, Steady, Typed
<1>2. ASSUME NEW r \in Requests,
             \/ CreateUserRequest(r) \/ CreateAdmin(r) \/ CompleteAuth(r) \/ ForgotPassword(r)
             \/ ResetPasswordRequest(r) \/ ActivateAccountRequest(r) \/ Command(r)
      PROVE  Steady'
  BY <1>2, Arrivals, Arriving
<1>3. ASSUME NEW r \in Requests, Step(r) \/ Fail(r) PROVE Steady'
  BY <1>3, SignUpSteady, OAuthSteady, ResetSteady, CommandSteady DEF Step
<1> QED
  BY <1>1, <1>2, <1>3, OthersSteady DEF Next

-----------------------------------------------------------------------------

(* What an update may do to a row: it takes no role, no mark and no password away, and a
   provider only where it leaves a password. *)
Raised(old, new) ==
  /\ new.email = old.email
  /\ old.role = "admin" => new.role = "admin"
  /\ old.verified => new.verified
  /\ old.password => new.password
  /\ old.provider = "oauth" /\ ~new.password => new.provider = "oauth"

(* The three ways a row changes: it is inserted under an e-mail nobody has, deleted, raised. *)
Follows(id, row) ==
  \/ users[id] = NoUser /\ row.email \in Emails /\ GetUserByEmail(row.email) = {}
  \/ Present(id) /\ row = Deleted
  \/ Present(id) /\ Raised(users[id], row)

(* A step changes one row of the table at most, in one of these ways. *)
UsersMove ==
  \/ UNCHANGED users
  \/ \E id \in Ids, row \in UserRow : Follows(id, row) /\ users' = [users EXCEPT ![id] = row]

(* So do the steps of the requests. *)
LEMMA StepMoves ==
  ASSUME AccountsAssumption, Steady, NEW r \in Requests, Step(r) \/ Fail(r)
  PROVE  UsersMove
<1>0. call[r] \in RequestState /\ Placed(call[r]) /\ users \in [Ids -> UserRow]
  BY DEF Steady, Typed
<1>1. ASSUME NEW id \in Fresh, NEW provider \in Providers, NEW role \in Roles, call[r].email \in Emails,
             GetUserByEmail(call[r].email) = {}, CreateUser(id, call[r].email, provider, role)
      PROVE  UsersMove
  <2> DEFINE row == [NoUser EXCEPT !.email = call[r].email, !.provider = ProviderStored(provider), !.role = role]
  <2>1. row \in UserRow /\ row.email = call[r].email
    BY <1>1, NewRows DEF NoUser
  <2>2. id \in Ids /\ users[id] = NoUser
    BY DEF Fresh
  <2>3. users' = [users EXCEPT ![id] = row]
    BY <1>1 DEF CreateUser
  <2> HIDE DEF row
  <2> QED
    BY <1>1, <2>1, <2>2, <2>3 DEF UsersMove, Follows
<1>2. ASSUME NEW row \in UserRow, Present(call[r].user), Raised(users[call[r].user], row),
             users' = [users EXCEPT ![call[r].user] = row]
      PROVE  UsersMove
  <2>1. call[r].user \in Ids
    BY <1>0 DEF RequestState
  <2> QED
    BY <1>2, <2>1 DEF UsersMove, Follows
<1>3. ASSUME call[r].user \in Ids, NEW old \in UserRow, old = users[call[r].user]
      PROVE  /\ WithHash(old) \in UserRow /\ Raised(old, WithHash(old))
             /\ [old EXCEPT !.provider = "oauth"] \in UserRow /\ Raised(old, [old EXCEPT !.provider = "oauth"])
             /\ [old EXCEPT !.password = TRUE] \in UserRow /\ Raised(old, [old EXCEPT !.password = TRUE])
             /\ [old EXCEPT !.verified = TRUE] \in UserRow /\ Raised(old, [old EXCEPT !.verified = TRUE])
             /\ [old EXCEPT !.role = "admin"] \in UserRow /\ Raised(old, [old EXCEPT !.role = "admin"])
  BY <1>3, Rows, ZenonT(60) DEF Raised, WithHash, UserRow
<1>4. call[r].user \in Ids /\ users[call[r].user] \in UserRow
  BY <1>0 DEF RequestState
<1>5. CASE SignUpInsert(r)
  BY <1>0, <1>1, <1>5 DEF SignUpInsert, Placed, Providers, RequestState, UsersMove
<1>6. CASE OAuthJoin(r)
  BY <1>0, <1>1, <1>6 DEF OAuthJoin, Placed, Providers, Roles, UsersMove
<1>7. CASE SignUpPassword(r)
  BY <1>2, <1>3, <1>4, <1>7 DEF SignUpPassword, UsersMove
<1>8. CASE OAuthLink(r)
  BY <1>2, <1>3, <1>4, <1>8 DEF OAuthLink, UsersMove
<1>9. CASE ResetPassword(r)
  BY <1>2, <1>3, <1>4, <1>9 DEF ResetPassword, UsersMove
<1>10. CASE ActivateAccount(r)
  BY <1>2, <1>3, <1>4, <1>10 DEF ActivateAccount, UsersMove
<1>11. CASE CommandRaise(r)
  BY <1>2, <1>3, <1>4, <1>11 DEF CommandRaise, UsersMove
<1>12. CASE CommandMake(r)
  <2>1. CASE UNCHANGED users
    BY <2>1 DEF UsersMove
  <2>2. CASE GetUserByEmail(call[r].email) = {}
    <3> DEFINE row == [email |-> call[r].email, password |-> TRUE, provider |-> "password", role |-> "admin",
                       verified |-> TRUE]
    <3>1. PICK id \in Fresh : users' = [users EXCEPT ![id] = row]
      BY <1>12, <2>2 DEF CommandMake
    <3>2. id \in Ids /\ users[id] = NoUser
      BY DEF Fresh
    <3>3. row \in UserRow /\ row.email = call[r].email /\ row.email \in Emails
      BY <1>0, <1>12, NewRows DEF CommandMake, Placed, Roles
    <3> HIDE DEF row
    <3> QED
      BY <2>2, <3>1, <3>2, <3>3 DEF UsersMove, Follows
  <2> QED
    BY <1>12, <2>1, <2>2 DEF CommandMake
<1> QED
  BY <1>5, <1>6, <1>7, <1>8, <1>9, <1>10, <1>11, <1>12
  DEF Step, Fail, SignUpCheck, SignUpMail, OAuthLookup, OAuthMint, RequestPasswordReset, GeneratePasswordResetToken,
      ReadToken, Reload, SpendToken, CommandPromote, UsersMove

(* So do the calls of one statement. *)
LEMMA OthersMove ==
  ASSUME AccountsAssumption, Steady, NEW id \in Ids, Present(id)
  PROVE  /\ Login(id) \/ PatchUser(id) \/ RemoveUser(id) => UsersMove
         /\ \A verified \in BOOLEAN : AdminUpdateUser(id, verified) => UsersMove
<1>1. users[id] \in UserRow /\ Deleted \in UserRow
  BY Ranges DEF Steady, Typed
<1>2. ASSUME NEW set \in BOOLEAN, users' = [users EXCEPT ![id] = UpdateUser(@, set)] PROVE UsersMove
  <2>1. UpdateUser(users[id], set) \in UserRow
    BY <1>1, Rows
  <2>2. Raised(users[id], UpdateUser(users[id], set))
    BY <1>1 DEF Raised, UpdateUser, UserRow
  <2> QED
    BY <1>2, <2>1, <2>2 DEF UsersMove, Follows
<1>3. Login(id) => UsersMove
  BY DEF Login, UsersMove
<1>4. PatchUser(id) => UsersMove
  BY <1>2 DEF PatchUser, UpdateUserSelf
<1>5. RemoveUser(id) => UsersMove
  BY <1>1 DEF RemoveUser, DeleteUser, UsersMove, Follows
<1>6. \A verified \in BOOLEAN : AdminUpdateUser(id, verified) => UsersMove
  BY <1>2 DEF AdminUpdateUser, UpdateUserAdmin
<1> QED
  BY <1>3, <1>4, <1>5, <1>6

(* So does every step. *)
LEMMA NextMoves == AccountsAssumption /\ Steady /\ [Next]_vars => UsersMove
<1> SUFFICES ASSUME AccountsAssumption, Steady, [Next]_vars PROVE UsersMove
  OBVIOUS
<1>1. CASE UNCHANGED vars
  BY <1>1 DEF vars, UsersMove
<1>2. ASSUME NEW r \in Requests,
             \/ CreateUserRequest(r) \/ CreateAdmin(r) \/ CompleteAuth(r) \/ ForgotPassword(r)
             \/ ResetPasswordRequest(r) \/ ActivateAccountRequest(r) \/ Command(r)
      PROVE  UsersMove
  BY <1>2, Arrivals DEF Arrive, UsersMove
<1>3. ASSUME NEW r \in Requests, Step(r) \/ Fail(r) PROVE UsersMove
  BY <1>3, StepMoves
<1>4. ASSUME NEW s \in sessions, GenerateToken(s) \/ SessionOver(s) PROVE UsersMove
  BY <1>4 DEF GenerateToken, SessionOver, UsersMove
<1> QED
  BY <1>1, <1>2, <1>3, <1>4, OthersMove DEF Next

(* Two accounts of one e-mail cannot come to be: the insert looks for it itself. *)
LEMMA NextApart == AccountsAssumption /\ Steady /\ Apart /\ [Next]_vars => Apart'
<1> SUFFICES ASSUME AccountsAssumption, Steady, Apart, [Next]_vars PROVE Apart'
  OBVIOUS
<1>1. UsersMove
  BY NextMoves
<1>2. CASE UNCHANGED users
  BY <1>2 DEF Apart, Present
<1>3. ASSUME NEW id \in Ids, NEW row \in UserRow, Follows(id, row), users' = [users EXCEPT ![id] = row]
      PROVE  Apart'
  BY <1>3, ZenonT(60) DEF Apart, Present, Follows, Raised, Deleted, NoUser, GetUserByEmail, Steady, Typed
<1> QED
  BY <1>1, <1>2, <1>3 DEF UsersMove

(* What an account had, a step leaves it, as long as it is there. *)
LEMMA Lasting ==
  ASSUME AccountsAssumption, Steady, UsersMove, NEW id \in Ids, users[id] # NoUser
  PROVE  users'[id] # NoUser /\ (users'[id].email # "none" => Present(id) /\ Raised(users[id], users'[id]))
<1>1. Deleted # NoUser /\ Deleted.email = "none" /\ NoUser.email = "none"
  BY DEF Deleted, NoUser
<1>2. CASE UNCHANGED users
  BY <1>2 DEF Present, Raised
<1>3. ASSUME NEW i \in Ids, NEW row \in UserRow, Follows(i, row), users' = [users EXCEPT ![i] = row]
      PROVE  users'[id] # NoUser /\ (users'[id].email # "none" => Present(id) /\ Raised(users[id], users'[id]))
  <2>1. CASE id # i
    BY <1>3, <2>1 DEF Present, Raised, Steady, Typed
  <2>2. CASE id = i
    <3>1. users'[id] = row
      BY <1>3, <2>2 DEF Steady, Typed
    <3>2. CASE row = Deleted
      BY <1>1, <3>1, <3>2
    <3>3. CASE Present(id) /\ Raised(users[id], row)
      BY <1>1, <3>1, <3>3 DEF Present, Raised
    <3> QED
      BY <1>3, <2>2, <3>2, <3>3 DEF Follows
  <2> QED
    BY <2>1, <2>2
<1> QED
  BY <1>2, <1>3 DEF UsersMove

-----------------------------------------------------------------------------

(* The account was there, and as long as it is there it has what is claimed of it. *)
Covered(id, role, verified) ==
  /\ users[id] # NoUser
  /\ Present(id) => (role = "admin" => users[id].role = "admin") /\ (verified => users[id].verified)

(* What sessions claim, and requests that are about to open one will claim, is covered: the
   strengthening of ClaimsCovered, for OAuthMint opens a session on what was read earlier. *)
Claimed ==
  /\ \A s \in sessions : Covered(s.user, s.role, s.verified)
  /\ \A r \in Requests : call[r].at \in {"link", "mint"} => Covered(call[r].user, call[r].role, FALSE)

(* A claim that is covered stays so: rows are only raised, or deleted for good. *)
LEMMA CoveredKept ==
  ASSUME AccountsAssumption, Steady, UsersMove, NEW id \in Ids, NEW role \in Roles, NEW verified \in BOOLEAN,
         Covered(id, role, verified)
  PROVE  Covered(id, role, verified)'
<1>1. users'[id] # NoUser /\ (users'[id].email # "none" => Present(id) /\ Raised(users[id], users'[id]))
  BY Lasting DEF Covered
<1> QED
  BY <1>1 DEF Covered, Present, Raised

(* So the sessions are covered when the new ones are, *)
LEMMA SessionsClaim ==
  ASSUME AccountsAssumption, Steady, Claimed, UsersMove,
         \A s \in sessions' : s \in sessions \/ Covered(s.user, s.role, s.verified)'
  PROVE  \A s \in sessions' : Covered(s.user, s.role, s.verified)'
<1> SUFFICES ASSUME NEW s \in sessions, Covered(s.user, s.role, s.verified) PROVE Covered(s.user, s.role, s.verified)'
  BY DEF Claimed
<1>1. s.user \in Ids /\ s.role \in Roles /\ s.verified \in BOOLEAN
  BY DEF Steady, Typed, Session
<1> QED
  BY <1>1, CoveredKept

(* and the requests when the one that moved is. *)
LEMMA CallsClaim ==
  ASSUME AccountsAssumption, Steady, Claimed, UsersMove, NEW r \in Requests,
         \A q \in Requests \ {r} : call'[q] = call[q],
         call'[r].at \notin {"link", "mint"} \/ Covered(call[r].user, call[r].role, FALSE)'
  PROVE  \A q \in Requests : call'[q].at \in {"link", "mint"} => Covered(call[q].user, call[q].role, FALSE)'
<1> SUFFICES ASSUME NEW q \in Requests, q # r, call'[q] = call[q], call[q].at \in {"link", "mint"},
                    Covered(call[q].user, call[q].role, FALSE)
             PROVE  Covered(call[q].user, call[q].role, FALSE)'
  BY DEF Claimed
<1>1. call[q].user \in Ids /\ call[q].role \in Roles
  BY DEF Steady, Typed, RequestState
<1> QED
  BY <1>1, CoveredKept DEF Covered, Present

(* A row of an e-mail is not the row of none. *)
LEMMA NoneThere ==
  ASSUME AccountsAssumption
  PROVE  \A row \in UserRow : row.email \in Emails => row # NoUser
<1>1. NoUser.email = "none"
  BY DEF NoUser
<1> QED
  BY <1>1 DEF AccountsAssumption

(* Where a step of a request leads to. *)
LEMMA Landing ==
  ASSUME Steady, NEW r \in Requests, Step(r) \/ Fail(r)
  PROVE  /\ \A q \in Requests \ {r} : call'[q] = call[q]
         /\ \/ call'[r].at \in {"insert", "mail", "join", "issue", "raise", "make", "done"}
            \/ ReadToken(r) /\ call'[r].at = "apply"
            \/ (ResetPassword(r) \/ ActivateAccount(r)) /\ call'[r].at = "reload"
            \/ Reload(r) /\ call'[r].at = "spend"
            \/ SignUpInsert(r) /\ call'[r].at = "password"
            \/ OAuthLookup(r) /\ call'[r].at \in {"link", "mint"}
            \/ (OAuthJoin(r) \/ OAuthLink(r)) /\ call'[r].at = "mint"
<1>0. call[r] \in RequestState /\ call \in [Requests -> RequestState]
  BY SMTT(60) DEF Steady, Typed
<1>1. \A q \in Requests \ {r} : call'[q] = call[q]
  BY <1>0 DEF Step, Fail, SignUpCheck, SignUpInsert, SignUpPassword, SignUpMail, OAuthLookup, OAuthJoin,
      OAuthLink, OAuthMint, RequestPasswordReset, GeneratePasswordResetToken, SendPasswordResetEmail, ReadToken,
      ResetPassword, ActivateAccount, Reload, SpendToken, CommandPromote, CommandRaise, CommandMake, Go, Stop
<1>2. \A answer : Stop(r, answer) => call'[r].at = "done"
  BY <1>0 DEF Stop, Idle
<1>3. \A step : Go(r, step) => call'[r].at = step
  BY <1>0 DEF Go, RequestState
<1>4. SignUpCheck(r) \/ SignUpPassword(r) \/ SignUpMail(r) => call'[r].at \in {"insert", "mail", "done"}
  BY <1>2, <1>3 DEF SignUpCheck, SignUpPassword, SignUpMail
<1>5. SignUpInsert(r) => call'[r].at \in {"password", "done"}
  BY <1>0, <1>2, ZenonT(60) DEF SignUpInsert, RequestState
<1>6. RequestPasswordReset(r) \/ GeneratePasswordResetToken(r) => call'[r].at \in {"issue", "done"}
  BY <1>0, <1>2 DEF RequestPasswordReset, GeneratePasswordResetToken, SendPasswordResetEmail, RequestState
<1>7. ReadToken(r) => call'[r].at \in {"apply", "done"}
  BY <1>0, <1>2 DEF ReadToken, RequestState
<1>8. /\ ResetPassword(r) \/ ActivateAccount(r) => call'[r].at \in {"reload", "done"}
      /\ Reload(r) => call'[r].at \in {"spend", "done"}
      /\ SpendToken(r) \/ OAuthMint(r) => call'[r].at = "done"
  BY <1>2, <1>3 DEF ResetPassword, ActivateAccount, Reload, SpendToken, OAuthMint
<1>9. CommandPromote(r) \/ CommandRaise(r) \/ CommandMake(r) => call'[r].at \in {"make", "raise", "done"}
  BY <1>0, <1>2, <1>3 DEF CommandPromote, CommandRaise, CommandMake, RequestState
<1>10. Fail(r) => call'[r].at = "done"
  BY <1>2 DEF Fail
<1>11. OAuthLookup(r) => call'[r].at \in {"join", "link", "mint"}
  <2>1. ASSUME NEW id, NEW step \in {"link", "mint"}, NEW role, NEW provider,
               call' = [call EXCEPT ![r].user = id, ![r].role = role, ![r].provider = provider, ![r].at = step]
        PROVE  call'[r].at = step
    BY <1>0, <2>1 DEF RequestState
  <2>2. ASSUME NEW id,
               call' = [call EXCEPT ![r].user = id, ![r].role = users[id].role, ![r].provider = users[id].provider,
                         ![r].at = IF users[id].provider \in {"", "password"} THEN "link" ELSE "mint"]
        PROVE  call'[r].at \in {"link", "mint"}
    <3> DEFINE step == IF users[id].provider \in {"", "password"} THEN "link" ELSE "mint"
    <3>1. step \in {"link", "mint"}
      OBVIOUS
    <3> QED
      BY <2>1, <2>2, <3>1
  <2>3. Go(r, "join") => call'[r].at = "join"
    BY <1>3
  <2> QED
    BY <2>2, <2>3 DEF OAuthLookup
<1>12. OAuthJoin(r) \/ OAuthLink(r) => call'[r].at \in {"mint", "done"}
  BY <1>0, <1>2, <1>3, ZenonT(60) DEF OAuthJoin, OAuthLink, RequestState
<1> QED
  BY <1>1, <1>4, <1>5, <1>6, <1>7, <1>8, <1>9, <1>10, <1>11, <1>12 DEF Step

(* The steps of a request keep the claims covered: OAuthLookup, OAuthJoin and OAuthLink
   read the account they will open a session on. *)
LEMMA StepClaimed ==
  ASSUME AccountsAssumption, Steady, Steady', Claimed, NEW r \in Requests, Step(r) \/ Fail(r)
  PROVE  Claimed'
<1>0. call[r] \in RequestState /\ Placed(call[r]) /\ users \in [Ids -> UserRow] /\ call \in [Requests -> RequestState]
  BY DEF Steady, Typed
<1>1. UsersMove
  BY StepMoves
<1>2. \A s \in sessions' : s \in sessions \/ Covered(s.user, s.role, s.verified)'
  <2>1. CASE OAuthMint(r)
    <3>1. UNCHANGED users /\ Covered(call[r].user, call[r].role, FALSE)
      BY <2>1 DEF OAuthMint, Claimed
    <3>2. Covered(call[r].user, call[r].role, FALSE) => Covered(call[r].user, call[r].role, FALSE)
      OBVIOUS
    <3>3. sessions' = sessions \union {CreateToken(call[r].user, call[r].role)}
      BY <2>1 DEF OAuthMint, OpenSession
    <3> QED
      BY <3>1, <3>3 DEF CreateToken, Claims, Covered, Present
  <2>2. CASE UNCHANGED sessions
    BY <2>2
  <2> QED
    BY <2>1, <2>2 DEF Step, Fail, SignUpCheck, SignUpInsert, SignUpPassword, SignUpMail, OAuthLookup, OAuthJoin,
      OAuthLink, RequestPasswordReset, GeneratePasswordResetToken, ReadToken, ResetPassword, ActivateAccount,
      Reload, SpendToken, CommandPromote, CommandRaise, CommandMake
<1>3. \A q \in Requests \ {r} : call'[q] = call[q]
  BY Landing
<1>4. call'[r].at \notin {"link", "mint"} \/ Covered(call[r].user, call[r].role, FALSE)'
  <2>1. CASE OAuthLookup(r)
    <3>1. CASE Go(r, "join")
      BY <1>0, <3>1 DEF Go, RequestState
    <3>2. ASSUME NEW id \in GetUserByEmail(call[r].email),
                 call' = [call EXCEPT ![r].user = id, ![r].role = users[id].role, ![r].provider = users[id].provider,
                           ![r].at = IF users[id].provider \in {"", "password"} THEN "link" ELSE "mint"]
          PROVE  Covered(call[r].user, call[r].role, FALSE)'
      <4>1. call'[r].user = id /\ call'[r].role = users[id].role /\ UNCHANGED users
        BY <1>0, <2>1, <3>2, ZenonT(60) DEF RequestState, OAuthLookup
      <4>2. users[id].email \in Emails /\ users[id] \in UserRow
        BY <1>0, <2>1 DEF GetUserByEmail, OAuthLookup, Placed
      <4>3. users[id] # NoUser
        BY <4>2, NoneThere
      <4> QED
        BY <4>1, <4>3 DEF Covered, Present
    <3> QED
      BY <2>1, <3>1, <3>2 DEF OAuthLookup
  <2>2. CASE OAuthJoin(r)
    <3>1. CASE Stop(r, "taken")
      BY <1>0, <3>1 DEF Stop, Idle
    <3>2. ASSUME NEW id \in Fresh, CreateUser(id, call[r].email, "oauth", "user"),
                 call' = [call EXCEPT ![r].at = "mint", ![r].user = id, ![r].provider = "oauth"]
          PROVE  Covered(call[r].user, call[r].role, FALSE)'
      <4>1. call'[r].user = id /\ call'[r].role = "user" /\ id \in Ids
        BY <1>0, <2>2, <3>2 DEF RequestState, OAuthJoin, Placed, Fresh
      <4>2. users'[id].email \in Emails /\ users'[id] \in UserRow
        BY <1>0, <2>2, <3>2, <4>1 DEF CreateUser, OAuthJoin, Placed, NoUser, Steady, Typed
      <4>3. users'[id] # NoUser
        BY <4>2, NoneThere
      <4> QED
        BY <4>1, <4>3 DEF Covered, Present
    <3> QED
      BY <2>2, <3>1, <3>2 DEF OAuthJoin
  <2>3. CASE OAuthLink(r)
    <3>1. CASE Stop(r, "failed")
      BY <1>0, <3>1 DEF Stop, Idle
    <3>2. CASE Go(r, "mint")
      <4>1. call'[r].user = call[r].user /\ call'[r].role = call[r].role /\ call[r].user \in Ids /\ call[r].role \in Roles
        BY <1>0, <3>2 DEF Go, RequestState
      <4>2. Covered(call[r].user, call[r].role, FALSE)
        BY <2>3 DEF OAuthLink, Claimed
      <4> QED
        BY <1>1, <4>1, <4>2, CoveredKept DEF Covered, Present
    <3> QED
      BY <2>3, <3>1, <3>2 DEF OAuthLink
  <2> QED
    BY <2>1, <2>2, <2>3, Landing
<1> QED
  BY <1>1, <1>2, <1>3, <1>4, SessionsClaim, CallsClaim DEF Claimed

(* Every step does. *)
LEMMA NextClaimed == AccountsAssumption /\ Steady /\ Claimed /\ [Next]_vars => Claimed'
<1> SUFFICES ASSUME AccountsAssumption, Steady, Claimed, [Next]_vars PROVE Claimed'
  OBVIOUS
<1>0. UsersMove /\ Steady'
  BY NextMoves, NextSteady
<1>1. CASE UNCHANGED vars
  BY <1>1 DEF vars, Claimed, Covered, Present
<1>2. ASSUME NEW r \in Requests,
             \/ CreateUserRequest(r) \/ CreateAdmin(r) \/ CompleteAuth(r) \/ ForgotPassword(r)
             \/ ResetPasswordRequest(r) \/ ActivateAccountRequest(r) \/ Command(r)
      PROVE  Claimed'
  <2>1. PICK new \in RequestState : Arrive(r, new) /\ new.at \in {"check", "lookup", "ask", "token", "promote"}
    BY <1>2, Arrivals
  <2>2. call' = [call EXCEPT ![r] = new] /\ UNCHANGED <<users, sessions>>
    BY <2>1 DEF Arrive
  <2> QED
    BY <2>1, <2>2 DEF Claimed, Covered, Present, Steady, Typed
<1>3. ASSUME NEW r \in Requests, Step(r) \/ Fail(r) PROVE Claimed'
  BY <1>0, <1>3, StepClaimed
<1>4. ASSUME UNCHANGED call, \A s \in sessions' : s \in sessions \/ Covered(s.user, s.role, s.verified)'
      PROVE  Claimed'
  <2>1. ASSUME NEW r \in Requests, call[r].at \in {"link", "mint"} PROVE Covered(call[r].user, call[r].role, FALSE)'
    <3>1. call[r].user \in Ids /\ call[r].role \in Roles
      BY DEF Steady, Typed, RequestState
    <3>2. Covered(call[r].user, call[r].role, FALSE)
      BY <2>1 DEF Claimed
    <3> QED
      BY <1>0, <1>4, <3>1, <3>2, CoveredKept DEF Covered, Present
  <2> QED
    BY <1>0, <1>4, <2>1, SessionsClaim DEF Claimed
<1>5. ASSUME NEW id \in Ids, Present(id), Login(id) PROVE Claimed'
  <2>1. users[id] \in UserRow /\ users[id].email \in Emails
    BY <1>5 DEF Present, Steady, Typed, UserRow
  <2>2. Covered(id, users[id].role, users[id].verified)
    BY <2>1, NoneThere DEF Covered
  <2>3. UNCHANGED <<users, call>> /\ sessions' = sessions \union {Claims(id, "id", users[id].role, users[id].verified)}
    BY <1>5 DEF Login, OpenSession
  <2> QED
    BY <1>4, <2>2, <2>3 DEF Claims, Covered, Present
<1>6. ASSUME NEW id \in Ids,
             PatchUser(id) \/ RemoveUser(id) \/ \E verified \in BOOLEAN : AdminUpdateUser(id, verified)
      PROVE  Claimed'
  BY <1>4, <1>6 DEF PatchUser, RemoveUser, AdminUpdateUser
<1>7. ASSUME NEW s \in sessions, GenerateToken(s) PROVE Claimed'
  <2>1. Covered(s.user, s.role, s.verified)
    BY DEF Claimed
  <2>2. UNCHANGED <<users, call>> /\ sessions' = sessions \union {[s EXCEPT !.verified = FALSE]}
    BY <1>7 DEF GenerateToken, OpenSession
  <2>3. s \in Session
    BY DEF Steady, Typed
  <2> QED
    BY <1>4, <2>1, <2>2, <2>3 DEF Covered, Present, Session
<1>8. ASSUME NEW s \in sessions, SessionOver(s) PROVE Claimed'
  BY <1>4, <1>8, SMTT(60) DEF SessionOver
<1> QED
  BY <1>1, <1>2, <1>3, <1>5, <1>6, <1>7, <1>8 DEF Next

-----------------------------------------------------------------------------

(* Between the insert of a sign-up and its password the row says "email", and it is the row
   of that sign-up alone; a row that is to be linked says otherwise.  So UpdatePassword
   never meets an account that an OAuth login has joined in between. *)
Linking ==
  \A r \in Requests :
    /\ call[r].at = "password" =>
         users[call[r].user] # NoUser /\ (Present(call[r].user) => users[call[r].user].provider = "email")
    /\ call[r].at = "link" =>
         users[call[r].user] # NoUser /\ (Present(call[r].user) => users[call[r].user].provider # "email")
    /\ \A q \in Requests \ {r} : call[r].at = "password" /\ call[q].at = "password" => call[r].user # call[q].user

(* Only UpdatePassword of a sign-up and the link of an OAuth login change a provider. *)
LEMMA Providing ==
  ASSUME AccountsAssumption, Steady, NEW r \in Requests, Step(r) \/ Fail(r),
         NEW id \in Ids, users[id] # NoUser
  PROVE  \/ users'[id].provider = users[id].provider
         \/ SignUpPassword(r) /\ Present(id) /\ id = call[r].user /\ users'[id].provider = "password"
         \/ OAuthLink(r) /\ Present(id) /\ id = call[r].user /\ users'[id].provider = "oauth"
<1>0. call[r] \in RequestState /\ users \in [Ids -> UserRow] /\ call[r].user \in Ids
  BY DEF Steady, Typed, RequestState
<1>1. CASE SignUpInsert(r) \/ OAuthJoin(r) \/ CommandMake(r)
  <2>1. UNCHANGED users \/ \E i \in Fresh : \E row : users' = [users EXCEPT ![i] = row]
    BY <1>1 DEF SignUpInsert, OAuthJoin, CommandMake, CreateUser
  <2> QED
    BY <1>0, <2>1 DEF Fresh
<1>2. CASE SignUpPassword(r)
  BY <1>0, <1>2 DEF SignUpPassword, WithHash, UserRow
<1>3. CASE OAuthLink(r)
  BY <1>0, <1>3 DEF OAuthLink, UserRow
<1>4. CASE ResetPassword(r) \/ ActivateAccount(r) \/ CommandRaise(r)
  BY <1>0, <1>4 DEF ResetPassword, ActivateAccount, CommandRaise, UserRow
<1> QED
  BY <1>1, <1>2, <1>3, <1>4
  DEF Step, Fail, SignUpCheck, SignUpMail, OAuthLookup, OAuthMint, RequestPasswordReset, GeneratePasswordResetToken,
      ReadToken, Reload, SpendToken, CommandPromote

(* No call of one statement changes a provider, except by deleting the row. *)
LEMMA OthersProviding ==
  ASSUME AccountsAssumption, Steady, NEW i \in Ids,
         PatchUser(i) \/ RemoveUser(i) \/ \E verified \in BOOLEAN : AdminUpdateUser(i, verified)
  PROVE  \A id \in Ids : users'[id].email = "none" \/ users'[id].provider = users[id].provider
<1>1. users \in [Ids -> UserRow] /\ Deleted.email = "none"
  BY DEF Steady, Typed, Deleted, NoUser
<1>2. CASE RemoveUser(i)
  BY <1>1, <1>2 DEF RemoveUser, DeleteUser
<1>3. CASE \E set \in BOOLEAN : users' = [users EXCEPT ![i] = UpdateUser(@, set)]
  BY <1>1, <1>3 DEF UpdateUser, UserRow
<1> QED
  BY <1>2, <1>3 DEF PatchUser, UpdateUserSelf, AdminUpdateUser, UpdateUserAdmin

(* The steps of a request keep it: OAuthLookup links no row of provider "email". *)
LEMMA StepLinking ==
  ASSUME AccountsAssumption, Steady, Steady', Linking, NEW r \in Requests, Step(r) \/ Fail(r)
  PROVE  Linking'
<1>0. /\ call[r] \in RequestState /\ Placed(call[r]) /\ users \in [Ids -> UserRow] /\ users' \in [Ids -> UserRow]
      /\ \A q \in Requests : call[q].user \in Ids
      /\ call \in [Requests -> RequestState]
  BY DEF Steady, Typed, RequestState
<1>1. \A q \in Requests \ {r} : call'[q] = call[q]
  BY Landing
<1>2. ASSUME NEW q \in Requests \ {r}
      PROVE  /\ call'[q].at = "password" =>
                  users'[call'[q].user] # NoUser /\ (Present(call[q].user)' => users'[call'[q].user].provider = "email")
             /\ call'[q].at = "link" =>
                  users'[call'[q].user] # NoUser /\ (Present(call[q].user)' => users'[call'[q].user].provider # "email")
  <2> DEFINE id == call[q].user
  <2>1. call'[q] = call[q] /\ id \in Ids
    BY <1>0, <1>1
  <2> SUFFICES ASSUME call[q].at \in {"password", "link"}
               PROVE  /\ users'[id] # NoUser
                      /\ call[q].at = "password" => users'[id].email = "none" \/ users'[id].provider = "email"
                      /\ call[q].at = "link" => users'[id].email = "none" \/ users'[id].provider # "email"
    BY <2>1 DEF Present
  <2>2. users[id] # NoUser
    BY DEF Linking
  <2>3. users'[id] # NoUser /\ (users'[id].email # "none" => Present(id))
    BY <2>1, <2>2, Lasting, StepMoves
  <2>4. CASE users'[id].provider = users[id].provider
    BY <2>3, <2>4 DEF Linking
  <2>5. CASE SignUpPassword(r) /\ id = call[r].user /\ users'[id].provider = "password"
    BY <2>3, <2>5 DEF Linking, SignUpPassword
  <2>6. CASE OAuthLink(r) /\ Present(id) /\ id = call[r].user /\ users'[id].provider = "oauth"
    BY <2>3, <2>6 DEF Linking, OAuthLink
  <2> QED
    BY <2>1, <2>2, <2>4, <2>5, <2>6, Providing
<1>3. call'[r].at = "password" =>
        /\ users'[call'[r].user] # NoUser /\ (Present(call[r].user)' => users'[call'[r].user].provider = "email")
        /\ \A q \in Requests \ {r} : call[q].at = "password" => call'[r].user # call[q].user
  <2> SUFFICES ASSUME SignUpInsert(r), call'[r].at = "password"
               PROVE  /\ users'[call'[r].user] # NoUser /\ users'[call'[r].user].provider = "email"
                      /\ \A q \in Requests \ {r} : call[q].at = "password" => call'[r].user # call[q].user
    BY Landing DEF OAuthLookup, OAuthJoin, OAuthLink
  <2>1. PICK id \in Fresh : CreateUser(id, call[r].email, "", call[r].role) /\ call'[r].user = id
    BY <1>0, ZenonT(60) DEF SignUpInsert, Stop, Idle, RequestState
  <2>2. id \in Ids /\ users[id] = NoUser
    BY DEF Fresh
  <2>3. users'[id].email \in Emails /\ users'[id].provider = "email"
    BY <1>0, <2>1, <2>2 DEF CreateUser, ProviderStored, NoUser, SignUpInsert, Placed
  <2>4. users'[id] # NoUser
    BY <1>0, <2>2, <2>3, NoneThere
  <2> QED
    BY <2>1, <2>2, <2>3, <2>4, ZenonT(60) DEF Linking
<1>4. call'[r].at = "link" =>
        /\ users'[call'[r].user] # NoUser /\ (Present(call[r].user)' => users'[call'[r].user].provider # "email")
  <2> SUFFICES ASSUME OAuthLookup(r), call'[r].at = "link"
               PROVE  /\ users'[call'[r].user] # NoUser /\ users'[call'[r].user].provider # "email"
    BY Landing DEF OAuthLookup, OAuthJoin, OAuthLink
  <2>1. PICK id \in GetUserByEmail(call[r].email) :
          call' = [call EXCEPT ![r].user = id, ![r].role = users[id].role, ![r].provider = users[id].provider,
                     ![r].at = IF users[id].provider \in {"", "password"} THEN "link" ELSE "mint"]
    BY <1>0, ZenonT(60) DEF OAuthLookup, Go, RequestState
  <2>2. call'[r].user = id /\ users[id].provider \in {"", "password"}
    BY <1>0, <2>1 DEF RequestState
  <2>3. id \in Ids /\ users[id].email \in Emails /\ UNCHANGED users
    BY <1>0 DEF GetUserByEmail, OAuthLookup, Placed
  <2>4. users[id] # NoUser
    BY <1>0, <2>3, NoneThere
  <2> QED
    BY <2>2, <2>3, <2>4
<1> QED
  BY <1>1, <1>2, <1>3, <1>4 DEF Linking

(* Every step does. *)
LEMMA NextLinking == AccountsAssumption /\ Steady /\ Linking /\ [Next]_vars => Linking'
<1> SUFFICES ASSUME AccountsAssumption, Steady, Linking, [Next]_vars PROVE Linking'
  OBVIOUS
<1>0. UsersMove /\ Steady' /\ \A q \in Requests : call[q].user \in Ids
  BY NextMoves, NextSteady DEF Steady, Typed, RequestState
<1>1. ASSUME UNCHANGED users,
             \A q \in Requests : call'[q] = call[q] \/ call'[q].at \notin {"link", "password"}
      PROVE  Linking'
  BY <1>1 DEF Linking, Present
<1>2. ASSUME NEW r \in Requests,
             \/ CreateUserRequest(r) \/ CreateAdmin(r) \/ CompleteAuth(r) \/ ForgotPassword(r)
             \/ ResetPasswordRequest(r) \/ ActivateAccountRequest(r) \/ Command(r)
      PROVE  Linking'
  <2>1. PICK new \in RequestState : Arrive(r, new) /\ new.at \in {"check", "lookup", "ask", "token", "promote"}
    BY <1>2, Arrivals
  <2> QED
    BY <1>1, <2>1 DEF Arrive, Steady, Typed
<1>3. ASSUME NEW r \in Requests, Step(r) \/ Fail(r) PROVE Linking'
  BY <1>0, <1>3, StepLinking
<1>4. ASSUME NEW i \in Ids,
             PatchUser(i) \/ RemoveUser(i) \/ \E verified \in BOOLEAN : AdminUpdateUser(i, verified)
      PROVE  Linking'
  <2>1. UNCHANGED call
    BY <1>4 DEF PatchUser, RemoveUser, AdminUpdateUser
  <2>2. \A id \in Ids : users'[id].email = "none" \/ users'[id].provider = users[id].provider
    BY <1>4, OthersProviding
  <2>3. \A id \in Ids : users[id] # NoUser =>
          users'[id] # NoUser /\ (users'[id].email # "none" => Present(id))
    BY <1>0, Lasting
  <2> QED
    BY <1>0, <2>1, <2>2, <2>3 DEF Linking, Present
<1>5. UNCHANGED <<users, call>> => Linking'
  BY <1>1
<1> QED
  BY <1>2, <1>3, <1>4, <1>5 DEF Next, vars, Login, GenerateToken, SessionOver

-----------------------------------------------------------------------------

(* An account nobody can log in to, and the sign-up that is behind it. *)
HalfMade(id) == Present(id) /\ ~users[id].password /\ users[id].provider # "oauth"
Behind(r, id) == call[r].op = "signup" /\ call[r].user = id /\ (call[r].at = "password" \/ call[r].answer = "failed")

(* HalfMadeIsExplained in these words. *)
LEMMA Halves == HalfMadeIsExplained <=> \A id \in Ids : HalfMade(id) => \E r \in Requests : Behind(r, id)
  BY DEF HalfMadeIsExplained, HalfMade, Behind

(* No statement makes an account half-made that was whole: passwords stay, and a provider
   goes only where there is one. *)
LEMMA HalfMadeStays ==
  ASSUME AccountsAssumption, Steady, UsersMove, NEW id \in Ids, users[id] # NoUser, HalfMade(id)'
  PROVE  HalfMade(id)
<1>1. users[id] \in UserRow /\ users'[id].email # "none" => Present(id) /\ Raised(users[id], users'[id])
  BY Lasting DEF HalfMade, Present
<1> QED
  BY <1>1, Lasting DEF HalfMade, Raised, Present

(* So a half-made account was inserted by a sign-up, and stays the matter of that sign-up. *)
LEMMA NextHalfMade == AccountsAssumption /\ Steady /\ HalfMadeIsExplained /\ [Next]_vars => HalfMadeIsExplained'
<1> SUFFICES ASSUME AccountsAssumption, Steady, HalfMadeIsExplained, [Next]_vars, NEW id \in Ids, HalfMade(id)'
             PROVE  \E r \in Requests : Behind(r, id)'
  BY Halves DEF HalfMadeIsExplained, HalfMade, Behind, Present
<1>0. /\ UsersMove /\ users \in [Ids -> UserRow] /\ call \in [Requests -> RequestState]
      /\ \A r \in Requests : call[r] \in RequestState /\ Placed(call[r])
  BY NextMoves DEF Steady, Typed
<1>1. CASE users[id] # NoUser
  <2>1. HalfMade(id)
    BY <1>0, <1>1, HalfMadeStays
  <2>2. PICK w \in Requests : Behind(w, id)
    BY <2>1, Halves
  <2>3. call[w].at \in {"password", "done"}
    BY <1>0, <2>2 DEF Behind, Placed
  <2>4. CASE call'[w] = call[w]
    BY <2>2, <2>4 DEF Behind
  <2>5. ASSUME NEW r \in Requests,
               \/ CreateUserRequest(r) \/ CreateAdmin(r) \/ CompleteAuth(r) \/ ForgotPassword(r)
               \/ ResetPasswordRequest(r) \/ ActivateAccountRequest(r) \/ Command(r)
        PROVE  call'[w] = call[w]
    <3>1. PICK new \in RequestState : Arrive(r, new)
      BY <2>5, Arrivals
    <3> QED
      BY <1>0, <2>3, <3>1 DEF Arrive
  <2>6. ASSUME NEW r \in Requests, Step(r) \/ Fail(r) PROVE Behind(w, id)'
    <3>1. CASE r # w
      <4>1. call'[w] = call[w]
        BY <2>6, <3>1, Landing
      <4> QED
        BY <2>2, <4>1 DEF Behind
    <3>2. CASE SignUpPassword(w)
      <4>1. call[w].user = id /\ Present(id)
        BY <2>1, <2>2 DEF Behind, HalfMade
      <4>2. users'[id] = WithHash(users[id])
        BY <1>0, <3>2, <4>1 DEF SignUpPassword
      <4> QED
        BY <1>0, <4>2 DEF HalfMade, WithHash, UserRow
    <3>3. CASE Fail(w)
      BY <1>0, <2>2, <2>3, <3>3, Stopping DEF Fail, Behind
    <3> QED
      BY <2>3, <2>6, <3>1, <3>2, <3>3 DEF Step, SignUpCheck, SignUpInsert, SignUpMail, OAuthLookup, OAuthJoin,
        OAuthLink, OAuthMint, RequestPasswordReset, GeneratePasswordResetToken, ReadToken, ResetPassword,
        ActivateAccount, Reload, SpendToken, CommandPromote, CommandRaise, CommandMake, Fail
  <2> QED
    BY <2>2, <2>4, <2>5, <2>6
    DEF Next, vars, Login, PatchUser, RemoveUser, AdminUpdateUser, GenerateToken, SessionOver
<1>2. CASE users[id] = NoUser
  <2>1. NoUser.email = "none" /\ Deleted.email = "none"
    BY DEF NoUser, Deleted
  <2>2. \A i \in Ids : Present(i) => i # id
    BY <1>2, <2>1 DEF Present
  <2>3. users'[id] # users[id]
    BY <1>2, <2>1 DEF HalfMade, Present
  <2>4. PICK r \in Requests : SignUpInsert(r) \/ OAuthJoin(r) \/ CommandMake(r)
    <3>1. ASSUME NEW r \in Requests, Step(r) \/ Fail(r)
          PROVE  SignUpInsert(r) \/ OAuthJoin(r) \/ CommandMake(r)
      BY <1>0, <2>2, <2>3, <3>1
      DEF Step, Fail, SignUpCheck, SignUpPassword, SignUpMail, OAuthLookup, OAuthLink, OAuthMint,
        RequestPasswordReset, GeneratePasswordResetToken, ReadToken, ResetPassword, ActivateAccount, Reload, SpendToken,
        CommandPromote, CommandRaise
    <3>2. ASSUME NEW r \in Requests,
                 \/ CreateUserRequest(r) \/ CreateAdmin(r) \/ CompleteAuth(r) \/ ForgotPassword(r)
                 \/ ResetPasswordRequest(r) \/ ActivateAccountRequest(r) \/ Command(r)
          PROVE  FALSE
      BY <2>3, <3>2, Arrivals DEF Arrive
    <3>3. ASSUME NEW i \in Ids, Present(i),
                 Login(i) \/ PatchUser(i) \/ RemoveUser(i) \/ \E verified \in BOOLEAN : AdminUpdateUser(i, verified)
          PROVE  FALSE
      BY <1>0, <2>2, <2>3, <3>3 DEF Login, PatchUser, UpdateUserSelf, RemoveUser, DeleteUser, AdminUpdateUser,
        UpdateUserAdmin
    <3> QED
      BY <2>3, <3>1, <3>2, <3>3 DEF Next, vars, GenerateToken, SessionOver
  <2>5. CASE SignUpInsert(r)
    BY <1>0, <2>3, <2>5 DEF SignUpInsert, CreateUser, Fresh, Behind, Placed, RequestState
  <2>6. CASE OAuthJoin(r)
    <3>1. PICK i \in Ids : users' = [users EXCEPT ![i] = [NoUser EXCEPT !.email = call[r].email,
                                       !.provider = ProviderStored("oauth"), !.role = "user"]]
      BY <2>3, <2>6 DEF OAuthJoin, CreateUser, Fresh
    <3>2. users'[id].provider = "oauth"
      BY <1>0, <2>3, <3>1 DEF ProviderStored, NoUser
    <3> QED
      BY <3>2 DEF HalfMade
  <2>7. CASE CommandMake(r)
    BY <1>0, <2>3, <2>7 DEF CommandMake, Fresh, HalfMade
  <2> QED
    BY <2>4, <2>5, <2>6, <2>7
<1> QED
  BY <1>1, <1>2

-----------------------------------------------------------------------------

(* The request has read the token and not deleted it yet. *)
Holds(r, t) == call[r].token = t /\ call[r].at \in {"apply", "reload", "spend"}

(* Of a token that two requests did not hold together, and that was deleted once used: one
   holds it, it is used once, and what was used is being deleted or is gone. *)
Single(t) ==
  t \notin shaky =>
    /\ \A r, q \in Requests : Holds(r, t) /\ Holds(q, t) => r = q
    /\ tokens[t].used \in {0, 1}
    /\ tokens[t].used = 1 => tokens[t].type = "gone" \/ \E r \in Requests : Holds(r, t) /\ call[r].at \in {"reload", "spend"}
    /\ \A r \in Requests : Holds(r, t) /\ call[r].at = "apply" => tokens[t].used = 0

(* That of every token: the strengthening of TokenSpentOnce. *)
Spending == \A t \in Tokens : Single(t)

(* A step that neither uses the token nor holds it keeps this. *)
LEMMA Unmoved ==
  ASSUME NEW t \in Tokens, Single(t), shaky \subseteq shaky',
         \/ tokens'[t] = tokens[t]
         \/ tokens'[t].used = 0
         \/ tokens'[t].used = tokens[t].used /\ tokens'[t].type = "gone",
         \A q \in Requests :
           \/ call'[q] = call[q]
           \/ ~Holds(q, t)' /\ ~(Holds(q, t) /\ call[q].at \in {"reload", "spend"})
  PROVE  Single(t)'
  BY DEF Single, Holds

(* A token that is deleted was used as often as before. *)
LEMMA Gone ==
  ASSUME NEW row \in TokenRow
  PROVE  [row EXCEPT !.type = "gone"].used = row.used /\ [row EXCEPT !.type = "gone"].type = "gone"
  BY DEF TokenRow

(* GetValidationToken: a second request that reads a token makes it shaky. *)
LEMMA ReadSpending ==
  ASSUME Steady, Spending, NEW r \in Requests, ReadToken(r)
  PROVE  Spending'
<1>0. /\ call \in [Requests -> RequestState] /\ tokens \in [Tokens -> TokenRow]
      /\ call[r] \in RequestState /\ call[r].token \in Tokens /\ call[r].at = "token"
      /\ \A q \in Requests \ {r} : call'[q] = call[q]
  <2>1. call[r] \in RequestState /\ Placed(call[r])
    BY DEF Steady, Typed
  <2> QED
    BY <2>1, Landing DEF Steady, Typed, ReadToken, Placed, Step
<1> SUFFICES ASSUME NEW t \in Tokens PROVE Single(t)'
  BY DEF Spending
<1>1. Single(t)
  BY DEF Spending
<1>2. CASE Stop(r, "refused")
  <2>1. call'[r].at = "done"
    BY <1>0, <1>2 DEF Stop, Idle
  <2>2. tokens'[t] = tokens[t] \/ (tokens'[t].used = tokens[t].used /\ tokens'[t].type = "gone")
    <3>1. tokens'[t] = tokens[t] \/ tokens'[t] = [tokens[t] EXCEPT !.type = "gone"]
      BY <1>0 DEF ReadToken, DeleteValidationToken
    <3>2. tokens[t] \in TokenRow
      BY <1>0
    <3>3. [tokens[t] EXCEPT !.type = "gone"].used = tokens[t].used /\ [tokens[t] EXCEPT !.type = "gone"].type = "gone"
      BY <3>2, Gone
    <3> QED
      BY <3>1, <3>3
  <2>3. shaky \subseteq shaky'
    BY DEF ReadToken
  <2> QED
    BY <1>0, <1>1, <2>1, <2>2, <2>3, Unmoved DEF Holds
<1>3. CASE /\ GetValidationToken(call[r].token) /\ UNCHANGED tokens
           /\ call' = [call EXCEPT ![r].at = "apply", ![r].user = tokens[call[r].token].user]
           /\ shaky' = IF \E q \in Requests \ {r} : call[q].token = call[r].token /\ call[q].at \in {"apply", "reload", "spend"}
                         THEN shaky \union {call[r].token} ELSE shaky
  <2>1. call'[r].at = "apply" /\ call'[r].token = call[r].token
    BY <1>0, <1>3 DEF RequestState
  <2>2. shaky \subseteq shaky'
    BY <1>3
  <2>3. CASE t # call[r].token
    BY <1>0, <1>1, <1>3, <2>1, <2>2, <2>3, Unmoved DEF Holds
  <2>4. CASE t = call[r].token /\ t \notin shaky'
    <3>1. \A q \in Requests \ {r} : ~Holds(q, t)
      BY <1>3, <2>4 DEF Holds
    <3>2. ~Holds(r, t)
      BY <1>0 DEF Holds
    <3>3. tokens[t].used = 0
      BY <1>1, <1>3, <2>2, <2>4, <3>1, <3>2 DEF Single, GetValidationToken
    <3> QED
      BY <1>0, <1>3, <2>1, <2>4, <3>1, <3>3 DEF Single, Holds
  <2>5. CASE t \in shaky'
    BY <2>5 DEF Single
  <2> QED
    BY <2>3, <2>4, <2>5
<1> QED
  BY <1>2, <1>3, SMTT(60) DEF ReadToken

(* The use counts one, for the one that holds it; the deletion ends it, or makes it shaky. *)
LEMMA UseSpending ==
  ASSUME AccountsAssumption, Steady, Spending, NEW r \in Requests,
         ResetPassword(r) \/ ActivateAccount(r) \/ Reload(r) \/ SpendToken(r) \/ Fail(r)
  PROVE  Spending'
<1>0. /\ call \in [Requests -> RequestState] /\ tokens \in [Tokens -> TokenRow]
      /\ call[r] \in RequestState /\ Placed(call[r])
      /\ \A q \in Requests \ {r} : call'[q] = call[q]
  <2>1. call[r] \in RequestState /\ Placed(call[r])
    BY DEF Steady, Typed
  <2> QED
    BY <2>1, Landing DEF Steady, Typed, Step
<1>1. shaky \subseteq shaky'
  BY DEF ResetPassword, ActivateAccount, Reload, SpendToken, Fail
<1>2. \A answer : Stop(r, answer) => call'[r].at = "done"
  BY <1>0 DEF Stop, Idle
<1>3. \A step : Go(r, step) => call'[r].at = step /\ call'[r].token = call[r].token
  BY <1>0 DEF Go, RequestState
<1> SUFFICES ASSUME NEW t \in Tokens, t \notin shaky' PROVE Single(t)'
  BY DEF Spending, Single
<1>4. Single(t) /\ t \notin shaky /\ tokens[t] \in TokenRow
  BY <1>0, <1>1 DEF Spending
<1>5. CASE call'[r].at = "done" /\ UNCHANGED tokens /\ (call[r].at \in {"reload", "spend"} => call[r].token \in shaky')
  BY <1>0, <1>1, <1>4, <1>5, Unmoved DEF Holds
<1>6. CASE /\ call[r].at = "apply" /\ call'[r].at = "reload" /\ call'[r].token = call[r].token
           /\ tokens' = [tokens EXCEPT ![call[r].token].used = IF @ < 2 THEN @ + 1 ELSE @]
  <2>1. CASE t # call[r].token
    BY <1>0, <1>1, <1>4, <1>6, <2>1, Unmoved DEF Holds
  <2>2. CASE t = call[r].token
    <3>1. tokens[t].used = 0 /\ Holds(r, t)
      BY <1>4, <1>6, <2>2 DEF Single, Holds
    <3>2. tokens'[t].used = 1
      BY <1>0, <1>6, <2>2, <3>1 DEF TokenRow
    <3>3. \A q \in Requests \ {r} : ~Holds(q, t)
      BY <1>4, <3>1 DEF Single
    <3> QED
      BY <1>0, <1>6, <2>2, <3>2, <3>3 DEF Single, Holds
  <2> QED
    BY <2>1, <2>2
<1>7. CASE call'[r].at = "done" /\ call[r].at = "spend" /\ tokens' = DeleteValidationToken(call[r].token)
  <2>1. CASE t # call[r].token
    BY <1>0, <1>1, <1>4, <1>7, <2>1, Unmoved DEF Holds, DeleteValidationToken
  <2>2. CASE t = call[r].token
    <3>1. tokens'[t].used = tokens[t].used /\ tokens'[t].type = "gone"
      BY <1>0, <1>4, <1>7, <2>2 DEF DeleteValidationToken, TokenRow
    <3> QED
      BY <1>0, <1>4, <1>7, <2>2, <3>1 DEF Single, Holds
  <2> QED
    BY <2>1, <2>2
<1>8. CASE /\ call[r].at = "reload" /\ call'[r].at = "spend" /\ call'[r].token = call[r].token
           /\ UNCHANGED <<tokens, shaky>>
  <2>1. \A q \in Requests : /\ Holds(q, t)' <=> Holds(q, t)
                            /\ call'[q].at = "apply" <=> call[q].at = "apply"
                            /\ call'[q].at \in {"reload", "spend"} <=> call[q].at \in {"reload", "spend"}
    BY <1>0, <1>8 DEF Holds
  <2> QED
    BY <1>4, <1>8, <2>1 DEF Single
<1> QED
  BY <1>2, <1>3, <1>5, <1>6, <1>7, <1>8 DEF ResetPassword, ActivateAccount, Reload, SpendToken, Fail

(* Every step keeps it. *)
LEMMA NextSpending == AccountsAssumption /\ Steady /\ Spending /\ [Next]_vars => Spending'
<1> SUFFICES ASSUME AccountsAssumption, Steady, Spending, [Next]_vars PROVE Spending'
  OBVIOUS
<1>0. /\ call \in [Requests -> RequestState] /\ tokens \in [Tokens -> TokenRow]
      /\ \A t \in Tokens : Single(t)
  BY DEF Steady, Typed, Spending
<1>1. ASSUME UNCHANGED <<tokens, shaky>>, NEW r \in Requests, call[r].at \notin {"apply", "reload", "spend"},
             call'[r].at \notin {"apply", "reload", "spend"}, \A q \in Requests \ {r} : call'[q] = call[q]
      PROVE  Spending'
  BY <1>0, <1>1, Unmoved DEF Spending, Holds
<1>2. ASSUME NEW r \in Requests,
             \/ CreateUserRequest(r) \/ CreateAdmin(r) \/ CompleteAuth(r) \/ ForgotPassword(r)
             \/ ResetPasswordRequest(r) \/ ActivateAccountRequest(r) \/ Command(r)
      PROVE  Spending'
  <2>1. PICK new \in RequestState : Arrive(r, new) /\ new.at \in {"check", "lookup", "ask", "token", "promote"}
    BY <1>2, Arrivals
  <2> QED
    BY <1>0, <1>1, <2>1 DEF Arrive
<1>3. ASSUME NEW r \in Requests, SignUpMail(r) \/ GeneratePasswordResetToken(r) PROVE Spending'
  <2>1. UNCHANGED shaky /\ call[r].at \notin {"apply", "reload", "spend"}
    BY <1>3 DEF SignUpMail, GeneratePasswordResetToken
  <2>2. UNCHANGED tokens \/ \E u \in Tokens : \E type, id : tokens' = [tokens EXCEPT ![u] = [type |-> type, user |-> id, used |-> 0]]
    BY <1>3 DEF SignUpMail, GeneratePasswordResetToken, generateActivationToken, CreateValidationToken
  <2>3. \A t \in Tokens : tokens'[t] = tokens[t] \/ tokens'[t].used = 0
    BY <1>0, <2>2
  <2>4. \A answer : Stop(r, answer) => call'[r].at = "done" /\ \A q \in Requests \ {r} : call'[q] = call[q]
    BY <1>0 DEF Stop, Idle
  <2>5. call'[r].at = "done" /\ \A q \in Requests \ {r} : call'[q] = call[q]
    BY <1>3, <2>4 DEF SignUpMail, GeneratePasswordResetToken, SendPasswordResetEmail
  <2> QED
    BY <1>0, <2>1, <2>3, <2>5, Unmoved DEF Spending, Holds
<1>4. ASSUME NEW r \in Requests,
             \/ SignUpCheck(r) \/ SignUpInsert(r) \/ SignUpPassword(r) \/ OAuthLookup(r) \/ OAuthJoin(r) \/ OAuthLink(r)
             \/ OAuthMint(r) \/ RequestPasswordReset(r) \/ CommandPromote(r) \/ CommandRaise(r) \/ CommandMake(r)
      PROVE  Spending'
  <2>1. /\ call[r].at \in {"check", "insert", "password", "lookup", "join", "link", "mint", "ask", "promote", "raise", "make"}
        /\ UNCHANGED <<tokens, shaky>>
    BY <1>4 DEF SignUpCheck, SignUpInsert, SignUpPassword, OAuthLookup, OAuthJoin, OAuthLink, OAuthMint,
      RequestPasswordReset, CommandPromote, CommandRaise, CommandMake
  <2>2. Step(r)
    BY <1>4 DEF Step
  <2>3. ~ReadToken(r) /\ ~ResetPassword(r) /\ ~ActivateAccount(r) /\ ~Reload(r)
    BY <2>1 DEF ReadToken, ResetPassword, ActivateAccount, Reload
  <2>4. call'[r].at \notin {"apply", "reload", "spend"} /\ \A q \in Requests \ {r} : call'[q] = call[q]
    BY <1>0, <2>2, <2>3, Landing
  <2> QED
    BY <1>1, <2>1, <2>4, SMTT(60)
<1>5. ASSUME NEW id \in Ids, RemoveUser(id) PROVE Spending'
  <2>1. UNCHANGED <<call, shaky>>
    BY <1>5 DEF RemoveUser
  <2>2. ASSUME NEW t \in Tokens
        PROVE  tokens'[t] = tokens[t] \/ (tokens'[t].used = tokens[t].used /\ tokens'[t].type = "gone")
    <3>1. tokens'[t] = tokens[t] \/ tokens'[t] = [tokens[t] EXCEPT !.type = "gone"]
      BY <1>0, <1>5 DEF RemoveUser, DeleteUser
    <3>2. tokens[t] \in TokenRow
      BY <1>0
    <3>3. [tokens[t] EXCEPT !.type = "gone"].used = tokens[t].used /\ [tokens[t] EXCEPT !.type = "gone"].type = "gone"
      BY <3>2, Gone
    <3> QED
      BY <3>1, <3>3
  <2> QED
    BY <1>0, <2>1, <2>2, Unmoved DEF Spending
<1>6. UNCHANGED <<call, tokens, shaky>> => Spending'
  BY <1>0, Unmoved DEF Spending
<1>7. ASSUME NEW r \in Requests, Step(r) \/ Fail(r) PROVE Spending'
  BY <1>3, <1>4, <1>7, ReadSpending, UseSpending DEF Step
<1> QED
  BY <1>2, <1>5, <1>6, <1>7
  DEF Next, vars, Login, PatchUser, AdminUpdateUser, GenerateToken, SessionOver

-----------------------------------------------------------------------------

(* The inductive invariant. *)
AccountsInv == Steady /\ Apart /\ Claimed /\ Linking /\ HalfMadeIsExplained /\ Spending

(* It holds in the beginning. *)
LEMMA InitInv == AccountsAssumption /\ Init => AccountsInv
<1> SUFFICES ASSUME AccountsAssumption, Init PROVE AccountsInv
  OBVIOUS
<1>1. /\ sessions = {} /\ shaky = {}
      /\ call = [r \in Requests |-> Idle]
  BY DEF Init
<1>2. Placed(Idle) /\ Idle.at = "new"
  BY DEF Placed, Idle
<1>3. /\ users[0] = Founder
      /\ \/ /\ users = [id \in Ids |-> IF id = 0 THEN Founder ELSE NoUser]
            /\ tokens = [t \in Tokens |-> NoToken]
         \/ \E e \in Emails \ {RootEmail}, type \in {"activation", "password_reset"}, row \in UserRow :
              /\ row.email = e /\ (row.provider = "oauth" \/ row.password)
              /\ users = [id \in Ids |-> CASE id = 0 -> Founder [] id = 1 -> row [] OTHER -> NoUser]
              /\ tokens = [t \in Tokens |-> IF t = 1 THEN [type |-> type, user |-> 1, used |-> 0] ELSE NoToken]
  <2>1. ASSUME NEW e \in Emails, NEW row \in Someone(e)
        PROVE  row \in UserRow /\ row.email = e /\ (row.provider = "oauth" \/ row.password)
    BY DEF Someone, NoUser, UserRow, Providers, Roles
  <2> QED
    BY <2>1, Ranges DEF Init
<1>4. /\ users \in [Ids -> UserRow] /\ tokens \in [Tokens -> TokenRow]
      /\ \A t \in Tokens : tokens[t].used = 0
  BY <1>3, Ranges DEF TokenRow, NoToken
<1>5. Steady
  BY <1>1, <1>2, <1>4, Ranges DEF Steady, Typed
<1>10. PICK row \in UserRow :
         /\ row = NoUser \/ (row.email \in Emails \ {RootEmail} /\ (row.provider = "oauth" \/ row.password))
         /\ \A id \in Ids : users[id] = IF id = 0 THEN Founder ELSE IF id = 1 THEN row ELSE NoUser
  <2>1. CASE users = [id \in Ids |-> IF id = 0 THEN Founder ELSE NoUser]
    <3>1. \A id \in Ids : users[id] = IF id = 0 THEN Founder ELSE IF id = 1 THEN NoUser ELSE NoUser
      BY <2>1
    <3> QED
      BY <3>1, Ranges
  <2>2. ASSUME NEW e \in Emails \ {RootEmail}, NEW row \in UserRow, row.email = e,
               row.provider = "oauth" \/ row.password,
               users = [id \in Ids |-> CASE id = 0 -> Founder [] id = 1 -> row [] OTHER -> NoUser]
        PROVE  /\ row.email \in Emails \ {RootEmail} /\ (row.provider = "oauth" \/ row.password)
               /\ \A id \in Ids : users[id] = IF id = 0 THEN Founder ELSE IF id = 1 THEN row ELSE NoUser
    BY <2>2
  <2> QED
    BY <1>3, <2>1, <2>2
<1>11. NoUser.email = "none" /\ Founder.email = RootEmail /\ Founder.password
  BY DEF NoUser, Founder
<1>6. Apart
  BY <1>10, <1>11 DEF Apart, Present, AccountsAssumption
<1>7. Claimed /\ Linking
  BY <1>1, <1>2 DEF Claimed, Linking
<1>8. HalfMadeIsExplained
  BY <1>10, <1>11 DEF HalfMadeIsExplained, Present
<1>9. Spending
  BY <1>1, <1>2, <1>4 DEF Spending, Single, Holds
<1> QED
  BY <1>5, <1>6, <1>7, <1>8, <1>9 DEF AccountsInv

(* Every step keeps it. *)
LEMMA StepInv == AccountsAssumption /\ AccountsInv /\ [Next]_vars => AccountsInv'
  BY NextSteady, NextApart, NextClaimed, NextLinking, NextHalfMade, NextSpending DEF AccountsInv

(* It is about the tables, the sessions and the requests alone. *)
LEMMA Stands == AccountsInv /\ UNCHANGED <<users, tokens, sessions, call, shaky>> => AccountsInv'
  BY DEF AccountsInv, Steady, Typed, Apart, Present, Claimed, Covered, Linking, HalfMadeIsExplained, Spending, Single, Holds

(* What the invariant says of the properties. *)
LEMMA InvImplies == AccountsInv => ClaimsCovered /\ HalfMadeIsExplained
  BY DEF AccountsInv, Claimed, Covered, ClaimsCovered

LEMMA InvSpends == AccountsInv => TokenSpentOnce
  BY DEF AccountsInv, Spending, Single, TokenSpentOnce

LEMMA InvTypes == AccountsInv /\ faults \in 0..MaxFaults => TypeOK
  BY DEF AccountsInv, Steady, Typed, Apart, TypeOK

(* A statement fails while there are failures left. *)
LEMMA StepFaults == [Next]_vars => faults' = faults \/ (faults < MaxFaults /\ faults' = faults + 1)
<1> SUFFICES ASSUME [Next]_vars PROVE faults' = faults \/ (faults < MaxFaults /\ faults' = faults + 1)
  OBVIOUS
<1>1. ASSUME NEW r \in Requests,
             \/ CreateUserRequest(r) \/ CreateAdmin(r) \/ CompleteAuth(r) \/ ForgotPassword(r)
             \/ ResetPasswordRequest(r) \/ ActivateAccountRequest(r) \/ Command(r)
      PROVE  UNCHANGED faults
  <2>0. ASSUME NEW q, Arrive(r, q) PROVE UNCHANGED faults
    BY <2>0 DEF Arrive
  <2>1. CASE CreateUserRequest(r)
    BY <2>0, <2>1 DEF CreateUserRequest
  <2>2. CASE CreateAdmin(r)
    BY <2>0, <2>2 DEF CreateAdmin
  <2>3. CASE CompleteAuth(r)
    BY <2>0, <2>3 DEF CompleteAuth
  <2>4. CASE ForgotPassword(r)
    BY <2>0, <2>4 DEF ForgotPassword
  <2>5. CASE ResetPasswordRequest(r)
    BY <2>0, <2>5 DEF ResetPasswordRequest, TokenRequest
  <2>6. CASE ActivateAccountRequest(r)
    BY <2>0, <2>6 DEF ActivateAccountRequest, TokenRequest
  <2>7. CASE Command(r)
    BY <2>0, <2>7, SMTT(60) DEF Command
  <2> QED
    BY <1>1, <2>1, <2>2, <2>3, <2>4, <2>5, <2>6, <2>7
<1>2. ASSUME NEW r \in Requests, Step(r) PROVE faults' = faults \/ (faults < MaxFaults /\ faults' = faults + 1)
  BY <1>2 DEF Step, SignUpCheck, SignUpInsert, SignUpPassword, SignUpMail, OAuthLookup, OAuthJoin, OAuthLink,
              OAuthMint, RequestPasswordReset, GeneratePasswordResetToken, ReadToken, ResetPassword,
              ActivateAccount, Reload, SpendToken, CommandPromote, CommandRaise, CommandMake
<1>3. ASSUME NEW i \in Ids,
             Login(i) \/ PatchUser(i) \/ RemoveUser(i) \/ \E verified \in BOOLEAN : AdminUpdateUser(i, verified)
      PROVE  UNCHANGED faults
  BY <1>3 DEF Login, PatchUser, RemoveUser, AdminUpdateUser
<1> QED
  BY <1>1, <1>2, <1>3 DEF Next, vars, GenerateToken, SessionOver, Fail

(* The action of LinkKept: an account that is joined to a provider is joined after the step
   too, as long as it is there. *)
LEMMA StepLinks ==
  AccountsAssumption /\ AccountsInv /\ [Next]_vars
    => \A id \in Ids : users[id].provider = "oauth" /\ users'[id].email # "none" => users'[id].provider = "oauth"
<1> SUFFICES ASSUME AccountsAssumption, AccountsInv, [Next]_vars, NEW id \in Ids,
                    users[id].provider = "oauth", users'[id].email # "none"
             PROVE  users'[id].provider = "oauth"
  OBVIOUS
<1>0. Steady /\ Linking /\ users[id] # NoUser
  <2>1. NoUser.provider = ""
    BY DEF NoUser
  <2> QED
    BY <2>1 DEF AccountsInv
<1>1. ASSUME NEW r \in Requests, Step(r) \/ Fail(r) PROVE users'[id].provider = "oauth"
  BY <1>0, <1>1, Providing DEF Linking, SignUpPassword
<1>2. ASSUME NEW r \in Requests,
             \/ CreateUserRequest(r) \/ CreateAdmin(r) \/ CompleteAuth(r) \/ ForgotPassword(r)
             \/ ResetPasswordRequest(r) \/ ActivateAccountRequest(r) \/ Command(r)
      PROVE  UNCHANGED users
  BY <1>0, <1>2, Arrivals DEF Arrive
<1>3. ASSUME NEW i \in Ids,
             PatchUser(i) \/ RemoveUser(i) \/ \E verified \in BOOLEAN : AdminUpdateUser(i, verified)
      PROVE  users'[id].provider = "oauth"
  BY <1>0, <1>3, OthersProviding
<1> QED
  BY <1>1, <1>2, <1>3 DEF Next, vars, Login, GenerateToken, SessionOver
=============================================================================
