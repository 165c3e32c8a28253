------------------------------ MODULE Accounts ------------------------------
(***************************************************************************)
(* Accounts, the tokens mailed for them and the sessions opened on them:   *)
(* handler/auth.go, handler/user.go, service/auth_service.go,              *)
(* service/user_service.go, middleware/jwt.go, store/postgres/             *)
(* user_store.go and cmd/createadmin, over the tables of migrations 001    *)
(* and 002.  Every call runs its statements one after the other without a  *)
(* transaction around them; the calls interleave, a statement may fail.    *)
(*                                                                         *)
(* Of an account the model keeps what these calls decide by: the e-mail,   *)
(* whether a password is set, the provider, the role, email_verified.      *)
(* Time is that a token or a session may be over at any moment.  A user    *)
(* name that is taken is a failing statement.  Account 0 is the first      *)
(* administrator, made by the command.                                     *)
(*                                                                         *)
(* ProviderEmpty, NothingSpent, SaveAll and NoHash are used by no action:  *)
(* each is what a slip in the code would make of what follows it.          *)
(***************************************************************************)
EXTENDS Integers, FiniteSets

CONSTANTS
  Emails,     \* the addresses people sign up with
  RootEmail,  \* that of account 0, in Emails
  Requests,   \* requests, each used once
  MaxUsers,   \* bound on the accounts ever created beside account 0
  MaxTokens,  \* bound on the tokens ever mailed
  MaxSessions, \* bound on the sessions alive together
  MaxFaults   \* bound on failing statements

\* There is an account beside the first administrator; no address is the mark of
\* a row that is not there.  The module that extends this one, or an instance, assumes it.
AccountsAssumption ==
  /\ MaxUsers \in Nat \ {0}
  /\ MaxTokens \in Nat
  /\ MaxFaults \in Nat
  /\ RootEmail \in Emails
  /\ "none" \notin Emails

VARIABLES
  users,    \* the table users: account -> row
  tokens,   \* the table validation_tokens: token -> row
  sessions, \* the JWTs in use that are not over
  call,     \* local state of each request
  faults,   \* statements failed so far
  shaky     \* history: tokens two requests held together, or used and then not deleted

vars == <<users, tokens, sessions, call, faults, shaky>>

Ids == 0..MaxUsers
Tokens == 1..MaxTokens
Providers == {"", "email", "password", "oauth"}
Roles == {"user", "admin"}

NoUser == [email |-> "none", password |-> FALSE, provider |-> "", role |-> "user", verified |-> FALSE]
Deleted == [NoUser EXCEPT !.provider = "email"]  \* its number is not used again
NoToken == [type |-> "unborn", user |-> 0, used |-> 0]
Idle == [op |-> "none", at |-> "new", email |-> "none", role |-> "user", user |-> 0,
         provider |-> "", token |-> 0, answer |-> "none"]

-----------------------------------------------------------------------------
(* UserStore: what each of its statements finds and leaves. *)

Present(id) == users[id].email # "none"
GetUserByEmail(e) == {id \in Ids : users[id].email = e}
IssuedTokens == {t \in Tokens : tokens[t].type # "unborn"}
GetValidationToken(t) == tokens[t].type \in {"activation", "password_reset"}

\* The column's default stands where the insert gives no provider (migration 001).
ProviderEmpty(given) == given
ProviderStored(given) == IF given = "" THEN "email" ELSE given

\* An insert is refused by the unique e-mail; accounts are numbered in their order.
Fresh == {id \in Ids \ {0} : users[id] = NoUser /\ \A j \in 1..(id - 1) : users[j] # NoUser}
CreateUser(id, e, provider, role) ==
  users' = [users EXCEPT ![id] = [NoUser EXCEPT !.email = e, !.provider = ProviderStored(provider),
                                                !.role = role]]

\* UpdateUser writes the fields that are not zero: it can set a flag, never clear one.
SaveAll(row, set) == [row EXCEPT !.verified = set, !.role = "user"]
UpdateUser(row, set) == [row EXCEPT !.verified = @ \/ set]

CreateValidationToken(type, id) ==
  \E t \in Tokens :
    /\ tokens[t].type = "unborn" /\ \A u \in 1..(t - 1) : tokens[u].type # "unborn"
    /\ tokens' = [tokens EXCEPT ![t] = [type |-> type, user |-> id, used |-> 0]]

NothingSpent(t) == tokens
DeleteValidationToken(t) == [tokens EXCEPT ![t].type = "gone"]

-----------------------------------------------------------------------------
(* A request and its steps. *)

Arrive(r, new) ==
  /\ call[r].at = "new"
  /\ call' = [call EXCEPT ![r] = new]
  /\ UNCHANGED <<users, tokens, sessions, faults, shaky>>

Go(r, step) == call' = [call EXCEPT ![r].at = step]
Stop(r, answer) ==
  call' = [call EXCEPT ![r] = [Idle EXCEPT !.op = call[r].op, !.user = call[r].user, !.at = "done", !.answer = answer]]

AdminSession == \E s \in sessions : s.role = "admin"

CreateUserRequest(r) ==
  \E e \in Emails : Arrive(r, [Idle EXCEPT !.op = "signup", !.at = "check", !.email = e])

\* POST /users/admins: the same sign-up with the role forced.
CreateAdmin(r) ==
  /\ AdminSession
  /\ \E e \in Emails :
       Arrive(r, [Idle EXCEPT !.op = "signup", !.at = "check", !.email = e, !.role = "admin"])

\* The provider has answered: its e-mail is looked up.
CompleteAuth(r) ==
  \E e \in Emails : Arrive(r, [Idle EXCEPT !.op = "oauth", !.at = "lookup", !.email = e])

ForgotPassword(r) ==
  \E e \in Emails : Arrive(r, [Idle EXCEPT !.op = "forgot", !.at = "ask", !.email = e])

TokenRequest(r, op) ==
  \E t \in IssuedTokens : Arrive(r, [Idle EXCEPT !.op = op, !.at = "token", !.token = t])
ResetPasswordRequest(r) == TokenRequest(r, "reset")
ActivateAccountRequest(r) == TokenRequest(r, "activate")

\* The command cmd/createadmin.
Command(r) ==
  \E e \in Emails : Arrive(r, [Idle EXCEPT !.op = "command", !.at = "promote", !.email = e,
                                           !.role = "admin"])

-----------------------------------------------------------------------------
(* SignUpWithPassword: check, insert, password, token. *)

SignUpCheck(r) ==
  /\ call[r].at = "check"
  /\ IF GetUserByEmail(call[r].email) # {} THEN Stop(r, "taken") ELSE Go(r, "insert")
  /\ UNCHANGED <<users, tokens, sessions, faults, shaky>>

SignUpInsert(r) ==
  /\ call[r].at = "insert"
  /\ IF GetUserByEmail(call[r].email) # {}
       THEN Stop(r, "taken") /\ UNCHANGED users
       ELSE \E id \in Fresh :
              /\ CreateUser(id, call[r].email, "", call[r].role)
              /\ call' = [call EXCEPT ![r].at = "password", ![r].user = id]
  /\ UNCHANGED <<tokens, sessions, faults, shaky>>

\* What UpdateUserFields is given after the insert, and its refusal of a row that is gone.
NoHash(row) == [row EXCEPT !.provider = "password"]
WithHash(row) == [row EXCEPT !.password = TRUE, !.provider = "password"]
SignUpPassword(r) ==
  /\ call[r].at = "password"
  /\ IF Present(call[r].user)
       THEN users' = [users EXCEPT ![call[r].user] = WithHash(@)] /\ Go(r, "mail")
       ELSE Stop(r, "failed") /\ UNCHANGED users
  /\ UNCHANGED <<tokens, sessions, faults, shaky>>

\* The activation token is mailed; without one the account is created all the same.
generateActivationToken(id) == Present(id) /\ CreateValidationToken("activation", id)
SignUpMail(r) ==
  /\ call[r].at = "mail"
  /\ \/ generateActivationToken(call[r].user) /\ UNCHANGED faults
     \/ ~Present(call[r].user) /\ UNCHANGED <<tokens, faults>>
     \/ faults < MaxFaults /\ faults' = faults + 1 /\ UNCHANGED tokens
  /\ Stop(r, "created")
  /\ UNCHANGED <<users, sessions, shaky>>

-----------------------------------------------------------------------------
(* SignUpWithOAuth, and the session CompleteAuth mints from the account as it was read. *)

Claims(id, subject, role, verified) ==
  [user |-> id, subject |-> subject, role |-> role, verified |-> verified]

OpenSession(claims) ==
  /\ Cardinality(sessions \union {claims}) <= MaxSessions
  /\ sessions' = sessions \union {claims}

\* The accounts of the e-mail are at most one.
OAuthLookup(r) ==
  /\ call[r].at = "lookup"
  /\ IF GetUserByEmail(call[r].email) = {}
       THEN Go(r, "join")
       ELSE \E id \in GetUserByEmail(call[r].email) :
              call' = [call EXCEPT ![r].user = id, ![r].role = users[id].role,
                         ![r].provider = users[id].provider,
                         ![r].at = IF users[id].provider \in {"", "password"} THEN "link" ELSE "mint"]
  /\ UNCHANGED <<users, tokens, sessions, faults, shaky>>

OAuthJoin(r) ==
  /\ call[r].at = "join"
  /\ IF GetUserByEmail(call[r].email) # {}
       THEN Stop(r, "taken") /\ UNCHANGED users
       ELSE \E id \in Fresh :
              /\ CreateUser(id, call[r].email, "oauth", "user")
              /\ call' = [call EXCEPT ![r].at = "mint", ![r].user = id, ![r].provider = "oauth"]
  /\ UNCHANGED <<tokens, sessions, faults, shaky>>

OAuthLink(r) ==
  /\ call[r].at = "link"
  /\ IF Present(call[r].user)
       THEN users' = [users EXCEPT ![call[r].user].provider = "oauth"] /\ Go(r, "mint")
       ELSE Stop(r, "failed") /\ UNCHANGED users
  /\ UNCHANGED <<tokens, sessions, faults, shaky>>

\* createToken writes the key "id" twice, first the id and then, as IdentityKey,
\* the user name; it has no emailVerified.
CreateToken(id, role) == Claims(id, "username", role, FALSE)
OAuthMint(r) ==
  /\ call[r].at = "mint"
  /\ OpenSession(CreateToken(call[r].user, call[r].role))
  /\ Stop(r, "ok")
  /\ UNCHANGED <<users, tokens, faults, shaky>>

-----------------------------------------------------------------------------
(* RequestPasswordReset, ResetPassword, ActivateAccount. *)

RequestPasswordReset(r) ==
  /\ call[r].at = "ask"
  /\ IF GetUserByEmail(call[r].email) = {}
       THEN Stop(r, "ok")
       ELSE \E id \in GetUserByEmail(call[r].email) :
              call' = [call EXCEPT ![r].at = "issue", ![r].user = id]
  /\ UNCHANGED <<users, tokens, sessions, faults, shaky>>

\* An e-mail that fails is the answer, and the token stays.
SendPasswordResetEmail(r) == \E answer \in {"ok", "failed"} : Stop(r, answer)

\* The token refers to its account: an account that is gone refuses it.
GeneratePasswordResetToken(r) ==
  /\ call[r].at = "issue"
  /\ IF Present(call[r].user)
       THEN CreateValidationToken("password_reset", call[r].user) /\ SendPasswordResetEmail(r)
       ELSE Stop(r, "failed") /\ UNCHANGED tokens
  /\ UNCHANGED <<users, sessions, faults, shaky>>

\* The row is read, its type and its age are looked at; an expired one is cleaned up.
ReadToken(r) ==
  LET t == call[r].token
      wrongType == call[r].op = "reset" /\ tokens[t].type # "password_reset"
      held == \E q \in Requests \ {r} : call[q].token = t /\ call[q].at \in {"apply", "reload", "spend"}
  IN  /\ call[r].at = "token"
      /\ \/ /\ ~GetValidationToken(t) \/ wrongType
            /\ Stop(r, "refused")
            /\ UNCHANGED <<tokens, shaky>>
         \/ /\ GetValidationToken(t) /\ ~wrongType
            /\ tokens' = DeleteValidationToken(t)
            /\ Stop(r, "refused")
            /\ UNCHANGED shaky
         \/ /\ GetValidationToken(t) /\ ~wrongType
            /\ call' = [call EXCEPT ![r].at = "apply", ![r].user = tokens[t].user]
            /\ shaky' = IF held THEN shaky \union {t} ELSE shaky
            /\ UNCHANGED tokens
      /\ UNCHANGED <<users, sessions, faults>>

\* UpdateUserFields writes the fields and then reads the row again: the token is deleted
\* only where that succeeds.  A sign-up or a link whose reload fails has written its
\* fields too and stops: Fail at the step after it.
ResetPassword(r) ==
  /\ call[r].at = "apply" /\ call[r].op = "reset"
  /\ IF Present(call[r].user)
       THEN /\ users' = [users EXCEPT ![call[r].user].password = TRUE]
            /\ tokens' = [tokens EXCEPT ![call[r].token].used = IF @ < 2 THEN @ + 1 ELSE @]
            /\ Go(r, "reload")
       ELSE Stop(r, "failed") /\ UNCHANGED <<users, tokens>>
  /\ UNCHANGED <<sessions, faults, shaky>>

ActivateAccount(r) ==
  /\ call[r].at = "apply" /\ call[r].op = "activate"
  /\ IF Present(call[r].user)
       THEN /\ users' = [users EXCEPT ![call[r].user].verified = TRUE]
            /\ tokens' = [tokens EXCEPT ![call[r].token].used = IF @ < 2 THEN @ + 1 ELSE @]
            /\ Go(r, "reload")
       ELSE Stop(r, "failed") /\ UNCHANGED <<users, tokens>>
  /\ UNCHANGED <<sessions, faults, shaky>>

Reload(r) ==
  /\ call[r].at = "reload"
  /\ IF Present(call[r].user)
       THEN Go(r, "spend") /\ UNCHANGED shaky
       ELSE Stop(r, "failed") /\ shaky' = shaky \union {call[r].token}
  /\ UNCHANGED <<users, tokens, sessions, faults>>

\* A deletion that fails is logged and the call succeeds.
SpendToken(r) ==
  /\ call[r].at = "spend"
  /\ \/ tokens' = DeleteValidationToken(call[r].token) /\ UNCHANGED <<faults, shaky>>
     \/ /\ faults < MaxFaults /\ faults' = faults + 1
        /\ shaky' = shaky \union {call[r].token}
        /\ UNCHANGED tokens
  /\ Stop(r, "ok")
  /\ UNCHANGED <<users, sessions>>

-----------------------------------------------------------------------------
(* Sessions, and the calls of one statement or one transaction. *)

\* Authenticate asks for the e-mail and the password, whatever the provider.
Authenticate(id) == users[id].password
Login(id) ==
  /\ Authenticate(id)
  /\ OpenSession(Claims(id, "id", users[id].role, users[id].verified))
  /\ UNCHANGED <<users, tokens, call, faults, shaky>>

\* An administrator's claims signed again, without the flag.
GenerateToken(s) ==
  /\ s.role = "admin"
  /\ OpenSession([s EXCEPT !.verified = FALSE])
  /\ UNCHANGED <<users, tokens, call, faults, shaky>>

SessionOver(s) ==
  /\ sessions' = sessions \ {s}
  /\ UNCHANGED <<users, tokens, call, faults, shaky>>

\* UserService: each call is one statement of the store, and no role is in either
\* payload.  The tokens of an account go with it (ON DELETE CASCADE).
UpdateUserSelf(id) == users' = [users EXCEPT ![id] = UpdateUser(@, FALSE)]
UpdateUserAdmin(id, verified) == users' = [users EXCEPT ![id] = UpdateUser(@, verified)]
DeleteUser(id) ==
  /\ users' = [users EXCEPT ![id] = Deleted]
  /\ tokens' = [t \in Tokens |-> IF t \in IssuedTokens /\ tokens[t].user = id
                                   THEN [tokens[t] EXCEPT !.type = "gone"] ELSE tokens[t]]

\* PATCH /users/:id, PATCH /users/:id/admin and DELETE /users/:id.
RequireSelfOrAdmin(id) ==
  \E s \in sessions : s.role = "admin" \/ (s.subject = "id" /\ s.user = id)

PatchUser(id) ==
  /\ RequireSelfOrAdmin(id)
  /\ UpdateUserSelf(id)
  /\ UNCHANGED <<tokens, sessions, call, faults, shaky>>

AdminUpdateUser(id, verified) ==
  /\ AdminSession
  /\ UpdateUserAdmin(id, verified)
  /\ UNCHANGED <<tokens, sessions, call, faults, shaky>>

\* The sessions of the account stay.
RemoveUser(id) ==
  /\ AdminSession
  /\ DeleteUser(id)
  /\ UNCHANGED <<sessions, call, faults, shaky>>

\* The command raises the account of the e-mail, or inserts a complete one.
CommandPromote(r) ==
  /\ call[r].at = "promote"
  /\ IF GetUserByEmail(call[r].email) = {}
       THEN Go(r, "make")
       ELSE \E id \in GetUserByEmail(call[r].email) :
              call' = [call EXCEPT ![r].at = "raise", ![r].user = id]
  /\ UNCHANGED <<users, tokens, sessions, faults, shaky>>

CommandRaise(r) ==
  /\ call[r].at = "raise"
  /\ IF Present(call[r].user)
       THEN users' = [users EXCEPT ![call[r].user].role = "admin"] /\ Stop(r, "ok")
       ELSE Stop(r, "failed") /\ UNCHANGED users
  /\ UNCHANGED <<tokens, sessions, faults, shaky>>

CommandMake(r) ==
  /\ call[r].at = "make"
  /\ IF GetUserByEmail(call[r].email) # {}
       THEN Stop(r, "taken") /\ UNCHANGED users
       ELSE \E id \in Fresh :
              /\ users' = [users EXCEPT ![id] = [email |-> call[r].email, password |-> TRUE,
                             provider |-> "password", role |-> "admin", verified |-> TRUE]]
              /\ Stop(r, "ok")
  /\ UNCHANGED <<tokens, sessions, faults, shaky>>

\* A statement fails: the call is over, what it wrote before stays.
Fail(r) ==
  /\ call[r].at \notin {"new", "done"}
  /\ faults < MaxFaults
  /\ faults' = faults + 1
  /\ shaky' = IF call[r].at \in {"reload", "spend"} THEN shaky \union {call[r].token} ELSE shaky
  /\ Stop(r, "failed")
  /\ UNCHANGED <<users, tokens, sessions>>

-----------------------------------------------------------------------------
\* The first administrator, and at most one account more with a token mailed for it.
Founder == [email |-> RootEmail, password |-> TRUE, provider |-> "password", role |-> "admin",
            verified |-> TRUE]
Someone(e) == {[NoUser EXCEPT !.email = e, !.provider = "oauth"],
               [NoUser EXCEPT !.email = e, !.provider = "password", !.password = TRUE]}

Init ==
  /\ \/ /\ users = [id \in Ids |-> IF id = 0 THEN Founder ELSE NoUser]
        /\ tokens = [t \in Tokens |-> NoToken]
     \/ \E e \in Emails \ {RootEmail}, type \in {"activation", "password_reset"} :
          /\ \E row \in Someone(e) :
               users = [id \in Ids |-> CASE id = 0 -> Founder [] id = 1 -> row [] OTHER -> NoUser]
          /\ tokens = [t \in Tokens |-> IF t = 1 THEN [type |-> type, user |-> 1, used |-> 0] ELSE NoToken]
  /\ sessions = {}
  /\ call = [r \in Requests |-> Idle]
  /\ faults = 0
  /\ shaky = {}

Step(r) ==
  \/ SignUpCheck(r) \/ SignUpInsert(r) \/ SignUpPassword(r) \/ SignUpMail(r)
  \/ OAuthLookup(r) \/ OAuthJoin(r) \/ OAuthLink(r) \/ OAuthMint(r)
  \/ RequestPasswordReset(r) \/ GeneratePasswordResetToken(r)
  \/ ReadToken(r) \/ ResetPassword(r) \/ ActivateAccount(r)
  \/ Reload(r) \/ SpendToken(r)
  \/ CommandPromote(r) \/ CommandRaise(r) \/ CommandMake(r)

Next ==
  \/ \E r \in Requests :
       \/ CreateUserRequest(r) \/ CreateAdmin(r) \/ CompleteAuth(r) \/ ForgotPassword(r)
       \/ ResetPasswordRequest(r) \/ ActivateAccountRequest(r) \/ Command(r)
       \/ Step(r) \/ Fail(r)
  \/ \E id \in {i \in Ids : Present(i)} :
       \/ Login(id) \/ PatchUser(id) \/ RemoveUser(id)
       \/ \E verified \in BOOLEAN : AdminUpdateUser(id, verified)
  \/ \E s \in sessions : GenerateToken(s) \/ SessionOver(s)

Spec == Init /\ [][Next]_vars

-----------------------------------------------------------------------------
Steps == {"new", "check", "insert", "password", "mail", "lookup", "join", "link", "mint", "ask", "issue",
          "token", "apply", "reload", "spend", "promote", "raise", "make", "done"}

UserRow == [email : Emails \union {"none"}, password : BOOLEAN, provider : Providers, role : Roles,
            verified : BOOLEAN]
TokenRow == [type : {"unborn", "activation", "password_reset", "gone"}, user : Ids, used : 0..2]
Session == [user : Ids, subject : {"id", "username"}, role : Roles, verified : BOOLEAN]
RequestState ==
  [op : {"none", "signup", "oauth", "forgot", "reset", "activate", "command"}, at : Steps,
   email : Emails \union {"none"}, role : Roles, user : Ids, provider : Providers, token : 0..MaxTokens,
   answer : {"none", "created", "ok", "taken", "refused", "failed"}]

\* Each variable has its type, and an e-mail belongs to one account.
TypeOK ==
  /\ users \in [Ids -> UserRow]
  /\ tokens \in [Tokens -> TokenRow]
  /\ sessions \subseteq Session
  /\ call \in [Requests -> RequestState]
  /\ faults \in 0..MaxFaults
  /\ shaky \subseteq Tokens
  /\ \A i, j \in Ids : Present(i) /\ users[i].email = users[j].email => i = j

\* An account that is joined to an OAuth provider stays joined to it: a sign-up
\* whose row an OAuth login meets between its two statements does not take it
\* back (auth_service.go:118-136, 198-210; migration 001, users.provider).
LinkKept ==
  [][\A id \in Ids : users[id].provider = "oauth" /\ users'[id].email # "none"
                       => users'[id].provider = "oauth"]_vars

\* A mailed token is used once, unless two requests with it ran together or a statement
\* between its use and its end failed: the one that reads the account again
\* (user_store.go:222-225) or the one that deletes the token (auth_service.go:405-408, 471-474).
TokenSpentOnce == \A t \in Tokens : tokens[t].used > 1 => t \in shaky

\* A session claims no role and no verification that its account does not have,
\* as long as the account is there: whatever changes accounts only raises them
\* (jwt.go:178-194, auth.go:218-242, 314-323, user_store.go:163-199).
ClaimsCovered ==
  \A s \in sessions : Present(s.user) =>
    /\ s.role = "admin" => users[s.user].role = "admin"
    /\ s.verified => users[s.user].verified

\* An account of nobody's, with an e-mail and no way to log in, is left only by
\* a sign-up under way or stopped half-way (auth_service.go:118-136).
HalfMadeIsExplained ==
  \A id \in Ids :
    Present(id) /\ ~users[id].password /\ users[id].provider # "oauth"
      => \E r \in Requests : /\ call[r].op = "signup" /\ call[r].user = id
                             /\ call[r].at = "password" \/ call[r].answer = "failed"

\* The id claim of every session is the id of its account.
SubjectIsAccount == \A s \in sessions : s.subject = "id"
=============================================================================
