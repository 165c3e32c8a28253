------------------------------ MODULE Gatekeeper ------------------------------
(***************************************************************************)
(* Logging in through an OpenID provider: pkg/gatekeeper, the state of a   *)
(* login under way (state_store.go), the login and its callback            *)
(* (application.go, oidc/discovery.go), the session it opens               *)
(* (identity_store.go) and the requests that use it (controllerHttp.go,    *)
(* middleware/access_control.go).  The package is not wired to the server  *)
(* (setup.go leaves setupGatekeeper out): this is what its routes do when  *)
(* they are registered.                                                    *)
(*                                                                         *)
(* Each window of a browser starts one login and may load the callback     *)
(* again.  A state is a string the front-end chooses, or one of the        *)
(* generated ones, which are all different.  The provider gives a code to  *)
(* the window it sent away, and takes it back once and only with the PKCE  *)
(* verifier of that login; it may leave the nonce out of its token.        *)
(*                                                                         *)
(* The map of the sessions has no lock: two calls that meet in it while    *)
(* one of them writes may end the process ("concurrent map writes").       *)
(*                                                                         *)
(* A response takes its time to the browser, or is lost on the way.        *)
(*                                                                         *)
(* AnyVerifier and Uncapped are used by no action: each is what a slip in  *)
(* the code would make of the definition that follows it.                  *)
(***************************************************************************)
EXTENDS Integers, FiniteSets

CONSTANTS
  Windows,    \* one login each
  Chosen,     \* the states a front-end may choose
  Subjects,   \* the people at the provider
  Short,      \* those whose subject is too short for a session token
  StateTTL,   \* what is configured for the life of a state, 0 for nothing
  DefaultTTL, \* which is then 10 minutes in the code
  SessionTTL, \* that of a session, 60 minutes in the code where it is 0
  LongestTTL, \* a state that lives longer is refused, 24 hours in the code
  Lifetimes,  \* how long the provider's tokens may live, 0 when it does not say
  MaxClock,   \* bound on time, in seconds
  MaxReloads  \* bound on the callbacks that are loaded again, per window

\* Lives are times; a state lives DefaultTTL where nothing is configured, a session a
\* whole number of seconds, at least one.  The module that extends this one, or an
\* instance, assumes it.
GatekeeperAssumption ==
  /\ "none" \notin Windows /\ "none" \notin Subjects
  /\ StateTTL \in Int /\ LongestTTL \in Nat /\ DefaultTTL \in 0..LongestTTL /\ SessionTTL \in Nat \ {0}
  /\ Lifetimes \subseteq Nat
  /\ MaxClock \in Nat /\ MaxReloads \in Nat

VARIABLES
  config,   \* is it built, the life of a state, do the two secrets agree
  clock,
  states,   \* the state store
  sessions, \* the identity store: token -> session
  window,   \* local state of each window
  fresh     \* the windows whose code the provider has not taken back yet

vars == <<config, clock, states, sessions, window, fresh>>

Keys == Chosen \union Windows
Tokens == Subjects \X (0..MaxClock)
NoEntry == [login |-> "none", expires |-> 0]
NoToken == <<"none", 0>>
NoSession == [subject |-> "none", expiry |-> -1]
Unbuilt == [ready |-> FALSE, ttl |-> 0, signed |-> FALSE]

\* The login (its key, who logs in, the login the state was loaded with), the session
\* on its way (token, expiry, maxAge), the cookie (what it holds, until when it is kept,
\* since when it is there), a request (the token it was sent with, the age the cookie
\* had; NoToken: none), and what the properties ask of its past.
Idle == [at |-> "new", key |-> "none", subject |-> "none", login |-> "none", reloads |-> 0,
         token |-> NoToken, expiry |-> -1, maxAge |-> 0,
         cookie |-> NoToken, until |-> 0, since |-> 0, sent |-> NoToken, age |-> 0,
         made |-> {}, late |-> FALSE, loads |-> 0]

Init ==
  /\ config = Unbuilt
  /\ clock = 0
  /\ states = [k \in Keys |-> NoEntry]
  /\ sessions = [t \in Tokens |-> NoSession]
  /\ window = [w \in Windows |-> Idle]
  /\ fresh = {}

Go(w, step) == window' = [window EXCEPT ![w].at = step]

-----------------------------------------------------------------------------
(* NewGateKeeper: the provider is discovered, then defaults and checks. *)

\* What the well-known address of the provider answers: whose document it is
\* and whether it names the two endpoints.
Documents == [issuer : {"", "itself", "another"}, authorization : BOOLEAN, token : BOOLEAN]
Discover(doc) == doc.issuer # "" /\ doc.authorization /\ doc.token
NewDiscoveryOIDCProvider(doc) == Discover(doc) /\ doc.issuer = "itself"

NewApplication(provider, signed) ==
  IF provider /\ StateTTL <= LongestTTL
    THEN [ready |-> TRUE, ttl |-> IF StateTTL <= 0 THEN DefaultTTL ELSE StateTTL, signed |-> signed]
    ELSE Unbuilt

\* The identity store is given with a secret of its own, or made with none.
NewGateKeeper ==
  /\ ~config.ready
  /\ \E doc \in Documents, signed \in BOOLEAN :
       config' = NewApplication(NewDiscoveryOIDCProvider(doc), signed)
  /\ UNCHANGED <<clock, states, sessions, window, fresh>>

-----------------------------------------------------------------------------
(* LoginHandler, and what becomes of it at the provider. *)

\* A state that is used again takes the place of the login that had it.
Save(w, k) == states' = [states EXCEPT ![k] = [login |-> w, expires |-> clock + config.ttl]]

\* The window leaves for the provider with the state and the challenge of its login.
BeginAuth(w, k) == window' = [window EXCEPT ![w].at = "away", ![w].key = k]

\* What is saved stays when the window cannot be sent away.
LoginHandler(w) ==
  /\ config.ready /\ window[w].at = "new"
  /\ \/ \E k \in Chosen \union {w} : Save(w, k) /\ (BeginAuth(w, k) \/ Go(w, "refused"))
     \/ Go(w, "refused") /\ UNCHANGED states
  /\ UNCHANGED <<config, clock, sessions, fresh>>

Authenticate(w) ==
  /\ window[w].at = "away"
  /\ \E s \in Subjects : window' = [window EXCEPT ![w].at = "callback", ![w].subject = s]
  /\ fresh' = fresh \union {w}
  /\ UNCHANGED <<config, clock, states, sessions>>

Reload(w) ==
  /\ window[w].at \in {"ok", "failed"} /\ window[w].reloads < MaxReloads
  /\ window' = [window EXCEPT ![w].at = "callback", ![w].reloads = @ + 1]
  /\ UNCHANGED <<config, clock, states, sessions, fresh>>

-----------------------------------------------------------------------------
(* CallbackHandler, one call of the stores or of the provider at a time. *)

VerifyAndLoad(k) == [states EXCEPT ![k] = NoEntry]

CallbackHandler(w) ==
  /\ config.ready /\ window[w].at = "callback"
  /\ LET entry == states[window[w].key]
     IN  IF entry = NoEntry \/ clock > entry.expires
           THEN /\ states' = [states EXCEPT ![window[w].key] = NoEntry]
                /\ Go(w, "failed")
           ELSE /\ states' = VerifyAndLoad(window[w].key)
                /\ window' = [window EXCEPT ![w].at = "exchange", ![w].login = entry.login,
                                           ![entry.login].loads = IF @ < 2 THEN @ + 1 ELSE @]
  /\ UNCHANGED <<config, clock, sessions, fresh>>

\* The verifier of the login the state was loaded with; the token has an expiry or none.
AnyVerifier(w) == w \in fresh
Exchangeable(w) == w \in fresh /\ window[w].login = w
ExchangeToken(w) ==
  /\ config.ready /\ window[w].at = "exchange"
  /\ \/ /\ Exchangeable(w)
        /\ fresh' = fresh \ {w}
        /\ \E life \in Lifetimes :
             window' = [window EXCEPT ![w].at = "verify", ![w].expiry = IF life = 0 THEN -1 ELSE clock + life]
     \/ Go(w, "failed") /\ UNCHANGED fresh
  /\ UNCHANGED <<config, clock, states, sessions>>

\* The ID token is missing or not valid, its claims may be of other types than
\* the code reads, and it has the nonce of the login or none.
IDTokens(w) == [valid : BOOLEAN, readable : BOOLEAN, nonce : {"", w}]
GetTokenClaims(token) == IF token.readable THEN [nonce |-> token.nonce] ELSE [nonce |-> "error"]

VerifyIDToken(w) ==
  /\ config.ready /\ window[w].at = "verify"
  /\ \E token \in IDTokens(w) :
       Go(w, IF token.valid /\ GetTokenClaims(token).nonce \in {"", window[w].login} THEN "info" ELSE "failed")
  /\ UNCHANGED <<config, clock, states, sessions, fresh>>

GetUserInfo(w) ==
  /\ config.ready /\ window[w].at = "info"
  /\ \E step \in {"session", "failed"} : Go(w, step)
  /\ UNCHANGED <<config, clock, states, sessions, fresh>>

\* The token is made of the subject and the second; an expiry that is over, or
\* none, is that of a new session.
Expiry(w) == IF window[w].expiry < clock THEN clock + SessionTTL ELSE window[w].expiry
createSession(w) ==
  /\ config.ready /\ window[w].at = "session"
  /\ LET s == window[w].subject
     IN  IF s \in Short \/ ~config.signed
           THEN Go(w, "failed")
           ELSE window' = [window EXCEPT ![w].at = "set", ![w].token = <<s, clock>>, ![w].expiry = Expiry(w)]
  /\ UNCHANGED <<config, clock, states, sessions, fresh>>

\* The time to live, SessionTTL at most, is sent in whole seconds: the fraction is cut.
Uncapped(ttl) == ttl
Capped(ttl) == IF ttl > SessionTTL THEN SessionTTL ELSE ttl
MaxAges(w) == {Capped(ttl) : ttl \in {window[w].expiry - clock, window[w].expiry - clock - 1}}
Set(w) ==
  /\ config.ready /\ window[w].at = "set"
  /\ sessions' = [sessions EXCEPT ![window[w].token] =
       [subject |-> window[w].subject, expiry |-> window[w].expiry]]
  /\ \E age \in MaxAges(w) :
       window' = [window EXCEPT ![w].at = "reply", ![w].maxAge = age, ![w].made = @ \union {window[w].login}]
  /\ UNCHANGED <<config, clock, states, fresh>>

\* The browser counts Max-Age from the response; where it is 0 it is not sent and
\* Expires counts, below 0 it takes the cookie away.  The handler forgets the session.
KeptUntil(w) ==
  CASE window[w].maxAge > 0 -> clock + window[w].maxAge
    [] window[w].maxAge = 0 -> window[w].expiry
    [] OTHER -> -1
Reply(w) ==
  /\ window[w].at = "reply"
  /\ \/ window' = [window EXCEPT ![w].at = "ok", ![w].cookie = window[w].token,
                                ![w].until = KeptUntil(w), ![w].since = clock,
                                ![w].token = NoToken, ![w].expiry = -1, ![w].maxAge = 0]
     \/ Go(w, "failed")
  /\ UNCHANGED <<config, clock, states, sessions, fresh>>

-----------------------------------------------------------------------------
(* A request with the cookie: sessionHandler, Authorize, DualTokenMiddleware. *)

\* The cookie is there as long as the browser keeps it; the read of the map follows.
Ask(w) ==
  /\ config.ready /\ window[w].sent = NoToken /\ window[w].cookie # NoToken /\ window[w].until >= clock
  /\ window' = [window EXCEPT ![w].sent = window[w].cookie, ![w].age = clock - window[w].since]
  /\ UNCHANGED <<config, clock, states, sessions, fresh>>

\* The first and the last fall back on a bearer token, Authorize refuses: a request
\* through DualTokenMiddleware reads the map again in Authorize.
sessionHandler(w) == Ask(w)
DualTokenMiddleware(w) == Ask(w)
Authorize(w) == Ask(w)

\* The signature is looked at, then the session, then its expiry.
Accepted(token) == sessions[token] # NoSession /\ clock <= sessions[token].expiry
Get(w) ==
  /\ config.ready /\ window[w].sent # NoToken
  /\ window' = [window EXCEPT ![w].sent = NoToken, ![w].age = 0,
       ![w].late = @ \/ (window[w].age > SessionTTL /\ Accepted(window[w].sent))]
  /\ UNCHANGED <<config, clock, states, sessions, fresh>>

-----------------------------------------------------------------------------
\* Two calls in the map, one of them writing: the process dies with what it
\* remembers, and starts again.  The browsers keep their cookies, and a response
\* may be under way.
Crash ==
  /\ \E w, v \in Windows : w # v /\ window[w].at = "set" /\ (window[v].at = "set" \/ window[v].sent # NoToken)
  /\ config' = Unbuilt
  /\ states' = [k \in Keys |-> NoEntry]
  /\ sessions' = [t \in Tokens |-> NoSession]
  /\ window' = [w \in Windows |->
       [window[w] EXCEPT !.sent = NoToken, !.age = 0,
                         !.at = IF @ \in {"exchange", "verify", "info", "session", "set"} THEN "failed" ELSE @]]
  /\ UNCHANGED <<clock, fresh>>

Tick ==
  /\ clock < MaxClock
  /\ clock' = clock + 1
  /\ UNCHANGED <<config, states, sessions, window, fresh>>

Next ==
  \/ NewGateKeeper \/ Crash \/ Tick
  \/ \E w \in Windows :
       \/ LoginHandler(w) \/ Authenticate(w) \/ Reload(w)
       \/ CallbackHandler(w) \/ ExchangeToken(w) \/ VerifyIDToken(w) \/ GetUserInfo(w)
       \/ createSession(w) \/ Set(w) \/ Reply(w)
       \/ sessionHandler(w) \/ DualTokenMiddleware(w) \/ Authorize(w) \/ Get(w)

Spec == Init /\ [][Next]_vars

-----------------------------------------------------------------------------
\* Each variable has its type.
TypeOK ==
  /\ config \in [ready : BOOLEAN, ttl : 0..LongestTTL, signed : BOOLEAN]
  /\ clock \in 0..MaxClock
  /\ \A k \in Keys : states[k].login \in Windows \union {"none"}
  /\ \A t \in Tokens : sessions[t].subject \in {t[1], "none"}
  /\ \A w \in Windows : window[w].reloads \in 0..MaxReloads
  /\ fresh \subseteq Windows

\* A session is opened with the data of the login it answers, and the state of a
\* login is redeemed by one callback, however often callbacks are loaded: where
\* the state of another login is met under the same key the exchange is refused,
\* though the nonce may be missing (application.go:284-427, state_store.go:80-97,
\* oidc/discovery.go:223-256).
OwnLogin == \A w \in Windows : window[w].made \subseteq {w} /\ window[w].loads <= 1

\* No request is let in that was sent more than SessionTTL after the browser was given
\* its cookie, though the store keeps the expiry of the provider's token, which may be
\* much later, and time goes by between the token, the store and the response
\* (application.go:429-494, identity_store.go:152-180).
WithinTTL == \A w \in Windows : ~window[w].late
=============================================================================
