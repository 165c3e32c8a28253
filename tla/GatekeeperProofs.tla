-------------------------- MODULE GatekeeperProofs --------------------------
(***************************************************************************)
(* What every step keeps of Gatekeeper, for any windows, people, lives and *)
(* times: GatekeeperInv.  For each window it says what the window knows    *)
(* where it stands (Travelled), that its login has one entry in the state  *)
(* store at most and none once it was loaded (Redeemed), and that its      *)
(* cookie ends in time (InTime); of each session, that it is of the person *)
(* and the second of its token (Stamped).  OfficeProofs states the results *)
(* for the behaviours of the back office.                                  *)
(***************************************************************************)
EXTENDS Gatekeeper, TLAPS

(* The states of a window; while it answers a callback it is in the hands of the process,
   the reply is not any more. *)
Answering == {"exchange", "verify", "info", "session", "set"}
Steps == Answering \union {"new", "refused", "away", "callback", "reply", "ok", "failed"}
WindowState ==
  [at : Steps, key : Keys \union {"none"}, subject : Subjects \union {"none"}, login : Windows \union {"none"},
   reloads : 0..MaxReloads, token : Tokens \union {NoToken}, expiry : Int, maxAge : Int,
   cookie : Tokens \union {NoToken}, until : Int, since : Int, sent : Tokens \union {NoToken}, age : Int,
   made : SUBSET Windows, late : BOOLEAN, loads : 0..2]
Entry == [login : Windows, expires : Nat] \union {NoEntry}
SessionRow == [subject : Subjects, expiry : Int]

(* The types of the variables. *)
Typed ==
  /\ config \in [ready : BOOLEAN, ttl : 0..LongestTTL, signed : BOOLEAN]
  /\ clock \in 0..MaxClock
  /\ states \in [Keys -> Entry]
  /\ sessions \in [Tokens -> SessionRow \union {NoSession}]
  /\ window \in [Windows -> WindowState]
  /\ fresh \subseteq Windows

(* A window that has been sent away knows its key, one that came back its person. *)
Travelled(w) ==
  /\ window[w].at \notin {"new", "refused"} => window[w].key \in Keys
  /\ window[w].at \notin {"new", "refused", "away"} => window[w].subject \in Subjects
  /\ window[w].at \in {"verify", "info", "session", "set"} => window[w].login = w
  /\ window[w].at = "set" => window[w].token \in Tokens /\ window[w].token[1] = window[w].subject

(* One entry of the state store at most is of a login, none once it is loaded. *)
Redeemed(w) ==
  /\ window[w].made \subseteq {w}
  /\ window[w].loads \in {0, 1}
  /\ window[w].at = "new" \/ window[w].loads = 1 => \A k \in Keys : states[k].login # w
  /\ window[w].at = "new" => window[w].loads = 0
  /\ \A k, l \in Keys : states[k].login = w /\ states[l].login = w => k = l

(* The cookie ends SessionTTL after it came, so will the one of a reply that is still
   under way, with Max-Age or without. *)
InTime(w) ==
  /\ ~window[w].late
  /\ window[w].until <= window[w].since + SessionTTL
  /\ window[w].age <= SessionTTL
  /\ window[w].at = "reply" =>
       /\ window[w].maxAge <= SessionTTL
       /\ window[w].maxAge = 0 => window[w].expiry <= clock + SessionTTL

(* A session has the person of its token. *)
Stamped == \A t \in Tokens : sessions[t] # NoSession => sessions[t].subject = t[1]

(* The inductive invariant. *)
GatekeeperInv == Typed /\ Stamped /\ \A w \in Windows : Travelled(w) /\ Redeemed(w) /\ InTime(w)

(* It holds in the beginning. *)
LEMMA InitInv == GatekeeperAssumption /\ Init => GatekeeperInv
<1> SUFFICES ASSUME GatekeeperAssumption, Init PROVE GatekeeperInv
  OBVIOUS
<1> USE DEF Init, GatekeeperAssumption
<1>1. Idle \in WindowState
  BY DEF Idle, WindowState, Steps, Answering
<1>2. Typed
  BY <1>1 DEF Typed, Unbuilt, Entry
<1>3. Stamped
  BY DEF Stamped
<1>4. ASSUME NEW w \in Windows PROVE Travelled(w) /\ Redeemed(w) /\ InTime(w)
  BY <1>4 DEF Travelled, Redeemed, InTime, Idle, NoEntry
<1> QED
  BY <1>2, <1>3, <1>4 DEF GatekeeperInv

(* A step of one window that leaves the stores alone. *)
LEMMA OfOne ==
  ASSUME GatekeeperAssumption, GatekeeperInv, NEW w \in Windows, NEW new \in WindowState,
         window' = [window EXCEPT ![w] = new], UNCHANGED <<config, clock, states, sessions>>,
         fresh' \subseteq Windows,
         Travelled(w)', Redeemed(w)', InTime(w)'
  PROVE  GatekeeperInv'
<1>1. Typed' /\ Stamped'
  BY DEF GatekeeperInv, Typed, Stamped
<1>2. \A v \in Windows \ {w} : window'[v] = window[v]
  BY DEF GatekeeperInv, Typed
<1> QED
  BY <1>1, <1>2 DEF GatekeeperInv, Travelled, Redeemed, InTime

(* A step that only moves the window on. *)
LEMMA Goes ==
  ASSUME GatekeeperAssumption, GatekeeperInv, NEW w \in Windows, NEW step \in Steps, Go(w, step),
         UNCHANGED <<config, clock, states, sessions>>, fresh' \subseteq Windows,
         step \notin {"set", "new", "reply"},
         step \notin {"new", "refused"} => window[w].key \in Keys,
         step \notin {"new", "refused", "away"} => window[w].subject \in Subjects,
         step \in {"verify", "info", "session"} => window[w].login = w
  PROVE  GatekeeperInv'
<1> DEFINE new == [window[w] EXCEPT !.at = step]
<1>0. window \in [Windows -> WindowState] /\ window[w] \in WindowState
  BY DEF GatekeeperInv, Typed
<1>1. new \in WindowState
  BY <1>0 DEF WindowState
<1>2. /\ new.at = step /\ new.key = window[w].key /\ new.subject = window[w].subject
      /\ new.login = window[w].login /\ new.made = window[w].made /\ new.loads = window[w].loads
      /\ new.late = window[w].late /\ new.token = window[w].token /\ new.until = window[w].until
      /\ new.since = window[w].since /\ new.age = window[w].age
  BY <1>0 DEF WindowState
<1>3. window' = [window EXCEPT ![w] = new]
  BY DEF Go
<1> HIDE DEF new
<1>4. window'[w] = new
  BY <1>0, <1>3
<1>5. Travelled(w)' /\ Redeemed(w)' /\ InTime(w)'
  BY <1>2, <1>4 DEF GatekeeperInv, Travelled, Redeemed, InTime
<1> QED
  BY <1>1, <1>3, <1>5, OfOne

(* LoginHandler: the entry it saves is the only one of its login, whatever it took the place of. *)
LEMMA Begins ==
  ASSUME GatekeeperAssumption, GatekeeperInv, NEW w \in Windows, LoginHandler(w)
  PROVE  GatekeeperInv'
<1>0. /\ window \in [Windows -> WindowState] /\ window[w] \in WindowState /\ states \in [Keys -> Entry]
      /\ window[w].at = "new" /\ UNCHANGED <<config, clock, sessions, fresh>>
  BY DEF GatekeeperInv, Typed, LoginHandler
<1>1. CASE Go(w, "refused") /\ UNCHANGED states
  BY <1>0, <1>1, Goes DEF GatekeeperInv, Typed, Steps
<1>2. ASSUME NEW k \in Chosen \union {w}, Save(w, k), BeginAuth(w, k) \/ Go(w, "refused")
      PROVE  GatekeeperInv'
  <2> DEFINE entry == [login |-> w, expires |-> clock + config.ttl]
             new == IF BeginAuth(w, k) THEN [window[w] EXCEPT !.at = "away", !.key = k]
                                       ELSE [window[w] EXCEPT !.at = "refused"]
  <2>1. k \in Keys /\ clock + config.ttl \in Nat
    BY DEF Keys, GatekeeperInv, Typed, GatekeeperAssumption
  <2>2. entry \in Entry /\ entry.login = w
    BY <2>1 DEF Entry
  <2>3. states' = [states EXCEPT ![k] = entry]
    BY <1>2 DEF Save
  <2>4. /\ new \in WindowState
        /\ new.at \in {"away", "refused"} /\ (new.at = "away" => new.key \in Keys)
        /\ new.made = window[w].made /\ new.loads = window[w].loads /\ new.late = window[w].late
        /\ new.token = window[w].token /\ new.until = window[w].until /\ new.since = window[w].since /\ new.age = window[w].age
    BY <1>0, <2>1 DEF WindowState, Steps
  <2>5. window' = [window EXCEPT ![w] = new]
    BY <1>0, <1>2 DEF BeginAuth, Go
  <2> HIDE DEF new, entry
  <2>6. /\ \A l \in Keys : states'[l] = IF l = k THEN entry ELSE states[l]
        /\ \A v \in Windows : window'[v] = IF v = w THEN new ELSE window[v]
        /\ states' \in [Keys -> Entry] /\ window' \in [Windows -> WindowState]
    BY <1>0, <2>2, <2>3, <2>4, <2>5
  <2>7. Typed' /\ Stamped'
    BY <1>0, <2>6 DEF GatekeeperInv, Typed, Stamped
  <2>8. ASSUME NEW v \in Windows PROVE Travelled(v)' /\ InTime(v)'
    BY <1>0, <2>4, <2>6 DEF GatekeeperInv, Travelled, InTime
  <2>9. ASSUME NEW v \in Windows PROVE Redeemed(v)'
    <3>1. CASE v = w
      BY <1>0, <2>1, <2>2, <2>4, <2>6, <3>1 DEF GatekeeperInv, Redeemed
    <3>2. CASE v # w
      BY <1>0, <2>1, <2>2, <2>4, <2>6, <3>2 DEF GatekeeperInv, Redeemed
    <3> QED
      BY <3>1, <3>2
  <2> QED
    BY <2>7, <2>8, <2>9 DEF GatekeeperInv
<1> QED
  BY <1>1, <1>2 DEF LoginHandler

(* The provider sends the window back, or it loads the callback again. *)
LEMMA Returns ==
  ASSUME GatekeeperAssumption, GatekeeperInv, NEW w \in Windows, Authenticate(w) \/ Reload(w)
  PROVE  GatekeeperInv'
<1>0. /\ window \in [Windows -> WindowState] /\ window[w] \in WindowState
      /\ window[w].at \notin {"new", "refused"} /\ window[w].key \in Keys
      /\ UNCHANGED <<config, clock, states, sessions>> /\ fresh' \subseteq Windows
  BY DEF GatekeeperInv, Typed, Travelled, Authenticate, Reload
<1>1. ASSUME NEW new \in WindowState, window' = [window EXCEPT ![w] = new], new.at = "callback",
             new.subject \in Subjects,
             new.key = window[w].key /\ new.made = window[w].made /\ new.loads = window[w].loads
             /\ new.late = window[w].late /\ new.token = window[w].token /\ new.until = window[w].until
             /\ new.since = window[w].since /\ new.age = window[w].age
      PROVE  GatekeeperInv'
  <2>1. window'[w] = new
    BY <1>0, <1>1
  <2>2. Travelled(w)' /\ Redeemed(w)' /\ InTime(w)'
    BY <1>0, <1>1, <2>1 DEF GatekeeperInv, Travelled, Redeemed, InTime
  <2> QED
    BY <1>0, <1>1, <2>2, OfOne
<1>2. CASE Authenticate(w)
  <2>1. PICK s \in Subjects : window' = [window EXCEPT ![w].at = "callback", ![w].subject = s]
    BY <1>2 DEF Authenticate
  <2> DEFINE new == [window[w] EXCEPT !.at = "callback", !.subject = s]
  <2>2. /\ new \in WindowState /\ new.at = "callback" /\ new.subject \in Subjects
        /\ new.key = window[w].key /\ new.made = window[w].made /\ new.loads = window[w].loads
        /\ new.late = window[w].late /\ new.token = window[w].token /\ new.until = window[w].until
        /\ new.since = window[w].since /\ new.age = window[w].age
    BY <1>0 DEF WindowState, Steps
  <2>3. window' = [window EXCEPT ![w] = new]
    BY <2>1
  <2> HIDE DEF new
  <2> QED
    BY <1>1, <2>2, <2>3
<1>3. CASE Reload(w)
  <2> DEFINE new == [window[w] EXCEPT !.at = "callback", !.reloads = @ + 1]
  <2>1. window[w].reloads + 1 \in 0..MaxReloads
    BY <1>0, <1>3 DEF Reload, WindowState, GatekeeperAssumption
  <2>2. /\ new \in WindowState /\ new.at = "callback" /\ new.subject = window[w].subject
        /\ new.key = window[w].key /\ new.made = window[w].made /\ new.loads = window[w].loads
        /\ new.late = window[w].late /\ new.token = window[w].token /\ new.until = window[w].until
        /\ new.since = window[w].since /\ new.age = window[w].age
    BY <1>0, <2>1 DEF WindowState, Steps
  <2>3. window' = [window EXCEPT ![w] = new] /\ window[w].subject \in Subjects
    BY <1>3 DEF Reload, GatekeeperInv, Travelled
  <2> HIDE DEF new
  <2> QED
    BY <1>1, <2>2, <2>3
<1> QED
  BY <1>2, <1>3

(* CallbackHandler: the login that is loaded has no entry any more, so it is loaded once. *)
LEMMA Calls ==
  ASSUME GatekeeperAssumption, GatekeeperInv, NEW w \in Windows, CallbackHandler(w)
  PROVE  GatekeeperInv'
<1> DEFINE key == window[w].key
           entry == states[key]
<1>0. /\ window \in [Windows -> WindowState] /\ window[w] \in WindowState /\ states \in [Keys -> Entry]
      /\ window[w].at = "callback" /\ key \in Keys /\ window[w].subject \in Subjects
      /\ UNCHANGED <<config, clock, sessions, fresh>>
  BY SMTT(60) DEF GatekeeperInv, Typed, Travelled, CallbackHandler
<1>1. states' = [states EXCEPT ![key] = NoEntry]
  BY DEF CallbackHandler, VerifyAndLoad
<1>2. /\ \A l \in Keys : states'[l] = IF l = key THEN NoEntry ELSE states[l]
      /\ states' \in [Keys -> Entry]
      /\ NoEntry.login = "none"
  BY <1>0, <1>1 DEF Entry, NoEntry
<1>3. ASSUME window' \in [Windows -> WindowState],
             \A v \in Windows : v # w => window'[v].at = window[v].at /\ window'[v].login = window[v].login,
             \A v \in Windows :
               /\ window'[v].key = window[v].key /\ window'[v].subject = window[v].subject
               /\ window'[v].token = window[v].token /\ window'[v].made = window[v].made
               /\ window'[v].late = window[v].late /\ window'[v].until = window[v].until
               /\ window'[v].since = window[v].since /\ window'[v].age = window[v].age
               /\ window'[v].maxAge = window[v].maxAge /\ window'[v].expiry = window[v].expiry,
             window'[w].at \in {"failed", "exchange"},
             \A v \in Windows : window'[v].loads = window[v].loads \/ (window'[v].loads = 1 /\ entry.login = v)
      PROVE  GatekeeperInv'
  <2>1. Typed' /\ Stamped'
    BY <1>0, <1>2, <1>3 DEF GatekeeperInv, Typed, Stamped
  <2>2. ASSUME NEW v \in Windows PROVE Travelled(v)' /\ InTime(v)'
    BY <1>0, <1>3 DEF GatekeeperInv, Travelled, InTime
  <2>3. ASSUME NEW v \in Windows PROVE Redeemed(v)'
    <3>1. Redeemed(v) /\ v # "none"
      BY DEF GatekeeperInv, GatekeeperAssumption
    <3>2. \A l \in Keys : states'[l].login = v => states[l].login = v /\ l # key
      BY <1>2, <3>1
    <3>3. window'[v].at = "new" => window[v].at = "new"
      BY <1>3
    <3>4. CASE window'[v].loads = window[v].loads
      BY <1>0, <1>3, <3>1, <3>2, <3>3, <3>4 DEF Redeemed
    <3>5. CASE window'[v].loads = 1 /\ entry.login = v
      <4>1. window[v].at # "new" /\ \A l \in Keys : states[l].login = v => l = key
        BY <1>0, <3>1, <3>5 DEF Redeemed
      <4>2. window'[v].at # "new"
        BY <3>3, <4>1
      <4> QED
        BY <1>0, <1>3, <3>1, <3>2, <3>5, <4>1, <4>2 DEF Redeemed
    <3> QED
      BY <1>3, <3>4, <3>5
  <2> QED
    BY <2>1, <2>2, <2>3 DEF GatekeeperInv
<1>4. CASE Go(w, "failed")
  <2> DEFINE new == [window[w] EXCEPT !.at = "failed"]
  <2>1. /\ new \in WindowState /\ new.at = "failed" /\ new.subject = window[w].subject
        /\ new.key = window[w].key /\ new.made = window[w].made /\ new.loads = window[w].loads
        /\ new.late = window[w].late /\ new.token = window[w].token /\ new.until = window[w].until
        /\ new.since = window[w].since /\ new.age = window[w].age
        /\ new.maxAge = window[w].maxAge /\ new.expiry = window[w].expiry
    BY <1>0 DEF WindowState, Steps
  <2>2. window' = [window EXCEPT ![w] = new]
    BY <1>4 DEF Go
  <2> HIDE DEF new
  <2>3. \A v \in Windows : window'[v] = IF v = w THEN new ELSE window[v]
    BY <1>0, <2>2, SMTT(60)
  <2> QED
    BY <1>0, <1>3, <2>1, <2>2, <2>3
<1>5. CASE /\ entry # NoEntry
           /\ window' = [window EXCEPT ![w].at = "exchange", ![w].login = entry.login,
                                      ![entry.login].loads = IF @ < 2 THEN @ + 1 ELSE @]
  <2> DEFINE l == entry.login
             new == [window[w] EXCEPT !.at = "exchange", !.login = l]
             mid == [window EXCEPT ![w] = new]
             last == [mid[l] EXCEPT !.loads = IF mid[l].loads < 2 THEN mid[l].loads + 1 ELSE mid[l].loads]
  <2>1. l \in Windows
    BY <1>0, <1>5 DEF Entry
  <2>2. window[l].loads = 0
    BY <1>0, <2>1 DEF GatekeeperInv, Redeemed
  <2>3. /\ new \in WindowState /\ new.at = "exchange" /\ new.subject = window[w].subject
        /\ new.key = window[w].key /\ new.made = window[w].made /\ new.loads = window[w].loads
        /\ new.late = window[w].late /\ new.token = window[w].token /\ new.until = window[w].until
        /\ new.since = window[w].since /\ new.age = window[w].age
        /\ new.maxAge = window[w].maxAge /\ new.expiry = window[w].expiry
    BY <1>0, <2>1 DEF WindowState, Steps, Answering
  <2>4. window' = [mid EXCEPT ![l] = last]
    BY <1>5
  <2> HIDE DEF new, l
  <2>5. mid \in [Windows -> WindowState] /\ \A v \in Windows : mid[v] = IF v = w THEN new ELSE window[v]
    BY <1>0, <2>3
  <2>6. mid[l] \in WindowState /\ mid[l].loads = 0
    BY <2>1, <2>2, <2>3, <2>5
  <2> HIDE DEF mid
  <2>7. /\ last \in WindowState /\ last.at = mid[l].at /\ last.login = mid[l].login /\ last.subject = mid[l].subject
        /\ last.key = mid[l].key /\ last.made = mid[l].made /\ last.loads = 1
        /\ last.late = mid[l].late /\ last.token = mid[l].token /\ last.until = mid[l].until
        /\ last.since = mid[l].since /\ last.age = mid[l].age
        /\ last.maxAge = mid[l].maxAge /\ last.expiry = mid[l].expiry
    BY <2>6 DEF WindowState
  <2> HIDE DEF last
  <2>8. /\ window' \in [Windows -> WindowState]
        /\ \A v \in Windows : window'[v] = IF v = l THEN last ELSE mid[v]
    BY <2>1, <2>4, <2>5, <2>7
  <2>9. \A v \in Windows : window'[v].loads = window[v].loads \/ (window'[v].loads = 1 /\ l = v)
    BY <2>3, <2>5, <2>7, <2>8
  <2>10. \A v \in Windows : v # w => window'[v].at = window[v].at /\ window'[v].login = window[v].login
    BY <2>5, <2>7, <2>8
  <2>11. ASSUME NEW v \in Windows
         PROVE  /\ window'[v].key = window[v].key /\ window'[v].subject = window[v].subject
                /\ window'[v].token = window[v].token /\ window'[v].made = window[v].made
                /\ window'[v].late = window[v].late /\ window'[v].until = window[v].until
                /\ window'[v].since = window[v].since /\ window'[v].age = window[v].age
                /\ window'[v].maxAge = window[v].maxAge /\ window'[v].expiry = window[v].expiry
    BY <2>3, <2>5, <2>7, <2>8
  <2>12. window'[w].at \in {"failed", "exchange"}
    BY <2>3, <2>5, <2>7, <2>8
  <2> QED
    BY <1>3, <2>8, <2>9, <2>10, <2>11, <2>12, Zenon DEF l
<1> QED
  BY <1>4, <1>5, ZenonT(60) DEF CallbackHandler

(* The code, the ID token and the person: the window that goes on has its own login. *)
LEMMA Exchanges ==
  ASSUME GatekeeperAssumption, GatekeeperInv, NEW w \in Windows,
         ExchangeToken(w) \/ VerifyIDToken(w) \/ GetUserInfo(w)
  PROVE  GatekeeperInv'
<1>0. /\ window \in [Windows -> WindowState] /\ window[w] \in WindowState
      /\ window[w].at \in {"exchange", "verify", "info"} /\ window[w].key \in Keys /\ window[w].subject \in Subjects
      /\ window[w].at \in {"verify", "info"} => window[w].login = w
      /\ UNCHANGED <<config, clock, states, sessions>> /\ fresh' \subseteq Windows
  BY DEF GatekeeperInv, Typed, Travelled, ExchangeToken, VerifyIDToken, GetUserInfo
<1>1. ASSUME NEW step \in {"failed", "info", "session"}, Go(w, step), step # "failed" => window[w].login = w
      PROVE  GatekeeperInv'
  BY <1>0, <1>1, Goes DEF Steps, Answering
<1>2. CASE ExchangeToken(w) /\ ~Go(w, "failed")
  <2>1. PICK life \in Lifetimes :
          window' = [window EXCEPT ![w].at = "verify", ![w].expiry = IF life = 0 THEN -1 ELSE clock + life]
    BY <1>2 DEF ExchangeToken
  <2> DEFINE expiry == IF life = 0 THEN -1 ELSE clock + life
             new == [window[w] EXCEPT !.at = "verify", !.expiry = expiry]
  <2>2. expiry \in Int /\ window[w].login = w
    BY <1>2 DEF GatekeeperInv, Typed, GatekeeperAssumption, ExchangeToken, Exchangeable
  <2>3. /\ new \in WindowState /\ new.at = "verify" /\ new.subject = window[w].subject /\ new.login = window[w].login
        /\ new.key = window[w].key /\ new.made = window[w].made /\ new.loads = window[w].loads
        /\ new.late = window[w].late /\ new.token = window[w].token /\ new.until = window[w].until
        /\ new.since = window[w].since /\ new.age = window[w].age
    BY <1>0, <2>2 DEF WindowState, Steps, Answering
  <2>4. window' = [window EXCEPT ![w] = new]
    BY <2>1
  <2> HIDE DEF new
  <2>5. window'[w] = new
    BY <1>0, <2>4
  <2>6. Travelled(w)' /\ Redeemed(w)' /\ InTime(w)'
    BY <1>0, <2>2, <2>3, <2>5 DEF GatekeeperInv, Travelled, Redeemed, InTime
  <2> QED
    BY <1>0, <2>3, <2>4, <2>6, OfOne
<1> QED
  BY <1>0, <1>1, <1>2 DEF ExchangeToken, VerifyIDToken, GetUserInfo

(* createSession: a new token says this second. *)
LEMMA Makes ==
  ASSUME GatekeeperAssumption, GatekeeperInv, NEW w \in Windows, createSession(w)
  PROVE  GatekeeperInv'
<1>0. /\ window \in [Windows -> WindowState] /\ window[w] \in WindowState
      /\ window[w].at = "session" /\ window[w].key \in Keys /\ window[w].subject \in Subjects
      /\ window[w].login = w /\ clock \in 0..MaxClock
      /\ UNCHANGED <<config, clock, states, sessions, fresh>> /\ fresh' \subseteq Windows
  BY DEF GatekeeperInv, Typed, Travelled, createSession
<1>1. CASE Go(w, "failed")
  BY <1>0, <1>1, Goes DEF Steps
<1>2. CASE window' = [window EXCEPT ![w].at = "set", ![w].token = <<window[w].subject, clock>>, ![w].expiry = Expiry(w)]
  <2> DEFINE token == <<window[w].subject, clock>>
             new == [window[w] EXCEPT !.at = "set", !.token = token, !.expiry = Expiry(w)]
  <2>1. Expiry(w) \in Int
    BY <1>0 DEF Expiry, WindowState, GatekeeperAssumption
  <2>2. token \in Tokens /\ token[1] = window[w].subject /\ token[2] = clock
    BY <1>0 DEF Tokens
  <2>3. window' = [window EXCEPT ![w] = new]
    BY <1>2
  <2> HIDE DEF token
  <2>4. /\ new \in WindowState /\ new.at = "set" /\ new.subject = window[w].subject /\ new.login = window[w].login
        /\ new.key = window[w].key /\ new.made = window[w].made /\ new.loads = window[w].loads
        /\ new.late = window[w].late /\ new.token = token /\ new.until = window[w].until
        /\ new.since = window[w].since /\ new.age = window[w].age
    BY <1>0, <2>1, <2>2 DEF WindowState, Steps, Answering
  <2> HIDE DEF new
  <2>5. window'[w] = new
    BY <1>0, <2>3
  <2>6. Travelled(w)' /\ Redeemed(w)'
    BY <1>0, <2>2, <2>4, <2>5 DEF GatekeeperInv, Travelled, Redeemed
  <2>7. InTime(w)'
    BY <1>0, <2>4, <2>5 DEF GatekeeperInv, InTime
  <2> QED
    BY <1>0, <2>3, <2>4, <2>6, <2>7, OfOne
<1> QED
  BY <1>1, <1>2 DEF createSession

(* Set: the session, and a reply whose Max-Age is SessionTTL at most; where it is none
   the session ends within the second. *)
LEMMA Sets ==
  ASSUME GatekeeperAssumption, GatekeeperInv, NEW w \in Windows, Set(w)
  PROVE  GatekeeperInv'
<1>0. /\ window \in [Windows -> WindowState] /\ window[w] \in WindowState
      /\ window[w].at = "set" /\ window[w].key \in Keys /\ window[w].subject \in Subjects
      /\ window[w].login = w /\ clock \in 0..MaxClock /\ window[w].expiry \in Int
      /\ window[w].token \in Tokens /\ window[w].token[1] = window[w].subject
      /\ sessions \in [Tokens -> SessionRow \union {NoSession}]
      /\ UNCHANGED <<config, clock, states, fresh>>
  BY DEF GatekeeperInv, Typed, Travelled, Set, WindowState
<1>1. PICK age \in MaxAges(w) :
        window' = [window EXCEPT ![w].at = "reply", ![w].maxAge = age, ![w].made = @ \union {window[w].login}]
  BY DEF Set
<1> DEFINE token == window[w].token
           row == [subject |-> window[w].subject, expiry |-> window[w].expiry]
           made == window[w].made \union {window[w].login}
           new == [window[w] EXCEPT !.at = "reply", !.maxAge = age, !.made = made]
<1>2. age \in Int /\ age <= SessionTTL /\ (age = 0 => window[w].expiry <= clock + SessionTTL)
  BY <1>0 DEF MaxAges, Capped, GatekeeperAssumption
<1>3. row \in SessionRow /\ row.subject = token[1]
  BY <1>0 DEF SessionRow
<1>4. sessions' = [sessions EXCEPT ![token] = row] /\ window' = [window EXCEPT ![w] = new]
  BY <1>1 DEF Set
<1>5. /\ new \in WindowState /\ new.at = "reply" /\ new.subject = window[w].subject
      /\ new.key = window[w].key /\ new.made = made /\ new.loads = window[w].loads
      /\ new.late = window[w].late /\ new.until = window[w].until /\ new.since = window[w].since
      /\ new.age = window[w].age /\ new.maxAge = age /\ new.expiry = window[w].expiry
  BY <1>0, <1>2 DEF WindowState, Steps
<1> HIDE DEF new, row
<1>6. /\ \A v \in Windows : window'[v] = IF v = w THEN new ELSE window[v]
      /\ window' \in [Windows -> WindowState]
      /\ sessions' \in [Tokens -> SessionRow \union {NoSession}]
      /\ \A t \in Tokens : sessions'[t] = IF t = token THEN row ELSE sessions[t]
  BY <1>0, <1>3, <1>4, <1>5
<1> HIDE DEF token
<1>7. Typed' /\ Stamped'
  BY <1>0, <1>3, <1>6 DEF GatekeeperInv, Typed, Stamped
<1>8. ASSUME NEW v \in Windows PROVE Travelled(v)' /\ Redeemed(v)' /\ InTime(v)'
  BY <1>0, <1>2, <1>5, <1>6 DEF GatekeeperInv, Travelled, Redeemed, InTime
<1> QED
  BY <1>7, <1>8 DEF GatekeeperInv

(* Reply: the cookie is kept for SessionTTL from now at the most. *)
LEMMA Replies ==
  ASSUME GatekeeperAssumption, GatekeeperInv, NEW w \in Windows, Reply(w)
  PROVE  GatekeeperInv'
<1> DEFINE until == KeptUntil(w)
           token == window[w].token
           over == -1
           zero == 0
           new == [window[w] EXCEPT !.at = "ok", !.cookie = token, !.until = until, !.since = clock,
                                     !.token = NoToken, !.expiry = over, !.maxAge = zero]
<1>0. /\ window \in [Windows -> WindowState] /\ window[w] \in WindowState
      /\ window[w].at = "reply" /\ window[w].key \in Keys /\ window[w].subject \in Subjects
      /\ clock \in 0..MaxClock /\ window[w].expiry \in Int /\ window[w].maxAge \in Int
      /\ UNCHANGED <<config, clock, states, sessions, fresh>> /\ fresh' \subseteq Windows
  BY DEF GatekeeperInv, Typed, Travelled, Reply, WindowState
<1>1. CASE Go(w, "failed")
  BY <1>0, <1>1, Goes DEF Steps
<1>2. CASE window' = [window EXCEPT ![w].at = "ok", ![w].cookie = window[w].token,
                                   ![w].until = KeptUntil(w), ![w].since = clock,
                                   ![w].token = NoToken, ![w].expiry = -1, ![w].maxAge = 0]
  <2>1. until \in Int /\ until <= clock + SessionTTL
    BY <1>0 DEF KeptUntil, GatekeeperInv, InTime, GatekeeperAssumption
  <2>2. window' = [window EXCEPT ![w] = new]
    BY <1>2
  <2>6. token \in Tokens \union {NoToken} /\ clock \in Int /\ over \in Int /\ zero \in Int
    BY <1>0 DEF WindowState
  <2> HIDE DEF until, token, over, zero
  <2>3. /\ new \in WindowState /\ new.at = "ok" /\ new.subject = window[w].subject
        /\ new.key = window[w].key /\ new.made = window[w].made /\ new.loads = window[w].loads
        /\ new.late = window[w].late /\ new.until = until /\ new.since = clock /\ new.age = window[w].age
    BY <1>0, <2>1, <2>6 DEF WindowState, Steps
  <2> HIDE DEF new
  <2>4. window'[w] = new
    BY <1>0, <2>2
  <2>5. Travelled(w)' /\ Redeemed(w)' /\ InTime(w)'
    BY <1>0, <2>1, <2>3, <2>4 DEF GatekeeperInv, Travelled, Redeemed, InTime
  <2> QED
    BY <1>0, <2>2, <2>3, <2>5, OfOne
<1> QED
  BY <1>1, <1>2 DEF Reply

(* A request changes what is sent and the age of the cookie; it keeps the rest. *)
LEMMA Requested ==
  ASSUME GatekeeperAssumption, GatekeeperInv, NEW w \in Windows,
         NEW sent \in Tokens \union {NoToken}, NEW age \in Int, age <= SessionTTL,
         UNCHANGED <<config, clock, states, sessions, fresh>>,
         window' = [window EXCEPT ![w] = [window[w] EXCEPT !.sent = sent, !.age = age]]
  PROVE  GatekeeperInv'
<1> DEFINE new == [window[w] EXCEPT !.sent = sent, !.age = age]
<1>1. window \in [Windows -> WindowState] /\ window[w] \in WindowState /\ fresh' \subseteq Windows
  BY DEF GatekeeperInv, Typed
<1>2. /\ new \in WindowState
      /\ new.at = window[w].at /\ new.subject = window[w].subject /\ new.login = window[w].login
      /\ new.key = window[w].key /\ new.made = window[w].made /\ new.loads = window[w].loads
      /\ new.late = window[w].late /\ new.token = window[w].token /\ new.until = window[w].until
      /\ new.since = window[w].since /\ new.age = age
      /\ new.maxAge = window[w].maxAge /\ new.expiry = window[w].expiry
  BY <1>1 DEF WindowState
<1>3. window' = [window EXCEPT ![w] = new]
  OBVIOUS
<1> HIDE DEF new
<1>4. window'[w] = new
  BY <1>1, <1>3
<1>5. Travelled(w)' /\ Redeemed(w)' /\ InTime(w)'
  BY <1>2, <1>4 DEF GatekeeperInv, Travelled, Redeemed, InTime
<1> QED
  BY <1>1, <1>2, <1>3, <1>5, OfOne

(* The request is sent while the cookie is kept, so it is not late when it is let in. *)
LEMMA Asks ==
  ASSUME GatekeeperAssumption, GatekeeperInv, NEW w \in Windows, Ask(w) \/ Get(w)
  PROVE  GatekeeperInv'
<1>0. /\ window \in [Windows -> WindowState] /\ window[w] \in WindowState /\ clock \in 0..MaxClock
      /\ UNCHANGED <<config, clock, states, sessions, fresh>>
      /\ InTime(w)
  BY DEF GatekeeperInv, Typed, Ask, Get
<1>1. CASE Ask(w)
  <2>1. /\ clock - window[w].since \in Int /\ clock - window[w].since <= SessionTTL
        /\ window[w].cookie \in Tokens \union {NoToken}
    BY <1>0, <1>1 DEF Ask, InTime, WindowState, GatekeeperAssumption
  <2>2. window' = [window EXCEPT ![w] = [window[w] EXCEPT !.sent = window[w].cookie, !.age = clock - window[w].since]]
    BY <1>1 DEF Ask
  <2> QED
    BY <1>0, <2>1, <2>2, Requested
<1>2. CASE Get(w)
  <2> DEFINE none == 0
             late == window[w].age > SessionTTL /\ Accepted(window[w].sent)
  <2>1. ~late
    BY <1>0 DEF InTime, WindowState, GatekeeperAssumption
  <2>2. window' = [window EXCEPT ![w] = [window[w] EXCEPT !.sent = NoToken, !.age = none, !.late = window[w].late \/ late]]
    BY <1>2 DEF Get
  <2>5. none \in Int /\ none <= SessionTTL
    BY DEF GatekeeperAssumption
  <2> HIDE DEF late, none
  <2>3. window[w].late = FALSE
    BY <1>0 DEF InTime, WindowState
  <2>4. [window[w] EXCEPT !.sent = NoToken, !.age = none, !.late = window[w].late \/ late]
          = [window[w] EXCEPT !.sent = NoToken, !.age = none]
    BY <1>0, <2>1, <2>3 DEF WindowState
  <2> QED
    BY <1>0, <2>2, <2>4, <2>5, Requested
<1> QED
  BY <1>1, <1>2

(* The process dies and forgets both stores: no login is loaded again, no session is there. *)
LEMMA Crashes ==
  ASSUME GatekeeperAssumption, GatekeeperInv, Crash
  PROVE  GatekeeperInv'
<1>0. /\ window \in [Windows -> WindowState] /\ UNCHANGED <<clock, fresh>>
      /\ config' = Unbuilt /\ states' = [k \in Keys |-> NoEntry] /\ sessions' = [t \in Tokens |-> NoSession]
  BY DEF GatekeeperInv, Typed, Crash
<1>1. ASSUME NEW v \in Windows
      PROVE  /\ window'[v] \in WindowState
             /\ window'[v].at = IF window[v].at \in Answering THEN "failed" ELSE window[v].at
             /\ window'[v].subject = window[v].subject /\ window'[v].key = window[v].key
             /\ window'[v].made = window[v].made /\ window'[v].loads = window[v].loads
             /\ window'[v].late = window[v].late /\ window'[v].token = window[v].token
             /\ window'[v].until = window[v].until /\ window'[v].since = window[v].since
             /\ window'[v].maxAge = window[v].maxAge /\ window'[v].expiry = window[v].expiry /\ window'[v].age = 0
  <2> DEFINE step == IF window[v].at \in Answering THEN "failed" ELSE window[v].at
             none == 0
             new == [window[v] EXCEPT !.sent = NoToken, !.age = none, !.at = step]
  <2>1. window'[v] = new
    BY DEF Crash, Answering
  <2>2. window[v] \in WindowState /\ step \in Steps
    BY <1>0 DEF WindowState, Steps
  <2>4. none \in Int
    OBVIOUS
  <2> HIDE DEF step, none
  <2>3. /\ new \in WindowState /\ new.at = step /\ new.subject = window[v].subject /\ new.key = window[v].key
        /\ new.made = window[v].made /\ new.loads = window[v].loads /\ new.late = window[v].late
        /\ new.token = window[v].token /\ new.until = window[v].until /\ new.since = window[v].since
        /\ new.maxAge = window[v].maxAge /\ new.expiry = window[v].expiry /\ new.age = none
    BY <2>2, <2>4 DEF WindowState
  <2> HIDE DEF new
  <2> QED
    BY <2>1, <2>3 DEF step, none
<1>2. window' \in [Windows -> WindowState]
  <2>1. window' = [v \in Windows |-> window'[v]]
    BY DEF Crash
  <2> QED
    BY <1>1, <2>1
<1>3. NoEntry.login = "none" /\ NoEntry \in Entry /\ Unbuilt \in [ready : BOOLEAN, ttl : 0..LongestTTL, signed : BOOLEAN]
  BY DEF NoEntry, Entry, Unbuilt, GatekeeperAssumption
<1>4. Typed' /\ Stamped'
  BY <1>0, <1>2, <1>3 DEF GatekeeperInv, Typed, Stamped
<1>5. ASSUME NEW v \in Windows PROVE Travelled(v)'
  BY <1>1 DEF GatekeeperInv, Travelled, Answering
<1>6. ASSUME NEW v \in Windows PROVE Redeemed(v)'
  <2>1. \A k \in Keys : states'[k].login # v
    BY <1>0, <1>3 DEF GatekeeperAssumption
  <2> QED
    BY <1>1, <2>1 DEF GatekeeperInv, Redeemed
<1>7. ASSUME NEW v \in Windows PROVE InTime(v)'
  BY <1>0, <1>1 DEF GatekeeperInv, InTime, GatekeeperAssumption, Answering
<1> QED
  BY <1>4, <1>5, <1>6, <1>7 DEF GatekeeperInv

(* NewGateKeeper: the life of a state is in range. *)
LEMMA Builds ==
  ASSUME GatekeeperAssumption, GatekeeperInv, NewGateKeeper
  PROVE  GatekeeperInv'
<1>1. UNCHANGED <<clock, states, sessions, window, fresh>>
  BY DEF NewGateKeeper
<1>2. config' \in [ready : BOOLEAN, ttl : 0..LongestTTL, signed : BOOLEAN]
  <2>1. \A provider, signed \in BOOLEAN :
          NewApplication(provider, signed) \in [ready : BOOLEAN, ttl : 0..LongestTTL, signed : BOOLEAN]
    BY DEF NewApplication, Unbuilt, GatekeeperAssumption
  <2>2. \A doc \in Documents : NewDiscoveryOIDCProvider(doc) \in BOOLEAN
    BY DEF NewDiscoveryOIDCProvider, Discover
  <2> QED
    BY <2>1, <2>2 DEF NewGateKeeper
<1> QED
  BY <1>1, <1>2 DEF GatekeeperInv, Typed, Stamped, Travelled, Redeemed, InTime

(* Time passes. *)
LEMMA Ticks ==
  ASSUME GatekeeperAssumption, GatekeeperInv, Tick
  PROVE  GatekeeperInv'
<1>1. clock' \in 0..MaxClock /\ clock < clock' /\ UNCHANGED <<config, states, sessions, window, fresh>>
  BY DEF Tick, GatekeeperInv, Typed, GatekeeperAssumption
<1>2. ASSUME NEW w \in Windows PROVE InTime(w)'
  <2>1. InTime(w) /\ clock \in 0..MaxClock /\ window[w].expiry \in Int
    BY DEF GatekeeperInv, Typed, WindowState
  <2> QED
    BY <1>1, <2>1 DEF InTime, GatekeeperAssumption
<1> QED
  BY <1>1, <1>2 DEF GatekeeperInv, Typed, Stamped, Travelled, Redeemed

(* It is about the variables of this part alone. *)
LEMMA Stands == GatekeeperInv /\ UNCHANGED vars => GatekeeperInv'
  BY DEF vars, GatekeeperInv, Typed, Stamped, Travelled, Redeemed, InTime

(* Every step keeps it. *)
LEMMA StepInv == GatekeeperAssumption /\ GatekeeperInv /\ [Next]_vars => GatekeeperInv'
<1> SUFFICES ASSUME GatekeeperAssumption, GatekeeperInv, [Next]_vars PROVE GatekeeperInv'
  OBVIOUS
<1>1. ASSUME NEW w \in Windows, sessionHandler(w) \/ DualTokenMiddleware(w) \/ Authorize(w) PROVE GatekeeperInv'
  BY <1>1, Asks DEF sessionHandler, DualTokenMiddleware, Authorize
<1> QED
  BY <1>1, Builds, Crashes, Ticks, Begins, Returns, Calls, Exchanges, Makes, Sets, Replies, Asks, Stands DEF Next

(* What the invariant says of the properties. *)
LEMMA InvTypes == GatekeeperAssumption /\ GatekeeperInv => TypeOK
<1> SUFFICES ASSUME GatekeeperAssumption, GatekeeperInv PROVE TypeOK
  OBVIOUS
<1>1. \A k \in Keys : states[k].login \in Windows \union {"none"}
  BY DEF GatekeeperInv, Typed, Entry, NoEntry
<1>2. ASSUME NEW t \in Tokens PROVE sessions[t].subject \in {t[1], "none"}
  <2>1. NoSession.subject = "none"
    BY DEF NoSession
  <2> QED
    BY <2>1 DEF GatekeeperInv, Stamped
<1>3. \A w \in Windows : window[w].reloads \in 0..MaxReloads
  BY DEF GatekeeperInv, Typed, WindowState
<1> QED
  BY <1>1, <1>2, <1>3 DEF TypeOK, GatekeeperInv, Typed

LEMMA InvOwns == GatekeeperInv => OwnLogin
  BY DEF GatekeeperInv, Redeemed, OwnLogin

LEMMA InvInTime == GatekeeperInv => WithinTTL
  BY DEF GatekeeperInv, InTime, WithinTTL
=============================================================================
