------------------------------ MODULE RateLimiter ------------------------------
(***************************************************************************)
(* middleware/ratelimit.go: the timestamps of the requests of each key, a  *)
(* limit on those of the last window, and a goroutine that forgets the     *)
(* keys with none.  Requests and goroutine hold the mutex of the limiter   *)
(* for all of what they do, so each is one step.                           *)
(*                                                                         *)
(* A timestamp is kept as its age, up to Window: `t.After(now - window)`   *)
(* says that the age is below Window, and how much above it is makes no    *)
(* difference.  So time needs no bound.                                    *)
(*                                                                         *)
(* AfterCutoffOrAt and SweptNothing vary the definition that follows them  *)
(* as a slip in the code would; no action uses them.                       *)
(***************************************************************************)
EXTENDS Integers, Functions, Filtering

CONSTANTS
  Keys,    \* the keys that requests come with: addresses or e-mails
  Max,     \* requests allowed per window, at least one
  Window   \* length of the window in units of time, at least one

VARIABLES
  entries,  \* the map of the limiter: key -> ages of its timestamps
  phase,    \* time since the ticker of the cleanup last fired
  fired,    \* a tick waits in the channel of the ticker
  answer    \* the answer Allow gave last

vars == <<entries, phase, fired, answer>>

Init ==
  /\ entries = << >>
  /\ phase = 0
  /\ fired = FALSE
  /\ answer = << >>
-------------------------------------------------------------------------------
AfterCutoffOrAt(age) == age <= Window
AfterCutoff(age) == age < Window

filterRecent(ts) == Filter(ts, {age \in 0..Window : AfterCutoff(age)})

Timestamps(k) == IF k \in DOMAIN entries THEN entries[k] ELSE << >>

FullPast(ts) == Len(ts) > Max
Full(ts) == Len(ts) >= Max

(* Allow drops the old timestamps of the key, refused or not. *)
Allow(k) ==
  LET recent == filterRecent(Timestamps(k))
      ok == ~Full(recent)
      kept == IF ok THEN Append(recent, 0) ELSE recent
  IN
  /\ entries' = [q \in DOMAIN entries \cup {k} |-> IF q = k THEN kept ELSE entries[q]]
  /\ answer' = <<k, ok>>
  /\ UNCHANGED <<phase, fired>>

(* The goroutine, one tick after the other. *)
SweptNothing(f) == f
Swept(f) == Restrict(f, {k \in DOMAIN f : f[k] # << >>})

Cleanup ==
  /\ fired
  /\ fired' = FALSE
  /\ entries' = Swept([k \in DOMAIN entries |-> filterRecent(entries[k])])
  /\ UNCHANGED <<phase, answer>>

(* A unit of time passes.  A tick is lost when the one before it still waits. *)
Tick ==
  /\ entries' = [k \in DOMAIN entries |->
       [i \in DOMAIN entries[k] |->
          IF entries[k][i] < Window THEN entries[k][i] + 1 ELSE Window]]
  /\ phase' = (phase + 1) % Window
  /\ fired' = (fired \/ phase' = 0)
  /\ UNCHANGED answer
-------------------------------------------------------------------------------
Next == Tick \/ Cleanup \/ \E k \in Keys : Allow(k)

Spec == Init /\ [][Next]_vars

(* Time passes and the goroutine of the cleanup runs. *)
FairSpec == Spec /\ WF_vars(Tick) /\ WF_vars(Cleanup)
-------------------------------------------------------------------------------
(* Properties                                                                *)

(* Every variable has its type; the entry of a key never outgrows the limit. *)
TypeOK ==
  /\ DOMAIN entries \subseteq Keys
  /\ \A k \in DOMAIN entries : entries[k] \in Seq(0..Window) /\ Len(entries[k]) <= Max
  /\ phase \in 0..(Window - 1)
  /\ fired \in BOOLEAN
  /\ answer \in {<< >>} \cup (Keys \X BOOLEAN)

(* Whenever the cleanup runs, and whichever timestamps a request dropped before,
   the limiter answers as one that forgets nothing: it refuses a request exactly
   when Max were granted to its key in the last window.                      *)
Promise == INSTANCE SlidingWindow WITH granted <- [k \in Keys |-> filterRecent(Timestamps(k))]
WindowKept == Promise!Spec

(* A key that is not used any more is forgotten: the map does not grow with
   every address that ever sent a request.                                  *)
Forgotten ==
  \A k \in Keys :
    k \in DOMAIN entries ~> k \notin DOMAIN entries \/ filterRecent(Timestamps(k)) # << >>
===============================================================================
