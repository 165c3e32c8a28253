----------------------------- MODULE SlidingWindow -----------------------------
(***************************************************************************)
(* What a rate limiter promises: a key is granted a request exactly when   *)
(* fewer than Max of its requests were granted during the last Window      *)
(* units of time.  Nothing is ever cleaned up here, time alone makes a     *)
(* granted request old.                                                    *)
(***************************************************************************)
EXTENDS Integers, Filtering

CONSTANTS Keys, Max, Window

VARIABLES
  granted,  \* of each key, the ages of the requests granted in the last Window
  answer    \* the answer given last

Init ==
  /\ granted = [k \in Keys |-> << >>]
  /\ answer = <<>>

Grant(k) ==
  /\ Len(granted[k]) < Max
  /\ granted' = [granted EXCEPT ![k] = Append(@, 0)]
  /\ answer' = <<k, TRUE>>

Refuse(k) ==
  /\ Len(granted[k]) = Max
  /\ answer' = <<k, FALSE>>
  /\ UNCHANGED granted

(* A unit of time passes. *)
Tick ==
  /\ granted' = [k \in Keys |->
       LET kept == Filter(granted[k], {age \in 0..Window : age + 1 < Window})
       IN  [i \in DOMAIN kept |-> kept[i] + 1]]
  /\ UNCHANGED answer

Next == Tick \/ \E k \in Keys : Grant(k) \/ Refuse(k)

Spec == Init /\ [][Next]_<<granted, answer>>
===============================================================================
