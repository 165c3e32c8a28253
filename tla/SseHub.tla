-------------------------------- MODULE SseHub --------------------------------
(***************************************************************************)
(* The notifications of the administrators: pkg/sse/hub.go, the stream of  *)
(* handler/notification.go that reads from it and the broadcasts that      *)
(* service/notification_service.go makes, one for every new order.         *)
(*                                                                         *)
(* A broadcast holds the read lock of the hub and puts its message into    *)
(* the channel of one subscriber after the other, in the order of a Go map,*)
(* that is in any order.  Several broadcasts may do so at a time.  A       *)
(* subscriber comes and goes under the write lock, which waits for the     *)
(* broadcasts under way and keeps new ones out while it waits.  The        *)
(* streams take messages out of their channels without any lock.           *)
(*                                                                         *)
(* A stream never looks at what its writes return, and the server gives    *)
(* every response 30 seconds to be written (cmd/magic/main.go): what a     *)
(* stream takes out of its channel after that, or after its peer went      *)
(* away, is lost.                                                          *)
(*                                                                         *)
(* WriteLockSkipped, SendBlocks and ServedSome vary the definition that    *)
(* follows them as a slip in the code would; no action uses them.          *)
(***************************************************************************)
EXTENDS Integers, Sequences, Functions

CONSTANTS
  Streams,   \* the connections of administrators, one subscriber each
  Messages,  \* the new orders, one broadcast each
  Cap        \* the capacity of a channel, 16 in the code

ASSUME SseHubAssumption == Cap \in Nat \ {0}

VARIABLES
  clients,  \* the subscribers the hub knows
  chan,     \* the channel of each stream
  closed,   \* the channels that were closed
  stream,   \* what each stream is doing
  cast,     \* what each broadcast is doing
  left,     \* the subscribers a broadcast still has to serve
  broken,   \* the connections over which nothing arrives any more
  got,      \* history: what arrived over each connection
  lost,     \* history: what was taken for a connection that was broken
  due       \* history: who was subscribed when each broadcast began

vars == <<clients, chan, closed, stream, cast, left, broken, got, lost, due>>

Init ==
  /\ clients = {}
  /\ chan = [s \in Streams |-> << >>]
  /\ closed = {}
  /\ stream = [s \in Streams |-> "off"]
  /\ cast = [m \in Messages |-> "new"]
  /\ left = [m \in Messages |-> {}]
  /\ broken = {}
  /\ got = [s \in Streams |-> << >>]
  /\ lost = [s \in Streams |-> << >>]
  /\ due = [m \in Messages |-> {}]
-------------------------------------------------------------------------------
(* The lock of the hub                                                       *)

ReadLocked == \E m \in Messages : cast[m] = "sending"
WriteAsked == \E s \in Streams : stream[s] \in {"joining", "leaving"}

(* A writer goes on when no broadcast is under way. *)
WriteLockSkipped == TRUE
WriteLock == ~ReadLocked
-------------------------------------------------------------------------------
(* NotificationHandler.Stream                                                *)

(* A connection arrives, or its context ends: either asks for the write lock. *)
Connect(s) ==
  /\ stream[s] = "off"
  /\ stream' = [stream EXCEPT ![s] = "joining"]
  /\ UNCHANGED <<clients, chan, closed, cast, left, broken, got, lost, due>>

Disconnect(s) ==
  /\ stream[s] = "open"
  /\ stream' = [stream EXCEPT ![s] = "leaving"]
  /\ UNCHANGED <<clients, chan, closed, cast, left, broken, got, lost, due>>

Subscribe(s) ==
  /\ stream[s] = "joining" /\ WriteLock
  /\ clients' = clients \cup {s}
  /\ stream' = [stream EXCEPT ![s] = "open"]
  /\ UNCHANGED <<chan, closed, cast, left, broken, got, lost, due>>

Unsubscribe(s) ==
  /\ stream[s] = "leaving" /\ WriteLock
  /\ clients' = clients \ {s}
  /\ closed' = closed \cup {s}
  /\ stream' = [stream EXCEPT ![s] = "gone"]
  /\ UNCHANGED <<chan, cast, left, broken, got, lost, due>>

(* The time for writing the response is over, or its peer has gone: every write
   fails from now on.  net/http ends the context at the first one that does,
   which is Disconnect.                                                     *)
Expire(s) ==
  /\ stream[s] = "open" /\ s \notin broken
  /\ broken' = broken \cup {s}
  /\ UNCHANGED <<clients, chan, closed, stream, cast, left, got, lost, due>>

(* One message is taken out of the channel and written to the connection, when
   the connection takes it; what the write returns is not looked at.        *)
Forward(s) ==
  /\ stream[s] = "open" /\ chan[s] # << >>
  /\ chan' = [chan EXCEPT ![s] = Tail(@)]
  /\ IF s \in broken
     THEN lost' = [lost EXCEPT ![s] = Append(@, Head(chan[s]))] /\ UNCHANGED got
     ELSE got' = [got EXCEPT ![s] = Append(@, Head(chan[s]))] /\ UNCHANGED lost
  /\ UNCHANGED <<clients, closed, stream, cast, left, broken, due>>
-------------------------------------------------------------------------------
(* Hub.Broadcast                                                             *)

Begin(m) ==
  /\ cast[m] = "new" /\ ~WriteAsked
  /\ cast' = [cast EXCEPT ![m] = "sending"]
  /\ left' = [left EXCEPT ![m] = clients]
  /\ due' = [due EXCEPT ![m] = clients]
  /\ UNCHANGED <<clients, chan, closed, stream, broken, got, lost>>

(* The select with a default: a full channel drops the message. *)
SendBlocks(s) == Len(chan[s]) < Cap
MaySend(s) == TRUE

Sent(q, m) == IF Len(q) < Cap THEN Append(q, m) ELSE q

Send(m) ==
  /\ cast[m] = "sending"
  /\ \E s \in left[m] :
       /\ MaySend(s)
       /\ chan' = [chan EXCEPT ![s] = Sent(@, m)]
       /\ left' = [left EXCEPT ![m] = @ \ {s}]
  /\ UNCHANGED <<clients, closed, stream, cast, broken, got, lost, due>>

ServedSome(m) == left[m] # due[m] \/ left[m] = {}
AllServed(m) == left[m] = {}
End(m) ==
  /\ cast[m] = "sending" /\ AllServed(m)
  /\ cast' = [cast EXCEPT ![m] = "done"]
  /\ UNCHANGED <<clients, chan, closed, stream, left, broken, got, lost, due>>
-------------------------------------------------------------------------------
Next ==
  \/ \E s \in Streams : Connect(s) \/ Disconnect(s) \/ Subscribe(s) \/ Unsubscribe(s)
  \/ \E s \in Streams : Forward(s) \/ Expire(s)
  \/ \E m \in Messages : Begin(m) \/ Send(m) \/ End(m)

Spec == Init /\ [][Next]_vars

(* The goroutine of a broadcast runs, and so does one that waits for the write
   lock.  Nothing is assumed of the connections: they may take no message for
   as long as they like.                                                    *)
HubFairness ==
  /\ \A m \in Messages : WF_vars(Send(m) \/ End(m))
  /\ \A s \in Streams : WF_vars(Subscribe(s)) /\ WF_vars(Unsubscribe(s))

FairSpec == Spec /\ HubFairness
-------------------------------------------------------------------------------
(* Properties                                                                *)

Put(s) == got[s] \o lost[s] \o chan[s]   \* everything a stream was given, in order

(* Every variable has its type; no channel holds more than its capacity. *)
TypeOK ==
  /\ clients \subseteq Streams /\ closed \subseteq Streams
  /\ \A s \in Streams : chan[s] \in Seq(Messages) /\ Len(chan[s]) <= Cap
  /\ stream \in [Streams -> {"off", "joining", "open", "leaving", "gone"}]
  /\ cast \in [Messages -> {"new", "sending", "done"}]
  /\ left \in [Messages -> SUBSET Streams]
  /\ broken \subseteq Streams
  /\ \A s \in Streams : got[s] \in Seq(Messages) /\ lost[s] \in Seq(Messages)
  /\ due \in [Messages -> SUBSET Streams]

(* A broadcast never reaches a channel that Unsubscribe closed: sending on a
   closed channel would panic.                                              *)
NoSendOnClosed == \A m \in Messages : left[m] \cap closed = {}

(* An administrator misses an order of the connection's time for one of two
   reasons only: the connection had broken before the stream took the order
   out of its channel, or the channel had been full, which is when Cap orders
   were put into it at least.                                               *)
LossIsExplained ==
  \A m \in Messages : \A s \in due[m] :
    cast[m] = "done" /\ m \notin Range(got[s] \o chan[s]) =>
      \/ s \in broken /\ m \in Range(lost[s])
      \/ Len(Put(s)) >= Cap

(* A broadcast ends whatever the connections do, and so does the stream of a
   connection that has gone.                                                *)
NeverBlocked ==
  /\ \A m \in Messages : cast[m] = "sending" ~> cast[m] = "done"
  /\ \A s \in Streams : stream[s] = "leaving" ~> stream[s] = "gone"
===============================================================================
