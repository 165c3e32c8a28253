---------------------------- MODULE RuntimeProofs ----------------------------
(***************************************************************************)
(* The theorems about what runs beside the requests: the hub of the        *)
(* notifications, the process of the server and a rate limiter.            *)
(***************************************************************************)
EXTENDS MCRuntime, SequenceTheorems, WellFoundedInduction, TLAPS

-------------------------------------------------------------------------------
(***************************************************************************)
(* The hub for any number of connections and of broadcasts and channels of *)
(* any capacity: no broadcast sends on a closed channel, and a message is  *)
(* missed for two reasons only: the channel was full, or the connection    *)
(* had broken when the message was taken out of it.                        *)
(*                                                                         *)
(* Both properties need what the lock is for: while a broadcast is sending *)
(* nobody leaves, so the connections it still has to serve are subscribed. *)
(* The second is about broadcasts that have ended; HubInv states it for    *)
(* each connection at the moment a broadcast has served it.                *)
(***************************************************************************)
(* The functions of the state; TypeOK leaves out the domains of the sequences. *)
Domains == DOMAIN chan = Streams /\ DOMAIN got = Streams /\ DOMAIN lost = Streams

ClosedAreGone == closed \subseteq {s \in Streams : stream[s] = "gone"}
ClientsAreThere == \A s \in clients : stream[s] \in {"open", "leaving"}

CastOK(m) ==
  /\ left[m] \subseteq due[m]
  /\ cast[m] # "sending" => left[m] = {}
  /\ cast[m] = "new" => due[m] = {}
  /\ left[m] \subseteq clients

(* s has been given m, or more messages than its channel holds. *)
Given(s, m) == m \in Range(Put(s)) \/ Len(Put(s)) >= Cap
GivenOrFull == \A m \in Messages : \A s \in due[m] \ left[m] : Given(s, m)

(* What is lost was taken after the connection broke; so what arrived comes first,
   then what is lost, then what waits.                                       *)
LostWhenBroken == \A s \in Streams : lost[s] # << >> => s \in broken

HubInv ==
  /\ TypeOK /\ Domains
  /\ ClosedAreGone /\ ClientsAreThere
  /\ \A m \in Messages : CastOK(m)
  /\ GivenOrFull /\ LostWhenBroken

-------------------------------------------------------------------------------
(* What the channels do                                                    *)

(* What is taken out of a channel at its head goes to the end of what was sent:
   nothing is lost between the two, and the order is kept.                  *)
LEMMA ForwardKeeps ==
  ASSUME NEW g \in Seq(Messages), NEW c \in Seq(Messages), c # << >>
  PROVE  Append(g, Head(c)) \o Tail(c) = g \o c
<1>1. Head(c) \in Messages /\ Tail(c) \in Seq(Messages)
  BY HeadTailProperties
<1>2. <<Head(c)>> \in Seq(Messages)
  BY <1>1
<1>3. <<Head(c)>> \o Tail(c) = c
  <2>1. Len(c) \in Nat \ {0} /\ Len(Tail(c)) = Len(c) - 1
    BY EmptySeq, HeadTailProperties
  <2>2. /\ <<Head(c)>> \o Tail(c) \in Seq(Messages)
        /\ Len(<<Head(c)>> \o Tail(c)) = Len(c)
        /\ \A i \in 1..Len(c) : (<<Head(c)>> \o Tail(c))[i] =
             IF i <= 1 THEN <<Head(c)>>[i] ELSE Tail(c)[i - 1]
    BY <1>1, <1>2, <2>1, ConcatProperties
  <2>3. \A i \in 1..Len(c) : i > 1 => Tail(c)[i - 1] = c[i]
    BY <2>1, HeadTailProperties
  <2>4. \A i \in 1..Len(c) : (<<Head(c)>> \o Tail(c))[i] = c[i]
    BY <2>1, <2>2, <2>3
  <2> QED
    BY <2>2, <2>4, SeqEqual
<1>4. Append(g, Head(c)) = g \o <<Head(c)>>
  BY <1>1, AppendIsConcat
<1> QED
  BY <1>1, <1>2, <1>3, <1>4, ConcatAssociative

(* Taken out of the channel, a message ends what arrived, or what is lost when some
   is lost already: what the stream was given stays as it was.              *)
LEMMA TakenArrives ==
  ASSUME NEW g \in Seq(Messages), NEW c \in Seq(Messages), c # << >>
  PROVE  Append(g, Head(c)) \o << >> \o Tail(c) = g \o << >> \o c
<1>1. Head(c) \in Messages /\ Append(g, Head(c)) \in Seq(Messages)
  BY HeadTailProperties, AppendProperties
<1>2. Append(g, Head(c)) \o << >> = Append(g, Head(c)) /\ g \o << >> = g
  BY <1>1, ConcatEmptySeq
<1> QED
  BY <1>2, ForwardKeeps

LEMMA TakenIsLost ==
  ASSUME NEW g \in Seq(Messages), NEW l \in Seq(Messages), NEW c \in Seq(Messages), c # << >>
  PROVE  g \o Append(l, Head(c)) \o Tail(c) = g \o l \o c
<1>1. /\ Head(c) \in Messages /\ Tail(c) \in Seq(Messages)
      /\ Append(l, Head(c)) \in Seq(Messages)
  BY HeadTailProperties, AppendProperties
<1>2. g \o Append(l, Head(c)) \o Tail(c) = g \o (Append(l, Head(c)) \o Tail(c))
  <2>1. \A a, b \in Seq(Messages) : (g \o a) \o b = g \o (a \o b)
    BY ConcatAssociative
  <2> QED
    BY <1>1, <2>1, Zenon
<1>3. g \o l \o c = g \o (l \o c)
  BY ConcatAssociative
<1>4. Append(l, Head(c)) \o Tail(c) = l \o c
  BY ForwardKeeps
<1> QED
  BY <1>2, <1>3, <1>4, Zenon

(* What a stream was given arrived, is lost or waits. *)
LEMMA PutIsSomewhere ==
  ASSUME NEW g \in Seq(Messages), NEW l \in Seq(Messages), NEW c \in Seq(Messages)
  PROVE  /\ Range(g \o l \o c) = Range(g) \cup Range(l) \cup Range(c)
         /\ Range(g \o c) = Range(g) \cup Range(c)
         /\ Range(<< >>) = {}
<1>1. g \o l \in Seq(Messages)
  BY ConcatProperties
<1>2. \A a, b \in Seq(Messages) : Range(a \o b) = Range(a) \cup Range(b)
  BY RangeConcatenation
<1>3. Range(<< >>) = {}
  BY DEF Range
<1> QED
  BY <1>1, <1>2, <1>3

(* A message is put at the end of the channel, or the channel is full; what was
   put before stays.                                                        *)
LEMMA SentFacts ==
  ASSUME NEW g \in Seq(Messages), NEW q \in Seq(Messages), NEW m \in Messages,
         Len(q) <= Cap
  PROVE  /\ Sent(q, m) \in Seq(Messages) /\ Len(Sent(q, m)) <= Cap
         /\ Range(g \o q) \subseteq Range(g \o Sent(q, m))
         /\ Len(g \o q) <= Len(g \o Sent(q, m))
         /\ m \in Range(g \o Sent(q, m)) \/ Len(g \o Sent(q, m)) >= Cap
<1>1. Cap \in Nat /\ Len(q) \in Nat /\ Len(g) \in Nat
  BY SseHubAssumption, LenProperties
<1>2. CASE Len(q) < Cap
  <2>1. Sent(q, m) = Append(q, m)
    BY <1>2 DEF Sent
  <2>2. /\ Append(q, m) \in Seq(Messages) /\ Len(Append(q, m)) = Len(q) + 1
        /\ Append(q, m) = q \o <<m>> /\ <<m>> \in Seq(Messages)
    BY AppendProperties, AppendIsConcat
  <2>3. /\ Range(g \o Append(q, m)) = Range(g) \cup Range(Append(q, m))
        /\ Range(g \o q) = Range(g) \cup Range(q)
        /\ Range(Append(q, m)) = Range(q) \cup Range(<<m>>)
    <3>1. Range(q \o <<m>>) = Range(q) \cup Range(<<m>>)
      BY <2>2, RangeConcatenation, ZenonT(60)
    <3>2. Range(g \o q) = Range(g) \cup Range(q)
      BY RangeConcatenation
    <3>3. \A t \in Seq(Messages) : Range(g \o t) = Range(g) \cup Range(t)
      BY RangeConcatenation
    <3> QED
      BY <2>2, <3>1, <3>2, <3>3, Zenon
  <2>4. m \in Range(<<m>>)
    <3>1. <<m>>[1] = m /\ Len(<<m>>) = 1
      OBVIOUS
    <3>2. Range(<<m>>) = {<<m>>[i] : i \in 1..Len(<<m>>)}
      BY <2>2, RangeEquality
    <3> QED
      BY <3>1, <3>2
  <2>5. /\ Len(g \o Append(q, m)) = Len(g) + Len(q) + 1
        /\ Len(g \o q) = Len(g) + Len(q)
    BY <1>1, <2>2, ConcatProperties
  <2>6. Len(Append(q, m)) <= Cap /\ Len(g \o q) <= Len(g \o Append(q, m))
    BY <1>1, <1>2, <2>2, <2>5
  <2> QED
    BY <2>1, <2>2, <2>3, <2>4, <2>6
<1>3. CASE ~(Len(q) < Cap)
  <2>1. Sent(q, m) = q /\ Len(q) = Cap
    BY <1>1, <1>3 DEF Sent
  <2>2. Len(g \o q) = Len(g) + Len(q)
    BY ConcatProperties
  <2>3. Len(g \o q) \in Nat /\ Len(g \o q) >= Cap
    BY <1>1, <2>1, <2>2
  <2> QED
    BY <2>1, <2>3
<1> QED
  BY <1>2, <1>3

-------------------------------------------------------------------------------
(* The invariant                                                           *)

LEMMA HubInit == ASSUME Init PROVE HubInv
<1>1. Len(<< >>) <= Cap /\ << >> \in Seq(Messages)
  BY SseHubAssumption, EmptySeq
<1>2. TypeOK /\ Domains
  BY <1>1 DEF Init, TypeOK, Domains
<1>3. ClosedAreGone /\ ClientsAreThere /\ (\A m \in Messages : CastOK(m)) /\ GivenOrFull /\ LostWhenBroken
  BY DEF Init, ClosedAreGone, ClientsAreThere, CastOK, GivenOrFull, LostWhenBroken
<1> QED
  BY <1>2, <1>3 DEF HubInv

(* A step that moves no message: only a connection comes or goes. *)
LEMMA StreamStep ==
  ASSUME HubInv, TypeOK', ClosedAreGone', ClientsAreThere',
         UNCHANGED <<chan, cast, left, got, lost, due>>, broken \subseteq broken',
         \A m \in Messages : left[m] \subseteq clients'
  PROVE  HubInv'
<1>1. Domains' /\ \A m \in Messages : CastOK(m)'
  BY DEF HubInv, Domains, CastOK
<1>2. GivenOrFull'
  BY DEF HubInv, GivenOrFull, Given, Put
<1>3. LostWhenBroken'
  BY DEF HubInv, LostWhenBroken
<1> QED
  BY <1>1, <1>2, <1>3 DEF HubInv

LEMMA ComeAndGo ==
  ASSUME HubInv, NEW s \in Streams,
         Connect(s) \/ Disconnect(s) \/ Subscribe(s) \/ Expire(s)
  PROVE  HubInv'
<1>1. /\ UNCHANGED <<chan, cast, left, got, lost, due, closed>>
      /\ clients \subseteq clients' /\ broken \subseteq broken'
  BY DEF Connect, Disconnect, Subscribe, Expire
<1>2. TypeOK'
  BY DEF HubInv, TypeOK, Connect, Disconnect, Subscribe, Expire
<1>3. ClosedAreGone' /\ ClientsAreThere'
  BY DEF HubInv, TypeOK, ClosedAreGone, ClientsAreThere, Connect, Disconnect, Subscribe, Expire
<1> QED
  BY <1>1, <1>2, <1>3, StreamStep DEF HubInv, CastOK

(* With the write lock no broadcast has anybody left to serve. *)
LEMMA Leave ==
  ASSUME HubInv, NEW s \in Streams, Unsubscribe(s)
  PROVE  HubInv'
<1>1. \A m \in Messages : left[m] = {}
  BY DEF HubInv, CastOK, Unsubscribe, WriteLock, ReadLocked
<1>2. UNCHANGED <<chan, cast, left, broken, got, lost, due>>
  BY DEF Unsubscribe
<1>3. TypeOK'
  BY DEF HubInv, TypeOK, Unsubscribe
<1>4. ClosedAreGone' /\ ClientsAreThere'
  BY DEF HubInv, TypeOK, ClosedAreGone, ClientsAreThere, Unsubscribe
<1> QED
  BY <1>1, <1>2, <1>3, <1>4, StreamStep

LEMMA ForwardStep ==
  ASSUME HubInv, NEW s \in Streams, Forward(s)
  PROVE  HubInv'
<1>1. /\ chan[s] \in Seq(Messages) /\ chan[s] # << >> /\ Len(chan[s]) <= Cap
      /\ got[s] \in Seq(Messages) /\ lost[s] \in Seq(Messages)
      /\ Domains
      /\ UNCHANGED <<clients, closed, stream, cast, left, broken, due>>
  BY DEF HubInv, TypeOK, Forward
<1>2. /\ Head(chan[s]) \in Messages /\ Tail(chan[s]) \in Seq(Messages)
      /\ Len(Tail(chan[s])) = Len(chan[s]) - 1 /\ Len(chan[s]) \in Nat
  BY <1>1, HeadTailProperties, LenProperties
<1>3. Len(Tail(chan[s])) <= Cap
  BY <1>1, <1>2, SseHubAssumption
<1>4. /\ chan'[s] = Tail(chan[s])
      /\ \A q \in Streams : q # s => chan'[q] = chan[q] /\ got'[q] = got[q] /\ lost'[q] = lost[q]
      /\ Domains'
  BY <1>1 DEF Forward, Domains
<1>5. /\ got'[s] \in Seq(Messages) /\ lost'[s] \in Seq(Messages)
      /\ Put(s)' = Put(s)
      /\ lost'[s] # << >> => s \in broken
  <2>1. CASE s \in broken
    <3>1. got'[s] = got[s] /\ lost'[s] = Append(lost[s], Head(chan[s]))
      BY <1>1, <2>1 DEF Forward, Domains
    <3>2. Append(lost[s], Head(chan[s])) \in Seq(Messages)
      BY <1>1, <1>2, AppendProperties
    <3>3. got[s] \o Append(lost[s], Head(chan[s])) \o Tail(chan[s]) = Put(s)
      BY <1>1, TakenIsLost DEF Put
    <3>4. Put(s)' = Put(s)
      BY <1>4, <3>1, <3>3 DEF Put
    <3> QED
      BY <1>1, <2>1, <3>1, <3>2, <3>4
  <2>2. CASE s \notin broken
    <3>1. got'[s] = Append(got[s], Head(chan[s])) /\ lost'[s] = lost[s]
      BY <1>1, <2>2 DEF Forward, Domains
    <3>2. lost[s] = << >>
      BY <2>2 DEF HubInv, LostWhenBroken
    <3>3. Append(got[s], Head(chan[s])) \in Seq(Messages)
      BY <1>1, <1>2, AppendProperties
    <3>4. Put(s)' = Put(s)
      BY <1>1, <1>4, <3>1, <3>2, TakenArrives DEF Put
    <3> QED
      BY <1>1, <3>1, <3>2, <3>3, <3>4
  <2> QED
    BY <2>1, <2>2
<1>6. TypeOK'
  <2>1. /\ \A q \in Streams : chan'[q] \in Seq(Messages) /\ Len(chan'[q]) <= Cap
        /\ \A q \in Streams : got'[q] \in Seq(Messages) /\ lost'[q] \in Seq(Messages)
    BY <1>2, <1>3, <1>4, <1>5 DEF HubInv, TypeOK
  <2> QED
    BY <1>1, <2>1 DEF HubInv, TypeOK
<1>7. \A q \in Streams : Put(q)' = Put(q)
  <2>1. ASSUME NEW q \in Streams, q # s PROVE Put(q)' = Put(q)
    BY <1>4, <2>1 DEF Put
  <2> QED
    BY <1>5, <2>1
<1>8. GivenOrFull'
  BY <1>1, <1>7 DEF HubInv, TypeOK, GivenOrFull, Given
<1>9. LostWhenBroken'
  BY <1>1, <1>4, <1>5 DEF HubInv, LostWhenBroken
<1> QED
  BY <1>1, <1>4, <1>6, <1>8, <1>9 DEF HubInv, ClosedAreGone, ClientsAreThere, CastOK

LEMMA BeginStep ==
  ASSUME HubInv, NEW m \in Messages, Begin(m)
  PROVE  HubInv'
<1>1. /\ UNCHANGED <<clients, chan, closed, stream, broken, got, lost>>
      /\ cast'[m] = "sending" /\ left'[m] = clients /\ due'[m] = clients
      /\ \A n \in Messages : n # m => cast'[n] = cast[n] /\ left'[n] = left[n] /\ due'[n] = due[n]
  BY DEF Begin, HubInv, TypeOK
<1>2. TypeOK'
  BY DEF HubInv, TypeOK, Begin
<1>3. \A n \in Messages : CastOK(n)'
  BY <1>1 DEF HubInv, CastOK
<1>4. GivenOrFull'
  BY <1>1 DEF HubInv, GivenOrFull, Given, Put
<1> QED
  BY <1>1, <1>2, <1>3, <1>4 DEF HubInv, Domains, ClosedAreGone, ClientsAreThere, LostWhenBroken

LEMMA SendStep ==
  ASSUME HubInv, NEW m \in Messages, Send(m)
  PROVE  HubInv'
<1>1. PICK s \in left[m] : /\ chan' = [chan EXCEPT ![s] = Sent(@, m)]
                           /\ left' = [left EXCEPT ![m] = @ \ {s}]
  BY DEF Send
<1>2. /\ s \in Streams /\ chan[s] \in Seq(Messages) /\ got[s] \in Seq(Messages)
      /\ lost[s] \in Seq(Messages) /\ got[s] \o lost[s] \in Seq(Messages)
      /\ Len(chan[s]) <= Cap /\ cast[m] = "sending"
      /\ UNCHANGED <<clients, closed, stream, cast, broken, got, lost, due>>
  BY ConcatProperties DEF HubInv, TypeOK, CastOK, Send
<1>3. /\ chan'[s] = Sent(chan[s], m) /\ left'[m] = left[m] \ {s}
      /\ \A q \in Streams : q # s => chan'[q] = chan[q]
      /\ \A n \in Messages : n # m => left'[n] = left[n]
      /\ Domains'
  BY <1>1, <1>2 DEF HubInv, TypeOK, Domains
<1>4. TypeOK'
  <2>1. left' \in [Messages -> SUBSET Streams]
    BY <1>1 DEF HubInv, TypeOK
  <2>2. \A q \in Streams : chan'[q] \in Seq(Messages) /\ Len(chan'[q]) <= Cap
    <3>1. chan'[s] \in Seq(Messages) /\ Len(chan'[s]) <= Cap
      BY <1>2, <1>3, SentFacts
    <3> QED
      BY <1>3, <3>1 DEF HubInv, TypeOK
  <2> QED
    BY <1>2, <2>1, <2>2 DEF HubInv, TypeOK
<1>5. \A n \in Messages : CastOK(n)'
  BY <1>2, <1>3 DEF HubInv, CastOK
<1>6. /\ Given(s, m)'
      /\ \A n \in Messages : Given(s, n) => Given(s, n)'
  <2>1. /\ Range(Put(s)) \subseteq Range(Put(s)')
        /\ Len(Put(s)) <= Len(Put(s)')
        /\ m \in Range(Put(s)') \/ Len(Put(s)') >= Cap
    BY <1>2, <1>3, SentFacts DEF Put
  <2>2. Put(s) \in Seq(Messages) /\ Put(s)' \in Seq(Messages)
    BY <1>2, <1>3, SentFacts, ConcatProperties DEF Put
  <2>3. Len(Put(s)) \in Nat /\ Len(Put(s)') \in Nat /\ Cap \in Nat
    BY <2>2, LenProperties, SseHubAssumption
  <2> QED
    BY <2>1, <2>3 DEF Given
<1>7. \A q \in Streams, n \in Messages : q # s /\ Given(q, n) => Given(q, n)'
  BY <1>2, <1>3 DEF Given, Put
<1>8. GivenOrFull'
  <2> SUFFICES ASSUME NEW n \in Messages, NEW q \in due[n] \ left'[n]
               PROVE  Given(q, n)'
    BY <1>2 DEF GivenOrFull
  <2>1. q \in Streams
    BY DEF HubInv, TypeOK
  <2>2. CASE q = s /\ n = m
    BY <1>6, <2>2
  <2>3. CASE ~(q = s /\ n = m)
    BY <1>3, <1>6, <1>7, <2>1, <2>3 DEF HubInv, GivenOrFull
  <2> QED
    BY <2>2, <2>3
<1> QED
  BY <1>2, <1>3, <1>4, <1>5, <1>8 DEF HubInv, ClosedAreGone, ClientsAreThere, LostWhenBroken

LEMMA EndStep ==
  ASSUME HubInv, NEW m \in Messages, End(m)
  PROVE  HubInv'
<1>1. /\ UNCHANGED <<clients, chan, closed, stream, left, broken, got, lost, due>>
      /\ left[m] = {} /\ cast'[m] = "done"
      /\ \A n \in Messages : n # m => cast'[n] = cast[n]
  BY DEF End, AllServed, HubInv, TypeOK
<1>2. TypeOK'
  BY DEF HubInv, TypeOK, End
<1>3. \A n \in Messages : CastOK(n)'
  BY <1>1 DEF HubInv, CastOK
<1>4. GivenOrFull'
  BY <1>1 DEF HubInv, GivenOrFull, Given, Put
<1> QED
  BY <1>1, <1>2, <1>3, <1>4 DEF HubInv, Domains, ClosedAreGone, ClientsAreThere, LostWhenBroken

LEMMA HubStep == ASSUME HubInv, [Next]_vars PROVE HubInv'
<1>1. CASE UNCHANGED vars
  BY <1>1 DEF vars, HubInv, TypeOK, Domains, ClosedAreGone, ClientsAreThere, CastOK,
              GivenOrFull, LostWhenBroken, Given, Put
<1> QED
  BY <1>1, ComeAndGo, Leave, ForwardStep, BeginStep, SendStep, EndStep DEF Next

THEOREM HubInvariant == Spec => []HubInv
  BY HubInit, HubStep, PTL DEF Spec

-------------------------------------------------------------------------------
(* Hub (hub.go): Unsubscribe closes a channel under the write lock, Broadcast
   sends under the read lock; so no send ever meets a closed channel.        *)
THEOREM NoPanic == Spec => []NoSendOnClosed
<1>1. HubInv => NoSendOnClosed
  BY DEF HubInv, CastOK, ClosedAreGone, ClientsAreThere, NoSendOnClosed
<1> QED
  BY <1>1, HubInvariant, PTL

(* Hub.Broadcast and Stream: an order missed was put into a full channel, or taken
   for a connection that had broken, whose writes nobody looks at.          *)
LEMMA MissedForAReason == HubInv => LossIsExplained
<1> SUFFICES ASSUME HubInv, NEW m \in Messages, NEW s \in due[m], cast[m] = "done",
                    m \notin Range(got[s] \o chan[s]), ~(Len(Put(s)) >= Cap)
             PROVE  s \in broken /\ m \in Range(lost[s])
  BY DEF LossIsExplained
<1>1. /\ s \in Streams
      /\ got[s] \in Seq(Messages) /\ lost[s] \in Seq(Messages) /\ chan[s] \in Seq(Messages)
  BY DEF HubInv, TypeOK
<1>2. m \in Range(Put(s))
  BY DEF HubInv, CastOK, GivenOrFull, Given
<1>3. m \in Range(lost[s]) /\ Range(<< >>) = {}
  BY <1>1, <1>2, PutIsSomewhere DEF Put
<1>4. lost[s] # << >>
  BY <1>3
<1> QED
  BY <1>1, <1>3, <1>4 DEF HubInv, LostWhenBroken

THEOREM MissesExplained == Spec => []LossIsExplained
  BY MissedForAReason, HubInvariant, PTL

-------------------------------------------------------------------------------
(***************************************************************************)
(* The process of the server for any number of requests: it never exits by *)
(* itself with its connections open, nor reports success unasked, nor lets *)
(* a request find the pool closed before it shuts down.                    *)
(*                                                                         *)
(* CleanExit speaks of the end only.  What makes it inductive is where     *)
(* main has got to: the closers and the parts there are follow from the    *)
(* stage (Staged), and as long as the pool is open a caller of Shutdown    *)
(* still has a closer before it (Halting).                                 *)
(***************************************************************************)
Early == {"configuration", "startup", "postgres"}
Middle == {"r2", "repository"}
Late == {"mailer", "router", "wiring", "listening", "running"}
Serving == {"listening", "running"}

(* What there is at each stage: the pool, its closers, the parts, the requests. *)
Staged ==
  /\ stage \in Early => Len(closers) = 0 /\ pool # "open"
  /\ stage \in Middle => Len(closers) = 1
  /\ stage \in Late => Len(closers) = 2
  /\ stage # "configuration" => "config" \in built
  /\ stage \notin Early => "stores" \in built
  /\ stage \in Late => "users" \in built
  /\ stage \in {"wiring", "listening", "running"} => "jwt" \in built
  /\ stage \notin Serving =>
       "listener" \notin built /\ halt["server"].left = -1 /\ \A q \in Requests : request[q] = "new"
  /\ stage \notin Early => pool = "open" \/ \E t \in Threads : halt[t].left >= 0

(* What a caller of Shutdown still has to close, and what it will report. *)
Halting ==
  \A t \in Threads :
    /\ halt[t].left <= Len(closers)
    /\ pool = "open" => halt[t].left # 0
    /\ halt[t].left >= 0 /\ ~halt[t].error => signaled

(* CleanExit, where a caller of Shutdown is known by what it has left to close. *)
Ended ==
  /\ exit \in {"0", "1"} => pool # "open"
  /\ exit = "0" => signaled
  /\ (\E q \in Requests : request[q] = "no database") => \E t \in Threads : halt[t].left >= 0

HaltState == [left : -1..2, error : BOOLEAN]

Typed ==
  /\ stage \in Early \union Middle \union Late
  /\ built \subseteq {"config", "stores", "r2", "users", "mailer", "jwt", "listener"}
  /\ pool \in {"none", "open", "closed"}
  /\ closers \in Seq({"pool"})
  /\ halt \in [Threads -> HaltState]
  /\ exit \in {"none", "0", "1", "killed"} /\ signaled \in BOOLEAN
  /\ request \in [Requests -> {"new", "served", "answered", "no database", "cut"}]

ProcessInv == Typed /\ Staged /\ Halting /\ Ended

-------------------------------------------------------------------------------
(* The closers are at most two. *)
LEMMA ClosersCounted ==
  ASSUME Typed, Staged
  PROVE  Len(closers) \in 0..2 /\ (stage \notin Early => Len(closers) > 0)
<1>1. CASE stage \in Early
  BY <1>1 DEF Staged
<1>2. CASE stage \in Middle
  BY <1>2 DEF Staged
<1>3. CASE stage \in Late
  BY <1>3 DEF Staged
<1> QED
  BY <1>1, <1>2, <1>3 DEF Typed

(* What a caller of Shutdown is at when it has called it. *)
LEMMA CallStates ==
  ASSUME Typed, Staged
  PROVE  \A error \in BOOLEAN :
           /\ [left |-> Len(closers), error |-> error] \in HaltState
           /\ [left |-> Len(closers), error |-> error].left = Len(closers)
           /\ [left |-> Len(closers), error |-> error].error = error
<1>1. Len(closers) \in -1..2
  BY ClosersCounted
<1> QED
  BY <1>1 DEF HaltState

LEMMA ProcessInitInv == ProcessInit => ProcessInv
<1> SUFFICES ASSUME ProcessInit PROVE ProcessInv
  OBVIOUS
<1>1. closers \in Seq({"pool"}) /\ Len(closers) = 0
  BY DEF ProcessInit
<1>2. Calm \in HaltState /\ Calm.left = -1
  BY DEF Calm, HaltState
<1>3. halt \in [Threads -> HaltState] /\ \A t \in Threads : halt[t].left = -1
  BY <1>2 DEF ProcessInit
<1>4. Typed
  BY <1>1, <1>3 DEF ProcessInit, Typed, Early
<1>5. Staged
  BY <1>1, <1>3 DEF ProcessInit, Staged, Early, Middle, Late, Serving, Threads
<1>6. Halting /\ Ended
  BY <1>1, <1>3 DEF ProcessInit, Halting, Ended
<1> QED
  BY <1>4, <1>5, <1>6 DEF ProcessInv

(* A goroutine calls Shutdown: it has all the closers before it. *)
LEMMA Halted ==
  ASSUME Typed, Staged, Halting, NEW t \in Threads, NEW new \in HaltState,
         halt' = [halt EXCEPT ![t] = new], new.left = Len(closers),
         ~new.error => signaled, pool' = "open" => pool = "open" /\ stage \notin Early,
         UNCHANGED <<closers, signaled>>
  PROVE  /\ halt' \in [Threads -> HaltState]
         /\ halt'[t].left \in 0..2
         /\ \A u \in Threads \ {t} : halt'[u] = halt[u]
         /\ \A u \in Threads : halt[u].left >= 0 => halt'[u].left >= 0
         /\ Halting'
<1>1. Len(closers) \in 0..2 /\ (stage \notin Early => Len(closers) > 0)
  BY ClosersCounted
<1>4. halt' \in [Threads -> HaltState] /\ halt'[t] = new /\ \A u \in Threads \ {t} : halt'[u] = halt[u]
  BY DEF Typed
<1>5. Halting'
  <2> SUFFICES ASSUME NEW u \in Threads
               PROVE  /\ halt'[u].left <= Len(closers')
                      /\ pool' = "open" => halt'[u].left # 0
                      /\ halt'[u].left >= 0 /\ ~halt'[u].error => signaled'
    BY DEF Halting
  <2>1. CASE u = t
    BY <1>1, <1>4, <2>1
  <2>2. CASE u # t
    BY <1>4, <2>2 DEF Halting
  <2> QED
    BY <2>1, <2>2
<1>6. halt'[t].left \in 0..2
  BY <1>1, <1>4
<1> QED
  BY <1>4, <1>5, <1>6

(* main fails on the way: it calls Shutdown with the error. *)
LEMMA FailInv ==
  ASSUME ProcessInv, NEW s, Reach(s), Fail,
         pool' = pool \/ (stage = "postgres" /\ pool' \in {"none", "closed"})
  PROVE  ProcessInv'
<1> USE DEF ProcessInv
<1>1. /\ Halt("main", TRUE) /\ "main" \in Threads
      /\ UNCHANGED <<stage, built, closers, exit, signaled, request>>
      /\ exit = "none"
  BY DEF Fail, Reach, Alive, Threads
<1>2. pool' = "open" => pool = "open" /\ stage \notin Early
  BY DEF Staged, Early
<1>3. /\ halt' \in [Threads -> HaltState]
      /\ halt'["main"].left >= 0 /\ halt'["server"] = halt["server"]
      /\ \A u \in Threads : halt[u].left >= 0 => halt'[u].left >= 0
      /\ Halting'
  <2>1. PICK new \in HaltState :
          halt' = [halt EXCEPT !["main"] = new] /\ new.left = Len(closers) /\ new.error = TRUE
    BY <1>1, CallStates DEF Halt
  <2> QED
    <3>1. "main" \in Threads /\ "server" \in Threads \ {"main"}
      BY DEF Threads
    <3>2. /\ halt' \in [Threads -> HaltState]
          /\ halt'["main"].left \in 0..2
          /\ \A u \in Threads \ {"main"} : halt'[u] = halt[u]
          /\ \A u \in Threads : halt[u].left >= 0 => halt'[u].left >= 0
          /\ Halting'
      BY <1>1, <1>2, <2>1, Halted
    <3> QED
      BY <3>1, <3>2
<1>4. Typed'
  BY <1>1, <1>3 DEF Typed
<1>5. Staged'
  <2>1. stage' \notin Serving =>
          "listener" \notin built' /\ halt'["server"].left = -1 /\ \A q \in Requests : request'[q] = "new"
    BY <1>1, <1>3 DEF Staged
  <2>2. \E t \in Threads : halt'[t].left >= 0
    BY <1>1, <1>3
  <2>3. stage \in Early => pool' # "open"
    BY <1>2
  <2> QED
    BY <1>1, <2>1, <2>2, <2>3 DEF Staged
<1>6. Ended'
  BY <1>1, <1>3 DEF Ended
<1> QED
  BY <1>3, <1>4, <1>5, <1>6

(* main goes on to the next stage, with the parts it has built. *)
LEMMA PassInv ==
  ASSUME ProcessInv, NEW s, NEW next, NEW parts, Reach(s), Pass(next, parts),
         \/ /\ UNCHANGED <<pool, closers>>
            /\ \/ s = "configuration" /\ next = "startup" /\ parts = {"config"}
               \/ s = "startup" /\ next = "postgres" /\ parts = {}
               \/ s = "r2" /\ next = "repository" /\ parts \subseteq {"r2"}
               \/ s = "mailer" /\ next = "router" /\ parts \subseteq {"mailer"}
               \/ s = "router" /\ next = "wiring" /\ parts = {"jwt"}
               \/ s = "wiring" /\ next = "listening" /\ parts = {"listener"}
               \/ s = "listening" /\ next = "running" /\ parts = {}
         \/ /\ s = "postgres" /\ next = "r2" /\ parts = {"stores"}
            /\ pool' = "open" /\ closers' = Append(closers, "pool")
         \/ /\ s = "repository" /\ next = "mailer" /\ parts = {"users"}
            /\ UNCHANGED pool /\ closers' = Append(closers, "pool")
  PROVE  ProcessInv'
<1> USE DEF ProcessInv
<1>1. closers \in Seq({"pool"}) /\ Len(closers) \in 0..2
  BY ClosersCounted DEF Typed
<1>2. /\ stage = s /\ stage' = next /\ built' = built \union parts
      /\ UNCHANGED <<halt, exit, signaled, request>>
      /\ exit = "none" /\ halt["main"].left = -1
  BY DEF Pass, Reach, Alive, Calm
<1>3. /\ closers' \in Seq({"pool"})
      /\ stage \in {"postgres", "repository"} => Len(closers') = Len(closers) + 1
      /\ stage \notin {"postgres", "repository"} => Len(closers') = Len(closers)
      /\ stage # "postgres" => pool' = pool
      /\ stage = "postgres" => pool' = "open"
  BY <1>1, <1>2, AppendProperties
<1>4. Typed'
  BY <1>2, <1>3 DEF Typed, Early, Middle, Late
<1>5. Staged'
  <2>1. stage' \in Early => Len(closers') = 0 /\ pool' # "open"
    BY <1>2, <1>3 DEF Staged, Early
  <2>2. /\ stage' \in Middle => Len(closers') = 1
        /\ stage' \in Late => Len(closers') = 2
    <3>2. CASE stage' = "r2"
      <4>1. stage = "postgres"
        BY <1>2, <3>2
      <4>2. Len(closers) = 0 /\ Len(closers') = 1
        BY <1>3, <4>1 DEF Staged, Early
      <4> QED
        BY <3>2, <4>2 DEF Middle, Late
    <3>3. CASE stage' = "mailer"
      <4>1. stage = "repository"
        BY <1>2, <3>3
      <4>2. Len(closers) = 1
        BY <4>1 DEF Staged, Middle
      <4>3. Len(closers') = 2
        BY <1>3, <4>1, <4>2
      <4> QED
        BY <3>3, <4>3 DEF Middle, Late
    <3>4. CASE stage' \notin {"r2", "mailer"}
      <4>1. /\ Len(closers') = Len(closers)
            /\ stage' \in Middle => stage \in Middle
            /\ stage' \in Late => stage \in Late
        BY <1>2, <1>3, <3>4 DEF Middle, Late
      <4> QED
        BY <4>1 DEF Staged
    <3> QED
      BY <3>2, <3>3, <3>4
  <2>3. /\ stage' # "configuration" => "config" \in built'
        /\ stage' \notin Early => "stores" \in built'
        /\ stage' \in Late => "users" \in built'
        /\ stage' \in {"wiring", "listening", "running"} => "jwt" \in built'
    BY <1>2 DEF Staged, Early, Middle, Late
  <2>4. stage' \notin Serving => "listener" \notin built' /\ halt'["server"].left = -1
                                 /\ \A q \in Requests : request'[q] = "new"
    BY <1>2 DEF Staged, Serving
  <2>5. stage' \notin Early => pool' = "open" \/ \E t \in Threads : halt'[t].left >= 0
    BY <1>2, <1>3 DEF Staged, Early
  <2> QED
    BY <2>1, <2>2, <2>3, <2>4, <2>5 DEF Staged
<1>6. Halting'
  <2>1. Len(closers) <= Len(closers')
    BY <1>1, <1>3
  <2>2. CASE stage = "postgres"
    <3>1. \A t \in Threads : halt[t].left = -1
      BY <1>2, <2>2 DEF Staged, Serving, Threads
    <3> QED
      BY <1>1, <1>2, <1>3, <2>1, <3>1 DEF Halting
  <2>3. CASE stage # "postgres"
    <3>1. \A t \in Threads : halt[t].left \in -1..2
      BY DEF Typed, HaltState
    <3> QED
      BY <1>1, <1>2, <1>3, <2>1, <2>3, <3>1 DEF Halting
  <2> QED
    BY <2>2, <2>3
<1>7. Ended'
  BY <1>2, <1>3 DEF Ended
<1> QED
  BY <1>4, <1>5, <1>6, <1>7

(* Every step of the start. *)
LEMMA StartInv == ASSUME ProcessInv, Start PROVE ProcessInv'
<1>1. CASE SetupConfigManager
  BY <1>1, FailInv, PassInv DEF SetupConfigManager, Early
<1>2. CASE SetupStartup
  BY <1>2, FailInv, PassInv DEF SetupStartup, Early
<1>3. CASE SetupStoragePostgreSQL
  <2>1. CASE Fail /\ pool' \in {"none", "closed"}
    <3>1. Reach("postgres") /\ stage = "postgres"
      BY <1>3 DEF SetupStoragePostgreSQL, Reach
    <3> QED
      BY <2>1, <3>1, FailInv DEF Early
  <2>2. CASE ~(Fail /\ pool' \in {"none", "closed"})
    BY <1>3, <2>2, PassInv DEF SetupStoragePostgreSQL, LeftOpen, Registered
  <2> QED
    BY <2>1, <2>2
<1>4. CASE SetupStorageR2
  <2>1. CASE Fail
    BY <1>4, <2>1, FailInv DEF SetupStorageR2, Middle
  <2>2. CASE ~Fail
    <3>1. PICK parts \in {{}, {"r2"}} : Pass("repository", parts) /\ UNCHANGED closers
      BY <1>4, <2>2 DEF SetupStorageR2
    <3> QED
      BY <1>4, <3>1, PassInv DEF SetupStorageR2
  <2> QED
    BY <2>1, <2>2
<1>5. CASE SetupRepository
  BY <1>5, PassInv DEF SetupRepository
<1>6. CASE SetupMailer
  <2>1. CASE Fail
    BY <1>6, <2>1, FailInv DEF SetupMailer, Late
  <2>2. CASE ~Fail
    <3>1. PICK parts \in {{}, {"mailer"}} : Pass("router", parts) /\ UNCHANGED closers
      BY <1>6, <2>2 DEF SetupMailer
    <3> QED
      BY <1>6, <3>1, PassInv DEF SetupMailer
  <2> QED
    BY <2>1, <2>2
<1>7. CASE SetupGinRouter
  BY <1>7, FailInv, PassInv DEF SetupGinRouter, Late
<1>8. CASE Wire
  BY <1>8, FailInv, PassInv DEF Wire, Late
<1>9. CASE Notify
  BY <1>9, PassInv DEF Notify
<1> QED
  BY <1>1, <1>2, <1>3, <1>4, <1>5, <1>6, <1>7, <1>8, <1>9 DEF Start

-------------------------------------------------------------------------------
(* A goroutine calls Shutdown while the process serves: the pool has its closers. *)
LEMMA HaltInv ==
  ASSUME ProcessInv, NEW t \in Threads, NEW error \in BOOLEAN, stage \in Serving,
         Halt(t, error), ~error => signaled,
         built' \subseteq built, built \subseteq built' \union {"listener"},
         Alive, UNCHANGED <<stage, pool, closers, exit, signaled, request>>
  PROVE  ProcessInv'
<1> USE DEF ProcessInv
<1>1. stage \notin Early
  BY DEF Serving, Early
<1>2. /\ halt' \in [Threads -> HaltState]
      /\ \A u \in Threads : halt[u].left >= 0 => halt'[u].left >= 0
      /\ Halting'
  <2>1. PICK new \in HaltState :
          halt' = [halt EXCEPT ![t] = new] /\ new.left = Len(closers) /\ new.error = error
    BY CallStates DEF Halt
  <2> QED
    BY <1>1, <2>1, Halted
<1>3. Typed'
  BY <1>2 DEF Typed
<1>4. Staged'
  BY <1>1, <1>2 DEF Staged, Serving
<1>5. Ended'
  BY <1>2 DEF Ended, Alive
<1> QED
  BY <1>2, <1>3, <1>4, <1>5

LEMMA CloseNextInv ==
  ASSUME ProcessInv, NEW t \in Threads, CloseNext(t)
  PROVE  ProcessInv'
<1> USE DEF ProcessInv
<1>0. Len(closers) \in 0..2
  BY ClosersCounted
<1>1. /\ halt[t] \in HaltState /\ halt[t].left \in 1..Len(closers)
      /\ \A u \in Threads : halt[u].left \in -1..2
  <2>1. \A u \in Threads : halt[u] \in HaltState
    BY DEF Typed
  <2>2. \A u \in Threads : halt[u].left \in -1..2
    BY <2>1 DEF HaltState
  <2>3. halt[t].left > 0 /\ halt[t].left <= Len(closers)
    BY DEF CloseNext, Halting
  <2> QED
    BY <1>0, <2>1, <2>2, <2>3
<1>2. closers[halt[t].left] = "pool"
  <2>1. closers \in Seq({"pool"})
    BY DEF Typed
  <2> QED
    BY <1>1, <2>1, ElementOfSeq
<1> DEFINE new == [halt[t] EXCEPT !.left = halt[t].left - 1]
<1>3. new \in HaltState /\ new.left = halt[t].left - 1 /\ new.error = halt[t].error
  BY <1>1 DEF HaltState
<1>4. /\ pool' = "closed" /\ exit = "none"
      /\ halt' = [halt EXCEPT ![t] = new]
      /\ UNCHANGED <<stage, built, closers, exit, signaled, request>>
  BY <1>2 DEF CloseNext, Alive
<1> HIDE DEF new
<1>5. /\ halt' \in [Threads -> HaltState] /\ halt'[t] = new
      /\ \A u \in Threads \ {t} : halt'[u] = halt[u]
  BY <1>3, <1>4 DEF Typed
<1>6. \A u \in Threads : halt[u].left >= 0 => halt'[u].left >= 0
  BY <1>1, <1>3, <1>5
<1>7. Typed'
  BY <1>4, <1>5 DEF Typed
<1>8. Staged'
  <2>1. stage \notin Serving => t # "server"
    BY <1>1 DEF Staged
  <2>2. halt'[t].left >= 0
    BY <1>1, <1>3, <1>5
  <2> QED
    BY <1>4, <1>5, <2>1, <2>2 DEF Staged, Threads
<1>9. Halting'
  <2> SUFFICES ASSUME NEW u \in Threads
               PROVE  /\ halt'[u].left <= Len(closers')
                      /\ halt'[u].left >= 0 /\ ~halt'[u].error => signaled'
    BY <1>4 DEF Halting
  <2>1. CASE u = t
    BY <1>0, <1>1, <1>3, <1>4, <1>5, <2>1 DEF Halting
  <2>2. CASE u # t
    BY <1>4, <1>5, <2>2 DEF Halting
  <2> QED
    BY <2>1, <2>2
<1>10. Ended'
  BY <1>4, <1>6 DEF Ended
<1> QED
  BY <1>7, <1>8, <1>9, <1>10

LEMMA ExitInv ==
  ASSUME ProcessInv, NEW t \in Threads, Exit(t)
  PROVE  ProcessInv'
<1> USE DEF ProcessInv
<1>1. /\ halt[t].left = 0 /\ exit' = IF halt[t].error THEN "1" ELSE "0"
      /\ UNCHANGED <<stage, built, pool, closers, halt, signaled>>
      /\ request' = [q \in Requests |-> IF request[q] = "served" THEN "cut" ELSE request[q]]
  BY DEF Exit
<1>2. pool # "open" /\ (~halt[t].error => signaled)
  BY <1>1 DEF Halting
<1>3. Typed'
  BY <1>1 DEF Typed
<1>4. Staged'
  BY <1>1 DEF Staged
<1>5. Halting'
  BY <1>1 DEF Halting
<1>6. Ended'
  <2>1. \A q \in Requests : request'[q] = "no database" => request[q] = "no database"
    BY <1>1
  <2> QED
    BY <1>1, <1>2, <2>1 DEF Ended
<1> QED
  BY <1>3, <1>4, <1>5, <1>6

LEMMA SignalInv == ASSUME ProcessInv, Signal PROVE ProcessInv'
<1> USE DEF ProcessInv
<1>1. /\ signaled' = TRUE /\ exit' \in {"none", "killed"}
      /\ UNCHANGED <<stage, built, pool, closers, halt, request>>
  BY DEF Signal, Alive
<1>2. Typed'
  BY <1>1 DEF Typed
<1>3. Staged'
  BY <1>1 DEF Staged
<1>4. Halting' /\ Ended'
  BY <1>1 DEF Halting, Ended
<1> QED
  BY <1>2, <1>3, <1>4

LEMMA RequestInv ==
  ASSUME ProcessInv, NEW q \in Requests, Serve(q) \/ Answer(q)
  PROVE  ProcessInv'
<1> USE DEF ProcessInv
<1>1. stage \in Serving /\ stage \notin Early
  BY DEF Serve, Answer, Staged, Serving, Early
<1>2. PICK a \in {"served", "answered", "no database"} :
        /\ request' = [request EXCEPT ![q] = a]
        /\ a = "no database" => pool # "open"
  BY DEF Serve, Answer
<1>3. UNCHANGED <<stage, built, pool, closers, halt, exit, signaled>>
  BY DEF Serve, Answer
<1>4. Typed'
  BY <1>2, <1>3 DEF Typed
<1>5. Staged'
  BY <1>1, <1>3 DEF Staged
<1>6. Halting'
  BY <1>3 DEF Halting
<1>7. Ended'
  <2>1. pool # "open" => \E t \in Threads : halt[t].left >= 0
    BY <1>1 DEF Staged
  <2>2. \A p \in Requests : request'[p] = "no database" => request[p] = "no database" \/ pool # "open"
    BY <1>2 DEF Typed
  <2> QED
    BY <1>3, <2>1, <2>2 DEF Ended
<1> QED
  BY <1>4, <1>5, <1>6, <1>7

LEMMA ProcessStepInv == ProcessInv /\ [ProcessNext]_processVars => ProcessInv'
<1> SUFFICES ASSUME ProcessInv, [ProcessNext]_processVars PROVE ProcessInv'
  OBVIOUS
<1>1. CASE Start
  BY <1>1, StartInv
<1>2. CASE ListenFails
  <2>1. stage \in Serving
    BY <1>2 DEF ListenFails, ProcessInv, Staged
  <2> QED
    BY <1>2, <2>1, HaltInv DEF ListenFails, Threads
<1>3. CASE Signal
  BY <1>3, SignalInv
<1>4. CASE Break
  BY <1>4, HaltInv DEF Break, Reach, Serving, Threads
<1>5. CASE \E t \in Threads : Stop(t)
  BY <1>5, CloseNextInv, ExitInv DEF Stop
<1>6. CASE \E q \in Requests : Serve(q) \/ Answer(q)
  BY <1>6, RequestInv
<1>7. CASE UNCHANGED processVars
  <2>1. UNCHANGED <<stage, built, pool, closers, halt, exit, signaled, request>>
    BY <1>7 DEF processVars
  <2>2. Typed'
    BY <2>1 DEF ProcessInv, Typed
  <2>3. Staged'
    BY <2>1 DEF ProcessInv, Staged
  <2>4. Halting' /\ Ended'
    BY <2>1 DEF ProcessInv, Halting, Ended
  <2> QED
    BY <2>2, <2>3, <2>4 DEF ProcessInv
<1> QED
  BY <1>1, <1>2, <1>3, <1>4, <1>5, <1>6, <1>7 DEF ProcessNext

-------------------------------------------------------------------------------
LEMMA ExitIsClean == ProcessInv => CleanExit
<1>1. \A t \in Threads : halt[t].left >= 0 => halt[t] # Calm
  BY DEF Calm
<1> QED
  BY <1>1 DEF ProcessInv, Ended, CleanExit

(* For any number of requests, a process that exits by itself has closed its
   connections, and reports success only when it was asked to stop (setup.go:
   105-127, main.go:264-284).                                               *)
THEOREM CleanExitCorrect == ProcessSpec => []CleanExit
  BY ExitIsClean, ProcessInitInv, ProcessStepInv, PTL DEF ProcessSpec

LEMMA ProcessTypes == ProcessInv => ProcessTypeOK
<1> SUFFICES ASSUME ProcessInv PROVE ProcessTypeOK
  OBVIOUS
<1>0. Len(closers) \in 0..2
  BY ClosersCounted DEF ProcessInv
<1>1. closers \in Seq({"pool"}) /\ Len(closers) <= 2
  <2>1. closers \in Seq({"pool"})
    BY DEF ProcessInv, Typed
  <2>2. Len(closers) <= 2
    BY <1>0
  <2> QED
    BY <2>1, <2>2
<1>2. "listener" \in built => {"config", "stores", "users", "jwt"} \subseteq built
  BY DEF ProcessInv, Typed, Staged, Serving, Early, Late
<1> QED
  BY <1>1, <1>2 DEF ProcessInv, Typed, HaltState, ProcessTypeOK, Early, Middle, Late

(* Every variable keeps its type, and no part of the server is used before the
   one it is built from (setup.go:71-102).                                  *)
THEOREM ProcessTypeCorrect == ProcessSpec => []ProcessTypeOK
  BY ProcessTypes, ProcessInitInv, ProcessStepInv, PTL DEF ProcessSpec

-------------------------------------------------------------------------------
(***************************************************************************)
(* The rate limiter, for any keys, limit and window: it implements the     *)
(* window that forgets nothing, whatever its cleanup and its requests drop *)
(* of the timestamps.  Both loop over a sequence; what such a loop keeps   *)
(* is shown from its turns, and then by the length of the sequence.        *)
(***************************************************************************)
(* A set of lengths with 0 in it, and n + 1 whenever n is, has every length. *)
Less == {ss \in Nat \X Nat : ss[1] < ss[2]}

LEMMA EveryLength ==
  ASSUME NEW P, 0 \in P, \A n \in Nat : n \in P => n + 1 \in P
  PROVE  Nat \subseteq P
<1> DEFINE T == {n \in Nat : n \notin P}
<1> SUFFICES ASSUME T # {} PROVE FALSE
  OBVIOUS
<1>1. T \subseteq Nat
  OBVIOUS
<1>2. \E x \in T : \A y \in T : ~(<<y, x>> \in Less)
  <2>1. IsWellFoundedOn(Less, Nat)
    BY NatLessThanWellFounded, Zenon DEF OpToRel, Less
  <2> HIDE DEF T
  <2> QED
    BY <1>1, <2>1, WFMin, Zenon
<1>3. PICK x \in T : \A y \in T : ~(<<y, x>> \in Less)
  BY <1>2
<1>4. x \in Nat \ {0} /\ x - 1 \in Nat
  OBVIOUS
<1>5. <<x - 1, x>> \in Less
  BY <1>4 DEF Less
<1>6. x - 1 \in P
  BY <1>3, <1>4, <1>5
<1>7. (x - 1) + 1 \in P
  BY <1>4, <1>6
<1> QED
  BY <1>4, <1>7

(* The loop of filterRecent: what it has kept after each of its turns. *)
Turns(ts, keep, f) ==
  f = [i \in 0..Len(ts) |->
         IF i = 0 THEN << >> ELSE IF ts[i] \in keep THEN Append(f[i - 1], ts[i]) ELSE f[i - 1]]

Turned(ts, keep, n, f) ==
  /\ f[0] = << >>
  /\ \A i \in 1..n : f[i] = IF ts[i] \in keep THEN Append(f[i - 1], ts[i]) ELSE f[i - 1]

LEMMA LoopRuns ==
  ASSUME NEW S, NEW ts \in Seq(S), NEW keep
  PROVE  \E f \in [0..Len(ts) -> Seq(S)] : Turns(ts, keep, f)
<1> DEFINE P == {n \in Nat : n <= Len(ts) => \E f \in [0..n -> Seq(S)] : Turned(ts, keep, n, f)}
<1>1. 0 \in P
  <2>1. [i \in 0..0 |-> << >>] \in [0..0 -> Seq(S)] /\ Turned(ts, keep, 0, [i \in 0..0 |-> << >>])
    BY DEF Turned
  <2> QED
    BY <2>1
<1>2. ASSUME NEW n \in Nat, n \in P, n + 1 <= Len(ts)
      PROVE  \E f \in [0..(n + 1) -> Seq(S)] : Turned(ts, keep, n + 1, f)
  <2>1. PICK f \in [0..n -> Seq(S)] : Turned(ts, keep, n, f)
    BY <1>2
  <2> DEFINE x == IF ts[n + 1] \in keep THEN Append(f[n], ts[n + 1]) ELSE f[n]
             g == [i \in 0..(n + 1) |-> IF i <= n THEN f[i] ELSE x]
  <2>2. ts[n + 1] \in S /\ f[n] \in Seq(S)
    BY <1>2
  <2>3. x \in Seq(S)
    BY <2>2
  <2> HIDE DEF x
  <2>4. g \in [0..(n + 1) -> Seq(S)]
    BY <2>3
  <2>5. g[0] = << >> /\ g[n + 1] = x /\ \A i \in 0..n : g[i] = f[i]
    BY <2>1 DEF Turned
  <2> HIDE DEF g
  <2>6. ASSUME NEW i \in 1..(n + 1)
        PROVE  g[i] = IF ts[i] \in keep THEN Append(g[i - 1], ts[i]) ELSE g[i - 1]
    <3>1. CASE i = n + 1
      <4>1. g[i - 1] = f[n]
        BY <2>5, <3>1
      <4> QED
        BY <2>5, <3>1, <4>1 DEF x
    <3>2. CASE i # n + 1
      <4>1. i \in 1..n /\ i - 1 \in 0..n /\ i \in 0..n
        BY <3>2
      <4> QED
        BY <2>1, <2>5, <4>1 DEF Turned
    <3> QED
      BY <3>1, <3>2
  <2> QED
    BY <2>4, <2>5, <2>6 DEF Turned
<1>3. \A n \in Nat : n \in P => n + 1 \in P
  BY <1>2
<1>4. Len(ts) \in P
  <2> HIDE DEF P
  <2>1. Nat \subseteq P
    BY <1>1, <1>3, EveryLength
  <2> QED
    BY <2>1
<1>5. PICK f \in [0..Len(ts) -> Seq(S)] : Turned(ts, keep, Len(ts), f)
  BY <1>4
<1>6. f = [i \in 0..Len(ts) |->
             IF i = 0 THEN << >> ELSE IF ts[i] \in keep THEN Append(f[i - 1], ts[i]) ELSE f[i - 1]]
  <2>1. ASSUME NEW i \in 0..Len(ts)
        PROVE  f[i] = IF i = 0 THEN << >> ELSE IF ts[i] \in keep THEN Append(f[i - 1], ts[i]) ELSE f[i - 1]
    <3>1. CASE i = 0
      BY <1>5, <3>1 DEF Turned
    <3>2. CASE i # 0
      <4>1. i \in 1..Len(ts)
        BY <3>2
      <4> QED
        BY <1>5, <3>2, <4>1 DEF Turned
    <3> QED
      BY <3>1, <3>2
  <2> QED
    BY <2>1
<1> QED
  BY <1>6 DEF Turns

(* Whichever function the loop is, it is this one; and it keeps elements of ts. *)
LEMMA LoopTurns ==
  ASSUME NEW S, NEW ts \in Seq(S), NEW keep, NEW f, Turns(ts, keep, f)
  PROVE  /\ Turned(ts, keep, Len(ts), f)
         /\ \A n \in 0..Len(ts) : f[n] \in Seq(S \intersect keep) /\ Len(f[n]) <= n
<1>1. Turned(ts, keep, Len(ts), f)
  <2>1. \A i \in 0..Len(ts) :
          f[i] = IF i = 0 THEN << >> ELSE IF ts[i] \in keep THEN Append(f[i - 1], ts[i]) ELSE f[i - 1]
    BY DEF Turns
  <2>2. f[0] = << >>
    BY <2>1
  <2>3. ASSUME NEW i \in 1..Len(ts)
        PROVE  f[i] = IF ts[i] \in keep THEN Append(f[i - 1], ts[i]) ELSE f[i - 1]
    BY <2>1
  <2> QED
    BY <2>2, <2>3 DEF Turned
<1> DEFINE P == {n \in Nat : n <= Len(ts) => f[n] \in Seq(S \intersect keep) /\ Len(f[n]) <= n}
<1>2. 0 \in P
  <2>1. f[0] = << >>
    BY <1>1 DEF Turned
  <2>2. << >> \in Seq(S \intersect keep) /\ Len(<< >>) <= 0
    OBVIOUS
  <2> QED
    BY <2>1, <2>2
<1>3. ASSUME NEW n \in Nat, n \in P, n + 1 <= Len(ts)
      PROVE  f[n + 1] \in Seq(S \intersect keep) /\ Len(f[n + 1]) <= n + 1
  <2>1. f[n] \in Seq(S \intersect keep) /\ Len(f[n]) <= n /\ Len(f[n]) \in Nat
    BY <1>3
  <2>2. f[n + 1] = IF ts[n + 1] \in keep THEN Append(f[n], ts[n + 1]) ELSE f[n]
    <3>1. n + 1 \in 1..Len(ts) /\ (n + 1) - 1 = n
      BY <1>3
    <3> QED
      BY <1>1, <3>1 DEF Turned
  <2>3. CASE ts[n + 1] \in keep
    <3>1. ts[n + 1] \in S \intersect keep
      BY <1>3, <2>3
    <3>2. Append(f[n], ts[n + 1]) \in Seq(S \intersect keep) /\ Len(Append(f[n], ts[n + 1])) = Len(f[n]) + 1
      BY <2>1, <3>1
    <3> QED
      BY <2>1, <2>2, <2>3, <3>2
  <2>4. CASE ts[n + 1] \notin keep
    BY <2>1, <2>2, <2>4
  <2> QED
    BY <2>3, <2>4
<1>4. \A n \in Nat : n \in P => n + 1 \in P
  BY <1>3
<1>5. Nat \subseteq P
  <2> HIDE DEF P
  <2> QED
    BY <1>2, <1>4, EveryLength
<1> QED
  BY <1>1, <1>5

LEMMA Looped ==
  ASSUME NEW S, NEW ts \in Seq(S), NEW keep
  PROVE  \E f : Turns(ts, keep, f) /\ Rate!Filter(ts, keep) = f[Len(ts)]
<1> DEFINE out == CHOOSE f : Turns(ts, keep, f)
<1>1. Turns(ts, keep, out)
  BY LoopRuns
<1>2. Rate!Filter(ts, keep) = out[Len(ts)]
  BY DEF Rate!Filter, Turns
<1> QED
  BY <1>1, <1>2

(* What filterRecent keeps is of ts and of what is to be kept. *)
LEMMA Filtered ==
  ASSUME NEW S, NEW ts \in Seq(S), NEW keep
  PROVE  Rate!Filter(ts, keep) \in Seq(S \intersect keep) /\ Len(Rate!Filter(ts, keep)) <= Len(ts)
<1>1. Len(ts) \in 0..Len(ts)
  OBVIOUS
<1>2. PICK f : Turns(ts, keep, f) /\ Rate!Filter(ts, keep) = f[Len(ts)]
  BY Looped
<1>3. \A n \in 0..Len(ts) : f[n] \in Seq(S \intersect keep) /\ Len(f[n]) <= n
  BY <1>2, LoopTurns
<1> QED
  BY <1>1, <1>2, <1>3

(* It goes through ts from its start. *)
LEMMA FilterNone ==
  ASSUME NEW keep PROVE Rate!Filter(<< >>, keep) = << >>
<1>1. << >> \in Seq({}) /\ Len(<< >>) = 0
  OBVIOUS
<1>2. PICK f : Turns(<< >>, keep, f) /\ Rate!Filter(<< >>, keep) = f[Len(<< >>)]
  BY <1>1, Looped
<1>3. Turned(<< >>, keep, Len(<< >>), f)
  BY <1>1, <1>2, LoopTurns
<1> QED
  BY <1>1, <1>2, <1>3 DEF Turned

LEMMA FilterMore ==
  ASSUME NEW S, NEW ts \in Seq(S), NEW x \in S, NEW keep
  PROVE  Rate!Filter(Append(ts, x), keep) =
           IF x \in keep THEN Append(Rate!Filter(ts, keep), x) ELSE Rate!Filter(ts, keep)
<1>1. /\ Append(ts, x) \in Seq(S) /\ Len(Append(ts, x)) = Len(ts) + 1 /\ Len(ts) \in Nat
      /\ Append(ts, x)[Len(ts) + 1] = x /\ \A i \in 1..Len(ts) : Append(ts, x)[i] = ts[i]
  OBVIOUS
<1>2. PICK f : Turns(ts, keep, f) /\ Rate!Filter(ts, keep) = f[Len(ts)]
  BY Looped
<1>3. PICK g : Turns(Append(ts, x), keep, g) /\ Rate!Filter(Append(ts, x), keep) = g[Len(ts) + 1]
  BY <1>1, Looped
<1>4. Turned(ts, keep, Len(ts), f)
  BY <1>2, LoopTurns
<1>5. Turned(Append(ts, x), keep, Len(ts) + 1, g)
  BY <1>1, <1>3, LoopTurns
<1> DEFINE P == {n \in Nat : n <= Len(ts) => f[n] = g[n]}
<1>6. 0 \in P
  BY <1>4, <1>5 DEF Turned
<1>7. ASSUME NEW n \in Nat, n \in P, n + 1 <= Len(ts) PROVE f[n + 1] = g[n + 1]
  <2>1. n + 1 \in 1..Len(ts) /\ n + 1 \in 1..(Len(ts) + 1) /\ (n + 1) - 1 = n /\ f[n] = g[n]
    BY <1>7
  <2>2. f[n + 1] = IF ts[n + 1] \in keep THEN Append(f[n], ts[n + 1]) ELSE f[n]
    BY <1>4, <2>1 DEF Turned
  <2>3. g[n + 1] = IF ts[n + 1] \in keep THEN Append(g[n], ts[n + 1]) ELSE g[n]
    BY <1>1, <1>5, <2>1 DEF Turned
  <2> QED
    BY <2>1, <2>2, <2>3
<1>8. \A n \in Nat : n \in P => n + 1 \in P
  BY <1>7
<1>9. f[Len(ts)] = g[Len(ts)]
  <2>1. Nat \subseteq P
    <3> HIDE DEF P
    <3> QED
      BY <1>6, <1>8, EveryLength
  <2> QED
    BY <1>1, <2>1
<1>10. g[Len(ts) + 1] = IF x \in keep THEN Append(g[Len(ts)], x) ELSE g[Len(ts)]
  <2>1. Len(ts) + 1 \in 1..(Len(ts) + 1) /\ (Len(ts) + 1) - 1 = Len(ts)
    BY <1>1
  <2> QED
    BY <1>1, <1>5, <2>1 DEF Turned
<1> QED
  BY <1>2, <1>3, <1>9, <1>10

(* A sequence that is not empty is one more than another. *)
LEMMA LastOff ==
  ASSUME NEW S, NEW ts \in Seq(S), NEW n \in Nat, Len(ts) = n + 1
  PROVE  \E s \in Seq(S), x \in S : Len(s) = n /\ ts = Append(s, x)
<1> DEFINE s == [i \in 1..n |-> ts[i]]
<1>1. s \in Seq(S) /\ Len(s) = n /\ ts[n + 1] \in S
  OBVIOUS
<1>2. /\ Append(s, ts[n + 1]) \in Seq(S) /\ Len(Append(s, ts[n + 1])) = n + 1
      /\ Append(s, ts[n + 1])[n + 1] = ts[n + 1] /\ \A i \in 1..n : Append(s, ts[n + 1])[i] = ts[i]
  <2>1. \A i \in 1..n : s[i] = ts[i]
    OBVIOUS
  <2> HIDE DEF s
  <2> QED
    BY <1>1, <2>1
<1>3. ts = Append(s, ts[n + 1])
  <2> HIDE DEF s
  <2>1. \A i \in 1..(n + 1) : ts[i] = Append(s, ts[n + 1])[i]
    BY <1>2
  <2> QED
    BY <1>2, <2>1, SeqEqual
<1> QED
  BY <1>1, <1>3

(* Where all is to be kept nothing is dropped. *)
LEMMA FilterAll ==
  ASSUME NEW S, NEW keep, S \subseteq keep
  PROVE  \A ts \in Seq(S) : Rate!Filter(ts, keep) = ts
<1> DEFINE P == {n \in Nat : \A ts \in Seq(S) : Len(ts) = n => Rate!Filter(ts, keep) = ts}
<1>1. 0 \in P
  <2> SUFFICES ASSUME NEW ts \in Seq(S), Len(ts) = 0 PROVE Rate!Filter(ts, keep) = ts
    OBVIOUS
  <2>1. ts = << >>
    OBVIOUS
  <2> QED
    BY <2>1, FilterNone
<1>2. ASSUME NEW n \in Nat, n \in P, NEW ts \in Seq(S), Len(ts) = n + 1 PROVE Rate!Filter(ts, keep) = ts
  <2>1. PICK s \in Seq(S), x \in S : Len(s) = n /\ ts = Append(s, x)
    <3> HIDE DEF P
    <3> QED
      BY <1>2, LastOff
  <2>2. Rate!Filter(s, keep) = s /\ x \in keep
    BY <1>2, <2>1
  <2> QED
    BY <2>1, <2>2, FilterMore
<1>3. \A n \in Nat : n \in P => n + 1 \in P
  BY <1>2
<1>4. Nat \subseteq P
  <2> HIDE DEF P
  <2> QED
    BY <1>1, <1>3, EveryLength
<1> QED
  BY <1>4

-------------------------------------------------------------------------------
(* A timestamp ages up to Window, where it is recent no more. *)
Ages == 0..Window
Young == {age \in 0..Window : Rate!AfterCutoff(age)}
Younger == {age \in 0..Window : age + 1 < Window}
Aged(ts) == [i \in DOMAIN ts |-> IF ts[i] < Window THEN ts[i] + 1 ELSE Window]
Older(ts) == [i \in DOMAIN ts |-> ts[i] + 1]

LEMMA AgedMore ==
  ASSUME NEW ts \in Seq(Ages), NEW x \in Ages
  PROVE  /\ Aged(ts) \in Seq(Ages)
         /\ Aged(Append(ts, x)) = Append(Aged(ts), IF x < Window THEN x + 1 ELSE Window)
<1>1. Window \in Nat \ {0}
  BY RateLimiterAssumption
<1> DEFINE y == IF x < Window THEN x + 1 ELSE Window
<1>2. y \in Ages /\ \A a \in Ages : (IF a < Window THEN a + 1 ELSE Window) \in Ages
  BY <1>1 DEF Ages
<1>3. Aged(ts) \in Seq(Ages) /\ Len(Aged(ts)) = Len(ts)
  <2>1. Aged(ts) \in [1..Len(ts) -> Ages]
    BY <1>2 DEF Aged
  <2> QED
    BY <2>1
<1>4. /\ Append(ts, x) \in Seq(Ages) /\ Len(Append(ts, x)) = Len(ts) + 1
      /\ Append(ts, x)[Len(ts) + 1] = x /\ \A i \in 1..Len(ts) : Append(ts, x)[i] = ts[i]
  OBVIOUS
<1>5. Aged(Append(ts, x)) \in Seq(Ages) /\ Len(Aged(Append(ts, x))) = Len(ts) + 1
  <2>1. Aged(Append(ts, x)) \in [1..(Len(ts) + 1) -> Ages]
    BY <1>2, <1>4 DEF Aged
  <2> QED
    BY <2>1
<1>6. \A i \in 1..(Len(ts) + 1) : Aged(Append(ts, x))[i] = IF i = Len(ts) + 1 THEN y ELSE Aged(ts)[i]
  BY <1>4 DEF Aged
<1>7. /\ Append(Aged(ts), y) \in Seq(Ages) /\ Len(Append(Aged(ts), y)) = Len(ts) + 1
      /\ Append(Aged(ts), y)[Len(ts) + 1] = y /\ \A i \in 1..Len(ts) : Append(Aged(ts), y)[i] = Aged(ts)[i]
  <2> HIDE DEF y
  <2> QED
    BY <1>2, <1>3
<1>8. Aged(Append(ts, x)) = Append(Aged(ts), y)
  <2> HIDE DEF y
  <2>1. \A i \in 1..(Len(ts) + 1) : Aged(Append(ts, x))[i] = Append(Aged(ts), y)[i]
    BY <1>6, <1>7
  <2> QED
    BY <1>5, <1>7, <2>1, SeqEqual
<1> QED
  BY <1>3, <1>8

LEMMA OlderMore ==
  ASSUME NEW ts \in Seq(Ages), NEW x \in Ages
  PROVE  /\ Older(ts) \in Seq(Nat)
         /\ Older(Append(ts, x)) = Append(Older(ts), x + 1)
<1>1. Window \in Nat \ {0}
  BY RateLimiterAssumption
<1>2. x + 1 \in Nat /\ \A a \in Ages : a + 1 \in Nat
  BY <1>1 DEF Ages
<1>3. Older(ts) \in Seq(Nat) /\ Len(Older(ts)) = Len(ts)
  <2>1. Older(ts) \in [1..Len(ts) -> Nat]
    BY <1>2 DEF Older
  <2> QED
    BY <2>1
<1>4. /\ Append(ts, x) \in Seq(Ages) /\ Len(Append(ts, x)) = Len(ts) + 1
      /\ Append(ts, x)[Len(ts) + 1] = x /\ \A i \in 1..Len(ts) : Append(ts, x)[i] = ts[i]
  OBVIOUS
<1>5. Older(Append(ts, x)) \in Seq(Nat) /\ Len(Older(Append(ts, x))) = Len(ts) + 1
  <2>1. Older(Append(ts, x)) \in [1..(Len(ts) + 1) -> Nat]
    BY <1>2, <1>4 DEF Older
  <2> QED
    BY <2>1
<1>6. \A i \in 1..(Len(ts) + 1) : Older(Append(ts, x))[i] = IF i = Len(ts) + 1 THEN x + 1 ELSE Older(ts)[i]
  BY <1>4 DEF Older
<1>7. /\ Append(Older(ts), x + 1) \in Seq(Nat) /\ Len(Append(Older(ts), x + 1)) = Len(ts) + 1
      /\ Append(Older(ts), x + 1)[Len(ts) + 1] = x + 1
      /\ \A i \in 1..Len(ts) : Append(Older(ts), x + 1)[i] = Older(ts)[i]
  BY <1>2, <1>3
<1>8. Older(Append(ts, x)) = Append(Older(ts), x + 1)
  <2>1. \A i \in 1..(Len(ts) + 1) : Older(Append(ts, x))[i] = Append(Older(ts), x + 1)[i]
    BY <1>6, <1>7
  <2> QED
    BY <1>5, <1>7, <2>1, SeqEqual
<1> QED
  BY <1>3, <1>8

(* What is recent a unit of time later is what was and still is. *)
LEMMA TimeFilters ==
  \A ts \in Seq(Ages) : Rate!Filter(Aged(ts), Young) = Older(Rate!Filter(Rate!Filter(ts, Young), Younger))
<1> DEFINE Left(ts) == Rate!Filter(Aged(ts), Young)
           Right(ts) == Older(Rate!Filter(Rate!Filter(ts, Young), Younger))
           P == {n \in Nat : \A ts \in Seq(Ages) : Len(ts) = n => Left(ts) = Right(ts)}
<1>0. Window \in Nat \ {0} /\ Young = {age \in Ages : age < Window} /\ Younger = {age \in Ages : age + 1 < Window}
  BY RateLimiterAssumption DEF Young, Younger, Ages, Rate!AfterCutoff
<1>1. 0 \in P
  <2> SUFFICES ASSUME NEW ts \in Seq(Ages), Len(ts) = 0 PROVE Left(ts) = Right(ts)
    OBVIOUS
  <2>1. ts = << >>
    OBVIOUS
  <2>2. Aged(<< >>) = << >> /\ Older(<< >>) = << >>
    BY DEF Aged, Older
  <2> QED
    BY <2>1, <2>2, FilterNone
<1>2. ASSUME NEW n \in Nat, n \in P, NEW ts \in Seq(Ages), Len(ts) = n + 1 PROVE Left(ts) = Right(ts)
  <2>1. PICK s \in Seq(Ages), x \in Ages : Len(s) = n /\ ts = Append(s, x)
    BY <1>2, LastOff
  <2>2. Left(s) = Right(s)
    BY <1>2, <2>1
  <2> DEFINE y == IF x < Window THEN x + 1 ELSE Window
             r == Rate!Filter(s, Young)
             q == Rate!Filter(r, Younger)
  <2>3. r \in Seq(Ages) /\ q \in Seq(Ages)
    <3>1. r \in Seq(Ages \intersect Young)
      BY Filtered
    <3>2. r \in Seq(Ages)
      BY <3>1
    <3>3. q \in Seq(Ages \intersect Younger)
      BY <3>2, Filtered
    <3> QED
      BY <3>2, <3>3
  <2>4. y \in Ages /\ Aged(s) \in Seq(Ages) /\ Aged(ts) = Append(Aged(s), y)
    <3>1. y \in Ages
      BY <1>0 DEF Ages
    <3> QED
      BY <2>1, <3>1, AgedMore
  <2>5. Left(ts) = IF y \in Young THEN Append(Left(s), y) ELSE Left(s)
    <3> HIDE DEF y
    <3> QED
      BY <2>4, FilterMore
  <2>6. Rate!Filter(ts, Young) = IF x \in Young THEN Append(r, x) ELSE r
    BY <2>1, FilterMore
  <2>7. Rate!Filter(Append(r, x), Younger) = IF x \in Younger THEN Append(q, x) ELSE q
    BY <2>3, FilterMore
  <2>8. Older(Append(q, x)) = Append(Older(q), x + 1)
    BY <2>3, OlderMore
  <2>9. Left(s) = Older(q)
    BY <2>2
  <2> HIDE DEF q, r
  <2>10. CASE x \in Younger
    <3>1. x \in Young /\ y = x + 1 /\ y \in Young
      BY <1>0, <2>10 DEF Ages
    <3>2. Left(ts) = Append(Older(q), x + 1)
      BY <2>5, <2>9, <3>1
    <3>3. Right(ts) = Older(Append(q, x))
      BY <2>6, <2>7, <2>10, <3>1
    <3> QED
      BY <2>8, <3>2, <3>3
  <2>11. CASE x \notin Younger
    <3>1. y \notin Young
      BY <1>0, <2>11 DEF Ages
    <3>2. Left(ts) = Older(q)
      BY <2>5, <2>9, <3>1
    <3>3. Rate!Filter(Rate!Filter(ts, Young), Younger) = q
      BY <2>6, <2>7, <2>11 DEF q
    <3> QED
      BY <3>2, <3>3
  <2> QED
    BY <2>10, <2>11
<1>3. \A n \in Nat : n \in P => n + 1 \in P
  BY <1>2
<1>4. Nat \subseteq P
  <2> HIDE DEF P
  <2> QED
    BY <1>1, <1>3, EveryLength
<1>5. \A ts \in Seq(Ages) : Left(ts) = Right(ts)
  BY <1>4
<1> QED
  BY <1>5

-------------------------------------------------------------------------------
(* The limiter.  What it keeps of a key is never more than Max; what is recent of it is
   what the promise has granted.  The filter of the promise is the same loop. *)
Granted == [k \in Keys |-> Rate!filterRecent(Rate!Timestamps(k))]

LEMMA SameFilter ==
  ASSUME NEW ts, NEW keep PROVE Rate!Promise!Filter(ts, keep) = Rate!Filter(ts, keep)
  BY DEF Rate!Promise!Filter, Rate!Filter

LEMMA RecentFacts ==
  ASSUME NEW ts \in Seq(Ages)
  PROVE  LET recent == Rate!filterRecent(ts)
         IN  /\ recent \in Seq(Ages) /\ Len(recent) \in Nat /\ Len(recent) <= Len(ts)
             /\ Rate!filterRecent(recent) = recent
             /\ Append(recent, 0) \in Seq(Ages) /\ Len(Append(recent, 0)) = Len(recent) + 1
             /\ Rate!filterRecent(Append(recent, 0)) = Append(recent, 0)
<1> DEFINE recent == Rate!filterRecent(ts)
<1>0. Window \in Nat \ {0} /\ 0 \in Young /\ Young \subseteq Ages /\ 0 \in Ages
  BY RateLimiterAssumption DEF Young, Ages, Rate!AfterCutoff
<1>1. \A s : Rate!filterRecent(s) = Rate!Filter(s, Young)
  BY DEF Rate!filterRecent, Young
<1>2. recent \in Seq(Ages \intersect Young) /\ Len(recent) <= Len(ts)
  BY <1>1, Filtered
<1>3. recent \in Seq(Ages) /\ recent \in Seq(Young) /\ Len(recent) \in Nat
  BY <1>0, <1>2
<1>4. Rate!filterRecent(recent) = recent
  <2> HIDE DEF recent
  <2> QED
    BY <1>1, <1>3, FilterAll
<1>5. /\ Append(recent, 0) \in Seq(Ages) /\ Append(recent, 0) \in Seq(Young)
      /\ Len(Append(recent, 0)) = Len(recent) + 1
  <2> HIDE DEF recent
  <2> QED
    BY <1>0, <1>3
<1>6. Rate!filterRecent(Append(recent, 0)) = Append(recent, 0)
  <2> HIDE DEF recent
  <2> QED
    BY <1>1, <1>5, FilterAll
<1> QED
  BY <1>2, <1>3, <1>4, <1>5, <1>6

LEMMA NoTimestamps == << >> \in Seq(Ages) /\ Len(<< >>) = 0 /\ Rate!filterRecent(<< >>) = << >>
  BY FilterNone DEF Rate!filterRecent

LEMMA TimestampFacts ==
  ASSUME Rate!TypeOK, NEW k \in Keys
  PROVE  Rate!Timestamps(k) \in Seq(Ages) /\ Len(Rate!Timestamps(k)) <= Max
<1>1. CASE k \in DOMAIN entries
  BY <1>1 DEF Rate!TypeOK, Rate!Timestamps, Ages
<1>2. CASE k \notin DOMAIN entries
  <2>1. 0 <= Max
    BY RateLimiterAssumption
  <2> QED
    BY <1>2, <2>1, NoTimestamps DEF Rate!Timestamps
<1> QED
  BY <1>1, <1>2

(* A request is granted or refused as the promise says. *)
LEMMA AllowKeeps ==
  ASSUME Rate!TypeOK, NEW k \in Keys, Rate!Allow(k)
  PROVE  /\ Rate!TypeOK'
         /\ \/ /\ Len(Granted[k]) < Max
               /\ Granted' = [Granted EXCEPT ![k] = Append(@, 0)]
               /\ answer' = <<k, TRUE>>
            \/ Len(Granted[k]) = Max /\ answer' = <<k, FALSE>> /\ Granted' = Granted
<1> DEFINE ts == Rate!Timestamps(k)
           recent == Rate!filterRecent(ts)
           ok == ~(Len(recent) >= Max)
           kept == IF ok THEN Append(recent, 0) ELSE recent
<1>0. Max \in Nat \ {0} /\ Window \in Nat \ {0}
  BY RateLimiterAssumption
<1>1. ts \in Seq(Ages) /\ Len(ts) <= Max /\ Len(ts) \in Nat
  BY TimestampFacts
<1>2. /\ recent \in Seq(Ages) /\ Len(recent) \in Nat /\ Len(recent) <= Len(ts)
      /\ Rate!filterRecent(recent) = recent
      /\ Append(recent, 0) \in Seq(Ages) /\ Len(Append(recent, 0)) = Len(recent) + 1
      /\ Rate!filterRecent(Append(recent, 0)) = Append(recent, 0)
  <2> HIDE DEF ts
  <2> QED
    BY <1>1, RecentFacts
<1>3. /\ entries' = [q \in DOMAIN entries \cup {k} |-> IF q = k THEN kept ELSE entries[q]]
      /\ answer' = <<k, ok>> /\ phase' = phase /\ fired' = fired
  BY DEF Rate!Allow, Rate!Full
<1>4. Granted[k] = recent
  BY DEF Granted
<1> HIDE DEF ts, recent
<1>5. kept \in Seq(Ages) /\ Len(kept) <= Max /\ Rate!filterRecent(kept) = kept
  <2>1. CASE ok
    <3>1. Len(recent) + 1 <= Max
      BY <1>0, <1>2, <2>1
    <3> QED
      BY <1>2, <2>1, <3>1
  <2>2. CASE ~ok
    <3>1. Len(recent) <= Max
      BY <1>0, <1>1, <1>2
    <3> QED
      BY <1>2, <2>2, <3>1
  <2> QED
    BY <2>1, <2>2
<1>6. Rate!TypeOK'
  <2>1. DOMAIN entries' = DOMAIN entries \cup {k}
    BY <1>3
  <2>2. \A q \in DOMAIN entries' : entries'[q] = IF q = k THEN kept ELSE entries[q]
    BY <1>3
  <2> HIDE DEF kept
  <2>3. DOMAIN entries' \subseteq Keys
    BY <2>1 DEF Rate!TypeOK
  <2>4. \A q \in DOMAIN entries' : entries'[q] \in Seq(0..Window) /\ Len(entries'[q]) <= Max
    BY <1>5, <2>1, <2>2 DEF Rate!TypeOK, Ages
  <2>5. answer' \in Keys \X BOOLEAN
    BY <1>3
  <2> QED
    BY <1>3, <2>3, <2>4, <2>5 DEF Rate!TypeOK
<1>7. ASSUME NEW q \in Keys PROVE Granted'[q] = IF q = k THEN kept ELSE Granted[q]
  <2>1. Granted'[q] = Rate!filterRecent(IF q \in DOMAIN entries' THEN entries'[q] ELSE << >>)
    BY DEF Granted, Rate!Timestamps, Rate!filterRecent, Rate!AfterCutoff
  <2>2. Granted[q] = Rate!filterRecent(IF q \in DOMAIN entries THEN entries[q] ELSE << >>)
    BY DEF Granted, Rate!Timestamps
  <2> HIDE DEF kept
  <2>3. CASE q = k
    <3>1. q \in DOMAIN entries' /\ entries'[q] = kept
      BY <1>3, <2>3
    <3> QED
      BY <1>5, <2>1, <2>3, <3>1
  <2>4. CASE q # k
    <3>1. (IF q \in DOMAIN entries' THEN entries'[q] ELSE << >>) = IF q \in DOMAIN entries THEN entries[q] ELSE << >>
      BY <1>3, <2>4
    <3> QED
      BY <2>1, <2>2, <2>4, <3>1
  <2> QED
    BY <2>3, <2>4
<1>8. Granted = [q \in Keys |-> Granted[q]] /\ Granted' = [q \in Keys |-> Granted'[q]]
  BY DEF Granted
<1>9. Granted' = [Granted EXCEPT ![k] = kept]
  <2> HIDE DEF kept
  <2> QED
    BY <1>7, <1>8
<1>10. CASE ok
  <2>1. Len(Granted[k]) < Max
    BY <1>0, <1>2, <1>4, <1>10
  <2> QED
    BY <1>3, <1>4, <1>6, <1>9, <1>10, <2>1
<1>11. CASE ~ok
  <2>1. Len(Granted[k]) = Max
    BY <1>0, <1>1, <1>2, <1>4, <1>11
  <2>2. Granted' = Granted
    BY <1>4, <1>8, <1>9, <1>11
  <2> QED
    BY <1>3, <1>6, <1>11, <2>1, <2>2
<1> QED
  BY <1>10, <1>11

(* The cleanup takes nothing away that is recent: a stutter of the promise. *)
LEMMA CleanupKeeps ==
  ASSUME Rate!TypeOK, Rate!Cleanup
  PROVE  Rate!TypeOK' /\ Granted' = Granted /\ answer' = answer
<1> DEFINE clean == [k \in DOMAIN entries |-> Rate!filterRecent(entries[k])]
           kept == {k \in DOMAIN clean : clean[k] # << >>}
<1>1. entries' = [k \in kept |-> clean[k]] /\ fired' = FALSE /\ phase' = phase /\ answer' = answer
  BY DEF Rate!Cleanup, Rate!Swept, Rate!Restrict
<1>2. DOMAIN clean = DOMAIN entries /\ \A k \in DOMAIN entries : clean[k] = Rate!filterRecent(entries[k])
  OBVIOUS
<1>3. ASSUME NEW k \in DOMAIN entries
      PROVE  /\ clean[k] \in Seq(Ages) /\ Len(clean[k]) <= Max
             /\ Rate!filterRecent(clean[k]) = clean[k]
  <2>1. entries[k] \in Seq(Ages) /\ Len(entries[k]) <= Max /\ Len(entries[k]) \in Nat
    BY DEF Rate!TypeOK, Ages
  <2> DEFINE recent == Rate!filterRecent(entries[k])
  <2>2. /\ recent \in Seq(Ages) /\ Len(recent) \in Nat /\ Len(recent) <= Len(entries[k])
        /\ Rate!filterRecent(recent) = recent
    BY <2>1, RecentFacts
  <2>3. Len(recent) <= Max
    <3> HIDE DEF recent
    <3> QED
      BY <2>1, <2>2, RateLimiterAssumption
  <2> QED
    BY <1>2, <2>2, <2>3
<1> HIDE DEF clean
<1>4. DOMAIN entries' = kept /\ kept \subseteq DOMAIN entries /\ \A k \in kept : entries'[k] = clean[k]
  BY <1>1, <1>2
<1>5. Rate!TypeOK'
  <2>1. \A k \in DOMAIN entries' : entries'[k] \in Seq(0..Window) /\ Len(entries'[k]) <= Max
    BY <1>3, <1>4 DEF Ages
  <2>2. DOMAIN entries' \subseteq Keys
    BY <1>4 DEF Rate!TypeOK
  <2> QED
    BY <1>1, <2>1, <2>2 DEF Rate!TypeOK
<1>6. ASSUME NEW q \in Keys PROVE Granted'[q] = Granted[q]
  <2>1. Granted'[q] = Rate!filterRecent(IF q \in DOMAIN entries' THEN entries'[q] ELSE << >>)
    BY DEF Granted, Rate!Timestamps, Rate!filterRecent, Rate!AfterCutoff
  <2>2. Granted[q] = Rate!filterRecent(IF q \in DOMAIN entries THEN entries[q] ELSE << >>)
    BY DEF Granted, Rate!Timestamps
  <2>3. CASE q \in DOMAIN entries
    <3>1. Granted[q] = clean[q]
      BY <1>2, <2>2, <2>3
    <3>2. CASE q \in kept
      BY <1>3, <1>4, <2>1, <2>3, <3>1, <3>2
    <3>3. CASE q \notin kept
      <4>1. clean[q] = << >>
        BY <1>2, <2>3, <3>3
      <4> QED
        BY <1>4, <2>1, <3>1, <3>3, <4>1, NoTimestamps
    <3> QED
      BY <3>2, <3>3
  <2>4. CASE q \notin DOMAIN entries
    BY <1>4, <2>1, <2>2, <2>4
  <2> QED
    BY <2>3, <2>4
<1>7. Granted = [q \in Keys |-> Granted[q]] /\ Granted' = [q \in Keys |-> Granted'[q]]
  BY DEF Granted
<1>8. Granted' = Granted
  BY <1>6, <1>7
<1> QED
  BY <1>1, <1>5, <1>8

(* Time makes old for the limiter what it makes old for the promise. *)
LEMMA TickKeeps ==
  ASSUME Rate!TypeOK, Rate!Tick
  PROVE  Rate!TypeOK' /\ Granted' = [k \in Keys |-> Older(Rate!Filter(Granted[k], Younger))] /\ answer' = answer
<1>0. Window \in Nat \ {0}
  BY RateLimiterAssumption
<1>1. entries' = [k \in DOMAIN entries |-> Aged(entries[k])] /\ answer' = answer
  BY DEF Rate!Tick, Aged
<1>2. DOMAIN entries' = DOMAIN entries /\ \A k \in DOMAIN entries : entries'[k] = Aged(entries[k])
  BY <1>1
<1>3. ASSUME NEW k \in DOMAIN entries PROVE entries'[k] \in Seq(Ages) /\ Len(entries'[k]) <= Max
  <2>1. entries[k] \in Seq(Ages) /\ Len(entries[k]) <= Max
    BY DEF Rate!TypeOK, Ages
  <2>2. \A a \in Ages : (IF a < Window THEN a + 1 ELSE Window) \in Ages
    BY <1>0 DEF Ages
  <2>3. Aged(entries[k]) \in [1..Len(entries[k]) -> Ages] /\ Len(entries[k]) \in Nat
    BY <2>1, <2>2 DEF Aged
  <2>4. Aged(entries[k]) \in Seq(Ages) /\ Len(Aged(entries[k])) = Len(entries[k])
    BY <2>3
  <2> QED
    BY <1>2, <2>1, <2>4
<1>4. phase' \in 0..(Window - 1) /\ fired' \in BOOLEAN
  <2>1. phase \in Nat /\ phase' = (phase + 1) % Window
    BY <1>0 DEF Rate!TypeOK, Rate!Tick
  <2>2. fired' = (fired \/ phase' = 0) /\ fired \in BOOLEAN
    BY DEF Rate!TypeOK, Rate!Tick
  <2> QED
    BY <1>0, <2>1, <2>2
<1>5. Rate!TypeOK'
  BY <1>1, <1>2, <1>3, <1>4 DEF Rate!TypeOK, Ages
<1>6. ASSUME NEW q \in Keys PROVE Granted'[q] = Older(Rate!Filter(Granted[q], Younger))
  <2>1. Granted'[q] = Rate!filterRecent(IF q \in DOMAIN entries' THEN entries'[q] ELSE << >>)
    BY DEF Granted, Rate!Timestamps, Rate!filterRecent, Rate!AfterCutoff
  <2>2. Granted[q] = Rate!filterRecent(IF q \in DOMAIN entries THEN entries[q] ELSE << >>)
    BY DEF Granted, Rate!Timestamps
  <2>3. \A s : Rate!filterRecent(s) = Rate!Filter(s, Young)
    BY DEF Rate!filterRecent, Young
  <2>4. CASE q \in DOMAIN entries
    <3>1. entries[q] \in Seq(Ages)
      BY <2>4 DEF Rate!TypeOK, Ages
    <3>2. Granted'[q] = Rate!Filter(Aged(entries[q]), Young) /\ Granted[q] = Rate!Filter(entries[q], Young)
      BY <1>2, <2>1, <2>2, <2>3, <2>4
    <3> QED
      BY <3>1, <3>2, TimeFilters
  <2>5. CASE q \notin DOMAIN entries
    <3>1. Granted'[q] = << >> /\ Granted[q] = << >>
      BY <1>2, <2>1, <2>2, <2>5, NoTimestamps
    <3>2. Older(<< >>) = << >>
      BY DEF Older
    <3> QED
      BY <3>1, <3>2, FilterNone
  <2> QED
    BY <2>4, <2>5
<1>7. Granted' = [q \in Keys |-> Granted'[q]]
  BY DEF Granted
<1>8. Granted' = [k \in Keys |-> Older(Rate!Filter(Granted[k], Younger))]
  BY <1>6, <1>7
<1> QED
  BY <1>1, <1>5, <1>8

(* Every step of the limiter is one of the promise, or none. *)
LEMMA LimiterStep ==
  ASSUME Rate!TypeOK, [Rate!Next]_(Rate!vars)
  PROVE  Rate!TypeOK' /\ [Rate!Promise!Next]_<<Granted, answer>>
<1>1. CASE UNCHANGED Rate!vars
  <2>1. Granted' = Granted
    BY <1>1 DEF Rate!vars, Granted, Rate!Timestamps, Rate!filterRecent, Rate!AfterCutoff
  <2> QED
    BY <1>1, <2>1 DEF Rate!vars, Rate!TypeOK
<1>2. CASE Rate!Cleanup
  BY <1>2, CleanupKeeps
<1>3. CASE Rate!Tick
  <2>1. /\ Rate!TypeOK' /\ answer' = answer
        /\ Granted' = [k \in Keys |-> Older(Rate!Filter(Granted[k], Younger))]
    BY <1>3, TickKeeps
  <2>2. Rate!Promise!Tick
    BY <2>1, SameFilter DEF Rate!Promise!Tick, Older, Younger, Granted
  <2> QED
    BY <2>1, <2>2 DEF Rate!Promise!Next
<1>4. ASSUME NEW k \in Keys, Rate!Allow(k) PROVE Rate!TypeOK' /\ [Rate!Promise!Next]_<<Granted, answer>>
  <2>1. /\ Rate!TypeOK'
        /\ \/ /\ Len(Granted[k]) < Max
              /\ Granted' = [Granted EXCEPT ![k] = Append(@, 0)]
              /\ answer' = <<k, TRUE>>
           \/ Len(Granted[k]) = Max /\ answer' = <<k, FALSE>> /\ Granted' = Granted
    BY <1>4, AllowKeeps
  <2>2. Rate!Promise!Grant(k) \/ Rate!Promise!Refuse(k)
    BY <2>1 DEF Rate!Promise!Grant, Rate!Promise!Refuse, Granted
  <2> QED
    BY <2>1, <2>2 DEF Rate!Promise!Next
<1> QED
  BY <1>1, <1>2, <1>3, <1>4 DEF Rate!Next

LEMMA LimiterInit == Rate!Init => Rate!TypeOK /\ Rate!Promise!Init
<1> SUFFICES ASSUME Rate!Init PROVE Rate!TypeOK /\ Rate!Promise!Init
  OBVIOUS
<1>1. entries = << >> /\ phase = 0 /\ fired = FALSE /\ answer = << >>
  BY DEF Rate!Init
<1>2. DOMAIN entries = {} /\ 0 \in 0..(Window - 1)
  BY <1>1, RateLimiterAssumption
<1>3. \A k \in Keys : Rate!filterRecent(Rate!Timestamps(k)) = << >>
  BY <1>2, NoTimestamps DEF Rate!Timestamps
<1> QED
  BY <1>1, <1>2, <1>3 DEF Rate!TypeOK, Rate!Promise!Init

-------------------------------------------------------------------------------

-------------------------------------------------------------------------------
(***************************************************************************)
(* What runs in memory as a whole: a step is one of each part, or leaves   *)
(* it alone, so the invariant of each part holds in every focus.           *)
(***************************************************************************)
RuntimeInv == HubInv /\ Rate!TypeOK /\ ProcessInv

LEMMA RuntimeStep ==
  [RuntimeNext]_runtimeVars => [Next]_vars /\ [Rate!Next]_(Rate!vars) /\ [ProcessNext]_processVars
<1> SUFFICES ASSUME [RuntimeNext]_runtimeVars
             PROVE  [Next]_vars /\ [Rate!Next]_(Rate!vars) /\ [ProcessNext]_processVars
  OBVIOUS
<1>1. CASE UNCHANGED runtimeVars
  BY <1>1 DEF runtimeVars, limiterVars, Rate!vars
<1>2. CASE RuntimeNext
  BY <1>2 DEF RuntimeNext, limiterVars, Rate!vars
<1> QED
  BY <1>1, <1>2

LEMMA RuntimeHolds == RuntimeSpec => []RuntimeInv
<1>1. RuntimeInit => RuntimeInv
  BY HubInit, LimiterInit, ProcessInitInv DEF RuntimeInit, RuntimeInv
<1>2. RuntimeInv /\ [RuntimeNext]_runtimeVars => RuntimeInv'
  BY RuntimeStep, HubStep, LimiterStep, ProcessStepInv DEF RuntimeInv
<1> QED
  BY <1>1, <1>2, PTL DEF RuntimeSpec

(* Every variable of the hub, the limiter and the process has its type: a limiter never
   keeps more timestamps of a key than its limit (ratelimit.go: 74-90). *)
THEOREM RuntimeTypesCorrect == RuntimeSpec => []RuntimeTypeOK
<1>1. RuntimeInv => RuntimeTypeOK
  BY ProcessTypes DEF RuntimeInv, HubInv, RuntimeTypeOK
<1> QED
  BY <1>1, RuntimeHolds, PTL

(* What the hub and the process promise holds where they run beside one another and
   beside the limiter, as in the server (hub.go, main.go). *)
THEOREM RuntimeIsSafe == RuntimeSpec => [](NoSendOnClosed /\ LossIsExplained /\ CleanExit)
<1>1. HubInv => NoSendOnClosed /\ LossIsExplained
  BY MissedForAReason DEF HubInv, CastOK, ClosedAreGone, ClientsAreThere, NoSendOnClosed
<1>2. ProcessInv => CleanExit
  BY ExitIsClean
<1> QED
  BY <1>1, <1>2, RuntimeHolds, PTL DEF RuntimeInv

(* RateLimiter.Allow and cleanup (ratelimit.go: 42-90): the limiter implements SlidingWindow,
   granting a request exactly when fewer than Max were granted during the last Window. *)
THEOREM LimiterKeepsPromise == RuntimeSpec => WindowKept
<1>1. RuntimeInit => Rate!Promise!Init
  BY LimiterInit DEF RuntimeInit
<1>2. RuntimeInv /\ [RuntimeNext]_runtimeVars
        => [Rate!Promise!Next]_<<[k \in Keys |-> Rate!filterRecent(Rate!Timestamps(k))], answer>>
  BY RuntimeStep, LimiterStep DEF RuntimeInv, Granted
<1> QED
  BY <1>1, <1>2, RuntimeHolds, PTL DEF RuntimeSpec, WindowKept, Rate!WindowKept, Rate!Promise!Spec
===============================================================================
