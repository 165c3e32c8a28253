------------------------------ MODULE MailsProofs ------------------------------
(***************************************************************************)
(* What every step keeps of Mails, for any orders, PATCH requests, forms   *)
(* and failing calls: MailInv.  It follows each message from the request   *)
(* that decides on it to the one call that hands it over: a confirmation   *)
(* (Confirmed), the messages that an order is shipped with the requests    *)
(* about to send one (Shipped), the answer to a form (Answered).           *)
(* SalesProofs states the result for the behaviours of the whole.          *)
(***************************************************************************)
EXTENDS Mails, FiniteSetTheorems, TLAPS

(* The types of the state. *)
Tasks == Bought \union Patches \union Submissions
Stages == {"none", "pending", "shipped", "cancelled"}
TaskState ==
  [at : {"new", "create", "after", "write", "send", "done"}, status : Stages, address : {"none", "order"},
   known : BOOLEAN, cut : BOOLEAN, order : Bought \union {"none"}]
Row == [status : Stages, address : {"none", "order"}, known : BOOLEAN]

Typed ==
  /\ mailer \in BOOLEAN /\ enabled \in BOOLEAN /\ account \in BOOLEAN
  /\ bought \in [Bought -> Row]
  /\ proofs \subseteq Submissions
  /\ task \in [Tasks -> TaskState]
  /\ outbox \subseteq Mailable
  /\ sent \in [Mailable -> Nat]
  /\ shipments \in [Bought -> Nat] /\ crossed \in [Bought -> Nat]
  /\ forms \in 0..MaxForms

(* An order is in the table from the end of its checkout's insert, and its confirmation
   is on its way, handed over or given up afterwards. *)
Confirmed(o) ==
  LET at == task[o].at
      placed == bought[o].status # "none"
      queued == <<"confirmed", o>> \in outbox
      told == sent[<<"confirmed", o>>]
  IN  /\ at \in {"new", "create", "after", "done"}
      /\ told \in {0, 1}
      /\ at \in {"new", "create"} => ~placed
      /\ at = "after" => placed
      /\ queued => placed /\ at = "done"
      /\ told = 1 => placed /\ ~queued /\ at = "done"
      /\ mailer /\ mailFaults = 0 /\ placed /\ o \notin muted /\ ~queued /\ at = "done" => told = 1

(* A form that was stored is answered, or its answer is on its way. *)
Answered(f) ==
  LET at == task[f].at
      queued == <<"consent", f>> \in outbox
      told == sent[<<"consent", f>>]
  IN  /\ told \in {0, 1}
      /\ f \in proofs => at = "done"
      /\ queued => f \in proofs
      /\ told = 1 => f \in proofs /\ ~queued
      /\ mailer /\ mailFaults = 0 /\ f \in proofs /\ ~queued => told = 1

(* Each request that is about to say so has shipped the order or crossed who did. *)
Sending(o) == {p \in Patches : task[p].at = "send" /\ task[p].order = o}
Shipped(o) == sent[<<"shipped", o>>] + Cardinality(Sending(o)) <= shipments[o] + crossed[o]

(* A PATCH is of an order that is in the table. *)
Reading(p) == task[p].at \in {"write", "send"} => task[p].order \in Bought /\ bought[task[p].order].status # "none"

(* The inductive invariant. *)
MailInv ==
  /\ Typed
  /\ \A o \in Bought : Confirmed(o) /\ Shipped(o)
  /\ \A f \in Submissions : Answered(f)
  /\ \A p \in Patches : Reading(p)

-----------------------------------------------------------------------------
(* The requests about to send are finitely many. *)
LEMMA FewSend ==
  ASSUME MailAssumption, NEW o
  PROVE  IsFiniteSet(Sending(o)) /\ Cardinality(Sending(o)) \in Nat
<1>1. Sending(o) \subseteq Patches
  BY DEF Sending
<1> QED
  BY <1>1, FS_Subset, FS_CardinalityType DEF MailAssumption

(* A confirmation is left alone by a step that does not move its order. *)
LEMMA ConfirmedKept ==
  ASSUME NEW o \in Bought, Confirmed(o), mailer' = mailer, mailFaults' = 0 => mailFaults = 0,
         task'[o].at = task[o].at, bought'[o].status = "none" <=> bought[o].status = "none",
         <<"confirmed", o>> \in outbox' <=> <<"confirmed", o>> \in outbox,
         sent'[<<"confirmed", o>>] = sent[<<"confirmed", o>>],
         o \in muted => o \in muted'
  PROVE  Confirmed(o)'
  BY DEF Confirmed

(* So is an answer, *)
LEMMA AnsweredKept ==
  ASSUME NEW f \in Submissions, Answered(f), mailer' = mailer, mailFaults' = 0 => mailFaults = 0,
         task'[f].at = task[f].at, f \in proofs' <=> f \in proofs,
         <<"consent", f>> \in outbox' <=> <<"consent", f>> \in outbox,
         sent'[<<"consent", f>>] = sent[<<"consent", f>>]
  PROVE  Answered(f)'
  BY DEF Answered

(* and the messages that an order is shipped, *)
LEMMA ShippedKept ==
  ASSUME MailAssumption, Typed, NEW o \in Bought, Shipped(o), Sending(o)' \subseteq Sending(o),
         sent'[<<"shipped", o>>] = sent[<<"shipped", o>>],
         shipments'[o] \in Nat, crossed'[o] \in Nat, shipments'[o] >= shipments[o], crossed'[o] >= crossed[o]
  PROVE  Shipped(o)'
<1>1. Cardinality(Sending(o)') <= Cardinality(Sending(o))
  BY FewSend, FS_Subset
<1>2. /\ Cardinality(Sending(o)) \in Nat /\ Cardinality(Sending(o)') \in Nat
      /\ sent[<<"shipped", o>>] \in Nat /\ shipments[o] \in Nat /\ crossed[o] \in Nat
  <2>1. <<"shipped", o>> \in Mailable
    BY DEF Mailable
  <2>2. IsFiniteSet(Sending(o)')
    BY FewSend, FS_Subset
  <2> QED
    BY <2>1, <2>2, FewSend, FS_CardinalityType DEF Typed
<1> QED
  BY <1>1, <1>2 DEF Shipped

(* and what a PATCH has read. *)
LEMMA ReadingKept ==
  ASSUME NEW p \in Patches, Reading(p), task'[p].at = task[p].at \/ task'[p].at \notin {"write", "send"},
         task'[p].order = task[p].order,
         \A o \in Bought : bought[o].status # "none" => bought'[o].status # "none"
  PROVE  Reading(p)'
  BY DEF Reading

(* A request that goes on changes nothing of the others. *)
LEMMA Moves ==
  ASSUME Typed, NEW r \in Tasks, NEW step \in {"new", "create", "after", "write", "send", "done"}, At(r, step)
  PROVE  /\ task' \in [Tasks -> TaskState] /\ task'[r].at = step /\ task'[r].order = task[r].order
         /\ \A q \in Tasks \ {r} : task'[q] = task[q]
<1> DEFINE new == [task[r] EXCEPT !.at = step]
<1>1. task' = [task EXCEPT ![r] = new] /\ task[r] \in TaskState
  BY DEF At, Typed
<1>2. new \in TaskState /\ new.at = step /\ new.order = task[r].order
  BY <1>1 DEF TaskState
<1> HIDE DEF new
<1> QED
  BY <1>1, <1>2 DEF Typed

(* A message that is handed over counts one more. *)
LEMMA Hands ==
  ASSUME Typed, NEW m \in Mailable, Hand(m)
  PROVE  sent' \in [Mailable -> Nat] /\ sent'[m] = sent[m] + 1 /\ \A n \in Mailable \ {m} : sent'[n] = sent[n]
  BY DEF Typed, Hand

(* Who is who, and what may be mailed. *)
LEMMA Names ==
  ASSUME MailAssumption
  PROVE  /\ \A o \in Bought : /\ o \in Tasks /\ o \notin Patches /\ o \notin Submissions
                              /\ <<"confirmed", o>> \in Mailable /\ <<"shipped", o>> \in Mailable
         /\ \A p \in Patches : p \in Tasks /\ p \notin Bought /\ p \notin Submissions
         /\ \A f \in Submissions : /\ f \in Tasks /\ f \notin Bought /\ f \notin Patches
                                   /\ <<"consent", f>> \in Mailable
  BY DEF MailAssumption, Tasks, Mailable, Submissions

-----------------------------------------------------------------------------
(* A step that leaves the messages to the requests: one of them moves on, where it is
   no checkout that ends. *)
LEMMA Keeps ==
  ASSUME MailAssumption, MailInv, NEW r \in Tasks,
         \A q \in Tasks \ {r} : task'[q] = task[q],
         r \in Bought => Confirmed(r)',
         r \in Patches => /\ Reading(r)'
                          /\ task'[r].at = "send" => task[r].at = "send" /\ task'[r].order = task[r].order,
         r \in Submissions => Answered(r)',
         Typed',
         mailer' = mailer, mailFaults' = 0 => mailFaults = 0,
         \A f \in Submissions : f # r => /\ f \in proofs' <=> f \in proofs
                                         /\ <<"consent", f>> \in outbox' <=> <<"consent", f>> \in outbox,
         \A o \in Bought : /\ o # r => bought'[o].status = "none" <=> bought[o].status = "none"
                           /\ bought[o].status # "none" => bought'[o].status # "none"
                           /\ o # r => <<"confirmed", o>> \in outbox' <=> <<"confirmed", o>> \in outbox,
         sent' = sent, muted \subseteq muted',
         \A o \in Bought : shipments'[o] >= shipments[o] /\ crossed'[o] >= crossed[o]
  PROVE  MailInv'
<1>1. ASSUME NEW o \in Bought PROVE Confirmed(o)'
  BY <1>1, Names, ConfirmedKept DEF MailInv
<1>2. ASSUME NEW f \in Submissions PROVE Answered(f)'
  BY <1>2, Names, AnsweredKept DEF MailInv
<1>3. ASSUME NEW o \in Bought PROVE Shipped(o)'
  <2>1. Sending(o)' \subseteq Sending(o)
    BY Names DEF Sending
  <2>2. shipments'[o] \in Nat /\ crossed'[o] \in Nat
    BY DEF Typed
  <2> QED
    BY <2>1, <2>2, ShippedKept DEF MailInv
<1>4. ASSUME NEW p \in Patches PROVE Reading(p)'
  BY <1>4, Names, ReadingKept DEF MailInv
<1> QED
  BY <1>1, <1>2, <1>3, <1>4 DEF MailInv

(* enrichShippingEmail and Create (order_service.go:266-388): the order is in the
   table when its request goes on to its confirmation, and maybe when it fails. *)
LEMMA Enrich ==
  ASSUME MailAssumption, MailInv, NEW o \in Bought, NEW given \in BOOLEAN, NEW known \in BOOLEAN,
         mailFaults \in Nat, enrichShippingEmail(o, given, known)
  PROVE  MailInv'
<1>0. /\ task \in [Tasks -> TaskState] /\ o \in Tasks /\ task[o] \in TaskState /\ task[o].at = "new"
      /\ UNCHANGED <<tables, outbox, sent, past, forms>>
  BY Names DEF MailInv, Typed, enrichShippingEmail
<1>1. PICK address \in {"none", "order"} :
        task' = [task EXCEPT ![o] = [task[o] EXCEPT !.at = "create", !.known = known, !.address = address]]
  <2>1. [task[o] EXCEPT !.at = "create", !.known = known]
          = [task[o] EXCEPT !.at = "create", !.known = known, !.address = task[o].address]
    BY <1>0 DEF TaskState
  <2>2. task[o].address \in {"none", "order"}
    BY <1>0 DEF TaskState
  <2> QED
    BY <2>1, <2>2 DEF enrichShippingEmail
<1> DEFINE new == [task[o] EXCEPT !.at = "create", !.known = known, !.address = address]
<1>2. new \in TaskState /\ new.at = "create"
  BY <1>0 DEF TaskState
<1>3. task' = [task EXCEPT ![o] = new]
  BY <1>1
<1> HIDE DEF new
<1>4. task' \in [Tasks -> TaskState] /\ task'[o].at = "create" /\ \A q \in Tasks \ {o} : task'[q] = task[q]
  BY <1>0, <1>2, <1>3
<1>5. Typed' /\ UNCHANGED <<mailer, bought, proofs, outbox, sent, muted, shipments, crossed>>
  BY <1>0, <1>4 DEF MailInv, Typed, tables, past
<1>6. mailFaults' = 0 => mailFaults = 0
  BY DEF enrichShippingEmail, Works, Fails
<1>7. Confirmed(o)'
  BY <1>0, <1>4, <1>5, <1>6 DEF MailInv, Confirmed
<1>8. muted \subseteq muted' /\ \A q \in Bought : shipments'[q] >= shipments[q] /\ crossed'[q] >= crossed[q]
  BY <1>5 DEF MailInv, Typed
<1>9. o \notin Patches /\ o \notin Submissions
  BY Names
<1> QED
  BY <1>0, <1>4, <1>5, <1>6, <1>7, <1>8, <1>9, Keeps

LEMMA Creates ==
  ASSUME MailAssumption, MailInv, NEW o \in Bought, mailFaults \in Nat, Create(o)
  PROVE  MailInv'
<1>0. /\ task[o].at = "create" /\ o \in Tasks /\ UNCHANGED <<mailer, enabled, account, proofs, outbox, sent, past, forms>>
      /\ bought \in [Bought -> Row] /\ bought[o].status = "none"
  BY Names DEF MailInv, Typed, Create, Confirmed
<1>1. bought' \in [Bought -> Row] /\ \A q \in Bought \ {o} : bought'[q] = bought[q]
  <2>1. [status |-> "pending", address |-> task[o].address, known |-> task[o].known] \in Row
    BY <1>0 DEF MailInv, Typed, TaskState, Row, Stages
  <2> QED
    BY <1>0, <2>1 DEF Create, Placed
<1>2. /\ task' \in [Tasks -> TaskState] /\ \A q \in Tasks \ {o} : task'[q] = task[q]
      /\ task'[o].at \in {"after", "done"}
      /\ task'[o].at = "after" => bought'[o].status # "none" /\ mailFaults' = mailFaults
      /\ task'[o].at = "done" => mailFaults' = mailFaults + 1
  BY <1>0, Moves DEF MailInv, Create, Works, Fails, Placed
<1>3. mailFaults' = 0 => mailFaults = 0 /\ task'[o].at = "after"
  BY <1>2
<1>4. Typed' /\ UNCHANGED <<mailer, proofs, outbox, sent, muted, shipments, crossed>>
  BY <1>0, <1>1, <1>2 DEF MailInv, Typed, past
<1>5. Confirmed(o)'
  BY <1>0, <1>2, <1>3, <1>4 DEF MailInv, Confirmed
<1>8. muted \subseteq muted' /\ \A q \in Bought : shipments'[q] >= shipments[q] /\ crossed'[q] >= crossed[q]
  BY <1>4 DEF MailInv, Typed
<1>9. o \notin Patches /\ o \notin Submissions
  BY Names
<1> QED
  BY <1>0, <1>1, <1>2, <1>3, <1>4, <1>5, <1>8, <1>9, Keeps

(* afterOrderCreated: the confirmation is on its way, or the settings forbid it. *)
LEMMA Queues ==
  ASSUME MailAssumption, MailInv, NEW o \in Bought, mailFaults \in Nat, afterOrderCreated(o)
  PROVE  MailInv'
<1> DEFINE m == <<"confirmed", o>>
<1>0. /\ task[o].at = "after" /\ At(o, "done") /\ o \in Tasks /\ m \in Mailable
      /\ UNCHANGED <<tables, sent, shipments, crossed, forms>>
      /\ mailFaults' = 0 => mailFaults = 0
      /\ \/ outbox' = outbox \union {m} /\ muted' = muted
         \/ muted' = muted \union {o} /\ outbox' = outbox
  <2>1. o \in Tasks /\ m \in Mailable
    BY Names
  <2>2. mailFaults' = 0 => mailFaults = 0
    BY DEF afterOrderCreated, Works, Fails
  <2>3. (outbox' = outbox \union {m} /\ muted' = muted) \/ (muted' = muted \union {o} /\ outbox' = outbox)
    BY DEF afterOrderCreated
  <2> QED
    BY <2>1, <2>2, <2>3 DEF afterOrderCreated
<1>1. task' \in [Tasks -> TaskState] /\ task'[o].at = "done" /\ \A q \in Tasks \ {o} : task'[q] = task[q]
  BY <1>0, Moves DEF MailInv
<1>2. Typed'
  BY <1>0, <1>1 DEF MailInv, Typed, tables
<1>3. Confirmed(o)'
  BY <1>0, <1>1 DEF MailInv, Confirmed, tables
<1>8. muted \subseteq muted' /\ \A q \in Bought : shipments'[q] >= shipments[q] /\ crossed'[q] >= crossed[q]
  BY <1>0 DEF MailInv, Typed
<1>9. o \notin Patches /\ o \notin Submissions
  BY Names
<1>10. /\ \A q \in Bought \ {o} : <<"confirmed", q>> \in outbox' <=> <<"confirmed", q>> \in outbox
       /\ \A f \in Submissions : <<"consent", f>> \in outbox' <=> <<"consent", f>> \in outbox
  BY <1>0
<1> QED
  BY <1>0, <1>1, <1>2, <1>3, <1>8, <1>9, <1>10, Keeps DEF tables
(* A goroutine hands its message over, once, or gives it up; no request moves. *)
LEMMA Confirms ==
  ASSUME MailAssumption, MailInv, NEW o \in Bought, mailFaults \in Nat, sendOrderConfirmationEmail(o)
  PROVE  MailInv'
<1> DEFINE m == <<"confirmed", o>>
<1>0. /\ m \in outbox /\ outbox' = outbox \ {m} /\ m \in Mailable
      /\ UNCHANGED <<tables, task, shipments, crossed, forms>>
      /\ mailFaults' = 0 => mailFaults = 0
      /\ \/ Hand(m) /\ muted' = muted
         \/ sent' = sent /\ muted' = muted \union {o}
         \/ sent' = sent /\ muted' = muted /\ (~mailer \/ mailFaults' # 0)
  <2>1. m \in Mailable
    BY Names
  <2>2. mailFaults' = 0 => mailFaults = 0
    BY DEF sendOrderConfirmationEmail, Works, Fails
  <2>3. \/ Hand(m) /\ muted' = muted
        \/ sent' = sent /\ muted' = muted \union {o}
        \/ sent' = sent /\ muted' = muted /\ (~mailer \/ mailFaults' # 0)
    BY DEF sendOrderConfirmationEmail, Fails
  <2> QED
    BY <2>1, <2>2, <2>3 DEF sendOrderConfirmationEmail
<1>1. /\ sent' \in [Mailable -> Nat] /\ \A n \in Mailable \ {m} : sent'[n] = sent[n]
      /\ \/ sent'[m] = sent[m] + 1 /\ muted' = muted
         \/ sent'[m] = sent[m] /\ (o \in muted' \/ ~mailer \/ mailFaults' # 0)
  BY <1>0, Hands DEF MailInv, Typed
<1>2. Typed' /\ muted \subseteq muted'
  BY <1>0, <1>1 DEF MailInv, Typed, tables
<1>3. Confirmed(o)'
  <2>1. sent[m] = 0 /\ bought[o].status # "none" /\ task[o].at = "done" /\ m \notin outbox'
    BY <1>0 DEF MailInv, Confirmed
  <2> QED
    BY <1>0, <1>1, <2>1 DEF Confirmed, tables
<1>4. ASSUME NEW q \in Bought \ {o} PROVE Confirmed(q)'
  <2>1. <<"confirmed", q>> # m /\ <<"confirmed", q>> \in Mailable
    BY Names
  <2>2. q \in muted => q \in muted'
    BY <1>2
  <2> QED
    BY <1>0, <1>1, <2>1, <2>2, ConfirmedKept DEF MailInv, tables
<1>5. ASSUME NEW q \in Bought PROVE Shipped(q)'
  <2>1. <<"shipped", q>> # m /\ <<"shipped", q>> \in Mailable
    BY Names
  <2>2. /\ Sending(q)' = Sending(q) /\ shipments'[q] >= shipments[q] /\ crossed'[q] >= crossed[q]
        /\ shipments'[q] \in Nat /\ crossed'[q] \in Nat
    BY <1>0 DEF Sending, MailInv, Typed
  <2> QED
    BY <1>1, <2>1, <2>2, ShippedKept DEF MailInv
<1>6. ASSUME NEW f \in Submissions PROVE Answered(f)'
  <2>1. <<"consent", f>> # m /\ <<"consent", f>> \in Mailable
    BY Names
  <2> QED
    BY <1>0, <1>1, <2>1, AnsweredKept DEF MailInv, tables
<1>7. \A p \in Patches : Reading(p)'
  BY <1>0 DEF MailInv, Reading, tables
<1> QED
  BY <1>2, <1>3, <1>4, <1>5, <1>6, <1>7 DEF MailInv

(* So for the messages about the forms (consent_service.go:71-130). *)
LEMMA Answers ==
  ASSUME MailAssumption, MailInv, NEW f \in Submissions, mailFaults \in Nat,
         sendContactNotification(f) \/ sendNewsletterWelcome(f)
  PROVE  MailInv'
<1> DEFINE m == <<"consent", f>>
<1>0. /\ m \in outbox /\ outbox' = outbox \ {m} /\ m \in Mailable
      /\ UNCHANGED <<tables, task, past, forms>>
      /\ mailFaults' = 0 => mailFaults = 0
      /\ Hand(m) \/ (sent' = sent /\ (~mailer \/ mailFaults' # 0))
  <2>1. m \in Mailable
    BY Names
  <2>2. mailFaults' = 0 => mailFaults = 0
    BY DEF sendContactNotification, sendNewsletterWelcome, Works, Fails
  <2>3. Hand(m) \/ (sent' = sent /\ (~mailer \/ mailFaults' # 0))
    BY DEF sendContactNotification, sendNewsletterWelcome, Fails
  <2> QED
    BY <2>1, <2>2, <2>3 DEF sendContactNotification, sendNewsletterWelcome
<1>1. /\ sent' \in [Mailable -> Nat] /\ \A n \in Mailable \ {m} : sent'[n] = sent[n]
      /\ sent'[m] = sent[m] + 1 \/ (sent'[m] = sent[m] /\ (~mailer \/ mailFaults' # 0))
  BY <1>0, Hands DEF MailInv, Typed
<1>2. Typed' /\ muted' = muted
  BY <1>0, <1>1 DEF MailInv, Typed, tables, past
<1>3. Answered(f)'
  <2>1. sent[m] = 0 /\ f \in proofs /\ task[f].at = "done" /\ m \notin outbox'
    BY <1>0 DEF MailInv, Answered
  <2> QED
    BY <1>0, <1>1, <2>1 DEF Answered, tables
<1>4. ASSUME NEW o \in Bought PROVE Confirmed(o)'
  <2>1. <<"confirmed", o>> # m /\ <<"confirmed", o>> \in Mailable
    BY Names
  <2> QED
    BY <1>0, <1>1, <1>2, <2>1, ConfirmedKept DEF MailInv, tables
<1>5. ASSUME NEW o \in Bought PROVE Shipped(o)'
  <2>1. <<"shipped", o>> # m /\ <<"shipped", o>> \in Mailable
    BY Names
  <2>2. /\ Sending(o)' = Sending(o) /\ shipments'[o] >= shipments[o] /\ crossed'[o] >= crossed[o]
        /\ shipments'[o] \in Nat /\ crossed'[o] \in Nat
    BY <1>0 DEF Sending, MailInv, Typed, past
  <2> QED
    BY <1>1, <2>1, <2>2, ShippedKept DEF MailInv
<1>6. ASSUME NEW g \in Submissions \ {f} PROVE Answered(g)'
  <2>1. <<"consent", g>> # m /\ <<"consent", g>> \in Mailable
    BY Names
  <2> QED
    BY <1>0, <1>1, <2>1, AnsweredKept DEF MailInv, tables
<1>7. \A p \in Patches : Reading(p)'
  BY <1>0 DEF MailInv, Reading, tables
<1> QED
  BY <1>2, <1>3, <1>4, <1>5, <1>6, <1>7 DEF MailInv

(* Submit: the proof is stored and its answer queued in one step. *)
LEMMA Submits ==
  ASSUME MailAssumption, MailInv, NEW f \in Submissions, mailFaults \in Nat,
         SubmitContact(f) \/ SubscribeNewsletter(f)
  PROVE  MailInv'
<1> DEFINE m == <<"consent", f>>
<1>0. /\ task[f].at = "new" /\ At(f, "done") /\ m \in Mailable /\ f \in Tasks /\ f \notin Bought /\ f \notin Patches
      /\ UNCHANGED <<mailer, enabled, account, bought, sent, past, forms>>
      /\ mailFaults' = 0 => mailFaults = 0
      /\ \/ proofs' = proofs \union {f} /\ outbox' = outbox \union {m}
         \/ proofs' = proofs /\ outbox' = outbox
  <2>1. Submit(f)
    BY DEF SubmitContact, SubscribeNewsletter
  <2>2. m \in Mailable /\ f \in Tasks /\ f \notin Bought /\ f \notin Patches
    BY Names
  <2>3. mailFaults' = 0 => mailFaults = 0
    BY <2>1 DEF Submit, Works, Fails
  <2> QED
    BY <2>1, <2>2, <2>3 DEF Submit
<1>1. task' \in [Tasks -> TaskState] /\ task'[f].at = "done" /\ \A q \in Tasks \ {f} : task'[q] = task[q]
  BY <1>0, Moves DEF MailInv
<1>2. Typed'
  BY <1>0, <1>1 DEF MailInv, Typed, past
<1>3. Answered(f)'
  BY <1>0, <1>1 DEF MailInv, Answered
<1>4. muted \subseteq muted' /\ \A q \in Bought : shipments'[q] >= shipments[q] /\ crossed'[q] >= crossed[q]
  BY <1>0 DEF MailInv, Typed, past
<1>5. /\ \A q \in Bought : <<"confirmed", q>> \in outbox' <=> <<"confirmed", q>> \in outbox
      /\ \A g \in Submissions \ {f} : /\ <<"consent", g>> \in outbox' <=> <<"consent", g>> \in outbox
                                      /\ g \in proofs' <=> g \in proofs
  BY <1>0
<1> QED
  BY <1>0, <1>1, <1>2, <1>3, <1>4, <1>5, Keeps
(* A PATCH reads its order (order_service.go:497-520); its client may leave. *)
LEMMA Reads ==
  ASSUME MailAssumption, MailInv, NEW p \in Patches, NEW o \in Bought, GetByID(p, o)
  PROVE  MailInv'
<1> DEFINE new == [task[p] EXCEPT !.at = "write", !.order = o, !.status = bought[o].status]
<1>0. /\ p \in Tasks /\ p \notin Bought /\ p \notin Submissions /\ task[p] \in TaskState
      /\ bought[o].status # "none" /\ bought[o].status \in Stages
      /\ UNCHANGED <<tables, outbox, sent, past, mailFaults, forms>> /\ task' = [task EXCEPT ![p] = new]
  BY Names DEF MailInv, Typed, Row, GetByID
<1>1. new \in TaskState /\ new.at = "write" /\ new.order = o
  BY <1>0 DEF TaskState
<1> HIDE DEF new
<1>2. /\ task' \in [Tasks -> TaskState] /\ task'[p].at = "write" /\ task'[p].order = o
      /\ \A q \in Tasks \ {p} : task'[q] = task[q]
  BY <1>0, <1>1 DEF MailInv, Typed
<1>3. Typed'
  BY <1>0, <1>2 DEF MailInv, Typed, tables, past
<1>4. Reading(p)' /\ task'[p].at # "send"
  BY <1>0, <1>2 DEF Reading, tables
<1>5. muted \subseteq muted' /\ \A q \in Bought : shipments'[q] >= shipments[q] /\ crossed'[q] >= crossed[q]
  BY <1>0 DEF MailInv, Typed, past
<1> QED
  BY <1>0, <1>2, <1>3, <1>4, <1>5, Keeps DEF tables

LEMMA Leaves ==
  ASSUME MailAssumption, MailInv, NEW p \in Patches, mailFaults \in Nat, Leave(p)
  PROVE  MailInv'
<1> DEFINE new == [task[p] EXCEPT !.cut = TRUE]
<1>0. /\ p \in Tasks /\ p \notin Bought /\ p \notin Submissions /\ task[p] \in TaskState
      /\ UNCHANGED <<tables, outbox, sent, past, forms>> /\ task' = [task EXCEPT ![p] = new]
      /\ mailFaults' = mailFaults + 1
  BY Names DEF MailInv, Typed, Leave, Fails
<1>1. new \in TaskState /\ new.at = task[p].at /\ new.order = task[p].order
  BY <1>0 DEF TaskState
<1> HIDE DEF new
<1>2. /\ task' \in [Tasks -> TaskState] /\ task'[p].at = task[p].at /\ task'[p].order = task[p].order
      /\ \A q \in Tasks \ {p} : task'[q] = task[q]
  BY <1>0, <1>1 DEF MailInv, Typed
<1>3. Typed'
  BY <1>0, <1>2 DEF MailInv, Typed, tables, past
<1>4. Reading(p)'
  BY <1>0, <1>2 DEF MailInv, Reading, tables
<1>5. /\ muted \subseteq muted' /\ \A q \in Bought : shipments'[q] >= shipments[q] /\ crossed'[q] >= crossed[q]
      /\ mailFaults' = 0 => mailFaults = 0
  BY <1>0 DEF MailInv, Typed, past
<1> QED
  BY <1>0, <1>2, <1>3, <1>4, <1>5, Keeps DEF tables

(* What an UPDATE of the status leaves: the row, and a count of what it shipped or
   crossed.  A request that is to tell of it did one or the other. *)
LEMMA Writes ==
  ASSUME MailAssumption, MailInv, NEW p \in Patches, NEW status \in {"pending", "shipped", "cancelled"},
         mailFaults \in Nat, UpdateStatus(p, status)
  PROVE  MailInv'
<1>a. task[p].at = "write" /\ task[p].order \in Bought
  BY DEF MailInv, Reading, UpdateStatus
<1> PICK o \in Bought : o = task[p].order
  BY <1>a
<1> DEFINE ships == status = "shipped" /\ bought[o].status # "shipped"
           late == status = "shipped" /\ bought[o].status # task[p].status
<1>0. /\ p \in Tasks /\ p \notin Bought /\ p \notin Submissions /\ task[p].at = "write" /\ task[p].order = o
      /\ bought[o].status # "none"
      /\ UNCHANGED <<mailer, enabled, account, proofs, outbox, sent, muted, forms>>
  BY Names DEF MailInv, Reading, UpdateStatus
<1>1. \/ UNCHANGED <<bought, shipments, crossed>>
      \/ /\ bought' = [bought EXCEPT ![o].status = status]
         /\ shipments' = [shipments EXCEPT ![o] = IF ships THEN @ + 1 ELSE @]
         /\ crossed' = [crossed EXCEPT ![o] = IF late THEN @ + 1 ELSE @]
  BY DEF UpdateStatus
<1>2. /\ bought' \in [Bought -> Row]
      /\ \A q \in Bought : q # o => bought'[q] = bought[q]
      /\ bought'[o].status # "none"
  <2>1. bought \in [Bought -> Row] /\ bought[o] \in Row
    BY <1>0 DEF MailInv, Typed
  <2>2. [bought[o] EXCEPT !.status = status] \in Row /\ [bought[o] EXCEPT !.status = status].status = status
    BY <2>1 DEF Row, Stages
  <2>3. bought' = bought \/ bought' = [bought EXCEPT ![o] = [bought[o] EXCEPT !.status = status]]
    BY <1>1
  <2> QED
    BY <1>0, <2>1, <2>2, <2>3
<1>3. /\ shipments' \in [Bought -> Nat] /\ crossed' \in [Bought -> Nat]
      /\ \A q \in Bought : shipments'[q] >= shipments[q] /\ crossed'[q] >= crossed[q]
      /\ shipments \in [Bought -> Nat] /\ crossed \in [Bought -> Nat]
  <2>1. shipments \in [Bought -> Nat] /\ crossed \in [Bought -> Nat]
    BY DEF MailInv, Typed
  <2> QED
    BY <1>0, <1>1, <2>1
<1>4. mailFaults' = 0 => mailFaults = 0
  BY DEF UpdateStatus, Works, Fails
<1>5. CASE At(p, "done")
  <2>1. /\ task' \in [Tasks -> TaskState] /\ task'[p].at = "done"
        /\ \A q \in Tasks \ {p} : task'[q] = task[q]
    BY <1>0, <1>5, Moves DEF MailInv
  <2>2. Typed' /\ Reading(p)'
    BY <1>0, <1>2, <1>3, <2>1 DEF MailInv, Typed, Reading
  <2>3. muted \subseteq muted' /\ \A q \in Bought : bought'[q].status = "none" <=> bought[q].status = "none"
    BY <1>0, <1>2
  <2> QED
    BY <1>0, <1>3, <1>4, <2>1, <2>2, <2>3, Keeps
<1>6. CASE At(p, "send") /\ (ships \/ late)
           /\ shipments' = [shipments EXCEPT ![o] = IF ships THEN @ + 1 ELSE @]
           /\ crossed' = [crossed EXCEPT ![o] = IF late THEN @ + 1 ELSE @]
  <2>1. /\ task' \in [Tasks -> TaskState] /\ task'[p].at = "send" /\ task'[p].order = o
        /\ \A q \in Tasks \ {p} : task'[q] = task[q]
    BY <1>0, <1>6, Moves DEF MailInv
  <2>2. Typed' /\ Reading(p)'
    BY <1>0, <1>2, <1>3, <2>1 DEF MailInv, Typed, Reading
  <2>3. ASSUME NEW q \in Bought PROVE Confirmed(q)'
    BY <1>0, <1>2, <1>4, <2>1, Names, ConfirmedKept DEF MailInv
  <2>4. ASSUME NEW f \in Submissions PROVE Answered(f)'
    BY <1>0, <1>4, <2>1, Names, AnsweredKept DEF MailInv
  <2>5. ASSUME NEW q \in Patches PROVE Reading(q)'
    BY <1>0, <1>2, <2>1, <2>2, Names, ReadingKept DEF MailInv
  <2>6. ASSUME NEW q \in Bought \ {o} PROVE Shipped(q)'
    <3>1. Sending(q)' \subseteq Sending(q)
      BY <2>1, Names DEF Sending
    <3> QED
      BY <1>0, <1>3, <3>1, ShippedKept DEF MailInv
  <2>7. Shipped(o)'
    <3>1. Sending(o)' = Sending(o) \union {p} /\ p \notin Sending(o)
      BY <1>0, <2>1, Names DEF Sending
    <3>2. Cardinality(Sending(o)') = Cardinality(Sending(o)) + 1 /\ Cardinality(Sending(o)) \in Nat
      BY <3>1, FewSend, FS_AddElement
    <3>3. shipments'[o] + crossed'[o] >= shipments[o] + crossed[o] + 1
      BY <1>0, <1>3, <1>6
    <3>4. sent[<<"shipped", o>>] \in Nat /\ Shipped(o)
      BY <1>0, Names DEF MailInv, Typed
    <3>5. shipments'[o] \in Nat /\ crossed'[o] \in Nat /\ shipments[o] \in Nat /\ crossed[o] \in Nat
      BY <1>0, <1>3
    <3>6. sent'[<<"shipped", o>>] = sent[<<"shipped", o>>]
      BY <1>0
    <3>7. sent'[<<"shipped", o>>] + Cardinality(Sending(o)') <= shipments'[o] + crossed'[o]
      BY <3>2, <3>3, <3>4, <3>5, <3>6 DEF Shipped
    <3> QED
      BY <3>7 DEF Shipped
  <2> QED
    BY <2>2, <2>3, <2>4, <2>5, <2>6, <2>7 DEF MailInv
<1>7. At(p, "done") \/ (At(p, "send") /\ (ships \/ late)
           /\ shipments' = [shipments EXCEPT ![o] = IF ships THEN @ + 1 ELSE @]
           /\ crossed' = [crossed EXCEPT ![o] = IF late THEN @ + 1 ELSE @])
  BY DEF UpdateStatus, NotifyShipped
<1> QED
  BY <1>5, <1>6, <1>7
(* The request that sends leaves those that are about to: it hands one over at most. *)
LEMMA Ships ==
  ASSUME MailAssumption, MailInv, NEW p \in Patches, mailFaults \in Nat, sendOrderShippedEmail(p)
  PROVE  MailInv'
<1>1. task[p].at = "send" /\ task[p].order \in Bought
  BY DEF MailInv, Reading, sendOrderShippedEmail
<1> PICK o \in Bought : o = task[p].order
  BY <1>1
<1> DEFINE m == <<"shipped", o>>
<1>2. /\ p \in Tasks /\ p \notin Bought /\ p \notin Submissions /\ m \in Mailable
      /\ UNCHANGED <<tables, outbox, past, forms>>
      /\ At(p, "done") /\ (Hand(m) \/ sent' = sent)
  BY Names DEF sendOrderShippedEmail
<1>3. mailFaults' = 0 => mailFaults = 0
  BY DEF sendOrderShippedEmail, Works, Fails
<1>4. /\ task' \in [Tasks -> TaskState] /\ task'[p].at = "done"
      /\ \A q \in Tasks \ {p} : task'[q] = task[q]
  BY <1>2, Moves DEF MailInv
<1>5. /\ sent \in [Mailable -> Nat] /\ sent' \in [Mailable -> Nat] /\ \A n \in Mailable \ {m} : sent'[n] = sent[n]
      /\ sent'[m] = sent[m] \/ sent'[m] = sent[m] + 1
  BY <1>2, Hands DEF MailInv, Typed
<1>6. Typed'
  BY <1>2, <1>4, <1>5 DEF MailInv, Typed, tables, past
<1>7. ASSUME NEW q \in Bought PROVE Confirmed(q)'
  <2>1. <<"confirmed", q>> # m /\ <<"confirmed", q>> \in Mailable /\ task'[q] = task[q]
    BY <1>2, <1>4, Names
  <2> QED
    BY <1>2, <1>3, <1>5, <2>1, ConfirmedKept DEF MailInv, tables, past
<1>8. ASSUME NEW f \in Submissions PROVE Answered(f)'
  <2>1. <<"consent", f>> # m /\ <<"consent", f>> \in Mailable /\ task'[f] = task[f]
    BY <1>2, <1>4, Names
  <2> QED
    BY <1>2, <1>3, <1>5, <2>1, AnsweredKept DEF MailInv, tables
<1>9. ASSUME NEW q \in Patches PROVE Reading(q)'
  BY <1>2, <1>4, Names DEF MailInv, Reading, tables
<1>10. ASSUME NEW q \in Bought PROVE /\ shipments'[q] = shipments[q] /\ crossed'[q] = crossed[q]
                                     /\ shipments[q] \in Nat /\ crossed[q] \in Nat
  BY <1>2 DEF MailInv, Typed, past
<1>11. ASSUME NEW q \in Bought \ {o} PROVE Shipped(q)'
  <2>1. Sending(q)' \subseteq Sending(q)
    BY <1>4, Names DEF Sending
  <2>2. <<"shipped", q>> # m /\ <<"shipped", q>> \in Mailable
    BY Names
  <2> QED
    BY <1>5, <1>10, <2>1, <2>2, ShippedKept DEF MailInv
<1>12. Shipped(o)'
  <2>1. Sending(o)' = Sending(o) \ {p} /\ p \in Sending(o)
    BY <1>1, <1>4, Names DEF Sending
  <2>2. Cardinality(Sending(o)') = Cardinality(Sending(o)) - 1 /\ Cardinality(Sending(o)) \in Nat
    BY <2>1, FewSend, FS_RemoveElement, SMTT(60)
  <2>3. sent[m] + Cardinality(Sending(o)) <= shipments[o] + crossed[o]
    BY DEF MailInv, Shipped
  <2>4. sent'[m] + Cardinality(Sending(o)') <= shipments'[o] + crossed'[o]
    BY <1>2, <1>5, <1>10, <2>2, <2>3
  <2> QED
    BY <2>4 DEF Shipped
<1> QED
  BY <1>6, <1>7, <1>8, <1>9, <1>11, <1>12 DEF MailInv

(* The administrators and the account. *)
LEMMA Settings ==
  ASSUME MailAssumption, MailInv, DeleteUser \/ \E value \in BOOLEAN : SetEnabled(value)
  PROVE  MailInv'
<1>0. /\ UNCHANGED <<mailer, proofs, task, outbox, sent, past, mailFaults>>
      /\ enabled' \in BOOLEAN /\ account' \in BOOLEAN /\ bought \in [Bought -> Row]
  BY DEF MailInv, Typed, DeleteUser, SetEnabled
<1>1. bought' \in [Bought -> Row] /\ \A o \in Bought : bought'[o].status = bought[o].status
  <2>1. ASSUME NEW o \in Bought
        PROVE  /\ [bought[o] EXCEPT !.known = FALSE] \in Row
               /\ [bought[o] EXCEPT !.known = FALSE].status = bought[o].status
    BY <1>0 DEF Row
  <2>2. bought' = bought \/ bought' = [o \in Bought |-> [bought[o] EXCEPT !.known = FALSE]]
    BY DEF DeleteUser, SetEnabled
  <2> QED
    BY <1>0, <2>1, <2>2
<1>2. forms' \in 0..MaxForms
  BY DEF MailInv, Typed, DeleteUser, SetEnabled, Form, MailAssumption
<1>3. Typed'
  BY <1>0, <1>1, <1>2 DEF MailInv, Typed, past
<1>4. \A o \in Bought : Confirmed(o)'
  BY <1>0, <1>1, ConfirmedKept DEF MailInv, past
<1>5. \A f \in Submissions : Answered(f)'
  BY <1>0 DEF MailInv, Answered
<1>6. \A o \in Bought : Shipped(o)'
  BY <1>0 DEF MailInv, Shipped, Sending, past
<1>7. \A p \in Patches : Reading(p)'
  BY <1>0, <1>1 DEF MailInv, Reading
<1> QED
  BY <1>3, <1>4, <1>5, <1>6, <1>7 DEF MailInv

(* A restart takes the goroutines and the requests with it; it counts as a fault. *)
LEMMA Restarts ==
  ASSUME MailAssumption, MailInv, mailFaults \in Nat, Restart
  PROVE  MailInv'
<1>0. /\ task \in [Tasks -> TaskState] /\ UNCHANGED <<tables, sent, past, forms>>
      /\ outbox' = {} /\ mailFaults' = mailFaults + 1
  BY DEF MailInv, Typed, Restart, Fails
<1>1. ASSUME NEW r \in Tasks
      PROVE  /\ task'[r] \in TaskState /\ task'[r].order = task[r].order
             /\ task'[r].at = IF task[r].at = "new" THEN "new" ELSE "done"
  <2>1. [task[r] EXCEPT !.at = "done"] \in TaskState /\ [task[r] EXCEPT !.at = "done"].at = "done"
        /\ [task[r] EXCEPT !.at = "done"].order = task[r].order /\ task[r] \in TaskState
    BY <1>0 DEF TaskState
  <2>2. task'[r] = IF task[r].at = "new" THEN task[r] ELSE [task[r] EXCEPT !.at = "done"]
    BY <1>0 DEF Restart
  <2> QED
    BY <2>1, <2>2
<1>2. task' \in [Tasks -> TaskState]
  BY <1>0, <1>1 DEF Restart
<1>3. Typed'
  BY <1>0, <1>2 DEF MailInv, Typed, tables, past
<1>4. mailFaults' # 0
  BY <1>0
<1>5. ASSUME NEW o \in Bought PROVE Confirmed(o)'
  BY <1>0, <1>1, <1>4, Names DEF MailInv, Confirmed, tables
<1>6. ASSUME NEW f \in Submissions PROVE Answered(f)'
  BY <1>0, <1>1, <1>4, Names DEF MailInv, Answered, tables
<1>7. ASSUME NEW o \in Bought PROVE Shipped(o)'
  <2>1. Sending(o)' \subseteq Sending(o)
    BY <1>1, Names DEF Sending
  <2>2. /\ shipments'[o] >= shipments[o] /\ crossed'[o] >= crossed[o]
        /\ shipments'[o] \in Nat /\ crossed'[o] \in Nat /\ sent' = sent
    BY <1>0 DEF MailInv, Typed, past
  <2> QED
    BY <2>1, <2>2, ShippedKept DEF MailInv
<1>8. ASSUME NEW p \in Patches PROVE Reading(p)'
  BY <1>1, Names DEF Reading
<1> QED
  BY <1>3, <1>5, <1>6, <1>7, <1>8 DEF MailInv

-----------------------------------------------------------------------------
(* It holds in the beginning. *)
LEMMA InitInv == MailAssumption /\ MailInit => MailInv
<1> SUFFICES ASSUME MailAssumption, MailInit PROVE MailInv
  OBVIOUS
<1>1. NoTask \in TaskState /\ NoTask.at = "new" /\ Unplaced \in Row /\ Unplaced.status = "none"
  BY DEF NoTask, TaskState, Stages, Unplaced, Row
<1>2. Typed
  BY <1>1 DEF MailInit, Typed, MailAssumption, Tasks
<1>3. \A r \in Tasks : task[r].at = "new"
  BY <1>1 DEF MailInit, Tasks
<1>4. \A m \in Mailable : sent[m] = 0
  BY DEF MailInit
<1>5. ASSUME NEW o \in Bought PROVE Confirmed(o)
  <2>1. /\ bought[o].status = "none" /\ task[o].at = "new" /\ sent[<<"confirmed", o>>] = 0
        /\ <<"confirmed", o>> \notin outbox
    BY <1>1, <1>3, <1>4, Names DEF MailInit
  <2> QED
    BY <2>1 DEF Confirmed
<1>6. ASSUME NEW f \in Submissions PROVE Answered(f)
  BY <1>3, <1>4, Names DEF MailInit, Answered
<1>7. ASSUME NEW o \in Bought PROVE Shipped(o)
  <2>1. Sending(o) = {}
    BY <1>3, Names DEF Sending
  <2>2. shipments[o] = 0 /\ crossed[o] = 0 /\ sent[<<"shipped", o>>] = 0
    BY <1>4, Names DEF MailInit
  <2> QED
    BY <2>1, <2>2, FS_EmptySet DEF Shipped
<1>8. ASSUME NEW p \in Patches PROVE Reading(p)
  BY <1>3, Names DEF Reading
<1> QED
  BY <1>2, <1>5, <1>6, <1>7, <1>8 DEF MailInv

(* Every step keeps it, and counts a fault at most. *)
LEMMA StepInv == MailAssumption /\ mailFaults \in Nat /\ MailInv /\ MailNext => MailInv'
  BY Enrich, Creates, Queues, Confirms, Reads, Writes, Ships, Leaves, Submits, Answers, Settings, Restarts DEF MailNext

LEMMA StepFaults ==
  MailNext => mailFaults' = mailFaults \/ (mailFaults < MaxMailFaults /\ mailFaults' = mailFaults + 1)
  BY ZenonT(60) DEF MailNext, enrichShippingEmail, Create, afterOrderCreated, sendOrderConfirmationEmail, GetByID, UpdateStatus,
    sendOrderShippedEmail, Leave, SubmitContact, SubscribeNewsletter, Submit, sendContactNotification,
    sendNewsletterWelcome, SetEnabled, DeleteUser, Restart, Works, Fails

(* It is about this part alone, but for the count of faults: where that only grows,
   what holds without a fault still does. *)
LEMMA Stands ==
  ASSUME MailInv, mailFaults' = 0 => mailFaults = 0,
         UNCHANGED <<mailer, enabled, account, bought, proofs, task, outbox, sent, past, forms>>
  PROVE  MailInv'
  BY DEF MailInv, Typed, Confirmed, Shipped, Sending, Answered, Reading, past

(* What the invariant says of the properties. *)
LEMMA InvTold == MailAssumption /\ MailInv => ToldOnce
<1> SUFFICES ASSUME MailAssumption, MailInv PROVE ToldOnce
  OBVIOUS
<1>1. ASSUME NEW o \in Bought
      PROVE  /\ sent[<<"confirmed", o>>] <= IF bought[o].status = "none" THEN 0 ELSE 1
             /\ sent[<<"shipped", o>>] <= shipments[o] + crossed[o]
             /\ mailer /\ mailFaults = 0 /\ bought[o].status # "none" /\ o \notin muted /\ ~Busy(o)
                  => sent[<<"confirmed", o>>] = 1
  <2>1. Confirmed(o) /\ Shipped(o) /\ Cardinality(Sending(o)) \in Nat
    BY FewSend DEF MailInv
  <2>2. sent[<<"shipped", o>>] \in Nat /\ shipments[o] \in Nat /\ crossed[o] \in Nat
    BY Names DEF MailInv, Typed
  <2> QED
    BY <2>1, <2>2 DEF Confirmed, Shipped, Busy
<1>2. ASSUME NEW f \in Submissions
      PROVE  /\ sent[<<"consent", f>>] <= IF f \in proofs THEN 1 ELSE 0
             /\ mailer /\ mailFaults = 0 /\ f \in proofs /\ <<"consent", f>> \notin outbox
                  => sent[<<"consent", f>>] = 1
  BY DEF MailInv, Answered
<1> QED
  BY <1>1, <1>2 DEF ToldOnce, MailInv, Typed

LEMMA InvTypes == MailInv /\ mailFaults \in 0..MaxMailFaults => MailTypeOK
<1> SUFFICES ASSUME MailInv, mailFaults \in 0..MaxMailFaults PROVE MailTypeOK
  OBVIOUS
<1>1. \A o \in Bought : bought[o].status \in {"none", "pending", "shipped", "cancelled"}
  BY DEF MailInv, Typed, Row, Stages
<1>2. \A r \in DOMAIN task : task[r].at \in {"new", "create", "after", "write", "send", "done"}
  BY DEF MailInv, Typed, TaskState
<1> QED
  BY <1>1, <1>2 DEF MailInv, Typed, MailTypeOK
=============================================================================
