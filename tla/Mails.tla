--------------------------------- MODULE Mails ---------------------------------
(***************************************************************************)
(* The messages the shop sends by e-mail: the confirmation of an order, in *)
(* a goroutine of its own (service/order_service.go, order_email.go), the  *)
(* news that it is shipped, inside the PATCH that ships it, and the        *)
(* messages about a contact form and a subscription to the newsletter      *)
(* (service/consent_service.go, consent_email.go).  What the messages say  *)
(* is left out, and so is the stock the same requests move.                *)
(*                                                                         *)
(* A goroutine holds what it is about and outlives its request, but not    *)
(* the process.  The mails of accounts are sent inside their requests, see *)
(* Accounts.                                                               *)
(*                                                                         *)
(* AlwaysNews is used by no action: it is what a slip in the code would    *)
(* make of the definition that follows it.                                 *)
(***************************************************************************)
EXTENDS Integers, FiniteSets

CONSTANTS
  Bought,      \* orders, each with the checkout that creates it
  Patches,     \* PATCH requests, each of one order
  Contacts,    \* contact forms
  Signups,     \* subscriptions to the newsletter
  MaxMailFaults, \* bound on failing calls, clients that leave and restarts
  MaxForms     \* bound on the changes of the settings and of the account

\* No request is of two kinds.  The module that extends this one, or an instance, assumes it.
MailAssumption ==
  /\ Bought \intersect Patches = {}
  /\ (Bought \union Patches) \intersect (Contacts \union Signups) = {}
  /\ IsFiniteSet(Patches)
  /\ MaxForms \in Nat /\ MaxMailFaults \in Nat

VARIABLES
  mailer,    \* are there keys to send with
  enabled,   \* order_email_enabled; a value that is not a boolean counts as TRUE
  account,   \* has the account of the customers an address
  bought,    \* the orders: status and address, no row before they are placed
  proofs,    \* the consents that are stored
  task,      \* local state of each request
  outbox,    \* the goroutines that are to send a message
  sent,      \* history: how often a message was handed over
  shipments, \* history: how often the status of an order became shipped
  crossed,   \* history: how often shipped was written over a status that had changed since it was read
  muted,     \* history: orders whose confirmation the settings, or no address, forbade
  mailFaults, forms

mailVars == <<mailer, enabled, account, bought, proofs, task, outbox, sent, shipments, crossed, muted,
              mailFaults, forms>>
tables == <<mailer, enabled, account, bought, proofs>>
past == <<shipments, crossed, muted>>

Submissions == Contacts \union Signups
Mailable == ({"confirmed", "shipped"} \X Bought) \union ({"consent"} \X Submissions)
Unplaced == [status |-> "none", address |-> "none", known |-> FALSE]
NoTask == [at |-> "new", status |-> "none", address |-> "none", known |-> FALSE, cut |-> FALSE, order |-> "none"]

MailInit ==
  /\ mailer \in BOOLEAN
  /\ enabled = TRUE /\ account = TRUE
  /\ bought = [o \in Bought |-> Unplaced]
  /\ proofs = {}
  /\ task = [r \in Bought \union Patches \union Submissions |-> NoTask]
  /\ outbox = {}
  /\ sent = [m \in Mailable |-> 0]
  /\ shipments = [o \in Bought |-> 0] /\ crossed = [o \in Bought |-> 0] /\ muted = {}
  /\ mailFaults = 0 /\ forms = 0

Works == UNCHANGED mailFaults
Fails == mailFaults < MaxMailFaults /\ mailFaults' = mailFaults + 1
At(r, step) == task' = [task EXCEPT ![r].at = step]

-----------------------------------------------------------------------------
(* The checkout. *)

\* What the customer left out is taken from the account, if there is one.
enrichShippingEmail(o, given, known) ==
  /\ task[o].at = "new"
  /\ \/ Works /\ task' = [task EXCEPT ![o] = [@ EXCEPT !.at = "create", !.known = known,
                            !.address = IF given \/ (known /\ account) THEN "order" ELSE "none"]]
     \/ ~given /\ known /\ Fails /\ task' = [task EXCEPT ![o] = [@ EXCEPT !.at = "create", !.known = known]]
  /\ UNCHANGED <<tables, outbox, sent, past, forms>>

Placed(o) ==
  bought' = [bought EXCEPT ![o] = [status |-> "pending", address |-> task[o].address, known |-> task[o].known]]

\* The row that was inserted is read again: when that fails the checkout fails too.
Create(o) ==
  /\ task[o].at = "create"
  /\ \/ Works /\ At(o, "after") /\ Placed(o)
     \/ Fails /\ At(o, "done") /\ (Placed(o) \/ UNCHANGED bought)
  /\ UNCHANGED <<mailer, enabled, account, proofs, outbox, sent, past, forms>>

\* Only a setting that can be read and says no forbids the message.
getNotificationSettings(read) == read => enabled

afterOrderCreated(o) ==
  /\ task[o].at = "after" /\ At(o, "done")
  /\ \E read \in BOOLEAN :
       /\ IF read THEN Works ELSE Fails
       /\ IF getNotificationSettings(read)
            THEN outbox' = outbox \union {<<"confirmed", o>>} /\ UNCHANGED muted
            ELSE muted' = muted \union {o} /\ UNCHANGED outbox
  /\ UNCHANGED <<tables, sent, shipments, crossed, forms>>

-----------------------------------------------------------------------------
(* Sending. *)

\* The address of the order, or of the account as it is by now.
HasRecipient(o) == bought[o].address = "order" \/ (bought[o].known /\ account)

Hand(m) == sent' = [sent EXCEPT ![m] = @ + 1]

\* A goroutine ends with its message handed over, or without it: no recipient, no
\* mailer, or an error that is logged.
sendOrderConfirmationEmail(o) ==
  /\ <<"confirmed", o>> \in outbox /\ outbox' = outbox \ {<<"confirmed", o>>}
  /\ \/ Works /\ HasRecipient(o) /\ mailer /\ Hand(<<"confirmed", o>>) /\ UNCHANGED muted
     \/ Works /\ ~HasRecipient(o) /\ muted' = muted \union {o} /\ UNCHANGED sent
     \/ Works /\ HasRecipient(o) /\ ~mailer /\ UNCHANGED <<sent, muted>>
     \/ Fails /\ UNCHANGED <<sent, muted>>
  /\ UNCHANGED <<tables, task, shipments, crossed, forms>>

\* To the inbox of the shop: the one of the settings, or the address it sends from.
sendContactNotification(f) ==
  /\ <<"consent", f>> \in outbox /\ f \in Contacts /\ outbox' = outbox \ {<<"consent", f>>}
  /\ (Works /\ mailer /\ Hand(<<"consent", f>>)) \/ (Works /\ ~mailer /\ UNCHANGED sent)
     \/ (Fails /\ UNCHANGED sent)
  /\ UNCHANGED <<tables, task, past, forms>>

sendNewsletterWelcome(f) ==
  /\ <<"consent", f>> \in outbox /\ f \in Signups /\ outbox' = outbox \ {<<"consent", f>>}
  /\ (Works /\ mailer /\ Hand(<<"consent", f>>)) \/ (Works /\ ~mailer /\ UNCHANGED sent)
     \/ (Fails /\ UNCHANGED sent)
  /\ UNCHANGED <<tables, task, past, forms>>

-----------------------------------------------------------------------------
(* A PATCH of the status. *)

GetByID(p, o) ==
  /\ task[p].at = "new" /\ bought[o].status # "none"
  /\ task' = [task EXCEPT ![p] = [@ EXCEPT !.at = "write", !.order = o, !.status = bought[o].status]]
  /\ UNCHANGED <<tables, outbox, sent, past, mailFaults, forms>>

\* Is shipped news, by what the request has read.
AlwaysNews(seen, status) == status = "shipped"
NotifyShipped(seen, status) == status = "shipped" /\ seen # "shipped"

\* An UPDATE and the SELECT of the row it returns, after which the request is
\* answered or goes on to send.
UpdateStatus(p, status) ==
  LET o == task[p].order
      written == bought' = [bought EXCEPT ![o].status = status]
      ships == status = "shipped" /\ bought[o].status # "shipped"
      late == status = "shipped" /\ bought[o].status # task[p].status
      counted ==
        /\ shipments' = [shipments EXCEPT ![o] = IF ships THEN @ + 1 ELSE @]
        /\ crossed' = [crossed EXCEPT ![o] = IF late THEN @ + 1 ELSE @]
  IN
  /\ task[p].at = "write"
  /\ \/ Works /\ ~task[p].cut /\ written /\ counted
        /\ At(p, IF NotifyShipped(task[p].status, status) THEN "send" ELSE "done")
     \/ ~task[p].cut /\ Fails /\ written /\ counted /\ At(p, "done")
     \/ ((task[p].cut /\ Works) \/ (~task[p].cut /\ Fails)) /\ At(p, "done")
        /\ UNCHANGED <<bought, shipments, crossed>>
  /\ UNCHANGED <<mailer, enabled, account, proofs, outbox, sent, muted, forms>>

\* A client that has left takes the message with it.
sendOrderShippedEmail(p) ==
  LET o == task[p].order IN
  /\ task[p].at = "send" /\ At(p, "done")
  /\ \/ Works /\ HasRecipient(o) /\ mailer /\ ~task[p].cut /\ Hand(<<"shipped", o>>)
     \/ Works /\ (~HasRecipient(o) \/ ~mailer \/ task[p].cut) /\ UNCHANGED sent
     \/ Fails /\ UNCHANGED sent
  /\ UNCHANGED <<tables, outbox, past, forms>>

Leave(p) ==
  /\ task[p].at \in {"write", "send"} /\ ~task[p].cut /\ Fails
  /\ task' = [task EXCEPT ![p].cut = TRUE]
  /\ UNCHANGED <<tables, outbox, sent, past, forms>>

-----------------------------------------------------------------------------
(* The forms of visitors: the proof is stored, then the message goes out. *)

Submit(f) ==
  /\ task[f].at = "new" /\ At(f, "done")
  /\ \/ Works /\ proofs' = proofs \union {f} /\ outbox' = outbox \union {<<"consent", f>>}
     \/ Fails /\ UNCHANGED <<proofs, outbox>>
  /\ UNCHANGED <<mailer, enabled, account, bought, sent, past, forms>>
SubmitContact(f) == f \in Contacts /\ Submit(f)
SubscribeNewsletter(f) == f \in Signups /\ Submit(f)

-----------------------------------------------------------------------------
(* The administrators, the account and the process. *)

Form == forms < MaxForms /\ forms' = forms + 1
SetEnabled(value) ==
  /\ Form /\ enabled' = value
  /\ UNCHANGED <<mailer, account, bought, proofs, task, outbox, sent, past, mailFaults>>

DeleteUser ==
  /\ Form /\ account' = FALSE
  /\ bought' = [o \in Bought |-> [bought[o] EXCEPT !.known = FALSE]]
  /\ UNCHANGED <<mailer, enabled, proofs, task, outbox, sent, past, mailFaults>>

Restart ==
  /\ Fails
  /\ outbox' = {}
  /\ task' = [r \in DOMAIN task |-> IF task[r].at = "new" THEN task[r] ELSE [task[r] EXCEPT !.at = "done"]]
  /\ UNCHANGED <<tables, sent, past, forms>>

MailNext ==
  \/ \E o \in Bought :
       \/ \E given, known \in BOOLEAN : enrichShippingEmail(o, given, known)
       \/ Create(o) \/ afterOrderCreated(o) \/ sendOrderConfirmationEmail(o)
  \/ \E p \in Patches :
       \/ \E o \in Bought : GetByID(p, o)
       \/ \E status \in {"pending", "shipped", "cancelled"} : UpdateStatus(p, status)
       \/ sendOrderShippedEmail(p) \/ Leave(p)
  \/ \E f \in Submissions :
       SubmitContact(f) \/ SubscribeNewsletter(f) \/ sendContactNotification(f) \/ sendNewsletterWelcome(f)
  \/ \E value \in {TRUE, FALSE} : SetEnabled(value)
  \/ DeleteUser
  \/ Restart

MailSpec == MailInit /\ [][MailNext]_mailVars

-----------------------------------------------------------------------------
\* Each variable has its type.
MailTypeOK ==
  /\ mailer \in BOOLEAN /\ account \in BOOLEAN
  /\ \A o \in Bought : bought[o].status \in {"none", "pending", "shipped", "cancelled"}
  /\ proofs \subseteq Submissions
  /\ \A r \in DOMAIN task : task[r].at \in {"new", "create", "after", "write", "send", "done"}
  /\ outbox \subseteq Mailable
  /\ sent \in [Mailable -> Nat]
  /\ mailFaults \in 0..MaxMailFaults /\ forms \in 0..MaxForms

Busy(o) ==
  \/ task[o].at \in {"create", "after"} \/ <<"confirmed", o>> \in outbox
  \/ \E p \in Patches : task[p].order = o /\ task[p].at # "done"

\* A message tells what has happened, and tells it once: a confirmation is of an order
\* in the table, the messages that it is shipped are as many as its shipments and the
\* PATCH requests that crossed one, a form is answered when its proof is stored.  Where
\* no call failed, nobody left and the mailer is there, nobody is forgotten either
\* (order_service.go:390-398, 497-614, order_email.go, consent_service.go:71-130).
ToldOnce ==
  /\ \A o \in Bought :
       /\ sent[<<"confirmed", o>>] <= IF bought[o].status = "none" THEN 0 ELSE 1
       /\ sent[<<"shipped", o>>] <= shipments[o] + crossed[o]
  /\ \A f \in Submissions : sent[<<"consent", f>>] <= IF f \in proofs THEN 1 ELSE 0
  /\ mailer /\ mailFaults = 0 =>
       /\ \A o \in Bought : bought[o].status # "none" /\ o \notin muted /\ ~Busy(o) =>
            sent[<<"confirmed", o>>] = 1
       /\ \A f \in proofs : <<"consent", f>> \notin outbox => sent[<<"consent", f>>] = 1
=============================================================================
