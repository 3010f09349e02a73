------------------------------- MODULE PaidInvoice -------------------------------
(***************************************************************************)
(* What a payment sets off outside the company's row: an individual user's *)
(* purchase, and the mail that carries a paid invoice.                     *)
(*                                                                         *)
(* An individual user buys one assessment through Checkout sessions; Stripe *)
(* makes an invoice of each.  A company's invoices come from its own       *)
(* sessions, renewals and upgrades.  Stripe tells the backend of both with *)
(* webhook events, which it sends until they are answered and sometimes    *)
(* once more; each is handled by a request of its own that awaits Stripe,  *)
(* SES and Postgres.  The handler of invoice.paid mails the PDF and keeps  *)
(* a mark in the invoice's metadata so that it mails it once: a company's  *)
(* invoice is marked before the mail, an individual's after it.  Whose a   *)
(* company's invoice is, it reads from the invoice's metadata or, when the *)
(* invoice is of a subscription, from the row that names the subscription; *)
(* BillingSync and BillingUpgrade say when that row is written.            *)
(*                                                                         *)
(* A session and its invoice have one name.  Mails that administrators ask *)
(* for by hand neither read nor set the mark and are not counted.          *)
(***************************************************************************)
EXTENDS Naturals

CONSTANTS Personal,     \* Checkout sessions the individual user may open
          Corporate,    \* invoices of a company
          OfSubscription, \* those of them that a subscription makes
          Request,      \* webhook requests that may run at the same time
          None,         \* no invoice
          MaxFailure    \* bound: calls that fail, requests that die, answers
                        \* that Stripe does not get

ASSUME PaidInvoiceAssumption ==
    /\ Personal \cap Corporate = {}
    /\ OfSubscription \subseteq Corporate
    /\ None \notin Personal \cup Corporate
    /\ MaxFailure \in Nat

Invoice == Personal \cup Corporate

\* "completed" and "unpaid": checkout.session.completed with the payment made
\* or still under way; "invoice": invoice.paid.
Event == [type : {"completed", "unpaid", "invoice"}, inv : Invoice]

NoEvent == [type |-> "none", inv |-> None]

\* Where a request stands: the await it is about to make.
Pc == {"idle", "activate", "resolve", "read", "claim", "send", "revert",
       "mark", "ack"}

Idle == [pc |-> "idle", ev |-> NoEvent]

VARIABLES
    stage,      \* Stripe: the sessions and invoices
    mark,       \* Stripe: the mark "mail sent" in the invoice's metadata
    emitted,    \* Stripe: the events it has made
    answered,   \* Stripe: those answered with success
    paid,       \* Postgres: payment_status and status of the individual user
    found,      \* Postgres: the invoices whose company's row a look-up finds
    mails,      \* SES: automatic mails of each invoice that went out
    req,        \* the webhook requests
    overlap,    \* history: invoices two requests were mailing at once
    unrecorded, \* history: mails that went out without the sender knowing
    stuck,      \* history: invoices whose mark outlived a failed attempt
    dropped,    \* history: invoices whose failure a handler swallowed
    missed,     \* history: invoices whose company a handler did not find
    failures    \* number of failures so far

stripeVars  == <<stage, mark, emitted, answered>>
historyVars == <<overlap, unrecorded, stuck, dropped, missed>>
vars == <<stripeVars, paid, found, mails, req, historyVars, failures>>

Init ==
    /\ stage = [i \in Invoice |-> "none"]
    /\ mark = [i \in Invoice |-> FALSE]
    /\ emitted = {}
    /\ answered = {}
    /\ paid = FALSE
    /\ found = Corporate \ OfSubscription
    /\ mails = [i \in Invoice |-> 0]
    /\ req = [w \in Request |-> Idle]
    /\ overlap = {}
    /\ unrecorded = [i \in Invoice |-> 0]
    /\ stuck = {}
    /\ dropped = {}
    /\ missed = {}
    /\ failures = 0

-------------------------------------------------------------------------------
(* The purchase, and Stripe.                                               *)

\* createCheckoutSession of an individual: refused once the user has paid.
\* Nothing closes a session opened before.
OpenSession(i) ==
    /\ i \in Personal
    /\ stage[i] = "none"
    /\ ~paid
    /\ stage' = [stage EXCEPT ![i] = "open"]
    /\ UNCHANGED <<mark, emitted, answered, paid, found, mails, req,
                   historyVars, failures>>

\* The same request when a promo code covers the price: activateAfterPayment,
\* and no session.
Waive ==
    /\ ~paid
    /\ paid' = TRUE
    /\ UNCHANGED <<stripeVars, found, mails, req, historyVars, failures>>

Emit(types, i) ==
    emitted' = emitted \cup [type : types, inv : {i}]

\* The user completes a session; a slow payment method leaves it unpaid.
CompleteSession(i) ==
    /\ stage[i] = "open"
    /\ \/ /\ stage' = [stage EXCEPT ![i] = "paid"]
          /\ Emit({"completed", "invoice"}, i)
       \/ /\ stage' = [stage EXCEPT ![i] = "pending"]
          /\ Emit({"unpaid"}, i)
    /\ UNCHANGED <<mark, answered, paid, found, mails, req, historyVars, failures>>

\* The slow payment arrives, or a company pays an invoice.
PayInvoice(i) ==
    /\ \/ stage[i] = "pending"
       \/ i \in Corporate /\ stage[i] = "none"
    /\ stage' = [stage EXCEPT ![i] = "paid"]
    /\ Emit({"invoice"}, i)
    /\ UNCHANGED <<mark, answered, paid, found, mails, req, historyVars, failures>>

\* The company's row comes to name the subscription of the invoice: the
\* completed Checkout, or the upgrade, has been written.
NameSubscription(i) ==
    /\ i \in OfSubscription \ found
    /\ found' = found \cup {i}
    /\ UNCHANGED <<stripeVars, paid, mails, req, historyVars, failures>>

\* The row names it no more, or the company is closed.
ForgetCompany(i) ==
    /\ i \in found
    /\ found' = found \ {i}
    /\ UNCHANGED <<stripeVars, paid, mails, req, historyVars, failures>>

-------------------------------------------------------------------------------
(* A webhook request.                                                      *)

At(w, pc) == req[w].pc = pc

Of(w) == req[w].ev.inv

Goto(w, pc) == req' = [req EXCEPT ![w].pc = pc]

\* handleWebhookEvent: a completed session that is not paid is ignored.
FirstStep(e) ==
    CASE e.type = "completed" -> "activate"
      [] e.type = "unpaid"    -> "ack"
      [] e.type = "invoice"   -> IF e.inv \in Corporate THEN "resolve" ELSE "read"

Deliver(w, e) ==
    /\ At(w, "idle")
    /\ e \in emitted \ answered
    /\ req' = [req EXCEPT ![w] = [pc |-> FirstStep(e), ev |-> e]]
    /\ UNCHANGED <<stripeVars, paid, found, mails, historyVars, failures>>

\* onIndividualAppUserCheckoutCompleted: a user who has paid is left alone.
Activate(w) ==
    /\ At(w, "activate")
    /\ paid' = TRUE
    /\ Goto(w, "ack")
    /\ UNCHANGED <<stripeVars, found, mails, historyVars, failures>>

\* A company's invoice: the look at the mark before the wait for the PDF, and
\* the look-up of the company.  If there is none to be found the handler
\* returns as if it had nothing to do, and the event will be answered.
Resolve(w) ==
    LET i == Of(w) IN
    /\ At(w, "resolve")
    /\ \/ /\ mark[i]
          /\ Goto(w, "ack")
          /\ UNCHANGED missed
       \/ /\ ~mark[i] /\ i \notin found
          /\ Goto(w, "ack")
          /\ missed' = missed \cup {i}
       \/ /\ ~mark[i] /\ i \in found
          /\ Goto(w, "read")
          /\ UNCHANGED missed
    /\ UNCHANGED <<stripeVars, paid, found, mails, overlap, unrecorded, stuck,
                   dropped, failures>>

\* A request that has found the mark missing and is not done with the mail.
Mailing(w, i) ==
    /\ Of(w) = i
    /\ req[w].pc \in {"claim", "send", "revert", "mark"}

\* Mutant: the mark is not looked at.
ReadIgnoresMark(w) ==
    LET i == Of(w) IN
    /\ At(w, "read")
    /\ Goto(w, IF i \in Corporate THEN "claim" ELSE "send")
    /\ overlap' = IF \E v \in Request \ {w} : Mailing(v, i)
                  THEN overlap \cup {i} ELSE overlap
    /\ UNCHANGED <<stripeVars, paid, found, mails, unrecorded, stuck, dropped, missed, failures>>

\* Mutant: an individual's invoice too is marked before it is mailed.
ReadClaimsAll(w) ==
    LET i == Of(w) IN
    /\ At(w, "read")
    /\ \/ /\ mark[i]
          /\ Goto(w, "ack")
          /\ UNCHANGED overlap
       \/ /\ ~mark[i]
          /\ Goto(w, "claim")
          /\ overlap' = IF \E v \in Request \ {w} : Mailing(v, i)
                        THEN overlap \cup {i} ELSE overlap
    /\ UNCHANGED <<stripeVars, paid, found, mails, unrecorded, stuck, dropped, missed, failures>>

\* The last look at the mark, once waitForInvoicePdfReady has the PDF.  Of an
\* individual's invoice the handler also looks before it waits; it then
\* returns as it would from here.
Read(w) ==
    LET i == Of(w) IN
    /\ At(w, "read")
    /\ \/ /\ mark[i]
          /\ Goto(w, "ack")
          /\ UNCHANGED overlap
       \/ /\ ~mark[i]
          /\ Goto(w, IF i \in Corporate THEN "claim" ELSE "send")
          /\ overlap' = IF \E v \in Request \ {w} : Mailing(v, i)
                        THEN overlap \cup {i} ELSE overlap
    /\ UNCHANGED <<stripeVars, paid, found, mails, unrecorded, stuck, dropped, missed, failures>>

\* A company's invoice is marked before it is mailed.
Claim(w) ==
    /\ At(w, "claim")
    /\ mark' = [mark EXCEPT ![Of(w)] = TRUE]
    /\ Goto(w, "send")
    /\ UNCHANGED <<stage, emitted, answered, paid, found, mails, historyVars, failures>>

Send(w) ==
    LET i == Of(w) IN
    /\ At(w, "send")
    /\ mails' = [mails EXCEPT ![i] = @ + 1]
    /\ Goto(w, IF i \in Corporate THEN "ack" ELSE "mark")
    /\ UNCHANGED <<stripeVars, paid, found, historyVars, failures>>

\* Mutant: the claim stays when the mail has failed.
RevertKeepsMark(w) ==
    /\ At(w, "revert")
    /\ dropped' = dropped \cup {Of(w)}
    /\ Goto(w, "ack")
    /\ UNCHANGED <<stripeVars, paid, found, mails, overlap, unrecorded, stuck, missed, failures>>

\* The mail of a company's invoice failed: the mark is taken back, the error
\* is logged, and the request goes on as if nothing had happened.
Revert(w) ==
    LET i == Of(w) IN
    /\ At(w, "revert")
    /\ mark' = [mark EXCEPT ![i] = FALSE]
    /\ dropped' = dropped \cup {i}
    /\ Goto(w, "ack")
    /\ UNCHANGED <<stage, emitted, answered, paid, found, mails, overlap,
                   unrecorded, stuck, missed, failures>>

\* An individual's invoice is marked after it is mailed.
Mark(w) ==
    /\ At(w, "mark")
    /\ mark' = [mark EXCEPT ![Of(w)] = TRUE]
    /\ Goto(w, "ack")
    /\ UNCHANGED <<stage, emitted, answered, paid, found, mails, historyVars, failures>>

\* What onInvoicePaid still does for a company's row is in BillingSync; here it
\* only can fail, and the event then stays unanswered (Die).
Acknowledge(w) ==
    /\ At(w, "ack")
    /\ answered' = answered \cup {req[w].ev}
    /\ req' = [req EXCEPT ![w] = Idle]
    /\ UNCHANGED <<stage, mark, emitted, paid, found, mails, historyVars, failures>>

-------------------------------------------------------------------------------
(* Failures.                                                               *)

Fail ==
    /\ failures < MaxFailure
    /\ failures' = failures + 1

\* Stripe does not get the answer, or sends an answered event again.
Resend(e) ==
    /\ Fail
    /\ e \in answered
    /\ answered' = answered \ {e}
    /\ UNCHANGED <<stage, mark, emitted, paid, found, mails, req, historyVars>>

\* The PDF is not there after ten tries, or Stripe refuses the claim.
PrepareFails(w) ==
    LET i == Of(w) IN
    /\ Fail
    /\ req[w].pc \in {"read", "claim"}
    /\ dropped' = dropped \cup {i}
    /\ Goto(w, "ack")
    /\ UNCHANGED <<stripeVars, paid, found, mails, overlap, unrecorded, stuck, missed>>

\* A company's address cannot be looked up: this is after the claim and before
\* the part whose failure takes it back.
AddressFails(w) ==
    LET i == Of(w) IN
    /\ Fail
    /\ At(w, "send") /\ i \in Corporate
    /\ stuck' = stuck \cup {i}
    /\ dropped' = dropped \cup {i}
    /\ Goto(w, "ack")
    /\ UNCHANGED <<stripeVars, paid, found, mails, overlap, unrecorded, missed>>

\* SES reports a failure; the mail may have gone out all the same.
SendFails(w) ==
    LET i == Of(w) IN
    /\ Fail
    /\ At(w, "send")
    /\ Goto(w, IF i \in Corporate THEN "revert" ELSE "ack")
    /\ dropped' = IF i \in Corporate THEN dropped ELSE dropped \cup {i}
    /\ \E out \in {0, 1} :
          /\ mails' = [mails EXCEPT ![i] = @ + out]
          /\ unrecorded' = [unrecorded EXCEPT ![i] = @ + out]
    /\ UNCHANGED <<stripeVars, paid, found, overlap, stuck, missed>>

\* The claim cannot be taken back: best effort.
RevertFails(w) ==
    LET i == Of(w) IN
    /\ Fail
    /\ At(w, "revert")
    /\ stuck' = stuck \cup {i}
    /\ dropped' = dropped \cup {i}
    /\ Goto(w, "ack")
    /\ UNCHANGED <<stripeVars, paid, found, mails, overlap, unrecorded, missed>>

\* The individual's mail is out and Stripe refuses the mark: only logged.
MarkFails(w) ==
    LET i == Of(w) IN
    /\ Fail
    /\ At(w, "mark")
    /\ unrecorded' = [unrecorded EXCEPT ![i] = @ + 1]
    /\ Goto(w, "ack")
    /\ UNCHANGED <<stripeVars, paid, found, mails, overlap, stuck, dropped, missed>>

\* The request dies, or an error outside the swallowed parts answers 500:
\* Stripe will send the event again.
Die(w) ==
    LET i == Of(w) IN
    /\ Fail
    /\ ~At(w, "idle")
    /\ req' = [req EXCEPT ![w] = Idle]
    /\ stuck' = IF \/ At(w, "send") /\ i \in Corporate
                   \/ At(w, "revert")
                THEN stuck \cup {i} ELSE stuck
    /\ unrecorded' = IF At(w, "mark")
                     THEN [unrecorded EXCEPT ![i] = @ + 1] ELSE unrecorded
    /\ UNCHANGED <<stripeVars, paid, found, mails, overlap, dropped, missed>>

-------------------------------------------------------------------------------
\* What a request does when nothing fails.
Handle(w) ==
    \/ Activate(w) \/ Resolve(w) \/ Read(w) \/ Claim(w) \/ Send(w) \/ Revert(w) \/ Mark(w)
    \/ Acknowledge(w)

Fails(w) ==
    \/ PrepareFails(w) \/ AddressFails(w) \/ SendFails(w) \/ RevertFails(w)
    \/ MarkFails(w) \/ Die(w)

Next ==
    \/ Waive
    \/ \E i \in Invoice : \/ OpenSession(i) \/ CompleteSession(i) \/ PayInvoice(i)
                         \/ NameSubscription(i) \/ ForgetCompany(i)
    \/ \E e \in answered : Resend(e)
    \/ \E w \in Request : \/ \E e \in emitted \ answered : Deliver(w, e)
                          \/ Handle(w)
                          \/ Fails(w)

Spec == Init /\ [][Next]_vars

\* Node runs every request it has accepted, and Stripe sends each unanswered
\* event again (for three days; a failure does not last that long here).
Fairness ==
    /\ \A w \in Request : WF_vars(Handle(w))
    /\ \A e \in Event : WF_vars(\E w \in Request : Deliver(w, e))

FairSpec == Spec /\ Fairness

-------------------------------------------------------------------------------
(* Properties.                                                             *)

TypeOK ==
    /\ stage \in [Invoice -> {"none", "open", "pending", "paid"}]
    /\ mark \in [Invoice -> BOOLEAN]
    /\ emitted \subseteq Event
    /\ answered \subseteq emitted
    /\ paid \in BOOLEAN
    /\ mails \in [Invoice -> Nat]
    /\ req \in [Request -> [pc : Pc, ev : Event \cup {NoEvent}]]
    /\ overlap \subseteq Invoice
    /\ unrecorded \in [Invoice -> Nat]
    /\ stuck \subseteq Invoice
    /\ dropped \subseteq Invoice
    /\ missed \subseteq Corporate
    /\ found \subseteq Corporate
    /\ failures \in Nat

\* An invoice is mailed once, however often its event is delivered, if no two
\* requests were mailing it at once; a mail whose sender was told of a failure,
\* or failed before it could set the mark, accounts for one more.  This is
\* what "idempotent via Stripe invoice metadata" amounts to.
MailedOnce ==
    \A i \in Invoice \ overlap : mails[i] <= 1 + unrecorded[i]

\* Whatever the order of events and requests, a mark that no request is about
\* to honour or to take back means that a mail went out, unless an attempt
\* died or failed and could not take it back.
MarkMeansMailed ==
    \A i \in Invoice :
        mark[i] => \/ mails[i] > 0
                   \/ i \in stuck
                   \/ \E w \in Request : Of(w) = i /\ req[w].pc \in {"send", "revert"}

\* A user whose session was completed and paid becomes a paid user, and every
\* paid invoice is mailed, unless a handler did not find the invoice's company,
\* or an attempt ended in a stuck mark or in an error the handler kept to
\* itself: requests that die before they have marked an invoice cost nothing
\* but time.
PaymentIsServed ==
    /\ \A i \in Personal :
          ([type |-> "completed", inv |-> i] \in emitted) ~> paid
    /\ \A i \in Invoice :
          (stage[i] = "paid") ~>
              (mails[i] > 0 \/ i \in stuck \/ i \in dropped \/ i \in missed)

\* A paid invoice of a company whose row is there in the end is mailed, when
\* nothing fails: "Auto-sends a paid company invoice to finance/billing contact
\* or company admin."
CompanyInvoiceIsMailed ==
    \A i \in Corporate :
        <>[](i \in found) => ((stage[i] = "paid") ~> (mails[i] > 0))
===============================================================================
