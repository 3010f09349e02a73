------------------------------ MODULE BillingSync ------------------------------
(***************************************************************************)
(* How one company's billing row follows Stripe.                           *)
(*                                                                         *)
(* createCheckoutSession opens Checkout sessions for the company; the      *)
(* customer completes them on Stripe's pages; from then on Stripe owns the *)
(* subscription and tells the backend about it only through webhook        *)
(* events, each handled by a request of its own (a Worker here) that       *)
(* awaits Stripe, Postgres and Cognito between its steps.  The last part   *)
(* of most handlers blocks or unblocks the company's end users, which the  *)
(* Super Admin's suspend and reinstate operations do as well.              *)
(*                                                                         *)
(* A subscription is named by the Checkout session that created it.  One   *)
(* linked end user stands for all of them: the loops over users treat each *)
(* alike, and a loop that throws half way has or has not reached this one. *)
(***************************************************************************)
EXTENDS Naturals

CONSTANTS Session,      \* Checkout sessions the company may open
          Worker,       \* webhook requests that may run at the same time
          None,         \* a null column, no event
          Ordered,      \* TRUE: events arrive oldest first and once each
          AdminActs,    \* TRUE: the Super Admin suspends and reinstates
          MaxEvent,     \* bound: events Stripe emits
          MaxFailure    \* bound: handler requests that throw or crash

ASSUME BillingAssumption ==
    /\ None \notin Session
    /\ Ordered \in BOOLEAN
    /\ AdminActs \in BOOLEAN
    /\ MaxEvent \in Nat
    /\ MaxFailure \in Nat

ActiveStatus == {"trialing", "active"}
Status       == ActiveStatus \cup {"past_due", "canceled"}
Mode         == {"subscription", "payment"}
Fee          == {"no", "now", "deferred"}

VARIABLES
    session,    \* Stripe: the Checkout sessions
    sub,        \* Stripe: status of the subscription each session created
    items,      \* Stripe: implementation-fee InvoiceItems not yet invoiced
    keys,       \* Stripe: idempotency keys already used (one per session)
    billed,     \* Stripe: implementation fees paid for through each session
    overlap,    \* history: two sessions were paid for at the same time
    latest,     \* history: the session completed last
    events,     \* webhook events Stripe has not seen acknowledged
    emitted,    \* number of events Stripe has emitted
    row,        \* Postgres: the billing columns of corporation_companies
    company,    \* Postgres: corporation_companies.status
    user,       \* the end user: app_users.status and the Cognito account
    wk,         \* the webhook requests
    admin,      \* the suspend or reinstate request in progress
    failures    \* number of requests that have failed

stripeVars == <<session, sub, items, keys, billed, overlap, latest>>
eventVars  == <<events, emitted>>
vars == <<stripeVars, eventVars, row, company, user, wk, admin, failures>>

NoSession == [stage |-> "none", mode |-> "subscription", trial |-> FALSE, fee |-> "no"]
Idle      == [pc |-> "idle", ev |-> None, status |-> "canceled"]

\* An "unpaid" event is a checkout.session.completed whose payment_status is
\* not "paid".
EventType == {"completed", "unpaid", "updated", "deleted", "paid", "failed"}

Event == [n : Nat, type : EventType, s : Session,
          status : Status, lines : Nat]

\* Where a webhook request stands: the await it is about to make.
Pc == {"idle", "retrieve", "write", "attach", "sync", "dbEnable", "cognitoEnable",
       "cognitoDisable", "dbBlock", "ack"}

Init ==
    /\ session = [s \in Session |-> NoSession]
    /\ sub = [s \in Session |-> "none"]
    /\ items = [s \in Session |-> 0]
    /\ keys = {}
    /\ billed = [s \in Session |-> 0]
    /\ overlap = FALSE
    /\ latest = None
    /\ events = {}
    /\ emitted = 0
    /\ row = [status |-> "none", subId |-> None, last |-> None, fee |-> FALSE]
    /\ company = "ACTIVE"
    /\ user = [db |-> "Active", cognito |-> TRUE]
    /\ wk = [w \in Worker |-> Idle]
    /\ admin = "idle"
    /\ failures = 0

-------------------------------------------------------------------------------
(* Checkout: the request that opens a session. *)

\* The fee a session carries: none once it has been charged (or on a one-time
\* plan), on the first post-trial invoice when there is a trial, else at once.
FeeOf(mode, trial) ==
    IF mode = "payment" \/ row.fee THEN "no"
    ELSE IF trial THEN "deferred" ELSE "now"

\* createCheckoutSession.  Its reads and the final sessions.create are one
\* step: until the customer completes the session nothing can see it.
CreateCheckout(s, mode, trial) ==
    /\ session[s].stage = "none"
    /\ company # "CLOSED"
    /\ row.status \notin ActiveStatus
    /\ mode = "payment" => ~trial
    /\ session' = [session EXCEPT ![s] =
                     [stage |-> "open", mode |-> mode, trial |-> trial,
                      fee |-> FeeOf(mode, trial)]]
    /\ UNCHANGED <<sub, items, keys, billed, overlap, latest, eventVars, row,
                   company, user, wk, admin, failures>>

-------------------------------------------------------------------------------
(* Stripe: what happens to sessions and subscriptions, and the events.     *)

\* An event: its session, the subscription's status, and how many deferred-fee
\* lines the invoice bills.
Ev(k, type, s, status, lines) ==
    [n |-> emitted + k, type |-> type, s |-> s, status |-> status,
     lines |-> lines]

Emit(new, count) ==
    /\ emitted + count <= MaxEvent
    /\ events' = events \cup new
    /\ emitted' = emitted + count

\* A subscription that still runs, or a one-time purchase, which never ends.
Live(s) == /\ session[s].stage = "complete"
           /\ sub[s] # "canceled"

\* The customer pays for an open session.  Stripe emits the completion and,
\* for a subscription, the first paid invoice, in either order.
CompleteCheckout(s) ==
    /\ session[s].stage = "open"
    /\ session' = [session EXCEPT ![s].stage = "complete"]
    /\ latest' = s
    /\ overlap' = (overlap \/ \E t \in Session : Live(t))
    /\ \/ /\ session[s].mode = "payment"
          /\ Emit({Ev(1, "completed", s, "active", 0)}, 1)
          /\ UNCHANGED <<sub, billed>>
       \/ /\ session[s].mode = "subscription"
          /\ LET status == IF session[s].trial THEN "trialing" ELSE "active"
             IN  /\ sub' = [sub EXCEPT ![s] = status]
                 /\ \E k \in {1, 2} :
                       Emit({Ev(k, "completed", s, status, 0),
                             Ev(3 - k, "paid", s, status, 0)}, 2)
          /\ billed' = [billed EXCEPT ![s] =
                          @ + IF session[s].fee = "now" THEN 1 ELSE 0]
    /\ UNCHANGED <<items, keys, row, company, user, wk, admin, failures>>

\* The customer finishes a one-time Checkout with nothing paid: the payment
\* method takes days, or promotion codes leave nothing to pay.
CompleteUnpaid(s) ==
    /\ session[s].stage = "open"
    /\ session[s].mode = "payment"
    /\ session' = [session EXCEPT ![s].stage = "unpaid"]
    /\ Emit({Ev(1, "unpaid", s, "active", 0)}, 1)
    /\ UNCHANGED <<sub, items, keys, billed, overlap, latest, row, company, user,
                   wk, admin, failures>>

\* The payment under way arrives.  Stripe says so with a
\* checkout.session.async_payment_succeeded and the invoice.paid of an invoice
\* without a subscription, and no handler acts on either.
PaymentArrives(s) ==
    /\ session[s].stage = "unpaid"
    /\ session' = [session EXCEPT ![s].stage = "late"]
    /\ UNCHANGED <<sub, items, keys, billed, overlap, latest, eventVars, row,
                   company, user, wk, admin, failures>>

\* A renewal, post-trial or retried invoice is paid: it bills the pending
\* items, and the subscription is (again) active.
PayInvoice(s) ==
    /\ sub[s] \in {"trialing", "active", "past_due"}
    /\ sub' = [sub EXCEPT ![s] = "active"]
    /\ items' = [items EXCEPT ![s] = 0]
    /\ billed' = [billed EXCEPT ![s] = @ + items[s]]
    /\ Emit({Ev(1, "paid", s, "active", items[s]),
             Ev(2, "updated", s, "active", 0)}, 2)
    /\ UNCHANGED <<session, keys, overlap, latest, row, company, user, wk,
                   admin, failures>>

\* Collecting an invoice fails.
FailInvoice(s) ==
    /\ sub[s] \in ActiveStatus
    /\ sub' = [sub EXCEPT ![s] = "past_due"]
    /\ Emit({Ev(1, "failed", s, "past_due", 0),
             Ev(2, "updated", s, "past_due", 0)}, 2)
    /\ UNCHANGED <<session, items, keys, billed, overlap, latest, row, company,
                   user, wk, admin, failures>>

\* The subscription ends: at the period end after a cancellation, or when
\* Stripe gives up collecting.
EndSubscription(s) ==
    /\ sub[s] \in Status \ {"canceled"}
    /\ sub' = [sub EXCEPT ![s] = "canceled"]
    /\ Emit({Ev(1, "deleted", s, "canceled", 0)}, 1)
    /\ UNCHANGED <<session, items, keys, billed, overlap, latest, row, company,
                   user, wk, admin, failures>>

\* cancelCompanySubscriptionForAdmin and reinstateCompanySubscriptionForAdmin
\* flip cancel_at_period_end on the subscription the row names; Stripe
\* reports it with the status unchanged, and the row is not written.
ToggleCancelAtPeriodEnd(s) ==
    /\ row.subId = s
    /\ sub[s] # "canceled"
    /\ Emit({Ev(1, "updated", s, sub[s], 0)}, 1)
    /\ UNCHANGED <<stripeVars, row, company, user, wk, admin, failures>>

-------------------------------------------------------------------------------
(* handleWebhookEvent: one request per delivery, one step per await.       *)

Goto(w, pc) == wk' = [wk EXCEPT ![w].pc = pc]

FirstStepIgnoresPayment(e) ==
    CASE e.type = "completed" /\ session[e.s].mode = "subscription" -> "retrieve"
      [] e.type \in {"completed", "unpaid"} /\ session[e.s].mode = "payment" ->
            IF row.status = "active" /\ row.last = e.s THEN "ack" ELSE "write"
      [] e.type = "paid"   -> IF row.subId = e.s THEN "retrieve" ELSE "ack"
      [] e.type = "failed" -> "retrieve"
      [] OTHER             -> "write"

\* Where a handler goes first.  The reads it makes of the company row before
\* its first write are part of this step: a one-time checkout that is not paid
\* or already recorded, and a paid invoice of a subscription that the row does
\* not name, are acknowledged with nothing done.
FirstStep(e) ==
    CASE e.type = "completed" /\ session[e.s].mode = "subscription" -> "retrieve"
      [] e.type = "completed" /\ session[e.s].mode = "payment" ->
            IF row.status = "active" /\ row.last = e.s THEN "ack" ELSE "write"
      [] e.type = "unpaid" -> "ack"
      [] e.type = "paid"   -> IF row.subId = e.s THEN "retrieve" ELSE "ack"
      [] e.type = "failed" -> "retrieve"
      [] OTHER             -> "write"

MarksFeeOnAnyInvoice(e) == e.type = "paid" /\ row.subId = e.s

MarksFeeNever(e) == FALSE

\* onInvoicePaid marks the fee as charged when the invoice bills our item.
MarksFee(e) == e.type = "paid" /\ row.subId = e.s /\ e.lines > 0

Deliver(w, e) ==
    /\ wk[w].pc = "idle"
    /\ e \in events
    /\ Ordered => /\ \A v \in Worker : wk[v].pc = "idle"
                  /\ \A f \in events : e.n <= f.n
    /\ wk' = [wk EXCEPT ![w] = [pc |-> FirstStep(e), ev |-> e,
                                status |-> e.status]]
    /\ row' = [row EXCEPT !.fee = @ \/ MarksFee(e)]
    /\ UNCHANGED <<stripeVars, eventVars, company, user, admin, failures>>

\* stripe.subscriptions.retrieve: the status at this moment, used later.
RetrieveSubscription(w) ==
    /\ wk[w].pc = "retrieve"
    /\ wk' = [wk EXCEPT ![w].pc = "write", ![w].status = sub[wk[w].ev.s]]
    /\ UNCHANGED <<stripeVars, eventVars, row, company, user, admin, failures>>

\* What each handler writes to the row; the status is the retrieved one, or
\* the one the event carries.
CheckoutWrite(s, status) ==
    [row EXCEPT !.status = status, !.subId = s,
                !.fee = @ \/ session[s].fee = "now"]

PaymentWrite(s) ==
    [row EXCEPT !.status = "active", !.subId = None, !.last = s]

UpdateWrite(s, status) == [row EXCEPT !.status = status, !.subId = s]

DeleteWriteEventName == [row EXCEPT !.status = "deleted", !.subId = None]

DeleteWrite == [row EXCEPT !.status = "canceled", !.subId = None]

RowAfter(e, status) ==
    CASE e.type = "completed" /\ session[e.s].mode = "subscription" ->
            CheckoutWrite(e.s, status)
      [] e.type \in {"completed", "unpaid"} /\ session[e.s].mode = "payment" ->
            PaymentWrite(e.s)
      [] e.type = "deleted" -> DeleteWrite
      [] OTHER -> UpdateWrite(e.s, status)

AfterWriteSkipsSync(e) ==
    IF e.type = "completed" /\ session[e.s].fee = "deferred" THEN "attach"
    ELSE IF e.type \in {"completed", "deleted"} THEN "ack" ELSE "sync"

AfterWrite(e) ==
    IF e.type \in {"completed", "unpaid"}
    THEN IF session[e.s].fee = "deferred" THEN "attach" ELSE "ack"
    ELSE "sync"

WriteRow(w) ==
    /\ wk[w].pc = "write"
    /\ row' = RowAfter(wk[w].ev, wk[w].status)
    /\ Goto(w, AfterWrite(wk[w].ev))
    /\ UNCHANGED <<stripeVars, eventVars, company, user, admin, failures>>

AttachWithoutKey(w) ==
    /\ wk[w].pc = "attach"
    /\ items' = [items EXCEPT ![wk[w].ev.s] = @ + 1]
    /\ Goto(w, "ack")
    /\ UNCHANGED <<session, sub, keys, billed, overlap, latest, eventVars, row,
                   company, user, admin, failures>>

\* attachDeferredSubscriptionInvoiceItemsIfNeeded: Stripe creates the item
\* only the first time it sees the session's idempotency key.
AttachDeferredItems(w) ==
    LET s == wk[w].ev.s IN
    /\ wk[w].pc = "attach"
    /\ items' = IF s \in keys THEN items ELSE [items EXCEPT ![s] = @ + 1]
    /\ keys' = keys \cup {s}
    /\ Goto(w, "ack")
    /\ UNCHANGED <<session, sub, billed, overlap, latest, eventVars, row,
                   company, user, admin, failures>>

\* syncEndUserAccessForSubscription reads the company status once, and
\* decides; the calls to Postgres and Cognito come after.
SyncEndUserAccess(w) ==
    /\ wk[w].pc = "sync"
    /\ Goto(w, IF company \in {"SUSPENDED", "CLOSED"} THEN "ack"
               ELSE IF wk[w].status \in ActiveStatus THEN "dbEnable"
               ELSE "cognitoDisable")
    /\ UNCHANGED <<stripeVars, eventVars, row, company, user, admin, failures>>

\* enableLinkedEndUsersForCompany: Postgres, then Cognito.
EnableInDb(w) ==
    /\ wk[w].pc = "dbEnable"
    /\ user' = [user EXCEPT !.db = "Active"]
    /\ Goto(w, "cognitoEnable")
    /\ UNCHANGED <<stripeVars, eventVars, row, company, admin, failures>>

EnableInCognito(w) ==
    /\ wk[w].pc = "cognitoEnable"
    /\ user' = [user EXCEPT !.cognito = TRUE]
    /\ Goto(w, "ack")
    /\ UNCHANGED <<stripeVars, eventVars, row, company, admin, failures>>

DisableInCognitoOnly(w) ==
    /\ wk[w].pc = "cognitoDisable"
    /\ user' = [user EXCEPT !.cognito = FALSE]
    /\ Goto(w, "ack")
    /\ UNCHANGED <<stripeVars, eventVars, row, company, admin, failures>>

\* disableLinkedEndUsersForCompany: Cognito, then Postgres.
DisableInCognito(w) ==
    /\ wk[w].pc = "cognitoDisable"
    /\ user' = [user EXCEPT !.cognito = FALSE]
    /\ Goto(w, "dbBlock")
    /\ UNCHANGED <<stripeVars, eventVars, row, company, admin, failures>>

BlockInDb(w) ==
    /\ wk[w].pc = "dbBlock"
    /\ user' = [user EXCEPT !.db = "Blocked"]
    /\ Goto(w, "ack")
    /\ UNCHANGED <<stripeVars, eventVars, row, company, admin, failures>>

\* The request answers 200 and Stripe forgets the event ...
Acknowledge(w) ==
    /\ wk[w].pc = "ack"
    /\ events' = events \ {wk[w].ev}
    /\ wk' = [wk EXCEPT ![w] = Idle]
    /\ UNCHANGED <<stripeVars, emitted, row, company, user, admin, failures>>

\* ... or the request throws, crashes, or its answer is lost: Stripe will
\* deliver the event again, whatever the request had done.
RequestFails(w) ==
    /\ wk[w].pc # "idle"
    /\ failures < MaxFailure
    /\ failures' = failures + 1
    /\ wk' = [wk EXCEPT ![w] = Idle]
    /\ UNCHANGED <<stripeVars, eventVars, row, company, user, admin>>

-------------------------------------------------------------------------------
(* The Super Admin suspends and reinstates the company, closing it with its *)
(* corporation included; each request has one step per await.               *)

\* Suspending needs an ACTIVE company; closing a corporation closes its
\* companies whatever their status.  Cognito first ...
BeginSuspend(target) ==
    /\ AdminActs
    /\ admin = "idle"
    /\ company # "CLOSED"
    /\ target = "SUSPENDED" => company = "ACTIVE"
    /\ user' = [user EXCEPT !.cognito = FALSE]
    /\ admin' = target
    /\ UNCHANGED <<stripeVars, eventVars, row, company, wk, failures>>

\* ... then company and end users in one transaction.
FinishSuspend ==
    /\ admin \in {"SUSPENDED", "CLOSED"}
    /\ company' = admin
    /\ user' = [user EXCEPT !.db = "Blocked"]
    /\ admin' = "idle"
    /\ UNCHANGED <<stripeVars, eventVars, row, wk, failures>>

\* reinstateCompany: the transaction first, then Cognito.
BeginReinstate ==
    /\ AdminActs
    /\ admin = "idle"
    /\ company = "SUSPENDED"
    /\ company' = "ACTIVE"
    /\ user' = [user EXCEPT !.db = "Active"]
    /\ admin' = "ACTIVE"
    /\ UNCHANGED <<stripeVars, eventVars, row, wk, failures>>

FinishReinstate ==
    /\ admin = "ACTIVE"
    /\ user' = [user EXCEPT !.cognito = TRUE]
    /\ admin' = "idle"
    /\ UNCHANGED <<stripeVars, eventVars, row, company, wk, failures>>

\* The request throws between its two steps; nothing retries it.
AdminFails ==
    /\ admin # "idle"
    /\ failures < MaxFailure
    /\ failures' = failures + 1
    /\ admin' = "idle"
    /\ UNCHANGED <<stripeVars, eventVars, row, company, user, wk>>

-------------------------------------------------------------------------------
StripeNext ==
    \E s \in Session :
        \/ \E mode \in Mode, trial \in BOOLEAN : CreateCheckout(s, mode, trial)
        \/ CompleteCheckout(s)
        \/ CompleteUnpaid(s)
        \/ PaymentArrives(s)
        \/ PayInvoice(s)
        \/ FailInvoice(s)
        \/ EndSubscription(s)
        \/ ToggleCancelAtPeriodEnd(s)

\* The steps of a request that has begun.
Handle(w) ==
    \/ RetrieveSubscription(w)
    \/ WriteRow(w)
    \/ AttachDeferredItems(w)
    \/ SyncEndUserAccess(w)
    \/ EnableInDb(w)
    \/ EnableInCognito(w)
    \/ DisableInCognito(w)
    \/ BlockInDb(w)
    \/ Acknowledge(w)

AdminNext ==
    \/ \E target \in {"SUSPENDED", "CLOSED"} : BeginSuspend(target)
    \/ FinishSuspend
    \/ BeginReinstate
    \/ FinishReinstate
    \/ AdminFails

Next ==
    \/ StripeNext
    \/ \E w \in Worker : \/ \E e \in events : Deliver(w, e)
                         \/ Handle(w)
                         \/ RequestFails(w)
    \/ AdminNext

\* Stripe redelivers until it is answered, and a request that has begun goes
\* on; nobody is obliged to pay, cancel, suspend or reinstate.
Fairness ==
    \A w \in Worker : /\ WF_vars(\E e \in events : Deliver(w, e))
                      /\ WF_vars(Handle(w))

Spec == Init /\ [][Next]_vars /\ Fairness

-------------------------------------------------------------------------------
\* How far a session got: Checkout finished with nothing paid is "unpaid", and
\* "late" once the payment has arrived.
Stage == {"none", "open", "unpaid", "late", "complete"}

StripeTypeOK ==
    /\ session \in [Session -> [stage : Stage,
                                mode : Mode, trial : BOOLEAN, fee : Fee]]
    /\ sub \in [Session -> Status \cup {"none"}]
    /\ items \in [Session -> Nat]
    /\ keys \subseteq Session
    /\ billed \in [Session -> Nat]
    /\ overlap \in BOOLEAN
    /\ latest \in Session \cup {None}

EventTypeOK == events \subseteq Event /\ emitted \in Nat

RowTypeOK == row \in [status : Status \cup {"none"}, subId : Session \cup {None},
                      last : Session \cup {None}, fee : BOOLEAN]

AccessTypeOK ==
    /\ company \in {"ACTIVE", "SUSPENDED", "CLOSED"}
    /\ user \in [db : {"Active", "Blocked"}, cognito : BOOLEAN]
    /\ admin \in {"idle", "ACTIVE", "SUSPENDED", "CLOSED"}

RequestTypeOK ==
    /\ wk \in [Worker -> [pc : Pc, ev : Event \cup {None},
                          status : Status \cup {"none"}]]
    /\ failures \in Nat

\* Every variable holds a value of its type.
TypeOK == StripeTypeOK /\ EventTypeOK /\ RowTypeOK /\ AccessTypeOK /\ RequestTypeOK

\* No delivery is outstanding and no request is running.
Quiet == events = {} /\ \A w \in Worker : wk[w].pc = "idle"

\* However often an event is redelivered, interrupted half way or handled
\* twice at once, the implementation fee is billed at most once per checkout:
\* the item of a deferred fee is created under the session's idempotency key.
FeeOncePerSession == \A s \in Session : items[s] + billed[s] <= 1

\* implementationFeeChargedAt is set only when the fee really was paid for,
\* whichever handler sets it and whatever was delivered before: a fee that is
\* still deferred, or a checkout without one, never marks the row.
FeeMarkIsHonest == row.fee => \E s \in Session : billed[s] > 0

\* The converse, once every event is handled: a fee that was paid for is on
\* record, so that the next checkout does not charge it again.  Holds when
\* events come in order and purchases do not overlap.
PaidFeeIsRecorded ==
    Quiet /\ ~overlap => (row.fee <=> \E s \in Session : billed[s] > 0)

\* Once every event is handled, the row says what Stripe says about the last
\* purchase: the subscription and its status, or a one-time purchase.  As long
\* as nothing was paid for, a Checkout finished without payment included, it
\* says nothing.
RowFollowsStripe ==
    Quiet /\ ~overlap =>
        IF latest = None THEN row.status = "none" /\ row.subId = None
        ELSE IF session[latest].mode = "payment"
        THEN row.status = "active" /\ row.subId = None
        ELSE /\ row.status = sub[latest]
             /\ row.subId = IF sub[latest] = "canceled" THEN None ELSE latest

\* Once every event is handled, a subscription that has ended leaves no access
\* behind: "Marks the company row canceled and clears `stripeSubscriptionId`
\* when the Stripe subscription is deleted", in whatever order events came.
EndLeavesNoAccess ==
    Quiet /\ ~overlap /\ latest # None =>
        (sub[latest] = "canceled" => row.status \notin ActiveStatus)

\* Once every event is handled, a one-time Checkout that is paid for gives the
\* company access, the payment that arrives late included: "After one-time
\* Checkout, updates company billing state without a Stripe Subscription."
LatePaymentCounts ==
    Quiet /\ latest = None /\ (\E s \in Session : session[s].stage = "late") =>
        row.status = "active"

\* Once every event is handled, a company whose subscription lapsed has its
\* end users blocked, in Postgres and in Cognito alike.
LapseBlocksUsers ==
    Quiet /\ row.status \in {"past_due", "canceled"} =>
        user.db = "Blocked" /\ ~user.cognito

\* Once every event is handled, Postgres and Cognito agree about the user.
AccessRecordsAgree ==
    Quiet /\ admin = "idle" => (user.db = "Active" <=> user.cognito)

\* Once every event is handled, a company whose subscription is restored has
\* its end users unblocked: "When subscription lapses or is restored, block or
\* unblock company end users" (company.service.ts).
RestoreUnblocksUsers ==
    Quiet /\ row.status \in ActiveStatus => user.db = "Active" /\ user.cognito

\* When the subscription bought last ends, and no two purchases overlapped,
\* the end users are blocked in the end, though handlers throw and are retried.
EndEventuallyBlocks ==
    \A s \in Session :
        (~overlap /\ latest = s /\ sub[s] = "canceled")
            ~> (latest # s \/ overlap \/ (user.db = "Blocked" /\ ~user.cognito))
===============================================================================
