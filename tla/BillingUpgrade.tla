----------------------------- MODULE BillingUpgrade -----------------------------
(***************************************************************************)
(* A Super Admin moves one company to a dearer plan                        *)
(* (StripeService.applyBillingUpgradeForAdmin).                            *)
(*                                                                         *)
(* A request reads the company twice, gives the price of a one-time plan   *)
(* back as credit, changes the Stripe subscription or creates one, has its *)
(* invoice paid, and only then writes three tables: the plan of the row,   *)
(* the price of the seats and the record of the action.  When something    *)
(* fails before the tables, the credit is taken back; nothing else is.     *)
(*                                                                         *)
(* Each request runs once, so the invoice it causes and the subscription   *)
(* it may create bear its name.  Requests overlap as they like; any await  *)
(* may throw, and a call that throws has had no effect.  Around them the   *)
(* customer pays or does not, trials and subscriptions end, and webhook    *)
(* events arrive in any order.  What those do to the company's end users is in           *)
(* BillingSync.                                                            *)
(***************************************************************************)
EXTENDS Naturals, FiniteSets

CONSTANTS Plan,         \* the pricing plans that may be chosen
          Request,      \* the upgrades ever asked for
          First,        \* the subscription that came from Checkout
          None

PlanType == {"one_time", "annual", "monthly"}

\* The level is employeeRangeMax, 0 where the column is null.  The one-time
\* plan is an individual's and has no range (prisma/seed-pricing.ts).
ASSUME UpgradeAssumption ==
    /\ Plan \subseteq [type : PlanType, level : Nat]
    /\ \A p \in Plan : p.type = "one_time" => p.level = 0
    /\ First \notin Request
    /\ None \notin Request \cup {First}

Sub == Request \cup {First}

VARIABLES
    sub,        \* Stripe: the subscriptions, and the request behind the latest invoice
    newest,     \* Stripe: the customer's youngest subscription
    paid,       \* Stripe: the requests whose invoice is settled
    credit,     \* Stripe: the requests whose credit is on the customer's balance
    news,       \* the webhook events there have been
    row,        \* Postgres: corporation_companies, its plan and Stripe columns
    seat,       \* Postgres: company_plan_seats, the plan whose price it shows
    log,        \* Postgres: the plan the newest plan_upgrade record names
    req,        \* the requests
    start,      \* history: the plan the company had first
    sound,      \* history: the last request to touch Stripe was alone and finished
    clean       \* history: all of them were

vars == <<sub, newest, paid, credit, news, row, seat, log, req, start, sound, clean>>

stripeVars  == <<sub, newest, paid, credit, news>>
tableVars   == <<row, seat, log>>
historyVars == <<start, sound, clean>>

NoSub == [status |-> "none", plan |-> None, latest |-> None, ending |-> FALSE]

New == [pc |-> "new", target |-> None, sub |-> None, due |-> FALSE,
        alone |-> TRUE, torn |-> FALSE]

\* A company that completed its checkout: a one-time purchase, or a
\* subscription, whose id the row may lack.  A monthly one may be in its trial.
Init ==
    /\ \E p \in Plan : \E id \in {First, None} : \E status \in {"active", "trialing"} :
         LET once == p.type = "one_time" IN
         /\ once => id = None
         /\ ~once => p.level # 0
         /\ status = "trialing" => p.type = "monthly"
         /\ sub = [s \in Sub |-> IF s = First /\ ~once
                                 THEN [NoSub EXCEPT !.status = status, !.plan = p]
                                 ELSE NoSub]
         /\ newest = IF once THEN None ELSE First
         /\ row = [plan |-> p, sub |-> id, status |-> status]
         /\ seat = p
         /\ log = p
         /\ start = p
    /\ paid = {}
    /\ credit = {}
    /\ news = {}
    /\ req = [r \in Request |-> New]
    /\ sound = TRUE
    /\ clean = TRUE

-------------------------------------------------------------------------------
(* Which plans are an upgrade (stripe-billing-upgrade.util.ts).            *)

TypeRank == [one_time |-> 0, annual |-> 1, monthly |-> 2]

\* A dearer type, or more seats of the same one.
Above(p, q) == \/ TypeRank[p.type] > TypeRank[q.type]
               \/ p.type = q.type /\ p.level > q.level

\* Mutant: more seats are enough, whatever the type.
AllowedByLevel(current, target) ==
    /\ target.level # 0
    /\ target # current
    /\ target.level > current.level

\* validateBillingUpgrade, for plans that are in the table.
Allowed(current, target) ==
    /\ target.level # 0
    /\ target # current
    /\ TypeRank[target.type] >= TypeRank[current.type]
    /\ target.type = current.type /\ current.level # 0 => target.level > current.level

\* UPGRADE_ELIGIBLE_STATUSES.
EligibleStatus == {"active", "trialing", "past_due"}

\* assertCompanyEligibleForUpgrade.
Eligible == \/ row.plan.type = "one_time"
            \/ row.plan.level # 0 /\ row.status \in EligibleStatus

\* retrieveUpgradeStripeSubscription, which refuses what has ended and what
\* was never paid.
Usable(s) == sub[s].status \in EligibleStatus

\* Mutant: whatever the plan was.
CreditDueAlways(plan) == BOOLEAN

\* The price of a one-time plan is credited unless a report was generated,
\* which is not followed here.
CreditDue(plan) == IF plan.type = "one_time" THEN BOOLEAN ELSE {FALSE}

-------------------------------------------------------------------------------
(* The requests.                                                           *)

At(r, pc) == req[r].pc = pc

Active(r) == req[r].pc \notin {"new", "done"}

Goto(r, pc) == req' = [req EXCEPT ![r].pc = pc]

\* Only what was asked for is remembered, and whether a credit was left behind.
Finish(r, torn) ==
    req' = [req EXCEPT ![r] = [pc |-> "done", target |-> req[r].target, sub |-> None,
                               due |-> FALSE, alone |-> TRUE, torn |-> torn]]

\* A request that ends after it changed Stripe leaves something behind.
Untouched(r) == req[r].pc \in {"read", "credit", "change"}

\* previewBillingUpgradeForAdmin.  Another request under way means that both
\* are not alone.
Preview(r, target) ==
    LET alone == \A q \in Request : ~Active(q) IN
    /\ At(r, "new")
    /\ Eligible
    /\ Allowed(row.plan, target)
    /\ row.plan.type # "one_time" /\ row.sub # None => Usable(row.sub)
    /\ \E due \in CreditDue(row.plan) :
         req' = [q \in Request |->
                   IF q = r THEN [New EXCEPT !.pc = "read", !.target = target,
                                             !.due = due, !.alone = alone]
                   ELSE IF Active(q) THEN [req[q] EXCEPT !.alone = FALSE]
                   ELSE req[q]]
    /\ clean' = (clean /\ alone)
    /\ UNCHANGED <<stripeVars, tableVars, start, sound>>

\* resolveCompanyStripeSubscriptionIdForUpgrade.
SubscriptionId ==
    IF row.plan.type = "one_time" THEN None
    ELSE IF row.sub # None THEN row.sub ELSE newest

\* The row is read and checked again, and a payment method looked for.
ReadCompany(r) ==
    /\ At(r, "read")
    /\ Eligible
    /\ Allowed(row.plan, req[r].target)
    /\ req' = [req EXCEPT ![r].pc = IF req[r].due THEN "credit" ELSE "change",
                          ![r].sub = SubscriptionId]
    /\ UNCHANGED <<stripeVars, tableVars, historyVars>>

ApplyCredit(r) ==
    /\ At(r, "credit")
    /\ credit' = credit \cup {r}
    /\ Goto(r, "change")
    /\ UNCHANGED <<sub, newest, paid, news, tableVars, historyVars>>

\* Mutant: a refused payment leaves the credit where it is.
RefuseKeepsCredit(r) ==
    /\ IF req[r].due /\ At(r, "change") THEN Goto(r, "reverse") ELSE Finish(r, FALSE)
    /\ clean' = (clean /\ Untouched(r))
    /\ UNCHANGED <<stripeVars, tableVars, start, sound>>

\* Something throws inside the try block: the credit is taken back.
Refuse(r) ==
    /\ IF req[r].due THEN Goto(r, "reverse") ELSE Finish(r, FALSE)
    /\ clean' = (clean /\ Untouched(r))
    /\ UNCHANGED <<stripeVars, tableVars, start, sound>>

\* What Stripe has to tell about s: its status, an invoice of it that was
\* settled (invoice.paid), or both.
Updated(s, status) == [type |-> "updated", sub |-> s, status |-> status]

InvoicePaid(s) == [type |-> "paid", sub |-> s, status |-> "active"]

Emit(events) == news' = news \cup events

\* Stripe makes an invoice for the change and collects it, or not.
Collect(r) == paid' = paid \cup {r} \/ UNCHANGED paid

\* subscriptions.update, which also calls off a cancellation.  A trial may go
\* on, with nothing due on the invoice, or end with the change.
UpdateSubscription(r) ==
    LET s == req[r].sub IN
    /\ At(r, "change")
    /\ s # None
    /\ Usable(s)
    /\ Collect(r)
    /\ \E status \in IF r \in paid' THEN {"active", sub[s].status} \ {"past_due"}
                      ELSE {"past_due"} :
         /\ sub' = [sub EXCEPT ![s] = [status |-> status, plan |-> req[r].target,
                                       latest |-> r, ending |-> FALSE]]
         /\ Emit({Updated(s, status)} \cup IF r \in paid' THEN {InvoicePaid(s)} ELSE {})
    /\ Goto(r, "pay")
    /\ sound' = FALSE
    /\ UNCHANGED <<newest, credit, tableVars, start, clean>>

\* subscriptions.create.  A payment that fails makes the row take the new
\* subscription over; one that succeeds is heard only once the row names it.
CreateSubscription(r) ==
    /\ At(r, "change")
    /\ req[r].sub = None
    /\ Collect(r)
    /\ sub' = [sub EXCEPT ![r] =
          [status |-> IF r \in paid' THEN "active" ELSE "incomplete",
           plan |-> req[r].target, latest |-> r, ending |-> FALSE]]
    /\ Emit({IF r \in paid' THEN InvoicePaid(r) ELSE Updated(r, "incomplete")})
    /\ newest' = r
    /\ req' = [req EXCEPT ![r].pc = "pay", ![r].sub = r]
    /\ sound' = FALSE
    /\ UNCHANGED <<credit, tableVars, start, clean>>

ChangeRefused(r) == At(r, "change") /\ Refuse(r)

\* Stripe collects an open invoice of a subscription that has not ended; the
\* subscription's status follows its latest one.
Settle(r, s) ==
    /\ sub[s].status \in {"active", "past_due", "incomplete"}
    /\ paid' = paid \cup {r}
    /\ IF sub[s].latest = r
       THEN /\ sub' = [sub EXCEPT ![s].status = "active"]
            /\ Emit({Updated(s, "active"), InvoicePaid(s)})
       ELSE /\ UNCHANGED sub
            /\ Emit({InvoicePaid(s)})
    /\ UNCHANGED <<newest, credit>>

\* Mutant: a refused payment is not noticed.
PayUnchecked(r) ==
    /\ At(r, "pay")
    /\ UNCHANGED stripeVars
    /\ Goto(r, "row")
    /\ UNCHANGED <<tableVars, historyVars>>

\* payUpgradeInvoiceIfNeeded.
Pay(r) ==
    /\ At(r, "pay")
    /\ \/ r \in paid /\ UNCHANGED stripeVars
       \/ r \notin paid /\ Settle(r, req[r].sub)
    /\ Goto(r, "row")
    /\ UNCHANGED <<tableVars, historyVars>>

PayRefused(r) == At(r, "pay") /\ Refuse(r)

\* reverseOneTimeUpgradeCredit: an error is logged, and the credit stays.
ReverseCredit(r) ==
    /\ At(r, "reverse")
    /\ \/ /\ credit' = credit \ {r}
          /\ Finish(r, FALSE)
          /\ UNCHANGED clean
       \/ /\ Finish(r, TRUE)
          /\ clean' = FALSE
          /\ UNCHANGED credit
    /\ UNCHANGED <<sub, newest, paid, news, tableVars, start, sound>>

-------------------------------------------------------------------------------
(* The tables.                                                             *)

\* Mutant: the invoice's status is saved for the subscription's.
UpdateRowInvoiceStatus(r) ==
    /\ At(r, "row")
    /\ row' = [plan |-> req[r].target, sub |-> req[r].sub, status |-> "paid"]
    /\ Goto(r, "seat")
    /\ UNCHANGED <<stripeVars, seat, log, historyVars>>

UpdateRow(r) ==
    /\ At(r, "row")
    /\ row' = [plan |-> req[r].target, sub |-> req[r].sub, status |-> "active"]
    /\ Goto(r, "seat")
    /\ UNCHANGED <<stripeVars, seat, log, historyVars>>

\* Mutant: the price of the seats is left as it was.
UpdateSeatNever(r) ==
    /\ At(r, "seat")
    /\ Goto(r, "log")
    /\ UNCHANGED <<stripeVars, tableVars, historyVars>>

UpdateSeat(r) ==
    /\ At(r, "seat")
    /\ seat' = req[r].target
    /\ Goto(r, "log")
    /\ UNCHANGED <<stripeVars, row, log, historyVars>>

\* recordBillingPlanUpgradeAction; the e-mail that follows is not modelled.
RecordAction(r) ==
    /\ At(r, "log")
    /\ log' = req[r].target
    /\ Finish(r, FALSE)
    /\ sound' = req[r].alone
    /\ UNCHANGED <<stripeVars, row, seat, start, clean>>

\* The request is refused before the try block, a table cannot be written, or
\* the process stops.
Fail(r) ==
    /\ Active(r)
    /\ Finish(r, r \in credit \ paid)
    /\ clean' = (clean /\ Untouched(r) /\ r \notin credit)
    /\ UNCHANGED <<stripeVars, tableVars, start, sound>>

-------------------------------------------------------------------------------
(* The other operations of the billing page.                               *)

\* cancelCompanySubscriptionForAdmin, reinstateCompanySubscriptionForAdmin.
SetEnding(ending) ==
    /\ row.sub # None
    /\ sub[row.sub].status \in EligibleStatus
    /\ sub[row.sub].ending # ending
    /\ sub' = [sub EXCEPT ![row.sub].ending = ending]
    /\ UNCHANGED <<newest, paid, credit, news, tableVars, req, historyVars>>

\* retryCompanyPaymentForAdmin.
RetryPayment ==
    /\ row.sub # None
    /\ sub[row.sub].latest \in Request \ paid
    /\ Settle(sub[row.sub].latest, row.sub)
    /\ UNCHANGED <<tableVars, req, historyVars>>

-------------------------------------------------------------------------------
(* Stripe by itself, and its webhook.                                      *)

\* Stripe collects again later, or the customer follows the invoice's link.
CustomerPays(s) ==
    /\ sub[s].latest \in Request \ paid
    /\ Settle(sub[s].latest, s)
    /\ UNCHANGED <<tableVars, req, historyVars>>

\* A subscription whose first invoice is not paid in time expires.
Expire(s) ==
    /\ sub[s].status = "incomplete"
    /\ sub' = [sub EXCEPT ![s].status = "expired"]
    /\ Emit({Updated(s, "expired")})
    /\ UNCHANGED <<newest, paid, credit, tableVars, req, historyVars>>

\* A trial ends with an invoice that no request caused.
EndTrial(s) ==
    /\ sub[s].status = "trialing"
    /\ ~sub[s].ending
    /\ \E status \in {"active", "past_due"} :
         /\ sub' = [sub EXCEPT ![s].status = status, ![s].latest = None]
         /\ Emit({Updated(s, status)})
    /\ UNCHANGED <<newest, paid, credit, tableVars, req, historyVars>>

\* A subscription ends with its period, or because it stays unpaid.
EndSubscription(s) ==
    /\ \/ sub[s].status \in {"active", "trialing"} /\ sub[s].ending
       \/ sub[s].status = "past_due"
    /\ sub' = [sub EXCEPT ![s].status = "canceled"]
    /\ Emit({[type |-> "deleted", sub |-> s, status |-> "canceled"]})
    /\ UNCHANGED <<newest, paid, credit, tableVars, req, historyVars>>

\* onInvoicePaid asks Stripe for the status, and does so only for the
\* subscription the row names.
RowAfterInvoicePaid(s) ==
    IF row.sub = s THEN [row EXCEPT !.status = sub[s].status] ELSE row

\* onSubscriptionUpdated, which onInvoicePaymentFailed calls too, and
\* onSubscriptionDeleted: whichever subscription the event is about.  An event
\* may come late, again, or never.
Webhook(e) ==
    /\ e \in news
    /\ \/ /\ e.type = "updated"
          /\ row' = [row EXCEPT !.status = e.status, !.sub = e.sub]
       \/ /\ e.type = "deleted"
          /\ row' = [row EXCEPT !.status = "canceled", !.sub = None]
       \/ /\ e.type = "paid"
          /\ row' = RowAfterInvoicePaid(e.sub)
    /\ UNCHANGED <<stripeVars, seat, log, req, historyVars>>

-------------------------------------------------------------------------------
TryStep(r) ==
    \/ \E target \in Plan : Preview(r, target)
    \/ ReadCompany(r) \/ ApplyCredit(r)
    \/ UpdateSubscription(r) \/ CreateSubscription(r) \/ ChangeRefused(r)
    \/ Pay(r) \/ PayRefused(r) \/ ReverseCredit(r)

TableStep(r) == UpdateRow(r) \/ UpdateSeat(r) \/ RecordAction(r)

RequestStep == \E r \in Request : TryStep(r) \/ TableStep(r) \/ Fail(r)

AdminStep == (\E ending \in BOOLEAN : SetEnding(ending)) \/ RetryPayment

StripeStep ==
    \/ \E s \in Sub : CustomerPays(s) \/ Expire(s) \/ EndTrial(s) \/ EndSubscription(s)
    \/ \E e \in news : Webhook(e)

Next == RequestStep \/ AdminStep \/ StripeStep

Spec == Init /\ [][Next]_vars

-------------------------------------------------------------------------------
(* What holds.                                                             *)

Steps == {"new", "read", "credit", "change", "pay", "reverse", "row", "seat",
          "log", "done"}

Status == {"active", "trialing", "past_due", "incomplete", "expired", "canceled"}

Event == [type : {"updated", "deleted", "paid"}, sub : Sub, status : Status]

TypeOK ==
    /\ sub \in [Sub -> [status : Status \cup {"none"}, plan : Plan \cup {None},
                        latest : Request \cup {None}, ending : BOOLEAN]]
    /\ newest \in Sub \cup {None}
    /\ paid \subseteq Request
    /\ credit \subseteq Request
    /\ news \subseteq Event
    /\ row \in [plan : Plan, sub : Sub \cup {None}, status : Status]
    /\ seat \in Plan
    /\ log \in Plan
    /\ req \in [Request -> [pc : Steps, target : Plan \cup {None},
                            sub : Sub \cup {None}, due : BOOLEAN, alone : BOOLEAN, torn : BOOLEAN]]
    /\ start \in Plan
    /\ sound \in BOOLEAN
    /\ clean \in BOOLEAN

\* The row never grants a plan that nobody paid for: whatever overlaps, fails
\* or is retried, a plan other than the first one is written only after an
\* invoice for that very plan is settled, if only because nothing was due on it
\* (applyBillingUpgradeForAdmin).
GrantedPlanIsPaid ==
    row.plan # start => \E r \in paid : req[r].target = row.plan

\* A credit outlives its request only when the change it was for is paid: every
\* way out of the try block before that takes it back, unless the process
\* stops or Stripe refuses the reversal.
CreditIsEarned ==
    \A r \in credit : At(r, "done") /\ ~req[r].torn => r \in paid

\* The company has had one subscription, or none.
OneSubscription == \A s, t \in Sub : sub[s].status # "none" /\ sub[t].status # "none" => s = t

\* As long as requests do not overlap and none is cut off after it touched
\* Stripe, the one-time price is credited once and no second subscription is
\* created next to the first.
ChargedOnce == clean => OneSubscription /\ \A q, r \in credit : q = r

\* After a request that was alone and finished, the plan in the row, the price
\* of its seats and the last record are of one plan, whatever went wrong before
\* it; so is the subscription the row names, unless a request that was cut off
\* has left another one, whose events take the row over.
RecordsAgree ==
    sound => /\ seat = row.plan
             /\ log = row.plan
             /\ row.sub # None /\ OneSubscription => sub[row.sub].plan = row.plan

\* A request that is alone moves the company up and never down, in any number
\* of steps (validateBillingUpgrade is checked against a row read earlier).
PlanOnlyRises ==
    [][row'.plan # row.plan =>
         \/ Above(row'.plan, row.plan)
         \/ \E r \in Request : At(r, "row") /\ ~req[r].alone]_vars
=================================================================================
