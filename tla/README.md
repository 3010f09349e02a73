# BSP Blueprint: models, checks and proofs

TLA+ models of the parts of this repository where several systems keep records of the same thing — Postgres, Stripe,
Cognito, SQS, S3, the browser — and are changed by requests that await between their steps. Each model is checked with TLC
on small instances, and its main safety properties are proved with TLAPS for instances of any size.

| module | what it models | checked by | proved in |
|---|---|---|---|
| `BillingSync` | company checkout, Stripe's webhooks, end-user access | `MCBillingSync`, two runs | `BillingSyncProofs`, `BillingOrderedProofs` |
| `BillingUpgrade` | an upgrade: credit, subscription, payment, three tables | `MCBillingUpgrade`, one run | `BillingUpgradeProofs` |
| `PaidInvoice` | an individual's purchase, and the mail of a paid invoice | `MCPaidInvoice`, one run | `PaidInvoiceProofs` |
| `PromoSync` | promo codes: a row, a Stripe coupon, a Stripe promotion code | `MCPromoSync`, three runs | `PromoSyncProofs` |
| `AccountAccess` | suspend, close, reinstate, invite, block: Postgres and the Cognito pool | `MCAccountAccess`, one run | `AccountAccessProofs` |
| `AssessmentPipeline` | answers, scoring jobs, report jobs, and the page that drives them | `MCAssessmentPipeline`, two runs | `AssessmentPipelineProofs` |
| `AssessmentRecord` | the abstract promise that `AssessmentPipeline` implements | property `ImplementsRecord` | `PipelineImplementsRecord` |
| `ChatThread` | the turns of a conversation, its window, its summary, its pages | `MCChatThread`, two runs | `ChatThreadProofs` |

Parse with `tlasany M.tla`; check with `tlc -config MCBilling_ordered.cfg MCBillingSync.tla` (likewise for the others);
prove with `tlapm BillingSyncProofs.tla`. `PROJECT.json` maps every definition to the lines it translates.

## 1. The system

Four programs and their infrastructure.

* **backend** (`src/backend`, NestJS, Prisma): corporations, companies, app users, Stripe billing, promo codes, e-mails. It
  runs as several ECS tasks over one Postgres database; every request is an async function, so requests interleave at every
  `await`, in one task and between tasks. There are no locks, and few transactions span more than one write.
* **assessment** (`src/assessment`, FastAPI and three Lambdas): the 240 answers of an assessment, two SQS queues, a scoring
  worker and a report worker.
* **chatbot** (`src/chatbot`, FastAPI, Bedrock, Postgres with pgvector): threads, messages, summaries, memories, tools.
* **frontend** (`src/frontend`, React, Zustand): the pages. One of them, `AssessmentCompleteContent`, is itself a step of the
  pipeline: it prints the report to HTML and uploads it.

```
 browser ──REST──► backend ──► Postgres                  browser ──REST──► assessment API ──► Postgres
                     │ ▲                                    │ upload HTML        │ SQS            ▲
                     │ └── webhooks ── Stripe               └────► S3 ◄──── report worker ────────┤
                     ├──► Stripe, Cognito, SES                              scoring worker ───────┘
 browser ──stream──► chatbot ──► Postgres, Bedrock; reads assessments, gated by the backend's counts
```

### Inventory

State, operations, what is hard, what makes it correct. **Bold** names are modelled.

| component | state | operations | hard | correct when |
|---|---|---|---|---|
| **Stripe checkout and webhook sync** (`stripe.service.ts`, `company.service.ts`) | Stripe's sessions, subscriptions, invoice items; billing columns of `corporation_companies`; end users' status | open a checkout; five webhook handlers; end-user access sync | events late, repeated, out of order; each handler awaits between steps and may throw; Stripe redelivers | the fee is billed once; row and access agree with Stripe once events are handled; a lapse blocks users |
| **Promo codes** (`promo.service.ts`) | row, coupon, promotion code, mirrored active flag | create, edit, rename, delete, toggle, list | up to six calls before and after one write, undone by hand | a row names a pair that fits it; no redeemable code that nobody sees |
| **Access** (`corporation.service.ts`, `company.service.ts`, `app-user.service.ts`) | statuses of corporation, companies, users; Cognito accounts | confirm, suspend, close, reinstate, invite, block, unblock, cancel, resend, delete, first login | a loop of Cognito calls, then one transaction, on a status read before the loop | a suspension is complete; both records agree; closed stays closed |
| **Assessment pipeline** (`assessment_service.py`, `question_response_service.py`, both workers, `runClientHtmlReportPipeline.ts`) | status, answers, score, report key; S3; two queues; the page | create, save, change status, delete, enqueue, score, capture, upload, render | at-least-once delivery, batches, crashes, pages closed or opened twice, time-outs | score is of the stored answers; report shows the stored score; jobs end in a result |
| **Billing upgrade** (`stripe.service.ts` 5333-5707) | credit balance, subscription, invoice, three tables | preview, upgrade; cancel, reinstate, retry a payment | five calls and three writes; only the credit is taken back; requests overlap | nothing is granted unpaid; credit only for what is paid; the records are of one plan |
| **Invoices and invoice e-mails** | a mark in the invoice's metadata | send on payment (list, export, send by hand) | marked before sending for a company, after it for a person; errors are swallowed | each mail once; a mark means a mail |
| **Individual users' payments** (`individual-payment.service.ts`) | `payment_status` of the user, Checkout sessions | checkout, activation, access gate | two events per payment, slow payment methods | who pays is activated |
| **Threads and summaries** (`unified_chat_service`, `conversation_window`, `summary_maintainer`, `thread_service`) | messages, summary and its high-water mark | a turn, refresh of the summary, a page of the history | overlapping turns; late commits; two window sizes; a cap | summary and window cover the thread; pages follow one another |
| Memories | distilled facts with supersession, consent | extract, recall, forget | concurrent extraction | no fact of a revoked consent |
| Prompts, tools, export, ingestion, audit | append-only | one request each | none | — |
| Chat page, stores | streamed message, cached answers | stream, stop, switch thread | a late chunk after a switch | chunks end up in their thread |
| Score engine | none | 240 answers to a score | none | agrees with the published tables |
| PDF rendering, file names | none | HTML to PDF | none | — |
| **Onboarding** of companies and corporations (confirmation only) | statuses, steps, contacts | create, edit steps, confirm | creation provisions Cognito, then e-mails | as for access |
| Roles, permissions, guards | tables | look-ups | none | — |
| Passwords, account security | Cognito | reset, change | Cognito's | — |
| Privacy data | export and deletion requests | request, export | partial failures of an export | — |
| Growth spark | one row per user and assessment | first read creates | look-up, then create | one row |
| Key contacts, invitations, support | rows | create, list | none | — |
| Dashboards, pricing, product updates | rows | reads, aggregates | none | — |
| E-mail, S3, audit log, clients | none | calls | a call that fails | — |
| Infrastructure as code | — | queues' settings | — | — |

## 2. The plan

1. `BillingSync` — money and access: the checkouts, the handlers, the access sync. *Done, proved.*
2. `PromoSync` — the same difficulty with a clean-up by hand. *Done, proved.*
3. `AccountAccess` — who gets in. *Done, proved.*
4. `AssessmentPipeline` over `AssessmentRecord` — the product's core path, with its refinement. *Done, proved.*
5. `ChatThread` — overlapping turns, the windows, the threshold and the cap, scaled down. *Done, proved.*
6. `BillingUpgrade` — what a plan change leaves behind when it overlaps or fails. *Done, proved.*
7. `PaidInvoice` — the mail marks and the individual's purchase. *Done; its safety properties proved.*
8. Distilled memories: supersession and the choice of what a prompt contains (section 12 has what was read).
9. Abstract specifications for the others: a billing row that follows the last purchase; a promo list that is a set of
   (code, discount); a membership that is (people × up or down). Each as a refinement, first checked and then proved.
10. Proofs of what holds for events in order and for requests one at a time: the four invariants of `billing_ordered`, `ListsAgree`,
    `DiscountsAreOwned`, `AccountsAgree`, `UnblockedOnlyWhenUp`, and of `CreatedLive` for any requests. *Done.*
11. Two assessments per batch, for the dead-letter queue, and two per user, for the rule that one is in progress.

Each component is one module that does its own composition with the services around it: Stripe is part of `BillingSync`,
Cognito of `AccountAccess`, SQS, S3 and the browser of `AssessmentPipeline`, the mailer of `PaidInvoice`. The services are modelled by what the code relies
on, and their definitions are marked external. Billing and access meet in `BillingSync`: `suspendCompany` and
`reinstateCompany` of one company are there too, because they enable and disable the same users as the webhooks do.

## 3. Conventions

* A request, a worker or a page is an element of a constant set with a local state: where it is (`pc`, `at`, `stage`) and what
  it remembers from what it read. Everything between two awaits is one action; whatever the code reads before an await and
  uses after it is remembered, never read again.
* A call that fails has had no effect. A crash is a request that forgets everything. Each is counted against `MaxFailure` or
  `MaxCrash`; nothing else depends on these counters, and the proofs are for any bound.
* Data that no property tells apart is a model value: an answer sheet is one value and its score is named by it; a discount
  stands for type, value and duration.
* History variables: `overlap` and `latest` in `BillingSync`, `overlap` in `AssessmentPipeline`, `sound` in `ChatThread` and
  `BillingUpgrade`, `start` and `clean` in the latter, and `overlap`, `unrecorded`, `stuck`, `dropped` and `missed` in `PaidInvoice`; likewise the fields
  `alone`, `degraded` and `torn` of a request. No guard reads them. They say for which histories a property is meant: that a request had no other
  beside it (`alone`), that the last one to touch something was alone and finished (`sound`), that one was cut off (`torn`). A hazard that such a
  condition leaves out is not caught by the property; the note of the hazard in `PROJECT.json` says so.
* A property that a doc or a comment states and the code does not keep is stated in its module. For two of them a run expects the violation
  (`promo_rename`, `chat_page`). The others are described under "stated, not kept", each with a configuration of its own that reproduces the
  counterexample, such as `tlc -config MCBilling_restore.cfg MCBillingSync.tla`.
* A definition whose name ends in an error (`AttachWithoutKey`, `UploadPdfLost`, ...) next to a definition of the code is
  a plausible mistake in it; `PROJECT.json` names the property that catches it. They are not part of the specifications.
* `CHECK_DEADLOCK FALSE` is set where the system may rest: all money is paid and all events are handled, a report is there and
  its page is closed, the ids are used up. `access_one_at_a_time` checks for deadlock.

## 4. `BillingSync`

One company, its Stripe customer, and one end user who stands for all of them (the loops over users treat each alike; a loop
that throws half way has or has not reached this one).

| state | in the code |
|---|---|
| `session`, `sub`, `items`, `keys`, `billed` | Stripe: Checkout sessions, the subscription each created, deferred-fee invoice items, idempotency keys, fees paid |
| `events`, `emitted` | webhook events that have not been answered with 200; how many there were |
| `row`, `company` | `corporation_companies`: `subscription_status`, `stripe_subscription_id`, the last one-time session, `implementation_fee_charged_at`; `status` |
| `user` | `app_users.status` and whether the Cognito account is enabled |
| `wk` | the webhook requests: the await each is at, its event, the status it retrieved |
| `admin` | the suspend or reinstate request under way |

`CreateCheckout` is `createCheckoutSession`. `CompleteCheckout`, `PayInvoice`, `FailInvoice`, `EndSubscription` are the
customer and Stripe; `CompleteUnpaid` a one-time Checkout finished by a slow payment method, whose completion the handler ignores, and
`PaymentArrives` the payment, of which no handler takes the event; `ToggleCancelAtPeriodEnd` the cancel and undo-cancel buttons. `Deliver` is `handleWebhookEvent` up to the
first await of the event's handler; then `RetrieveSubscription`, `WriteRow` (each handler's write: `CheckoutWrite`,
`PaymentWrite`, `UpdateWrite`, `DeleteWrite`), `AttachDeferredItems`, `SyncEndUserAccess` and the four access steps in the
order the code has them, `Acknowledge`. `RequestFails` is a throw, a crash or a lost answer at any await; the event stays.
`BeginSuspend` … `AdminFails` are `suspendCompany`, `reinstateCompany` and the closing of a corporation.

| run | instance | properties and what they say |
|---|---|---|
| `billing_ordered` | 2 sessions, 7 events, 2 failures, events one at a time and oldest first; 1.10 million states | `PaidFeeIsRecorded`: a fee that was paid is on record; `RowFollowsStripe`: the row has Stripe's status of the last purchase, and none while nothing was paid for; `LapseBlocksUsers`; `AccessRecordsAgree`; `EndEventuallyBlocks` (liveness); `TypeOK` |
| `billing_unordered` | 2 sessions, 2 requests at once, any order, suspensions and reinstatements, 3 events, 1 failure; 2.03 million states | what is left without any order: `FeeOncePerSession`; `FeeMarkIsHonest`: the mark is set only when a fee was paid |

Two sessions are the least at which a purchase can follow or overlap another; seven events are a purchase with a trial, the invoice that bills its
deferred fee, the end of the subscription and a second purchase, and a redelivery of any of them costs no event. Three events suffice for two
requests of one session, or of two, to cross each other. They hardly reach the mark that a later invoice sets (`FeeMarkIsHonest`); the proofs below are
for any number.

What these properties leave out. Stripe's idempotency keys never expire in the model, while Stripe drops them after about a day and redelivers for
three: `FeeOncePerSession` covers redeliveries while the key is known. `Ordered` keeps out events that are handled after a deletion or before the completion
(but for a trial's first invoice, which bills nothing), and `~overlap` the purchases of two sessions opened before either was paid: neither is caught, and
neither is prevented by the code (see below).

*Fairness.* `WF` of `Deliver` and of the steps of a request: Stripe repeats an event until it is answered, and an async
function goes on. Nobody has to pay, cancel or suspend. Failures are bounded, which is to say that a handler does not fail for ever.

*Proved* (`BillingSyncProofs`): `TypeCorrect`, `FeeOncePerCheckout`, `FeeMarkHonest`, for any sessions,
requests, events and failures, in order or not. None is inductive. `IInv` adds `EventInv` (what an event may rely on whenever it
is handled: its session is complete, an invoice with fee lines was paid), `RequestInv` (the same for an event that a request
remembers) and `FeeInv` (key, flag, pending item and payment of a session taken together). Stripe's side only moves
forward (`StripeIsMonotone`), which keeps old events sound.

*Proved for events in order* (`BillingOrderedProofs`, from `Ordered`), for any sessions, requests, events and failures: the four invariants of
`billing_ordered`. Each speaks of the moment when every event is handled, so its invariant is an account of what the outstanding events
still have to do. `QueueInv`: one request runs at a time, for the oldest event. `RowFollows` and `PaidFeeRecorded` need, while purchases do not overlap, that
whatever an older purchase still writes is followed by the completion of the latest one and that the newest event tells what Stripe has
(`PurchaseInv`: `Chronology`, `NewestTells`, `RowTracks`, `RequestTracks`); and that a paid fee which is not on record is carried by an event that will find the row naming
its subscription (`PaidInv`). `LapseBlocks` and `AccessAgrees` also assume `~AdminActs`, as the run does: the two records of the user differ, and a lapse has not
blocked the user, only while an event is outstanding that syncs access again when it is redelivered (`AccessInv`). TLC checked these invariants first.

*Stated, not kept.* `EndLeavesNoAccess` (`MCBilling_late_order.cfg`; the comment at `stripe.service.ts:2086`): one session is enough; an `updated` event
handled after the deletion puts the ended subscription back (2065). `LatePaymentCounts` (`MCBilling_late_payment.cfg`; the comment at 1284): a one-time
Checkout is completed unpaid and ignored (1305), the payment comes later as `checkout.session.async_payment_succeeded`, which has no case (1149), and the
company has paid for nothing. `RestoreUnblocksUsers` (`MCBilling_restore.cfg`; the comment at `company.service.ts:2166`): a lapsed
company that buys again is active with its users blocked, since the handler of the completed checkout does not enable them
(`stripe.service.ts:1249`).

*Seen while modelling, without a run.* An `invoice.paid` with the fee that is delivered after the deletion is dropped, and the fee is never
recorded (`stripe.service.ts:1923`). A suspension that commits after `syncEndUserAccessForSubscription` read the company status is
undone for the users (`company.service.ts:2179`). Two sessions opened before either is paid each carry the fee
(`stripe.service.ts:824`). The deletion of an older subscription clears the row of the running one (2093).

*Left out.* The creation of the Stripe customer, promo codes at checkout, on-site training items, confirmation of an incomplete
company; e-mails and individual users are in `PaidInvoice`.

## 5. `PromoSync`

| state | in the code |
|---|---|
| `coupons`, `promos` | Stripe: coupons (live, deleted), promotion codes (active, inactive), with what they were made of |
| `rows` | `promo_codes`: live or soft-deleted, the four columns an update writes, the mirrored active flag |
| `wk` | the requests: the call each makes next, its row, the columns as read (`was`) and as to be written (`new`) |

`BeginCreate`, `BeginUpdate`, `BeginDelete`, `BeginToggle`, `BeginList` are the reads and checks of the five service methods.
`BeginUpdate` chooses the branch: same code and discount, same code, same discount, neither. The other actions are one
Stripe call or one write each. A call that is refused or fails goes to the clean-up that the `catch` at that place makes
(`Reopen`, `Undo`, `DropHeadlessCoupon`, …); `deleteCouponAndPromotionCode` swallows errors, and so do its actions. Stripe's own rule
that two active promotions cannot share a code (`Free`) is external. `Crash` undoes nothing.

| run | instance | properties and what they say |
|---|---|---|
| `promo_one_at_a_time` | 2 rows, 3 coupons, 3 promotions, 2 codes, 2 discounts, 1 request, 1 failed call; 23,010 states | `ListsAgree`: while no call has failed, what can be redeemed is on the list, and a row that shows as active can be redeemed (one that shows as inactive may be, too); `DiscountsAreOwned`: with one failed call, a redeemable discount belongs to a row that can be deleted; `TypeOK` |
| `promo_together` | the same with 2 requests, 2 coupons, 1 failed call and 1 crash; 233,389 states | `RowsAreBacked`: a row names a promotion and coupon that fit each other and it; `CreatedLive`: no row is inserted without a redeemable pair |
| `promo_rename` | 1 row, 2 codes, 1 failed call | violates `NoOrphanCode`: when the old promotion cannot be switched off after a rename was saved, the `catch` deactivates the new one (`promo.service.ts:1582`; the comment at 1558) |

Three promotions are what an edit needs besides the one of another row; a second failure only repeats the clean-up's own
errors, which are swallowed. `RowsAreBacked` says nothing of deleted rows, `CreatedLive` nothing of what a crash leaves in Stripe, and nothing is promised
of the mirrored flag once a call has failed or requests overlap: the list of the hazards says what the code then leaves behind.

*Proved* (`PromoSyncProofs`): `PromoTypeCorrect` (with the columns that are never null) and `PromoRowsBacked`, for any number of rows,
requests, failures and crashes. A row is written from what a request read earlier, so the invariant says what each request may count
on at each await (`Knows`), and it survives other requests because Stripe's objects only grow (`Grows`): a coupon keeps its
discount, a promotion its code and coupon. `PromoCreatedLive`, likewise for any number, needs in addition that until the row is inserted only the
request that made the pair knows of it (`Private`), so that no other can switch it off.

*Proved for one request at a time* (`Worker = {w}`, `MaxCrash = 0`), for any rows, objects and codes: `PromoListsAgree`, and `PromoDiscountsOwned` for at most
one failed call (`MaxFailure \leq 1`; with two, a coupon and its promotion both survive the clean-up). Without these assumptions both are false: a crash undoes nothing,
and two requests can each make a pair for one row. The request may then count on the row being as it read it (`Course`, `Reads`). While no
call has failed, an active promotion is a listed row's or in the request's hands (`Clean`); no two rows share a code or a coupon, and what the request has made or
replaced is in no row (`Distinct`, `Unused`), so a deactivation or a dropped coupon hits no other row; an active promotion has its coupon (`ActiveValid`); and a row that
shows as active can be redeemed unless the request is at work on just that row (`Serves`). In particular an edit under the same code never has to undo the
switching off of the old promotion because of a refusal: Stripe finds the code free (`EditFindsCodeFree`), and so does the unique index. After one failed call, what can be redeemed is on a
listed row's coupon or on one the request has yet to record or drop (`Owned`). TLC checked all of these first.

*Seen while modelling, without a run.* Editing the discount of a disabled promo makes an active promotion and leaves the mirror
saying inactive. A change of the plan type alone keeps the coupon made for the old plan's products (1453; the comment at
1470 says otherwise). An edit that overlaps a soft delete leaves the deleted row with a redeemable pair (1516, 1605).

*Left out.* Expiry and redemption limits (they cannot be edited), redemptions, plan types, assignment to a corporation, reads.

## 6. `AccountAccess`

| state | in the code |
|---|---|
| `corp`, `company` | `corporations.status`, `corporation_companies.status` |
| `rows` | `app_users` by Cognito sub: person, companies of `user_company_access`, status |
| `account`, `enabled` | the Cognito pool: whose account has which sub, which accounts are enabled |
| `wk` | the requests: operation, step, rows, accounts still to change, companies |

Thirteen operations, named in `Offered`. `Begin…` is an operation up to its first write: its checks, and what it reads.
`ChangeAccount` is one pass of a Cognito loop, `Commit` the transaction. Suspending and closing disable first and commit after
(`ChangeAccount … Commit`); reinstating commits first (`Commit … ChangeAccount`), and a block of one user goes the way down, an unblock
enables first. An invitation is `ProvisionAccount`, `LookUpAccount`, `InsertRow`, and `RollBackInvite` when it fails;
`RevertConfirmation` is the one undo of `confirmCompany`. `LogIn` is `syncFromCognito`, which turns Pending into Active.
`RequestFails` stops a request at any call, and goes to the undo where there is one.

| run | instance | properties and what they say |
|---|---|---|
| `access_one_at_a_time` | 2 companies, an administrator of both and another person, 3 subs, 1 request, all operations, 2 failed calls, deadlock checked; 178,366 states | `AccountsAgree`: without failures the pool lets in exactly the Pending and Active; `SuspensionBlocksMembers`: whoever's company or corporation goes down is out in both records at that moment, whatever failed before; `UnblockedOnlyWhenUp`; `TypeOK` |

Two companies and somebody in both are what separates a company's suspension from a corporation's; three subs let a deleted user be invited
again under a new one.

*Proved* (`AccountAccessProofs`): `AccessTypeCorrect` for any number of requests, and `SuspensionComplete` for any number of people,
companies and failures, when requests run one at a time (`Alone`). The invariant for the first says what a request may rely on
(`Shape`: the rows it read still exist); for the second, that until it commits it knows everybody affected and has
disabled whoever is off its list (`Complete`). With a second request that is false: it could add or enable a member
in between.

Under `Alone` too, `UnblockedWhenUp`, whatever fails: a request that unblocks still finds company and corporation as it read them (`Current`). And
`AccountsInAgreement` (with `Worker # {}`), for any number of people, companies and operations while no call has failed: a person has one row, and each row agrees with
the pool but for those the request has still to change, of which the invariant says what it has done to them so far (`Agreed`, `Midway`, `InviteFits`).

*Stated, not kept.* `ClosedIsFinal` (`MCAccess_closed.cfg`; `suspend-close-corporation.dto.ts:13`, and "Closed corporation cannot be suspended",
`corporation.service.ts:1316`), with two requests: a suspension that read the status before a closure commits after it (1414), and the suspended corporation
can then be reinstated.

*Seen while modelling, without a run.* Two invitations of one address: the second's roll-back deletes the account the first's row
points to (`app-user.service.ts:3138`). A failed reinstatement cannot be repeated, since the company is ACTIVE already
(`company.service.ts:2038`). Suspending and reinstating makes Active whoever had been blocked individually or whose invitation had
been cancelled, and, for a corporation, turns an INCOMPLETE company ACTIVE. Confirmation reopens a SUSPENDED corporation, and `confirmCompany`
looks at no status. An administrator of two companies is unblocked by the reinstatement of one while the other is down, which is why
`UnblockedOnlyWhenUp` is about people of one company. An unblock enables Cognito before the row.
`inviteAppUser` does not look at the company's status, and counts seats before it inserts (3029).

*Left out.* PATCH of a user, individual users, seats, roles and groups, e-mails, creation.

## 7. `AssessmentPipeline` and `AssessmentRecord`

| state | in the code |
|---|---|
| `status`, `answers`, `score`, `report` | Postgres: `assessments.status`, `question_responses`, `assessment_scores`, `assessment_reports` |
| `html`, `pdfs` | S3: one print snapshot per assessment, PDFs under keys of their own |
| `saving`, `updating` | saves and status changes that passed their check and have not committed |
| `page` | the pages open on `AssessmentCompleteContent`: their stage and captured HTML |
| `job` | the two queues: kind, assessment, receives, queued, held or dead |
| `worker` | the Lambda invocations: batch, record, what was read |

API: `Create`, `AdmitSave` and `CommitSave` (the check and the commit of a save), `AdmitUpdate` and `CommitUpdate` (those of a status change, which is written over
whatever the status is by then), `Delete`. Page: `MarkCompleted` with a commit of its own, `AskForScoring` and `EnqueueScoring` (the check and the message), `PollScored`, `CapturePrintHtml`, `UploadPrintHtml`, `EnqueueReport`, `PollReport`, in that order;
`GiveUp` is any time-out or error, `Retry` the button, `Leave` a closed tab. Workers: `Receive` a batch, then for each record
`LoadAnswers`, `PersistScore`, or `DownloadHtml`, `UploadPdf`, `PersistReportKey`; `Acknowledge` deletes the batch, `WorkerFails` and a
record that cannot be handled return all of it to the queue (`Release`), where a job is dead after `MaxReceive` receives.

`AssessmentRecord` is what all this promises: the score is computed from the stored answers in one step, the report made of the stored
score in one step; no queue, no page, no worker. An assessment whose answers changed under it after completion, or that was
reopened under a scoring job, or whose status was committed over one that the check would have refused, is *excused* (`overlap`): the code has no defence there, and what
is stored may be of either answers. `AssessmentRecord` lets the status fall back from report_generated to scored, as the workers do, so the refinement does not catch that.

| run | instance | properties and what they say |
|---|---|---|
| `assessment_pipeline` | 1 assessment, 2 answer sheets, 1 page, 2 jobs, 2 workers, batches of 2, dead after 2 receives, 1 status change in the making, 1 failure; 3.12 million states | `ScoreIsCurrent`, `ReportShowsScore`: unless excused, the score is of the stored answers and the PDF shows that score; `ReportIsStored`: a stored key names an uploaded PDF; `ImplementsRecord`: refinement; `TypeOK` |
| `assessment_liveness` | 1 answer sheet, 1 worker, 3 receives of each job, 2 failures; 599,000 states | `ScoringLeadsToScore`, `ReportJobLeadsToReport`: a job that can be done gets done, in spite of crashes and redelivery |

Two answer sheets are the least at which a score can be of the wrong one; two jobs and two workers the least at which scorings overlap.
A page left and opened again by the same or another page is what doubles jobs, so one page suffices for them; two pages that race for the snapshot are left to
the proof. The first run passes with 2 failures as well (5.67 million states). The deployed limits are 5 and 3 receives; what matters is that they exceed the failures.
`Wanted`, the statuses a client asks for, are the two the pages of the frontend send; the proofs are for every status. The check of `EnqueueReport` and its message are one step, since the
worker checks again.

*Fairness.* `WF` of the steps of an invocation; `SF` of `Receive` for each job, since the Lambda poller does not pass over a job that is again
and again in its queue. The page need not do anything. Failures are fewer than the receives that make a job dead; with as many, a
job may die and both properties fail, as they should.

*Proved* (`AssessmentPipelineProofs`), for any number of assessments, pages, jobs, workers and failures: `PipelineTypeCorrect`,
`PipelineScoreCurrent`, `PipelineReportShows`, `PipelineReportStored`, and the refinement `PipelineImplementsRecord`. A worker stores
what it read earlier, and a page uploads what it captured earlier, so the invariant says of every copy that it is current unless
excused (`CopyInv`); that holds because an assessment with a live scoring job does not go back to in_progress, where answers are
written, without being excused (`FrozenInv`), and because no two invocations hold one job (`QueueInv`). `ScoreInv` ties status and score
together. `IInv` was checked with TLC first.

*Stated, not kept.* `ReportGeneratedIsFinal` (`MCAssessment_final.cfg`; the transitions listed in `api/schemas/assessments.py:22`): two pages enqueue scoring twice, and the second job,
handled after the report, sets the status back to scored (`score_worker.py:89`).

*Seen while modelling, without a run.* A record that cannot be scored fails its whole batch (`score_worker.py:184`), though the comment at 226 means
the bad one only. A scored assessment opened on the complete page stops there: the page asks for completed first, which is refused
(`AssessmentCompleteContent.tsx:237`). Two assessments in progress are possible (`assessment_service.py:101`). A client may PUT
scored or report_generated itself, without a score. Falling back to scored also takes an assessment out of the count that opens the
chatbot (`subscription-access.service.ts:119`). Autosaves may commit in either order (`AssessmentSessionContent.tsx:257`).

*Left out.* Access scoping and the subscription gate, the debugging path that passes answers in the message, automatic enqueueing
(off in the deployed configuration), two deliveries of one message at once (two jobs for one assessment behave alike), the score itself.

## 8. `ChatThread`

One thread; a message is its `created_at`, and what the model is told is a set of messages.

| state | in the code |
|---|---|
| `clock`, `stored` | Postgres: the last `created_at` given, the committed messages |
| `summary` | `thread_summaries`: `up_to_message_id`, and the messages the text was made of |
| `turn` | the requests: step, mode, window, what the prompt holds, the stamp of the pair, the bounds of the refresh |

A turn is `Ask`, `LoadWindow`, `LoadSummary` (two queries of `ConversationWindowService.load`; `Degrade` when they cannot be decrypted), `Reply` (the
stream), `InsertPair` and `CommitPair` (`append_pair`: both stamps come from the start of the transaction, so a pair may appear behind younger
ones), and the refresh: `Count`, `ReadFloor`, `ReadOlder`, `Upsert`. `SaveFails` is logged and the refresh goes on; `End` stops a turn anywhere. `Page` is `list_messages`.

| run | instance | properties and what they say |
|---|---|---|
| `chat_thread` | 2 turns at once, windows of 2 and 3, threshold 4, cap 3, up to 12 messages; 306,000 states | `MarkIsBehindWindow`: the mark of the summary stays behind a deep-dive window however turns overlap; `PromptIsComplete`: a turn that was alone, after an undisturbed refresh, is told the last messages and the cap before the deep-dive window; `MarkGoesBackOnlyWhenOvertaken`; `TypeOK` |
| `chat_page` | 1 turn, pages of 4 | violates `PagesLeaveNoGap`: of one row too many the code drops the newest, not the oldest (`thread_service.py:341`; `threads.py:355` tells clients to continue from the oldest on the page) |

The sizes keep the order of the deployed ones (6, 12, 16, 80): quick below deep-dive, deep-dive below the threshold, and a thread long enough for the
cap to cut. Failures are not bounded. Two turns are the least that overtake each other, and a third changes neither `alone` nor `sound`; the proofs are for any number.

*Proved* (`ChatThreadProofs`), for any turns, windows, thresholds, caps and lengths: all four. A turn about to write a summary knows a message
that has `Deep - 1` younger ones, and what it summarises is older (`Shape`); messages are only added, so this survives whatever the others do. A turn that is
alone has read what there is (`AloneShape`), so the summary it writes is up to date, and so is the next lone turn's prompt.
`FiniteSetTheorems` gives the counting.

*Stated, not kept.* `SummaryMeetsWindow` (`MCChat_gap.cfg`; the comments "must match" in `summary_maintainer.py:55` and "messages OLDER than the current
verbatim window" in `conversation_window.py`): the summary ends 12 messages before the last and a quick prompt starts 6 before it; the six in between are in neither.
`PromptIsComplete` promises no more than the code gives: it leaves out those six, and what the cap of 80 drops.

*Seen while modelling, without a run.* Since only the mark's own message is looked for in the window, an overtaken refresh can make a deep-dive prompt
repeat less than it could. The cap of 80 forgets how a long thread began, although the mark says it was summarised. The opener of an
assessment makes a window begin with an answer. `last_message_at` may move back, though `conversation_repository.py:20` says "only moves forward". An
export keeps the oldest 500 messages.

*Left out.* Creating, renaming, pinning, deleting threads, `last_message_at`, suggestions, tokens, encryption except that it may fail.

## 9. `BillingUpgrade`

| state | in the code |
|---|---|
| `sub`, `newest`, `paid`, `credit` | Stripe: subscriptions with the request behind their latest invoice, the youngest one, settled invoices, credits on the balance |
| `news` | the webhook events there have been: each may be handled late, again, or never |
| `row`, `seat`, `log` | `corporation_companies`, `company_plan_seats`, the last `plan_upgrade` record |
| `req` | the requests: step, target, subscription to change, whether a credit is due |

`Preview` and `ReadCompany` are the two reads (`previewBillingUpgradeForAdmin`, then the company again); `ApplyCredit`, `UpdateSubscription` or
`CreateSubscription`, `Pay` are the try block, `ChangeRefused` and `PayRefused` lead to `ReverseCredit` or `Refuse`; `UpdateRow`, `UpdateSeat` and
`RecordAction` are the tables. `Fail` is a throw or a stop at any await. Around them are cancellation and its undo (`SetEnding`), `RetryPayment`,
Stripe's own collection and expiry, the end of a trial (`EndTrial`), and the part of the webhook that writes the row, `invoice.paid` included (`RowAfterInvoicePaid`).
A subscription that is being tried out (trialing) can be changed, cancelled and upgraded like an active one; an upgrade may keep the trial, with nothing due, or end it.

| run | instance | properties and what they say |
|---|---|---|
| `upgrade` | 2 requests, one one-time, two annual and two monthly plans; 929,000 states | `GrantedPlanIsPaid`: a plan other than the first is in the row only after an invoice for it is settled; `CreditIsEarned`: a credit that outlives its request was for a change that is paid; `ChargedOnce`: one credit and one subscription, unless requests overlapped, were cut off or refused; `RecordsAgree`: after a request that was alone and finished, row, seats, record and subscription are of one plan; `PlanOnlyRises`; `TypeOK` |

Five plans have every kind of change in them: of type, of level, of both, from the plan without a subscription, from a trial. Two requests overlap, or follow
each other after a failure; three did not fit. Failures are not bounded. Only `GrantedPlanIsPaid` holds in every history. `CreditIsEarned` leaves out a request that was cut
off (`torn`), `ChargedOnce`, `RecordsAgree` and `PlanOnlyRises` requests that overlapped: the code does not prevent what happens then, which is under
"seen while modelling".

*Proved* (`BillingUpgradeProofs`), for any plans and requests: all six. `Shape` says what a request may rely on at each step (before a table, its invoice
is settled, and that is never undone); `AloneShape` that a request alone works on the row it read; `SoundShape` what it leaves behind; `CleanShape`
that, while requests have been alone and none was cut off, a company on the one-time plan has neither subscription nor credit, so that it cannot get a second of
either. `IInv` was checked with TLC first.

*Seen while modelling, without a run.* A refused payment when a one-time company upgrades leaves an incomplete subscription, and its event sets the row's status and
subscription: the end users are blocked although their plan is paid. A refused payment on a subscription leaves the dearer plan in Stripe; a retry then pays
for it while the row keeps the old plan. A table that cannot be written after the payment is never repaired, and trying again credits and subscribes
a second time. Two upgrades at once may leave the lower plan, or credit a plan that was not one-time. A deletion handled during an upgrade leaves an active row with an ended
subscription. `validateBillingUpgrade` lets a one-time plan with a range through that `isAllowedUpgradeTarget` refuses, and annual 51-75 to monthly 1-25 is an upgrade.

*Left out.* Renewals other than the end of a trial, the await between reading a subscription and writing the row in a webhook (`BillingSync` has it), amounts and proration, the test whether a report exists (a free choice whether credit is due), a company without a seat row, custom pricing, the e-mail.

## 10. `PaidInvoice`

One individual user's Checkout sessions with their invoices, and invoices of a company.

| state | in the code |
|---|---|
| `stage`, `mark` | Stripe: how far a session or invoice is; `individualInvoiceEmailSent` or `companyInvoiceEmailSent` in the invoice's metadata |
| `emitted`, `answered` | the events Stripe made, and those answered with 200 |
| `paid` | `app_users.payment_status` and `status` of the individual |
| `found` | the company invoices for which a look-up finds the company: by the invoice's metadata, or by the row that names its subscription |
| `mails` | automatic mails that went out, per invoice |
| `req` | the webhook requests: step and event |

`OpenSession` and `Waive` are the two ways out of `createCheckoutSession` of an individual; `Activate` is `onIndividualAppUserCheckoutCompleted`. `Resolve` is the first look
at the mark of a company's invoice and the look-up of its company; without one the handler returns and the event is answered (`missed`). When the row names a subscription, and when it no
longer does, is up to `NameSubscription` and `ForgetCompany`, at any time. `Read` is the last look at the mark when the PDF is there. A company's invoice then goes `Claim`, `Send`, and `Revert` when the mail fails; an individual's `Send`, `Mark`. The failures are one action
per place: `PrepareFails`, `AddressFails`, `SendFails` (the mail may be out all the same), `RevertFails`, `MarkFails`, all of which the code keeps to itself, and `Die`, after which Stripe repeats the event.

| run | instance | properties and what they say |
|---|---|---|
| `paid_invoice` | 1 session, 1 company invoice of a subscription, 2 requests, 2 failures, of which an event sent again after it was answered is one; 812,000 states | `MailedOnce`: unless two requests were mailing it at once, an invoice is mailed once, plus once per mail whose sender could not know of it; `MarkMeansMailed`: in any interleaving, a mark means a mail, a request at work, or an attempt that could not take it back; `PaymentIsServed` (liveness): who paid becomes a paid user, and a paid invoice is mailed unless its company was not found or an attempt left its mark or swallowed its error |

A session and an invoice touch each other only through the bounds, so one of each suffices; two failures are a failed mail and a failed undo, or two deaths in a row; two requests are two deliveries of one event at once.
Not every paid invoice is mailed, and the properties do not say so: they bound the cases. An invoice that is not mailed is in `missed`, `stuck` or `dropped`, and each of these has its line in the code.

*Fairness.* `WF` of a request's steps and of the delivery of each event, as in `BillingSync`. Nobody has to pay. Stripe repeats for three days; failures are taken to end before that.

*Proved* (`PaidInvoiceProofs`), for any sessions, invoices, requests and failures: `Typed` (no run repeats it), `OnceEach`, `MarkIsHonest`. `Count` says that while an invoice has not been mailed by
two at once there is at most one at it, and counts mails against what the mark or that request stands for; `Honest` says what a mark stands for.

*Stated, not kept.* `CompanyInvoiceIsMailed` (`MCPaid_invoice_early.cfg`; "Auto-sends a paid company invoice", `stripe.service.ts:1615`), with nothing failing: a subscription's invoice carries no
`companyId` of its own (893), so its company is looked up by the subscription in the row (1583). Handled before the completed Checkout or the upgrade has written that, `invoice.paid` finds no company (1635),
is answered 200, and the invoice is never mailed, marked or logged.

*Seen while modelling, without a run.* The undo of a company's mark is there "so a retried webhook can send again" (`stripe.service.ts:1681`), but the error is swallowed, the webhook answers 200, and Stripe does not retry.
A failed look-up of the address (1665) comes after the claim and outside that undo: the mark stays and the mail is lost. A slow payment method completes the session unpaid, and
`checkout.session.async_payment_succeeded` is not handled: that user pays, gets the invoice and is never activated, which is why `PaymentIsServed` speaks of sessions completed as paid.
Nothing closes an individual's earlier sessions, so two can be paid; the second payment changes nothing. The handler of `invoice.paid` has up to twenty seconds between its two looks at the mark.

*Left out.* Mails sent by hand, lists and exports, the user's `last_checkout_session_id` and customer id (no decision reads them), users without an address or a row.

## 11. What is proved, what is checked, what is neither

* The proofs assume the named `ASSUME` of each module (model values are distinct, bounds are naturals), which TLC evaluates on every run, and the
  theorems below what their runs assume:

  | theorem | assumes | why |
  |---|---|---|
  | `RowFollows`, `PaidFeeRecorded` | `Ordered` | out of order both are false ("stated, not kept" in section 4) |
  | `LapseBlocks`, `AccessAgrees` | `Ordered`, `~AdminActs` | the same; a suspension and a webhook change the same users |
  | `SuspensionComplete`, `UnblockedWhenUp` | `Alone` | requests read a status, then await |
  | `AccountsInAgreement` | `Alone`, `Worker # {}` | the same; the invariant is kept per request, so there has to be one |
  | `PromoListsAgree` | one worker, no crash | a crash, or another request, leaves what nobody undoes |
  | `PromoDiscountsOwned` | the same, at most one failure | the clean-up's own calls may fail too |

  These are conditions on the schedule, not on the data: rows, people, events, purchases and operations stay unbounded.
* Each invariant that is proved was first checked by TLC, and the strengthened invariants too. The theorem that states a property names it; the runs
  show it on an instance where its interesting cases occur, but for what the sections above name: the snapshot two pages race for, and the mark a later invoice sets.
* Only model-checked: the four liveness properties (`EndEventuallyBlocks`, `ScoringLeadsToScore`, `ReportJobLeadsToReport`,
  `PaymentIsServed`), since leads-to under fairness is out of the proof system's reach with ENABLED. Every safety invariant and action property of a passing
  run is also a theorem.
* Liveness runs use no symmetry. Elsewhere ids that are only compared for equality are symmetric; `None` and `Empty` are not in the sets.
* A property that fails is a run that expects the violation, with the sentence of the code it contradicts, under `findings` (`promo_rename`, `chat_page`), or is
  described under "stated, not kept" above with its configuration (`MCBilling_late_order`, `MCBilling_late_payment`, `MCBilling_restore`, `MCAccess_closed`, `MCAssessment_final`, `MCChat_gap`,
  `MCPaid_invoice_early`). The observations without a run were made on the same models or read in the code, and are kept here so that they are not lost.

## 12. Not modelled

Everything in the inventory that is not bold, for the reasons in `PROJECT.json`; in short, what keeps no state and what is a single write.
Two parts would bear a model and have none:

* *Distilled memories.* Extraction is a language-model call whose candidates are inserted one by one, each superseding the confirmed
  memories of its kind that share an entity (`extraction_service.py:281`). Read in the code: a candidate supersedes a confirmed memory before
  anybody confirms it, so the old one is lost even if the new one is rejected; two candidates extracted after the first do not see each other, and
  both can be confirmed; editing a memory does not confirm it, though the plan in the docs says so.
* *The score engine.* A pure function of 240 answers and constant tables. There is no second definition of it in the repository
  to check it against, and a copy of its tables would restate it.

The frontend is large, but its stores hold one request's answer and its pages are layout; the page that drives the assessment pipeline is
modelled. Lists, exports, dashboards and portals read. Guards and permissions are look-ups, and are not a subject of this project.
