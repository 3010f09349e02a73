--------------------------- MODULE BillingSyncProofs ---------------------------
(***************************************************************************)
(* What holds of BillingSync for any number of sessions, requests, events  *)
(* and failures, in any delivery order: its types, and the two safety      *)
(* invariants of the unordered run.                                        *)
(*                                                                         *)
(* Neither is inductive.  A fee is billed once because of what the         *)
(* idempotency keys, the sessions' flags and the pending items say of each *)
(* other (FeeInv); the mark is honest, and the row names a subscription,   *)
(* because of what every outstanding event, and every request that still   *)
(* remembers one, says of Stripe (EventInv, RequestInv).                   *)
(***************************************************************************)
EXTENDS BillingSync, TLAPS

\* What an event, handled at any later time, may rely on.
Sound(e) ==
    /\ IF e.type = "unpaid" THEN session[e.s].stage \in {"unpaid", "late"}
                            ELSE session[e.s].stage = "complete"
    /\ e.type = "unpaid" => session[e.s].mode = "payment"
    /\ e.type \notin {"completed", "unpaid"} => session[e.s].mode = "subscription"
    /\ e.lines > 0 => billed[e.s] > 0

EventInv == \A e \in events : Sound(e)

RequestInv ==
    \A w \in Worker :
        wk[w].pc # "idle" =>
            /\ wk[w].ev \in Event
            /\ Sound(wk[w].ev)
            /\ wk[w].ev.type = "unpaid" => wk[w].pc = "ack"
            /\ wk[w].pc = "attach" => session[wk[w].ev.s].fee = "deferred"

FeeInv ==
    \A s \in Session :
        /\ items[s] + billed[s] <= 1
        /\ items[s] + billed[s] > 0 =>
              /\ session[s].stage = "complete"
              /\ session[s].fee = "now" \/ s \in keys
        /\ s \in keys => session[s].stage = "complete" /\ session[s].fee = "deferred"
        /\ session[s].fee # "no" => session[s].mode = "subscription"
        /\ session[s].stage = "complete" /\ session[s].fee = "now" => billed[s] > 0
        /\ sub[s] # "none" <=> /\ session[s].stage = "complete"
                               /\ session[s].mode = "subscription"

\* What the row names is a subscription that was bought.
RowNames ==
    row.subId # None => /\ session[row.subId].stage = "complete"
                        /\ session[row.subId].mode = "subscription"

RowInv == FeeMarkIsHonest /\ RowNames

IInv == TypeOK /\ EventInv /\ RequestInv /\ FeeInv /\ RowInv

-------------------------------------------------------------------------------
\* An event made by a Stripe action is an event, and sound when what it says
\* of its session holds after the step.
LEMMA EvIsSound ==
    ASSUME EventTypeOK, NEW k \in Nat, NEW type \in EventType,
           NEW s \in Session, NEW status \in Status, NEW lines \in Nat,
           session'[s].stage = "complete", type # "unpaid",
           type # "completed" => session'[s].mode = "subscription",
           lines > 0 => billed'[s] > 0,
           NEW e, e = Ev(k, type, s, status, lines)
    PROVE  e \in Event /\ Sound(e)'
<1>1. e \in Event
  BY DEF EventTypeOK, Ev, Event
<1>2. e.s = s /\ e.type = type /\ e.lines = lines
  BY DEF Ev
<1> QED
  BY <1>1, <1>2 DEF Sound

\* Any step of Stripe's side.
StripeStep(s) ==
    \/ \E mode \in Mode, trial \in BOOLEAN : CreateCheckout(s, mode, trial)
    \/ CompleteCheckout(s)
    \/ CompleteUnpaid(s)
    \/ PaymentArrives(s)
    \/ PayInvoice(s)
    \/ FailInvoice(s)
    \/ EndSubscription(s)
    \/ ToggleCancelAtPeriodEnd(s)

\* Stripe never takes back what an event relies on: a session that went through
\* Checkout, paid or not, stays so with its mode and its fee, and a billed fee
\* stays billed.
LEMMA StripeIsMonotone ==
    ASSUME StripeTypeOK, NEW s \in Session, StripeStep(s)
    PROVE  \A t \in Session :
              /\ session[t].stage = "complete" => session'[t].stage = "complete"
              /\ session[t].stage \in {"unpaid", "late"} =>
                    session'[t].stage \in {"unpaid", "late"}
              /\ session[t].stage \in {"unpaid", "late", "complete"} =>
                    /\ session'[t].mode = session[t].mode
                    /\ session'[t].fee = session[t].fee
              /\ billed'[t] \in Nat
              /\ billed'[t] >= billed[t]
<1>1. CASE \E mode \in Mode, trial \in BOOLEAN : CreateCheckout(s, mode, trial)
  BY <1>1 DEF CreateCheckout, StripeTypeOK
<1>2. CASE CompleteCheckout(s) \/ CompleteUnpaid(s) \/ PaymentArrives(s)
  BY <1>2 DEF CompleteCheckout, CompleteUnpaid, PaymentArrives, StripeTypeOK
<1>3. CASE PayInvoice(s)
  BY <1>3 DEF PayInvoice, StripeTypeOK
<1>4. CASE FailInvoice(s) \/ EndSubscription(s) \/ ToggleCancelAtPeriodEnd(s)
  BY <1>4 DEF FailInvoice, EndSubscription, ToggleCancelAtPeriodEnd, StripeTypeOK,
              stripeVars
<1> QED
  BY <1>1, <1>2, <1>3, <1>4 DEF StripeStep

LEMMA StripeKeepsSound ==
    ASSUME StripeTypeOK, NEW s \in Session, StripeStep(s),
           NEW e \in Event, Sound(e)
    PROVE  Sound(e)'
<1>1. e.s \in Session
  BY DEF Event
<1> QED
  BY <1>1, StripeIsMonotone DEF Sound, StripeTypeOK

\* Stripe's side keeps the requests' memory sound, and the row backed.
LEMMA StripeKeepsRest ==
    ASSUME IInv, NEW s \in Session, StripeStep(s), UNCHANGED <<row, wk, failures>>
    PROVE  RequestTypeOK' /\ RowTypeOK' /\ RequestInv' /\ RowInv'
<1> USE DEF IInv, TypeOK
<1>1. RequestTypeOK' /\ RowTypeOK'
  BY DEF RequestTypeOK, RowTypeOK
<1>2. ASSUME NEW w \in Worker, wk[w].pc # "idle"
      PROVE  /\ wk[w].ev \in Event
             /\ Sound(wk[w].ev)'
             /\ wk[w].ev.type = "unpaid" => wk[w].pc = "ack"
             /\ wk[w].pc = "attach" => session'[wk[w].ev.s].fee = "deferred"
  <2>1. wk[w].ev \in Event /\ Sound(wk[w].ev) /\ wk[w].ev.s \in Session
    BY <1>2 DEF RequestInv, Event
  <2>2. Sound(wk[w].ev)'
    BY <2>1, StripeKeepsSound DEF Sound
  <2> QED
    BY <1>2, <2>1, <2>2, StripeIsMonotone DEF RequestInv, Sound
<1>3. RequestInv'
  BY <1>2 DEF RequestInv, Sound
<1>4. FeeMarkIsHonest'
  BY StripeIsMonotone DEF RowInv, FeeMarkIsHonest, StripeTypeOK
<1>5. RowNames'
  BY StripeIsMonotone DEF RowInv, RowNames, RowTypeOK
<1> QED
  BY <1>1, <1>3, <1>4, <1>5 DEF RowInv

\* Opening a session changes nothing that is already complete.
LEMMA CreateCheckoutStep ==
    ASSUME IInv, NEW s \in Session, NEW mode \in Mode, NEW trial \in BOOLEAN,
           CreateCheckout(s, mode, trial)
    PROVE  IInv'
<1> USE DEF IInv, TypeOK
<1>1. StripeStep(s) /\ UNCHANGED <<row, company, user, wk, admin, failures>>
  BY DEF StripeStep, CreateCheckout
<1>2. StripeTypeOK' /\ AccessTypeOK'
  BY DEF CreateCheckout, StripeTypeOK, Stage, AccessTypeOK, Status, ActiveStatus, Mode, Fee, FeeOf, RowTypeOK, stripeVars
<1>3. EventTypeOK' /\ EventInv'
  <2>1. UNCHANGED eventVars
    BY DEF CreateCheckout
  <2> QED
    BY <1>1, <2>1, StripeKeepsSound DEF eventVars, EventTypeOK, EventInv, Sound
<1>4. FeeInv'
  <2>1. /\ session'[s].stage = "open"
        /\ session'[s].mode = mode
        /\ mode = "payment" => session'[s].fee = "no"
        /\ session[s].stage = "none"
        /\ \A t \in Session \ {s} : session'[t] = session[t]
    BY DEF CreateCheckout, StripeTypeOK, FeeOf
  <2>2. s \notin keys /\ items[s] + billed[s] <= 1 /\ items[s] + billed[s] = 0
    BY <2>1 DEF FeeInv, StripeTypeOK, Stage
  <2>3. UNCHANGED <<sub, items, keys, billed>>
    BY DEF CreateCheckout
  <2>4. \A t \in Session \ {s} : session'[t] = session[t] /\ sub'[t] = sub[t]
                                 /\ items'[t] = items[t] /\ billed'[t] = billed[t]
    BY <2>1, <2>3
  <2>5. sub[s] = "none"
    BY <2>1 DEF FeeInv
  <2>6. session'[s].fee # "no" => session'[s].mode = "subscription"
    BY <2>1 DEF Mode
  <2> QED
    BY <2>1, <2>2, <2>3, <2>4, <2>5, <2>6 DEF FeeInv
<1> QED
  BY <1>1, <1>2, <1>3, <1>4, StripeKeepsRest

\* Completing one bills its fee at once, when it carries one.
LEMMA CompleteCheckoutStep ==
    ASSUME IInv, NEW s \in Session, CompleteCheckout(s)
    PROVE  IInv'
<1> USE DEF IInv, TypeOK
<1>1. StripeStep(s) /\ UNCHANGED <<row, company, user, wk, admin, failures>>
  BY DEF StripeStep, CompleteCheckout
<1>2. StripeTypeOK' /\ AccessTypeOK'
  <2>1. session' \in [Session -> [stage : Stage, mode : Mode, trial : BOOLEAN, fee : Fee]]
    BY DEF CompleteCheckout, StripeTypeOK, Stage
  <2>2. sub' \in [Session -> Status \cup {"none"}]
    BY DEF CompleteCheckout, StripeTypeOK, Status, ActiveStatus
  <2>3. billed' \in [Session -> Nat]
    BY DEF CompleteCheckout, StripeTypeOK
  <2>4. overlap' \in BOOLEAN /\ latest' \in Session
    BY DEF CompleteCheckout, StripeTypeOK
  <2> QED
    BY <1>1, <2>1, <2>2, <2>3, <2>4 DEF CompleteCheckout, StripeTypeOK, AccessTypeOK
<1>3. EventTypeOK' /\ EventInv'
  <2>1. \A e \in events : Sound(e)'
    BY <1>1, StripeKeepsSound DEF EventInv, EventTypeOK
  <2>2. session'[s].stage = "complete" /\ session'[s].mode = session[s].mode
    BY DEF CompleteCheckout, StripeTypeOK
  <2>3. ASSUME NEW k \in Nat, NEW type \in EventType, NEW status \in Status,
               type # "unpaid", type # "completed" => session[s].mode = "subscription",
               NEW e, e = Ev(k, type, s, status, 0)
        PROVE  e \in Event /\ Sound(e)'
    BY <2>2, <2>3, EvIsSound
  <2>4. ASSUME session[s].mode = "payment"
        PROVE  (\A e \in events' : e \in Event /\ Sound(e)') /\ emitted' = emitted + 1
    <3>1. /\ events' = events \cup {Ev(1, "completed", s, "active", 0)}
          /\ emitted' = emitted + 1
      BY <2>4 DEF CompleteCheckout, Emit
    <3>2. \A e \in events' : e \in Event /\ Sound(e)'
      BY <2>1, <2>3, <3>1 DEF EventTypeOK, EventType, Status, ActiveStatus
    <3> QED
      BY <3>1, <3>2
  <2>5. ASSUME session[s].mode = "subscription"
        PROVE  (\A e \in events' : e \in Event /\ Sound(e)') /\ emitted' = emitted + 2
    <3>1. PICK status \in ActiveStatus, k \in {1, 2} :
             /\ events' = events \cup {Ev(k, "completed", s, status, 0),
                                       Ev(3 - k, "paid", s, status, 0)}
             /\ emitted' = emitted + 2
      BY <2>5 DEF CompleteCheckout, Emit, ActiveStatus
    <3>2. status \in Status /\ k \in Nat /\ 3 - k \in Nat
      BY <3>1 DEF Status
    <3>3. ASSUME NEW e, e = Ev(k, "completed", s, status, 0)
          PROVE  e \in Event /\ Sound(e)'
      BY <2>3, <3>2, <3>3 DEF EventType
    <3>4. ASSUME NEW e, e = Ev(3 - k, "paid", s, status, 0)
          PROVE  e \in Event /\ Sound(e)'
      BY <2>3, <2>5, <3>2, <3>4 DEF EventType
    <3>5. \A e \in events' : e \in Event /\ Sound(e)'
      BY <2>1, <3>1, <3>3, <3>4 DEF EventTypeOK
    <3> QED
      BY <3>1, <3>5
  <2>6. session[s].mode = "payment" \/ session[s].mode = "subscription"
    BY DEF StripeTypeOK, Mode
  <2>7. emitted' \in Nat
    BY <2>4, <2>5, <2>6 DEF EventTypeOK
  <2> QED
    BY <2>4, <2>5, <2>6, <2>7 DEF EventTypeOK, EventInv
<1>4. FeeInv'
  BY DEF CompleteCheckout, FeeInv, StripeTypeOK, Status, ActiveStatus, Mode, Fee, FeeOf, stripeVars
<1> QED
  BY <1>1, <1>2, <1>3, <1>4, StripeKeepsRest

\* A Checkout finished with nothing paid, and the late payment, change what
\* Stripe has of that session alone.
LEMMA UnpaidStep ==
    ASSUME IInv, NEW s \in Session, CompleteUnpaid(s) \/ PaymentArrives(s)
    PROVE  IInv'
<1> USE DEF IInv, TypeOK
<1>1. StripeStep(s) /\ UNCHANGED <<row, company, user, wk, admin, failures>>
  BY DEF StripeStep, CompleteUnpaid, PaymentArrives
<1>2. /\ session[s].stage \in {"open", "unpaid"} /\ session'[s].stage \in {"unpaid", "late"}
      /\ session'[s].mode = session[s].mode /\ session'[s].fee = session[s].fee
      /\ \A t \in Session \ {s} : session'[t] = session[t]
      /\ UNCHANGED <<sub, items, keys, billed, overlap, latest>>
  BY DEF CompleteUnpaid, PaymentArrives, StripeTypeOK
<1>3. StripeTypeOK' /\ AccessTypeOK'
  <2>0. "unpaid" \in Stage /\ "late" \in Stage
    BY DEF Stage
  <2>1. session' \in [Session -> [stage : Stage, mode : Mode, trial : BOOLEAN, fee : Fee]]
    BY <2>0 DEF CompleteUnpaid, PaymentArrives, StripeTypeOK
  <2> QED
    BY <1>1, <1>2, <2>1 DEF StripeTypeOK, AccessTypeOK
<1>4. EventTypeOK' /\ EventInv'
  <2>1. \A e \in events : Sound(e)'
    BY <1>1, StripeKeepsSound DEF EventInv, EventTypeOK
  <2>2. CASE CompleteUnpaid(s)
    <3>1. /\ Ev(1, "unpaid", s, "active", 0) \in Event
          /\ Ev(1, "unpaid", s, "active", 0).s = s
          /\ Ev(1, "unpaid", s, "active", 0).type = "unpaid"
          /\ Ev(1, "unpaid", s, "active", 0).lines = 0
      BY DEF Ev, Event, EventType, EventTypeOK, Status, ActiveStatus
    <3>2. PICK u \in Event : /\ u.s = s /\ u.type = "unpaid" /\ u.lines = 0
                             /\ events' = events \cup {u}
      BY <2>2, <3>1 DEF CompleteUnpaid, Emit
    <3>3. session'[s].mode = "payment" /\ emitted' \in Nat
      BY <1>2, <2>2 DEF CompleteUnpaid, Emit, EventTypeOK
    <3>4. session'[s].stage = "unpaid"
      BY <2>2 DEF CompleteUnpaid, StripeTypeOK
    <3>5. Sound(u)'
      BY <3>2, <3>3, <3>4 DEF Sound
    <3> QED
      BY <2>1, <3>2, <3>3, <3>5 DEF EventTypeOK, EventInv
  <2>3. CASE PaymentArrives(s)
    BY <2>1, <2>3 DEF PaymentArrives, eventVars, EventTypeOK, EventInv
  <2> QED
    BY <2>2, <2>3
<1>5. FeeInv'
  BY <1>2 DEF FeeInv
<1> QED
  BY <1>1, <1>3, <1>4, <1>5, StripeKeepsRest

\* Paying an invoice moves the pending item to the fees billed.
LEMMA PayInvoiceStep ==
    ASSUME IInv, NEW s \in Session, PayInvoice(s)
    PROVE  IInv'
<1> USE DEF IInv, TypeOK
<1>1. StripeStep(s) /\ UNCHANGED <<row, company, user, wk, admin, failures>>
  BY DEF StripeStep, PayInvoice
<1>2. StripeTypeOK' /\ AccessTypeOK'
  BY DEF PayInvoice, StripeTypeOK, AccessTypeOK, Status, ActiveStatus, Mode, Fee, FeeOf, RowTypeOK, stripeVars
<1>3. EventTypeOK' /\ EventInv'
  <2>1. \A e \in events : Sound(e)'
    BY <1>1, StripeKeepsSound DEF EventInv, EventTypeOK
  <2>2. session'[s].stage = "complete" /\ session'[s].mode = "subscription"
    BY DEF PayInvoice, FeeInv, StripeTypeOK, Status, ActiveStatus, stripeVars
  <2>3. items[s] > 0 => billed'[s] > 0
    BY DEF PayInvoice, FeeInv, StripeTypeOK
  <2>4. ASSUME NEW e, e = Ev(1, "paid", s, "active", items[s])
        PROVE  e \in Event /\ Sound(e)'
    BY <2>2, <2>3, <2>4, EvIsSound DEF EventType, Status, ActiveStatus, StripeTypeOK
  <2>5. ASSUME NEW e, e = Ev(2, "updated", s, "active", 0)
        PROVE  e \in Event /\ Sound(e)'
    BY <2>2, <2>5, EvIsSound DEF EventType, Status, ActiveStatus
  <2>6. events' = events \cup {Ev(1, "paid", s, "active", items[s]),
                               Ev(2, "updated", s, "active", 0)}
    BY DEF PayInvoice, Emit
  <2>7. emitted' \in Nat
    BY DEF PayInvoice, Emit, EventTypeOK
  <2>8. \A e \in events' : e \in Event /\ Sound(e)'
    BY <2>1, <2>4, <2>5, <2>6 DEF EventTypeOK
  <2> QED
    BY <2>7, <2>8 DEF EventTypeOK, EventInv
<1>4. FeeInv'
  BY DEF PayInvoice, FeeInv, StripeTypeOK, Status, ActiveStatus, Mode, Fee, FeeOf, stripeVars
<1> QED
  BY <1>1, <1>2, <1>3, <1>4, StripeKeepsRest

\* A failed collection touches the status only.
LEMMA FailInvoiceStep ==
    ASSUME IInv, NEW s \in Session, FailInvoice(s)
    PROVE  IInv'
<1> USE DEF IInv, TypeOK
<1>1. StripeStep(s) /\ UNCHANGED <<row, company, user, wk, admin, failures>>
  BY DEF StripeStep, FailInvoice
<1>2. StripeTypeOK' /\ AccessTypeOK'
  BY DEF FailInvoice, StripeTypeOK, AccessTypeOK, Status, ActiveStatus, Mode, Fee, FeeOf, RowTypeOK, stripeVars
<1>3. EventTypeOK' /\ EventInv'
  <2>1. \A e \in events : Sound(e)'
    BY <1>1, StripeKeepsSound DEF EventInv, EventTypeOK
  <2>2. session'[s].stage = "complete" /\ session'[s].mode = "subscription"
    BY DEF FailInvoice, FeeInv, StripeTypeOK, Status, ActiveStatus, stripeVars
  <2>3. ASSUME NEW e, e = Ev(1, "failed", s, "past_due", 0)
        PROVE  e \in Event /\ Sound(e)'
    BY <2>2, <2>3, EvIsSound DEF EventType, Status, ActiveStatus
  <2>4. ASSUME NEW e, e = Ev(2, "updated", s, "past_due", 0)
        PROVE  e \in Event /\ Sound(e)'
    BY <2>2, <2>4, EvIsSound DEF EventType, Status, ActiveStatus
  <2>5. events' = events \cup {Ev(1, "failed", s, "past_due", 0),
                               Ev(2, "updated", s, "past_due", 0)}
    BY DEF FailInvoice, Emit
  <2>6. emitted' \in Nat
    BY DEF FailInvoice, Emit, EventTypeOK
  <2>7. \A e \in events' : e \in Event /\ Sound(e)'
    BY <2>1, <2>3, <2>4, <2>5 DEF EventTypeOK
  <2> QED
    BY <2>6, <2>7 DEF EventTypeOK, EventInv
<1>4. FeeInv'
  BY DEF FailInvoice, FeeInv, StripeTypeOK, Status, ActiveStatus, Mode, Fee, FeeOf, stripeVars
<1> QED
  BY <1>1, <1>2, <1>3, <1>4, StripeKeepsRest

\* So does the end of the subscription.
LEMMA EndSubscriptionStep ==
    ASSUME IInv, NEW s \in Session, EndSubscription(s)
    PROVE  IInv'
<1> USE DEF IInv, TypeOK
<1>1. StripeStep(s) /\ UNCHANGED <<row, company, user, wk, admin, failures>>
  BY DEF StripeStep, EndSubscription
<1>2. StripeTypeOK' /\ AccessTypeOK'
  BY DEF EndSubscription, StripeTypeOK, AccessTypeOK, Status, ActiveStatus, Mode, Fee, FeeOf, RowTypeOK, stripeVars
<1>3. EventTypeOK' /\ EventInv'
  <2>1. \A e \in events : Sound(e)'
    BY <1>1, StripeKeepsSound DEF EventInv, EventTypeOK
  <2>2. session'[s].stage = "complete" /\ session'[s].mode = "subscription"
    BY DEF EndSubscription, FeeInv, StripeTypeOK, Status, ActiveStatus, stripeVars
  <2>3. ASSUME NEW e, e = Ev(1, "deleted", s, "canceled", 0)
        PROVE  e \in Event /\ Sound(e)'
    BY <2>2, <2>3, EvIsSound DEF EventType, Status, ActiveStatus
  <2>4. events' = events \cup {Ev(1, "deleted", s, "canceled", 0)}
    BY DEF EndSubscription, Emit
  <2>5. emitted' \in Nat
    BY DEF EndSubscription, Emit, EventTypeOK
  <2>6. \A e \in events' : e \in Event /\ Sound(e)'
    BY <2>1, <2>3, <2>4 DEF EventTypeOK
  <2> QED
    BY <2>5, <2>6 DEF EventTypeOK, EventInv
<1>4. FeeInv'
  BY DEF EndSubscription, FeeInv, StripeTypeOK, Status, ActiveStatus, Mode, Fee, FeeOf, stripeVars
<1> QED
  BY <1>1, <1>2, <1>3, <1>4, StripeKeepsRest

\* The Super Admin's cancel and reinstate only make Stripe report.
LEMMA ToggleCancelStep ==
    ASSUME IInv, NEW s \in Session, ToggleCancelAtPeriodEnd(s)
    PROVE  IInv'
<1> USE DEF IInv, TypeOK
<1>1. StripeStep(s) /\ UNCHANGED <<row, company, user, wk, admin, failures>>
  BY DEF StripeStep, ToggleCancelAtPeriodEnd
<1>2. StripeTypeOK' /\ AccessTypeOK'
  BY DEF ToggleCancelAtPeriodEnd, StripeTypeOK, AccessTypeOK, Status, ActiveStatus, Mode, Fee, FeeOf, RowTypeOK, stripeVars
<1>3. EventTypeOK' /\ EventInv'
  <2>1. \A e \in events : Sound(e)'
    BY <1>1, StripeKeepsSound DEF EventInv, EventTypeOK
  <2>2. /\ session[s].stage = "complete" /\ session[s].mode = "subscription"
        /\ UNCHANGED session
    BY BillingAssumption DEF ToggleCancelAtPeriodEnd, RowInv, RowNames, stripeVars
  <2>3. sub[s] \in Status
    BY <2>2 DEF FeeInv, StripeTypeOK
  <2>4. ASSUME NEW e, e = Ev(1, "updated", s, sub[s], 0)
        PROVE  e \in Event /\ Sound(e)'
    BY <2>2, <2>3, <2>4, EvIsSound DEF EventType
  <2>5. events' = events \cup {Ev(1, "updated", s, sub[s], 0)}
    BY DEF ToggleCancelAtPeriodEnd, Emit
  <2>6. emitted' \in Nat
    BY DEF ToggleCancelAtPeriodEnd, Emit, EventTypeOK
  <2>7. \A e \in events' : e \in Event /\ Sound(e)'
    BY <2>1, <2>4, <2>5 DEF EventTypeOK
  <2> QED
    BY <2>6, <2>7 DEF EventTypeOK, EventInv
<1>4. FeeInv'
  BY DEF ToggleCancelAtPeriodEnd, FeeInv, StripeTypeOK, Status, ActiveStatus, Mode, Fee, FeeOf, stripeVars
<1> QED
  BY <1>1, <1>2, <1>3, <1>4, StripeKeepsRest

-------------------------------------------------------------------------------
\* The webhook requests and the Super Admin leave Stripe's side alone, but for
\* the deferred items; what only they change is treated apart.
LEMMA StripeSideKept ==
    ASSUME IInv, UNCHANGED stripeVars, events' \subseteq events, emitted' = emitted
    PROVE  /\ StripeTypeOK' /\ EventTypeOK' /\ EventInv' /\ FeeInv'
           /\ \A e \in Event : Sound(e) => Sound(e)'
<1> USE DEF IInv, TypeOK, stripeVars
<1>1. StripeTypeOK'
  BY DEF StripeTypeOK
<1>2. EventTypeOK'
  BY DEF EventTypeOK
<1>3. \A e \in Event : Sound(e) => Sound(e)'
  BY DEF Sound
<1>4. EventInv'
  BY <1>3 DEF EventInv, EventTypeOK
<1>5. FeeInv'
  BY DEF FeeInv
<1> QED
  BY <1>1, <1>2, <1>3, <1>4, <1>5

LEMMA RowKept ==
    ASSUME IInv, UNCHANGED <<session, billed, row>>
    PROVE  RowTypeOK' /\ RowInv'
BY DEF IInv, TypeOK, RowTypeOK, RowInv, FeeMarkIsHonest, RowNames

\* A request that goes on to another step still remembers a sound event.
LEMMA RequestMoves ==
    ASSUME IInv, NEW w \in Worker, wk[w].pc # "idle", NEW pc \in Pc, Goto(w, pc),
           wk[w].ev.type = "unpaid" => pc = "ack", pc = "attach" => session[wk[w].ev.s].fee = "deferred",
           UNCHANGED <<session, billed, failures>>
    PROVE  RequestTypeOK' /\ RequestInv'
<1> USE DEF IInv, TypeOK
<1>1. RequestTypeOK'
  BY DEF RequestTypeOK, Goto
<1>2. \A v \in Worker : /\ wk'[v].ev = wk[v].ev
                        /\ v # w => wk'[v] = wk[v]
                        /\ v = w => wk'[v].pc = pc
  BY DEF RequestTypeOK, Goto
<1>3. ASSUME NEW v \in Worker, wk'[v].pc # "idle"
      PROVE  /\ wk'[v].ev \in Event
             /\ Sound(wk[v].ev)
             /\ wk'[v].ev.type = "unpaid" => wk'[v].pc = "ack"
             /\ wk'[v].pc = "attach" => session'[wk'[v].ev.s].fee = "deferred"
  BY <1>2, <1>3 DEF RequestInv
<1>4. RequestInv'
  BY <1>2, <1>3 DEF RequestInv, Sound
<1> QED
  BY <1>1, <1>4

\* The row is written by WriteRow and, the fee mark alone, by Deliver: with
\* what a sound event says.
LEMMA WriteIsBacked ==
    ASSUME IInv, NEW e \in Event, Sound(e), NEW status \in Status \cup {"none"},
           UNCHANGED <<session, billed>>,
           (e.type # "unpaid" /\ row' = RowAfter(e, status)) \/ row' = [row EXCEPT !.fee = @ \/ MarksFee(e)]
    PROVE  RowTypeOK' /\ RowInv'
<1> USE DEF IInv, TypeOK
<1>1. e.s \in Session /\ e.type \in EventType
  BY DEF Event
<1>2. /\ e.type # "unpaid" => session[e.s].stage = "complete"
      /\ session[e.s].mode \in Mode
  BY <1>1 DEF Sound, StripeTypeOK
<1>3. e.type # "unpaid" /\ session[e.s].fee = "now" => billed[e.s] > 0
  BY <1>1, <1>2 DEF FeeInv
<1>4. RowTypeOK'
  BY <1>1 DEF RowTypeOK, RowAfter, CheckoutWrite, PaymentWrite, DeleteWrite, UpdateWrite,
              Status, ActiveStatus
<1>5. row'.fee => row.fee \/ billed[e.s] > 0
  BY <1>1, <1>3 DEF RowTypeOK, RowAfter, CheckoutWrite, PaymentWrite, DeleteWrite,
                    UpdateWrite, MarksFee, Sound
<1>6. \/ row'.subId \in {row.subId, None}
      \/ row'.subId = e.s /\ e.type # "unpaid" /\ session[e.s].mode = "subscription"
  BY <1>1, <1>2, BillingAssumption
     DEF RowTypeOK, RowAfter, CheckoutWrite, PaymentWrite, DeleteWrite, UpdateWrite,
         Sound, Mode
<1>7. RowNames'
  BY <1>1, <1>2, <1>6 DEF RowInv, RowNames, RowTypeOK
<1>8. FeeMarkIsHonest'
  BY <1>1, <1>5 DEF RowInv, FeeMarkIsHonest
<1> QED
  BY <1>4, <1>7, <1>8 DEF RowInv

LEMMA DeliverStep ==
    ASSUME IInv, NEW w \in Worker, NEW e \in events, Deliver(w, e)
    PROVE  IInv'
<1> USE DEF IInv, TypeOK
<1>1. e \in Event /\ Sound(e) /\ e.status \in Status
  BY DEF EventTypeOK, EventInv, Event
<1>2. StripeTypeOK' /\ EventTypeOK' /\ EventInv' /\ FeeInv'
  BY StripeSideKept DEF Deliver, eventVars
<1>3. RowTypeOK' /\ RowInv'
  <2>1. row' = [row EXCEPT !.fee = @ \/ MarksFee(e)]
    BY DEF Deliver
  <2>2. UNCHANGED <<session, billed>>
    BY DEF Deliver, stripeVars
  <2> QED
    BY <1>1, <2>1, <2>2, WriteIsBacked DEF Status
<1>4. AccessTypeOK'
  BY DEF Deliver, AccessTypeOK
<1>5. /\ FirstStep(e) \in Pc \ {"attach"}
      /\ e.type = "unpaid" => FirstStep(e) = "ack"
  BY DEF FirstStep, Pc
<1>6. RequestTypeOK'
  BY <1>1, <1>5 DEF Deliver, RequestTypeOK
<1>7. RequestInv'
  <2>1. \A v \in Worker : IF v = w THEN /\ wk'[v].ev = e /\ wk'[v].pc # "attach"
                                        /\ e.type = "unpaid" => wk'[v].pc = "ack"
                                   ELSE wk'[v] = wk[v]
    BY <1>5 DEF Deliver, RequestTypeOK
  <2>2. UNCHANGED <<session, billed>>
    BY DEF Deliver, stripeVars
  <2> QED
    BY <1>1, <2>1, <2>2 DEF RequestInv, Sound
<1> QED
  BY <1>2, <1>3, <1>4, <1>6, <1>7

LEMMA RetrieveStep ==
    ASSUME IInv, NEW w \in Worker, RetrieveSubscription(w)
    PROVE  IInv'
<1> USE DEF IInv, TypeOK
<1>1. wk[w].ev \in Event /\ wk[w].ev.s \in Session
  BY DEF RetrieveSubscription, RequestInv, Event
<1>2. StripeTypeOK' /\ EventTypeOK' /\ EventInv' /\ FeeInv'
  BY StripeSideKept DEF RetrieveSubscription, eventVars
<1>3. RowTypeOK' /\ RowInv' /\ AccessTypeOK'
  BY RowKept DEF RetrieveSubscription, stripeVars, AccessTypeOK
<1>4. RequestTypeOK'
  BY <1>1 DEF RetrieveSubscription, RequestTypeOK, StripeTypeOK, Pc
<1>5. RequestInv'
  <2>1. \A v \in Worker : /\ wk'[v].ev = wk[v].ev
                          /\ IF v = w THEN wk'[v].pc = "write" ELSE wk'[v] = wk[v]
    BY DEF RetrieveSubscription, RequestTypeOK
  <2>2. UNCHANGED <<session, billed>> /\ wk[w].pc = "retrieve"
    BY DEF RetrieveSubscription, stripeVars
  <2> QED
    BY <2>1, <2>2 DEF RequestInv, Sound
<1> QED
  BY <1>2, <1>3, <1>4, <1>5

LEMMA WriteRowStep ==
    ASSUME IInv, NEW w \in Worker, WriteRow(w)
    PROVE  IInv'
<1> USE DEF IInv, TypeOK
<1>1. /\ wk[w].pc # "idle" /\ wk[w].ev \in Event /\ Sound(wk[w].ev)
      /\ wk[w].status \in Status \cup {"none"} /\ wk[w].ev.type # "unpaid"
  BY DEF WriteRow, RequestInv, RequestTypeOK
<1>2. StripeTypeOK' /\ EventTypeOK' /\ EventInv' /\ FeeInv'
  BY StripeSideKept DEF WriteRow, eventVars
<1>3. RowTypeOK' /\ RowInv'
  <2>1. row' = RowAfter(wk[w].ev, wk[w].status) /\ UNCHANGED <<session, billed>>
    BY DEF WriteRow, stripeVars
  <2> QED
    BY <1>1, <2>1, WriteIsBacked
<1>4. AccessTypeOK'
  BY DEF WriteRow, AccessTypeOK
<1>5. /\ AfterWrite(wk[w].ev) \in Pc
      /\ AfterWrite(wk[w].ev) = "attach" => session[wk[w].ev.s].fee = "deferred"
  BY DEF AfterWrite, Pc
<1>6. Goto(w, AfterWrite(wk[w].ev)) /\ UNCHANGED <<session, billed, failures>>
  BY DEF WriteRow, stripeVars
<1>7. RequestTypeOK' /\ RequestInv'
  BY <1>1, <1>5, <1>6, RequestMoves
<1> QED
  BY <1>2, <1>3, <1>4, <1>7

\* The deferred item is created only under a fresh key, and a fresh key means
\* that nothing was billed or is pending for the session.
LEMMA AttachStep ==
    ASSUME IInv, NEW w \in Worker, AttachDeferredItems(w)
    PROVE  IInv'
<1> USE DEF IInv, TypeOK
<1> DEFINE s == wk[w].ev.s
<1>1. /\ wk[w].pc # "idle" /\ wk[w].ev \in Event /\ s \in Session
      /\ session[s].stage = "complete" /\ session[s].fee = "deferred"
      /\ wk[w].ev.type # "unpaid"
  BY DEF AttachDeferredItems, RequestInv, Sound, Event
<1>2. s \notin keys => items[s] + billed[s] = 0
  <2>1. items[s] + billed[s] \in Nat
    BY <1>1 DEF StripeTypeOK
  <2>2. items[s] + billed[s] > 0 => s \in keys
    BY <1>1 DEF FeeInv
  <2> QED
    BY <2>1, <2>2
<1>3. UNCHANGED <<session, sub, billed, overlap, latest, events, emitted, row,
                  company, user, admin, failures>>
  BY DEF AttachDeferredItems, eventVars
<1>4. items' = IF s \in keys THEN items ELSE [items EXCEPT ![s] = @ + 1]
  BY DEF AttachDeferredItems
<1>5. keys' = keys \cup {s}
  BY DEF AttachDeferredItems
<1>6. StripeTypeOK' /\ EventTypeOK' /\ AccessTypeOK'
  <2>1. items' \in [Session -> Nat]
    BY <1>1, <1>4 DEF StripeTypeOK
  <2> QED
    BY <1>1, <1>3, <1>5, <2>1 DEF StripeTypeOK, EventTypeOK, AccessTypeOK
<1>7. FeeInv'
  <2>1. \A t \in Session : IF t = s /\ s \notin keys THEN items'[t] = items[t] + 1
                                                    ELSE items'[t] = items[t]
    BY <1>1, <1>4 DEF StripeTypeOK
  <2> QED
    BY <1>1, <1>2, <1>3, <1>5, <2>1 DEF FeeInv, StripeTypeOK
<1>8. EventInv'
  BY <1>3 DEF EventInv, Sound
<1>9. RowTypeOK' /\ RowInv'
  BY <1>3, RowKept
<1>10. RequestTypeOK' /\ RequestInv'
  <2>1. Goto(w, "ack") /\ "ack" \in Pc
    BY DEF AttachDeferredItems, Pc
  <2> QED
    BY <1>1, <1>3, <2>1, RequestMoves
<1> QED
  BY <1>6, <1>7, <1>8, <1>9, <1>10

AccessStep(w) ==
    \/ SyncEndUserAccess(w)
    \/ EnableInDb(w)
    \/ EnableInCognito(w)
    \/ DisableInCognito(w)
    \/ BlockInDb(w)

LEMMA AccessStepKeeps ==
    ASSUME IInv, NEW w \in Worker, AccessStep(w)
    PROVE  IInv'
<1> USE DEF IInv, TypeOK
<1>1. UNCHANGED <<stripeVars, eventVars, row, company, admin, failures>>
  BY DEF AccessStep, SyncEndUserAccess, EnableInDb, EnableInCognito, DisableInCognito,
         BlockInDb
<1>2. StripeTypeOK' /\ EventTypeOK' /\ EventInv' /\ FeeInv' /\ RowTypeOK' /\ RowInv'
  BY <1>1, StripeSideKept, RowKept DEF stripeVars, eventVars
<1>3. AccessTypeOK'
  BY <1>1 DEF AccessStep, SyncEndUserAccess, EnableInDb, EnableInCognito,
              DisableInCognito, BlockInDb, AccessTypeOK
<1>4. wk[w].pc \notin {"idle", "ack"} /\ \E pc \in Pc \ {"attach"} : Goto(w, pc)
  BY DEF AccessStep, SyncEndUserAccess, EnableInDb, EnableInCognito, DisableInCognito,
         BlockInDb, Pc
<1>5. RequestTypeOK' /\ RequestInv'
  BY <1>1, <1>4, RequestMoves DEF stripeVars, RequestInv
<1> QED
  BY <1>2, <1>3, <1>5

\* A request that ends, in whatever way, forgets its event.
LEMMA RequestEndsStep ==
    ASSUME IInv, NEW w \in Worker, Acknowledge(w) \/ RequestFails(w)
    PROVE  IInv'
<1> USE DEF IInv, TypeOK
<1>1. /\ UNCHANGED <<stripeVars, emitted, row, company, user, admin>>
      /\ events' \subseteq events
      /\ wk' = [wk EXCEPT ![w] = Idle]
      /\ failures' \in {failures, failures + 1}
  BY DEF Acknowledge, RequestFails, eventVars
<1>2. StripeTypeOK' /\ EventTypeOK' /\ EventInv' /\ FeeInv' /\ RowTypeOK' /\ RowInv'
  BY <1>1, StripeSideKept, RowKept DEF stripeVars
<1>3. AccessTypeOK'
  BY <1>1 DEF AccessTypeOK
<1>4. RequestTypeOK'
  <2>1. Idle \in [pc : Pc, ev : Event \cup {None}, status : Status \cup {"none"}]
    BY DEF Idle, Pc, Status
  <2>2. failures' \in Nat
    BY <1>1 DEF RequestTypeOK
  <2> QED
    BY <1>1, <2>1, <2>2 DEF RequestTypeOK
<1>5. RequestInv'
  <2>1. \A v \in Worker : v # w => wk'[v] = wk[v]
    BY <1>1 DEF RequestTypeOK
  <2>2. wk'[w].pc = "idle"
    BY <1>1 DEF RequestTypeOK, Idle
  <2>3. UNCHANGED <<session, billed>>
    BY <1>1 DEF stripeVars
  <2> QED
    BY <2>1, <2>2, <2>3 DEF RequestInv, Sound
<1> QED
  BY <1>2, <1>3, <1>4, <1>5

LEMMA AdminStep ==
    ASSUME IInv, AdminNext
    PROVE  IInv'
<1> USE DEF IInv, TypeOK
<1>1. UNCHANGED <<stripeVars, eventVars, row, wk>>
  BY DEF AdminNext, BeginSuspend, FinishSuspend, BeginReinstate, FinishReinstate, AdminFails
<1>2. StripeTypeOK' /\ EventTypeOK' /\ EventInv' /\ FeeInv' /\ RowTypeOK' /\ RowInv'
  BY <1>1, StripeSideKept, RowKept DEF stripeVars, eventVars
<1>3. company' \in {"ACTIVE", "SUSPENDED", "CLOSED"} /\ admin' \in {"idle", "ACTIVE", "SUSPENDED", "CLOSED"}
  BY DEF AdminNext, BeginSuspend, FinishSuspend, BeginReinstate, FinishReinstate,
         AdminFails, AccessTypeOK
<1>4. user' \in [db : {"Active", "Blocked"}, cognito : BOOLEAN]
  BY DEF AdminNext, BeginSuspend, FinishSuspend, BeginReinstate, FinishReinstate,
         AdminFails, AccessTypeOK
<1>5. failures' \in Nat
  BY DEF AdminNext, BeginSuspend, FinishSuspend, BeginReinstate, FinishReinstate,
         AdminFails, RequestTypeOK
<1>6. RequestTypeOK' /\ RequestInv'
  BY <1>1, <1>5 DEF RequestTypeOK, RequestInv, Sound, stripeVars
<1> QED
  BY <1>2, <1>3, <1>4, <1>6 DEF AccessTypeOK

-------------------------------------------------------------------------------
LEMMA InitIInv == Init => IInv
<1> SUFFICES ASSUME Init PROVE IInv
  OBVIOUS
<1>1. StripeTypeOK
  BY DEF Init, StripeTypeOK, Stage, NoSession, Mode, Fee
<1>2. EventTypeOK /\ RowTypeOK /\ AccessTypeOK
  BY DEF Init, EventTypeOK, RowTypeOK, AccessTypeOK
<1>3. RequestTypeOK
  BY DEF Init, RequestTypeOK, Idle, Pc, Status
<1>4. EventInv /\ RequestInv
  BY DEF Init, EventInv, RequestInv, Idle
<1>5. FeeInv
  <2>1. \A s \in Session : /\ items[s] = 0 /\ billed[s] = 0 /\ sub[s] = "none"
                           /\ session[s] = NoSession
    BY DEF Init
  <2>2. keys = {}
    BY DEF Init
  <2>3. NoSession.stage = "none" /\ NoSession.fee = "no"
    BY DEF NoSession
  <2>4. ASSUME NEW s \in Session
        PROVE  /\ items[s] + billed[s] = 0
               /\ session[s].stage = "none" /\ session[s].fee = "no"
               /\ sub[s] = "none" /\ s \notin keys
    BY <2>1, <2>2, <2>3
  <2>5. ASSUME NEW s \in Session
        PROVE  items[s] + billed[s] <= 1 /\ ~(items[s] + billed[s] > 0)
    <3>1. items[s] + billed[s] = 0
      BY <2>4
    <3> QED
      BY <3>1
  <2>6. ASSUME NEW s \in Session
        PROVE  (sub[s] # "none") <=> /\ session[s].stage = "complete"
                                     /\ session[s].mode = "subscription"
    BY <2>4
  <2> QED
    BY <2>4, <2>5, <2>6 DEF FeeInv
<1>6. RowInv
  BY DEF Init, RowInv, FeeMarkIsHonest, RowNames, ActiveStatus
<1> QED
  BY <1>1, <1>2, <1>3, <1>4, <1>5, <1>6 DEF IInv, TypeOK

LEMMA NextIInv == IInv /\ [Next]_vars => IInv'
<1> SUFFICES ASSUME IInv, [Next]_vars PROVE IInv'
  OBVIOUS
<1>1. CASE StripeNext
  BY <1>1, CreateCheckoutStep, CompleteCheckoutStep, UnpaidStep, PayInvoiceStep, FailInvoiceStep,
     EndSubscriptionStep, ToggleCancelStep DEF StripeNext
<1>2. ASSUME NEW w \in Worker, NEW e \in events, Deliver(w, e) PROVE IInv'
  BY <1>2, DeliverStep
<1>3. ASSUME NEW w \in Worker, Handle(w) PROVE IInv'
  BY <1>3, RetrieveStep, WriteRowStep, AttachStep, AccessStepKeeps, RequestEndsStep
     DEF Handle, AccessStep
<1>4. ASSUME NEW w \in Worker, RequestFails(w) PROVE IInv'
  BY <1>4, RequestEndsStep
<1>5. CASE AdminNext
  BY <1>5, AdminStep
<1>6. CASE UNCHANGED vars
  <2>1. UNCHANGED <<stripeVars, eventVars, row, company, user, wk, admin, failures>>
    BY <1>6 DEF vars
  <2>2. StripeTypeOK' /\ EventTypeOK' /\ EventInv' /\ FeeInv' /\ RowTypeOK' /\ RowInv'
    BY <2>1, StripeSideKept, RowKept DEF stripeVars, eventVars
  <2>3. AccessTypeOK' /\ RequestTypeOK' /\ RequestInv'
    BY <2>1 DEF IInv, TypeOK, AccessTypeOK, RequestTypeOK, RequestInv, Sound, stripeVars
  <2> QED
    BY <2>2, <2>3 DEF IInv, TypeOK
<1> QED
  BY <1>1, <1>2, <1>3, <1>4, <1>5, <1>6 DEF Next

LEMMA InductiveInvariant == Spec => []IInv
BY InitIInv, NextIInv, PTL DEF Spec

\* Every variable keeps its type, in every run of the checkout and webhook code.
THEOREM TypeCorrect == Spec => []TypeOK
<1>1. IInv => TypeOK
  BY DEF IInv
<1> QED
  BY <1>1, InductiveInvariant, PTL

\* attachDeferredSubscriptionInvoiceItemsIfNeeded may run any number of times
\* for one checkout, at once and after crashes: its fee is billed once.
THEOREM FeeOncePerCheckout == Spec => []FeeOncePerSession
<1>1. IInv => FeeOncePerSession
  BY DEF IInv, FeeInv, FeeOncePerSession
<1> QED
  BY <1>1, InductiveInvariant, PTL

\* Neither onCheckoutSessionCompleted nor onInvoicePaid sets
\* implementation_fee_charged_at without a fee that was paid for.
THEOREM FeeMarkHonest == Spec => []FeeMarkIsHonest
<1>1. IInv => FeeMarkIsHonest
  BY DEF IInv, RowInv
<1> QED
  BY <1>1, InductiveInvariant, PTL
===============================================================================
