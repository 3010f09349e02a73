-------------------------- MODULE BillingOrderedProofs --------------------------
(***************************************************************************)
(* What holds of BillingSync when events arrive in order (Ordered), for    *)
(* any number of sessions, requests, events and failures: the four safety  *)
(* invariants of the ordered run, which speak of the moment when every     *)
(* event has been handled.                                                 *)
(*                                                                         *)
(* Each needs an account of what the outstanding events still have to do.  *)
(* One request runs at a time, for the oldest of them (QueueInv).  The     *)
(* two records of the end user differ only while that event is one that    *)
(* syncs access again when it is redelivered, and a lapse that has not     *)
(* blocked the user has such an event to come (AccessInv).  As long as no  *)
(* two purchases overlap, whatever an older purchase still writes is       *)
(* followed by the completion of the latest one, and the newest event of a *)
(* purchase tells what Stripe has (PurchaseInv).  A fee that was paid for and is    *)
(* not on record is carried by an event that will record it (PaidInv).     *)
(***************************************************************************)
EXTENDS BillingSyncProofs

Busy(w) == wk[w].pc # "idle"

Oldest(e) == e \in events /\ \A f \in events : e.n <= f.n

\* One request at a time, for the oldest event; events are numbered.
QueueInv ==
    /\ \A e \in events : e.n <= emitted
    /\ \A e, f \in events : e.n = f.n => e = f
    /\ \A v, w \in Worker : Busy(v) /\ Busy(w) => v = w
    /\ \A w \in Worker : Busy(w) => Oldest(wk[w].ev)

-------------------------------------------------------------------------------
(* The end user.                                                           *)

Lapse == {"past_due", "canceled"}

Reports(e) == e.type \in {"updated", "failed", "deleted"}

\* An event whose handler goes on to sync the end users' access.
Syncs(e) == Reports(e) \/ (e.type = "paid" /\ row.subId = e.s)

Agree == user.db = "Active" <=> user.cognito

Blocked == user.db = "Blocked" /\ ~user.cognito

\* What an event says of its session's subscription, or will be followed by.
EventAccess(e) ==
    /\ e.type = "deleted" => e.status = "canceled"
    /\ e.type = "completed" /\ sub[e.s] \in Lapse =>
          \E f \in events : Reports(f) /\ f.n > e.n

Syncing == {"sync", "dbEnable", "cognitoEnable", "cognitoDisable", "dbBlock"}

RequestAccess(x) ==
    /\ x.pc \in {"retrieve", "write"} \cup Syncing => x.ev.type = "completed" \/ Syncs(x.ev)
    /\ x.pc \in Syncing => x.ev.type # "completed" /\ row.status = x.status
    /\ x.pc = "attach" => x.ev.type = "completed"
    /\ x.pc = "retrieve" => x.ev.type \notin {"updated", "deleted"}
    /\ x.pc = "retrieve" => session[x.ev.s].mode = "subscription"
    /\ x.pc \in {"write"} \cup Syncing => x.status # "none"
    /\ x.pc = "write" /\ x.ev.type = "deleted" => x.status = "canceled"
    /\ x.pc = "write" /\ x.ev.type = "completed" /\ session[x.ev.s].mode = "subscription"
          /\ x.status \in Lapse => \E f \in events : Reports(f)
    /\ x.pc \in {"dbEnable", "cognitoEnable"} => x.status \in ActiveStatus
    /\ x.pc \in {"cognitoDisable", "dbBlock"} => x.status \in Lapse
    /\ x.pc = "cognitoEnable" => user.db = "Active"
    /\ x.pc = "dbBlock" => ~user.cognito
    /\ x.pc = "ack" => Agree
    /\ x.pc \in {"attach", "ack"} /\ row.status \in Lapse =>
          Blocked \/ \E f \in events : Reports(f) /\ f # x.ev

AccessInv ==
    /\ company = "ACTIVE" /\ admin = "idle"
    /\ \A e \in events : EventAccess(e)
    /\ \A w \in Worker : Busy(w) => RequestAccess(wk[w])
    /\ ~Agree => \E e \in events : Oldest(e) /\ Syncs(e)
    /\ row.status \in Lapse =>
          Blocked \/ \E e \in events : Reports(e) \/ (Oldest(e) /\ Syncs(e))

-------------------------------------------------------------------------------
(* The latest purchase.                                                    *)

\* The completion of the session is still outstanding.
Completion(c, s) == c \in events /\ c.type = "completed" /\ c.s = s

\* The outstanding events of purchases: a Checkout finished with nothing paid
\* is none, and its event is acknowledged with nothing done.
Tells == {e \in events : e.type # "unpaid"}

\* The row says what Stripe says of the latest purchase.
Right ==
    IF session[latest].mode = "payment"
    THEN row.status = "active" /\ row.subId = None
    ELSE /\ row.status = sub[latest]
         /\ row.subId = IF sub[latest] = "canceled" THEN None ELSE latest

\* The purchases follow one another, and so do their events.
Chronology ==
    /\ \A s \in Session : Live(s) => s = latest
    /\ latest # None => session[latest].stage = "complete"
    /\ row.last # None => session[row.last].stage = "complete"
    /\ \A e \in Tells : e.s # latest => \E c \in events : Completion(c, latest) /\ c.n > e.n
    /\ \A e, f \in Tells : e.s # latest /\ f.s = latest => e.n < f.n
    /\ \A e, f \in Tells : e.n < f.n /\ e.s # f.s =>
          \E c \in events : Completion(c, f.s) /\ c.n > e.n
    /\ \A d, e \in Tells : d.type = "deleted" /\ e.s = d.s => sub[d.s] = "canceled" /\ e.n <= d.n

\* The newest event of a purchase tells what Stripe has.
NewestTells ==
    \A e \in Tells : (\A f \in Tells : f.n <= e.n) =>
        /\ e.type # "failed"
        /\ session[e.s].mode = "subscription" => (e.type = "deleted" <=> sub[e.s] = "canceled")
        /\ e.type = "updated" => e.status = sub[e.s]

RowTracks ==
    /\ latest = None => row.status = "none" /\ row.subId = None
    /\ latest # None /\ Tells = {} => Right
    /\ latest # None /\ session[latest].mode = "subscription" /\ sub[latest] # "canceled" =>
          row.subId = latest \/ \E c \in events : Completion(c, latest)
    /\ latest # None /\ session[latest].mode = "payment" /\ row.last = latest =>
          Right /\ \A e \in Tells : e.s = latest

RequestTracks(x) ==
    /\ x.pc = "retrieve" => /\ x.ev.type \notin {"updated", "deleted"}
                            /\ session[x.ev.s].mode = "subscription"
    /\ x.pc \in Syncing => x.ev.type # "completed"
    /\ x.pc = "write" /\ x.ev.type \in {"updated", "deleted"} => x.status = x.ev.status
    /\ x.pc = "write" /\ x.ev.type \in {"completed", "paid"} /\ Tells = {x.ev}
          /\ session[x.ev.s].mode = "subscription" => x.status = sub[x.ev.s]
    /\ x.pc \notin {"idle", "retrieve", "write"} /\ Tells = {x.ev} => Right
    /\ x.pc \in {"attach", "ack"} /\ x.ev.type = "completed"
          /\ session[x.ev.s].mode = "subscription" => row.subId = x.ev.s

PurchaseInv ==
    ~overlap => /\ Chronology
                /\ NewestTells
                /\ RowTracks
                /\ \A w \in Worker : RequestTracks(wk[w])

-------------------------------------------------------------------------------
(* The implementation fee.                                                 *)

\* An invoice that bills the fee will find the row naming its subscription.
Bills(e) == e.type = "paid" /\ e.lines > 0

FeeComes ==
    /\ \A e \in events : Bills(e) =>
          /\ row.subId = e.s \/ \E c \in events : Completion(c, e.s)
          /\ \A c \in events : Completion(c, e.s) => c.n < e.n
    /\ \A s \in Session : billed[s] > 0 =>
          \/ row.fee
          \/ session[s].fee = "now" /\ \E c \in events : Completion(c, s)
          \/ \E e \in events : Bills(e) /\ e.s = s

RequestFee(x) ==
    /\ x.pc # "idle" /\ Bills(x.ev) => row.fee
    /\ x.pc \in {"attach", "ack"} /\ x.ev.type = "completed" /\ session[x.ev.s].fee = "now" =>
          row.fee

PaidInv == ~overlap => FeeComes /\ \A w \in Worker : RequestFee(wk[w])

-------------------------------------------------------------------------------
(* The queue of events.                                                    *)

\* What a step of Stripe's side adds to the outstanding events.
Numbered ==
    /\ events \subseteq events'
    /\ emitted' \in Nat /\ emitted <= emitted'
    /\ \A e \in events' \ events : e.n \in Nat /\ emitted < e.n /\ e.n <= emitted'
    /\ \A e, f \in events' \ events : e.n = f.n => e = f

LEMMA EmitOne ==
    ASSUME emitted \in Nat, NEW e, e.n = emitted + 1, Emit({e}, 1)
    PROVE  Numbered
BY DEF Emit, Numbered

LEMMA EmitTwo ==
    ASSUME emitted \in Nat, NEW e, NEW f, NEW k \in {1, 2},
           e.n = emitted + k, f.n = emitted + (3 - k), Emit({e, f}, 2)
    PROVE  Numbered
BY DEF Emit, Numbered

LEMMA StripeEmits ==
    ASSUME IInv, NEW s \in Session, StripeStep(s)
    PROVE  /\ UNCHANGED <<row, company, user, wk, admin, failures>>
           /\ Numbered
<1>0. emitted \in Nat
  BY DEF IInv, TypeOK, EventTypeOK
<1>1. UNCHANGED <<row, company, user, wk, admin, failures>>
  BY DEF StripeStep, CreateCheckout, CompleteCheckout, CompleteUnpaid, PaymentArrives,
         PayInvoice, FailInvoice, EndSubscription, ToggleCancelAtPeriodEnd
<1>2. CASE PaymentArrives(s) \/ \E mode \in Mode, trial \in BOOLEAN : CreateCheckout(s, mode, trial)
  <2>1. UNCHANGED <<events, emitted>>
    BY <1>2 DEF CreateCheckout, PaymentArrives, eventVars
  <2> QED
    BY <1>0, <1>1, <2>1 DEF Numbered
<1>3. CASE CompleteCheckout(s)
  <2>1. CASE session[s].mode = "payment"
    <3>1. Emit({Ev(1, "completed", s, "active", 0)}, 1)
      BY <1>3, <2>1 DEF CompleteCheckout
    <3>2. Ev(1, "completed", s, "active", 0).n = emitted + 1
      BY DEF Ev
    <3> QED
      BY <1>0, <1>1, <3>1, <3>2, EmitOne
  <2>2. CASE session[s].mode # "payment"
    <3>1. PICK status \in ActiveStatus, k \in {1, 2} :
             Emit({Ev(k, "completed", s, status, 0), Ev(3 - k, "paid", s, status, 0)}, 2)
      BY <1>3, <2>2 DEF CompleteCheckout, ActiveStatus
    <3>2. /\ Ev(k, "completed", s, status, 0).n = emitted + k
          /\ Ev(3 - k, "paid", s, status, 0).n = emitted + (3 - k)
      BY DEF Ev
    <3> QED
      BY <1>0, <1>1, <3>1, <3>2, EmitTwo
  <2> QED
    BY <2>1, <2>2
<1>4. ASSUME NEW e, NEW f, Emit({e, f}, 2), e.n = emitted + 1, f.n = emitted + 2
      PROVE  Numbered
  <2>1. f.n = emitted + (3 - 1)
    BY <1>4
  <2> QED
    BY <1>0, <1>4, <2>1, EmitTwo
<1>5. CASE PayInvoice(s)
  <2>1. /\ Emit({Ev(1, "paid", s, "active", items[s]), Ev(2, "updated", s, "active", 0)}, 2)
        /\ Ev(1, "paid", s, "active", items[s]).n = emitted + 1
        /\ Ev(2, "updated", s, "active", 0).n = emitted + 2
    BY <1>5 DEF PayInvoice, Ev
  <2> QED
    BY <1>1, <1>4, <2>1
<1>6. CASE FailInvoice(s)
  <2>1. /\ Emit({Ev(1, "failed", s, "past_due", 0), Ev(2, "updated", s, "past_due", 0)}, 2)
        /\ Ev(1, "failed", s, "past_due", 0).n = emitted + 1
        /\ Ev(2, "updated", s, "past_due", 0).n = emitted + 2
    BY <1>6 DEF FailInvoice, Ev
  <2> QED
    BY <1>1, <1>4, <2>1
<1>7. CASE EndSubscription(s) \/ ToggleCancelAtPeriodEnd(s) \/ CompleteUnpaid(s)
  <2>1. PICK e : e.n = emitted + 1 /\ Emit({e}, 1)
    <3>1. /\ Ev(1, "deleted", s, "canceled", 0).n = emitted + 1
          /\ Ev(1, "unpaid", s, "active", 0).n = emitted + 1
          /\ Ev(1, "updated", s, sub[s], 0).n = emitted + 1
      BY DEF Ev
    <3> QED
      BY <1>7, <3>1 DEF EndSubscription, ToggleCancelAtPeriodEnd, CompleteUnpaid
  <2> QED
    BY <1>0, <1>1, <2>1, EmitOne
<1> QED
  BY <1>2, <1>3, <1>5, <1>6, <1>7 DEF StripeStep

\* A step of a request between its delivery and its answer.
Runs(w) == \/ RetrieveSubscription(w)
           \/ WriteRow(w)
           \/ AttachDeferredItems(w)
           \/ AccessStep(w)

LEMMA RunsKeeps ==
    ASSUME IInv, NEW w \in Worker, Runs(w)
    PROVE  /\ UNCHANGED <<events, emitted, session, sub, billed, overlap, latest,
                          company, admin, failures>>
           /\ Busy(w) /\ wk'[w].pc # "idle"
           /\ wk'[w].ev = wk[w].ev
           /\ \A v \in Worker \ {w} : wk'[v] = wk[v]
BY DEF Runs, RetrieveSubscription, WriteRow, AttachDeferredItems, AccessStep, Busy,
       SyncEndUserAccess, EnableInDb, EnableInCognito, DisableInCognito, BlockInDb,
       Goto, AfterWrite, stripeVars, eventVars, IInv, TypeOK, RequestTypeOK

\* A request that goes on does so for the event of a purchase.
LEMMA RunsForPurchases ==
    ASSUME IInv, NEW w \in Worker, Runs(w)
    PROVE  wk[w].ev.type # "unpaid"
BY DEF Runs, RetrieveSubscription, WriteRow, AttachDeferredItems, AccessStep, SyncEndUserAccess,
       EnableInDb, EnableInCognito, DisableInCognito, BlockInDb, IInv, RequestInv

\* What can happen, when the Super Admin does nothing.
LEMMA OrderedStep ==
    ASSUME IInv, ~AdminActs, admin = "idle", Next
    PROVE  \/ \E s \in Session : StripeStep(s)
           \/ \E w \in Worker, e \in events : Deliver(w, e)
           \/ \E w \in Worker : Runs(w) \/ Acknowledge(w) \/ RequestFails(w)
<1>1. ~AdminNext
  BY DEF AdminNext, BeginSuspend, FinishSuspend, BeginReinstate, FinishReinstate, AdminFails,
         IInv, TypeOK, AccessTypeOK
<1> QED
  BY <1>1 DEF Next, StripeNext, StripeStep, Handle, Runs, AccessStep

LEMMA QueueKept == 
    ASSUME Ordered
    PROVE  IInv /\ QueueInv /\ [Next]_vars => QueueInv'
<1> SUFFICES ASSUME IInv, QueueInv, [Next]_vars
             PROVE  QueueInv'
  OBVIOUS
<1>0. /\ \A e \in events : e.n \in Nat
      /\ emitted \in Nat
      /\ wk \in [Worker -> [pc : Pc, ev : Event \cup {None}, status : Status \cup {"none"}]]
  BY DEF IInv, TypeOK, EventTypeOK, Event, RequestTypeOK
<1>1. ASSUME NEW s \in Session, StripeStep(s)
      PROVE  QueueInv'
  <2>1. Numbered /\ UNCHANGED wk
    BY <1>1, StripeEmits
  <2>2. \A e \in events' : e \notin events => \A f \in events : f.n < e.n
    BY <1>0, <2>1 DEF Numbered, QueueInv
  <2>3. (\A e \in events : e.n <= emitted)'
    BY <1>0, <2>1 DEF Numbered, QueueInv
  <2>4. (\A e, f \in events : e.n = f.n => e = f)'
    BY <1>0, <2>1, <2>2 DEF Numbered, QueueInv
  <2>5. \A e \in events : Oldest(e) => Oldest(e)'
    BY <1>0, <2>1, <2>2 DEF Numbered, Oldest
  <2> QED
    BY <2>1, <2>3, <2>4, <2>5 DEF QueueInv, Busy, Oldest
<1>2. ASSUME NEW w \in Worker, NEW e \in events, Deliver(w, e)
      PROVE  QueueInv'
  <2>1. UNCHANGED <<events, emitted>> /\ Oldest(e) /\ \A v \in Worker : ~Busy(v)
    BY <1>2 DEF Deliver, eventVars, Oldest, Busy
  <2>2. wk'[w].ev = e /\ \A v \in Worker \ {w} : wk'[v] = wk[v]
    BY <1>0, <1>2 DEF Deliver
  <2> QED
    BY <2>1, <2>2 DEF QueueInv, Busy, Oldest
<1>3. ASSUME NEW w \in Worker, Runs(w)
      PROVE  QueueInv'
  BY <1>3, RunsKeeps DEF QueueInv, Busy, Oldest
<1>4. ASSUME NEW w \in Worker, Acknowledge(w) \/ RequestFails(w)
      PROVE  QueueInv'
  <2>1. /\ events' \subseteq events /\ UNCHANGED emitted
        /\ wk'[w].pc = "idle" /\ \A v \in Worker \ {w} : wk'[v] = wk[v]
        /\ Busy(w)
    BY <1>0, <1>4 DEF Acknowledge, RequestFails, Idle, eventVars, Busy
  <2>2. \A v \in Worker : wk'[v].pc = "idle"
    BY <2>1 DEF QueueInv, Busy
  <2> QED
    BY <2>1, <2>2 DEF QueueInv, Busy
<1>5. CASE AdminNext
  BY <1>5 DEF AdminNext, BeginSuspend, FinishSuspend, BeginReinstate, FinishReinstate,
              AdminFails, eventVars, QueueInv, Busy, Oldest
<1>6. CASE UNCHANGED vars
  BY <1>6 DEF vars, eventVars, QueueInv, Busy, Oldest
<1> QED
  BY <1>1, <1>2, <1>3, <1>4, <1>5, <1>6 DEF Next, StripeNext, StripeStep, Handle, Runs, AccessStep

LEMMA InitQueue == Init => QueueInv
BY DEF Init, QueueInv, Busy, Idle

-------------------------------------------------------------------------------
(* The end user's access.                                                  *)

\* A subscription that lapses is reported by an event that comes later than
\* all there are.
LEMMA StripeReports ==
    ASSUME IInv, NEW s \in Session, StripeStep(s)
    PROVE  /\ \A t \in Session : sub'[t] \in Lapse =>
                 \/ sub'[t] = sub[t]
                 \/ \E f \in events' : Reports(f) /\ emitted < f.n
           /\ \A e \in events' \ events :
                 /\ e.type = "deleted" => e.status = "canceled"
                 /\ e.type = "completed" => sub'[e.s] \notin Lapse
<1>0. emitted \in Nat /\ sub \in [Session -> Status \cup {"none"}]
  BY DEF IInv, TypeOK, EventTypeOK, StripeTypeOK
<1>1. CASE PaymentArrives(s) \/ \E mode \in Mode, trial \in BOOLEAN : CreateCheckout(s, mode, trial)
  BY <1>1 DEF CreateCheckout, PaymentArrives, eventVars
<1>7. CASE CompleteUnpaid(s)
  <2>1. events' = events \cup {Ev(1, "unpaid", s, "active", 0)} /\ UNCHANGED sub
    BY <1>7 DEF CompleteUnpaid, Emit
  <2>2. \A e \in events' \ events : e.type = "unpaid"
    BY <2>1 DEF Ev
  <2> QED
    BY <2>1, <2>2
<1>2. CASE CompleteCheckout(s)
  <2>1. CASE session[s].mode = "payment"
    <3>1. events' = events \cup {Ev(1, "completed", s, "active", 0)} /\ UNCHANGED sub
      BY <1>2, <2>1 DEF CompleteCheckout, Emit
    <3>2. sub[s] = "none"
      BY <1>2 DEF CompleteCheckout, IInv, FeeInv
    <3>3. \A e \in events' \ events : e.type = "completed" /\ e.s = s
      BY <3>1 DEF Ev
    <3> QED
      BY <3>1, <3>2, <3>3 DEF Lapse
  <2>2. CASE session[s].mode # "payment"
    <3>1. PICK status \in ActiveStatus, k \in {1, 2} :
             /\ events' = events \cup {Ev(k, "completed", s, status, 0),
                                       Ev(3 - k, "paid", s, status, 0)}
             /\ sub' = [sub EXCEPT ![s] = status]
      BY <1>2, <2>2 DEF CompleteCheckout, Emit, ActiveStatus
    <3>2. \A e \in events' \ events : e.type \in {"completed", "paid"} /\ e.s = s
      BY <3>1 DEF Ev
    <3> QED
      BY <1>0, <3>1, <3>2 DEF Lapse, ActiveStatus
  <2> QED
    BY <2>1, <2>2
<1>3. CASE PayInvoice(s)
  <2>1. /\ events' = events \cup {Ev(1, "paid", s, "active", items[s]),
                                   Ev(2, "updated", s, "active", 0)}
        /\ sub' = [sub EXCEPT ![s] = "active"]
    BY <1>3 DEF PayInvoice, Emit
  <2>2. \A e \in events' \ events : e.type \in {"updated", "paid"}
    BY <2>1 DEF Ev
  <2> QED
    BY <1>0, <2>1, <2>2 DEF Lapse
<1>4. CASE FailInvoice(s)
  <2> DEFINE f == Ev(2, "updated", s, "past_due", 0)
  <2>1. /\ events' = events \cup {Ev(1, "failed", s, "past_due", 0), f}
        /\ sub' = [sub EXCEPT ![s] = "past_due"]
    BY <1>4 DEF FailInvoice, Emit
  <2>2. \A e \in events' \ events : e.type \in {"updated", "failed"}
    BY <2>1 DEF Ev
  <2>3. f \in events' /\ Reports(f) /\ emitted < f.n
    BY <1>0, <2>1 DEF Ev, Reports
  <2> HIDE DEF f
  <2> QED
    BY <1>0, <2>1, <2>2, <2>3
<1>5. CASE EndSubscription(s)
  <2> DEFINE f == Ev(1, "deleted", s, "canceled", 0)
  <2>1. events' = events \cup {f} /\ sub' = [sub EXCEPT ![s] = "canceled"]
    BY <1>5 DEF EndSubscription, Emit
  <2>2. f.type = "deleted" /\ f.status = "canceled"
    BY DEF Ev
  <2>3. f \in events' /\ Reports(f) /\ emitted < f.n
    BY <1>0, <2>1 DEF Ev, Reports
  <2> HIDE DEF f
  <2> QED
    BY <1>0, <2>1, <2>2, <2>3
<1>6. CASE ToggleCancelAtPeriodEnd(s)
  <2>1. events' = events \cup {Ev(1, "updated", s, sub[s], 0)} /\ UNCHANGED sub
    BY <1>6 DEF ToggleCancelAtPeriodEnd, Emit, stripeVars
  <2>2. \A e \in events' \ events : e.type = "updated"
    BY <2>1 DEF Ev
  <2> QED
    BY <2>1, <2>2
<1> QED
  BY <1>1, <1>2, <1>3, <1>4, <1>5, <1>6, <1>7 DEF StripeStep

\* The oldest event stays the oldest when events are added.
LEMMA OldestStays ==
    ASSUME EventTypeOK, QueueInv, Numbered, NEW e, Oldest(e)
    PROVE  Oldest(e)'
BY DEF EventTypeOK, Event, QueueInv, Numbered, Oldest

LEMMA StripeAccess ==
    ASSUME IInv, QueueInv, AccessInv, NEW s \in Session, StripeStep(s)
    PROVE  AccessInv'
<1>1. Numbered /\ UNCHANGED <<row, company, user, wk, admin>>
  BY StripeEmits
<1>2. \A e \in events : e.n \in Nat /\ e.n <= emitted /\ e.s \in Session
  BY DEF IInv, TypeOK, EventTypeOK, Event, QueueInv
<1>3. ASSUME NEW e \in events'
      PROVE  EventAccess(e)'
  <2>1. CASE e \in events
    <3>1. e.type = "deleted" => e.status = "canceled"
      BY <2>1 DEF AccessInv, EventAccess
    <3>2. ASSUME e.type = "completed", sub'[e.s] \in Lapse
          PROVE  \E f \in events' : Reports(f) /\ f.n > e.n
      <4>1. CASE sub'[e.s] = sub[e.s]
        BY <1>1, <2>1, <3>2, <4>1 DEF AccessInv, EventAccess, Numbered
      <4>2. CASE \E f \in events' : Reports(f) /\ emitted < f.n
        <5>1. PICK f \in events' : Reports(f) /\ emitted < f.n
          BY <4>2
        <5>2. f.n \in Nat /\ emitted \in Nat
          BY <1>1, <1>2 DEF Numbered, IInv, TypeOK, EventTypeOK
        <5>3. f.n > e.n
          BY <1>2, <2>1, <5>1, <5>2
        <5> QED
          BY <5>1, <5>3
      <4> QED
        BY <1>2, <2>1, <3>2, <4>1, <4>2, StripeReports
    <3> QED
      BY <3>1, <3>2 DEF EventAccess, Reports
  <2>2. CASE e \notin events
    BY <2>2, StripeReports DEF EventAccess
  <2> QED
    BY <2>1, <2>2
<1>4. ASSUME NEW w \in Worker, Busy(w)
      PROVE  RequestAccess(wk[w])'
  <2>1. /\ RequestAccess(wk[w]) /\ wk[w].ev.s \in Session
        /\ session[wk[w].ev.s].stage \in {"unpaid", "late", "complete"}
    BY <1>4 DEF AccessInv, Busy, IInv, RequestInv, Sound, Event
  <2>2. session'[wk[w].ev.s].mode = session[wk[w].ev.s].mode
    BY <2>1, StripeIsMonotone DEF IInv, TypeOK
  <2>3. events \subseteq events'
    BY <1>1 DEF Numbered
  <2> QED
    BY <1>1, <2>1, <2>2, <2>3 DEF RequestAccess, Syncs, Reports, Agree, Blocked
<1>5. \A e \in events : Oldest(e) => Oldest(e)'
  BY <1>1, OldestStays DEF IInv, TypeOK
<1>6. (~Agree => \E e \in events : Oldest(e) /\ Syncs(e))'
  BY <1>1, <1>5 DEF AccessInv, Agree, Syncs, Reports, Numbered
<1>7. (row.status \in Lapse =>
          Blocked \/ \E e \in events : Reports(e) \/ (Oldest(e) /\ Syncs(e)))'
  BY <1>1, <1>5 DEF AccessInv, Blocked, Syncs, Reports, Numbered
<1> QED
  BY <1>1, <1>3, <1>4, <1>6, <1>7 DEF AccessInv, Busy

\* There is one oldest event.
LEMMA OneOldest ==
    ASSUME EventTypeOK, QueueInv, NEW e, NEW f, Oldest(e), Oldest(f)
    PROVE  e = f
BY DEF EventTypeOK, Event, QueueInv, Oldest

\* What is left to show of a step that keeps the events: what becomes of the
\* one request, and that a divergence is still going to be mended.
LEMMA RequestKeepsAccess ==
    ASSUME IInv, AccessInv, NEW w \in Worker,
           UNCHANGED <<events, sub, company, admin>>,
           \A v \in Worker \ {w} : wk'[v].pc = "idle",
           Busy(w)' => RequestAccess(wk[w])',
           (~Agree => \E e \in events : Oldest(e) /\ Syncs(e))',
           (row.status \in Lapse =>
               Blocked \/ \E e \in events : Reports(e) \/ (Oldest(e) /\ Syncs(e)))'
    PROVE  AccessInv'
<1>1. (\A e \in events : EventAccess(e))'
  BY DEF AccessInv, EventAccess, Reports
<1>2. (\A v \in Worker : Busy(v) => RequestAccess(wk[v]))'
  BY DEF Busy
<1> QED
  BY <1>1, <1>2 DEF AccessInv

LEMMA DeliverAccess ==
    ASSUME Ordered, IInv, QueueInv, AccessInv, NEW w \in Worker, NEW e \in events, Deliver(w, e)
    PROVE  AccessInv'
<1>1. /\ UNCHANGED <<session, sub, events, company, user, admin>>
      /\ Oldest(e) /\ \A v \in Worker \ {w} : wk'[v].pc = "idle"
      /\ wk'[w] = [pc |-> FirstStep(e), ev |-> e, status |-> e.status]
  BY DEF Deliver, stripeVars, eventVars, Oldest, IInv, TypeOK, RequestTypeOK
<1>2. row'.status = row.status /\ row'.subId = row.subId
  BY DEF Deliver, IInv, TypeOK, RowTypeOK
<1>3. \A f : (Oldest(f)' <=> Oldest(f)) /\ (Syncs(f)' <=> Syncs(f))
  BY <1>1, <1>2 DEF Oldest, Syncs, Reports
<1>4. /\ (~Agree => \E f \in events : Oldest(f) /\ Syncs(f))'
      /\ (row.status \in Lapse =>
             Blocked \/ \E f \in events : Reports(f) \/ (Oldest(f) /\ Syncs(f)))'
  BY <1>1, <1>2, <1>3 DEF AccessInv, Agree, Blocked, Reports
<1>5. RequestAccess(wk[w])'
  <2>0. e \in Event /\ Sound(e) /\ EventAccess(e) /\ session[e.s].mode \in Mode
        /\ e.status # "none"
    BY DEF IInv, TypeOK, EventTypeOK, StripeTypeOK, EventInv, Event, AccessInv, Status, ActiveStatus
  <2>1. CASE FirstStep(e) = "retrieve"
    <3>1. e.type \in {"completed", "failed"} \/ (e.type = "paid" /\ row.subId = e.s)
      BY <2>0, <2>1 DEF FirstStep, Event, EventType
    <3>2. session[e.s].mode = "subscription"
      BY <2>0, <2>1, <3>1 DEF FirstStep, Sound, Mode
    <3> QED
      BY <1>1, <1>2, <2>1, <3>1, <3>2 DEF RequestAccess, Syncs, Reports, Syncing
  <2>2. CASE FirstStep(e) = "write"
    <3>1. \/ e.type \in {"updated", "deleted"}
          \/ e.type = "completed" /\ session[e.s].mode = "payment"
      BY <2>0, <2>2 DEF FirstStep, Event, EventType, Mode
    <3> QED
      BY <1>1, <1>2, <2>0, <2>2, <3>1 DEF RequestAccess, Syncs, Reports, Syncing, EventAccess
  <2>3. CASE FirstStep(e) = "ack"
    <3>1. \/ e.type = "completed" /\ row.status = "active"
          \/ e.type = "unpaid"
          \/ e.type = "paid" /\ row.subId # e.s
      BY <2>0, <2>3 DEF FirstStep, Event, EventType, Mode
    <3>2. ~Syncs(e) /\ ~Reports(e)
      BY <3>1 DEF Syncs, Reports
    <3>3. \A f : Oldest(f) => f = e
      BY <1>1, OneOldest DEF IInv, TypeOK
    <3>4. Agree
      BY <3>2, <3>3 DEF AccessInv
    <3>5. row.status \in Lapse => Blocked \/ \E f \in events : Reports(f) /\ f # e
      BY <3>2, <3>3 DEF AccessInv
    <3> QED
      BY <1>1, <1>2, <2>3, <3>4, <3>5
      DEF RequestAccess, Syncing, Agree, Blocked, Reports
  <2>4. FirstStep(e) \in {"retrieve", "write", "ack"}
    BY <2>0 DEF FirstStep, Event, EventType, Mode
  <2> QED
    BY <2>1, <2>2, <2>3, <2>4
<1> QED
  BY <1>1, <1>4, <1>5, RequestKeepsAccess

LEMMA RunsAccess ==
    ASSUME IInv, QueueInv, AccessInv, NEW w \in Worker, Runs(w)
    PROVE  AccessInv'
<1> DEFINE e == wk[w].ev
<1>0. /\ wk[w] \in [pc : Pc, ev : Event \cup {None}, status : Status \cup {"none"}]
      /\ e \in Event /\ Sound(e) /\ Oldest(e) /\ e \in events /\ e.type # "unpaid"
      /\ RequestAccess(wk[w]) /\ EventAccess(e)
      /\ session[e.s].mode \in Mode /\ row \in [status : Status \cup {"none"},
            subId : Session \cup {None}, last : Session \cup {None}, fee : BOOLEAN]
  BY RunsKeeps, RunsForPurchases
     DEF IInv, TypeOK, RequestTypeOK, RequestInv, QueueInv, AccessInv, Busy, Oldest,
         StripeTypeOK, RowTypeOK, Event
<1>1. /\ UNCHANGED <<session, sub, events, company, admin>>
      /\ \A v \in Worker \ {w} : wk'[v].pc = "idle"
      /\ wk'[w].ev = e
  BY RunsKeeps DEF QueueInv, Busy
<1>2. \A f : Oldest(f)' <=> Oldest(f)
  BY <1>1 DEF Oldest
<1>3. Syncs(e)' => AccessInv' \/ ~RequestAccess(wk[w])'
  BY <1>0, <1>1, <1>2, RequestKeepsAccess DEF Oldest
<1>4. ~Syncs(e) => Agree
  BY <1>0, OneOldest DEF AccessInv, IInv, TypeOK
<1>5. CASE RetrieveSubscription(w)
  <2>1. /\ wk[w].pc = "retrieve" /\ UNCHANGED <<row, user>>
        /\ wk'[w].pc = "write" /\ wk'[w].status = sub[e.s]
    BY <1>0, <1>5 DEF RetrieveSubscription, IInv, TypeOK, RequestTypeOK
  <2>2. sub[e.s] # "none"
    BY <1>0, <2>1 DEF RequestAccess, Sound, IInv, FeeInv, Event
  <2>3. RequestAccess(wk[w])'
    BY <1>0, <1>1, <2>1, <2>2 DEF RequestAccess, EventAccess, Syncs, Reports, Syncing
  <2> QED
    BY <1>1, <1>2, <2>1, <2>3, RequestKeepsAccess DEF AccessInv, Agree, Blocked, Syncs, Reports
<1>6. CASE WriteRow(w)
  <2>1. /\ wk[w].pc = "write" /\ UNCHANGED user /\ row' = RowAfter(e, wk[w].status)
        /\ wk'[w].pc = AfterWrite(e) /\ wk'[w].status = wk[w].status
    BY <1>0, <1>6 DEF WriteRow, Goto, IInv, TypeOK, RequestTypeOK
  <2>2. CASE e.type = "completed"
    <3>1. Agree
      BY <1>4, <2>2 DEF Syncs, Reports
    <3>2. row'.status = IF session[e.s].mode = "subscription" THEN wk[w].status ELSE "active"
      BY <1>0, <2>1, <2>2 DEF RowAfter, CheckoutWrite, PaymentWrite, Mode
    <3>3. row'.status \in Lapse => \E f \in events : Reports(f) /\ f # e
      BY <1>0, <2>1, <2>2, <3>2 DEF RequestAccess, Lapse, Reports, Mode
    <3>4. wk'[w].pc \in {"attach", "ack"}
      BY <2>1, <2>2 DEF AfterWrite
    <3>5. RequestAccess(wk[w])'
      BY <1>1, <2>1, <2>2, <3>1, <3>3, <3>4 DEF RequestAccess, Agree, Reports, Syncing
    <3> QED
      BY <1>1, <2>1, <3>1, <3>3, <3>5, RequestKeepsAccess DEF Agree, Reports
  <2>3. CASE e.type # "completed"
    <3>1. wk'[w].pc = "sync"
      BY <1>0, <2>1, <2>3 DEF AfterWrite
    <3>2. row'.status = wk[w].status /\ (e.type # "deleted" => row'.subId = e.s)
      BY <1>0, <2>1, <2>3 DEF RowAfter, DeleteWrite, UpdateWrite, RequestAccess
    <3>3. Syncs(e)'
      BY <1>0, <1>1, <2>1, <2>3, <3>2 DEF RequestAccess, Syncs, Reports
    <3>4. RequestAccess(wk[w])'
      BY <1>0, <1>1, <2>1, <2>3, <3>1, <3>2, <3>3 DEF RequestAccess, Syncing
    <3> QED
      BY <1>3, <3>3, <3>4
  <2> QED
    BY <2>2, <2>3
<1>7. CASE AttachDeferredItems(w)
  <2>1. /\ wk[w].pc = "attach" /\ UNCHANGED <<row, user>> /\ wk'[w].pc = "ack"
    BY <1>0, <1>7 DEF AttachDeferredItems, Goto, IInv, TypeOK, RequestTypeOK
  <2>2. Agree
    BY <1>0, <1>4, <2>1 DEF RequestAccess, Syncs, Reports
  <2>3. RequestAccess(wk[w])'
    BY <1>0, <1>1, <2>1, <2>2 DEF RequestAccess, Agree, Blocked, Reports, Syncing
  <2> QED
    BY <1>1, <1>2, <2>1, <2>3, RequestKeepsAccess DEF AccessInv, Agree, Blocked, Syncs, Reports
<1>8. CASE AccessStep(w)
  <2>1. UNCHANGED row /\ wk[w].pc \in Syncing /\ wk'[w].status = wk[w].status
    BY <1>0, <1>8 DEF AccessStep, SyncEndUserAccess, EnableInDb, EnableInCognito,
       DisableInCognito, BlockInDb, Goto, IInv, TypeOK, RequestTypeOK, Syncing
  <2>2. Syncs(e) /\ Syncs(e)'
    BY <1>0, <1>1, <2>1 DEF RequestAccess, Syncs, Reports, Syncing
  <2>3. /\ e.type # "completed" /\ row.status = wk[w].status
        /\ wk[w].status \in Status
    BY <1>0, <2>1 DEF RequestAccess
  <2>4. CASE SyncEndUserAccess(w)
    <3>1. /\ UNCHANGED user
          /\ wk'[w].pc = IF wk[w].status \in ActiveStatus THEN "dbEnable" ELSE "cognitoDisable"
      BY <1>0, <2>4 DEF SyncEndUserAccess, Goto, AccessInv, IInv, TypeOK, RequestTypeOK
    <3>2. wk[w].status \in ActiveStatus \/ wk[w].status \in Lapse
      BY <2>3 DEF Status, Lapse
    <3>3. RequestAccess(wk[w])'
      BY <1>1, <2>1, <2>2, <2>3, <3>1, <3>2 DEF RequestAccess, Syncing, Status, ActiveStatus
    <3> QED
      BY <1>3, <2>2, <3>3
  <2>5. CASE EnableInDb(w)
    <3>1. /\ user' = [user EXCEPT !.db = "Active"] /\ wk[w].pc = "dbEnable"
          /\ wk'[w].pc = "cognitoEnable"
      BY <1>0, <2>5 DEF EnableInDb, Goto, IInv, TypeOK, RequestTypeOK
    <3>2. user'.db = "Active" /\ wk[w].status \in ActiveStatus
      BY <1>0, <3>1 DEF RequestAccess, IInv, TypeOK, AccessTypeOK
    <3>3. RequestAccess(wk[w])'
      BY <1>1, <2>1, <2>2, <2>3, <3>1, <3>2 DEF RequestAccess, Syncing, Status, ActiveStatus
    <3> QED
      BY <1>3, <2>2, <3>3
  <2>6. CASE EnableInCognito(w)
    <3>1. /\ user' = [user EXCEPT !.cognito = TRUE] /\ wk[w].pc = "cognitoEnable"
          /\ wk'[w].pc = "ack"
      BY <1>0, <2>6 DEF EnableInCognito, Goto, IInv, TypeOK, RequestTypeOK
    <3>2. Agree' /\ row'.status \notin Lapse
      BY <1>0, <2>1, <2>3, <3>1
      DEF RequestAccess, Agree, Lapse, ActiveStatus, IInv, TypeOK, AccessTypeOK
    <3>3. RequestAccess(wk[w])'
      BY <1>1, <3>1, <3>2 DEF RequestAccess, Syncing
    <3> QED
      BY <1>3, <2>2, <3>3
  <2>7. CASE DisableInCognito(w)
    <3>1. /\ user' = [user EXCEPT !.cognito = FALSE] /\ wk[w].pc = "cognitoDisable"
          /\ wk'[w].pc = "dbBlock"
      BY <1>0, <2>7 DEF DisableInCognito, Goto, IInv, TypeOK, RequestTypeOK
    <3>2. ~user'.cognito /\ wk[w].status \in Lapse
      BY <1>0, <3>1 DEF RequestAccess, IInv, TypeOK, AccessTypeOK
    <3>3. RequestAccess(wk[w])'
      BY <1>1, <2>1, <2>2, <2>3, <3>1, <3>2 DEF RequestAccess, Syncing, Lapse
    <3> QED
      BY <1>3, <2>2, <3>3
  <2>8. CASE BlockInDb(w)
    <3>1. /\ user' = [user EXCEPT !.db = "Blocked"] /\ wk[w].pc = "dbBlock"
          /\ wk'[w].pc = "ack"
      BY <1>0, <2>8 DEF BlockInDb, Goto, IInv, TypeOK, RequestTypeOK
    <3>2. Agree' /\ Blocked'
      BY <1>0, <3>1 DEF RequestAccess, Agree, Blocked, IInv, TypeOK, AccessTypeOK
    <3>3. RequestAccess(wk[w])'
      BY <1>1, <3>1, <3>2 DEF RequestAccess, Syncing
    <3> QED
      BY <1>3, <2>2, <3>3
  <2> QED
    BY <1>8, <2>4, <2>5, <2>6, <2>7, <2>8 DEF AccessStep
<1> QED
  BY <1>5, <1>6, <1>7, <1>8 DEF Runs

LEMMA EndsAccess ==
    ASSUME IInv, QueueInv, AccessInv, NEW w \in Worker, Acknowledge(w) \/ RequestFails(w)
    PROVE  AccessInv'
<1> DEFINE e == wk[w].ev
<1>0. e \in Event /\ Oldest(e) /\ RequestAccess(wk[w]) /\ \A f \in events : f.n \in Nat
  BY DEF Acknowledge, RequestFails, IInv, RequestInv, QueueInv, AccessInv, Busy, TypeOK,
         EventTypeOK, Event
<1>1. /\ UNCHANGED <<session, sub, row, user, company, admin>>
      /\ \A v \in Worker : wk'[v].pc = "idle"
  BY DEF Acknowledge, RequestFails, Idle, stripeVars, IInv, TypeOK, RequestTypeOK, QueueInv, Busy
<1>2. CASE RequestFails(w)
  <2>1. UNCHANGED events
    BY <1>2 DEF RequestFails, eventVars
  <2> QED
    BY <1>1, <2>1 DEF AccessInv, EventAccess, Busy, Agree, Blocked, Oldest, Syncs, Reports
<1>3. CASE Acknowledge(w)
  <2>1. events' = events \ {e} /\ wk[w].pc = "ack"
    BY <1>3 DEF Acknowledge
  <2>2. Agree' /\ (row'.status \in Lapse => Blocked' \/ \E f \in events' : Reports(f))
    BY <1>0, <1>1, <2>1 DEF RequestAccess, Agree, Blocked, Reports
  <2>3. ASSUME NEW g \in events'
        PROVE  EventAccess(g)'
    <3>1. EventAccess(g) /\ g \in events /\ e.n <= g.n
      BY <1>0, <2>1 DEF AccessInv, Oldest
    <3>2. \A f \in events : f.n > g.n => f \in events'
      BY <1>0, <2>1, <3>1 DEF Oldest
    <3> QED
      BY <1>1, <3>1, <3>2 DEF EventAccess, Reports
  <2> QED
    BY <1>1, <2>2, <2>3 DEF AccessInv, Busy, Agree, Blocked, Reports
<1> QED
  BY <1>2, <1>3

LEMMA AccessKept ==
    ASSUME Ordered, ~AdminActs
    PROVE  IInv /\ QueueInv /\ AccessInv /\ [Next]_vars => AccessInv'
<1> SUFFICES ASSUME IInv, QueueInv, AccessInv, [Next]_vars
             PROVE  AccessInv'
  OBVIOUS
<1>1. CASE UNCHANGED vars
  BY <1>1 DEF vars, stripeVars, eventVars, AccessInv, EventAccess, RequestAccess, Busy, Agree,
              Blocked, Oldest, Syncs, Reports
<1>2. CASE Next
  <2>1. admin = "idle"
    BY DEF AccessInv
  <2> QED
    BY <1>2, <2>1, OrderedStep, StripeAccess, DeliverAccess, RunsAccess, EndsAccess
<1> QED
  BY <1>1, <1>2

LEMMA InitAccess == Init => AccessInv
BY DEF Init, AccessInv, Busy, Idle, Agree, Lapse

LEMMA QueueAlways == ASSUME Ordered PROVE Spec => [](IInv /\ QueueInv)
<1>1. Spec => []IInv
  BY InductiveInvariant
<1>2. IInv /\ QueueInv /\ [Next]_vars => QueueInv'
  BY QueueKept
<1> QED
  BY <1>1, <1>2, InitQueue, PTL DEF Spec

LEMMA AccessAlways == ASSUME Ordered, ~AdminActs PROVE Spec => [](QueueInv /\ AccessInv)
<1>1. Spec => [](IInv /\ QueueInv)
  BY QueueAlways
<1>2. IInv /\ QueueInv /\ AccessInv /\ [Next]_vars => AccessInv'
  BY AccessKept
<1> QED
  BY <1>1, <1>2, InitAccess, PTL DEF Spec

\* When events arrive in order and the Super Admin stays out of it, whatever
\* handlers throw and are retried: once every event has been handled, a
\* company whose subscription lapsed has its end users blocked in both records.
THEOREM LapseBlocks == ASSUME Ordered, ~AdminActs PROVE Spec => []LapseBlocksUsers
<1>1. AccessInv => LapseBlocksUsers
  BY DEF AccessInv, LapseBlocksUsers, Quiet, Lapse, Blocked
<1> QED
  BY <1>1, AccessAlways, PTL

\* Under the same conditions Postgres and Cognito agree about the end users:
\* a handler that stopped between the two is retried until it has done both.
THEOREM AccessAgrees == ASSUME Ordered, ~AdminActs PROVE Spec => []AccessRecordsAgree
<1>1. AccessInv => AccessRecordsAgree
  BY DEF AccessInv, AccessRecordsAgree, Quiet, Agree
<1> QED
  BY <1>1, AccessAlways, PTL

-------------------------------------------------------------------------------
(* The latest purchase.                                                    *)

\* Stripe reports a change of the subscription of session s, the newest event
\* with what it is from now on.
Reported(s) ==
    /\ UNCHANGED <<session, overlap, latest>>
    /\ Live(s) /\ session[s].mode = "subscription"
    /\ \A t \in Session \ {s} : sub'[t] = sub[t]
    /\ \A e \in events' \ events :
          e.s = s /\ e.type \notin {"completed", "unpaid"} /\ (e.type = "deleted" => e.n = emitted' /\ sub'[s] = "canceled")
    /\ \E m \in events' \ events :
          /\ m.n = emitted' /\ m.type \in {"updated", "deleted"}
          /\ m.type = "deleted" <=> sub'[s] = "canceled"
          /\ m.type = "updated" => m.status = sub'[s]

LEMMA ChangesAreReported ==
    ASSUME IInv, QueueInv, NEW s \in Session,
           PayInvoice(s) \/ FailInvoice(s) \/ EndSubscription(s) \/ ToggleCancelAtPeriodEnd(s)
    PROVE  Reported(s)
<1>0. /\ emitted \in Nat /\ sub \in [Session -> Status \cup {"none"}]
      /\ \A e \in events : e.n \in Nat /\ e.n <= emitted
  BY DEF IInv, TypeOK, EventTypeOK, Event, StripeTypeOK, QueueInv
<1>1. Live(s) /\ session[s].mode = "subscription"
  <2>1. CASE ToggleCancelAtPeriodEnd(s)
    <3>1. s # None /\ row.subId = s /\ sub[s] # "canceled"
      BY <2>1, BillingAssumption DEF ToggleCancelAtPeriodEnd
    <3> QED
      BY <3>1 DEF IInv, RowInv, RowNames, Live
  <2>2. CASE ~ToggleCancelAtPeriodEnd(s)
    <3>1. sub[s] # "none" /\ sub[s] # "canceled"
      BY <2>2 DEF PayInvoice, FailInvoice, EndSubscription, Status, ActiveStatus
    <3> QED
      BY <3>1 DEF IInv, FeeInv, Live
  <2> QED
    BY <2>1, <2>2
<1>2. UNCHANGED <<session, overlap, latest>>
  BY DEF PayInvoice, FailInvoice, EndSubscription, ToggleCancelAtPeriodEnd, stripeVars
<1>3. ASSUME NEW e, NEW f, e.n = emitted + 1, f.n = emitted + 2, Emit({e, f}, 2),
             e.s = s, f.s = s, e.type \in {"paid", "failed"}, f.type = "updated",
             sub' = [sub EXCEPT ![s] = f.status], f.status # "canceled"
      PROVE  Reported(s)
  <2>1. events' = events \cup {e, f} /\ emitted' = f.n /\ f \notin events
    BY <1>0, <1>3 DEF Emit
  <2>2. \A g \in events' \ events : g = e \/ g = f
    BY <2>1
  <2>3. sub'[s] = f.status /\ \A t \in Session \ {s} : sub'[t] = sub[t]
    BY <1>0, <1>3
  <2> QED
    BY <1>1, <1>2, <1>3, <2>1, <2>2, <2>3 DEF Reported
<1>4. ASSUME NEW e, e.n = emitted + 1, Emit({e}, 1), e.s = s, e.type \in {"updated", "deleted"},
             sub' = [sub EXCEPT ![s] = e.status], e.type = "deleted" <=> e.status = "canceled"
      PROVE  Reported(s)
  <2>1. events' = events \cup {e} /\ emitted' = e.n /\ e \notin events
    BY <1>0, <1>4 DEF Emit
  <2>2. sub'[s] = e.status /\ \A t \in Session \ {s} : sub'[t] = sub[t]
    BY <1>0, <1>4
  <2> QED
    BY <1>1, <1>2, <1>4, <2>1, <2>2 DEF Reported
<1>5. CASE PayInvoice(s)
  <2> DEFINE e == Ev(1, "paid", s, "active", items[s])
             f == Ev(2, "updated", s, "active", 0)
  <2>1. Emit({e, f}, 2) /\ sub' = [sub EXCEPT ![s] = "active"]
    BY <1>5 DEF PayInvoice
  <2>2. e.n = emitted + 1 /\ e.s = s /\ e.type = "paid" /\ f.n = emitted + 2 /\ f.s = s
        /\ f.type = "updated" /\ f.status = "active"
    BY DEF Ev
  <2> HIDE DEF e, f
  <2> QED
    BY <1>3, <2>1, <2>2
<1>6. CASE FailInvoice(s)
  <2> DEFINE e == Ev(1, "failed", s, "past_due", 0)
             f == Ev(2, "updated", s, "past_due", 0)
  <2>1. Emit({e, f}, 2) /\ sub' = [sub EXCEPT ![s] = "past_due"]
    BY <1>6 DEF FailInvoice
  <2>2. e.n = emitted + 1 /\ e.s = s /\ e.type = "failed" /\ f.n = emitted + 2 /\ f.s = s
        /\ f.type = "updated" /\ f.status = "past_due"
    BY DEF Ev
  <2> HIDE DEF e, f
  <2> QED
    BY <1>3, <2>1, <2>2
<1>7. CASE EndSubscription(s)
  <2> DEFINE e == Ev(1, "deleted", s, "canceled", 0)
  <2>1. Emit({e}, 1) /\ sub' = [sub EXCEPT ![s] = "canceled"]
    BY <1>7 DEF EndSubscription
  <2>2. e.n = emitted + 1 /\ e.s = s /\ e.type = "deleted" /\ e.status = "canceled"
    BY DEF Ev
  <2> HIDE DEF e
  <2> QED
    BY <1>4, <2>1, <2>2
<1>8. CASE ToggleCancelAtPeriodEnd(s)
  <2> DEFINE e == Ev(1, "updated", s, sub[s], 0)
  <2>1. Emit({e}, 1) /\ sub' = [sub EXCEPT ![s] = sub[s]] /\ sub[s] # "canceled"
    BY <1>0, <1>8 DEF ToggleCancelAtPeriodEnd, stripeVars
  <2>2. e.n = emitted + 1 /\ e.s = s /\ e.type = "updated" /\ e.status = sub[s]
    BY DEF Ev
  <2> HIDE DEF e
  <2> QED
    BY <1>4, <2>1, <2>2
<1> QED
  BY <1>5, <1>6, <1>7, <1>8

\* A purchase is made: its completion is the newest event but for, at most, a
\* paid invoice without the fee.
Purchased(s) ==
    /\ session[s].stage = "open" /\ session'[s].stage = "complete"
    /\ session'[s].mode = session[s].mode /\ session'[s].fee = session[s].fee
    /\ \A t \in Session \ {s} : session'[t] = session[t] /\ sub'[t] = sub[t]
    /\ sub'[s] # "canceled"
    /\ latest' = s
    /\ ~overlap' => ~overlap /\ \A t \in Session : ~Live(t)
    /\ \A e \in events' \ events : e.s = s /\ e.type \in {"completed", "paid"} /\ ~Bills(e)
    /\ \E c \in events' \ events : c.type = "completed"

LEMMA CheckoutPurchases ==
    ASSUME IInv, QueueInv, NEW s \in Session, CompleteCheckout(s)
    PROVE  Purchased(s)
<1>0. /\ emitted \in Nat /\ sub \in [Session -> Status \cup {"none"}]
      /\ session \in [Session -> [stage : Stage, mode : Mode, trial : BOOLEAN, fee : Fee]]
      /\ \A e \in events : e.n \in Nat /\ e.n <= emitted
  BY DEF IInv, TypeOK, EventTypeOK, Event, StripeTypeOK, QueueInv
<1>1. /\ session[s].stage = "open" /\ session'[s].stage = "complete"
      /\ session'[s].mode = session[s].mode /\ session'[s].fee = session[s].fee
      /\ \A t \in Session \ {s} : session'[t] = session[t]
      /\ latest' = s
      /\ ~overlap' => ~overlap /\ \A t \in Session : ~Live(t)
  BY <1>0 DEF CompleteCheckout
<1>2. CASE session[s].mode = "payment"
  <2>1. Emit({Ev(1, "completed", s, "active", 0)}, 1) /\ UNCHANGED sub
    BY <1>2 DEF CompleteCheckout
  <2>2. PICK c : c.n = emitted + 1 /\ c.s = s /\ c.type = "completed" /\ Emit({c}, 1)
    BY <2>1 DEF Ev
  <2>3. events' = events \cup {c} /\ c \notin events
    BY <1>0, <2>2 DEF Emit
  <2>4. sub'[s] # "canceled"
    BY <1>1, <2>1 DEF IInv, FeeInv
  <2> QED
    BY <1>1, <2>1, <2>2, <2>3, <2>4 DEF Purchased, Bills
<1>3. CASE session[s].mode # "payment"
  <2>1. PICK status \in ActiveStatus, k \in {1, 2} :
           /\ Emit({Ev(k, "completed", s, status, 0), Ev(3 - k, "paid", s, status, 0)}, 2)
           /\ sub' = [sub EXCEPT ![s] = status]
    BY <1>3 DEF CompleteCheckout, ActiveStatus
  <2>2. PICK c, p : /\ c.n = emitted + k /\ c.s = s /\ c.type = "completed"
                    /\ p.s = s /\ p.type = "paid" /\ p.lines = 0 /\ Emit({c, p}, 2)
    BY <2>1 DEF Ev
  <2>3. events' = events \cup {c, p} /\ c \notin events
    BY <1>0, <2>2 DEF Emit
  <2>4. sub'[s] # "canceled" /\ \A t \in Session \ {s} : sub'[t] = sub[t]
    BY <1>0, <2>1 DEF ActiveStatus
  <2> QED
    BY <1>1, <2>2, <2>3, <2>4 DEF Purchased, Bills
<1> QED
  BY <1>2, <1>3

LEMMA EventFacts ==
    ASSUME IInv, QueueInv
    PROVE  /\ emitted \in Nat
           /\ \A e \in events :
                 /\ e \in Event /\ e.n \in Nat /\ e.n <= emitted /\ e.s \in Session
                 /\ session[e.s].stage \in {"unpaid", "late", "complete"}
                 /\ session[e.s].mode \in Mode
                 /\ e.type \notin {"completed", "unpaid"} => session[e.s].mode = "subscription"
           /\ \A e \in Tells : session[e.s].stage = "complete"
           /\ \A w \in Worker : Busy(w) => wk[w].ev \in events
BY DEF IInv, TypeOK, EventTypeOK, EventInv, Sound, Event, StripeTypeOK, QueueInv, Oldest, Tells

\* When one event of a purchase is outstanding it belongs to the latest.
LEMMA LastEvent ==
    ASSUME IInv, QueueInv, Chronology, NEW e, Tells = {e}
    PROVE  e.s = latest
BY EventFacts DEF Chronology, Completion, Tells

\* As long as there was no purchase, no event tells of one.
LEMMA NothingBought ==
    ASSUME IInv, QueueInv, Chronology, latest = None
    PROVE  Tells = {}
BY EventFacts, BillingAssumption DEF Chronology, Completion, Tells, Event

\* With several requests impossible, only the one that moves has to be looked at.
LEMMA OthersTrack ==
    ASSUME NEW w \in Worker, \A v \in Worker \ {w} : wk'[v].pc = "idle", RequestTracks(wk[w])'
    PROVE  (\A v \in Worker : RequestTracks(wk[v]))'
<1> SUFFICES ASSUME NEW v \in Worker
             PROVE  RequestTracks(wk[v])'
  OBVIOUS
<1>1. CASE v = w
  BY <1>1
<1>2. CASE v # w
  BY <1>2 DEF RequestTracks, Syncing
<1> QED
  BY <1>1, <1>2

\* While an event is added that a request is not handling, the request has
\* more than its own to leave behind.
LEMMA AddedTracks ==
    ASSUME IInv, QueueInv, \A w \in Worker : RequestTracks(wk[w]), UNCHANGED <<row, wk>>,
           events \subseteq events', NEW m \in events', m \notin events, m.type # "unpaid",
           \A e \in events : session'[e.s].mode = session[e.s].mode
    PROVE  (\A w \in Worker : RequestTracks(wk[w]))'
<1> SUFFICES ASSUME NEW w \in Worker, Busy(w)
             PROVE  RequestTracks(wk[w])'
  BY DEF RequestTracks, Busy, Syncing
<1>1. wk[w].ev \in events /\ RequestTracks(wk[w])
  BY EventFacts
<1>2. Tells' # {wk[w].ev}
  BY <1>1 DEF Tells
<1> QED
  BY <1>1, <1>2 DEF RequestTracks

LEMMA ReportedKeeps ==
    ASSUME IInv, QueueInv, QueueInv', PurchaseInv, NEW s \in Session, Reported(s), Numbered,
           UNCHANGED <<row, wk>>
    PROVE  PurchaseInv'
<1> SUFFICES ASSUME ~overlap
             PROVE  (Chronology /\ NewestTells /\ RowTracks /\ \A w \in Worker : RequestTracks(wk[w]))'
  BY DEF PurchaseInv, Reported
<1>0. Chronology /\ NewestTells /\ RowTracks /\ \A w \in Worker : RequestTracks(wk[w])
  BY DEF PurchaseInv
<1>1. s = latest /\ UNCHANGED <<session, overlap, latest>>
  BY <1>0 DEF Chronology, Reported
<1>2. /\ events \subseteq events'
      /\ \A e \in events : e.n \in Nat /\ e.n <= emitted /\ e.s \in Session
      /\ \A e \in events' \ events : e.n \in Nat /\ emitted < e.n /\ e.n <= emitted' /\ e.s = s
      /\ emitted \in Nat /\ emitted' \in Nat /\ emitted <= emitted'
  BY EventFacts DEF Numbered, Reported
<1>9. Tells \subseteq Tells' /\ Tells \subseteq events /\ Tells' \ Tells = events' \ events
      /\ Tells' \subseteq events'
  BY <1>2 DEF Tells, Reported
<1>3. Chronology'
  <2>1. (\A t \in Session : Live(t) => t = latest)'
    BY <1>0, <1>1 DEF Chronology, Live, Reported
  <2>2. \A e \in Tells' : e.s # latest => e \in Tells
    BY <1>1, <1>2, <1>9
  <2>3. (\A e \in Tells : e.s # latest => \E c \in events : Completion(c, latest) /\ c.n > e.n)'
    BY <1>0, <1>1, <1>2, <2>2 DEF Chronology, Completion
  <2>4. (\A e, f \in Tells : e.s # latest /\ f.s = latest => e.n < f.n)'
    BY <1>0, <1>1, <1>2, <1>9, <2>2 DEF Chronology
  <2>5. ASSUME NEW e \in Tells', NEW f \in Tells', e.n < f.n, e.s # f.s
        PROVE  \E c \in events' : Completion(c, f.s)' /\ c.n > e.n
    <3>1. CASE f \in Tells /\ e \in Tells
      BY <1>0, <1>2, <2>5, <3>1 DEF Chronology, Completion
    <3>2. CASE f \in Tells /\ e \notin Tells
      BY <1>2, <1>9, <2>5, <3>2
    <3>3. CASE f \notin Tells
      BY <1>1, <1>2, <1>9, <2>3, <2>5, <3>3
    <3> QED
      BY <3>1, <3>2, <3>3
  <2>6. (\A d, e \in Tells : d.type = "deleted" /\ e.s = d.s => sub[d.s] = "canceled" /\ e.n <= d.n)'
    <3> SUFFICES ASSUME NEW d \in Tells', NEW e \in Tells', d.type = "deleted", e.s = d.s
                 PROVE  sub'[d.s] = "canceled" /\ e.n <= d.n
      OBVIOUS
    <3>1. CASE d \in Tells
      <4>1. sub[d.s] = "canceled" /\ d.s # s
        BY <1>0, <3>1 DEF Chronology, Reported, Live
      <4>2. e \in Tells
        BY <1>2, <1>9, <4>1
      <4> QED
        BY <1>0, <1>2, <1>9, <3>1, <4>1, <4>2 DEF Chronology, Reported
    <3>2. CASE d \notin Tells
      BY <1>2, <1>9, <3>2 DEF Reported, QueueInv
    <3> QED
      BY <3>1, <3>2
  <2>7. (/\ latest # None => session[latest].stage = "complete"
         /\ row.last # None => session[row.last].stage = "complete")'
    BY <1>0, <1>1 DEF Chronology
  <2> QED
    BY <2>1, <2>3, <2>4, <2>5, <2>6, <2>7 DEF Chronology
<1>4. PICK m \in events' \ events :
          /\ m.n = emitted' /\ m.type \in {"updated", "deleted"}
          /\ m.type = "deleted" <=> sub'[s] = "canceled"
          /\ m.type = "updated" => m.status = sub'[s]
  BY DEF Reported
<1>5. NewestTells'
  <2> SUFFICES ASSUME NEW e \in Tells', \A f \in Tells' : f.n <= e.n
               PROVE  /\ e.type # "failed"
                      /\ session[e.s].mode = "subscription" =>
                            (e.type = "deleted" <=> sub'[e.s] = "canceled")
                      /\ e.type = "updated" => e.status = sub'[e.s]
    BY <1>1 DEF NewestTells
  <2>1. m.n <= e.n /\ e.n <= m.n /\ e.n \in Nat
    BY <1>2, <1>4, <1>9 DEF QueueInv
  <2>2. e = m
    BY <1>2, <1>4, <1>9, <2>1 DEF QueueInv
  <2> QED
    BY <1>2, <1>4, <2>2
<1>6. RowTracks'
  BY <1>0, <1>1, <1>2, <1>4, <1>9 DEF RowTracks, Reported, Live, Completion
<1>7. (\A w \in Worker : RequestTracks(wk[w]))'
  BY <1>0, <1>1, <1>2, <1>4, AddedTracks
<1> QED
  BY <1>3, <1>5, <1>6, <1>7

LEMMA PurchasedKeeps ==
    ASSUME IInv, QueueInv, QueueInv', PurchaseInv, NEW s \in Session, Purchased(s), Numbered,
           UNCHANGED <<row, wk>>
    PROVE  PurchaseInv'
<1> SUFFICES ASSUME ~overlap'
             PROVE  (Chronology /\ NewestTells /\ RowTracks /\ \A w \in Worker : RequestTracks(wk[w]))'
  BY DEF PurchaseInv
<1>0. /\ Chronology /\ NewestTells /\ RowTracks /\ \A w \in Worker : RequestTracks(wk[w])
      /\ \A t \in Session : ~Live(t)
      /\ latest' = s /\ session'[s].stage = "complete"
  BY DEF PurchaseInv, Purchased
<1>1. /\ events \subseteq events'
      /\ \A e \in events : /\ e.n \in Nat /\ e.n <= emitted /\ e.s \in Session \ {s}
                            /\ session'[e.s] = session[e.s] /\ sub'[e.s] = sub[e.s]
      /\ \A e \in events' \ events : /\ e.n \in Nat /\ emitted < e.n /\ e.n <= emitted'
                                      /\ e.s = s /\ e.type \in {"completed", "paid"}
      /\ emitted \in Nat /\ emitted' \in Nat /\ emitted <= emitted'
  BY EventFacts DEF Numbered, Purchased
<1>9. Tells \subseteq Tells' /\ Tells \subseteq events /\ Tells' \ Tells = events' \ events
      /\ Tells' \subseteq events'
  BY <1>1 DEF Tells
<1>2. PICK c \in events' \ events : c.type = "completed"
  BY DEF Purchased
<1>3. Completion(c, s)' /\ \A e \in events : c.n > e.n
  BY <1>1, <1>2 DEF Completion
<1>4. \A t \in Session \ {s} : session'[t] = session[t] /\ sub'[t] = sub[t]
  BY DEF Purchased
<1>5. Chronology'
  <2>1. (\A t \in Session : Live(t) => t = latest)'
    BY <1>0, <1>4 DEF Live
  <2>2. (\A e \in Tells : e.s # latest => \E g \in events : Completion(g, latest) /\ g.n > e.n)'
    BY <1>0, <1>1, <1>2, <1>3, <1>9
  <2>3. (\A e, f \in Tells : e.s # latest /\ f.s = latest => e.n < f.n)'
    BY <1>0, <1>1, <1>9
  <2>4. ASSUME NEW e \in Tells', NEW f \in Tells', e.n < f.n, e.s # f.s
        PROVE  \E g \in events' : Completion(g, f.s)' /\ g.n > e.n
    <3>1. CASE f \in Tells /\ e \in Tells
      BY <1>0, <1>1, <2>4, <3>1 DEF Chronology, Completion
    <3>2. CASE f \in Tells /\ e \notin Tells
      BY <1>1, <1>9, <2>4, <3>2
    <3>3. CASE f \notin Tells
      BY <1>0, <1>1, <1>9, <2>2, <2>4, <3>3
    <3> QED
      BY <3>1, <3>2, <3>3
  <2>5. (\A d, e \in Tells : d.type = "deleted" /\ e.s = d.s => sub[d.s] = "canceled" /\ e.n <= d.n)'
    <3> SUFFICES ASSUME NEW d \in Tells', NEW e \in Tells', d.type = "deleted", e.s = d.s
                 PROVE  sub'[d.s] = "canceled" /\ e.n <= d.n
      OBVIOUS
    <3>1. d \in Tells /\ e \in Tells
      BY <1>1, <1>9
    <3> QED
      BY <1>0, <1>1, <1>9, <3>1 DEF Chronology
  <2>6. (/\ latest # None => session[latest].stage = "complete"
         /\ row.last # None => session[row.last].stage = "complete")'
    BY <1>0, <1>4 DEF Chronology, IInv, TypeOK, RowTypeOK
  <2> QED
    BY <2>1, <2>2, <2>3, <2>4, <2>5, <2>6 DEF Chronology
<1>6. NewestTells'
  <2> SUFFICES ASSUME NEW e \in Tells', \A f \in Tells' : f.n <= e.n
               PROVE  /\ e.type # "failed"
                      /\ session'[e.s].mode = "subscription" =>
                            (e.type = "deleted" <=> sub'[e.s] = "canceled")
                      /\ e.type = "updated" => e.status = sub'[e.s]
    BY DEF NewestTells
  <2>1. e \notin events /\ e \in events'
    BY <1>1, <1>2, <1>3, <1>9
  <2> QED
    BY <1>1, <2>1 DEF Purchased
<1>7. RowTracks'
  <2>1. row.last # s /\ s # None
    BY <1>0, BillingAssumption DEF Chronology, Purchased
  <2>2. Tells' # {}
    BY <1>2, <1>9
  <2> QED
    BY <1>0, <1>2, <1>3, <2>1, <2>2 DEF RowTracks
<1>8. (\A w \in Worker : RequestTracks(wk[w]))'
  BY <1>0, <1>1, <1>2, AddedTracks
<1> QED
  BY <1>5, <1>6, <1>7, <1>8

\* A session that is opened, finished with nothing paid or paid late is no
\* purchase: no event of one, nor the row, names it.
LEMMA UnboughtKeeps ==
    ASSUME IInv, QueueInv, PurchaseInv, NEW s \in Session,
           \/ \E mode \in Mode, trial \in BOOLEAN : CreateCheckout(s, mode, trial)
           \/ CompleteUnpaid(s) \/ PaymentArrives(s)
    PROVE  PurchaseInv'
<1>1. /\ UNCHANGED <<sub, overlap, latest, row, wk>>
      /\ session[s].stage # "complete" /\ session'[s].stage # "complete"
      /\ session[s].stage # "none" => session'[s].mode = session[s].mode
      /\ \A t \in Session \ {s} : session'[t] = session[t]
  BY DEF CreateCheckout, CompleteUnpaid, PaymentArrives, IInv, TypeOK, StripeTypeOK
<1> SUFFICES ASSUME ~overlap
             PROVE  (Chronology /\ NewestTells /\ RowTracks /\ \A w \in Worker : RequestTracks(wk[w]))'
  BY <1>1 DEF PurchaseInv
<1>0. Chronology /\ NewestTells /\ RowTracks /\ \A w \in Worker : RequestTracks(wk[w])
  BY DEF PurchaseInv
<1>2. Tells' = Tells /\ \A e : e.type = "completed" => (e \in events' <=> e \in events)
  <2>1. CASE ~CompleteUnpaid(s)
    <3>1. UNCHANGED events
      BY <2>1 DEF CreateCheckout, PaymentArrives, eventVars
    <3> QED
      BY <3>1 DEF Tells
  <2>2. CASE CompleteUnpaid(s)
    <3>1. PICK u : u.type = "unpaid" /\ events' = events \cup {u}
      <4>1. Ev(1, "unpaid", s, "active", 0).type = "unpaid"
        BY DEF Ev
      <4> QED
        BY <2>2, <4>1 DEF CompleteUnpaid, Emit
    <3> QED
      BY <3>1 DEF Tells
  <2> QED
    BY <2>1, <2>2
<1>3. \A e \in Tells : e.s \in Session \ {s} /\ session'[e.s] = session[e.s]
  BY <1>1, EventFacts DEF Tells
<1>4. /\ latest # None => latest \in Session \ {s}
      /\ row.last # None => row.last \in Session \ {s}
  BY <1>0, <1>1 DEF Chronology, IInv, TypeOK, StripeTypeOK, RowTypeOK
<1>5. \A c, t : Completion(c, t)' <=> Completion(c, t)
  BY <1>2 DEF Completion
<1>6. Chronology'
  <2>1. /\ (\A t \in Session : Live(t) => t = latest)'
        /\ (latest # None => session[latest].stage = "complete")'
        /\ (row.last # None => session[row.last].stage = "complete")'
    BY <1>0, <1>1, <1>4 DEF Chronology, Live
  <2>2. ASSUME NEW t, NEW n, \E c \in events : Completion(c, t) /\ c.n > n
        PROVE  \E c \in events' : Completion(c, t)' /\ c.n > n
    BY <1>5, <2>2 DEF Completion
  <2>3. (\A e \in Tells : e.s # latest => \E c \in events : Completion(c, latest) /\ c.n > e.n)'
    BY <1>0, <1>1, <1>2, <2>2 DEF Chronology
  <2>4. (\A e, f \in Tells : e.n < f.n /\ e.s # f.s =>
            \E c \in events : Completion(c, f.s) /\ c.n > e.n)'
    BY <1>0, <1>2, <2>2 DEF Chronology
  <2>5. (\A e, f \in Tells : e.s # latest /\ f.s = latest => e.n < f.n)'
        /\ (\A d, e \in Tells : d.type = "deleted" /\ e.s = d.s => sub[d.s] = "canceled" /\ e.n <= d.n)'
    BY <1>0, <1>1, <1>2 DEF Chronology
  <2> QED
    BY <2>1, <2>3, <2>4, <2>5 DEF Chronology
<1>7. NewestTells'
  BY <1>0, <1>1, <1>2, <1>3 DEF NewestTells
<1>8. RowTracks'
  <2>1. latest # None => (Right' <=> Right) /\ session'[latest] = session[latest]
    BY <1>1, <1>4 DEF Right
  <2>2. (\E c \in events : Completion(c, latest)) => (\E c \in events : Completion(c, latest))'
    BY <1>1, <1>5 DEF Completion
  <2> QED
    BY <1>0, <1>1, <1>2, <2>1, <2>2 DEF RowTracks
<1>9. ASSUME NEW w \in Worker, Busy(w)
      PROVE  RequestTracks(wk[w])'
  <2>1. wk[w].ev \in events /\ session'[wk[w].ev.s].mode = session[wk[w].ev.s].mode
    BY <1>1, <1>9, EventFacts
  <2>2. Tells = {wk[w].ev} => latest = wk[w].ev.s
    BY <1>0, LastEvent
  <2>3. Tells = {wk[w].ev} => (Right' <=> Right)
    BY <1>1, <1>3, <2>2 DEF Right
  <2> QED
    BY <1>0, <1>1, <1>2, <2>1, <2>3 DEF RequestTracks
<1>10. (\A w \in Worker : RequestTracks(wk[w]))'
  BY <1>1, <1>9 DEF RequestTracks, Busy, Syncing
<1> QED
  BY <1>6, <1>7, <1>8, <1>10

LEMMA DeliverPurchase ==
    ASSUME Ordered, IInv, QueueInv, PurchaseInv, NEW w \in Worker, NEW e \in events, Deliver(w, e)
    PROVE  PurchaseInv'
<1>1. /\ UNCHANGED <<session, sub, overlap, latest, events, emitted>>
      /\ \A v \in Worker \ {w} : wk'[v].pc = "idle"
      /\ wk'[w] = [pc |-> FirstStep(e), ev |-> e, status |-> e.status]
      /\ row'.status = row.status /\ row'.subId = row.subId /\ row'.last = row.last
  BY DEF Deliver, stripeVars, eventVars, IInv, TypeOK, RequestTypeOK, RowTypeOK
<1> SUFFICES ASSUME ~overlap
             PROVE  (Chronology /\ NewestTells /\ RowTracks /\ \A v \in Worker : RequestTracks(wk[v]))'
  BY <1>1 DEF PurchaseInv
<1>0. Chronology /\ NewestTells /\ RowTracks
  BY DEF PurchaseInv
<1>2. Chronology' /\ NewestTells' /\ RowTracks' /\ (Right' <=> Right)
  BY <1>0, <1>1 DEF Chronology, NewestTells, RowTracks, Right, Live, Completion, Tells
<1>3. RequestTracks(wk[w])'
  <2>0. /\ e \in Event /\ e.s \in Session /\ session[e.s].mode \in Mode
        /\ e.type \notin {"completed", "unpaid"} => session[e.s].mode = "subscription"
    BY EventFacts
  <2>1. CASE FirstStep(e) = "retrieve"
    <3>1. e.type \notin {"updated", "deleted"} /\ session[e.s].mode = "subscription"
      BY <2>0, <2>1 DEF FirstStep, Mode
    <3> QED
      BY <1>1, <2>1, <3>1 DEF RequestTracks, Syncing
  <2>2. CASE FirstStep(e) = "write"
    <3>1. \/ e.type \in {"updated", "deleted"}
          \/ e.type = "completed" /\ session[e.s].mode = "payment"
      BY <2>0, <2>2 DEF FirstStep, Event, EventType, Mode
    <3> QED
      BY <1>1, <2>2, <3>1 DEF RequestTracks, Syncing
  <2>3. CASE FirstStep(e) = "ack"
    <3>1. \/ e.type = "completed" /\ session[e.s].mode = "payment" /\ row.last = e.s
          \/ e.type = "paid" /\ row.subId # e.s
          \/ e.type = "unpaid"
      BY <2>0, <2>3 DEF FirstStep, Event, EventType, Mode
    <3>2. ASSUME Tells = {e}
          PROVE  Right
      <4>1. e.s = latest /\ latest # None /\ e.type # "unpaid"
        BY <1>0, <2>0, <3>2, LastEvent, BillingAssumption DEF Event, Tells
      <4>2. CASE session[e.s].mode = "payment"
        BY <1>0, <2>0, <3>1, <4>1, <4>2 DEF RowTracks
      <4>3. CASE session[e.s].mode # "payment"
        <5>1. e.type = "paid" /\ row.subId # latest /\ session[latest].mode = "subscription"
          BY <2>0, <3>1, <4>1, <4>3 DEF Mode
        <5>2. sub[latest] # "canceled"
          BY <1>0, <2>0, <3>2, <4>1, <5>1 DEF NewestTells, Event
        <5> QED
          BY <1>0, <3>2, <4>1, <5>1, <5>2 DEF RowTracks, Completion, Tells
      <4> QED
        BY <4>2, <4>3
    <3>3. Tells' = Tells
      BY <1>1 DEF Tells
    <3> QED
      BY <1>1, <1>2, <2>3, <3>1, <3>2, <3>3 DEF RequestTracks, Syncing
  <2>4. FirstStep(e) \in {"retrieve", "write", "ack"}
    BY <2>0 DEF FirstStep, Event, EventType, Mode
  <2> QED
    BY <2>1, <2>2, <2>3, <2>4
<1> QED
  BY <1>1, <1>2, <1>3, OthersTrack

\* What a handler writes, about the latest purchase or an earlier one.
LEMMA WritePurchase ==
    ASSUME IInv, QueueInv, PurchaseInv, ~overlap, NEW w \in Worker, WriteRow(w)
    PROVE  Chronology' /\ RowTracks' /\ RequestTracks(wk[w])'
<1> DEFINE e == wk[w].ev
           st == wk[w].status
<1>0. /\ Chronology /\ NewestTells /\ RowTracks /\ RequestTracks(wk[w])
      /\ e \in Tells /\ wk[w].pc = "write"
      /\ e \in Event /\ session[e.s].stage = "complete" /\ session[e.s].mode \in Mode
      /\ e.type # "completed" => session[e.s].mode = "subscription"
      /\ e.s \in Session /\ \A f \in Tells : f.n \in Nat /\ e.n <= f.n
      /\ latest # None
  <2>1. Busy(w) /\ e \in events /\ Oldest(e) /\ e.type # "unpaid"
    BY EventFacts, RunsForPurchases DEF QueueInv, Busy, WriteRow, Runs
  <2>2. e \in Tells
    BY <2>1 DEF Tells
  <2>3. Chronology /\ latest # None
    BY <2>2, NothingBought DEF PurchaseInv
  <2> QED
    BY <2>1, <2>2, <2>3, EventFacts DEF PurchaseInv, WriteRow, Oldest, Tells
<1>1. /\ UNCHANGED <<session, sub, overlap, latest, events, emitted>>
      /\ Tells' = Tells
      /\ row' = RowAfter(e, st) /\ wk'[w].ev = e /\ wk'[w].pc = AfterWrite(e)
  BY DEF WriteRow, stripeVars, eventVars, Goto, IInv, TypeOK, RequestTypeOK, Tells
<1>2. CASE e.type = "completed" /\ session[e.s].mode = "payment"
  <2>1. row'.status = "active" /\ row'.subId = None /\ row'.last = e.s
    BY <1>1, <1>2 DEF RowAfter, PaymentWrite, IInv, TypeOK, RowTypeOK
  <2>2. Chronology'
    BY <1>0, <1>1, <2>1 DEF Chronology, Live, Completion
  <2>3. RowTracks'
    <3>1. ASSUME latest # None, session[latest].mode = "subscription"
          PROVE  \E c \in events : Completion(c, latest)
      BY <1>0, <1>2, <3>1 DEF Chronology
    <3>2. ASSUME e.s = latest
          PROVE  \A f \in Tells : f.s = latest
      BY <1>0, <3>2 DEF Chronology
    <3> QED
      BY <1>0, <1>1, <1>2, <2>1, <3>1, <3>2 DEF RowTracks, Right, Completion
  <2>4. Tells = {e} => Right'
    <3>1. Tells = {e} => e.s = latest
      BY <1>0, LastEvent
    <3> QED
      BY <1>1, <1>2, <2>1, <3>1 DEF Right
  <2>5. wk'[w].pc \in {"attach", "ack"}
    BY <1>1, <1>2 DEF AfterWrite
  <2>6. RequestTracks(wk[w])'
    BY <1>1, <1>2, <2>4, <2>5 DEF RequestTracks, Syncing
  <2> QED
    BY <2>2, <2>3, <2>6
<1>3. CASE ~(e.type = "completed" /\ session[e.s].mode = "payment")
  <2>0. session[e.s].mode = "subscription"
    BY <1>0, <1>3 DEF Mode
  <2>1. /\ row'.last = row.last
        /\ row'.status = IF e.type = "deleted" THEN "canceled" ELSE st
        /\ row'.subId = IF e.type = "deleted" THEN None ELSE e.s
    BY <1>0, <1>1, <2>0 DEF RowAfter, CheckoutWrite, DeleteWrite, UpdateWrite, IInv, TypeOK, RowTypeOK
  <2>2. Chronology'
    BY <1>0, <1>1, <2>1 DEF Chronology, Live, Completion
  <2>3. RowTracks'
    <3>1. ASSUME latest # None, sub[latest] # "canceled"
          PROVE  row'.subId = latest \/ \E c \in events : Completion(c, latest)
      <4>1. CASE e.s = latest
        BY <1>0, <2>1, <3>1, <4>1 DEF Chronology
      <4>2. CASE e.s # latest
        BY <1>0, <4>2 DEF Chronology
      <4> QED
        BY <4>1, <4>2
    <3>2. ~(latest # None /\ session[latest].mode = "payment" /\ row'.last = latest)
      BY <1>0, <2>0, <2>1 DEF RowTracks
    <3> QED
      BY <1>0, <1>1, <3>1, <3>2 DEF RowTracks, Completion
  <2>4. ASSUME Tells = {e}
        PROVE  Right'
    <3>1. e.s = latest
      BY <1>0, <2>4, LastEvent
    <3>2. /\ e.type # "failed"
          /\ e.type = "deleted" <=> sub[latest] = "canceled"
          /\ e.type = "updated" => e.status = sub[latest]
      BY <1>0, <2>0, <2>4, <3>1 DEF NewestTells
    <3>3. e.type # "deleted" => st = sub[latest]
      BY <1>0, <2>0, <2>4, <3>1, <3>2 DEF RequestTracks, Event, EventType, Tells
    <3> QED
      BY <1>1, <2>0, <2>1, <3>1, <3>2, <3>3 DEF Right
  <2>5. wk'[w].pc \in {"attach", "ack", "sync"} /\ (wk'[w].pc = "sync" => e.type # "completed")
    BY <1>1 DEF AfterWrite
  <2>6. RequestTracks(wk[w])'
    BY <1>1, <2>1, <2>4, <2>5 DEF RequestTracks, Syncing
  <2> QED
    BY <2>2, <2>3, <2>6
<1> QED
  BY <1>2, <1>3

LEMMA RunsPurchase ==
    ASSUME IInv, QueueInv, PurchaseInv, NEW w \in Worker, Runs(w)
    PROVE  PurchaseInv'
<1>1. /\ UNCHANGED <<events, session, sub, overlap, latest>> /\ Tells' = Tells
      /\ wk'[w].ev = wk[w].ev
      /\ \A v \in Worker \ {w} : wk'[v].pc = "idle"
  BY RunsKeeps DEF QueueInv, Busy, Tells
<1> SUFFICES ASSUME ~overlap
             PROVE  (Chronology /\ NewestTells /\ RowTracks /\ \A v \in Worker : RequestTracks(wk[v]))'
  BY <1>1 DEF PurchaseInv
<1>0. Chronology /\ NewestTells /\ RowTracks /\ RequestTracks(wk[w])
  BY DEF PurchaseInv
<1>2. NewestTells'
  BY <1>0, <1>1 DEF NewestTells
<1>3. CASE WriteRow(w)
  BY <1>1, <1>2, <1>3, WritePurchase, OthersTrack
<1>4. CASE ~WriteRow(w)
  <2>1. UNCHANGED row
    BY <1>4 DEF Runs, RetrieveSubscription, AttachDeferredItems, AccessStep, SyncEndUserAccess,
                EnableInDb, EnableInCognito, DisableInCognito, BlockInDb
  <2>2. Chronology' /\ RowTracks' /\ (Right' <=> Right)
    BY <1>0, <1>1, <2>1 DEF Chronology, RowTracks, Right, Live, Completion
  <2>3. CASE RetrieveSubscription(w)
    <3>1. wk[w].pc = "retrieve" /\ wk'[w].pc = "write" /\ wk'[w].status = sub[wk[w].ev.s]
      BY <2>3 DEF RetrieveSubscription, IInv, TypeOK, RequestTypeOK
    <3>2. RequestTracks(wk[w])'
      BY <1>0, <1>1, <3>1 DEF RequestTracks, Syncing
    <3> QED
      BY <1>1, <1>2, <2>2, <3>2, OthersTrack
  <2>4. CASE AttachDeferredItems(w)
    <3>1. wk[w].pc = "attach" /\ wk'[w].pc = "ack"
      BY <2>4 DEF AttachDeferredItems, Goto, IInv, TypeOK, RequestTypeOK
    <3>2. RequestTracks(wk[w])'
      BY <1>0, <1>1, <2>1, <2>2, <3>1 DEF RequestTracks, Syncing
    <3> QED
      BY <1>1, <1>2, <2>2, <3>2, OthersTrack
  <2>5. CASE AccessStep(w)
    <3>1. wk[w].pc \in Syncing /\ wk'[w].pc \in Syncing \cup {"ack"}
      BY <2>5 DEF AccessStep, SyncEndUserAccess, EnableInDb, EnableInCognito, DisableInCognito,
                  BlockInDb, Goto, IInv, TypeOK, RequestTypeOK, Syncing
    <3>2. RequestTracks(wk[w])'
      BY <1>0, <1>1, <2>1, <2>2, <3>1 DEF RequestTracks, Syncing
    <3> QED
      BY <1>1, <1>2, <2>2, <3>2, OthersTrack
  <2> QED
    BY <1>4, <2>3, <2>4, <2>5 DEF Runs
<1> QED
  BY <1>3, <1>4

LEMMA EndsPurchase ==
    ASSUME IInv, QueueInv, PurchaseInv, NEW w \in Worker, Acknowledge(w) \/ RequestFails(w)
    PROVE  PurchaseInv'
<1> DEFINE e == wk[w].ev
<1>1. /\ UNCHANGED <<session, sub, overlap, latest, row>>
      /\ \A v \in Worker : wk'[v].pc = "idle"
  BY DEF Acknowledge, RequestFails, Idle, stripeVars, IInv, TypeOK, RequestTypeOK, QueueInv, Busy
<1> SUFFICES ASSUME ~overlap
             PROVE  (Chronology /\ NewestTells /\ RowTracks /\ \A v \in Worker : RequestTracks(wk[v]))'
  BY <1>1 DEF PurchaseInv
<1>0. Chronology /\ NewestTells /\ RowTracks /\ RequestTracks(wk[w])
  BY DEF PurchaseInv
<1>2. (\A v \in Worker : RequestTracks(wk[v]))'
  BY <1>1 DEF RequestTracks, Syncing
<1>3. CASE RequestFails(w)
  <2>1. UNCHANGED events
    BY <1>3 DEF RequestFails, eventVars
  <2> QED
    BY <1>0, <1>1, <1>2, <2>1 DEF Chronology, NewestTells, RowTracks, Right, Live, Completion, Tells
<1>4. CASE Acknowledge(w)
  <2>1. events' = events \ {e} /\ Tells' = Tells \ {e} /\ wk[w].pc = "ack"
    BY <1>4 DEF Acknowledge, Tells
  <2>2. /\ \A f \in events : f.n \in Nat /\ e.n <= f.n
        /\ e \in events /\ e \in Event /\ Tells \subseteq events
    BY <2>1, EventFacts DEF QueueInv, Busy, Oldest, Tells
  <2>3. Chronology'
    <3>1. \A f, c \in events : c.n > f.n => c \in events'
      BY <2>1, <2>2
    <3>2. ASSUME NEW t, NEW f \in Tells, \E c \in events : Completion(c, t) /\ c.n > f.n
          PROVE  \E c \in events' : Completion(c, t)' /\ c.n > f.n
      BY <2>2, <3>1, <3>2 DEF Completion
    <3>3. (\A f \in Tells : f.s # latest => \E c \in events : Completion(c, latest) /\ c.n > f.n)'
      BY <1>0, <1>1, <2>1, <3>2 DEF Chronology
    <3>4. (\A f, g \in Tells : f.n < g.n /\ f.s # g.s =>
              \E c \in events : Completion(c, g.s) /\ c.n > f.n)'
      BY <1>0, <2>1, <3>2 DEF Chronology
    <3> QED
      BY <1>0, <1>1, <2>1, <3>3, <3>4 DEF Chronology, Live
  <2>4. NewestTells'
    <3> SUFFICES ASSUME NEW f \in Tells', \A g \in Tells' : g.n <= f.n
                 PROVE  \A g \in Tells : g.n <= f.n
      BY <1>0, <1>1, <2>1 DEF NewestTells
    <3> QED
      BY <2>1, <2>2
  <2>5. RowTracks'
    <3>1. latest # None /\ Tells' = {} => Right'
      <4>1. Tells' = {} => Tells = {} \/ Tells = {e}
        BY <2>1
      <4> QED
        BY <1>0, <1>1, <2>1, <4>1 DEF RequestTracks, RowTracks, Right
    <3>2. ASSUME latest # None, session[latest].mode = "subscription", sub[latest] # "canceled",
                 row.subId # latest
          PROVE  \E c \in events' : Completion(c, latest)'
      <4>1. PICK c \in events : Completion(c, latest)
        BY <1>0, <3>2 DEF RowTracks
      <4>2. c # e
        BY <1>0, <2>1, <3>2, <4>1 DEF RequestTracks, Completion
      <4> QED
        BY <1>1, <2>1, <4>1, <4>2 DEF Completion
    <3>3. latest # None /\ session[latest].mode = "payment" /\ row.last = latest =>
             Right' /\ \A f \in Tells' : f.s = latest
      BY <1>0, <1>1, <2>1 DEF RowTracks, Right
    <3> QED
      BY <1>0, <1>1, <3>1, <3>2, <3>3 DEF RowTracks
  <2> QED
    BY <1>2, <2>3, <2>4, <2>5
<1> QED
  BY <1>3, <1>4

LEMMA AdminKeepsPurchase ==
    ASSUME PurchaseInv, UNCHANGED <<stripeVars, eventVars, row, wk>>
    PROVE  PurchaseInv'
BY DEF PurchaseInv, Chronology, NewestTells, RowTracks, RequestTracks, Right, Live, Completion,
       Tells, stripeVars, eventVars, Syncing

LEMMA AdminOnlyAccess ==
    ASSUME AdminNext
    PROVE  UNCHANGED <<stripeVars, eventVars, row, wk>>
BY DEF AdminNext, BeginSuspend, FinishSuspend, BeginReinstate, FinishReinstate, AdminFails

LEMMA PurchaseKept ==
    ASSUME Ordered
    PROVE  IInv /\ QueueInv /\ PurchaseInv /\ [Next]_vars => PurchaseInv'
<1> SUFFICES ASSUME IInv, QueueInv, PurchaseInv, [Next]_vars
             PROVE  PurchaseInv'
  OBVIOUS
<1>1. QueueInv'
  BY QueueKept
<1>2. ASSUME NEW s \in Session, StripeStep(s)
      PROVE  PurchaseInv'
  <2>1. Numbered /\ UNCHANGED <<row, wk>>
    BY <1>2, StripeEmits
  <2> QED
    BY <1>1, <1>2, <2>1, UnboughtKeeps, PurchasedKeeps, ReportedKeeps, CheckoutPurchases,
       ChangesAreReported DEF StripeStep
<1>3. CASE AdminNext \/ UNCHANGED vars
  BY <1>3, AdminOnlyAccess, AdminKeepsPurchase DEF vars
<1>4. CASE \E w \in Worker : \/ \E e \in events : Deliver(w, e)
                             \/ Runs(w) \/ Acknowledge(w) \/ RequestFails(w)
  BY <1>4, DeliverPurchase, RunsPurchase, EndsPurchase
<1> QED
  BY <1>2, <1>3, <1>4 DEF Next, StripeNext, StripeStep, Handle, Runs, AccessStep

LEMMA InitPurchase == Init => PurchaseInv
BY DEF Init, PurchaseInv, Chronology, NewestTells, RowTracks, RequestTracks, Live, NoSession, Idle,
       Tells, Syncing

LEMMA PurchaseAlways == ASSUME Ordered PROVE Spec => [](QueueInv /\ PurchaseInv)
<1>1. Spec => [](IInv /\ QueueInv)
  BY QueueAlways
<1>2. IInv /\ QueueInv /\ PurchaseInv /\ [Next]_vars => PurchaseInv'
  BY PurchaseKept
<1> QED
  BY <1>1, <1>2, InitPurchase, PTL DEF Spec

\* When events arrive in order and purchases do not overlap, whatever handlers
\* throw and are retried, and whatever the Super Admin does: once every event
\* has been handled, the company's row says what Stripe says of the last
\* purchase, and nothing when nothing was paid for: onCheckoutSessionCompletedPayment
\* leaves a Checkout finished without payment alone.
THEOREM RowFollows == ASSUME Ordered PROVE Spec => []RowFollowsStripe
<1>1. PurchaseInv => RowFollowsStripe
  BY DEF PurchaseInv, RowTracks, Right, RowFollowsStripe, Quiet, Tells
<1> QED
  BY <1>1, PurchaseAlways, PTL

-------------------------------------------------------------------------------
(* The implementation fee.                                                 *)

\* The fee is paid for at the checkout, when the session carries it ...
LEMMA PurchaseBills ==
    ASSUME IInv, NEW s \in Session, CompleteCheckout(s)
    PROVE  /\ \A t \in Session \ {s} : billed'[t] = billed[t]
           /\ billed'[s] > 0 => session[s].fee = "now"
<1>0. session[s].stage = "open" /\ billed \in [Session -> Nat] /\ items \in [Session -> Nat]
  BY DEF CompleteCheckout, IInv, TypeOK, StripeTypeOK
<1>1. billed[s] = 0 /\ billed \in [Session -> Nat]
  BY <1>0 DEF IInv, FeeInv
<1> QED
  BY <1>1 DEF CompleteCheckout

\* ... or by an invoice that bills the deferred item.
LEMMA InvoiceBills ==
    ASSUME IInv, QueueInv, NEW s \in Session,
           PayInvoice(s) \/ FailInvoice(s) \/ EndSubscription(s) \/ ToggleCancelAtPeriodEnd(s)
    PROVE  \A t \in Session : billed'[t] > 0 =>
              billed[t] > 0 \/ \E e \in events' \ events : Bills(e) /\ e.s = t
<1>0. /\ emitted \in Nat /\ billed \in [Session -> Nat] /\ items \in [Session -> Nat]
      /\ \A e \in events : e.n \in Nat /\ e.n <= emitted
  BY DEF IInv, TypeOK, EventTypeOK, Event, StripeTypeOK, QueueInv
<1>1. CASE PayInvoice(s)
  <2>1. PICK e, f : /\ e.n = emitted + 1 /\ e.type = "paid" /\ e.s = s /\ e.lines = items[s]
                    /\ Emit({e, f}, 2)
    BY <1>1 DEF PayInvoice, Ev
  <2>2. e \in events' /\ e \notin events
    BY <1>0, <2>1 DEF Emit
  <2>3. billed' = [billed EXCEPT ![s] = @ + items[s]]
    BY <1>1 DEF PayInvoice
  <2> SUFFICES ASSUME NEW t \in Session, billed'[t] > 0, ~(billed[t] > 0)
               PROVE  t = s /\ items[s] > 0
    BY <2>1, <2>2 DEF Bills
  <2> QED
    BY <1>0, <2>3
<1>2. CASE FailInvoice(s) \/ EndSubscription(s) \/ ToggleCancelAtPeriodEnd(s)
  BY <1>2 DEF FailInvoice, EndSubscription, ToggleCancelAtPeriodEnd, stripeVars
<1> QED
  BY <1>1, <1>2

LEMMA RequestFeeStays ==
    ASSUME IInv, QueueInv, PaidInv, ~overlap, UNCHANGED <<row, wk>>,
           \A t \in Session : session[t].stage # "none" => session'[t].fee = session[t].fee
    PROVE  (\A w \in Worker : RequestFee(wk[w]))'
<1> SUFFICES ASSUME NEW w \in Worker
             PROVE  RequestFee(wk[w])'
  OBVIOUS
<1>1. RequestFee(wk[w]) /\ (Busy(w) => wk[w].ev \in events)
  BY EventFacts DEF PaidInv
<1>2. Busy(w) => session'[wk[w].ev.s].fee = session[wk[w].ev.s].fee
  BY <1>1, EventFacts
<1> QED
  BY <1>1, <1>2 DEF RequestFee, Busy, Bills

LEMMA StripePaid ==
    ASSUME IInv, QueueInv, PurchaseInv, PaidInv, NEW s \in Session, StripeStep(s)
    PROVE  PaidInv'
<1>1. Numbered /\ UNCHANGED <<row, wk>>
  BY StripeEmits
<1>2. /\ events \subseteq events'
      /\ \A e \in events : e.n \in Nat /\ e.n <= emitted /\ e.s \in Session
                           /\ session[e.s].stage \in {"unpaid", "late", "complete"}
      /\ \A e \in events' \ events : e.n \in Nat /\ emitted < e.n
      /\ emitted \in Nat
  BY <1>1, EventFacts DEF Numbered
<1>3. CASE \/ \E mode \in Mode, trial \in BOOLEAN : CreateCheckout(s, mode, trial)
           \/ CompleteUnpaid(s) \/ PaymentArrives(s)
  <2>1. /\ UNCHANGED <<billed, overlap>> /\ session[s].stage # "complete"
        /\ session[s].stage # "none" => session'[s].fee = session[s].fee
        /\ \A t \in Session \ {s} : session'[t] = session[t]
    BY <1>3 DEF CreateCheckout, CompleteUnpaid, PaymentArrives, eventVars, IInv, TypeOK, StripeTypeOK
  <2>4. \A e \in events' \ events : e.type = "unpaid"
    <3>1. Ev(1, "unpaid", s, "active", 0).type = "unpaid"
      BY DEF Ev
    <3> QED
      BY <1>3, <3>1 DEF CreateCheckout, CompleteUnpaid, PaymentArrives, Emit, eventVars
  <2>2. ~(billed[s] > 0)
    BY <2>1 DEF IInv, FeeInv, TypeOK, StripeTypeOK
  <2> SUFFICES ASSUME ~overlap
               PROVE  FeeComes' /\ (\A w \in Worker : RequestFee(wk[w]))'
    BY <2>1 DEF PaidInv
  <2>3. FeeComes'
    BY <1>1, <1>2, <2>1, <2>2, <2>4 DEF FeeComes, PaidInv, Bills, Completion
  <2> QED
    BY <1>1, <2>1, <2>3, RequestFeeStays
<1>4. CASE CompleteCheckout(s)
  <2>1. Purchased(s) /\ (~overlap' => ~overlap)
    BY <1>4, CheckoutPurchases DEF Purchased
  <2> SUFFICES ASSUME ~overlap, ~overlap'
               PROVE  FeeComes' /\ (\A w \in Worker : RequestFee(wk[w]))'
    BY <2>1 DEF PaidInv
  <2>2. /\ session[s].stage = "open" /\ session'[s].fee = session[s].fee
        /\ \A t \in Session \ {s} : session'[t] = session[t]
        /\ \A e \in events' \ events : e.s = s /\ ~Bills(e)
        /\ \E c \in events' : Completion(c, s)'
    BY <2>1 DEF Purchased, Completion
  <2>3. (\A e \in events : Bills(e) =>
            /\ row.subId = e.s \/ \E c \in events : Completion(c, e.s)
            /\ \A c \in events : Completion(c, e.s) => c.n < e.n)'
    <3> SUFFICES ASSUME NEW e \in events', Bills(e)
                 PROVE  /\ row'.subId = e.s \/ \E c \in events' : Completion(c, e.s)'
                        /\ \A c \in events' : Completion(c, e.s)' => c.n < e.n
      BY DEF Bills
    <3>1. e \in events /\ e.s # s
      BY <1>2, <2>2
    <3> QED
      BY <1>1, <1>2, <2>2, <3>1 DEF PaidInv, FeeComes, Completion
  <2>4. (\A t \in Session : billed[t] > 0 =>
            \/ row.fee
            \/ session[t].fee = "now" /\ \E c \in events : Completion(c, t)
            \/ \E e \in events : Bills(e) /\ e.s = t)'
    BY <1>1, <1>2, <1>4, <2>2, PurchaseBills DEF PaidInv, FeeComes, Completion, Bills
  <2>5. FeeComes'
    BY <2>3, <2>4 DEF FeeComes
  <2> QED
    BY <1>1, <2>2, <2>5, RequestFeeStays
<1>5. CASE PayInvoice(s) \/ FailInvoice(s) \/ EndSubscription(s) \/ ToggleCancelAtPeriodEnd(s)
  <2>1. Reported(s)
    BY <1>5, ChangesAreReported
  <2>2. UNCHANGED <<session, overlap, latest>> /\ Live(s) /\ session[s].mode = "subscription"
        /\ \A e \in events' \ events : e.s = s /\ e.type # "completed"
    BY <2>1 DEF Reported
  <2> SUFFICES ASSUME ~overlap
               PROVE  FeeComes' /\ (\A w \in Worker : RequestFee(wk[w]))'
    BY <2>2 DEF PaidInv
  <2>3. s = latest /\ (row.subId = s \/ \E c \in events : Completion(c, s))
    BY <2>2, BillingAssumption DEF PurchaseInv, Chronology, RowTracks, Live
  <2>4. (\A e \in events : Bills(e) =>
            /\ row.subId = e.s \/ \E c \in events : Completion(c, e.s)
            /\ \A c \in events : Completion(c, e.s) => c.n < e.n)'
    <3> SUFFICES ASSUME NEW e \in events', Bills(e)
                 PROVE  /\ row'.subId = e.s \/ \E c \in events' : Completion(c, e.s)'
                        /\ \A c \in events' : Completion(c, e.s)' => c.n < e.n
      BY DEF Bills
    <3>1. \A c : Completion(c, e.s)' <=> Completion(c, e.s)
      BY <1>2, <2>2 DEF Completion
    <3>2. CASE e \in events
      BY <1>1, <1>2, <2>2, <3>2 DEF PaidInv, FeeComes, Completion
    <3>3. CASE e \notin events
      BY <1>1, <1>2, <2>2, <2>3, <3>1, <3>3 DEF Completion
    <3> QED
      BY <3>2, <3>3
  <2>5. (\A t \in Session : billed[t] > 0 =>
            \/ row.fee
            \/ session[t].fee = "now" /\ \E c \in events : Completion(c, t)
            \/ \E e \in events : Bills(e) /\ e.s = t)'
    BY <1>1, <1>2, <1>5, <2>2, InvoiceBills DEF PaidInv, FeeComes, Completion, Bills
  <2>6. FeeComes'
    BY <2>4, <2>5 DEF FeeComes
  <2> QED
    BY <1>1, <2>2, <2>6, RequestFeeStays
<1> QED
  BY <1>3, <1>4, <1>5 DEF StripeStep

\* A session that carries the fee at once is a subscription's.
LEMMA NowSubscribes ==
    ASSUME IInv, NEW s \in Session, session[s].fee = "now"
    PROVE  session[s].mode = "subscription"
BY DEF IInv, FeeInv

LEMMA OthersFee ==
    ASSUME NEW w \in Worker, \A v \in Worker \ {w} : wk'[v].pc = "idle", RequestFee(wk[w])'
    PROVE  (\A v \in Worker : RequestFee(wk[v]))'
<1> SUFFICES ASSUME NEW v \in Worker
             PROVE  RequestFee(wk[v])'
  OBVIOUS
<1> QED
  BY DEF RequestFee

\* The oldest event finds the row naming the subscription it bills the fee of:
\* what could still come before it, the completion, is handled already.
LEMMA DeliverPaid ==
    ASSUME Ordered, IInv, QueueInv, PaidInv, NEW w \in Worker, NEW e \in events, Deliver(w, e)
    PROVE  PaidInv'
<1>1. /\ UNCHANGED <<session, billed, overlap, events>>
      /\ \A v \in Worker \ {w} : wk'[v].pc = "idle"
      /\ wk'[w].pc = FirstStep(e) /\ wk'[w].ev = e
      /\ row'.subId = row.subId /\ row'.fee = (row.fee \/ MarksFee(e))
      /\ \A f \in events : e.n <= f.n
  BY DEF Deliver, stripeVars, eventVars, IInv, TypeOK, RequestTypeOK, RowTypeOK
<1>2. /\ e.s \in Session /\ session[e.s].mode \in Mode
      /\ \A f \in events : f.n \in Nat
  BY EventFacts
<1> SUFFICES ASSUME ~overlap
             PROVE  FeeComes' /\ (\A v \in Worker : RequestFee(wk[v]))'
  BY <1>1 DEF PaidInv
<1>3. FeeComes'
  <2>1. row.fee => row'.fee
    BY <1>1
  <2> QED
    BY <1>1, <2>1 DEF PaidInv, FeeComes, Completion, Bills
<1>4. Bills(e) => MarksFee(e)
  BY <1>1, <1>2 DEF PaidInv, FeeComes, Bills, MarksFee
<1>5. e.type = "completed" /\ session[e.s].fee = "now" => FirstStep(e) = "retrieve"
  BY <1>2, NowSubscribes DEF FirstStep
<1>6. RequestFee(wk[w])'
  BY <1>1, <1>4, <1>5 DEF RequestFee, Bills
<1> QED
  BY <1>1, <1>3, <1>6, OthersFee

LEMMA WritePaid ==
    ASSUME IInv, QueueInv, PurchaseInv, PaidInv, ~overlap, NEW w \in Worker, WriteRow(w)
    PROVE  FeeComes' /\ RequestFee(wk[w])'
<1>1. PICK e \in events : e = wk[w].ev /\ Oldest(e) /\ e.type # "unpaid"
  BY EventFacts, RunsForPurchases DEF QueueInv, Busy, WriteRow, Runs
<1>2. /\ e.s \in Session /\ session[e.s].mode \in Mode
      /\ \A f \in events : /\ f.n \in Nat /\ e.n <= f.n
                           /\ f.type \notin {"completed", "unpaid"} => session[f.s].mode = "subscription"
  BY <1>1, EventFacts DEF Oldest
<1>3. /\ UNCHANGED <<session, billed, events>>
      /\ row' = RowAfter(e, wk[w].status) /\ wk'[w].ev = e
  BY <1>1 DEF WriteRow, stripeVars, eventVars, Goto, IInv, TypeOK, RequestTypeOK
<1>4. row.fee => row'.fee
  BY <1>3 DEF RowAfter, CheckoutWrite, PaymentWrite, DeleteWrite, UpdateWrite, IInv, TypeOK, RowTypeOK
<1>5. ASSUME NEW f \in events, Bills(f)
      PROVE  row'.subId = f.s \/ \E c \in events : Completion(c, f.s)
  <2>1. CASE e.s = f.s
    <3>1. session[e.s].mode = "subscription"
      BY <1>2, <1>5, <2>1 DEF Bills
    <3>2. e.type # "deleted"
      <4>1. e.type = "deleted" => f.n <= e.n
        BY <1>5, <2>1 DEF PurchaseInv, Chronology, Tells, Bills
      <4>2. f.n <= e.n => e = f
        BY <1>2 DEF QueueInv
      <4> QED
        BY <1>5, <4>1, <4>2 DEF Bills
    <3> QED
      BY <1>3, <2>1, <3>1, <3>2 DEF RowAfter, CheckoutWrite, UpdateWrite, IInv, TypeOK, RowTypeOK
  <2>2. CASE e.s # f.s
    <3>1. e.n < f.n
      BY <1>2, <2>2 DEF QueueInv
    <3> QED
      BY <1>1, <1>5, <2>2, <3>1 DEF PurchaseInv, Chronology, Tells, Bills
  <2> QED
    BY <2>1, <2>2
<1>6. FeeComes'
  BY <1>3, <1>4, <1>5 DEF PaidInv, FeeComes, Completion, Bills
<1>7. e.type = "completed" /\ session[e.s].fee = "now" => row'.fee
  BY <1>2, <1>3, NowSubscribes DEF RowAfter, CheckoutWrite, IInv, TypeOK, RowTypeOK
<1>8. Bills(e) => row.fee
  BY <1>1 DEF PaidInv, RequestFee, WriteRow
<1> QED
  BY <1>3, <1>4, <1>6, <1>7, <1>8 DEF RequestFee, Bills

LEMMA RunsPaid ==
    ASSUME IInv, QueueInv, PurchaseInv, PaidInv, NEW w \in Worker, Runs(w)
    PROVE  PaidInv'
<1>1. /\ UNCHANGED <<events, session, billed, overlap>>
      /\ wk'[w].ev = wk[w].ev /\ wk[w].pc # "idle"
      /\ \A v \in Worker \ {w} : wk'[v].pc = "idle"
  BY RunsKeeps DEF QueueInv, Busy
<1> SUFFICES ASSUME ~overlap
             PROVE  FeeComes' /\ (\A v \in Worker : RequestFee(wk[v]))'
  BY <1>1 DEF PaidInv
<1>2. CASE WriteRow(w)
  BY <1>1, <1>2, WritePaid, OthersFee
<1>3. CASE ~WriteRow(w)
  <2>1. UNCHANGED row
    BY <1>3 DEF Runs, RetrieveSubscription, AttachDeferredItems, AccessStep, SyncEndUserAccess,
                EnableInDb, EnableInCognito, DisableInCognito, BlockInDb
  <2>2. FeeComes'
    BY <1>1, <2>1 DEF PaidInv, FeeComes, Completion, Bills
  <2>3. wk'[w].pc \in {"attach", "ack"} /\ wk[w].ev.type = "completed" => wk[w].pc = "attach"
    <3>1. CASE RetrieveSubscription(w)
      BY <3>1 DEF RetrieveSubscription, IInv, TypeOK, RequestTypeOK
    <3>2. CASE AttachDeferredItems(w)
      BY <3>2 DEF AttachDeferredItems
    <3>3. CASE AccessStep(w)
      <4>1. wk[w].pc \in Syncing
        BY <3>3 DEF AccessStep, SyncEndUserAccess, EnableInDb, EnableInCognito,
                    DisableInCognito, BlockInDb, Syncing
      <4> QED
        BY <4>1 DEF PurchaseInv, RequestTracks
    <3> QED
      BY <1>3, <3>1, <3>2, <3>3 DEF Runs
  <2>4. RequestFee(wk[w])'
    BY <1>1, <2>1, <2>3 DEF PaidInv, RequestFee, Bills
  <2> QED
    BY <1>1, <2>2, <2>4, OthersFee
<1> QED
  BY <1>2, <1>3

LEMMA EndsPaid ==
    ASSUME IInv, QueueInv, PurchaseInv, PaidInv, NEW w \in Worker, Acknowledge(w) \/ RequestFails(w)
    PROVE  PaidInv'
<1>1. /\ UNCHANGED <<session, billed, overlap, row>>
      /\ \A v \in Worker : wk'[v].pc = "idle"
  BY DEF Acknowledge, RequestFails, Idle, stripeVars, IInv, TypeOK, RequestTypeOK, QueueInv, Busy
<1>2. (\A v \in Worker : RequestFee(wk[v]))'
  BY <1>1 DEF RequestFee
<1> SUFFICES ASSUME ~overlap
             PROVE  FeeComes'
  BY <1>1, <1>2 DEF PaidInv
<1>3. CASE RequestFails(w)
  BY <1>1, <1>3 DEF RequestFails, eventVars, PaidInv, FeeComes, Completion, Bills
<1>4. CASE Acknowledge(w)
  <2>1. PICK e \in events : e = wk[w].ev /\ events' = events \ {e} /\ wk[w].pc = "ack"
    BY <1>4, EventFacts DEF Acknowledge, Busy
  <2>2. \A f \in events : Bills(f) => session[f.s].mode = "subscription"
    BY EventFacts DEF Bills
  <2>3. e.type = "completed" /\ session[e.s].mode = "subscription" => row.subId = e.s
    BY <2>1 DEF PurchaseInv, RequestTracks
  <2>4. Bills(e) \/ (e.type = "completed" /\ session[e.s].fee = "now") => row.fee
    BY <2>1 DEF PaidInv, RequestFee
  <2>5. (\A f \in events : Bills(f) =>
            /\ row.subId = f.s \/ \E c \in events : Completion(c, f.s)
            /\ \A c \in events : Completion(c, f.s) => c.n < f.n)'
    BY <1>1, <2>1, <2>2, <2>3 DEF PaidInv, FeeComes, Completion, Bills
  <2>6. (\A s \in Session : billed[s] > 0 =>
            \/ row.fee
            \/ session[s].fee = "now" /\ \E c \in events : Completion(c, s)
            \/ \E f \in events : Bills(f) /\ f.s = s)'
    BY <1>1, <2>1, <2>4 DEF PaidInv, FeeComes, Completion, Bills
  <2> QED
    BY <2>5, <2>6 DEF FeeComes
<1> QED
  BY <1>3, <1>4

LEMMA PaidKept ==
    ASSUME Ordered
    PROVE  IInv /\ QueueInv /\ PurchaseInv /\ PaidInv /\ [Next]_vars => PaidInv'
<1> SUFFICES ASSUME IInv, QueueInv, PurchaseInv, PaidInv, [Next]_vars
             PROVE  PaidInv'
  OBVIOUS
<1>1. CASE \E s \in Session : StripeStep(s)
  BY <1>1, StripePaid
<1>2. CASE AdminNext \/ UNCHANGED vars
  <2>1. UNCHANGED <<stripeVars, eventVars, row, wk>>
    BY <1>2, AdminOnlyAccess DEF vars
  <2> QED
    BY <2>1 DEF PaidInv, FeeComes, RequestFee, Completion, Bills, stripeVars, eventVars
<1>3. CASE \E w \in Worker : \/ \E e \in events : Deliver(w, e)
                             \/ Runs(w) \/ Acknowledge(w) \/ RequestFails(w)
  BY <1>3, DeliverPaid, RunsPaid, EndsPaid
<1> QED
  BY <1>1, <1>2, <1>3 DEF Next, StripeNext, StripeStep, Handle, Runs, AccessStep

LEMMA InitPaid == Init => PaidInv
BY DEF Init, PaidInv, FeeComes, RequestFee, Idle

\* When events arrive in order and purchases do not overlap: once every event
\* has been handled, the row records the implementation fee exactly when it was
\* paid for, at the checkout or by a later invoice, so that it is not charged again.
THEOREM PaidFeeRecorded == ASSUME Ordered PROVE Spec => []PaidFeeIsRecorded
<1>1. PaidInv /\ FeeMarkIsHonest => PaidFeeIsRecorded
  BY DEF PaidInv, FeeComes, FeeMarkIsHonest, PaidFeeIsRecorded, Quiet
<1>2. IInv /\ QueueInv /\ PurchaseInv /\ PaidInv /\ [Next]_vars => PaidInv'
  BY PaidKept
<1>3. Spec => []IInv
  BY InductiveInvariant
<1>4. IInv => FeeMarkIsHonest
  BY DEF IInv, RowInv
<1> QED
  BY <1>1, <1>2, <1>3, <1>4, PurchaseAlways, InitPaid, PTL DEF Spec

===============================================================================
