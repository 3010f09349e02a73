--------------------------- MODULE PaidInvoiceProofs ---------------------------
(***************************************************************************)
(* What holds of PaidInvoice for any number of sessions, invoices,         *)
(* requests, failures and events sent again.                               *)
(*                                                                         *)
(* While no two requests have been mailing an invoice at once, there is at *)
(* most one that is (Count), and the mails that went out are those nobody  *)
(* knows of and at most one more, which the mark or the request about to   *)
(* set it stands for; a request that has yet to mail has found no such     *)
(* mark.  The mark of an individual's invoice only ever follows a mail,    *)
(* and that of a company's has a request behind it until there is one      *)
(* (Honest).                                                               *)
(***************************************************************************)
EXTENDS PaidInvoice, TLAPS

\* A request has an event that Stripe has made, and marks before or after the
\* mail according to whose invoice it is.
Shape(w) ==
    /\ ~At(w, "idle") => req[w].ev \in emitted
    /\ req[w].pc \in {"resolve", "claim", "revert"} => Of(w) \in Corporate
    /\ At(w, "mark") => Of(w) \in Personal

ShapeInv == \A w \in Request : Shape(w)

Count(i) ==
    /\ \A v, w \in Request : Mailing(v, i) /\ Mailing(w, i) => v = w
    /\ \/ mails[i] <= unrecorded[i]
       \/ /\ mails[i] = unrecorded[i] + 1
          /\ mark[i] \/ \E w \in Request : Of(w) = i /\ At(w, "mark")
    /\ \A w \in Request :
          Of(w) = i /\ req[w].pc \in {"claim", "send", "revert"}
              => mails[i] <= unrecorded[i]
    /\ \A w \in Request :
          i \in Corporate /\ Of(w) = i /\ At(w, "send") => mark[i]

CountInv == \A i \in Invoice \ overlap : Count(i)

\* The mark of i stands for a mail, or has somebody or something to blame.
Backed(i) ==
    \/ mails[i] > 0
    \/ i \in stuck
    \/ \E w \in Request : Of(w) = i /\ req[w].pc \in {"send", "revert"}

Honest(i) ==
    /\ mark[i] => Backed(i)
    /\ mark[i] /\ i \in Personal => mails[i] > 0
    /\ \A w \in Request : Of(w) = i /\ At(w, "mark") => mails[i] > 0

HonestInv == \A i \in Invoice : Honest(i)

IInv == TypeOK /\ ShapeInv /\ CountInv /\ HonestInv

-------------------------------------------------------------------------------
LEMMA EventInvoice == \A e \in Event : e.inv \in Invoice
BY DEF Event

LEMMA IdleTyped == Idle \in [pc : Pc, ev : Event \cup {NoEvent}] /\ Idle.pc = "idle"
BY DEF Idle, Pc

LEMMA InitOK == Init => IInv
<1> SUFFICES ASSUME Init
             PROVE  IInv
  OBVIOUS
<1>1. \A w \in Request : req[w] = Idle /\ req[w].pc = "idle"
  BY IdleTyped DEF Init
<1>2. TypeOK
  BY IdleTyped DEF Init, TypeOK
<1>3. ShapeInv
  BY <1>1 DEF ShapeInv, Shape, At
<1>4. CountInv
  BY <1>1 DEF Init, CountInv, Count, Mailing, At
<1>5. HonestInv
  BY <1>1 DEF Init, HonestInv, Honest, Backed, At
<1> QED
  BY <1>2, <1>3, <1>4, <1>5 DEF IInv

\* Whatever leaves the requests, the marks and the mails alone.
LEMMA OutsideKeeps ==
    ASSUME IInv, TypeOK', emitted \subseteq emitted',
           UNCHANGED <<mark, mails, req, overlap, unrecorded, stuck>>
    PROVE  IInv'
<1>1. ShapeInv'
  BY DEF IInv, ShapeInv, Shape, At, Of
<1>2. CountInv'
  BY DEF IInv, CountInv, Count, Mailing, At, Of
<1>3. HonestInv'
  BY DEF IInv, HonestInv, Honest, Backed, At, Of
<1> QED
  BY <1>1, <1>2, <1>3 DEF IInv

LEMMA StripeKeeps ==
    ASSUME IInv,
           \/ Waive
           \/ \E i \in Invoice : OpenSession(i) \/ CompleteSession(i) \/ PayInvoice(i)
                              \/ NameSubscription(i) \/ ForgetCompany(i)
           \/ \E e \in answered : Resend(e)
    PROVE  IInv'
<1> USE DEF IInv, TypeOK, stripeVars, historyVars
<1>1. CASE Waive
  <2>1. TypeOK'
    BY <1>1 DEF Waive
  <2> QED
    BY <1>1, <2>1, OutsideKeeps DEF Waive
<1>2. ASSUME NEW i \in Invoice, OpenSession(i)
      PROVE  IInv'
  <2>1. TypeOK'
    BY <1>2 DEF OpenSession
  <2> QED
    BY <1>2, <2>1, OutsideKeeps DEF OpenSession
<1>3. ASSUME NEW i \in Invoice, CompleteSession(i)
      PROVE  IInv'
  <2>1. TypeOK' /\ emitted \subseteq emitted'
    BY <1>3 DEF CompleteSession, Emit, Event
  <2> QED
    BY <1>3, <2>1, OutsideKeeps DEF CompleteSession
<1>4. ASSUME NEW i \in Invoice, PayInvoice(i)
      PROVE  IInv'
  <2>1. TypeOK' /\ emitted \subseteq emitted'
    BY <1>4 DEF PayInvoice, Emit, Event
  <2> QED
    BY <1>4, <2>1, OutsideKeeps DEF PayInvoice
<1>5. ASSUME NEW e \in answered, Resend(e)
      PROVE  IInv'
  <2>1. TypeOK'
    BY <1>5, PaidInvoiceAssumption DEF Resend, Fail
  <2> QED
    BY <1>5, <2>1, OutsideKeeps DEF Resend, Fail
<1>6. ASSUME NEW i \in Invoice, NameSubscription(i)
      PROVE  IInv'
  <2>1. TypeOK'
    BY <1>6, PaidInvoiceAssumption DEF NameSubscription
  <2> QED
    BY <1>6, <2>1, OutsideKeeps DEF NameSubscription
<1>7. ASSUME NEW i \in Invoice, ForgetCompany(i)
      PROVE  IInv'
  <2>1. TypeOK'
    BY <1>7 DEF ForgetCompany
  <2> QED
    BY <1>7, <2>1, OutsideKeeps DEF ForgetCompany
<1> QED
  BY <1>1, <1>2, <1>3, <1>4, <1>5, <1>6, <1>7

-------------------------------------------------------------------------------
(* The steps of a request.                                                 *)

LEMMA DeliverKeeps ==
    ASSUME IInv, NEW w \in Request, NEW e \in emitted \ answered, Deliver(w, e)
    PROVE  IInv'
<1> USE DEF stripeVars, historyVars
<1>t. TypeOK /\ ShapeInv /\ CountInv /\ HonestInv
  BY DEF IInv
<1>n. e \in Event /\ e.inv \in Invoice
  BY <1>t, EventInvoice DEF TypeOK
<1>f. FirstStep(e) \in {"activate", "ack", "resolve", "read"}
  BY <1>n DEF Event, FirstStep
<1>r. /\ \A v \in Request \ {w} : req'[v] = req[v]
      /\ req'[w].pc \in {"activate", "ack", "resolve", "read"} /\ req'[w].ev = e
  BY <1>t, <1>f DEF TypeOK, At, Deliver
<1>c. req'[w].pc = "resolve" => e.inv \in Corporate
  BY <1>t, <1>n DEF TypeOK, At, Event, FirstStep, Deliver
<1>1. TypeOK'
  BY <1>t, <1>n, <1>f DEF TypeOK, Pc, Deliver
<1>2. ShapeInv'
  BY <1>t, <1>n, <1>r, <1>c DEF ShapeInv, Shape, At, Of, Deliver
<1>3. CountInv'
  <2> SUFFICES ASSUME NEW i \in Invoice \ overlap'
               PROVE  Count(i)'
    BY DEF CountInv
  <2>1. Count(i)
    BY <1>t DEF CountInv, Deliver
  <2>2. mails[i] \in Nat /\ unrecorded[i] \in Nat
    BY <1>t, <1>f DEF TypeOK
  <2> QED
    BY <1>t, <1>n, <1>r, <2>1, <2>2
    DEF Count, Mailing, At, Of, TypeOK, Deliver
<1>4. HonestInv'
  <2> SUFFICES ASSUME NEW i \in Invoice
               PROVE  Honest(i)'
    BY DEF HonestInv
  <2>1. Honest(i)
    BY <1>t DEF HonestInv
  <2>2. mails[i] \in Nat
    BY <1>t, <1>f DEF TypeOK
  <2> QED
    BY <1>t, <1>n, <1>r, <2>1, <2>2
    DEF Honest, Backed, At, Of, TypeOK, Deliver
<1> QED
  BY <1>1, <1>2, <1>3, <1>4 DEF IInv

LEMMA ActivateKeeps ==
    ASSUME IInv, NEW w \in Request, Activate(w)
    PROVE  IInv'
<1> USE DEF stripeVars, historyVars
<1>t. TypeOK /\ ShapeInv /\ CountInv /\ HonestInv
  BY DEF IInv
<1>n. req[w].ev \in emitted /\ req[w].ev \in Event /\ Of(w) \in Invoice
  BY <1>t, EventInvoice DEF TypeOK, ShapeInv, Shape, Of, At, Activate
<1>r. /\ \A v \in Request \ {w} : req'[v] = req[v]
      /\ req'[w].pc = "ack" /\ req'[w].ev = req[w].ev
  BY <1>t DEF TypeOK, At, Activate, Goto
<1>1. TypeOK'
  BY <1>t, <1>n DEF TypeOK, Pc, Activate, Goto
<1>2. ShapeInv'
  BY <1>t, <1>n, <1>r DEF ShapeInv, Shape, At, Of, Activate, Goto
<1>3. CountInv'
  <2> SUFFICES ASSUME NEW i \in Invoice \ overlap'
               PROVE  Count(i)'
    BY DEF CountInv
  <2>1. Count(i)
    BY <1>t DEF CountInv, Activate
  <2>2. mails[i] \in Nat /\ unrecorded[i] \in Nat
    BY <1>t DEF TypeOK
  <2> QED
    BY <1>t, <1>n, <1>r, <2>1, <2>2
    DEF Count, Mailing, At, Of, TypeOK, Activate, Goto
<1>4. HonestInv'
  <2> SUFFICES ASSUME NEW i \in Invoice
               PROVE  Honest(i)'
    BY DEF HonestInv
  <2>1. Honest(i)
    BY <1>t DEF HonestInv
  <2>2. mails[i] \in Nat
    BY <1>t DEF TypeOK
  <2> QED
    BY <1>t, <1>n, <1>r, <2>1, <2>2
    DEF Honest, Backed, At, Of, TypeOK, Activate, Goto
<1> QED
  BY <1>1, <1>2, <1>3, <1>4 DEF IInv

LEMMA ResolveKeeps ==
    ASSUME IInv, NEW w \in Request, Resolve(w)
    PROVE  IInv'
<1> USE DEF stripeVars, historyVars
<1>t. TypeOK /\ ShapeInv /\ CountInv /\ HonestInv
  BY DEF IInv
<1>n. req[w].ev \in emitted /\ req[w].ev \in Event /\ Of(w) \in Invoice
  BY <1>t, EventInvoice DEF TypeOK, ShapeInv, Shape, Of, At, Resolve
<1>r. /\ \A v \in Request \ {w} : req'[v] = req[v]
      /\ req'[w].pc \in {"ack", "read"} /\ req'[w].ev = req[w].ev
  BY <1>t DEF TypeOK, At, Resolve, Goto
<1>c. Of(w) \in Corporate
  BY <1>t DEF ShapeInv, Shape, At, Resolve
<1>1. TypeOK'
  BY <1>t, <1>n, <1>c DEF TypeOK, Pc, Resolve, Goto
<1>2. ShapeInv'
  BY <1>t, <1>n, <1>r DEF ShapeInv, Shape, At, Of, Resolve, Goto
<1>3. CountInv'
  <2> SUFFICES ASSUME NEW i \in Invoice \ overlap'
               PROVE  Count(i)'
    BY DEF CountInv
  <2>1. Count(i)
    BY <1>t DEF CountInv, Resolve
  <2>2. mails[i] \in Nat /\ unrecorded[i] \in Nat
    BY <1>t DEF TypeOK
  <2> QED
    BY <1>t, <1>n, <1>r, <2>1, <2>2
    DEF Count, Mailing, At, Of, TypeOK, Resolve, Goto
<1>4. HonestInv'
  <2> SUFFICES ASSUME NEW i \in Invoice
               PROVE  Honest(i)'
    BY DEF HonestInv
  <2>1. Honest(i)
    BY <1>t DEF HonestInv
  <2>2. mails[i] \in Nat
    BY <1>t DEF TypeOK
  <2> QED
    BY <1>t, <1>n, <1>r, <2>1, <2>2
    DEF Honest, Backed, At, Of, TypeOK, Resolve, Goto
<1> QED
  BY <1>1, <1>2, <1>3, <1>4 DEF IInv

LEMMA ReadKeeps ==
    ASSUME IInv, NEW w \in Request, Read(w)
    PROVE  IInv'
<1> USE DEF stripeVars, historyVars
<1>t. TypeOK /\ ShapeInv /\ CountInv /\ HonestInv
  BY DEF IInv
<1>n. req[w].ev \in emitted /\ req[w].ev \in Event /\ Of(w) \in Invoice
  BY <1>t, EventInvoice DEF TypeOK, ShapeInv, Shape, Of, At, Read
<1>r. /\ \A v \in Request \ {w} : req'[v] = req[v]
      /\ req'[w].pc = IF mark[Of(w)] THEN "ack"
                      ELSE IF Of(w) \in Corporate THEN "claim" ELSE "send"
      /\ req'[w].ev = req[w].ev
  BY <1>t DEF TypeOK, At, Of, Read, Goto
<1>1. TypeOK'
  BY <1>t, <1>n DEF TypeOK, Pc, Read, Goto
<1>2. ShapeInv'
  BY <1>t, <1>n, <1>r DEF ShapeInv, Shape, At, Of, Read, Goto
<1>3. CountInv'
  <2> SUFFICES ASSUME NEW i \in Invoice \ overlap'
               PROVE  Count(i)'
    BY DEF CountInv
  <2>1. Count(i)
    BY <1>t DEF CountInv, Read
  <2>2. mails[i] \in Nat /\ unrecorded[i] \in Nat
    BY <1>t DEF TypeOK
  <2> QED
    BY <1>t, <1>n, <1>r, <2>1, <2>2
    DEF Count, Mailing, At, Of, TypeOK, Read, Goto
<1>4. HonestInv'
  <2> SUFFICES ASSUME NEW i \in Invoice
               PROVE  Honest(i)'
    BY DEF HonestInv
  <2>1. Honest(i)
    BY <1>t DEF HonestInv
  <2>2. mails[i] \in Nat
    BY <1>t DEF TypeOK
  <2> QED
    BY <1>t, <1>n, <1>r, <2>1, <2>2
    DEF Honest, Backed, At, Of, TypeOK, Read, Goto
<1> QED
  BY <1>1, <1>2, <1>3, <1>4 DEF IInv

LEMMA ClaimKeeps ==
    ASSUME IInv, NEW w \in Request, Claim(w)
    PROVE  IInv'
<1> USE DEF stripeVars, historyVars
<1>t. TypeOK /\ ShapeInv /\ CountInv /\ HonestInv
  BY DEF IInv
<1>n. req[w].ev \in emitted /\ req[w].ev \in Event /\ Of(w) \in Invoice
  BY <1>t, EventInvoice DEF TypeOK, ShapeInv, Shape, Of, At, Claim
<1>r. /\ \A v \in Request \ {w} : req'[v] = req[v]
      /\ req'[w].pc = "send" /\ req'[w].ev = req[w].ev
  BY <1>t DEF TypeOK, At, Claim, Goto
<1>1. TypeOK'
  BY <1>t, <1>n DEF TypeOK, Pc, Claim, Goto
<1>2. ShapeInv'
  BY <1>t, <1>n, <1>r DEF ShapeInv, Shape, At, Of, Claim, Goto
<1>3. CountInv'
  <2> SUFFICES ASSUME NEW i \in Invoice \ overlap'
               PROVE  Count(i)'
    BY DEF CountInv
  <2>1. Count(i)
    BY <1>t DEF CountInv, Claim
  <2>2. mails[i] \in Nat /\ unrecorded[i] \in Nat
    BY <1>t DEF TypeOK
  <2> QED
    BY <1>t, <1>n, <1>r, <2>1, <2>2
    DEF Count, Mailing, At, Of, TypeOK, Claim, Goto
<1>4. HonestInv'
  <2> SUFFICES ASSUME NEW i \in Invoice
               PROVE  Honest(i)'
    BY DEF HonestInv
  <2>1. Honest(i)
    BY <1>t DEF HonestInv
  <2>2. mails[i] \in Nat
    BY <1>t DEF TypeOK
  <2> QED
    BY <1>t, <1>n, <1>r, <2>1, <2>2, PaidInvoiceAssumption
    DEF Honest, Backed, At, Of, TypeOK, ShapeInv, Shape, Invoice, Claim, Goto
<1> QED
  BY <1>1, <1>2, <1>3, <1>4 DEF IInv

LEMMA SendKeeps ==
    ASSUME IInv, NEW w \in Request, Send(w)
    PROVE  IInv'
<1> USE DEF stripeVars, historyVars
<1>t. TypeOK /\ ShapeInv /\ CountInv /\ HonestInv
  BY DEF IInv
<1>n. req[w].ev \in emitted /\ req[w].ev \in Event /\ Of(w) \in Invoice
  BY <1>t, EventInvoice DEF TypeOK, ShapeInv, Shape, Of, At, Send
<1>r. /\ \A v \in Request \ {w} : req'[v] = req[v]
      /\ req'[w].pc = IF Of(w) \in Corporate THEN "ack" ELSE "mark"
      /\ req'[w].ev = req[w].ev
  BY <1>t DEF TypeOK, At, Of, Send, Goto
<1>1. TypeOK'
  BY <1>t, <1>n DEF TypeOK, Pc, Send, Goto
<1>2. ShapeInv'
  BY <1>t, <1>n, <1>r DEF ShapeInv, Shape, At, Of, Invoice, Send, Goto
<1>3. CountInv'
  <2> SUFFICES ASSUME NEW i \in Invoice \ overlap'
               PROVE  Count(i)'
    BY DEF CountInv
  <2>1. Count(i)
    BY <1>t DEF CountInv, Send
  <2>2. mails[i] \in Nat /\ unrecorded[i] \in Nat
    BY <1>t DEF TypeOK
  <2> QED
    BY <1>t, <1>n, <1>r, <2>1, <2>2
    DEF Count, Mailing, At, Of, TypeOK, Send, Goto
<1>4. HonestInv'
  <2> SUFFICES ASSUME NEW i \in Invoice
               PROVE  Honest(i)'
    BY DEF HonestInv
  <2>1. Honest(i)
    BY <1>t DEF HonestInv
  <2>2. mails[i] \in Nat
    BY <1>t DEF TypeOK
  <2> QED
    BY <1>t, <1>n, <1>r, <2>1, <2>2
    DEF Honest, Backed, At, Of, TypeOK, Send, Goto
<1> QED
  BY <1>1, <1>2, <1>3, <1>4 DEF IInv

LEMMA RevertKeeps ==
    ASSUME IInv, NEW w \in Request, Revert(w)
    PROVE  IInv'
<1> USE DEF stripeVars, historyVars
<1>t. TypeOK /\ ShapeInv /\ CountInv /\ HonestInv
  BY DEF IInv
<1>n. req[w].ev \in emitted /\ req[w].ev \in Event /\ Of(w) \in Invoice
  BY <1>t, EventInvoice DEF TypeOK, ShapeInv, Shape, Of, At, Revert
<1>r. /\ \A v \in Request \ {w} : req'[v] = req[v]
      /\ req'[w].pc = "ack" /\ req'[w].ev = req[w].ev
  BY <1>t DEF TypeOK, At, Revert, Goto
<1>1. TypeOK'
  BY <1>t, <1>n DEF TypeOK, Pc, Revert, Goto
<1>2. ShapeInv'
  BY <1>t, <1>n, <1>r DEF ShapeInv, Shape, At, Of, Revert, Goto
<1>3. CountInv'
  <2> SUFFICES ASSUME NEW i \in Invoice \ overlap'
               PROVE  Count(i)'
    BY DEF CountInv
  <2>1. Count(i)
    BY <1>t DEF CountInv, Revert
  <2>2. mails[i] \in Nat /\ unrecorded[i] \in Nat
    BY <1>t DEF TypeOK
  <2> QED
    BY <1>t, <1>n, <1>r, <2>1, <2>2
    DEF Count, Mailing, At, Of, TypeOK, Revert, Goto
<1>4. HonestInv'
  <2> SUFFICES ASSUME NEW i \in Invoice
               PROVE  Honest(i)'
    BY DEF HonestInv
  <2>1. Honest(i)
    BY <1>t DEF HonestInv
  <2>2. mails[i] \in Nat
    BY <1>t DEF TypeOK
  <2> QED
    BY <1>t, <1>n, <1>r, <2>1, <2>2
    DEF Honest, Backed, At, Of, TypeOK, Revert, Goto
<1> QED
  BY <1>1, <1>2, <1>3, <1>4 DEF IInv

LEMMA MarkKeeps ==
    ASSUME IInv, NEW w \in Request, Mark(w)
    PROVE  IInv'
<1> USE DEF stripeVars, historyVars
<1>t. TypeOK /\ ShapeInv /\ CountInv /\ HonestInv
  BY DEF IInv
<1>n. req[w].ev \in emitted /\ req[w].ev \in Event /\ Of(w) \in Invoice
  BY <1>t, EventInvoice DEF TypeOK, ShapeInv, Shape, Of, At, Mark
<1>r. /\ \A v \in Request \ {w} : req'[v] = req[v]
      /\ req'[w].pc = "ack" /\ req'[w].ev = req[w].ev
  BY <1>t DEF TypeOK, At, Mark, Goto
<1>1. TypeOK'
  BY <1>t, <1>n DEF TypeOK, Pc, Mark, Goto
<1>2. ShapeInv'
  BY <1>t, <1>n, <1>r DEF ShapeInv, Shape, At, Of, Mark, Goto
<1>3. CountInv'
  <2> SUFFICES ASSUME NEW i \in Invoice \ overlap'
               PROVE  Count(i)'
    BY DEF CountInv
  <2>1. Count(i)
    BY <1>t DEF CountInv, Mark
  <2>2. mails[i] \in Nat /\ unrecorded[i] \in Nat
    BY <1>t DEF TypeOK
  <2> QED
    BY <1>t, <1>n, <1>r, <2>1, <2>2
    DEF Count, Mailing, At, Of, TypeOK, Mark, Goto
<1>4. HonestInv'
  <2> SUFFICES ASSUME NEW i \in Invoice
               PROVE  Honest(i)'
    BY DEF HonestInv
  <2>1. Honest(i)
    BY <1>t DEF HonestInv
  <2>2. mails[i] \in Nat
    BY <1>t DEF TypeOK
  <2> QED
    BY <1>t, <1>n, <1>r, <2>1, <2>2
    DEF Honest, Backed, At, Of, TypeOK, Mark, Goto
<1> QED
  BY <1>1, <1>2, <1>3, <1>4 DEF IInv

LEMMA AcknowledgeKeeps ==
    ASSUME IInv, NEW w \in Request, Acknowledge(w)
    PROVE  IInv'
<1> USE DEF stripeVars, historyVars
<1>t. TypeOK /\ ShapeInv /\ CountInv /\ HonestInv
  BY DEF IInv
<1>n. req[w].ev \in emitted /\ req[w].ev \in Event /\ Of(w) \in Invoice
  BY <1>t, EventInvoice DEF TypeOK, ShapeInv, Shape, Of, At, Acknowledge
<1>r. /\ \A v \in Request \ {w} : req'[v] = req[v]
      /\ req'[w] = Idle
  BY IdleTyped, <1>t DEF TypeOK, At, Acknowledge
<1>1. TypeOK'
  BY IdleTyped, <1>t, <1>n DEF TypeOK, Pc, Acknowledge
<1>2. ShapeInv'
  BY IdleTyped, <1>t, <1>n, <1>r DEF ShapeInv, Shape, At, Of, Acknowledge
<1>3. CountInv'
  <2> SUFFICES ASSUME NEW i \in Invoice \ overlap'
               PROVE  Count(i)'
    BY DEF CountInv
  <2>1. Count(i)
    BY <1>t DEF CountInv, Acknowledge
  <2>2. mails[i] \in Nat /\ unrecorded[i] \in Nat
    BY <1>t DEF TypeOK
  <2> QED
    BY IdleTyped, <1>t, <1>n, <1>r, <2>1, <2>2
    DEF Count, Mailing, At, Of, TypeOK, Acknowledge
<1>4. HonestInv'
  <2> SUFFICES ASSUME NEW i \in Invoice
               PROVE  Honest(i)'
    BY DEF HonestInv
  <2>1. Honest(i)
    BY <1>t DEF HonestInv
  <2>2. mails[i] \in Nat
    BY <1>t DEF TypeOK
  <2> QED
    BY IdleTyped, <1>t, <1>n, <1>r, <2>1, <2>2
    DEF Honest, Backed, At, Of, TypeOK, Acknowledge
<1> QED
  BY <1>1, <1>2, <1>3, <1>4 DEF IInv

LEMMA PrepareFailsKeeps ==
    ASSUME IInv, NEW w \in Request, PrepareFails(w)
    PROVE  IInv'
<1> USE DEF stripeVars, historyVars
<1>t. TypeOK /\ ShapeInv /\ CountInv /\ HonestInv
  BY DEF IInv
<1>n. req[w].ev \in emitted /\ req[w].ev \in Event /\ Of(w) \in Invoice
  BY <1>t, EventInvoice DEF TypeOK, ShapeInv, Shape, Of, At, PrepareFails
<1>r. /\ \A v \in Request \ {w} : req'[v] = req[v]
      /\ req'[w].pc = "ack" /\ req'[w].ev = req[w].ev
  BY <1>t DEF TypeOK, At, PrepareFails, Goto, Fail
<1>1. TypeOK'
  BY <1>t, <1>n DEF TypeOK, Pc, PrepareFails, Goto, Fail
<1>2. ShapeInv'
  BY <1>t, <1>n, <1>r DEF ShapeInv, Shape, At, Of, PrepareFails, Goto, Fail
<1>3. CountInv'
  <2> SUFFICES ASSUME NEW i \in Invoice \ overlap'
               PROVE  Count(i)'
    BY DEF CountInv
  <2>1. Count(i)
    BY <1>t DEF CountInv, PrepareFails
  <2>2. mails[i] \in Nat /\ unrecorded[i] \in Nat
    BY <1>t DEF TypeOK
  <2> QED
    BY <1>t, <1>n, <1>r, <2>1, <2>2
    DEF Count, Mailing, At, Of, TypeOK, PrepareFails, Goto, Fail
<1>4. HonestInv'
  <2> SUFFICES ASSUME NEW i \in Invoice
               PROVE  Honest(i)'
    BY DEF HonestInv
  <2>1. Honest(i)
    BY <1>t DEF HonestInv
  <2>2. mails[i] \in Nat
    BY <1>t DEF TypeOK
  <2> QED
    BY <1>t, <1>n, <1>r, <2>1, <2>2
    DEF Honest, Backed, At, Of, TypeOK, PrepareFails, Goto, Fail
<1> QED
  BY <1>1, <1>2, <1>3, <1>4 DEF IInv

LEMMA AddressFailsKeeps ==
    ASSUME IInv, NEW w \in Request, AddressFails(w)
    PROVE  IInv'
<1> USE DEF stripeVars, historyVars
<1>t. TypeOK /\ ShapeInv /\ CountInv /\ HonestInv
  BY DEF IInv
<1>n. req[w].ev \in emitted /\ req[w].ev \in Event /\ Of(w) \in Invoice
  BY <1>t, EventInvoice DEF TypeOK, ShapeInv, Shape, Of, At, AddressFails
<1>r. /\ \A v \in Request \ {w} : req'[v] = req[v]
      /\ req'[w].pc = "ack" /\ req'[w].ev = req[w].ev
  BY <1>t DEF TypeOK, At, AddressFails, Goto, Fail
<1>1. TypeOK'
  BY <1>t, <1>n DEF TypeOK, Pc, AddressFails, Goto, Fail
<1>2. ShapeInv'
  BY <1>t, <1>n, <1>r DEF ShapeInv, Shape, At, Of, AddressFails, Goto, Fail
<1>3. CountInv'
  <2> SUFFICES ASSUME NEW i \in Invoice \ overlap'
               PROVE  Count(i)'
    BY DEF CountInv
  <2>1. Count(i)
    BY <1>t DEF CountInv, AddressFails
  <2>2. mails[i] \in Nat /\ unrecorded[i] \in Nat
    BY <1>t DEF TypeOK
  <2> QED
    BY <1>t, <1>n, <1>r, <2>1, <2>2
    DEF Count, Mailing, At, Of, TypeOK, AddressFails, Goto, Fail
<1>4. HonestInv'
  <2> SUFFICES ASSUME NEW i \in Invoice
               PROVE  Honest(i)'
    BY DEF HonestInv
  <2>1. Honest(i)
    BY <1>t DEF HonestInv
  <2>2. mails[i] \in Nat
    BY <1>t DEF TypeOK
  <2> QED
    BY <1>t, <1>n, <1>r, <2>1, <2>2
    DEF Honest, Backed, At, Of, TypeOK, ShapeInv, Shape, Invoice, AddressFails, Goto, Fail
<1> QED
  BY <1>1, <1>2, <1>3, <1>4 DEF IInv

LEMMA SendFailsKeeps ==
    ASSUME IInv, NEW w \in Request, SendFails(w)
    PROVE  IInv'
<1> USE DEF stripeVars, historyVars
<1>t. TypeOK /\ ShapeInv /\ CountInv /\ HonestInv
  BY DEF IInv
<1>n. req[w].ev \in emitted /\ req[w].ev \in Event /\ Of(w) \in Invoice
  BY <1>t, EventInvoice DEF TypeOK, ShapeInv, Shape, Of, At, SendFails
<1>r. /\ \A v \in Request \ {w} : req'[v] = req[v]
      /\ req'[w].pc = IF Of(w) \in Corporate THEN "revert" ELSE "ack"
      /\ req'[w].ev = req[w].ev
  BY <1>t DEF TypeOK, At, Of, SendFails, Goto, Fail
<1>1. TypeOK'
  BY <1>t, <1>n DEF TypeOK, Pc, SendFails, Goto, Fail
<1>2. ShapeInv'
  BY <1>t, <1>n, <1>r DEF ShapeInv, Shape, At, Of, SendFails, Goto, Fail
<1>3. CountInv'
  <2> SUFFICES ASSUME NEW i \in Invoice \ overlap'
               PROVE  Count(i)'
    BY DEF CountInv
  <2>1. Count(i)
    BY <1>t DEF CountInv, SendFails
  <2>2. mails[i] \in Nat /\ unrecorded[i] \in Nat
    BY <1>t DEF TypeOK
  <2> QED
    BY <1>t, <1>n, <1>r, <2>1, <2>2
    DEF Count, Mailing, At, Of, TypeOK, SendFails, Goto, Fail
<1>4. HonestInv'
  <2> SUFFICES ASSUME NEW i \in Invoice
               PROVE  Honest(i)'
    BY DEF HonestInv
  <2>1. Honest(i)
    BY <1>t DEF HonestInv
  <2>2. mails[i] \in Nat
    BY <1>t DEF TypeOK
  <2> QED
    BY <1>t, <1>n, <1>r, <2>1, <2>2
    DEF Honest, Backed, At, Of, TypeOK, ShapeInv, Shape, Invoice, SendFails, Goto, Fail
<1> QED
  BY <1>1, <1>2, <1>3, <1>4 DEF IInv

LEMMA RevertFailsKeeps ==
    ASSUME IInv, NEW w \in Request, RevertFails(w)
    PROVE  IInv'
<1> USE DEF stripeVars, historyVars
<1>t. TypeOK /\ ShapeInv /\ CountInv /\ HonestInv
  BY DEF IInv
<1>n. req[w].ev \in emitted /\ req[w].ev \in Event /\ Of(w) \in Invoice
  BY <1>t, EventInvoice DEF TypeOK, ShapeInv, Shape, Of, At, RevertFails
<1>r. /\ \A v \in Request \ {w} : req'[v] = req[v]
      /\ req'[w].pc = "ack" /\ req'[w].ev = req[w].ev
  BY <1>t DEF TypeOK, At, RevertFails, Goto, Fail
<1>1. TypeOK'
  BY <1>t, <1>n DEF TypeOK, Pc, RevertFails, Goto, Fail
<1>2. ShapeInv'
  BY <1>t, <1>n, <1>r DEF ShapeInv, Shape, At, Of, RevertFails, Goto, Fail
<1>3. CountInv'
  <2> SUFFICES ASSUME NEW i \in Invoice \ overlap'
               PROVE  Count(i)'
    BY DEF CountInv
  <2>1. Count(i)
    BY <1>t DEF CountInv, RevertFails
  <2>2. mails[i] \in Nat /\ unrecorded[i] \in Nat
    BY <1>t DEF TypeOK
  <2> QED
    BY <1>t, <1>n, <1>r, <2>1, <2>2
    DEF Count, Mailing, At, Of, TypeOK, RevertFails, Goto, Fail
<1>4. HonestInv'
  <2> SUFFICES ASSUME NEW i \in Invoice
               PROVE  Honest(i)'
    BY DEF HonestInv
  <2>1. Honest(i)
    BY <1>t DEF HonestInv
  <2>2. mails[i] \in Nat
    BY <1>t DEF TypeOK
  <2> QED
    BY <1>t, <1>n, <1>r, <2>1, <2>2
    DEF Honest, Backed, At, Of, TypeOK, RevertFails, Goto, Fail
<1> QED
  BY <1>1, <1>2, <1>3, <1>4 DEF IInv

LEMMA MarkFailsKeeps ==
    ASSUME IInv, NEW w \in Request, MarkFails(w)
    PROVE  IInv'
<1> USE DEF stripeVars, historyVars
<1>t. TypeOK /\ ShapeInv /\ CountInv /\ HonestInv
  BY DEF IInv
<1>n. req[w].ev \in emitted /\ req[w].ev \in Event /\ Of(w) \in Invoice
  BY <1>t, EventInvoice DEF TypeOK, ShapeInv, Shape, Of, At, MarkFails
<1>r. /\ \A v \in Request \ {w} : req'[v] = req[v]
      /\ req'[w].pc = "ack" /\ req'[w].ev = req[w].ev
  BY <1>t DEF TypeOK, At, MarkFails, Goto, Fail
<1>1. TypeOK'
  BY <1>t, <1>n DEF TypeOK, Pc, MarkFails, Goto, Fail
<1>2. ShapeInv'
  BY <1>t, <1>n, <1>r DEF ShapeInv, Shape, At, Of, MarkFails, Goto, Fail
<1>3. CountInv'
  <2> SUFFICES ASSUME NEW i \in Invoice \ overlap'
               PROVE  Count(i)'
    BY DEF CountInv
  <2>1. Count(i)
    BY <1>t DEF CountInv, MarkFails
  <2>2. mails[i] \in Nat /\ unrecorded[i] \in Nat
    BY <1>t DEF TypeOK
  <2> QED
    BY <1>t, <1>n, <1>r, <2>1, <2>2
    DEF Count, Mailing, At, Of, TypeOK, MarkFails, Goto, Fail
<1>4. HonestInv'
  <2> SUFFICES ASSUME NEW i \in Invoice
               PROVE  Honest(i)'
    BY DEF HonestInv
  <2>1. Honest(i)
    BY <1>t DEF HonestInv
  <2>2. mails[i] \in Nat
    BY <1>t DEF TypeOK
  <2> QED
    BY <1>t, <1>n, <1>r, <2>1, <2>2
    DEF Honest, Backed, At, Of, TypeOK, MarkFails, Goto, Fail
<1> QED
  BY <1>1, <1>2, <1>3, <1>4 DEF IInv

LEMMA DieKeeps ==
    ASSUME IInv, NEW w \in Request, Die(w)
    PROVE  IInv'
<1> USE DEF stripeVars, historyVars
<1>t. TypeOK /\ ShapeInv /\ CountInv /\ HonestInv
  BY DEF IInv
<1>n. req[w].ev \in emitted /\ req[w].ev \in Event /\ Of(w) \in Invoice
  BY <1>t, EventInvoice DEF TypeOK, ShapeInv, Shape, Of, At, Die
<1>r. /\ \A v \in Request \ {w} : req'[v] = req[v]
      /\ req'[w] = Idle
  BY IdleTyped, <1>t DEF TypeOK, At, Die, Fail
<1>1. TypeOK'
  BY IdleTyped, <1>t, <1>n DEF TypeOK, Pc, Die, Fail
<1>2. ShapeInv'
  BY IdleTyped, <1>t, <1>n, <1>r DEF ShapeInv, Shape, At, Of, Die, Fail
<1>3. CountInv'
  <2> SUFFICES ASSUME NEW i \in Invoice \ overlap'
               PROVE  Count(i)'
    BY DEF CountInv
  <2>1. Count(i)
    BY <1>t DEF CountInv, Die
  <2>2. mails[i] \in Nat /\ unrecorded[i] \in Nat
    BY <1>t DEF TypeOK
  <2> QED
    BY IdleTyped, <1>t, <1>n, <1>r, <2>1, <2>2
    DEF Count, Mailing, At, Of, TypeOK, Die, Fail
<1>4. HonestInv'
  <2> SUFFICES ASSUME NEW i \in Invoice
               PROVE  Honest(i)'
    BY DEF HonestInv
  <2>1. Honest(i)
    BY <1>t DEF HonestInv
  <2>2. mails[i] \in Nat
    BY <1>t DEF TypeOK
  <2> QED
    BY IdleTyped, <1>t, <1>n, <1>r, <2>1, <2>2
    DEF Honest, Backed, At, Of, TypeOK, ShapeInv, Shape, Invoice, Die, Fail
<1> QED
  BY <1>1, <1>2, <1>3, <1>4 DEF IInv

-------------------------------------------------------------------------------
LEMMA NextKeeps == IInv /\ [Next]_vars => IInv'
<1> SUFFICES ASSUME IInv, [Next]_vars
             PROVE  IInv'
  OBVIOUS
<1>1. CASE UNCHANGED vars
  <2>1. TypeOK'
    BY <1>1 DEF vars, stripeVars, historyVars, IInv, TypeOK
  <2> QED
    BY <1>1, <2>1, OutsideKeeps DEF vars, stripeVars, historyVars
<1>2. ASSUME NEW w \in Request, Handle(w)
      PROVE  IInv'
  BY <1>2, ActivateKeeps, ResolveKeeps, ReadKeeps, ClaimKeeps, SendKeeps, RevertKeeps,
     MarkKeeps, AcknowledgeKeeps DEF Handle
<1>3. ASSUME NEW w \in Request, Fails(w)
      PROVE  IInv'
  BY <1>3, PrepareFailsKeeps, AddressFailsKeeps, SendFailsKeeps,
     RevertFailsKeeps, MarkFailsKeeps, DieKeeps DEF Fails
<1> QED
  BY <1>1, <1>2, <1>3, StripeKeeps, DeliverKeeps DEF Next

THEOREM Invariant == Spec => []IInv
BY InitOK, NextKeeps, PTL DEF Spec

\* The types, for any number of requests: an event is answered only after
\* Stripe has made it, and no count is taken of an invoice that is none.
THEOREM Typed == Spec => []TypeOK
<1>1. IInv => TypeOK
  BY DEF IInv
<1> QED
  BY <1>1, Invariant, PTL

\* An invoice that no two requests were mailing at once is mailed once, and
\* once more for each mail whose sender could not know of it, whatever the
\* deliveries, failures and deaths.
THEOREM OnceEach == Spec => []MailedOnce
<1>1. IInv => MailedOnce
  <2> SUFFICES ASSUME IInv, NEW i \in Invoice \ overlap
               PROVE  mails[i] <= 1 + unrecorded[i]
    BY DEF MailedOnce
  <2>1. Count(i)
    BY DEF IInv, CountInv
  <2>2. mails[i] \in Nat /\ unrecorded[i] \in Nat
    BY DEF IInv, TypeOK
  <2> QED
    BY <2>1, <2>2 DEF Count
<1> QED
  BY <1>1, Invariant, PTL

\* In any interleaving a mark means a mail, a request that is at it, or an
\* attempt that could not take its mark back.
THEOREM MarkIsHonest == Spec => []MarkMeansMailed
<1>1. IInv => MarkMeansMailed
  BY DEF IInv, HonestInv, Honest, Backed, MarkMeansMailed
<1> QED
  BY <1>1, Invariant, PTL
===============================================================================
