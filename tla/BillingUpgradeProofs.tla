-------------------------- MODULE BillingUpgradeProofs --------------------------
(***************************************************************************)
(* What holds of BillingUpgrade for any plans and any number of requests.  *)
(*                                                                         *)
(* A request that is about to write a table has had its invoice settled    *)
(* (Shape), and that is never undone: hence what the row grants was paid   *)
(* for.  A request that is alone works on the row it read (AloneShape), so *)
(* what it leaves behind is of one plan (SoundShape).  While requests have *)
(* all been alone and none was cut off, a company on the one-time plan has *)
(* no subscription and no credit (CleanShape), which is why it cannot get  *)
(* a second of either.                                                     *)
(***************************************************************************)
EXTENDS BillingUpgrade, TLAPS

Exists(s) == sub[s].status # "none"

\* After Stripe was changed and before the last table is written.
Late(r) == req[r].pc \in {"pay", "row", "seat", "log"}

ReqTyped == req \in [Request -> [pc : Steps, target : Plan \cup {None},
                                 sub : Sub \cup {None}, due : BOOLEAN,
                                 alone : BOOLEAN, torn : BOOLEAN]]

SubTyped == sub \in [Sub -> [status : Status \cup {"none"}, plan : Plan \cup {None},
                             latest : Request \cup {None}, ending : BOOLEAN]]

RestTyped == /\ newest \in Sub \cup {None}
             /\ paid \subseteq Request
             /\ credit \subseteq Request
             /\ news \subseteq Event
             /\ row \in [plan : Plan, sub : Sub \cup {None}, status : Status]
             /\ seat \in Plan
             /\ log \in Plan
             /\ start \in Plan
             /\ sound \in BOOLEAN
             /\ clean \in BOOLEAN

\* A request, its invoice and its credit.
Shape(r) ==
    /\ At(r, "new") => r \notin paid /\ r \notin credit
    /\ ~At(r, "new") => req[r].target \in Plan
    /\ Late(r) => req[r].sub # None
    /\ At(r, "credit") => req[r].due
    /\ req[r].pc \in {"row", "seat", "log"} => r \in paid
    /\ r \in credit => req[r].pc \notin {"new", "read", "credit"}
    /\ r \in credit /\ req[r].pc \in {"change", "pay"} => req[r].due
    /\ r \in credit /\ At(r, "done") /\ ~req[r].torn => r \in paid

Shapes == /\ \A r \in Request : Shape(r)
          /\ \A s \in Sub : sub[s].latest # None => ~At(sub[s].latest, "new")

\* Whoever names a subscription names one that was created.
Refs == /\ row.sub # None => Exists(row.sub)
        /\ newest # None => Exists(newest)
        /\ newest = None => \A s \in Sub : ~Exists(s)
        /\ \A r \in Request : req[r].sub # None => Exists(req[r].sub)
        /\ \A e \in news : Exists(e.sub)

OneAtATime == \A q, r \in Request : Active(q) /\ Active(r) /\ q # r => ~req[q].alone

\* What a request that is alone knows of the tables.
AloneShape(r) ==
    req[r].alone =>
      /\ req[r].pc \in {"credit", "change", "pay", "row"} => Allowed(row.plan, req[r].target)
      /\ req[r].pc \in {"seat", "log"} => row.plan = req[r].target
      /\ At(r, "log") => seat = req[r].target
      /\ Late(r) => sub[req[r].sub].plan = req[r].target

AloneShapes == \A r \in Request : AloneShape(r)

SoundShape ==
    sound => /\ \A r \in Request : ~Late(r)
             /\ seat = row.plan
             /\ log = row.plan
             /\ OneSubscription => \A s \in Sub : Exists(s) => sub[s].plan = row.plan

CleanRequest(r) ==
    /\ Active(r) => req[r].alone
    /\ req[r].pc \in {"read", "credit"} /\ req[r].due => row.plan.type = "one_time"
    /\ At(r, "change") /\ req[r].sub = None => \A s \in Sub : ~Exists(s)
    /\ req[r].pc \in {"seat", "log", "done"} /\ r \in credit => row.plan.type # "one_time"
    /\ req[r].pc \in {"seat", "log"} => row.plan.type # "one_time"

CleanShape ==
    clean => /\ \A r \in Request : CleanRequest(r)
             /\ OneSubscription
             /\ \A q, r \in credit : q = r
             /\ row.plan.type # "one_time" => newest # None
             /\ row.plan.type = "one_time" /\ (\A r \in Request : ~Late(r))
                  => \A s \in Sub : ~Exists(s)

IInv == /\ TypeOK /\ Shapes /\ GrantedPlanIsPaid /\ Refs /\ OneAtATime
        /\ AloneShapes /\ SoundShape /\ CleanShape

-------------------------------------------------------------------------------
(* Plans.                                                                  *)

LEMMA AllowedIsAbove ==
    ASSUME NEW p \in Plan, NEW q \in Plan, Allowed(p, q)
    PROVE  Above(q, p) /\ q.type # "one_time"
<1>1. p.type \in PlanType /\ q.type \in PlanType /\ p.level \in Nat /\ q.level \in Nat
  BY UpgradeAssumption
<1>2. q.type # "one_time"
  BY UpgradeAssumption DEF Allowed
<1> QED
  BY <1>1, <1>2 DEF Allowed, Above, TypeRank, PlanType

LEMMA InitOK == Init => IInv
<1> SUFFICES ASSUME Init PROVE IInv
  OBVIOUS
<1> USE DEF Init, NoSub, New
<1>1. PICK p \in Plan, id \in {First, None}, status \in {"active", "trialing"} :
        LET once == p.type = "one_time" IN
        /\ once => id = None
        /\ sub = [s \in Sub |-> IF s = First /\ ~once
                                THEN [NoSub EXCEPT !.status = status, !.plan = p]
                                ELSE NoSub]
        /\ newest = IF once THEN None ELSE First
        /\ row = [plan |-> p, sub |-> id, status |-> status]
        /\ seat = p /\ log = p /\ start = p
  OBVIOUS
<1>2. First \in Sub /\ None \notin Sub /\ None \notin Request
  BY UpgradeAssumption DEF Sub
<1>3. /\ \A s \in Sub : s # First => sub[s].status = "none" /\ sub[s].latest = None
      /\ sub[First].latest = None
      /\ p.type = "one_time" => sub[First].status = "none"
      /\ p.type # "one_time" => sub[First].status # "none" /\ sub[First].plan = p
  BY <1>1, <1>2
<1>4. SubTyped
  <2>1. CASE p.type = "one_time"
    BY <1>1, <1>2, <2>1 DEF SubTyped, Status
  <2>2. CASE p.type # "one_time"
    BY <1>1, <1>2, <2>2 DEF SubTyped, Status
  <2> QED
    BY <2>1, <2>2
<1>5. ReqTyped
  BY DEF ReqTyped, Steps
<1>6. TypeOK
  BY <1>1, <1>2, <1>4, <1>5 DEF TypeOK, SubTyped, ReqTyped, Status
<1>7. \A r \in Request : req[r] = New
  OBVIOUS
<1> HIDE DEF Init
<1>8. Shapes /\ OneAtATime /\ AloneShapes
  BY <1>2, <1>3, <1>7 DEF Init, Shapes, Shape, OneAtATime, AloneShapes, AloneShape,
     Active, At, Late
<1>9. Refs /\ GrantedPlanIsPaid
  BY <1>1, <1>2, <1>3, <1>7 DEF Init, Refs, Exists, GrantedPlanIsPaid
<1>10. SoundShape
  BY <1>1, <1>2, <1>3, <1>7 DEF SoundShape, Exists, Late
<1>11. CleanShape
  BY <1>1, <1>2, <1>3, <1>7 DEF Init, CleanShape, CleanRequest, OneSubscription,
     Exists, Late, At, Active
<1> QED
  BY <1>6, <1>8, <1>9, <1>10, <1>11 DEF IInv

-------------------------------------------------------------------------------
(* What becomes of a request.                                              *)

ReqRec == [pc : Steps, target : Plan \cup {None}, sub : Sub \cup {None},
           due : BOOLEAN, alone : BOOLEAN, torn : BOOLEAN]

\* Nobody but r takes a step.
Only(r) == \A q \in Request : q # r => req'[q] = req[q]

Ended(r) ==
    /\ ReqTyped' /\ Only(r)
    /\ req'[r].pc = "done" /\ req'[r].target = req[r].target
    /\ req'[r].sub = None /\ req'[r].alone = TRUE /\ req'[r].due = FALSE

Moved(r, pc) ==
    /\ ReqTyped' /\ Only(r)
    /\ req'[r].pc = pc /\ req'[r].target = req[r].target
    /\ req'[r].sub = req[r].sub /\ req'[r].alone = req[r].alone
    /\ req'[r].due = req[r].due /\ req'[r].torn = req[r].torn

\* The catch block: the credit is taken back, or the request is over.
RefusedAt(r, pc) ==
    /\ At(r, pc)
    /\ \/ req[r].due /\ Moved(r, "reverse")
       \/ ~req[r].due /\ Ended(r) /\ req'[r].torn = FALSE
    /\ UNCHANGED <<stripeVars, tableVars, start, sound>>
    /\ clean' = (clean /\ Untouched(r))

GotOwn(r) ==
    /\ ReqTyped' /\ Only(r)
    /\ req'[r].pc = "pay" /\ req'[r].sub = r /\ req'[r].target = req[r].target
    /\ req'[r].alone = req[r].alone /\ req'[r].due = req[r].due
    /\ req'[r].torn = req[r].torn

Undone(r) ==
    /\ Ended(r) /\ At(r, "reverse")
    /\ \/ credit' = credit \ {r} /\ clean' = clean /\ req'[r].torn = FALSE
       \/ credit' = credit /\ clean' = FALSE /\ req'[r].torn = TRUE
    /\ UNCHANGED <<sub, newest, paid, news, tableVars, start, sound>>

LEMMA Finished ==
    ASSUME ReqTyped, NEW r \in Request, NEW torn \in BOOLEAN, Finish(r, torn)
    PROVE  Ended(r) /\ req'[r].torn = torn
<1> DEFINE y == [pc |-> "done", target |-> req[r].target, sub |-> None,
                 due |-> FALSE, alone |-> TRUE, torn |-> torn]
<1>1. y \in ReqRec
  <2>1. req[r].target \in Plan \cup {None}
    BY DEF ReqTyped
  <2> QED
    BY <2>1 DEF ReqRec, Steps
<1>2. req' = [req EXCEPT ![r] = y]
  BY DEF Finish
<1>3. y.pc = "done" /\ y.target = req[r].target /\ y.sub = None /\ y.due = FALSE
      /\ y.alone = TRUE /\ y.torn = torn
  OBVIOUS
<1> HIDE DEF y
<1>4. req'[r] = y /\ Only(r)
  BY <1>2 DEF ReqTyped, Only
<1>5. ReqTyped'
  BY <1>1, <1>2 DEF ReqTyped, ReqRec
<1> QED
  BY <1>3, <1>4, <1>5 DEF Ended

LEMMA Moving ==
    ASSUME ReqTyped, NEW r \in Request, NEW pc \in Steps, Goto(r, pc)
    PROVE  Moved(r, pc)
<1> DEFINE y == [req[r] EXCEPT !.pc = pc]
<1>1. req[r] \in ReqRec
  BY DEF ReqTyped, ReqRec
<1>2. y \in ReqRec /\ y.pc = pc /\ y.target = req[r].target /\ y.sub = req[r].sub
      /\ y.alone = req[r].alone /\ y.due = req[r].due /\ y.torn = req[r].torn
  BY <1>1 DEF ReqRec
<1>3. req' = [req EXCEPT ![r] = y]
  BY DEF Goto
<1> HIDE DEF y
<1>4. req'[r] = y /\ Only(r)
  BY <1>3 DEF ReqTyped, Only
<1>5. ReqTyped'
  BY <1>2, <1>3 DEF ReqTyped, ReqRec
<1> QED
  BY <1>2, <1>4, <1>5 DEF Moved

LEMMA Moves ==
    ASSUME TypeOK, NEW r \in Request
    PROVE  /\ ApplyCredit(r) => Moved(r, "change")
           /\ UpdateSubscription(r) => Moved(r, "pay")
           /\ Pay(r) => Moved(r, "row")
           /\ UpdateRow(r) => Moved(r, "seat")
           /\ UpdateSeat(r) => Moved(r, "log")
<1>1. ReqTyped
  BY DEF TypeOK, ReqTyped
<1>2. \A pc \in Steps : Goto(r, pc) => Moved(r, pc)
  BY <1>1, Moving
<1> QED
  BY <1>2 DEF ApplyCredit, UpdateSubscription, Pay, UpdateRow, UpdateSeat, Steps

LEMMA Refused ==
    ASSUME TypeOK, NEW r \in Request, NEW pc \in Steps, At(r, pc), Refuse(r)
    PROVE  RefusedAt(r, pc)
<1>1. ReqTyped
  BY DEF TypeOK, ReqTyped
<1>2. CASE req[r].due
  <2>1. Goto(r, "reverse")
    BY <1>2 DEF Refuse
  <2>2. Moved(r, "reverse")
    BY <1>1, <2>1, Moving DEF Steps
  <2> QED
    BY <1>2, <2>2 DEF Refuse, RefusedAt
<1>3. CASE ~req[r].due
  <2>1. Finish(r, FALSE)
    BY <1>3 DEF Refuse
  <2>2. FALSE \in BOOLEAN
    OBVIOUS
  <2>3. Ended(r) /\ req'[r].torn = FALSE
    BY <1>1, <2>1, <2>2, Finished
  <2> QED
    BY <1>3, <2>3 DEF Refuse, RefusedAt
<1> QED
  BY <1>2, <1>3

LEMMA Refusals ==
    ASSUME TypeOK, NEW r \in Request
    PROVE  /\ ChangeRefused(r) => RefusedAt(r, "change")
           /\ PayRefused(r) => RefusedAt(r, "pay")
BY Refused DEF ChangeRefused, PayRefused, Steps

Opened(r, target) ==
    /\ At(r, "new") /\ Allowed(row.plan, target)
    /\ ReqTyped'
    /\ req'[r].pc = "read" /\ req'[r].target = target /\ req'[r].sub = None
    /\ req'[r].due => row.plan.type = "one_time"
    /\ req'[r].alone => \A q \in Request : ~Active(q)
    /\ \A q \in Request : q # r =>
         /\ req'[q].pc = req[q].pc /\ req'[q].target = req[q].target
         /\ req'[q].sub = req[q].sub /\ req'[q].due = req[q].due
         /\ req'[q].torn = req[q].torn
         /\ Active(q) => ~req'[q].alone
         /\ ~Active(q) => req'[q].alone = req[q].alone
    /\ clean' \in BOOLEAN /\ (clean' => clean /\ req'[r].alone)
    /\ UNCHANGED <<stripeVars, tableVars, start, sound>>

LEMMA Previewed ==
    ASSUME TypeOK, NEW r \in Request, NEW target \in Plan, Preview(r, target)
    PROVE  Opened(r, target)
<1> DEFINE free == \A q \in Request : ~Active(q)
           rest(q) == IF Active(q) THEN [req[q] EXCEPT !.alone = FALSE] ELSE req[q]
<1>1. PICK due \in CreditDue(row.plan) :
        req' = [q \in Request |->
                  IF q = r THEN [New EXCEPT !.pc = "read", !.target = target,
                                            !.due = due, !.alone = free]
                  ELSE rest(q)]
  BY DEF Preview
<1>2. due \in BOOLEAN /\ (due => row.plan.type = "one_time")
  BY DEF CreditDue
<1>3. PICK b \in BOOLEAN : b <=> free
  OBVIOUS
<1>4. req'[r] = [pc |-> "read", target |-> target, sub |-> None, due |-> due,
                 alone |-> free, torn |-> FALSE]
  BY <1>1 DEF New
<1>5. \A q \in Request : q # r => req'[q] = rest(q)
  BY <1>1
<1>6. ASSUME NEW q \in Request, q # r
      PROVE  /\ rest(q) \in [pc : Steps, target : Plan \cup {None}, sub : Sub \cup {None},
                             due : BOOLEAN, alone : BOOLEAN, torn : BOOLEAN]
             /\ rest(q).pc = req[q].pc /\ rest(q).target = req[q].target
             /\ rest(q).sub = req[q].sub /\ rest(q).due = req[q].due
             /\ rest(q).torn = req[q].torn
             /\ Active(q) => ~rest(q).alone
             /\ ~Active(q) => rest(q).alone = req[q].alone
  <2>1. req[q] \in [pc : Steps, target : Plan \cup {None}, sub : Sub \cup {None},
                    due : BOOLEAN, alone : BOOLEAN, torn : BOOLEAN]
    BY DEF TypeOK
  <2> QED
    BY <2>1
<1>7. [pc |-> "read", target |-> target, sub |-> None, due |-> due,
       alone |-> b, torn |-> FALSE]
        \in [pc : Steps, target : Plan \cup {None}, sub : Sub \cup {None},
             due : BOOLEAN, alone : BOOLEAN, torn : BOOLEAN]
  BY <1>2, <1>3 DEF Steps
<1>8. req'[r] \in [pc : Steps, target : Plan \cup {None}, sub : Sub \cup {None},
                   due : BOOLEAN, alone : BOOLEAN, torn : BOOLEAN]
  <2>1. free = b
    BY <1>3
  <2> QED
    BY <1>4, <1>7, <2>1
<1> HIDE DEF rest, free
<1>9. req' = [q \in Request |-> req'[q]]
  BY <1>1
<1>10. ReqTyped'
  BY <1>5, <1>6, <1>8, <1>9 DEF ReqTyped
<1>11. req'[r].alone => free
  BY <1>4
<1>12. free => \A q \in Request : ~Active(q)
  BY DEF free
<1>13. clean' = (clean /\ free)
  BY DEF Preview, free
<1>14. UNCHANGED <<stripeVars, tableVars, start, sound>> /\ At(r, "new") /\ Allowed(row.plan, target)
  BY DEF Preview
<1>15. free => req'[r].alone
  BY <1>4
<1>16. \A q \in Request : q # r =>
         /\ req'[q].pc = req[q].pc /\ req'[q].target = req[q].target
         /\ req'[q].sub = req[q].sub /\ req'[q].due = req[q].due
         /\ req'[q].torn = req[q].torn
         /\ Active(q) => ~req'[q].alone
         /\ ~Active(q) => req'[q].alone = req[q].alone
  BY <1>5, <1>6
<1>17. req'[r].pc = "read" /\ req'[r].target = target /\ req'[r].sub = None
       /\ (req'[r].due => row.plan.type = "one_time")
  BY <1>2, <1>4
<1>18. req'[r].alone => \A q \in Request : ~Active(q)
  BY <1>11, <1>12
<1>19. clean' \in BOOLEAN /\ (clean' => clean /\ req'[r].alone)
  BY <1>13, <1>15
<1> QED
  BY <1>10, <1>14, <1>16, <1>17, <1>18, <1>19 DEF Opened

WentOn(r) ==
    /\ At(r, "read") /\ Allowed(row.plan, req[r].target)
    /\ ReqTyped' /\ Only(r)
    /\ req'[r].target = req[r].target /\ req'[r].alone = req[r].alone
    /\ req'[r].due = req[r].due /\ req'[r].torn = req[r].torn
    /\ req'[r].sub = SubscriptionId
    /\ req'[r].pc = IF req[r].due THEN "credit" ELSE "change"
    /\ UNCHANGED <<stripeVars, tableVars, historyVars>>

LEMMA WasRead ==
    ASSUME TypeOK, NEW r \in Request, ReadCompany(r)
    PROVE  WentOn(r)
<1>1. SubscriptionId \in Sub \cup {None}
  BY DEF SubscriptionId, TypeOK
<1>2. req[r] \in ReqRec
  BY DEF TypeOK, ReqRec
<1> DEFINE y == [req[r] EXCEPT !.pc = IF req[r].due THEN "credit" ELSE "change",
                               !.sub = SubscriptionId]
<1>3. req' = [req EXCEPT ![r] = y]
  BY DEF ReadCompany
<1>4. /\ y \in ReqRec
      /\ y.target = req[r].target /\ y.alone = req[r].alone
      /\ y.due = req[r].due /\ y.torn = req[r].torn
      /\ y.sub = SubscriptionId
      /\ y.pc = IF req[r].due THEN "credit" ELSE "change"
  BY <1>1, <1>2 DEF Steps, ReqRec
<1> HIDE DEF y
<1>5. req'[r] = y /\ Only(r) /\ ReqTyped'
  BY <1>3, <1>4 DEF TypeOK, ReqTyped, ReqRec, Only
<1>6. /\ At(r, "read") /\ Allowed(row.plan, req[r].target)
      /\ UNCHANGED <<stripeVars, tableVars, historyVars>>
  BY DEF ReadCompany
<1> QED
  BY <1>4, <1>5, <1>6 DEF WentOn

LEMMA Created ==
    ASSUME TypeOK, NEW r \in Request, CreateSubscription(r)
    PROVE  GotOwn(r)
<1> DEFINE y == [req[r] EXCEPT !.pc = "pay", !.sub = r]
<1>1. req[r] \in ReqRec
  BY DEF TypeOK, ReqRec
<1>2. /\ y \in ReqRec /\ y.pc = "pay" /\ y.sub = r /\ y.target = req[r].target
      /\ y.alone = req[r].alone /\ y.due = req[r].due /\ y.torn = req[r].torn
  BY <1>1 DEF ReqRec, Steps, Sub
<1>3. req' = [req EXCEPT ![r] = y]
  BY DEF CreateSubscription
<1> HIDE DEF y
<1>4. req'[r] = y /\ Only(r)
  BY <1>3 DEF TypeOK, Only
<1>5. ReqTyped'
  BY <1>2, <1>3 DEF TypeOK, ReqTyped, ReqRec
<1> QED
  BY <1>2, <1>4, <1>5 DEF GotOwn

LEMMA Reversed ==
    ASSUME TypeOK, NEW r \in Request, ReverseCredit(r)
    PROVE  Undone(r)
<1>1. ReqTyped /\ TRUE \in BOOLEAN /\ FALSE \in BOOLEAN
  BY DEF TypeOK, ReqTyped
<1>2. At(r, "reverse") /\ UNCHANGED <<sub, newest, paid, news, tableVars, start, sound>>
  BY DEF ReverseCredit
<1>3. CASE Finish(r, FALSE) /\ credit' = credit \ {r} /\ UNCHANGED clean
  BY <1>1, <1>2, <1>3, Finished DEF Undone
<1>4. CASE Finish(r, TRUE) /\ clean' = FALSE /\ UNCHANGED credit
  BY <1>1, <1>2, <1>4, Finished DEF Undone
<1> QED
  BY <1>3, <1>4 DEF ReverseCredit

LEMMA Ends ==
    ASSUME TypeOK, NEW r \in Request
    PROVE  /\ RecordAction(r) => Ended(r) /\ req'[r].torn = FALSE
           /\ Fail(r) => Ended(r) /\ (req'[r].torn <=> r \in credit \ paid)
<1>1. ReqTyped /\ FALSE \in BOOLEAN /\ (r \in credit \ paid) \in BOOLEAN
  BY DEF TypeOK, ReqTyped
<1>2. ASSUME RecordAction(r) PROVE Ended(r) /\ req'[r].torn = FALSE
  <2>1. Finish(r, FALSE)
    BY <1>2 DEF RecordAction
  <2> QED
    BY <1>1, <2>1, Finished
<1>3. ASSUME Fail(r) PROVE Ended(r) /\ (req'[r].torn <=> r \in credit \ paid)
  <2>1. Finish(r, r \in credit \ paid)
    BY <1>3 DEF Fail
  <2> QED
    BY <1>1, <2>1, Finished
<1> QED
  BY <1>2, <1>3

-------------------------------------------------------------------------------
(* What becomes of a subscription.                                         *)

LEMMA Told ==
    ASSUME NEW s \in Sub, NEW status \in Status
    PROVE  /\ Updated(s, status) \in Event /\ Updated(s, status).sub = s
           /\ InvoicePaid(s) \in Event /\ InvoicePaid(s).sub = s
BY DEF Updated, InvoicePaid, Event, Status

LEMMA Emitted ==
    ASSUME NEW s \in Sub, NEW events, Emit(events),
           \A e \in events : e \in Event /\ e.sub = s
    PROVE  \A e \in news' : e \in news \/ (e \in Event /\ e.sub = s)
BY DEF Emit

\* Only the status of s may differ, and every new event is about s.
Settled(r, s) ==
    /\ paid' = paid \cup {r}
    /\ Exists(s)
    /\ \A t \in Sub : /\ Exists(t)' <=> Exists(t)
                      /\ sub'[t].plan = sub[t].plan /\ sub'[t].latest = sub[t].latest
    /\ \A e \in news' : e \in news \/ (e \in Event /\ e.sub = s)
    /\ UNCHANGED <<newest, credit>>

LEMMA SettleIsMild ==
    ASSUME SubTyped, NEW s \in Sub, NEW r, Settle(r, s)
    PROVE  Settled(r, s)
<1>1. Exists(s) /\ paid' = paid \cup {r} /\ UNCHANGED <<newest, credit>>
  BY DEF Settle, Exists
<1>2. CASE sub[s].latest = r
  <2>0. sub' = [sub EXCEPT ![s].status = "active"]
        /\ Emit({Updated(s, "active"), InvoicePaid(s)})
    BY <1>2 DEF Settle
  <2>1. \A e \in news' : e \in news \/ (e \in Event /\ e.sub = s)
    <3>1. "active" \in Status
      BY DEF Status
    <3>2. \A e \in {Updated(s, "active"), InvoicePaid(s)} : e \in Event /\ e.sub = s
      BY <3>1, Told
    <3> QED
      BY <2>0, <3>2, Emitted
  <2>2. \A t \in Sub : /\ Exists(t)' <=> Exists(t)
                       /\ sub'[t].plan = sub[t].plan /\ sub'[t].latest = sub[t].latest
    BY <1>1, <2>0 DEF SubTyped, Exists
  <2> QED
    BY <1>1, <2>1, <2>2 DEF Settled
<1>3. CASE sub[s].latest # r
  <2>1. UNCHANGED sub /\ Emit({InvoicePaid(s)})
    BY <1>3 DEF Settle
  <2>2. \A t \in Sub : /\ Exists(t)' <=> Exists(t)
                       /\ sub'[t].plan = sub[t].plan /\ sub'[t].latest = sub[t].latest
    BY <2>1 DEF Exists
  <2>3. \A e \in news' : e \in news \/ (e \in Event /\ e.sub = s)
    <3>1. \A e \in {InvoicePaid(s)} : e \in Event /\ e.sub = s
      BY Told DEF Status
    <3> QED
      BY <2>1, <3>1, Emitted
  <2> QED
    BY <1>1, <2>2, <2>3 DEF Settled
<1> QED
  BY <1>2, <1>3

\* The subscription gets the plan the request asked for.
Changed(r) ==
    LET s == req[r].sub IN
    /\ s \in Sub /\ Exists(s) /\ sub'[s].status # "none"
    /\ sub'[s].plan = req[r].target /\ sub'[s].latest = r
    /\ \A t \in Sub : t # s => sub'[t] = sub[t]
    /\ \A e \in news' : e \in news \/ (e \in Event /\ e.sub = s)
    /\ paid \subseteq paid' /\ paid' \subseteq paid \cup {r}

LEMMA UpdateChanges ==
    ASSUME TypeOK, NEW r \in Request, UpdateSubscription(r)
    PROVE  Changed(r)
<1> DEFINE s == req[r].sub
<1>1. s \in Sub /\ Exists(s) /\ sub[s].status \in Status
  BY DEF UpdateSubscription, TypeOK, Usable, EligibleStatus, Exists, Status
<1>2. PICK status \in Status :
        /\ sub' = [sub EXCEPT ![s] = [status |-> status, plan |-> req[r].target,
                                      latest |-> r, ending |-> FALSE]]
        /\ Emit({Updated(s, status)} \cup IF r \in paid' THEN {InvoicePaid(s)} ELSE {})
  BY <1>1 DEF UpdateSubscription, Status
<1> DEFINE y == [status |-> status, plan |-> req[r].target, latest |-> r, ending |-> FALSE]
           new == {Updated(s, status)} \cup IF r \in paid' THEN {InvoicePaid(s)} ELSE {}
<1>3. y.plan = req[r].target /\ y.latest = r /\ y.status # "none"
  BY DEF Status
<1>4. \A e \in new : e \in Event /\ e.sub = s
  BY <1>1, Told
<1>5. \A e \in news' : e \in news \/ (e \in Event /\ e.sub = s)
  <2>1. Emit(new)
    BY <1>2
  <2> HIDE DEF new
  <2> QED
    BY <1>1, <1>4, <2>1, Emitted
<1>6. paid \subseteq paid' /\ paid' \subseteq paid \cup {r}
  BY DEF UpdateSubscription, Collect
<1>7. sub' = [sub EXCEPT ![s] = y]
  BY <1>2
<1> HIDE DEF y
<1>8. sub'[s] = y /\ \A t \in Sub : t # s => sub'[t] = sub[t]
  BY <1>1, <1>7 DEF TypeOK
<1>9. sub'[s].status # "none"
  BY <1>3, <1>8
<1> QED
  BY <1>1, <1>3, <1>5, <1>6, <1>8, <1>9 DEF Changed

LEMMA CreateChanges ==
    ASSUME TypeOK, NEW r \in Request, CreateSubscription(r)
    PROVE  /\ Exists(r)' /\ sub'[r].plan = req[r].target /\ sub'[r].latest = r
           /\ \A t \in Sub : t # r => sub'[t] = sub[t]
           /\ \A e \in news' : e \in news \/ (e \in Event /\ e.sub = r)
           /\ paid \subseteq paid' /\ paid' \subseteq paid \cup {r}
<1> DEFINE y == [status |-> IF r \in paid' THEN "active" ELSE "incomplete",
                 plan |-> req[r].target, latest |-> r, ending |-> FALSE]
<1>1. r \in Sub
  BY DEF Sub
<1>2. sub' = [sub EXCEPT ![r] = y]
  BY DEF CreateSubscription
<1>3. y.plan = req[r].target /\ y.latest = r /\ y.status # "none"
  OBVIOUS
<1>5. \A e \in news' : e \in news \/ (e \in Event /\ e.sub = r)
  <2> DEFINE e1 == IF r \in paid' THEN InvoicePaid(r) ELSE Updated(r, "incomplete")
  <2>1. Emit({e1})
    BY DEF CreateSubscription
  <2>2. e1 \in Event /\ e1.sub = r
    <3>1. "incomplete" \in Status
      BY DEF Status
    <3> QED
      BY <1>1, <3>1, Told
  <2> HIDE DEF e1
  <2> QED
    BY <1>1, <2>1, <2>2, Emitted
<1>6. paid \subseteq paid' /\ paid' \subseteq paid \cup {r}
  BY DEF CreateSubscription, Collect
<1> HIDE DEF y
<1>7. sub'[r] = y /\ \A t \in Sub : t # r => sub'[t] = sub[t]
  BY <1>1, <1>2 DEF TypeOK
<1>8. Exists(r)'
  BY <1>3, <1>7 DEF Exists
<1> QED
  BY <1>3, <1>5, <1>6, <1>7, <1>8

\* Only the status and the latest invoice of s may differ.
TrialOver(s) ==
    /\ SubTyped'
    /\ \A t \in Sub : /\ Exists(t)' <=> Exists(t)
                      /\ sub'[t].plan = sub[t].plan
                      /\ sub'[t].latest \in {sub[t].latest, None}
    /\ Exists(s)
    /\ \A e \in news' : e \in news \/ (e \in Event /\ e.sub = s)
    /\ UNCHANGED <<newest, paid, credit, tableVars, req, historyVars>>

LEMMA TrialEnds ==
    ASSUME SubTyped, NEW s \in Sub, EndTrial(s)
    PROVE  TrialOver(s)
<1>1. PICK status \in {"active", "past_due"} :
        /\ sub' = [sub EXCEPT ![s].status = status, ![s].latest = None]
        /\ Emit({Updated(s, status)})
  BY DEF EndTrial
<1>2. status \in Status /\ Exists(s)
  BY DEF EndTrial, Status, Exists
<1>3. sub' = [sub EXCEPT ![s] = [sub[s] EXCEPT !.status = status, !.latest = None]]
  BY <1>1
<1>4. SubTyped'
  BY <1>2, <1>3 DEF SubTyped
<1>5. \A t \in Sub : t # s => sub'[t] = sub[t]
  BY <1>3 DEF SubTyped
<1>6. sub'[s].status = status /\ sub'[s].plan = sub[s].plan /\ sub'[s].latest = None
  BY <1>3 DEF SubTyped
<1>7. \A e \in {Updated(s, status)} : e \in Event /\ e.sub = s
  BY <1>2, Told
<1>8. \A e \in news' : e \in news \/ (e \in Event /\ e.sub = s)
  BY <1>1, <1>7, Emitted
<1> QED
  BY <1>2, <1>4, <1>5, <1>6, <1>8 DEF TrialOver, EndTrial, Exists, Status

\* An event changes nothing but the status of the row and whom it names.
LEMMA WebhookIsMild ==
    ASSUME RestTyped, SubTyped, Refs, NEW e \in news, Webhook(e)
    PROVE  /\ row' \in [plan : Plan, sub : Sub \cup {None}, status : Status]
           /\ row'.plan = row.plan
           /\ row'.sub \in {row.sub, e.sub, None}
           /\ UNCHANGED <<stripeVars, seat, log, req, historyVars>>
<1>1. row \in [plan : Plan, sub : Sub \cup {None}, status : Status] /\ e \in Event
  BY DEF RestTyped
<1>2. CASE row' = [row EXCEPT !.status = e.status, !.sub = e.sub]
  BY <1>1, <1>2 DEF Webhook, Event
<1>3. CASE row' = [row EXCEPT !.status = "canceled", !.sub = None]
  BY <1>1, <1>3 DEF Webhook, Status
<1>4. CASE row.sub = e.sub /\ row' = [row EXCEPT !.status = sub[e.sub].status]
  <2>1. e.sub \in Sub
    BY <1>1 DEF Event
  <2>2. sub[e.sub].status \in Status
    BY <2>1 DEF Refs, Exists, SubTyped
  <2> QED
    BY <1>1, <1>4, <2>2 DEF Webhook
<1>5. CASE row' = row
  BY <1>1, <1>5 DEF Webhook
<1> QED
  BY <1>2, <1>3, <1>4, <1>5 DEF Webhook, RowAfterInvoicePaid


-------------------------------------------------------------------------------
(* A request under way while all have been alone is the only one.          *)

LEMMA Lonely ==
    ASSUME OneAtATime, CleanShape, clean, NEW r \in Request, Active(r)
    PROVE  /\ req[r].alone
           /\ \A q \in Request : q # r => ~Active(q) /\ ~Late(q)
<1>1. req[r].alone
  BY DEF CleanShape, CleanRequest
<1>2. \A q \in Request : q # r => ~Active(q)
  BY <1>1 DEF OneAtATime
<1> QED
  BY <1>1, <1>2 DEF Active, Late

-------------------------------------------------------------------------------
(* The steps.                                                              *)

LEMMA ReqTypedKept ==
    ASSUME TypeOK, [Next]_vars
    PROVE  ReqTyped'
<1>1. ASSUME NEW r \in Request, NEW target \in Plan, Preview(r, target)
      PROVE  ReqTyped'
  <2>1. Opened(r, target)
    BY <1>1, Previewed
  <2> QED
    BY <2>1 DEF Opened, At, stripeVars, tableVars, ReqTyped,
       TypeOK, Steps, Sub
<1>2. ASSUME NEW r \in Request, ReadCompany(r)
      PROVE  ReqTyped'
  <2>1. WentOn(r)
    BY <1>2, WasRead
  <2> QED
    BY <2>1 DEF WentOn, Only, At, stripeVars, tableVars,
       historyVars, ReqTyped, TypeOK, Steps, Sub
<1>3. ASSUME NEW r \in Request, ApplyCredit(r)
      PROVE  ReqTyped'
  <2>1. Moved(r, "change")
    BY <1>3, Moves
  <2> QED
    BY <1>3, <2>1 DEF ApplyCredit, Moved, Only, At, tableVars,
       historyVars, ReqTyped, TypeOK, Steps, Sub
<1>4. ASSUME NEW r \in Request, UpdateSubscription(r)
      PROVE  ReqTyped'
  <2>1. Moved(r, "pay")
    BY <1>4, Moves
  <2> QED
    BY <1>4, <2>1 DEF UpdateSubscription, Collect, Emit, Moved,
       Only, At, tableVars, ReqTyped, TypeOK, Steps, Sub
<1>5. ASSUME NEW r \in Request, CreateSubscription(r)
      PROVE  ReqTyped'
  <2>1. GotOwn(r)
    BY <1>5, Created
  <2> QED
    BY <1>5, <2>1 DEF CreateSubscription, Collect, Emit, GotOwn,
       Only, At, tableVars, ReqTyped, TypeOK, Steps, Sub
<1>6. ASSUME NEW r \in Request, ChangeRefused(r)
      PROVE  ReqTyped'
  <2>1. RefusedAt(r, "change")
    BY <1>6, Refusals
  <2> QED
    BY <2>1 DEF RefusedAt, Moved, Ended, Only, Untouched, At,
       stripeVars, tableVars, ReqTyped, TypeOK, Steps, Sub
<1>7. ASSUME NEW r \in Request, Pay(r)
      PROVE  ReqTyped'
  <2>1. Moved(r, "row")
    BY <1>7, Moves
  <2> QED
    BY <1>7, <2>1 DEF Pay, Settle, Emit, Updated, InvoicePaid, Moved, Only, At,
       stripeVars, tableVars, historyVars, ReqTyped, TypeOK, Steps, Sub
<1>8. ASSUME NEW r \in Request, PayRefused(r)
      PROVE  ReqTyped'
  <2>1. RefusedAt(r, "pay")
    BY <1>8, Refusals
  <2> QED
    BY <2>1 DEF RefusedAt, Moved, Ended, Only, Untouched, At,
       stripeVars, tableVars, ReqTyped, TypeOK, Steps, Sub
<1>9. ASSUME NEW r \in Request, ReverseCredit(r)
      PROVE  ReqTyped'
  <2>1. Undone(r)
    BY <1>9, Reversed
  <2> QED
    BY <2>1 DEF Undone, Ended, Only, At, tableVars, ReqTyped,
       TypeOK, Steps, Sub
<1>10. ASSUME NEW r \in Request, UpdateRow(r)
      PROVE  ReqTyped'
  <2>1. Moved(r, "seat")
    BY <1>10, Moves
  <2> QED
    BY <1>10, <2>1 DEF UpdateRow, Moved, Only, At, stripeVars,
       historyVars, ReqTyped, TypeOK, Steps, Sub
<1>11. ASSUME NEW r \in Request, UpdateSeat(r)
      PROVE  ReqTyped'
  <2>1. Moved(r, "log")
    BY <1>11, Moves
  <2> QED
    BY <1>11, <2>1 DEF UpdateSeat, Moved, Only, At, stripeVars,
       historyVars, ReqTyped, TypeOK, Steps, Sub
<1>12. ASSUME NEW r \in Request, RecordAction(r)
      PROVE  ReqTyped'
  <2>1. Ended(r) /\ req'[r].torn = FALSE
    BY <1>12, Ends
  <2> QED
    BY <1>12, <2>1 DEF RecordAction, Ended, Only, At, stripeVars,
       ReqTyped, TypeOK, Steps, Sub
<1>13. ASSUME NEW r \in Request, Fail(r)
      PROVE  ReqTyped'
  <2>1. Ended(r) /\ (req'[r].torn <=> r \in credit \ paid)
    BY <1>13, Ends
  <2> QED
    BY <1>13, <2>1 DEF Fail, Untouched, Active, Ended, Only,
       stripeVars, tableVars, ReqTyped, TypeOK, Steps, Sub
<1>14. ASSUME NEW ending \in BOOLEAN, SetEnding(ending)
      PROVE  ReqTyped'
  BY <1>14 DEF SetEnding, tableVars, historyVars, ReqTyped,
     TypeOK, Steps, Sub
<1>15. ASSUME NEW s \in Sub, CustomerPays(s)
      PROVE  ReqTyped'
  BY <1>15 DEF CustomerPays, Settle, Emit, Updated, InvoicePaid, tableVars,
     historyVars, ReqTyped, TypeOK, Steps, Sub
<1>16. ASSUME RetryPayment
      PROVE  ReqTyped'
  <2>1. row.sub \in Sub /\ CustomerPays(row.sub)
    BY <1>16 DEF RetryPayment, CustomerPays, TypeOK
  <2> QED
    BY <2>1, <1>15
<1>17. ASSUME NEW s \in Sub, Expire(s)
      PROVE  ReqTyped'
  BY <1>17 DEF Expire, Emit, Updated, tableVars, historyVars, ReqTyped,
     TypeOK, Steps, Sub
<1>18. ASSUME NEW s \in Sub, EndSubscription(s)
      PROVE  ReqTyped'
  BY <1>18 DEF EndSubscription, Emit, EligibleStatus, tableVars, historyVars,
     ReqTyped, TypeOK, Steps, Sub
<1>21. ASSUME NEW s \in Sub, EndTrial(s)
      PROVE  ReqTyped'
  <2>1. TrialOver(s)
    BY <1>21, TrialEnds DEF TypeOK, SubTyped
  <2> QED
    BY <2>1 DEF TrialOver, tableVars, historyVars, ReqTyped, TypeOK
<1>19. ASSUME NEW e \in news, Webhook(e)
      PROVE  ReqTyped'
  BY <1>19 DEF Webhook, RowAfterInvoicePaid, stripeVars, historyVars, ReqTyped,
     TypeOK, Steps, Sub
<1>20. ASSUME UNCHANGED vars
      PROVE  ReqTyped'
  BY <1>20 DEF vars, ReqTyped, TypeOK, Steps, Sub
<1> QED
  BY <1>1, <1>2, <1>3, <1>4, <1>5, <1>6, <1>7, <1>8, <1>9, <1>10,
     <1>11, <1>12, <1>13, <1>14, <1>15, <1>16, <1>17, <1>18, <1>19, <1>20, <1>21
  DEF Next, RequestStep, TryStep, TableStep, AdminStep, StripeStep

LEMMA OnlyKept ==
    ASSUME TypeOK, ReqTyped, OneAtATime, [Next]_vars
    PROVE  OneAtATime'
<1>1. ASSUME NEW r \in Request, NEW target \in Plan, Preview(r, target)
      PROVE  OneAtATime'
  <2>1. Opened(r, target)
    BY <1>1, Previewed
  <2> QED
    BY <2>1 DEF Opened, At, stripeVars, tableVars, OneAtATime, ReqTyped, Active
<1>2. ASSUME NEW r \in Request, ReadCompany(r)
      PROVE  OneAtATime'
  <2>1. WentOn(r)
    BY <1>2, WasRead
  <2> QED
    BY <2>1 DEF WentOn, Only, At, stripeVars, tableVars, historyVars, OneAtATime,
       ReqTyped, Active
<1>3. ASSUME NEW r \in Request, ApplyCredit(r)
      PROVE  OneAtATime'
  <2>1. Moved(r, "change")
    BY <1>3, Moves
  <2> QED
    BY <1>3, <2>1 DEF ApplyCredit, Moved, Only, At, tableVars, historyVars,
       OneAtATime, ReqTyped, Active
<1>4. ASSUME NEW r \in Request, UpdateSubscription(r)
      PROVE  OneAtATime'
  <2>1. Moved(r, "pay")
    BY <1>4, Moves
  <2> QED
    BY <1>4, <2>1 DEF UpdateSubscription, Collect, Emit, Moved, Only, At, tableVars,
       OneAtATime, ReqTyped, Active
<1>5. ASSUME NEW r \in Request, CreateSubscription(r)
      PROVE  OneAtATime'
  <2>1. GotOwn(r)
    BY <1>5, Created
  <2> QED
    BY <1>5, <2>1 DEF CreateSubscription, Collect, Emit, GotOwn, Only, At,
       tableVars, OneAtATime, ReqTyped, Active
<1>6. ASSUME NEW r \in Request, ChangeRefused(r)
      PROVE  OneAtATime'
  <2>1. RefusedAt(r, "change")
    BY <1>6, Refusals
  <2> QED
    BY <2>1 DEF RefusedAt, Moved, Ended, Only, Untouched, At, stripeVars, tableVars,
       OneAtATime, ReqTyped, Active
<1>7. ASSUME NEW r \in Request, Pay(r)
      PROVE  OneAtATime'
  <2>1. Moved(r, "row")
    BY <1>7, Moves
  <2> QED
    BY <1>7, <2>1 DEF Pay, Settle, Emit, Updated, InvoicePaid, Moved, Only, At,
       stripeVars, tableVars,
       historyVars, OneAtATime, ReqTyped, Active
<1>8. ASSUME NEW r \in Request, PayRefused(r)
      PROVE  OneAtATime'
  <2>1. RefusedAt(r, "pay")
    BY <1>8, Refusals
  <2> QED
    BY <2>1 DEF RefusedAt, Moved, Ended, Only, Untouched, At, stripeVars, tableVars,
       OneAtATime, ReqTyped, Active
<1>9. ASSUME NEW r \in Request, ReverseCredit(r)
      PROVE  OneAtATime'
  <2>1. Undone(r)
    BY <1>9, Reversed
  <2> QED
    BY <2>1 DEF Undone, Ended, Only, At, tableVars, OneAtATime, ReqTyped, Active
<1>10. ASSUME NEW r \in Request, UpdateRow(r)
      PROVE  OneAtATime'
  <2>1. Moved(r, "seat")
    BY <1>10, Moves
  <2> QED
    BY <1>10, <2>1 DEF UpdateRow, Moved, Only, At, stripeVars, historyVars,
       OneAtATime, ReqTyped, Active
<1>11. ASSUME NEW r \in Request, UpdateSeat(r)
      PROVE  OneAtATime'
  <2>1. Moved(r, "log")
    BY <1>11, Moves
  <2> QED
    BY <1>11, <2>1 DEF UpdateSeat, Moved, Only, At, stripeVars, historyVars,
       OneAtATime, ReqTyped, Active
<1>12. ASSUME NEW r \in Request, RecordAction(r)
      PROVE  OneAtATime'
  <2>1. Ended(r) /\ req'[r].torn = FALSE
    BY <1>12, Ends
  <2> QED
    BY <1>12, <2>1 DEF RecordAction, Ended, Only, At, stripeVars, OneAtATime,
       ReqTyped, Active
<1>13. ASSUME NEW r \in Request, Fail(r)
      PROVE  OneAtATime'
  <2>1. Ended(r) /\ (req'[r].torn <=> r \in credit \ paid)
    BY <1>13, Ends
  <2> QED
    BY <1>13, <2>1 DEF Fail, Untouched, Active, Ended, Only, stripeVars, tableVars,
       OneAtATime, ReqTyped
<1>14. ASSUME NEW ending \in BOOLEAN, SetEnding(ending)
      PROVE  OneAtATime'
  BY <1>14 DEF SetEnding, tableVars, historyVars, OneAtATime, ReqTyped, Active
<1>15. ASSUME NEW s \in Sub, CustomerPays(s)
      PROVE  OneAtATime'
  BY <1>15 DEF CustomerPays, Settle, Emit, Updated, InvoicePaid, tableVars,
     historyVars, OneAtATime,
     ReqTyped, Active
<1>16. ASSUME RetryPayment
      PROVE  OneAtATime'
  <2>1. row.sub \in Sub /\ CustomerPays(row.sub)
    BY <1>16 DEF RetryPayment, CustomerPays, TypeOK
  <2> QED
    BY <2>1, <1>15
<1>17. ASSUME NEW s \in Sub, Expire(s)
      PROVE  OneAtATime'
  BY <1>17 DEF Expire, Emit, Updated, tableVars, historyVars, OneAtATime, ReqTyped,
     Active
<1>18. ASSUME NEW s \in Sub, EndSubscription(s)
      PROVE  OneAtATime'
  BY <1>18 DEF EndSubscription, Emit, EligibleStatus, tableVars, historyVars,
     OneAtATime, ReqTyped,
     Active
<1>21. ASSUME NEW s \in Sub, EndTrial(s)
      PROVE  OneAtATime'
  <2>1. TrialOver(s)
    BY <1>21, TrialEnds DEF TypeOK, SubTyped
  <2> QED
    BY <2>1 DEF TrialOver, tableVars, historyVars, OneAtATime, ReqTyped, Active
<1>19. ASSUME NEW e \in news, Webhook(e)
      PROVE  OneAtATime'
  BY <1>19 DEF Webhook, RowAfterInvoicePaid, stripeVars, historyVars, OneAtATime,
     ReqTyped, Active
<1>20. ASSUME UNCHANGED vars
      PROVE  OneAtATime'
  BY <1>20 DEF vars, OneAtATime, ReqTyped, Active
<1> QED
  BY <1>1, <1>2, <1>3, <1>4, <1>5, <1>6, <1>7, <1>8, <1>9, <1>10,
     <1>11, <1>12, <1>13, <1>14, <1>15, <1>16, <1>17, <1>18, <1>19, <1>20, <1>21
  DEF Next, RequestStep, TryStep, TableStep, AdminStep, StripeStep

LEMMA SubTypedKept ==
    ASSUME TypeOK, Shapes, [Next]_vars
    PROVE  SubTyped'
<1>1. ASSUME NEW r \in Request, NEW target \in Plan, Preview(r, target)
      PROVE  SubTyped'
  <2>1. Opened(r, target)
    BY <1>1, Previewed
  <2> QED
    BY <2>1 DEF Opened, At, stripeVars, tableVars, SubTyped,
       TypeOK, Status, Shapes, Shape, Late, Sub
<1>2. ASSUME NEW r \in Request, ReadCompany(r)
      PROVE  SubTyped'
  <2>1. WentOn(r)
    BY <1>2, WasRead
  <2> QED
    BY <2>1 DEF WentOn, Only, At, stripeVars, tableVars,
       historyVars, SubTyped, TypeOK, Status, Shapes, Shape, Late, Sub
<1>3. ASSUME NEW r \in Request, ApplyCredit(r)
      PROVE  SubTyped'
  <2>1. Moved(r, "change")
    BY <1>3, Moves
  <2> QED
    BY <1>3, <2>1 DEF ApplyCredit, Moved, Only, At, tableVars,
       historyVars, SubTyped, TypeOK, Status, Shapes, Shape, Late, Sub
<1>4. ASSUME NEW r \in Request, UpdateSubscription(r)
      PROVE  SubTyped'
  <2>1. Moved(r, "pay")
    BY <1>4, Moves
  <2> QED
    BY <1>4, <2>1 DEF UpdateSubscription, Collect, Emit, Moved,
       Only, At, tableVars, SubTyped, TypeOK, Status, Shapes, Shape, Late, Usable,
       Sub
<1>5. ASSUME NEW r \in Request, CreateSubscription(r)
      PROVE  SubTyped'
  <2>1. GotOwn(r)
    BY <1>5, Created
  <2> QED
    BY <1>5, <2>1 DEF CreateSubscription, Collect, Emit, GotOwn,
       Only, At, tableVars, SubTyped, TypeOK, Status, Shapes, Shape, Late, Sub
<1>6. ASSUME NEW r \in Request, ChangeRefused(r)
      PROVE  SubTyped'
  <2>1. RefusedAt(r, "change")
    BY <1>6, Refusals
  <2> QED
    BY <2>1 DEF RefusedAt, Moved, Ended, Only, Untouched, At,
       stripeVars, tableVars, SubTyped, TypeOK, Status, Shapes, Shape, Late, Sub
<1>7. ASSUME NEW r \in Request, Pay(r)
      PROVE  SubTyped'
  <2>1. Moved(r, "row")
    BY <1>7, Moves
  <2> QED
    BY <1>7, <2>1 DEF Pay, Settle, Emit, Updated, InvoicePaid, Moved, Only, At,
       stripeVars, tableVars, historyVars, SubTyped, TypeOK, Status, Shapes, Shape,
       Late, Sub
<1>8. ASSUME NEW r \in Request, PayRefused(r)
      PROVE  SubTyped'
  <2>1. RefusedAt(r, "pay")
    BY <1>8, Refusals
  <2> QED
    BY <2>1 DEF RefusedAt, Moved, Ended, Only, Untouched, At,
       stripeVars, tableVars, SubTyped, TypeOK, Status, Shapes, Shape, Late, Sub
<1>9. ASSUME NEW r \in Request, ReverseCredit(r)
      PROVE  SubTyped'
  <2>1. Undone(r)
    BY <1>9, Reversed
  <2> QED
    BY <2>1 DEF Undone, Ended, Only, At, tableVars, SubTyped,
       TypeOK, Status, Shapes, Shape, Late, Sub
<1>10. ASSUME NEW r \in Request, UpdateRow(r)
      PROVE  SubTyped'
  <2>1. Moved(r, "seat")
    BY <1>10, Moves
  <2> QED
    BY <1>10, <2>1 DEF UpdateRow, Moved, Only, At, stripeVars,
       historyVars, SubTyped, TypeOK, Status, Shapes, Shape, Late, Sub
<1>11. ASSUME NEW r \in Request, UpdateSeat(r)
      PROVE  SubTyped'
  <2>1. Moved(r, "log")
    BY <1>11, Moves
  <2> QED
    BY <1>11, <2>1 DEF UpdateSeat, Moved, Only, At, stripeVars,
       historyVars, SubTyped, TypeOK, Status, Shapes, Shape, Late, Sub
<1>12. ASSUME NEW r \in Request, RecordAction(r)
      PROVE  SubTyped'
  <2>1. Ended(r) /\ req'[r].torn = FALSE
    BY <1>12, Ends
  <2> QED
    BY <1>12, <2>1 DEF RecordAction, Ended, Only, At, stripeVars,
       SubTyped, TypeOK, Status, Shapes, Shape, Late, Sub
<1>13. ASSUME NEW r \in Request, Fail(r)
      PROVE  SubTyped'
  <2>1. Ended(r) /\ (req'[r].torn <=> r \in credit \ paid)
    BY <1>13, Ends
  <2> QED
    BY <1>13, <2>1 DEF Fail, Untouched, Active, Ended, Only, At,
       stripeVars, tableVars, SubTyped, TypeOK, Status, Shapes, Shape, Late, Sub
<1>14. ASSUME NEW ending \in BOOLEAN, SetEnding(ending)
      PROVE  SubTyped'
  BY <1>14 DEF SetEnding, At, tableVars, historyVars, SubTyped,
     TypeOK, Status, Shapes, Shape, Late, Sub
<1>15. ASSUME NEW s \in Sub, CustomerPays(s)
      PROVE  SubTyped'
  BY <1>15 DEF CustomerPays, Settle, Emit, Updated, InvoicePaid, At, tableVars,
     historyVars, SubTyped, TypeOK, Status, Shapes, Shape, Late, Sub
<1>16. ASSUME RetryPayment
      PROVE  SubTyped'
  <2>1. row.sub \in Sub /\ CustomerPays(row.sub)
    BY <1>16 DEF RetryPayment, CustomerPays, TypeOK
  <2> QED
    BY <2>1, <1>15
<1>17. ASSUME NEW s \in Sub, Expire(s)
      PROVE  SubTyped'
  BY <1>17 DEF Expire, Emit, Updated, At, tableVars, historyVars,
     SubTyped, TypeOK, Status, Shapes, Shape, Late, Sub
<1>18. ASSUME NEW s \in Sub, EndSubscription(s)
      PROVE  SubTyped'
  BY <1>18 DEF EndSubscription, Emit, EligibleStatus, At, tableVars, historyVars,
     SubTyped, TypeOK, Status, Shapes, Shape, Late, Sub
<1>21. ASSUME NEW s \in Sub, EndTrial(s)
      PROVE  SubTyped'
  <2>1. TrialOver(s)
    BY <1>21, TrialEnds DEF TypeOK, SubTyped
  <2> QED
    BY <2>1 DEF TrialOver, SubTyped
<1>19. ASSUME NEW e \in news, Webhook(e)
      PROVE  SubTyped'
  BY <1>19 DEF Webhook, RowAfterInvoicePaid, stripeVars, At, historyVars, SubTyped,
     TypeOK,
     Status, Shapes, Shape, Late, Sub
<1>20. ASSUME UNCHANGED vars
      PROVE  SubTyped'
  BY <1>20 DEF vars, At, SubTyped, TypeOK, Status, Shapes, Shape,
     Late, Sub
<1> QED
  BY <1>1, <1>2, <1>3, <1>4, <1>5, <1>6, <1>7, <1>8, <1>9, <1>10,
     <1>11, <1>12, <1>13, <1>14, <1>15, <1>16, <1>17, <1>18, <1>19, <1>20, <1>21
  DEF Next, RequestStep, TryStep, TableStep, AdminStep, StripeStep

LEMMA ShapesKept ==
    ASSUME TypeOK, ReqTyped, SubTyped, Shapes, [Next]_vars
    PROVE  Shapes'
<1>1. ASSUME NEW r \in Request, NEW target \in Plan, Preview(r, target)
      PROVE  Shapes'
  <2>1. Opened(r, target)
    BY <1>1, Previewed
  <2> QED
    BY <2>1 DEF Opened, At, stripeVars, tableVars, Shapes, Shape,
       Late, ReqTyped, SubTyped, Sub
<1>2. ASSUME NEW r \in Request, ReadCompany(r)
      PROVE  Shapes'
  <2>1. WentOn(r)
    BY <1>2, WasRead
  <2> QED
    BY <2>1 DEF WentOn, Only, At, stripeVars, tableVars,
       historyVars, Shapes, Shape, Late, ReqTyped, SubTyped, Sub
<1>3. ASSUME NEW r \in Request, ApplyCredit(r)
      PROVE  Shapes'
  <2>1. Moved(r, "change")
    BY <1>3, Moves
  <2> QED
    BY <1>3, <2>1 DEF ApplyCredit, Moved, Only, At, tableVars,
       historyVars, Shapes, Shape, Late, ReqTyped, SubTyped, Sub
<1>4. ASSUME NEW r \in Request, UpdateSubscription(r)
      PROVE  Shapes'
  <2>1. Moved(r, "pay")
    BY <1>4, Moves
  <2> QED
    BY <1>4, <2>1 DEF UpdateSubscription, Collect, Emit, Moved,
       Only, At, tableVars, Shapes, Shape, Late, ReqTyped, SubTyped, Sub
<1>5. ASSUME NEW r \in Request, CreateSubscription(r)
      PROVE  Shapes'
  <2>1. GotOwn(r)
    BY <1>5, Created
  <2> QED
    BY <1>5, <2>1, UpgradeAssumption DEF CreateSubscription, Collect, Emit, GotOwn,
       Only, At, tableVars, Shapes, Shape, Late, ReqTyped, SubTyped, Sub
<1>6. ASSUME NEW r \in Request, ChangeRefused(r)
      PROVE  Shapes'
  <2>1. RefusedAt(r, "change")
    BY <1>6, Refusals
  <2> QED
    BY <2>1 DEF RefusedAt, Moved, Ended, Only, Untouched, At,
       stripeVars, tableVars, Shapes, Shape, Late, ReqTyped, SubTyped, Sub
<1>7. ASSUME NEW r \in Request, Pay(r)
      PROVE  Shapes'
  <2>1. Moved(r, "row")
    BY <1>7, Moves
  <2> QED
    BY <1>7, <2>1 DEF Pay, Settle, Emit, Updated, InvoicePaid, Moved, Only, At,
       stripeVars, tableVars, historyVars, Shapes, Shape, Late, ReqTyped, SubTyped,
       Sub
<1>8. ASSUME NEW r \in Request, PayRefused(r)
      PROVE  Shapes'
  <2>1. RefusedAt(r, "pay")
    BY <1>8, Refusals
  <2> QED
    BY <2>1 DEF RefusedAt, Moved, Ended, Only, Untouched, At,
       stripeVars, tableVars, Shapes, Shape, Late, ReqTyped, SubTyped, Sub
<1>9. ASSUME NEW r \in Request, ReverseCredit(r)
      PROVE  Shapes'
  <2>1. Undone(r)
    BY <1>9, Reversed
  <2> QED
    BY <2>1 DEF Undone, Ended, Only, At, tableVars, Shapes,
       Shape, Late, ReqTyped, SubTyped, Sub
<1>10. ASSUME NEW r \in Request, UpdateRow(r)
      PROVE  Shapes'
  <2>1. Moved(r, "seat")
    BY <1>10, Moves
  <2> QED
    BY <1>10, <2>1 DEF UpdateRow, Moved, Only, At, stripeVars,
       historyVars, Shapes, Shape, Late, ReqTyped, SubTyped, Sub
<1>11. ASSUME NEW r \in Request, UpdateSeat(r)
      PROVE  Shapes'
  <2>1. Moved(r, "log")
    BY <1>11, Moves
  <2> QED
    BY <1>11, <2>1 DEF UpdateSeat, Moved, Only, At, stripeVars,
       historyVars, Shapes, Shape, Late, ReqTyped, SubTyped, Sub
<1>12. ASSUME NEW r \in Request, RecordAction(r)
      PROVE  Shapes'
  <2>1. Ended(r) /\ req'[r].torn = FALSE
    BY <1>12, Ends
  <2> QED
    BY <1>12, <2>1 DEF RecordAction, Ended, Only, At, stripeVars,
       Shapes, Shape, Late, ReqTyped, SubTyped, Sub
<1>13. ASSUME NEW r \in Request, Fail(r)
      PROVE  Shapes'
  <2>1. Ended(r) /\ (req'[r].torn <=> r \in credit \ paid)
    BY <1>13, Ends
  <2> QED
    BY <1>13, <2>1 DEF Fail, Untouched, Active, Ended, Only, At,
       stripeVars, tableVars, Shapes, Shape, Late, ReqTyped, SubTyped, Sub
<1>14. ASSUME NEW ending \in BOOLEAN, SetEnding(ending)
      PROVE  Shapes'
  BY <1>14 DEF SetEnding, At, tableVars, historyVars, Shapes,
     Shape, Late, ReqTyped, SubTyped, Sub
<1>15. ASSUME NEW s \in Sub, CustomerPays(s)
      PROVE  Shapes'
  BY <1>15, UpgradeAssumption DEF CustomerPays, Settle, Emit, Updated, InvoicePaid,
     At, tableVars,
     historyVars, Shapes, Shape, Late, ReqTyped, SubTyped, Sub
<1>16. ASSUME RetryPayment
      PROVE  Shapes'
  <2>1. row.sub \in Sub /\ CustomerPays(row.sub)
    BY <1>16 DEF RetryPayment, CustomerPays, TypeOK
  <2> QED
    BY <2>1, <1>15
<1>17. ASSUME NEW s \in Sub, Expire(s)
      PROVE  Shapes'
  BY <1>17 DEF Expire, Emit, Updated, At, tableVars, historyVars, Shapes,
     Shape, Late, ReqTyped, SubTyped, Sub
<1>18. ASSUME NEW s \in Sub, EndSubscription(s)
      PROVE  Shapes'
  BY <1>18 DEF EndSubscription, Emit, EligibleStatus, At, tableVars, historyVars,
     Shapes, Shape, Late, ReqTyped, SubTyped, Sub
<1>21. ASSUME NEW s \in Sub, EndTrial(s)
      PROVE  Shapes'
  <2>1. TrialOver(s)
    BY <1>21, TrialEnds DEF TypeOK, SubTyped
  <2> QED
    BY <2>1, UpgradeAssumption DEF TrialOver, At, tableVars, historyVars, Shapes,
       Shape, Late, ReqTyped, SubTyped, Sub
<1>19. ASSUME NEW e \in news, Webhook(e)
      PROVE  Shapes'
  BY <1>19 DEF Webhook, RowAfterInvoicePaid, stripeVars, At, historyVars, Shapes,
     Shape, Late,
     ReqTyped, SubTyped, Sub
<1>20. ASSUME UNCHANGED vars
      PROVE  Shapes'
  BY <1>20 DEF vars, At, Shapes, Shape, Late, ReqTyped, SubTyped,
     Sub
<1> QED
  BY <1>1, <1>2, <1>3, <1>4, <1>5, <1>6, <1>7, <1>8, <1>9, <1>10,
     <1>11, <1>12, <1>13, <1>14, <1>15, <1>16, <1>17, <1>18, <1>19, <1>20, <1>21
  DEF Next, RequestStep, TryStep, TableStep, AdminStep, StripeStep

LEMMA RefsKept ==
    ASSUME TypeOK, ReqTyped, SubTyped, Shapes, Refs, [Next]_vars
    PROVE  Refs'
<1>1. ASSUME NEW r \in Request, NEW target \in Plan, Preview(r, target)
      PROVE  Refs'
  <2>1. Opened(r, target)
    BY <1>1, Previewed
  <2> QED
    BY <2>1 DEF Opened, At, stripeVars, tableVars, Refs, Exists,
       ReqTyped, SubTyped, TypeOK, Sub, Shapes, Shape, Late
<1>2. ASSUME NEW r \in Request, ReadCompany(r)
      PROVE  Refs'
  <2>1. WentOn(r)
    BY <1>2, WasRead
  <2>2. SubscriptionId # None => Exists(SubscriptionId)
    BY DEF SubscriptionId, Refs
  <2> QED
    BY <2>1, <2>2 DEF WentOn, Only, Refs, Exists, stripeVars, tableVars
<1>3. ASSUME NEW r \in Request, ApplyCredit(r)
      PROVE  Refs'
  <2>1. Moved(r, "change")
    BY <1>3, Moves
  <2> QED
    BY <1>3, <2>1 DEF ApplyCredit, Moved, Only, At, tableVars,
       historyVars, Refs, Exists, ReqTyped, SubTyped, TypeOK, Sub, Shapes, Shape,
       Late
<1>4. ASSUME NEW r \in Request, UpdateSubscription(r)
      PROVE  Refs'
  <2>1. Moved(r, "pay")
    BY <1>4, Moves
  <2>2. Changed(r)
    BY <1>4, UpdateChanges
  <2>3. UNCHANGED <<newest, row>>
    BY <1>4 DEF UpdateSubscription, tableVars
  <2>4. \A t \in Sub : Exists(t) => sub'[t].status # "none"
    BY <2>2 DEF Changed, Exists
  <2> QED
    BY <2>1, <2>2, <2>3, <2>4 DEF Changed, Refs, Exists, Moved, Only, TypeOK, Event
<1>5. ASSUME NEW r \in Request, CreateSubscription(r)
      PROVE  Refs'
  <2>1. GotOwn(r)
    BY <1>5, Created
  <2> QED
    BY <1>5, <2>1, UpgradeAssumption DEF CreateSubscription, Collect, Emit, GotOwn,
       Only, At, tableVars, Refs, Exists, ReqTyped, SubTyped, TypeOK, Sub, Shapes,
       Shape, Late
<1>6. ASSUME NEW r \in Request, ChangeRefused(r)
      PROVE  Refs'
  <2>1. RefusedAt(r, "change")
    BY <1>6, Refusals
  <2> QED
    BY <2>1 DEF RefusedAt, Moved, Ended, Only, Untouched, At,
       stripeVars, tableVars, Refs, Exists, ReqTyped, SubTyped, TypeOK, Sub, Shapes,
       Shape, Late
<1>7. ASSUME NEW r \in Request, Pay(r)
      PROVE  Refs'
  <2>1. Moved(r, "row")
    BY <1>7, Moves
  <2>2. UNCHANGED row
    BY <1>7 DEF Pay, tableVars
  <2>3. CASE UNCHANGED stripeVars
    BY <2>1, <2>2, <2>3 DEF Refs, Moved, Only, Exists, stripeVars
  <2>4. CASE Settle(r, req[r].sub)
    <3>1. req[r].sub \in Sub
      BY <1>7 DEF Pay, Shapes, Shape, Late, At, TypeOK
    <3>2. Settled(r, req[r].sub)
      BY <2>4, <3>1, SettleIsMild
    <3> QED
      BY <2>1, <2>2, <3>1, <3>2 DEF Settled, Exists, Refs, Moved, Only, TypeOK,
         Event
  <2> QED
    BY <1>7, <2>3, <2>4 DEF Pay
<1>8. ASSUME NEW r \in Request, PayRefused(r)
      PROVE  Refs'
  <2>1. RefusedAt(r, "pay")
    BY <1>8, Refusals
  <2> QED
    BY <2>1 DEF RefusedAt, Moved, Ended, Only, Untouched, At,
       stripeVars, tableVars, Refs, Exists, ReqTyped, SubTyped, TypeOK, Sub, Shapes,
       Shape, Late
<1>9. ASSUME NEW r \in Request, ReverseCredit(r)
      PROVE  Refs'
  <2>1. Undone(r)
    BY <1>9, Reversed
  <2> QED
    BY <2>1 DEF Undone, Ended, Only, At, tableVars, Refs, Exists,
       ReqTyped, SubTyped, TypeOK, Sub, Shapes, Shape, Late
<1>10. ASSUME NEW r \in Request, UpdateRow(r)
      PROVE  Refs'
  <2>1. Moved(r, "seat")
    BY <1>10, Moves
  <2> QED
    BY <1>10, <2>1 DEF UpdateRow, Moved, Only, At, stripeVars,
       historyVars, Refs, Exists, ReqTyped, SubTyped, TypeOK, Sub, Shapes, Shape,
       Late
<1>11. ASSUME NEW r \in Request, UpdateSeat(r)
      PROVE  Refs'
  <2>1. Moved(r, "log")
    BY <1>11, Moves
  <2> QED
    BY <1>11, <2>1 DEF UpdateSeat, Moved, Only, At, stripeVars,
       historyVars, Refs, Exists, ReqTyped, SubTyped, TypeOK, Sub, Shapes, Shape,
       Late
<1>12. ASSUME NEW r \in Request, RecordAction(r)
      PROVE  Refs'
  <2>1. Ended(r) /\ req'[r].torn = FALSE
    BY <1>12, Ends
  <2> QED
    BY <1>12, <2>1 DEF RecordAction, Ended, Only, At, stripeVars,
       Refs, Exists, ReqTyped, SubTyped, TypeOK, Sub, Shapes, Shape, Late
<1>13. ASSUME NEW r \in Request, Fail(r)
      PROVE  Refs'
  <2>1. Ended(r) /\ (req'[r].torn <=> r \in credit \ paid)
    BY <1>13, Ends
  <2> QED
    BY <1>13, <2>1 DEF Fail, Untouched, Active, Ended, Only, At,
       stripeVars, tableVars, Refs, Exists, ReqTyped, SubTyped, TypeOK, Sub, Shapes,
       Shape, Late
<1>14. ASSUME NEW ending \in BOOLEAN, SetEnding(ending)
      PROVE  Refs'
  BY <1>14 DEF SetEnding, At, tableVars, historyVars, Refs,
     Exists, ReqTyped, SubTyped, TypeOK, Sub, Shapes, Shape, Late
<1>15. ASSUME NEW s \in Sub, CustomerPays(s)
      PROVE  Refs'
  <2>1. Settled(sub[s].latest, s) /\ UNCHANGED <<row, req>>
    BY <1>15, SettleIsMild DEF CustomerPays, tableVars
  <2> QED
    BY <2>1 DEF Settled, Refs, TypeOK, Event
<1>16. ASSUME RetryPayment
      PROVE  Refs'
  <2>1. row.sub \in Sub /\ CustomerPays(row.sub)
    BY <1>16 DEF RetryPayment, CustomerPays, TypeOK
  <2> QED
    BY <2>1, <1>15
<1>17. ASSUME NEW s \in Sub, Expire(s)
      PROVE  Refs'
  BY <1>17 DEF Expire, Emit, Updated, At, tableVars, historyVars, Refs,
     Exists, ReqTyped, SubTyped, TypeOK, Sub, Shapes, Shape, Late
<1>18. ASSUME NEW s \in Sub, EndSubscription(s)
      PROVE  Refs'
  BY <1>18 DEF EndSubscription, Emit, EligibleStatus, At, tableVars, historyVars,
     Refs, Exists, ReqTyped, SubTyped, TypeOK, Sub, Shapes, Shape, Late
<1>21. ASSUME NEW s \in Sub, EndTrial(s)
      PROVE  Refs'
  <2>1. TrialOver(s)
    BY <1>21, TrialEnds DEF TypeOK, SubTyped
  <2>2. UNCHANGED <<row, newest, req>> /\ \A t \in Sub : Exists(t)' <=> Exists(t)
    BY <2>1 DEF TrialOver, tableVars
  <2>3. \A e \in news' : e \in news \/ e.sub = s
    BY <2>1 DEF TrialOver
  <2>4. row.sub # None => row.sub \in Sub
    BY DEF TypeOK
  <2>5. newest # None => newest \in Sub
    BY DEF TypeOK
  <2>6. \A r \in Request : req[r].sub # None => req[r].sub \in Sub
    BY DEF TypeOK
  <2>7. \A e \in news : e.sub \in Sub
    BY DEF TypeOK, Event
  <2>8. Exists(s)'
    BY <2>1, <2>2 DEF TrialOver
  <2>9. \A e \in news' : Exists(e.sub)'
    BY <2>2, <2>3, <2>7, <2>8 DEF Refs
  <2> QED
    BY <2>2, <2>4, <2>5, <2>6, <2>9 DEF Refs
<1>19. ASSUME NEW e \in news, Webhook(e)
      PROVE  Refs'
  <2>1. RestTyped /\ SubTyped /\ news \subseteq Event
    BY DEF TypeOK, RestTyped, SubTyped
  <2>2. /\ row'.sub \in {row.sub, e.sub, None}
        /\ UNCHANGED <<stripeVars, req>>
    BY <1>19, <2>1, WebhookIsMild
  <2> QED
    BY <2>2 DEF stripeVars, Refs, Exists
<1>20. ASSUME UNCHANGED vars
      PROVE  Refs'
  BY <1>20 DEF vars, At, Refs, Exists, ReqTyped, SubTyped,
     TypeOK, Sub, Shapes, Shape, Late
<1> QED
  BY <1>1, <1>2, <1>3, <1>4, <1>5, <1>6, <1>7, <1>8, <1>9, <1>10,
     <1>11, <1>12, <1>13, <1>14, <1>15, <1>16, <1>17, <1>18, <1>19, <1>20, <1>21
  DEF Next, RequestStep, TryStep, TableStep, AdminStep, StripeStep

LEMMA RestTypedKept ==
    ASSUME TypeOK, Shapes, Refs, [Next]_vars
    PROVE  RestTyped'
<1>1. ASSUME NEW r \in Request, NEW target \in Plan, Preview(r, target)
      PROVE  RestTyped'
  <2>1. Opened(r, target)
    BY <1>1, Previewed
  <2> QED
    BY <2>1 DEF Opened, At, stripeVars, tableVars, RestTyped,
       TypeOK, Event, Status, Sub, Shapes, Shape
<1>2. ASSUME NEW r \in Request, ReadCompany(r)
      PROVE  RestTyped'
  <2>1. WentOn(r)
    BY <1>2, WasRead
  <2> QED
    BY <2>1 DEF WentOn, Only, At, stripeVars, tableVars,
       historyVars, RestTyped, TypeOK, Event, Status, Sub, Shapes, Shape
<1>3. ASSUME NEW r \in Request, ApplyCredit(r)
      PROVE  RestTyped'
  <2>1. Moved(r, "change")
    BY <1>3, Moves
  <2> QED
    BY <1>3, <2>1 DEF ApplyCredit, Moved, Only, At, tableVars,
       historyVars, RestTyped, TypeOK, Event, Status, Sub, Shapes, Shape
<1>4. ASSUME NEW r \in Request, UpdateSubscription(r)
      PROVE  RestTyped'
  <2>1. Moved(r, "pay")
    BY <1>4, Moves
  <2>2. Changed(r)
    BY <1>4, UpdateChanges
  <2>3. news' \subseteq Event
    BY <2>2 DEF Changed, TypeOK
  <2> QED
    BY <1>4, <2>2, <2>3 DEF UpdateSubscription, Changed, tableVars, RestTyped,
       TypeOK
<1>5. ASSUME NEW r \in Request, CreateSubscription(r)
      PROVE  RestTyped'
  <2>1. GotOwn(r)
    BY <1>5, Created
  <2> QED
    BY <1>5, <2>1, UpgradeAssumption DEF CreateSubscription, Collect, Emit, GotOwn,
       Only, At, tableVars, RestTyped, TypeOK, Event, Status, Sub, Shapes, Shape
<1>6. ASSUME NEW r \in Request, ChangeRefused(r)
      PROVE  RestTyped'
  <2>1. RefusedAt(r, "change")
    BY <1>6, Refusals
  <2> QED
    BY <2>1 DEF RefusedAt, Moved, Ended, Only, Untouched, At,
       stripeVars, tableVars, RestTyped, TypeOK, Event, Status, Sub, Shapes, Shape
<1>7. ASSUME NEW r \in Request, Pay(r)
      PROVE  RestTyped'
  <2>1. Moved(r, "row")
    BY <1>7, Moves
  <2>2. CASE UNCHANGED stripeVars
    BY <1>7, <2>2 DEF Pay, stripeVars, tableVars, historyVars, RestTyped, TypeOK
  <2>3. CASE Settle(r, req[r].sub)
    <3>1. req[r].sub \in Sub
      BY <1>7 DEF Pay, Shapes, Shape, Late, At, TypeOK
    <3>2. Settled(r, req[r].sub)
      BY <2>3, <3>1, SettleIsMild DEF TypeOK, SubTyped
    <3> QED
      BY <1>7, <3>2 DEF Pay, Settled, tableVars, historyVars, RestTyped, TypeOK
  <2> QED
    BY <1>7, <2>2, <2>3 DEF Pay
<1>8. ASSUME NEW r \in Request, PayRefused(r)
      PROVE  RestTyped'
  <2>1. RefusedAt(r, "pay")
    BY <1>8, Refusals
  <2> QED
    BY <2>1 DEF RefusedAt, Moved, Ended, Only, Untouched, At,
       stripeVars, tableVars, RestTyped, TypeOK, Event, Status, Sub, Shapes, Shape
<1>9. ASSUME NEW r \in Request, ReverseCredit(r)
      PROVE  RestTyped'
  <2>1. Undone(r)
    BY <1>9, Reversed
  <2> QED
    BY <2>1 DEF Undone, Ended, Only, At, tableVars, RestTyped,
       TypeOK, Event, Status, Sub, Shapes, Shape
<1>10. ASSUME NEW r \in Request, UpdateRow(r)
      PROVE  RestTyped'
  <2>1. Moved(r, "seat")
    BY <1>10, Moves
  <2> QED
    BY <1>10, <2>1 DEF UpdateRow, Moved, Only, At, stripeVars,
       historyVars, RestTyped, TypeOK, Event, Status, Sub, Shapes, Shape
<1>11. ASSUME NEW r \in Request, UpdateSeat(r)
      PROVE  RestTyped'
  <2>1. Moved(r, "log")
    BY <1>11, Moves
  <2> QED
    BY <1>11, <2>1 DEF UpdateSeat, Moved, Only, At, stripeVars,
       historyVars, RestTyped, TypeOK, Event, Status, Sub, Shapes, Shape
<1>12. ASSUME NEW r \in Request, RecordAction(r)
      PROVE  RestTyped'
  <2>1. Ended(r) /\ req'[r].torn = FALSE
    BY <1>12, Ends
  <2> QED
    BY <1>12, <2>1 DEF RecordAction, Ended, Only, At, stripeVars,
       RestTyped, TypeOK, Event, Status, Sub, Shapes, Shape
<1>13. ASSUME NEW r \in Request, Fail(r)
      PROVE  RestTyped'
  <2>1. Ended(r) /\ (req'[r].torn <=> r \in credit \ paid)
    BY <1>13, Ends
  <2> QED
    BY <1>13, <2>1 DEF Fail, Untouched, Active, Ended, Only, At,
       stripeVars, tableVars, RestTyped, TypeOK, Event, Status, Sub, Shapes, Shape
<1>14. ASSUME NEW ending \in BOOLEAN, SetEnding(ending)
      PROVE  RestTyped'
  BY <1>14 DEF SetEnding, At, tableVars, historyVars, RestTyped,
     TypeOK, Event, Status, Sub, Shapes, Shape
<1>15. ASSUME NEW s \in Sub, CustomerPays(s)
      PROVE  RestTyped'
  BY <1>15 DEF CustomerPays, Settle, Emit, Updated, InvoicePaid, At, tableVars,
     historyVars, RestTyped, TypeOK, Event, Status, Sub, Shapes, Shape
<1>16. ASSUME RetryPayment
      PROVE  RestTyped'
  <2>1. row.sub \in Sub /\ CustomerPays(row.sub)
    BY <1>16 DEF RetryPayment, CustomerPays, TypeOK
  <2> QED
    BY <2>1, <1>15
<1>17. ASSUME NEW s \in Sub, Expire(s)
      PROVE  RestTyped'
  BY <1>17 DEF Expire, Emit, Updated, At, tableVars, historyVars,
     RestTyped, TypeOK, Event, Status, Sub, Shapes, Shape
<1>18. ASSUME NEW s \in Sub, EndSubscription(s)
      PROVE  RestTyped'
  BY <1>18 DEF EndSubscription, Emit, EligibleStatus, At, tableVars, historyVars,
     RestTyped, TypeOK, Event, Status, Sub, Shapes, Shape
<1>21. ASSUME NEW s \in Sub, EndTrial(s)
      PROVE  RestTyped'
  <2>1. TrialOver(s)
    BY <1>21, TrialEnds DEF TypeOK, SubTyped
  <2> QED
    BY <2>1 DEF TrialOver, tableVars, historyVars, RestTyped, TypeOK
<1>19. ASSUME NEW e \in news, Webhook(e)
      PROVE  RestTyped'
  <2>1. RestTyped /\ SubTyped
    BY DEF TypeOK, RestTyped, SubTyped
  <2>2. /\ row' \in [plan : Plan, sub : Sub \cup {None}, status : Status]
        /\ UNCHANGED <<stripeVars, seat, log, req, historyVars>>
    BY <1>19, <2>1, WebhookIsMild
  <2> QED
    BY <2>1, <2>2 DEF stripeVars, historyVars, RestTyped
<1>20. ASSUME UNCHANGED vars
      PROVE  RestTyped'
  BY <1>20 DEF vars, At, RestTyped, TypeOK, Event, Status, Sub,
     Shapes, Shape
<1> QED
  BY <1>1, <1>2, <1>3, <1>4, <1>5, <1>6, <1>7, <1>8, <1>9, <1>10,
     <1>11, <1>12, <1>13, <1>14, <1>15, <1>16, <1>17, <1>18, <1>19, <1>20, <1>21
  DEF Next, RequestStep, TryStep, TableStep, AdminStep, StripeStep

LEMMA GrantedPlanKept ==
    ASSUME TypeOK, Shapes, GrantedPlanIsPaid, [Next]_vars
    PROVE  GrantedPlanIsPaid'
<1>1. ASSUME NEW r \in Request, NEW target \in Plan, Preview(r, target)
      PROVE  GrantedPlanIsPaid'
  <2>1. Opened(r, target)
    BY <1>1, Previewed
  <2> QED
    BY <2>1 DEF Opened, At, stripeVars, tableVars, GrantedPlanIsPaid, TypeOK,
       Shapes, Shape
<1>2. ASSUME NEW r \in Request, ReadCompany(r)
      PROVE  GrantedPlanIsPaid'
  <2>1. WentOn(r)
    BY <1>2, WasRead
  <2> QED
    BY <2>1 DEF WentOn, Only, At, stripeVars, tableVars, historyVars,
       GrantedPlanIsPaid, TypeOK, Shapes, Shape
<1>3. ASSUME NEW r \in Request, ApplyCredit(r)
      PROVE  GrantedPlanIsPaid'
  <2>1. Moved(r, "change")
    BY <1>3, Moves
  <2> QED
    BY <1>3, <2>1 DEF ApplyCredit, Moved, Only, At, tableVars, historyVars,
       GrantedPlanIsPaid, TypeOK, Shapes, Shape
<1>4. ASSUME NEW r \in Request, UpdateSubscription(r)
      PROVE  GrantedPlanIsPaid'
  <2>1. Moved(r, "pay")
    BY <1>4, Moves
  <2> QED
    BY <1>4, <2>1 DEF UpdateSubscription, Collect, Emit, Moved, Only, At, tableVars,
       GrantedPlanIsPaid, TypeOK, Shapes, Shape
<1>5. ASSUME NEW r \in Request, CreateSubscription(r)
      PROVE  GrantedPlanIsPaid'
  <2>1. GotOwn(r)
    BY <1>5, Created
  <2> QED
    BY <1>5, <2>1 DEF CreateSubscription, Collect, Emit, GotOwn, Only, At,
       tableVars, GrantedPlanIsPaid, TypeOK, Shapes, Shape
<1>6. ASSUME NEW r \in Request, ChangeRefused(r)
      PROVE  GrantedPlanIsPaid'
  <2>1. RefusedAt(r, "change")
    BY <1>6, Refusals
  <2> QED
    BY <2>1 DEF RefusedAt, Moved, Ended, Only, Untouched, At, stripeVars, tableVars,
       GrantedPlanIsPaid, TypeOK, Shapes, Shape
<1>7. ASSUME NEW r \in Request, Pay(r)
      PROVE  GrantedPlanIsPaid'
  <2>1. Moved(r, "row")
    BY <1>7, Moves
  <2> QED
    BY <1>7, <2>1 DEF Pay, Settle, Emit, Updated, InvoicePaid, Moved, Only, At,
       stripeVars, tableVars,
       historyVars, GrantedPlanIsPaid, TypeOK, Shapes, Shape
<1>8. ASSUME NEW r \in Request, PayRefused(r)
      PROVE  GrantedPlanIsPaid'
  <2>1. RefusedAt(r, "pay")
    BY <1>8, Refusals
  <2> QED
    BY <2>1 DEF RefusedAt, Moved, Ended, Only, Untouched, At, stripeVars, tableVars,
       GrantedPlanIsPaid, TypeOK, Shapes, Shape
<1>9. ASSUME NEW r \in Request, ReverseCredit(r)
      PROVE  GrantedPlanIsPaid'
  <2>1. Undone(r)
    BY <1>9, Reversed
  <2> QED
    BY <2>1 DEF Undone, Ended, Only, At, tableVars, GrantedPlanIsPaid, TypeOK,
       Shapes, Shape
<1>10. ASSUME NEW r \in Request, UpdateRow(r)
      PROVE  GrantedPlanIsPaid'
  <2>1. Moved(r, "seat")
    BY <1>10, Moves
  <2> QED
    BY <1>10, <2>1 DEF UpdateRow, Moved, Only, At, stripeVars, historyVars,
       GrantedPlanIsPaid, TypeOK, Shapes, Shape
<1>11. ASSUME NEW r \in Request, UpdateSeat(r)
      PROVE  GrantedPlanIsPaid'
  <2>1. Moved(r, "log")
    BY <1>11, Moves
  <2> QED
    BY <1>11, <2>1 DEF UpdateSeat, Moved, Only, At, stripeVars, historyVars,
       GrantedPlanIsPaid, TypeOK, Shapes, Shape
<1>12. ASSUME NEW r \in Request, RecordAction(r)
      PROVE  GrantedPlanIsPaid'
  <2>1. Ended(r) /\ req'[r].torn = FALSE
    BY <1>12, Ends
  <2> QED
    BY <1>12, <2>1 DEF RecordAction, Ended, Only, At, stripeVars, GrantedPlanIsPaid,
       TypeOK, Shapes, Shape
<1>13. ASSUME NEW r \in Request, Fail(r)
      PROVE  GrantedPlanIsPaid'
  <2>1. Ended(r) /\ (req'[r].torn <=> r \in credit \ paid)
    BY <1>13, Ends
  <2> QED
    BY <1>13, <2>1 DEF Fail, Untouched, Active, Ended, Only, At, stripeVars,
       tableVars, GrantedPlanIsPaid, TypeOK, Shapes, Shape
<1>14. ASSUME NEW ending \in BOOLEAN, SetEnding(ending)
      PROVE  GrantedPlanIsPaid'
  BY <1>14 DEF SetEnding, At, tableVars, historyVars, GrantedPlanIsPaid, TypeOK,
     Shapes, Shape
<1>15. ASSUME NEW s \in Sub, CustomerPays(s)
      PROVE  GrantedPlanIsPaid'
  BY <1>15 DEF CustomerPays, Settle, Emit, Updated, InvoicePaid, At, tableVars,
     historyVars,
     GrantedPlanIsPaid, TypeOK, Shapes, Shape
<1>16. ASSUME RetryPayment
      PROVE  GrantedPlanIsPaid'
  <2>1. row.sub \in Sub /\ CustomerPays(row.sub)
    BY <1>16 DEF RetryPayment, CustomerPays, TypeOK
  <2> QED
    BY <2>1, <1>15
<1>17. ASSUME NEW s \in Sub, Expire(s)
      PROVE  GrantedPlanIsPaid'
  BY <1>17 DEF Expire, Emit, Updated, At, tableVars, historyVars,
     GrantedPlanIsPaid, TypeOK,
     Shapes, Shape
<1>18. ASSUME NEW s \in Sub, EndSubscription(s)
      PROVE  GrantedPlanIsPaid'
  BY <1>18 DEF EndSubscription, Emit, EligibleStatus, At, tableVars, historyVars,
     GrantedPlanIsPaid,
     TypeOK, Shapes, Shape
<1>21. ASSUME NEW s \in Sub, EndTrial(s)
      PROVE  GrantedPlanIsPaid'
  <2>1. TrialOver(s)
    BY <1>21, TrialEnds DEF TypeOK, SubTyped
  <2> QED
    BY <2>1 DEF TrialOver, tableVars, historyVars, GrantedPlanIsPaid
<1>19. ASSUME NEW e \in news, Webhook(e)
      PROVE  GrantedPlanIsPaid'
  BY <1>19 DEF Webhook, RowAfterInvoicePaid, stripeVars, At, historyVars,
     GrantedPlanIsPaid, TypeOK, Shapes, Shape
<1>20. ASSUME UNCHANGED vars
      PROVE  GrantedPlanIsPaid'
  BY <1>20 DEF vars, At, GrantedPlanIsPaid, TypeOK, Shapes, Shape
<1> QED
  BY <1>1, <1>2, <1>3, <1>4, <1>5, <1>6, <1>7, <1>8, <1>9, <1>10,
     <1>11, <1>12, <1>13, <1>14, <1>15, <1>16, <1>17, <1>18, <1>19, <1>20, <1>21
  DEF Next, RequestStep, TryStep, TableStep, AdminStep, StripeStep

LEMMA AloneShapesKept ==
    ASSUME TypeOK, Shapes, OneAtATime, AloneShapes, [Next]_vars
    PROVE  AloneShapes'
<1>1. ASSUME NEW r \in Request, NEW target \in Plan, Preview(r, target)
      PROVE  AloneShapes'
  <2>1. Opened(r, target)
    BY <1>1, Previewed
  <2> QED
    BY <2>1 DEF Opened, At, stripeVars, tableVars, AloneShapes,
       AloneShape, OneAtATime, Active, Late, TypeOK, Shapes, Shape, Sub
<1>2. ASSUME NEW r \in Request, ReadCompany(r)
      PROVE  AloneShapes'
  <2>1. WentOn(r)
    BY <1>2, WasRead
  <2> QED
    BY <2>1 DEF WentOn, Only, At, stripeVars, tableVars,
       historyVars, AloneShapes, AloneShape, OneAtATime, Active, Late, TypeOK,
       Shapes, Shape, Sub
<1>3. ASSUME NEW r \in Request, ApplyCredit(r)
      PROVE  AloneShapes'
  <2>1. Moved(r, "change")
    BY <1>3, Moves
  <2> QED
    BY <1>3, <2>1 DEF ApplyCredit, Moved, Only, At, tableVars,
       historyVars, AloneShapes, AloneShape, OneAtATime, Active, Late, TypeOK,
       Shapes, Shape, Sub
<1>4. ASSUME NEW r \in Request, UpdateSubscription(r)
      PROVE  AloneShapes'
  <2>1. Moved(r, "pay")
    BY <1>4, Moves
  <2> QED
    BY <1>4, <2>1 DEF UpdateSubscription, Collect, Emit, Moved,
       Only, At, tableVars, AloneShapes, AloneShape, OneAtATime, Active, Late,
       TypeOK, Shapes, Shape, Sub
<1>5. ASSUME NEW r \in Request, CreateSubscription(r)
      PROVE  AloneShapes'
  <2>1. GotOwn(r)
    BY <1>5, Created
  <2> QED
    BY <1>5, <2>1 DEF CreateSubscription, Collect, Emit, GotOwn,
       Only, At, tableVars, AloneShapes, AloneShape, OneAtATime, Active, Late,
       TypeOK, Shapes, Shape, Sub
<1>6. ASSUME NEW r \in Request, ChangeRefused(r)
      PROVE  AloneShapes'
  <2>1. RefusedAt(r, "change")
    BY <1>6, Refusals
  <2> QED
    BY <2>1 DEF RefusedAt, Moved, Ended, Only, Untouched, At,
       stripeVars, tableVars, AloneShapes, AloneShape, OneAtATime, Active, Late,
       TypeOK, Shapes, Shape, Sub
<1>7. ASSUME NEW r \in Request, Pay(r)
      PROVE  AloneShapes'
  <2>1. Moved(r, "row")
    BY <1>7, Moves
  <2> QED
    BY <1>7, <2>1 DEF Pay, Settle, Emit, Updated, InvoicePaid, Moved, Only, At,
       stripeVars, tableVars, historyVars, AloneShapes, AloneShape, OneAtATime,
       Active, Late, TypeOK, Shapes, Shape, Sub
<1>8. ASSUME NEW r \in Request, PayRefused(r)
      PROVE  AloneShapes'
  <2>1. RefusedAt(r, "pay")
    BY <1>8, Refusals
  <2> QED
    BY <2>1 DEF RefusedAt, Moved, Ended, Only, Untouched, At,
       stripeVars, tableVars, AloneShapes, AloneShape, OneAtATime, Active, Late,
       TypeOK, Shapes, Shape, Sub
<1>9. ASSUME NEW r \in Request, ReverseCredit(r)
      PROVE  AloneShapes'
  <2>1. Undone(r)
    BY <1>9, Reversed
  <2> QED
    BY <2>1 DEF Undone, Ended, Only, At, tableVars, AloneShapes,
       AloneShape, OneAtATime, Active, Late, TypeOK, Shapes, Shape, Sub
<1>10. ASSUME NEW r \in Request, UpdateRow(r)
      PROVE  AloneShapes'
  <2>1. Moved(r, "seat")
    BY <1>10, Moves
  <2> QED
    BY <1>10, <2>1 DEF UpdateRow, Moved, Only, At, stripeVars,
       historyVars, AloneShapes, AloneShape, OneAtATime, Active, Late, TypeOK,
       Shapes, Shape, Sub
<1>11. ASSUME NEW r \in Request, UpdateSeat(r)
      PROVE  AloneShapes'
  <2>1. Moved(r, "log")
    BY <1>11, Moves
  <2> QED
    BY <1>11, <2>1 DEF UpdateSeat, Moved, Only, At, stripeVars,
       historyVars, AloneShapes, AloneShape, OneAtATime, Active, Late, TypeOK,
       Shapes, Shape, Sub
<1>12. ASSUME NEW r \in Request, RecordAction(r)
      PROVE  AloneShapes'
  <2>1. Ended(r) /\ req'[r].torn = FALSE
    BY <1>12, Ends
  <2> QED
    BY <1>12, <2>1 DEF RecordAction, Ended, Only, At, stripeVars,
       AloneShapes, AloneShape, OneAtATime, Active, Late, TypeOK, Shapes, Shape, Sub
<1>13. ASSUME NEW r \in Request, Fail(r)
      PROVE  AloneShapes'
  <2>1. Ended(r) /\ (req'[r].torn <=> r \in credit \ paid)
    BY <1>13, Ends
  <2> QED
    BY <1>13, <2>1 DEF Fail, Untouched, Active, Ended, Only, At,
       stripeVars, tableVars, AloneShapes, AloneShape, OneAtATime, Late, TypeOK,
       Shapes, Shape, Sub
<1>14. ASSUME NEW ending \in BOOLEAN, SetEnding(ending)
      PROVE  AloneShapes'
  BY <1>14 DEF SetEnding, At, tableVars, historyVars,
     AloneShapes, AloneShape, OneAtATime, Active, Late, TypeOK, Shapes, Shape, Sub
<1>15. ASSUME NEW s \in Sub, CustomerPays(s)
      PROVE  AloneShapes'
  BY <1>15 DEF CustomerPays, Settle, Emit, Updated, InvoicePaid, At, tableVars,
     historyVars, AloneShapes, AloneShape, OneAtATime, Active, Late, TypeOK, Shapes,
     Shape, Sub
<1>16. ASSUME RetryPayment
      PROVE  AloneShapes'
  <2>1. row.sub \in Sub /\ CustomerPays(row.sub)
    BY <1>16 DEF RetryPayment, CustomerPays, TypeOK
  <2> QED
    BY <2>1, <1>15
<1>17. ASSUME NEW s \in Sub, Expire(s)
      PROVE  AloneShapes'
  BY <1>17 DEF Expire, Emit, Updated, At, tableVars, historyVars,
     AloneShapes, AloneShape, OneAtATime, Active, Late, TypeOK, Shapes, Shape, Sub
<1>18. ASSUME NEW s \in Sub, EndSubscription(s)
      PROVE  AloneShapes'
  BY <1>18 DEF EndSubscription, Emit, EligibleStatus, At, tableVars, historyVars,
     AloneShapes, AloneShape, OneAtATime, Active, Late, TypeOK, Shapes, Shape, Sub
<1>21. ASSUME NEW s \in Sub, EndTrial(s)
      PROVE  AloneShapes'
  <2>1. TrialOver(s)
    BY <1>21, TrialEnds DEF TypeOK, SubTyped
  <2> QED
    BY <2>1 DEF TrialOver, At, tableVars, historyVars, AloneShapes, AloneShape,
       Late, TypeOK, Shapes, Shape
<1>19. ASSUME NEW e \in news, Webhook(e)
      PROVE  AloneShapes'
  BY <1>19 DEF Webhook, RowAfterInvoicePaid, stripeVars, At, historyVars,
     AloneShapes, AloneShape,
     OneAtATime, Active, Late, TypeOK, Shapes, Shape, Sub
<1>20. ASSUME UNCHANGED vars
      PROVE  AloneShapes'
  BY <1>20 DEF vars, At, AloneShapes, AloneShape, OneAtATime,
     Active, Late, TypeOK, Shapes, Shape, Sub
<1> QED
  BY <1>1, <1>2, <1>3, <1>4, <1>5, <1>6, <1>7, <1>8, <1>9, <1>10,
     <1>11, <1>12, <1>13, <1>14, <1>15, <1>16, <1>17, <1>18, <1>19, <1>20, <1>21
  DEF Next, RequestStep, TryStep, TableStep, AdminStep, StripeStep

LEMMA SoundShapeKept ==
    ASSUME TypeOK, Shapes, Refs, OneAtATime, AloneShapes, SoundShape, [Next]_vars
    PROVE  SoundShape'
<1>1. ASSUME NEW r \in Request, NEW target \in Plan, Preview(r, target)
      PROVE  SoundShape'
  <2>1. Opened(r, target)
    BY <1>1, Previewed
  <2> QED
    BY <2>1 DEF Opened, At, stripeVars, tableVars, SoundShape,
       OneSubscription, Exists, AloneShapes, AloneShape, OneAtATime, Active, Late,
       TypeOK, Shapes, Shape, Refs, Sub
<1>2. ASSUME NEW r \in Request, ReadCompany(r)
      PROVE  SoundShape'
  <2>1. WentOn(r)
    BY <1>2, WasRead
  <2> QED
    BY <2>1 DEF WentOn, Only, At, stripeVars, tableVars,
       historyVars, SoundShape, OneSubscription, Exists, AloneShapes, AloneShape,
       OneAtATime, Active, Late, TypeOK, Shapes, Shape, Refs, Sub
<1>3. ASSUME NEW r \in Request, ApplyCredit(r)
      PROVE  SoundShape'
  <2>1. Moved(r, "change")
    BY <1>3, Moves
  <2> QED
    BY <1>3, <2>1 DEF ApplyCredit, Moved, Only, At, tableVars,
       historyVars, SoundShape, OneSubscription, Exists, AloneShapes, AloneShape,
       OneAtATime, Active, Late, TypeOK, Shapes, Shape, Refs, Sub
<1>4. ASSUME NEW r \in Request, UpdateSubscription(r)
      PROVE  SoundShape'
  <2>1. Moved(r, "pay")
    BY <1>4, Moves
  <2> QED
    BY <1>4, <2>1 DEF UpdateSubscription, Collect, Emit, Moved,
       Only, At, tableVars, SoundShape, OneSubscription, Exists, AloneShapes,
       AloneShape, OneAtATime, Active, Late, TypeOK, Shapes, Shape, Refs, Sub
<1>5. ASSUME NEW r \in Request, CreateSubscription(r)
      PROVE  SoundShape'
  <2>1. GotOwn(r)
    BY <1>5, Created
  <2> QED
    BY <1>5, <2>1 DEF CreateSubscription, Collect, Emit, GotOwn,
       Only, At, tableVars, SoundShape, OneSubscription, Exists, AloneShapes,
       AloneShape, OneAtATime, Active, Late, TypeOK, Shapes, Shape, Refs, Sub
<1>6. ASSUME NEW r \in Request, ChangeRefused(r)
      PROVE  SoundShape'
  <2>1. RefusedAt(r, "change")
    BY <1>6, Refusals
  <2> QED
    BY <2>1 DEF RefusedAt, Moved, Ended, Only, Untouched, At,
       stripeVars, tableVars, SoundShape, OneSubscription, Exists, AloneShapes,
       AloneShape, OneAtATime, Active, Late, TypeOK, Shapes, Shape, Refs, Sub
<1>7. ASSUME NEW r \in Request, Pay(r)
      PROVE  SoundShape'
  <2>1. Moved(r, "row")
    BY <1>7, Moves
  <2> QED
    BY <1>7, <2>1 DEF Pay, Settle, Emit, Updated, InvoicePaid, Moved, Only, At,
       stripeVars, tableVars, historyVars, SoundShape, OneSubscription, Exists,
       AloneShapes, AloneShape, OneAtATime, Active, Late, TypeOK, Shapes, Shape,
       Refs, Sub
<1>8. ASSUME NEW r \in Request, PayRefused(r)
      PROVE  SoundShape'
  <2>1. RefusedAt(r, "pay")
    BY <1>8, Refusals
  <2> QED
    BY <2>1 DEF RefusedAt, Moved, Ended, Only, Untouched, At,
       stripeVars, tableVars, SoundShape, OneSubscription, Exists, AloneShapes,
       AloneShape, OneAtATime, Active, Late, TypeOK, Shapes, Shape, Refs, Sub
<1>9. ASSUME NEW r \in Request, ReverseCredit(r)
      PROVE  SoundShape'
  <2>1. Undone(r)
    BY <1>9, Reversed
  <2> QED
    BY <2>1 DEF Undone, Ended, Only, At, tableVars, SoundShape,
       OneSubscription, Exists, AloneShapes, AloneShape, OneAtATime, Active, Late,
       TypeOK, Shapes, Shape, Refs, Sub
<1>10. ASSUME NEW r \in Request, UpdateRow(r)
      PROVE  SoundShape'
  <2>1. Moved(r, "seat")
    BY <1>10, Moves
  <2> QED
    BY <1>10, <2>1 DEF UpdateRow, Moved, Only, At, stripeVars,
       historyVars, SoundShape, OneSubscription, Exists, AloneShapes, AloneShape,
       OneAtATime, Active, Late, TypeOK, Shapes, Shape, Refs, Sub
<1>11. ASSUME NEW r \in Request, UpdateSeat(r)
      PROVE  SoundShape'
  <2>1. Moved(r, "log")
    BY <1>11, Moves
  <2> QED
    BY <1>11, <2>1 DEF UpdateSeat, Moved, Only, At, stripeVars,
       historyVars, SoundShape, OneSubscription, Exists, AloneShapes, AloneShape,
       OneAtATime, Active, Late, TypeOK, Shapes, Shape, Refs, Sub
<1>12. ASSUME NEW r \in Request, RecordAction(r)
      PROVE  SoundShape'
  <2>1. Ended(r) /\ req'[r].torn = FALSE
    BY <1>12, Ends
  <2> SUFFICES ASSUME sound'
               PROVE  /\ \A q \in Request : ~Late(q)'
                      /\ (seat = row.plan)' /\ (log = row.plan)'
                      /\ OneSubscription' => \A s \in Sub : Exists(s)' => sub'[s].plan = row'.plan
    BY DEF SoundShape
  <2>3. At(r, "log") /\ req[r].alone /\ log' = req[r].target
        /\ UNCHANGED <<sub, row, seat>>
    BY <1>12 DEF RecordAction, stripeVars
  <2>4. row.plan = req[r].target /\ seat = req[r].target
        /\ req[r].sub \in Sub /\ sub[req[r].sub].plan = req[r].target
    BY <2>3 DEF AloneShapes, AloneShape, Shapes, Shape, Late, At, TypeOK
  <2>5. Exists(req[r].sub)
    BY <2>4, UpgradeAssumption DEF Refs, Sub
  <2>6. \A q \in Request : q # r => ~Active(q)
    BY <2>3 DEF OneAtATime, Active, At
  <2>7. \A q \in Request : ~Late(q)'
    BY <2>1, <2>6 DEF Ended, Only, Late, Active
  <2>8. ASSUME OneSubscription', NEW s \in Sub, Exists(s)'
        PROVE  sub'[s].plan = row'.plan
    <3>1. s = req[r].sub
      BY <2>3, <2>4, <2>5, <2>8 DEF OneSubscription, Exists
    <3> QED
      BY <2>3, <2>4, <3>1
  <2> QED
    BY <2>3, <2>4, <2>7, <2>8
<1>13. ASSUME NEW r \in Request, Fail(r)
      PROVE  SoundShape'
  <2>1. Ended(r) /\ (req'[r].torn <=> r \in credit \ paid)
    BY <1>13, Ends
  <2> QED
    BY <1>13, <2>1 DEF Fail, Untouched, Active, Ended, Only, At,
       stripeVars, tableVars, SoundShape, OneSubscription, Exists, AloneShapes,
       AloneShape, OneAtATime, Late, TypeOK, Shapes, Shape, Refs, Sub
<1>14. ASSUME NEW ending \in BOOLEAN, SetEnding(ending)
      PROVE  SoundShape'
  BY <1>14 DEF SetEnding, At, tableVars, historyVars, SoundShape,
     OneSubscription, Exists, AloneShapes, AloneShape, OneAtATime, Active, Late,
     TypeOK, Shapes, Shape, Refs, Sub
<1>15. ASSUME NEW s \in Sub, CustomerPays(s)
      PROVE  SoundShape'
  <2>1. Settle(sub[s].latest, s) /\ UNCHANGED <<tableVars, req, historyVars>>
    BY <1>15 DEF CustomerPays
  <2>2. Settled(sub[s].latest, s)
    BY <2>1, SettleIsMild DEF TypeOK, SubTyped
  <2> QED
    BY <2>1, <2>2 DEF Settled, tableVars, historyVars, SoundShape, OneSubscription,
       Exists, Late
<1>16. ASSUME RetryPayment
      PROVE  SoundShape'
  <2>1. row.sub \in Sub /\ CustomerPays(row.sub)
    BY <1>16 DEF RetryPayment, CustomerPays, TypeOK
  <2> QED
    BY <2>1, <1>15
<1>17. ASSUME NEW s \in Sub, Expire(s)
      PROVE  SoundShape'
  BY <1>17 DEF Expire, Emit, Updated, At, tableVars, historyVars,
     SoundShape, OneSubscription, Exists, AloneShapes, AloneShape, OneAtATime,
     Active, Late, TypeOK, Shapes, Shape, Refs, Sub
<1>18. ASSUME NEW s \in Sub, EndSubscription(s)
      PROVE  SoundShape'
  BY <1>18 DEF EndSubscription, Emit, EligibleStatus, At, tableVars, historyVars,
     SoundShape, OneSubscription, Exists, AloneShapes, AloneShape, OneAtATime,
     Active, Late, TypeOK, Shapes, Shape, Refs, Sub
<1>21. ASSUME NEW s \in Sub, EndTrial(s)
      PROVE  SoundShape'
  <2>1. TrialOver(s)
    BY <1>21, TrialEnds DEF TypeOK, SubTyped
  <2> QED
    BY <2>1 DEF TrialOver, At, tableVars, historyVars, SoundShape, OneSubscription,
       Exists, Late
<1>19. ASSUME NEW e \in news, Webhook(e)
      PROVE  SoundShape'
  BY <1>19 DEF Webhook, RowAfterInvoicePaid, stripeVars, At, historyVars, SoundShape,
     OneSubscription, Exists, AloneShapes, AloneShape, OneAtATime, Active, Late,
     TypeOK, Shapes, Shape, Refs, Sub
<1>20. ASSUME UNCHANGED vars
      PROVE  SoundShape'
  BY <1>20 DEF vars, At, SoundShape, OneSubscription, Exists,
     AloneShapes, AloneShape, OneAtATime, Active, Late, TypeOK, Shapes, Shape, Refs,
     Sub
<1> QED
  BY <1>1, <1>2, <1>3, <1>4, <1>5, <1>6, <1>7, <1>8, <1>9, <1>10,
     <1>11, <1>12, <1>13, <1>14, <1>15, <1>16, <1>17, <1>18, <1>19, <1>20, <1>21
  DEF Next, RequestStep, TryStep, TableStep, AdminStep, StripeStep

LEMMA CleanShapeKept ==
    ASSUME TypeOK, Shapes, Refs, OneAtATime, AloneShapes, CleanShape, [Next]_vars
    PROVE  CleanShape'
<1>1. ASSUME NEW r \in Request, NEW target \in Plan, Preview(r, target)
      PROVE  CleanShape'
  <2>1. Opened(r, target)
    BY <1>1, Previewed
  <2> QED
    BY <2>1 DEF Opened, At, stripeVars, tableVars, CleanShape,
       CleanRequest, OneSubscription, Exists, AloneShapes, AloneShape, OneAtATime,
       Active, Late, TypeOK, Shapes, Shape, Refs, Sub
<1>2. ASSUME NEW r \in Request, ReadCompany(r)
      PROVE  CleanShape'
  <2>1. WentOn(r)
    BY <1>2, WasRead
  <2> SUFFICES ASSUME clean' PROVE CleanShape'
    BY DEF CleanShape
  <2>2. clean /\ At(r, "read") /\ UNCHANGED <<sub, newest, credit, row>>
    BY <2>1 DEF WentOn, stripeVars, tableVars, historyVars
  <2>3. /\ req[r].alone
        /\ \A q \in Request : q # r => ~Active(q) /\ ~Late(q)
    BY <2>2, Lonely DEF Active, At
  <2>4. ~Late(r) /\ \A q \in Request : ~Late(q)
    BY <2>2, <2>3 DEF Late, At
  <2>5. SubscriptionId = None => \A s \in Sub : ~Exists(s)
    BY <2>2, <2>4 DEF CleanShape, SubscriptionId
  <2>6. ASSUME NEW q \in Request PROVE CleanRequest(q)'
    <3>1. CASE q # r
      BY <2>1, <2>2, <2>6, <3>1 DEF WentOn, Only, CleanShape, CleanRequest, At,
         Active, Exists
    <3>2. CASE q = r
      BY <2>1, <2>2, <2>3, <2>5, <2>6, <3>2 DEF WentOn, CleanShape, CleanRequest,
         At, Active, Exists
    <3> QED
      BY <3>1, <3>2
  <2>7. row.plan.type = "one_time" => \A s \in Sub : ~Exists(s)
    BY <2>2, <2>4 DEF CleanShape
  <2> QED
    BY <2>2, <2>6, <2>7 DEF CleanShape, OneSubscription, Exists
<1>3. ASSUME NEW r \in Request, ApplyCredit(r)
      PROVE  CleanShape'
  <2>1. Moved(r, "change")
    BY <1>3, Moves
  <2> QED
    BY <1>3, <2>1 DEF ApplyCredit, Moved, Only, At, tableVars,
       historyVars, CleanShape, CleanRequest, OneSubscription, Exists, AloneShapes,
       AloneShape, OneAtATime, Active, Late, TypeOK, Shapes, Shape, Refs, Sub
<1>4. ASSUME NEW r \in Request, UpdateSubscription(r)
      PROVE  CleanShape'
  <2>1. Moved(r, "pay")
    BY <1>4, Moves
  <2> QED
    BY <1>4, <2>1, UpgradeAssumption DEF UpdateSubscription, Collect, Emit, Moved,
       Only, At, tableVars, CleanShape, CleanRequest, OneSubscription, Exists,
       AloneShapes, AloneShape, OneAtATime, Active, Late, TypeOK, Shapes, Shape,
       Refs, Sub
<1>5. ASSUME NEW r \in Request, CreateSubscription(r)
      PROVE  CleanShape'
  <2>1. GotOwn(r)
    BY <1>5, Created
  <2> QED
    BY <1>5, <2>1 DEF CreateSubscription, Collect, Emit, GotOwn,
       Only, At, tableVars, CleanShape, CleanRequest, OneSubscription, Exists,
       AloneShapes, AloneShape, OneAtATime, Active, Late, TypeOK, Shapes, Shape,
       Refs, Sub
<1>6. ASSUME NEW r \in Request, ChangeRefused(r)
      PROVE  CleanShape'
  <2>1. RefusedAt(r, "change")
    BY <1>6, Refusals
  <2> SUFFICES ASSUME clean' PROVE CleanShape'
    BY DEF CleanShape
  <2>3. clean /\ At(r, "change") /\ UNCHANGED <<sub, newest, credit, row>>
    BY <2>1 DEF RefusedAt, stripeVars, tableVars
  <2>4. \A q \in Request : q # r => ~Active(q) /\ ~Late(q)
    BY <2>3, Lonely DEF Active, At
  <2>5. \A q \in Request : ~Late(q)
    BY <2>3, <2>4 DEF At, Late
  <2>6. ASSUME NEW q \in Request PROVE CleanRequest(q)'
    <3>1. CASE q # r
      BY <2>1, <2>3, <3>1 DEF RefusedAt, Moved, Ended, Only, CleanShape,
         CleanRequest, At, Active, Exists
    <3>2. CASE q = r /\ Moved(r, "reverse")
      BY <2>3, <3>2 DEF Moved, CleanShape, CleanRequest, At, Active, Exists
    <3>3. CASE q = r /\ ~req[r].due /\ Ended(r)
      BY <2>3, <3>3 DEF Ended, CleanShape, CleanRequest, At, Active, Exists, Shapes,
         Shape
    <3> QED
      BY <2>1, <3>1, <3>2, <3>3 DEF RefusedAt
  <2> QED
    BY <2>3, <2>5, <2>6 DEF CleanShape, OneSubscription, Exists
<1>7. ASSUME NEW r \in Request, Pay(r)
      PROVE  CleanShape'
  <2>1. Moved(r, "row")
    BY <1>7, Moves
  <2> QED
    BY <1>7, <2>1 DEF Pay, Settle, Emit, Updated, InvoicePaid, Moved, Only, At,
       stripeVars, tableVars, historyVars, CleanShape, CleanRequest,
       OneSubscription, Exists, AloneShapes, AloneShape, OneAtATime, Active, Late,
       TypeOK, Shapes, Shape, Refs, Sub
<1>8. ASSUME NEW r \in Request, PayRefused(r)
      PROVE  CleanShape'
  <2>1. RefusedAt(r, "pay")
    BY <1>8, Refusals
  <2> QED
    BY <2>1 DEF RefusedAt, Moved, Ended, Only, Untouched, At,
       stripeVars, tableVars, CleanShape, CleanRequest, OneSubscription, Exists,
       AloneShapes, AloneShape, OneAtATime, Active, Late, TypeOK, Shapes, Shape,
       Refs, Sub
<1>9. ASSUME NEW r \in Request, ReverseCredit(r)
      PROVE  CleanShape'
  <2>1. Undone(r)
    BY <1>9, Reversed
  <2> SUFFICES ASSUME clean' PROVE CleanShape'
    BY DEF CleanShape
  <2>3. clean /\ credit' = credit \ {r} /\ UNCHANGED <<sub, newest, row>>
    BY <2>1 DEF Undone, tableVars
  <2>4. \A q \in Request : q # r => ~Active(q) /\ ~Late(q)
    BY <2>1, <2>3, Lonely DEF Undone, Active, At
  <2>5. \A q \in Request : ~Late(q)
    BY <2>1, <2>4 DEF Undone, At, Late
  <2>6. ASSUME NEW q \in Request PROVE CleanRequest(q)'
    <3>1. CASE q # r
      BY <2>1, <2>3, <3>1 DEF Undone, Ended, Only, CleanShape, CleanRequest, At,
         Active, Exists
    <3>2. CASE q = r
      BY <2>1, <2>3, <3>2 DEF Undone, Ended, CleanShape, CleanRequest, At, Active,
         Exists
    <3> QED
      BY <3>1, <3>2
  <2> QED
    BY <2>3, <2>5, <2>6 DEF CleanShape, OneSubscription, Exists
<1>10. ASSUME NEW r \in Request, UpdateRow(r)
      PROVE  CleanShape'
  <2>1. Moved(r, "seat")
    BY <1>10, Moves
  <2> SUFFICES ASSUME clean' PROVE CleanShape'
    BY DEF CleanShape
  <2>2. clean /\ At(r, "row") /\ row'.plan = req[r].target /\ UNCHANGED <<sub, newest, credit>>
    BY <1>10 DEF UpdateRow, stripeVars, historyVars
  <2>3. /\ req[r].alone
        /\ \A q \in Request : q # r => ~Active(q) /\ ~Late(q)
    BY <2>2, Lonely DEF Active, At
  <2>4. Allowed(row.plan, req[r].target) /\ req[r].target \in Plan /\ row.plan \in Plan
    BY <2>2, <2>3 DEF AloneShapes, AloneShape, Shapes, Shape, At, TypeOK
  <2>5. row'.plan.type # "one_time"
    BY <2>2, <2>4, AllowedIsAbove
  <2>6. newest # None
    <3>1. req[r].sub \in Sub /\ req[r].sub # None
      BY <2>2 DEF Shapes, Shape, Late, At, TypeOK
    <3> QED
      BY <3>1 DEF Refs
  <2>7. ASSUME NEW q \in Request PROVE CleanRequest(q)'
    <3>1. CASE q # r
      BY <2>1, <2>2, <2>3, <2>5, <3>1 DEF Moved, Only, CleanShape, CleanRequest, At,
         Active, Exists
    <3>2. CASE q = r
      BY <2>1, <2>2, <2>3, <2>5, <3>2 DEF Moved, CleanShape, CleanRequest, At,
         Active, Exists
    <3> QED
      BY <3>1, <3>2
  <2> QED
    BY <2>2, <2>5, <2>6, <2>7 DEF CleanShape, OneSubscription, Exists
<1>11. ASSUME NEW r \in Request, UpdateSeat(r)
      PROVE  CleanShape'
  <2>1. Moved(r, "log")
    BY <1>11, Moves
  <2> QED
    BY <1>11, <2>1 DEF UpdateSeat, Moved, Only, At, stripeVars,
       historyVars, CleanShape, CleanRequest, OneSubscription, Exists, AloneShapes,
       AloneShape, OneAtATime, Active, Late, TypeOK, Shapes, Shape, Refs, Sub
<1>12. ASSUME NEW r \in Request, RecordAction(r)
      PROVE  CleanShape'
  <2>1. Ended(r) /\ req'[r].torn = FALSE
    BY <1>12, Ends
  <2> QED
    BY <1>12, <2>1 DEF RecordAction, Ended, Only, At, stripeVars,
       CleanShape, CleanRequest, OneSubscription, Exists, AloneShapes, AloneShape,
       OneAtATime, Active, Late, TypeOK, Shapes, Shape, Refs, Sub
<1>13. ASSUME NEW r \in Request, Fail(r)
      PROVE  CleanShape'
  <2>1. Ended(r) /\ (req'[r].torn <=> r \in credit \ paid)
    BY <1>13, Ends
  <2> SUFFICES ASSUME clean' PROVE CleanShape'
    BY DEF CleanShape
  <2>3. clean /\ Untouched(r) /\ Active(r) /\ r \notin credit
        /\ UNCHANGED <<sub, newest, credit, row>>
    BY <1>13 DEF Fail, stripeVars, tableVars
  <2>4. \A q \in Request : q # r => ~Active(q) /\ ~Late(q)
    BY <2>3, Lonely
  <2>5. \A q \in Request : ~Late(q)
    BY <2>3, <2>4 DEF Untouched, Late
  <2>6. ASSUME NEW q \in Request PROVE CleanRequest(q)'
    <3>1. CASE q # r
      BY <2>1, <2>3, <3>1 DEF Ended, Only, CleanShape, CleanRequest, At, Active,
         Exists
    <3>2. CASE q = r
      BY <2>1, <2>3, <3>2 DEF Ended, CleanShape, CleanRequest, At, Active, Exists
    <3> QED
      BY <3>1, <3>2
  <2> QED
    BY <2>3, <2>5, <2>6 DEF CleanShape, OneSubscription, Exists
<1>14. ASSUME NEW ending \in BOOLEAN, SetEnding(ending)
      PROVE  CleanShape'
  BY <1>14 DEF SetEnding, At, tableVars, historyVars, CleanShape,
     CleanRequest, OneSubscription, Exists, AloneShapes, AloneShape, OneAtATime,
     Active, Late, TypeOK, Shapes, Shape, Refs, Sub
<1>15. ASSUME NEW s \in Sub, CustomerPays(s)
      PROVE  CleanShape'
  BY <1>15 DEF CustomerPays, Settle, Emit, Updated, InvoicePaid, At, tableVars,
     historyVars, CleanShape, CleanRequest, OneSubscription, Exists, AloneShapes,
     AloneShape, OneAtATime, Active, Late, TypeOK, Shapes, Shape, Refs, Sub
<1>16. ASSUME RetryPayment
      PROVE  CleanShape'
  <2>1. row.sub \in Sub /\ CustomerPays(row.sub)
    BY <1>16 DEF RetryPayment, CustomerPays, TypeOK
  <2> QED
    BY <2>1, <1>15
<1>17. ASSUME NEW s \in Sub, Expire(s)
      PROVE  CleanShape'
  BY <1>17 DEF Expire, Emit, Updated, At, tableVars, historyVars,
     CleanShape, CleanRequest, OneSubscription, Exists, AloneShapes, AloneShape,
     OneAtATime, Active, Late, TypeOK, Shapes, Shape, Refs, Sub
<1>18. ASSUME NEW s \in Sub, EndSubscription(s)
      PROVE  CleanShape'
  BY <1>18 DEF EndSubscription, Emit, EligibleStatus, At, tableVars, historyVars,
     CleanShape, CleanRequest, OneSubscription, Exists, AloneShapes, AloneShape,
     OneAtATime, Active, Late, TypeOK, Shapes, Shape, Refs, Sub
<1>21. ASSUME NEW s \in Sub, EndTrial(s)
      PROVE  CleanShape'
  <2>1. TrialOver(s)
    BY <1>21, TrialEnds DEF TypeOK, SubTyped
  <2> QED
    BY <2>1 DEF TrialOver, At, tableVars, historyVars, CleanShape, CleanRequest,
       OneSubscription, Exists, Late, Active
<1>19. ASSUME NEW e \in news, Webhook(e)
      PROVE  CleanShape'
  <2>1. row'.plan = row.plan
    BY <1>19 DEF Webhook, RowAfterInvoicePaid, TypeOK
  <2>2. UNCHANGED <<stripeVars, req, historyVars>>
    BY <1>19 DEF Webhook
  <2> QED
    BY <2>1, <2>2 DEF stripeVars, historyVars, At, CleanShape, CleanRequest,
       OneSubscription, Exists, Late, Active
<1>20. ASSUME UNCHANGED vars
      PROVE  CleanShape'
  BY <1>20 DEF vars, At, CleanShape, CleanRequest,
     OneSubscription, Exists, AloneShapes, AloneShape, OneAtATime, Active, Late,
     TypeOK, Shapes, Shape, Refs, Sub
<1> QED
  BY <1>1, <1>2, <1>3, <1>4, <1>5, <1>6, <1>7, <1>8, <1>9, <1>10,
     <1>11, <1>12, <1>13, <1>14, <1>15, <1>16, <1>17, <1>18, <1>19, <1>20, <1>21
  DEF Next, RequestStep, TryStep, TableStep, AdminStep, StripeStep

-------------------------------------------------------------------------------
(* The invariant, and what follows from it.                                *)

LEMMA Kept ==
    ASSUME IInv, [Next]_vars
    PROVE  IInv'
<1>1. TypeOK /\ ReqTyped /\ SubTyped /\ RestTyped
  BY DEF IInv, TypeOK, ReqTyped, SubTyped, RestTyped
<1>2. ReqTyped' /\ SubTyped' /\ RestTyped'
  BY <1>1, ReqTypedKept, SubTypedKept, RestTypedKept DEF IInv
<1>3. TypeOK'
  BY <1>2 DEF TypeOK, ReqTyped, SubTyped, RestTyped
<1>4. Shapes' /\ GrantedPlanIsPaid' /\ Refs' /\ OneAtATime'
  BY <1>1, ShapesKept, GrantedPlanKept, RefsKept, OnlyKept DEF IInv
<1>5. AloneShapes' /\ SoundShape' /\ CleanShape'
  BY <1>1, AloneShapesKept, SoundShapeKept, CleanShapeKept DEF IInv
<1> QED
  BY <1>3, <1>4, <1>5 DEF IInv

THEOREM Invariant == Spec => []IInv
<1>1. Init => IInv
  BY InitOK
<1>2. IInv /\ [Next]_vars => IInv'
  BY Kept
<1> QED
  BY <1>1, <1>2, PTL DEF Spec

\* The state stays well-typed (applyBillingUpgradeForAdmin and what runs around it).
THEOREM Typed == Spec => []TypeOK
<1>1. IInv => TypeOK
  BY DEF IInv
<1> QED
  BY <1>1, Invariant, PTL

\* Whatever overlaps, fails or is retried, the row grants the first plan or one
\* whose invoice is settled.
THEOREM GrantedIsPaid == Spec => []GrantedPlanIsPaid
<1>1. IInv => GrantedPlanIsPaid
  BY DEF IInv
<1> QED
  BY <1>1, Invariant, PTL

\* A credit that a finished request leaves was for a change that is paid.
THEOREM CreditEarned == Spec => []CreditIsEarned
<1>1. IInv => CreditIsEarned
  BY DEF IInv, TypeOK, Shapes, Shape, CreditIsEarned
<1> QED
  BY <1>1, Invariant, PTL

\* Requests that are alone and not cut off credit once and create one
\* subscription at most.
THEOREM OneCharge == Spec => []ChargedOnce
<1>1. IInv => ChargedOnce
  BY DEF IInv, CleanShape, ChargedOnce
<1> QED
  BY <1>1, Invariant, PTL

\* A request that was alone and finished leaves tables and subscription of one plan.
THEOREM Agreement == Spec => []RecordsAgree
<1>1. ASSUME IInv PROVE RecordsAgree
  <2>1. ASSUME row.sub # None PROVE Exists(row.sub) /\ row.sub \in Sub
    BY <1>1, <2>1 DEF IInv, Refs, TypeOK
  <2> QED
    BY <1>1, <2>1 DEF IInv, SoundShape, RecordsAgree
<1> QED
  BY <1>1, Invariant, PTL

\* Only the table step of a request changes the plan.
LEMMA PlanIsWrittenByUpdateRow ==
    ASSUME [Next]_vars, row'.plan # row.plan, TypeOK
    PROVE  \E r \in Request : UpdateRow(r)
<1> SUFFICES ASSUME \A r \in Request : ~UpdateRow(r) PROVE FALSE
  OBVIOUS
<1>1. row' # row
  OBVIOUS
<1>2. ASSUME NEW r \in Request, TryStep(r) PROVE FALSE
  BY <1>1, <1>2 DEF TryStep, Preview, ReadCompany, ApplyCredit, UpdateSubscription,
     CreateSubscription, ChangeRefused, Pay, PayRefused, Refuse, ReverseCredit,
     tableVars
<1>3. ASSUME NEW r \in Request, TableStep(r) \/ Fail(r) PROVE FALSE
  BY <1>1, <1>3 DEF TableStep, UpdateSeat, RecordAction, Fail, tableVars
<1>4. ASSUME AdminStep PROVE FALSE
  BY <1>1, <1>4 DEF AdminStep, SetEnding, RetryPayment, tableVars
<1>5. ASSUME NEW s \in Sub, CustomerPays(s) \/ Expire(s) \/ EndTrial(s) \/ EndSubscription(s) PROVE FALSE
  BY <1>1, <1>5 DEF CustomerPays, Expire, EndTrial, EndSubscription, tableVars
<1>6. ASSUME NEW e \in news, Webhook(e) PROVE FALSE
  BY <1>6 DEF Webhook, RowAfterInvoicePaid, TypeOK
<1>7. ASSUME UNCHANGED vars PROVE FALSE
  BY <1>1, <1>7 DEF vars
<1> QED
  BY <1>2, <1>3, <1>4, <1>5, <1>6, <1>7 DEF Next, RequestStep, StripeStep

\* A request that is alone writes a plan above the one in the row.
THEOREM PlanRises == Spec => PlanOnlyRises
<1>1. ASSUME IInv, [Next]_vars, row'.plan # row.plan
      PROVE  \/ Above(row'.plan, row.plan)
             \/ \E r \in Request : At(r, "row") /\ ~req[r].alone
  <2>1. PICK r \in Request : UpdateRow(r)
    BY <1>1, PlanIsWrittenByUpdateRow DEF IInv
  <2>2. At(r, "row") /\ row'.plan = req[r].target
    BY <2>1 DEF UpdateRow
  <2>3. CASE req[r].alone
    <3>1. /\ Allowed(row.plan, req[r].target)
          /\ row.plan \in Plan /\ req[r].target \in Plan
      BY <1>1, <2>2, <2>3 DEF IInv, AloneShapes, AloneShape, Shapes, Shape, TypeOK,
         At
    <3> QED
      BY <2>2, <3>1, AllowedIsAbove
  <2> QED
    BY <2>2, <2>3
<1>2. IInv /\ [Next]_vars =>
        [row'.plan # row.plan =>
           \/ Above(row'.plan, row.plan)
           \/ \E r \in Request : At(r, "row") /\ ~req[r].alone]_vars
  BY <1>1
<1> QED
  BY <1>2, Invariant, PTL DEF Spec, PlanOnlyRises
===============================================================================
