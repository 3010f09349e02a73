---------------------------- MODULE PromoSyncProofs ----------------------------
(***************************************************************************)
(* PromoSync, for any number of rows, coupons, promotions and codes.       *)
(*                                                                         *)
(* First for any number of requests, failures and crashes: RowsAreBacked,  *)
(* which is not inductive, since a row is written from what a request read *)
(* and made earlier, while other requests went on.  Knows says what a      *)
(* request may count on at each await, and the key is that Stripe's        *)
(* objects only grow: once made, a coupon keeps its discount, a promotion  *)
(* its code and its coupon (Grows).  CreatedLive needs in addition that    *)
(* nobody else knows of the pair that a creation makes (Private).          *)
(*                                                                         *)
(* Then for one request at a time, none of which crashes: what it may      *)
(* count on is more (Course, Reads), and so is what it answers for.  While *)
(* no call has failed, an active promotion is a listed row's or in its     *)
(* hands (Clean); with that, whatever can be redeemed after one failed     *)
(* call is owned (Owned, DiscountsAreOwned), and after none a row that     *)
(* shows as active can be redeemed (Serves, ListsAgree).                   *)
(***************************************************************************)
EXTENDS PromoSync, TLAPS

\* Backed, of the promotions ps and the coupons cs.
Fits(ps, cs, col) ==
    /\ col.promo \in Promotion
    /\ col.coupon \in Coupon
    /\ ps[col.promo].state # "none"
    /\ ps[col.promo].code = col.code
    /\ ps[col.promo].coupon = col.coupon
    /\ cs[col.coupon].state # "none"
    /\ cs[col.coupon].disc = col.disc

\* The objects in ps and cs are also in qs and ds, unaltered.
Grows(ps, cs, qs, ds) ==
    /\ \A p \in Promotion : ps[p].state # "none" =>
          /\ qs[p].state # "none"
          /\ qs[p].code = ps[p].code
          /\ qs[p].coupon = ps[p].coupon
    /\ \A c \in Coupon : cs[c].state # "none" =>
          /\ ds[c].state # "none"
          /\ ds[c].disc = cs[c].disc

\* What a request x may count on, where it stands.
Knows(ps, cs, rs, x) ==
    /\ x.pc # "idle" => x.id \in Row
    /\ x.pc = "markDeleted" => x.op = "delete"
    /\ x.op = "delete" => x.id \in Row /\ rs[x.id].state # "none"
    /\ x.pc = "rename" =>
          /\ Fits(ps, cs, x.was)
          /\ x.new.disc = x.was.disc
          /\ x.new.coupon = x.was.coupon
    /\ x.pc = "promotion" =>
          /\ x.new.coupon \in Coupon
          /\ cs[x.new.coupon].state # "none"
          /\ cs[x.new.coupon].disc = x.new.disc
    /\ x.pc = "save" => Fits(ps, cs, x.new)

RequestsKnow == \A w \in Worker : Knows(promos, coupons, rows, wk[w])

CountersOK == failures \in 0..MaxFailure /\ crashes \in 0..MaxCrash

IInv == TypeOK /\ RowsAreBacked /\ RequestsKnow

-------------------------------------------------------------------------------
LEMMA FitsGrows ==
    ASSUME NEW ps, NEW cs, NEW qs, NEW ds, NEW col,
           Grows(ps, cs, qs, ds), Fits(ps, cs, col)
    PROVE  Fits(qs, ds, col)
BY DEF Grows, Fits

LEMMA KnowsGrows ==
    ASSUME NEW ps, NEW cs, NEW rs, NEW qs, NEW ds, NEW ts, NEW x,
           Grows(ps, cs, qs, ds), Knows(ps, cs, rs, x),
           \A r \in Row : rs[r].state # "none" => ts[r].state # "none"
    PROVE  Knows(qs, ds, ts, x)
<1>1. x.pc = "rename" => Fits(qs, ds, x.was)
  BY FitsGrows DEF Knows
<1>2. x.pc = "save" => Fits(qs, ds, x.new)
  BY FitsGrows DEF Knows
<1>3. x.pc = "promotion" => /\ ds[x.new.coupon].state # "none"
                            /\ ds[x.new.coupon].disc = x.new.disc
  BY DEF Grows, Knows
<1> QED
  BY <1>1, <1>2, <1>3 DEF Knows

\* A step of w: Stripe grows, w knows what it must where it now stands, and a
\* row is as it was or as w was about to write it.
Careful(w) ==
    /\ Grows(promos, coupons, promos', coupons')
    /\ \A v \in Worker \ {w} : wk'[v] = wk[v]
    /\ Knows(promos', coupons', rows', wk'[w])
    /\ \A r \in Row :
          /\ rows[r].state # "none" => rows'[r].state # "none"
          /\ rows'[r].state # "none" =>
                \/ rows[r].state # "none" /\ rows'[r].col = rows[r].col
                \/ rows'[r].col = wk[w].new /\ Fits(promos', coupons', wk[w].new)

TypesKept == StripeTypeOK' /\ RowTypeOK' /\ RequestTypeOK' /\ CountersOK'

LEMMA CarefulKeepsIInv ==
    ASSUME IInv, NEW w \in Worker, Careful(w), TypesKept
    PROVE  IInv'
<1>1. RequestsKnow'
  <2> SUFFICES ASSUME NEW v \in Worker
               PROVE  Knows(promos', coupons', rows', wk'[v])
    BY DEF RequestsKnow
  <2>1. CASE v = w
    BY <2>1 DEF Careful
  <2>2. CASE v # w
    <3>1. wk'[v] = wk[v]
      BY <2>2 DEF Careful
    <3>2. Knows(promos, coupons, rows, wk[v])
      BY DEF IInv, RequestsKnow
    <3> QED
      BY <3>1, <3>2, KnowsGrows DEF Careful
  <2> QED
    BY <2>1, <2>2
<1>2. ASSUME NEW r \in Row, rows'[r].state # "none"
      PROVE  Fits(promos', coupons', rows'[r].col)
  <2>1. CASE rows[r].state # "none" /\ rows'[r].col = rows[r].col
    <3>1. Fits(promos, coupons, rows[r].col)
      BY <2>1 DEF IInv, RowsAreBacked, Backed, Fits
    <3> QED
      BY <2>1, <3>1, FitsGrows DEF Careful
  <2>2. CASE rows'[r].col = wk[w].new /\ Fits(promos', coupons', wk[w].new)
    BY <2>2
  <2> QED
    BY <1>2, <2>1, <2>2 DEF Careful
<1>3. RowsAreBacked'
  BY <1>2 DEF RowsAreBacked, Backed, Fits
<1>4. IdsPresent'
  BY <1>2, PromoAssumption DEF IdsPresent, Fits
<1> QED
  BY <1>1, <1>3, <1>4 DEF IInv, TypeOK, TypesKept, CountersOK

-------------------------------------------------------------------------------
\* Moving on to a step that counts on nothing but the row's id.
LEMMA GotoKnows ==
    ASSUME IInv, NEW w \in Worker, NEW pc \in Pc, Goto(w, pc), wk[w].pc # "idle",
           pc \notin {"rename", "promotion", "save"},
           pc = "markDeleted" => wk[w].op = "delete",
           \A r \in Row : rows[r].state # "none" => rows'[r].state # "none"
    PROVE  /\ \A v \in Worker \ {w} : wk'[v] = wk[v]
           /\ Knows(promos', coupons', rows', wk'[w])
           /\ RequestTypeOK'
<1> USE DEF IInv, TypeOK, RequestTypeOK
<1>0. Knows(promos, coupons, rows, wk[w])
  BY DEF RequestsKnow
<1>1. CASE pc = "idle"
  <2>1. wk' = [wk EXCEPT ![w] = Idle]
    BY <1>1 DEF Goto
  <2>2. Idle \in [pc : Pc, op : Operation \cup {"none"}, id : Row \cup {None},
                  was : Column, new : Column, flag : {"on", "off"}]
    BY DEF Idle, Blank, Column, Pc
  <2>3. wk'[w].pc = "idle" /\ wk'[w].op = "none"
    BY <2>1 DEF Idle
  <2>4. Knows(promos', coupons', rows', wk'[w])
    BY <2>3 DEF Knows
  <2> QED
    BY <2>1, <2>2, <2>4
<1>2. CASE pc # "idle"
  <2>1. wk' = [wk EXCEPT ![w] = [@ EXCEPT !.pc = pc]]
    BY <1>2 DEF Goto
  <2>2. wk'[w].pc = pc /\ wk'[w].op = wk[w].op /\ wk'[w].id = wk[w].id
    BY <2>1
  <2>3. Knows(promos', coupons', rows', wk'[w])
    BY <1>0, <2>2 DEF Knows
  <2> QED
    BY <2>1, <2>3
<1> QED
  BY <1>1, <1>2

LEMMA SetStateGrows ==
    ASSUME StripeTypeOK, NEW p, NEW state \in {"active", "inactive"}, SetState(p, state)
    PROVE  Grows(promos, coupons, promos', coupons) /\ (UNCHANGED coupons => StripeTypeOK')
BY DEF SetState, Grows, StripeTypeOK

\* A step that changes no row and moves on by Goto.
LEMMA QuietStep ==
    ASSUME IInv, NEW w \in Worker, NEW pc \in Pc, Goto(w, pc), wk[w].pc # "idle",
           pc \notin {"rename", "promotion", "save"},
           pc = "markDeleted" => wk[w].op = "delete",
           Grows(promos, coupons, promos', coupons'), StripeTypeOK',
           CountersOK', UNCHANGED rows
    PROVE  IInv'
<1>1. Careful(w)
  BY GotoKnows DEF Careful
<1>2. TypesKept
  BY GotoKnows DEF TypesKept, IInv, TypeOK, RowTypeOK
<1> QED
  BY <1>1, <1>2, CarefulKeepsIInv

\* Counting a failure or not keeps the counters in their bounds.
LEMMA Counting ==
    ASSUME IInv, Succeed \/ Fail
    PROVE  CountersOK'
BY PromoAssumption DEF IInv, TypeOK, Succeed, Fail, CountersOK

LEMMA NothingGrows ==
    Grows(promos, coupons, promos, coupons)
BY DEF Grows

\* The begin actions.
LEMMA StartKeepsIInv ==
    ASSUME IInv, NEW w \in Worker, NEW op, NEW pc \in Pc, NEW r \in Row,
           NEW was \in Column, NEW new \in Column, NEW flag \in {"on", "off"},
           Start(w, op, pc, r, was, new, flag),
           Knows(promos, coupons, rows, [pc |-> pc, op |-> op, id |-> r, was |-> was,
                                         new |-> new, flag |-> flag])
    PROVE  IInv'
<1>1. Careful(w)
  BY NothingGrows DEF Careful, Start, IInv, TypeOK, RequestTypeOK
<1>2. TypesKept
  BY Counting DEF TypesKept, Start, IInv, TypeOK, RequestTypeOK, StripeTypeOK, RowTypeOK
<1> QED
  BY <1>1, <1>2, CarefulKeepsIInv

LEMMA BeginKeepsIInv ==
    ASSUME IInv, NEW w \in Worker, BeginStep(w)
    PROVE  IInv'
<1> USE DEF IInv, TypeOK
<1>0. PICK r \in Row :
        \/ \E code \in Code, disc \in Discount :
              BeginCreate(w, r, code, disc) \/ BeginUpdate(w, r, code, disc)
        \/ BeginDelete(w, r)
        \/ \E flag \in {"on", "off"} : BeginToggle(w, r, flag)
        \/ BeginList(w, r)
  BY DEF BeginStep
<1>1. rows[r].col \in Column /\ Blank \in Column
  BY DEF RowTypeOK, Blank, Column
<1>2. rows[r].state # "none" => Fits(promos, coupons, rows[r].col)
  BY DEF RowsAreBacked, Backed, Fits
<1>3. ASSUME NEW code \in Code, NEW disc \in Discount,
             BeginCreate(w, r, code, disc)
      PROVE  IInv'
  <2>1. [Blank EXCEPT !.code = code, !.disc = disc] \in Column
    BY DEF Blank, Column
  <2> QED
    BY <1>1, <1>3, <2>1, StartKeepsIInv DEF BeginCreate, Knows, Pc
<1>4. ASSUME NEW code \in Code, NEW disc \in Discount,
             BeginUpdate(w, r, code, disc)
      PROVE  IInv'
  <2> DEFINE was == rows[r].col
             new == [was EXCEPT !.code = code, !.disc = disc]
             pc  == FirstCall(was, new)
             op  == IF pc = "rename" THEN "rename" ELSE "edit"
  <2>1. new \in Column
    BY <1>1 DEF Column
  <2>2. /\ new.code = code /\ new.disc = disc
        /\ new.coupon = was.coupon /\ new.promo = was.promo
    BY <1>1 DEF Column
  <2>3. pc \in {"deactivateOld", "coupon", "rename", "save"} /\ pc \in Pc
    BY DEF FirstCall, Pc
  <2>4. pc = "rename" => new.disc = was.disc
    BY DEF FirstCall
  <2>5. pc = "save" => new.disc = was.disc /\ new.code = was.code
    BY DEF FirstCall
  <2>6. Start(w, op, pc, r, was, new, "on") /\ Fits(promos, coupons, was)
    BY <1>2, <1>4 DEF BeginUpdate
  <2>7. pc = "save" => Fits(promos, coupons, new)
    BY <2>2, <2>5, <2>6 DEF Fits
  <2>8. op # "delete"
    OBVIOUS
  <2> HIDE DEF was, new, pc, op
  <2>9. Knows(promos, coupons, rows, [pc |-> pc, op |-> op, id |-> r, was |-> was,
                                      new |-> new, flag |-> "on"])
    BY <2>2, <2>3, <2>4, <2>6, <2>7, <2>8 DEF Knows
  <2>10. was \in Column
    BY <1>1 DEF was
  <2> QED
    BY <2>1, <2>3, <2>6, <2>9, <2>10, StartKeepsIInv
<1>5. CASE BeginDelete(w, r)
  <2>1. rows[r].state = "live" /\ Start(w, "delete", "dropOldPromotion", r, rows[r].col, Blank, "on")
    BY <1>5 DEF BeginDelete
  <2>2. Knows(promos, coupons, rows, [pc |-> "dropOldPromotion", op |-> "delete", id |-> r,
                                      was |-> rows[r].col, new |-> Blank, flag |-> "on"])
    BY <2>1 DEF Knows
  <2>3. "dropOldPromotion" \in Pc
    BY DEF Pc
  <2> QED
    BY <1>1, <2>1, <2>2, <2>3, StartKeepsIInv
<1>6. ASSUME NEW flag \in {"on", "off"}, BeginToggle(w, r, flag)
      PROVE  IInv'
  <2>1. rows[r].state = "live" /\ Start(w, "toggle", "setActive", r, rows[r].col, Blank, flag)
    BY <1>6 DEF BeginToggle
  <2>2. Knows(promos, coupons, rows, [pc |-> "setActive", op |-> "toggle", id |-> r,
                                      was |-> rows[r].col, new |-> Blank, flag |-> flag])
    BY <2>1 DEF Knows
  <2>3. "setActive" \in Pc
    BY DEF Pc
  <2> QED
    BY <1>1, <2>1, <2>2, <2>3, StartKeepsIInv
<1>7. CASE BeginList(w, r)
  <2>1. rows[r].state = "live" /\ Start(w, "list", "summary", r, rows[r].col, Blank, "on")
    BY <1>7 DEF BeginList
  <2>2. Knows(promos, coupons, rows, [pc |-> "summary", op |-> "list", id |-> r,
                                      was |-> rows[r].col, new |-> Blank, flag |-> "on"])
    BY <2>1 DEF Knows
  <2>3. "summary" \in Pc
    BY DEF Pc
  <2> QED
    BY <1>1, <2>1, <2>2, <2>3, StartKeepsIInv
<1> QED
  BY <1>0, <1>3, <1>4, <1>5, <1>6, <1>7

-------------------------------------------------------------------------------
\* The catch block's last step moves on by Goto.
LEMMA ReopenGoes ==
    ASSUME NEW w, Reopen(w)
    PROVE  Goto(w, "reactivate") \/ Goto(w, "idle")
BY DEF Reopen

\* A pc moved to by clean-up and failures: nothing is to be known there.
Plain == {"idle", "dropHeadless", "reactivate", "dropNewPromotion", "dropNewCoupon",
          "dropOldPromotion", "dropOldCoupon", "retireOld", "retireNew", "coupon",
          "mirror"}

LEMMA PlainStep ==
    ASSUME IInv, NEW w \in Worker, NEW pc \in Plain, Goto(w, pc), wk[w].pc # "idle",
           Grows(promos, coupons, promos', coupons'), StripeTypeOK',
           Succeed \/ Fail, UNCHANGED rows
    PROVE  IInv'
<1>1. pc \in Pc /\ pc \notin {"rename", "promotion", "save", "markDeleted"}
  BY DEF Plain, Pc
<1>2. CountersOK'
  BY Counting
<1> QED
  BY <1>1, <1>2, QuietStep

\* A call to Stripe that changes nothing there, or only a promotion's state.
LEMMA PlainSetState ==
    ASSUME IInv, NEW w \in Worker, NEW pc \in Plain, Goto(w, pc), wk[w].pc # "idle",
           Succeed \/ Fail, UNCHANGED <<coupons, rows>>,
           NEW p, NEW state \in {"active", "inactive"},
           SetState(p, state) \/ UNCHANGED promos
    PROVE  IInv'
<1>1. Grows(promos, coupons, promos', coupons') /\ StripeTypeOK'
  <2>1. CASE SetState(p, state)
    BY <2>1, SetStateGrows DEF IInv, TypeOK
  <2>2. CASE UNCHANGED promos
    BY <2>2, NothingGrows DEF IInv, TypeOK, StripeTypeOK
  <2> QED
    BY <2>1, <2>2
<1> QED
  BY <1>1, PlainStep

LEMMA DropPromotionKeepsIInv ==
    ASSUME IInv, NEW w \in Worker, NEW pc, pc # "idle", NEW p, NEW next \in Plain,
           DropPromotion(w, pc, p, next)
    PROVE  IInv'
<1>1. /\ Goto(w, next) /\ wk[w].pc # "idle" /\ (Succeed \/ Fail)
      /\ UNCHANGED <<coupons, rows>>
      /\ SetState(p, "inactive") \/ UNCHANGED promos
  BY DEF DropPromotion, At
<1> QED
  BY <1>1, PlainSetState

LEMMA DropCouponGrows ==
    ASSUME IInv, NEW w, NEW pc, NEW c, DropCoupon(w, pc, c)
    PROVE  /\ Grows(promos, coupons, promos', coupons')
           /\ StripeTypeOK'
           /\ Succeed \/ Fail
           /\ UNCHANGED rows
BY DEF DropCoupon, Grows, IInv, TypeOK, StripeTypeOK

LEMMA CleanUpKeepsIInv ==
    ASSUME IInv, NEW w \in Worker, CleanUpStep(w)
    PROVE  IInv'
<1>1. CASE DropHeadlessCoupon(w)
  <2>1. DropCoupon(w, "dropHeadless", wk[w].new.coupon) /\ Reopen(w)
    BY <1>1 DEF DropHeadlessCoupon
  <2>2. wk[w].pc # "idle" /\ \E pc \in Plain : Goto(w, pc)
    BY <2>1, ReopenGoes DEF DropCoupon, At, Plain
  <2> QED
    BY <2>1, <2>2, DropCouponGrows, PlainStep
<1>2. CASE DropNewPromotion(w)
  BY <1>2, DropPromotionKeepsIInv DEF DropNewPromotion, Plain
<1>3. CASE DropNewCoupon(w)
  <2>1. DropCoupon(w, "dropNewCoupon", wk[w].new.coupon) /\ Reopen(w)
    BY <1>3 DEF DropNewCoupon
  <2>2. wk[w].pc # "idle" /\ \E pc \in Plain : Goto(w, pc)
    BY <2>1, ReopenGoes DEF DropCoupon, At, Plain
  <2> QED
    BY <2>1, <2>2, DropCouponGrows, PlainStep
<1>4. CASE DropOldPromotion(w)
  BY <1>4, DropPromotionKeepsIInv DEF DropOldPromotion, Plain
<1>5. CASE DropOldCoupon(w)
  <2> DEFINE next == IF wk[w].op = "delete" THEN "markDeleted" ELSE "idle"
  <2>1. DropCoupon(w, "dropOldCoupon", wk[w].was.coupon) /\ Goto(w, next)
    BY <1>5 DEF DropOldCoupon
  <2>2. wk[w].pc # "idle" /\ next \in Pc
    BY <2>1 DEF DropCoupon, At, Pc
  <2>3. next \notin {"rename", "promotion", "save"} /\ (next = "markDeleted" => wk[w].op = "delete")
    OBVIOUS
  <2> HIDE DEF next
  <2>4. CountersOK'
    BY <2>1, DropCouponGrows, Counting
  <2> QED
    BY <2>1, <2>2, <2>3, <2>4, DropCouponGrows, QuietStep
<1>6. CASE RetireOld(w)
  <2>1. \E pc \in Plain : Goto(w, pc)
    BY <1>6 DEF RetireOld, Plain
  <2> QED
    BY <1>6, <2>1, PlainSetState DEF RetireOld, At
<1>7. CASE RetireNew(w)
  BY <1>7, DropPromotionKeepsIInv DEF RetireNew, Plain
<1>8. CASE Reactivate(w)
  <2>1. "idle" \in Plain
    BY DEF Plain
  <2> QED
    BY <1>8, <2>1, PlainSetState DEF Reactivate, At, RefusedOr
<1> QED
  BY <1>1, <1>2, <1>3, <1>4, <1>5, <1>6, <1>7, <1>8 DEF CleanUpStep

-------------------------------------------------------------------------------
\* A request moves on with one more of the new columns known.
LEMMA ColumnLearnt ==
    ASSUME RequestTypeOK, NEW w \in Worker, NEW pc \in Pc, NEW new \in Column,
           wk' = [wk EXCEPT ![w].pc = pc, ![w].new = new]
    PROVE  RequestTypeOK'
BY DEF RequestTypeOK

\* A new promotion on a coupon with the discount to be written.
LEMMA NewPromotionKeepsIInv ==
    ASSUME IInv, NEW w \in Worker, wk[w].pc # "idle",
           NEW coupon \in Coupon, wk[w].new.coupon = coupon,
           coupons[coupon].state # "none", coupons[coupon].disc = wk[w].new.disc,
           NewPromotion(w, coupon), UNCHANGED <<coupons, rows>>
    PROVE  IInv'
<1> USE DEF IInv, TypeOK
<1>1. PICK p \in Promotion :
        /\ promos[p].state = "none"
        /\ promos' = [promos EXCEPT ![p] =
              [state |-> "active", code |-> wk[w].new.code, coupon |-> coupon]]
        /\ wk' = [wk EXCEPT ![w].pc = "save", ![w].new.promo = p]
        /\ Succeed
  BY DEF NewPromotion
<1>2. wk[w].new \in Column /\ wk[w].id \in Row \cup {None}
  BY DEF RequestTypeOK
<1>3. StripeTypeOK' /\ RowTypeOK' /\ RequestTypeOK' /\ CountersOK'
  <2>1. StripeTypeOK'
    BY <1>1, <1>2 DEF StripeTypeOK, Column
  <2>2. [wk[w].new EXCEPT !.promo = p] \in Column /\ "save" \in Pc
    BY <1>2 DEF Column, Pc
  <2>3. wk' = [wk EXCEPT ![w].pc = "save", ![w].new = [wk[w].new EXCEPT !.promo = p]]
    BY <1>1 DEF RequestTypeOK
  <2>4. RequestTypeOK'
    BY <2>2, <2>3, ColumnLearnt
  <2> QED
    BY <1>1, <2>1, <2>4, Counting DEF RowTypeOK
<1>4. Grows(promos, coupons, promos', coupons')
  BY <1>1 DEF Grows, StripeTypeOK
<1>5. /\ wk'[w].pc = "save" /\ wk'[w].op = wk[w].op /\ wk'[w].id = wk[w].id
      /\ wk'[w].new = [wk[w].new EXCEPT !.promo = p]
      /\ \A v \in Worker \ {w} : wk'[v] = wk[v]
  BY <1>1 DEF RequestTypeOK
<1>6. Fits(promos', coupons', wk'[w].new)
  BY <1>1, <1>2, <1>5 DEF Fits, Column, StripeTypeOK
<1>7. wk[w].id \in Row
  BY DEF RequestsKnow, Knows
<1>8. Knows(promos', coupons', rows', wk'[w])
  BY <1>5, <1>6, <1>7 DEF Knows, RequestsKnow
<1>9. Careful(w)
  BY <1>4, <1>5, <1>8 DEF Careful
<1> QED
  BY <1>3, <1>9, CarefulKeepsIInv DEF TypesKept

LEMMA CreateCouponKeepsIInv ==
    ASSUME IInv, NEW w \in Worker, CreateCoupon(w)
    PROVE  IInv'
<1> USE DEF IInv, TypeOK
<1>1. CASE Fail /\ Reopen(w) /\ UNCHANGED coupons
  <2>1. \E pc \in Plain : Goto(w, pc)
    BY <1>1, ReopenGoes DEF Plain
  <2> QED
    BY <1>1, <2>1, PlainStep, NothingGrows DEF CreateCoupon, At, StripeTypeOK
<1>2. ASSUME NEW c \in Coupon, coupons[c].state = "none",
             coupons' = [coupons EXCEPT ![c] =
                [state |-> "live", disc |-> wk[w].new.disc]],
             wk' = [wk EXCEPT ![w].pc = "promotion", ![w].new.coupon = c],
             Succeed
      PROVE  IInv'
  <2>0. wk[w].pc = "coupon" /\ UNCHANGED <<promos, rows>>
    BY DEF CreateCoupon, At
  <2>1. wk[w].new \in Column /\ Knows(promos, coupons, rows, wk[w])
    BY DEF RequestTypeOK, RequestsKnow
  <2>2. Grows(promos, coupons, promos', coupons')
    BY <1>2, <2>0 DEF Grows, StripeTypeOK
  <2>3. /\ wk'[w].pc = "promotion" /\ wk'[w].op = wk[w].op /\ wk'[w].id = wk[w].id
        /\ wk'[w].new = [wk[w].new EXCEPT !.coupon = c]
        /\ \A v \in Worker \ {w} : wk'[v] = wk[v]
    BY <1>2 DEF RequestTypeOK
  <2>4. wk'[w].new.coupon = c /\ wk'[w].new.disc = wk[w].new.disc
    BY <2>1, <2>3 DEF Column
  <2>5. coupons'[c].state # "none" /\ coupons'[c].disc = wk[w].new.disc
    BY <1>2 DEF StripeTypeOK
  <2>6. Knows(promos', coupons', rows', wk'[w])
    BY <2>0, <2>1, <2>3, <2>4, <2>5 DEF Knows
  <2>7. Careful(w)
    BY <2>0, <2>2, <2>3, <2>6 DEF Careful
  <2>8. StripeTypeOK'
    BY <1>2, <2>0, <2>1 DEF StripeTypeOK, Column
  <2>9. RequestTypeOK'
    <3>1. [wk[w].new EXCEPT !.coupon = c] \in Column /\ "promotion" \in Pc
      BY <2>1 DEF Column, Pc
    <3>2. wk' = [wk EXCEPT ![w].pc = "promotion",
                           ![w].new = [wk[w].new EXCEPT !.coupon = c]]
      BY <1>2 DEF RequestTypeOK
    <3> QED
      BY <3>1, <3>2, ColumnLearnt
  <2> QED
    BY <1>2, <2>0, <2>7, <2>8, <2>9, Counting, CarefulKeepsIInv DEF TypesKept, RowTypeOK
<1> QED
  BY <1>1, <1>2 DEF CreateCoupon

LEMMA StripeKeepsIInv ==
    ASSUME IInv, NEW w \in Worker, StripeStep(w)
    PROVE  IInv'
<1> USE DEF IInv, TypeOK
<1>0. Knows(promos, coupons, rows, wk[w]) /\ "idle" \in Plain
  BY DEF RequestsKnow, Plain
<1>1. CASE DeactivateOld(w)
  <2>1. \E pc \in Plain : Goto(w, pc)
    BY <1>1 DEF DeactivateOld, Plain
  <2> QED
    BY <1>1, <2>1, PlainSetState DEF DeactivateOld, At
<1>2. CASE CreateCoupon(w)
  BY <1>2, CreateCouponKeepsIInv
<1>3. CASE CreatePromotion(w)
  <2>1. wk[w].pc = "promotion" /\ UNCHANGED <<coupons, rows>>
    BY <1>3 DEF CreatePromotion, At
  <2>2. CASE NewPromotion(w, wk[w].new.coupon)
    BY <1>0, <2>1, <2>2, NewPromotionKeepsIInv DEF Knows
  <2>3. CASE /\ Succeed \/ Fail
             /\ Goto(w, "dropHeadless")
             /\ UNCHANGED promos
    BY <2>1, <2>3, PlainSetState DEF Plain
  <2> QED
    BY <1>3, <2>2, <2>3 DEF CreatePromotion, RefusedOr
<1>4. CASE RenamePromotion(w)
  <2>1. wk[w].pc = "rename" /\ UNCHANGED <<coupons, rows>>
    BY <1>4 DEF RenamePromotion, At
  <2>2. CASE NewPromotion(w, wk[w].was.coupon)
    BY <1>0, <2>1, <2>2, NewPromotionKeepsIInv DEF Knows, Fits
  <2>3. CASE /\ Succeed \/ Fail
             /\ Goto(w, "idle")
             /\ UNCHANGED promos
    BY <1>0, <2>1, <2>3, PlainSetState
  <2> QED
    BY <1>4, <2>2, <2>3 DEF RenamePromotion, RefusedOr
<1>5. CASE SetActive(w)
  <2>1. \E pc \in Plain : Goto(w, pc)
    BY <1>5 DEF SetActive, Plain
  <2>2. \E state \in {"active", "inactive"} :
           SetState(wk[w].was.promo, state) \/ UNCHANGED promos
    BY <1>5 DEF SetActive
  <2>3. /\ wk[w].pc # "idle" /\ (Succeed \/ Fail)
        /\ UNCHANGED <<coupons, rows>>
    BY <1>5 DEF SetActive, At, RefusedOr
  <2> QED
    BY <2>1, <2>2, <2>3, PlainSetState
<1>6. CASE LoadSummary(w)
  <2>1. PICK flag \in {"on", "off"} :
           wk' = [wk EXCEPT ![w].pc = "mirror", ![w].flag = flag]
    BY <1>6 DEF LoadSummary
  <2>2. /\ wk[w].pc = "summary" /\ UNCHANGED <<coupons, promos, rows>>
        /\ Succeed \/ Fail
    BY <1>6 DEF LoadSummary, At
  <2>3. RequestTypeOK'
    <3>1. "mirror" \in Pc
      BY DEF Pc
    <3> QED
      BY <2>1, <3>1 DEF RequestTypeOK
  <2>4. /\ wk'[w].pc = "mirror" /\ wk'[w].op = wk[w].op /\ wk'[w].id = wk[w].id
        /\ \A v \in Worker \ {w} : wk'[v] = wk[v]
    BY <2>1 DEF RequestTypeOK
  <2>5. Careful(w)
    BY <1>0, <2>2, <2>4, NothingGrows DEF Careful, Knows
  <2> QED
    BY <2>2, <2>3, <2>5, Counting, CarefulKeepsIInv
       DEF TypesKept, StripeTypeOK, RowTypeOK
<1> QED
  BY <1>1, <1>2, <1>3, <1>4, <1>5, <1>6 DEF StripeStep

-------------------------------------------------------------------------------
\* Rows change one at a time, and keep their columns unless w writes its own.
LEMMA RowStepKeepsIInv ==
    ASSUME IInv, NEW w \in Worker, wk[w].pc # "idle", NEW pc \in Plain, Goto(w, pc),
           RowTypeOK', UNCHANGED <<coupons, promos>>, Succeed \/ Fail,
           \A r \in Row :
              /\ rows[r].state # "none" => rows'[r].state # "none"
              /\ rows'[r].state # "none" =>
                    \/ rows[r].state # "none" /\ rows'[r].col = rows[r].col
                    \/ rows'[r].col = wk[w].new /\ Fits(promos, coupons, wk[w].new)
    PROVE  IInv'
<1>1. pc \in Pc /\ pc \notin {"rename", "promotion", "save", "markDeleted"}
  BY DEF Plain, Pc
<1>2. Careful(w)
  BY <1>1, GotoKnows, NothingGrows DEF Careful
<1>3. TypesKept
  BY <1>1, GotoKnows, Counting DEF TypesKept, IInv, TypeOK, StripeTypeOK
<1> QED
  BY <1>2, <1>3, CarefulKeepsIInv

LEMMA RowKeepsIInv ==
    ASSUME IInv, NEW w \in Worker, RowStep(w)
    PROVE  IInv'
<1> USE DEF IInv, TypeOK
<1>0. /\ Knows(promos, coupons, rows, wk[w])
      /\ "idle" \in Plain
      /\ wk[w].new \in Column /\ wk[w].flag \in {"on", "off"}
  BY DEF RequestsKnow, Plain, RequestTypeOK
<1>1. CASE SaveRow(w)
  <2>1. wk[w].pc = "save" /\ wk[w].id \in Row /\ Fits(promos, coupons, wk[w].new)
    BY <1>0, <1>1 DEF SaveRow, At, Knows
  <2>2. AfterSave(w) \in Plain /\ Undo(w) \in Plain
    BY DEF AfterSave, Undo, Plain
  <2>3. CASE /\ rows' = [rows EXCEPT ![wk[w].id] = Written(w)]
             /\ Goto(w, AfterSave(w))
             /\ Succeed
    <3>1. Written(w).col = wk[w].new
      BY <2>1 DEF Written, RowTypeOK
    <3>2. /\ Written(w) \in [state : {"none", "live", "deleted"}, col : Column,
                             mirror : {"on", "off"}]
          /\ rows[wk[w].id].state # "none" => Written(w).state # "none"
      BY <1>0, <2>1 DEF Written, RowTypeOK
    <3> HIDE DEF Written
    <3>3. RowTypeOK'
      BY <2>3, <3>2 DEF RowTypeOK
    <3>4. ASSUME NEW r \in Row
          PROVE  /\ rows[r].state # "none" => rows'[r].state # "none"
                 /\ rows'[r].state # "none" =>
                       \/ rows[r].state # "none" /\ rows'[r].col = rows[r].col
                       \/ rows'[r].col = wk[w].new /\ Fits(promos, coupons, wk[w].new)
      BY <2>1, <2>3, <3>1, <3>2 DEF RowTypeOK
    <3> QED
      BY <1>1, <2>1, <2>2, <2>3, <3>3, <3>4, RowStepKeepsIInv DEF SaveRow
  <2>4. CASE /\ Succeed \/ Fail
             /\ Goto(w, Undo(w))
             /\ UNCHANGED rows
    BY <1>1, <2>1, <2>2, <2>4, RowStepKeepsIInv DEF SaveRow, RowTypeOK
  <2> QED
    BY <1>1, <2>3, <2>4 DEF SaveRow, RefusedOr
<1>2. CASE SaveMirror(w)
  <2>1. /\ wk[w].pc = "mirror" /\ Goto(w, "idle") /\ UNCHANGED <<coupons, promos>>
        /\ Succeed \/ Fail
        /\ \/ rows' = [rows EXCEPT ![wk[w].id].mirror = wk[w].flag]
           \/ UNCHANGED rows
    BY <1>2 DEF SaveMirror, At
  <2>2. RowTypeOK' /\ \A r \in Row : /\ rows'[r].state = rows[r].state
                                     /\ rows'[r].col = rows[r].col
    BY <1>0, <2>1 DEF RowTypeOK
  <2> QED
    BY <1>0, <2>1, <2>2, RowStepKeepsIInv
<1>3. CASE MarkDeleted(w)
  <2>1. /\ wk[w].pc = "markDeleted" /\ Goto(w, "idle") /\ UNCHANGED <<coupons, promos>>
        /\ Succeed \/ Fail
        /\ \/ rows' = [rows EXCEPT ![wk[w].id].state = "deleted",
                                  ![wk[w].id].mirror = "off"]
           \/ UNCHANGED rows
    BY <1>3 DEF MarkDeleted, At
  <2>2. rows[wk[w].id].state # "none"
    BY <1>0, <2>1 DEF Knows
  <2>3. RowTypeOK' /\ \A r \in Row :
           /\ (rows'[r].state # "none") = (rows[r].state # "none")
           /\ rows'[r].col = rows[r].col
    BY <2>1, <2>2 DEF RowTypeOK
  <2> QED
    BY <1>0, <2>1, <2>3, RowStepKeepsIInv
<1> QED
  BY <1>1, <1>2, <1>3 DEF RowStep

LEMMA CrashKeepsIInv ==
    ASSUME IInv, NEW w \in Worker, Crash(w)
    PROVE  IInv'
<1>1. /\ wk[w].pc # "idle" /\ Goto(w, "idle") /\ UNCHANGED <<coupons, promos, rows>>
  BY DEF Crash, At
<1>2. CountersOK' /\ StripeTypeOK' /\ "idle" \in Pc
  BY <1>1, PromoAssumption DEF Crash, CountersOK, IInv, TypeOK, StripeTypeOK, Pc
<1> QED
  BY <1>1, <1>2, NothingGrows, QuietStep

-------------------------------------------------------------------------------
LEMMA InitIInv == Init => IInv
<1> SUFFICES ASSUME Init PROVE IInv
  OBVIOUS
<1>1. Idle \in [pc : Pc, op : Operation \cup {"none"}, id : Row \cup {None},
                was : Column, new : Column, flag : {"on", "off"}]
  BY DEF Idle, Blank, Column, Pc
<1>2. TypeOK
  BY <1>1, PromoAssumption DEF Init, TypeOK, StripeTypeOK, RowTypeOK, IdsPresent,
     RequestTypeOK, NoRow, Blank, Column
<1>3. RowsAreBacked
  BY DEF Init, RowsAreBacked, NoRow
<1>4. RequestsKnow
  BY DEF Init, RequestsKnow, Knows, Idle
<1> QED
  BY <1>2, <1>3, <1>4 DEF IInv

LEMMA NextIInv == IInv /\ [Next]_vars => IInv'
<1> SUFFICES ASSUME IInv, [Next]_vars PROVE IInv'
  OBVIOUS
<1>1. ASSUME NEW w \in Worker,
             \/ BeginStep(w) \/ StripeStep(w) \/ CleanUpStep(w)
             \/ RowStep(w) \/ Crash(w)
      PROVE  IInv'
  BY <1>1, BeginKeepsIInv, StripeKeepsIInv, CleanUpKeepsIInv, RowKeepsIInv, CrashKeepsIInv
<1>2. CASE UNCHANGED vars
  BY <1>2 DEF vars, IInv, TypeOK, StripeTypeOK, RowTypeOK, IdsPresent, RequestTypeOK,
     RowsAreBacked, Backed, RequestsKnow
<1> QED
  BY <1>1, <1>2 DEF Next

LEMMA Inductive == Spec => []IInv
BY InitIInv, NextIInv, PTL DEF Spec

\* The variables keep their types and a row's Stripe ids are never null,
\* whatever PromoService's requests do together, fail at or crash in.
THEOREM PromoTypeCorrect == Spec => []TypeOK
<1>1. IInv => TypeOK
  BY DEF IInv
<1> QED
  BY <1>1, Inductive, PTL

\* However many rows, requests, failures and crashes: a promo_codes row names
\* one promotion and one coupon that belong together and carry the row's own
\* code and discount.
THEOREM PromoRowsBacked == Spec => []RowsAreBacked
<1>1. IInv => RowsAreBacked
  BY DEF IInv
<1> QED
  BY <1>1, Inductive, PTL

-------------------------------------------------------------------------------
(* CreatedLive.  Until the row is inserted, nobody but the request that made *)
(* the pair knows of it (Private), so nobody can switch it off.              *)

\* A new pair is under way, and its coupon exists.
Making(x) == x.op = "create" /\ x.pc \in {"promotion", "save"}

\* The columns name nothing of what x has made.
NotNamed(x, col) ==
    /\ col.coupon # x.new.coupon
    /\ x.pc = "save" => col.promo # x.new.promo

\* The pair of x, or what there is of it, can be redeemed.
PairLives(ps, cs, x) ==
    /\ x.new.coupon \in Coupon
    /\ cs[x.new.coupon].state = "live"
    /\ x.pc = "save" => /\ x.new.promo \in Promotion
                        /\ ps[x.new.promo].state = "active"
                        /\ ps[x.new.promo].coupon = x.new.coupon

\* What columns name exists, or is not named yet.
Exist(ps, cs, col) ==
    /\ col.coupon # None => cs[col.coupon].state # "none"
    /\ col.promo # None => ps[col.promo].state # "none"

NamesExist == \A w \in Worker : /\ Exist(promos, coupons, wk[w].was)
                                /\ Exist(promos, coupons, wk[w].new)

Private(w) ==
    Making(wk[w]) =>
       /\ PairLives(promos, coupons, wk[w])
       /\ \A r \in Row : rows[r].state # "none" => NotNamed(wk[w], rows[r].col)
       /\ \A v \in Worker \ {w} : /\ NotNamed(wk[w], wk[v].was)
                                  /\ NotNamed(wk[w], wk[v].new)

PairsArePrivate == \A w \in Worker : Private(w)

\* A creation renames nothing: from its first call on it is making its pair,
\* or undoing it.
CreationsAtCoupon == \A w \in Worker : wk[w].pc = "rename" => wk[w].op # "create"

\* What w has read or made, or may read from a row.
KnownCoupon(w, c) ==
    \/ c \in {None, wk[w].was.coupon, wk[w].new.coupon}
    \/ \E r \in Row : rows[r].state # "none" /\ rows[r].col.coupon = c

KnownPromotion(w, p) ==
    \/ p \in {None, wk[w].was.promo, wk[w].new.promo}
    \/ \E r \in Row : rows[r].state # "none" /\ rows[r].col.promo = p

\* The columns w holds after the step: known ones, or what it has just made.
Learnt(w, col) ==
    /\ \/ KnownCoupon(w, col.coupon)
       \/ col.coupon \in Coupon /\ coupons[col.coupon].state = "none"
                                /\ coupons'[col.coupon].state # "none"
    /\ \/ KnownPromotion(w, col.promo)
       \/ col.promo \in Promotion /\ promos[col.promo].state = "none"
                                  /\ promos'[col.promo].state # "none"

\* A step of w touches nothing it does not know.
Tidy(w) ==
    /\ Grows(promos, coupons, promos', coupons')
    /\ \A c \in Coupon : coupons[c].state # "none" /\ coupons'[c] # coupons[c]
                             => KnownCoupon(w, c)
    /\ \A p \in Promotion : promos[p].state # "none" /\ promos'[p] # promos[p]
                             => KnownPromotion(w, p)
    /\ \A r \in Row : rows'[r].state # "none" =>
          \/ rows[r].state # "none" /\ rows'[r].col = rows[r].col
          \/ rows'[r].col = wk[w].new
    /\ \A v \in Worker \ {w} : wk'[v] = wk[v]
    /\ Learnt(w, wk'[w].was)
    /\ Learnt(w, wk'[w].new)

\* What w has made does not disturb what another request is making.
LEMMA TidyKeepsOthers ==
    ASSUME IInv, NamesExist, PairsArePrivate, NEW w \in Worker, Tidy(w),
           NEW u \in Worker \ {w}
    PROVE  Private(u)'
<1> USE DEF IInv, TypeOK
<1> SUFFICES ASSUME Making(wk[u])
             PROVE  Private(u)'
  BY DEF Tidy, Private
<1> DEFINE x == wk[u]
<1>0. wk'[u] = x
  BY DEF Tidy
<1>1. /\ PairLives(promos, coupons, x)
      /\ \A r \in Row : rows[r].state # "none" => NotNamed(x, rows[r].col)
      /\ \A v \in Worker \ {u} : NotNamed(x, wk[v].was) /\ NotNamed(x, wk[v].new)
  BY DEF PairsArePrivate, Private
<1>2. ~KnownCoupon(w, x.new.coupon)
  BY <1>1, PromoAssumption DEF KnownCoupon, NotNamed, PairLives
<1>3. x.pc = "save" => ~KnownPromotion(w, x.new.promo)
  BY <1>1, PromoAssumption DEF KnownPromotion, NotNamed, PairLives
<1>4. PairLives(promos', coupons', x)
  BY <1>1, <1>2, <1>3 DEF Tidy, PairLives
<1>5. ASSUME NEW col, Learnt(w, col)
      PROVE  NotNamed(x, col)
  BY <1>1, <1>2, <1>3, <1>5 DEF Learnt, NotNamed, PairLives
<1>6. NotNamed(x, wk'[w].was) /\ NotNamed(x, wk'[w].new)
  BY <1>5 DEF Tidy
<1>7. \A v \in Worker \ {u} : NotNamed(x, wk'[v].was) /\ NotNamed(x, wk'[v].new)
  BY <1>1, <1>6 DEF Tidy
<1>8. \A r \in Row : rows'[r].state # "none" => NotNamed(x, rows'[r].col)
  BY <1>1 DEF Tidy
<1> QED
  BY <1>0, <1>4, <1>7, <1>8 DEF Private

LEMMA TidyKeepsNames ==
    ASSUME IInv, NamesExist, NEW w \in Worker, Tidy(w)
    PROVE  NamesExist'
<1> USE DEF IInv, TypeOK
<1>1. ASSUME NEW col \in Column, Exist(promos, coupons, col)
      PROVE  Exist(promos', coupons', col)
  BY <1>1 DEF Tidy, Grows, Exist, Column
<1>2. \A r \in Row : rows[r].state # "none" => Fits(promos, coupons, rows[r].col)
  BY DEF RowsAreBacked, Backed, Fits
<1>3. \A v \in Worker : wk[v].was \in Column /\ wk[v].new \in Column
  BY DEF RequestTypeOK
<1>4. ASSUME NEW c, KnownCoupon(w, c), c # None
      PROVE  c \in Coupon /\ coupons[c].state # "none"
  BY <1>2, <1>3, <1>4 DEF KnownCoupon, NamesExist, Exist, Fits, Column
<1>5. ASSUME NEW p, KnownPromotion(w, p), p # None
      PROVE  p \in Promotion /\ promos[p].state # "none"
  BY <1>2, <1>3, <1>5 DEF KnownPromotion, NamesExist, Exist, Fits, Column
<1>6. ASSUME NEW col, Learnt(w, col)
      PROVE  Exist(promos', coupons', col)
  BY <1>4, <1>5, <1>6 DEF Learnt, Exist, Tidy, Grows
<1>7. Exist(promos', coupons', wk'[w].was) /\ Exist(promos', coupons', wk'[w].new)
  BY <1>6 DEF Tidy
<1>8. \A v \in Worker \ {w} : /\ Exist(promos', coupons', wk'[v].was)
                              /\ Exist(promos', coupons', wk'[v].new)
  BY <1>1, <1>3 DEF Tidy, NamesExist
<1> QED
  BY <1>7, <1>8 DEF NamesExist

\* A request that moves on holds what it held, or nothing.
LEMMA GotoLearns ==
    ASSUME IInv, NEW w \in Worker, NEW pc \in Pc, Goto(w, pc), pc \notin {"promotion", "save"}
    PROVE  /\ \A v \in Worker \ {w} : wk'[v] = wk[v]
           /\ Learnt(w, wk'[w].was)
           /\ Learnt(w, wk'[w].new)
           /\ Private(w)'
<1> USE DEF IInv, TypeOK, RequestTypeOK
<1>1. CASE pc = "idle"
  <2>1. wk' = [wk EXCEPT ![w] = Idle]
    BY <1>1 DEF Goto
  <2>2. wk'[w].pc = "idle" /\ wk'[w].was = Blank /\ wk'[w].new = Blank
    BY <2>1 DEF Idle
  <2> QED
    BY <2>1, <2>2 DEF Learnt, KnownCoupon, KnownPromotion, Blank, Private, Making
<1>2. CASE pc # "idle"
  <2>1. wk' = [wk EXCEPT ![w] = [@ EXCEPT !.pc = pc]]
    BY <1>2 DEF Goto
  <2>2. wk'[w].pc = pc /\ wk'[w].was = wk[w].was /\ wk'[w].new = wk[w].new
    BY <2>1
  <2> QED
    BY <2>1, <2>2 DEF Learnt, KnownCoupon, KnownPromotion, Private, Making
<1> QED
  BY <1>1, <1>2

LEMMA SameGrows ==
    ASSUME UNCHANGED <<promos, coupons>>
    PROVE  Grows(promos, coupons, promos', coupons')
BY DEF Grows

\* Calls that change a promotion's state, or a coupon's, or nothing.
LEMMA TouchIsTidy ==
    ASSUME IInv, NEW w \in Worker, NEW pc \in Pc, Goto(w, pc), pc \notin {"promotion", "save"},
           Grows(promos, coupons, promos', coupons'),
           \A c \in Coupon : coupons'[c] # coupons[c] => c \in {wk[w].was.coupon, wk[w].new.coupon},
           \A p \in Promotion : promos'[p] # promos[p] => p \in {wk[w].was.promo, wk[w].new.promo},
           \A r \in Row : rows'[r].state # "none" =>
              \/ rows[r].state # "none" /\ rows'[r].col = rows[r].col
              \/ rows'[r].col = wk[w].new
    PROVE  Tidy(w) /\ Private(w)'
BY GotoLearns DEF Tidy, KnownCoupon, KnownPromotion

LEMMA SetStateIsTidy ==
    ASSUME IInv, NEW w \in Worker, NEW pc \in Pc, Goto(w, pc), pc \notin {"promotion", "save"},
           NEW p \in {wk[w].was.promo, wk[w].new.promo}, NEW state \in {"active", "inactive"},
           SetState(p, state) \/ UNCHANGED promos, UNCHANGED <<coupons, rows>>
    PROVE  Tidy(w) /\ Private(w)'
<1>1. Grows(promos, coupons, promos', coupons')
  BY SetStateGrows, SameGrows DEF IInv, TypeOK
<1>2. \A q \in Promotion : promos'[q] # promos[q] => q = p
  BY DEF SetState, IInv, TypeOK, StripeTypeOK
<1> QED
  BY <1>1, <1>2, TouchIsTidy

LEMMA DropCouponIsTidy ==
    ASSUME IInv, NEW w \in Worker, NEW pc \in Pc, Goto(w, pc), pc \notin {"promotion", "save"},
           NEW at, NEW c \in {wk[w].was.coupon, wk[w].new.coupon}, DropCoupon(w, at, c)
    PROVE  Tidy(w) /\ Private(w)'
<1>1. Grows(promos, coupons, promos', coupons') /\ UNCHANGED <<promos, rows>>
  BY DropCouponGrows DEF DropCoupon
<1>2. \A d \in Coupon : coupons'[d] # coupons[d] => d = c
  BY DEF DropCoupon, IInv, TypeOK, StripeTypeOK
<1> QED
  BY <1>1, <1>2, TouchIsTidy

LEMMA StartIsTidy ==
    ASSUME IInv, NEW w \in Worker, NEW op, NEW pc, NEW r \in Row,
           NEW was, NEW new, NEW flag, Start(w, op, pc, r, was, new, flag),
           op = "create" => pc = "coupon",
           \A col \in {was, new} : \/ col.coupon = None /\ col.promo = None
                                \/ /\ rows[r].state # "none"
                                   /\ col.coupon = rows[r].col.coupon
                                   /\ col.promo = rows[r].col.promo
    PROVE  Tidy(w) /\ Private(w)'
<1>1. /\ wk' = [wk EXCEPT ![w] = [pc |-> pc, op |-> op, id |-> r, was |-> was,
                                  new |-> new, flag |-> flag]]
      /\ UNCHANGED <<coupons, promos, rows>>
  BY DEF Start
<1>2. /\ wk'[w].was = was /\ wk'[w].new = new /\ wk'[w].op = op /\ wk'[w].pc = pc
      /\ \A v \in Worker \ {w} : wk'[v] = wk[v]
  BY <1>1 DEF IInv, TypeOK, RequestTypeOK
<1>3. Learnt(w, was) /\ Learnt(w, new)
  BY DEF Learnt, KnownCoupon, KnownPromotion
<1> QED
  BY <1>1, <1>2, <1>3, SameGrows DEF Tidy, Private, Making

\* A request begins with what it reads of a row, or with nothing.
LEMMA BeginIsTidy ==
    ASSUME IInv, NEW w \in Worker, BeginStep(w)
    PROVE  Tidy(w) /\ Private(w)'
<1>0. PICK r \in Row :
        \/ \E code \in Code, disc \in Discount :
              BeginCreate(w, r, code, disc) \/ BeginUpdate(w, r, code, disc)
        \/ BeginDelete(w, r)
        \/ \E flag \in {"on", "off"} : BeginToggle(w, r, flag)
        \/ BeginList(w, r)
  BY DEF BeginStep
<1>1. rows[r].col \in Column /\ Blank.coupon = None /\ Blank.promo = None
  BY DEF IInv, TypeOK, RowTypeOK, Blank
<1>2. ASSUME NEW code \in Code, NEW disc \in Discount, BeginCreate(w, r, code, disc)
      PROVE  Tidy(w) /\ Private(w)'
  <2> DEFINE new == [Blank EXCEPT !.code = code, !.disc = disc]
  <2>1. new.coupon = None /\ new.promo = None
    BY DEF Blank
  <2>2. Start(w, "create", "coupon", r, Blank, new, "on")
    BY <1>2 DEF BeginCreate
  <2> HIDE DEF new
  <2> QED
    BY <1>1, <2>1, <2>2, StartIsTidy
<1>3. ASSUME NEW code \in Code, NEW disc \in Discount, BeginUpdate(w, r, code, disc)
      PROVE  Tidy(w) /\ Private(w)'
  <2> DEFINE new == [rows[r].col EXCEPT !.code = code, !.disc = disc]
             pc  == FirstCall(rows[r].col, new)
             op  == IF pc = "rename" THEN "rename" ELSE "edit"
  <2>1. new.coupon = rows[r].col.coupon /\ new.promo = rows[r].col.promo
    BY <1>1 DEF Column
  <2>2. Start(w, op, pc, r, rows[r].col, new, "on") /\ rows[r].state # "none"
    BY <1>3 DEF BeginUpdate
  <2>3. op # "create"
    OBVIOUS
  <2> HIDE DEF new, pc, op
  <2> QED
    BY <2>1, <2>2, <2>3, StartIsTidy
<1>4. CASE BeginDelete(w, r)
  BY <1>1, <1>4, StartIsTidy DEF BeginDelete
<1>5. ASSUME NEW flag \in {"on", "off"}, BeginToggle(w, r, flag)
      PROVE  Tidy(w) /\ Private(w)'
  BY <1>1, <1>5, StartIsTidy DEF BeginToggle
<1>6. CASE BeginList(w, r)
  BY <1>1, <1>6, StartIsTidy DEF BeginList
<1> QED
  BY <1>0, <1>2, <1>3, <1>4, <1>5, <1>6

LEMMA CleanUpIsTidy ==
    ASSUME IInv, NEW w \in Worker, CleanUpStep(w)
    PROVE  Tidy(w) /\ Private(w)'
<1> DEFINE Away == Pc \ {"promotion", "save"}
<1>0. {"idle", "dropNewCoupon", "dropOldCoupon", "retireNew", "markDeleted", "reactivate"}
         \subseteq Away
  BY DEF Pc
<1>a. ASSUME Reopen(w)
      PROVE  \E pc \in Away : Goto(w, pc)
  BY <1>0, <1>a, ReopenGoes
<1> HIDE DEF Away
<1>b. Away \subseteq Pc /\ \A pc \in Away : pc \notin {"promotion", "save"}
  BY DEF Away
<1>1. CASE DropHeadlessCoupon(w)
  BY <1>1, <1>a, <1>b, DropCouponIsTidy DEF DropHeadlessCoupon
<1>2. CASE DropNewPromotion(w)
  BY <1>2, <1>0, <1>b, SetStateIsTidy DEF DropNewPromotion, DropPromotion
<1>3. CASE DropNewCoupon(w)
  BY <1>3, <1>a, <1>b, DropCouponIsTidy DEF DropNewCoupon
<1>4. CASE DropOldPromotion(w)
  BY <1>4, <1>0, <1>b, SetStateIsTidy DEF DropOldPromotion, DropPromotion
<1>5. CASE DropOldCoupon(w)
  <2>1. \E pc \in Away : Goto(w, pc)
    BY <1>0, <1>5 DEF DropOldCoupon
  <2> QED
    BY <1>5, <1>b, <2>1, DropCouponIsTidy DEF DropOldCoupon
<1>6. CASE RetireOld(w)
  BY <1>6, <1>0, <1>b, SetStateIsTidy DEF RetireOld
<1>7. CASE RetireNew(w)
  BY <1>7, <1>0, <1>b, SetStateIsTidy DEF RetireNew, DropPromotion
<1>8. CASE Reactivate(w)
  BY <1>8, <1>0, <1>b, SetStateIsTidy DEF Reactivate
<1> QED
  BY <1>1, <1>2, <1>3, <1>4, <1>5, <1>6, <1>7, <1>8 DEF CleanUpStep

\* A coupon just made is named nowhere.
LEMMA CreateCouponIsTidy ==
    ASSUME IInv, NamesExist, NEW w \in Worker, CreateCoupon(w)
    PROVE  Tidy(w) /\ Private(w)'
<1> USE DEF IInv, TypeOK
<1>1. CASE Fail /\ Reopen(w) /\ UNCHANGED coupons
  <2>1. UNCHANGED <<promos, rows>>
    BY DEF CreateCoupon
  <2>2. \E pc \in {"idle", "reactivate"} : Goto(w, pc)
    BY <1>1, ReopenGoes
  <2> QED
    BY <1>1, <2>1, <2>2, SameGrows, TouchIsTidy DEF Pc
<1>2. ASSUME NEW c \in Coupon, coupons[c].state = "none",
             coupons' = [coupons EXCEPT ![c] =
                [state |-> "live", disc |-> wk[w].new.disc]],
             wk' = [wk EXCEPT ![w].pc = "promotion", ![w].new.coupon = c]
      PROVE  Tidy(w) /\ Private(w)'
  <2>1. UNCHANGED <<promos, rows>>
    BY DEF CreateCoupon
  <2>2. wk[w].new \in Column /\ wk[w].was \in Column
    BY DEF RequestTypeOK
  <2>3. /\ wk'[w].pc = "promotion" /\ wk'[w].was = wk[w].was
        /\ wk'[w].new = [wk[w].new EXCEPT !.coupon = c]
        /\ \A v \in Worker \ {w} : wk'[v] = wk[v]
    BY <1>2 DEF RequestTypeOK
  <2>4. wk'[w].new.coupon = c /\ wk'[w].new.promo = wk[w].new.promo
    BY <2>2, <2>3 DEF Column
  <2>5. /\ coupons'[c].state = "live"
        /\ \A d \in Coupon \ {c} : coupons'[d] = coupons[d]
    BY <1>2 DEF StripeTypeOK
  <2>6. Grows(promos, coupons, promos', coupons')
    BY <1>2, <2>1, <2>5 DEF Grows
  <2>7. Learnt(w, wk'[w].was) /\ Learnt(w, wk'[w].new)
    BY <1>2, <2>3, <2>4, <2>5 DEF Learnt, KnownCoupon, KnownPromotion
  <2>8. Tidy(w)
    BY <1>2, <2>1, <2>3, <2>5, <2>6, <2>7 DEF Tidy
  <2>9. \A r \in Row : rows[r].state # "none" => rows[r].col.coupon # c
    BY <1>2 DEF RowsAreBacked, Backed
  <2>10. \A v \in Worker : wk[v].was.coupon # c /\ wk[v].new.coupon # c
    BY <1>2, PromoAssumption DEF NamesExist, Exist
  <2>11. PairLives(promos', coupons', wk'[w])
    BY <2>3, <2>4, <2>5 DEF PairLives
  <2>12. Private(w)'
    BY <2>1, <2>3, <2>4, <2>9, <2>10, <2>11 DEF Private, NotNamed
  <2> QED
    BY <2>8, <2>12
<1> QED
  BY <1>1, <1>2 DEF CreateCoupon

\* So is a promotion; that of a creation joins a coupon nobody else knows.
LEMMA NewPromotionIsTidy ==
    ASSUME IInv, NamesExist, PairsArePrivate, NEW w \in Worker, NEW coupon,
           Making(wk[w]) => coupon = wk[w].new.coupon,
           wk[w].op = "create" => wk[w].pc = "promotion",
           NewPromotion(w, coupon), UNCHANGED <<coupons, rows>>
    PROVE  Tidy(w) /\ Private(w)'
<1> USE DEF IInv, TypeOK
<1>1. PICK p \in Promotion :
        /\ promos[p].state = "none"
        /\ promos' = [promos EXCEPT ![p] =
              [state |-> "active", code |-> wk[w].new.code, coupon |-> coupon]]
        /\ wk' = [wk EXCEPT ![w].pc = "save", ![w].new.promo = p]
  BY DEF NewPromotion
<1>2. wk[w].new \in Column /\ wk[w].was \in Column
  BY DEF RequestTypeOK
<1>3. /\ wk'[w].pc = "save" /\ wk'[w].op = wk[w].op /\ wk'[w].was = wk[w].was
      /\ wk'[w].new = [wk[w].new EXCEPT !.promo = p]
      /\ \A v \in Worker \ {w} : wk'[v] = wk[v]
  BY <1>1 DEF RequestTypeOK
<1>4. wk'[w].new.promo = p /\ wk'[w].new.coupon = wk[w].new.coupon
  BY <1>2, <1>3 DEF Column
<1>5. /\ promos'[p].state = "active" /\ promos'[p].coupon = coupon
      /\ \A q \in Promotion \ {p} : promos'[q] = promos[q]
  BY <1>1 DEF StripeTypeOK
<1>6. Grows(promos, coupons, promos', coupons')
  BY <1>1, <1>5 DEF Grows
<1>7. Learnt(w, wk'[w].was) /\ Learnt(w, wk'[w].new)
  BY <1>1, <1>3, <1>4, <1>5 DEF Learnt, KnownCoupon, KnownPromotion
<1>8. Tidy(w)
  BY <1>1, <1>3, <1>5, <1>6, <1>7 DEF Tidy
<1>9. \A r \in Row : rows[r].state # "none" => rows[r].col.promo # p
  BY <1>1 DEF RowsAreBacked, Backed
<1>10. \A v \in Worker : wk[v].was.promo # p /\ wk[v].new.promo # p
  BY <1>1, PromoAssumption DEF NamesExist, Exist
<1>11. ASSUME wk[w].op = "create"
       PROVE  Private(w)'
  <2>1. /\ PairLives(promos, coupons, wk[w]) /\ coupon = wk[w].new.coupon
        /\ \A r \in Row : rows[r].state # "none" => NotNamed(wk[w], rows[r].col)
        /\ \A v \in Worker \ {w} : NotNamed(wk[w], wk[v].was) /\ NotNamed(wk[w], wk[v].new)
    BY <1>11 DEF PairsArePrivate, Private, Making
  <2>2. PairLives(promos', coupons', wk'[w])
    BY <1>3, <1>4, <1>5, <2>1 DEF PairLives
  <2> QED
    BY <1>3, <1>4, <1>9, <1>10, <2>1, <2>2 DEF Private, NotNamed
<1>12. Private(w)'
  BY <1>3, <1>11 DEF Private, Making
<1> QED
  BY <1>8, <1>12

LEMMA CreationsKept ==
    ASSUME IInv, CreationsAtCoupon, NEW w \in Worker,
           \/ BeginStep(w) \/ StripeStep(w) \/ CleanUpStep(w)
           \/ RowStep(w) \/ Crash(w)
    PROVE  CreationsAtCoupon'
<1> USE DEF IInv, TypeOK, RequestTypeOK, CreationsAtCoupon
<1>1. ASSUME NEW pc, pc # "rename", Goto(w, pc)
      PROVE  CreationsAtCoupon'
  BY <1>1 DEF Goto, Idle
<1>2. CASE BeginStep(w)
  <2>1. ASSUME NEW op, NEW pc, NEW r, NEW was, NEW new, NEW flag,
               Start(w, op, pc, r, was, new, flag), pc = "rename" => op # "create"
        PROVE  CreationsAtCoupon'
    BY <2>1 DEF Start
  <2>2. ASSUME NEW r \in Row, NEW code, NEW disc, BeginUpdate(w, r, code, disc)
        PROVE  CreationsAtCoupon'
    <3> DEFINE new == [rows[r].col EXCEPT !.code = code, !.disc = disc]
               pc  == FirstCall(rows[r].col, new)
    <3>1. Start(w, IF pc = "rename" THEN "rename" ELSE "edit", pc, r, rows[r].col, new, "on")
      BY <2>2 DEF BeginUpdate
    <3> HIDE DEF new, pc
    <3> QED
      BY <2>1, <3>1
  <2>3. ASSUME NEW r \in Row, NEW code, NEW disc, BeginCreate(w, r, code, disc)
        PROVE  CreationsAtCoupon'
    BY <2>1, <2>3 DEF BeginCreate
  <2>4. ASSUME NEW r \in Row, NEW flag,
               BeginDelete(w, r) \/ BeginToggle(w, r, flag) \/ BeginList(w, r)
        PROVE  CreationsAtCoupon'
    BY <2>1, <2>4 DEF BeginDelete, BeginToggle, BeginList
  <2> QED
    BY <1>2, <2>2, <2>3, <2>4 DEF BeginStep
<1>3. CASE StripeStep(w)
  <2>1. CASE CreateCoupon(w)
    BY <1>1, <2>1, ReopenGoes DEF CreateCoupon
  <2>2. CASE LoadSummary(w)
    BY <2>2 DEF LoadSummary
  <2>3. CASE DeactivateOld(w) \/ CreatePromotion(w) \/ RenamePromotion(w) \/ SetActive(w)
    BY <1>1, <2>3 DEF DeactivateOld, CreatePromotion, RenamePromotion, SetActive, NewPromotion
  <2> QED
    BY <1>3, <2>1, <2>2, <2>3 DEF StripeStep
<1>4. CASE CleanUpStep(w)
  BY <1>1, <1>4, ReopenGoes
     DEF CleanUpStep, DropHeadlessCoupon, DropNewPromotion, DropNewCoupon, DropOldPromotion,
         DropOldCoupon, RetireOld, RetireNew, Reactivate, DropPromotion
<1>5. CASE RowStep(w)
  BY <1>1, <1>5 DEF RowStep, SaveRow, SaveMirror, MarkDeleted, AfterSave, Undo
<1>6. CASE Crash(w)
  BY <1>1, <1>6 DEF Crash
<1> QED
  BY <1>2, <1>3, <1>4, <1>5, <1>6

LEMMA StripeIsTidy ==
    ASSUME IInv, NamesExist, PairsArePrivate, CreationsAtCoupon, NEW w \in Worker, StripeStep(w)
    PROVE  Tidy(w) /\ Private(w)'
<1>0. {"idle", "coupon", "dropHeadless", "mirror"} \subseteq Pc
  BY DEF Pc
<1>1. CASE DeactivateOld(w)
  BY <1>0, <1>1, SetStateIsTidy DEF DeactivateOld
<1>2. CASE CreateCoupon(w)
  BY <1>2, CreateCouponIsTidy
<1>3. CASE CreatePromotion(w)
  <2>1. wk[w].pc = "promotion" /\ UNCHANGED <<coupons, rows>>
    BY <1>3 DEF CreatePromotion, At
  <2>2. CASE NewPromotion(w, wk[w].new.coupon)
    BY <2>1, <2>2, NewPromotionIsTidy
  <2>3. CASE Goto(w, "dropHeadless") /\ UNCHANGED promos
    BY <1>0, <2>1, <2>3, SetStateIsTidy
  <2> QED
    BY <1>3, <2>2, <2>3 DEF CreatePromotion
<1>4. CASE RenamePromotion(w)
  <2>1. wk[w].pc = "rename" /\ UNCHANGED <<coupons, rows>>
    BY <1>4 DEF RenamePromotion, At
  <2>2. CASE NewPromotion(w, wk[w].was.coupon)
    <3>1. wk[w].op # "create"
      BY <2>1 DEF CreationsAtCoupon
    <3> QED
      BY <2>1, <2>2, <3>1, NewPromotionIsTidy DEF Making
  <2>3. CASE Goto(w, "idle") /\ UNCHANGED promos
    BY <1>0, <2>1, <2>3, SetStateIsTidy
  <2> QED
    BY <1>4, <2>2, <2>3 DEF RenamePromotion
<1>5. CASE SetActive(w)
  <2>1. \E pc \in {"idle", "mirror"} : Goto(w, pc)
    BY <1>5 DEF SetActive
  <2>2. \E state \in {"active", "inactive"} :
           SetState(wk[w].was.promo, state) \/ UNCHANGED promos
    BY <1>5 DEF SetActive
  <2>3. UNCHANGED <<coupons, rows>>
    BY <1>5 DEF SetActive
  <2> QED
    BY <1>0, <2>1, <2>2, <2>3, SetStateIsTidy
<1>6. CASE LoadSummary(w)
  <2>1. PICK flag \in {"on", "off"} :
           wk' = [wk EXCEPT ![w].pc = "mirror", ![w].flag = flag]
    BY <1>6 DEF LoadSummary
  <2>2. /\ wk'[w].pc = "mirror" /\ wk'[w].was = wk[w].was /\ wk'[w].new = wk[w].new
        /\ \A v \in Worker \ {w} : wk'[v] = wk[v]
    BY <2>1 DEF IInv, TypeOK, RequestTypeOK
  <2>3. UNCHANGED <<coupons, promos, rows>>
    BY <1>6 DEF LoadSummary
  <2> QED
    BY <2>2, <2>3, SameGrows DEF Tidy, Learnt, KnownCoupon, KnownPromotion, Private, Making
<1> QED
  BY <1>1, <1>2, <1>3, <1>4, <1>5, <1>6 DEF StripeStep

LEMMA RowIsTidy ==
    ASSUME IInv, NEW w \in Worker, RowStep(w)
    PROVE  Tidy(w) /\ Private(w)'
<1> USE DEF IInv, TypeOK
<1>0. Knows(promos, coupons, rows, wk[w]) /\ {"idle"} \cup Plain \subseteq Pc \ {"promotion", "save"}
  BY DEF RequestsKnow, Plain, Pc
<1>1. CASE SaveRow(w)
  <2>1. AfterSave(w) \in Plain /\ Undo(w) \in Plain
    BY DEF AfterSave, Undo, Plain
  <2>2. \E pc \in Pc \ {"promotion", "save"} : Goto(w, pc)
    BY <1>0, <1>1, <2>1 DEF SaveRow
  <2>3. wk[w].id \in Row
    BY <1>0, <1>1 DEF SaveRow, At, Knows
  <2>4. Written(w).col = wk[w].new
    BY <2>3 DEF Written, RowTypeOK
  <2>5. rows' = [rows EXCEPT ![wk[w].id] = Written(w)] \/ UNCHANGED rows
    BY <1>1 DEF SaveRow
  <2> HIDE DEF Written
  <2>6. \A r \in Row : rows'[r] = rows[r] \/ rows'[r].col = wk[w].new
    BY <2>3, <2>4, <2>5 DEF RowTypeOK
  <2>7. UNCHANGED <<coupons, promos>>
    BY <1>1 DEF SaveRow
  <2> QED
    BY <2>2, <2>6, <2>7, SameGrows, TouchIsTidy
<1>2. CASE SaveMirror(w) \/ MarkDeleted(w)
  <2>1. Goto(w, "idle") /\ UNCHANGED <<coupons, promos>>
    BY <1>2 DEF SaveMirror, MarkDeleted
  <2>2. wk[w].pc = "markDeleted" => rows[wk[w].id].state # "none" /\ wk[w].id \in Row
    BY <1>0 DEF Knows
  <2>3. \/ rows' = [rows EXCEPT ![wk[w].id].mirror = wk[w].flag]
        \/ /\ rows' = [rows EXCEPT ![wk[w].id].state = "deleted", ![wk[w].id].mirror = "off"]
           /\ wk[w].pc = "markDeleted"
        \/ UNCHANGED rows
    BY <1>2 DEF SaveMirror, MarkDeleted, At
  <2>4. \A r \in Row : rows'[r].state # "none" =>
           rows[r].state # "none" /\ rows'[r].col = rows[r].col
    BY <2>2, <2>3 DEF RowTypeOK
  <2> QED
    BY <1>0, <2>1, <2>4, SameGrows, TouchIsTidy
<1> QED
  BY <1>1, <1>2 DEF RowStep

LEMMA NextIsTidy ==
    ASSUME IInv, NamesExist, PairsArePrivate, CreationsAtCoupon, NEW w \in Worker,
           \/ BeginStep(w) \/ StripeStep(w) \/ CleanUpStep(w)
           \/ RowStep(w) \/ Crash(w)
    PROVE  Tidy(w) /\ Private(w)'
<1>1. CASE Crash(w)
  BY <1>1, SameGrows, TouchIsTidy DEF Crash, Pc
<1> QED
  BY <1>1, BeginIsTidy, StripeIsTidy, CleanUpIsTidy, RowIsTidy

LEMMA PairsInductive == Spec => [](NamesExist /\ PairsArePrivate /\ CreationsAtCoupon)
<1> DEFINE Inv == NamesExist /\ PairsArePrivate /\ CreationsAtCoupon
<1>1. Init => Inv
  BY DEF Init, NamesExist, Exist, PairsArePrivate, Private, Making, CreationsAtCoupon, Idle, Blank
<1>2. IInv /\ Inv /\ [Next]_vars => Inv'
  <2> SUFFICES ASSUME IInv, Inv, [Next]_vars PROVE Inv'
    OBVIOUS
  <2>1. ASSUME NEW w \in Worker,
               \/ BeginStep(w) \/ StripeStep(w) \/ CleanUpStep(w)
               \/ RowStep(w) \/ Crash(w)
        PROVE  Inv'
    <3>1. Tidy(w) /\ Private(w)'
      BY <2>1, NextIsTidy
    <3>2. CreationsAtCoupon'
      BY <2>1, CreationsKept
    <3> QED
      BY <3>1, <3>2, TidyKeepsNames, TidyKeepsOthers DEF PairsArePrivate
  <2>2. CASE UNCHANGED vars
    BY <2>2 DEF vars, NamesExist, Exist, PairsArePrivate, Private, PairLives, NotNamed,
                CreationsAtCoupon
  <2> QED
    BY <2>1, <2>2 DEF Next
<1> QED
  BY <1>1, <1>2, Inductive, PTL DEF Spec

\* createPromoCode inserts a row only with a pair that can be redeemed at that
\* moment, whatever other requests do between its calls.
THEOREM PromoCreatedLive == Spec => CreatedLive
<1>1. ASSUME IInv, PairsArePrivate, [Next]_vars
      PROVE  [\A r \in Row : rows[r].state = "none" /\ rows'[r].state # "none"
                                => Redeemable(rows'[r].col.promo)]_vars
  <2> SUFFICES ASSUME NEW w \in Worker,
                      \/ BeginStep(w) \/ StripeStep(w) \/ CleanUpStep(w)
                      \/ RowStep(w) \/ Crash(w),
                      NEW r \in Row, rows[r].state = "none", rows'[r].state # "none"
               PROVE  Redeemable(rows'[r].col.promo)
    BY <1>1 DEF Next
  <2>1. RowStep(w)
    BY DEF BeginStep, BeginCreate, BeginUpdate, BeginDelete, BeginToggle, BeginList, Start,
           StripeStep, DeactivateOld, CreateCoupon, CreatePromotion, RenamePromotion,
           SetActive, LoadSummary, CleanUpStep, DropHeadlessCoupon, DropNewPromotion,
           DropNewCoupon, DropOldPromotion, DropOldCoupon, RetireOld, RetireNew, Reactivate,
           DropPromotion, DropCoupon, Crash
  <2>2. Knows(promos, coupons, rows, wk[w])
    BY <1>1 DEF IInv, RequestsKnow
  <2>3. SaveRow(w)
    BY <1>1, <2>1, <2>2 DEF RowStep, SaveMirror, MarkDeleted, At, Knows, IInv, TypeOK, RowTypeOK
  <2>4. wk[w].id \in Row /\ wk[w].pc = "save"
    BY <2>2, <2>3 DEF SaveRow, At, Knows
  <2>5. rows' = [rows EXCEPT ![wk[w].id] = Written(w)]
    BY <2>3 DEF SaveRow
  <2>6. r = wk[w].id /\ rows'[r] = Written(w)
    BY <1>1, <2>4, <2>5 DEF IInv, TypeOK, RowTypeOK
  <2>7. wk[w].op = "create" /\ rows'[r].col = wk[w].new
    BY <1>1, <2>6 DEF Written, IInv, TypeOK, RowTypeOK
  <2>8. PairLives(promos, coupons, wk[w])
    BY <1>1, <2>4, <2>7 DEF PairsArePrivate, Private, Making
  <2> QED
    BY <2>4, <2>7, <2>8 DEF PairLives, Redeemable, Valid
<1> QED
  BY <1>1, Inductive, PairsInductive, PTL DEF Spec, CreatedLive

-------------------------------------------------------------------------------
(* One request at a time.  What a request may count on then, at each await:  *)
(* the operation it can be in there (Course), and the row and the objects as *)
(* it left them (Reads).                                                     *)

Step(w) == BeginStep(w) \/ StripeStep(w) \/ CleanUpStep(w) \/ RowStep(w) \/ Crash(w)

\* The request puts a new pair in the place of the old one, if any.
Makes(x) == x.was.disc # x.new.disc

\* ... under the code of the old one.
Keeps(x) == x.was.code = x.new.code

Undoing     == {"dropNewPromotion", "dropNewCoupon"}
Pairing     == {"coupon", "promotion", "dropHeadless"} \cup Undoing
DroppingOld == {"dropOldPromotion", "dropOldCoupon"}
Looking     == {"setActive", "summary", "mirror"}

Course(x) ==
    /\ x.pc \in Pairing => Makes(x) /\ x.op \in {"create", "edit"}
    /\ x.pc \in {"deactivateOld", "reactivate"} => Makes(x) /\ Keeps(x) /\ x.op = "edit"
    /\ x.pc \in {"rename", "retireOld", "retireNew"} => ~Makes(x) /\ ~Keeps(x) /\ x.op = "rename"
    /\ x.pc = "rename" => x.new.coupon = x.was.coupon
    /\ x.pc = "save" =>
          /\ IF Makes(x) THEN x.op \in {"create", "edit"} ELSE x.op \in {"edit", "rename"}
          /\ ~Makes(x) => x.new.coupon = x.was.coupon
          /\ ~Makes(x) /\ Keeps(x) => x.new.promo = x.was.promo
          /\ ~Makes(x) /\ ~Keeps(x) => x.op = "rename"
    /\ x.pc \in DroppingOld => x.op = "delete" \/ (x.op = "edit" /\ Makes(x))
    /\ x.pc = "markDeleted" => x.op = "delete"
    /\ x.pc \in Looking => x.op \in {"toggle", "list"}

\* The row is still as the request read it.
AsRead(x) == x.pc \notin DroppingOld \cup {"retireOld", "retireNew"} \/ x.op = "delete"

Reads(x) ==
    x.pc # "idle" =>
       /\ x.id \in Row
       /\ x.op = "create" => rows[x.id].state = "none"
       /\ x.op # "create" => /\ rows[x.id].state = "live"
                             /\ Fits(promos, coupons, x.was)
                             /\ AsRead(x) => rows[x.id].col = x.was
       /\ x.pc \in {"promotion", "dropHeadless"} =>
             x.new.coupon \in Coupon /\ coupons[x.new.coupon].state = "live"
       /\ x.pc \in {"save", "retireOld", "retireNew"} \cup Undoing =>
             Fits(promos, coupons, x.new)

\* A promotion is of a coupon that was made.
References ==
    \A p \in Promotion : promos[p].state # "none" =>
        promos[p].coupon \in Coupon /\ coupons[promos[p].coupon].state # "none"

LEMMA GotoMoves ==
    ASSUME IInv, NEW w \in Worker, NEW pc, Goto(w, pc)
    PROVE  LET x == wk[w]
               y == wk'[w]
           IN  /\ pc = "idle" => y = Idle
               /\ pc # "idle" => /\ y.pc = pc /\ y.op = x.op /\ y.id = x.id
                                 /\ y.was = x.was /\ y.new = x.new /\ y.flag = x.flag
BY DEF Goto, IInv, TypeOK, RequestTypeOK

LEMMA StartMoves ==
    ASSUME IInv, NEW w \in Worker, NEW op, NEW pc, NEW r, NEW was, NEW new, NEW flag,
           Start(w, op, pc, r, was, new, flag)
    PROVE  /\ wk'[w].pc = pc /\ wk'[w].op = op /\ wk'[w].id = r
           /\ wk'[w].was = was /\ wk'[w].new = new /\ wk'[w].flag = flag
           /\ wk[w].pc = "idle" /\ UNCHANGED <<coupons, promos, rows, failures>>
BY DEF Start, IInv, TypeOK, RequestTypeOK, At, Succeed

\* What a request is when it has begun.
Begun(x) ==
    /\ x.id \in Row
    /\ \/ /\ x.op = "create" /\ x.pc = "coupon" /\ Makes(x) /\ ~Keeps(x)
          /\ rows[x.id].state = "none"
       \/ /\ x.op \in {"edit", "rename"} /\ rows[x.id].state = "live"
          /\ x.was = rows[x.id].col
          /\ x.new.coupon = x.was.coupon /\ x.new.promo = x.was.promo
          /\ x.pc = FirstCall(x.was, x.new)
          /\ x.op = "rename" <=> x.pc = "rename"
       \/ /\ x.op = "delete" /\ x.pc = "dropOldPromotion"
          /\ rows[x.id].state = "live" /\ x.was = rows[x.id].col
       \/ /\ x.op \in {"toggle", "list"} /\ x.pc \in {"setActive", "summary"}
          /\ rows[x.id].state = "live" /\ x.was = rows[x.id].col

LEMMA RequestBegins ==
    ASSUME IInv, NEW w \in Worker, BeginStep(w)
    PROVE  /\ Begun(wk[w])'
           /\ wk[w].pc = "idle" /\ UNCHANGED <<coupons, promos, rows, failures>>
<1>0. PICK r \in Row :
        \/ \E code \in Code, disc \in Discount :
              BeginCreate(w, r, code, disc) \/ BeginUpdate(w, r, code, disc)
        \/ BeginDelete(w, r)
        \/ \E flag \in {"on", "off"} : BeginToggle(w, r, flag)
        \/ BeginList(w, r)
  BY DEF BeginStep
<1>1. rows[r].col \in Column
  BY DEF IInv, TypeOK, RowTypeOK
<1>2. ASSUME NEW code \in Code, NEW disc \in Discount, BeginCreate(w, r, code, disc)
      PROVE  Begun(wk[w])' /\ wk[w].pc = "idle" /\ UNCHANGED <<coupons, promos, rows, failures>>
  <2>1. PICK new : /\ new.code = code /\ new.disc = disc
                   /\ Start(w, "create", "coupon", r, Blank, new, "on")
    BY <1>2 DEF BeginCreate, Blank
  <2>2. rows[r].state = "none" /\ Blank.code # code /\ Blank.disc # disc
    BY <1>2, PromoAssumption DEF BeginCreate, Blank
  <2> QED
    BY <2>1, <2>2, StartMoves DEF Begun, Makes, Keeps
<1>3. ASSUME NEW code \in Code, NEW disc \in Discount, BeginUpdate(w, r, code, disc)
      PROVE  Begun(wk[w])' /\ wk[w].pc = "idle" /\ UNCHANGED <<coupons, promos, rows, failures>>
  <2>1. PICK new : /\ new.coupon = rows[r].col.coupon /\ new.promo = rows[r].col.promo
                   /\ Start(w, IF FirstCall(rows[r].col, new) = "rename" THEN "rename" ELSE "edit",
                            FirstCall(rows[r].col, new), r, rows[r].col, new, "on")
    BY <1>1, <1>3 DEF BeginUpdate, Column
  <2>2. rows[r].state = "live"
    BY <1>3 DEF BeginUpdate
  <2> QED
    BY <2>1, <2>2, StartMoves DEF Begun
<1>4. CASE BeginDelete(w, r)
  BY <1>4, StartMoves DEF BeginDelete, Begun
<1>5. ASSUME NEW flag \in {"on", "off"}, BeginToggle(w, r, flag)
      PROVE  Begun(wk[w])' /\ wk[w].pc = "idle" /\ UNCHANGED <<coupons, promos, rows, failures>>
  BY <1>5, StartMoves DEF BeginToggle, Begun
<1>6. CASE BeginList(w, r)
  BY <1>6, StartMoves DEF BeginList, Begun
<1> QED
  BY <1>0, <1>2, <1>3, <1>4, <1>5, <1>6

\* Every operation goes its own way.
LEMMA CourseKept ==
    ASSUME IInv, NEW w \in Worker, Course(wk[w]), Step(w)
    PROVE  Course(wk[w])'
<1> USE DEF Course, Makes, Keeps, Pairing, Undoing, DroppingOld, Looking
<1>0. /\ wk[w] \in [pc : Pc, op : Operation \cup {"none"}, id : Row \cup {None},
                    was : Column, new : Column, flag : {"on", "off"}]
      /\ \A pc : Goto(w, pc) => LET x == wk[w]
                                    y == wk'[w]
                                IN  /\ pc = "idle" => y.pc = "idle"
                                    /\ pc # "idle" => /\ y.pc = pc /\ y.op = x.op
                                                      /\ y.was = x.was /\ y.new = x.new
  BY GotoMoves DEF IInv, TypeOK, RequestTypeOK, Idle
<1>1. CASE BeginStep(w)
  <2>1. Begun(wk[w])'
    BY <1>1, RequestBegins
  <2> QED
    BY <2>1 DEF Begun, FirstCall
<1>2. CASE DeactivateOld(w)
  BY <1>0, <1>2 DEF DeactivateOld, At
<1>3. CASE CreateCoupon(w)
  <2>1. CASE Reopen(w)
    BY <1>0, <1>3, <2>1 DEF CreateCoupon, At, Reopen, SameCode
  <2>2. CASE \E c \in Coupon : wk' = [wk EXCEPT ![w].pc = "promotion", ![w].new.coupon = c]
    <3>1. PICK c \in Coupon : wk' = [wk EXCEPT ![w].pc = "promotion", ![w].new.coupon = c]
      BY <2>2
    <3>2. /\ wk'[w].pc = "promotion" /\ wk'[w].op = wk[w].op /\ wk'[w].was = wk[w].was
          /\ wk'[w].new.disc = wk[w].new.disc
      BY <1>0, <3>1 DEF IInv, TypeOK, RequestTypeOK, Column
    <3> QED
      BY <1>3, <3>2 DEF CreateCoupon, At
  <2> QED
    BY <1>3, <2>1, <2>2 DEF CreateCoupon
<1>4. ASSUME NEW coupon, NewPromotion(w, coupon), wk[w].pc \in {"promotion", "rename"}
      PROVE  Course(wk[w])'
  <2>1. PICK p \in Promotion : wk' = [wk EXCEPT ![w].pc = "save", ![w].new.promo = p]
    BY <1>4 DEF NewPromotion
  <2>2. /\ wk'[w].pc = "save" /\ wk'[w].op = wk[w].op /\ wk'[w].was = wk[w].was
        /\ wk'[w].new.disc = wk[w].new.disc /\ wk'[w].new.code = wk[w].new.code
        /\ wk'[w].new.coupon = wk[w].new.coupon
    BY <1>0, <2>1 DEF IInv, TypeOK, RequestTypeOK, Column
  <2> QED
    BY <1>4, <2>2
<1>5. CASE CreatePromotion(w)
  <2>1. wk[w].pc = "promotion" /\ ((\E c : NewPromotion(w, c)) \/ Goto(w, "dropHeadless"))
    BY <1>5 DEF CreatePromotion, At
  <2> QED
    BY <1>0, <1>4, <2>1
<1>6. CASE RenamePromotion(w)
  <2>1. wk[w].pc = "rename" /\ ((\E c : NewPromotion(w, c)) \/ Goto(w, "idle"))
    BY <1>6 DEF RenamePromotion, At
  <2> QED
    BY <1>0, <1>4, <2>1
<1>7. CASE SetActive(w)
  BY <1>0, <1>7 DEF SetActive, At
<1>8. CASE LoadSummary(w)
  <2>1. PICK flag : wk' = [wk EXCEPT ![w].pc = "mirror", ![w].flag = flag]
    BY <1>8 DEF LoadSummary
  <2>2. wk'[w].pc = "mirror" /\ wk'[w].op = wk[w].op
    BY <1>0, <2>1 DEF IInv, TypeOK, RequestTypeOK
  <2> QED
    BY <1>8, <2>2 DEF LoadSummary, At
<1>9. CASE DropHeadlessCoupon(w) \/ DropNewCoupon(w)
  BY <1>0, <1>9 DEF DropHeadlessCoupon, DropNewCoupon, DropCoupon, At, Reopen, SameCode
<1>10. CASE DropNewPromotion(w) \/ DropOldPromotion(w) \/ RetireNew(w)
  BY <1>0, <1>10 DEF DropNewPromotion, DropOldPromotion, RetireNew, DropPromotion, At
<1>11. CASE DropOldCoupon(w)
  BY <1>0, <1>11 DEF DropOldCoupon, DropCoupon, At
<1>12. CASE RetireOld(w) \/ Reactivate(w)
  BY <1>0, <1>12 DEF RetireOld, Reactivate, At
<1>13. CASE SaveRow(w)
  <2>1. wk[w].pc = "save" /\ (Goto(w, AfterSave(w)) \/ Goto(w, Undo(w)))
    BY <1>13 DEF SaveRow, At
  <2> QED
    BY <1>0, <2>1 DEF AfterSave, Undo, Replaces, SameCode
<1>14. CASE SaveMirror(w) \/ MarkDeleted(w) \/ Crash(w)
  BY <1>0, <1>14 DEF SaveMirror, MarkDeleted, Crash
<1> QED
  BY <1>1, <1>2, <1>3, <1>5, <1>6, <1>7, <1>8, <1>9, <1>10, <1>11, <1>12, <1>13, <1>14
     DEF Step, StripeStep, CleanUpStep, RowStep

\* The invariants of any number of requests, that those of one rest on.
Base == IInv /\ NamesExist /\ PairsArePrivate /\ CreationsAtCoupon

SameRows == \A r \in Row : rows'[r].state = rows[r].state /\ rows'[r].col = rows[r].col

\* A request that goes on, the row being as it was, knows what it knew.
LEMMA GotoReads ==
    ASSUME IInv, NEW w \in Worker, NEW pc, Goto(w, pc), wk[w].pc # "idle",
           Reads(wk[w]), Grows(promos, coupons, promos', coupons'), SameRows,
           pc \in DroppingOld \cup {"retireOld", "retireNew"} \/ AsRead(wk[w]) \/ pc = "idle",
           pc = "dropHeadless" => wk[w].new.coupon \in Coupon /\ coupons'[wk[w].new.coupon].state = "live",
           pc # "promotion",
           pc \in {"save", "retireOld", "retireNew"} \cup Undoing =>
              Fits(promos, coupons, wk[w].new) \/ Fits(promos', coupons', wk[w].new)
    PROVE  Reads(wk[w])'
<1>1. CASE pc = "idle"
  <2>1. wk'[w].pc = "idle"
    BY <1>1, GotoMoves DEF Idle
  <2> QED
    BY <2>1 DEF Reads
<1>2. CASE pc # "idle"
  <2> DEFINE x == wk[w]
  <2>1. /\ wk'[w].pc = pc /\ wk'[w].op = x.op /\ wk'[w].id = x.id
        /\ wk'[w].was = x.was /\ wk'[w].new = x.new
    BY <1>2, GotoMoves
  <2>2. x.id \in Row /\ rows'[x.id].state = rows[x.id].state /\ rows'[x.id].col = rows[x.id].col
    BY DEF Reads, SameRows
  <2>3. /\ Fits(promos, coupons, x.was) => Fits(promos', coupons', x.was)
        /\ Fits(promos, coupons, x.new) => Fits(promos', coupons', x.new)
    BY FitsGrows
  <2>4. AsRead(wk[w])' => AsRead(x)
    BY <1>2, <2>1 DEF AsRead
  <2> QED
    BY <2>1, <2>2, <2>3, <2>4 DEF Reads
<1> QED
  BY <1>1, <1>2

LEMMA CreateCouponReads ==
    ASSUME Base, NEW w \in Worker, Course(wk[w]), Reads(wk[w]), CreateCoupon(w),
           Grows(promos, coupons, promos', coupons')
    PROVE  Reads(wk[w])'
<1> DEFINE x == wk[w]
<1>0. x.pc = "coupon" /\ UNCHANGED <<promos, rows>> /\ x.op \in {"create", "edit"} /\ SameRows
  BY DEF CreateCoupon, At, Course, Pairing, SameRows
<1>1. CASE Reopen(w)
  <2>1. PICK pc \in {"reactivate", "idle"} : Goto(w, pc)
    BY <1>1, ReopenGoes
  <2> QED
    BY <1>0, <2>1, GotoReads DEF Base, AsRead, DroppingOld, Undoing
<1>2. CASE ~Reopen(w)
  <2>1. PICK c \in Coupon : /\ coupons' = [coupons EXCEPT ![c] = [state |-> "live", disc |-> x.new.disc]]
                            /\ wk' = [wk EXCEPT ![w].pc = "promotion", ![w].new.coupon = c]
    BY <1>2 DEF CreateCoupon
  <2>2. /\ wk'[w].pc = "promotion" /\ wk'[w].op = x.op /\ wk'[w].was = x.was /\ wk'[w].id = x.id
        /\ wk'[w].new.coupon = c /\ coupons'[c].state = "live"
    BY <2>1 DEF Base, IInv, TypeOK, RequestTypeOK, Column, StripeTypeOK
  <2>3. Fits(promos, coupons, x.was) => Fits(promos', coupons', x.was)
    BY FitsGrows
  <2> QED
    BY <1>0, <2>2, <2>3 DEF Reads, AsRead, DroppingOld, Undoing
<1> QED
  BY <1>1, <1>2

LEMMA NewPromotionReads ==
    ASSUME Base, NEW w \in Worker, Course(wk[w]), Reads(wk[w]), NEW coupon, NewPromotion(w, coupon),
           UNCHANGED <<coupons, rows>>, coupon = wk[w].new.coupon,
           wk[w].pc \in {"promotion", "rename"}, Knows(promos', coupons', rows', wk'[w])
    PROVE  Reads(wk[w])' /\ (References => References')
<1> DEFINE x == wk[w]
<1>1. PICK p \in Promotion :
        /\ promos[p].state = "none"
        /\ promos' = [promos EXCEPT ![p] =
              [state |-> "active", code |-> x.new.code, coupon |-> coupon]]
        /\ wk' = [wk EXCEPT ![w].pc = "save", ![w].new.promo = p]
  BY DEF NewPromotion
<1>2. /\ wk'[w].pc = "save" /\ wk'[w].op = x.op /\ wk'[w].was = x.was /\ wk'[w].id = x.id
      /\ promos'[p].coupon = coupon /\ \A q \in Promotion \ {p} : promos'[q] = promos[q]
  BY <1>1 DEF Base, IInv, TypeOK, RequestTypeOK, StripeTypeOK
<1>3. Fits(promos', coupons', wk'[w].new)
  BY <1>2 DEF Knows
<1>4. Fits(promos, coupons, x.was) => Fits(promos', coupons', x.was)
  BY <1>1, <1>2 DEF Fits
<1>5. coupon \in Coupon /\ coupons[coupon].state # "none"
  <2>1. Knows(promos, coupons, rows, x)
    BY DEF Base, IInv, RequestsKnow
  <2> QED
    BY <2>1 DEF Knows, Fits
<1> QED
  BY <1>2, <1>3, <1>4, <1>5 DEF Reads, References, AsRead, DroppingOld, Undoing

LEMMA ReferencesStay ==
    ASSUME References, Grows(promos, coupons, promos', coupons'),
           \A p \in Promotion : promos[p].state = "none" => promos'[p].state = "none"
    PROVE  References'
BY DEF References, Grows

LEMMA SetStateSets ==
    ASSUME IInv, NEW p \in Promotion, NEW state, SetState(p, state)
    PROVE  /\ promos'[p].state = state
           /\ \A q \in Promotion : promos'[q].coupon = promos[q].coupon
                                   /\ promos'[q].code = promos[q].code
           /\ \A q \in Promotion \ {p} : promos'[q] = promos[q]
BY DEF SetState, IInv, TypeOK, StripeTypeOK

LEMMA DropCouponSets ==
    ASSUME IInv, NEW w, NEW pc, NEW c \in Coupon, DropCoupon(w, pc, c)
    PROVE  /\ UNCHANGED <<promos, rows>>
           /\ \/ UNCHANGED <<coupons, failures>> \/ failures < failures'
              \/ coupons'[c].state = "deleted" /\ UNCHANGED failures
           /\ \A d \in Coupon \ {c} : coupons'[d] = coupons[d]
BY DEF DropCoupon, Succeed, Fail, IInv, TypeOK, StripeTypeOK

\* The row the request writes.
LEMMA SaveRowSets ==
    ASSUME IInv, NEW w \in Worker, Course(wk[w]), Reads(wk[w]), SaveRow(w)
    PROVE  /\ wk[w].pc = "save" /\ wk[w].id \in Row
           /\ UNCHANGED <<coupons, promos>>
           /\ \/ /\ Goto(w, Undo(w)) /\ UNCHANGED rows
                 /\ failures' # failures \/ Taken(wk[w].id, wk[w].new.code)
              \/ /\ Goto(w, AfterSave(w))
                 /\ ~Taken(wk[w].id, wk[w].new.code)
                 /\ rows'[wk[w].id].state = "live" /\ rows'[wk[w].id].col = wk[w].new
                 /\ wk[w].op # "create" => rows'[wk[w].id].mirror = rows[wk[w].id].mirror
                 /\ \A r \in Row \ {wk[w].id} : rows'[r] = rows[r]
                 /\ UNCHANGED failures
<1>1. wk[w].pc = "save" /\ wk[w].id \in Row /\ UNCHANGED <<coupons, promos>>
  BY DEF SaveRow, At, Reads
<1>2. CASE Goto(w, Undo(w)) /\ UNCHANGED rows /\ RefusedOr(Taken(wk[w].id, wk[w].new.code))
  <2>1. failures' # failures \/ Taken(wk[w].id, wk[w].new.code)
    BY <1>2 DEF RefusedOr, Fail, IInv, TypeOK
  <2> QED
    BY <1>1, <1>2, <2>1
<1>3. CASE /\ ~Taken(wk[w].id, wk[w].new.code) /\ Goto(w, AfterSave(w)) /\ Succeed
           /\ rows' = [rows EXCEPT ![wk[w].id] = Written(w)]
  <2>1. /\ rows'[wk[w].id] = Written(w)
        /\ \A r \in Row \ {wk[w].id} : rows'[r] = rows[r]
    BY <1>1, <1>3 DEF IInv, TypeOK, RowTypeOK
  <2>2. /\ Written(w).col = wk[w].new
        /\ wk[w].op # "create" => /\ Written(w).state = rows[wk[w].id].state
                                  /\ Written(w).mirror = rows[wk[w].id].mirror
        /\ wk[w].op = "create" => Written(w).state = "live"
    BY <1>1 DEF Written, IInv, TypeOK, RowTypeOK
  <2>3. wk[w].op # "create" => rows[wk[w].id].state = "live"
    BY <1>1 DEF Reads
  <2> QED
    BY <1>1, <1>3, <2>1, <2>2, <2>3 DEF Succeed
<1> QED
  BY <1>2, <1>3 DEF SaveRow

LEMMA SaveRowReads ==
    ASSUME Base, NEW w \in Worker, Course(wk[w]), Reads(wk[w]), SaveRow(w)
    PROVE  Reads(wk[w])'
<1> DEFINE x == wk[w]
<1>0. /\ x.pc = "save" /\ x.id \in Row /\ UNCHANGED <<coupons, promos>>
      /\ Grows(promos, coupons, promos', coupons')
      /\ Fits(promos, coupons, x.new) /\ x.op \in {"create", "edit", "rename"}
      /\ AsRead(x)
  BY SaveRowSets, SameGrows DEF Base, Reads, Course, AsRead, DroppingOld
<1>1. CASE Goto(w, Undo(w)) /\ UNCHANGED rows
  <2>1. Undo(w) \in {"idle", "dropNewPromotion", "retireNew"} /\ SameRows
    BY <1>1 DEF Undo, SameRows
  <2> QED
    BY <1>0, <1>1, <2>1, GotoReads DEF Base
<1>2. CASE /\ Goto(w, AfterSave(w)) /\ rows'[x.id].state = "live" /\ rows'[x.id].col = x.new
  <2>1. CASE AfterSave(w) = "idle"
    <3>1. wk'[w].pc = "idle"
      BY <1>2, <2>1, GotoMoves DEF Base, Idle
    <3> QED
      BY <3>1 DEF Reads
  <2>2. CASE AfterSave(w) # "idle"
    <3>1. /\ AfterSave(w) \in {"dropOldPromotion", "retireOld"} /\ x.op # "create" /\ x.op # "delete"
          /\ wk'[w].pc = AfterSave(w) /\ wk'[w].op = x.op /\ wk'[w].id = x.id
          /\ wk'[w].was = x.was /\ wk'[w].new = x.new
      BY <1>0, <1>2, <2>2, GotoMoves DEF AfterSave, Base
    <3>2. Fits(promos', coupons', x.was) /\ Fits(promos', coupons', x.new)
      BY <1>0, <3>1 DEF Reads
    <3> QED
      BY <1>0, <1>2, <3>1, <3>2 DEF Reads, AsRead, DroppingOld, Undoing
  <2> QED
    BY <2>1, <2>2
<1> QED
  BY <1>1, <1>2, SaveRowSets DEF Base

\* A step that makes no promotion, changes no row and goes on by Goto.
LEMMA GotoSolo ==
    ASSUME Base, NEW w \in Worker, NEW pc, Goto(w, pc), wk[w].pc # "idle",
           Reads(wk[w]), References, Grows(promos, coupons, promos', coupons'), UNCHANGED rows,
           \/ UNCHANGED promos
           \/ \E col \in {wk[w].was, wk[w].new} : \E state :
                 SetState(col.promo, state) /\ Fits(promos, coupons, col),
           pc \in DroppingOld \cup {"retireOld", "retireNew"} \/ AsRead(wk[w]) \/ pc = "idle",
           pc = "dropHeadless" => wk[w].new.coupon \in Coupon /\ coupons'[wk[w].new.coupon].state = "live",
           pc \notin {"promotion", "save"},
           pc \in {"retireOld", "retireNew"} \cup Undoing => Fits(promos, coupons, wk[w].new)
    PROVE  Reads(wk[w])' /\ References'
<1>1. \A q \in Promotion : promos[q].state = "none" => promos'[q].state = "none"
  BY SetStateSets DEF Base, Fits
<1>2. References'
  BY <1>1, ReferencesStay
<1> QED
  BY <1>2, GotoReads DEF Base, SameRows

LEMMA SoloKept ==
    ASSUME Base, NEW w \in Worker, Course(wk[w]), Reads(wk[w]), References, Step(w)
    PROVE  Reads(wk[w])' /\ References'
<1> DEFINE x == wk[w]
<1> USE DEF Pairing, Undoing, DroppingOld, Looking
<1>0. /\ Grows(promos, coupons, promos', coupons')
      /\ x.pc # "idle" /\ x.op # "create" => Fits(promos, coupons, x.was)
      /\ x.pc \in {"retireOld", "retireNew"} \cup Undoing => Fits(promos, coupons, x.new)
      /\ IInv
  BY NextIsTidy DEF Base, Step, Tidy, Reads
<1>1. CASE BeginStep(w)
  <2>1. Begun(wk[w])' /\ UNCHANGED <<coupons, promos, rows>>
    BY <1>1, RequestBegins DEF Base
  <2>2. wk'[w].op # "create" => Fits(promos', coupons', wk'[w].was)
    BY <2>1 DEF Begun, Base, IInv, RowsAreBacked, Backed, Fits
  <2>3. wk'[w].pc = "save" => Fits(promos', coupons', wk'[w].new)
    <3>1. (\A v \in Worker : Knows(promos, coupons, rows, wk[v]))'
      BY <1>1, BeginKeepsIInv DEF Base, IInv, RequestsKnow
    <3> QED
      BY <3>1 DEF Knows
  <2> QED
    BY <2>1, <2>2, <2>3 DEF Begun, FirstCall, Reads, References, AsRead
<1>2. CASE DeactivateOld(w)
  BY <1>0, <1>2, GotoSolo DEF DeactivateOld, At, Course, AsRead
<1>3. CASE CreateCoupon(w)
  BY <1>0, <1>3, CreateCouponReads, ReferencesStay DEF CreateCoupon
<1>4. CASE CreatePromotion(w)
  <2>1. x.pc = "promotion" /\ UNCHANGED <<coupons, rows>>
    BY <1>4 DEF CreatePromotion, At
  <2>2. CASE NewPromotion(w, x.new.coupon)
    <3>1. Knows(promos', coupons', rows', wk'[w])
      BY <1>4, StripeKeepsIInv DEF Base, StripeStep, IInv, RequestsKnow
    <3> QED
      BY <2>1, <2>2, <3>1, NewPromotionReads
  <2>3. CASE Goto(w, "dropHeadless") /\ UNCHANGED promos
    BY <1>0, <2>1, <2>3, GotoSolo DEF Reads, AsRead
  <2> QED
    BY <1>4, <2>2, <2>3 DEF CreatePromotion
<1>5. CASE RenamePromotion(w)
  <2>1. x.pc = "rename" /\ UNCHANGED <<coupons, rows>> /\ x.was.coupon = x.new.coupon
    BY <1>5 DEF RenamePromotion, At, Course
  <2>2. CASE NewPromotion(w, x.was.coupon)
    <3>1. Knows(promos', coupons', rows', wk'[w])
      BY <1>5, StripeKeepsIInv DEF Base, StripeStep, IInv, RequestsKnow
    <3> QED
      BY <2>1, <2>2, <3>1, NewPromotionReads
  <2>3. CASE Goto(w, "idle") /\ UNCHANGED promos
    BY <1>0, <2>1, <2>3, GotoSolo
  <2> QED
    BY <1>5, <2>2, <2>3 DEF RenamePromotion
<1>6. CASE SetActive(w) \/ Reactivate(w)
  <2>1. /\ x.pc \in {"setActive", "reactivate"} /\ UNCHANGED <<coupons, rows>> /\ x.op # "create"
        /\ UNCHANGED promos \/ \E state : SetState(x.was.promo, state)
        /\ Goto(w, "mirror") \/ Goto(w, "idle")
    BY <1>6 DEF SetActive, Reactivate, At, Course
  <2> QED
    BY <1>0, <2>1, GotoSolo DEF AsRead
<1>7. CASE LoadSummary(w)
  <2>1. PICK flag : wk' = [wk EXCEPT ![w].pc = "mirror", ![w].flag = flag]
    BY <1>7 DEF LoadSummary
  <2>2. /\ wk'[w].pc = "mirror" /\ wk'[w].op = x.op /\ wk'[w].id = x.id /\ wk'[w].was = x.was
        /\ UNCHANGED <<promos, coupons, rows>> /\ x.pc = "summary"
    BY <1>7, <2>1 DEF LoadSummary, At, Base, IInv, TypeOK, RequestTypeOK
  <2> QED
    BY <2>2 DEF Reads, AsRead, References
<1>8. CASE DropHeadlessCoupon(w) \/ DropNewCoupon(w)
  <2>1. /\ x.pc \in {"dropHeadless", "dropNewCoupon"} /\ UNCHANGED <<promos, rows>>
        /\ Goto(w, "reactivate") \/ Goto(w, "idle")
    BY <1>8, ReopenGoes DEF DropHeadlessCoupon, DropNewCoupon, DropCoupon, At
  <2> QED
    BY <1>0, <2>1, GotoSolo DEF AsRead
<1>9. CASE DropNewPromotion(w) \/ RetireNew(w)
  <2>1. /\ x.pc \in {"dropNewPromotion", "retireNew"} /\ UNCHANGED <<coupons, rows>>
        /\ UNCHANGED promos \/ SetState(x.new.promo, "inactive")
        /\ (Goto(w, "dropNewCoupon") /\ x.pc = "dropNewPromotion") \/ Goto(w, "idle")
    BY <1>9 DEF DropNewPromotion, RetireNew, DropPromotion, At
  <2> QED
    BY <1>0, <2>1, GotoSolo DEF AsRead
<1>10. CASE DropOldPromotion(w)
  <2>1. /\ x.pc = "dropOldPromotion" /\ UNCHANGED <<coupons, rows>> /\ x.op # "create"
        /\ UNCHANGED promos \/ SetState(x.was.promo, "inactive")
        /\ Goto(w, "dropOldCoupon")
    BY <1>10 DEF DropOldPromotion, DropPromotion, At, Course
  <2> QED
    BY <1>0, <2>1, GotoSolo
<1>11. CASE DropOldCoupon(w)
  <2>1. /\ x.pc = "dropOldCoupon" /\ UNCHANGED <<promos, rows>>
        /\ (Goto(w, "markDeleted") /\ x.op = "delete") \/ Goto(w, "idle")
    BY <1>11 DEF DropOldCoupon, DropCoupon, At
  <2> QED
    BY <1>0, <2>1, GotoSolo DEF AsRead
<1>12. CASE RetireOld(w)
  <2>1. /\ x.pc = "retireOld" /\ UNCHANGED <<coupons, rows>> /\ x.op # "create"
        /\ \/ SetState(x.was.promo, "inactive") /\ Goto(w, "idle")
           \/ UNCHANGED promos /\ Goto(w, "retireNew")
    BY <1>12 DEF RetireOld, At, Course
  <2> QED
    BY <1>0, <2>1, GotoSolo
<1>13. CASE SaveRow(w)
  <2>1. UNCHANGED <<promos, coupons>>
    BY <1>13, SaveRowSets DEF Base
  <2> QED
    BY <1>0, <1>13, <2>1, SaveRowReads, ReferencesStay
<1>14. CASE SaveMirror(w) \/ MarkDeleted(w) \/ Crash(w)
  <2>1. Goto(w, "idle") /\ UNCHANGED <<promos, coupons>>
    BY <1>14 DEF SaveMirror, MarkDeleted, Crash
  <2>2. wk'[w].pc = "idle"
    BY <2>1, GotoMoves DEF Base, Idle
  <2> QED
    BY <1>0, <2>1, <2>2, ReferencesStay DEF Reads
<1> QED
  BY <1>1, <1>2, <1>3, <1>4, <1>5, <1>6, <1>7, <1>8, <1>9, <1>10, <1>11, <1>12, <1>13, <1>14
     DEF Step, StripeStep, CleanUpStep, RowStep

Solo(w) == Base /\ Course(wk[w]) /\ Reads(wk[w]) /\ References

-------------------------------------------------------------------------------
(* While no call has failed, an active promotion is that of a row the Super  *)
(* Admin sees, or the one the request has in its hands.                      *)

\* The row is there and not about to be marked as deleted.
Shown(r, x) == rows[r].state = "live" /\ ~(x.pc = "markDeleted" /\ x.id = r)

InHand(x, p) == \/ x.pc \in {"save", "retireNew", "dropNewPromotion"} /\ x.new.promo = p
                \/ x.pc \in {"dropOldPromotion", "retireOld"} /\ x.was.promo = p

Clean(x) ==
    failures = 0 =>
       /\ \A p \in Promotion : promos[p].state = "active" =>
             InHand(x, p) \/ \E r \in Row : Shown(r, x) /\ rows[r].col.promo = p
       /\ x.pc = "dropOldCoupon" => promos[x.was.promo].state # "active"

\* A step that activates nothing and changes no row.
LEMMA CleanStays ==
    ASSUME NEW w \in Worker, Clean(wk[w]), SameRows,
           failures' = 0 =>
              /\ failures = 0
              /\ wk'[w].pc # "markDeleted"
              /\ \A p \in Promotion : promos'[p].state = "active" =>
                    /\ promos[p].state = "active"
                    /\ InHand(wk[w], p) => InHand(wk'[w], p) \/ Listed(p)
              /\ wk'[w].pc = "dropOldCoupon" => promos'[wk'[w].was.promo].state # "active"
    PROVE  Clean(wk[w])'
BY DEF Clean, SameRows, Shown, InHand, Listed

LEMMA Counted ==
    ASSUME IInv
    PROVE  /\ failures \in Nat
           /\ Succeed => UNCHANGED failures
           /\ Fail => failures' = failures + 1
           /\ \A refused : RefusedOr(refused) =>
                 failures' = failures + 1 \/ (refused /\ UNCHANGED failures)
BY PromoAssumption DEF IInv, TypeOK, Succeed, Fail, RefusedOr

\* A row the request holds as it read it is a row the Super Admin sees.
LEMMA HeldIsListed ==
    ASSUME NEW w \in Worker, Reads(wk[w]), wk[w].pc \notin {"idle", "markDeleted"},
           wk[w].op # "create", AsRead(wk[w])
    PROVE  \E r \in Row : /\ Shown(r, wk[w]) /\ rows[r].state = "live"
                          /\ rows[r].col.promo = wk[w].was.promo
                          /\ rows[r].col.coupon = wk[w].was.coupon
BY DEF Reads, Shown

\* The promotion of the row the request holds is switched on.
LEMMA ActivationIsClean ==
    ASSUME NEW w \in Worker, Solo(w), Clean(wk[w]), wk[w].pc \in {"setActive", "reactivate"},
           wk'[w].pc \in {"idle", "mirror"},
           SetState(wk[w].was.promo, "active"), UNCHANGED <<rows, failures>>
    PROVE  Clean(wk[w])'
<1> DEFINE x == wk[w]
<1>1. x.was.promo \in Promotion /\ x.op # "create" /\ AsRead(x)
  BY DEF Solo, Reads, Course, Fits, AsRead, DroppingOld, Looking
<1>2. \A q \in Promotion \ {x.was.promo} : promos'[q] = promos[q]
  BY <1>1, SetStateSets DEF Solo, Base
<1>3. \E r \in Row : Shown(r, wk[w])' /\ rows'[r].col.promo = x.was.promo
  BY <1>1, HeldIsListed DEF Solo, Shown
<1> QED
  BY <1>2, <1>3 DEF Clean, Shown, InHand

LEMMA NewPromotionIsClean ==
    ASSUME NEW w \in Worker, Solo(w), Clean(wk[w]), wk[w].pc \in {"promotion", "rename"},
           NEW coupon, NewPromotion(w, coupon), UNCHANGED rows
    PROVE  Clean(wk[w])'
<1>1. PICK p \in Promotion :
        /\ promos' = [promos EXCEPT ![p] =
              [state |-> "active", code |-> wk[w].new.code, coupon |-> coupon]]
        /\ wk' = [wk EXCEPT ![w].pc = "save", ![w].new.promo = p]
  BY DEF NewPromotion
<1>2. /\ wk'[w].pc = "save" /\ wk'[w].new.promo = p /\ UNCHANGED failures
      /\ \A q \in Promotion \ {p} : promos'[q] = promos[q]
  BY <1>1 DEF NewPromotion, Succeed, Solo, Base, IInv, TypeOK, RequestTypeOK, Column, StripeTypeOK
<1> QED
  BY <1>2 DEF Clean, Shown, InHand

LEMMA SaveRowIsClean ==
    ASSUME NEW w \in Worker, Solo(w), Clean(wk[w]), SaveRow(w)
    PROVE  Clean(wk[w])'
<1> DEFINE x == wk[w]
<1>0. /\ x.pc = "save" /\ x.id \in Row /\ UNCHANGED <<coupons, promos>>
      /\ failures' = 0 => failures = 0
  BY SaveRowSets, Counted DEF Solo, Base, SaveRow
<1>1. CASE Goto(w, Undo(w)) /\ UNCHANGED rows
  <2>1. CASE Undo(w) = "idle"
    <3>1. wk'[w].pc = "idle" /\ ~Makes(x) /\ Keeps(x)
      BY <1>1, <2>1, GotoMoves DEF Undo, Solo, Base, Idle, Replaces, SameCode, Makes, Keeps
    <3>2. x.new.promo = x.was.promo /\ Listed(x.was.promo)
      BY <1>0, <3>1, HeldIsListed DEF Solo, Course, AsRead, DroppingOld, Listed
    <3> QED
      BY <1>0, <1>1, <3>1, <3>2, CleanStays DEF SameRows, InHand
  <2>2. CASE Undo(w) # "idle"
    <3>1. wk'[w].pc \in {"dropNewPromotion", "retireNew"} /\ wk'[w].new = x.new
      BY <1>1, <2>2, GotoMoves DEF Undo, Solo, Base
    <3> QED
      BY <1>0, <1>1, <3>1, CleanStays DEF SameRows, InHand
  <2> QED
    BY <2>1, <2>2
<1>2. CASE /\ Goto(w, AfterSave(w)) /\ rows'[x.id].state = "live" /\ rows'[x.id].col = x.new
           /\ \A r \in Row \ {x.id} : rows'[r] = rows[r]
  <2>1. /\ wk'[w].pc \in {"idle", "dropOldPromotion", "retireOld"}
        /\ wk'[w].pc # "idle" => wk'[w].was = x.was
        /\ wk'[w].pc = "idle" => x.op = "create" \/ (~Makes(x) /\ Keeps(x))
    BY <1>2, GotoMoves DEF AfterSave, Solo, Base, Idle, Replaces, SameCode, Makes, Keeps
  <2>2. rows[x.id].state # "none" => rows[x.id].col = x.was /\ x.op # "create"
    BY <1>0 DEF Solo, Reads, AsRead, DroppingOld, Course
  <2>3. wk'[w].pc = "idle" /\ x.op # "create" => x.new.promo = x.was.promo
    BY <1>0, <2>1 DEF Solo, Course
  <2> SUFFICES ASSUME failures = 0, NEW p \in Promotion, promos[p].state = "active"
               PROVE  InHand(wk'[w], p) \/ \E r \in Row : rows'[r].state = "live" /\ rows'[r].col.promo = p
    BY <1>0, <2>1 DEF Clean, Shown
  <2>4. CASE x.new.promo = p
    BY <1>0, <1>2, <2>4
  <2>5. CASE x.new.promo # p
    <3>1. PICK r \in Row : rows[r].state = "live" /\ rows[r].col.promo = p
      BY <1>0, <2>5 DEF Clean, InHand, Shown
    <3>2. CASE r # x.id
      BY <1>2, <3>1, <3>2
    <3>3. CASE r = x.id
      BY <2>1, <2>2, <2>3, <2>5, <3>1, <3>3 DEF InHand
    <3> QED
      BY <3>2, <3>3
  <2> QED
    BY <2>4, <2>5
<1> QED
  BY <1>1, <1>2, SaveRowSets DEF Solo, Base

LEMMA CleanKept ==
    ASSUME NEW w \in Worker, MaxCrash = 0, Solo(w), Clean(wk[w]), Step(w)
    PROVE  Clean(wk[w])'
<1> DEFINE x == wk[w]
<1> USE DEF Solo, Base, Looking, Pairing, Undoing, DroppingOld
<1>0. /\ IInv /\ failures \in Nat
      /\ x.pc # "idle" /\ x.op # "create" => x.was.promo \in Promotion /\ x.id \in Row
      /\ x.pc \in {"retireNew"} \cup Undoing => x.new.promo \in Promotion
      /\ \A pc : Goto(w, pc) => LET y == wk'[w]
                                IN  /\ pc = "idle" => y.pc = "idle"
                                    /\ pc # "idle" => /\ y.pc = pc /\ y.op = x.op /\ y.id = x.id
                                                      /\ y.was = x.was /\ y.new = x.new
  BY GotoMoves, Counted DEF Reads, Fits, Idle
<1>1. CASE BeginStep(w)
  <2>1. Begun(wk[w])' /\ x.pc = "idle" /\ UNCHANGED <<coupons, promos, rows, failures>>
    BY <1>1, RequestBegins
  <2> QED
    BY <2>1, CleanStays DEF Begun, FirstCall, SameRows, InHand
<1>2. CASE DeactivateOld(w)
  <2>1. /\ x.pc = "deactivateOld" /\ UNCHANGED rows /\ wk'[w].pc \in {"coupon", "idle"}
        /\ x.op # "create"
        /\ failures' = 0 => failures = 0 /\ SetState(x.was.promo, "inactive")
    BY <1>0, <1>2, Counted DEF DeactivateOld, At, Course
  <2> QED
    BY <1>0, <2>1, CleanStays, SetStateSets DEF SameRows, InHand
<1>3. CASE CreateCoupon(w)
  <2>1. x.pc = "coupon" /\ UNCHANGED <<rows, promos>> /\ (failures' = 0 => failures = 0)
    BY <1>0, <1>3, Counted DEF CreateCoupon, At
  <2>2. wk'[w].pc \in {"idle", "reactivate", "promotion"}
    BY <1>0, <1>3 DEF CreateCoupon, Reopen, IInv, TypeOK, RequestTypeOK
  <2> QED
    BY <2>1, <2>2, CleanStays DEF SameRows, InHand
<1>4. CASE CreatePromotion(w)
  <2>1. x.pc = "promotion" /\ UNCHANGED rows
    BY <1>4 DEF CreatePromotion, At
  <2>2. CASE NewPromotion(w, x.new.coupon)
    BY <2>1, <2>2, NewPromotionIsClean
  <2>3. CASE RefusedOr(~Free(x.new.code)) /\ Goto(w, "dropHeadless") /\ UNCHANGED promos
    <3>1. wk'[w].pc = "dropHeadless" /\ (failures' = 0 => failures = 0)
      BY <1>0, <2>3, Counted
    <3> QED
      BY <2>1, <2>3, <3>1, CleanStays DEF SameRows, InHand
  <2> QED
    BY <1>4, <2>2, <2>3 DEF CreatePromotion
<1>5. CASE RenamePromotion(w)
  <2>1. x.pc = "rename" /\ UNCHANGED rows
    BY <1>5 DEF RenamePromotion, At
  <2>2. CASE NewPromotion(w, x.was.coupon)
    BY <2>1, <2>2, NewPromotionIsClean
  <2>3. CASE ~NewPromotion(w, x.was.coupon)
    <3>1. wk'[w].pc = "idle" /\ (failures' = 0 => failures = 0) /\ UNCHANGED promos
      BY <1>0, <1>5, <2>3, Counted DEF RenamePromotion
    <3> QED
      BY <2>1, <3>1, CleanStays DEF SameRows, InHand
  <2> QED
    BY <2>2, <2>3
<1>6. CASE SetActive(w) \/ Reactivate(w)
  <2>1. /\ x.pc \in {"setActive", "reactivate"} /\ UNCHANGED <<coupons, rows>> /\ x.op # "create"
        /\ wk'[w].pc \in {"mirror", "idle"} /\ (failures' = 0 => UNCHANGED failures)
    BY <1>0, <1>6, Counted DEF SetActive, Reactivate, At, Course
  <2>2. CASE failures' # 0
    BY <2>2 DEF Clean
  <2>3. CASE SetState(x.was.promo, "active") /\ failures' = 0
    BY <2>1, <2>3, ActivationIsClean
  <2>4. CASE SetState(x.was.promo, "inactive") /\ failures' = 0
    BY <1>0, <2>1, <2>4, CleanStays, SetStateSets DEF SameRows, InHand
  <2>5. CASE UNCHANGED promos /\ failures' = 0
    BY <2>1, <2>5, CleanStays DEF SameRows, InHand
  <2> QED
    BY <1>6, <2>2, <2>3, <2>4, <2>5 DEF SetActive, Reactivate
<1>7. CASE LoadSummary(w)
  <2>1. PICK flag : wk' = [wk EXCEPT ![w].pc = "mirror", ![w].flag = flag]
    BY <1>7 DEF LoadSummary
  <2>2. wk'[w].pc = "mirror" /\ UNCHANGED <<promos, rows>> /\ x.pc = "summary"
        /\ (failures' = 0 => failures = 0)
    BY <1>0, <1>7, <2>1, Counted DEF LoadSummary, At, IInv, TypeOK, RequestTypeOK
  <2> QED
    BY <2>2, CleanStays DEF SameRows, InHand
<1>8. CASE DropHeadlessCoupon(w) \/ DropNewCoupon(w)
  <2>1. /\ x.pc \in {"dropHeadless", "dropNewCoupon"} /\ UNCHANGED <<promos, rows>>
        /\ wk'[w].pc \in {"reactivate", "idle"} /\ (failures' = 0 => failures = 0)
    BY <1>0, <1>8, ReopenGoes, Counted DEF DropHeadlessCoupon, DropNewCoupon, DropCoupon, At
  <2> QED
    BY <2>1, CleanStays DEF SameRows, InHand
<1>9. CASE DropNewPromotion(w) \/ RetireNew(w)
  <2>1. /\ x.pc \in {"dropNewPromotion", "retireNew"} /\ UNCHANGED rows
        /\ wk'[w].pc \in {"dropNewCoupon", "idle"}
        /\ failures' = 0 => failures = 0 /\ SetState(x.new.promo, "inactive")
    BY <1>0, <1>9, Counted DEF DropNewPromotion, RetireNew, DropPromotion, At
  <2> QED
    BY <1>0, <2>1, CleanStays, SetStateSets DEF SameRows, InHand
<1>10. CASE DropOldPromotion(w)
  <2>1. /\ x.pc = "dropOldPromotion" /\ UNCHANGED rows /\ x.op # "create"
        /\ wk'[w].pc = "dropOldCoupon" /\ wk'[w].was = x.was
        /\ failures' = 0 => failures = 0 /\ SetState(x.was.promo, "inactive")
    BY <1>0, <1>10, Counted DEF DropOldPromotion, DropPromotion, At, Course
  <2> QED
    BY <1>0, <2>1, CleanStays, SetStateSets DEF SameRows, InHand
<1>11. CASE DropOldCoupon(w)
  <2>1. /\ x.pc = "dropOldCoupon" /\ UNCHANGED <<promos, rows>> /\ (failures' = 0 => failures = 0)
        /\ wk'[w].pc = "idle" \/ (wk'[w].pc = "markDeleted" /\ x.op = "delete" /\ wk'[w].id = x.id)
    BY <1>0, <1>11, Counted DEF DropOldCoupon, DropCoupon, At
  <2>2. x.op = "delete" => rows[x.id].col.promo = x.was.promo
    BY <2>1 DEF Reads, AsRead
  <2> QED
    BY <2>1, <2>2 DEF Clean, Shown, InHand
<1>12. CASE RetireOld(w)
  <2>1. /\ x.pc = "retireOld" /\ UNCHANGED rows /\ x.op # "create"
        /\ failures' = 0 => /\ failures = 0 /\ wk'[w].pc = "idle"
                            /\ SetState(x.was.promo, "inactive")
    BY <1>0, <1>12, Counted DEF RetireOld, At, Course
  <2> QED
    BY <1>0, <2>1, CleanStays, SetStateSets DEF SameRows, InHand
<1>13. CASE SaveRow(w)
  BY <1>13, SaveRowIsClean
<1>14. CASE SaveMirror(w)
  <2>1. /\ x.pc = "mirror" /\ UNCHANGED promos /\ wk'[w].pc = "idle" /\ (failures' = 0 => failures = 0)
        /\ rows' = [rows EXCEPT ![x.id].mirror = x.flag] \/ UNCHANGED rows
    BY <1>0, <1>14, Counted DEF SaveMirror, At
  <2>2. SameRows
    BY <2>1 DEF SameRows, IInv, TypeOK, RowTypeOK
  <2> QED
    BY <2>1, <2>2, CleanStays DEF InHand
<1>15. CASE MarkDeleted(w)
  <2>1. /\ x.pc = "markDeleted" /\ UNCHANGED promos /\ wk'[w].pc = "idle" /\ x.id \in Row
        /\ failures' = 0 => failures = 0
        /\ \/ UNCHANGED rows
           \/ rows' = [rows EXCEPT ![x.id].state = "deleted", ![x.id].mirror = "off"]
    BY <1>0, <1>15, Counted DEF MarkDeleted, At, Course
  <2>2. \A r \in Row \ {x.id} : rows'[r] = rows[r]
    BY <2>1 DEF IInv, TypeOK, RowTypeOK
  <2> QED
    BY <2>1, <2>2 DEF Clean, Shown, InHand
<1>16. ~Crash(w)
  BY DEF Crash, IInv, TypeOK
<1> QED
  BY <1>1, <1>2, <1>3, <1>4, <1>5, <1>6, <1>7, <1>8, <1>9, <1>10, <1>11, <1>12, <1>13, <1>14,
     <1>15, <1>16 DEF Step, StripeStep, CleanUpStep, RowStep

-------------------------------------------------------------------------------
(* When at most one call fails, a promotion that can be redeemed is on the   *)
(* coupon of a row the Super Admin sees, or on one the request has yet to    *)
(* record or to delete.                                                      *)

Loose(x, c) == \/ x.pc \in {"save"} \cup Undoing /\ x.new.coupon = c
               \/ x.pc \in DroppingOld /\ x.was.coupon = c

Owned(x) ==
    \A p \in Promotion : Redeemable(p) =>
        \/ Loose(x, promos[p].coupon)
        \/ \E r \in Row : Shown(r, x) /\ rows[r].col.coupon = promos[p].coupon

\* A step that makes nothing redeemable and changes no row.
LEMMA OwnedStays ==
    ASSUME NEW w \in Worker, Solo(w), Owned(wk[w]), SameRows, wk'[w].pc # "markDeleted",
           \A p \in Promotion : /\ promos'[p].coupon = promos[p].coupon
                                /\ promos'[p].state = "active" => promos[p].state = "active",
           \A c \in Coupon : coupons'[c].state = "live" => coupons[c].state = "live",
           \A p \in Promotion : Redeemable(p)' /\ Loose(wk[w], promos[p].coupon) =>
              \/ Loose(wk'[w], promos[p].coupon)
              \/ \E r \in Row : rows[r].state = "live" /\ rows[r].col.coupon = promos[p].coupon
    PROVE  Owned(wk[w])'
<1>1. \A p \in Promotion : Redeemable(p)' => Redeemable(p)
  BY DEF Redeemable, Valid, Solo, References
<1> QED
  BY <1>1 DEF Owned, SameRows, Shown, Loose

\* A call that may have touched nothing but one promotion or one coupon.
LEMMA SwitchedOff ==
    ASSUME IInv, NEW p \in Promotion, SetState(p, "inactive") \/ UNCHANGED promos
    PROVE  \A q \in Promotion : /\ promos'[q].coupon = promos[q].coupon
                                /\ promos'[q].state = "active" => promos[q].state = "active"
BY SetStateSets

LEMMA CouponDropped ==
    ASSUME IInv, NEW w, NEW pc, NEW c \in Coupon, DropCoupon(w, pc, c)
    PROVE  /\ UNCHANGED <<promos, rows>>
           /\ \A d \in Coupon : coupons'[d].state = "live" => coupons[d].state = "live"
           /\ failures < MaxFailure \/ coupons'[c].state # "live"
<1>1. UNCHANGED <<promos, rows>>
  BY DropCouponSets
<1>2. CASE UNCHANGED coupons /\ Fail
  BY <1>1, <1>2 DEF Fail
<1>3. CASE coupons' = [coupons EXCEPT ![c].state = "deleted"]
  BY <1>1, <1>3 DEF IInv, TypeOK, StripeTypeOK
<1> QED
  BY <1>2, <1>3 DEF DropCoupon

\* As long as no call has failed, what is redeemable has its row.
LEMMA CleanOwns ==
    ASSUME NEW w \in Worker, Solo(w), Clean(wk[w]), failures = 0,
           NEW p \in Promotion, promos[p].state = "active", ~InHand(wk[w], p)
    PROVE  \E r \in Row : /\ Shown(r, wk[w]) /\ rows[r].state = "live"
                          /\ rows[r].col.promo = p /\ rows[r].col.coupon = promos[p].coupon
<1>1. PICK r \in Row : Shown(r, wk[w]) /\ rows[r].col.promo = p
  BY DEF Clean
<1>2. rows[r].state = "live" /\ rows[r].col.coupon = promos[p].coupon
  BY <1>1 DEF Shown, Solo, Base, IInv, RowsAreBacked, Backed
<1> QED
  BY <1>1, <1>2

LEMMA ActivationIsOwned ==
    ASSUME NEW w \in Worker, Solo(w), Owned(wk[w]), wk[w].pc \in {"setActive", "reactivate"},
           wk'[w].pc \in {"idle", "mirror"},
           SetState(wk[w].was.promo, "active"), UNCHANGED <<coupons, rows>>
    PROVE  Owned(wk[w])'
<1> DEFINE x == wk[w]
<1>1. /\ x.was.promo \in Promotion /\ x.op # "create" /\ AsRead(x)
      /\ promos[x.was.promo].coupon = x.was.coupon
  BY DEF Solo, Reads, Course, Fits, AsRead, DroppingOld, Looking
<1>2. /\ \A q \in Promotion : promos'[q].coupon = promos[q].coupon
      /\ \A q \in Promotion \ {x.was.promo} : promos'[q] = promos[q]
  BY <1>1, SetStateSets DEF Solo, Base
<1>3. \E r \in Row : Shown(r, wk[w])' /\ rows'[r].col.coupon = x.was.coupon
  BY <1>1, HeldIsListed DEF Solo, Shown
<1> QED
  BY <1>1, <1>2, <1>3 DEF Owned, Shown, Loose, Redeemable, Valid, DroppingOld, Undoing

LEMMA NewPromotionIsOwned ==
    ASSUME NEW w \in Worker, Solo(w), Owned(wk[w]), wk[w].pc \in {"promotion", "rename"},
           NewPromotion(w, wk[w].new.coupon), UNCHANGED <<coupons, rows>>
    PROVE  Owned(wk[w])'
<1>1. PICK p \in Promotion :
        /\ promos' = [promos EXCEPT ![p] =
              [state |-> "active", code |-> wk[w].new.code, coupon |-> wk[w].new.coupon]]
        /\ wk' = [wk EXCEPT ![w].pc = "save", ![w].new.promo = p]
  BY DEF NewPromotion
<1>2. /\ wk'[w].pc = "save" /\ wk'[w].new.coupon = wk[w].new.coupon
      /\ promos'[p].coupon = wk[w].new.coupon
      /\ \A q \in Promotion \ {p} : promos'[q] = promos[q]
  BY <1>1 DEF Solo, Base, IInv, TypeOK, RequestTypeOK, Column, StripeTypeOK
<1> QED
  BY <1>2 DEF Owned, Shown, Loose, Redeemable, Valid, DroppingOld, Undoing

\* A coupon that was just made has no promotion.
LEMMA CreateCouponIsOwned ==
    ASSUME NEW w \in Worker, Solo(w), Owned(wk[w]), CreateCoupon(w)
    PROVE  Owned(wk[w])'
<1>0. wk[w].pc = "coupon" /\ UNCHANGED <<promos, rows>>
  BY DEF CreateCoupon, At
<1>1. wk'[w].pc \in {"idle", "reactivate", "promotion"}
  BY ReopenGoes, GotoMoves DEF CreateCoupon, Solo, Base, IInv, TypeOK, RequestTypeOK, Idle
<1>2. \A p \in Promotion : promos[p].state = "active" => coupons'[promos[p].coupon] = coupons[promos[p].coupon]
  BY DEF CreateCoupon, Solo, Base, References, IInv, TypeOK, StripeTypeOK
<1> QED
  BY <1>0, <1>1, <1>2 DEF Owned, Shown, Loose, Redeemable, Valid, DroppingOld, Undoing

LEMMA SaveRowIsOwned ==
    ASSUME NEW w \in Worker, Solo(w), Owned(wk[w]), SaveRow(w)
    PROVE  Owned(wk[w])'
<1> DEFINE x == wk[w]
<1>0. x.pc = "save" /\ x.id \in Row /\ UNCHANGED <<coupons, promos>>
  BY SaveRowSets DEF Solo, Base
<1>1. /\ x.op = "create" => Makes(x)
      /\ ~Makes(x) => x.new.coupon = x.was.coupon
      /\ x.op # "create" => /\ rows[x.id].state = "live" /\ rows[x.id].col = x.was
      /\ x.op = "create" => rows[x.id].state = "none"
  BY <1>0 DEF Solo, Course, Reads, AsRead, DroppingOld
<1>2. CASE Goto(w, Undo(w)) /\ UNCHANGED rows
  <2>1. \/ wk'[w].pc = "dropNewPromotion" /\ wk'[w].new = x.new
        \/ wk'[w].pc \in {"idle", "retireNew"} /\ ~Makes(x)
    BY <1>1, <1>2, GotoMoves DEF Undo, Solo, Base, Idle, Replaces, Makes
  <2> QED
    BY <1>0, <1>1, <1>2, <2>1 DEF Owned, Shown, Loose, Redeemable, Valid, DroppingOld, Undoing
<1>3. CASE /\ Goto(w, AfterSave(w)) /\ rows'[x.id].state = "live" /\ rows'[x.id].col = x.new
           /\ \A r \in Row \ {x.id} : rows'[r] = rows[r]
  <2>1. \/ wk'[w].pc = "dropOldPromotion" /\ wk'[w].was = x.was
        \/ wk'[w].pc \in {"idle", "retireOld"} /\ (x.op = "create" \/ ~Makes(x))
    BY <1>3, GotoMoves DEF AfterSave, Solo, Base, Idle, Replaces, Makes
  <2> SUFFICES ASSUME NEW p \in Promotion, Redeemable(p)
               PROVE  \/ Loose(wk'[w], promos[p].coupon)
                      \/ \E r \in Row : rows'[r].state = "live" /\ rows'[r].col.coupon = promos[p].coupon
    BY <1>0, <2>1 DEF Owned, Shown, Redeemable, Valid
  <2>2. CASE x.new.coupon = promos[p].coupon
    BY <1>0, <1>3, <2>2
  <2>3. CASE x.new.coupon # promos[p].coupon
    <3>1. PICK r \in Row : rows[r].state = "live" /\ rows[r].col.coupon = promos[p].coupon
      BY <1>0, <2>3 DEF Owned, Shown, Loose, DroppingOld
    <3>2. CASE r # x.id
      BY <1>3, <3>1, <3>2
    <3>3. CASE r = x.id
      BY <1>1, <2>1, <2>3, <3>1, <3>3 DEF Loose, DroppingOld
    <3> QED
      BY <3>2, <3>3
  <2> QED
    BY <2>2, <2>3
<1> QED
  BY <1>2, <1>3, SaveRowSets DEF Solo, Base

LEMMA DropNewCouponIsOwned ==
    ASSUME NEW w \in Worker, MaxFailure \leq 1, Solo(w), Clean(wk[w]), Owned(wk[w]), DropNewCoupon(w)
    PROVE  Owned(wk[w])'
<1> DEFINE c == wk[w].new.coupon
<1>1. /\ wk[w].pc = "dropNewCoupon" /\ DropCoupon(w, "dropNewCoupon", c) /\ c \in Coupon
      /\ wk'[w].pc \in {"reactivate", "idle"}
  BY ReopenGoes, GotoMoves DEF DropNewCoupon, DropCoupon, At, Solo, Base, Reads, Fits, Undoing, Idle
<1>2. /\ UNCHANGED <<promos, rows>>
      /\ \A d \in Coupon : coupons'[d].state = "live" => coupons[d].state = "live"
      /\ failures = 0 \/ coupons'[c].state # "live"
  BY <1>1, CouponDropped, Counted, PromoAssumption DEF Solo, Base
<1>3. ASSUME NEW p \in Promotion, Redeemable(p)', Loose(wk[w], promos[p].coupon)
      PROVE  \E r \in Row : rows[r].state = "live" /\ rows[r].col.coupon = promos[p].coupon
  <2>1. promos[p].coupon = c
    BY <1>1, <1>3 DEF Loose, DroppingOld
  <2>2. failures = 0 /\ promos[p].state = "active"
    BY <1>2, <1>3, <2>1 DEF Redeemable, Valid
  <2> QED
    BY <1>1, <2>2, CleanOwns DEF InHand
<1> QED
  BY <1>1, <1>2, <1>3, OwnedStays DEF SameRows

\* The deleted row does not take a redeemable promotion with it.
LEMMA DropOldCouponIsOwned ==
    ASSUME NEW w \in Worker, MaxFailure \leq 1, Solo(w), Clean(wk[w]), Owned(wk[w]), DropOldCoupon(w)
    PROVE  Owned(wk[w])'
<1> DEFINE x == wk[w]
           c == wk[w].was.coupon
<1>1. x.pc = "dropOldCoupon" /\ DropCoupon(w, "dropOldCoupon", c)
  BY DEF DropOldCoupon, DropCoupon, At
<1>2. /\ c \in Coupon /\ x.id \in Row
      /\ x.op = "delete" => rows[x.id].col = x.was
  BY <1>1 DEF Solo, Reads, Course, Fits, AsRead, DroppingOld
<1>3. \/ wk'[w].pc = "idle"
      \/ wk'[w].pc = "markDeleted" /\ x.op = "delete" /\ wk'[w].id = x.id
  BY GotoMoves DEF DropOldCoupon, Solo, Base, Idle
<1>4. /\ UNCHANGED <<promos, rows>>
      /\ \A d \in Coupon : coupons'[d].state = "live" => coupons[d].state = "live"
      /\ failures = 0 \/ coupons'[c].state # "live"
  BY <1>1, <1>2, CouponDropped, Counted, PromoAssumption DEF Solo, Base
<1> SUFFICES ASSUME NEW p \in Promotion, Redeemable(p)'
             PROVE  \E r \in Row : /\ rows[r].state = "live" /\ rows[r].col.coupon = promos[p].coupon
                                   /\ x.op = "delete" => r # x.id
  BY <1>3, <1>4 DEF Owned, Shown
<1>5. promos[p].state = "active" /\ Redeemable(p)
  BY <1>4 DEF Redeemable, Valid, Solo, References
<1>6. CASE failures = 0
  <2>1. p # x.was.promo
    BY <1>1, <1>5, <1>6 DEF Clean
  <2>2. PICK r \in Row : /\ rows[r].state = "live" /\ rows[r].col.promo = p
                         /\ rows[r].col.coupon = promos[p].coupon
    BY <1>1, <1>5, <1>6, CleanOwns DEF InHand
  <2> QED
    BY <1>2, <2>1, <2>2
<1>7. CASE failures # 0
  <2>1. promos[p].coupon # c
    BY <1>4, <1>7 DEF Redeemable, Valid
  <2> QED
    BY <1>1, <1>2, <1>5, <2>1 DEF Owned, Shown, Loose, Undoing
<1> QED
  BY <1>6, <1>7

LEMMA OwnedKept ==
    ASSUME NEW w \in Worker, MaxFailure \leq 1, MaxCrash = 0, Solo(w), Clean(wk[w]), Owned(wk[w]), Step(w)
    PROVE  Owned(wk[w])'
<1> DEFINE x == wk[w]
<1> USE DEF Looking, Pairing, Undoing, DroppingOld
<1>0. /\ IInv
      /\ x.pc # "idle" /\ x.op # "create" => x.was.promo \in Promotion /\ x.id \in Row
      /\ x.pc \in {"retireNew"} \cup Undoing => x.new.promo \in Promotion
      /\ x.pc = "dropHeadless" => x.new.coupon \in Coupon
      /\ \A pc : Goto(w, pc) => LET y == wk'[w]
                                IN  /\ pc = "idle" => y.pc = "idle"
                                    /\ pc # "idle" => /\ y.pc = pc /\ y.op = x.op /\ y.id = x.id
                                                      /\ y.was = x.was /\ y.new = x.new
  BY GotoMoves DEF Solo, Base, Reads, Fits, Idle
<1>1. CASE BeginStep(w)
  <2>1. Begun(wk[w])' /\ x.pc = "idle" /\ UNCHANGED <<coupons, promos, rows, failures>>
    BY <1>0, <1>1, RequestBegins
  <2> QED
    BY <2>1, OwnedStays DEF Begun, FirstCall, SameRows, Loose
<1>2. CASE DeactivateOld(w)
  <2>1. /\ x.pc = "deactivateOld" /\ UNCHANGED <<coupons, rows>> /\ wk'[w].pc \in {"coupon", "idle"}
        /\ x.op # "create" /\ (SetState(x.was.promo, "inactive") \/ UNCHANGED promos)
    BY <1>0, <1>2 DEF DeactivateOld, At, Course, Solo
  <2> QED
    BY <1>0, <2>1, OwnedStays, SwitchedOff DEF SameRows, Loose
<1>3. CASE CreateCoupon(w)
  BY <1>3, CreateCouponIsOwned
<1>4. CASE CreatePromotion(w)
  <2>1. x.pc = "promotion" /\ UNCHANGED <<coupons, rows>>
    BY <1>4 DEF CreatePromotion, At
  <2>2. CASE NewPromotion(w, x.new.coupon)
    BY <2>1, <2>2, NewPromotionIsOwned
  <2>3. CASE Goto(w, "dropHeadless") /\ UNCHANGED promos
    <3>1. wk'[w].pc = "dropHeadless"
      BY <1>0, <2>3
    <3> QED
      BY <2>1, <2>3, <3>1, OwnedStays DEF SameRows, Loose
  <2> QED
    BY <1>4, <2>2, <2>3 DEF CreatePromotion
<1>5. CASE RenamePromotion(w)
  <2>1. x.pc = "rename" /\ UNCHANGED <<coupons, rows>> /\ x.new.coupon = x.was.coupon
    BY <1>5 DEF RenamePromotion, At, Solo, Course
  <2>2. CASE NewPromotion(w, x.was.coupon)
    BY <2>1, <2>2, NewPromotionIsOwned
  <2>3. CASE ~NewPromotion(w, x.was.coupon)
    <3>1. wk'[w].pc = "idle" /\ UNCHANGED promos
      BY <1>0, <1>5, <2>3 DEF RenamePromotion
    <3> QED
      BY <2>1, <3>1, OwnedStays DEF SameRows, Loose
  <2> QED
    BY <2>2, <2>3
<1>6. CASE SetActive(w) \/ Reactivate(w)
  <2>1. /\ x.pc \in {"setActive", "reactivate"} /\ UNCHANGED <<coupons, rows>> /\ x.op # "create"
        /\ wk'[w].pc \in {"mirror", "idle"}
    BY <1>0, <1>6 DEF SetActive, Reactivate, At, Course, Solo
  <2>2. CASE SetState(x.was.promo, "active")
    BY <2>1, <2>2, ActivationIsOwned
  <2>3. CASE SetState(x.was.promo, "inactive") \/ UNCHANGED promos
    BY <1>0, <2>1, <2>3, OwnedStays, SwitchedOff DEF SameRows, Loose
  <2> QED
    BY <1>6, <2>2, <2>3 DEF SetActive, Reactivate
<1>7. CASE LoadSummary(w)
  <2>1. PICK flag : wk' = [wk EXCEPT ![w].pc = "mirror", ![w].flag = flag]
    BY <1>7 DEF LoadSummary
  <2>2. wk'[w].pc = "mirror" /\ UNCHANGED <<promos, coupons, rows>> /\ x.pc = "summary"
    BY <1>0, <1>7, <2>1 DEF LoadSummary, At, IInv, TypeOK, RequestTypeOK
  <2> QED
    BY <2>2, OwnedStays DEF SameRows, Loose
<1>8. CASE DropHeadlessCoupon(w)
  <2>1. /\ x.pc = "dropHeadless" /\ wk'[w].pc \in {"reactivate", "idle"}
        /\ DropCoupon(w, "dropHeadless", x.new.coupon)
    BY <1>0, <1>8, ReopenGoes DEF DropHeadlessCoupon, DropCoupon, At
  <2> QED
    BY <1>0, <2>1, OwnedStays, CouponDropped DEF SameRows, Loose
<1>9. CASE DropNewPromotion(w) \/ RetireNew(w)
  <2>1. /\ UNCHANGED <<coupons, rows>> /\ (SetState(x.new.promo, "inactive") \/ UNCHANGED promos)
        /\ x.pc \in {"retireNew"} \cup Undoing
        /\ \/ x.pc = "retireNew" /\ wk'[w].pc = "idle"
           \/ x.pc = "dropNewPromotion" /\ wk'[w].pc = "dropNewCoupon" /\ wk'[w].new = x.new
    BY <1>0, <1>9 DEF DropNewPromotion, RetireNew, DropPromotion, At
  <2> QED
    BY <1>0, <2>1, OwnedStays, SwitchedOff DEF SameRows, Loose
<1>10. CASE DropOldPromotion(w)
  <2>1. /\ x.pc = "dropOldPromotion" /\ UNCHANGED <<coupons, rows>> /\ x.op # "create"
        /\ wk'[w].pc = "dropOldCoupon" /\ wk'[w].was = x.was
        /\ SetState(x.was.promo, "inactive") \/ UNCHANGED promos
    BY <1>0, <1>10 DEF DropOldPromotion, DropPromotion, At, Course, Solo
  <2> QED
    BY <1>0, <2>1, OwnedStays, SwitchedOff DEF SameRows, Loose
<1>11. CASE RetireOld(w)
  <2>1. /\ x.pc = "retireOld" /\ UNCHANGED <<coupons, rows>> /\ x.op # "create"
        /\ wk'[w].pc \in {"idle", "retireNew"}
        /\ SetState(x.was.promo, "inactive") \/ UNCHANGED promos
    BY <1>0, <1>11 DEF RetireOld, At, Course, Solo
  <2> QED
    BY <1>0, <2>1, OwnedStays, SwitchedOff DEF SameRows, Loose
<1>12. CASE DropNewCoupon(w) \/ DropOldCoupon(w) \/ SaveRow(w)
  BY <1>12, DropNewCouponIsOwned, DropOldCouponIsOwned, SaveRowIsOwned
<1>13. CASE SaveMirror(w)
  <2>1. /\ x.pc = "mirror" /\ UNCHANGED <<coupons, promos>> /\ wk'[w].pc = "idle"
        /\ rows' = [rows EXCEPT ![x.id].mirror = x.flag] \/ UNCHANGED rows
    BY <1>0, <1>13 DEF SaveMirror, At
  <2>2. SameRows
    BY <1>0, <2>1 DEF SameRows, IInv, TypeOK, RowTypeOK
  <2> QED
    BY <2>1, <2>2, OwnedStays DEF Loose
<1>14. CASE MarkDeleted(w)
  <2>1. /\ x.pc = "markDeleted" /\ UNCHANGED <<coupons, promos>> /\ wk'[w].pc = "idle" /\ x.id \in Row
        /\ \/ UNCHANGED rows
           \/ rows' = [rows EXCEPT ![x.id].state = "deleted", ![x.id].mirror = "off"]
    BY <1>0, <1>14 DEF MarkDeleted, At, Course, Solo
  <2>2. \A r \in Row \ {x.id} : rows'[r] = rows[r]
    BY <1>0, <2>1 DEF IInv, TypeOK, RowTypeOK
  <2> QED
    BY <2>1, <2>2 DEF Owned, Shown, Loose, Redeemable, Valid
<1>15. ~Crash(w)
  BY <1>0 DEF Crash, IInv, TypeOK
<1> QED
  BY <1>1, <1>2, <1>3, <1>4, <1>5, <1>6, <1>7, <1>8, <1>9, <1>10, <1>11, <1>12, <1>13, <1>14, <1>15
     DEF Step, StripeStep, CleanUpStep, RowStep

LEMMA InitSolo ==
    ASSUME NEW w \in Worker, Init
    PROVE  Course(wk[w]) /\ Reads(wk[w]) /\ References /\ Clean(wk[w]) /\ Owned(wk[w])
BY DEF Init, Idle, Course, Reads, References, Clean, Owned, Redeemable, Pairing, Undoing,
       DroppingOld, Looking

LEMMA StutterKeepsSolo ==
    ASSUME NEW w \in Worker, UNCHANGED vars, Course(wk[w]), Reads(wk[w]), References, Clean(wk[w])
    PROVE  (Course(wk[w]) /\ Reads(wk[w]) /\ References /\ Clean(wk[w]))'
           /\ (Owned(wk[w]) => Owned(wk[w])')
BY DEF vars, Course, Reads, Fits, References, Clean, Owned, Shown, InHand, Loose, Redeemable, Valid

LEMMA SoloAlways ==
    ASSUME NEW w \in Worker, Worker = {w}, MaxCrash = 0
    PROVE  Spec => [](Solo(w) /\ Clean(wk[w]))
<1> DEFINE Inv == Course(wk[w]) /\ Reads(wk[w]) /\ References /\ Clean(wk[w])
<1>1. Init => Inv
  BY InitSolo
<1>2. Base /\ Inv /\ [Next]_vars => Inv'
  <2> SUFFICES ASSUME Base, Inv, [Next]_vars
               PROVE  Inv'
    OBVIOUS
  <2>1. CASE Step(w)
    BY <2>1, CourseKept, SoloKept, CleanKept DEF Solo, Base
  <2>2. CASE UNCHANGED vars
    BY <2>2, StutterKeepsSolo
  <2> QED
    BY <2>1, <2>2 DEF Next, Step
<1>3. Spec => []Base
  BY Inductive, PairsInductive, PTL DEF Base
<1>4. Base /\ Inv => Solo(w) /\ Clean(wk[w])
  BY DEF Solo
<1> QED
  BY <1>1, <1>2, <1>3, <1>4, PTL DEF Spec

\* One request at a time, of which none crashes: even when one call fails, at
\* whatever point of whatever operation, no discount stays redeemable without
\* a row through which the Super Admin can delete it.
THEOREM PromoDiscountsOwned ==
    ASSUME NEW w \in Worker, Worker = {w}, MaxFailure \leq 1, MaxCrash = 0
    PROVE  Spec => []DiscountsAreOwned
<1>1. Init => Owned(wk[w])
  BY InitSolo
<1>2. Solo(w) /\ Clean(wk[w]) /\ Owned(wk[w]) /\ [Next]_vars => Owned(wk[w])'
  <2> SUFFICES ASSUME Solo(w), Clean(wk[w]), Owned(wk[w]), [Next]_vars
               PROVE  Owned(wk[w])'
    OBVIOUS
  <2>1. CASE Step(w)
    BY <2>1, OwnedKept
  <2>2. CASE UNCHANGED vars
    BY <2>2, StutterKeepsSolo DEF Solo
  <2> QED
    BY <2>1, <2>2 DEF Next, Step
<1>3. Owned(wk[w]) => DiscountsAreOwned
  BY DEF Owned, DiscountsAreOwned, Quiet, At, Loose, Shown, Undoing, DroppingOld
<1> QED
  BY <1>1, <1>2, <1>3, SoloAlways, PTL DEF Spec

-------------------------------------------------------------------------------
(* While no call has failed, what the rows show is what customers can redeem. *)

\* No two rows share a code or a coupon, soft-deleted rows included.
Distinct ==
    \A r, q \in Row : rows[r].state # "none" /\ rows[q].state # "none" /\ r # q =>
        rows[r].col.code # rows[q].col.code /\ rows[r].col.coupon # rows[q].col.coupon

\* What the request has made and not yet recorded, or has replaced, is in no
\* row.
Unused(x) ==
    \A r \in Row : rows[r].state # "none" =>
       /\ x.pc \in {"promotion", "dropHeadless", "save"} \cup Undoing /\ Makes(x) =>
             rows[r].col.coupon # x.new.coupon
       /\ x.pc = "save" /\ (Makes(x) \/ ~Keeps(x)) => rows[r].col.promo # x.new.promo
       /\ x.pc \in DroppingOld /\ x.op = "edit" => rows[r].col.coupon # x.was.coupon
       /\ x.pc = "retireOld" => rows[r].col.promo # x.was.promo
       /\ x.pc = "retireNew" => rows[r].col.promo # x.new.promo

LEMMA NoneFails ==
    ASSUME IInv, failures = 0, failures' = 0
    PROVE  ~Fail /\ \A refused : RefusedOr(refused) => refused
BY Counted

LEMMA RowsFit ==
    ASSUME IInv, NEW r \in Row, rows[r].state # "none"
    PROVE  Fits(promos, coupons, rows[r].col)
BY DEF IInv, RowsAreBacked, Backed, Fits

LEMMA SaveRowIsUnused ==
    ASSUME NEW w \in Worker, Solo(w), failures = 0, failures' = 0,
           Distinct, Unused(wk[w]), SaveRow(w)
    PROVE  Distinct' /\ Unused(wk[w])'
<1> DEFINE x == wk[w]
<1>0. /\ x.pc = "save" /\ x.id \in Row /\ IInv
      /\ x.op # "create" => rows[x.id].state = "live" /\ rows[x.id].col = x.was
                            /\ Fits(promos, coupons, x.was)
      /\ x.op = "create" => rows[x.id].state = "none" /\ Makes(x)
      /\ ~Makes(x) => x.new.coupon = x.was.coupon
      /\ Makes(x) => x.op \in {"create", "edit"}
      /\ \A r \in Row : rows[r].state # "none" => Fits(promos, coupons, rows[r].col)
  BY SaveRowSets, RowsFit DEF Solo, Base, Reads, Course, AsRead, DroppingOld
<1>1. CASE Goto(w, Undo(w)) /\ UNCHANGED rows
  <2>1. \/ wk'[w].pc = "idle"
        \/ wk'[w].pc = "dropNewPromotion" /\ Makes(x) /\ wk'[w].was = x.was /\ wk'[w].new = x.new
        \/ wk'[w].pc = "retireNew" /\ ~Keeps(x) /\ wk'[w].new = x.new
    BY <1>0, <1>1, GotoMoves DEF Undo, Idle, Replaces, SameCode, Makes, Keeps
  <2> QED
    BY <1>0, <1>1, <2>1 DEF Distinct, Unused, DroppingOld, Undoing
<1>2. CASE /\ Goto(w, AfterSave(w)) /\ ~Taken(x.id, x.new.code)
           /\ rows'[x.id].state = "live" /\ rows'[x.id].col = x.new
           /\ \A r \in Row \ {x.id} : rows'[r] = rows[r]
  <2>1. \/ wk'[w].pc = "idle"
        \/ /\ wk'[w].pc = "dropOldPromotion" /\ Makes(x) /\ x.op # "create" /\ wk'[w].was = x.was
        \/ /\ wk'[w].pc = "retireOld" /\ ~Makes(x) /\ ~Keeps(x) /\ wk'[w].was = x.was
    BY <1>0, <1>2, GotoMoves DEF AfterSave, Idle, Replaces, SameCode, Makes, Keeps
  <2>2. \A r \in Row \ {x.id} : rows[r].state # "none" =>
           /\ rows[r].col.code # x.new.code /\ rows[r].col.coupon # x.new.coupon
           /\ x.op # "create" => rows[r].col.coupon # x.was.coupon
    BY <1>0, <1>2 DEF Taken, Distinct, Unused
  <2>3. Distinct'
    BY <1>0, <1>2, <2>2 DEF Distinct
  <2>4. \A r \in Row : rows'[r].state # "none" =>
           /\ Makes(x) /\ x.op # "create" => rows'[r].col.coupon # x.was.coupon
           /\ ~Makes(x) /\ ~Keeps(x) => rows'[r].col.promo # x.was.promo
    BY <1>0, <1>2, <2>2 DEF Unused, Fits
  <2> QED
    BY <2>1, <2>3, <2>4 DEF Unused, DroppingOld, Undoing
<1> QED
  BY <1>1, <1>2, SaveRowSets DEF Solo, Base

LEMMA NewPromotionIsUnused ==
    ASSUME NEW w \in Worker, Solo(w), Distinct, Unused(wk[w]),
           NEW coupon, NewPromotion(w, coupon), wk[w].pc \in {"promotion", "rename"}, UNCHANGED rows
    PROVE  Distinct' /\ Unused(wk[w])'
<1> DEFINE x == wk[w]
<1>1. PICK p \in Promotion : /\ promos[p].state = "none"
                             /\ wk' = [wk EXCEPT ![w].pc = "save", ![w].new.promo = p]
  BY DEF NewPromotion
<1>2. /\ wk'[w].pc = "save" /\ wk'[w].was = x.was /\ wk'[w].new.promo = p
      /\ wk'[w].new.coupon = x.new.coupon /\ wk'[w].new.disc = x.new.disc
  BY <1>1 DEF Solo, Base, IInv, TypeOK, RequestTypeOK, Column
<1>3. x.pc = "rename" => ~Makes(x)
  BY DEF Solo, Course
<1>4. \A r \in Row : rows[r].state # "none" => rows[r].col.promo # p
  BY <1>1, RowsFit DEF Solo, Base, Fits
<1> QED
  BY <1>2, <1>3, <1>4 DEF Distinct, Unused, Makes, DroppingOld, Undoing

\* What a step that is neither the first, nor makes anything, nor writes the
\* row leaves to be done.
Onward == {<<"deactivateOld", "coupon">>, <<"promotion", "dropHeadless">>,
           <<"dropHeadless", "reactivate">>, <<"dropNewPromotion", "dropNewCoupon">>,
           <<"dropNewCoupon", "reactivate">>, <<"dropOldPromotion", "dropOldCoupon">>,
           <<"dropOldCoupon", "markDeleted">>, <<"setActive", "mirror">>,
           <<"summary", "mirror">>}

LEMMA OnwardIsUnused ==
    ASSUME NEW w \in Worker, Distinct, Unused(wk[w]), SameRows,
           \/ wk'[w].pc = "idle"
           \/ /\ wk'[w].was = wk[w].was /\ wk'[w].new = wk[w].new /\ wk'[w].op = wk[w].op
              /\ <<wk[w].pc, wk'[w].pc>> \in Onward
    PROVE  Distinct' /\ Unused(wk[w])'
BY DEF Distinct, Unused, SameRows, Onward, Makes, Keeps, DroppingOld, Undoing

LEMMA UnusedKept ==
    ASSUME NEW w \in Worker, MaxCrash = 0, Solo(w), failures = 0, failures' = 0,
           Distinct, Unused(wk[w]), Step(w)
    PROVE  Distinct' /\ Unused(wk[w])'
<1> DEFINE x == wk[w]
<1>0. /\ IInv /\ ~Fail
      /\ \A refused : RefusedOr(refused) => refused
      /\ \A pc : Goto(w, pc) => LET y == wk'[w]
                                IN  /\ pc = "idle" => y.pc = "idle"
                                    /\ pc # "idle" => /\ y.pc = pc /\ y.op = x.op
                                                      /\ y.was = x.was /\ y.new = x.new
  BY GotoMoves, NoneFails DEF Solo, Base, Idle
<1>1. CASE BeginStep(w)
  <2>1. Begun(wk[w])' /\ UNCHANGED rows
    BY <1>0, <1>1, RequestBegins
  <2> QED
    BY <2>1 DEF Begun, FirstCall, Distinct, Unused, Makes, Keeps, DroppingOld, Undoing
<1>2. CASE DeactivateOld(w)
  BY <1>0, <1>2, OnwardIsUnused DEF DeactivateOld, At, Onward, SameRows
<1>3. CASE CreateCoupon(w)
  <2>1. PICK c \in Coupon : /\ coupons[c].state = "none"
                            /\ wk' = [wk EXCEPT ![w].pc = "promotion", ![w].new.coupon = c]
    BY <1>0, <1>3 DEF CreateCoupon
  <2>2. wk'[w].pc = "promotion" /\ wk'[w].new.coupon = c
    BY <2>1 DEF Solo, Base, IInv, TypeOK, RequestTypeOK, Column
  <2>3. \A r \in Row : rows[r].state # "none" => rows[r].col.coupon # c
    BY <1>0, <2>1, RowsFit DEF Fits
  <2> QED
    BY <1>3, <2>2, <2>3 DEF CreateCoupon, Distinct, Unused, DroppingOld, Undoing
<1>4. CASE CreatePromotion(w)
  <2>1. x.pc = "promotion" /\ UNCHANGED rows
    BY <1>4 DEF CreatePromotion, At
  <2>2. CASE Goto(w, "dropHeadless")
    BY <1>0, <2>1, <2>2, OnwardIsUnused DEF Onward, SameRows
  <2> QED
    BY <1>4, <2>1, <2>2, NewPromotionIsUnused DEF CreatePromotion
<1>5. CASE RenamePromotion(w)
  <2>1. x.pc = "rename" /\ UNCHANGED rows
    BY <1>5 DEF RenamePromotion, At
  <2>2. CASE Goto(w, "idle")
    BY <1>0, <2>1, <2>2, OnwardIsUnused DEF SameRows
  <2> QED
    BY <1>5, <2>1, <2>2, NewPromotionIsUnused DEF RenamePromotion
<1>6. CASE SetActive(w) \/ Reactivate(w)
  BY <1>0, <1>6, OnwardIsUnused DEF SetActive, Reactivate, At, Onward, SameRows
<1>7. CASE LoadSummary(w)
  <2>1. PICK flag : wk' = [wk EXCEPT ![w].pc = "mirror", ![w].flag = flag]
    BY <1>7 DEF LoadSummary
  <2>2. /\ wk'[w].pc = "mirror" /\ x.pc = "summary" /\ UNCHANGED rows /\ wk'[w].op = x.op
        /\ wk'[w].was = x.was /\ wk'[w].new = x.new
    BY <1>0, <1>7, <2>1 DEF LoadSummary, At, IInv, TypeOK, RequestTypeOK
  <2> QED
    BY <2>2, OnwardIsUnused DEF Onward, SameRows
<1>8. CASE DropHeadlessCoupon(w) \/ DropNewCoupon(w)
  <2>1. /\ x.pc \in {"dropHeadless", "dropNewCoupon"} /\ UNCHANGED rows
        /\ Goto(w, "reactivate") \/ Goto(w, "idle")
    BY <1>8, ReopenGoes DEF DropHeadlessCoupon, DropNewCoupon, DropCoupon, At
  <2> QED
    BY <1>0, <2>1, OnwardIsUnused DEF Onward, SameRows
<1>9. CASE DropNewPromotion(w) \/ DropOldPromotion(w) \/ RetireNew(w)
  BY <1>0, <1>9, OnwardIsUnused
     DEF DropNewPromotion, DropOldPromotion, RetireNew, DropPromotion, At, Onward, SameRows
<1>10. CASE DropOldCoupon(w)
  <2>1. /\ x.pc = "dropOldCoupon" /\ UNCHANGED rows
        /\ Goto(w, "markDeleted") \/ Goto(w, "idle")
    BY <1>10 DEF DropOldCoupon, DropCoupon, At
  <2> QED
    BY <1>0, <2>1, OnwardIsUnused DEF Onward, SameRows
<1>11. CASE RetireOld(w)
  BY <1>0, <1>11, OnwardIsUnused DEF RetireOld, SameRows
<1>12. CASE SaveRow(w)
  BY <1>12, SaveRowIsUnused
<1>13. CASE SaveMirror(w)
  <2>1. SameRows
    BY <1>0, <1>13 DEF SaveMirror, SameRows, IInv, TypeOK, RowTypeOK
  <2> QED
    BY <1>0, <1>13, <2>1, OnwardIsUnused DEF SaveMirror
<1>14. CASE MarkDeleted(w)
  <2>1. /\ x.pc = "markDeleted" /\ wk'[w].pc = "idle" /\ x.id \in Row
        /\ rows[x.id].state = "live"
        /\ rows' = [rows EXCEPT ![x.id].state = "deleted", ![x.id].mirror = "off"]
    BY <1>0, <1>14 DEF MarkDeleted, At, Solo, Course, Reads
  <2>2. \A r \in Row : rows'[r].col = rows[r].col /\ (rows'[r].state # "none" => rows[r].state # "none")
    BY <1>0, <2>1 DEF IInv, TypeOK, RowTypeOK
  <2>3. Distinct'
    BY <2>2 DEF Distinct
  <2> QED
    BY <2>1, <2>3 DEF Unused, DroppingOld, Undoing
<1>15. ~Crash(w)
  BY <1>0 DEF Crash, IInv, TypeOK
<1> QED
  BY <1>1, <1>2, <1>3, <1>4, <1>5, <1>6, <1>7, <1>8, <1>9, <1>10, <1>11, <1>12, <1>13, <1>14,
     <1>15 DEF Step, StripeStep, CleanUpStep, RowStep

\* An active promotion has a coupon that is still there.
ActiveValid == \A p \in Promotion : promos[p].state = "active" => Valid(promos[p].coupon)

\* Dropping a coupon that no active promotion is on.
LEMMA DropIsValid ==
    ASSUME NEW w \in Worker, Solo(w), ActiveValid, NEW pc, NEW c \in Coupon, DropCoupon(w, pc, c),
           \A p \in Promotion : promos[p].state = "active" => promos[p].coupon # c
    PROVE  ActiveValid'
BY DropCouponSets DEF Solo, Base, References, ActiveValid, Valid

\* The coupon of an active promotion that is not in hand is that of its row.
LEMMA ActiveIsOfRow ==
    ASSUME NEW w \in Worker, Solo(w), Clean(wk[w]), failures = 0,
           NEW p \in Promotion, promos[p].state = "active", ~InHand(wk[w], p)
    PROVE  \E r \in Row : /\ Shown(r, wk[w]) /\ rows[r].state = "live"
                          /\ rows[r].col.promo = p
                          /\ rows[r].col.coupon = promos[p].coupon
                          /\ rows[r].col.code = promos[p].code
BY RowsFit DEF Solo, Base, Clean, Shown, Fits

LEMMA DroppedIsUnused ==
    ASSUME NEW w \in Worker, Solo(w), Clean(wk[w]), failures = 0, Distinct, Unused(wk[w]),
           NEW p \in Promotion, promos[p].state = "active"
    PROVE  /\ wk[w].pc \in {"dropHeadless", "dropNewCoupon"} => promos[p].coupon # wk[w].new.coupon
           /\ wk[w].pc = "dropOldCoupon" => promos[p].coupon # wk[w].was.coupon
<1> DEFINE x == wk[w]
<1> SUFFICES ASSUME x.pc \in {"dropHeadless", "dropNewCoupon", "dropOldCoupon"}
             PROVE  IF x.pc = "dropOldCoupon" THEN promos[p].coupon # x.was.coupon
                                              ELSE promos[p].coupon # x.new.coupon
  OBVIOUS
<1>1. PICK r \in Row : /\ rows[r].state = "live" /\ rows[r].col.promo = p
                       /\ rows[r].col.coupon = promos[p].coupon
  BY ActiveIsOfRow DEF InHand
<1>2. CASE x.pc # "dropOldCoupon"
  BY <1>1, <1>2 DEF Unused, Solo, Course, Pairing, Undoing
<1>3. CASE x.pc = "dropOldCoupon" /\ x.op = "edit"
  BY <1>1, <1>3 DEF Unused, DroppingOld
<1>4. CASE x.pc = "dropOldCoupon" /\ x.op = "delete"
  <2>1. /\ x.id \in Row /\ rows[x.id].state = "live" /\ rows[x.id].col = x.was
        /\ x.was.promo # p
    BY <1>4 DEF Solo, Reads, AsRead, Clean
  <2> QED
    BY <1>1, <1>4, <2>1 DEF Distinct
<1> QED
  BY <1>2, <1>3, <1>4 DEF Solo, Course, DroppingOld

LEMMA ActivationIsValid ==
    ASSUME NEW w \in Worker, Solo(w), ActiveValid, NEW p \in Promotion, NEW state,
           SetState(p, state), state = "active" => MayActivate(p), UNCHANGED coupons
    PROVE  ActiveValid' /\ (state = "active" => Redeemable(p)')
BY SetStateSets DEF Solo, Base, ActiveValid, MayActivate, Valid, Redeemable

LEMMA NewPromotionIsValid ==
    ASSUME NEW w \in Worker, Solo(w), NEW coupon, NewPromotion(w, coupon),
           UNCHANGED coupons, Valid(coupon)
    PROVE  /\ wk'[w].pc = "save" /\ wk'[w].op = wk[w].op /\ wk'[w].id = wk[w].id
           /\ wk'[w].was = wk[w].was
           /\ wk'[w].new.code = wk[w].new.code /\ wk'[w].new.disc = wk[w].new.disc
           /\ Redeemable(wk[w].new.promo)'
           /\ \A q \in Promotion : Redeemable(q) => Redeemable(q)'
           /\ ActiveValid => ActiveValid'
<1>1. PICK p \in Promotion :
        /\ promos[p].state = "none"
        /\ promos' = [promos EXCEPT ![p] =
              [state |-> "active", code |-> wk[w].new.code, coupon |-> coupon]]
        /\ wk' = [wk EXCEPT ![w].pc = "save", ![w].new.promo = p]
  BY DEF NewPromotion
<1>2. /\ wk'[w].pc = "save" /\ wk'[w].op = wk[w].op /\ wk'[w].id = wk[w].id
      /\ wk'[w].was = wk[w].was /\ wk'[w].new.promo = p
      /\ wk'[w].new.code = wk[w].new.code /\ wk'[w].new.disc = wk[w].new.disc
  BY <1>1 DEF Solo, Base, IInv, TypeOK, RequestTypeOK, Column
<1>3. /\ promos'[p].state = "active" /\ promos'[p].coupon = coupon
      /\ \A q \in Promotion \ {p} : promos'[q] = promos[q]
  BY <1>1 DEF Solo, Base, IInv, TypeOK, StripeTypeOK
<1> QED
  BY <1>1, <1>2, <1>3 DEF Redeemable, Valid, ActiveValid

LEMMA ActiveValidKept ==
    ASSUME NEW w \in Worker, MaxCrash = 0, Solo(w), Clean(wk[w]), failures = 0, failures' = 0,
           Distinct, Unused(wk[w]), ActiveValid, Step(w)
    PROVE  ActiveValid'
<1> DEFINE x == wk[w]
<1>0. /\ IInv /\ ~Fail
      /\ x.pc # "idle" /\ x.op # "create" => x.was.promo \in Promotion /\ x.was.coupon \in Coupon
      /\ x.pc \in {"retireNew"} \cup Undoing => x.new.promo \in Promotion /\ x.new.coupon \in Coupon
      /\ x.pc = "dropHeadless" => x.new.coupon \in Coupon
      /\ \A p \in Promotion : promos[p].state = "active" => promos[p].coupon \in Coupon
  BY NoneFails DEF Solo, Base, Reads, Fits, Undoing, References
<1>1. CASE UNCHANGED <<coupons, promos>>
  BY <1>1 DEF ActiveValid, Valid
<1>2. CASE BeginStep(w)
  BY <1>0, <1>1, <1>2, RequestBegins
<1>3. CASE CreateCoupon(w)
  <2>1. PICK c \in Coupon : /\ coupons[c].state = "none" /\ UNCHANGED promos
                            /\ coupons' = [coupons EXCEPT ![c] = [state |-> "live", disc |-> x.new.disc]]
    BY <1>0, <1>3 DEF CreateCoupon
  <2>2. \A d \in Coupon \ {c} : coupons'[d] = coupons[d]
    BY <1>0, <2>1 DEF IInv, TypeOK, StripeTypeOK
  <2> QED
    BY <1>0, <2>1, <2>2 DEF ActiveValid, Valid
<1>4. CASE CreatePromotion(w)
  <2>1. x.pc = "promotion" /\ UNCHANGED coupons /\ Valid(x.new.coupon)
    BY <1>4 DEF CreatePromotion, At, Solo, Reads, Valid
  <2> QED
    BY <1>1, <1>4, <2>1, NewPromotionIsValid DEF CreatePromotion
<1>5. CASE RenamePromotion(w)
  BY <1>1, <1>5, NewPromotionIsValid DEF RenamePromotion
<1>6. CASE DeactivateOld(w) \/ DropOldPromotion(w) \/ RetireOld(w) \/ SetActive(w) \/ Reactivate(w)
  <2>1. UNCHANGED coupons /\ x.was.promo \in Promotion
    BY <1>0, <1>6 DEF DeactivateOld, DropOldPromotion, RetireOld, SetActive, Reactivate, DropPromotion,
                      At, Solo, Course, DroppingOld, Looking
  <2>2. CASE SetState(x.was.promo, "inactive")
    BY <2>1, <2>2, ActivationIsValid
  <2>3. CASE SetState(x.was.promo, "active") /\ MayActivate(x.was.promo)
    BY <2>1, <2>3, ActivationIsValid
  <2> QED
    BY <1>1, <1>6, <2>1, <2>2, <2>3
       DEF DeactivateOld, DropOldPromotion, RetireOld, SetActive, Reactivate, DropPromotion
<1>7. CASE DropNewPromotion(w) \/ RetireNew(w)
  <2>1. UNCHANGED coupons /\ x.new.promo \in Promotion
    BY <1>0, <1>7 DEF DropNewPromotion, RetireNew, DropPromotion, At, Undoing
  <2>2. CASE SetState(x.new.promo, "inactive")
    BY <2>1, <2>2, ActivationIsValid
  <2> QED
    BY <1>1, <1>7, <2>1, <2>2 DEF DropNewPromotion, RetireNew, DropPromotion
<1>8. CASE DropHeadlessCoupon(w) \/ DropNewCoupon(w)
  <2>1. x.pc \in {"dropHeadless", "dropNewCoupon"} /\ \E pc : DropCoupon(w, pc, x.new.coupon)
    BY <1>8 DEF DropHeadlessCoupon, DropNewCoupon, DropCoupon, At
  <2> QED
    BY <1>0, <2>1, DropIsValid, DroppedIsUnused DEF Undoing
<1>9. CASE DropOldCoupon(w)
  <2>1. x.pc = "dropOldCoupon" /\ DropCoupon(w, "dropOldCoupon", x.was.coupon) /\ x.op # "create"
    BY <1>9 DEF DropOldCoupon, DropCoupon, At, Solo, Course, DroppingOld
  <2> QED
    BY <1>0, <2>1, DropIsValid, DroppedIsUnused
<1>10. CASE LoadSummary(w) \/ RowStep(w)
  BY <1>1, <1>10 DEF LoadSummary, RowStep, SaveRow, SaveMirror, MarkDeleted
<1>11. ~Crash(w)
  BY <1>0 DEF Crash, IInv, TypeOK
<1> QED
  BY <1>2, <1>3, <1>4, <1>5, <1>6, <1>7, <1>8, <1>9, <1>10, <1>11 DEF Step, StripeStep, CleanUpStep

\* The request has switched off what its row shows as active, and has yet to
\* write the row.
Interrupted(x) ==
    \/ x.op = "edit" /\ Keeps(x) /\ Makes(x) /\ x.pc \in {"coupon", "promotion", "save"}
    \/ x.op = "delete" /\ x.pc \in {"dropOldCoupon", "markDeleted"}
    \/ x.pc = "mirror" /\ x.flag = "off"

\* An edit under the same code does not come to undo what it did.
EditGoesThrough(x) ==
    x.op = "edit" /\ Keeps(x) /\ Makes(x) =>
       /\ x.pc \notin {"dropHeadless", "reactivate"} \cup Undoing
       /\ x.pc \in {"coupon", "promotion"} => promos[x.was.promo].state # "active"

\* A row that shows as active can be redeemed, or the request that switched
\* its promotion off is at work on it.
RowsServe(x) ==
    \A r \in Row : rows[r].state = "live" /\ rows[r].mirror = "on" =>
        Redeemable(rows[r].col.promo) \/ (x.id = r /\ Interrupted(x))

Serves(x) ==
    /\ RowsServe(x)
    /\ x.pc = "mirror" /\ x.flag = "on" => Redeemable(x.was.promo)
    /\ x.pc = "save" /\ (Makes(x) \/ ~Keeps(x)) => Redeemable(x.new.promo)
    /\ EditGoesThrough(x)

\* A step that changes no row.  What it switches off or drops is of the row it
\* is at work on.
LEMMA RowsStillServe ==
    ASSUME NEW w \in Worker, RowsServe(wk[w]), UNCHANGED rows,
           Interrupted(wk[w]) => wk'[w].id = wk[w].id /\ Interrupted(wk'[w]),
           \A r \in Row : rows[r].state = "live" /\ Redeemable(rows[r].col.promo) =>
               Redeemable(rows[r].col.promo)' \/ (wk'[w].id = r /\ Interrupted(wk'[w]))
    PROVE  RowsServe(wk[w])'
BY DEF RowsServe, Interrupted, Keeps, Makes, Redeemable, Valid

\* The promotion of the row the request holds is that of no other row.
LEMMA PromotionOfOneRow ==
    ASSUME NEW w \in Worker, Solo(w), Distinct, wk[w].pc # "idle", wk[w].op # "create", AsRead(wk[w]),
           NEW r \in Row, rows[r].state # "none", r # wk[w].id
    PROVE  rows[r].col.promo # wk[w].was.promo /\ rows[r].col.coupon # wk[w].was.coupon
BY RowsFit DEF Solo, Base, Reads, Distinct, Fits

LEMMA SwitchedOffServes ==
    ASSUME NEW w \in Worker, Solo(w), RowsServe(wk[w]), UNCHANGED <<rows, coupons>>,
           NEW p \in Promotion, SetState(p, "inactive"),
           ~Interrupted(wk[w]),
           \A r \in Row : rows[r].state = "live" =>
               rows[r].col.promo # p \/ (wk'[w].id = r /\ Interrupted(wk'[w]))
    PROVE  RowsServe(wk[w])'
<1>1. \A q \in Promotion \ {p} : Redeemable(q) => Redeemable(q)'
  BY SetStateSets DEF Solo, Base, Redeemable, Valid
<1>2. \A r \in Row : rows[r].state = "live" => rows[r].col.promo \in Promotion
  BY RowsFit DEF Solo, Base, Fits
<1> QED
  BY <1>1, <1>2, RowsStillServe

LEMMA DroppedServes ==
    ASSUME NEW w \in Worker, Solo(w), RowsServe(wk[w]), failures = 0, failures' = 0,
           NEW pc, NEW c \in Coupon, DropCoupon(w, pc, c),
           Interrupted(wk[w]) => wk'[w].id = wk[w].id /\ Interrupted(wk'[w]),
           \A r \in Row : rows[r].state = "live" =>
               rows[r].col.coupon # c \/ (wk'[w].id = r /\ Interrupted(wk'[w]))
    PROVE  RowsServe(wk[w])'
<1>1. \A q \in Promotion : Redeemable(q) /\ promos[q].coupon \in Coupon \ {c} => Redeemable(q)'
  BY DropCouponSets DEF Solo, Base, Redeemable, Valid
<1>2. \A r \in Row : rows[r].state = "live" => /\ rows[r].col.promo \in Promotion
                                               /\ rows[r].col.coupon \in Coupon
                                               /\ promos[rows[r].col.promo].coupon = rows[r].col.coupon
  BY RowsFit DEF Solo, Base, Fits
<1>3. UNCHANGED rows
  BY DEF DropCoupon
<1> QED
  BY <1>1, <1>2, <1>3, RowsStillServe

LEMMA NewPromotionServes ==
    ASSUME NEW w \in Worker, Solo(w), Serves(wk[w]), NEW coupon, NewPromotion(w, coupon),
           UNCHANGED <<coupons, rows>>, Valid(coupon), wk[w].pc \in {"promotion", "rename"}
    PROVE  Serves(wk[w])'
<1>1. \A r \in Row : rows[r].state = "live" => rows[r].col.promo \in Promotion
  BY RowsFit DEF Solo, Base, Fits
<1>2. Interrupted(wk[w]) => wk'[w].id = wk[w].id /\ Interrupted(wk'[w])
  BY NewPromotionIsValid DEF Interrupted, Keeps, Makes
<1>3. RowsServe(wk[w])'
  BY <1>1, <1>2, NewPromotionIsValid, RowsStillServe DEF Serves
<1> QED
  BY <1>3, NewPromotionIsValid DEF Serves, EditGoesThrough, Undoing

\* Stripe refuses the code of an edit only when it is another row's.
LEMMA EditFindsCodeFree ==
    ASSUME NEW w \in Worker, Solo(w), Clean(wk[w]), failures = 0, Distinct, EditGoesThrough(wk[w]),
           wk[w].pc = "promotion", wk[w].op = "edit", Keeps(wk[w])
    PROVE  Free(wk[w].new.code)
<1> DEFINE x == wk[w]
<1> SUFFICES ASSUME NEW p \in Promotion, promos[p].state = "active", promos[p].code = x.new.code
             PROVE  FALSE
  BY DEF Free
<1>1. /\ Makes(x) /\ x.id \in Row /\ rows[x.id].state = "live" /\ rows[x.id].col = x.was
      /\ promos[x.was.promo].state # "active"
  BY DEF Solo, Course, Reads, AsRead, Pairing, DroppingOld, EditGoesThrough
<1>2. PICK r \in Row : /\ rows[r].state = "live" /\ rows[r].col.promo = p
                       /\ rows[r].col.code = promos[p].code
  BY ActiveIsOfRow DEF InHand
<1>3. r = x.id
  BY <1>1, <1>2 DEF Distinct, Keeps
<1> QED
  BY <1>1, <1>2, <1>3

LEMMA SaveRowServes ==
    ASSUME NEW w \in Worker, Solo(w), failures = 0, failures' = 0, Distinct, Serves(wk[w]), SaveRow(w)
    PROVE  Serves(wk[w])'
<1> DEFINE x == wk[w]
<1>0. /\ x.pc = "save" /\ x.id \in Row /\ IInv /\ UNCHANGED <<coupons, promos>>
      /\ x.op # "create" => rows[x.id].state = "live" /\ rows[x.id].col = x.was
      /\ x.op \in {"create", "edit", "rename"}
      /\ x.op = "create" => rows[x.id].state = "none" /\ Makes(x)
      /\ ~Makes(x) /\ Keeps(x) => x.new.promo = x.was.promo
  BY SaveRowSets DEF Solo, Base, Reads, Course, AsRead, DroppingOld
<1>1. CASE Goto(w, Undo(w)) /\ UNCHANGED rows /\ Taken(x.id, x.new.code)
  <2>1. x.op # "create" => ~Keeps(x)
    BY <1>0, <1>1 DEF Taken, Distinct, Keeps
  <2>2. ~Interrupted(x)
    BY <1>0, <2>1 DEF Interrupted
  <2>3. RowsServe(wk[w])'
    BY <1>0, <1>1, <2>2, RowsStillServe DEF Serves, Redeemable, Valid
  <2>4. \/ wk'[w].pc = "idle" /\ wk'[w].op # "edit"
        \/ /\ wk'[w].pc \in {"dropNewPromotion", "retireNew"} /\ wk'[w].op = x.op
           /\ wk'[w].was = x.was /\ wk'[w].new = x.new
    BY <1>0, <1>1, GotoMoves DEF Undo, Idle
  <2> QED
    BY <2>1, <2>3, <2>4 DEF Serves, EditGoesThrough, Keeps
<1>2. CASE /\ Goto(w, AfterSave(w))
           /\ rows'[x.id].state = "live" /\ rows'[x.id].col = x.new
           /\ x.op # "create" => rows'[x.id].mirror = rows[x.id].mirror
           /\ \A r \in Row \ {x.id} : rows'[r] = rows[r]
  <2>1. wk'[w].pc \in {"idle", "dropOldPromotion", "retireOld"}
    BY <1>0, <1>2, GotoMoves DEF AfterSave, Idle
  <2>2. rows'[x.id].mirror = "on" => Redeemable(x.new.promo)
    BY <1>0, <1>2 DEF Serves, RowsServe, Interrupted
  <2>3. RowsServe(wk[w])'
    BY <1>0, <1>2, <2>2 DEF Serves, RowsServe, Redeemable, Valid
  <2> QED
    BY <2>1, <2>3 DEF Serves, EditGoesThrough, Undoing
<1> QED
  BY <1>1, <1>2, SaveRowSets DEF Solo, Base

LEMMA BeginServes ==
    ASSUME NEW w \in Worker, Solo(w), Serves(wk[w]), BeginStep(w)
    PROVE  Serves(wk[w])'
<1>1. Begun(wk[w])' /\ wk[w].pc = "idle" /\ UNCHANGED <<coupons, promos, rows>>
  BY RequestBegins DEF Solo, Base
<1>2. RowsServe(wk[w])'
  BY <1>1, RowsStillServe DEF Serves, Interrupted, Redeemable, Valid
<1> QED
  BY <1>1, <1>2 DEF Serves, Begun, FirstCall, EditGoesThrough, Makes, Keeps, Undoing

\* The steps that write the row's status.
LEMMA StatusServes ==
    ASSUME NEW w \in Worker, Solo(w), failures = 0, failures' = 0, Serves(wk[w]),
           SaveMirror(w) \/ MarkDeleted(w)
    PROVE  Serves(wk[w])'
<1> DEFINE x == wk[w]
<1>0. /\ IInv /\ ~Fail /\ UNCHANGED <<coupons, promos>> /\ wk'[w].pc = "idle" /\ wk'[w].op = "none"
      /\ x.id \in Row /\ rows[x.id].col = x.was /\ x.pc \in {"mirror", "markDeleted"}
  BY GotoMoves, NoneFails
     DEF Solo, Base, SaveMirror, MarkDeleted, At, Idle, Reads, Course, AsRead, DroppingOld, Looking
<1>1. /\ \A r \in Row \ {x.id} : rows'[r] = rows[r]
      /\ \/ /\ x.pc = "mirror" /\ rows'[x.id].mirror = x.flag /\ rows'[x.id].col = x.was
         \/ rows'[x.id].state = "deleted"
  <2>1. CASE SaveMirror(w)
    <3>1. x.pc = "mirror" /\ rows' = [rows EXCEPT ![x.id].mirror = x.flag]
      BY <1>0, <2>1 DEF SaveMirror, At
    <3> QED
      BY <1>0, <3>1 DEF IInv, TypeOK, RowTypeOK
  <2>2. CASE MarkDeleted(w)
    <3>1. rows' = [rows EXCEPT ![x.id].state = "deleted", ![x.id].mirror = "off"]
      BY <1>0, <2>2 DEF MarkDeleted
    <3> QED
      BY <1>0, <3>1 DEF IInv, TypeOK, RowTypeOK
  <2> QED
    BY <2>1, <2>2
<1>2. x.flag \in {"on", "off"}
  BY DEF Solo, Base, IInv, TypeOK, RequestTypeOK
<1>3. RowsServe(wk[w])'
  BY <1>0, <1>1, <1>2 DEF Serves, RowsServe, Redeemable, Valid
<1> QED
  BY <1>0, <1>3 DEF Serves, EditGoesThrough

\* The steps of a toggle and a list that go to Stripe, and the reactivation.
LEMMA LookServes ==
    ASSUME NEW w \in Worker, Solo(w), failures = 0, failures' = 0, Distinct, ActiveValid,
           Serves(wk[w]), SetActive(w) \/ LoadSummary(w) \/ Reactivate(w)
    PROVE  Serves(wk[w])'
<1> DEFINE x == wk[w]
<1>0. /\ IInv /\ ~Fail /\ UNCHANGED <<coupons, rows>>
      /\ \A refused : RefusedOr(refused) => refused
      /\ x.was.promo \in Promotion /\ x.id \in Row /\ x.op # "create" /\ AsRead(x)
      /\ rows[x.id].state = "live" /\ rows[x.id].col.promo = x.was.promo
      /\ x.pc \in {"setActive", "summary", "reactivate"} /\ ~Interrupted(x)
      /\ x.flag \in {"on", "off"}
  BY NoneFails DEF Solo, Base, SetActive, LoadSummary, Reactivate, At, Reads, Course, AsRead, Fits,
                   Interrupted, Looking, DroppingOld, IInv, TypeOK, RequestTypeOK
<1>1. \A r \in Row : rows[r].state = "live" =>
         rows[r].col.promo \in Promotion /\ (r # x.id => rows[r].col.promo # x.was.promo)
  BY <1>0, PromotionOfOneRow, RowsFit DEF Fits
<1>2. CASE Goto(w, "idle") /\ UNCHANGED promos
  <2>1. wk'[w].pc = "idle" /\ wk'[w].op = "none"
    BY <1>0, <1>2, GotoMoves DEF Idle
  <2>2. RowsServe(wk[w])'
    BY <1>0, <1>2, RowsStillServe DEF Serves, Redeemable, Valid
  <2> QED
    BY <2>1, <2>2 DEF Serves, EditGoesThrough
<1>3. CASE SetState(x.was.promo, "active") /\ MayActivate(x.was.promo) /\
           (Goto(w, "idle") \/ (Goto(w, "mirror") /\ x.pc = "setActive"))
  <2>0. PICK p \in Promotion : p = x.was.promo
    BY <1>0
  <2>1. /\ wk'[w].pc \in {"idle", "mirror"} /\ wk'[w].op \in {"none", "toggle", "list"}
        /\ wk'[w].pc = "mirror" => wk'[w].was = x.was
    BY <1>0, <1>3, GotoMoves DEF Idle, Solo, Course, Looking
  <2>2. Redeemable(p)' /\ \A q \in Promotion : Redeemable(q) => Redeemable(q)'
    <3>1. Redeemable(p)'
      BY <1>0, <1>3, <2>0, ActivationIsValid
    <3>2. \A q \in Promotion \ {p} : promos'[q] = promos[q]
      BY <1>0, <1>3, <2>0, SetStateSets
    <3> QED
      BY <1>0, <3>1, <3>2 DEF Redeemable, Valid
  <2>3. RowsServe(wk[w])'
    BY <1>0, <1>1, <2>2, RowsStillServe DEF Serves
  <2> QED
    BY <2>0, <2>1, <2>2, <2>3 DEF Serves, EditGoesThrough, Redeemable, Valid
<1>4. CASE SetState(x.was.promo, "inactive") /\ Goto(w, "mirror") /\ x.flag = "off" /\ x.pc = "setActive"
  <2>1. /\ wk'[w].pc = "mirror" /\ wk'[w].op \in {"toggle", "list"} /\ wk'[w].id = x.id
        /\ wk'[w].flag = "off"
    BY <1>0, <1>4, GotoMoves DEF Solo, Course, Looking
  <2>2. Interrupted(wk'[w])
    BY <2>1 DEF Interrupted
  <2>3. RowsServe(wk[w])'
    BY <1>0, <1>1, <1>4, <2>1, <2>2, SwitchedOffServes DEF Serves
  <2> QED
    BY <2>1, <2>3 DEF Serves, EditGoesThrough
<1>5. CASE LoadSummary(w)
  <2>1. PICK flag \in {"on", "off"} :
           /\ flag = IF promos[x.was.promo].state = "active" THEN "on" ELSE "off"
           /\ wk' = [wk EXCEPT ![w].pc = "mirror", ![w].flag = flag]
    BY <1>0, <1>5 DEF LoadSummary
  <2>2. /\ wk'[w].pc = "mirror" /\ wk'[w].op = x.op /\ wk'[w].flag = flag /\ wk'[w].was = x.was
        /\ x.op \in {"toggle", "list"} /\ UNCHANGED promos
    BY <1>5, <2>1 DEF LoadSummary, At, Solo, Base, IInv, TypeOK, RequestTypeOK, Course, Looking
  <2>3. RowsServe(wk[w])'
    BY <1>0, <2>2, RowsStillServe DEF Serves, Redeemable, Valid
  <2>4. flag = "on" => Redeemable(x.was.promo)'
    BY <1>0, <2>1, <2>2 DEF ActiveValid, Redeemable, Valid
  <2> QED
    BY <2>2, <2>3, <2>4 DEF Serves, EditGoesThrough, Redeemable, Valid
<1> QED
  BY <1>0, <1>2, <1>3, <1>4, <1>5 DEF SetActive, Reactivate, At

LEMMA ServesKept ==
    ASSUME NEW w \in Worker, MaxCrash = 0, Solo(w), Clean(wk[w]), failures = 0, failures' = 0,
           Distinct, Unused(wk[w]), ActiveValid, Serves(wk[w]), Step(w)
    PROVE  Serves(wk[w])'
<1> DEFINE x == wk[w]
<1> USE DEF DroppingOld, Undoing
<1>0. /\ IInv /\ ~Fail
      /\ \A refused : RefusedOr(refused) => refused
      /\ x.pc # "idle" /\ x.op # "create" =>
            /\ x.was.promo \in Promotion /\ x.was.coupon \in Coupon /\ x.id \in Row
            /\ AsRead(x) => rows[x.id].state = "live"
      /\ x.pc \in {"retireNew"} \cup Undoing => Fits(promos, coupons, x.new)
      /\ x.pc = "dropHeadless" => x.new.coupon \in Coupon
      /\ \A r \in Row : rows[r].state = "live" => Fits(promos, coupons, rows[r].col)
      /\ RowsServe(x) /\ EditGoesThrough(x)
  BY NoneFails, RowsFit DEF Solo, Base, Reads, Fits, Serves
<1>a. \A pc : Goto(w, pc) => LET y == wk'[w]
                             IN  /\ pc = "idle" => y.pc = "idle" /\ y.op = "none"
                                 /\ pc # "idle" => /\ y.pc = pc /\ y.op = x.op /\ y.id = x.id
                                                   /\ y.was = x.was /\ y.new = x.new
  BY <1>0, GotoMoves DEF Idle
<1>1. CASE BeginStep(w)
  BY <1>1, BeginServes
<1>2. CASE DeactivateOld(w)
  <2>1. /\ x.pc = "deactivateOld" /\ UNCHANGED <<coupons, rows>> /\ SetState(x.was.promo, "inactive")
        /\ x.op = "edit" /\ Makes(x) /\ Keeps(x) /\ AsRead(x) /\ ~Interrupted(x)
        /\ Goto(w, "coupon")
    BY <1>0, <1>2 DEF DeactivateOld, At, Solo, Course, AsRead, Interrupted
  <2>2. /\ wk'[w].pc = "coupon" /\ wk'[w].op = "edit" /\ wk'[w].id = x.id
        /\ wk'[w].was = x.was /\ wk'[w].new = x.new
    BY <1>a, <2>1
  <2>3. Interrupted(wk'[w])
    BY <2>1, <2>2 DEF Interrupted, Makes, Keeps
  <2>4. RowsServe(wk[w])'
    BY <1>0, <2>1, <2>2, <2>3, PromotionOfOneRow, SwitchedOffServes
  <2>5. promos'[x.was.promo].state = "inactive"
    BY <1>0, <2>1, SetStateSets
  <2> QED
    BY <2>2, <2>4, <2>5 DEF Serves, EditGoesThrough
<1>3. CASE CreateCoupon(w)
  <2>1. PICK c \in Coupon :
           /\ coupons[c].state = "none"
           /\ coupons' = [coupons EXCEPT ![c] = [state |-> "live", disc |-> x.new.disc]]
           /\ wk' = [wk EXCEPT ![w].pc = "promotion", ![w].new.coupon = c]
           /\ UNCHANGED <<promos, rows>> /\ x.pc = "coupon"
    BY <1>0, <1>3 DEF CreateCoupon, At
  <2>2. /\ wk'[w].pc = "promotion" /\ wk'[w].op = x.op /\ wk'[w].id = x.id /\ wk'[w].was = x.was
        /\ wk'[w].new.code = x.new.code /\ wk'[w].new.disc = x.new.disc
    BY <2>1 DEF Solo, Base, IInv, TypeOK, RequestTypeOK, Column
  <2>3. \A r \in Row : rows[r].state = "live" /\ Redeemable(rows[r].col.promo) =>
                          Redeemable(rows[r].col.promo)'
    BY <1>0, <2>1 DEF Fits, Redeemable, Valid, IInv, TypeOK, StripeTypeOK
  <2>4. Interrupted(x) => Interrupted(wk'[w])
    BY <2>1, <2>2 DEF Interrupted, Makes, Keeps
  <2>5. RowsServe(wk[w])'
    BY <1>0, <2>1, <2>2, <2>3, <2>4, RowsStillServe
  <2> QED
    BY <1>0, <2>1, <2>2, <2>5 DEF Serves, EditGoesThrough, Makes, Keeps
<1>4. CASE CreatePromotion(w)
  <2>1. x.pc = "promotion" /\ UNCHANGED <<coupons, rows>> /\ Valid(x.new.coupon)
    BY <1>4 DEF CreatePromotion, At, Solo, Reads, Valid
  <2>2. CASE NewPromotion(w, x.new.coupon)
    BY <2>1, <2>2, NewPromotionServes
  <2>3. CASE RefusedOr(~Free(x.new.code)) /\ Goto(w, "dropHeadless") /\ UNCHANGED promos
    <3>1. ~(x.op = "edit" /\ Keeps(x)) /\ ~Interrupted(x)
      BY <1>0, <2>1, <2>3, EditFindsCodeFree DEF Interrupted
    <3>2. RowsServe(wk[w])'
      BY <1>0, <2>1, <2>3, <3>1, RowsStillServe DEF Redeemable, Valid
    <3> QED
      BY <1>a, <2>3, <3>1, <3>2 DEF Serves, EditGoesThrough, Keeps
  <2> QED
    BY <1>4, <2>2, <2>3 DEF CreatePromotion
<1>5. CASE RenamePromotion(w)
  <2>1. x.pc = "rename" /\ UNCHANGED <<coupons, rows>> /\ ~Interrupted(x)
    BY <1>5 DEF RenamePromotion, At, Interrupted
  <2>2. CASE NewPromotion(w, x.was.coupon) /\ Valid(x.was.coupon)
    BY <2>1, <2>2, NewPromotionServes
  <2>3. CASE Goto(w, "idle") /\ UNCHANGED promos
    <3>1. RowsServe(wk[w])'
      BY <1>0, <2>1, <2>3, RowsStillServe DEF Redeemable, Valid
    <3> QED
      BY <1>a, <2>3, <3>1 DEF Serves, EditGoesThrough
  <2> QED
    BY <1>5, <2>2, <2>3 DEF RenamePromotion
<1>6. CASE SetActive(w) \/ LoadSummary(w) \/ Reactivate(w)
  BY <1>6, LookServes
<1>7. CASE DropHeadlessCoupon(w) \/ DropNewCoupon(w)
  <2>1. /\ x.pc \in {"dropHeadless", "dropNewCoupon"} /\ Makes(x) /\ x.op \in {"create", "edit"}
        /\ ~(x.op = "edit" /\ Keeps(x)) /\ ~Interrupted(x)
    BY <1>0, <1>7 DEF DropHeadlessCoupon, DropNewCoupon, DropCoupon, At, Solo, Course, Pairing,
                      EditGoesThrough, Interrupted
  <2>2. Reopen(w) /\ \E pc : DropCoupon(w, pc, x.new.coupon)
    BY <1>7 DEF DropHeadlessCoupon, DropNewCoupon
  <2>3. wk'[w].pc = "idle" /\ wk'[w].op = "none"
    BY <1>a, <2>1, <2>2 DEF Reopen, SameCode, Keeps
  <2>4. x.new.coupon \in Coupon /\ \A r \in Row : rows[r].state = "live" => rows[r].col.coupon # x.new.coupon
    BY <1>0, <2>1 DEF Unused, Fits
  <2>5. RowsServe(wk[w])'
    BY <1>0, <2>1, <2>2, <2>4, DroppedServes
  <2> QED
    BY <2>3, <2>5 DEF Serves, EditGoesThrough
<1>8. CASE DropNewPromotion(w) \/ RetireNew(w)
  <2>0. /\ x.pc \in {"dropNewPromotion", "retireNew"} /\ UNCHANGED <<coupons, rows>>
        /\ SetState(x.new.promo, "inactive")
        /\ Goto(w, "idle") \/ (Goto(w, "dropNewCoupon") /\ x.pc = "dropNewPromotion")
    BY <1>0, <1>8 DEF DropNewPromotion, RetireNew, DropPromotion, At
  <2>1. /\ x.pc = "dropNewPromotion" => Makes(x) /\ ~(x.op = "edit" /\ Keeps(x))
        /\ ~Interrupted(x)
    BY <1>0, <2>0 DEF Solo, Course, Pairing, EditGoesThrough, Interrupted
  <2>2. \A r \in Row : rows[r].state = "live" => rows[r].col.promo # x.new.promo
    BY <1>0, <2>0, <2>1 DEF Unused, Fits
  <2>3. x.new.promo \in Promotion
    BY <1>0, <2>0 DEF Fits
  <2>4. RowsServe(wk[w])'
    BY <1>0, <2>0, <2>1, <2>2, <2>3, SwitchedOffServes
  <2> QED
    BY <1>a, <2>0, <2>1, <2>4 DEF Serves, EditGoesThrough, Keeps
<1>9. CASE DropOldPromotion(w)
  <2>1. /\ x.pc = "dropOldPromotion" /\ ~Interrupted(x) /\ Goto(w, "dropOldCoupon")
        /\ UNCHANGED <<coupons, rows>> /\ SetState(x.was.promo, "inactive")
        /\ x.op = "delete" \/ x.op = "edit"
    BY <1>0, <1>9 DEF DropOldPromotion, DropPromotion, At, Solo, Course, Interrupted
  <2>2. /\ wk'[w].pc = "dropOldCoupon" /\ wk'[w].op = x.op /\ wk'[w].id = x.id
        /\ x.op = "delete" => Interrupted(wk'[w])
    BY <1>a, <2>1 DEF Interrupted
  <2>3. x.op = "edit" => \A r \in Row : rows[r].state = "live" => rows[r].col.promo # x.was.promo
    BY <1>0, <2>1 DEF Unused, Fits, Solo, Reads
  <2>4. x.op = "delete" => \A r \in Row \ {x.id} : rows[r].state = "live" => rows[r].col.promo # x.was.promo
    BY <2>1, PromotionOfOneRow DEF AsRead
  <2>5. RowsServe(wk[w])'
    BY <1>0, <2>1, <2>2, <2>3, <2>4, SwitchedOffServes
  <2> QED
    BY <2>2, <2>5 DEF Serves, EditGoesThrough
<1>10. CASE DropOldCoupon(w)
  <2>1. /\ x.pc = "dropOldCoupon" /\ DropCoupon(w, "dropOldCoupon", x.was.coupon)
        /\ \/ x.op = "edit" /\ wk'[w].pc = "idle" /\ wk'[w].op = "none"
           \/ x.op = "delete" /\ wk'[w].pc = "markDeleted" /\ wk'[w].op = x.op /\ wk'[w].id = x.id
    BY <1>a, <1>10 DEF DropOldCoupon, DropCoupon, At, Solo, Course
  <2>2. /\ Interrupted(x) => x.op = "delete"
        /\ x.op = "delete" => Interrupted(wk'[w])
    BY <2>1 DEF Interrupted
  <2>3. x.op = "edit" => \A r \in Row : rows[r].state = "live" => rows[r].col.coupon # x.was.coupon
    BY <2>1 DEF Unused
  <2>4. x.op = "delete" => \A r \in Row \ {x.id} : rows[r].state = "live" => rows[r].col.coupon # x.was.coupon
    BY <2>1, PromotionOfOneRow DEF AsRead
  <2>5. RowsServe(wk[w])'
    BY <1>0, <2>1, <2>2, <2>3, <2>4, DroppedServes
  <2> QED
    BY <2>1, <2>5 DEF Serves, EditGoesThrough
<1>11. CASE RetireOld(w)
  <2>1. /\ x.pc = "retireOld" /\ ~Interrupted(x) /\ Goto(w, "idle") /\ x.op # "create"
        /\ UNCHANGED <<coupons, rows>> /\ SetState(x.was.promo, "inactive")
    BY <1>0, <1>11 DEF RetireOld, At, Solo, Course, Interrupted
  <2>2. RowsServe(wk[w])'
    BY <1>0, <2>1, SwitchedOffServes DEF Unused
  <2> QED
    BY <1>a, <2>1, <2>2 DEF Serves, EditGoesThrough
<1>12. CASE RowStep(w)
  BY <1>12, SaveRowServes, StatusServes DEF RowStep
<1>13. ~Crash(w)
  BY <1>0 DEF Crash, IInv, TypeOK
<1> QED
  BY <1>1, <1>2, <1>3, <1>4, <1>5, <1>6, <1>7, <1>8, <1>9, <1>10, <1>11, <1>12, <1>13
     DEF Step, StripeStep, CleanUpStep

LEMMA FailuresGrow ==
    ASSUME IInv, NEW w \in Worker, Step(w)
    PROVE  failures' = failures \/ failures' = failures + 1
<1>0. /\ Succeed \/ Fail => failures' = failures \/ failures' = failures + 1
      /\ \A refused : RefusedOr(refused) => Succeed \/ Fail
  BY Counted DEF RefusedOr
<1>1. CASE BeginStep(w)
  BY <1>1, RequestBegins
<1>2. CASE StripeStep(w)
  BY <1>0, <1>2 DEF StripeStep, DeactivateOld, CreateCoupon, CreatePromotion, RenamePromotion,
                    NewPromotion, SetActive, LoadSummary
<1>3. CASE CleanUpStep(w)
  BY <1>0, <1>3 DEF CleanUpStep, DropHeadlessCoupon, DropNewPromotion, DropNewCoupon, DropOldPromotion,
                    DropOldCoupon, RetireOld, RetireNew, Reactivate, DropPromotion, DropCoupon
<1>4. CASE RowStep(w)
  BY <1>0, <1>4 DEF RowStep, SaveRow, SaveMirror, MarkDeleted
<1>5. CASE Crash(w)
  BY <1>5 DEF Crash
<1> QED
  BY <1>1, <1>2, <1>3, <1>4, <1>5 DEF Step

\* What holds of a request that runs alone, while no call has failed.
Agreed(x) == failures = 0 => Distinct /\ Unused(x) /\ ActiveValid /\ Serves(x)

\* One request at a time, of which none crashes: once it is done and while no
\* call has failed, a code that can be redeemed is that of a row the Super
\* Admin sees, and a row that shows as active can be redeemed.
THEOREM PromoListsAgree ==
    ASSUME NEW w \in Worker, Worker = {w}, MaxCrash = 0
    PROVE  Spec => []ListsAgree
<1>1. Init => Agreed(wk[w])
  BY DEF Init, Idle, Agreed, Distinct, NoRow, Unused, ActiveValid, Serves, RowsServe, EditGoesThrough,
         DroppingOld, Undoing
<1>2. Solo(w) /\ Clean(wk[w]) /\ Agreed(wk[w]) /\ [Next]_vars => Agreed(wk[w])'
  <2> SUFFICES ASSUME Solo(w), Clean(wk[w]), Agreed(wk[w]), [Next]_vars, failures' = 0
               PROVE  (Distinct /\ Unused(wk[w]) /\ ActiveValid /\ Serves(wk[w]))'
    BY DEF Agreed
  <2>1. CASE Step(w)
    <3>1. failures = 0
      BY <2>1, FailuresGrow, Counted DEF Solo, Base
    <3> QED
      BY <2>1, <3>1, UnusedKept, ActiveValidKept, ServesKept DEF Agreed
  <2>2. CASE UNCHANGED vars
    BY <2>2 DEF vars, Agreed, Distinct, Unused, ActiveValid, Serves, RowsServe, EditGoesThrough, Redeemable, Valid
  <2> QED
    BY <2>1, <2>2 DEF Next, Step
<1>3. Solo(w) /\ Clean(wk[w]) /\ Agreed(wk[w]) => ListsAgree
  <2> SUFFICES ASSUME Clean(wk[w]), Agreed(wk[w]), Quiet, failures = 0
               PROVE  /\ NoOrphanCode
                      /\ \A r \in Row : rows[r].state = "live" /\ rows[r].mirror = "on"
                                            => Redeemable(rows[r].col.promo)
    BY DEF ListsAgree
  <2>1. wk[w].pc = "idle"
    BY DEF Quiet, At
  <2>2. NoOrphanCode
    BY <2>1 DEF NoOrphanCode, Clean, Redeemable, Listed, InHand, Shown
  <2> QED
    BY <2>1, <2>2 DEF Agreed, Serves, RowsServe, Interrupted
<1> QED
  BY <1>1, <1>2, <1>3, SoloAlways, PTL DEF Spec

===============================================================================
