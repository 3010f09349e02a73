------------------------------- MODULE PromoSync -------------------------------
(***************************************************************************)
(* Super Admin promo codes: a Postgres row and a Stripe coupon with its    *)
(* promotion code, kept in step by PromoService without a transaction that *)
(* spans both.                                                             *)
(*                                                                         *)
(* A request (a Worker here) reads the row, calls Stripe once or several   *)
(* times, writes the row, and on an error undoes by hand what it did.      *)
(* Every call is an action and every call may fail: a failed call has had  *)
(* no effect.  A request that crashes undoes nothing.                      *)
(*                                                                         *)
(* The schedule (expiry, redemption limit) cannot be edited and is left    *)
(* out, and so are redemptions, the plan type (which decides nothing here: *)
(* couponTermsDiffer does not compare it) and the assignment to a          *)
(* corporation.                                                            *)
(***************************************************************************)
EXTENDS Naturals, FiniteSets

CONSTANTS Row,          \* ids of promo_codes rows
          Coupon,       \* ids of Stripe coupons
          Promotion,    \* ids of Stripe promotion codes
          Code,         \* what a customer types in
          Discount,     \* discount type, value and duration
          Worker,       \* requests that may run at the same time
          None,
          Operation,    \* the operations that are offered
          MaxFailure,   \* bound: calls that fail
          MaxCrash      \* bound: requests that crash

ASSUME PromoAssumption ==
    /\ None \notin Coupon \cup Promotion \cup Code \cup Discount \cup Row
    /\ Operation \subseteq {"create", "edit", "rename", "delete", "toggle", "list"}
    /\ MaxFailure \in Nat
    /\ MaxCrash \in Nat

VARIABLES
    coupons,    \* Stripe: the coupons
    promos,     \* Stripe: the promotion codes
    rows,       \* Postgres: promo_codes
    wk,         \* the requests
    failures,
    crashes

vars == <<coupons, promos, rows, wk, failures, crashes>>

\* The columns an update writes.
Column == [code : Code \cup {None}, disc : Discount \cup {None},
           coupon : Coupon \cup {None}, promo : Promotion \cup {None}]

Blank == [code |-> None, disc |-> None, coupon |-> None, promo |-> None]

NoRow == [state |-> "none", col |-> Blank, mirror |-> "on"]

\* A request: the await it is about to make, the operation, its row, the
\* columns as they were read and as they are to be written, and the state
\* that a toggle or a list is to record.
Idle == [pc |-> "idle", op |-> "none", id |-> None, was |-> Blank,
         new |-> Blank, flag |-> "on"]

Init ==
    /\ coupons = [c \in Coupon |-> [state |-> "none", disc |-> None]]
    /\ promos = [p \in Promotion |-> [state |-> "none", code |-> None, coupon |-> None]]
    /\ rows = [r \in Row |-> NoRow]
    /\ wk = [w \in Worker |-> Idle]
    /\ failures = 0
    /\ crashes = 0

-------------------------------------------------------------------------------
(* Stripe.                                                                 *)

\* A code can be active on one promotion only.
Free(code) == \A p \in Promotion : ~(promos[p].state = "active" /\ promos[p].code = code)

Valid(c) == coupons[c].state = "live"

\* A customer can use the promotion in a checkout.
Redeemable(p) == /\ promos[p].state = "active"
                 /\ Valid(promos[p].coupon)

SetState(p, state) == promos' = [promos EXCEPT ![p].state = state]

\* Stripe activates a promotion when its coupon is valid and its code free.
MayActivate(p) == \/ promos[p].state = "active"
                  \/ Valid(promos[p].coupon) /\ Free(promos[p].code)

-------------------------------------------------------------------------------
(* The requests.                                                           *)

At(w, pc) == wk[w].pc = pc

Goto(w, pc) == wk' = [wk EXCEPT ![w] = IF pc = "idle" THEN Idle ELSE [@ EXCEPT !.pc = pc]]

Succeed == UNCHANGED <<failures, crashes>>

Fail == /\ failures < MaxFailure
        /\ failures' = failures + 1
        /\ UNCHANGED crashes

\* A call Stripe or Postgres refuses, or one that does not get through.
RefusedOr(refused) == (refused /\ Succeed) \/ Fail

Start(w, op, pc, r, was, new, flag) ==
    /\ op \in Operation
    /\ At(w, "idle")
    /\ wk' = [wk EXCEPT ![w] = [pc |-> pc, op |-> op, id |-> r, was |-> was,
                                new |-> new, flag |-> flag]]
    /\ UNCHANGED <<coupons, promos, rows>>
    /\ Succeed

\* Another row, soft-deleted ones included, has the code.
Taken(r, code) == \E q \in Row \ {r} : rows[q].state # "none" /\ rows[q].col.code = code

\* createPromoCode, validation included.  The id is a fresh uuid.
BeginCreate(w, r, code, disc) ==
    /\ rows[r].state = "none"
    /\ \A v \in Worker : wk[v].id # r
    /\ ~Taken(r, code)
    /\ Start(w, "create", "coupon", r, Blank,
             [Blank EXCEPT !.code = code, !.disc = disc], "on")

\* couponTermsDiffer.
Replaces(w) == wk[w].was.disc # wk[w].new.disc

\* The old promotion must release the code before the new one takes it.
SameCode(w) == wk[w].was.code = wk[w].new.code

FirstCall(was, new) ==
    IF was.disc # new.disc
    THEN IF was.code = new.code THEN "deactivateOld" ELSE "coupon"
    ELSE IF was.code # new.code THEN "rename" ELSE "save"

\* updatePromoCode: reads the row and merges the payload over it.  An update
\* with a new code and the same discount is called a rename here.
BeginUpdate(w, r, code, disc) ==
    LET was == rows[r].col
        new == [was EXCEPT !.code = code, !.disc = disc]
    IN  /\ rows[r].state = "live"
        /\ Start(w, IF FirstCall(was, new) = "rename" THEN "rename" ELSE "edit",
                 FirstCall(was, new), r, was, new, "on")

BeginDelete(w, r) ==
    /\ rows[r].state = "live"
    /\ Start(w, "delete", "dropOldPromotion", r, rows[r].col, Blank, "on")

BeginToggle(w, r, flag) ==
    /\ rows[r].state = "live"
    /\ Start(w, "toggle", "setActive", r, rows[r].col, Blank, flag)

\* listPromoCodes, for one of the rows on the page.
BeginList(w, r) ==
    /\ rows[r].state = "live"
    /\ Start(w, "list", "summary", r, rows[r].col, Blank, "on")

-------------------------------------------------------------------------------
(* New Stripe objects.                                                     *)

DeactivateOld(w) ==
    /\ At(w, "deactivateOld")
    /\ \/ /\ SetState(wk[w].was.promo, "inactive")
          /\ Goto(w, "coupon")
          /\ Succeed
       \/ Fail /\ Goto(w, "idle") /\ UNCHANGED promos
    /\ UNCHANGED <<coupons, rows>>

\* The end of the catch block: the old promotion was switched off early.
Reopen(w) == Goto(w, IF wk[w].op = "edit" /\ SameCode(w) THEN "reactivate" ELSE "idle")

CreateCoupon(w) ==
    /\ At(w, "coupon")
    /\ \/ \E c \in Coupon :
             /\ coupons[c].state = "none"
             /\ coupons' = [coupons EXCEPT ![c] =
                   [state |-> "live", disc |-> wk[w].new.disc]]
             /\ wk' = [wk EXCEPT ![w].pc = "promotion", ![w].new.coupon = c]
             /\ Succeed
       \/ Fail /\ Reopen(w) /\ UNCHANGED coupons
    /\ UNCHANGED <<promos, rows>>

\* The promotion is created switched off.
NewPromotionInactive(w, coupon) ==
    \E p \in Promotion :
       /\ promos[p].state = "none"
       /\ promos' = [promos EXCEPT ![p] =
             [state |-> "inactive", code |-> wk[w].new.code, coupon |-> coupon]]
       /\ wk' = [wk EXCEPT ![w].pc = "save", ![w].new.promo = p]
       /\ Succeed

\* stripe.promotionCodes.create for the coupon; then the row is saved.
NewPromotion(w, coupon) ==
    \E p \in Promotion :
       /\ promos[p].state = "none"
       /\ promos' = [promos EXCEPT ![p] =
             [state |-> "active", code |-> wk[w].new.code, coupon |-> coupon]]
       /\ wk' = [wk EXCEPT ![w].pc = "save", ![w].new.promo = p]
       /\ Succeed

\* A promotion that Stripe refuses is not noticed.
CreatePromotionSwallows(w) ==
    LET coupon == wk[w].new.coupon IN
    /\ At(w, "promotion")
    /\ \/ Free(wk[w].new.code) /\ NewPromotion(w, coupon)
       \/ RefusedOr(~Free(wk[w].new.code)) /\ Goto(w, "save") /\ UNCHANGED promos
    /\ UNCHANGED <<coupons, rows>>

CreatePromotion(w) ==
    LET coupon == wk[w].new.coupon IN
    /\ At(w, "promotion")
    /\ \/ Free(wk[w].new.code) /\ NewPromotion(w, coupon)
       \/ RefusedOr(~Free(wk[w].new.code)) /\ Goto(w, "dropHeadless") /\ UNCHANGED promos
    /\ UNCHANGED <<coupons, rows>>

\* createPromotionCodeForCoupon: the code changes, the discount does not.
RenamePromotion(w) ==
    LET ok == Free(wk[w].new.code) /\ Valid(wk[w].was.coupon) IN
    /\ At(w, "rename")
    /\ \/ ok /\ NewPromotion(w, wk[w].was.coupon)
       \/ RefusedOr(~ok) /\ Goto(w, "idle") /\ UNCHANGED promos
    /\ UNCHANGED <<coupons, rows>>

-------------------------------------------------------------------------------
(* The row.                                                                *)

Written(w) ==
    IF wk[w].op = "create"
    THEN [state |-> "live", col |-> wk[w].new, mirror |-> "on"]
    ELSE [rows[wk[w].id] EXCEPT !.col = wk[w].new]

\* The old pair is left in Stripe.
AfterSaveKeepsOld(w) == IF wk[w].op = "create" \/ Replaces(w) \/ SameCode(w)
                        THEN "idle" ELSE "retireOld"

AfterSave(w) == IF wk[w].op = "create" THEN "idle"
                ELSE IF Replaces(w) THEN "dropOldPromotion"
                ELSE IF SameCode(w) THEN "idle" ELSE "retireOld"

\* Stripe is left as it is when the row cannot be saved.
UndoNothing(w) == "idle"

Undo(w) == IF wk[w].op = "create" \/ Replaces(w) THEN "dropNewPromotion"
           ELSE IF SameCode(w) THEN "idle" ELSE "retireNew"

\* The row keeps the ids of the Stripe objects it had.
SaveRowKeepsIds(w) ==
    /\ At(w, "save")
    /\ ~Taken(wk[w].id, wk[w].new.code)
    /\ rows' = [rows EXCEPT ![wk[w].id] =
          IF wk[w].op = "create" THEN Written(w)
          ELSE [@ EXCEPT !.col = [wk[w].new EXCEPT !.coupon = wk[w].was.coupon,
                                                   !.promo = wk[w].was.promo]]]
    /\ Goto(w, AfterSave(w))
    /\ Succeed
    /\ UNCHANGED <<coupons, promos>>

\* The unique index on the code refuses a row, whoever checked before.
SaveRow(w) ==
    /\ At(w, "save")
    /\ \/ /\ ~Taken(wk[w].id, wk[w].new.code)
          /\ rows' = [rows EXCEPT ![wk[w].id] = Written(w)]
          /\ Goto(w, AfterSave(w))
          /\ Succeed
       \/ RefusedOr(Taken(wk[w].id, wk[w].new.code)) /\ Goto(w, Undo(w)) /\ UNCHANGED rows
    /\ UNCHANGED <<coupons, promos>>

\* setPromoStripePromotionActive and the list write the mirror by id; so does
\* the soft delete its mark.
SaveMirror(w) ==
    /\ At(w, "mirror")
    /\ \/ rows' = [rows EXCEPT ![wk[w].id].mirror = wk[w].flag] /\ Succeed
       \/ Fail /\ UNCHANGED rows
    /\ Goto(w, "idle")
    /\ UNCHANGED <<coupons, promos>>

MarkDeleted(w) ==
    /\ At(w, "markDeleted")
    /\ \/ rows' = [rows EXCEPT ![wk[w].id].state = "deleted",
                               ![wk[w].id].mirror = "off"] /\ Succeed
       \/ Fail /\ UNCHANGED rows
    /\ Goto(w, "idle")
    /\ UNCHANGED <<coupons, promos>>

-------------------------------------------------------------------------------
(* Cleaning up.  deleteCouponAndPromotionCode makes two calls and goes on  *)
(* whatever becomes of each.                                               *)

DropPromotion(w, pc, p, next) ==
    /\ At(w, pc)
    /\ \/ SetState(p, "inactive") /\ Succeed
       \/ Fail /\ UNCHANGED promos
    /\ Goto(w, next)
    /\ UNCHANGED <<coupons, rows>>

DropCoupon(w, pc, c) ==
    /\ At(w, pc)
    /\ \/ coupons' = [coupons EXCEPT ![c].state = "deleted"] /\ Succeed
       \/ Fail /\ UNCHANGED coupons
    /\ UNCHANGED <<promos, rows>>

DropHeadlessCoupon(w) == DropCoupon(w, "dropHeadless", wk[w].new.coupon) /\ Reopen(w)

DropNewPromotion(w) == DropPromotion(w, "dropNewPromotion", wk[w].new.promo, "dropNewCoupon")
DropNewCoupon(w)    == DropCoupon(w, "dropNewCoupon", wk[w].new.coupon) /\ Reopen(w)
DropOldPromotion(w) == DropPromotion(w, "dropOldPromotion", wk[w].was.promo, "dropOldCoupon")

DropOldCoupon(w) ==
    /\ DropCoupon(w, "dropOldCoupon", wk[w].was.coupon)
    /\ Goto(w, IF wk[w].op = "delete" THEN "markDeleted" ELSE "idle")

\* After a rename the old code is switched off.  Inside the same try block:
\* when that fails, the catch block switches the new one off.
RetireOld(w) ==
    /\ At(w, "retireOld")
    /\ \/ SetState(wk[w].was.promo, "inactive") /\ Goto(w, "idle") /\ Succeed
       \/ Fail /\ Goto(w, "retireNew") /\ UNCHANGED promos
    /\ UNCHANGED <<coupons, rows>>

RetireNew(w) == DropPromotion(w, "retireNew", wk[w].new.promo, "idle")

Reactivate(w) ==
    LET p == wk[w].was.promo IN
    /\ At(w, "reactivate")
    /\ \/ MayActivate(p) /\ SetState(p, "active") /\ Succeed
       \/ RefusedOr(~MayActivate(p)) /\ UNCHANGED promos
    /\ Goto(w, "idle")
    /\ UNCHANGED <<coupons, rows>>

\* The toggle's call to Stripe, and the list's: a summary that fails to load
\* counts as an active promotion.
SetActive(w) ==
    LET p  == wk[w].was.promo
        ok == wk[w].flag = "on" => MayActivate(p)
    IN  /\ At(w, "setActive")
        /\ \/ /\ ok
              /\ SetState(p, IF wk[w].flag = "on" THEN "active" ELSE "inactive")
              /\ Goto(w, "mirror")
              /\ Succeed
           \/ RefusedOr(~ok) /\ Goto(w, "idle") /\ UNCHANGED promos
        /\ UNCHANGED <<coupons, rows>>

LoadSummary(w) ==
    /\ At(w, "summary")
    /\ \E flag \in {"on", "off"} :
          /\ \/ /\ flag = IF promos[wk[w].was.promo].state = "active" THEN "on" ELSE "off"
                /\ Succeed
             \/ Fail /\ flag = "on"
          /\ wk' = [wk EXCEPT ![w].pc = "mirror", ![w].flag = flag]
    /\ UNCHANGED <<coupons, promos, rows>>

\* The process dies: nothing is undone.
Crash(w) ==
    /\ ~At(w, "idle")
    /\ crashes < MaxCrash
    /\ crashes' = crashes + 1
    /\ Goto(w, "idle")
    /\ UNCHANGED <<coupons, promos, rows, failures>>

-------------------------------------------------------------------------------
BeginStep(w) ==
    \E r \in Row :
       \/ \E code \in Code, disc \in Discount :
             BeginCreate(w, r, code, disc) \/ BeginUpdate(w, r, code, disc)
       \/ BeginDelete(w, r)
       \/ \E flag \in {"on", "off"} : BeginToggle(w, r, flag)
       \/ BeginList(w, r)

StripeStep(w) ==
    \/ DeactivateOld(w) \/ CreateCoupon(w) \/ CreatePromotion(w)
    \/ RenamePromotion(w) \/ SetActive(w) \/ LoadSummary(w)

CleanUpStep(w) ==
    \/ DropHeadlessCoupon(w) \/ DropNewPromotion(w) \/ DropNewCoupon(w)
    \/ DropOldPromotion(w) \/ DropOldCoupon(w) \/ RetireOld(w)
    \/ RetireNew(w) \/ Reactivate(w)

RowStep(w) == SaveRow(w) \/ SaveMirror(w) \/ MarkDeleted(w)

Next == \E w \in Worker : \/ BeginStep(w) \/ StripeStep(w) \/ CleanUpStep(w)
                          \/ RowStep(w) \/ Crash(w)

Spec == Init /\ [][Next]_vars

-------------------------------------------------------------------------------
Pc == {"idle", "deactivateOld", "coupon", "promotion", "dropHeadless", "rename",
       "save", "mirror", "markDeleted", "dropNewPromotion", "dropNewCoupon",
       "dropOldPromotion", "dropOldCoupon", "retireOld", "retireNew",
       "reactivate", "setActive", "summary"}

StripeTypeOK ==
    /\ coupons \in [Coupon -> [state : {"none", "live", "deleted"},
                               disc : Discount \cup {None}]]
    /\ promos \in [Promotion -> [state : {"none", "active", "inactive"},
                                 code : Code \cup {None}, coupon : Coupon \cup {None}]]

RowTypeOK == rows \in [Row -> [state : {"none", "live", "deleted"}, col : Column,
                               mirror : {"on", "off"}]]

\* stripe_coupon_id and stripe_promotion_code_id are NOT NULL.
IdsPresent == \A r \in Row : rows[r].state # "none" =>
                 rows[r].col.promo # None /\ rows[r].col.coupon # None

RequestTypeOK == wk \in [Worker -> [pc : Pc, op : Operation \cup {"none"},
                                    id : Row \cup {None}, was : Column, new : Column,
                                    flag : {"on", "off"}]]

\* The types of the variables, and the columns that the schema says are never
\* null.
TypeOK == /\ StripeTypeOK /\ RowTypeOK /\ IdsPresent /\ RequestTypeOK
          /\ failures \in 0..MaxFailure
          /\ crashes \in 0..MaxCrash

\* The columns name a promotion that exists, with the row's code, on the
\* row's coupon, which has the row's discount.
Backed(col) ==
    /\ col.promo \in Promotion
    /\ col.coupon \in Coupon
    /\ promos[col.promo].state # "none"
    /\ promos[col.promo].code = col.code
    /\ promos[col.promo].coupon = col.coupon
    /\ coupons[col.coupon].state # "none"
    /\ coupons[col.coupon].disc = col.disc

\* Whatever edits, renames, deletes, failures and crashes run together, a row
\* names one promotion and one coupon that belong together and that show the
\* customer the row's own code and discount (updatePromoCode writes them all
\* at once, from what one request read and made).
RowsAreBacked == \A r \in Row : rows[r].state # "none" => Backed(rows[r].col)

\* createPromoCode goes to Stripe first: a row is never inserted without a
\* pair that can be redeemed at that moment.
CreatedLive ==
    [][\A r \in Row : rows[r].state = "none" /\ rows'[r].state # "none"
                         => Redeemable(rows'[r].col.promo)]_vars

Quiet == \A w \in Worker : At(w, "idle")

\* A code that customers can redeem belongs to a row the Super Admin sees.
Listed(p) == \E r \in Row : rows[r].state = "live" /\ rows[r].col.promo = p

\* Once the requests are done, no code can be redeemed that is in no list: the
\* clean-up in createPromoCode, updatePromoCode and softDeletePromoCode undoes
\* what was done in Stripe.
NoOrphanCode == Quiet => \A p \in Promotion : Redeemable(p) => Listed(p)

\* Once the requests are done, one at a time and none failing, what the Super
\* Admin sees is what customers can redeem: no orphan code, and a row that
\* shows as active can be redeemed.
ListsAgree ==
    Quiet /\ failures = 0 =>
       /\ NoOrphanCode
       /\ \A r \in Row : rows[r].state = "live" /\ rows[r].mirror = "on"
                             => Redeemable(rows[r].col.promo)

\* Even when one call fails, a discount that customers can still get is that
\* of a row the Super Admin sees, who can delete it there.
DiscountsAreOwned ==
    Quiet => \A p \in Promotion : Redeemable(p) =>
                \E r \in Row : /\ rows[r].state = "live"
                              /\ rows[r].col.coupon = promos[p].coupon
===============================================================================
