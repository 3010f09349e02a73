------------------------------ MODULE MCPromoSync ------------------------------
(* Small instances of PromoSync for TLC.                                   *)
EXTENDS PromoSync, TLC

\* Ids, codes, discounts and requests are each alike.
Symmetry == UNION {Permutations(S) : S \in {Row, Coupon, Promotion, Code,
                                            Discount, Worker}}
===============================================================================
