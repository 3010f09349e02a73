----------------------------- MODULE MCBillingSync -----------------------------
(* Small instances of BillingSync for TLC.                                 *)
EXTENDS BillingSync, TLC

\* The sessions, and the workers, are alike.
Symmetry == Permutations(Session) \cup Permutations(Worker)
===============================================================================
