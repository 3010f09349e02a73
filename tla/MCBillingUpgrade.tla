---------------------------- MODULE MCBillingUpgrade ----------------------------
(* Small instances of BillingUpgrade for TLC.                              *)
EXTENDS BillingUpgrade, TLC

\* The one-time plan and two of each of the others; a monthly one may begin
\* with a trial.
Plans == {[type |-> "one_time", level |-> 0],
          [type |-> "annual", level |-> 1], [type |-> "annual", level |-> 2],
          [type |-> "monthly", level |-> 1], [type |-> "monthly", level |-> 2]}

\* Requests are alike.
Symmetry == Permutations(Request)
=================================================================================
