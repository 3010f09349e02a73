---------------------------- MODULE MCAccountAccess ----------------------------
(* Small instances of AccountAccess for TLC.                               *)
EXTENDS AccountAccess, TLC

\* Companies, people who are not admins, ids and requests are each alike.
Symmetry == UNION {Permutations(S) : S \in {Company, Person \ Admin, Sub, Worker}}
===============================================================================
