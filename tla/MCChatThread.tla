------------------------------ MODULE MCChatThread ------------------------------
(* Small instances of ChatThread for TLC.                                  *)
EXTENDS ChatThread, TLC

\* Requests are alike.
Symmetry == Permutations(Turn)
=================================================================================
