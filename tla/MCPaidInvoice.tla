------------------------------ MODULE MCPaidInvoice ------------------------------
(* Small instances of PaidInvoice for TLC.                                 *)
EXTENDS PaidInvoice, TLC
===================================================================================
