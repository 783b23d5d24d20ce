---------------------------- MODULE MCLedgerSpec ----------------------------
(* Small instances of LedgerSpec: every day falls in one period. *)
EXTENDS LedgerSpec

MCPeriodOf == [d \in Days |-> 1]
=============================================================================
