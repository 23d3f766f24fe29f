------------------------------ MODULE MCLedgers ------------------------------
EXTENDS Ledgers, TLC
CONSTANTS f1, f2, p1, p2
MCPaperOf == (f1 :> p1) @@ (f2 :> p2)
=============================================================================
