------------------------------ MODULE MCDbPool ------------------------------
(* A pool shared by more threads than it may have connections, so that     *)
(* two wait at the bound while one borrows, opens or returns.              *)
EXTENDS DbPool

CONSTANTS t1, t2, t3, c1, c2, c3

MCThreads == {t1, t2, t3}
MCConns == {c1, c2, c3}
============================================================================
