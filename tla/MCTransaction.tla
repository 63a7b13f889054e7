-------------------------- MODULE MCTransaction --------------------------
(* Two batches, one of them of two statements, for checking Transaction.   *)
EXTENDS Transaction

CONSTANTS t1, t2, a, b, c

MCBatches == {<<a>>, <<b, c>>}
OneEach == [s \in Statements |-> 1]
==========================================================================
