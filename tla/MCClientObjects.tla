-------------------------- MODULE MCClientObjects --------------------------
(* Tasks, keys and names as model values for ClientObjects.                *)
EXTENDS ClientObjects

CONSTANTS t1, t2, a, b, c, noName
============================================================================
