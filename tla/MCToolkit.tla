----------------------------- MODULE MCToolkit ------------------------------
(* Tasks as model values for Toolkit; nothing in it tells them apart.      *)
EXTENDS Toolkit, TLC

CONSTANTS t1, t2

Symmetry == Permutations(Tasks)
=============================================================================
