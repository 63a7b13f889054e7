----------------------- MODULE MCConnectionManager -----------------------
(* Tasks and a user for model checking ConnectionManager.                   *)
EXTENDS ConnectionManager

CONSTANTS t1, t2, alice

Everything == {"get", "signin", "invalidate", "close"}
==========================================================================
