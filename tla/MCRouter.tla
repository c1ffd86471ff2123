------------------------------ MODULE MCRouter ------------------------------
(* Module Router as TLC checks it: the cfg file chooses names and bounds.  *)
EXTENDS Router
=============================================================================
