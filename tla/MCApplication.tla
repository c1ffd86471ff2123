--------------------------- MODULE MCApplication ---------------------------
(* Module Application as TLC checks it: the cfg files choose the bounds.   *)
EXTENDS ApplicationInv
=============================================================================
