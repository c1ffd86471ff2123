------------------------------ MODULE MCConfig ------------------------------
(* Module Config as TLC checks it: the cfg file chooses the bounds.        *)
EXTENDS Config
=============================================================================
