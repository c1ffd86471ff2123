---------------------------- MODULE MCHttpParse -----------------------------
(* Module HttpParse as TLC checks it: the cfg files choose the bound.      *)
EXTENDS HttpParse
=============================================================================
