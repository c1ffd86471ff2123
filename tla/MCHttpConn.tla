----------------------------- MODULE MCHttpConn -----------------------------
(* Module HttpConn as TLC checks it: the cfg files choose kinds and cuts.  *)
EXTENDS HttpConn
=============================================================================
