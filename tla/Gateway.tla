------------------------------ MODULE Gateway -------------------------------
(***************************************************************************)
(* What the worker pool promises its clients, with no descriptors, epoll   *)
(* objects, locks, tables or threads: a connection is queued, served and   *)
(* closed, once and in that order; while it is open its own requests may   *)
(* be forwarded upstream; and only a connection that is still open and     *)
(* whose request went upstream is given a reply, its own.                  *)
(*                                                                         *)
(* Server.tla implements this specification.                               *)
(***************************************************************************)
CONSTANT Conns

VARIABLES
    life,     \* life[c] \in {"none", "queued", "open", "closed"}
    traffic   \* the writes made so far: <<what, on whose behalf, to whom>>

gvars == <<life, traffic>>

GInit ==
    /\ life = [c \in Conns |-> "none"]
    /\ traffic = {}

Arrive(c) ==
    /\ life[c] = "none"
    /\ life' = [life EXCEPT ![c] = "queued"]
    /\ UNCHANGED traffic

Serve(c) ==
    /\ life[c] = "queued"
    /\ life' = [life EXCEPT ![c] = "open"]
    /\ UNCHANGED traffic

Finish(c) ==
    /\ life[c] = "open"
    /\ life' = [life EXCEPT ![c] = "closed"]
    /\ UNCHANGED traffic

ForwardRequest(c) ==
    /\ life[c] = "open"
    /\ traffic' = traffic \cup {<<"request", c, c>>}
    /\ UNCHANGED life

ReturnReply(c) ==
    /\ life[c] = "open"
    /\ <<"request", c, c>> \in traffic
    /\ traffic' = traffic \cup {<<"reply", c, c>>}
    /\ UNCHANGED life

GNext ==
    \E c \in Conns :
        \/ Arrive(c) \/ Serve(c) \/ Finish(c)
        \/ ForwardRequest(c) \/ ReturnReply(c)

GSpec == GInit /\ [][GNext]_gvars
=============================================================================
