------------------------------ MODULE MCServer ------------------------------
(* Server.tla for TLC: small sets of workers, connections and descriptors. *)
EXTENDS ServerInv, TLC

\* Connections are interchangeable, and so are workers.
Symmetry == Permutations(Conns) \cup Permutations(Workers)
=============================================================================
