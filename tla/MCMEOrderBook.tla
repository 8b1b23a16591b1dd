--------------------------- MODULE MCMEOrderBook ---------------------------
(* MEOrderBook with interchangeable clients. *)
EXTENDS MEOrderBook

ClientSymmetry == Permutations(Clients)
=============================================================================
