------------------------ MODULE MCGstPlayerPipeline ------------------------
(* The player with a set of clients TLC may permute. *)
EXTENDS GstPlayerPipeline, TLC

Symmetry == Permutations(Clients)
=============================================================================
