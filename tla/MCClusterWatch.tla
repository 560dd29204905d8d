--------------------------- MODULE MCClusterWatch ---------------------------
(* TLC instance of ClusterWatch.                                           *)
EXTENDS ClusterWatch, TLC

Symmetry == Permutations(Conns)
=============================================================================
