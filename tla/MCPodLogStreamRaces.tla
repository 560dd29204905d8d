------------------------ MODULE MCPodLogStreamRaces ------------------------
(* TLC instance of PodLogStreamRaces.                                      *)
EXTENDS PodLogStreamRaces, TLC

Symmetry == Permutations(Conns) \cup Permutations(Streams)
             \cup Permutations(Pods)
=============================================================================
