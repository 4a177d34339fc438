------------------------------ MODULE MCRaftKv ------------------------------
(* Symmetry for checking RaftKv with TLC. *)
EXTENDS RaftKv, TLC

NodeSymmetry == Permutations(Contender) \cup Permutations(Node \ Contender)
=============================================================================
