------------------------------- MODULE MCRaft -------------------------------
(* Model values and symmetry for checking Raft with TLC. *)
EXTENDS Raft, TLC

NodeSymmetry == Permutations(Contender) \cup Permutations(Node \ Contender)
CommandSymmetry == Permutations(Command)
=============================================================================
