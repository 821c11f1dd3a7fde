---------------------------- MODULE MCStatusList ----------------------------
(* Model values and symmetry for the runs of StatusList. *)
EXTENDS StatusList, TLC

Symmetry == Permutations(Tasks) \cup Permutations(Creds) \cup Permutations(Defs)
=============================================================================
