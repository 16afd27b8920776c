-------------------------- MODULE MCPositionTables --------------------------
(* Instances of PositionTables for TLC.                                     *)
EXTENDS PositionTables, TLC

Symmetry == Permutations(Worker) \cup Permutations(Wallet) \cup Permutations(Address)
=============================================================================
