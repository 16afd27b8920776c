------------------------- MODULE MCWalletIngestion -------------------------
(* Instances of WalletIngestion for TLC.                                    *)
EXTENDS WalletIngestion, TLC

Symmetry == Permutations(Worker)
=============================================================================
