------------------------- MODULE MCTransferManager -------------------------
(* TransferManager.tla on small instances.                                      *)
EXTENDS TransferManager, TLC

\* Pumps differ only in where they are suspended.
PumpSymmetry == Permutations(Pump)

=============================================================================
