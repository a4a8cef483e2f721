------------------------- MODULE MCRecoveryService --------------------------
(* TLC instances of RecoveryService: symmetry of ids and kits.             *)
EXTENDS RecoveryService, TLC

IdSymmetry ==
  Permutations(Requests) \cup Permutations(Kits) \cup Permutations(Contacts)
=============================================================================
