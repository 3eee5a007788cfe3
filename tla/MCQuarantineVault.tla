------------------------- MODULE MCQuarantineVault -------------------------
(* The vault on a small instance.  Files and helper slots are symmetric: no  *)
(* definition tells two of them apart.                                       *)
EXTENDS QuarantineVault, TLC

Symmetry == Permutations(Files) \cup Permutations(Slots)
=============================================================================
