------------------------- MODULE MCRefreshRotation -------------------------
EXTENDS RefreshRotation, TLC

MCSymmetry == Permutations(Requests)
=============================================================================
