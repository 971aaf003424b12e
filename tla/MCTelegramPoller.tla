-------------------------- MODULE MCTelegramPoller --------------------------
EXTENDS TelegramPoller, TLC

MCCheckpoints == 1 .. (MaxUpdates + 1)
MCSymmetry == Permutations(Holders) \cup Permutations(LeaseIds)
=============================================================================
