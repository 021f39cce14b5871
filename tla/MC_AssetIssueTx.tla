--------------------------- MODULE MC_AssetIssueTx ---------------------------
(* Model values and bounds for checking AssetIssueTx with TLC.             *)
EXTENDS AssetIssueTx, TLC

CONSTANTS t1, t2, c1, c2

MC_Txs == {t1, t2}
MC_Coins == {c1, c2}
MC_OneCoin == {c1}

\* transactions and coins are interchangeable (safety runs only)
MC_Symmetry == Permutations(MC_Txs) \cup Permutations(MC_Coins)
=============================================================================
