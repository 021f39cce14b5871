----------------------------- MODULE MC_WalletDB -----------------------------
EXTENDS WalletDB, TLC

CONSTANTS t1, t2, k1, k2

MC_Txs == {t1, t2}
MC_Kinds == {k1}
MC_TwoKinds == {k1, k2}
MC_Symmetry == Permutations(MC_Txs)

=============================================================================
