---------------------------- MODULE MC_CoinLedger ----------------------------
EXTENDS CoinLedger, TLC

CONSTANTS c1, c2, t1, t2

MC_Coins == {c1, c2}
MC_Txs == {t1, t2}

=============================================================================
