CONSTANTS
  c1 = c1
  c2 = c2
  t1 = t1
  t2 = t2
  NoTx = NoTx
  Coins <- MC_Coins
  Txs <- MC_Txs
  Sessions = {1, 2}
  MaxTip = 3
  MaxReorgs = 1
SPECIFICATION Spec
INVARIANT WalletAgreesWithChain
