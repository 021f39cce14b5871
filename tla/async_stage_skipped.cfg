CONSTANTS
  t1 = t1
  t2 = t2
  c1 = c1
  c2 = c2
  NoTx = NoTx
  Txs <- MC_Txs
  Coins <- MC_Coins
  Issue = TRUE
  MaxTip = 3
  Lifetime = 2
  Maturity = 1
  MaxCrashes = 0
  AsyncStages = TRUE
  DeferredFlush = FALSE
  UserCancels = FALSE
  AssetAnswers = {"Match", "Other", "Unconfirmed"}
SPECIFICATION Spec
CHECK_DEADLOCK FALSE
INVARIANT NoInvalidTransaction
