\* Two issue transactions competing for one coin, one crash, immediate durability,
\* asynchronous key keeper; liveness and the ledger properties that must
\* survive a crash.
CONSTANTS
  t1 = t1
  t2 = t2
  c1 = c1
  c2 = c2
  NoTx = NoTx
  Txs <- MC_Txs
  Coins <- MC_OneCoin
  Issue = TRUE
  MaxTip = 3
  Lifetime = 2
  Maturity = 1
  MaxCrashes = 1
  AsyncStages = TRUE
  DeferredFlush = FALSE
  UserCancels = TRUE
  AssetAnswers = {"Match", "Other", "Unconfirmed"}
SPECIFICATION Spec
CHECK_DEADLOCK FALSE
INVARIANT NoDoubleSelect
INVARIANT CompletedMatchesChain
PROPERTY AllTerminate
