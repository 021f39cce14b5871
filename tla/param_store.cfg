CONSTANTS
  t1 = t1
  t2 = t2
  k1 = k1
  k2 = k2
  Txs <- MC_Txs
  Kinds <- MC_Kinds
  Blobs = {"v1", "v2", ""}
  MaxFailures = 0
  MaxCrashes = 1
SPECIFICATION Spec
INVARIANT ReadsAgreeWithStore
PROPERTY EventuallyDurable
