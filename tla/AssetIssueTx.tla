---------------------------- MODULE AssetIssueTx ----------------------------
(***************************************************************************)
(* The asset issue/consume transaction of the Beam wallet                 *)
(* (src/wallet/transactions/assets/aissue_transaction.cpp) driven against *)
(* the wallet database (src/wallet/core/wallet_db.h) and a node.          *)
(*                                                                         *)
(* Every transaction keeps its progress only in persisted TxParameters     *)
(* (the record txp[t]); AssetIssueTransaction::UpdateImpl is re-entered on *)
(* every event and resumes from them.  The coin ledger (coins) is shared   *)
(* by all transactions.  The node answers confirm_asset, register_tx and   *)
(* confirm_kernel asynchronously, mines blocks and keeps the chain's UTXO  *)
(* set.  The wallet process may crash: whatever was not yet durable in the *)
(* database is lost, and so are the answers still on their way back, but   *)
(* a register_tx already sent still reaches the node.                      *)
(*                                                                         *)
(* Data is abstracted: a selection picks one spendable coin, a kernel is   *)
(* identified by its transaction, inputs and height window, and the        *)
(* cryptographic builder stages are a set of built artifacts.              *)
(***************************************************************************)
EXTENDS Naturals, FiniteSets

CONSTANTS
  Txs,            \* transaction ids (model values)
  Coins,          \* coins the wallet owns at start, confirmed at height 0
  Issue,          \* TRUE: AssetIssue, FALSE: AssetConsume (Creator::_issue)
  MaxTip,         \* model bound: the chain grows to this height
  Lifetime,       \* MaxHeight of a transaction = its creation height + Lifetime
  Maturity,       \* Rules::get().Maturity.Std
  MaxCrashes,     \* model bound: crashes of the wallet process
  AsyncStages,    \* the key keeper may answer a builder stage later
  DeferredFlush,  \* database writes become durable only on the flush timer
  UserCancels,    \* the user may cancel an active transaction
  AssetAnswers,   \* what the chain may say about a transaction's asset
  NoTx            \* "no transaction" in createTxId / spentTxId

ASSUME
  /\ Txs # {} /\ Coins # {}
  /\ Issue \in BOOLEAN /\ AsyncStages \in BOOLEAN /\ DeferredFlush \in BOOLEAN
  /\ UserCancels \in BOOLEAN
  /\ MaxTip \in Nat /\ Lifetime \in Nat /\ Maturity \in Nat /\ MaxCrashes \in Nat
  /\ AssetAnswers \subseteq {"Match", "Other", "Unconfirmed"} /\ AssetAnswers # {}
  /\ NoTx \notin Txs

VARIABLES
  txp,          \* txp[t]: the TxParameters of t in the wallet database
  coins,        \* coins[c]: the coin row c in the wallet database
  dTxp, dCoins, \* what of txp and coins is durable (survives a crash)
  pendingKK,    \* builder stages whose key keeper answer is outstanding
  requests,     \* gateway requests sent to the node and not yet answered
  epoch,        \* number of crashes so far: answers to an older epoch are lost
  tip,          \* height of the chain tip
  utxo,         \* coins unspent on chain
  mempool,      \* kernels accepted by the node and not yet mined
  mined,        \* kernels on chain, with their height
  assetOnChain, \* what the chain says about t's asset (fixed)
  sent          \* history: every kernel the wallet ever passed to register_tx

walletDb == <<txp, coins, dTxp, dCoins>>
nodeVars == <<tip, utxo, mempool, mined, assetOnChain>>
vars == <<txp, coins, dTxp, dCoins, pendingKK, requests, epoch,
          tip, utxo, mempool, mined, assetOnChain, sent>>

-----------------------------------------------------------------------------
(* Coin rows and transaction parameters.                                   *)

\* MaxHeight: the value of an unset confirm/spent/maturity height
NoHeight == MaxTip + Maturity + 1

\* the coins a transaction generates: the change, and the asset coin on issue
CreatedKinds == IF Issue THEN {"change", "asset"} ELSE {"change"}
CreatedIds(t) == {<<t, k>> : k \in CreatedKinds}
CoinIds == Coins \cup (Txs \X CreatedKinds)

States == {"Initial", "AssetCheck", "MakingInputs", "MakingOutputs",
           "MakingKernels", "Registration", "KernelConfirmation", "Finalizing"}
Statuses == {"None", "Pending", "InProgress", "Completed", "Failed", "Canceled"}
Terminal == {"Completed", "Failed", "Canceled"}
\* the statuses after which rollbackTx has released the transaction's coins
RolledBack == {"Failed", "Canceled"}
Reasons == {"None", "AssetConfirmFailed", "InvalidAssetId", "NoInputs",
            "TransactionExpired", "InvalidTransaction", "FailedToRegister"}

\* builder stages, in the order UpdateImpl runs them, and the state set
\* before each one is started
Stage == <<"inputs", "outputs", "kernel">>
MakingState == <<"MakingInputs", "MakingOutputs", "MakingKernels">>

NoCoin == [exists |-> FALSE, confirmHeight |-> NoHeight, spentHeight |-> NoHeight,
           maturity |-> NoHeight, createTxId |-> NoTx, spentTxId |-> NoTx]

NoParams == [status |-> "None", state |-> "Initial", reason |-> "None",
             maxHeight |-> 0, asset |-> "None", initial |-> FALSE,
             inputCoins |-> {}, built |-> {}, registered |-> "None", proof |-> 0]

\* the kernel a transaction's parameters describe
KernelOf(t, p) == [tx |-> t, inputs |-> p.inputCoins, maxH |-> p.maxHeight]

-----------------------------------------------------------------------------
(* Wallet database operations (IWalletDB).                                 *)

\* A plausible bug in Spendable: a coin an unfinished transaction is
\* spending still reads as Available (checks WalletSpendableOnChain).
SpendableIgnoringSpender(c, cs) ==
  /\ cs[c].exists
  /\ cs[c].confirmHeight <= tip
  /\ cs[c].maturity <= tip
  /\ cs[c].spentHeight = NoHeight

\* A coin reads as Available: confirmed, mature, and not spent or being spent.
Spendable(c, cs) ==
  /\ cs[c].exists
  /\ cs[c].confirmHeight <= tip
  /\ cs[c].maturity <= tip
  /\ cs[c].spentTxId = NoTx
  /\ cs[c].spentHeight = NoHeight

\* rollbackTx: release the coins t was spending, drop the unconfirmed coins
\* t created.
RollbackTx(cs, t) ==
  [c \in CoinIds |->
     IF cs[c].createTxId = t /\ cs[c].confirmHeight = NoHeight THEN NoCoin
     ELSE IF cs[c].spentTxId = t THEN [cs[c] EXCEPT !.spentTxId = NoTx]
     ELSE cs[c]]

\* A write is durable at once, or only when the flush timer commits it.
Persist ==
  IF DeferredFlush THEN UNCHANGED <<dTxp, dCoins>>
  ELSE dTxp' = txp' /\ dCoins' = coins'

\* BaseTransaction::OnFailed: FailureReason, status Failed, rollbackTx
OnFailed(t, p, cs, reason) ==
  /\ txp' = [txp EXCEPT ![t] = [p EXCEPT !.status = "Failed", !.reason = reason]]
  /\ coins' = RollbackTx(cs, t)

\* ConfirmAsset / register_tx / ConfirmKernel through the gateway
AssetReq(t) == [kind |-> "asset", tx |-> t, ep |-> epoch, kernel |-> KernelOf(t, NoParams)]
RegisterReq(t, p) == [kind |-> "register", tx |-> t, ep |-> epoch, kernel |-> KernelOf(t, p)]
KernelReq(t, p) == [kind |-> "kernel", tx |-> t, ep |-> epoch, kernel |-> KernelOf(t, p)]

LoadKernel(p) == "kernel" \in p.built

\* TxBase::IsValid: the assembled transaction has all its parts
IsValidTx(p) == {Stage[i] : i \in 1..3} \subseteq p.built

\* std::setmin
SetMin(a, b) == IF b < a THEN b ELSE a

\* A plausible bug in FinalizeCoin: created coins mature at the proof height
\* itself, the incubation forgotten (checks CompletedMatchesChain).
FinalizeCoinNoIncubation(coin, t, h) ==
  LET cIn == IF coin.createTxId = t
             THEN [coin EXCEPT !.confirmHeight = SetMin(@, h), !.maturity = h]
             ELSE coin
  IN  IF coin.spentTxId = t THEN [cIn EXCEPT !.spentHeight = SetMin(@, h)] ELSE cIn

\* One coin of getCoinsByTx: a coin t created is confirmed at the proof
\* height and matures Maturity later; a coin t spent is spent at it.
FinalizeCoin(coin, t, h) ==
  LET bIn  == coin.createTxId = t
      bOut == coin.spentTxId = t
      cIn  == IF bIn THEN [coin EXCEPT !.confirmHeight = SetMin(@, h),
                                       !.maturity = h + Maturity]
              ELSE coin
  IN  IF bOut THEN [cIn EXCEPT !.spentHeight = SetMin(@, h)] ELSE cIn

\* saveCoins(modified)
Finalize(cs, t, h) == [c \in CoinIds |-> FinalizeCoin(cs[c], t, h)]

\* A plausible bug in SelectInputCoins: the selected coin is not stored as
\* spent by t (checks NoDoubleSelect).
SelectInputCoinsUnmarked(t, c, cs) ==
  [x \in CoinIds |->
     IF x \in CreatedIds(t) THEN [NoCoin EXCEPT !.exists = TRUE, !.createTxId = t]
     ELSE cs[x]]

\* SelectInputCoins, AddChange and GenerateAssetCoin: the selected coin is
\* marked as spent by t, the generated coins are stored unconfirmed.
SelectInputCoins(t, c, cs) ==
  [x \in CoinIds |->
     IF x = c THEN [cs[x] EXCEPT !.spentTxId = t]
     ELSE IF x \in CreatedIds(t) THEN [NoCoin EXCEPT !.exists = TRUE, !.createTxId = t]
     ELSE cs[x]]

-----------------------------------------------------------------------------
(* AssetIssueTransaction::UpdateImpl, split by the state it resumes from.  *)
(* p and cs are the parameters and coins as the earlier part of the same   *)
(* call left them.                                                         *)

\* No TransactionRegistered yet: CheckExpired, build and verify the
\* transaction, register_tx it and move to Registration.
Register(t, p, cs) ==
  /\ p.registered = "None"
  /\ \/ /\ tip > p.maxHeight
        /\ OnFailed(t, p, cs, "TransactionExpired")
        /\ UNCHANGED <<requests, sent>>
     \/ /\ tip <= p.maxHeight
        /\ ~IsValidTx(p)
        /\ OnFailed(t, p, cs, "InvalidTransaction")
        /\ UNCHANGED <<requests, sent>>
     \/ /\ tip <= p.maxHeight
        /\ IsValidTx(p)
        /\ requests' = requests \cup {RegisterReq(t, p)}
        /\ sent' = sent \cup {KernelOf(t, p)}
        /\ txp' = [txp EXCEPT ![t] = [p EXCEPT !.state = "Registration"]]
        /\ coins' = cs

\* A plausible bug in ConfirmOrFinalize: the expiry check repeated while
\* the kernel proof is awaited (checks RolledBackNotOnChain).
ConfirmOrFinalizeExpiring(t, p, cs) ==
  \/ /\ p.registered = "Err"
     /\ OnFailed(t, p, cs, "FailedToRegister")
     /\ UNCHANGED <<requests, sent>>
  \/ /\ p.registered = "Ok" /\ p.proof = 0 /\ tip > p.maxHeight
     /\ OnFailed(t, p, cs, "TransactionExpired")
     /\ UNCHANGED <<requests, sent>>
  \/ /\ p.registered = "Ok" /\ p.proof = 0 /\ tip <= p.maxHeight
     /\ txp' = [txp EXCEPT ![t] = [p EXCEPT !.state = "KernelConfirmation"]]
     /\ coins' = cs
     /\ requests' = requests \cup {KernelReq(t, p)}
     /\ UNCHANGED sent
  \/ /\ p.registered = "Ok" /\ p.proof # 0
     /\ txp' = [txp EXCEPT ![t] = [p EXCEPT !.state = "Finalizing",
                                           !.status = "Completed"]]
     /\ coins' = Finalize(cs, t, p.proof)
     /\ UNCHANGED <<requests, sent>>

\* A plausible bug in ConfirmOrFinalize: the node's acceptance taken for
\* completion, without waiting for the kernel proof (checks
\* ImplementsLifecycle).
ConfirmOrFinalizeNoProof(t, p, cs) ==
  \/ /\ p.registered = "Err"
     /\ OnFailed(t, p, cs, "FailedToRegister")
     /\ UNCHANGED <<requests, sent>>
  \/ /\ p.registered = "Ok"
     /\ txp' = [txp EXCEPT ![t] = [p EXCEPT !.state = "Finalizing",
                                           !.status = "Completed"]]
     /\ coins' = cs
     /\ UNCHANGED <<requests, sent>>

\* TransactionRegistered is known: fail if the node refused it, ask for the
\* kernel proof until KernelProofHeight is known, then finalize the coins
\* of the transaction and complete it.
ConfirmOrFinalize(t, p, cs) ==
  \/ /\ p.registered = "Err"
     /\ OnFailed(t, p, cs, "FailedToRegister")
     /\ UNCHANGED <<requests, sent>>
  \/ /\ p.registered = "Ok" /\ p.proof = 0
     /\ txp' = [txp EXCEPT ![t] = [p EXCEPT !.state = "KernelConfirmation"]]
     /\ coins' = cs
     /\ requests' = requests \cup {KernelReq(t, p)}
     /\ UNCHANGED sent
  \/ /\ p.registered = "Ok" /\ p.proof # 0
     /\ txp' = [txp EXCEPT ![t] = [p EXCEPT !.state = "Finalizing",
                                           !.status = "Completed"]]
     /\ coins' = Finalize(cs, t, p.proof)
     /\ UNCHANGED <<requests, sent>>

RegisterOrConfirm(t, p, cs) == Register(t, p, cs) \/ ConfirmOrFinalize(t, p, cs)

\* The builder stages from index from on: each sets its Making state, then
\* either completes or, with an asynchronous key keeper, yields the call.
BuildFrom(t, p, cs, from) ==
  \/ \E j \in from..3 :
       /\ AsyncStages
       /\ txp' = [txp EXCEPT ![t] = [p EXCEPT !.state = MakingState[j],
                                !.built = @ \cup {Stage[i] : i \in from..(j-1)}]]
       /\ coins' = cs
       /\ pendingKK' = pendingKK \cup {<<t, Stage[j]>>}
       /\ UNCHANGED <<requests, sent>>
  \/ /\ RegisterOrConfirm(t, [p EXCEPT !.state = "MakingKernels",
                                 !.built = @ \cup {Stage[i] : i \in from..3}], cs)
     /\ UNCHANGED pendingKK

\* First entry: mark the transaction in progress, move to AssetCheck and
\* ask for the asset.
Start(t) ==
  LET p == txp[t] IN
  /\ ~LoadKernel(p)
  /\ p.state = "Initial"
  /\ txp' = [txp EXCEPT ![t] = [p EXCEPT !.status = "InProgress",
                                         !.state = "AssetCheck"]]
  /\ requests' = requests \cup {AssetReq(t)}
  /\ UNCHANGED <<coins, sent, pendingKK>>

\* A plausible bug in CheckAsset: no new confirm_asset while the answer is
\* missing (checks AllTerminate).
CheckAssetNoRetry(t) ==
  LET p == txp[t] IN
  /\ ~LoadKernel(p)
  /\ p.state = "AssetCheck"
  /\ \/ /\ p.asset = "Unconfirmed"
        /\ OnFailed(t, p, coins, "AssetConfirmFailed")
     \/ /\ p.asset = "Other"
        /\ OnFailed(t, p, coins, "InvalidAssetId")
  /\ UNCHANGED <<requests, sent, pendingKK>>

\* AssetCheck: fail on an unconfirmed asset, ask again while there is no
\* answer, fail on an asset id other than the builder's.
CheckAsset(t) ==
  LET p == txp[t] IN
  /\ ~LoadKernel(p)
  /\ p.state = "AssetCheck"
  /\ \/ /\ p.asset = "Unconfirmed"
        /\ OnFailed(t, p, coins, "AssetConfirmFailed")
        /\ UNCHANGED requests
     \/ /\ p.asset = "None"
        /\ requests' = requests \cup {AssetReq(t)}
        /\ UNCHANGED <<txp, coins>>
     \/ /\ p.asset = "Other"
        /\ OnFailed(t, p, coins, "InvalidAssetId")
        /\ UNCHANGED requests
  /\ UNCHANGED <<sent, pendingKK>>

\* AssetCheck passed, or a Making state: select the coins once (unless
\* GetInitialTxParams finds them), then run the remaining builder stages.
Build(t) ==
  LET p == txp[t] IN
  /\ ~LoadKernel(p)
  /\ \/ /\ p.state = "AssetCheck" /\ p.asset = "Match" /\ p.initial
        /\ BuildFrom(t, p, coins, 1)
     \/ /\ p.state = "AssetCheck" /\ p.asset = "Match" /\ ~p.initial
        /\ \E c \in CoinIds :
             /\ Spendable(c, coins)
             /\ BuildFrom(t, [p EXCEPT !.initial = TRUE, !.inputCoins = {c}],
                          SelectInputCoins(t, c, coins), 1)
     \/ /\ p.state = "AssetCheck" /\ p.asset = "Match" /\ ~p.initial
        /\ \A c \in CoinIds : ~Spendable(c, coins)
        /\ OnFailed(t, p, coins, "NoInputs")
        /\ UNCHANGED <<requests, sent, pendingKK>>
     \/ /\ p.state = "MakingInputs"
        /\ BuildFrom(t, p, coins, 2)
     \/ /\ p.state = "MakingOutputs"
        /\ BuildFrom(t, p, coins, 3)

\* The kernel is loaded, or no building branch matches the state: go
\* straight to registration and confirmation.
Resume(t) ==
  LET p == txp[t] IN
  /\ \/ LoadKernel(p)
     \/ p.state \in {"MakingKernels", "Registration", "KernelConfirmation", "Finalizing"}
  /\ RegisterOrConfirm(t, p, coins)
  /\ UNCHANGED pendingKK

\* BaseTransaction::Update -> UpdateImpl, for an active transaction
Update(t) ==
  /\ txp[t].status \in {"Pending", "InProgress"}
  /\ Start(t) \/ CheckAsset(t) \/ Build(t) \/ Resume(t)
  /\ Persist
  /\ UNCHANGED <<epoch, nodeVars>>

\* A plausible bug in StartTransaction: the lifetime counted from the next
\* block (checks TypeOK).
StartTransactionLate(t) ==
  /\ txp[t].status = "None"
  /\ tip + Lifetime <= MaxTip
  /\ txp' = [txp EXCEPT ![t] = [NoParams EXCEPT !.status = "Pending",
                                               !.maxHeight = tip + Lifetime + 1]]
  /\ UNCHANGED <<coins, pendingKK, requests, epoch, nodeVars, sent>>
  /\ Persist

\* Creator::CheckAndCompleteParameters admitted the parameters (no peer,
\* sender and initiator) and the transaction is created with its MaxHeight.
StartTransaction(t) ==
  /\ txp[t].status = "None"
  /\ tip + Lifetime <= MaxTip
  /\ txp' = [txp EXCEPT ![t] = [NoParams EXCEPT !.status = "Pending",
                                               !.maxHeight = tip + Lifetime]]
  /\ UNCHANGED <<coins, pendingKK, requests, epoch, nodeVars, sent>>
  /\ Persist

\* The key keeper answers a builder stage; the builder stores the artifact.
KeyKeeperDone(t, s) ==
  /\ <<t, s>> \in pendingKK
  /\ pendingKK' = pendingKK \ {<<t, s>>}
  /\ txp' = [txp EXCEPT ![t].built = @ \cup {s}]
  /\ UNCHANGED <<coins, requests, epoch, nodeVars, sent>>
  /\ Persist

\* AssetIssueTransaction::IsInSafety: past the cut-off, a cancel is refused
IsInSafety(p) == p.state = "KernelConfirmation"

\* BaseTransaction::Cancel, asked for by the user: a transaction still
\* Pending or InProgress and not in safety becomes Canceled and is rolled
\* back (rollbackTx); otherwise the request is refused and nothing changes.
Cancel(t) ==
  LET p == txp[t] IN
  /\ UserCancels
  /\ p.status \in {"Pending", "InProgress"}
  /\ ~IsInSafety(p)
  /\ txp' = [txp EXCEPT ![t] = [p EXCEPT !.status = "Canceled"]]
  /\ coins' = RollbackTx(coins, t)
  /\ UNCHANGED <<pendingKK, requests, epoch, nodeVars, sent>>
  /\ Persist

-----------------------------------------------------------------------------
(* The node.                                                               *)

KernelsOnChain(k) == {m \in mined : m.tx = k.tx /\ m.inputs = k.inputs /\ m.maxH = k.maxH}

\* confirm_asset: the gateway stores AssetConfirmedHeight and AssetFullInfo,
\* or AssetUnconfirmedHeight.
NodeConfirmAsset(r) ==
  /\ r.kind = "asset"
  /\ requests' = requests \ {r}
  /\ txp' = [txp EXCEPT ![r.tx].asset = assetOnChain[r.tx]]
  /\ UNCHANGED <<coins, pendingKK, epoch, nodeVars, sent>>

\* register_tx: the node accepts a kernel valid in the next block whose
\* inputs are unspent and conflict with nothing in the pool; a kernel
\* already pooled is acknowledged again.  The answer is stored as
\* TransactionRegistered unless the wallet crashed meanwhile.
NodeRegister(r) ==
  LET k     == r.kernel
      known == k \in mempool
      valid == /\ tip + 1 <= k.maxH
               /\ k.inputs \subseteq utxo
               /\ \A m \in mempool : m.inputs \cap k.inputs = {}
  IN
  /\ r.kind = "register"
  /\ requests' = requests \ {r}
  /\ mempool' = IF valid THEN mempool \cup {k} ELSE mempool
  /\ txp' = IF r.ep = epoch
            THEN [txp EXCEPT ![r.tx].registered = IF known \/ valid THEN "Ok" ELSE "Err"]
            ELSE txp
  /\ UNCHANGED <<coins, pendingKK, epoch, tip, utxo, mined, assetOnChain, sent>>

\* confirm_kernel: a mined kernel yields KernelProofHeight; otherwise the
\* node's "unconfirmed" answer is one UpdateImpl does not read.
NodeConfirmKernel(r) ==
  /\ r.kind = "kernel"
  /\ requests' = requests \ {r}
  /\ txp' = IF KernelsOnChain(r.kernel) # {}
            THEN [txp EXCEPT ![r.tx].proof = (CHOOSE m \in KernelsOnChain(r.kernel) : TRUE).height]
            ELSE txp
  /\ UNCHANGED <<coins, pendingKK, epoch, nodeVars, sent>>

NodeAnswer(r) ==
  /\ NodeConfirmAsset(r) \/ NodeRegister(r) \/ NodeConfirmKernel(r)
  /\ Persist

\* A new block mines every pooled kernel still valid at its height.
Block ==
  LET inc == {k \in mempool : tip + 1 <= k.maxH} IN
  /\ tip < MaxTip
  /\ tip' = tip + 1
  /\ mined' = mined \cup {[tx |-> k.tx, inputs |-> k.inputs, maxH |-> k.maxH, height |-> tip + 1] : k \in inc}
  /\ utxo' = (utxo \ UNION {k.inputs : k \in inc}) \cup UNION {CreatedIds(k.tx) : k \in inc}
  /\ mempool' = {}
  /\ UNCHANGED <<walletDb, pendingKK, requests, epoch, assetOnChain, sent>>

-----------------------------------------------------------------------------
(* The wallet process.                                                     *)

\* the flush timer commits the pending database transaction
Flush ==
  /\ DeferredFlush
  /\ <<dTxp, dCoins>> # <<txp, coins>>
  /\ dTxp' = txp /\ dCoins' = coins
  /\ UNCHANGED <<txp, coins, pendingKK, requests, epoch, nodeVars, sent>>

\* The process dies and restarts: the database is what was durable, key
\* keeper and node answers in flight are lost; a register_tx on the wire
\* still reaches the node.
Crash ==
  /\ epoch < MaxCrashes
  /\ epoch' = epoch + 1
  /\ txp' = dTxp /\ coins' = dCoins
  /\ pendingKK' = {}
  /\ requests' = {r \in requests : r.kind = "register"}
  /\ UNCHANGED <<dTxp, dCoins, nodeVars, sent>>

-----------------------------------------------------------------------------

InitCoin(c) == IF c \in Coins
               THEN [NoCoin EXCEPT !.exists = TRUE, !.confirmHeight = 0, !.maturity = 0]
               ELSE NoCoin

Init ==
  /\ txp = [t \in Txs |-> NoParams]
  /\ coins = [c \in CoinIds |-> InitCoin(c)]
  /\ dTxp = txp /\ dCoins = coins
  /\ pendingKK = {} /\ requests = {} /\ epoch = 0
  /\ tip = 0 /\ utxo = Coins /\ mempool = {} /\ mined = {}
  /\ assetOnChain \in [Txs -> AssetAnswers]
  /\ sent = {}

Next ==
  \/ \E t \in Txs : StartTransaction(t) \/ Update(t) \/ Cancel(t)
  \/ \E t \in Txs, s \in {Stage[i] : i \in 1..3} : KeyKeeperDone(t, s)
  \/ \E r \in requests : NodeAnswer(r)
  \/ Block
  \/ Flush
  \/ Crash

\* The wallet re-enters every active transaction on each event, the key
\* keeper and the node answer every request, blocks keep coming and the
\* flush timer fires.  The user (StartTransaction, Cancel) and crashes are
\* not fair.
Fairness ==
  /\ \A t \in Txs : WF_vars(Update(t))
  /\ \A t \in Txs : WF_vars(\E s \in {Stage[i] : i \in 1..3} : KeyKeeperDone(t, s))
  /\ \A t \in Txs : WF_vars(\E r \in requests : r.tx = t /\ NodeAnswer(r))
  /\ WF_vars(Block)
  /\ WF_vars(Flush)

Spec == Init /\ [][Next]_vars /\ Fairness

-----------------------------------------------------------------------------
(* Properties.                                                             *)

Heights == 0..NoHeight
Kernels == [tx : Txs, inputs : SUBSET CoinIds, maxH : 0..MaxTip]

TypeOK ==
  /\ txp \in [Txs -> [status : Statuses, state : States, reason : Reasons,
                      maxHeight : 0..MaxTip, asset : {"None"} \cup AssetAnswers,
                      initial : BOOLEAN, inputCoins : SUBSET CoinIds,
                      built : SUBSET {Stage[i] : i \in 1..3},
                      registered : {"None", "Ok", "Err"}, proof : 0..MaxTip]]
  /\ coins \in [CoinIds -> [exists : BOOLEAN, confirmHeight : Heights,
                            spentHeight : Heights, maturity : Heights,
                            createTxId : Txs \cup {NoTx}, spentTxId : Txs \cup {NoTx}]]
  /\ tip \in 0..MaxTip /\ utxo \subseteq CoinIds
  /\ mempool \subseteq Kernels /\ sent \subseteq Kernels
  /\ epoch \in 0..MaxCrashes

\* No double spend (selectCoins): two transactions that have not been
\* rolled back (failed or canceled) never hold the same coin among their
\* InputCoins.
NoDoubleSelect ==
  \A t1, t2 \in Txs :
    (t1 # t2 /\ txp[t1].status \notin RolledBack /\ txp[t2].status \notin RolledBack)
      => txp[t1].inputCoins \cap txp[t2].inputCoins = {}

\* The ledger agrees with the chain: every coin the wallet would select as
\* Available (status derivation plus rollbackTx and the finalization in
\* UpdateImpl) is unspent on chain.
WalletSpendableOnChain ==
  \A c \in CoinIds : Spendable(c, coins) => c \in utxo

\* A Completed transaction's kernel is on chain with exactly its InputCoins
\* at KernelProofHeight, and the finalization recorded that height on the
\* coins it spent and created (and their maturity).
CompletedMatchesChain ==
  \A t \in Txs : txp[t].status = "Completed" =>
    \E m \in mined :
      /\ m.tx = t /\ m.inputs = txp[t].inputCoins /\ m.height = txp[t].proof
      /\ \A c \in m.inputs : coins[c].spentTxId = t /\ coins[c].spentHeight = m.height
      /\ \A c \in CreatedIds(t) : /\ coins[c].confirmHeight = m.height
                                  /\ coins[c].maturity = m.height + Maturity

\* OnFailed and Cancel roll a transaction back; that is only sound if its
\* kernel is neither pooled nor mined: a Failed or Canceled transaction has
\* no kernel at the node.
RolledBackNotOnChain ==
  \A t \in Txs : txp[t].status \in RolledBack =>
    /\ \A m \in mined : m.tx # t
    /\ \A k \in mempool : k.tx # t

\* Resuming from the parameters never builds a second, different
\* transaction: register_tx is only ever given one kernel per TxID.
OneKernelPerTx ==
  \A t \in Txs : Cardinality({k \in sent : k.tx = t}) <= 1

\* The builder exposes the transaction only once inputs, outputs and kernel
\* are all present: no transaction fails as InvalidTransaction (every
\* artifact the model builds is valid).
NoInvalidTransaction ==
  \A t \in Txs : txp[t].reason # "InvalidTransaction"

-----------------------------------------------------------------------------
(* Refinement: the transaction implements AssetIssueLifecycle.  Pending   *)
(* and InProgress are its Active status, Canceled is a failure; a        *)
(* transaction is on chain once a block holds one of its kernels.          *)

AbsStatus ==
  [t \in Txs |-> CASE txp[t].status \in {"Pending", "InProgress"} -> "Active"
                  [] txp[t].status = "Canceled" -> "Failed"
                  [] OTHER -> txp[t].status]

AbsOnChain == [t \in Txs |-> \E m \in mined : m.tx = t]

Lifecycle == INSTANCE AssetIssueLifecycle WITH status <- AbsStatus, onChain <- AbsOnChain

\* UpdateImpl with OnFailed, ConfirmOrFinalize and the node together keep
\* the lifecycle: a kernel is mined only while its transaction is active,
\* Completed needs the mined kernel, Failed needs it absent, and neither
\* status is ever left (no re-entry of a finished transaction builds,
\* registers or finalizes again).
ImplementsLifecycle == Lifecycle!Spec

\* Every started transaction ends Completed or Failed.
AllTerminate ==
  \A t \in Txs : (txp[t].status # "None") ~> (txp[t].status \in Terminal)

=============================================================================
