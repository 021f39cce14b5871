# TLA+ models of the Beam wallet's asset transactions, wallet database, broadcast router and broadcaster

This directory holds TLA+ models of the parts of the repository that have behaviour:
- the asset issue/consume transaction, together with the wallet database it writes, and the abstract lifecycle it refines
- the wallet database's parameter store (cache, deferred flush, rollback, notification)
- the coin ledger (session locks, selection, chain reorganisations)
- the BBS broadcast router
- the start-up and shutdown of the `broadcaster` utility

Each model has an MC module and TLC configurations. `PROJECT.json` lists the components, the runs, the mutants that show each property can fail, the source lines every definition translates, the findings and the hazards.

Check a run with `tlc -workers 2 -config <cfg> MC_<Module>` inside this directory.

## The system and its parts

| Part | Source | Module |
|---|---|---|
| Asset issue/consume transaction | `src/wallet/transactions/assets/aissue_transaction.cpp` | `AssetIssueTx` |
| Asset transaction's abstract lifecycle | (what the transaction promises) | `AssetIssueLifecycle` |
| Wallet database: tx parameters, cache, flush, notification | `src/wallet/core/wallet_db.h` | `WalletDB`, and `AssetIssueTx` for durability (partly) |
| Coin ledger | `src/wallet/core/wallet_db.h` | `CoinLedger`, and `AssetIssueTx` for selection and finalization (partly) |
| Broadcast router | `src/wallet/client/extensions/broadcast_gateway/broadcast_router.cpp` | `BroadcastRouter` |
| Broadcaster utility `main` | `src/wallet/broadcaster/broadcaster.cpp` | `Broadcaster` |
| Wallet client | `src/wallet/client/wallet_client.h` | not modelled (declaration only) |
| Push notification manager | `src/ui/viewmodel/notifications/push_notification_manager.h` | not modelled (UI declaration only) |

How the parts interact:
- **Transaction and database.** An `AssetIssueTransaction` keeps all of its state as transaction parameters in the wallet database. `UpdateImpl` is re-entered on every event: a gateway answer, a key-keeper callback, a new block or a restart. On each entry it resumes from the stored `State`. It selects coins and generates new ones through the builder, which writes them to the database. It asks the node through the gateway (`confirm_asset`, `register_tx`, `confirm_kernel`), and the answers come back as parameters. `WalletDB` batches writes in a transaction that its flush timer commits (`flushDB`, `onFlushTimer`, `m_IsFlushPending`, `m_DbTransaction`).
- **Parameter store and ledger.** Every transaction reads and writes its parameters through `WalletDB::setTxParameter`/`getTxParameter`. Reads are served by `m_TxParametersCache`. Writes go into one open `m_DbTransaction` that the flush timer commits, and subscribers hear of changes. Transactions select coins from the shared ledger. The split API reserves coins with `lockCoins` sessions, and the wallet follows the chain, calling `rollbackConfirmedUtxo` when the chain reorganises.
- **Router and BBS.** The `BroadcastRouter` sits between the BBS network and the wallet's broadcast listeners (swap offers, software updates, exchange rates). It frames outgoing messages with a protocol header and dispatches incoming ones through a `MsgReader` by message type.
- **Broadcaster threads.** The `broadcaster` utility runs `main_impl` (wallet, node connection, one newscast message, reactor loop) on an async worker thread. Its main thread waits for SIGINT and stops the reactor.

## Modules and how they correspond to the code

### `AssetIssueTx`: the transaction, the coins, the node and crashes

**State:**
- `txp[t]`: the transaction's parameters. These are Status, State, FailureReason, MaxHeight, the asset answer, whether inputs are selected, the input coins, the built parts, TransactionRegistered and KernelProofHeight.
- `coins[c]`: the coin fields that status is deduced from, namely the confirm, spent and maturity heights and the create and spent TxIDs.
- `dTxp` and `dCoins`: the durable copy of `txp` and `coins`.
- The node: `tip`, `utxo`, `mempool`, `mined`, and the asset answer for each transaction.
- `requests`: gateway requests in flight.
- `pendingKK`: key-keeper work in flight.
- `epoch`: the number of restarts.
- `sent`: the kernels ever registered.

**Actions:**
- `Update(t)` is one call of `UpdateImpl`. It is split by resume point, and each part is one action disjunct:
  - `Start`: lines 83-101.
  - `CheckAsset`: lines 103-134.
  - `Build`: coin selection at 136-152, then the builder stages at 154-179 through `BuildFrom`.
  - `Resume`: a loaded kernel, or a state past the stages.

  `Build` and `Resume` then continue into `Register` (182-204) and `ConfirmOrFinalize` (206-243). A stage with an asynchronous key keeper yields the call. Everything the call writes is written in the same step, including `OnFailed`'s rollback and the finalizing `saveCoins`. `Persist` then makes the writes durable immediately or leaves them to the flush timer.
- `StartTransaction(t)`: a creation admitted by `Creator::CheckAndCompleteParameters`, with MaxHeight = tip + Lifetime.
- `KeyKeeperDone(t, s)`: a builder stage finishes.
- `NodeAnswer(r)`: the node answers a request.
  - `confirm_asset` stores the asset answer.
  - `register_tx` accepts a kernel that is valid at the next height and whose inputs are unspent and do not conflict. It acknowledges a kernel it already holds, and its answer is dropped if the wallet restarted meanwhile.
  - `confirm_kernel` stores the proof height once the kernel is mined.
- `Block`: mines the pool.
- `Cancel(t)`: the user cancels. `BaseTransaction::Cancel` is not in the repository, so it follows the spec. A Pending or InProgress transaction that is not `IsInSafety` (lines 296-300: state `KernelConfirmation`) becomes Canceled and is rolled back. Otherwise the request is refused. The constant `UserCancels` enables this action.
- `Flush`: the flush timer commits.
- `Crash`: the process restarts from the durable copy. Answers and callbacks in flight are lost, but a `register_tx` already on the wire still arrives.

Data is abstracted:
- Amounts are not modelled. A transaction selects one coin if any is spendable, otherwise it fails with NoInputs.
- The created coins are `<<t, "change">>` and `<<t, "asset">>`.
- The asset answer is `Match`, `Other` (a different asset id) or `Unconfirmed`.

The `NotLoopback` branch is omitted because the Creator rules it out. `NoAssetInfo` is omitted because the gateway stores the info together with the confirmed height.

### `AssetIssueLifecycle`: what the transaction promises

An abstract transaction is `None`, `Active`, `Completed` or `Failed`, and its kernel is on chain or not.
- `Create` makes it active.
- `Mine(S)` puts the kernels of some active transactions on chain.
- `Complete` needs the kernel on chain.
- `Fail` needs it off chain.
- Completed and Failed are final.

`AssetIssueTx` defines the refinement mapping: Pending and InProgress are Active, and a transaction is on chain once `mined` holds one of its kernels. It checks `ImplementsLifecycle == Lifecycle!Spec` with `Lifecycle == INSTANCE AssetIssueLifecycle WITH status <- AbsStatus, onChain <- AbsOnChain`. Every step of the detailed model is either a lifecycle step or leaves both mapped variables alone. Examples of the latter are builder stages, gateway answers and flushes.

### `WalletDB`: parameter rows, cache, flush timer, rollback

`wallet_db.h` declares these members, but their bodies (`wallet_db.cpp`) are not in the repository. Only the `storage::getTxParameter<T>` template is code (`TypedGet`). The operations follow the parameter-store contract, and the state follows the header's members.

**State:**
- `rows`: the rows as the connection reads them, including uncommitted writes.
- `durable`: the rows in the file.
- `dbTxn`: `m_DbTransaction` is open.
- `flushPending`: `m_IsFlushPending`.
- `timer`: `m_FlushTimer` is armed.
- `cache`: `m_TxParametersCache`. It holds `boost::optional`, so an absent row is cached too.
- `event`: the `notifyTransactionChanged` of the last step.
- `read`: the typed result of the last `getTxParameter`.

**Actions:**
- `SetTxParameter`: a write of the stored bytes changes nothing. Any other write updates the row and the cache, arms the timer through `Modify`, and notifies if asked.
- `GetTxParameter`: a cache hit, or a miss that fills the cache.
- `DeleteTx`: rows removed and cache purged.
- `OnFlushTimer`: clears `m_IsFlushPending` and commits.
- `RollbackDB`: a failed write rolls back the whole open transaction.
- `Crash`: the uncommitted transaction, the cache and the timer are lost.

`RollbackDB` is part of `SpecWithFailures` only, the fault model that the `rollback_stale_cache` run uses.

### `CoinLedger`: sessions, selection and reorganisations

The chain runs ahead of the wallet:
- `Block` confirms coins again and mines the spends of held transactions.
- `Reorg(h)` reverts the blocks above `h`.

The wallet:
- `OnNewTip` processes the chain. It first calls `RollbackConfirmedUtxo(reorgAt)` if a reorganisation happened. Then UTXO events set confirm heights, mined kernels set the spent heights of the inputs (never raising a height, `setmin`), and transactions complete.
- `LockCoins`/`UnlockCoins`: the split API's sessions. A lock fails, changing nothing, on a coin another session holds.
- `SelectCoins`: takes an Available coin that no session holds, or fails the transaction (NoInputs).
- `FailTx`: the `rollbackTx` of a transaction that was not mined.

`Available` follows the header's `Coin::Status` comments. The method bodies are not in the repository and follow the ledger contract.

### `BroadcastRouter`: routers, listeners and the BBS

**State:**
- `listeners[r][ct]`: `m_listeners`. A listener is `<<router, content type, generation>>`, so a re-registered listener differs from the old one.
- `handlers[r][mt]`: the protocol's dispatch table, which `unregisterListener` does not touch.
- `enabled[r]`: the message types the reader accepts.
- `reader[r]`: the state of the MsgReader.
- `inbox[r]`: the messages the BBS has yet to hand to router `r`.
- `delivered`: the `onMessage` calls of the last step.

**Actions:**
- `RegisterListener` and `UnregisterListener`: lines 95-118.
- `SendMessage`: the header carrying `getMsgType(type)`, on `getBbsChannel(type)`.
- `SendRawMessage`: the caller's buffer, unframed.
- `PostForeign`: other parties post malformed messages, such as one of a wrong version, a truncated one, or one of an unknown type.
- `OnMsg`: reset the reader, then `ReadMessage`. `ReadMessage` follows the framing rules the spec gives for the reader (version, enabled type, complete body), because `MsgReader` is not in the repository. A rejected message goes to `OnProtocolError`. `on_protocol_error` (lines 169-208) only logs, so the message is dropped and the stream kept.

`Post(m)` queues a posted message for every router subscribed to its channel. The constructor subscribes to `m_incomingBbsChannels` with `BbsSubscribe` (lines 84-89), and a router receives its own posts too. The BBS hands each queued message over once, in any order. A message handed over while no listener of its type is registered takes the protocol-error path and is gone. A message sent twice is queued again.

### `Broadcaster`: two threads and SIGINT

**State:**
- `mainPc` and `workerPc`: the program counters of the two threads.
- `reactorSet`: whether the global `reactor` is non-null.
- `stopRequested`: whether the reactor has been stopped.
- `sigints`: the number of pending SIGINTs.

**Actions:**
- Worker thread:
  - `CreateReactor`: line 71.
  - `ParseOptions`: lines 73-173. Every early return and exception becomes a return.
  - `SendNews`: lines 175-210, including the invalid-key return.
  - `RunReactor`: line 212.
  - `KillGroup`: line 244.
- `GracefulInt`: the handler installed at line 166 takes a SIGINT and stops the reactor.
- Main thread:
  - `WaitForTermination`: line 249.
  - `StopReactor`: `if (reactor) reactor->stop()`.
  - `Join`: `f.get()`.
- `UserSigint`: the user presses Ctrl-C.

The main thread reads `reactor` without synchronisation. The read sees the worker's write or the value before it, according to which step came first.

## Runs

| Run | Expect | Properties | What it shows |
|---|---|---|---|
| `crash_resume` | pass | NoDoubleSelect, CompletedMatchesChain, AllTerminate | With two transactions, one coin, asynchronous stages, one crash and user cancels, no coin is held by two transactions that were not rolled back, a Completed transaction's kernel is mined and its coins carry the chain's heights, and every transaction terminates. |
| `expiry_no_crash` | pass | TypeOK, RolledBackNotOnChain, WalletSpendableOnChain, ImplementsLifecycle | Without crashes, no failed transaction has its kernel on chain, every coin the wallet shows as spendable is unspent on chain, and the transaction refines `AssetIssueLifecycle`. |
| `crash_after_register` | violation | RolledBackNotOnChain | A crash after `register_tx` fails and rolls back a transaction whose kernel is then mined. |
| `deferred_flush` | violation | OneKernelPerTx | With flush-timer durability, a crash after `register_tx` leads to a second, different kernel for the same TxID. |
| `cancel_in_registration` | violation | RolledBackNotOnChain | A cancel that `IsInSafety` admits in `Registration`, after `register_tx` was sent, rolls back a transaction whose kernel the node then holds in its pool. |
| `async_stage_skipped` | violation | NoInvalidTransaction | A re-entry while a stage is pending skips that stage, and the transaction fails as InvalidTransaction. |
| `param_store` | pass | ReadsAgreeWithStore, EventuallyDurable | Across writes, deletes, flushes and a crash: reads through the cache return the current row, and every write is eventually committed. |
| `rollback_stale_cache` | violation | ReadsAgreeWithStore | After `rollbackDB`, the cache still holds the value of an undone write. |
| `ledger_reorg` | pass | WalletAgreesWithChain | After a reorganisation the wallet learns of late, a wallet that has processed the tip carries the chain's confirm heights, and the chain's spent heights for the coins its transactions spend. |
| `router` | pass | NoMisroute, NoStaleDelivery, Delivery | Whatever the BBS hands over, and in whatever order, a listener gets only complete messages of its own type, and never after it is unregistered. A framed message queued while a listener of its content type is registered reaches that listener, unless it is unregistered first. |
| `shutdown` | pass | Terminates | Ctrl-C after the reactor exists, or `main_impl` returning, always ends the program. |
| `shutdown_early_sigint` | violation | Terminates | A Ctrl-C before line 71 is consumed without effect, and the program keeps running. |

Findings from the violation runs (details in `PROJECT.json`):
1. **Crash after registration.** The expiry check cannot tell a lost registration answer from no registration. A crash between `register_tx` and a durable answer therefore fails a transaction that is on chain and releases its spent coins.
2. **Flush timer.** `register_tx` comes before `SetState(Registration)`, and both wait for the flush timer. A crash can therefore make the transaction register a different kernel.
3. **Asynchronous stages.** `SetState` precedes each builder stage. A stage still pending on re-entry is skipped, and the transaction fails as InvalidTransaction.
4. **Early Ctrl-C.** In `broadcaster`, a SIGINT during start-up is lost: `main` finds `reactor` null, skips the stop and waits forever for a worker whose reactor nobody stops.
5. **Stale cache after rollback.** `WalletDB` batches every write since the last flush into one `m_DbTransaction`. `rollbackDB` undoes all of them, but the cache contract (insert-on-write, purge-on-delete) keeps their values. The next read returns a value that no row holds, and that a restart will not see.
6. **Cancel during registration (a gap in the spec).** `IsInSafety` (lines 296-300) refuses a cancel only in `KernelConfirmation`, which is the cut-off that spec section 4.4 names. The code enters `Registration` only after `register_tx` has handed the kernel to the node (lines 201-202). So a cancel accepted in `Registration` makes `rollbackTx` release the input coin while the node holds the kernel. TLC's trace ends with the kernel of a Canceled transaction in the node's pool, from where the node may still mine it. Section 4.4 places the cut-off where the effect becomes externally visible, but it is already visible one state earlier. The spec says nothing of a cancel racing an outstanding `register_tx`.

Every property of a passing run has a mutant in `PROJECT.json`: a plausible bug in a mapped definition that TLC shows breaks the property under the run's configuration.

## Bounds and why they are enough

- **Transactions.** Two transactions (`t1`, `t2`) with `MaxTip = 3`, `Lifetime = 2` and `Maturity = 1`.
  - Every transaction can expire, register, be mined and mature within the bound.
  - Two transactions suffice to compete for coins and for the pool.
  - One coin makes NoInputs reachable. Two coins let both transactions proceed.
  - One crash suffices to reach each crash window, because each finding needs exactly one.
  - Cancels are enabled in `crash_resume` and `cancel_in_registration`, where a cancel can hit every state of a transaction. They are disabled elsewhere, to keep each finding's trace to its own cause.
- **Parameter store.** Two transactions with one parameter each, three blobs (two values and the empty blob) and one crash. Deleting one transaction must not disturb the other, an empty blob must read as the zero value, and rewriting the same bytes must be a no-op. One failure suffices for the rollback finding. A second parameter kind per transaction raises the state space from 3.7k states to a 15-minute liveness check, and adds no new case.
- **Ledger.** Two coins, two transactions, two sessions (1 and 2), `MaxTip = 3` and one reorganisation. This covers a reorganisation below a confirmation and below a spend, a re-mined spend, overlapping lock requests, and two transactions competing for coins.
- **Router.** One router, with `MaxGen = 2` (register, unregister, register again). It receives one raw swap-offer payload and three foreign messages: a truncated one, one of a wrong version and one of an unknown type. The truncated message leaves a body pending, which is what a reader not reset per message would carry into the next message. The other two take the `on_protocol_error` path. A second router adds nothing: each router has its own inbox and the routers share no state.
- **Broadcaster.** The thread structure is finite. Up to three Ctrl-C presses cover a press taken by the main thread, one taken by the handler, and a repeat.

## Fairness

- **Transaction model.** `Update(t)` is weakly fair for each transaction, because every event re-enters `UpdateImpl`. The key-keeper answer, node answers, `Block` and `Flush` are weakly fair: a connected node and a running timer eventually act. `StartTransaction` (the user) and `Crash` are not fair. The model stops once every transaction has terminated and the chain has reached `MaxTip`, so those runs set `CHECK_DEADLOCK FALSE`.
- **Parameter store.** `OnFlushTimer` is weakly fair: an armed reactor timer fires. Callers, failures and crashes are not fair.
- **Ledger.** No fairness is assumed, because the run checks only safety.
- **Router.** `OnMsg(r, m)` is weakly fair for each message the BBS has queued for `r`. `BbsSubscribe` asks the BBS to deliver every message on the channel, and it delivers each one once. Registration and sending are left to the user.
- **Broadcaster.** Both threads are weakly fair (the OS scheduler). The user is not. The utility legitimately idles with its reactor running until Ctrl-C, hence `CHECK_DEADLOCK FALSE`.

## Not modelled, and why

- The rest of `WalletDB`, which holds data without a protocol the modelled parts depend on: the address cache, addresses, laser channels, messages, assets, notifications, block history and key management. `Subscribe`/`Unsubscribe` are not modelled either; notification is an event of the step.
- In `CoinLedger`: amounts and the selection heuristic of `selectCoins`, `generateNewCoin`, and maturity. Maturity is covered in `AssetIssueTx`.
- Whether `lockCoins` refuses a coin an active transaction is already spending. The contract checks only other sessions. `wallet_db.cpp`, which decides it, is not in the repository, so the hazard is recorded without a property.
- Whether a Completed transaction whose kernel a reorganisation reverted is ever re-examined, which would free its stuck input. That is decided outside the repository.
- `WalletClient` and `PushNotificationManager`: declarations only, with no implementation to translate. The unsynchronised UI-thread fields of `WalletClient` and its `stopReactor` ordering are recorded as hazards.
- The message sizes of the broadcast protocol. The limits live in headers outside the repository.
- The callers of `registerListener` and `unregisterListener`. They are not in the repository.

## Plan for further work

1. Model a node that drops registered kernels, to test the KernelConfirmation liveness hazard.
2. Compose `CoinLedger` with `AssetIssueTx` so that a reorganisation can revert a Completed asset transaction.
