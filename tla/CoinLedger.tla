----------------------------- MODULE CoinLedger -----------------------------
(***************************************************************************)
(* The coin ledger of WalletDB (src/wallet/core/wallet_db.h): Coin rows    *)
(* with their confirm/spent heights, spending transaction and session      *)
(* lock; lockCoins/unlockCoins (the split API's sessions), coin selection  *)
(* for transactions, the finalization of a mined transaction, rollbackTx,  *)
(* and rollbackConfirmedUtxo after a chain reorganisation.                 *)
(*                                                                         *)
(* The chain runs ahead of the wallet: blocks confirm coins and mine the   *)
(* spends of transactions, a reorganisation reverts the blocks above some  *)
(* height, and the wallet learns of both only when it processes the new    *)
(* tip.  The wallet hears of coins present on chain (UTXO events) and of   *)
(* kernels its transactions got mined in; what disappears it can only      *)
(* undo with rollbackConfirmedUtxo.                                        *)
(*                                                                         *)
(* The bodies of the WalletDB methods are not in the repository: they are  *)
(* modelled from the ledger contract; status derivation follows the Coin   *)
(* status comments of the header.  A transaction spends one coin.          *)
(***************************************************************************)
EXTENDS Naturals

CONSTANTS
  Coins,       \* coins the wallet owns, confirmed at height 1
  Txs,         \* transactions that spend them
  Sessions,    \* split-API session ids (non-zero)
  MaxTip,      \* model bound: chain height
  MaxReorgs,   \* model bound: chain reorganisations
  NoTx

ASSUME 0 \notin Sessions /\ NoTx \notin Txs /\ MaxTip \in Nat

EmptyCoinSession == 0     \* wallet_db.h: const uint32_t EmptyCoinSession = 0
NoHeight == MaxTip + 1    \* MaxHeight: an unset height

VARIABLES
  coins,      \* coins[c]: the wallet's row (confirmHeight, spentHeight, spentTxId, sessionId)
  txStatus,   \* txStatus[t]: "None" | "Active" | "Completed" | "Failed"
  wtip,       \* getCurrentHeight: the tip the wallet has processed
  chain,      \* chain[c]: [confirm, spent] heights on chain
  tip,        \* the chain's height
  reorgAt,    \* lowest height a reorganisation went back to that the wallet has not processed
  reorgs

vars == <<coins, txStatus, wtip, chain, tip, reorgAt, reorgs>>

-----------------------------------------------------------------------------

\* Coin::Available: confirmed at or below the wallet's height, not spent and
\* not taking part in a transaction (Outgoing)
Available(c) ==
  /\ coins[c].confirmHeight <= wtip
  /\ coins[c].spentHeight = NoHeight
  /\ coins[c].spentTxId = NoTx

\* std::setmin: heights are only ever lowered
SetMin(old, new) == IF new < old THEN new ELSE old

\* lockCoins(list, session): fails, changing nothing, if a coin of the list
\* is locked by another session; otherwise locks all of them.
LockCoins(ids, s) ==
  /\ \A c \in ids : coins[c].sessionId \in {EmptyCoinSession, s}
  /\ coins' = [c \in Coins |-> IF c \in ids THEN [coins[c] EXCEPT !.sessionId = s]
                                ELSE coins[c]]
  /\ UNCHANGED <<txStatus, wtip, chain, tip, reorgAt, reorgs>>

\* unlockCoins(session): releases every coin the session holds
UnlockCoins(s) ==
  /\ \E c \in Coins : coins[c].sessionId = s
  /\ coins' = [c \in Coins |-> IF coins[c].sessionId = s
                                THEN [coins[c] EXCEPT !.sessionId = EmptyCoinSession]
                                ELSE coins[c]]
  /\ UNCHANGED <<txStatus, wtip, chain, tip, reorgAt, reorgs>>

\* selectCoins for a new transaction: an Available coin that no session
\* holds (locking is advisory: the ledger checks it) becomes its input;
\* with none the transaction fails (NoInputs).
SelectCoins(t) ==
  /\ txStatus[t] = "None"
  /\ \/ \E c \in Coins :
          /\ Available(c) /\ coins[c].sessionId = EmptyCoinSession
          /\ coins' = [coins EXCEPT ![c].spentTxId = t]
          /\ txStatus' = [txStatus EXCEPT ![t] = "Active"]
     \/ /\ \A c \in Coins : ~Available(c) \/ coins[c].sessionId # EmptyCoinSession
        /\ txStatus' = [txStatus EXCEPT ![t] = "Failed"]
        /\ UNCHANGED coins
  /\ UNCHANGED <<wtip, chain, tip, reorgAt, reorgs>>

\* rollbackTx of a transaction that failed before its kernel was mined
FailTx(t) ==
  /\ txStatus[t] = "Active"
  /\ \A c \in Coins : coins[c].spentTxId = t => chain[c].spent = NoHeight
  /\ txStatus' = [txStatus EXCEPT ![t] = "Failed"]
  /\ coins' = [c \in Coins |-> IF coins[c].spentTxId = t
                                THEN [coins[c] EXCEPT !.spentTxId = NoTx] ELSE coins[c]]
  /\ UNCHANGED <<wtip, chain, tip, reorgAt, reorgs>>

\* mutant: the spent heights are not rolled back
RollbackConfirmedUtxoConfirmOnly(cs, h) ==
  [c \in Coins |-> [cs[c] EXCEPT
     !.confirmHeight = IF @ > h THEN NoHeight ELSE @]]

\* rollbackConfirmedUtxo(minHeight): every confirm or spent height above
\* minHeight is unset again.
RollbackConfirmedUtxo(cs, h) ==
  [c \in Coins |-> [cs[c] EXCEPT
     !.confirmHeight = IF @ > h THEN NoHeight ELSE @,
     !.spentHeight = IF @ > h THEN NoHeight ELSE @]]

\* The wallet processes the chain's tip: after a reorganisation it first
\* rolls its coins back to the fork height; then UTXO events confirm the
\* coins present on chain and each transaction whose kernel is mined
\* finalizes, setting the spent height of its input (never raising it).
OnNewTip ==
  /\ wtip # tip \/ reorgAt # NoHeight
  /\ LET rolled == IF reorgAt = NoHeight THEN coins ELSE RollbackConfirmedUtxo(coins, reorgAt)
     IN coins' = [c \in Coins |->
          [rolled[c] EXCEPT
             !.confirmHeight = SetMin(@, chain[c].confirm),
             !.spentHeight = IF rolled[c].spentTxId # NoTx
                             THEN SetMin(@, chain[c].spent) ELSE @]]
  /\ txStatus' = [t \in Txs |->
       IF txStatus[t] = "Active" /\ \E c \in Coins : coins[c].spentTxId = t /\ chain[c].spent # NoHeight
       THEN "Completed" ELSE txStatus[t]]
  /\ wtip' = tip
  /\ reorgAt' = NoHeight
  /\ UNCHANGED <<chain, tip, reorgs>>

\* A block: coins of reverted blocks are confirmed again, and the spend of
\* any transaction the node holds (active, or completed and reverted) whose
\* input is on chain is mined.
Block ==
  /\ tip < MaxTip
  /\ \E S \in SUBSET Txs :
       /\ \A t \in S : txStatus[t] \in {"Active", "Completed"}
       /\ tip' = tip + 1
       /\ chain' = [c \in Coins |->
            [confirm |-> IF chain[c].confirm = NoHeight THEN tip + 1 ELSE chain[c].confirm,
             spent |-> IF chain[c].spent = NoHeight /\ chain[c].confirm # NoHeight
                          /\ coins[c].spentTxId \in S
                       THEN tip + 1 ELSE chain[c].spent]]
  /\ UNCHANGED <<coins, txStatus, wtip, reorgAt, reorgs>>

\* The chain reverts every block above h.
Reorg(h) ==
  /\ reorgs < MaxReorgs
  /\ h < tip
  /\ reorgs' = reorgs + 1
  /\ tip' = h
  /\ chain' = [c \in Coins |->
       [confirm |-> IF chain[c].confirm > h THEN NoHeight ELSE chain[c].confirm,
        spent |-> IF chain[c].spent > h THEN NoHeight ELSE chain[c].spent]]
  /\ reorgAt' = SetMin(reorgAt, h)
  /\ UNCHANGED <<coins, txStatus, wtip>>

-----------------------------------------------------------------------------

Init ==
  /\ coins = [c \in Coins |-> [confirmHeight |-> 1, spentHeight |-> NoHeight,
                               spentTxId |-> NoTx, sessionId |-> EmptyCoinSession]]
  /\ txStatus = [t \in Txs |-> "None"]
  /\ wtip = 1 /\ tip = 1
  /\ chain = [c \in Coins |-> [confirm |-> 1, spent |-> NoHeight]]
  /\ reorgAt = NoHeight
  /\ reorgs = 0

Next ==
  \/ \E s \in Sessions : UnlockCoins(s) \/ \E ids \in SUBSET Coins \ {{}} : LockCoins(ids, s)
  \/ \E t \in Txs : SelectCoins(t) \/ FailTx(t)
  \/ OnNewTip
  \/ Block
  \/ \E h \in 0..MaxTip : Reorg(h)

Spec == Init /\ [][Next]_vars
-----------------------------------------------------------------------------


\* rollbackConfirmedUtxo with OnNewTip: once the wallet has processed the
\* chain's tip, its coins carry exactly the chain's confirm heights, and the
\* coins its transactions spend carry exactly the chain's spent heights,
\* across any reorganisation.
WalletAgreesWithChain ==
  (wtip = tip /\ reorgAt = NoHeight) =>
    \A c \in Coins :
      /\ coins[c].confirmHeight = chain[c].confirm
      /\ coins[c].spentTxId # NoTx => coins[c].spentHeight = chain[c].spent

=============================================================================
