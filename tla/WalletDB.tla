------------------------------ MODULE WalletDB ------------------------------
(***************************************************************************)
(* The transaction-parameter store of WalletDB (src/wallet/core/          *)
(* wallet_db.h): TxParameter rows keyed by (TxID, SubTxID, ParameterID),   *)
(* the in-memory m_TxParametersCache in front of them, the deferred commit *)
(* (onPrepareToModify opens m_DbTransaction, onModified arms m_FlushTimer  *)
(* once per m_IsFlushPending, onFlushTimer commits), rollbackDB, observer  *)
(* notification and process crashes.                                       *)
(*                                                                         *)
(* The header declares these members; their bodies (wallet_db.cpp) are    *)
(* not in the repository, so the operations follow the contract of the    *)
(* parameter store: setTxParameter returns whether the row changed and     *)
(* notifies only then, the cache is filled on write and on a read miss     *)
(* (ParameterCache holds boost::optional, so absence is cached too) and    *)
(* purged on deleteTx.  A cell stands for one (TxID, SubTxID, ParameterID) *)
(* with the default SubTxID; a blob is a model value, "" the empty blob.   *)
(***************************************************************************)
EXTENDS Naturals

CONSTANTS
  Txs,          \* transaction ids
  Kinds,        \* TxParameterIDs
  Blobs,        \* byte buffers a caller may write; "" is the empty buffer
  MaxFailures,  \* model bound: failed writes that end in rollbackDB
  MaxCrashes    \* model bound: process crashes

Absent == "absent"        \* no row
NotCached == "notcached"  \* no cache entry
Zero == "zero"            \* ZeroObject(value) of the parameter's type
NoEvent == <<>>
NoRead == <<>>

ASSUME Absent \notin Blobs /\ NotCached \notin Blobs /\ Zero \notin Blobs

Cells == Txs \X Kinds

VARIABLES
  rows,          \* rows[c]: the row as read through the connection
  durable,       \* durable[c]: the row as committed to the file
  dbTxn,         \* m_DbTransaction is open
  flushPending,  \* m_IsFlushPending
  timer,         \* m_FlushTimer is armed
  cache,         \* cache[c]: m_TxParametersCache entry
  event,         \* notifyTransactionChanged of the last step, or NoEvent
  read,          \* <<cell, result>> the last step's typed read, or NoRead
  failures, crashes

vars == <<rows, durable, dbTxn, flushPending, timer, cache, event, read,
          failures, crashes>>

-----------------------------------------------------------------------------

\* storage::getTxParameter<T>: FALSE when the row is absent; an empty blob
\* is the zero value, any other blob is deserialized.
TypedGet(v) ==
  IF v = Absent THEN <<FALSE, Zero>>
  ELSE IF v = "" THEN <<TRUE, Zero>>
  ELSE <<TRUE, v>>

\* onPrepareToModify, the row writes and onModified, for a write that
\* changes the rows to newRows
Modify(newRows) ==
  /\ rows' = newRows
  /\ dbTxn' = TRUE
  /\ flushPending' = TRUE
  /\ timer' = (timer \/ ~flushPending)

\* setTxParameter(txID, subTxID, paramID, blob, shouldNotifyAboutChanges):
\* a write of the bytes already stored returns false and does nothing;
\* otherwise the row is upserted, the cache updated and, if asked,
\* the subscribers notified.
SetTxParameter(t, k, b, notify) ==
  LET c == <<t, k>> IN
  \/ /\ rows[c] = b
     /\ event' = NoEvent /\ read' = NoRead
     /\ UNCHANGED <<rows, durable, dbTxn, flushPending, timer, cache,
                    failures, crashes>>
  \/ /\ rows[c] # b
     /\ Modify([rows EXCEPT ![c] = b])
     /\ cache' = [cache EXCEPT ![c] = b]
     /\ event' = IF notify THEN <<"Updated", t>> ELSE NoEvent
     /\ read' = NoRead
     /\ UNCHANGED <<durable, failures, crashes>>

\* getTxParameter through storage::getTxParameter<T>: served from the cache,
\* or read from the rows and inserted into the cache (absence included).
GetTxParameter(t, k) ==
  LET c == <<t, k>>
      v == IF cache[c] # NotCached THEN cache[c] ELSE rows[c] IN
  /\ cache' = [cache EXCEPT ![c] = v]
  /\ read' = <<c, TypedGet(v)>>
  /\ event' = NoEvent
  /\ UNCHANGED <<rows, durable, dbTxn, flushPending, timer, failures, crashes>>

\* mutant: the rows go, the cache entries stay
DeleteTxKeepCache(t) ==
  /\ \E k \in Kinds : rows[<<t, k>>] # Absent
  /\ Modify([c \in Cells |-> IF c[1] = t THEN Absent ELSE rows[c]])
  /\ event' = <<"Removed", t>>
  /\ read' = NoRead
  /\ UNCHANGED <<cache, durable, failures, crashes>>

\* deleteTx: every parameter row of the transaction is deleted, the
\* transaction's cache entries are purged and the subscribers told.
DeleteTx(t) ==
  /\ \E k \in Kinds : rows[<<t, k>>] # Absent
  /\ Modify([c \in Cells |-> IF c[1] = t THEN Absent ELSE rows[c]])
  /\ cache' = [c \in Cells |-> IF c[1] = t THEN NotCached ELSE cache[c]]
  /\ event' = <<"Removed", t>>
  /\ read' = NoRead
  /\ UNCHANGED <<durable, failures, crashes>>

\* mutant: the pending flag is not cleared when the timer fires
OnFlushTimerKeepPending ==
  /\ timer
  /\ timer' = FALSE
  /\ durable' = rows
  /\ dbTxn' = FALSE
  /\ event' = NoEvent /\ read' = NoRead
  /\ UNCHANGED <<rows, flushPending, cache, failures, crashes>>

\* onFlushTimer: m_IsFlushPending is cleared and flushDB commits the open
\* m_DbTransaction.
OnFlushTimer ==
  /\ timer
  /\ timer' = FALSE
  /\ flushPending' = FALSE
  /\ durable' = rows
  /\ dbTxn' = FALSE
  /\ event' = NoEvent /\ read' = NoRead
  /\ UNCHANGED <<rows, cache, failures, crashes>>

\* A statement of a write fails and rollbackDB rolls back m_DbTransaction:
\* every write since the last flush is undone, of any transaction.  The
\* cache contract (insert on write, purge on delete) leaves the cache as is.
RollbackDB ==
  /\ dbTxn
  /\ failures < MaxFailures
  /\ failures' = failures + 1
  /\ rows' = durable
  /\ dbTxn' = FALSE
  /\ event' = NoEvent /\ read' = NoRead
  /\ UNCHANGED <<durable, flushPending, timer, cache, crashes>>

\* The process dies: the uncommitted transaction, the cache and the timer
\* are gone; the next WalletDB::open starts from the file.
Crash ==
  /\ crashes < MaxCrashes
  /\ crashes' = crashes + 1
  /\ rows' = durable
  /\ dbTxn' = FALSE
  /\ flushPending' = FALSE
  /\ timer' = FALSE
  /\ cache' = [c \in Cells |-> NotCached]
  /\ event' = NoEvent /\ read' = NoRead
  /\ UNCHANGED <<durable, failures>>

-----------------------------------------------------------------------------

Init ==
  /\ rows = [c \in Cells |-> Absent]
  /\ durable = rows
  /\ dbTxn = FALSE
  /\ flushPending = FALSE
  /\ timer = FALSE
  /\ cache = [c \in Cells |-> NotCached]
  /\ event = NoEvent
  /\ read = NoRead
  /\ failures = 0
  /\ crashes = 0

Next ==
  \/ \E t \in Txs, k \in Kinds, b \in Blobs, n \in BOOLEAN : SetTxParameter(t, k, b, n)
  \/ \E t \in Txs, k \in Kinds : GetTxParameter(t, k)
  \/ \E t \in Txs : DeleteTx(t)
  \/ OnFlushTimer
  \/ Crash

\* The reactor runs the armed flush timer; callers and failures are not fair.
Fairness == WF_vars(OnFlushTimer)

Spec == Init /\ [][Next]_vars /\ Fairness

\* The same store when a write can fail and end in rollbackDB.
NextWithFailures == Next \/ RollbackDB

SpecWithFailures == Init /\ [][NextWithFailures]_vars /\ Fairness

-----------------------------------------------------------------------------

\* getTxParameter through the cache returns what the rows hold: a typed read
\* of a cell gives its current row (absent, zero value for an empty blob, or
\* the blob), after any sequence of writes, deletes, flushes and restarts.
ReadsAgreeWithStore ==
  read # NoRead => read[2] = TypedGet(rows[read[1]])

\* onModified/onFlushTimer: every row written is eventually committed to the
\* file (or the process restarts from the file).
EventuallyDurable ==
  \A c \in Cells : (rows[c] # durable[c]) ~> (rows[c] = durable[c])

=============================================================================
