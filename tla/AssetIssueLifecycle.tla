------------------------- MODULE AssetIssueLifecycle -------------------------
(***************************************************************************)
(* What an asset issue/consume transaction promises, whatever its states,  *)
(* builder stages and gateway traffic: it becomes active once created, its *)
(* kernel can reach the chain only while it is active, it completes only   *)
(* once its kernel is on chain, it fails only while its kernel is not, and *)
(* Completed and Failed are final.                                         *)
(***************************************************************************)
CONSTANT Txs

VARIABLES
  status,   \* status[t] \in {"None", "Active", "Completed", "Failed"}
  onChain   \* onChain[t]: a kernel of t has been mined

vars == <<status, onChain>>

Init ==
  /\ status = [t \in Txs |-> "None"]
  /\ onChain = [t \in Txs |-> FALSE]

Create(t) ==
  /\ status[t] = "None"
  /\ status' = [status EXCEPT ![t] = "Active"]
  /\ UNCHANGED onChain

\* a block carries the kernels of some active transactions
Mine(S) ==
  /\ S # {}
  /\ \A t \in S : status[t] = "Active"
  /\ onChain' = [t \in Txs |-> onChain[t] \/ t \in S]
  /\ UNCHANGED status

Complete(t) ==
  /\ status[t] = "Active" /\ onChain[t]
  /\ status' = [status EXCEPT ![t] = "Completed"]
  /\ UNCHANGED onChain

Fail(t) ==
  /\ status[t] = "Active" /\ ~onChain[t]
  /\ status' = [status EXCEPT ![t] = "Failed"]
  /\ UNCHANGED onChain

Next ==
  \/ \E t \in Txs : Create(t) \/ Complete(t) \/ Fail(t)
  \/ \E S \in SUBSET Txs : Mine(S)

Spec == Init /\ [][Next]_vars

=============================================================================
