---------------------------- MODULE CBridgeChain ----------------------------
(***************************************************************************)
(* What the relay node sees of the chains: the transfers the cBridge       *)
(* contracts hold, the transactions the node submitted and that no block   *)
(* holds yet, and the clock.  The contracts' rules are those of the        *)
(* byte code the node is built against (CBridgeBin in                      *)
(* contracts/cbridge.go); the chains and their clients are external.       *)
(*                                                                         *)
(* The node reads a contract, and receives its events, at a block the      *)
(* configured number of blocks behind the head.  cstatus is the contract   *)
(* at the head, cfinal the contract at that block, and Finalize lets the   *)
(* second follow the first.  No reorganisation reaches that far back.      *)
(* One clock stands for the block time of every chain and for the node's   *)
(* own time.Now().  A transaction may stay in a pool for any time, and     *)
(* pools are unordered; a transaction the contract refuses changes nothing.*)
(***************************************************************************)
EXTENDS Bridge

VARIABLES
    now,            \* the clock
    cstatus,        \* status of every transfer in its contract, at the head
    cfinal,         \* the same at the block the node reads
    ctimelock,      \* the time lock the contract holds
    camount,        \* the amount the contract holds, for transfers IN
    pendingIn,      \* transferIn transactions in the pools
    pendingConfirm, \* confirm transactions
    pendingRefund   \* refund transactions

poolVars == <<pendingIn, pendingConfirm, pendingRefund>>
contractVars == <<cstatus, ctimelock, camount>>
chainVars == <<now, cfinal, contractVars, poolVars>>

TransferInTxs == [tid : TransferIns, amount : Nat, timelock : Nat]
ConfirmTxs == [tid : Tids, preimage : Secrets \union {NoPreimage}]

ContractStatuses == {"Undefined", "Pending", "Confirmed", "Refunded"}

ChainTypeOK ==
    /\ now \in Times
    /\ cstatus \in [Tids -> ContractStatuses]
    /\ cfinal \in [Tids -> ContractStatuses]
    /\ ctimelock \in [Tids -> Nat]
    /\ camount \in [TransferIns -> Nat]
    /\ pendingIn \subseteq TransferInTxs
    /\ pendingConfirm \subseteq ConfirmTxs
    /\ pendingRefund \subseteq TransferIns

ChainInit ==
    /\ now = 0
    /\ cstatus = [t \in Tids |-> "Undefined"]
    /\ cfinal = [t \in Tids |-> "Undefined"]
    /\ ctimelock = [t \in Tids |-> 0]
    /\ camount = [i \in TransferIns |-> 0]
    /\ pendingIn = {}
    /\ pendingConfirm = {}
    /\ pendingRefund = {}

-----------------------------------------------------------------------------
\* The node submits a transaction.

SubmitTransferIn(i, amt, lock) ==
    /\ pendingIn' = pendingIn \union {[tid |-> i, amount |-> amt, timelock |-> lock]}
    /\ UNCHANGED <<now, cfinal, contractVars, pendingConfirm, pendingRefund>>

SubmitConfirm(t, image) ==
    /\ pendingConfirm' = pendingConfirm \union {[tid |-> t, preimage |-> image]}
    /\ UNCHANGED <<now, cfinal, contractVars, pendingIn, pendingRefund>>

SubmitRefund(i) ==
    /\ pendingRefund' = pendingRefund \union {i}
    /\ UNCHANGED <<now, cfinal, contractVars, pendingIn, pendingConfirm>>

-----------------------------------------------------------------------------
\* The contract's functions

\* require amount > 0, timelock > block.timestamp and an unused id.
CanLock(t, lock) == lock > now /\ cstatus[t] = "Undefined"

\* No time lock is compared: a transfer can be confirmed until it is refunded.
CanConfirm(t, image) == cstatus[t] = "Pending" /\ image = HashLock[t]

CanRefund(t) == cstatus[t] = "Pending" /\ ctimelock[t] <= now

ContractSettles(t, outcome) ==
    /\ cstatus' = [cstatus EXCEPT ![t] = outcome]
    /\ UNCHANGED <<ctimelock, camount>>

\* A user locks tokens for the relay node.
UserTransferOut(o) ==
    /\ CanLock(o, OutTimeLock[o])
    /\ cstatus' = [cstatus EXCEPT ![o] = "Pending"]
    /\ ctimelock' = [ctimelock EXCEPT ![o] = OutTimeLock[o]]
    /\ UNCHANGED <<now, cfinal, camount, poolVars>>

\* confirm and refund may be called by anyone, on either chain.
AnyoneConfirm(t) ==
    /\ CanConfirm(t, HashLock[t])
    /\ ContractSettles(t, "Confirmed")
    /\ UNCHANGED <<now, cfinal, poolVars>>

AnyoneRefund(t) ==
    /\ CanRefund(t)
    /\ ContractSettles(t, "Refunded")
    /\ UNCHANGED <<now, cfinal, poolVars>>

-----------------------------------------------------------------------------
\* A block takes one of the node's transactions; the contract may refuse it.

MineTransferIn(tx) ==
    /\ tx \in pendingIn
    /\ pendingIn' = pendingIn \ {tx}
    /\ IF CanLock(tx.tid, tx.timelock) /\ tx.amount > 0
       THEN /\ cstatus' = [cstatus EXCEPT ![tx.tid] = "Pending"]
            /\ ctimelock' = [ctimelock EXCEPT ![tx.tid] = tx.timelock]
            /\ camount' = [camount EXCEPT ![tx.tid] = tx.amount]
       ELSE UNCHANGED contractVars
    /\ UNCHANGED <<now, cfinal, pendingConfirm, pendingRefund>>

MineConfirm(tx) ==
    /\ tx \in pendingConfirm
    /\ pendingConfirm' = pendingConfirm \ {tx}
    /\ IF CanConfirm(tx.tid, tx.preimage)
       THEN ContractSettles(tx.tid, "Confirmed")
       ELSE UNCHANGED contractVars
    /\ UNCHANGED <<now, cfinal, pendingIn, pendingRefund>>

MineRefund(i) ==
    /\ i \in pendingRefund
    /\ pendingRefund' = pendingRefund \ {i}
    /\ IF CanRefund(i) THEN ContractSettles(i, "Refunded") ELSE UNCHANGED contractVars
    /\ UNCHANGED <<now, cfinal, pendingIn, pendingConfirm>>

\* A transaction is never mined: replaced, evicted or underpriced.
DropTransaction ==
    /\ \/ \E tx \in pendingIn : /\ pendingIn' = pendingIn \ {tx}
                                /\ UNCHANGED <<pendingConfirm, pendingRefund>>
       \/ \E tx \in pendingConfirm : /\ pendingConfirm' = pendingConfirm \ {tx}
                                     /\ UNCHANGED <<pendingIn, pendingRefund>>
       \/ \E i \in pendingRefund : /\ pendingRefund' = pendingRefund \ {i}
                                   /\ UNCHANGED <<pendingIn, pendingConfirm>>
    /\ UNCHANGED <<now, cfinal, contractVars>>

-----------------------------------------------------------------------------
\* The block the node reads moves past the next change of transfer t.
Finalize(t) ==
    /\ cfinal[t] # cstatus[t]
    /\ cfinal' = [cfinal EXCEPT ![t] = IF @ = "Undefined" THEN "Pending" ELSE cstatus[t]]
    /\ UNCHANGED <<now, contractVars, poolVars>>

\* Past Horizon, which no time lock exceeds, time passes without being counted.
ClockTicks ==
    /\ now' = IF now < Horizon THEN now + 1 ELSE now
    /\ UNCHANGED <<cfinal, contractVars, poolVars>>
=============================================================================
