---------------------------- MODULE TransferTable ----------------------------
(***************************************************************************)
(* The "transfer" table of the relay node's database, and one operator per *)
(* SQL statement of server/dal.go.  Each column the node's decisions read  *)
(* is a variable, a function from transfer ids to values; a transfer id    *)
(* without a row has the status UNDEFINED.                                 *)
(*                                                                         *)
(* Every statement is atomic and runs on its own: the code opens no        *)
(* transaction that spans two of them.  An UPDATE that matches no row is   *)
(* no error, so every update below is enabled in every state.              *)
(*                                                                         *)
(* A definition whose comment begins with "Fault:" is a variant of the one  *)
(* after it with a plausible mistake in it.  The specification never uses  *)
(* it; PROJECT.json names the property that tells the two apart.           *)
(*                                                                         *)
(* Left out: columns that are only reported (hashes of transactions, gas   *)
(* costs, addresses, tokens, createts), and the statements nothing calls.  *)
(* The queries for reports are in Reports, the monitor table is in         *)
(* EventMonitor.                                                           *)
(***************************************************************************)
EXTENDS Bridge

VARIABLES
    status,      \* of the row
    relatedTid,  \* the other transfer of the pair
    timelock,    \* when the transfer may be refunded
    amount,      \* in units of the destination token
    fee,         \* what the relay node keeps of the amount
    preimage,    \* NoPreimage until it is learnt
    age          \* time since updatets, counted while a PENDING row waits

tableVars == <<status, relatedTid, timelock, amount, fee, preimage, age>>

Statuses == {"UNDEFINED", "LOCKED", "CONFIRMED", "REFUNDED", "TRANSFER_IN_START",
             "TRANSFER_IN_PENDING", "CONFIRM_PENDING", "REFUND_PENDING"}

PendingStatuses == {"TRANSFER_IN_PENDING", "CONFIRM_PENDING", "REFUND_PENDING"}

HasRow(t) == status[t] # "UNDEFINED"

TableTypeOK ==
    /\ status \in [Tids -> Statuses]
    /\ relatedTid \in [Tids -> Tids \union {NoTid}]
    /\ timelock \in [Tids -> Nat]
    /\ amount \in [Tids -> Nat]
    /\ fee \in [Tids -> Nat]
    /\ preimage \in [Tids -> Secrets \union {NoPreimage}]
    /\ age \in [Tids -> 0 .. MaxAge]

TableInit ==
    /\ status = [t \in Tids |-> "UNDEFINED"]
    /\ relatedTid = [t \in Tids |-> NoTid]
    /\ timelock = [t \in Tids |-> 0]
    /\ amount = [t \in Tids |-> 0]
    /\ fee = [t \in Tids |-> 0]
    /\ preimage = [t \in Tids |-> NoPreimage]
    /\ age = [t \in Tids |-> 0]

-----------------------------------------------------------------------------
\* Statements that change rows

\* Fault: ON CONFLICT DO UPDATE.
UpsertTransfer(t, initial, related, lock, amt) ==
    /\ status' = [status EXCEPT ![t] = initial]
    /\ relatedTid' = [relatedTid EXCEPT ![t] = related]
    /\ timelock' = [timelock EXCEPT ![t] = lock]
    /\ amount' = [amount EXCEPT ![t] = amt]
    /\ fee' = [fee EXCEPT ![t] = 0]
    /\ preimage' = [preimage EXCEPT ![t] = NoPreimage]
    /\ age' = [age EXCEPT ![t] = 0]

\* A row that is already there stays as it is: ON CONFLICT DO NOTHING.
InsertTransfer(t, initial, related, lock, amt) ==
    IF HasRow(t)
    THEN UNCHANGED tableVars
    ELSE /\ status' = [status EXCEPT ![t] = initial]
         /\ relatedTid' = [relatedTid EXCEPT ![t] = related]
         /\ timelock' = [timelock EXCEPT ![t] = lock]
         /\ amount' = [amount EXCEPT ![t] = amt]
         /\ fee' = [fee EXCEPT ![t] = 0]
         /\ preimage' = [preimage EXCEPT ![t] = NoPreimage]
         /\ age' = [age EXCEPT ![t] = 0]

\* updatets is compared only in PENDING rows, so its age is kept only there.
SetStatus(t, to) ==
    /\ status' = [status EXCEPT ![t] = to]
    /\ age' = [age EXCEPT ![t] = 0]

UpdateTransferStatus(t, to) ==
    /\ IF HasRow(t) THEN SetStatus(t, to) ELSE UNCHANGED <<status, age>>
    /\ UNCHANGED <<relatedTid, timelock, amount, fee, preimage>>

SetTransferStatusByFrom(t, to, from) ==
    /\ IF status[t] = from THEN SetStatus(t, to) ELSE UNCHANGED <<status, age>>
    /\ UNCHANGED <<relatedTid, timelock, amount, fee, preimage>>

SetPendingTransferIn(t) ==
    SetTransferStatusByFrom(t, "TRANSFER_IN_PENDING", "TRANSFER_IN_START")

\* Fault: no condition on the status the row is in.
RecordTransferInAlways(t) ==
    /\ IF HasRow(t) THEN SetStatus(t, "LOCKED") ELSE UNCHANGED <<status, age>>
    /\ UNCHANGED <<relatedTid, timelock, amount, fee, preimage>>

RecordTransferIn(t) ==
    /\ IF status[t] \in {"TRANSFER_IN_START", "TRANSFER_IN_PENDING"}
       THEN SetStatus(t, "LOCKED")
       ELSE UNCHANGED <<status, age>>
    /\ UNCHANGED <<relatedTid, timelock, amount, fee, preimage>>

ConfirmTransfer(t, image) ==
    /\ IF HasRow(t)
       THEN /\ SetStatus(t, "CONFIRMED")
            /\ preimage' = [preimage EXCEPT ![t] = image]
       ELSE UNCHANGED <<status, age, preimage>>
    /\ UNCHANGED <<relatedTid, timelock, amount, fee>>

RefundTransfer(t) == UpdateTransferStatus(t, "REFUNDED")

\* Fault: WHERE tid, the transfer's own row.
SetOwnPreimage(image, t) ==
    /\ preimage' = [preimage EXCEPT ![t] = IF HasRow(t) THEN image ELSE @]
    /\ UNCHANGED <<status, relatedTid, timelock, amount, fee, age>>

\* Every row that names t as the other transfer of its pair.
SetRelatedTxPreimage(image, t) ==
    /\ preimage' = [r \in Tids |-> IF HasRow(r) /\ relatedTid[r] = t
                                   THEN image ELSE preimage[r]]
    /\ UNCHANGED <<status, relatedTid, timelock, amount, fee, age>>

SetTransferInAmountAndFee(t, newAmount, finalFee) ==
    /\ amount' = [amount EXCEPT ![t] = newAmount]
    /\ fee' = [fee EXCEPT ![t] = finalFee]
    /\ UNCHANGED <<status, relatedTid, timelock, preimage, age>>

-----------------------------------------------------------------------------
\* Queries, at the time t the node's clock shows

GetAllStartTransferIn(t) ==
    {i \in TransferIns : /\ status[i] = "TRANSFER_IN_START"
                         /\ timelock[i] > t + SendMargin}

\* Fault: the empty preimage is not told from a preimage.
GetAllLockedTransfer == {r \in Tids : status[r] = "LOCKED"}

GetAllConfirmableLockedTransfer ==
    {r \in Tids : status[r] = "LOCKED" /\ preimage[r] # NoPreimage}

GetAllRefundAbleTransferIn(t) ==
    {i \in TransferIns : status[i] = "LOCKED" /\ timelock[i] < t}

TimedOutIn(r, pending) == status[r] = pending /\ age[r] > RetryAfter

GetRecoverTimeoutPendingTransferIn(t) ==
    {i \in TransferIns : /\ TimedOutIn(i, "TRANSFER_IN_PENDING")
                         /\ timelock[i] > t + TimeLockSafeMargin}

GetRecoverTimeoutPendingConfirm(t) ==
    {r \in Tids : /\ TimedOutIn(r, "CONFIRM_PENDING")
                  /\ timelock[r] > t + TimeLockSafeMargin}

\* Fault: only before the time lock, as for the other two PENDING statuses.
GetUnexpiredPendingRefund(t) ==
    {r \in Tids : TimedOutIn(r, "REFUND_PENDING") /\ timelock[r] > t + TimeLockSafeMargin}

GetRecoverTimeoutPendingRefund(t) ==
    {r \in Tids : TimedOutIn(r, "REFUND_PENDING")}

-----------------------------------------------------------------------------
\* One unit of time passes for the rows that wait in a PENDING status.
RowsAge ==
    /\ age' = [r \in Tids |-> IF status[r] \in PendingStatuses /\ age[r] < MaxAge
                              THEN age[r] + 1 ELSE age[r]]
    /\ UNCHANGED <<status, relatedTid, timelock, amount, fee, preimage>>
=============================================================================
