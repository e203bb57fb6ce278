------------------------------- MODULE Bridge -------------------------------
(***************************************************************************)
(* The vocabulary the other modules share: the cross-chain transfers of    *)
(* one relay node, their hash locks and time locks, and the node's time    *)
(* parameters.                                                             *)
(*                                                                         *)
(* A user who wants to move tokens locks them for the relay node on the    *)
(* source chain (a transfer OUT); the relay node locks tokens for the user *)
(* on the destination chain under the same hash lock (a transfer IN).      *)
(* Confirming the IN reveals the preimage, with which the relay node       *)
(* confirms the OUT.                                                       *)
(***************************************************************************)
EXTENDS Integers

CONSTANTS
    TransferOuts,     \* ids of the transfers users may lock for this relay node
    TransferIns,      \* ids of the transfers the relay node may lock for users
    RelatedIn,        \* the IN id computed from the data of an OUT event
    Secrets,          \* preimages; a hash lock is identified with its preimage
    NoPreimage,       \* the empty preimage column
    NoTid,            \* no transfer
    HashLock,         \* the hash lock of every transfer
    OutTimeLock,      \* the time lock each user chose for the OUT
    DstAmount,        \* the OUT's amount in units of the destination token
    Fees,             \* what the gateway may answer to GetFee
    MinSrcTimeout,    \* 16 hours: the least time an OUT must have left
    DstTimeLockGap,   \* 8 hours: how much earlier the IN's time lock is
    SendMargin,       \* 1 hour: an IN is not queried for sending any later
    TimeLockSafeMargin, \* 6 minutes: nor sent or recovered any later
    RetryAfter,       \* 15 minutes: how long a row stays in a PENDING status
    MaxAge,           \* the age of a row is counted up to here
    Horizon,          \* time is counted up to here
    FaultKinds,       \* which of "crash", "drop", "error", "miss" may happen
    MaxFaults         \* how many faults may happen

Tids == TransferOuts \union TransferIns

IsOut(t) == t \in TransferOuts

\* getTransferId: the IN's id is a hash of relay, user, hash lock and chain, so
\* OUTs of different users to the same destination under one hash lock share it.
ASSUME TransfersAssumption ==
    /\ TransferOuts \intersect TransferIns = {}
    /\ NoTid \notin Tids
    /\ RelatedIn \in [TransferOuts -> TransferIns]
    /\ NoPreimage \notin Secrets
    /\ HashLock \in [Tids -> Secrets]
    /\ \A o \in TransferOuts : HashLock[RelatedIn[o]] = HashLock[o]

ASSUME AmountsAssumption ==
    /\ DstAmount \in [TransferOuts -> Nat]
    /\ Fees \subseteq Nat

ASSUME TimesAssumption ==
    /\ OutTimeLock \in [TransferOuts -> Nat]
    /\ MinSrcTimeout \in Nat
    /\ DstTimeLockGap \in Nat
    /\ DstTimeLockGap <= MinSrcTimeout
    /\ SendMargin \in Nat
    /\ TimeLockSafeMargin \in Nat
    /\ RetryAfter \in Nat
    /\ MaxAge \in Nat
    /\ MaxAge > RetryAfter
    /\ Horizon \in Nat

ASSUME FaultsAssumption ==
    /\ FaultKinds \subseteq {"crash", "drop", "error", "miss"}
    /\ MaxFaults \in Nat

Times == 0 .. Horizon

=============================================================================
