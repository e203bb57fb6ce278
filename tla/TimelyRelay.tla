----------------------------- MODULE TimelyRelay -----------------------------
(***************************************************************************)
(* RelayNode with a node, and chains, that keep up: time does not pass     *)
(* while an event, a row, a confirmation or a refund waits to be taken     *)
(* care of.  It is here that the eight hours between the two time locks of *)
(* a pair must show to be enough; RelayNode itself lets anything be late.  *)
(* A transferIn may stay in its pool for any time here too, while its row  *)
(* is tried again.                                                         *)
(*                                                                         *)
(* A unit of time is longer than everything the node and the chains do in  *)
(* one go: a few polling intervals, tickers of at most two minutes, the    *)
(* blocks until a transaction is at the safe block.  A crash, a lost       *)
(* transaction or a failing call costs the time until the row is retried.  *)
(* Missed events are left out: a row whose outcome was missed keeps its    *)
(* worker busy for ever.                                                   *)
(***************************************************************************)
EXTENDS RelayNodeInvariants

\* What a fault costs: the row waits until it is older than RetryAfter.
RetryTime == RetryAfter + 1

\* So many faults may come between the two time locks of a pair, and no more: with
\* retries of fifteen minutes, and a unit of five, eight hours hold twenty-three.
ASSUME TimelyAssumption ==
    /\ "miss" \notin FaultKinds
    /\ DstTimeLockGap > 1 + MaxFaults * RetryTime + TimeLockSafeMargin

NoOutcomeOnItsWay ==
    /\ pendingConfirm = {} /\ pendingRefund = {}
    /\ cfinal = cstatus

NoCallbackDue ==
    \A t \in Tids, kind \in EventKinds : handler[t][kind] # "second" /\ ~ Delivered(t, kind)

NoRowDue ==
    /\ \A w \in Workers : pc[w] = "loop" /\ todo[w] = {}
    /\ GetAllStartTransferIn(now) = {}
    /\ GetAllConfirmableLockedTransfer = {}
    /\ GetAllRefundAbleTransferIn(now) = {}
    /\ \A kind \in Recovery : TimedOutRows(kind) = {}

CaughtUp == NoOutcomeOnItsWay /\ NoCallbackDue /\ NoRowDue

TimelyNext ==
    \/ Callbacks
    \/ SendStep
    \/ ConfirmStep
    \/ RefundStep
    \/ RecoverStep
    \/ Faulty
    \/ \E o \in TransferOuts : UserLocks(o)
    \/ \E t \in Tids : SomeoneConfirms(t) \/ SomeoneRefunds(t) \/ SafeBlockMoves(t)
    \/ BlockMined
    \/ CaughtUp /\ Tick

TimelySpec == Init /\ [][TimelyNext]_vars

\* As in RelayNode, with the clock that waits.
FairTimelySpec ==
    /\ TimelySpec
    /\ CallbackFairness /\ WorkerFairness /\ ChainFairness
    /\ WF_vars(CaughtUp /\ Tick)

-----------------------------------------------------------------------------
\* "the relay node funds are fully secured": it never happens that the user has
\* claimed an IN and that the OUT it was locked for has been refunded as well.
NodeNeverLoses ==
    \A i \in TransferIns :
       ~ (cstatus[i] = "Confirmed" /\ cstatus[relatedTid[i]] = "Refunded")

-----------------------------------------------------------------------------
(* The inductive invariant behind it.                                        *)

\* What the rows and the contracts of the OUTs hold.
OutsTimed ==
    \A o \in TransferOuts :
       /\ status[o] \notin {"TRANSFER_IN_START", "TRANSFER_IN_PENDING", "REFUND_PENDING"}
       /\ HasRow(o) => timelock[o] = OutTimeLock[o]
       /\ cstatus[o] # "Undefined" => ctimelock[o] = OutTimeLock[o]
       /\ cstatus[o] = "Refunded" => OutTimeLock[o] <= now

ConfirmsHavePreimage ==
    \A t \in Tids : status[t] = "CONFIRM_PENDING" => preimage[t] # NoPreimage

LockedIsRecorded ==
    \A i \in TransferIns : handler[i]["locked"] = "acked" =>
       status[i] \notin {"TRANSFER_IN_START", "TRANSFER_IN_PENDING"}

\* The node has paid, or may yet have to, and does not have the OUT.
AtStake(i) ==
    cstatus[i] \in {"Pending", "Confirmed"} /\ cstatus[relatedTid[i]] # "Confirmed"

RefundWaits(i) ==
    /\ status[i] = "REFUND_PENDING"
    /\ i \notin pendingRefund
    /\ ~ (cur["refund"] = i /\ pc["refund"] \in {"lookup", "checkOut", "transact"})

ConfirmWaits(o) ==
    /\ status[o] = "CONFIRM_PENDING"
    /\ \A tx \in pendingConfirm : tx.tid # o
    /\ ~ (cur["confirm"] = o /\ pc["confirm"] = "transact")

\* When at the latest the node has either the IN back or the OUT, after the faults
\* there have been.
Latest(i) == timelock[i] + 1 + faults * RetryTime

\* A row that waits without anything under way waits because of a fault, which the
\* deadline already allows for.
StakesEndInTime ==
    \A i \in TransferIns : AtStake(i) =>
       /\ cstatus[relatedTid[i]] # "Refunded"
       /\ now <= Latest(i)
       /\ cstatus[i] = "Pending" /\ RefundWaits(i) => now + RetryTime <= Latest(i) + age[i]
       /\ ConfirmWaits(relatedTid[i]) => now + RetryTime <= Latest(i) + age[relatedTid[i]]

TimelyInv == OutsTimed /\ ConfirmsHavePreimage /\ LockedIsRecorded /\ StakesEndInTime
=============================================================================
