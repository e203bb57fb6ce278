------------------------- MODULE RelayNodeInvariants -------------------------
(***************************************************************************)
(* The inductive invariant behind the safety properties of RelayNode.      *)
(* None of those is inductive on its own: what a row may become depends on *)
(* what a worker, between two of its steps, has read before, on which      *)
(* events have been acknowledged, and on what the contracts can no longer  *)
(* undo.  Each part below is named for what it adds.                       *)
(***************************************************************************)
EXTENDS RelayNode

-----------------------------------------------------------------------------
(* Types.  TypeOK is not inductive: that the time lock of an IN is a natural *)
(* number depends on what a callback between its two statements has checked, *)
(* and that a transaction is well formed on the row its worker is at.        *)

WorkersTyped ==
    /\ todo["send"] \subseteq TransferIns
    /\ todo["refund"] \subseteq TransferIns
    /\ pc["send"] # "loop" => cur["send"] \in TransferIns
    /\ pc["refund"] # "loop" => cur["refund"] \in TransferIns
    /\ pc["confirm"] # "loop" => cur["confirm"] \in Tids

LongEnough ==
    \A o \in TransferOuts : handler[o]["locked"] = "second" => OutTimeLock[o] >= MinSrcTimeout

TypeInv == TypeOK /\ WorkersTyped /\ LongEnough

(* A row names the other transfer of its pair, and a worker is only at rows  *)
(* that are there: no statement deletes a row.                               *)

RowsRelated == \A t \in Tids : HasRow(t) => relatedTid[t] \in Tids

RowsAtHand ==
    \A w \in Workers : /\ \A t \in todo[w] : HasRow(t)
                       /\ cur[w] # NoTid => HasRow(cur[w])

RowsInv == RowsRelated /\ RowsAtHand

-----------------------------------------------------------------------------
(* The node's view of the chains.                                            *)

\* The safe block shows what the contract was, and outcomes are final.
ChainFollows ==
    \A t \in Tids :
       /\ cfinal[t] # "Undefined" => cstatus[t] # "Undefined"
       /\ cfinal[t] \in {"Confirmed", "Refunded"} => cstatus[t] = cfinal[t]

\* What a worker is about to record it has seen at the safe block.
WorkersSaw ==
    /\ pc["send"] = "recordLocked" => cfinal[cur["send"]] # "Undefined"
    /\ pc["confirm"] = "recordRefunded" => cfinal[cur["confirm"]] = "Refunded"
    /\ pc["confirm"] = "recordConfirmed" => cfinal[cur["confirm"]] = "Confirmed"
    /\ pc["refund"] = "recordRefunded" => cfinal[cur["refund"]] = "Refunded"

StatusInv == ChainFollows /\ WorkersSaw /\ StatusMatchesChain

-----------------------------------------------------------------------------
(* Pairs of transfers.                                                       *)

\* A callback is past its first statement only for an event that is final.
EventsSeen ==
    \A t \in Tids, kind \in EventKinds :
       handler[t][kind] # "new" => EventIsFinal(t, kind)

\* The first statement of LogNewTransferOut comes before the second.
OutSavedFirst ==
    \A o \in TransferOuts : handler[o]["locked"] = "second" => HasRow(o)

\* Rows are paired as the OUT's event says, and the row of an IN tells what the
\* node may lock for it.
OutsPaired ==
    \A o \in TransferOuts : HasRow(o) => relatedTid[o] = RelatedIn[o] /\ cfinal[o] # "Undefined"

InsPaired ==
    \A i \in TransferIns : HasRow(i) =>
       LET o == relatedTid[i] IN
       /\ o \in TransferOuts /\ RelatedIn[o] = i /\ HasRow(o)
       /\ timelock[i] = InTimeLock(o)
       /\ amount[i] + fee[i] = DstAmount[o]

\* The chains and the pools hold only INs there is a row for, with that row's
\* time lock.
InsKnown ==
    /\ \A tx \in pendingIn : /\ HasRow(tx.tid)
                             /\ tx.timelock = timelock[tx.tid]
                             /\ tx.amount <= DstAmount[relatedTid[tx.tid]]
    /\ \A i \in TransferIns : cstatus[i] # "Undefined" =>
                             /\ HasRow(i)
                             /\ ctimelock[i] = timelock[i]
                             /\ camount[i] <= DstAmount[relatedTid[i]]

PairsInv == EventsSeen /\ OutSavedFirst /\ OutsPaired /\ InsPaired /\ InsKnown

-----------------------------------------------------------------------------
(* Preimages.                                                                *)

Revealed(t) == "Confirmed" \in {cfinal[t], cfinal[relatedTid[t]]}

\* A row holds no preimage but its own, published by one of the pair.
PreimagesRevealed ==
    \A t \in Tids : preimage[t] # NoPreimage =>
       HasRow(t) /\ preimage[t] = HashLock[t] /\ Revealed(t)

ConfirmedHasPreimage ==
    \A t \in Tids : status[t] = "CONFIRMED" => preimage[t] # NoPreimage

\* What a worker is about to confirm it has the preimage for.
PreimageAtHand ==
    /\ \A t \in todo["confirm"] : preimage[t] # NoPreimage
    /\ pc["confirm"] # "loop" => preimage[cur["confirm"]] # NoPreimage
    /\ pc["refund"] = "confirm" => preimage[relatedTid[cur["refund"]]] # NoPreimage

ConfirmsKnown ==
    \A tx \in pendingConfirm :
       HasRow(tx.tid) /\ tx.preimage = HashLock[tx.tid] /\ Revealed(tx.tid)

PreimageInv == PreimagesRevealed /\ ConfirmedHasPreimage /\ PreimageAtHand /\ ConfirmsKnown

-----------------------------------------------------------------------------
(* Refunds.                                                                  *)

RefundsExpired ==
    /\ \A o \in claimedInTime : cfinal[o] = "Confirmed"
    /\ \A i \in todo["refund"] : timelock[i] < now
    /\ pc["refund"] # "loop" => timelock[cur["refund"]] < now
    /\ pc["refund"] = "transact" => relatedTid[cur["refund"]] \notin claimedInTime
    /\ \A i \in pendingRefund :
          HasRow(i) /\ timelock[i] < now /\ relatedTid[i] \notin claimedInTime

-----------------------------------------------------------------------------
IInv == TypeInv /\ RowsInv /\ StatusInv /\ PairsInv /\ PreimageInv /\ RefundsExpired
=============================================================================
