------------------------ MODULE RelayNodeSafetyProofs ------------------------
(***************************************************************************)
(* The safety properties of RelayNode, for every value of its constants.   *)
(* First come lemmas that say what a step may do to one group of variables *)
(* and which actions do it; then each part of the inductive invariant is   *)
(* shown to be preserved from those.                                       *)
(***************************************************************************)
EXTENDS RelayNodeProofs

-----------------------------------------------------------------------------
(* Which actions change what.                                                *)

TableWriters ==
    \/ \E o \in TransferOuts : OnTransferOut(o) \/ OnTransferOutSaveIn(o)
    \/ \E i \in TransferIns : OnTransferIn(i)
    \/ \E t \in Tids : OnConfirmed(t) \/ OnConfirmedSetRelated(t) \/ OnRefunded(t)
    \/ SendRecordLocked
    \/ \E f \in Fees : SendFee(f)
    \/ SendMark
    \/ ConfirmMark
    \/ ConfirmRecordRefunded
    \/ ConfirmRecordConfirmed
    \/ RefundMark
    \/ RefundRecordRefunded
    \/ \E t \in Tids : RecoverSet(t)

LEMMA OthersLeaveTable ==
    ASSUME [Next]_vars, ~ TableWriters
    PROVE  UNCHANGED <<status, relatedTid, timelock, amount, fee, preimage>>
<1>. USE DEF TableWriters, tableVars
<1>1. CASE SendStep
  BY <1>1 DEF SendStep, SendQuery, SendRead, SendTransact, OnlyReads, OnlySubmits
<1>2. CASE ConfirmStep
  BY <1>2 DEF ConfirmStep, ConfirmQuery, ConfirmRead, ConfirmTransact, OnlyReads, OnlySubmits
<1>3. CASE RefundStep
  BY <1>3 DEF RefundStep, RefundQuery, RefundRead, RefundLookup, RefundConfirm, RefundCheckOut,
     RefundTransact, OnlyReads, OnlySubmits
<1>4. CASE RecoverStep
  BY <1>4 DEF RecoverStep, RecoverQuery, OnlyReads
<1>5. CASE Faulty
  BY <1>5 DEF Faulty, Crash, TransactionLost, CallbackFails, EventMissed, RowFails, ReadFails,
     SendTransactFails, ConfirmMarkFails, RefundMarkFails, FailureIsPassed, RecoverSetFails
<1>6. CASE Environment
  BY <1>6 DEF Environment, UserLocks, SomeoneConfirms, SomeoneRefunds, SafeBlockMoves,
     BlockMined, Tick, NodeLeaves, RowsAge
<1>7. CASE Callbacks
  BY <1>7 DEF Callbacks
<1>8. CASE UNCHANGED vars
  BY <1>8 DEF vars
<1> QED
  BY <1>1, <1>2, <1>3, <1>4, <1>5, <1>6, <1>7, <1>8 DEF Next

WritersLeaveChain == UNCHANGED <<now, cstatus, cfinal, ctimelock, camount, pendingIn,
                                 pendingConfirm, pendingRefund, claimedInTime>>

LEMMA TableWritersLeaveChain ==
    ASSUME TableWriters
    PROVE  WritersLeaveChain
<1>. USE DEF WritersLeaveChain, chainVars, contractVars, poolVars
<1>1. ASSUME CallbackLeaves \/ OnlyWritesTable
      PROVE  WritersLeaveChain
  BY <1>1 DEF CallbackLeaves, OnlyWritesTable
<1> QED
  BY <1>1 DEF TableWriters, OnTransferOut, OnTransferOutSaveIn, OnTransferIn, OnConfirmed,
     OnConfirmedSetRelated, OnRefunded, SendRecordLocked, SendFee, SendMark, ConfirmMark,
     ConfirmRecordRefunded, ConfirmRecordConfirmed, RefundMark, RefundRecordRefunded, RecoverSet

ContractMovers ==
    \/ \E o \in TransferOuts : UserLocks(o)
    \/ \E t \in Tids : SomeoneConfirms(t) \/ SomeoneRefunds(t)
    \/ BlockMined

LEMMA OthersLeaveContracts ==
    ASSUME [Next]_vars, ~ ContractMovers
    PROVE  UNCHANGED <<cstatus, ctimelock, camount>>
<1>. USE DEF chainVars, contractVars, poolVars
<1>1. CASE TableWriters
  BY <1>1, TableWritersLeaveChain DEF WritersLeaveChain
<1>2. CASE ~ TableWriters
  <2>. USE <1>2 DEF TableWriters, ContractMovers
  <2>1. CASE SendStep
    BY <2>1 DEF SendStep, SendQuery, SendRead, SendTransact, OnlyReads, SubmitTransferIn
  <2>2. CASE ConfirmStep
    BY <2>2 DEF ConfirmStep, ConfirmQuery, ConfirmRead, ConfirmTransact, OnlyReads, SubmitConfirm
  <2>3. CASE RefundStep
    BY <2>3 DEF RefundStep, RefundQuery, RefundRead, RefundLookup, RefundConfirm, RefundCheckOut,
       RefundTransact, OnlyReads, SubmitConfirm, SubmitRefund
  <2>4. CASE RecoverStep
    BY <2>4 DEF RecoverStep, RecoverQuery, OnlyReads
  <2>5. CASE Faulty
    BY <2>5 DEF Faulty, Crash, TransactionLost, DropTransaction, CallbackFails, EventMissed,
       RowFails, ReadFails, SendTransactFails, ConfirmMarkFails, RefundMarkFails, FailureIsPassed,
       RecoverSetFails
  <2>6. CASE Environment
    BY <2>6 DEF Environment, SafeBlockMoves, Finalize, Tick, ClockTicks
  <2>7. CASE Callbacks
    BY <2>7 DEF Callbacks
  <2>8. CASE UNCHANGED vars
    BY <2>8 DEF vars
  <2> QED
    BY <2>1, <2>2, <2>3, <2>4, <2>5, <2>6, <2>7, <2>8 DEF Next
<1> QED
  BY <1>1, <1>2

LEMMA OthersLeaveSafeBlock ==
    ASSUME [Next]_vars, ~ \E t \in Tids : SafeBlockMoves(t)
    PROVE  UNCHANGED <<cfinal, claimedInTime>>
<1>. USE DEF chainVars, contractVars, poolVars
<1>1. CASE TableWriters
  BY <1>1, TableWritersLeaveChain DEF WritersLeaveChain
<1>2. CASE ~ TableWriters
  <2>. USE <1>2 DEF TableWriters
  <2>1. CASE SendStep
    BY <2>1 DEF SendStep, SendQuery, SendRead, SendTransact, OnlyReads, OnlySubmits,
       SubmitTransferIn
  <2>2. CASE ConfirmStep
    BY <2>2 DEF ConfirmStep, ConfirmQuery, ConfirmRead, ConfirmTransact, OnlyReads, OnlySubmits,
       SubmitConfirm
  <2>3. CASE RefundStep
    BY <2>3 DEF RefundStep, RefundQuery, RefundRead, RefundLookup, RefundConfirm, RefundCheckOut,
       RefundTransact, OnlyReads, OnlySubmits, SubmitConfirm, SubmitRefund
  <2>4. CASE RecoverStep
    BY <2>4 DEF RecoverStep, RecoverQuery, OnlyReads
  <2>5. CASE Faulty
    BY <2>5 DEF Faulty, Crash, TransactionLost, DropTransaction, CallbackFails, EventMissed,
       RowFails, ReadFails, SendTransactFails, ConfirmMarkFails, RefundMarkFails, FailureIsPassed,
       RecoverSetFails
  <2>6. CASE Environment
    BY <2>6 DEF Environment, UserLocks, UserTransferOut, SomeoneConfirms, AnyoneConfirm,
       SomeoneRefunds, AnyoneRefund, BlockMined, MineTransferIn, MineConfirm, MineRefund,
       Tick, ClockTicks
  <2>7. CASE Callbacks
    BY <2>7 DEF Callbacks
  <2>8. CASE UNCHANGED vars
    BY <2>8 DEF vars
  <2> QED
    BY <2>1, <2>2, <2>3, <2>4, <2>5, <2>6, <2>7, <2>8 DEF Next
<1> QED
  BY <1>1, <1>2

LEMMA OthersLeaveClock ==
    ASSUME [Next]_vars, ~ Tick
    PROVE  UNCHANGED now
<1>. USE DEF chainVars, contractVars, poolVars
<1>1. CASE TableWriters
  BY <1>1, TableWritersLeaveChain DEF WritersLeaveChain
<1>2. CASE ~ TableWriters
  <2>. USE <1>2 DEF TableWriters
  <2>1. CASE SendStep \/ ConfirmStep \/ RefundStep \/ RecoverStep
    BY <2>1 DEF SendStep, SendQuery, SendRead, SendTransact, SubmitTransferIn, ConfirmStep,
       ConfirmQuery, ConfirmRead, ConfirmTransact, SubmitConfirm, RefundStep, RefundQuery,
       RefundRead, RefundLookup, RefundConfirm, RefundCheckOut, RefundTransact, SubmitRefund,
       RecoverStep, RecoverQuery, OnlyReads
  <2>2. CASE Faulty
    BY <2>2 DEF Faulty, Crash, TransactionLost, DropTransaction, CallbackFails, EventMissed,
       RowFails, ReadFails, SendTransactFails, ConfirmMarkFails, RefundMarkFails,
       FailureIsPassed, RecoverSetFails
  <2>3. CASE Environment /\ ~ Tick
    BY <2>3 DEF Environment, UserLocks, UserTransferOut, SomeoneConfirms, AnyoneConfirm,
       SomeoneRefunds, AnyoneRefund, SafeBlockMoves, Finalize, BlockMined, MineTransferIn,
       MineConfirm, MineRefund
  <2>4. CASE Callbacks \/ UNCHANGED vars
    BY <2>4 DEF Callbacks, vars
  <2> QED
    BY <2>1, <2>2, <2>3, <2>4 DEF Next
<1> QED
  BY <1>1, <1>2

-----------------------------------------------------------------------------
(* The chains: outcomes are final, and the safe block follows the contract.  *)

ContractMoves ==
    \A t \in Tids : \/ cstatus'[t] = cstatus[t]
                    \/ cstatus[t] = "Undefined" /\ cstatus'[t] = "Pending"
                    \/ cstatus[t] = "Pending" /\ cstatus'[t] \in {"Confirmed", "Refunded"}

LEMMA ContractsMove ==
    ASSUME TypeInv, [Next]_vars
    PROVE  ContractMoves
<1>. USE DEF TypeInv, TypeOK, ChainTypeOK, ContractMoves
<1>1. CASE ~ ContractMovers
  BY <1>1, OthersLeaveContracts
<1>2. ASSUME NEW t \in Tids, NEW outcome \in {"Confirmed", "Refunded"},
             cstatus[t] = "Pending", ContractSettles(t, outcome)
      PROVE  ContractMoves
  BY <1>2 DEF ContractSettles
<1>3. CASE \E o \in TransferOuts : UserLocks(o)
  BY <1>3 DEF UserLocks, UserTransferOut, CanLock, Tids
<1>4. CASE \E t \in Tids : SomeoneConfirms(t) \/ SomeoneRefunds(t)
  BY <1>4, <1>2 DEF SomeoneConfirms, AnyoneConfirm, CanConfirm, SomeoneRefunds, AnyoneRefund, CanRefund
<1>5. ASSUME NEW tx \in pendingIn, MineTransferIn(tx)
      PROVE  ContractMoves
  <2>1. tx.tid \in Tids
    BY DEF TransferInTxs, Tids
  <2> QED
    BY <1>5, <2>1 DEF MineTransferIn, CanLock, contractVars
<1>6. ASSUME NEW tx \in pendingConfirm, MineConfirm(tx)
      PROVE  ContractMoves
  <2>1. tx.tid \in Tids
    BY DEF ConfirmTxs
  <2> QED
    BY <1>6, <2>1, <1>2 DEF MineConfirm, CanConfirm, contractVars
<1>7. ASSUME NEW i \in pendingRefund, MineRefund(i)
      PROVE  ContractMoves
  <2>1. i \in Tids
    BY DEF Tids
  <2> QED
    BY <1>7, <2>1, <1>2 DEF MineRefund, CanRefund, contractVars
<1> QED
  BY <1>1, <1>3, <1>4, <1>5, <1>6, <1>7 DEF ContractMovers, BlockMined

SafeBlockFollows ==
    \A t \in Tids : \/ cfinal'[t] = cfinal[t]
                    \/ cfinal[t] = "Undefined" /\ cfinal'[t] = "Pending" /\ cstatus[t] # "Undefined"
                    \/ cfinal[t] = "Pending" /\ cfinal'[t] = cstatus[t]

LEMMA SafeBlockMoving ==
    ASSUME TypeInv, ChainFollows, [Next]_vars
    PROVE  SafeBlockFollows
<1>. USE DEF TypeInv, TypeOK, ChainTypeOK, SafeBlockFollows
<1>1. CASE \E t \in Tids : SafeBlockMoves(t)
  BY <1>1 DEF SafeBlockMoves, Finalize, ChainFollows, ContractStatuses
<1>2. CASE ~ \E t \in Tids : SafeBlockMoves(t)
  BY <1>2, OthersLeaveSafeBlock
<1> QED
  BY <1>1, <1>2

LEMMA ChainFollowsNext ==
    ASSUME TypeInv, ChainFollows, [Next]_vars
    PROVE  ChainFollows'
<1>1. ContractMoves /\ SafeBlockFollows
  BY ContractsMove, SafeBlockMoving
<1>2. UNCHANGED cstatus \/ UNCHANGED cfinal
  <2>1. CASE ContractMovers
    BY <2>1 DEF ContractMovers, UserLocks, UserTransferOut, SomeoneConfirms, AnyoneConfirm,
       SomeoneRefunds, AnyoneRefund, BlockMined, MineTransferIn, MineConfirm, MineRefund
  <2> QED
    BY <2>1, OthersLeaveContracts
<1> QED
  BY <1>1, <1>2 DEF ChainFollows, ContractMoves, SafeBlockFollows, TypeInv, TypeOK, ChainTypeOK,
     ContractStatuses

\* What the node has read at the safe block stays true.
SafeBlockGrows ==
    \A t \in Tids : /\ cfinal[t] # "Undefined" => cfinal'[t] # "Undefined"
                    /\ cfinal[t] \in {"Confirmed", "Refunded"} => cfinal'[t] = cfinal[t]

LEMMA SafeBlockGrowing ==
    ASSUME TypeInv, ChainFollows, [Next]_vars
    PROVE  SafeBlockGrows
BY SafeBlockMoving DEF SafeBlockFollows, SafeBlockGrows, ChainFollows

-----------------------------------------------------------------------------
(* The workers: a worker's place changes by its own steps, or it gives up.   *)

WorkerSame(w) == pc'[w] = pc[w] /\ cur'[w] = cur[w] /\ todo'[w] = todo[w]
WorkerGivesUp(w) == pc'[w] = "loop" /\ todo'[w] \subseteq todo[w]

LEMMA WorkersAct ==
    ASSUME TypeInv, [Next]_vars
    PROVE  /\ \/ WorkerSame("send") \/ WorkerGivesUp("send")
              \/ SendStep \/ SendTransactFails
           /\ \/ WorkerSame("confirm") \/ WorkerGivesUp("confirm")
              \/ ConfirmStep \/ ConfirmMarkFails
           /\ \/ WorkerSame("refund") \/ WorkerGivesUp("refund")
              \/ RefundStep \/ RefundMarkFails
<1>. USE DEF TypeInv, TypeOK, Workers, WorkerSame, WorkerGivesUp, workerVars
<1>1. CASE SendStep
  BY <1>1 DEF SendStep, SendQuery, SendRead, SendRecordLocked, SendFee, SendMark, SendTransact,
     QueryReturns, TakeRow, GoTo, RowDone
<1>2. CASE ConfirmStep
  BY <1>2 DEF ConfirmStep, ConfirmQuery, ConfirmRead, ConfirmMark, ConfirmTransact,
     ConfirmRecordRefunded, ConfirmRecordConfirmed, QueryReturns, TakeRow, GoTo, RowDone
<1>3. CASE RefundStep
  BY <1>3 DEF RefundStep, RefundQuery, RefundRead, RefundMark, RefundLookup, RefundConfirm,
     RefundCheckOut, RefundTransact, RefundRecordRefunded, QueryReturns, TakeRow, GoTo, RowDone
<1>4. CASE RecoverStep
  BY <1>4 DEF RecoverStep, RecoverQuery, RecoverSet, RecoverTakes
<1>5. CASE Faulty
  <2>1. CASE Crash
    BY <2>1 DEF Crash
  <2>2. CASE \/ TransactionLost
             \/ \E t \in Tids, kind \in EventKinds : CallbackFails(t, kind) \/ EventMissed(t, kind)
    BY <2>2 DEF TransactionLost, CallbackFails, EventMissed
  <2>3. CASE \E w \in Workers : RowFails(w) \/ \E t \in Tids : ReadFails(w, t)
    BY <2>3 DEF RowFails, ReadFails, TakeRow, RowDone
  <2>4. CASE SendTransactFails \/ ConfirmMarkFails \/ RefundMarkFails
    BY <2>4 DEF SendTransactFails, ConfirmMarkFails, RefundMarkFails, FailureIsPassed, GoTo
  <2>5. CASE \E t \in Tids : RecoverSetFails(t)
    BY <2>5 DEF RecoverSetFails, RecoverTakes
  <2> QED
    BY <1>5, <2>1, <2>2, <2>3, <2>4, <2>5 DEF Faulty
<1>6. CASE Environment
  BY <1>6 DEF Environment, UserLocks, SomeoneConfirms, SomeoneRefunds, SafeBlockMoves,
     BlockMined, Tick, NodeLeaves
<1>7. CASE Callbacks
  BY <1>7 DEF Callbacks, OnTransferOut, OnTransferOutSaveIn, OnTransferIn, OnConfirmed,
     OnConfirmedSetRelated, OnRefunded, CallbackLeaves
<1>8. CASE UNCHANGED vars
  BY <1>8 DEF vars
<1> QED
  BY <1>1, <1>2, <1>3, <1>4, <1>5, <1>6, <1>7, <1>8 DEF Next

-----------------------------------------------------------------------------
(* Statuses.                                                                 *)

LEMMA WorkersSawNext ==
    ASSUME TypeInv, ChainFollows, WorkersSaw, [Next]_vars
    PROVE  WorkersSaw'
<1>. USE DEF TypeInv, TypeOK, Workers
<1>0. SafeBlockGrows /\ TransferIns \subseteq Tids
  BY SafeBlockGrowing DEF Tids
<1>1. (pc["send"] = "recordLocked" => cfinal[cur["send"]] # "Undefined")'
  <2>1. CASE WorkerSame("send") \/ WorkerGivesUp("send")
    BY <2>1, <1>0 DEF WorkerSame, WorkerGivesUp, WorkersSaw, SafeBlockGrows, WorkersTyped
  <2>2. CASE SendStep
    <3>1. ASSUME NEW i \in TransferIns, SendRead(i), pc'["send"] = "recordLocked"
          PROVE  cur'["send"] = i /\ cfinal[i] # "Undefined" /\ cfinal' = cfinal
      BY <3>1 DEF SendRead, TakeRow, OnlyReads, chainVars
    <3>2. CASE ~ \E i \in TransferIns : SendRead(i)
      BY <2>2, <3>2 DEF SendStep, SendQuery, SendRecordLocked, SendFee, SendMark, SendTransact,
         QueryReturns, GoTo, RowDone
    <3> QED
      BY <3>1, <3>2
  <2>3. CASE SendTransactFails
    BY <2>3 DEF SendTransactFails, FailureIsPassed, GoTo
  <2> QED
    BY <2>1, <2>2, <2>3, WorkersAct
<1>2. (/\ pc["confirm"] = "recordRefunded" => cfinal[cur["confirm"]] = "Refunded"
       /\ pc["confirm"] = "recordConfirmed" => cfinal[cur["confirm"]] = "Confirmed")'
  <2>1. CASE WorkerSame("confirm") \/ WorkerGivesUp("confirm")
    BY <2>1, <1>0 DEF WorkerSame, WorkerGivesUp, WorkersSaw, SafeBlockGrows, WorkersTyped
  <2>2. CASE ConfirmStep
    <3>1. ASSUME NEW t \in Tids, ConfirmRead(t)
          PROVE  /\ pc'["confirm"] = "recordRefunded" =>
                       cur'["confirm"] = t /\ cfinal'[t] = "Refunded"
                 /\ pc'["confirm"] = "recordConfirmed" =>
                       cur'["confirm"] = t /\ cfinal'[t] = "Confirmed"
      BY <3>1 DEF ConfirmRead, TakeRow, OnlyReads, chainVars
    <3>2. CASE ~ \E t \in Tids : ConfirmRead(t)
      BY <2>2, <3>2 DEF ConfirmStep, ConfirmQuery, ConfirmMark, ConfirmTransact,
         ConfirmRecordRefunded, ConfirmRecordConfirmed, QueryReturns, GoTo, RowDone
    <3> QED
      BY <3>1, <3>2
  <2>3. CASE ConfirmMarkFails
    BY <2>3 DEF ConfirmMarkFails, FailureIsPassed, GoTo
  <2> QED
    BY <2>1, <2>2, <2>3, WorkersAct
<1>3. (pc["refund"] = "recordRefunded" => cfinal[cur["refund"]] = "Refunded")'
  <2>1. CASE WorkerSame("refund") \/ WorkerGivesUp("refund")
    BY <2>1, <1>0 DEF WorkerSame, WorkerGivesUp, WorkersSaw, SafeBlockGrows, WorkersTyped
  <2>2. CASE RefundStep
    <3>1. ASSUME NEW i \in TransferIns, RefundRead(i), pc'["refund"] = "recordRefunded"
          PROVE  cur'["refund"] = i /\ cfinal'[i] = "Refunded"
      BY <3>1 DEF RefundRead, TakeRow, OnlyReads, chainVars
    <3>2. CASE ~ \E i \in TransferIns : RefundRead(i)
      BY <2>2, <3>2 DEF RefundStep, RefundQuery, RefundMark, RefundLookup, RefundConfirm,
         RefundCheckOut, RefundTransact, RefundRecordRefunded, QueryReturns, GoTo, RowDone
    <3> QED
      BY <3>1, <3>2
  <2>3. CASE RefundMarkFails
    BY <2>3 DEF RefundMarkFails, FailureIsPassed, GoTo
  <2> QED
    BY <2>1, <2>2, <2>3, WorkersAct
<1> QED
  BY <1>1, <1>2, <1>3 DEF WorkersSaw

\* How the status of a row may change, and what the safe block shows then.
StatusMoves ==
    \A t \in Tids :
       \/ status'[t] = status[t]
       \/ status'[t] = "CONFIRMED" /\ cfinal[t] = "Confirmed"
       \/ status'[t] = "REFUNDED" /\ cfinal[t] = "Refunded"
       \/ status'[t] = "LOCKED" /\ status[t] \notin SettledStatuses /\ cfinal[t] # "Undefined"
       \/ status'[t] \in {"CONFIRM_PENDING", "REFUND_PENDING"} /\ status[t] = "LOCKED"
       \/ /\ status'[t] \in {"TRANSFER_IN_START", "TRANSFER_IN_PENDING"}
          /\ status[t] \notin SettledStatuses

LEMMA StatusesMove ==
    ASSUME TypeInv, StatusInv, [Next]_vars
    PROVE  StatusMoves
<1>. USE DEF TypeInv, TypeOK, TableTypeOK, StatusMoves, SettledStatuses, HasRow, SetStatus
<1>0. TransferIns \subseteq Tids /\ TransferOuts \subseteq Tids
  BY DEF Tids
<1>w. /\ pc["send"] # "loop" => cur["send"] \in Tids
      /\ pc["confirm"] # "loop" => cur["confirm"] \in Tids
      /\ pc["refund"] # "loop" => cur["refund"] \in Tids
  BY <1>0 DEF WorkersTyped
<1>1. CASE ~ TableWriters
  BY <1>1, OthersLeaveTable
<1>2. ASSUME NEW o \in TransferOuts, OnTransferOut(o)
      PROVE  StatusMoves
  BY <1>2, <1>0 DEF OnTransferOut, Delivered, EventIsFinal, InsertTransfer, tableVars
<1>3. ASSUME NEW o \in TransferOuts, OnTransferOutSaveIn(o)
      PROVE  StatusMoves
  BY <1>3, <1>0 DEF OnTransferOutSaveIn, InsertTransfer, tableVars
<1>4. ASSUME NEW i \in TransferIns, OnTransferIn(i)
      PROVE  StatusMoves
  BY <1>4, <1>0 DEF OnTransferIn, Delivered, EventIsFinal, RecordTransferIn
<1>5. ASSUME NEW t \in Tids, OnConfirmed(t)
      PROVE  StatusMoves
  BY <1>5 DEF OnConfirmed, Delivered, EventIsFinal, ConfirmTransfer
<1>6. ASSUME NEW t \in Tids, OnConfirmedSetRelated(t)
      PROVE  StatusMoves
  BY <1>6 DEF OnConfirmedSetRelated, SetRelatedTxPreimage
<1>7. ASSUME NEW t \in Tids, OnRefunded(t)
      PROVE  StatusMoves
  BY <1>7 DEF OnRefunded, Delivered, EventIsFinal, RefundTransfer, UpdateTransferStatus
<1>8. CASE SendRecordLocked
  BY <1>8, <1>w DEF SendRecordLocked, SetTransferStatusByFrom, StatusInv, WorkersSaw
<1>9. CASE \E f \in Fees : SendFee(f)
  BY <1>9 DEF SendFee, SetTransferInAmountAndFee, tableVars
<1>10. CASE SendMark
  BY <1>10, <1>w DEF SendMark, SetPendingTransferIn, SetTransferStatusByFrom
<1>11. CASE ConfirmMark
  BY <1>11, <1>w DEF ConfirmMark, SetTransferStatusByFrom
<1>12. CASE ConfirmRecordRefunded
  BY <1>12, <1>w DEF ConfirmRecordRefunded, UpdateTransferStatus, StatusInv, WorkersSaw
<1>13. CASE ConfirmRecordConfirmed
  BY <1>13, <1>w DEF ConfirmRecordConfirmed, ConfirmTransfer, StatusInv, WorkersSaw
<1>14. CASE RefundMark
  BY <1>14, <1>w DEF RefundMark, SetTransferStatusByFrom
<1>15. CASE RefundRecordRefunded
  BY <1>15, <1>w DEF RefundRecordRefunded, UpdateTransferStatus, StatusInv, WorkersSaw
<1>16. ASSUME NEW t \in Tids, RecoverSet(t)
       PROVE  StatusMoves
  BY <1>16 DEF RecoverSet, RecoverRow, SetTransferStatusByFrom, StatusInv, StatusMatchesChain
<1> QED
  BY <1>1, <1>2, <1>3, <1>4, <1>5, <1>6, <1>7, <1>8, <1>9, <1>10, <1>11, <1>12, <1>13, <1>14,
     <1>15, <1>16 DEF TableWriters

LEMMA StatusInvNext ==
    ASSUME TypeInv, StatusInv, [Next]_vars
    PROVE  StatusInv'
<1>1. SafeBlockGrows /\ StatusMoves
  BY SafeBlockGrowing, StatusesMove DEF StatusInv
<1>2. StatusMatchesChain'
  BY <1>1 DEF StatusInv, StatusMatchesChain, SafeBlockGrows, StatusMoves
<1> QED
  BY <1>2, ChainFollowsNext, WorkersSawNext DEF StatusInv

LEMMA StatusInvInit == Init => StatusInv
BY DEF Init, ChainInit, TableInit, StatusInv, ChainFollows, WorkersSaw, StatusMatchesChain, Workers

LEMMA StatusInvHolds == Spec => [](TypeInv /\ RowsInv /\ StatusInv)
<1>1. TypeInv /\ StatusInv /\ [Next]_vars => StatusInv'
  BY StatusInvNext
<1> QED
  BY <1>1, TypeInvHolds, StatusInvInit, PTL DEF Spec

\* A row of the table never runs ahead of the contract: the confirm and refund
\* workers, the recovery and four monitors write it from reads made earlier,
\* and still it says CONFIRMED or REFUNDED only after the safe block did.
THEOREM RowsFollowContracts == Spec => []StatusMatchesChain
<1>1. StatusInv => StatusMatchesChain
  BY DEF StatusInv
<1> QED
  BY <1>1, StatusInvHolds, PTL

\* The updates that do not look at the status they replace (ConfirmTransfer,
\* RefundTransfer, UpdateTransferStatus) never reopen or flip a settled row.
THEOREM SettledRowsAreFinal == Spec => SettledRowsStay
<1>1. TypeInv /\ StatusInv /\ [Next]_vars
         => [\A t \in Tids : status[t] \in SettledStatuses => status'[t] = status[t]]_vars
  <2> SUFFICES ASSUME TypeInv, StatusInv, [Next]_vars
               PROVE  \A t \in Tids : status[t] \in SettledStatuses => status'[t] = status[t]
    OBVIOUS
  <2> QED
    BY StatusesMove DEF StatusMoves, StatusInv, StatusMatchesChain, SettledStatuses
<1> QED
  BY <1>1, StatusInvHolds, PTL DEF Spec, SettledRowsStay

-----------------------------------------------------------------------------
(* Pairs of transfers.                                                       *)

LEMMA EventsSeenNext ==
    ASSUME TypeInv, ChainFollows, EventsSeen, [Next]_vars
    PROVE  EventsSeen'
<1>. USE DEF TypeInv, TypeOK
<1>0. \A t \in Tids, kind \in EventKinds : EventIsFinal(t, kind) => EventIsFinal(t, kind)'
  BY SafeBlockGrowing DEF SafeBlockGrows, EventIsFinal, EventKinds
<1>0a. TransferIns \subseteq Tids /\ TransferOuts \subseteq Tids
  BY DEF Tids
<1>1. ASSUME UNCHANGED handler
      PROVE  EventsSeen'
  BY <1>1, <1>0 DEF EventsSeen
<1>2. ASSUME NEW t \in Tids, NEW k \in EventKinds, NEW p, HandlerAt(t, k, p), EventIsFinal(t, k)
      PROVE  EventsSeen'
  BY <1>2, <1>0 DEF EventsSeen, HandlerAt
<1>3. CASE Callbacks
  <2>1. ASSUME NEW o \in TransferOuts, OnTransferOut(o) \/ OnTransferOutSaveIn(o)
        PROVE  EventsSeen'
    <3>1. o \in Tids /\ EventIsFinal(o, "locked") /\ \E p : HandlerAt(o, "locked", p)
      BY <2>1, <1>0a DEF OnTransferOut, OnTransferOutSaveIn, Delivered, EventsSeen, EventKinds
    <3> QED
      BY <3>1, <1>2 DEF EventKinds
  <2>2. ASSUME NEW i \in TransferIns, OnTransferIn(i)
        PROVE  EventsSeen'
    BY <2>2, <1>0a, <1>2 DEF OnTransferIn, Delivered, EventKinds
  <2>3. ASSUME NEW t \in Tids, OnConfirmed(t) \/ OnConfirmedSetRelated(t)
        PROVE  EventsSeen'
    <3>1. EventIsFinal(t, "confirmed") /\ \E p : HandlerAt(t, "confirmed", p)
      BY <2>3 DEF OnConfirmed, OnConfirmedSetRelated, Delivered, EventsSeen, EventKinds
    <3> QED
      BY <3>1, <1>2 DEF EventKinds
  <2>4. ASSUME NEW t \in Tids, OnRefunded(t)
        PROVE  EventsSeen'
    BY <2>4, <1>2 DEF OnRefunded, Delivered, EventKinds
  <2> QED
    BY <1>3, <2>1, <2>2, <2>3, <2>4 DEF Callbacks
<1>4. CASE SendStep \/ ConfirmStep \/ RefundStep \/ RecoverStep
  <2>1. UNCHANGED handler
    BY <1>4 DEF SendStep, SendQuery, SendRead, SendRecordLocked, SendFee, SendMark, SendTransact,
       ConfirmStep, ConfirmQuery, ConfirmRead, ConfirmMark, ConfirmTransact, ConfirmRecordRefunded,
       ConfirmRecordConfirmed, RefundStep, RefundQuery, RefundRead, RefundMark, RefundLookup,
       RefundConfirm, RefundCheckOut, RefundTransact, RefundRecordRefunded, RecoverStep,
       RecoverQuery, RecoverSet, OnlyReads, OnlyWritesTable, OnlySubmits
  <2> QED
    BY <2>1, <1>1
<1>5. CASE Faulty
  <2>1. CASE Crash
    BY <2>1, <1>0 DEF Crash, EventsSeen
  <2>2. ASSUME NEW t \in Tids, NEW k \in EventKinds, CallbackFails(t, k) \/ EventMissed(t, k)
        PROVE  EventsSeen'
    <3>1. EventIsFinal(t, k) /\ \E p : HandlerAt(t, k, p)
      BY <2>2 DEF CallbackFails, EventMissed, Delivered, EventsSeen
    <3> QED
      BY <3>1, <1>2
  <2>3. CASE ~ Crash /\ ~ \E t \in Tids, k \in EventKinds : CallbackFails(t, k) \/ EventMissed(t, k)
    BY <1>5, <2>3, <1>1 DEF Faulty, TransactionLost, RowFails, ReadFails, SendTransactFails,
       ConfirmMarkFails, RefundMarkFails, FailureIsPassed, RecoverSetFails
  <2> QED
    BY <2>1, <2>2, <2>3
<1>6. CASE Environment
  BY <1>6, <1>1 DEF Environment, UserLocks, SomeoneConfirms, SomeoneRefunds, SafeBlockMoves,
     BlockMined, Tick, NodeLeaves
<1>7. CASE UNCHANGED vars
  BY <1>7, <1>1 DEF vars
<1> QED
  BY <1>3, <1>4, <1>5, <1>6, <1>7 DEF Next

\* A row appears by the first or the second statement of LogNewTransferOut only.
NewRows ==
    \A t \in Tids : HasRow(t)' /\ ~ HasRow(t) =>
       \/ t \in TransferOuts /\ OnTransferOut(t)
       \/ \E o \in TransferOuts : t = RelatedIn[o] /\ OnTransferOutSaveIn(o)

\* A row keeps its time lock, and the sum of its amount and its fee.
RowKeepsData ==
    \A t \in Tids : HasRow(t) =>
       timelock'[t] = timelock[t] /\ amount'[t] + fee'[t] = amount[t] + fee[t]

LEMMA RowsKeepData ==
    ASSUME TypeInv, RowsInv, [Next]_vars
    PROVE  NewRows /\ RowKeepsData
<1>. USE DEF TypeInv, TypeOK, TableTypeOK, NewRows, RowKeepsData, HasRow, SetStatus
<1>0. TransferIns \subseteq Tids /\ TransferOuts \subseteq Tids
  BY DEF Tids
<1>1. CASE ~ TableWriters
  BY <1>1, OthersLeaveTable
<1>2. ASSUME NEW o \in TransferOuts, OnTransferOut(o)
      PROVE  NewRows /\ RowKeepsData
  <2>1. \A r \in Tids : HasRow(r) \/ r # o =>
           /\ status'[r] = status[r] /\ timelock'[r] = timelock[r]
           /\ amount'[r] = amount[r] /\ fee'[r] = fee[r]
    BY <1>2, <1>0, InsertOnlyAddsRow DEF OnTransferOut
  <2> QED
    BY <1>2, <2>1
<1>3. ASSUME NEW o \in TransferOuts, OnTransferOutSaveIn(o)
      PROVE  NewRows /\ RowKeepsData
  <2>1. RelatedIn[o] \in Tids
    BY <1>0, TransfersAssumption
  <2>2. \A r \in Tids : HasRow(r) \/ r # RelatedIn[o] =>
           /\ status'[r] = status[r] /\ timelock'[r] = timelock[r]
           /\ amount'[r] = amount[r] /\ fee'[r] = fee[r]
    BY <1>3, <2>1, InsertOnlyAddsRow DEF OnTransferOutSaveIn
  <2> QED
    BY <1>3, <2>2
<1>4. ASSUME NEW t \in Tids, OnTransferIn(t) \/ OnConfirmed(t) \/ OnConfirmedSetRelated(t) \/ OnRefunded(t)
      PROVE  NewRows /\ RowKeepsData
  BY <1>4 DEF OnTransferIn, RecordTransferIn, OnConfirmed, ConfirmTransfer, OnConfirmedSetRelated,
     SetRelatedTxPreimage, OnRefunded, RefundTransfer, UpdateTransferStatus
<1>5. ASSUME NEW t, NEW to, NEW from \in Statuses \ {"UNDEFINED"}, SetTransferStatusByFrom(t, to, from)
      PROVE  NewRows /\ RowKeepsData
  BY <1>5 DEF SetTransferStatusByFrom
<1>6. CASE SendRecordLocked \/ SendMark \/ ConfirmMark \/ RefundMark
  BY <1>6, <1>5 DEF SendRecordLocked, SendMark, SetPendingTransferIn, ConfirmMark, RefundMark, Statuses
<1>7. ASSUME NEW f \in Fees, SendFee(f)
      PROVE  NewRows /\ RowKeepsData
  <2>1. cur["send"] \in Tids /\ f \in Nat
    BY <1>7, <1>0, AmountsAssumption DEF SendFee, WorkersTyped
  <2> QED
    BY <1>7, <2>1 DEF SendFee, SetTransferInAmountAndFee, OriginAmount, tableVars
<1>8. CASE ConfirmRecordRefunded \/ ConfirmRecordConfirmed \/ RefundRecordRefunded
  BY <1>8 DEF ConfirmRecordRefunded, ConfirmRecordConfirmed, RefundRecordRefunded,
     UpdateTransferStatus, ConfirmTransfer
<1>9. ASSUME NEW t \in Tids, RecoverSet(t)
      PROVE  NewRows /\ RowKeepsData
  BY <1>9, <1>5 DEF RecoverSet, RecoverRow, Statuses
<1> QED
  BY <1>0, <1>1, <1>2, <1>3, <1>4, <1>6, <1>7, <1>8, <1>9 DEF TableWriters

LEMMA RowsPairedNext ==
    ASSUME TypeInv, RowsInv, ChainFollows, PairsInv, [Next]_vars
    PROVE  OutSavedFirst' /\ OutsPaired' /\ InsPaired'
<1>. USE DEF TypeInv, TypeOK
<1>0. /\ TransferIns \subseteq Tids /\ TransferOuts \subseteq Tids
      /\ RowsStay /\ NewRows /\ RowKeepsData /\ SafeBlockGrows
  BY TableKeepsRows, RowsKeepData, SafeBlockGrowing DEF Tids, RowsInv
<1>i. ASSUME NEW o \in TransferOuts, OnTransferOut(o)
      PROVE  /\ HasRow(o)'
             /\ ~ HasRow(o) => relatedTid'[o] = RelatedIn[o]
             /\ cfinal[o] # "Undefined"
  BY <1>i, <1>0 DEF OnTransferOut, Delivered, EventIsFinal, InsertTransfer, tableVars, HasRow,
     TableTypeOK
<1>j. ASSUME NEW o \in TransferOuts, OnTransferOutSaveIn(o), ~ HasRow(RelatedIn[o])
      PROVE  /\ relatedTid'[RelatedIn[o]] = o
             /\ timelock'[RelatedIn[o]] = InTimeLock(o)
             /\ amount'[RelatedIn[o]] = DstAmount[o] /\ fee'[RelatedIn[o]] = 0
             /\ HasRow(o)
  BY <1>j, <1>0, TransfersAssumption DEF OnTransferOutSaveIn, InsertTransfer, HasRow, TableTypeOK, PairsInv, OutSavedFirst
<1>1. OutSavedFirst'
  <2> SUFFICES ASSUME NEW o \in TransferOuts, handler'[o]["locked"] = "second"
               PROVE  HasRow(o)'
    BY DEF OutSavedFirst
  <2>1. CASE handler[o]["locked"] = "second"
    BY <2>1, <1>0 DEF PairsInv, OutSavedFirst, RowsStay
  <2>2. CASE handler[o]["locked"] # "second"
    <3>1. OnTransferOut(o)
      <4>1. CASE Callbacks
        BY <4>1, <2>2, <1>0 DEF Callbacks, OnTransferOut, OnTransferOutSaveIn, OnTransferIn,
           OnConfirmed, OnConfirmedSetRelated, OnRefunded, HandlerAt, EventKinds
      <4>2. CASE SendStep \/ ConfirmStep \/ RefundStep \/ RecoverStep
        BY <4>2, <2>2 DEF SendStep, SendQuery, SendRead, SendRecordLocked, SendFee, SendMark,
           SendTransact, ConfirmStep, ConfirmQuery, ConfirmRead, ConfirmMark, ConfirmTransact,
           ConfirmRecordRefunded, ConfirmRecordConfirmed, RefundStep, RefundQuery, RefundRead,
           RefundMark, RefundLookup, RefundConfirm, RefundCheckOut, RefundTransact,
           RefundRecordRefunded, RecoverStep, RecoverQuery, RecoverSet, OnlyReads, OnlyWritesTable,
           OnlySubmits
      <4>3. CASE Faulty
        <5>1. ~ Crash
          <6>1. o \in Tids /\ "locked" \in EventKinds
            BY <1>0 DEF EventKinds
          <6>2. ASSUME NEW again,
                       handler' = [t \in Tids |-> [kind \in EventKinds |->
                                     IF handler[t][kind] = "second" \/ <<t, kind>> \in again
                                     THEN "new" ELSE handler[t][kind]]]
                PROVE  handler'[o]["locked"] \in {"new", handler[o]["locked"]}
            BY <6>2, <6>1
          <6> QED
            BY <6>2, <2>2 DEF Crash
        <5>2. ~ \E t \in Tids, k \in EventKinds : CallbackFails(t, k) \/ EventMissed(t, k)
          BY <2>2, <1>0 DEF CallbackFails, EventMissed, HandlerAt, EventKinds
        <5> QED
          BY <4>3, <2>2, <5>1, <5>2 DEF Faulty, TransactionLost, RowFails, ReadFails,
             SendTransactFails, ConfirmMarkFails, RefundMarkFails, FailureIsPassed, RecoverSetFails
      <4>4. CASE Environment
        BY <4>4, <2>2 DEF Environment, UserLocks, SomeoneConfirms, SomeoneRefunds, SafeBlockMoves,
           BlockMined, Tick, NodeLeaves
      <4>5. CASE UNCHANGED vars
        BY <4>5, <2>2 DEF vars
      <4> QED
        BY <4>1, <4>2, <4>3, <4>4, <4>5 DEF Next
    <3> QED
      BY <3>1, <1>i
  <2> QED
    BY <2>1, <2>2
<1>2. OutsPaired'
  <2> SUFFICES ASSUME NEW o \in TransferOuts, HasRow(o)'
               PROVE  relatedTid'[o] = RelatedIn[o] /\ cfinal'[o] # "Undefined"
    BY DEF OutsPaired
  <2>1. CASE HasRow(o)
    BY <2>1, <1>0 DEF RowsStay, SafeBlockGrows, PairsInv, OutsPaired
  <2>2. CASE ~ HasRow(o)
    <3>1. OnTransferOut(o)
      BY <2>2, <1>0, TransfersAssumption DEF NewRows
    <3> QED
      BY <3>1, <2>2, <1>i, <1>0 DEF SafeBlockGrows
  <2> QED
    BY <2>1, <2>2
<1>3. InsPaired'
  <2> SUFFICES ASSUME NEW i \in TransferIns, HasRow(i)'
               PROVE  /\ relatedTid'[i] \in TransferOuts /\ RelatedIn[relatedTid'[i]] = i
                      /\ HasRow(relatedTid[i])'
                      /\ timelock'[i] = InTimeLock(relatedTid'[i])
                      /\ amount'[i] + fee'[i] = DstAmount[relatedTid'[i]]
    BY DEF InsPaired, InTimeLock
  <2>1. CASE HasRow(i)
    BY <2>1, <1>0 DEF RowsStay, RowKeepsData, PairsInv, InsPaired, HasRow
  <2>2. CASE ~ HasRow(i)
    <3>1. PICK o \in TransferOuts : i = RelatedIn[o] /\ OnTransferOutSaveIn(o)
      BY <2>2, <1>0, TransfersAssumption DEF NewRows
    <3>2. /\ relatedTid'[i] = o /\ timelock'[i] = InTimeLock(o)
          /\ amount'[i] = DstAmount[o] /\ fee'[i] = 0 /\ HasRow(o)
      BY <3>1, <2>2, <1>j
    <3>3. HasRow(o)'
      BY <3>2, <1>0 DEF RowsStay
    <3> QED
      BY <3>1, <3>2, <3>3, AmountsAssumption DEF HasRow
  <2> QED
    BY <2>1, <2>2
<1> QED
  BY <1>1, <1>2, <1>3

\* Only four steps put a transaction into a pool.
Submitters == SendTransact \/ ConfirmTransact \/ RefundConfirm \/ RefundTransact

PoolsShrink ==
    /\ pendingIn' \subseteq pendingIn
    /\ pendingConfirm' \subseteq pendingConfirm
    /\ pendingRefund' \subseteq pendingRefund

LEMMA OthersSubmitNothing ==
    ASSUME [Next]_vars, ~ Submitters
    PROVE  PoolsShrink
<1>. USE DEF PoolsShrink, chainVars, contractVars, poolVars, Submitters
<1>1. CASE TableWriters
  BY <1>1, TableWritersLeaveChain DEF WritersLeaveChain
<1>2. CASE ~ TableWriters
  <2>. USE <1>2 DEF TableWriters
  <2>1. CASE SendStep
    BY <2>1 DEF SendStep, SendQuery, SendRead, OnlyReads
  <2>2. CASE ConfirmStep
    BY <2>2 DEF ConfirmStep, ConfirmQuery, ConfirmRead, OnlyReads
  <2>3. CASE RefundStep
    BY <2>3 DEF RefundStep, RefundQuery, RefundRead, RefundLookup, RefundCheckOut, OnlyReads
  <2>4. CASE RecoverStep
    BY <2>4 DEF RecoverStep, RecoverQuery, OnlyReads
  <2>5. CASE Faulty
    BY <2>5 DEF Faulty, Crash, TransactionLost, DropTransaction, CallbackFails, EventMissed,
       RowFails, ReadFails, SendTransactFails, ConfirmMarkFails, RefundMarkFails, FailureIsPassed,
       RecoverSetFails
  <2>6. CASE Environment
    BY <2>6 DEF Environment, UserLocks, UserTransferOut, SomeoneConfirms, AnyoneConfirm,
       SomeoneRefunds, AnyoneRefund, BlockMined, MineTransferIn, MineConfirm, MineRefund,
       SafeBlockMoves, Finalize, Tick, ClockTicks
  <2>7. CASE Callbacks
    BY <2>7 DEF Callbacks
  <2>8. CASE UNCHANGED vars
    BY <2>8 DEF vars
  <2> QED
    BY <2>1, <2>2, <2>3, <2>4, <2>5, <2>6, <2>7, <2>8 DEF Next
<1> QED
  BY <1>1, <1>2

LEMMA SubmittersAddOne ==
    ASSUME Submitters
    PROVE  /\ \/ pendingIn' = pendingIn
              \/ /\ SendTransact
                 /\ pendingIn' = pendingIn \union {[tid |-> cur["send"], amount |-> amount[cur["send"]],
                                                    timelock |-> timelock[cur["send"]]]}
           /\ \/ pendingConfirm' = pendingConfirm
              \/ /\ ConfirmTransact
                 /\ pendingConfirm' = pendingConfirm \union
                       {[tid |-> cur["confirm"], preimage |-> preimage[cur["confirm"]]]}
              \/ /\ RefundConfirm
                 /\ pendingConfirm' = pendingConfirm \union
                       {[tid |-> cur["refund"], preimage |-> preimage[RelatedOut]]}
           /\ \/ pendingRefund' = pendingRefund
              \/ RefundTransact /\ pendingRefund' = pendingRefund \union {cur["refund"]}
BY DEF Submitters, SendTransact, SubmitTransferIn, ConfirmTransact, RefundConfirm, SubmitConfirm,
   RefundTransact, SubmitRefund

\* An IN comes into its contract by one of the node's transactions only.
InsLocked ==
    \A i \in TransferIns :
       \/ /\ cstatus'[i] # "Undefined" => cstatus[i] # "Undefined"
          /\ ctimelock'[i] = ctimelock[i] /\ camount'[i] = camount[i]
       \/ \E tx \in pendingIn :
             tx.tid = i /\ ctimelock'[i] = tx.timelock /\ camount'[i] = tx.amount

LEMMA OnlyNodeLocksIns ==
    ASSUME TypeInv, [Next]_vars
    PROVE  InsLocked
<1>. USE DEF TypeInv, TypeOK, ChainTypeOK, InsLocked
<1>0. TransferIns \subseteq Tids /\ TransferIns \intersect TransferOuts = {}
  BY TransfersAssumption DEF Tids
<1>1. CASE ~ ContractMovers
  BY <1>1, OthersLeaveContracts
<1>2. ASSUME UNCHANGED <<ctimelock, camount>>, ContractMoves,
             \A t \in Tids : cstatus[t] = "Undefined" => cstatus'[t] = "Undefined"
      PROVE  InsLocked
  BY <1>2, <1>0
<1>3. ASSUME NEW t \in Tids, NEW outcome, cstatus[t] = "Pending", ContractSettles(t, outcome)
      PROVE  InsLocked
  BY <1>3, <1>0 DEF ContractSettles
<1>4. CASE \E o \in TransferOuts : UserLocks(o)
  BY <1>4, <1>0 DEF UserLocks, UserTransferOut
<1>5. CASE \E t \in Tids : SomeoneConfirms(t) \/ SomeoneRefunds(t)
  BY <1>5, <1>3 DEF SomeoneConfirms, AnyoneConfirm, CanConfirm, SomeoneRefunds, AnyoneRefund, CanRefund
<1>6. ASSUME NEW tx \in pendingIn, MineTransferIn(tx)
      PROVE  InsLocked
  <2>1. tx.tid \in TransferIns
    BY DEF TransferInTxs
  <2>2. CASE UNCHANGED contractVars
    BY <2>2 DEF contractVars
  <2>3. CASE ~ UNCHANGED contractVars
    BY <1>6, <2>1, <2>3, <1>0 DEF MineTransferIn, contractVars
  <2> QED
    BY <2>2, <2>3
<1>7. ASSUME NEW tx \in pendingConfirm, MineConfirm(tx)
      PROVE  InsLocked
  <2>1. tx.tid \in Tids
    BY DEF ConfirmTxs
  <2> QED
    BY <1>7, <2>1, <1>3 DEF MineConfirm, CanConfirm, contractVars
<1>8. ASSUME NEW i \in pendingRefund, MineRefund(i)
      PROVE  InsLocked
  BY <1>8, <1>0, <1>3 DEF MineRefund, CanRefund, contractVars
<1> QED
  BY <1>1, <1>4, <1>5, <1>6, <1>7, <1>8 DEF ContractMovers, BlockMined

LEMMA InsKnownNext ==
    ASSUME TypeInv, RowsInv, ChainFollows, PairsInv, [Next]_vars
    PROVE  InsKnown'
<1>. USE DEF TypeInv, TypeOK, TableTypeOK, ChainTypeOK
<1>0. /\ TransferIns \subseteq Tids
      /\ RowsStay /\ RowKeepsData /\ InsLocked
  BY TableKeepsRows, RowsKeepData, OnlyNodeLocksIns DEF Tids, RowsInv
<1>1. ASSUME NEW tx \in pendingIn
      PROVE  /\ HasRow(tx.tid)' /\ tx.timelock = timelock'[tx.tid]
             /\ tx.amount <= DstAmount[relatedTid'[tx.tid]]
             /\ tx.tid \in TransferIns
  <2>1. tx.tid \in TransferIns
    BY DEF TransferInTxs
  <2> QED
    BY <2>1, <1>0 DEF PairsInv, InsKnown, RowsStay, RowKeepsData
<1>2. ASSUME NEW tx \in pendingIn' \ pendingIn
      PROVE  /\ HasRow(tx.tid)' /\ tx.timelock = timelock'[tx.tid]
             /\ tx.amount <= DstAmount[relatedTid'[tx.tid]]
  <2>1. SendTransact /\ tx = [tid |-> cur["send"], amount |-> amount[cur["send"]],
                              timelock |-> timelock[cur["send"]]]
    BY OthersSubmitNothing, SubmittersAddOne DEF PoolsShrink
  <2>2. cur["send"] \in TransferIns /\ HasRow(cur["send"])
    BY <2>1, <1>0, TransfersAssumption DEF SendTransact, WorkersTyped, RowsInv, RowsAtHand, Workers
  <2>3. /\ relatedTid[cur["send"]] \in TransferOuts
        /\ amount[cur["send"]] + fee[cur["send"]] = DstAmount[relatedTid[cur["send"]]]
    BY <2>2 DEF PairsInv, InsPaired
  <2>4. amount[cur["send"]] <= DstAmount[relatedTid[cur["send"]]]
    <3>1. amount[cur["send"]] \in Nat /\ fee[cur["send"]] \in Nat
      BY <2>2, <1>0
    <3> QED
      BY <3>1, <2>3
  <2> QED
    BY <2>1, <2>2, <2>4, <1>0 DEF RowsStay, RowKeepsData
<1>3. ASSUME NEW i \in TransferIns, cstatus'[i] # "Undefined"
      PROVE  /\ HasRow(i)' /\ ctimelock'[i] = timelock'[i]
             /\ camount'[i] <= DstAmount[relatedTid'[i]]
  <2>1. CASE \E tx \in pendingIn :
                tx.tid = i /\ ctimelock'[i] = tx.timelock /\ camount'[i] = tx.amount
    BY <2>1, <1>1
  <2>2. CASE ~ \E tx \in pendingIn :
                tx.tid = i /\ ctimelock'[i] = tx.timelock /\ camount'[i] = tx.amount
    BY <2>2, <1>3, <1>0 DEF InsLocked, PairsInv, InsKnown, RowsStay, RowKeepsData
  <2> QED
    BY <2>1, <2>2
<1> QED
  BY <1>1, <1>2, <1>3 DEF InsKnown, HasRow

LEMMA PairsInvNext ==
    TypeInv /\ RowsInv /\ ChainFollows /\ PairsInv /\ [Next]_vars => PairsInv'
BY EventsSeenNext, RowsPairedNext, InsKnownNext DEF PairsInv

LEMMA PairsInvInit == Init => PairsInv
<1>1. ASSUME Init, NEW t \in Tids, NEW kind \in EventKinds
      PROVE  handler[t][kind] = "new"
  BY <1>1 DEF Init
<1>2. "locked" \in EventKinds /\ TransferIns \subseteq Tids /\ TransferOuts \subseteq Tids
  BY DEF EventKinds, Tids
<1>3. Init => EventsSeen /\ OutSavedFirst
  BY <1>1, <1>2 DEF EventsSeen, OutSavedFirst
<1>4. Init => OutsPaired /\ InsPaired /\ InsKnown
  BY <1>2 DEF Init, TableInit, ChainInit, OutsPaired, InsPaired, InsKnown, HasRow
<1> QED
  BY <1>3, <1>4 DEF PairsInv

LEMMA PairsInvHolds == Spec => [](TypeInv /\ RowsInv /\ StatusInv /\ PairsInv)
<1>1. TypeInv /\ RowsInv /\ StatusInv /\ PairsInv /\ [Next]_vars => PairsInv'
  BY PairsInvNext DEF StatusInv
<1> QED
  BY <1>1, StatusInvHolds, PairsInvInit, PTL DEF Spec

\* The node's tokens on the destination chain are covered by what a final OUT
\* holds for it on the source chain, whichever way sends, retries, recoveries,
\* crashes and reused hash locks interleave.
THEOREM InsAreBacked == Spec => []InIsBacked
<1>1. ASSUME TypeInv, PairsInv
      PROVE  InIsBacked
  <2>1. \A tx \in pendingIn : tx.tid \in TransferIns
    BY <1>1 DEF TypeInv, TypeOK, ChainTypeOK, TransferInTxs
  <2> QED
    BY <1>1, <2>1 DEF PairsInv, OutsPaired, InsPaired, InsKnown, InIsBacked
<1> QED
  BY <1>1, PairsInvHolds, PTL

\* However often sending is tried, the amount and the fee in the row of an IN
\* add up to what its OUT brought.
THEOREM AmountsConserved == Spec => []AmountConserved
<1>1. PairsInv => AmountConserved
  BY DEF PairsInv, InsPaired, AmountConserved
<1> QED
  BY <1>1, PairsInvHolds, PTL

\* From storing the fee of a try to submitting its transaction, the row holds that
\* fee: no other step writes it.
FeeAtHand == pc["send"] \in {"mark", "transact", "retry"} => fee[cur["send"]] \in Fees

FeesMove ==
    \A t \in Tids : HasRow(t) =>
       fee'[t] = fee[t] \/ \E f \in Fees : SendFee(f) /\ cur["send"] = t

LEMMA FeesMoving ==
    ASSUME TypeInv, [Next]_vars
    PROVE  FeesMove
<1>. USE DEF TypeInv, TypeOK, TableTypeOK, FeesMove
<1>0. TransferIns \subseteq Tids /\ TransferOuts \subseteq Tids
  BY DEF Tids
<1>1. CASE ~ TableWriters
  BY <1>1, OthersLeaveTable
<1>2. ASSUME NEW o \in TransferOuts, OnTransferOut(o)
      PROVE  FeesMove
  BY <1>2, <1>0, InsertOnlyAddsRow DEF OnTransferOut
<1>3. ASSUME NEW o \in TransferOuts, OnTransferOutSaveIn(o)
      PROVE  FeesMove
  <2>1. RelatedIn[o] \in Tids
    BY <1>0, TransfersAssumption
  <2> QED
    BY <1>3, <2>1, InsertOnlyAddsRow DEF OnTransferOutSaveIn
<1>4. ASSUME NEW f \in Fees, SendFee(f)
      PROVE  FeesMove
  BY <1>4 DEF SendFee, SetTransferInAmountAndFee, tableVars
<1>5. CASE TableWriters /\ ~ (\E f \in Fees : SendFee(f))
                        /\ ~ \E o \in TransferOuts : OnTransferOut(o) \/ OnTransferOutSaveIn(o)
  BY <1>5 DEF TableWriters, OnTransferIn, RecordTransferIn, OnConfirmed, ConfirmTransfer,
     OnConfirmedSetRelated, SetRelatedTxPreimage, OnRefunded, RefundTransfer,
     UpdateTransferStatus, SendRecordLocked, SendMark, SetPendingTransferIn, ConfirmMark,
     ConfirmRecordRefunded, ConfirmRecordConfirmed, RefundMark, RefundRecordRefunded, RecoverSet,
     RecoverRow, SetTransferStatusByFrom
<1> QED
  BY <1>1, <1>2, <1>3, <1>4, <1>5

LEMMA FeeAtHandNext ==
    ASSUME TypeInv, RowsInv, FeeAtHand, [Next]_vars
    PROVE  FeeAtHand'
<1>. USE DEF TypeInv, TypeOK, TableTypeOK, Workers
<1>0. FeesMove /\ TransferIns \subseteq Tids
  BY FeesMoving DEF Tids
<1>w. pc["send"] # "loop" => cur["send"] \in TransferIns /\ HasRow(cur["send"])
  BY TransfersAssumption, <1>0 DEF WorkersTyped, RowsInv, RowsAtHand
<1>1. ASSUME pc["send"] \in {"mark", "transact", "retry"}, cur'["send"] = cur["send"]
      PROVE  FeeAtHand'
  <2>1. fee'[cur["send"]] = fee[cur["send"]]
    BY <1>0, <1>1, <1>w DEF FeesMove, SendFee
  <2> QED
    BY <1>1, <2>1 DEF FeeAtHand
<1>2. CASE WorkerSame("send") \/ WorkerGivesUp("send")
  BY <1>1, <1>2 DEF WorkerSame, WorkerGivesUp, FeeAtHand
<1>3. CASE SendMark \/ SendTransactFails
  BY <1>1, <1>3 DEF SendMark, SendTransactFails, FailureIsPassed, GoTo
<1>4. CASE SendQuery \/ SendRecordLocked \/ SendTransact
  BY <1>4 DEF SendQuery, QueryReturns, SendRecordLocked, SendTransact, RowDone, FeeAtHand
<1>5. CASE \E i \in TransferIns : SendRead(i)
  BY <1>5 DEF SendRead, TakeRow, FeeAtHand
<1>6. ASSUME NEW f \in Fees, SendFee(f)
      PROVE  FeeAtHand'
  <2>1. pc["send"] = "fee"
    BY <1>6 DEF SendFee
  <2> QED
    BY <1>0, <1>6, <1>w, <2>1 DEF SendFee, SetTransferInAmountAndFee, GoTo, RowDone, FeeAtHand
<1> QED
  BY <1>2, <1>3, <1>4, <1>5, <1>6, WorkersAct DEF SendStep

LEMMA OneFeeChargedNext ==
    ASSUME TypeInv, RowsInv, ChainFollows, PairsInv, FeeAtHand, OneFeeCharged, [Next]_vars
    PROVE  OneFeeCharged'
<1>. USE DEF TypeInv, TypeOK, TableTypeOK, ChainTypeOK
<1>0. /\ TransferIns \subseteq Tids /\ RowsStay /\ InsLocked
      /\ \A tx \in pendingIn : tx.tid \in TransferIns
  BY TableKeepsRows, OnlyNodeLocksIns DEF Tids, RowsInv, TransferInTxs
<1>1. ASSUME NEW tx \in pendingIn
      PROVE  \E f \in Fees : tx.amount + f = DstAmount[relatedTid'[tx.tid]]
  BY <1>0 DEF OneFeeCharged, PairsInv, InsKnown, RowsStay
<1>2. ASSUME NEW tx \in pendingIn' \ pendingIn
      PROVE  \E f \in Fees : tx.amount + f = DstAmount[relatedTid'[tx.tid]]
  <2>1. SendTransact /\ tx = [tid |-> cur["send"], amount |-> amount[cur["send"]],
                              timelock |-> timelock[cur["send"]]]
    BY OthersSubmitNothing, SubmittersAddOne DEF PoolsShrink
  <2>2. cur["send"] \in TransferIns /\ HasRow(cur["send"])
    BY <2>1, <1>0, TransfersAssumption DEF SendTransact, WorkersTyped, RowsInv, RowsAtHand, Workers
  <2>3. amount[cur["send"]] + fee[cur["send"]] = DstAmount[relatedTid[cur["send"]]]
    BY <2>2 DEF PairsInv, InsPaired
  <2>4. fee[cur["send"]] \in Fees
    BY <2>1 DEF SendTransact, FeeAtHand
  <2>5. relatedTid'[cur["send"]] = relatedTid[cur["send"]]
    BY <1>0, <2>2 DEF RowsStay
  <2> QED
    BY <2>1, <2>3, <2>4, <2>5
<1>3. ASSUME NEW i \in TransferIns, cstatus'[i] # "Undefined"
      PROVE  \E f \in Fees : camount'[i] + f = DstAmount[relatedTid'[i]]
  <2>1. CASE \E tx \in pendingIn : tx.tid = i /\ camount'[i] = tx.amount
    BY <1>1, <2>1
  <2>2. CASE cstatus[i] # "Undefined" /\ camount'[i] = camount[i]
    BY <1>0, <2>2 DEF OneFeeCharged, PairsInv, InsKnown, RowsStay
  <2> QED
    BY <1>0, <1>3, <2>1, <2>2 DEF InsLocked
<1> QED
  BY <1>1, <1>2, <1>3 DEF OneFeeCharged

\* Whichever try to send is mined, and whatever fee its row holds by then, the user
\* is charged exactly one of the fees the gateway named.
THEOREM OneFeeIsCharged == Spec => []OneFeeCharged
<1>1. Init => FeeAtHand /\ OneFeeCharged
  BY DEF Init, ChainInit, Workers, FeeAtHand, OneFeeCharged, Tids
<1>2. TypeInv /\ RowsInv /\ FeeAtHand /\ [Next]_vars => FeeAtHand'
  BY FeeAtHandNext
<1>3. TypeInv /\ RowsInv /\ StatusInv /\ PairsInv /\ FeeAtHand /\ OneFeeCharged /\ [Next]_vars
         => OneFeeCharged'
  BY OneFeeChargedNext DEF StatusInv
<1> QED
  BY <1>1, <1>2, <1>3, PairsInvHolds, PTL DEF Spec

-----------------------------------------------------------------------------
(* Preimages.                                                                *)

\* The two transfers of a pair have one hash lock, and each row names the other.
LEMMA PairsShareHashLock ==
    ASSUME TypeInv, PairsInv, NEW t \in Tids, HasRow(t)
    PROVE  /\ relatedTid[t] \in Tids
           /\ HashLock[relatedTid[t]] = HashLock[t]
           /\ t \in TransferIns => HasRow(relatedTid[t]) /\ relatedTid[relatedTid[t]] = t
<1>1. CASE t \in TransferOuts
  BY <1>1, TransfersAssumption DEF PairsInv, OutsPaired, Tids
<1>2. CASE t \in TransferIns
  BY <1>2, TransfersAssumption DEF PairsInv, OutsPaired, InsPaired, Tids
<1> QED
  BY <1>1, <1>2, TransfersAssumption DEF Tids

\* The preimage of a row changes only to its own, once that is revealed.
PreimageMoves ==
    \A t \in Tids : \/ preimage'[t] = preimage[t]
                    \/ ~ HasRow(t) /\ preimage'[t] = NoPreimage
                    \/ HasRow(t) /\ preimage'[t] = HashLock[t] /\ Revealed(t)

ConfirmedWithPreimage ==
    \A t \in Tids :
       status'[t] = "CONFIRMED" => status[t] = "CONFIRMED" \/ preimage'[t] # NoPreimage

LEMMA PreimagesMove ==
    ASSUME TypeInv, RowsInv, StatusInv, PairsInv, PreimageInv, [Next]_vars
    PROVE  PreimageMoves /\ ConfirmedWithPreimage
<1>. USE DEF TypeInv, TypeOK, TableTypeOK, PreimageMoves, ConfirmedWithPreimage, HasRow, SetStatus
<1>0. TransferIns \subseteq Tids /\ TransferOuts \subseteq Tids
  BY DEF Tids
<1>1. CASE ~ TableWriters
  BY <1>1, OthersLeaveTable
<1>2. ASSUME NEW t, NEW initial \in Statuses \ {"CONFIRMED"}, NEW related, NEW lock, NEW amt,
             InsertTransfer(t, initial, related, lock, amt)
      PROVE  PreimageMoves /\ ConfirmedWithPreimage
  BY <1>2 DEF InsertTransfer, tableVars
<1>3. CASE \E o \in TransferOuts : OnTransferOut(o) \/ OnTransferOutSaveIn(o)
  BY <1>3, <1>2 DEF OnTransferOut, OnTransferOutSaveIn, Statuses
<1>4. ASSUME NEW t, NEW to \in Statuses \ {"CONFIRMED"},
             \/ UpdateTransferStatus(t, to)
             \/ \E from : SetTransferStatusByFrom(t, to, from)
      PROVE  PreimageMoves /\ ConfirmedWithPreimage
  BY <1>4 DEF UpdateTransferStatus, SetTransferStatusByFrom
<1>5. CASE \E i \in TransferIns : OnTransferIn(i)
  BY <1>5 DEF OnTransferIn, RecordTransferIn
<1>6. ASSUME NEW t \in Tids, OnConfirmed(t)
      PROVE  PreimageMoves /\ ConfirmedWithPreimage
  <2>1. cfinal[t] = "Confirmed" /\ HashLock[t] # NoPreimage
    BY <1>6, TransfersAssumption DEF OnConfirmed, Delivered, EventIsFinal
  <2> QED
    BY <1>6, <2>1 DEF OnConfirmed, ConfirmTransfer, Revealed
<1>7. ASSUME NEW t \in Tids, OnConfirmedSetRelated(t)
      PROVE  PreimageMoves /\ ConfirmedWithPreimage
  <2>1. cfinal[t] = "Confirmed"
    BY <1>7 DEF OnConfirmedSetRelated, PairsInv, EventsSeen, EventIsFinal, EventKinds
  <2>2. \A r \in Tids : HasRow(r) /\ relatedTid[r] = t => HashLock[t] = HashLock[r] /\ Revealed(r)
    BY <2>1, PairsShareHashLock DEF Revealed
  <2> QED
    BY <1>7, <2>2 DEF OnConfirmedSetRelated, SetRelatedTxPreimage
<1>8. CASE \E t \in Tids : OnRefunded(t)
  BY <1>8, <1>4 DEF OnRefunded, RefundTransfer, Statuses
<1>9. CASE SendRecordLocked \/ SendMark \/ ConfirmMark \/ RefundMark
  BY <1>9, <1>4 DEF SendRecordLocked, SendMark, SetPendingTransferIn, ConfirmMark, RefundMark, Statuses
<1>10. CASE \E f \in Fees : SendFee(f)
  BY <1>10 DEF SendFee, SetTransferInAmountAndFee, tableVars
<1>11. CASE ConfirmRecordRefunded \/ RefundRecordRefunded
  BY <1>11, <1>4 DEF ConfirmRecordRefunded, RefundRecordRefunded, Statuses
<1>12. CASE ConfirmRecordConfirmed
  <2>1. cur["confirm"] \in Tids /\ preimage[cur["confirm"]] # NoPreimage
    BY <1>12 DEF ConfirmRecordConfirmed, WorkersTyped, PreimageInv, PreimageAtHand
  <2> QED
    BY <1>12, <2>1 DEF ConfirmRecordConfirmed, ConfirmTransfer
<1>13. CASE \E t \in Tids : RecoverSet(t)
  BY <1>13, <1>4 DEF RecoverSet, RecoverRow, Statuses
<1> QED
  BY <1>1, <1>3, <1>5, <1>6, <1>7, <1>8, <1>9, <1>10, <1>11, <1>12, <1>13 DEF TableWriters

\* A preimage that was learnt stays, and so does what revealed it.
PreimagesStay ==
    \A t \in Tids :
       /\ preimage[t] # NoPreimage => preimage'[t] = preimage[t]
       /\ HasRow(t) /\ Revealed(t) => Revealed(t)'

LEMMA PreimagesKeep ==
    ASSUME TypeInv, RowsInv, StatusInv, PairsInv, PreimageInv, [Next]_vars
    PROVE  PreimagesStay
<1>1. RowsStay /\ SafeBlockGrows /\ PreimageMoves
  BY TableKeepsRows, SafeBlockGrowing, PreimagesMove DEF RowsInv, StatusInv
<1>2. ASSUME NEW t \in Tids, preimage[t] # NoPreimage
      PROVE  preimage'[t] = preimage[t]
  BY <1>1, <1>2 DEF PreimageMoves, PreimageInv, PreimagesRevealed
<1>3. ASSUME NEW t \in Tids, HasRow(t), Revealed(t)
      PROVE  Revealed(t)'
  BY <1>1, <1>3 DEF RowsStay, SafeBlockGrows, Revealed, RowsInv, RowsRelated
<1> QED
  BY <1>2, <1>3 DEF PreimagesStay

LEMMA PreimagesRevealedNext ==
    ASSUME TypeInv, RowsInv, StatusInv, PairsInv, PreimageInv, [Next]_vars
    PROVE  PreimagesRevealed' /\ ConfirmedHasPreimage'
<1>1. /\ RowsStay /\ PreimageMoves /\ ConfirmedWithPreimage /\ PreimagesStay
  BY TableKeepsRows, PreimagesMove, PreimagesKeep DEF RowsInv
<1>2. ASSUME NEW t \in Tids, preimage'[t] # NoPreimage
      PROVE  HasRow(t)' /\ preimage'[t] = HashLock[t] /\ Revealed(t)'
  <2>1. HasRow(t) /\ preimage'[t] = HashLock[t] /\ Revealed(t)
    BY <1>1, <1>2 DEF PreimageMoves, PreimageInv, PreimagesRevealed
  <2> QED
    BY <1>1, <2>1 DEF RowsStay, PreimagesStay
<1>3. PreimagesRevealed'
  BY <1>2 DEF PreimagesRevealed
<1>4. ConfirmedHasPreimage'
  BY <1>1 DEF ConfirmedWithPreimage, ConfirmedHasPreimage, PreimagesStay, PreimageInv
<1> QED
  BY <1>3, <1>4

LEMMA PreimageAtHandNext ==
    ASSUME TypeInv, RowsInv, StatusInv, PairsInv, PreimageInv, [Next]_vars
    PROVE  PreimageAtHand'
<1>. USE DEF TypeInv, TypeOK, Workers
<1>0. /\ RowsStay /\ PreimagesStay
      /\ TransferIns \subseteq Tids
  BY TableKeepsRows, PreimagesKeep DEF RowsInv, Tids
<1>1. ASSUME UNCHANGED preimage, ConfirmStep \/ ConfirmMarkFails
      PROVE  /\ \A t \in todo'["confirm"] : preimage'[t] # NoPreimage
             /\ pc'["confirm"] # "loop" => preimage'[cur'["confirm"]] # NoPreimage
  <2>. USE <1>1 DEF PreimageInv, PreimageAtHand
  <2>1. CASE ConfirmQuery
    BY <2>1 DEF ConfirmQuery, QueryReturns, GetAllConfirmableLockedTransfer
  <2>2. CASE \E t \in Tids : ConfirmRead(t)
    BY <2>2 DEF ConfirmRead, TakeRow
  <2>3. CASE ConfirmMark \/ ConfirmMarkFails
    BY <2>3 DEF ConfirmMark, ConfirmMarkFails, FailureIsPassed, GoTo
  <2>4. CASE ConfirmTransact \/ ConfirmRecordRefunded \/ ConfirmRecordConfirmed
    BY <2>4 DEF ConfirmTransact, ConfirmRecordRefunded, ConfirmRecordConfirmed, RowDone
  <2> QED
    BY <2>1, <2>2, <2>3, <2>4 DEF ConfirmStep
<1>2. /\ \A t \in todo'["confirm"] : preimage'[t] # NoPreimage
      /\ pc'["confirm"] # "loop" => preimage'[cur'["confirm"]] # NoPreimage
  <2>1. CASE WorkerSame("confirm") \/ WorkerGivesUp("confirm")
    <3>1. /\ \A t \in todo["confirm"] : preimage'[t] # NoPreimage
          /\ pc["confirm"] # "loop" => preimage'[cur["confirm"]] # NoPreimage
      BY <1>0 DEF PreimagesStay, PreimageInv, PreimageAtHand, WorkersTyped
    <3> QED
      BY <2>1, <3>1 DEF WorkerSame, WorkerGivesUp
  <2>2. CASE ConfirmRecordConfirmed
    BY <2>2, <1>0 DEF ConfirmRecordConfirmed, RowDone, PreimagesStay, PreimageInv, PreimageAtHand
  <2>3. CASE (ConfirmStep /\ ~ ConfirmRecordConfirmed) \/ ConfirmMarkFails
    <3>1. UNCHANGED preimage
      BY <2>3 DEF ConfirmStep, ConfirmQuery, ConfirmRead, ConfirmMark, ConfirmTransact,
         ConfirmRecordRefunded, ConfirmMarkFails, FailureIsPassed, OnlyReads, OnlySubmits,
         SetTransferStatusByFrom, UpdateTransferStatus, tableVars
    <3> QED
      BY <2>3, <3>1, <1>1
  <2> QED
    BY <2>1, <2>2, <2>3, WorkersAct
<1>3. (pc["refund"] = "confirm" => preimage[relatedTid[cur["refund"]]] # NoPreimage)'
  <2>1. CASE WorkerSame("refund") \/ WorkerGivesUp("refund")
    <3>1. ASSUME pc["refund"] = "confirm"
          PROVE  preimage'[relatedTid'[cur["refund"]]] # NoPreimage
      <4>1. cur["refund"] \in Tids /\ HasRow(cur["refund"]) /\ relatedTid[cur["refund"]] \in Tids
        BY <3>1, <1>0, TransfersAssumption DEF WorkersTyped, RowsInv, RowsAtHand, RowsRelated
      <4> QED
        BY <3>1, <4>1, <1>0 DEF RowsStay, PreimagesStay, PreimageInv, PreimageAtHand
    <3> QED
      BY <2>1, <3>1 DEF WorkerSame, WorkerGivesUp
  <2>2. CASE RefundStep
    <3>1. CASE RefundLookup
      <4>1. /\ pc["refund"] = "lookup" /\ UNCHANGED <<status, preimage, relatedTid>>
            /\ UNCHANGED cur \/ pc'["refund"] = "loop"
        BY <3>1 DEF RefundLookup, GoTo, RowDone, OnlyReads, tableVars
      <4>2. pc'["refund"] = "confirm" => status[relatedTid[cur["refund"]]] = "CONFIRMED"
        BY <3>1 DEF RefundLookup, RelatedOut, GoTo, RowDone
      <4>3. pc["refund"] = "lookup" => relatedTid[cur["refund"]] \in Tids
        BY <1>0, TransfersAssumption DEF WorkersTyped, RowsInv, RowsAtHand, RowsRelated
      <4> QED
        BY <4>1, <4>2, <4>3 DEF PreimageInv, ConfirmedHasPreimage
    <3>2. CASE ~ RefundLookup
      BY <2>2, <3>2 DEF RefundStep, RefundQuery, RefundRead, RefundMark, RefundConfirm,
         RefundCheckOut, RefundTransact, RefundRecordRefunded, QueryReturns, TakeRow, GoTo, RowDone
    <3> QED
      BY <3>1, <3>2
  <2>3. CASE RefundMarkFails
    BY <2>3 DEF RefundMarkFails, FailureIsPassed, GoTo
  <2> QED
    BY <2>1, <2>2, <2>3, WorkersAct
<1> QED
  BY <1>2, <1>3 DEF PreimageAtHand

LEMMA ConfirmsKnownNext ==
    ASSUME TypeInv, RowsInv, StatusInv, PairsInv, PreimageInv, [Next]_vars
    PROVE  ConfirmsKnown'
<1>. USE DEF TypeInv, TypeOK, ChainTypeOK, Workers
<1>0. /\ RowsStay /\ PreimagesStay
      /\ TransferIns \subseteq Tids
  BY TableKeepsRows, PreimagesKeep DEF RowsInv, Tids
<1>1. ASSUME NEW tx \in pendingConfirm
      PROVE  HasRow(tx.tid)' /\ tx.preimage = HashLock[tx.tid] /\ Revealed(tx.tid)'
  <2>1. tx.tid \in Tids
    BY DEF ConfirmTxs
  <2> QED
    BY <2>1, <1>0 DEF PreimageInv, ConfirmsKnown, RowsStay, PreimagesStay
<1>2. ASSUME NEW tx \in pendingConfirm' \ pendingConfirm
      PROVE  HasRow(tx.tid)' /\ tx.preimage = HashLock[tx.tid] /\ Revealed(tx.tid)'
  <2>1. \/ /\ ConfirmTransact
           /\ tx = [tid |-> cur["confirm"], preimage |-> preimage[cur["confirm"]]]
        \/ /\ RefundConfirm
           /\ tx = [tid |-> cur["refund"], preimage |-> preimage[RelatedOut]]
    BY OthersSubmitNothing, SubmittersAddOne DEF PoolsShrink
  <2>2. /\ tx.tid \in Tids /\ HasRow(tx.tid)
        /\ tx.preimage = HashLock[tx.tid] /\ Revealed(tx.tid)
    <3>1. CASE /\ ConfirmTransact
               /\ tx = [tid |-> cur["confirm"], preimage |-> preimage[cur["confirm"]]]
      BY <3>1 DEF ConfirmTransact, WorkersTyped, PreimageInv, PreimageAtHand, PreimagesRevealed
    <3>2. CASE /\ RefundConfirm
               /\ tx = [tid |-> cur["refund"], preimage |-> preimage[RelatedOut]]
      <4>. DEFINE i == cur["refund"]
                  o == relatedTid[i]
      <4>1. i \in TransferIns /\ HasRow(i) /\ preimage[o] # NoPreimage
        BY <3>2, <1>0, TransfersAssumption DEF RefundConfirm, WorkersTyped, RowsInv, RowsAtHand,
           PreimageInv, PreimageAtHand
      <4>2. o \in Tids /\ HashLock[o] = HashLock[i] /\ relatedTid[o] = i
        BY <4>1, <1>0, PairsShareHashLock
      <4>3. preimage[o] = HashLock[o] /\ Revealed(o)
        BY <4>1, <4>2 DEF PreimageInv, PreimagesRevealed
      <4> QED
        BY <3>2, <4>1, <4>2, <4>3, <1>0 DEF RelatedOut, Revealed
    <3> QED
      BY <2>1, <3>1, <3>2
  <2> QED
    BY <2>2, <1>0 DEF RowsStay, PreimagesStay
<1> QED
  BY <1>1, <1>2 DEF ConfirmsKnown

LEMMA PreimageInvNext ==
    TypeInv /\ RowsInv /\ StatusInv /\ PairsInv /\ PreimageInv /\ [Next]_vars => PreimageInv'
BY PreimagesRevealedNext, PreimageAtHandNext, ConfirmsKnownNext DEF PreimageInv

LEMMA PreimageInvInit == Init => PreimageInv
BY DEF Init, TableInit, ChainInit, PreimageInv, PreimagesRevealed, ConfirmedHasPreimage,
   PreimageAtHand, ConfirmsKnown, Workers

LEMMA PreimageInvHolds == Spec => [](TypeInv /\ RowsInv /\ StatusInv /\ PairsInv /\ PreimageInv)
<1>1. TypeInv /\ RowsInv /\ StatusInv /\ PairsInv /\ PreimageInv /\ [Next]_vars => PreimageInv'
  BY PreimageInvNext
<1> QED
  BY <1>1, PairsInvHolds, PreimageInvInit, PTL DEF Spec

\* The node never confirms a transfer before a preimage for its hash lock is
\* public: neither the confirm worker nor the refund worker, which confirms an
\* IN whose OUT it finds confirmed, works with a stale or a foreign preimage.
THEOREM NodeConfirmsOnlyRevealed == Spec => []ConfirmedByNodeOnlyIfRevealed
<1>1. PreimageInv => ConfirmedByNodeOnlyIfRevealed
  BY DEF PreimageInv, ConfirmsKnown, Revealed, ConfirmedByNodeOnlyIfRevealed
<1> QED
  BY <1>1, PreimageInvHolds, PTL

-----------------------------------------------------------------------------
(* Preimages are not lost.                                                   *)

LEMMA HandlersAck ==
    ASSUME TypeInv, "miss" \notin FaultKinds, [Next]_vars,
           NEW t \in Tids, handler'[t]["confirmed"] = "acked"
    PROVE  handler[t]["confirmed"] = "acked" \/ OnConfirmedSetRelated(t)
<1>. USE DEF TypeInv, TypeOK, EventKinds
<1>0. TransferIns \subseteq Tids /\ TransferOuts \subseteq Tids
  BY DEF Tids
<1>1. CASE Callbacks
  BY <1>1, <1>0 DEF Callbacks, OnTransferOut, OnTransferOutSaveIn, OnTransferIn, OnConfirmed,
     OnConfirmedSetRelated, OnRefunded, HandlerAt
<1>2. CASE SendStep \/ ConfirmStep \/ RefundStep \/ RecoverStep
  BY <1>2 DEF SendStep, SendQuery, SendRead, SendRecordLocked, SendFee, SendMark, SendTransact,
     ConfirmStep, ConfirmQuery, ConfirmRead, ConfirmMark, ConfirmTransact, ConfirmRecordRefunded,
     ConfirmRecordConfirmed, RefundStep, RefundQuery, RefundRead, RefundMark, RefundLookup,
     RefundConfirm, RefundCheckOut, RefundTransact, RefundRecordRefunded, RecoverStep,
     RecoverQuery, RecoverSet, OnlyReads, OnlyWritesTable, OnlySubmits
<1>3. CASE Crash
  <2>1. ASSUME NEW again,
               handler' = [u \in Tids |-> [kind \in EventKinds |->
                             IF handler[u][kind] = "second" \/ <<u, kind>> \in again
                             THEN "new" ELSE handler[u][kind]]]
        PROVE  handler'[t]["confirmed"] \in {"new", handler[t]["confirmed"]}
    BY <2>1
  <2> QED
    BY <1>3, <2>1 DEF Crash
<1>4. CASE \E u \in Tids, k \in EventKinds : CallbackFails(u, k) \/ EventMissed(u, k)
  BY <1>4 DEF CallbackFails, EventMissed, HandlerAt, Fault
<1>5. CASE Faulty /\ ~ Crash /\ ~ \E u \in Tids, k \in EventKinds :
                                      CallbackFails(u, k) \/ EventMissed(u, k)
  BY <1>5 DEF Faulty, TransactionLost, RowFails, ReadFails, SendTransactFails, ConfirmMarkFails,
     RefundMarkFails, FailureIsPassed, RecoverSetFails
<1>6. CASE Environment
  BY <1>6 DEF Environment, UserLocks, SomeoneConfirms, SomeoneRefunds, SafeBlockMoves,
     BlockMined, Tick, NodeLeaves
<1>7. CASE UNCHANGED vars
  BY <1>7 DEF vars
<1> QED
  BY <1>1, <1>2, <1>3, <1>4, <1>5, <1>6, <1>7 DEF Next

LEMMA PreimageKeptNext ==
    ASSUME TypeInv, RowsInv, StatusInv, PairsInv, PreimageInv, PreimageKept,
           "miss" \notin FaultKinds, [Next]_vars
    PROVE  PreimageKept'
<1>. USE DEF TypeInv, TypeOK, TableTypeOK
<1>0. /\ RowsStay /\ NewRows /\ PreimagesStay
      /\ TransferIns \subseteq Tids /\ TransferIns \intersect TransferOuts = {}
  BY TableKeepsRows, RowsKeepData, PreimagesKeep, TransfersAssumption DEF RowsInv, Tids
<1>. SUFFICES ASSUME NEW i \in TransferIns, HasRow(i)', handler'[i]["confirmed"] = "acked"
              PROVE  preimage'[relatedTid'[i]] = HashLock[i]
  BY DEF PreimageKept
<1>1. handler[i]["confirmed"] # "new"
  BY <1>0, HandlersAck DEF OnConfirmedSetRelated
<1>2. HasRow(i)
  <2>1. cfinal[i] = "Confirmed"
    BY <1>1, <1>0 DEF PairsInv, EventsSeen, EventIsFinal, EventKinds
  <2>2. cstatus[i] # "Undefined"
    BY <2>1, <1>0 DEF StatusInv, ChainFollows
  <2> QED
    BY <2>2 DEF PairsInv, InsKnown
<1>3. /\ relatedTid[i] \in Tids /\ HasRow(relatedTid[i]) /\ relatedTid[relatedTid[i]] = i
      /\ HashLock[i] # NoPreimage
  BY <1>0, <1>2, PairsShareHashLock, TransfersAssumption
<1>4. CASE handler[i]["confirmed"] = "acked"
  BY <1>4, <1>2, <1>3, <1>0 DEF PreimageKept, PreimagesStay, RowsStay
<1>5. CASE OnConfirmedSetRelated(i)
  BY <1>5, <1>3 DEF OnConfirmedSetRelated, SetRelatedTxPreimage
<1> QED
  BY <1>4, <1>5, <1>0, HandlersAck

\* An acknowledged confirmation is never a lost preimage: a failed statement, a
\* crash between the two statements or the resumed cursor bring the event back,
\* as long as the monitors miss none.
THEOREM PreimagesAreKept ==
    ASSUME "miss" \notin FaultKinds
    PROVE  Spec => []PreimageKept
<1>1. Init => PreimageKept
  BY DEF Init, TableInit, PreimageKept, HasRow, Tids
<1>2. TypeInv /\ RowsInv /\ StatusInv /\ PairsInv /\ PreimageInv /\ PreimageKept /\ [Next]_vars
         => PreimageKept'
  BY PreimageKeptNext
<1> QED
  BY <1>1, <1>2, PreimageInvHolds, PTL DEF Spec

-----------------------------------------------------------------------------
(* Refunds.                                                                  *)

ClockMoves ==
    /\ \A x \in Nat : x < now => x < now'
    /\ \A o \in claimedInTime' :
          \/ o \in claimedInTime
          \/ /\ o \in TransferOuts /\ now <= InTimeLock(o) /\ cfinal'[o] = "Confirmed"
             /\ ~ Submitters /\ UNCHANGED <<pc, cur, todo>>

LEMMA ClockMoving ==
    ASSUME TypeInv, [Next]_vars
    PROVE  ClockMoves
<1>. USE DEF ClockMoves, TypeInv, TypeOK, ChainTypeOK, Times
<1>1. ASSUME NEW t \in Tids, SafeBlockMoves(t)
      PROVE  ClockMoves
  <2>1. ~ Submitters
    BY <1>1 DEF SafeBlockMoves, Finalize, poolVars, contractVars, Submitters, SendTransact,
       ConfirmTransact, RefundConfirm, RefundTransact, OnlySubmits, SubmitTransferIn, SubmitConfirm,
       SubmitRefund
  <2> QED
    BY <1>1, <2>1, TimesAssumption DEF SafeBlockMoves, Finalize, NodeLeaves, workerVars, IsOut
<1>2. CASE Tick
  BY <1>2, TimesAssumption DEF Tick, ClockTicks
<1>3. CASE ~ Tick /\ ~ \E t \in Tids : SafeBlockMoves(t)
  <2>1. UNCHANGED claimedInTime
    BY <1>3, OthersLeaveSafeBlock
  <2>2. UNCHANGED now
    BY <1>3, OthersLeaveClock
  <2> QED
    BY <2>1, <2>2
<1> QED
  BY <1>1, <1>2, <1>3

\* Where the refund worker and its transactions stand.
RefundWorkerExpired ==
    /\ \A i \in todo["refund"] : timelock[i] < now
    /\ pc["refund"] # "loop" => timelock[cur["refund"]] < now
    /\ pc["refund"] = "transact" => relatedTid[cur["refund"]] \notin claimedInTime

LEMMA RefundWorkerNext ==
    ASSUME TypeInv, RowsInv, PairsInv, RefundsExpired, [Next]_vars
    PROVE  RefundWorkerExpired'
<1>. USE DEF TypeInv, TypeOK, TableTypeOK, ChainTypeOK, Workers, Times
<1>0. /\ RowsStay /\ RowKeepsData /\ ClockMoves
      /\ TransferIns \subseteq Tids
  BY TableKeepsRows, RowsKeepData, ClockMoving DEF RowsInv, Tids
<1>1. \A i \in todo["refund"] : timelock'[i] < now'
  BY <1>0 DEF RowsInv, RowsAtHand, RowKeepsData, ClockMoves, WorkersTyped, RefundsExpired
<1>2. pc["refund"] # "loop" =>
         /\ cur["refund"] \in TransferIns /\ HasRow(cur["refund"])
         /\ timelock'[cur["refund"]] < now'
         /\ relatedTid'[cur["refund"]] = relatedTid[cur["refund"]]
  BY <1>0, TransfersAssumption DEF RowsInv, RowsAtHand, RowsStay, RowKeepsData, ClockMoves,
     WorkersTyped, RefundsExpired
<1>3. CASE WorkerSame("refund") \/ WorkerGivesUp("refund")
  <2>1. ASSUME pc["refund"] = "transact"
        PROVE  relatedTid'[cur["refund"]] \notin claimedInTime'
    <3>1. /\ cur["refund"] \in TransferIns /\ HasRow(cur["refund"])
          /\ timelock[cur["refund"]] < now
          /\ relatedTid[cur["refund"]] \notin claimedInTime
      BY <2>1, <1>2 DEF RefundsExpired
    <3>2. InTimeLock(relatedTid[cur["refund"]]) < now
      BY <3>1 DEF PairsInv, InsPaired
    <3>3. relatedTid[cur["refund"]] \in TransferOuts
      BY <3>1 DEF PairsInv, InsPaired
    <3>4. ~ now <= InTimeLock(relatedTid[cur["refund"]])
      BY <3>2, <3>3, TimesAssumption DEF InTimeLock
    <3> QED
      BY <3>1, <3>4, <1>2, <2>1, <1>0 DEF ClockMoves
  <2> QED
    BY <1>3, <1>1, <1>2, <2>1 DEF RefundWorkerExpired, WorkerSame, WorkerGivesUp
<1>4. CASE RefundMarkFails
  BY <1>4, <1>1, <1>2 DEF RefundMarkFails, FailureIsPassed, GoTo, RefundWorkerExpired
<1>5. CASE RefundStep
  <2>. USE DEF RefundWorkerExpired
  <2>1. CASE RefundQuery
    BY <2>1 DEF RefundQuery, QueryReturns, GetAllRefundAbleTransferIn, OnlyReads, chainVars,
       tableVars
  <2>2. CASE \E i \in TransferIns : RefundRead(i)
    BY <2>2, <1>1 DEF RefundRead, TakeRow, WorkersTyped
  <2>3. CASE RefundMark
    BY <2>3, <1>1, <1>2 DEF RefundMark, GoTo
  <2>4. CASE RefundLookup
    BY <2>4, <1>1, <1>2 DEF RefundLookup, GoTo, RowDone
  <2>5. CASE RefundCheckOut
    <3>1. cfinal[RelatedOut] # "Confirmed" => relatedTid[cur["refund"]] \notin claimedInTime
      BY DEF RelatedOut, RefundsExpired
    <3>2. UNCHANGED <<claimedInTime, relatedTid>>
      BY <2>5 DEF RefundCheckOut, OnlyReads, tableVars
    <3> QED
      BY <2>5, <3>1, <3>2, <1>1, <1>2 DEF RefundCheckOut, GoTo, RowDone
  <2>6. CASE RefundConfirm \/ RefundTransact \/ RefundRecordRefunded
    BY <2>6, <1>1 DEF RefundConfirm, RefundTransact, RefundRecordRefunded, RowDone
  <2> QED
    BY <1>5, <2>1, <2>2, <2>3, <2>4, <2>5, <2>6 DEF RefundStep
<1> QED
  BY <1>3, <1>4, <1>5, WorkersAct

LEMMA RefundsExpiredNext ==
    ASSUME TypeInv, RowsInv, StatusInv, PairsInv, RefundsExpired, [Next]_vars
    PROVE  RefundsExpired'
<1>. USE DEF TypeInv, TypeOK, TableTypeOK, ChainTypeOK, Workers, Times
<1>0. /\ RowsStay /\ RowKeepsData /\ ClockMoves /\ SafeBlockGrows /\ RefundWorkerExpired'
      /\ TransferIns \subseteq Tids /\ TransferOuts \subseteq Tids
  BY TableKeepsRows, RowsKeepData, ClockMoving, SafeBlockGrowing, RefundWorkerNext
     DEF RowsInv, StatusInv, Tids
<1>1. \A o \in claimedInTime' : cfinal'[o] = "Confirmed"
  BY <1>0 DEF ClockMoves, RefundsExpired, SafeBlockGrows
<1>2. ASSUME NEW i \in TransferIns, HasRow(i), timelock[i] < now, relatedTid[i] \notin claimedInTime
      PROVE  HasRow(i)' /\ timelock'[i] < now' /\ relatedTid'[i] \notin claimedInTime'
  <2>1. relatedTid[i] \in TransferOuts /\ InTimeLock(relatedTid[i]) < now
    BY <1>2 DEF PairsInv, InsPaired
  <2>2. ~ now <= InTimeLock(relatedTid[i])
    BY <2>1, TimesAssumption DEF InTimeLock
  <2> QED
    BY <1>2, <2>2, <1>0 DEF RowsStay, RowKeepsData, ClockMoves
<1>3. \A i \in pendingRefund :
         HasRow(i)' /\ timelock'[i] < now' /\ relatedTid'[i] \notin claimedInTime'
  BY <1>2 DEF RefundsExpired
<1>4. ASSUME NEW i \in pendingRefund' \ pendingRefund
      PROVE  HasRow(i)' /\ timelock'[i] < now' /\ relatedTid'[i] \notin claimedInTime'
  <2>1. RefundTransact /\ i = cur["refund"]
    BY OthersSubmitNothing, SubmittersAddOne DEF PoolsShrink
  <2>2. i \in TransferIns /\ HasRow(i) /\ timelock[i] < now /\ relatedTid[i] \notin claimedInTime
    BY <2>1, <1>0, TransfersAssumption DEF RefundTransact, WorkersTyped, RowsInv, RowsAtHand,
       RefundsExpired
  <2> QED
    BY <2>2, <1>2
<1> QED
  BY <1>0, <1>1, <1>3, <1>4 DEF RefundsExpired, RefundWorkerExpired, HasRow

LEMMA RefundsExpiredInit == Init => RefundsExpired
BY DEF Init, ChainInit, RefundsExpired, Workers

\* The inductive invariant holds of the relay node.
THEOREM InvariantHolds == Spec => []IInv
<1>1. TypeInv /\ RowsInv /\ StatusInv /\ PairsInv /\ RefundsExpired /\ [Next]_vars => RefundsExpired'
  BY RefundsExpiredNext
<1> QED
  BY <1>1, PreimageInvHolds, RefundsExpiredInit, PTL DEF Spec, IInv

\* A refund the node submits is of an expired IN, and never of one whose OUT it
\* could see confirmed before the IN expired, although the check of the OUT is
\* made some steps before the transaction is sent.
THEOREM RefundsOnlyUnclaimed == Spec => []RefundOnlyUnclaimed
<1>1. IInv => RefundOnlyUnclaimed
  BY DEF IInv, RefundsExpired, RefundOnlyUnclaimed, TypeInv, TypeOK, ChainTypeOK
<1> QED
  BY <1>1, InvariantHolds, PTL
=============================================================================
