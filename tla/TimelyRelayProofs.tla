-------------------------- MODULE TimelyRelayProofs --------------------------
(***************************************************************************)
(* A node that keeps up never loses its funds, for every set of transfers, *)
(* every choice of time locks and fees, and every number of faults that    *)
(* the eight hours between the time locks of a pair have room for          *)
(* (TimelyAssumption).                                                     *)
(***************************************************************************)
EXTENDS TimelyRelay, RelayNodeSafetyProofs

\* All steps but the one that lets time pass.
Untimed ==
    \/ Callbacks
    \/ SendStep
    \/ ConfirmStep
    \/ RefundStep
    \/ RecoverStep
    \/ Faulty
    \/ \E o \in TransferOuts : UserLocks(o)
    \/ \E t \in Tids : SomeoneConfirms(t) \/ SomeoneRefunds(t) \/ SafeBlockMoves(t)
    \/ BlockMined

LEMMA StepKinds ==
    /\ [TimelyNext]_vars <=> (CaughtUp /\ Tick) \/ [Untimed]_vars
    /\ [TimelyNext]_vars => [Next]_vars
BY DEF TimelyNext, Untimed, Next, Environment

-----------------------------------------------------------------------------
(* What a step may do to the clock, the ages and the statuses.               *)

\* A row that stays in a PENDING status keeps its age.
AgesKept ==
    \A t \in Tids : status[t] \in PendingStatuses /\ status'[t] = status[t] => age'[t] = age[t]

LEMMA UntimedClock ==
    ASSUME [Untimed]_vars
    PROVE  now' = now
<1>. USE DEF chainVars, contractVars, poolVars
<1>1. CASE TableWriters
  BY <1>1, TableWritersLeaveChain DEF WritersLeaveChain
<1>2. CASE ~ TableWriters
  <2>. USE <1>2 DEF TableWriters
  <2>1. CASE SendStep \/ ConfirmStep \/ RefundStep \/ RecoverStep
    BY <2>1 DEF SendStep, SendQuery, SendRead, SendTransact, SubmitTransferIn, ConfirmStep,
       ConfirmQuery, ConfirmRead, ConfirmTransact, SubmitConfirm, RefundStep, RefundQuery,
       RefundRead, RefundLookup, RefundConfirm, RefundCheckOut, RefundTransact, SubmitRefund,
       RecoverStep, RecoverQuery, OnlyReads
  <2>2. CASE Faulty
    BY <2>2 DEF Faulty, Crash, TransactionLost, DropTransaction, CallbackFails, EventMissed,
       RowFails, ReadFails, SendTransactFails, ConfirmMarkFails, RefundMarkFails,
       FailureIsPassed, RecoverSetFails
  <2>3. CASE \/ \E o \in TransferOuts : UserLocks(o)
             \/ \E t \in Tids : SomeoneConfirms(t) \/ SomeoneRefunds(t) \/ SafeBlockMoves(t)
             \/ BlockMined
    BY <2>3 DEF UserLocks, UserTransferOut, SomeoneConfirms, AnyoneConfirm, SomeoneRefunds,
       AnyoneRefund, SafeBlockMoves, Finalize, BlockMined, MineTransferIn, MineConfirm, MineRefund
  <2>4. CASE Callbacks \/ UNCHANGED vars
    BY <2>4 DEF Callbacks, vars
  <2> QED
    BY <2>1, <2>2, <2>3, <2>4 DEF Untimed
<1> QED
  BY <1>1, <1>2

LEMMA UntimedAges ==
    ASSUME TypeInv, [Untimed]_vars
    PROVE  AgesKept
<1>. USE DEF TypeInv, TypeOK, TableTypeOK, AgesKept, HasRow, SetStatus, PendingStatuses
<1>1. ASSUME UNCHANGED age
      PROVE  AgesKept
  BY <1>1
<1>2. ASSUME NEW t, \/ \E to, from \in Statuses : to # from /\ SetTransferStatusByFrom(t, to, from)
                    \/ UpdateTransferStatus(t, "REFUNDED")
                    \/ RecordTransferIn(t)
                    \/ \E image : ConfirmTransfer(t, image)
                    \/ \E initial, related, lock, amt : InsertTransfer(t, initial, related, lock, amt)
      PROVE  AgesKept
  BY <1>2 DEF SetTransferStatusByFrom, UpdateTransferStatus, RecordTransferIn, ConfirmTransfer,
     InsertTransfer, tableVars
<1>3. CASE Callbacks
  BY <1>3, <1>1, <1>2 DEF Callbacks, OnTransferOut, OnTransferOutSaveIn, OnTransferIn, OnConfirmed,
     OnConfirmedSetRelated, SetRelatedTxPreimage, OnRefunded, RefundTransfer
<1>4. CASE SendStep
  BY <1>4, <1>1, <1>2 DEF SendStep, SendQuery, SendRead, SendRecordLocked, SendFee,
     SetTransferInAmountAndFee, SendMark, SetPendingTransferIn, SendTransact, OnlyReads,
     OnlySubmits, tableVars, Statuses
<1>5. CASE ConfirmStep
  BY <1>5, <1>1, <1>2 DEF ConfirmStep, ConfirmQuery, ConfirmRead, ConfirmMark, ConfirmTransact,
     ConfirmRecordRefunded, ConfirmRecordConfirmed, OnlyReads, OnlySubmits, tableVars, Statuses
<1>6. CASE RefundStep
  BY <1>6, <1>1, <1>2 DEF RefundStep, RefundQuery, RefundRead, RefundMark, RefundLookup,
     RefundConfirm, RefundCheckOut, RefundTransact, RefundRecordRefunded, OnlyReads, OnlySubmits,
     tableVars, Statuses
<1>7. CASE RecoverStep
  BY <1>7, <1>1, <1>2 DEF RecoverStep, RecoverQuery, RecoverSet, RecoverRow, OnlyReads, tableVars,
     Statuses
<1>8. CASE Faulty
  BY <1>8, <1>1 DEF Faulty, Crash, TransactionLost, CallbackFails, EventMissed, RowFails, ReadFails,
     SendTransactFails, ConfirmMarkFails, RefundMarkFails, FailureIsPassed, RecoverSetFails,
     tableVars
<1>9. CASE \/ \E o \in TransferOuts : UserLocks(o)
           \/ \E t \in Tids : SomeoneConfirms(t) \/ SomeoneRefunds(t) \/ SafeBlockMoves(t)
           \/ BlockMined
  BY <1>9, <1>1 DEF UserLocks, SomeoneConfirms, SomeoneRefunds, SafeBlockMoves, BlockMined,
     NodeLeaves, tableVars
<1>10. CASE UNCHANGED vars
  BY <1>10, <1>1 DEF vars, tableVars
<1> QED
  BY <1>3, <1>4, <1>5, <1>6, <1>7, <1>8, <1>9, <1>10 DEF Untimed

\* Which step brings a row into the statuses that are about to be tried.
StatusArises ==
    \A t \in Tids : status'[t] # status[t] =>
       /\ status'[t] = "TRANSFER_IN_START" =>
             \/ ~ HasRow(t) /\ t \in TransferIns
             \/ /\ RecoverSet(t) /\ pc["recover"] = "transferIn"
                /\ status[t] = "TRANSFER_IN_PENDING"
       /\ status'[t] = "TRANSFER_IN_PENDING" =>
             SendMark /\ t = cur["send"] /\ status[t] = "TRANSFER_IN_START" /\ age'[t] = 0
       /\ status'[t] = "REFUND_PENDING" => RefundMark /\ t = cur["refund"]
       /\ status'[t] = "CONFIRM_PENDING" => ConfirmMark /\ t = cur["confirm"]

LEMMA StatusesArise ==
    ASSUME TypeInv, [Next]_vars
    PROVE  StatusArises
<1>. USE DEF TypeInv, TypeOK, TableTypeOK, StatusArises, HasRow, SetStatus
<1>0. TransferIns \subseteq Tids /\ TransferOuts \subseteq Tids
  BY DEF Tids
<1>w. /\ pc["send"] # "loop" => cur["send"] \in Tids
      /\ pc["confirm"] # "loop" => cur["confirm"] \in Tids
      /\ pc["refund"] # "loop" => cur["refund"] \in Tids
  BY <1>0 DEF WorkersTyped
<1>1. CASE ~ TableWriters
  BY <1>1, OthersLeaveTable
<1>2. ASSUME NEW o \in TransferOuts, OnTransferOut(o)
      PROVE  StatusArises
  BY <1>2, <1>0 DEF OnTransferOut, InsertTransfer, tableVars
<1>3. ASSUME NEW o \in TransferOuts, OnTransferOutSaveIn(o)
      PROVE  StatusArises
  <2>1. RelatedIn[o] \in TransferIns
    BY TransfersAssumption
  <2> QED
    BY <1>3, <2>1, <1>0 DEF OnTransferOutSaveIn, InsertTransfer, tableVars
<1>4. ASSUME NEW t \in Tids, OnTransferIn(t) \/ OnConfirmed(t) \/ OnConfirmedSetRelated(t) \/ OnRefunded(t)
      PROVE  StatusArises
  BY <1>4 DEF OnTransferIn, RecordTransferIn, OnConfirmed, ConfirmTransfer, OnConfirmedSetRelated,
     SetRelatedTxPreimage, OnRefunded, RefundTransfer, UpdateTransferStatus
<1>5. CASE SendRecordLocked \/ \E f \in Fees : SendFee(f)
  BY <1>5, <1>w DEF SendRecordLocked, SetTransferStatusByFrom, SendFee, SetTransferInAmountAndFee,
     tableVars
<1>6. CASE SendMark
  BY <1>6, <1>w DEF SendMark, SetPendingTransferIn, SetTransferStatusByFrom
<1>7. CASE ConfirmMark
  BY <1>7, <1>w DEF ConfirmMark, SetTransferStatusByFrom
<1>8. CASE ConfirmRecordRefunded \/ ConfirmRecordConfirmed \/ RefundRecordRefunded
  BY <1>8, <1>w DEF ConfirmRecordRefunded, ConfirmRecordConfirmed, RefundRecordRefunded,
     UpdateTransferStatus, ConfirmTransfer
<1>9. CASE RefundMark
  BY <1>9, <1>w DEF RefundMark, SetTransferStatusByFrom
<1>10. ASSUME NEW t \in Tids, RecoverSet(t)
       PROVE  StatusArises
  BY <1>10 DEF RecoverSet, RecoverRow, SetTransferStatusByFrom
<1> QED
  BY <1>0, <1>1, <1>2, <1>3, <1>4, <1>5, <1>6, <1>7, <1>8, <1>9, <1>10 DEF TableWriters

\* A node that keeps up is a relay node: what holds of RelayNode holds of it.
LEMMA TimelyIsRelayNode == TimelySpec => Spec
<1>1. [TimelyNext]_vars => [Next]_vars
  BY StepKinds
<1> QED
  BY <1>1, PTL DEF TimelySpec, Spec

-----------------------------------------------------------------------------
(* What the chains and the callbacks may do to the funds of a pair.          *)

LEMMA IInvNext == IInv /\ [Next]_vars => IInv'
BY TypeInvNext, StatusInvNext, PairsInvNext, PreimageInvNext, RefundsExpiredNext DEF IInv, StatusInv

\* When a transfer was locked or refunded, and until when an OUT is locked.
ContractsInTime ==
    /\ \A t \in Tids : cstatus'[t] # cstatus[t] =>
          /\ cstatus'[t] = "Pending" => now < ctimelock'[t]
          /\ cstatus'[t] = "Refunded" => ctimelock[t] <= now
    /\ \A o \in TransferOuts :
          \/ cstatus[o] # "Undefined" /\ ctimelock'[o] = ctimelock[o]
          \/ cstatus'[o] # "Undefined" => ctimelock'[o] = OutTimeLock[o]

LEMMA ContractsKeepTime ==
    ASSUME TypeInv, [Next]_vars
    PROVE  ContractsInTime
<1>. USE DEF TypeInv, TypeOK, ChainTypeOK, ContractsInTime
<1>0. /\ TransferIns \subseteq Tids /\ TransferOuts \subseteq Tids
      /\ TransferOuts \intersect TransferIns = {}
  BY TransfersAssumption DEF Tids
<1>u. ASSUME UNCHANGED cstatus, UNCHANGED ctimelock
      PROVE  ContractsInTime
  BY <1>0, <1>u
<1>1. CASE ~ ContractMovers
  BY <1>1, <1>u, OthersLeaveContracts
<1>2. ASSUME NEW t \in Tids, NEW outcome \in {"Confirmed", "Refunded"}, cstatus[t] = "Pending",
             outcome = "Refunded" => ctimelock[t] <= now, ContractSettles(t, outcome)
      PROVE  ContractsInTime
  BY <1>2, <1>0 DEF ContractSettles
<1>3. ASSUME NEW o \in TransferOuts, UserLocks(o)
      PROVE  ContractsInTime
  <2>1. now < OutTimeLock[o]
    BY <1>3, TimesAssumption DEF UserLocks, UserTransferOut, CanLock, Times
  <2> QED
    BY <1>3, <2>1, <1>0 DEF UserLocks, UserTransferOut, CanLock
<1>4. ASSUME NEW t \in Tids, SomeoneConfirms(t) \/ SomeoneRefunds(t)
      PROVE  ContractsInTime
  BY <1>4, <1>2 DEF SomeoneConfirms, AnyoneConfirm, CanConfirm, SomeoneRefunds, AnyoneRefund, CanRefund
<1>5. ASSUME NEW tx \in pendingIn, MineTransferIn(tx)
      PROVE  ContractsInTime
  <2>1. tx.tid \in TransferIns /\ tx.timelock \in Nat /\ now \in Nat
    BY DEF TransferInTxs, Times
  <2>2. CASE CanLock(tx.tid, tx.timelock) /\ tx.amount > 0
    <3>1. now < tx.timelock
      BY <2>1, <2>2 DEF CanLock
    <3> QED
      BY <1>5, <2>1, <2>2, <3>1, <1>0 DEF MineTransferIn
  <2> QED
    BY <1>5, <2>2, <1>u DEF MineTransferIn, contractVars
<1>6. ASSUME NEW tx \in pendingConfirm, MineConfirm(tx)
      PROVE  ContractsInTime
  <2>1. tx.tid \in Tids
    BY DEF ConfirmTxs
  <2> QED
    BY <1>6, <2>1, <1>2, <1>u DEF MineConfirm, CanConfirm, contractVars
<1>7. ASSUME NEW i \in pendingRefund, MineRefund(i)
      PROVE  ContractsInTime
  <2>1. i \in Tids
    BY <1>0
  <2> QED
    BY <1>7, <2>1, <1>2, <1>u DEF MineRefund, CanRefund, contractVars
<1> QED
  BY <1>1, <1>3, <1>4, <1>5, <1>6, <1>7 DEF ContractMovers, BlockMined

\* Time does not run back.
LEMMA ClockGrows ==
    ASSUME TypeInv, [Next]_vars
    PROVE  now \in Nat /\ now' \in Nat /\ now <= now'
<1>1. now \in Nat
  BY DEF TypeInv, TypeOK, ChainTypeOK, Times
<1>2. CASE Tick
  BY <1>1, <1>2, TimesAssumption DEF Tick, ClockTicks
<1> QED
  BY <1>1, <1>2, OthersLeaveClock

LEMMA OutsTimedNext ==
    ASSUME IInv, OutsTimed, [Next]_vars
    PROVE  OutsTimed'
<1>0. /\ TypeInv /\ TransferOuts \subseteq Tids /\ TransferOuts \intersect TransferIns = {}
      /\ StatusArises /\ NewRows /\ RowKeepsData /\ ContractsInTime /\ ContractMoves
      /\ now \in Nat /\ now' \in Nat /\ now <= now'
  BY StatusesArise, RowsKeepData, ContractsKeepTime, ContractsMove, ClockGrows, TransfersAssumption
     DEF IInv, RowsInv, Tids
<1>. SUFFICES ASSUME NEW o \in TransferOuts
              PROVE  /\ status'[o] \notin {"TRANSFER_IN_START", "TRANSFER_IN_PENDING", "REFUND_PENDING"}
                     /\ HasRow(o)' => timelock'[o] = OutTimeLock[o]
                     /\ cstatus'[o] # "Undefined" => ctimelock'[o] = OutTimeLock[o]
                     /\ cstatus'[o] = "Refunded" => OutTimeLock[o] <= now'
  BY DEF OutsTimed
<1>1. status'[o] \notin {"TRANSFER_IN_START", "TRANSFER_IN_PENDING"}
  BY <1>0 DEF StatusArises, OutsTimed
<1>2. status'[o] # "REFUND_PENDING"
  <2>1. RefundMark => cur["refund"] \in TransferIns
    BY <1>0 DEF RefundMark, TypeInv, WorkersTyped
  <2> QED
    BY <1>0, <2>1 DEF StatusArises, OutsTimed
<1>3. ASSUME HasRow(o)'
      PROVE  timelock'[o] = OutTimeLock[o]
  <2>1. CASE HasRow(o)
    BY <2>1, <1>0 DEF RowKeepsData, OutsTimed
  <2>2. CASE ~ HasRow(o)
    <3>1. OnTransferOut(o)
      BY <1>0, <1>3, <2>2, TransfersAssumption DEF NewRows
    <3> QED
      BY <1>0, <2>2, <3>1 DEF OnTransferOut, InsertTransfer, TypeInv, TypeOK, TableTypeOK
  <2> QED
    BY <2>1, <2>2
<1>4. cstatus'[o] # "Undefined" => ctimelock'[o] = OutTimeLock[o]
  BY <1>0 DEF ContractsInTime, OutsTimed
<1>5. ASSUME cstatus'[o] = "Refunded"
      PROVE  OutTimeLock[o] <= now'
  <2>1. OutTimeLock[o] <= now
    BY <1>0, <1>5 DEF ContractsInTime, ContractMoves, OutsTimed
  <2>2. OutTimeLock[o] \in Nat
    BY TimesAssumption
  <2> QED
    BY <1>0, <2>1, <2>2
<1> QED
  BY <1>1, <1>2, <1>3, <1>4, <1>5

LEMMA ConfirmsHavePreimageNext ==
    ASSUME IInv, ConfirmsHavePreimage, [Next]_vars
    PROVE  ConfirmsHavePreimage'
<1>1. TypeInv /\ StatusArises /\ PreimagesStay
  BY StatusesArise, PreimagesKeep DEF IInv
<1>2. ASSUME NEW t \in Tids, status'[t] = "CONFIRM_PENDING"
      PROVE  preimage[t] # NoPreimage
  <2>1. ConfirmMark => preimage[cur["confirm"]] # NoPreimage
    BY DEF ConfirmMark, IInv, PreimageInv, PreimageAtHand
  <2> QED
    BY <1>1, <1>2, <2>1 DEF StatusArises, ConfirmsHavePreimage
<1> QED
  BY <1>1, <1>2 DEF ConfirmsHavePreimage, PreimagesStay

\* The event of a locked IN is acknowledged by its callback only.
LEMMA LockedAcks ==
    ASSUME TypeInv, "miss" \notin FaultKinds, [Next]_vars,
           NEW i \in TransferIns, handler'[i]["locked"] = "acked"
    PROVE  handler[i]["locked"] = "acked" \/ OnTransferIn(i)
<1>. USE DEF TypeInv, TypeOK, EventKinds
<1>0. /\ TransferIns \subseteq Tids /\ TransferOuts \subseteq Tids
      /\ TransferOuts \intersect TransferIns = {}
  BY TransfersAssumption DEF Tids
<1>1. CASE Callbacks
  BY <1>1, <1>0 DEF Callbacks, OnTransferOut, OnTransferOutSaveIn, OnTransferIn, OnConfirmed,
     OnConfirmedSetRelated, OnRefunded, HandlerAt
<1>2. CASE SendStep \/ ConfirmStep \/ RefundStep \/ RecoverStep
  BY <1>2 DEF SendStep, SendQuery, SendRead, SendRecordLocked, SendFee, SendMark, SendTransact,
     ConfirmStep, ConfirmQuery, ConfirmRead, ConfirmMark, ConfirmTransact, ConfirmRecordRefunded,
     ConfirmRecordConfirmed, RefundStep, RefundQuery, RefundRead, RefundMark, RefundLookup,
     RefundConfirm, RefundCheckOut, RefundTransact, RefundRecordRefunded, RecoverStep,
     RecoverQuery, RecoverSet, OnlyReads, OnlyWritesTable, OnlySubmits
<1>3. CASE Crash
  <2>1. ASSUME NEW again,
               handler' = [u \in Tids |-> [kind \in EventKinds |->
                             IF handler[u][kind] = "second" \/ <<u, kind>> \in again
                             THEN "new" ELSE handler[u][kind]]]
        PROVE  handler'[i]["locked"] \in {"new", handler[i]["locked"]}
    BY <1>0, <2>1
  <2> QED
    BY <1>3, <2>1 DEF Crash
<1>4. CASE \E u \in Tids, k \in EventKinds : CallbackFails(u, k) \/ EventMissed(u, k)
  BY <1>0, <1>4 DEF CallbackFails, EventMissed, HandlerAt, Fault
<1>5. CASE Faulty /\ ~ Crash /\ ~ \E u \in Tids, k \in EventKinds :
                                      CallbackFails(u, k) \/ EventMissed(u, k)
  BY <1>5 DEF Faulty, TransactionLost, RowFails, ReadFails, SendTransactFails, ConfirmMarkFails,
     RefundMarkFails, FailureIsPassed, RecoverSetFails
<1>6. CASE Environment
  BY <1>6 DEF Environment, UserLocks, SomeoneConfirms, SomeoneRefunds, SafeBlockMoves,
     BlockMined, Tick, NodeLeaves
<1>7. CASE UNCHANGED vars
  BY <1>7 DEF vars
<1> QED
  BY <1>1, <1>2, <1>3, <1>4, <1>5, <1>6, <1>7 DEF Next

LEMMA LockedIsRecordedNext ==
    ASSUME IInv, LockedIsRecorded, [Next]_vars
    PROVE  LockedIsRecorded'
<1>0. /\ TypeInv /\ TransferIns \subseteq Tids /\ "miss" \notin FaultKinds /\ StatusArises
  BY StatusesArise, TimelyAssumption DEF IInv, Tids
<1>. SUFFICES ASSUME NEW i \in TransferIns, handler'[i]["locked"] = "acked"
              PROVE  status'[i] \notin {"TRANSFER_IN_START", "TRANSFER_IN_PENDING"}
  BY DEF LockedIsRecorded
<1>1. CASE handler[i]["locked"] = "acked"
  <2>1. cfinal[i] # "Undefined"
    BY <1>0, <1>1 DEF IInv, PairsInv, EventsSeen, EventIsFinal, EventKinds
  <2>2. HasRow(i)
    BY <1>0, <2>1 DEF IInv, StatusInv, ChainFollows, PairsInv, InsKnown
  <2> QED
    BY <1>0, <1>1, <2>2 DEF StatusArises, LockedIsRecorded
<1>2. CASE OnTransferIn(i)
  BY <1>0, <1>2 DEF OnTransferIn, RecordTransferIn, SetStatus, TypeInv, TypeOK, TableTypeOK
<1> QED
  BY <1>0, <1>1, <1>2, LockedAcks

-----------------------------------------------------------------------------
(* What a fault costs.                                                       *)

LEMMA FaultsAreCounted ==
    ASSUME TypeInv, [Next]_vars
    PROVE  /\ faults \in Nat /\ faults' \in Nat
           /\ faults <= MaxFaults
           /\ faults' = faults \/ faults' = faults + 1
           /\ faults' = faults => ~ Faulty
<1>0. faults \in Nat /\ faults <= MaxFaults
  BY FaultsAssumption DEF TypeInv, TypeOK
<1>1. Faulty => faults' = faults + 1
  BY DEF Faulty, Crash, TransactionLost, CallbackFails, EventMissed, RowFails, ReadFails,
     SendTransactFails, ConfirmMarkFails, RefundMarkFails, FailureIsPassed, RecoverSetFails, Fault
<1>2. CASE SendStep \/ ConfirmStep \/ RefundStep \/ RecoverStep
  BY <1>0, <1>1, <1>2 DEF SendStep, SendQuery, SendRead, SendRecordLocked, SendFee, SendMark,
     SendTransact, ConfirmStep, ConfirmQuery, ConfirmRead, ConfirmMark, ConfirmTransact,
     ConfirmRecordRefunded, ConfirmRecordConfirmed, RefundStep, RefundQuery, RefundRead,
     RefundMark, RefundLookup, RefundConfirm, RefundCheckOut, RefundTransact,
     RefundRecordRefunded, RecoverStep, RecoverQuery, RecoverSet, OnlyReads, OnlyWritesTable,
     OnlySubmits
<1>3. CASE Callbacks
  BY <1>0, <1>1, <1>3 DEF Callbacks, OnTransferOut, OnTransferOutSaveIn, OnTransferIn, OnConfirmed,
     OnConfirmedSetRelated, OnRefunded, CallbackLeaves
<1>4. CASE Environment \/ UNCHANGED vars
  BY <1>0, <1>1, <1>4 DEF Environment, UserLocks, SomeoneConfirms, SomeoneRefunds, SafeBlockMoves,
     BlockMined, Tick, NodeLeaves, vars
<1> QED
  BY <1>0, <1>1, <1>2, <1>3, <1>4 DEF Next

\* Without a fault a worker goes on with its row, and a transaction leaves the
\* pools by being mined.
NothingBreaks ==
    /\ WorkerSame("confirm") \/ ConfirmStep
    /\ WorkerSame("refund") \/ RefundStep
    /\ \A tx \in pendingConfirm : tx \in pendingConfirm' \/ MineConfirm(tx)
    /\ \A i \in pendingRefund : i \in pendingRefund' \/ MineRefund(i)

LEMMA OnlyFaultsBreak ==
    ASSUME TypeInv, [Next]_vars, ~ Faulty
    PROVE  NothingBreaks
<1>. USE DEF TypeInv, TypeOK, Workers, NothingBreaks, WorkerSame, workerVars, chainVars, poolVars
<1>1. CASE SendStep
  BY <1>1 DEF SendStep, SendQuery, SendRead, SendRecordLocked, SendFee, SendMark, SendTransact,
     QueryReturns, TakeRow, GoTo, RowDone, OnlyReads, OnlyWritesTable, SubmitTransferIn
<1>2. CASE ConfirmStep
  BY <1>2 DEF ConfirmStep, ConfirmQuery, ConfirmRead, ConfirmMark, ConfirmTransact,
     ConfirmRecordRefunded, ConfirmRecordConfirmed, QueryReturns, TakeRow, GoTo, RowDone,
     OnlyReads, OnlyWritesTable, SubmitConfirm
<1>3. CASE RefundStep
  BY <1>3 DEF RefundStep, RefundQuery, RefundRead, RefundMark, RefundLookup, RefundConfirm,
     RefundCheckOut, RefundTransact, RefundRecordRefunded, QueryReturns, TakeRow, GoTo, RowDone,
     OnlyReads, OnlyWritesTable, SubmitConfirm, SubmitRefund
<1>4. CASE RecoverStep
  BY <1>4 DEF RecoverStep, RecoverQuery, RecoverSet, RecoverTakes, OnlyReads, OnlyWritesTable
<1>5. CASE Callbacks
  BY <1>5 DEF Callbacks, OnTransferOut, OnTransferOutSaveIn, OnTransferIn, OnConfirmed,
     OnConfirmedSetRelated, OnRefunded, CallbackLeaves
<1>6. CASE BlockMined
  BY <1>6 DEF BlockMined, MineTransferIn, MineConfirm, MineRefund, NodeLeaves
<1>7. CASE Environment /\ ~ BlockMined
  BY <1>7 DEF Environment, UserLocks, UserTransferOut, SomeoneConfirms, AnyoneConfirm,
     SomeoneRefunds, AnyoneRefund, SafeBlockMoves, Finalize, Tick, ClockTicks, NodeLeaves
<1>8. CASE UNCHANGED vars
  BY <1>8 DEF vars
<1> QED
  BY <1>1, <1>2, <1>3, <1>4, <1>5, <1>6, <1>7, <1>8 DEF Next

LEMMA Distributes ==
    ASSUME NEW a \in Nat, NEW b \in Nat, NEW c \in Nat
    PROVE  /\ a * c \in Nat /\ b * c \in Nat
           /\ (a + b) * c = a * c + b * c
OBVIOUS

\* The deadline moves only with a fault, by what that costs.
LEMMA LatestMoves ==
    ASSUME TypeInv, [Next]_vars, NEW i \in Tids, timelock'[i] = timelock[i]
    PROVE  /\ RetryAfter \in Nat /\ RetryTime = RetryAfter + 1
           /\ Latest(i) \in Nat /\ Latest(i)' \in Nat
           /\ timelock[i] < Latest(i)
           /\ faults' = faults => Latest(i)' = Latest(i)
           /\ faults' = faults + 1 => Latest(i)' = Latest(i) + RetryTime
<1>1. /\ timelock[i] \in Nat /\ faults \in Nat
      /\ faults' = faults \/ faults' = faults + 1
      /\ RetryTime \in Nat /\ RetryAfter \in Nat
  BY FaultsAreCounted, TimesAssumption DEF TypeInv, TypeOK, TableTypeOK, RetryTime
<1>2. /\ faults * RetryTime \in Nat
      /\ (faults + 1) * RetryTime = faults * RetryTime + RetryTime
  <2>1. (faults + 1) * RetryTime = faults * RetryTime + 1 * RetryTime
    BY <1>1, Distributes
  <2>2. 1 * RetryTime = RetryTime
    BY <1>1
  <2> QED
    BY <1>1, <2>1, <2>2, Distributes
<1>3. PICK f \in Nat : f = faults * RetryTime
  BY <1>2
<1>4. Latest(i) = timelock[i] + 1 + f /\ Latest(i)' = timelock[i] + 1 + faults' * RetryTime
  BY <1>3 DEF Latest, RetryTime
<1>5. faults' = faults + 1 => Latest(i)' = timelock[i] + 1 + (f + RetryTime)
  BY <1>2, <1>3, <1>4
<1>6. faults' = faults => Latest(i)' = timelock[i] + 1 + f
  BY <1>3, <1>4
<1>7. Latest(i) = timelock[i] + 1 + f
  BY <1>4
<1>8. RetryTime = RetryAfter + 1
  BY DEF RetryTime
<1>9. Latest(i) \in Nat /\ timelock[i] < Latest(i)
  BY <1>1, <1>7
<1>10. CASE faults' = faults
  <2>1. faults' # faults + 1
    BY <1>1, <1>10
  <2> QED
    BY <1>1, <1>6, <1>7, <1>8, <1>9, <1>10, <2>1
<1>11. CASE faults' = faults + 1
  <2>1. faults' # faults
    BY <1>1, <1>11
  <2>2. timelock[i] + 1 + (f + RetryTime) = (timelock[i] + 1 + f) + RetryTime
    BY <1>1
  <2>3. Latest(i)' = Latest(i) + RetryTime
    BY <1>5, <1>7, <1>11, <2>2
  <2> QED
    BY <1>1, <1>8, <1>9, <1>11, <2>1, <2>3
<1> QED
  BY <1>1, <1>10, <1>11

\* The eight hours leave time for every fault there may be.
LEMMA LatestBeforeOut ==
    ASSUME IInv, NEW i \in TransferIns, HasRow(i)
    PROVE  Latest(i) + TimeLockSafeMargin < OutTimeLock[relatedTid[i]]
<1>1. /\ relatedTid[i] \in TransferOuts /\ timelock[i] = InTimeLock(relatedTid[i])
      /\ OutTimeLock[relatedTid[i]] \in Nat
      /\ timelock[i] \in Nat
      /\ faults \in Nat /\ MaxFaults \in Nat /\ faults <= MaxFaults
      /\ RetryTime \in Nat /\ TimeLockSafeMargin \in Nat /\ DstTimeLockGap \in Nat
  BY TimesAssumption, FaultsAssumption
     DEF IInv, PairsInv, InsPaired, TypeInv, TypeOK, TableTypeOK, Tids, RetryTime
<1>2. PICK d \in Nat : MaxFaults = faults + d
  BY <1>1
<1>3. /\ faults * RetryTime \in Nat /\ d * RetryTime \in Nat
      /\ (faults + d) * RetryTime = faults * RetryTime + d * RetryTime
  BY <1>1
<1>4. PICK f \in Nat : f = faults * RetryTime
  BY <1>3
<1>5. PICK m \in Nat : m = MaxFaults * RetryTime
  BY <1>1, <1>2, <1>3
<1>6. f <= m
  BY <1>2, <1>3, <1>4, <1>5
<1>7. DstTimeLockGap > 1 + m + TimeLockSafeMargin
  BY <1>5, TimelyAssumption
<1>8. Latest(i) = timelock[i] + 1 + f
  BY <1>4 DEF Latest
<1> QED
  BY <1>1, <1>6, <1>7, <1>8 DEF InTimeLock

-----------------------------------------------------------------------------
(* The funds.                                                                *)

\* What is known of the pair of an IN that is at stake after a step.
LEMMA PairAtStake ==
    ASSUME IInv, OutsTimed, [Next]_vars, NEW i \in TransferIns, AtStake(i)'
    PROVE  /\ i \in Tids /\ HasRow(i) /\ relatedTid'[i] = relatedTid[i]
           /\ timelock'[i] = timelock[i]
           /\ relatedTid[i] \in TransferOuts /\ relatedTid[i] \in Tids
           /\ HasRow(relatedTid[i]) /\ relatedTid[relatedTid[i]] = i
           /\ cstatus[relatedTid[i]] \in {"Pending", "Refunded"}
           /\ \/ AtStake(i)
              \/ cstatus[i] = "Undefined" /\ now < timelock[i]
<1>0. /\ TypeInv /\ i \in Tids /\ TransferOuts \subseteq Tids
      /\ RowsStay /\ RowKeepsData /\ ContractMoves /\ InsLocked /\ ContractsInTime
      /\ cstatus'[i] \in {"Pending", "Confirmed"}
  BY TableKeepsRows, RowsKeepData, ContractsMove, OnlyNodeLocksIns, ContractsKeepTime
     DEF IInv, RowsInv, Tids, AtStake
<1>1. ASSUME cstatus[i] = "Undefined"
      PROVE  HasRow(i) /\ now < timelock[i]
  <2>1. PICK tx \in pendingIn : tx.tid = i /\ ctimelock'[i] = tx.timelock
    BY <1>0, <1>1 DEF InsLocked
  <2>2. HasRow(i) /\ tx.timelock = timelock[i]
    BY <2>1 DEF IInv, PairsInv, InsKnown
  <2>3. now < ctimelock'[i]
    BY <1>0, <1>1 DEF ContractMoves, ContractsInTime
  <2> QED
    BY <2>1, <2>2, <2>3
<1>2. HasRow(i)
  BY <1>1 DEF IInv, PairsInv, InsKnown
<1>3. /\ relatedTid'[i] = relatedTid[i] /\ timelock'[i] = timelock[i]
      /\ relatedTid[i] \in TransferOuts /\ HasRow(relatedTid[i])
      /\ relatedTid[relatedTid[i]] = i
      /\ cfinal[relatedTid[i]] # "Undefined"
  BY <1>0, <1>2 DEF RowsStay, RowKeepsData, IInv, PairsInv, InsPaired, OutsPaired
<1>4. cstatus'[relatedTid[i]] # "Confirmed"
  BY <1>3 DEF AtStake
<1>5. cstatus[relatedTid[i]] \in {"Pending", "Refunded"}
  <2>1. cstatus[relatedTid[i]] # "Undefined"
    BY <1>0, <1>3 DEF IInv, StatusInv, ChainFollows
  <2>2. cstatus[relatedTid[i]] # "Confirmed"
    BY <1>0, <1>3, <1>4 DEF ContractMoves
  <2> QED
    BY <1>0, <1>3, <2>1, <2>2 DEF TypeInv, TypeOK, ChainTypeOK, ContractStatuses
<1>6. cstatus[i] # "Undefined" => AtStake(i)
  BY <1>0, <1>5 DEF AtStake, ContractMoves
<1> QED
  BY <1>0, <1>1, <1>2, <1>3, <1>5, <1>6

\* A refund that waits after a step without a fault waited before it.
LEMMA RefundWaited ==
    ASSUME IInv, OutsTimed, [Untimed]_vars, ~ Faulty, NEW i \in TransferIns, AtStake(i)',
           AtStake(i), cstatus'[i] = "Pending", RefundWaits(i)'
    PROVE  cstatus[i] = "Pending" /\ RefundWaits(i) /\ age'[i] = age[i]
<1>. DEFINE o == relatedTid[i]
<1>0. /\ [Next]_vars /\ TypeInv /\ i \in Tids /\ o \in Tids /\ HasRow(i) /\ HasRow(o)
      /\ cstatus[o] # "Confirmed" /\ cstatus[i] = "Pending"
  BY StepKinds, PairAtStake, ContractsMove DEF IInv, AtStake, ContractMoves
<1>1. StatusArises /\ AgesKept /\ NothingBreaks
  BY <1>0, StatusesArise, UntimedAges, OnlyFaultsBreak
<1>2. cfinal[o] # "Confirmed" /\ status[o] # "CONFIRMED"
  BY <1>0 DEF IInv, StatusInv, ChainFollows, StatusMatchesChain
<1>3. status[i] = "REFUND_PENDING" /\ age'[i] = age[i]
  <2>1. RefundMark => pc'["refund"] = "lookup" /\ cur'["refund"] = cur["refund"]
    BY <1>0 DEF RefundMark, GoTo, TypeInv, TypeOK, Workers
  <2> QED
    BY <1>0, <1>1, <2>1 DEF StatusArises, RefundWaits, AgesKept, PendingStatuses
<1>4. i \notin pendingRefund
  <2>1. SUFFICES ASSUME i \in pendingRefund
                 PROVE  FALSE
    OBVIOUS
  <2>2. MineRefund(i)
    BY <1>1, <2>1 DEF NothingBreaks, RefundWaits
  <2>3. timelock[i] < now /\ ctimelock[i] = timelock[i]
    BY <1>0, <2>1 DEF IInv, RefundsExpired, PairsInv, InsKnown
  <2>4. CanRefund(i)
    BY <1>0, <2>3 DEF CanRefund, TypeInv, TypeOK, TableTypeOK, ChainTypeOK, Times
  <2> QED
    BY <1>0, <2>2, <2>4 DEF MineRefund, ContractSettles, TypeInv, TypeOK, ChainTypeOK
<1>5. ~ (cur["refund"] = i /\ pc["refund"] \in {"lookup", "checkOut", "transact"})
  <2>1. SUFFICES ASSUME cur["refund"] = i, pc["refund"] \in {"lookup", "checkOut", "transact"}
                 PROVE  FALSE
    OBVIOUS
  <2>2. RefundStep
    BY <1>1, <2>1 DEF NothingBreaks, WorkerSame, RefundWaits
  <2>3. RelatedOut = o
    BY <2>1 DEF RelatedOut
  <2>4. CASE RefundLookup
    BY <1>0, <1>2, <2>1, <2>3, <2>4 DEF RefundLookup, GoTo, RefundWaits, TypeInv, TypeOK, Workers
  <2>5. CASE RefundCheckOut
    BY <1>0, <1>2, <2>1, <2>3, <2>5 DEF RefundCheckOut, GoTo, RefundWaits, TypeInv, TypeOK, Workers
  <2>6. CASE RefundTransact
    BY <2>1, <2>6 DEF RefundTransact, SubmitRefund, RefundWaits
  <2> QED
    BY <2>1, <2>2, <2>4, <2>5, <2>6 DEF RefundStep, RefundQuery, RefundRead, RefundMark,
       RefundConfirm, RefundRecordRefunded, QueryReturns, TakeRow
<1> QED
  BY <1>0, <1>3, <1>4, <1>5 DEF RefundWaits

\* So did a confirmation, unless the OUT has been refunded.
LEMMA ConfirmWaited ==
    ASSUME IInv, OutsTimed, [Untimed]_vars, ~ Faulty, NEW i \in TransferIns, AtStake(i)',
           cstatus[relatedTid[i]] = "Pending", ConfirmWaits(relatedTid[i])'
    PROVE  ConfirmWaits(relatedTid[i]) /\ age'[relatedTid[i]] = age[relatedTid[i]]
<1>0. /\ [Next]_vars /\ TypeInv /\ relatedTid[i] \in Tids
      /\ relatedTid'[i] = relatedTid[i] /\ cstatus'[relatedTid'[i]] # "Confirmed"
  BY StepKinds, PairAtStake DEF IInv, AtStake
<1>1. StatusArises /\ AgesKept /\ NothingBreaks
  BY <1>0, StatusesArise, UntimedAges, OnlyFaultsBreak
<1>2. PICK o \in Tids : o = relatedTid[i]
  BY <1>0
<1>w. /\ status'[o] = "CONFIRM_PENDING"
      /\ \A tx \in pendingConfirm' : tx.tid # o
      /\ ~ (cur'["confirm"] = o /\ pc'["confirm"] = "transact")
      /\ cstatus[o] = "Pending" /\ cstatus'[o] # "Confirmed"
  BY <1>0, <1>2 DEF ConfirmWaits
<1>3. status[o] = "CONFIRM_PENDING" /\ age'[o] = age[o]
  <2>1. ConfirmMark => pc'["confirm"] = "transact" /\ cur'["confirm"] = cur["confirm"]
    BY <1>0 DEF ConfirmMark, GoTo, TypeInv, TypeOK, Workers
  <2> QED
    BY <1>1, <1>w, <2>1 DEF StatusArises, AgesKept, PendingStatuses
<1>4. ASSUME NEW tx \in pendingConfirm, tx.tid = o
      PROVE  FALSE
  <2>1. MineConfirm(tx)
    BY <1>1, <1>4, <1>w DEF NothingBreaks
  <2>2. CanConfirm(tx.tid, tx.preimage)
    BY <1>4, <1>w DEF CanConfirm, IInv, PreimageInv, ConfirmsKnown
  <2> QED
    BY <1>0, <1>4, <1>w, <2>1, <2>2 DEF MineConfirm, ContractSettles, TypeInv, TypeOK, ChainTypeOK
<1>5. ~ (cur["confirm"] = o /\ pc["confirm"] = "transact")
  <2>1. SUFFICES ASSUME cur["confirm"] = o, pc["confirm"] = "transact"
                 PROVE  FALSE
    OBVIOUS
  <2>2. ConfirmStep
    BY <1>1, <1>w, <2>1 DEF NothingBreaks, WorkerSame
  <2>3. ConfirmTransact
    BY <2>1, <2>2 DEF ConfirmStep, ConfirmQuery, ConfirmRead, ConfirmMark, ConfirmRecordRefunded,
       ConfirmRecordConfirmed, QueryReturns, TakeRow
  <2>4. [tid |-> o, preimage |-> preimage[o]] \in pendingConfirm'
    BY <2>1, <2>3 DEF ConfirmTransact, SubmitConfirm
  <2> QED
    BY <1>w, <2>4
<1> QED
  BY <1>2, <1>3, <1>4, <1>5 DEF ConfirmWaits

LEMMA StakesUntimed ==
    ASSUME IInv, TimelyInv, [Untimed]_vars
    PROVE  StakesEndInTime'
<1>0. /\ [Next]_vars /\ TypeInv /\ TypeInv' /\ IInv' /\ OutsTimed /\ OutsTimed'
      /\ ConfirmsHavePreimage'
      /\ now' = now /\ now \in Nat
  BY StepKinds, IInvNext, OutsTimedNext, ConfirmsHavePreimageNext, UntimedClock, ClockGrows
     DEF IInv, TimelyInv
<1>. SUFFICES ASSUME NEW i \in TransferIns, AtStake(i)'
              PROVE  /\ cstatus'[relatedTid'[i]] # "Refunded"
                     /\ now' <= Latest(i)'
                     /\ cstatus'[i] = "Pending" /\ RefundWaits(i)' =>
                           now' + RetryTime <= Latest(i)' + age'[i]
                     /\ ConfirmWaits(relatedTid[i])' =>
                           now' + RetryTime <= Latest(i)' + age'[relatedTid'[i]]
  BY DEF StakesEndInTime
<1>1. /\ i \in Tids /\ HasRow(i) /\ relatedTid'[i] = relatedTid[i]
      /\ timelock'[i] = timelock[i]
      /\ relatedTid[i] \in TransferOuts /\ relatedTid[i] \in Tids
      /\ HasRow(relatedTid[i]) /\ relatedTid[relatedTid[i]] = i
      /\ cstatus[relatedTid[i]] \in {"Pending", "Refunded"}
      /\ \/ AtStake(i)
         \/ cstatus[i] = "Undefined" /\ now < timelock[i]
  BY <1>0, PairAtStake
<1>2. PICK o \in TransferOuts : o = relatedTid[i] /\ o \in Tids
  BY <1>1
<1>3. /\ RetryAfter \in Nat /\ RetryTime = RetryAfter + 1
      /\ Latest(i) \in Nat /\ Latest(i)' \in Nat /\ timelock[i] \in Nat
      /\ timelock[i] < Latest(i)
      /\ faults' = faults => Latest(i)' = Latest(i)
      /\ faults' = faults + 1 => Latest(i)' = Latest(i) + RetryTime
      /\ faults' = faults \/ faults' = faults + 1
      /\ faults' = faults => ~ Faulty
  BY <1>0, <1>1, LatestMoves, FaultsAreCounted DEF TypeInv, TypeOK, TableTypeOK
<1>4. /\ age'[i] \in Nat /\ age'[o] \in Nat
      /\ TimeLockSafeMargin \in Nat /\ OutTimeLock[o] \in Nat
      /\ Latest(i) + TimeLockSafeMargin < OutTimeLock[o]
  BY <1>0, <1>1, <1>2, LatestBeforeOut, TimesAssumption DEF TypeInv, TypeOK, TableTypeOK
<1>5. now <= Latest(i)
  BY <1>0, <1>1, <1>3 DEF TimelyInv, StakesEndInTime
<1>6. Latest(i) <= Latest(i)'
  BY <1>3
<1>7. cstatus'[o] # "Refunded"
  <2>1. cstatus'[o] = "Refunded" => OutTimeLock[o] <= now'
    BY <1>0 DEF OutsTimed
  <2> QED
    BY <1>0, <1>4, <1>5, <2>1, <1>3
<1>8. CASE faults' = faults + 1
  <2>1. now' + RetryTime <= Latest(i)'
    BY <1>0, <1>3, <1>5, <1>8
  <2>2. /\ now' + RetryTime <= Latest(i)' + age'[i]
        /\ now' + RetryTime <= Latest(i)' + age'[o]
    BY <1>0, <1>3, <1>4, <2>1
  <2>3. now' <= Latest(i)'
    BY <1>0, <1>3, <1>5, <1>6
  <2> QED
    BY <1>1, <1>2, <1>7, <2>2, <2>3
<1>9. CASE faults' = faults /\ AtStake(i)
  <2>1. ~ Faulty /\ Latest(i)' = Latest(i) /\ now' <= Latest(i)'
    BY <1>0, <1>3, <1>5, <1>9
  <2>2. ASSUME cstatus'[i] = "Pending", RefundWaits(i)'
        PROVE  now' + RetryTime <= Latest(i)' + age'[i]
    <3>1. cstatus[i] = "Pending" /\ RefundWaits(i) /\ age'[i] = age[i]
      BY <1>0, <1>9, <2>1, <2>2, RefundWaited
    <3> QED
      BY <1>0, <1>9, <2>1, <3>1 DEF TimelyInv, StakesEndInTime
  <2>3. ASSUME ConfirmWaits(relatedTid[i])'
        PROVE  now' + RetryTime <= Latest(i)' + age'[relatedTid[i]]
    <3>1. cstatus[relatedTid[i]] = "Pending"
      BY <1>1, <1>9 DEF TimelyInv, StakesEndInTime
    <3>2. ConfirmWaits(relatedTid[i]) /\ age'[relatedTid[i]] = age[relatedTid[i]]
      BY <1>0, <2>1, <2>3, <3>1, ConfirmWaited
    <3> QED
      BY <1>0, <1>9, <2>1, <3>2 DEF TimelyInv, StakesEndInTime
  <2> QED
    BY <1>1, <1>2, <1>7, <2>1, <2>2, <2>3
<1>10. CASE ~ AtStake(i)
  <2>1. cfinal'[i] = "Undefined"
    BY <1>0, <1>1, <1>10, SafeBlockMoving DEF IInv, StatusInv, ChainFollows, SafeBlockFollows
  <2>2. ~ RefundWaits(i)'
    BY <1>0, <1>1, <2>1 DEF IInv, StatusInv, StatusMatchesChain, RefundWaits
  <2>3. ~ ConfirmWaits(relatedTid[i])'
    <3>1. SUFFICES ASSUME status'[o] = "CONFIRM_PENDING"
                   PROVE  FALSE
      BY <1>1, <1>2 DEF ConfirmWaits
    <3>2. preimage'[o] # NoPreimage
      BY <1>0, <1>2, <3>1 DEF ConfirmsHavePreimage
    <3>3. "Confirmed" \in {cfinal'[o], cfinal'[relatedTid'[o]]}
      BY <1>0, <1>2, <3>2 DEF IInv, PreimageInv, PreimagesRevealed, Revealed
    <3>4. relatedTid'[o] = i
      BY <1>0, <1>1, <1>2, TableKeepsRows DEF IInv, RowsInv, RowsStay
    <3>5. cstatus'[o] = "Confirmed"
      BY <1>0, <1>2, <2>1, <3>3, <3>4 DEF IInv, StatusInv, ChainFollows
    <3> QED
      BY <1>1, <1>2, <3>5 DEF AtStake
  <2>4. now' <= Latest(i)'
    BY <1>0, <1>3, <1>5, <1>6
  <2> QED
    BY <1>1, <1>2, <1>7, <2>2, <2>3, <2>4
<1> QED
  BY <1>3, <1>8, <1>9, <1>10

\* Time passes only when nothing the node has to do for the pair is left undone.
LEMMA StakesTick ==
    ASSUME IInv, TimelyInv, PreimageKept, CaughtUp, Tick
    PROVE  StakesEndInTime'
<1>0. /\ [Next]_vars /\ TypeInv /\ OutsTimed
      /\ now \in Nat /\ now' \in Nat
      /\ now' = now \/ now' = now + 1
  BY ClockGrows DEF Next, Environment, IInv, TimelyInv, Tick, ClockTicks
<1>1. /\ UNCHANGED <<status, relatedTid, timelock, preimage, cstatus, cfinal, pc, cur, faults,
                     pendingConfirm, pendingRefund>>
      /\ age' = [r \in Tids |-> IF status[r] \in PendingStatuses /\ age[r] < MaxAge
                                THEN age[r] + 1 ELSE age[r]]
      /\ cfinal = cstatus /\ pendingConfirm = {} /\ pendingRefund = {}
      /\ pc["confirm"] = "loop" /\ pc["refund"] = "loop"
      /\ \A t \in Tids, kind \in EventKinds : handler[t][kind] # "second" /\ ~ Delivered(t, kind)
      /\ GetAllConfirmableLockedTransfer = {} /\ GetAllRefundAbleTransferIn(now) = {}
      /\ GetRecoverTimeoutPendingConfirm(now) = {} /\ GetRecoverTimeoutPendingRefund(now) = {}
  BY DEF Tick, ClockTicks, RowsAge, CaughtUp, NoOutcomeOnItsWay, NoCallbackDue, NoRowDue,
     workerVars, contractVars, poolVars, Workers, Recovery, TimedOutRows
<1>. SUFFICES ASSUME NEW i \in TransferIns, AtStake(i)'
              PROVE  /\ cstatus'[relatedTid'[i]] # "Refunded"
                     /\ now' <= Latest(i)'
                     /\ cstatus'[i] = "Pending" /\ RefundWaits(i)' =>
                           now' + RetryTime <= Latest(i)' + age'[i]
                     /\ ConfirmWaits(relatedTid[i])' =>
                           now' + RetryTime <= Latest(i)' + age'[relatedTid'[i]]
  BY DEF StakesEndInTime
<1>2. /\ i \in Tids /\ HasRow(i) /\ AtStake(i)
      /\ relatedTid[i] \in TransferOuts /\ relatedTid[i] \in Tids
      /\ HasRow(relatedTid[i]) /\ relatedTid[relatedTid[i]] = i
  BY <1>0, <1>1, PairAtStake DEF AtStake
<1>3. PICK o \in TransferOuts : o = relatedTid[i] /\ o \in Tids
  BY <1>2
<1>4. /\ cstatus[i] \in {"Pending", "Confirmed"}
      /\ cstatus[o] \notin {"Confirmed", "Refunded"}
      /\ now <= Latest(i)
      /\ cstatus[i] = "Pending" /\ RefundWaits(i) => now + RetryTime <= Latest(i) + age[i]
      /\ ConfirmWaits(o) => now + RetryTime <= Latest(i) + age[o]
  BY <1>2, <1>3 DEF TimelyInv, StakesEndInTime, AtStake
<1>5. /\ RetryAfter \in Nat /\ RetryTime = RetryAfter + 1
      /\ Latest(i) \in Nat /\ Latest(i)' = Latest(i) /\ timelock[i] \in Nat
      /\ timelock[i] < Latest(i)
      /\ TimeLockSafeMargin \in Nat
      /\ Latest(i) + TimeLockSafeMargin < OutTimeLock[o]
      /\ timelock[o] = OutTimeLock[o]
      /\ OutTimeLock[o] \in Nat
      /\ age[i] \in Nat /\ age[o] \in Nat
      /\ MaxAge \in Nat /\ RetryAfter < MaxAge
  BY <1>0, <1>1, <1>2, <1>3, LatestMoves, LatestBeforeOut, TimesAssumption
     DEF TypeInv, TypeOK, TableTypeOK, OutsTimed
<1>6. ASSUME cstatus[i] = "Pending", RefundWaits(i)
      PROVE  now + 1 <= Latest(i) /\ age'[i] = age[i] + 1
  <2>1. status[i] = "REFUND_PENDING" /\ now + RetryTime <= Latest(i) + age[i]
    BY <1>4, <1>6 DEF RefundWaits
  <2>2. ~ (age[i] > RetryAfter)
    BY <1>1, <1>2, <2>1 DEF GetRecoverTimeoutPendingRefund, TimedOutIn
  <2>3. age[i] <= RetryAfter
    BY <1>5, <2>2
  <2>4. now + 1 <= Latest(i)
    BY <1>0, <1>5, <2>1, <2>3
  <2>5. age'[i] = age[i] + 1
    BY <1>1, <1>2, <1>5, <2>1, <2>3 DEF PendingStatuses
  <2> QED
    BY <2>4, <2>5
<1>7. ASSUME status[o] = "CONFIRM_PENDING"
      PROVE  now + 1 <= Latest(i) /\ age'[o] = age[o] + 1
  <2>1. now + RetryTime <= Latest(i) + age[o]
    BY <1>1, <1>4, <1>7 DEF ConfirmWaits
  <2>2. ~ (age[o] > RetryAfter /\ timelock[o] > now + TimeLockSafeMargin)
    BY <1>1, <1>3, <1>7 DEF GetRecoverTimeoutPendingConfirm, TimedOutIn
  <2>3. timelock[o] > now + TimeLockSafeMargin
    BY <1>0, <1>4, <1>5
  <2>4. age[o] <= RetryAfter
    BY <1>5, <2>2, <2>3
  <2>5. now + 1 <= Latest(i)
    BY <1>0, <1>5, <2>1, <2>4
  <2>6. age'[o] = age[o] + 1
    BY <1>1, <1>3, <1>5, <1>7, <2>4 DEF PendingStatuses
  <2> QED
    BY <2>5, <2>6
<1>8. ASSUME cstatus[i] = "Pending"
      PROVE  now + 1 <= Latest(i)
  <2>1. status[i] \notin {"CONFIRMED", "REFUNDED"}
    BY <1>1, <1>2, <1>8 DEF IInv, StatusInv, StatusMatchesChain
  <2>2. handler[i]["locked"] = "acked"
    BY <1>0, <1>1, <1>2, <1>8 DEF Delivered, EventIsFinal, EventKinds, TypeInv, TypeOK, Progress
  <2>3. status[i] \notin {"TRANSFER_IN_START", "TRANSFER_IN_PENDING"}
    BY <2>2 DEF TimelyInv, LockedIsRecorded
  <2>4. status[i] # "CONFIRM_PENDING"
    BY <1>1, <1>2, <1>3, <1>4, <1>8
       DEF TimelyInv, ConfirmsHavePreimage, IInv, PreimageInv, PreimagesRevealed, Revealed
  <2>5. status[i] \in {"LOCKED", "REFUND_PENDING"}
    BY <1>0, <1>2, <2>1, <2>3, <2>4 DEF TypeInv, TypeOK, TableTypeOK, Statuses, HasRow
  <2>6. ASSUME status[i] = "LOCKED"
        PROVE  now + 1 <= Latest(i)
    <3>1. ~ (timelock[i] < now)
      BY <1>1, <2>6 DEF GetAllRefundAbleTransferIn
    <3> QED
      BY <1>0, <1>5, <3>1
  <2>7. ASSUME status[i] = "REFUND_PENDING"
        PROVE  now + 1 <= Latest(i)
    BY <1>1, <1>6, <1>8, <2>7 DEF RefundWaits
  <2> QED
    BY <2>5, <2>6, <2>7
<1>9. ASSUME cstatus[i] = "Confirmed"
      PROVE  now + 1 <= Latest(i)
  <2>1. handler[i]["confirmed"] = "acked"
    BY <1>0, <1>1, <1>2, <1>9 DEF Delivered, EventIsFinal, EventKinds, TypeInv, TypeOK, Progress
  <2>2. preimage[o] # NoPreimage
    BY <1>2, <1>3, <2>1, TransfersAssumption DEF PreimageKept
  <2>3. status[o] # "LOCKED"
    BY <1>1, <1>3, <2>2 DEF GetAllConfirmableLockedTransfer
  <2>4. status[o] \notin {"CONFIRMED", "REFUNDED"}
    BY <1>1, <1>3, <1>4 DEF IInv, StatusInv, StatusMatchesChain
  <2>5. status[o] = "CONFIRM_PENDING"
    BY <1>0, <1>2, <1>3, <2>3, <2>4 DEF OutsTimed, TypeInv, TypeOK, TableTypeOK, Statuses, HasRow
  <2> QED
    BY <1>7, <2>5
<1>10. now' <= Latest(i)'
  BY <1>0, <1>4, <1>5, <1>8, <1>9
<1>11. ASSUME cstatus[i] = "Pending", RefundWaits(i)
       PROVE  now' + RetryTime <= Latest(i)' + age'[i]
  <2>1. now + RetryTime <= Latest(i) + age[i] /\ age'[i] = age[i] + 1
    BY <1>4, <1>6, <1>11
  <2> QED
    BY <1>0, <1>5, <2>1
<1>12. ASSUME ConfirmWaits(o)
       PROVE  now' + RetryTime <= Latest(i)' + age'[o]
  <2>1. now + RetryTime <= Latest(i) + age[o] /\ age'[o] = age[o] + 1
    BY <1>4, <1>7, <1>12 DEF ConfirmWaits
  <2> QED
    BY <1>0, <1>5, <2>1
<1>13. /\ RefundWaits(i)' => RefundWaits(i)
       /\ ConfirmWaits(relatedTid[i])' => ConfirmWaits(o)
  BY <1>1, <1>3 DEF RefundWaits, ConfirmWaits
<1> QED
  BY <1>1, <1>3, <1>4, <1>10, <1>11, <1>12, <1>13

LEMMA TimelyInvInit == Init => TimelyInv
BY DEF Init, TableInit, ChainInit, Workers, TimelyInv, OutsTimed, ConfirmsHavePreimage,
   LockedIsRecorded, StakesEndInTime, AtStake, HasRow, Tids, EventKinds

LEMMA TimelyInvNext ==
    ASSUME IInv, PreimageKept, TimelyInv, [TimelyNext]_vars
    PROVE  TimelyInv'
<1>1. [Next]_vars
  BY StepKinds
<1>2. OutsTimed' /\ ConfirmsHavePreimage' /\ LockedIsRecorded'
  BY <1>1, OutsTimedNext, ConfirmsHavePreimageNext, LockedIsRecordedNext DEF TimelyInv
<1>3. StakesEndInTime'
  BY StepKinds, StakesUntimed, StakesTick
<1> QED
  BY <1>2, <1>3 DEF TimelyInv

\* The invariant of the node that keeps up.
THEOREM TimelyInvHolds == TimelySpec => []TimelyInv
<1>1. "miss" \notin FaultKinds
  BY TimelyAssumption
<1>2. TimelySpec => []PreimageKept
  BY <1>1, TimelyIsRelayNode, PreimagesAreKept, PTL
<1>3. IInv /\ PreimageKept /\ TimelyInv /\ [TimelyNext]_vars => TimelyInv'
  BY TimelyInvNext
<1>4. TimelySpec => []IInv
  BY TimelyIsRelayNode, InvariantHolds, PTL
<1> QED
  BY <1>2, <1>3, <1>4, TimelyInvInit, PTL DEF TimelySpec

\* "the relay node funds are fully secured": the user never has the IN while the
\* OUT is refunded as well, however many retries the faults there may be cost.
\* The refund of the IN, or else the confirmation of the OUT, comes before the
\* time lock of the OUT.
THEOREM TheNodeNeverLoses == TimelySpec => []NodeNeverLoses
<1>1. TimelyInv => NodeNeverLoses
  BY DEF TimelyInv, StakesEndInTime, AtStake, NodeNeverLoses
<1> QED
  BY <1>1, TimelyInvHolds, PTL
=============================================================================
