--------------------------- MODULE RelayNodeProofs ---------------------------
(***************************************************************************)
(* That TypeInv and RowsInv are invariants of RelayNode, for every value   *)
(* of its constants: one lemma per statement of the transfer table and per *)
(* step of the chains, one per group of the node's actions, and TypeOK.    *)
(***************************************************************************)
EXTENDS RelayNodeInvariants, TLAPS

-----------------------------------------------------------------------------
USE TransfersAssumption, AmountsAssumption, TimesAssumption, FaultsAssumption

LEMMA TableInitTyped ==
    TableInit => TableTypeOK
BY DEF TableInit, TableTypeOK, Statuses

LEMMA InsertTyped ==
    ASSUME TableTypeOK, NEW t \in Tids, NEW initial \in Statuses, NEW related \in Tids,
           NEW lock \in Nat, NEW amt \in Nat, InsertTransfer(t, initial, related, lock, amt)
    PROVE  TableTypeOK'
BY DEF TableTypeOK, InsertTransfer, tableVars

LEMMA SetByFromTyped ==
    ASSUME TableTypeOK, NEW t \in Tids, NEW to \in Statuses, NEW from \in Statuses,
           SetTransferStatusByFrom(t, to, from)
    PROVE  TableTypeOK'
BY DEF TableTypeOK, SetTransferStatusByFrom, SetStatus

LEMMA UpdateTyped ==
    ASSUME TableTypeOK, NEW t \in Tids, NEW to \in Statuses, UpdateTransferStatus(t, to)
    PROVE  TableTypeOK'
BY DEF TableTypeOK, UpdateTransferStatus, SetStatus

LEMMA RecordInTyped ==
    ASSUME TableTypeOK, NEW t \in Tids, RecordTransferIn(t)
    PROVE  TableTypeOK'
BY DEF TableTypeOK, RecordTransferIn, SetStatus, Statuses

LEMMA ConfirmTyped ==
    ASSUME TableTypeOK, NEW t \in Tids, NEW image \in Secrets \union {NoPreimage},
           ConfirmTransfer(t, image)
    PROVE  TableTypeOK'
BY DEF TableTypeOK, ConfirmTransfer, SetStatus, Statuses

LEMMA RelatedTyped ==
    ASSUME TableTypeOK, NEW t \in Tids, NEW image \in Secrets, SetRelatedTxPreimage(image, t)
    PROVE  TableTypeOK'
BY DEF TableTypeOK, SetRelatedTxPreimage

LEMMA AmountTyped ==
    ASSUME TableTypeOK, NEW t \in Tids, NEW a \in Nat, NEW f \in Nat,
           SetTransferInAmountAndFee(t, a, f)
    PROVE  TableTypeOK'
BY DEF TableTypeOK, SetTransferInAmountAndFee

LEMMA AgeTyped ==
    ASSUME TableTypeOK, RowsAge
    PROVE  TableTypeOK'
BY DEF TableTypeOK, RowsAge

-----------------------------------------------------------------------------
LEMMA SubmitTyped ==
    ASSUME ChainTypeOK,
           \/ \E i \in TransferIns, a, l \in Nat : SubmitTransferIn(i, a, l)
           \/ \E t \in Tids, p \in Secrets \union {NoPreimage} : SubmitConfirm(t, p)
           \/ \E i \in TransferIns : SubmitRefund(i)
    PROVE  ChainTypeOK'
BY DEF ChainTypeOK, SubmitTransferIn, SubmitConfirm, SubmitRefund, contractVars,
       TransferInTxs, ConfirmTxs

LEMMA SettleTyped ==
    ASSUME ChainTypeOK, NEW t \in Tids, NEW o \in ContractStatuses, ContractSettles(t, o)
    PROVE  cstatus' \in [Tids -> ContractStatuses] /\ UNCHANGED <<ctimelock, camount>>
BY DEF ChainTypeOK, ContractSettles

LEMMA UsersTyped ==
    ASSUME ChainTypeOK,
           \/ \E o \in TransferOuts : UserTransferOut(o)
           \/ \E t \in Tids : AnyoneConfirm(t) \/ AnyoneRefund(t) \/ Finalize(t)
           \/ ClockTicks
    PROVE  ChainTypeOK'
<1>1. CASE \E o \in TransferOuts : UserTransferOut(o)
  BY <1>1 DEF ChainTypeOK, UserTransferOut, ContractStatuses, poolVars, Tids
<1>2. CASE \E t \in Tids : AnyoneConfirm(t) \/ AnyoneRefund(t)
  BY <1>2, SettleTyped DEF ChainTypeOK, AnyoneConfirm, AnyoneRefund, ContractStatuses, poolVars
<1>3. CASE \E t \in Tids : Finalize(t)
  BY <1>3 DEF ChainTypeOK, Finalize, ContractStatuses, poolVars, contractVars
<1>4. CASE ClockTicks
  BY <1>4 DEF ChainTypeOK, ClockTicks, poolVars, contractVars, Times
<1> QED
  BY <1>1, <1>2, <1>3, <1>4

LEMMA MinedTyped ==
    ASSUME ChainTypeOK,
           \/ \E tx \in pendingIn : MineTransferIn(tx)
           \/ \E tx \in pendingConfirm : MineConfirm(tx)
           \/ \E i \in pendingRefund : MineRefund(i)
           \/ DropTransaction
    PROVE  ChainTypeOK'
<1>1. CASE \E tx \in pendingIn : MineTransferIn(tx)
  <2>1. PICK tx \in pendingIn : MineTransferIn(tx)
    BY <1>1
  <2>2. tx.tid \in TransferIns /\ tx.tid \in Tids /\ tx.amount \in Nat /\ tx.timelock \in Nat
    BY DEF ChainTypeOK, TransferInTxs, Tids
  <2> QED
    BY <2>1, <2>2 DEF ChainTypeOK, MineTransferIn, contractVars, ContractStatuses
<1>2. CASE \E tx \in pendingConfirm : MineConfirm(tx)
  <2>1. PICK tx \in pendingConfirm : MineConfirm(tx)
    BY <1>2
  <2>2. tx.tid \in Tids
    BY DEF ChainTypeOK, ConfirmTxs
  <2> QED
    BY <2>1, <2>2, SettleTyped DEF ChainTypeOK, MineConfirm, contractVars, ContractStatuses
<1>3. CASE \E i \in pendingRefund : MineRefund(i)
  <2>1. PICK i \in pendingRefund : MineRefund(i)
    BY <1>3
  <2>2. i \in Tids
    BY DEF ChainTypeOK, Tids
  <2> QED
    BY <2>1, <2>2, SettleTyped DEF ChainTypeOK, MineRefund, contractVars, ContractStatuses
<1>4. CASE DropTransaction
  BY <1>4 DEF ChainTypeOK, DropTransaction, contractVars
<1> QED
  BY <1>1, <1>2, <1>3, <1>4

-----------------------------------------------------------------------------
LEMMA TypeInvInit == Init => TypeInv
<1> SUFFICES ASSUME Init PROVE TypeInv
  OBVIOUS
<1>1. TableTypeOK
  BY TableInitTyped DEF Init
<1>2. ChainTypeOK
  BY DEF Init, ChainInit, ChainTypeOK, Times, ContractStatuses
<1>3. handler \in [Tids -> [EventKinds -> Progress]] /\ LongEnough
  BY DEF Init, Progress, LongEnough, EventKinds, Tids
<1>4. /\ pc \in [Workers -> Steps]
      /\ todo \in [Workers -> SUBSET Tids]
      /\ cur \in [Workers -> Tids \union {NoTid}]
      /\ WorkersTyped
  BY DEF Init, WorkersTyped, Workers, Steps, StepsOf
<1> QED
  BY <1>1, <1>2, <1>3, <1>4 DEF Init, TypeInv, TypeOK

LEMMA CallbacksTyped ==
    ASSUME TypeInv, Callbacks
    PROVE  TypeInv'
<1>. USE DEF TypeInv, TypeOK
<1>a. ASSUME CallbackLeaves
      PROVE  ChainTypeOK' /\ WorkersTyped' /\ UNCHANGED <<pc, todo, cur, faults, claimedInTime>>
  BY <1>a DEF CallbackLeaves, chainVars, contractVars, poolVars, workerVars, ChainTypeOK, WorkersTyped
<1>b. ASSUME NEW t \in Tids, NEW k \in EventKinds, NEW p \in Progress, HandlerAt(t, k, p),
             p = "second" /\ k = "locked" => OutTimeLock[t] >= MinSrcTimeout
      PROVE  handler' \in [Tids -> [EventKinds -> Progress]] /\ LongEnough'
  BY <1>b DEF HandlerAt, LongEnough
<1>1. ASSUME NEW o \in TransferOuts, OnTransferOut(o)
      PROVE  TypeInv'
  <2>1. o \in Tids /\ RelatedIn[o] \in Tids /\ OutTimeLock[o] \in Nat /\ DstAmount[o] \in Nat
    BY DEF Tids
  <2>2. TableTypeOK'
    BY <1>1, <2>1, InsertTyped DEF OnTransferOut, Statuses
  <2>3. handler' \in [Tids -> [EventKinds -> Progress]] /\ LongEnough'
    <3>1. now \in Nat
      BY DEF ChainTypeOK, Times
    <3>2. CASE OutTimeLock[o] - now < MinSrcTimeout
      BY <3>2, <1>1, <1>b, <2>1 DEF OnTransferOut, EventKinds, Progress
    <3>3. CASE ~ (OutTimeLock[o] - now < MinSrcTimeout)
      BY <3>1, <3>3, <1>1, <1>b, <2>1 DEF OnTransferOut, EventKinds, Progress
    <3> QED
      BY <3>2, <3>3
  <2> QED
    BY <1>1, <1>a, <2>2, <2>3 DEF OnTransferOut
<1>2. ASSUME NEW o \in TransferOuts, OnTransferOutSaveIn(o)
      PROVE  TypeInv'
  <2>1. o \in Tids /\ RelatedIn[o] \in Tids /\ DstAmount[o] \in Nat
    BY DEF Tids
  <2>2. InTimeLock(o) \in Nat
    BY <1>2 DEF OnTransferOutSaveIn, LongEnough, InTimeLock
  <2>3. TableTypeOK'
    BY <1>2, <2>1, <2>2, InsertTyped DEF OnTransferOutSaveIn, Statuses
  <2>4. handler' \in [Tids -> [EventKinds -> Progress]] /\ LongEnough'
    BY <1>2, <1>b, <2>1 DEF OnTransferOutSaveIn, EventKinds, Progress
  <2> QED
    BY <1>2, <1>a, <2>3, <2>4 DEF OnTransferOutSaveIn
<1>3. ASSUME NEW i \in TransferIns, OnTransferIn(i)
      PROVE  TypeInv'
  <2>1. i \in Tids
    BY DEF Tids
  <2>2. TableTypeOK'
    BY <1>3, <2>1, RecordInTyped DEF OnTransferIn
  <2>3. handler' \in [Tids -> [EventKinds -> Progress]] /\ LongEnough'
    BY <1>3, <1>b, <2>1 DEF OnTransferIn, EventKinds, Progress
  <2> QED
    BY <1>3, <1>a, <2>2, <2>3 DEF OnTransferIn
<1>4. ASSUME NEW t \in Tids, OnConfirmed(t)
      PROVE  TypeInv'
  <2>1. TableTypeOK'
    BY <1>4, ConfirmTyped DEF OnConfirmed
  <2>2. handler' \in [Tids -> [EventKinds -> Progress]] /\ LongEnough'
    BY <1>4, <1>b DEF OnConfirmed, EventKinds, Progress
  <2> QED
    BY <1>4, <1>a, <2>1, <2>2 DEF OnConfirmed
<1>5. ASSUME NEW t \in Tids, OnConfirmedSetRelated(t)
      PROVE  TypeInv'
  <2>1. TableTypeOK'
    BY <1>5, RelatedTyped DEF OnConfirmedSetRelated
  <2>2. handler' \in [Tids -> [EventKinds -> Progress]] /\ LongEnough'
    BY <1>5, <1>b DEF OnConfirmedSetRelated, EventKinds, Progress
  <2> QED
    BY <1>5, <1>a, <2>1, <2>2 DEF OnConfirmedSetRelated
<1>6. ASSUME NEW t \in Tids, OnRefunded(t)
      PROVE  TypeInv'
  <2>1. TableTypeOK'
    BY <1>6, UpdateTyped DEF OnRefunded, RefundTransfer, Statuses
  <2>2. handler' \in [Tids -> [EventKinds -> Progress]] /\ LongEnough'
    BY <1>6, <1>b DEF OnRefunded, EventKinds, Progress
  <2> QED
    BY <1>6, <1>a, <2>1, <2>2 DEF OnRefunded
<1> QED
  BY <1>1, <1>2, <1>3, <1>4, <1>5, <1>6 DEF Callbacks

LEMMA QueryTyped ==
    ASSUME TypeInv, NEW w \in {"send", "confirm", "refund"}, NEW rows \in SUBSET Tids,
           w # "confirm" => rows \subseteq TransferIns,
           QueryReturns(w, rows), OnlyReads
    PROVE  TypeInv'
BY DEF TypeInv, TypeOK, QueryReturns, OnlyReads, WorkersTyped, LongEnough, TableTypeOK, tableVars,
       ChainTypeOK, chainVars, contractVars, poolVars, Workers

LEMMA TakeRowTyped ==
    ASSUME TypeInv, NEW w \in {"send", "confirm", "refund"}, NEW t \in Tids, NEW step \in Steps,
           TakeRow(w, t, step)
    PROVE  /\ pc' \in [Workers -> Steps]
           /\ todo' \in [Workers -> SUBSET Tids]
           /\ cur' \in [Workers -> Tids \union {NoTid}]
           /\ WorkersTyped'
BY DEF TypeInv, TypeOK, TakeRow, WorkersTyped, Workers

LEMMA GoToTyped ==
    ASSUME TypeInv, NEW w \in {"send", "confirm", "refund"}, NEW step \in Steps,
           pc[w] # "loop", GoTo(w, step)
    PROVE  /\ pc' \in [Workers -> Steps]
           /\ todo' \in [Workers -> SUBSET Tids]
           /\ cur' \in [Workers -> Tids \union {NoTid}]
           /\ WorkersTyped'
BY DEF TypeInv, TypeOK, GoTo, WorkersTyped, Workers

LEMMA RowDoneTyped ==
    ASSUME TypeInv, NEW w \in Workers, RowDone(w)
    PROVE  /\ pc' \in [Workers -> Steps]
           /\ todo' \in [Workers -> SUBSET Tids]
           /\ cur' \in [Workers -> Tids \union {NoTid}]
           /\ WorkersTyped'
BY DEF TypeInv, TypeOK, RowDone, WorkersTyped, Workers, Steps, StepsOf

LEMMA StepNames ==
    /\ {"loop", "recordLocked", "fee", "mark", "transact", "retry"} \subseteq Steps
    /\ {"recordRefunded", "recordConfirmed", "lookup", "confirm", "checkOut"} \subseteq Steps
    /\ {"transferIn", "refund"} \subseteq Steps
<1>1. \A w \in Workers : StepsOf(w) \subseteq Steps
  BY DEF Steps
<1>2. /\ StepsOf("send") \subseteq Steps /\ StepsOf("confirm") \subseteq Steps
      /\ StepsOf("refund") \subseteq Steps /\ StepsOf("recover") \subseteq Steps
  BY <1>1 DEF Workers
<1> QED
  BY <1>2 DEF StepsOf

LEMMA OnlyReadsTyped ==
    ASSUME TypeInv, OnlyReads
    PROVE  /\ TableTypeOK' /\ ChainTypeOK' /\ LongEnough'
           /\ UNCHANGED <<handler, faults, claimedInTime>>
BY DEF TypeInv, TypeOK, OnlyReads, LongEnough, TableTypeOK, tableVars,
       ChainTypeOK, chainVars, contractVars, poolVars

LEMMA OnlyWritesTableTyped ==
    ASSUME TypeInv, OnlyWritesTable
    PROVE  ChainTypeOK' /\ LongEnough' /\ UNCHANGED <<handler, faults, claimedInTime>>
BY DEF TypeInv, TypeOK, OnlyWritesTable, LongEnough, ChainTypeOK, chainVars, contractVars, poolVars

LEMMA OnlySubmitsTyped ==
    ASSUME TypeInv, OnlySubmits
    PROVE  TableTypeOK' /\ LongEnough' /\ UNCHANGED <<handler, faults, claimedInTime>>
BY DEF TypeInv, TypeOK, OnlySubmits, LongEnough, TableTypeOK, tableVars

-----------------------------------------------------------------------------
LEMMA SendTyped ==
    ASSUME TypeInv, SendStep
    PROVE  TypeInv'
<1>. USE DEF TypeInv, TypeOK
<1>0. TransferIns \subseteq Tids
  BY DEF Tids
<1>c. pc["send"] # "loop" => cur["send"] \in TransferIns
  BY DEF WorkersTyped
<1>1. CASE SendQuery
  BY <1>1, <1>0, QueryTyped DEF SendQuery, GetAllStartTransferIn
<1>2. ASSUME NEW i \in TransferIns, SendRead(i)
      PROVE  TypeInv'
  <2>1. \E step \in Steps : TakeRow("send", i, step)
    BY <1>2, StepNames DEF SendRead
  <2> QED
    BY <1>2, <1>0, <2>1, TakeRowTyped, OnlyReadsTyped DEF SendRead
<1>3. CASE SendRecordLocked
  <2>1. TableTypeOK'
    BY <1>3, <1>0, <1>c, SetByFromTyped DEF SendRecordLocked, Statuses
  <2> QED
    BY <1>3, <2>1, RowDoneTyped, OnlyWritesTableTyped DEF SendRecordLocked, Workers
<1>4. ASSUME NEW f \in Fees, SendFee(f)
      PROVE  TypeInv'
  <2>1. cur["send"] \in Tids /\ f \in Nat
    BY <1>4, <1>0, <1>c DEF SendFee
  <2>2. amount[cur["send"]] \in Nat /\ fee[cur["send"]] \in Nat
    BY <2>1 DEF TableTypeOK
  <2>3. CASE f > OriginAmount(cur["send"])
    BY <1>4, <2>3, RowDoneTyped, OnlyWritesTableTyped DEF SendFee, Workers, TableTypeOK, tableVars
  <2>4. CASE ~ (f > OriginAmount(cur["send"]))
    <3>1. OriginAmount(cur["send"]) - f \in Nat
      BY <2>1, <2>2, <2>4 DEF OriginAmount
    <3>2. TableTypeOK'
      BY <1>4, <2>1, <2>4, <3>1, AmountTyped DEF SendFee
    <3> QED
      BY <1>4, <2>4, <3>2, GoToTyped, StepNames, OnlyWritesTableTyped DEF SendFee
  <2> QED
    BY <2>3, <2>4
<1>5. CASE SendMark
  <2>1. TableTypeOK'
    BY <1>5, <1>0, <1>c, SetByFromTyped DEF SendMark, SetPendingTransferIn, Statuses
  <2> QED
    BY <1>5, <2>1, GoToTyped, StepNames, OnlyWritesTableTyped DEF SendMark
<1>6. CASE SendTransact
  <2>1. cur["send"] \in TransferIns
    BY <1>6, <1>c DEF SendTransact
  <2>2. amount[cur["send"]] \in Nat /\ timelock[cur["send"]] \in Nat
    BY <2>1, <1>0 DEF TableTypeOK
  <2>3. ChainTypeOK'
    BY <1>6, <2>1, <2>2, SubmitTyped DEF SendTransact
  <2> QED
    BY <1>6, <2>3, RowDoneTyped, OnlySubmitsTyped DEF SendTransact, Workers
<1> QED
  BY <1>1, <1>2, <1>3, <1>4, <1>5, <1>6 DEF SendStep

LEMMA ConfirmStepTyped ==
    ASSUME TypeInv, ConfirmStep
    PROVE  TypeInv'
<1>. USE DEF TypeInv, TypeOK
<1>c. pc["confirm"] # "loop" => cur["confirm"] \in Tids
  BY DEF WorkersTyped
<1>d. cur["confirm"] \in Tids => preimage[cur["confirm"]] \in Secrets \union {NoPreimage}
  BY DEF TableTypeOK
<1>1. CASE ConfirmQuery
  BY <1>1, QueryTyped DEF ConfirmQuery, GetAllConfirmableLockedTransfer
<1>2. ASSUME NEW t \in Tids, ConfirmRead(t)
      PROVE  TypeInv'
  <2>1. \E step \in Steps : TakeRow("confirm", t, step)
    BY <1>2, StepNames DEF ConfirmRead
  <2> QED
    BY <1>2, <2>1, TakeRowTyped, OnlyReadsTyped DEF ConfirmRead
<1>3. CASE ConfirmMark
  <2>1. TableTypeOK'
    BY <1>3, <1>c, SetByFromTyped DEF ConfirmMark, Statuses
  <2> QED
    BY <1>3, <2>1, GoToTyped, StepNames, OnlyWritesTableTyped DEF ConfirmMark
<1>4. CASE ConfirmTransact
  <2>1. ChainTypeOK'
    BY <1>4, <1>c, <1>d, SubmitTyped DEF ConfirmTransact
  <2> QED
    BY <1>4, <2>1, RowDoneTyped, OnlySubmitsTyped DEF ConfirmTransact, Workers
<1>5. CASE ConfirmRecordRefunded
  <2>1. TableTypeOK'
    BY <1>5, <1>c, UpdateTyped DEF ConfirmRecordRefunded, Statuses
  <2> QED
    BY <1>5, <2>1, RowDoneTyped, OnlyWritesTableTyped DEF ConfirmRecordRefunded, Workers
<1>6. CASE ConfirmRecordConfirmed
  <2>1. TableTypeOK'
    BY <1>6, <1>c, <1>d, ConfirmTyped DEF ConfirmRecordConfirmed
  <2> QED
    BY <1>6, <2>1, RowDoneTyped, OnlyWritesTableTyped DEF ConfirmRecordConfirmed, Workers
<1> QED
  BY <1>1, <1>2, <1>3, <1>4, <1>5, <1>6 DEF ConfirmStep

LEMMA RefundStepTyped ==
    ASSUME TypeInv, RowsInv, RefundStep
    PROVE  TypeInv'
<1>. USE DEF TypeInv, TypeOK
<1>0. TransferIns \subseteq Tids
  BY DEF Tids
<1>c. pc["refund"] # "loop" => cur["refund"] \in TransferIns
  BY DEF WorkersTyped
<1>1. CASE RefundQuery
  BY <1>1, <1>0, QueryTyped DEF RefundQuery, GetAllRefundAbleTransferIn
<1>2. ASSUME NEW i \in TransferIns, RefundRead(i)
      PROVE  TypeInv'
  <2>1. \E step \in Steps : TakeRow("refund", i, step)
    BY <1>2, StepNames DEF RefundRead
  <2> QED
    BY <1>2, <1>0, <2>1, TakeRowTyped, OnlyReadsTyped DEF RefundRead
<1>3. CASE RefundMark
  <2>1. TableTypeOK'
    BY <1>3, <1>0, <1>c, SetByFromTyped DEF RefundMark, Statuses
  <2> QED
    BY <1>3, <2>1, GoToTyped, StepNames, OnlyWritesTableTyped DEF RefundMark
<1>4. CASE RefundLookup
  <2>1. RowDone("refund") \/ \E step \in Steps : GoTo("refund", step)
    BY <1>4, StepNames DEF RefundLookup
  <2> QED
    BY <1>4, <2>1, RowDoneTyped, GoToTyped, OnlyReadsTyped DEF RefundLookup, Workers
<1>5. CASE RefundConfirm
  <2>0. cur["refund"] \in Tids /\ cur["refund"] # NoTid
    BY <1>5, <1>0, <1>c DEF RefundConfirm
  <2>1. cur["refund"] \in Tids /\ preimage[RelatedOut] \in Secrets \union {NoPreimage}
    BY <2>0 DEF RowsInv, RowsRelated, RowsAtHand, Workers, RelatedOut, TableTypeOK
  <2>2. ChainTypeOK'
    BY <1>5, <2>1, SubmitTyped DEF RefundConfirm
  <2> QED
    BY <1>5, <2>2, RowDoneTyped, OnlySubmitsTyped DEF RefundConfirm, Workers
<1>6. CASE RefundCheckOut
  <2>1. RowDone("refund") \/ \E step \in Steps : GoTo("refund", step)
    BY <1>6, StepNames DEF RefundCheckOut
  <2> QED
    BY <1>6, <2>1, RowDoneTyped, GoToTyped, OnlyReadsTyped DEF RefundCheckOut, Workers
<1>7. CASE RefundTransact
  <2>1. ChainTypeOK'
    BY <1>7, <1>c, SubmitTyped DEF RefundTransact
  <2> QED
    BY <1>7, <2>1, RowDoneTyped, OnlySubmitsTyped DEF RefundTransact, Workers
<1>8. CASE RefundRecordRefunded
  <2>1. TableTypeOK'
    BY <1>8, <1>0, <1>c, UpdateTyped DEF RefundRecordRefunded, Statuses
  <2> QED
    BY <1>8, <2>1, RowDoneTyped, OnlyWritesTableTyped DEF RefundRecordRefunded, Workers
<1> QED
  BY <1>1, <1>2, <1>3, <1>4, <1>5, <1>6, <1>7, <1>8 DEF RefundStep

LEMMA RecoverTakesTyped ==
    ASSUME TypeInv, NEW t \in Tids, RecoverTakes(t)
    PROVE  /\ pc' \in [Workers -> Steps]
           /\ todo' \in [Workers -> SUBSET Tids]
           /\ cur' \in [Workers -> Tids \union {NoTid}]
           /\ WorkersTyped'
BY StepNames DEF TypeInv, TypeOK, RecoverTakes, WorkersTyped, Workers

LEMMA RecoverStepTyped ==
    ASSUME TypeInv, RecoverStep
    PROVE  TypeInv'
<1>. USE DEF TypeInv, TypeOK
<1>1. ASSUME NEW kind \in Recovery, RecoverQuery(kind)
      PROVE  TypeInv'
  <2>1. kind \in Steps
    BY StepNames DEF Recovery
  <2>2. TimedOutRows(kind) \subseteq Tids
    BY DEF TimedOutRows, Recovery, GetRecoverTimeoutPendingTransferIn,
           GetRecoverTimeoutPendingConfirm, GetRecoverTimeoutPendingRefund, Tids
  <2>3. /\ pc' \in [Workers -> Steps]
        /\ todo' \in [Workers -> SUBSET Tids]
        /\ cur' \in [Workers -> Tids \union {NoTid}]
        /\ WorkersTyped'
    BY <1>1, <2>1, <2>2 DEF RecoverQuery, WorkersTyped, Workers
  <2> QED
    BY <1>1, <2>3, OnlyReadsTyped DEF RecoverQuery
<1>2. ASSUME NEW t \in Tids, RecoverSet(t)
      PROVE  TypeInv'
  <2>1. TableTypeOK'
    BY <1>2, SetByFromTyped DEF RecoverSet, RecoverRow, Statuses
  <2> QED
    BY <1>2, <2>1, RecoverTakesTyped, OnlyWritesTableTyped DEF RecoverSet
<1> QED
  BY <1>1, <1>2 DEF RecoverStep

-----------------------------------------------------------------------------
LEMMA FaultyTyped ==
    ASSUME TypeInv, Faulty
    PROVE  TypeInv'
<1>. USE DEF TypeInv, TypeOK
<1>f. ASSUME NEW k, Fault(k)
      PROVE  faults' \in 0 .. MaxFaults
  BY <1>f DEF Fault
<1>t. ASSUME UNCHANGED tableVars
      PROVE  TableTypeOK'
  BY <1>t DEF tableVars, TableTypeOK
<1>c. ASSUME UNCHANGED chainVars
      PROVE  ChainTypeOK'
  BY <1>c DEF chainVars, contractVars, poolVars, ChainTypeOK
<1>w. ASSUME UNCHANGED workerVars
      PROVE  WorkersTyped' /\ UNCHANGED <<pc, todo, cur>>
  BY <1>w DEF workerVars, WorkersTyped
<1>h. ASSUME UNCHANGED handler
      PROVE  LongEnough'
  BY <1>h DEF LongEnough
<1>1. CASE Crash
  <2>1. handler' \in [Tids -> [EventKinds -> Progress]] /\ LongEnough'
    BY <1>1 DEF Crash, Progress, LongEnough, EventKinds, Tids
  <2>2. /\ pc' \in [Workers -> Steps]
        /\ todo' \in [Workers -> SUBSET Tids]
        /\ cur' \in [Workers -> Tids \union {NoTid}]
        /\ WorkersTyped'
    BY <1>1, StepNames DEF Crash, Workers, WorkersTyped
  <2> QED
    BY <1>1, <1>f, <1>t, <1>c, <2>1, <2>2 DEF Crash
<1>2. CASE TransactionLost
  <2>1. ChainTypeOK'
    BY <1>2, MinedTyped DEF TransactionLost
  <2> QED
    BY <1>2, <1>f, <1>t, <1>w, <1>h, <2>1 DEF TransactionLost
<1>3. ASSUME NEW t \in Tids, NEW kind \in EventKinds, CallbackFails(t, kind) \/ EventMissed(t, kind)
      PROVE  TypeInv'
  <2>1. handler' \in [Tids -> [EventKinds -> Progress]] /\ LongEnough'
    <3>1. \E p \in {"new", "acked"} : HandlerAt(t, kind, p)
      BY <1>3 DEF CallbackFails, EventMissed
    <3> QED
      BY <3>1 DEF HandlerAt, Progress, LongEnough, Tids
  <2> QED
    BY <1>3, <1>f, <1>t, <1>c, <1>w, <2>1 DEF CallbackFails, EventMissed
<1>4. ASSUME NEW w \in Workers, RowFails(w)
      PROVE  TypeInv'
  BY <1>4, <1>f, <1>t, <1>c, <1>h, RowDoneTyped DEF RowFails
<1>5. ASSUME NEW w \in Workers, NEW t \in Tids, ReadFails(w, t)
      PROVE  TypeInv'
  <2>1. w \in {"send", "confirm", "refund"}
    BY <1>5 DEF ReadFails, Workers
  <2> QED
    BY <1>5, <1>f, <1>t, <1>c, <1>h, <2>1, TakeRowTyped, StepNames DEF ReadFails
<1>6. ASSUME NEW w \in {"send", "confirm", "refund"}, NEW step \in Steps \ {"loop"},
             NEW next \in Steps, FailureIsPassed(w, step, next)
      PROVE  TypeInv'
  BY <1>6, <1>f, <1>t, <1>c, <1>h, GoToTyped DEF FailureIsPassed
<1>7. CASE SendTransactFails \/ ConfirmMarkFails \/ RefundMarkFails
  BY <1>6, <1>7, StepNames DEF SendTransactFails, ConfirmMarkFails, RefundMarkFails
<1>8. ASSUME NEW t \in Tids, RecoverSetFails(t)
      PROVE  TypeInv'
  BY <1>8, <1>f, <1>t, <1>c, <1>h, RecoverTakesTyped DEF RecoverSetFails
<1> QED
  BY <1>1, <1>2, <1>3, <1>4, <1>5, <1>7, <1>8 DEF Faulty

LEMMA EnvironmentTyped ==
    ASSUME TypeInv, Environment
    PROVE  TypeInv'
<1>. USE DEF TypeInv, TypeOK
<1>n. ASSUME NodeLeaves
      PROVE  /\ TableTypeOK' /\ WorkersTyped' /\ LongEnough'
             /\ UNCHANGED <<handler, pc, todo, cur, faults>>
  BY <1>n DEF NodeLeaves, tableVars, TableTypeOK, workerVars, WorkersTyped, LongEnough
<1>1. ASSUME NEW o \in TransferOuts, UserLocks(o)
      PROVE  TypeInv'
  BY <1>1, <1>n, UsersTyped DEF UserLocks
<1>2. ASSUME NEW t \in Tids, SomeoneConfirms(t) \/ SomeoneRefunds(t)
      PROVE  TypeInv'
  BY <1>2, <1>n, UsersTyped DEF SomeoneConfirms, SomeoneRefunds
<1>3. ASSUME NEW t \in Tids, SafeBlockMoves(t)
      PROVE  TypeInv'
  <2>1. claimedInTime' \subseteq TransferOuts
    BY <1>3 DEF SafeBlockMoves, IsOut
  <2> QED
    BY <1>3, <1>n, <2>1, UsersTyped DEF SafeBlockMoves
<1>4. CASE BlockMined
  BY <1>4, <1>n, MinedTyped DEF BlockMined
<1>5. CASE Tick
  <2>1. TableTypeOK' /\ ChainTypeOK'
    BY <1>5, AgeTyped, UsersTyped DEF Tick
  <2> QED
    BY <1>5, <2>1 DEF Tick, workerVars, WorkersTyped, LongEnough
<1> QED
  BY <1>1, <1>2, <1>3, <1>4, <1>5 DEF Environment


-----------------------------------------------------------------------------
\* No step deletes a row or changes which transfer it is paired with.
RowsStay == \A t \in Tids : HasRow(t) => HasRow(t)' /\ relatedTid'[t] = relatedTid[t]

\* An insert changes nothing but the row it makes, if that is not there yet.
LEMMA InsertOnlyAddsRow ==
    ASSUME TypeInv, NEW t \in Tids, NEW initial, NEW related, NEW lock, NEW amt,
           InsertTransfer(t, initial, related, lock, amt)
    PROVE  \A r \in Tids : HasRow(r) \/ r # t =>
              /\ status'[r] = status[r] /\ relatedTid'[r] = relatedTid[r]
              /\ timelock'[r] = timelock[r]
              /\ amount'[r] = amount[r] /\ fee'[r] = fee[r]
<1>1. CASE HasRow(t)
  BY <1>1 DEF InsertTransfer, tableVars
<1>2. CASE ~ HasRow(t)
  <2> SUFFICES ASSUME NEW r \in Tids, r # t
               PROVE  /\ status'[r] = status[r] /\ relatedTid'[r] = relatedTid[r]
                      /\ timelock'[r] = timelock[r]
                      /\ amount'[r] = amount[r] /\ fee'[r] = fee[r]
    BY <1>2
  <2> QED
    BY <1>2 DEF InsertTransfer, TypeInv, TypeOK, TableTypeOK
<1> QED
  BY <1>1, <1>2

LEMMA InsertKeepsRows ==
    ASSUME TypeInv, RowsRelated, NEW t \in Tids, NEW initial \in Statuses \ {"UNDEFINED"},
           NEW related \in Tids, NEW lock, NEW amt,
           InsertTransfer(t, initial, related, lock, amt)
    PROVE  RowsStay /\ RowsRelated'
<1>1. \A r \in Tids : HasRow(r) \/ r # t =>
         status'[r] = status[r] /\ relatedTid'[r] = relatedTid[r]
  BY InsertOnlyAddsRow
<1>2. ~ HasRow(t) => relatedTid'[t] = related
  BY DEF InsertTransfer, TypeInv, TypeOK, TableTypeOK
<1> QED
  BY <1>1, <1>2 DEF RowsStay, RowsRelated, HasRow

LEMMA UpdatesKeepRows ==
    ASSUME TypeInv, RowsRelated, NEW t \in Tids,
           \/ \E to, from \in Statuses \ {"UNDEFINED"} : SetTransferStatusByFrom(t, to, from)
           \/ \E to \in Statuses \ {"UNDEFINED"} : UpdateTransferStatus(t, to)
           \/ RecordTransferIn(t)
           \/ \E image : ConfirmTransfer(t, image)
           \/ \E image : SetRelatedTxPreimage(image, t)
           \/ \E a, f : SetTransferInAmountAndFee(t, a, f)
    PROVE  RowsStay /\ RowsRelated'
<1>. USE DEF TypeInv, TypeOK, TableTypeOK, SetStatus, RowsStay, RowsRelated, HasRow
<1>1. CASE \E to, from \in Statuses \ {"UNDEFINED"} : SetTransferStatusByFrom(t, to, from)
  BY <1>1 DEF SetTransferStatusByFrom
<1>2. CASE \E to \in Statuses \ {"UNDEFINED"} : UpdateTransferStatus(t, to)
  BY <1>2 DEF UpdateTransferStatus
<1>3. CASE RecordTransferIn(t)
  BY <1>3 DEF RecordTransferIn
<1>4. CASE \E image : ConfirmTransfer(t, image)
  BY <1>4 DEF ConfirmTransfer
<1>5. CASE \E image : SetRelatedTxPreimage(image, t)
  BY <1>5 DEF SetRelatedTxPreimage
<1>6. CASE \E a, f : SetTransferInAmountAndFee(t, a, f)
  BY <1>6 DEF SetTransferInAmountAndFee
<1> QED
  BY <1>1, <1>2, <1>3, <1>4, <1>5, <1>6

LEMMA TableKeepsRows ==
    ASSUME TypeInv, RowsRelated, [Next]_vars
    PROVE  RowsStay /\ RowsRelated'
<1>. USE DEF TypeInv, TypeOK
<1>0. TransferIns \subseteq Tids /\ TransferOuts \subseteq Tids
  BY DEF Tids
<1>1. ASSUME UNCHANGED tableVars \/ RowsAge
      PROVE  RowsStay /\ RowsRelated'
  BY <1>1 DEF tableVars, RowsAge, RowsStay, RowsRelated, HasRow
<1>2. CASE Callbacks
  <2>1. ASSUME NEW o \in TransferOuts, OnTransferOut(o) \/ OnTransferOutSaveIn(o)
        PROVE  RowsStay /\ RowsRelated'
    <3>1. RelatedIn[o] \in TransferIns
      OBVIOUS
    <3> QED
      BY <2>1, <3>1, <1>0, InsertKeepsRows DEF OnTransferOut, OnTransferOutSaveIn, Statuses
  <2>2. ASSUME NEW i \in TransferIns, OnTransferIn(i)
        PROVE  RowsStay /\ RowsRelated'
    BY <2>2, <1>0, UpdatesKeepRows DEF OnTransferIn
  <2>3. ASSUME NEW t \in Tids, OnConfirmed(t) \/ OnConfirmedSetRelated(t)
        PROVE  RowsStay /\ RowsRelated'
    BY <2>3, UpdatesKeepRows DEF OnConfirmed, OnConfirmedSetRelated
  <2>4. ASSUME NEW t \in Tids, OnRefunded(t)
        PROVE  RowsStay /\ RowsRelated'
    BY <2>4, UpdatesKeepRows DEF OnRefunded, RefundTransfer, Statuses
  <2> QED
    BY <1>2, <2>1, <2>2, <2>3, <2>4 DEF Callbacks
<1>w. /\ pc["send"] # "loop" => cur["send"] \in Tids
      /\ pc["confirm"] # "loop" => cur["confirm"] \in Tids
      /\ pc["refund"] # "loop" => cur["refund"] \in Tids
  BY <1>0 DEF WorkersTyped
<1>3. CASE SendStep
  <2>1. CASE SendQuery \/ SendTransact \/ \E i \in TransferIns : SendRead(i)
    BY <2>1, <1>1 DEF SendQuery, SendTransact, SendRead, OnlyReads, OnlySubmits
  <2>2. CASE SendRecordLocked \/ SendMark
    BY <2>2, <1>w, UpdatesKeepRows
       DEF SendRecordLocked, SendMark, SetPendingTransferIn, Statuses
  <2>3. CASE \E f \in Fees : SendFee(f)
    BY <2>3, <1>w, <1>1, UpdatesKeepRows DEF SendFee
  <2> QED
    BY <1>3, <2>1, <2>2, <2>3 DEF SendStep
<1>4. CASE ConfirmStep
  <2>1. CASE ConfirmQuery \/ ConfirmTransact \/ \E t \in Tids : ConfirmRead(t)
    BY <2>1, <1>1 DEF ConfirmQuery, ConfirmTransact, ConfirmRead, OnlyReads, OnlySubmits
  <2>2. CASE ConfirmMark \/ ConfirmRecordRefunded
    BY <2>2, <1>w, UpdatesKeepRows DEF ConfirmMark, ConfirmRecordRefunded, Statuses
  <2>3. CASE ConfirmRecordConfirmed
    BY <2>3, <1>w, UpdatesKeepRows DEF ConfirmRecordConfirmed
  <2> QED
    BY <1>4, <2>1, <2>2, <2>3 DEF ConfirmStep
<1>5. CASE RefundStep
  <2>1. CASE \/ RefundQuery \/ RefundLookup \/ RefundConfirm \/ RefundCheckOut \/ RefundTransact
             \/ \E i \in TransferIns : RefundRead(i)
    BY <2>1, <1>1 DEF RefundQuery, RefundLookup, RefundConfirm, RefundCheckOut, RefundTransact,
       RefundRead, OnlyReads, OnlySubmits
  <2>2. CASE RefundMark \/ RefundRecordRefunded
    BY <2>2, <1>w, UpdatesKeepRows DEF RefundMark, RefundRecordRefunded, Statuses
  <2> QED
    BY <1>5, <2>1, <2>2 DEF RefundStep
<1>6. CASE RecoverStep
  <2>1. CASE \E kind \in Recovery : RecoverQuery(kind)
    BY <2>1, <1>1 DEF RecoverQuery, OnlyReads
  <2>2. CASE \E t \in Tids : RecoverSet(t)
    BY <2>2, UpdatesKeepRows DEF RecoverSet, RecoverRow, Statuses
  <2> QED
    BY <1>6, <2>1, <2>2 DEF RecoverStep
<1>7. CASE Faulty
  BY <1>7, <1>1 DEF Faulty, Crash, TransactionLost, CallbackFails, EventMissed, RowFails, ReadFails,
     SendTransactFails, ConfirmMarkFails, RefundMarkFails, FailureIsPassed, RecoverSetFails
<1>8. CASE Environment
  BY <1>8, <1>1 DEF Environment, UserLocks, SomeoneConfirms, SomeoneRefunds, SafeBlockMoves,
     BlockMined, Tick, NodeLeaves
<1>9. CASE UNCHANGED vars
  BY <1>9, <1>1 DEF vars
<1> QED
  BY <1>2, <1>3, <1>4, <1>5, <1>6, <1>7, <1>8, <1>9 DEF Next

\* A worker drops rows, or goes on to one it has queried.
WorkersMove ==
    \A w \in Workers : todo'[w] \subseteq todo[w] /\ cur'[w] \in {cur[w], NoTid} \union todo[w]

LEMMA MovesKeepRowsAtHand ==
    ASSUME TypeInv, RowsAtHand, RowsStay, WorkersMove
    PROVE  RowsAtHand'
<1> SUFFICES ASSUME NEW w \in Workers
             PROVE  /\ \A t \in todo'[w] : HasRow(t)'
                    /\ cur'[w] # NoTid => HasRow(cur[w])'
  BY DEF RowsAtHand
<1>1. \A t \in todo[w] : HasRow(t) /\ t \in Tids
  BY DEF RowsAtHand, TypeInv, TypeOK
<1>2. cur[w] # NoTid => HasRow(cur[w]) /\ cur[w] \in Tids
  BY DEF RowsAtHand, TypeInv, TypeOK
<1>3. cur'[w] # NoTid => cur'[w] \in Tids /\ HasRow(cur'[w])
  BY <1>1, <1>2 DEF WorkersMove
<1>4. \A t \in todo'[w] : t \in Tids /\ HasRow(t)
  BY <1>1 DEF WorkersMove
<1> QED
  BY <1>3, <1>4 DEF RowsStay, HasRow

LEMMA QueriesFindRows ==
    ASSUME TypeInv, RowsAtHand, OnlyReads, NEW w \in Workers, NEW rows \in SUBSET Tids,
           \A t \in rows : HasRow(t),
           todo' = [todo EXCEPT ![w] = rows], cur' = cur
    PROVE  RowsAtHand'
BY DEF TypeInv, TypeOK, RowsAtHand, OnlyReads, tableVars, HasRow

LEMMA WorkersKeepRowsAtHand ==
    ASSUME TypeInv, RowsAtHand, RowsStay, [Next]_vars
    PROVE  RowsAtHand'
<1>. USE DEF TypeInv, TypeOK
<1>0. TransferIns \subseteq Tids
  BY DEF Tids
<1>1. ASSUME \/ UNCHANGED workerVars
             \/ \E w \in Workers : RowDone(w)
             \/ \E w \in Workers : \E step : GoTo(w, step)
             \/ \E w \in Workers : \E t, step : TakeRow(w, t, step)
             \/ \E t : RecoverTakes(t)
      PROVE  RowsAtHand'
  <2>1. CASE UNCHANGED workerVars
    BY <2>1, MovesKeepRowsAtHand DEF workerVars, WorkersMove
  <2>2. CASE \E w \in Workers : RowDone(w)
    BY <2>2, MovesKeepRowsAtHand DEF RowDone, WorkersMove
  <2>3. CASE \E w \in Workers : \E step : GoTo(w, step)
    BY <2>3, MovesKeepRowsAtHand DEF GoTo, WorkersMove
  <2>4. CASE \E w \in Workers : \E t, step : TakeRow(w, t, step)
    BY <2>4, MovesKeepRowsAtHand DEF TakeRow, WorkersMove
  <2>5. CASE \E t : RecoverTakes(t)
    BY <2>5, MovesKeepRowsAtHand DEF RecoverTakes, WorkersMove
  <2> QED
    BY <1>1, <2>1, <2>2, <2>3, <2>4, <2>5
<1>2. CASE Callbacks
  BY <1>2, <1>1 DEF Callbacks, OnTransferOut, OnTransferOutSaveIn, OnTransferIn, OnConfirmed,
     OnConfirmedSetRelated, OnRefunded, CallbackLeaves
<1>q. ASSUME NEW w \in {"send", "confirm", "refund"}, NEW rows \in SUBSET Tids,
             \A t \in rows : HasRow(t), QueryReturns(w, rows), OnlyReads
      PROVE  RowsAtHand'
  BY <1>q, QueriesFindRows DEF QueryReturns, Workers
<1>3. CASE SendStep
  <2>1. CASE SendQuery
    BY <2>1, <1>0, <1>q DEF SendQuery, GetAllStartTransferIn, HasRow
  <2>2. CASE \/ SendRecordLocked \/ SendMark \/ SendTransact
             \/ \E i \in TransferIns : SendRead(i)
    BY <2>2, <1>1 DEF SendRecordLocked, SendMark, SendTransact, SendRead, Workers
  <2>3. CASE \E f \in Fees : SendFee(f)
    BY <2>3, <1>1 DEF SendFee, Workers
  <2> QED
    BY <1>3, <2>1, <2>2, <2>3 DEF SendStep
<1>4. CASE ConfirmStep
  <2>1. CASE ConfirmQuery
    BY <2>1, <1>q DEF ConfirmQuery, GetAllConfirmableLockedTransfer, HasRow
  <2>2. CASE \/ ConfirmMark \/ ConfirmTransact \/ ConfirmRecordRefunded \/ ConfirmRecordConfirmed
             \/ \E t \in Tids : ConfirmRead(t)
    BY <2>2, <1>1 DEF ConfirmMark, ConfirmTransact, ConfirmRecordRefunded, ConfirmRecordConfirmed,
       ConfirmRead, Workers
  <2> QED
    BY <1>4, <2>1, <2>2 DEF ConfirmStep
<1>5. CASE RefundStep
  <2>1. CASE RefundQuery
    BY <2>1, <1>0, <1>q DEF RefundQuery, GetAllRefundAbleTransferIn, HasRow
  <2>2. CASE \/ RefundMark \/ RefundLookup \/ RefundConfirm \/ RefundCheckOut \/ RefundTransact
             \/ RefundRecordRefunded
             \/ \E i \in TransferIns : RefundRead(i)
    BY <2>2, <1>1 DEF RefundMark, RefundLookup, RefundConfirm, RefundCheckOut, RefundTransact,
       RefundRecordRefunded, RefundRead, Workers
  <2> QED
    BY <1>5, <2>1, <2>2 DEF RefundStep
<1>6. CASE RecoverStep
  <2>1. ASSUME NEW kind \in Recovery, RecoverQuery(kind)
        PROVE  RowsAtHand'
    <3>1. TimedOutRows(kind) \subseteq Tids /\ \A t \in TimedOutRows(kind) : HasRow(t)
      BY <1>0 DEF TimedOutRows, Recovery, GetRecoverTimeoutPendingTransferIn, TimedOutIn,
         GetRecoverTimeoutPendingConfirm, GetRecoverTimeoutPendingRefund, HasRow
    <3> QED
      BY <2>1, <3>1, QueriesFindRows DEF RecoverQuery, Workers
  <2>2. CASE \E t \in Tids : RecoverSet(t)
    BY <2>2, <1>1 DEF RecoverSet
  <2> QED
    BY <1>6, <2>1, <2>2 DEF RecoverStep
<1>7. CASE Faulty
  <2>1. CASE Crash
    BY <2>1 DEF Crash, RowsAtHand
  <2>2. CASE \/ TransactionLost
             \/ \E t \in Tids, kind \in EventKinds : CallbackFails(t, kind) \/ EventMissed(t, kind)
    BY <2>2, <1>1 DEF TransactionLost, CallbackFails, EventMissed
  <2>3. CASE \E w \in Workers : RowFails(w) \/ \E t \in Tids : ReadFails(w, t)
    BY <2>3, <1>1 DEF RowFails, ReadFails
  <2>4. CASE SendTransactFails \/ ConfirmMarkFails \/ RefundMarkFails
    BY <2>4, <1>1 DEF SendTransactFails, ConfirmMarkFails, RefundMarkFails, FailureIsPassed, Workers
  <2>5. CASE \E t \in Tids : RecoverSetFails(t)
    BY <2>5, <1>1 DEF RecoverSetFails
  <2> QED
    BY <1>7, <2>1, <2>2, <2>3, <2>4, <2>5 DEF Faulty
<1>8. CASE Environment
  BY <1>8, <1>1 DEF Environment, UserLocks, SomeoneConfirms, SomeoneRefunds, SafeBlockMoves,
     BlockMined, Tick, NodeLeaves
<1>9. CASE UNCHANGED vars
  BY <1>9, <1>1 DEF vars
<1> QED
  BY <1>2, <1>3, <1>4, <1>5, <1>6, <1>7, <1>8, <1>9 DEF Next

-----------------------------------------------------------------------------
LEMMA RowsInvInit == Init => RowsInv
BY DEF Init, TableInit, RowsInv, RowsRelated, RowsAtHand, HasRow

LEMMA TypeInvNext == TypeInv /\ RowsInv /\ [Next]_vars => (TypeInv /\ RowsInv)'
<1> SUFFICES ASSUME TypeInv, RowsInv, [Next]_vars PROVE (TypeInv /\ RowsInv)'
  OBVIOUS
<1>1. ASSUME Next
      PROVE  TypeInv'
  BY <1>1, CallbacksTyped, SendTyped, ConfirmStepTyped, RefundStepTyped, RecoverStepTyped,
     FaultyTyped, EnvironmentTyped DEF Next
<1>2. ASSUME UNCHANGED vars
      PROVE  TypeInv'
  BY <1>2 DEF vars, tableVars, chainVars, contractVars, poolVars, workerVars,
     TypeInv, TypeOK, TableTypeOK, ChainTypeOK, WorkersTyped, LongEnough
<1>3. RowsInv'
  BY TableKeepsRows, WorkersKeepRowsAtHand DEF RowsInv
<1> QED
  BY <1>1, <1>2, <1>3

LEMMA TypeInvHolds == Spec => [](TypeInv /\ RowsInv)
BY TypeInvInit, RowsInvInit, TypeInvNext, PTL DEF Spec

\* Every variable keeps its type.  In particular the time lock computed for an
\* IN and the amount left after the fee never become negative, and the node
\* submits only well-formed transactions.
THEOREM TypeCorrect == Spec => []TypeOK
<1>1. TypeInv => TypeOK
  BY DEF TypeInv
<1> QED
  BY <1>1, TypeInvHolds, PTL
=============================================================================
