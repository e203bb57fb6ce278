--------------------------- MODULE RelaySwapProofs ---------------------------
(***************************************************************************)
(* RelayNode implements AtomicSwap, for every value of its constants: its  *)
(* initial states are initial states of the swap, and each of its steps is *)
(* a step of the swap or changes nothing the swap has.                     *)
(***************************************************************************)
EXTENDS RelaySwap, RelayNodeSafetyProofs

SwapInv == TypeInv /\ RowsInv /\ StatusInv /\ PairsInv /\ OutsOnTime

-----------------------------------------------------------------------------
(* OUTs are refunded on time.                                                *)

LEMMA OutsOnTimeNext ==
    ASSUME TypeInv, OutsOnTime, [Next]_vars
    PROVE  OutsOnTime'
<1>. USE DEF TypeInv, TypeOK, ChainTypeOK, OutsOnTime, Times
<1>0. TransferOuts \subseteq Tids /\ TransferIns \intersect TransferOuts = {}
  BY TransfersAssumption DEF Tids
<1>1. CASE ~ ContractMovers
  <2>1. UNCHANGED <<cstatus, ctimelock>>
    BY <1>1, OthersLeaveContracts
  <2>2. now' \in {now, now + 1}
    BY OthersLeaveClock DEF Tick, ClockTicks
  <2>3. \A o \in TransferOuts : OutTimeLock[o] <= now => OutTimeLock[o] <= now'
    BY <2>2, TimesAssumption
  <2> QED
    BY <2>1, <2>3
<1>2. ASSUME NEW t \in Tids, NEW outcome, cstatus[t] = "Pending", ContractSettles(t, outcome),
             UNCHANGED now, outcome = "Refunded" => ctimelock[t] <= now
      PROVE  OutsOnTime'
  BY <1>2, <1>0 DEF ContractSettles
<1>3. CASE \E o \in TransferOuts : UserLocks(o)
  BY <1>3, <1>0 DEF UserLocks, UserTransferOut, CanLock
<1>4. CASE \E t \in Tids : SomeoneConfirms(t) \/ SomeoneRefunds(t)
  BY <1>4, <1>2 DEF SomeoneConfirms, AnyoneConfirm, CanConfirm, SomeoneRefunds, AnyoneRefund, CanRefund
<1>5. ASSUME NEW tx \in pendingIn, MineTransferIn(tx)
      PROVE  OutsOnTime'
  <2>1. tx.tid \in TransferIns
    BY DEF TransferInTxs
  <2> QED
    BY <1>5, <2>1, <1>0 DEF MineTransferIn, contractVars
<1>6. ASSUME NEW tx \in pendingConfirm, MineConfirm(tx)
      PROVE  OutsOnTime'
  <2>1. tx.tid \in Tids
    BY DEF ConfirmTxs
  <2> QED
    BY <1>6, <2>1, <1>2 DEF MineConfirm, CanConfirm, contractVars
<1>7. ASSUME NEW i \in pendingRefund, MineRefund(i)
      PROVE  OutsOnTime'
  <2>1. i \in Tids
    BY DEF Tids
  <2> QED
    BY <1>7, <2>1, <1>2 DEF MineRefund, CanRefund, contractVars
<1> QED
  BY <1>1, <1>3, <1>4, <1>5, <1>6, <1>7 DEF ContractMovers, BlockMined

LEMMA SwapInvHolds == Spec => []SwapInv
<1>1. Init => OutsOnTime
  BY DEF Init, ChainInit, OutsOnTime, Tids
<1>2. TypeInv /\ OutsOnTime /\ [Next]_vars => OutsOnTime'
  BY OutsOnTimeNext
<1> QED
  BY <1>1, <1>2, PairsInvHolds, PTL DEF Spec, SwapInv

-----------------------------------------------------------------------------
(* Steps.                                                                    *)

\* The OUT an IN was locked against stays the same.
LEMMA BackingStays ==
    ASSUME SwapInv, [Next]_vars, NEW i \in TransferIns, cstatus[i] # "Undefined"
    PROVE  relatedTid'[i] = relatedTid[i] /\ cstatus'[i] # "Undefined"
<1>1. i \in Tids /\ HasRow(i)
  BY DEF SwapInv, PairsInv, InsKnown, Tids
<1>2. RowsStay /\ ContractMoves
  BY TableKeepsRows, ContractsMove DEF SwapInv, RowsInv
<1> QED
  BY <1>1, <1>2 DEF RowsStay, ContractMoves

\* A step that locks no IN leaves Backing alone.
LEMMA BackingUnchanged ==
    ASSUME SwapInv, [Next]_vars,
           \A i \in TransferIns : cstatus[i] = "Undefined" => cstatus'[i] = "Undefined"
    PROVE  UNCHANGED Backing
BY BackingStays DEF Backing

LEMMA StuttersSwap ==
    ASSUME SwapInv, [Next]_vars, UNCHANGED <<now, cstatus, camount>>
    PROVE  UNCHANGED Swap!vars
BY BackingUnchanged DEF Swap!vars, OutView, InView

LEMMA SettlesSwap ==
    ASSUME SwapInv, [Next]_vars, NEW t \in Tids, NEW outcome \in {"Confirmed", "Refunded"},
           cstatus[t] = "Pending", ContractSettles(t, outcome), UNCHANGED now,
           outcome = "Refunded" => ctimelock[t] <= now
    PROVE  Swap!Next
<1>0. TransferIns \subseteq Tids /\ TransferOuts \subseteq Tids /\ cstatus \in [Tids -> ContractStatuses]
  BY DEF Tids, SwapInv, TypeInv, TypeOK, ChainTypeOK
<1>1. cstatus' = [cstatus EXCEPT ![t] = outcome] /\ UNCHANGED <<ctimelock, camount>>
  BY DEF ContractSettles
<1>2. UNCHANGED Backing
  BY <1>0, <1>1, BackingUnchanged
<1>3. CASE t \in TransferOuts
  <2>1. OutView' = [OutView EXCEPT ![t] = outcome] /\ UNCHANGED InView
    BY <1>0, <1>1, <1>3, TransfersAssumption DEF OutView, InView
  <2>2. OutView[t] = "Pending" /\ (outcome = "Refunded" => OutTimeLock[t] <= now)
    BY <1>3 DEF OutView, SwapInv, OutsOnTime
  <2>3. Swap!SettleOut(t, outcome)
    BY <2>1, <2>2, <1>1, <1>2 DEF Swap!SettleOut
  <2> QED
    BY <1>3, <2>3 DEF Swap!Next
<1>4. CASE t \in TransferIns
  <2>1. InView' = [InView EXCEPT ![t] = outcome] /\ UNCHANGED OutView
    BY <1>0, <1>1, <1>4, TransfersAssumption DEF OutView, InView
  <2>2. InView[t] = "Pending" /\ (outcome = "Refunded" => Swap!InDeadline(Backing[t]) <= now)
    BY <1>4 DEF InView, Backing, Swap!InDeadline, InTimeLock, SwapInv, PairsInv, InsKnown, InsPaired
  <2>3. Swap!SettleIn(t, outcome)
    BY <2>1, <2>2, <1>1, <1>2 DEF Swap!SettleIn
  <2> QED
    BY <1>4, <2>3 DEF Swap!Next
<1> QED
  BY <1>3, <1>4 DEF Tids

\* A transferIn the contract accepts is backed by an OUT that is not refunded.
LEMMA LocksInOfSwap ==
    ASSUME SwapInv, [Next]_vars, NEW tx \in pendingIn, MineTransferIn(tx),
           CanLock(tx.tid, tx.timelock), tx.amount > 0
    PROVE  Swap!Next
<1>. DEFINE i == tx.tid
            o == relatedTid[i]
<1>0. /\ TransferIns \subseteq Tids /\ TransferOuts \subseteq Tids
      /\ cstatus \in [Tids -> ContractStatuses] /\ camount \in [TransferIns -> Nat]
      /\ i \in TransferIns /\ tx.amount \in Nat /\ now \in Nat
  BY DEF Tids, SwapInv, TypeInv, TypeOK, ChainTypeOK, TransferInTxs, Times
<1>1. /\ HasRow(i) /\ tx.timelock = timelock[i] /\ tx.amount <= DstAmount[o]
      /\ o \in TransferOuts /\ RelatedIn[o] = i /\ HasRow(o)
      /\ timelock[i] = InTimeLock(o)
  BY <1>0 DEF SwapInv, PairsInv, InsKnown, InsPaired
<1>2. /\ cstatus' = [cstatus EXCEPT ![i] = "Pending"] /\ camount' = [camount EXCEPT ![i] = tx.amount]
      /\ UNCHANGED now
      /\ now < InTimeLock(o) /\ cstatus[i] = "Undefined"
  BY <1>0, <1>1 DEF MineTransferIn, CanLock
<1>3. relatedTid'[i] = o
  BY <1>0, <1>1, TableKeepsRows DEF RowsStay, SwapInv, RowsInv
<1>4. cstatus[o] \in {"Pending", "Confirmed"}
  <2>1. cstatus[o] # "Undefined"
    BY <1>0, <1>1 DEF SwapInv, PairsInv, OutsPaired, StatusInv, ChainFollows
  <2>2. cstatus[o] # "Refunded"
    BY <1>0, <1>1, <1>2, TimesAssumption DEF InTimeLock, SwapInv, OutsOnTime
  <2> QED
    BY <2>1, <2>2, <1>0, <1>1 DEF ContractStatuses
<1>5. InView' = [InView EXCEPT ![i] = "Pending"] /\ UNCHANGED OutView
  BY <1>0, <1>2, TransfersAssumption DEF InView, OutView
<1>6. Backing' = [Backing EXCEPT ![i] = o]
  <2>1. ASSUME NEW j \in TransferIns
        PROVE  Backing'[j] = [Backing EXCEPT ![i] = o][j]
    <3>1. CASE j = i
      BY <3>1, <1>0, <1>2, <1>3 DEF Backing
    <3>2. CASE j # i /\ cstatus[j] = "Undefined"
      BY <3>2, <1>0, <1>2 DEF Backing
    <3>3. CASE j # i /\ cstatus[j] # "Undefined"
      BY <3>3, <1>0, <1>2, BackingStays DEF Backing
    <3> QED
      BY <3>1, <3>2, <3>3
  <2> QED
    BY <2>1 DEF Backing
<1>7. Swap!LockIn(i, o)
  <2>1. InView[i] = "Undefined" /\ OutView[o] \in {"Pending", "Confirmed"}
    BY <1>0, <1>1, <1>2, <1>4 DEF InView, OutView
  <2>2. now < Swap!InDeadline(o)
    BY <1>2 DEF InTimeLock, Swap!InDeadline
  <2>3. tx.amount \in 1 .. DstAmount[o]
    BY <1>0, <1>1, AmountsAssumption
  <2> QED
    BY <2>1, <2>2, <2>3, <1>1, <1>2, <1>5, <1>6 DEF Swap!LockIn
<1> QED
  BY <1>0, <1>1, <1>7 DEF Swap!Next

LEMMA StepsOfSwap ==
    ASSUME SwapInv, [Next]_vars
    PROVE  [Swap!Next]_(Swap!vars)
<1>0. TransferIns \subseteq Tids /\ TransferOuts \subseteq Tids /\ cstatus \in [Tids -> ContractStatuses]
  BY DEF Tids, SwapInv, TypeInv, TypeOK, ChainTypeOK
<1>1. CASE ~ ContractMovers
  <2>1. UNCHANGED <<cstatus, camount>>
    BY <1>1, OthersLeaveContracts
  <2>2. UNCHANGED <<OutView, InView, Backing>>
    BY <2>1, BackingUnchanged DEF OutView, InView
  <2>3. UNCHANGED now \/ (now < Horizon /\ now' = now + 1)
    BY OthersLeaveClock DEF Tick, ClockTicks
  <2> QED
    BY <2>1, <2>2, <2>3 DEF Swap!Next, Swap!TimePasses, Swap!vars
<1>2. ASSUME NEW o \in TransferOuts, UserLocks(o)
      PROVE  Swap!Next
  <2>1. /\ cstatus' = [cstatus EXCEPT ![o] = "Pending"] /\ UNCHANGED <<now, camount>>
        /\ cstatus[o] = "Undefined" /\ now < OutTimeLock[o]
    BY <1>2, TimesAssumption DEF UserLocks, UserTransferOut, CanLock, SwapInv, TypeInv, TypeOK,
       ChainTypeOK, Times
  <2>2. OutView' = [OutView EXCEPT ![o] = "Pending"] /\ UNCHANGED InView
    BY <2>1, <1>0, TransfersAssumption DEF OutView, InView
  <2>3. UNCHANGED Backing
    BY <2>1, <1>0, BackingUnchanged, TransfersAssumption
  <2>4. OutView[o] = "Undefined"
    BY <2>1 DEF OutView
  <2>5. Swap!LockOut(o)
    BY <2>1, <2>2, <2>3, <2>4 DEF Swap!LockOut
  <2> QED
    BY <2>5 DEF Swap!Next
<1>3. CASE \E t \in Tids : SomeoneConfirms(t) \/ SomeoneRefunds(t)
  BY <1>3, SettlesSwap DEF SomeoneConfirms, AnyoneConfirm, CanConfirm, SomeoneRefunds,
     AnyoneRefund, CanRefund
<1>4. ASSUME NEW tx \in pendingIn, MineTransferIn(tx)
      PROVE  [Swap!Next]_(Swap!vars)
  BY <1>4, LocksInOfSwap, StuttersSwap DEF MineTransferIn, contractVars
<1>5. ASSUME NEW tx \in pendingConfirm, MineConfirm(tx)
      PROVE  [Swap!Next]_(Swap!vars)
  <2>1. tx.tid \in Tids
    BY DEF SwapInv, TypeInv, TypeOK, ChainTypeOK, ConfirmTxs
  <2> QED
    BY <1>5, <2>1, SettlesSwap, StuttersSwap DEF MineConfirm, CanConfirm, contractVars
<1>6. ASSUME NEW i \in pendingRefund, MineRefund(i)
      PROVE  [Swap!Next]_(Swap!vars)
  <2>1. i \in Tids
    BY DEF SwapInv, TypeInv, TypeOK, ChainTypeOK, Tids
  <2> QED
    BY <1>6, <2>1, SettlesSwap, StuttersSwap DEF MineRefund, CanRefund, contractVars
<1> QED
  BY <1>1, <1>2, <1>3, <1>4, <1>5, <1>6 DEF ContractMovers, BlockMined

LEMMA StartsSwap == Init => Swap!Init
BY DEF Init, ChainInit, Swap!Init, OutView, InView, Backing, Tids

\* For any number of transfers, secrets shared among them, time parameters and
\* faults, what the contracts see of a relay node is an atomic swap.
THEOREM RelayImplementsSwap == Spec => ImplementsAtomicSwap
<1>1. SwapInv /\ [Next]_vars => [Swap!Next]_(Swap!vars)
  BY StepsOfSwap
<1> QED
  BY <1>1, SwapInvHolds, StartsSwap, PTL DEF Spec, ImplementsAtomicSwap, Swap!Spec
=============================================================================
