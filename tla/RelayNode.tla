------------------------------ MODULE RelayNode ------------------------------
(***************************************************************************)
(* The relay node (server/server.go): the handlers of its event monitors   *)
(* and its four background workers, composed with the transfer table and   *)
(* the chains.                                                             *)
(*                                                                         *)
(* A handler or a worker is cut at every statement sent to the database,   *)
(* every read of a contract and every submitted transaction, so all the    *)
(* others, and a crash, may come between two of these.  A worker wakes up  *)
(* on a ticker, queries rows, and takes them one after the other; cur is   *)
(* the row it is at, and the columns of that row it uses are ones that no  *)
(* other process changes once they are set.                                *)
(*                                                                         *)
(* Covered: every path of the handlers and workers, failing database,      *)
(* gateway and chain calls, lost transactions and events, and crashes with *)
(* a restart (a restart is immediate; staying down is taking no step).     *)
(* Left out: OUT events the node skips because another node is addressed   *)
(* or because the token is not configured, which change nothing.           *)
(***************************************************************************)
EXTENDS TransferTable, CBridgeChain, FiniteSets

VARIABLES
    handler,       \* how far the callback of every event has come
    pc,            \* what every worker does next
    todo,          \* the queried rows every worker has not yet taken
    cur,           \* the row every worker is at
    faults,        \* how many faults have happened
    claimedInTime  \* history: OUTs the node could see confirmed before it
                   \* was allowed to refund the IN

workerVars == <<pc, todo, cur>>
vars == <<tableVars, chainVars, handler, workerVars, faults, claimedInTime>>

Workers == {"send", "confirm", "refund", "recover"}

\* "loop": between two rows, or asleep when todo is empty.
StepsOf(w) ==
    CASE w = "send"    -> {"loop", "recordLocked", "fee", "mark", "transact", "retry"}
      [] w = "confirm" -> {"loop", "mark", "transact", "recordRefunded", "recordConfirmed"}
      [] w = "refund"  -> {"loop", "mark", "lookup", "confirm", "checkOut", "transact",
                           "recordRefunded"}
      [] w = "recover" -> {"loop", "transferIn", "confirm", "refund"}

Steps == UNION {StepsOf(w) : w \in Workers}

EventKinds == {"locked", "confirmed", "refunded"}
Events == Tids \X EventKinds

\* An acknowledged event is not delivered again, unless the node crashes.
Progress == {"new", "second", "acked"}

TypeOK ==
    /\ TableTypeOK
    /\ ChainTypeOK
    /\ handler \in [Tids -> [EventKinds -> Progress]]
    /\ pc \in [Workers -> Steps]
    /\ todo \in [Workers -> SUBSET Tids]
    /\ cur \in [Workers -> Tids \union {NoTid}]
    /\ faults \in 0 .. MaxFaults
    /\ claimedInTime \subseteq TransferOuts

Init ==
    /\ TableInit
    /\ ChainInit
    /\ handler = [t \in Tids |-> [kind \in EventKinds |-> "new"]]
    /\ pc = [w \in Workers |-> "loop"]
    /\ todo = [w \in Workers |-> {}]
    /\ cur = [w \in Workers |-> NoTid]
    /\ faults = 0
    /\ claimedInTime = {}

Fault(kind) ==
    /\ kind \in FaultKinds
    /\ faults < MaxFaults
    /\ faults' = faults + 1

-----------------------------------------------------------------------------
\* The monitors' callbacks

EventIsFinal(t, kind) ==
    CASE kind = "locked"    -> cfinal[t] # "Undefined"
      [] kind = "confirmed" -> cfinal[t] = "Confirmed"
      [] kind = "refunded"  -> cfinal[t] = "Refunded"

Delivered(t, kind) == handler[t][kind] = "new" /\ EventIsFinal(t, kind)

HandlerAt(t, kind, progress) == handler' = [handler EXCEPT ![t][kind] = progress]

CallbackLeaves == UNCHANGED <<chainVars, workerVars, faults, claimedInTime>>

\* Fault: both transfers of a pair expire together.
TimeLockOfOut(o) == OutTimeLock[o]

InTimeLock(o) == OutTimeLock[o] - DstTimeLockGap

\* LogNewTransferOut: a row for the OUT, then one for the IN, unless the time
\* left when the callback began is too short.
OnTransferOut(o) ==
    /\ Delivered(o, "locked")
    /\ InsertTransfer(o, "LOCKED", RelatedIn[o], OutTimeLock[o], DstAmount[o])
    /\ HandlerAt(o, "locked", IF OutTimeLock[o] - now < MinSrcTimeout
                              THEN "acked" ELSE "second")
    /\ CallbackLeaves

OnTransferOutSaveIn(o) ==
    /\ handler[o]["locked"] = "second"
    /\ InsertTransfer(RelatedIn[o], "TRANSFER_IN_START", o, InTimeLock(o), DstAmount[o])
    /\ HandlerAt(o, "locked", "acked")
    /\ CallbackLeaves

OnTransferIn(i) ==
    /\ Delivered(i, "locked")
    /\ RecordTransferIn(i)
    /\ HandlerAt(i, "locked", "acked")
    /\ CallbackLeaves

\* LogTransferConfirmed, of an OUT or an IN: the event carries the preimage,
\* first saved in the transfer's own row and then in those related to it.
OnConfirmed(t) ==
    /\ Delivered(t, "confirmed")
    /\ ConfirmTransfer(t, HashLock[t])
    /\ HandlerAt(t, "confirmed", "second")
    /\ CallbackLeaves

OnConfirmedSetRelated(t) ==
    /\ handler[t]["confirmed"] = "second"
    /\ SetRelatedTxPreimage(HashLock[t], t)
    /\ HandlerAt(t, "confirmed", "acked")
    /\ CallbackLeaves

OnRefunded(t) ==
    /\ Delivered(t, "refunded")
    /\ RefundTransfer(t)
    /\ HandlerAt(t, "refunded", "acked")
    /\ CallbackLeaves

\* The statement fails and the callback asks for the event again.
CallbackFails(t, kind) ==
    /\ handler[t][kind] = "second"
    /\ Fault("error")
    /\ HandlerAt(t, kind, "new")
    /\ UNCHANGED <<tableVars, chainVars, workerVars, claimedInTime>>

\* "for some chain, we may miss transfer in event"
EventMissed(t, kind) ==
    /\ Delivered(t, kind)
    /\ Fault("miss")
    /\ HandlerAt(t, kind, "acked")
    /\ UNCHANGED <<tableVars, chainVars, workerVars, claimedInTime>>

-----------------------------------------------------------------------------
\* The workers' loops

QueryReturns(w, rows) ==
    /\ pc[w] = "loop"
    /\ todo[w] = {}
    /\ todo' = [todo EXCEPT ![w] = rows]
    /\ UNCHANGED <<pc, cur>>

TakeRow(w, t, step) ==
    /\ pc[w] = "loop"
    /\ t \in todo[w]
    /\ todo' = [todo EXCEPT ![w] = @ \ {t}]
    /\ pc' = [pc EXCEPT ![w] = step]
    /\ cur' = [cur EXCEPT ![w] = IF step = "loop" THEN NoTid ELSE t]

GoTo(w, step) ==
    /\ pc' = [pc EXCEPT ![w] = step]
    /\ UNCHANGED <<todo, cur>>

RowDone(w) ==
    /\ pc' = [pc EXCEPT ![w] = "loop"]
    /\ cur' = [cur EXCEPT ![w] = NoTid]
    /\ UNCHANGED todo

\* What a step leaves alone that only reads, writes the table, or submits.
OnlyReads == UNCHANGED <<tableVars, chainVars, handler, faults, claimedInTime>>
OnlyWritesTable == UNCHANGED <<chainVars, handler, faults, claimedInTime>>
OnlySubmits == UNCHANGED <<tableVars, handler, faults, claimedInTime>>

\* The contract of row t cannot be read: the row is skipped.
ReadFails(w, t) ==
    /\ w # "recover"
    /\ TakeRow(w, t, "loop")
    /\ Fault("error")
    /\ UNCHANGED <<tableVars, chainVars, handler, claimedInTime>>

\* A call fails while worker w is at a row: the row is left as it is.
RowFails(w) ==
    /\ cur[w] # NoTid
    /\ ~ (pc[w] = "mark" /\ w \in {"confirm", "refund"})
    /\ ~ (w = "send" /\ pc[w] = "transact")
    /\ Fault("error")
    /\ RowDone(w)
    /\ UNCHANGED <<tableVars, chainVars, handler, claimedInTime>>

\* The status update before confirm and refund only logs its error, and
\* transferIn is submitted a second time when the first one fails.
FailureIsPassed(w, step, next) ==
    /\ pc[w] = step
    /\ Fault("error")
    /\ GoTo(w, next)
    /\ UNCHANGED <<tableVars, chainVars, handler, claimedInTime>>

-----------------------------------------------------------------------------
\* processTrySendTransferIn

SendQuery ==
    /\ QueryReturns("send", GetAllStartTransferIn(now))
    /\ OnlyReads

SendRead(i) ==
    /\ TakeRow("send", i,
               CASE timelock[i] - TimeLockSafeMargin < now -> "loop"
                 [] OTHER -> CASE cfinal[i] = "Undefined" -> "fee"
                               [] cfinal[i] = "Pending"   -> "recordLocked"
                               [] OTHER                   -> "loop")
    /\ OnlyReads

SendRecordLocked ==
    /\ pc["send"] = "recordLocked"
    /\ SetTransferStatusByFrom(cur["send"], "LOCKED", "TRANSFER_IN_START")
    /\ RowDone("send")
    /\ OnlyWritesTable

\* Fault: the fee of an earlier attempt is lost.
AmountLeft(i) == amount[i]

\* The amount and the fee of an earlier attempt are added up again first.
OriginAmount(i) == amount[i] + fee[i]

\* Fault: the fee is not compared with the amount.
SendAnyFee(finalFee) ==
    /\ pc["send"] = "fee"
    /\ SetTransferInAmountAndFee(cur["send"], OriginAmount(cur["send"]) - finalFee, finalFee)
    /\ GoTo("send", "mark")
    /\ OnlyWritesTable

SendFee(finalFee) ==
    /\ pc["send"] = "fee"
    /\ LET i == cur["send"] IN
       IF finalFee > OriginAmount(i)
       THEN RowDone("send") /\ UNCHANGED tableVars
       ELSE /\ SetTransferInAmountAndFee(i, OriginAmount(i) - finalFee, finalFee)
            /\ GoTo("send", "mark")
    /\ OnlyWritesTable

SendMark ==
    /\ pc["send"] = "mark"
    /\ SetPendingTransferIn(cur["send"])
    /\ GoTo("send", "transact")
    /\ OnlyWritesTable

\* Fault: the fee is not left out of the amount that is sent.
SendTransactWhole ==
    /\ pc["send"] \in {"transact", "retry"}
    /\ LET i == cur["send"] IN SubmitTransferIn(i, OriginAmount(i), timelock[i])
    /\ RowDone("send")
    /\ OnlySubmits

SendTransact ==
    /\ pc["send"] \in {"transact", "retry"}
    /\ LET i == cur["send"] IN SubmitTransferIn(i, amount[i], timelock[i])
    /\ RowDone("send")
    /\ OnlySubmits

SendTransactFails == FailureIsPassed("send", "transact", "retry")

-----------------------------------------------------------------------------
\* processTryConfirmTransfer

ConfirmQuery ==
    /\ QueryReturns("confirm", GetAllConfirmableLockedTransfer)
    /\ OnlyReads

\* Fault: the contract is read at the head of the chain.
ConfirmReadHead(t) ==
    /\ TakeRow("confirm", t, CASE cstatus[t] = "Pending"   -> "mark"
                               [] cstatus[t] = "Refunded"  -> "recordRefunded"
                               [] cstatus[t] = "Confirmed" -> "recordConfirmed"
                               [] OTHER                    -> "loop")
    /\ OnlyReads

ConfirmRead(t) ==
    /\ TakeRow("confirm", t, CASE cfinal[t] = "Pending"   -> "mark"
                               [] cfinal[t] = "Refunded"  -> "recordRefunded"
                               [] cfinal[t] = "Confirmed" -> "recordConfirmed"
                               [] OTHER                   -> "loop")
    /\ OnlyReads

ConfirmMark ==
    /\ pc["confirm"] = "mark"
    /\ SetTransferStatusByFrom(cur["confirm"], "CONFIRM_PENDING", "LOCKED")
    /\ GoTo("confirm", "transact")
    /\ OnlyWritesTable

ConfirmMarkFails == FailureIsPassed("confirm", "mark", "transact")

ConfirmTransact ==
    /\ pc["confirm"] = "transact"
    /\ SubmitConfirm(cur["confirm"], preimage[cur["confirm"]])
    /\ RowDone("confirm")
    /\ OnlySubmits

ConfirmRecordRefunded ==
    /\ pc["confirm"] = "recordRefunded"
    /\ UpdateTransferStatus(cur["confirm"], "REFUNDED")
    /\ RowDone("confirm")
    /\ OnlyWritesTable

ConfirmRecordConfirmed ==
    /\ pc["confirm"] = "recordConfirmed"
    /\ ConfirmTransfer(cur["confirm"], preimage[cur["confirm"]])
    /\ RowDone("confirm")
    /\ OnlyWritesTable

-----------------------------------------------------------------------------
\* processTryRefundTransferIn

RefundQuery ==
    /\ QueryReturns("refund", GetAllRefundAbleTransferIn(now))
    /\ OnlyReads

\* Fault: the contract is read at the head of the chain.
RefundReadHead(i) ==
    /\ TakeRow("refund", i, CASE cstatus[i] = "Pending"  -> "mark"
                              [] cstatus[i] = "Refunded" -> "recordRefunded"
                              [] OTHER                   -> "loop")
    /\ OnlyReads

RefundRead(i) ==
    /\ TakeRow("refund", i, CASE cfinal[i] = "Pending"  -> "mark"
                              [] cfinal[i] = "Refunded" -> "recordRefunded"
                              [] OTHER                  -> "loop")
    /\ OnlyReads

RefundMark ==
    /\ pc["refund"] = "mark"
    /\ SetTransferStatusByFrom(cur["refund"], "REFUND_PENDING", "LOCKED")
    /\ GoTo("refund", "lookup")
    /\ OnlyWritesTable

RefundMarkFails == FailureIsPassed("refund", "mark", "lookup")

\* Before a refund the related OUT is looked up, in the table and, unless that
\* says it is confirmed, in its contract.
RelatedOut == relatedTid[cur["refund"]]

\* Fault: what the table says of the OUT is enough to refund the IN.
RefundLookupOnly ==
    /\ pc["refund"] = "lookup"
    /\ IF ~ HasRow(RelatedOut)
       THEN RowDone("refund")
       ELSE GoTo("refund", IF status[RelatedOut] = "CONFIRMED" THEN "confirm" ELSE "transact")
    /\ OnlyReads

RefundLookup ==
    /\ pc["refund"] = "lookup"
    /\ IF ~ HasRow(RelatedOut)
       THEN RowDone("refund")
       ELSE GoTo("refund", IF status[RelatedOut] = "CONFIRMED" THEN "confirm" ELSE "checkOut")
    /\ OnlyReads

RefundConfirm ==
    /\ pc["refund"] = "confirm"
    /\ SubmitConfirm(cur["refund"], preimage[RelatedOut])
    /\ RowDone("refund")
    /\ OnlySubmits

RefundCheckOut ==
    /\ pc["refund"] = "checkOut"
    /\ IF cfinal[RelatedOut] = "Confirmed" THEN RowDone("refund") ELSE GoTo("refund", "transact")
    /\ OnlyReads

RefundTransact ==
    /\ pc["refund"] = "transact"
    /\ SubmitRefund(cur["refund"])
    /\ RowDone("refund")
    /\ OnlySubmits

RefundRecordRefunded ==
    /\ pc["refund"] = "recordRefunded"
    /\ UpdateTransferStatus(cur["refund"], "REFUNDED")
    /\ RowDone("refund")
    /\ OnlyWritesTable

-----------------------------------------------------------------------------
\* ProcessRecoverTimeoutPendingTransfer: three queries in turn, each followed by
\* an update of its rows.  A query that returns nothing has no effect, so which
\* one comes next is left open.

Recovery == {"transferIn", "confirm", "refund"}

TimedOutRows(kind) ==
    CASE kind = "transferIn" -> GetRecoverTimeoutPendingTransferIn(now)
      [] kind = "confirm"    -> GetRecoverTimeoutPendingConfirm(now)
      [] kind = "refund"     -> GetRecoverTimeoutPendingRefund(now)

RecoverQuery(kind) ==
    /\ pc["recover"] = "loop"
    /\ TimedOutRows(kind) # {}
    /\ todo' = [todo EXCEPT !["recover"] = TimedOutRows(kind)]
    /\ pc' = [pc EXCEPT !["recover"] = kind]
    /\ UNCHANGED cur
    /\ OnlyReads

RecoverRow(t) ==
    \/ /\ pc["recover"] = "transferIn"
       /\ SetTransferStatusByFrom(t, "TRANSFER_IN_START", "TRANSFER_IN_PENDING")
    \/ /\ pc["recover"] = "confirm"
       /\ SetTransferStatusByFrom(t, "LOCKED", "CONFIRM_PENDING")
    \/ /\ pc["recover"] = "refund"
       /\ SetTransferStatusByFrom(t, "LOCKED", "REFUND_PENDING")

RecoverTakes(t) ==
    /\ t \in todo["recover"]
    /\ todo' = [todo EXCEPT !["recover"] = @ \ {t}]
    /\ pc' = [pc EXCEPT !["recover"] = IF todo["recover"] = {t} THEN "loop" ELSE @]
    /\ UNCHANGED cur

RecoverSet(t) == RecoverTakes(t) /\ RecoverRow(t) /\ OnlyWritesTable

RecoverSetFails(t) ==
    /\ RecoverTakes(t)
    /\ Fault("error")
    /\ UNCHANGED <<tableVars, chainVars, handler, claimedInTime>>

-----------------------------------------------------------------------------
\* Fault: the cursor is saved before the callback has returned.
CrashForgets ==
    /\ Fault("crash")
    /\ handler' = [t \in Tids |-> [kind \in EventKinds |->
                      IF handler[t][kind] = "second" THEN "acked" ELSE handler[t][kind]]]
    /\ pc' = [w \in Workers |-> "loop"]
    /\ todo' = [w \in Workers |-> {}]
    /\ cur' = [w \in Workers |-> NoTid]
    /\ UNCHANGED <<tableVars, chainVars, claimedInTime>>

\* The process dies and starts again.  What is in the table and in the pools
\* stays.  The monitors resume at the cursor they saved, and any event may be
\* delivered again.
Crash ==
    /\ Fault("crash")
    /\ \E again \in SUBSET {e \in Events : handler[e[1]][e[2]] = "acked"} :
          handler' = [t \in Tids |-> [kind \in EventKinds |->
                         IF handler[t][kind] = "second" \/ <<t, kind>> \in again
                         THEN "new" ELSE handler[t][kind]]]
    /\ pc' = [w \in Workers |-> "loop"]
    /\ todo' = [w \in Workers |-> {}]
    /\ cur' = [w \in Workers |-> NoTid]
    /\ UNCHANGED <<tableVars, chainVars, claimedInTime>>

-----------------------------------------------------------------------------
\* Steps of the environment

NodeLeaves == UNCHANGED <<tableVars, handler, workerVars, faults>>

UserLocks(o) == UserTransferOut(o) /\ NodeLeaves /\ UNCHANGED claimedInTime

SomeoneConfirms(t) == AnyoneConfirm(t) /\ NodeLeaves /\ UNCHANGED claimedInTime
SomeoneRefunds(t) == AnyoneRefund(t) /\ NodeLeaves /\ UNCHANGED claimedInTime

BlockMined ==
    /\ \/ \E tx \in pendingIn : MineTransferIn(tx)
       \/ \E tx \in pendingConfirm : MineConfirm(tx)
       \/ \E i \in pendingRefund : MineRefund(i)
    /\ NodeLeaves
    /\ UNCHANGED claimedInTime

TransactionLost ==
    /\ Fault("drop")
    /\ DropTransaction
    /\ UNCHANGED <<tableVars, handler, workerVars, claimedInTime>>

SafeBlockMoves(t) ==
    /\ Finalize(t)
    /\ claimedInTime' =
          IF IsOut(t) /\ cfinal'[t] = "Confirmed" /\ now <= InTimeLock(t)
          THEN claimedInTime \union {t}
          ELSE claimedInTime
    /\ NodeLeaves

Tick ==
    /\ ClockTicks
    /\ RowsAge
    /\ UNCHANGED <<handler, workerVars, faults, claimedInTime>>

-----------------------------------------------------------------------------
Callbacks ==
    \/ \E o \in TransferOuts : OnTransferOut(o) \/ OnTransferOutSaveIn(o)
    \/ \E i \in TransferIns : OnTransferIn(i)
    \/ \E t \in Tids : OnConfirmed(t) \/ OnConfirmedSetRelated(t) \/ OnRefunded(t)

SendStep ==
    \/ SendQuery
    \/ \E i \in TransferIns : SendRead(i)
    \/ SendRecordLocked
    \/ \E f \in Fees : SendFee(f)
    \/ SendMark
    \/ SendTransact

ConfirmStep ==
    \/ ConfirmQuery
    \/ \E t \in Tids : ConfirmRead(t)
    \/ ConfirmMark
    \/ ConfirmTransact
    \/ ConfirmRecordRefunded
    \/ ConfirmRecordConfirmed

RefundStep ==
    \/ RefundQuery
    \/ \E i \in TransferIns : RefundRead(i)
    \/ RefundMark
    \/ RefundLookup
    \/ RefundConfirm
    \/ RefundCheckOut
    \/ RefundTransact
    \/ RefundRecordRefunded

RecoverStep ==
    \/ \E kind \in Recovery : RecoverQuery(kind)
    \/ \E t \in Tids : RecoverSet(t)

Faulty ==
    \/ Crash
    \/ TransactionLost
    \/ \E t \in Tids, kind \in EventKinds : CallbackFails(t, kind) \/ EventMissed(t, kind)
    \/ \E w \in Workers : RowFails(w) \/ \E t \in Tids : ReadFails(w, t)
    \/ SendTransactFails
    \/ ConfirmMarkFails
    \/ RefundMarkFails
    \/ \E t \in Tids : RecoverSetFails(t)

Environment ==
    \/ \E o \in TransferOuts : UserLocks(o)
    \/ \E t \in Tids : SomeoneConfirms(t) \/ SomeoneRefunds(t) \/ SafeBlockMoves(t)
    \/ BlockMined
    \/ Tick

Next ==
    \/ Callbacks
    \/ SendStep
    \/ ConfirmStep
    \/ RefundStep
    \/ RecoverStep
    \/ Faulty
    \/ Environment

Spec == Init /\ [][Next]_vars

\* The scheduling the code and the chains provide: a callback is called again
\* until it acknowledges, tickers keep waking the workers, the recovery worker
\* makes each of its three queries in turn, and transactions that are not lost
\* are mined and become final.
CallbackFairness ==
    /\ \A o \in TransferOuts : WF_vars(OnTransferOut(o)) /\ WF_vars(OnTransferOutSaveIn(o))
    /\ \A i \in TransferIns : WF_vars(OnTransferIn(i))
    /\ \A t \in Tids : /\ WF_vars(OnConfirmed(t))
                       /\ WF_vars(OnConfirmedSetRelated(t))
                       /\ WF_vars(OnRefunded(t))

WorkerFairness ==
    /\ WF_vars(SendStep) /\ WF_vars(ConfirmStep) /\ WF_vars(RefundStep)
    /\ \A kind \in Recovery : SF_vars(RecoverQuery(kind))
    /\ \A t \in Tids : WF_vars(RecoverSet(t))

ChainFairness == WF_vars(BlockMined) /\ \A t \in Tids : WF_vars(SafeBlockMoves(t))

Fairness == CallbackFairness /\ WorkerFairness /\ ChainFairness /\ WF_vars(Tick)

FairSpec == Spec /\ Fairness

-----------------------------------------------------------------------------
\* Safety

\* A row never runs ahead of the contract: it is CONFIRMED or REFUNDED only when
\* the safe block shows that outcome, and counts as locked only when the safe
\* block holds the transfer.  The confirm and refund workers and four monitors
\* write the same rows from reads made earlier, with unconditional updates.
StatusMatchesChain ==
    \A t \in Tids :
       /\ status[t] = "CONFIRMED" => cfinal[t] = "Confirmed"
       /\ status[t] = "REFUNDED" => cfinal[t] = "Refunded"
       /\ status[t] \in {"LOCKED", "CONFIRM_PENDING", "REFUND_PENDING"}
             => cfinal[t] # "Undefined"

SettledStatuses == {"CONFIRMED", "REFUNDED"}

\* No step takes a row out of CONFIRMED or REFUNDED, although ConfirmTransfer,
\* RefundTransfer and UpdateTransferStatus do not look at the status they replace.
SettledRowsStay ==
    [][\A t \in Tids : status[t] \in SettledStatuses => status'[t] = status[t]]_vars

\* A transfer is confirmed by the node only with a preimage some confirmation,
\* its own or that of the other transfer of the pair, has already published.
ConfirmedByNodeOnlyIfRevealed ==
    \A tx \in pendingConfirm :
       /\ tx.preimage = HashLock[tx.tid]
       /\ "Confirmed" \in {cfinal[tx.tid], cfinal[relatedTid[tx.tid]]}

\* The node locks tokens on the destination chain only against an OUT that is
\* final on the source chain, never more than that OUT brings, and so that the
\* IN can be refunded DstTimeLockGap before the OUT can.
InIsBacked ==
    /\ \A tx \in pendingIn :
          LET o == relatedTid[tx.tid] IN
          /\ o \in TransferOuts /\ RelatedIn[o] = tx.tid /\ cfinal[o] # "Undefined"
          /\ tx.timelock = InTimeLock(o)
          /\ tx.amount <= DstAmount[o]
    /\ \A i \in TransferIns : cstatus[i] # "Undefined" =>
          LET o == relatedTid[i] IN
          /\ o \in TransferOuts /\ RelatedIn[o] = i /\ cfinal[o] # "Undefined"
          /\ ctimelock[i] = InTimeLock(o)
          /\ camount[i] <= DstAmount[o]

\* What the user receives and the fee add up to what the OUT brought, however
\* often sending was tried and wherever a try broke off.
AmountConserved ==
    \A i \in TransferIns :
       HasRow(i) => amount[i] + fee[i] = DstAmount[relatedTid[i]]

\* Whatever the node submits, and whichever try is mined, the user is charged one of
\* the fees the gateway named: neither none, nor the fees of two tries.  The row may
\* by then hold the fee of a later try.
OneFeeCharged ==
    /\ \A tx \in pendingIn : \E f \in Fees : tx.amount + f = DstAmount[relatedTid[tx.tid]]
    /\ \A i \in TransferIns : cstatus[i] # "Undefined" =>
          \E f \in Fees : camount[i] + f = DstAmount[relatedTid[i]]

\* The node asks for the refund of an IN only when its time lock has passed and
\* no confirmation of the OUT was visible to it until then.
RefundOnlyUnclaimed ==
    \A i \in pendingRefund : timelock[i] < now /\ relatedTid[i] \notin claimedInTime

\* Once the confirmation of an IN is acknowledged, the preimage it revealed is
\* in the row of the OUT, so the node can collect what it has paid.
PreimageKept ==
    \A i \in TransferIns :
       HasRow(i) /\ handler[i]["confirmed"] = "acked"
          => preimage[relatedTid[i]] = HashLock[i]

-----------------------------------------------------------------------------
\* Liveness

\* An IN the node has locked does not stay locked, unless the OUT is confirmed
\* before the IN is: if the user never claims it, the node gets it back.
UnclaimedIsRefunded ==
    \A o \in TransferOuts :
       cstatus[RelatedIn[o]] = "Pending"
          ~> cstatus[RelatedIn[o]] # "Pending" \/ cstatus[o] = "Confirmed"

\* Once a user has claimed the IN, the OUT does not stay locked: the node
\* collects it, or it is refunded.
ClaimedIsCollected ==
    \A o \in TransferOuts :
       cfinal[RelatedIn[o]] = "Confirmed" ~> cstatus[o] # "Pending"
=============================================================================
