---------------------------- MODULE EventMonitor ----------------------------
(***************************************************************************)
(* How the events of one chain reach the callbacks of the node, and what   *)
(* of them survives a restart: the monitors Init starts one after the      *)
(* other (server/server.go), the cursor each keeps in the monitor table    *)
(* (server/dal.go), and the block at which the node reads the contract.    *)
(*                                                                         *)
(* The polling is done by a library.  It is external and modelled from how *)
(* the node uses it: it asks the endpoint for the number of the latest     *)
(* block, fetches the logs of blocks that are BlockDelay behind it, at     *)
(* most maxBlockDelta at a time, calls back for one after the other, and   *)
(* saves a log's position in the table when its callback returns false.    *)
(* When it returns true, the logs after the saved position are fetched     *)
(* anew.  Endpoints are assumed to answer completely; RelayNode has the    *)
(* events they miss.  Chains reorganise less deep than BlockDelay.         *)
(***************************************************************************)
EXTENDS Integers, FiniteSets, SequencesExt

CONSTANTS
    Events,         \* events that may be on the chain
    Blocks,         \* sequences of events a block may hold
    Order,          \* the monitors, by their names, in the order they are started
    MonitorOf,      \* the name of every event
    OwnMonitors,    \* monitors of events that only what the node sends brings about
    NoRow,          \* what the table has for a monitor that never ran
    watchConfig,    \* the chain's part of the configuration
    BlockSize,      \* bound: events in a block
    Word,           \* 2^64: block numbers are unsigned
    MaxBlock,       \* bound: blocks of the chain
    MaxCrashes      \* bound: crashes of the node

Monitors == Range(Order)

\* A maxBlockDelta of zero sets no limit.
WatchConfigs == [blockDelay : Nat \ {0}, maxBlockDelta : Nat]

\* How far behind the latest block the node looks.
BlockDelay == watchConfig.blockDelay

ASSUME MonitorAssumption ==
    /\ Blocks \subseteq SeqOf(Events, BlockSize)
    /\ MonitorOf \in [Events -> Monitors]
    /\ OwnMonitors \subseteq Monitors
    /\ Order \in Seq(Monitors) /\ \A i, j \in DOMAIN Order : Order[i] = Order[j] => i = j
    /\ NoRow \notin Nat /\ NoRow \notin [block : Nat, idx : Nat]
    /\ BlockSize \in Nat /\ watchConfig \in WatchConfigs
    /\ MaxBlock \in Nat /\ MaxCrashes \in Nat
    /\ Word \in Nat /\ Word > MaxBlock + watchConfig.blockDelay

VARIABLES
    chain,      \* the blocks, each with its events; the first has the number 1
    monitor,    \* the table: the position of the last event handled, or NoRow
    node,       \* "down", "starting" or "up"
    running,    \* how many monitors have been started
    current,    \* the number of the latest block, as the library remembers it
    from,       \* by monitor: the next block to fetch
    queue,      \* by monitor: the logs fetched and not yet done with
    unsaved,    \* monitors whose callback has returned false, not yet saved
    crashes,    \* how many there were
    start,      \* history: the block the monitor was first started at, or NoRow
    sent,       \* history: the latest block when the workers first ran, or NoRow
    handled     \* history: what the callbacks have acknowledged

tableVars == <<monitor>>
memory == <<node, running, current, from, queue, unsaved>>
history == <<start, sent, handled>>
vars == <<chain, tableVars, memory, crashes, history>>

Init ==
    /\ chain = <<>>
    /\ monitor = [m \in Monitors |-> NoRow]
    /\ node = "down"
    /\ running = 0
    /\ current = 0
    /\ from = [m \in Monitors |-> 0]
    /\ queue = [m \in Monitors |-> {}]
    /\ unsaved = {}
    /\ crashes = 0
    /\ start = [m \in Monitors |-> NoRow]
    /\ sent = NoRow
    /\ handled = {}

-----------------------------------------------------------------------------
\* The chain

\* No reorganisation reaches the blocks up to here.
Settled == Len(chain) - BlockDelay

EventsOf(blocks) == UNION {Range(blocks[b]) : b \in DOMAIN blocks}

\* An event is on the chain once, and one of the node's own in a block after the
\* latest at which the node could not yet have sent a transaction.
MayHold(b, block, others) ==
    /\ IsInjective(block)
    /\ Range(block) \intersect EventsOf(others) = {}
    /\ \A e \in Range(block) : MonitorOf[e] \in OwnMonitors => sent # NoRow /\ b > sent

BlockAdded(block) ==
    /\ Len(chain) < MaxBlock
    /\ MayHold(Len(chain) + 1, block, chain)
    /\ chain' = Append(chain, block)
    /\ UNCHANGED <<tableVars, memory, crashes, history>>

\* Another block takes the place of one that is not settled.
Reorganised(b, block) ==
    /\ b > Settled
    /\ MayHold(b, block, [chain EXCEPT ![b] = <<>>])
    /\ chain' = [chain EXCEPT ![b] = block]
    /\ UNCHANGED <<tableVars, memory, crashes, history>>

-----------------------------------------------------------------------------
\* The monitor table: one row per event name

InsertMonitor(m, pos) ==
    /\ monitor[m] = NoRow
    /\ monitor' = [monitor EXCEPT ![m] = pos]

GetMonitorBlock(m) == monitor[m]

UpdateMonitorBlock(m, pos) ==
    /\ monitor[m] # NoRow
    /\ monitor' = [monitor EXCEPT ![m] = pos]

-----------------------------------------------------------------------------
\* Init, once the gateway has been pinged

\* The service asks for the latest block as it starts.
StartService ==
    /\ node = "down"
    /\ node' = "starting"
    /\ current' = Len(chain)
    /\ UNCHANGED <<chain, tableVars, running, from, queue, unsaved, crashes, history>>

\* The cursor of a monitor without a row is put before the events of the latest
\* block the service knows of.
MonitorStarted(m) ==
    /\ IF GetMonitorBlock(m) = NoRow
       THEN /\ InsertMonitor(m, [block |-> current, idx |-> 0])
            /\ start' = [start EXCEPT ![m] = current]
       ELSE UNCHANGED <<tableVars, start>>
    /\ from' = [from EXCEPT ![m] = monitor'[m].block]

StartMonitor ==
    /\ node = "starting"
    /\ running < Len(Order)
    /\ MonitorStarted(Order[running + 1])
    /\ running' = running + 1
    /\ UNCHANGED <<chain, node, current, queue, unsaved, crashes, sent, handled>>

\* main starts the workers when Init has returned.
StartWorkers ==
    /\ node = "starting"
    /\ running = Len(Order)
    /\ node' = "up"
    /\ sent' = IF sent = NoRow THEN Len(chain) ELSE sent
    /\ UNCHANGED <<chain, tableVars, running, current, from, queue, unsaved, crashes, start, handled>>

Running(m) == \E k \in 1 .. running : Order[k] = m

-----------------------------------------------------------------------------
\* The library

PollBlock ==
    /\ node # "down"
    /\ current' = Len(chain)
    /\ UNCHANGED <<chain, tableVars, node, running, from, queue, unsaved, crashes, history>>

\* Fault: logs are fetched up to the latest block.
LastFetchedHead == current

LastFetched == current - BlockDelay

IsAfter(pos, last) == pos.block > last.block \/ (pos.block = last.block /\ pos.idx > last.idx)

OnChain(log) ==
    /\ log.block \in DOMAIN chain /\ log.idx \in DOMAIN chain[log.block]
    /\ chain[log.block][log.idx] = log.event

\* The logs of monitor m in blocks i to j.
Logs(m, i, j) ==
    {log \in [block : i .. j, idx : 1 .. BlockSize, event : Events] :
        OnChain(log) /\ MonitorOf[log.event] = m}

FetchLogs(m, to) ==
    /\ Running(m)
    /\ queue[m] = {} /\ m \notin unsaved
    /\ to \in from[m] .. LastFetched
    /\ watchConfig.maxBlockDelta > 0 => to < from[m] + watchConfig.maxBlockDelta
    /\ queue' = [queue EXCEPT ![m] =
                    {log \in Logs(m, from[m], to) : IsAfter(log, GetMonitorBlock(m))}]
    /\ from' = [from EXCEPT ![m] = to + 1]
    /\ UNCHANGED <<chain, tableVars, node, running, current, unsaved, crashes, history>>

\* Fault: the events are gone through from the last.
IsLast(m, log) == \A other \in queue[m] : ~ IsAfter(other, log)

\* The events are gone through in the order of the chain.
IsFirst(m, log) == \A other \in queue[m] : ~ IsAfter(log, other)

AtCallback(m, log) == log \in queue[m] /\ IsFirst(m, log) /\ m \notin unsaved

\* The callback returned false.
CallbackDone(m, log) ==
    /\ AtCallback(m, log)
    /\ unsaved' = unsaved \union {m}
    /\ handled' = handled \union {log}
    /\ UNCHANGED <<chain, tableVars, node, running, current, from, queue, crashes, start, sent>>

\* The callback returned true: the watch is made anew from the cursor.
CallbackAgain(m, log) ==
    /\ AtCallback(m, log)
    /\ queue' = [queue EXCEPT ![m] = {}]
    /\ from' = [from EXCEPT ![m] = GetMonitorBlock(m).block]
    /\ UNCHANGED <<chain, tableVars, node, running, current, unsaved, crashes, history>>

AtAcknowledge(m, log) == log \in queue[m] /\ IsFirst(m, log) /\ m \in unsaved

NextEvent(m, log) ==
    /\ queue' = [queue EXCEPT ![m] = @ \ {log}]
    /\ unsaved' = unsaved \ {m}
    /\ UNCHANGED <<chain, node, running, current, from, crashes, history>>

\* Fault: what is saved is how far the events have been fetched.
LastPosition(m, log) == [block |-> from[m], idx |-> 0]

EventPosition(m, log) == [block |-> log.block, idx |-> log.idx]

Acknowledge(m, log) ==
    /\ AtAcknowledge(m, log)
    /\ UpdateMonitorBlock(m, EventPosition(m, log))
    /\ NextEvent(m, log)

\* The position of the next event makes up for one that could not be saved.
AcknowledgeFails(m, log) ==
    /\ AtAcknowledge(m, log)
    /\ UNCHANGED tableVars
    /\ NextEvent(m, log)

\* The process dies, while it starts or later, and is started again.
Crash ==
    /\ node # "down"
    /\ crashes < MaxCrashes
    /\ crashes' = crashes + 1
    /\ node' = "down"
    /\ running' = 0
    /\ current' = 0
    /\ from' = [m \in Monitors |-> 0]
    /\ queue' = [m \in Monitors |-> {}]
    /\ unsaved' = {}
    /\ UNCHANGED <<chain, tableVars, history>>

-----------------------------------------------------------------------------
Next ==
    \/ \E block \in Blocks : BlockAdded(block) \/ \E b \in DOMAIN chain : Reorganised(b, block)
    \/ StartService \/ StartMonitor \/ StartWorkers
    \/ PollBlock
    \/ \E m \in Monitors :
          \/ \E to \in 0 .. MaxBlock : FetchLogs(m, to)
          \/ \E log \in queue[m] :
                \/ CallbackDone(m, log) \/ CallbackAgain(m, log)
                \/ Acknowledge(m, log) \/ AcknowledgeFails(m, log)
    \/ Crash

Spec == Init /\ [][Next]_vars

\* The operator starts the node again, the library polls and calls back, and a
\* callback and an update of the cursor that fail do not fail for ever.  Of the
\* chain nothing is asked.
FairSpec ==
    /\ Spec
    /\ WF_vars(StartService) /\ WF_vars(StartMonitor) /\ WF_vars(PollBlock)
    /\ \A m \in Monitors :
          /\ WF_vars(\E to \in 0 .. MaxBlock : FetchLogs(m, to))
          /\ SF_vars(\E log \in queue[m] : CallbackDone(m, log))
          /\ SF_vars(\E log \in queue[m] : Acknowledge(m, log))

-----------------------------------------------------------------------------
\* getTransfer

\* Fault: the contract is read at the latest block.
HeadBlkNum == current

\* Fault: the delay is subtracted twice.
OlderBlkNum == (current - 2 * BlockDelay) % Word

\* An unsigned subtraction; a block number beyond the chain makes the call fail.
SafeBlkNum == (current - BlockDelay) % Word

ReadSucceeds == node # "down" /\ SafeBlkNum <= Len(chain)

\* What the node reads of a contract cannot be undone by a reorganisation, also
\* when the chain is shorter than the delay and the subtraction wraps around.
ReadsAreSettled == ReadSucceeds => SafeBlkNum <= Settled

\* A contract is never read at a block before that of an event already handled,
\* also if it was handled before the node was started again: the workers see
\* there what the monitors have written into the rows.
ReadsSeeHandledEvents ==
    ReadSucceeds => \A log \in handled : log.block <= SafeBlkNum

\* No callback ever sees an event the chain gives up again.
HandledStayOnChain == \A log \in handled : OnChain(log)

-----------------------------------------------------------------------------
\* The events a monitor has to deliver: all that come about through what the node
\* sends, and of the others those since the monitor was first started.
Watched(m, log) == m \in OwnMonitors \/ (start[m] # NoRow /\ log.block >= start[m])

Emitted == [m \in Monitors |-> {log \in Logs(m, 1, Settled) : Watched(m, log)}]

Delivered == [m \in Monitors |-> Emitted[m] \intersect handled]

Delivery == INSTANCE EventDelivery WITH emitted <- Emitted, delivered <- Delivered

\* Events are handled in order and none is passed over, whatever crashes, failing
\* callbacks, cursors that could not be saved and reorganisations come between; and
\* events the node's own transactions cause are among them from the very first.
ImplementsDelivery == Delivery!Spec

\* And every event is handled in the end: a monitor that falls behind catches up.
DeliversAll == \A m \in Monitors : []<>(Delivered[m] = Emitted[m])

-----------------------------------------------------------------------------
(* What these rest on: an inductive invariant.                               *)

Positions == [block : Nat, idx : Nat]

AllLogs == [block : Nat, idx : Nat, event : Events]

TypeOK ==
    /\ chain \in Seq(Blocks) /\ Len(chain) <= MaxBlock
    /\ monitor \in [Monitors -> Positions \union {NoRow}]
    /\ node \in {"down", "starting", "up"}
    /\ running \in 0 .. Len(Order)
    /\ current \in 0 .. Len(chain)
    /\ from \in [Monitors -> Nat]
    /\ queue \in [Monitors -> SUBSET AllLogs]
    /\ unsaved \subseteq Monitors
    /\ crashes \in 0 .. MaxCrashes
    /\ start \in [Monitors -> (0 .. Len(chain)) \union {NoRow}]
    /\ sent \in (0 .. Len(chain)) \union {NoRow}
    /\ handled \subseteq AllLogs

\* A monitor has a row when it has been started; the workers run after all have been,
\* so the events the workers cause come after every first cursor.
StartedFirst ==
    /\ \A m \in Monitors : monitor[m] = NoRow <=> start[m] = NoRow
    /\ node = "down" => running = 0
    /\ \A m \in Monitors : Running(m) => start[m] # NoRow
    /\ sent # NoRow => \A m \in Monitors : start[m] # NoRow /\ start[m] <= sent
    /\ \A b \in DOMAIN chain : \A e \in Range(chain[b]) :
          MonitorOf[e] \in OwnMonitors => sent # NoRow /\ b > sent

\* What has been fetched is settled and on the chain.
FetchedAreSettled ==
    \A m \in Monitors :
       /\ \A log \in queue[m] :
             /\ log \in Logs(m, 1, current - BlockDelay)
             /\ log.block < from[m]
       /\ queue[m] # {} => Running(m)
       /\ m \in unsaved => \A log \in queue[m] : IsFirst(m, log) => log \in handled

HandledAreSettled ==
    \A log \in handled :
       /\ OnChain(log)
       /\ log.block <= Settled
       /\ node # "down" => log.block <= current - BlockDelay
       /\ start[MonitorOf[log.event]] # NoRow

\* A cursor, and the block from which a monitor fetches, is settled or where the
\* monitor was first started.
CursorsSettled ==
    \A m \in Monitors :
       /\ monitor[m] # NoRow =>
             monitor[m].block <= Settled \/ monitor[m] = [block |-> start[m], idx |-> 0]
       /\ Running(m) => from[m] <= Settled + 1 \/ from[m] = start[m]

\* No event is passed over, by the cursor or by what has been fetched.
NonePassedOver ==
    \A m \in Monitors : \A log \in Emitted[m] :
       /\ monitor[m] # NoRow /\ ~ IsAfter(log, monitor[m]) => log \in handled
       /\ Running(m) => log \in handled \/ log \in queue[m] \/ log.block >= from[m]

MonitorInv ==
    /\ TypeOK
    /\ StartedFirst
    /\ FetchedAreSettled
    /\ HandledAreSettled
    /\ CursorsSettled
    /\ NonePassedOver
=============================================================================
