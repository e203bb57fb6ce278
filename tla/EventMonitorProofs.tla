------------------------- MODULE EventMonitorProofs -------------------------
(***************************************************************************)
(* For any number of monitors, any chain and any number of crashes: the    *)
(* callbacks see every event once and in order, none that the chain gives  *)
(* up again, and the contract is read at blocks that are settled.          *)
(*                                                                         *)
(* MonitorInv is inductive.  Its parts are taken one by one: each lemma    *)
(* says which parts before the step an action needs for one after it.      *)
(***************************************************************************)
EXTENDS EventMonitor, SequenceTheorems, TLAPS

-----------------------------------------------------------------------------
LEMMA ConstantsTyped ==
    /\ MonitorOf \in [Events -> Monitors]
    /\ NoRow \notin Nat /\ NoRow \notin [block : Nat, idx : Nat]
    /\ BlockSize \in Nat /\ MaxBlock \in Nat /\ MaxCrashes \in Nat
    /\ watchConfig.blockDelay \in Nat /\ watchConfig.blockDelay > 0
    /\ Word \in Nat /\ Word > MaxBlock + watchConfig.blockDelay
BY MonitorAssumption DEF WatchConfigs

LEMMA BlocksTyped ==
    ASSUME NEW block \in Blocks
    PROVE  /\ DOMAIN block \subseteq 1 .. BlockSize
           /\ \A k \in DOMAIN block : block[k] \in Events
BY MonitorAssumption DEF SeqOf

LEMMA OrderTyped ==
    /\ Len(Order) \in Nat /\ DOMAIN Order = 1 .. Len(Order)
    /\ \A k \in 1 .. Len(Order) : Order[k] \in Monitors
    /\ \A m \in Monitors : \E k \in 1 .. Len(Order) : Order[k] = m
BY MonitorAssumption DEF Monitors, Range

USE ConstantsTyped DEF BlockDelay, Settled

LEMMA ChainTyped ==
    ASSUME TypeOK
    PROVE  /\ Len(chain) \in Nat /\ DOMAIN chain = 1 .. Len(chain)
           /\ \A b \in DOMAIN chain : chain[b] \in Blocks
           /\ current \in Nat /\ current <= Len(chain)
           /\ watchConfig.blockDelay \in Nat \ {0} /\ Settled \in Int
           /\ current - BlockDelay \in Int /\ current - BlockDelay <= Settled
BY DEF TypeOK

LEMMA LogOnChain ==
    ASSUME TypeOK, NEW m \in Monitors, NEW i \in Int, NEW j \in Int, NEW log \in Logs(m, i, j)
    PROVE  /\ log \in AllLogs /\ MonitorOf[log.event] = m
           /\ OnChain(log)
           /\ log.block \in 1 .. Len(chain) /\ i <= log.block /\ log.block <= j
           /\ log.idx \in 1 .. BlockSize
           /\ log.event \in Range(chain[log.block])
BY ChainTyped DEF Logs, OnChain, AllLogs, Range

LEMMA LogsOnChain ==
    ASSUME TypeOK, NEW m \in Monitors, NEW i \in Int, NEW j \in Int, NEW log \in AllLogs,
           MonitorOf[log.event] = m, OnChain(log), i <= log.block, log.block <= j
    PROVE  log \in Logs(m, i, j)
BY ChainTyped, BlocksTyped DEF Logs, OnChain, AllLogs

-----------------------------------------------------------------------------
\* The node is down, the chain empty, and nothing has been handled.
LEMMA MonitorInvInitially == Init => MonitorInv
<1> SUFFICES ASSUME Init PROVE MonitorInv
  OBVIOUS
<1>1. TypeOK
  BY OrderTyped, EmptySeq DEF Init, TypeOK, Positions
<1>2. StartedFirst /\ FetchedAreSettled /\ HandledAreSettled /\ CursorsSettled
  BY DEF Init, StartedFirst, FetchedAreSettled, HandledAreSettled, CursorsSettled, Running
<1>3. NonePassedOver
  BY DEF Init, NonePassedOver, Emitted, Logs, OnChain, Running
<1> QED BY <1>1, <1>2, <1>3 DEF MonitorInv

-----------------------------------------------------------------------------
(* Types                                                                     *)

LEMMA RunningTyped ==
    ASSUME TypeOK, NEW m \in Monitors, Running(m)
    PROVE  running # 0 /\ \E k \in 1 .. Len(Order) : Order[k] = m
BY OrderTyped DEF TypeOK, Running

LEMMA TypeOKNext ==
    ASSUME TypeOK, StartedFirst, FetchedAreSettled, [Next]_vars
    PROVE  TypeOK'
<1>. USE ChainTyped DEF tableVars, memory, history
<1>1. ASSUME NEW block \in Blocks, BlockAdded(block)
      PROVE  TypeOK'
  <2>1. chain' \in Seq(Blocks) /\ Len(chain') = Len(chain) + 1
    BY <1>1, AppendProperties DEF TypeOK, BlockAdded
  <2>2. /\ Len(chain) < MaxBlock
        /\ UNCHANGED <<monitor, node, running, current, from, queue, unsaved, crashes, start, sent, handled>>
    BY <1>1 DEF BlockAdded
  <2> QED BY <2>1, <2>2 DEF TypeOK
<1>2. ASSUME NEW block \in Blocks, NEW b \in DOMAIN chain, Reorganised(b, block)
      PROVE  TypeOK'
  <2>1. chain' \in Seq(Blocks) /\ Len(chain') = Len(chain)
    BY <1>2, ExceptSeq DEF TypeOK, Reorganised
  <2> QED BY <1>2, <2>1 DEF TypeOK, Reorganised
<1>3. CASE StartService \/ PollBlock
  <2>1. /\ current' = Len(chain) /\ node' \in {"starting", node}
        /\ UNCHANGED <<chain, monitor, running, from, queue, unsaved, crashes, start, sent, handled>>
    BY <1>3 DEF StartService, PollBlock
  <2> QED BY <2>1 DEF TypeOK
<1>4. CASE StartWorkers
  <2>1. sent' \in (0 .. Len(chain)) \union {NoRow}
    BY <1>4 DEF TypeOK, StartWorkers
  <2> QED BY <1>4, <2>1 DEF TypeOK, StartWorkers
<1>5. CASE StartMonitor
  <2> DEFINE m == Order[running + 1]
  <2>1. m \in Monitors /\ running + 1 \in 0 .. Len(Order)
    BY <1>5, OrderTyped DEF StartMonitor, TypeOK
  <2>2. MonitorStarted(m)
    BY <1>5 DEF StartMonitor
  <2>3. monitor' \in [Monitors -> Positions \union {NoRow}] /\ monitor'[m] \in Positions
    <3>1. [block |-> current, idx |-> 0] \in Positions
      BY DEF Positions
    <3>2. CASE monitor[m] = NoRow
      <4>1. PICK first \in Positions : monitor' = [monitor EXCEPT ![m] = first]
        BY <2>2, <3>1, <3>2 DEF MonitorStarted, InsertMonitor, GetMonitorBlock
      <4> QED BY <2>1, <4>1 DEF TypeOK
    <3>3. CASE monitor[m] # NoRow
      BY <2>1, <2>2, <3>3 DEF TypeOK, MonitorStarted, GetMonitorBlock
    <3> QED BY <3>2, <3>3
  <2>4. start' \in [Monitors -> (0 .. Len(chain)) \union {NoRow}]
    BY <2>1, <2>2 DEF TypeOK, MonitorStarted
  <2>5. from' \in [Monitors -> Nat]
    BY <2>1, <2>2, <2>3 DEF TypeOK, MonitorStarted, Positions
  <2> QED BY <1>5, <2>1, <2>3, <2>4, <2>5 DEF TypeOK, StartMonitor
<1>6. ASSUME NEW m \in Monitors, NEW to \in 0 .. MaxBlock, FetchLogs(m, to)
      PROVE  TypeOK'
  <2> DEFINE fetched == {log \in Logs(m, from[m], to) : IsAfter(log, GetMonitorBlock(m))}
  <2>1. fetched \subseteq AllLogs
    BY LogOnChain DEF TypeOK
  <2>2. /\ queue' = [queue EXCEPT ![m] = fetched] /\ from' = [from EXCEPT ![m] = to + 1]
        /\ UNCHANGED <<chain, tableVars, node, running, current, unsaved, crashes, history>>
    BY <1>6 DEF FetchLogs
  <2> HIDE DEF fetched
  <2> QED BY <2>1, <2>2 DEF TypeOK
<1>7. ASSUME NEW m \in Monitors, NEW log \in queue[m],
             CallbackDone(m, log) \/ CallbackAgain(m, log)
      PROVE  TypeOK'
  <2>1. log \in AllLogs /\ monitor[m] # NoRow
    BY DEF TypeOK, FetchedAreSettled, StartedFirst
  <2> QED BY <1>7, <2>1 DEF TypeOK, CallbackDone, CallbackAgain, GetMonitorBlock, Positions
<1>8. ASSUME NEW m \in Monitors, NEW log \in queue[m],
             Acknowledge(m, log) \/ AcknowledgeFails(m, log)
      PROVE  TypeOK'
  <2>1. log \in AllLogs /\ EventPosition(m, log) \in Positions
    BY DEF TypeOK, AllLogs, EventPosition, Positions
  <2>2. /\ queue' = [queue EXCEPT ![m] = @ \ {log}] /\ unsaved' = unsaved \ {m}
        /\ UNCHANGED <<chain, node, running, current, from, crashes, history>>
    BY <1>8 DEF Acknowledge, AcknowledgeFails, NextEvent
  <2>3. monitor' \in [Monitors -> Positions \union {NoRow}]
    BY <1>8, <2>1 DEF TypeOK, Acknowledge, AcknowledgeFails, UpdateMonitorBlock
  <2> QED BY <2>2, <2>3 DEF TypeOK
<1>9. CASE Crash
  BY <1>9, OrderTyped DEF TypeOK, Crash
<1>10. CASE UNCHANGED vars
  BY <1>10 DEF TypeOK, vars
<1> QED
  BY <1>1, <1>2, <1>3, <1>4, <1>5, <1>6, <1>7, <1>8, <1>9, <1>10 DEF Next

-----------------------------------------------------------------------------
(* The chain                                                                 *)

LEMMA ChainGrows ==
    ASSUME TypeOK, NEW block \in Blocks, BlockAdded(block)
    PROVE  /\ Len(chain') = Len(chain) + 1 /\ DOMAIN chain' = 1 .. Len(chain) + 1
           /\ \A i \in 1 .. Len(chain) : chain'[i] = chain[i]
           /\ chain'[Len(chain) + 1] = block
<1>1. /\ chain' \in Seq(Blocks) /\ Len(chain') = Len(chain) + 1
      /\ \A i \in 1 .. Len(chain) : chain'[i] = chain[i]
      /\ chain'[Len(chain) + 1] = block
  BY ChainTyped, AppendProperties DEF TypeOK, BlockAdded
<1> QED BY <1>1

LEMMA ChainChanges ==
    ASSUME TypeOK, NEW block \in Blocks, NEW b \in DOMAIN chain, Reorganised(b, block)
    PROVE  /\ Len(chain') = Len(chain) /\ DOMAIN chain' = 1 .. Len(chain) /\ b > Settled
           /\ \A i \in 1 .. Len(chain) : chain'[i] = IF i = b THEN block ELSE chain[i]
<1>1. /\ chain' \in Seq(Blocks) /\ Len(chain') = Len(chain)
      /\ \A i \in 1 .. Len(chain) : chain'[i] = IF i = b THEN block ELSE chain[i]
  BY ChainTyped, ExceptSeq DEF TypeOK, Reorganised
<1> QED BY <1>1 DEF Reorganised

LEMMA ChainStays ==
    ASSUME [Next]_vars
    PROVE  UNCHANGED chain \/ \E block \in Blocks :
              BlockAdded(block) \/ \E b \in DOMAIN chain : Reorganised(b, block)
BY DEF Next, vars, StartService, StartMonitor, StartWorkers, PollBlock, FetchLogs, CallbackDone,
   CallbackAgain, Acknowledge, AcknowledgeFails, NextEvent, Crash

LEMMA SettledGrows ==
    ASSUME TypeOK, [Next]_vars
    PROVE  Settled \in Int /\ Settled' \in Int /\ Settled <= Settled'
BY ChainTyped, ChainStays, ChainGrows, ChainChanges

\* Logs of blocks that are settled stay on the chain, and no others come there.
LEMMA SettledStays ==
    ASSUME TypeOK, [Next]_vars, NEW log \in AllLogs, log.block <= Settled
    PROVE  OnChain(log)' <=> OnChain(log)
<1>0. log.block \in Nat /\ log.block <= Len(chain)
  BY ChainTyped DEF AllLogs
<1>1. ASSUME NEW block \in Blocks, BlockAdded(block)
      PROVE  OnChain(log)' <=> OnChain(log)
  BY <1>0, <1>1, ChainTyped, ChainGrows DEF OnChain
<1>2. ASSUME NEW block \in Blocks, NEW b \in DOMAIN chain, Reorganised(b, block)
      PROVE  OnChain(log)' <=> OnChain(log)
  <2>1. b \in Int /\ b > Settled
    BY <1>2, ChainTyped, ChainChanges
  <2>2. log.block # b
    BY <1>0, <2>1, ChainTyped
  <2>3. DOMAIN chain' = DOMAIN chain
        /\ (log.block \in DOMAIN chain => chain'[log.block] = chain[log.block])
    BY <1>2, <2>2, ChainTyped, ChainChanges
  <2> QED BY <2>3 DEF OnChain
<1>3. CASE UNCHANGED chain
  BY <1>3 DEF OnChain
<1> QED BY <1>1, <1>2, <1>3, ChainStays

\* Later blocks can be settled as well, and what was on the chain still is.
LEMMA LogsStay ==
    ASSUME TypeOK, [Next]_vars, NEW m \in Monitors, NEW i \in Int, NEW j \in Int,
           NEW log \in Logs(m, i, j), j <= Settled, NEW l \in Int, j <= l
    PROVE  log \in Logs(m, i, l)'
<1>1. log \in AllLogs /\ log.block <= Settled /\ OnChain(log) /\ MonitorOf[log.event] = m
  BY ChainTyped, LogOnChain
<1>2. OnChain(log)'
  BY <1>1, SettledStays
<1> QED BY <1>1, <1>2 DEF Logs, AllLogs
-----------------------------------------------------------------------------
(* The order in which monitors and workers are started                       *)

LEMMA StartedFirstNext ==
    ASSUME TypeOK, StartedFirst, FetchedAreSettled, [Next]_vars
    PROVE  StartedFirst'
<1>. USE DEF tableVars, memory, history
<1>1. ASSUME NEW block \in Blocks, BlockAdded(block)
      PROVE  StartedFirst'
  <2>1. \A b \in DOMAIN chain' : \A e \in Range(chain'[b]) :
           MonitorOf[e] \in OwnMonitors => sent # NoRow /\ b > sent
    BY <1>1, ChainTyped, ChainGrows DEF BlockAdded, MayHold, StartedFirst
  <2> QED BY <1>1, <2>1 DEF BlockAdded, StartedFirst, Running
<1>2. ASSUME NEW block \in Blocks, NEW b \in DOMAIN chain, Reorganised(b, block)
      PROVE  StartedFirst'
  <2>1. \A i \in DOMAIN chain' : \A e \in Range(chain'[i]) :
           MonitorOf[e] \in OwnMonitors => sent # NoRow /\ i > sent
    BY <1>2, ChainTyped, ChainChanges DEF Reorganised, MayHold, StartedFirst
  <2> QED BY <1>2, <2>1 DEF Reorganised, StartedFirst, Running
<1>3. CASE StartService \/ PollBlock
  <2>1. node' # "down" /\ UNCHANGED <<chain, monitor, running, start, sent>>
    BY <1>3 DEF StartService, PollBlock
  <2> QED BY <2>1 DEF StartedFirst, Running
<1>4. CASE StartWorkers
  <2>1. \A m \in Monitors : Running(m)
    BY <1>4, OrderTyped DEF StartWorkers, Running
  <2>2. \A m \in Monitors : start[m] # NoRow /\ start[m] <= Len(chain)
    BY <2>1 DEF StartedFirst, TypeOK
  <2> QED BY <1>4, <2>2 DEF StartedFirst, Running, StartWorkers, TypeOK
<1>5. CASE StartMonitor
  <2> DEFINE m == Order[running + 1]
  <2>1. m \in Monitors /\ running' = running + 1 /\ running \in Nat
    BY <1>5, OrderTyped DEF StartMonitor, TypeOK
  <2>2. \A n \in Monitors : Running(n)' => Running(n) \/ n = m
    BY <2>1 DEF Running
  <2>3. CASE monitor[m] = NoRow
    <3>1. /\ monitor' = [monitor EXCEPT ![m] = [block |-> current, idx |-> 0]]
          /\ start' = [start EXCEPT ![m] = current]
      BY <1>5, <2>3 DEF StartMonitor, MonitorStarted, InsertMonitor, GetMonitorBlock
    <3>2. start[m] = NoRow /\ sent = NoRow
      BY <2>1, <2>3 DEF StartedFirst
    <3>3. current # NoRow /\ [block |-> current, idx |-> 0] # NoRow
      BY ChainTyped
    <3>4. \A n \in Monitors : monitor'[n] = NoRow <=> start'[n] = NoRow
      BY <2>1, <2>3, <3>1, <3>2, <3>3 DEF StartedFirst, TypeOK
    <3>5. \A n \in Monitors : Running(n)' => start'[n] # NoRow
      BY <2>1, <2>2, <3>1, <3>3 DEF StartedFirst, TypeOK
    <3> QED BY <1>5, <3>2, <3>4, <3>5 DEF StartedFirst, StartMonitor
  <2>4. CASE monitor[m] # NoRow
    <3>1. UNCHANGED <<monitor, start>> /\ start[m] # NoRow
      BY <1>5, <2>1, <2>4 DEF StartMonitor, MonitorStarted, GetMonitorBlock, StartedFirst
    <3> QED BY <1>5, <2>2, <3>1 DEF StartedFirst, StartMonitor
  <2> QED BY <2>3, <2>4
<1>6. ASSUME NEW m \in Monitors, NEW to \in 0 .. MaxBlock, FetchLogs(m, to)
      PROVE  StartedFirst'
  BY <1>6 DEF StartedFirst, Running, FetchLogs
<1>7. ASSUME NEW m \in Monitors, NEW log \in queue[m],
             CallbackDone(m, log) \/ CallbackAgain(m, log) \/ AcknowledgeFails(m, log)
      PROVE  StartedFirst'
  <2>1. UNCHANGED <<chain, monitor, node, running, start, sent>>
    BY <1>7 DEF CallbackDone, CallbackAgain, AcknowledgeFails, NextEvent
  <2> QED BY <2>1 DEF StartedFirst, Running
<1>8. ASSUME NEW m \in Monitors, NEW log \in queue[m], Acknowledge(m, log)
      PROVE  StartedFirst'
  <2>1. monitor[m] # NoRow /\ monitor' = [monitor EXCEPT ![m] = EventPosition(m, log)]
    BY <1>8 DEF Acknowledge, UpdateMonitorBlock
  <2>2. EventPosition(m, log) # NoRow
    BY DEF TypeOK, AllLogs, EventPosition
  <2> HIDE DEF EventPosition
  <2>3. \A n \in Monitors : monitor'[n] = NoRow <=> monitor[n] = NoRow
    BY <2>1, <2>2 DEF TypeOK
  <2> QED BY <1>8, <2>3 DEF StartedFirst, Running, Acknowledge, NextEvent
<1>9. CASE Crash
  BY <1>9 DEF StartedFirst, Running, Crash, TypeOK
<1>10. CASE UNCHANGED vars
  BY <1>10 DEF StartedFirst, Running, vars
<1> QED
  BY <1>1, <1>2, <1>3, <1>4, <1>5, <1>6, <1>7, <1>8, <1>9, <1>10 DEF Next

\* A monitor that was started stays one that was.
LEMMA StartStays ==
    ASSUME TypeOK, StartedFirst, [Next]_vars, NEW m \in Monitors, start[m] # NoRow
    PROVE  start'[m] = start[m]
<1>. USE DEF history
<1>1. ASSUME StartMonitor
      PROVE  start'[m] = start[m]
  BY <1>1 DEF StartMonitor, MonitorStarted, GetMonitorBlock, StartedFirst, TypeOK
<1> QED
  BY <1>1 DEF Next, vars, BlockAdded, Reorganised, StartService, StartWorkers, PollBlock, FetchLogs,
     CallbackDone, CallbackAgain, Acknowledge, AcknowledgeFails, NextEvent, Crash
-----------------------------------------------------------------------------
(* What has been fetched                                                     *)

\* Two first logs of one queue are one.
LEMMA FirstIsOne ==
    ASSUME TypeOK, NEW m \in Monitors, FetchedAreSettled, NEW one \in queue[m],
           NEW two \in queue[m], IsFirst(m, one), ~ IsAfter(two, one)
    PROVE  one = two
<1>1. OnChain(one) /\ OnChain(two) /\ one \in AllLogs /\ two \in AllLogs
  <2>1. one \in Logs(m, 1, current - BlockDelay) /\ two \in Logs(m, 1, current - BlockDelay)
    BY DEF FetchedAreSettled
  <2> QED BY <2>1, ChainTyped, LogOnChain
<1>2. one.block = two.block /\ one.idx = two.idx
  BY <1>1 DEF IsFirst, IsAfter, AllLogs
<1> QED BY <1>1, <1>2 DEF OnChain, AllLogs

LEMMA FetchedAreSettledNext ==
    ASSUME TypeOK, TypeOK', StartedFirst, FetchedAreSettled, [Next]_vars
    PROVE  FetchedAreSettled'
<1>. USE DEF tableVars, memory, history
<1> DEFINE Keeps(m) ==
              /\ queue'[m] \subseteq queue[m] /\ from'[m] = from[m]
              /\ Running(m) => Running(m)'
              /\ current <= current'
              /\ m \in unsaved' => \A log \in queue'[m] : IsFirst(m, log)' => log \in handled'
\* It is enough to look at what an action does to one of the queues.
<1>1. ASSUME NEW m \in Monitors, Keeps(m)
      PROVE  /\ \A log \in queue'[m] : log \in Logs(m, 1, current - BlockDelay)'
                                      /\ log.block < from'[m]
             /\ queue'[m] # {} => Running(m)'
             /\ m \in unsaved' => \A log \in queue'[m] : IsFirst(m, log)' => log \in handled'
  <2>1. \A log \in queue'[m] : log \in Logs(m, 1, current - BlockDelay)'
    <3>1. SUFFICES ASSUME NEW log \in queue'[m] PROVE log \in Logs(m, 1, current - BlockDelay)'
      OBVIOUS
    <3>2. log \in Logs(m, 1, current - BlockDelay) /\ current <= current'
      BY <1>1, <3>1 DEF FetchedAreSettled
    <3>3. PICK last \in Int : last = current - BlockDelay
      BY ChainTyped
    <3>4. last <= Settled /\ log \in Logs(m, 1, last)
      BY <3>2, <3>3, ChainTyped
    <3>5. \A l \in Int : last <= l => log \in Logs(m, 1, l)'
      BY <3>4, LogsStay
    <3>6. current \in Nat /\ current' \in Nat
      BY ChainTyped DEF TypeOK
    <3>7. current' - BlockDelay \in Int /\ last <= current' - BlockDelay
      BY <3>2, <3>3, <3>6
    <3> QED BY <3>5, <3>7 DEF Logs, OnChain
  <2> QED BY <1>1, <2>1 DEF FetchedAreSettled
<1>2. ASSUME UNCHANGED <<queue, from, running, unsaved, handled>>, current <= current'
      PROVE  FetchedAreSettled'
  <2>1. ASSUME NEW m \in Monitors
        PROVE  Keeps(m)
    BY <1>2, ChainTyped DEF Running, FetchedAreSettled, IsFirst
  <2> QED BY <1>1, <2>1 DEF FetchedAreSettled
<1>3. CASE StartService \/ PollBlock \/ StartWorkers \/ \E block \in Blocks :
              BlockAdded(block) \/ \E b \in DOMAIN chain : Reorganised(b, block)
  <2>1. /\ UNCHANGED <<queue, from, running, unsaved, handled>>
        /\ current' = current \/ current' = Len(chain)
    BY <1>3 DEF StartService, PollBlock, StartWorkers, BlockAdded, Reorganised
  <2> QED BY <1>2, <2>1, ChainTyped
<1>4. CASE StartMonitor
  <2> DEFINE n == Order[running + 1]
  <2>1. /\ n \in Monitors /\ running' = running + 1 /\ running \in Nat
        /\ UNCHANGED <<queue, current, unsaved, handled>>
        /\ \A m \in Monitors \ {n} : from'[m] = from[m]
    BY <1>4, OrderTyped DEF StartMonitor, MonitorStarted, TypeOK
  <2>2. ~ Running(n)
    <3>1. /\ running + 1 \in DOMAIN Order
          /\ \A k \in 1 .. running : k \in DOMAIN Order /\ k # running + 1
      BY <1>4, <2>1, OrderTyped DEF StartMonitor, TypeOK
    <3>2. \A k \in 1 .. running : Order[k] # n
      BY <3>1, MonitorAssumption
    <3> QED BY <3>2 DEF Running
  <2>3. queue'[n] = {}
    BY <2>1, <2>2 DEF FetchedAreSettled
  <2>4. ASSUME NEW m \in Monitors, m # n
        PROVE  Keeps(m)
    BY <2>1, <2>4, ChainTyped DEF Running, FetchedAreSettled, IsFirst
  <2> QED BY <1>1, <2>3, <2>4 DEF FetchedAreSettled
<1>5. ASSUME NEW n \in Monitors, NEW to \in 0 .. MaxBlock, FetchLogs(n, to)
      PROVE  FetchedAreSettled'
  <2> DEFINE fetched == {log \in Logs(n, from[n], to) : IsAfter(log, GetMonitorBlock(n))}
  <2>1. /\ queue' = [queue EXCEPT ![n] = fetched] /\ from' = [from EXCEPT ![n] = to + 1]
        /\ Running(n) /\ n \notin unsaved /\ to <= current - BlockDelay
        /\ UNCHANGED <<chain, running, current, unsaved, handled>>
    BY <1>5 DEF FetchLogs, LastFetched
  <2>2. /\ queue'[n] = fetched /\ from'[n] = to + 1
        /\ \A m \in Monitors \ {n} : queue'[m] = queue[m] /\ from'[m] = from[m]
    BY <2>1 DEF TypeOK
  <2>3. \A log \in fetched : log \in Logs(n, 1, current - BlockDelay)' /\ log.block < to + 1
    <3>1. SUFFICES ASSUME NEW log \in fetched
                   PROVE  log \in Logs(n, 1, current - BlockDelay)' /\ log.block < to + 1
      OBVIOUS
    <3>2. log \in Logs(n, from[n], to) /\ from[n] \in Int /\ to \in Int
      BY DEF TypeOK
    <3>3. /\ log \in AllLogs /\ MonitorOf[log.event] = n /\ OnChain(log)
          /\ log.block \in 1 .. Len(chain) /\ log.block <= to
      BY <3>2, LogOnChain
    <3>4. log \in Logs(n, 1, current - BlockDelay)
      BY <2>1, <3>2, <3>3, ChainTyped, LogsOnChain
    <3> QED BY <2>1, <3>2, <3>3, <3>4 DEF Logs, OnChain
  <2> HIDE DEF fetched
  <2>4. ASSUME NEW m \in Monitors, m # n
        PROVE  Keeps(m)
    BY <2>1, <2>2, <2>4, ChainTyped DEF Running, FetchedAreSettled, IsFirst
  <2>5. Running(n)' /\ n \notin unsaved'
    BY <2>1 DEF Running
  <2> QED BY <1>1, <2>2, <2>3, <2>4, <2>5 DEF FetchedAreSettled
<1>6. ASSUME NEW n \in Monitors, NEW done \in queue[n], CallbackDone(n, done)
      PROVE  FetchedAreSettled'
  <2>1. /\ unsaved' = unsaved \union {n} /\ handled' = handled \union {done}
        /\ UNCHANGED <<chain, running, current, from, queue>> /\ IsFirst(n, done)
    BY <1>6 DEF CallbackDone, AtCallback
  <2>2. ASSUME NEW m \in Monitors
        PROVE  m \in unsaved' => \A log \in queue'[m] : IsFirst(m, log)' => log \in handled'
    <3>1. CASE m # n
      BY <2>1, <3>1 DEF FetchedAreSettled, IsFirst
    <3>2. CASE m = n
      <4>1. \A log \in queue[n] : IsFirst(n, log)' => ~ IsAfter(log, done)
        BY <2>1 DEF IsFirst
      <4> QED BY <2>1, <3>2, <4>1, FirstIsOne
    <3> QED BY <3>1, <3>2
  <2>3. ASSUME NEW m \in Monitors
        PROVE  Keeps(m)
    BY <2>1, <2>2, ChainTyped DEF Running
  <2> QED BY <1>1, <2>3 DEF FetchedAreSettled
<1>7. ASSUME NEW n \in Monitors, NEW done \in queue[n],
             CallbackAgain(n, done) \/ Acknowledge(n, done) \/ AcknowledgeFails(n, done)
      PROVE  FetchedAreSettled'
  <2>1. UNCHANGED <<chain, running, current, handled>>
    BY <1>7 DEF CallbackAgain, Acknowledge, AcknowledgeFails, NextEvent
  <2>2. /\ queue'[n] \subseteq queue[n] /\ (queue'[n] = {} \/ from'[n] = from[n])
        /\ n \notin unsaved'
        /\ \A m \in Monitors \ {n} :
              queue'[m] = queue[m] /\ from'[m] = from[m] /\ (m \in unsaved' => m \in unsaved)
    BY <1>7 DEF CallbackAgain, AtCallback, Acknowledge, AcknowledgeFails, NextEvent, TypeOK
  <2>3. ASSUME NEW m \in Monitors, m # n \/ from'[n] = from[n]
        PROVE  Keeps(m)
    BY <2>1, <2>2, <2>3, ChainTyped DEF Running, FetchedAreSettled, IsFirst
  <2> QED BY <1>1, <2>2, <2>3 DEF FetchedAreSettled
<1>8. CASE Crash
  BY <1>8 DEF FetchedAreSettled, Crash
<1>9. CASE UNCHANGED vars
  BY <1>2, <1>9, ChainTyped DEF vars
<1> QED
  BY <1>3, <1>4, <1>5, <1>6, <1>7, <1>8, <1>9 DEF Next

-----------------------------------------------------------------------------
(* What has been handled                                                     *)

LEMMA QueuedLog ==
    ASSUME TypeOK, StartedFirst, FetchedAreSettled, NEW m \in Monitors, NEW log \in queue[m]
    PROVE  /\ log \in AllLogs /\ MonitorOf[log.event] = m /\ OnChain(log)
           /\ log \in Logs(m, 1, Settled)
           /\ log.block \in Nat /\ log.block <= current - BlockDelay /\ log.block <= Settled
           /\ log.block < from[m]
           /\ Running(m) /\ node # "down" /\ start[m] # NoRow /\ monitor[m] # NoRow
<1>1. log \in Logs(m, 1, current - BlockDelay) /\ log.block < from[m] /\ Running(m)
  BY DEF FetchedAreSettled
<1>2. /\ log \in AllLogs /\ MonitorOf[log.event] = m /\ OnChain(log)
      /\ log.block \in 1 .. Len(chain) /\ log.block <= current - BlockDelay
  <2>1. PICK last \in Int : last = current - BlockDelay
    BY ChainTyped
  <2>2. log \in Logs(m, 1, last)
    BY <1>1, <2>1
  <2> QED BY <2>1, <2>2, LogOnChain
<1>3. log.block <= Settled /\ log \in Logs(m, 1, Settled)
  BY <1>2, ChainTyped, LogsOnChain
<1> QED BY <1>1, <1>2, <1>3, RunningTyped DEF StartedFirst

LEMMA HandledAreSettledNext ==
    ASSUME TypeOK, TypeOK', StartedFirst, FetchedAreSettled, HandledAreSettled, [Next]_vars
    PROVE  HandledAreSettled'
<1>. USE DEF history, memory
<1>1. ASSUME NEW log \in AllLogs, OnChain(log), log.block <= Settled, start[MonitorOf[log.event]] # NoRow
      PROVE  OnChain(log)' /\ log.block <= Settled' /\ start'[MonitorOf[log.event]] # NoRow
  <2>1. log.block \in Nat /\ MonitorOf[log.event] \in Monitors
    BY DEF AllLogs
  <2>2. start'[MonitorOf[log.event]] # NoRow
    BY <1>1, <2>1, StartStays
  <2> QED BY <1>1, <2>1, <2>2, SettledStays, SettledGrows
<1>2. ASSUME NEW log \in handled
      PROVE  /\ log \in AllLogs /\ OnChain(log) /\ log.block <= Settled
             /\ start[MonitorOf[log.event]] # NoRow
             /\ node # "down" => log.block <= current - BlockDelay
  BY DEF TypeOK, HandledAreSettled
<1>3. \/ node' = "down"
      \/ current' = Len(chain)
      \/ current' = current /\ (node # "down" \/ node' = node)
  BY DEF Next, vars, BlockAdded, Reorganised, StartService, StartMonitor, StartWorkers, PollBlock,
     FetchLogs, CallbackDone, CallbackAgain, Acknowledge, AcknowledgeFails, NextEvent, Crash
<1>4. ASSUME NEW log \in handled
      PROVE  node' # "down" => log.block <= current' - BlockDelay
  BY <1>2, <1>3
<1>5. ASSUME NEW m \in Monitors, NEW done \in queue[m], CallbackDone(m, done)
      PROVE  HandledAreSettled'
  <2>1. handled' = handled \union {done} /\ UNCHANGED <<node, current>>
    BY <1>5 DEF CallbackDone
  <2>2. ASSUME NEW log \in handled'
        PROVE  /\ log \in AllLogs /\ OnChain(log) /\ log.block <= Settled
               /\ start[MonitorOf[log.event]] # NoRow
               /\ node' # "down" => log.block <= current' - BlockDelay
    BY <1>2, <1>4, <2>1, QueuedLog
  <2> QED BY <1>1, <2>2 DEF HandledAreSettled
<1>6. CASE UNCHANGED handled
  BY <1>1, <1>2, <1>4, <1>6 DEF HandledAreSettled
<1> QED
  BY <1>5, <1>6 DEF Next, vars, BlockAdded, Reorganised, StartService, StartMonitor, StartWorkers,
     PollBlock, FetchLogs, CallbackAgain, Acknowledge, AcknowledgeFails, NextEvent, Crash

-----------------------------------------------------------------------------
(* The cursors                                                               *)

LEMMA CursorsSettledNext ==
    ASSUME TypeOK, TypeOK', StartedFirst, FetchedAreSettled, CursorsSettled, [Next]_vars
    PROVE  CursorsSettled'
<1>. USE DEF tableVars, memory, history
<1> DEFINE AtSettled(m, pos) == pos.block <= Settled \/ pos = [block |-> start[m], idx |-> 0]
           FromSettled(m) == from[m] <= Settled + 1 \/ from[m] = start[m]
\* It is enough to look at what an action does to one of the monitors.
<1>1. ASSUME NEW m \in Monitors, monitor[m] # NoRow, monitor'[m] = monitor[m]
      PROVE  AtSettled(m, monitor[m])'
  <2>1. AtSettled(m, monitor[m]) /\ start'[m] = start[m] /\ monitor[m].block \in Nat
    BY <1>1, StartStays DEF CursorsSettled, StartedFirst, TypeOK, Positions
  <2> QED BY <1>1, <2>1, SettledGrows
<1>2. ASSUME NEW m \in Monitors, Running(m), from'[m] = from[m]
      PROVE  FromSettled(m)'
  <2>1. FromSettled(m) /\ start'[m] = start[m] /\ from[m] \in Nat
    BY <1>2, StartStays DEF CursorsSettled, StartedFirst, TypeOK
  <2> QED BY <1>2, <2>1, SettledGrows
<1>3. ASSUME NEW m \in Monitors, monitor[m] # NoRow, monitor'[m] = monitor[m],
             from'[m] = monitor[m].block
      PROVE  FromSettled(m)'
  <2>1. monitor[m].block \in Nat /\ AtSettled(m, monitor[m])'
    BY <1>1, <1>3 DEF TypeOK, Positions
  <2> QED BY <1>3, <2>1, SettledGrows
<1>4. CASE UNCHANGED <<monitor, from>> /\ \A m \in Monitors : Running(m)' => Running(m)
  BY <1>1, <1>2, <1>4 DEF CursorsSettled
<1>5. CASE StartMonitor
  <2>0. PICK n \in Monitors : n = Order[running + 1]
    BY <1>5, OrderTyped DEF StartMonitor, TypeOK
  <2>1. /\ n \in Monitors /\ running' = running + 1 /\ running \in Nat
        /\ \A m \in Monitors \ {n} : from'[m] = from[m] /\ monitor'[m] = monitor[m]
        /\ \A m \in Monitors \ {n} : Running(m)' => Running(m)
    <3>1. running' = running + 1 /\ running \in Nat /\ MonitorStarted(n)
      BY <1>5, <2>0 DEF StartMonitor, TypeOK
    <3>2. \A m \in Monitors \ {n} : from'[m] = from[m] /\ monitor'[m] = monitor[m]
      BY <3>1 DEF MonitorStarted, InsertMonitor, TypeOK
    <3>3. \A m \in Monitors \ {n} : Running(m)' => Running(m)
      BY <2>0, <3>1 DEF Running
    <3> QED BY <3>1, <3>2, <3>3
  <2>2. from'[n] = monitor'[n].block
    BY <1>5, <2>0 DEF StartMonitor, MonitorStarted, TypeOK
  <2>3. CASE monitor[n] # NoRow
    <3>1. monitor'[n] = monitor[n]
      BY <1>5, <2>0, <2>3 DEF StartMonitor, MonitorStarted, GetMonitorBlock
    <3>2. AtSettled(n, monitor[n])' /\ FromSettled(n)'
      BY <1>1, <1>3, <2>1, <2>2, <2>3, <3>1
    <3> HIDE DEF AtSettled, FromSettled
    <3>3. ASSUME NEW m \in Monitors
          PROVE  /\ monitor'[m] # NoRow => AtSettled(m, monitor[m])'
                 /\ Running(m)' => FromSettled(m)'
      BY <1>1, <1>2, <2>1, <3>2
    <3> QED BY <3>3 DEF CursorsSettled, AtSettled, FromSettled
  <2>4. CASE monitor[n] = NoRow
    <3>1. monitor'[n] = [block |-> current, idx |-> 0] /\ start'[n] = current
      BY <1>5, <2>0, <2>4 DEF StartMonitor, MonitorStarted, InsertMonitor, GetMonitorBlock, TypeOK
    <3>2. AtSettled(n, monitor[n])' /\ FromSettled(n)'
      <4>1. monitor'[n] = [block |-> start'[n], idx |-> 0] /\ from'[n] = start'[n]
        BY <2>2, <3>1
      <4> QED BY <4>1
    <3> HIDE DEF AtSettled, FromSettled
    <3>3. ASSUME NEW m \in Monitors
          PROVE  /\ monitor'[m] # NoRow => AtSettled(m, monitor[m])'
                 /\ Running(m)' => FromSettled(m)'
      BY <1>1, <1>2, <2>1, <3>2
    <3> QED BY <3>3 DEF CursorsSettled, AtSettled, FromSettled
  <2> QED BY <2>3, <2>4
<1>6. ASSUME NEW n \in Monitors, NEW to \in 0 .. MaxBlock, FetchLogs(n, to)
      PROVE  CursorsSettled'
  <2>1. /\ UNCHANGED <<monitor, running>> /\ from'[n] = to + 1
        /\ to <= current - BlockDelay
        /\ \A m \in Monitors \ {n} : from'[m] = from[m]
    BY <1>6 DEF FetchLogs, LastFetched, TypeOK
  <2>2. FromSettled(n)'
    BY <2>1, ChainTyped, SettledGrows
  <2> QED BY <1>1, <1>2, <2>1, <2>2 DEF CursorsSettled, Running
<1>7. ASSUME NEW n \in Monitors, NEW log \in queue[n], CallbackAgain(n, log)
      PROVE  CursorsSettled'
  <2>1. /\ UNCHANGED <<monitor, running>> /\ from'[n] = monitor[n].block
        /\ \A m \in Monitors \ {n} : from'[m] = from[m]
    BY <1>7 DEF CallbackAgain, GetMonitorBlock, TypeOK
  <2>2. monitor[n] # NoRow
    BY QueuedLog
  <2> QED BY <1>1, <1>2, <1>3, <2>1, <2>2 DEF CursorsSettled, Running
<1>8. ASSUME NEW n \in Monitors, NEW log \in queue[n], Acknowledge(n, log)
      PROVE  CursorsSettled'
  <2>1. /\ UNCHANGED <<from, running>> /\ monitor'[n] = EventPosition(n, log)
        /\ \A m \in Monitors \ {n} : monitor'[m] = monitor[m]
    BY <1>8 DEF Acknowledge, NextEvent, UpdateMonitorBlock, TypeOK
  <2>2. log.block \in Nat /\ log.block <= Settled /\ EventPosition(n, log).block = log.block
    BY QueuedLog DEF EventPosition
  <2>3. AtSettled(n, monitor[n])'
    BY <2>1, <2>2, SettledGrows
  <2> QED BY <1>1, <1>2, <2>1, <2>3 DEF CursorsSettled, Running
<1>9. CASE Crash
  BY <1>1, <1>9 DEF CursorsSettled, Crash, Running
<1> QED
  BY <1>4, <1>5, <1>6, <1>7, <1>8, <1>9 DEF Next, vars, BlockAdded, Reorganised, StartService,
     StartWorkers, PollBlock, CallbackDone, AcknowledgeFails, NextEvent, Running
-----------------------------------------------------------------------------
(* The events to deliver                                                     *)

EmittedSinceStart ==
    \A m \in Monitors : \A log \in Emitted[m] :
       /\ log \in AllLogs /\ MonitorOf[log.event] = m /\ OnChain(log)
       /\ log.block \in Nat /\ log.idx \in Nat /\ log.idx > 0
       /\ log.block <= Settled
       /\ start[m] # NoRow => start[m] \in Nat /\ start[m] <= log.block

\* What a monitor's own transactions cause comes after its first cursor, too.
LEMMA EmittedLogs == TypeOK /\ StartedFirst => EmittedSinceStart
<1> SUFFICES ASSUME TypeOK, StartedFirst, NEW m \in Monitors, NEW log \in Emitted[m]
             PROVE  /\ log \in AllLogs /\ MonitorOf[log.event] = m /\ OnChain(log)
                    /\ log.block \in Nat /\ log.idx \in Nat /\ log.idx > 0
                    /\ log.block <= Settled
                    /\ start[m] # NoRow => start[m] \in Nat /\ start[m] <= log.block
  BY DEF EmittedSinceStart
<1>1. log \in Logs(m, 1, Settled) /\ Watched(m, log)
  BY DEF Emitted
<1>2. PICK last \in Int : last = Settled
  BY ChainTyped
<1>3. /\ log \in AllLogs /\ MonitorOf[log.event] = m /\ OnChain(log)
      /\ log.block \in 1 .. Len(chain) /\ log.block <= Settled
      /\ log.idx \in 1 .. BlockSize
      /\ log.event \in Range(chain[log.block])
  BY <1>1, <1>2, LogOnChain
<1>4. ASSUME start[m] # NoRow
      PROVE  start[m] \in Nat /\ start[m] <= log.block
  <2>1. start[m] \in Nat
    BY <1>4, ChainTyped DEF TypeOK
  <2>2. CASE m \in OwnMonitors
    <3>1. sent # NoRow /\ log.block > sent /\ start[m] <= sent
      BY <1>3, <2>2, ChainTyped DEF StartedFirst
    <3>2. sent \in Nat
      BY <3>1, ChainTyped DEF TypeOK
    <3> QED BY <1>3, <2>1, <3>1, <3>2
  <2>3. CASE m \notin OwnMonitors
    BY <1>1, <2>1, <2>3 DEF Watched
  <2> QED BY <2>2, <2>3
<1> QED BY <1>3, <1>4

LEMMA EmittedLogsNext == TypeOK' /\ StartedFirst' => EmittedSinceStart'
BY EmittedLogs, PTL

\* What has become one since is in a block that was not settled, or there was no
\* cursor to pass it over.
LEMMA EmittedGrow ==
    ASSUME TypeOK, TypeOK', StartedFirst, StartedFirst', [Next]_vars,
           NEW m \in Monitors, NEW log \in Emitted'[m], log \notin Emitted[m]
    PROVE  \/ start[m] = NoRow
           \/ log.block = Settled + 1 /\ \E block \in Blocks : BlockAdded(block)
<1> SUFFICES ASSUME start[m] # NoRow
             PROVE  log.block = Settled + 1 /\ \E block \in Blocks : BlockAdded(block)
  OBVIOUS
<1>1. /\ log \in AllLogs /\ MonitorOf[log.event] = m /\ OnChain(log)'
      /\ log.block \in Nat /\ log.block <= Settled'
      /\ start'[m] = start[m]
      /\ log \in Logs(m, 1, Settled)' /\ Watched(m, log)'
  BY EmittedLogsNext, StartStays DEF EmittedSinceStart, Emitted
<1>2. Watched(m, log) /\ log.block >= 1
  BY <1>1 DEF Watched, Logs
<1>3. ASSUME log.block <= Settled
      PROVE  FALSE
  <2>1. OnChain(log)
    BY <1>1, <1>3, SettledStays
  <2>2. PICK last \in Int : last = Settled
    BY ChainTyped
  <2>3. log \in Logs(m, 1, last)
    BY <1>1, <1>2, <1>3, <2>1, <2>2, LogsOnChain
  <2> QED BY <1>2, <2>2, <2>3 DEF Emitted
<1>4. Settled \in Int /\ Settled' \in Int /\ log.block > Settled
  BY <1>1, <1>3, SettledGrows
<1>5. PICK block \in Blocks : BlockAdded(block)
  BY <1>1, <1>4, ChainTyped, ChainStays, ChainChanges
<1>6. Settled' = Settled + 1
  <2>1. Len(chain') = Len(chain) + 1
    BY <1>5, ChainGrows
  <2> QED BY <2>1, ChainTyped
<1> QED BY <1>1, <1>4, <1>5, <1>6
-----------------------------------------------------------------------------
(* No event is passed over                                                   *)

LEMMA NonePassedOverNext ==
    ASSUME MonitorInv, TypeOK', StartedFirst', [Next]_vars
    PROVE  NonePassedOver'
<1>. USE DEF tableVars, memory, history
<1>0. TypeOK /\ StartedFirst /\ FetchedAreSettled /\ CursorsSettled /\ NonePassedOver
  BY DEF MonitorInv
<1> DEFINE Passed(m, log) ==
              /\ monitor[m] # NoRow /\ ~ IsAfter(log, monitor[m]) => log \in handled
              /\ Running(m) => log \in handled \/ log \in queue[m] \/ log.block >= from[m]
\* It is enough to look at one event.
<1>. SUFFICES ASSUME NEW m \in Monitors, NEW log \in Emitted'[m]
              PROVE  Passed(m, log)'
  BY DEF NonePassedOver
<1>1. /\ log \in AllLogs /\ MonitorOf[log.event] = m
      /\ log.block \in Nat /\ log.idx \in Nat /\ log.idx > 0
      /\ start'[m] # NoRow => start'[m] \in Nat /\ start'[m] <= log.block
  BY <1>0, EmittedLogsNext DEF EmittedSinceStart
<1>2. log \in Emitted[m] => Passed(m, log)
  BY <1>0 DEF NonePassedOver
\* A monitor that fetches from its cursor fetches every event not yet handled.
<1>3. ASSUME monitor[m] # NoRow => log \in Emitted[m], monitor[m] # NoRow,
             monitor'[m] = monitor[m], handled' = handled, from'[m] = monitor[m].block
      PROVE  Passed(m, log)'
  <2>1. IsAfter(log, monitor[m]) => log.block >= from'[m]
    <3>1. monitor[m].block \in Nat
      BY <1>0, <1>3 DEF TypeOK, Positions
    <3> QED BY <1>1, <1>3, <3>1 DEF IsAfter
  <2> QED BY <1>2, <1>3, <2>1 DEF IsAfter
<1>4. CASE log \notin Emitted[m] /\ start[m] # NoRow
  <2>1. log.block = Settled + 1 /\ \E block \in Blocks : BlockAdded(block)
    BY <1>0, <1>4, EmittedGrow
  <2>2. UNCHANGED <<monitor, start, from, queue, running>>
    BY <2>1 DEF BlockAdded
  <2>3. start[m] \in Nat /\ start[m] <= log.block
    BY <1>1, <1>4, <2>2
  <2>4. monitor[m] # NoRow => IsAfter(log, monitor[m])
    <3>1. CASE monitor[m].block <= Settled
      <4>1. monitor[m] # NoRow => monitor[m].block \in Nat
        BY <1>0 DEF TypeOK, Positions
      <4>2. log.block > Settled /\ Settled \in Int
        BY <1>0, <2>1, ChainTyped
      <4> QED BY <1>1, <3>1, <4>1, <4>2 DEF IsAfter
    <3>2. CASE monitor[m] = [block |-> start[m], idx |-> 0]
      <4>1. monitor[m].block = start[m] /\ monitor[m].idx = 0
        BY <3>2
      <4> QED BY <1>1, <2>3, <4>1 DEF IsAfter
    <3> QED BY <1>0, <3>1, <3>2 DEF CursorsSettled
  <2>5. Running(m) => log.block >= from[m]
    BY <1>0, <2>1, <2>3, ChainTyped DEF CursorsSettled, TypeOK
  <2> QED BY <2>2, <2>4, <2>5 DEF IsAfter, Running
<1>5. CASE log \notin Emitted[m] /\ start[m] = NoRow
  <2>1. monitor[m] = NoRow /\ ~ Running(m)
    BY <1>0, <1>5 DEF StartedFirst
  <2>2. CASE StartMonitor /\ m = Order[running + 1]
    <3>1. MonitorStarted(m)
      BY <2>2 DEF StartMonitor
    <3>2. monitor'[m] = [block |-> current, idx |-> 0] /\ start'[m] = current /\ from'[m] = current
      <4>1. monitor'[m] = [block |-> current, idx |-> 0] /\ start'[m] = current
        BY <1>0, <2>1, <3>1 DEF MonitorStarted, InsertMonitor, GetMonitorBlock, TypeOK
      <4>2. from'[m] = monitor'[m].block
        BY <1>0, <3>1 DEF MonitorStarted, TypeOK
      <4> QED BY <4>1, <4>2
    <3>3. monitor'[m].block = current /\ monitor'[m].idx = 0 /\ current \in Nat /\ current <= log.block
      BY <1>0, <1>1, <3>2, ChainTyped
    <3> QED BY <1>1, <3>2, <3>3 DEF IsAfter
  <2>3. CASE ~ (StartMonitor /\ m = Order[running + 1])
    <3>1. monitor'[m] = NoRow
      BY <1>0, <2>1, <2>3 DEF Next, vars, BlockAdded, Reorganised, StartService, StartMonitor,
         MonitorStarted, InsertMonitor, GetMonitorBlock, StartWorkers, PollBlock, FetchLogs,
         CallbackDone, CallbackAgain, Acknowledge, AcknowledgeFails, NextEvent,
         UpdateMonitorBlock, Crash, TypeOK
    <3>2. start'[m] = NoRow /\ ~ Running(m)'
      BY <1>0, <3>1 DEF StartedFirst
    <3> QED BY <3>1, <3>2
  <2> QED BY <2>2, <2>3
<1>6. CASE log \in Emitted[m]
  <2>1. CASE UNCHANGED <<monitor, from, queue, running, handled>>
    BY <1>2, <1>6, <2>1 DEF IsAfter, Running
  <2>2. CASE StartMonitor
    <3>0. UNCHANGED <<queue, handled>>
      BY <2>2 DEF StartMonitor
    <3>1. CASE m = Order[running + 1]
      <4>1. MonitorStarted(m)
        BY <2>2, <3>1 DEF StartMonitor
      <4>2. CASE monitor[m] # NoRow
        <5>1. monitor'[m] = monitor[m] /\ from'[m] = monitor[m].block
          BY <1>0, <4>1, <4>2 DEF MonitorStarted, GetMonitorBlock, TypeOK
        <5> QED BY <1>3, <1>6, <3>0, <4>2, <5>1
      <4>3. CASE monitor[m] = NoRow
        <5>1. monitor'[m] = [block |-> current, idx |-> 0] /\ start'[m] = current
          BY <1>0, <4>1, <4>3 DEF MonitorStarted, InsertMonitor, GetMonitorBlock, TypeOK
        <5>2. from'[m] = monitor'[m].block
          BY <1>0, <4>1 DEF MonitorStarted, TypeOK
        <5>3. /\ monitor'[m].block = current /\ monitor'[m].idx = 0 /\ from'[m] = current
              /\ current \in Nat /\ current <= log.block
          BY <1>0, <1>1, <5>1, <5>2, ChainTyped
        <5> QED BY <1>1, <5>3 DEF IsAfter
      <4> QED BY <4>2, <4>3
    <3>2. CASE m # Order[running + 1]
      <4>1. running' = running + 1 /\ running \in Nat /\ monitor'[m] = monitor[m] /\ from'[m] = from[m]
        BY <1>0, <2>2, <3>2 DEF StartMonitor, MonitorStarted, InsertMonitor, TypeOK
      <4>2. Running(m)' => Running(m)
        BY <3>2, <4>1 DEF Running
      <4> QED BY <1>2, <1>6, <3>0, <4>1, <4>2 DEF IsAfter
    <3> QED BY <3>1, <3>2
  <2>3. ASSUME NEW n \in Monitors, NEW to \in 0 .. MaxBlock, FetchLogs(n, to)
        PROVE  Passed(m, log)'
    <3>0. UNCHANGED <<chain, monitor, running, handled>>
      BY <2>3 DEF FetchLogs
    <3>1. CASE n # m
      BY <1>0, <1>2, <1>6, <2>3, <3>0, <3>1 DEF FetchLogs, IsAfter, Running, TypeOK
    <3>2. CASE n = m
      <4>1. /\ Running(m) /\ queue[m] = {} /\ from'[m] = to + 1
            /\ queue'[m] = {l \in Logs(m, from[m], to) : IsAfter(l, monitor[m])}
        BY <1>0, <2>3, <3>2 DEF FetchLogs, GetMonitorBlock, TypeOK
      <4>2. log \in handled \/ log.block >= from[m]
        BY <1>2, <1>6, <4>1
      <4>3. ASSUME log \notin handled, log.block <= to
            PROVE  log \in queue'[m]
        <5>1. OnChain(log) /\ from[m] \in Nat
          BY <1>0, <1>6, EmittedLogs DEF EmittedSinceStart, TypeOK
        <5>2. log \in Logs(m, from[m], to)
          BY <1>0, <1>1, <4>2, <4>3, <5>1, LogsOnChain
        <5>3. monitor[m] # NoRow
          BY <1>0, <4>1 DEF StartedFirst
        <5> QED BY <1>2, <1>6, <4>1, <4>3, <5>2, <5>3
      <4>4. log \in handled \/ log \in queue'[m] \/ log.block >= from'[m]
        BY <1>1, <4>1, <4>3
      <4> QED BY <1>2, <1>6, <3>0, <4>4 DEF IsAfter
    <3> QED BY <3>1, <3>2
  <2>4. ASSUME NEW n \in Monitors, NEW done \in queue[n], CallbackDone(n, done)
        PROVE  Passed(m, log)'
    <3>1. handled \subseteq handled' /\ UNCHANGED <<monitor, from, queue, running>>
      BY <2>4 DEF CallbackDone
    <3> QED BY <1>2, <1>6, <3>1 DEF IsAfter, Running
  <2>5. ASSUME NEW n \in Monitors, NEW done \in queue[n], CallbackAgain(n, done)
        PROVE  Passed(m, log)'
    <3>0. UNCHANGED <<monitor, running, handled>>
      BY <2>5 DEF CallbackAgain
    <3>1. CASE n # m
      BY <1>0, <1>2, <1>6, <2>5, <3>0, <3>1 DEF CallbackAgain, IsAfter, Running, TypeOK
    <3>2. CASE n = m
      <4>1. from'[m] = monitor[m].block /\ monitor[m] # NoRow
        BY <1>0, <2>5, <3>2, QueuedLog DEF CallbackAgain, GetMonitorBlock, TypeOK
      <4> QED BY <1>3, <1>6, <3>0, <4>1
    <3> QED BY <3>1, <3>2
  <2>6. ASSUME NEW n \in Monitors, NEW done \in queue[n],
               Acknowledge(n, done) \/ AcknowledgeFails(n, done)
        PROVE  Passed(m, log)'
    <3>0. UNCHANGED <<from, running, handled>> /\ AtAcknowledge(n, done)
      BY <2>6 DEF Acknowledge, AcknowledgeFails, NextEvent
    <3>1. CASE n # m
      BY <1>0, <1>2, <1>6, <2>6, <3>0, <3>1 DEF Acknowledge, AcknowledgeFails, NextEvent,
         UpdateMonitorBlock, IsAfter, Running, TypeOK
    <3>2. CASE n = m
      <4>1. /\ queue'[m] = queue[m] \ {done}
            /\ monitor'[m] = monitor[m] \/ monitor'[m] = EventPosition(m, done)
        BY <1>0, <2>6, <3>2 DEF Acknowledge, AcknowledgeFails, NextEvent, UpdateMonitorBlock, TypeOK
      <4>2. done \in handled /\ IsFirst(m, done) /\ done \in queue[m]
        BY <1>0, <3>0, <3>2 DEF AtAcknowledge, FetchedAreSettled
      <4>3. Running(m) /\ done.block < from[m] /\ done \in AllLogs /\ from[m] \in Nat
        BY <1>0, <4>2, QueuedLog DEF TypeOK
      <4>4. log \in handled \/ log \in queue'[m] \/ log.block >= from'[m]
        BY <1>2, <1>6, <3>0, <4>1, <4>2, <4>3
      <4>5. ASSUME ~ IsAfter(log, done)
            PROVE  log \in handled
        <5>1. log.block < from[m]
          BY <1>1, <4>3, <4>5 DEF IsAfter, AllLogs
        <5>2. log \in handled \/ log \in queue[m]
          BY <1>1, <1>2, <1>6, <4>3, <5>1
        <5> QED BY <1>0, <4>2, <4>5, <5>2, FirstIsOne
      <4>6. IsAfter(log, EventPosition(m, done)) <=> IsAfter(log, done)
        BY DEF IsAfter, EventPosition
      <4>7. monitor'[m] # NoRow /\ ~ IsAfter(log, monitor'[m]) => log \in handled
        <5>1. CASE monitor'[m] = monitor[m]
          BY <1>2, <1>6, <5>1
        <5>2. CASE monitor'[m] = EventPosition(m, done)
          BY <4>5, <4>6, <5>2
        <5> QED BY <4>1, <5>1, <5>2
      <4> QED BY <3>0, <4>4, <4>7 DEF IsAfter
    <3> QED BY <3>1, <3>2
  <2>7. CASE Crash
    <3>1. UNCHANGED <<monitor, handled>> /\ ~ Running(m)'
      BY <2>7 DEF Crash, Running
    <3> QED BY <1>2, <1>6, <3>1 DEF IsAfter
  <2> QED
    BY <2>1, <2>2, <2>3, <2>4, <2>5, <2>6, <2>7 DEF Next, vars, BlockAdded, Reorganised,
       StartService, StartWorkers, PollBlock
<1> QED BY <1>4, <1>5, <1>6

-----------------------------------------------------------------------------
\* The inductive invariant, and what rests on it.
THEOREM MonitorInvHolds == Spec => []MonitorInv
<1>1. ASSUME MonitorInv, [Next]_vars
      PROVE  MonitorInv'
  <2>1. /\ TypeOK /\ StartedFirst /\ FetchedAreSettled /\ HandledAreSettled /\ CursorsSettled
    BY <1>1 DEF MonitorInv
  <2>2. TypeOK' /\ StartedFirst'
    BY <1>1, <2>1, TypeOKNext, StartedFirstNext
  <2>3. FetchedAreSettled' /\ HandledAreSettled' /\ CursorsSettled' /\ NonePassedOver'
    BY <1>1, <2>1, <2>2, FetchedAreSettledNext, HandledAreSettledNext, CursorsSettledNext,
       NonePassedOverNext
  <2> QED BY <2>2, <2>3 DEF MonitorInv
<1> QED BY <1>1, MonitorInvInitially, PTL DEF Spec

\* No callback ever sees an event the chain gives up again.
THEOREM HandledAlwaysStay == Spec => []HandledStayOnChain
<1>1. MonitorInv => HandledStayOnChain
  BY DEF MonitorInv, HandledAreSettled, HandledStayOnChain
<1> QED BY <1>1, MonitorInvHolds, PTL
-----------------------------------------------------------------------------
(* The block at which the contract is read                                   *)

LEMMA ModBelow ==
    ASSUME NEW n \in Nat, NEW i \in Int, 0 <= i, i < n
    PROVE  i % n = i
BY SMT

LEMMA ModNegative ==
    ASSUME NEW n \in Nat, NEW i \in Int, 0 - n <= i, i < 0
    PROVE  i % n = i + n
BY SMT

\* The number of the block is behind the latest one or beyond the chain.
LEMMA SafeBlkNumIs ==
    ASSUME TypeOK
    PROVE  \/ current >= BlockDelay /\ SafeBlkNum = current - BlockDelay
           \/ current < BlockDelay /\ SafeBlkNum > Len(chain)
<1>1. /\ current \in Nat /\ BlockDelay \in Nat /\ Word \in Nat /\ Len(chain) \in Nat
      /\ Len(chain) <= MaxBlock /\ current <= Len(chain) /\ Word > MaxBlock + BlockDelay
  BY ChainTyped DEF TypeOK
<1>2. CASE current >= BlockDelay
  BY <1>1, <1>2, ModBelow DEF SafeBlkNum
<1>3. CASE current < BlockDelay
  <2>1. SafeBlkNum = (current - BlockDelay) + Word
    <3>1. /\ current - BlockDelay \in Int /\ current - BlockDelay < 0
          /\ 0 - Word <= current - BlockDelay
      BY <1>1, <1>3
    <3> QED BY <1>1, <3>1, ModNegative DEF SafeBlkNum
  <2> QED BY <1>1, <1>3, <2>1
<1> QED BY <1>1, <1>2, <1>3

\* What the node reads of a contract cannot be undone by a reorganisation, also
\* when the chain is shorter than the delay.
THEOREM ReadsAreAlwaysSettled == Spec => []ReadsAreSettled
<1>1. ASSUME MonitorInv, ReadSucceeds
      PROVE  SafeBlkNum <= Settled
  <2>1. TypeOK
    BY <1>1 DEF MonitorInv
  <2>2. SafeBlkNum <= Len(chain)
    BY <1>1 DEF ReadSucceeds
  <2>3. SafeBlkNum = current - BlockDelay
    <3>1. CASE current < BlockDelay /\ SafeBlkNum > Len(chain)
      <4>1. SafeBlkNum \in Int
        BY <2>1, ChainTyped DEF SafeBlkNum
      <4> QED BY <2>1, <2>2, <3>1, <4>1, ChainTyped
    <3> QED BY <2>1, <3>1, SafeBlkNumIs
  <2> QED BY <2>1, <2>3, ChainTyped
<1>2. MonitorInv => ReadsAreSettled
  BY <1>1 DEF ReadsAreSettled
<1> QED BY <1>2, MonitorInvHolds, PTL

\* The workers see in the contract what the monitors have already handled.
THEOREM ReadsAlwaysSeeHandled == Spec => []ReadsSeeHandledEvents
<1>1. ASSUME MonitorInv, ReadSucceeds, NEW log \in handled
      PROVE  log.block <= SafeBlkNum
  <2>1. TypeOK /\ HandledAreSettled /\ node # "down"
    BY <1>1 DEF MonitorInv, ReadSucceeds
  <2>2. OnChain(log) /\ log.block <= current - BlockDelay /\ log \in AllLogs
    BY <2>1 DEF HandledAreSettled, TypeOK
  <2>3. log.block \in Nat /\ log.block >= 1
    BY <2>1, <2>2, ChainTyped DEF OnChain
  <2>4. SafeBlkNum = current - BlockDelay
    BY <2>1, <2>2, <2>3, ChainTyped, SafeBlkNumIs
  <2> QED BY <2>2, <2>4
<1>2. MonitorInv => ReadsSeeHandledEvents
  BY <1>1 DEF ReadsSeeHandledEvents
<1> QED BY <1>2, MonitorInvHolds, PTL

-----------------------------------------------------------------------------
(* Refinement                                                                *)

LEMMA StartsDelivery == Init => Delivery!Init
<1> SUFFICES ASSUME Init PROVE Delivery!Init
  OBVIOUS
<1>1. \A m \in Monitors : Emitted[m] = {}
  BY DEF Init, Emitted, Logs, OnChain
<1>2. Emitted = [m \in Monitors |-> {}]
  BY <1>1 DEF Emitted
<1>3. Delivered = [m \in Monitors |-> {}]
  BY <1>1 DEF Delivered
<1> QED BY <1>2, <1>3 DEF Delivery!Init

\* Events come after those there were.
LEMMA EmitsInOrder ==
    ASSUME MonitorInv, TypeOK', StartedFirst', [Next]_vars, handled' = handled
    PROVE  Delivery!Emit
<1>0. TypeOK /\ StartedFirst /\ HandledAreSettled
  BY DEF MonitorInv
<1>1. ASSUME NEW m \in Monitors, NEW log \in Emitted[m]
      PROVE  log \in Emitted'[m]
  <2>1. /\ log \in AllLogs /\ MonitorOf[log.event] = m /\ OnChain(log) /\ log.block <= Settled
        /\ log \in Logs(m, 1, Settled) /\ Watched(m, log)
    BY <1>0, <1>1, EmittedLogs DEF EmittedSinceStart, Emitted
  <2>2. log \in Logs(m, 1, Settled)'
    <3>1. PICK last \in Int : last = Settled
      BY <1>0, ChainTyped
    <3>2. \A l \in Int : last <= l => log \in Logs(m, 1, l)'
      <4>1. log \in Logs(m, 1, last) /\ last <= Settled
        BY <2>1, <3>1
      <4> QED BY <1>0, <4>1, LogsStay
    <3>3. Settled' \in Int /\ last <= Settled'
      BY <1>0, <3>1, SettledGrows
    <3> QED BY <3>2, <3>3 DEF Logs, OnChain
  <2>3. Watched(m, log)'
    BY <1>0, <2>1, StartStays DEF Watched
  <2> QED BY <2>2, <2>3 DEF Emitted
<1>2. ASSUME NEW m \in Monitors, NEW new \in Emitted'[m] \ Emitted[m]
      PROVE  new \notin handled /\ \A old \in Emitted[m] : Delivery!IsAfter(new, old)
  <2>1. new \in AllLogs /\ MonitorOf[new.event] = m /\ new.block \in Nat
    BY <1>0, <1>2, EmittedLogsNext DEF EmittedSinceStart
  <2>2. \A old \in Emitted[m] : old.block \in Nat /\ old.block <= Settled
    BY <1>0, EmittedLogs DEF EmittedSinceStart
  <2>3. CASE new.block = Settled + 1
    BY <1>0, <2>1, <2>2, <2>3, ChainTyped DEF HandledAreSettled, Delivery!IsAfter
  <2>4. CASE start[m] = NoRow
    <3>1. new \notin handled
      BY <1>0, <2>1, <2>4 DEF HandledAreSettled
    <3>2. ASSUME NEW old \in Emitted[m]
          PROVE  FALSE
      <4>1. m \in OwnMonitors
        BY <2>4, <3>2 DEF Emitted, Watched
      <4>2. OnChain(old) /\ MonitorOf[old.event] = m /\ old.block \in DOMAIN chain
            /\ old.event \in Range(chain[old.block])
        BY <1>0, <3>2, EmittedLogs DEF EmittedSinceStart, OnChain, Range
      <4> QED BY <1>0, <2>4, <4>1, <4>2 DEF StartedFirst
    <3> QED BY <3>1, <3>2
  <2> QED BY <1>0, <1>2, <2>3, <2>4, EmittedGrow
<1>3. Delivered' = Delivered
  <2>1. \A m \in Monitors : (Emitted'[m] \intersect handled') = (Emitted[m] \intersect handled)
    BY <1>1, <1>2
  <2> QED BY <2>1 DEF Delivered
<1>4. DOMAIN Emitted' = Monitors
  BY DEF Emitted
<1> QED BY <1>1, <1>2, <1>3, <1>4 DEF Delivery!Emit

\* A callback that is done is a delivery, or was one already.
LEMMA DeliversInOrder ==
    ASSUME MonitorInv, NEW m \in Monitors, NEW log \in queue[m], CallbackDone(m, log)
    PROVE  Delivery!Deliver(m) \/ UNCHANGED Delivery!vars
<1>0. TypeOK /\ StartedFirst /\ FetchedAreSettled /\ NonePassedOver
  BY DEF MonitorInv
<1>1. handled' = handled \union {log} /\ IsFirst(m, log) /\ UNCHANGED <<chain, start>>
  BY DEF CallbackDone, AtCallback
<1>2. Emitted' = Emitted
  BY <1>1 DEF Emitted, Logs, OnChain, Watched
<1>3. /\ log \in AllLogs /\ MonitorOf[log.event] = m /\ log.block \in Nat /\ log.block < from[m]
      /\ Running(m) /\ from[m] \in Nat
  BY <1>0, QueuedLog DEF TypeOK
<1>4. \A n \in Monitors \ {m} : log \notin Emitted[n]
  BY <1>0, <1>3, EmittedLogs DEF EmittedSinceStart
<1>5. CASE log \in Emitted[m] /\ log \notin handled
  <2>1. \A other \in Emitted[m] : Delivery!IsAfter(log, other) => other \in Delivered[m]
    <3> SUFFICES ASSUME NEW other \in Emitted[m], Delivery!IsAfter(log, other)
                 PROVE  other \in handled
      BY DEF Delivered
    <3>1. other.block \in Nat
      BY <1>0, EmittedLogs DEF EmittedSinceStart
    <3>2. IsAfter(log, other) /\ other.block < from[m]
      BY <1>3, <3>1 DEF IsAfter, Delivery!IsAfter
    <3>3. other \notin queue[m]
      BY <1>1, <3>2 DEF IsFirst
    <3> QED BY <1>0, <1>3, <3>1, <3>2, <3>3 DEF NonePassedOver
  <2>2. Delivered' = [Delivered EXCEPT ![m] = @ \union {log}]
    <3>1. /\ Delivered'[m] = Delivered[m] \union {log}
          /\ \A n \in Monitors \ {m} : Delivered'[n] = Delivered[n]
      BY <1>1, <1>2, <1>4, <1>5 DEF Delivered
    <3> QED BY <3>1 DEF Delivered
  <2>3. log \in Emitted[m] \ Delivered[m]
    BY <1>5 DEF Delivered
  <2> QED BY <1>2, <2>1, <2>2, <2>3 DEF Delivery!Deliver
<1>6. CASE log \notin Emitted[m] \/ log \in handled
  <2>1. Delivered' = Delivered
    BY <1>1, <1>2, <1>4, <1>6 DEF Delivered
  <2> QED BY <1>2, <2>1 DEF Delivery!vars
<1> QED BY <1>5, <1>6

\* The monitors hand over every event once, in order, and pass none over.
THEOREM MonitorsDeliver == Spec => ImplementsDelivery
<1>1. ASSUME MonitorInv, MonitorInv', [Next]_vars
      PROVE  [Delivery!Next]_(Delivery!vars)
  <2>1. TypeOK' /\ StartedFirst'
    BY <1>1 DEF MonitorInv
  <2>2. handled' = handled \/ \E m \in Monitors : \E log \in queue[m] : CallbackDone(m, log)
    BY <1>1 DEF Next, vars, history, BlockAdded, Reorganised, StartService, StartMonitor, StartWorkers,
       PollBlock, FetchLogs, CallbackAgain, Acknowledge, AcknowledgeFails, NextEvent, Crash
  <2> QED BY <1>1, <2>1, <2>2, EmitsInOrder, DeliversInOrder DEF Delivery!Next
<1> QED
  BY <1>1, MonitorInvHolds, StartsDelivery, PTL DEF Spec, ImplementsDelivery, Delivery!Spec
=============================================================================
