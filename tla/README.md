# A verification project for the cBridge relay node

The relay node of cBridge moves tokens between chains with hash and time locks.
A user locks tokens for the node on the source chain (a *transfer OUT*); the node
locks tokens for the user on the destination chain under the same hash lock (a
*transfer IN*). Confirming the OUT or the IN publishes the preimage; the node
learns it from the confirmation's event and confirms the other transfer of the
pair. An IN nobody confirms is refunded to the node after its time lock, which is
eight hours earlier than the OUT's. This directory holds TLA+ modules translated
from the Go code, configurations that check them with TLC, and proofs checked by
TLAPS.

## The system

### Components

| Component | Code | State | Operations |
|---|---|---|---|
| event monitors | `server/server.go:262-515` | none of their own | callbacks of LogNewTransferOut, LogNewTransferIn, LogTransferConfirmed, LogTransferRefunded |
| event cursor | `server/dal.go:56-85` | `monitor` table | the position of the last event of every monitor, for restarts |
| transfer workers | `server/server.go:719-1019` | the rows a worker has queried and not yet handled | send, confirm, refund, and recovery of rows that wait too long |
| transfer table | `server/dal.go`, `server/schema.sql` | one row per transfer | single SQL statements; no transaction spans two of them |
| chain access | `server/server.go:532-612`, `layer1/` | contracts, pools and blocks, outside the process | `transferIn`, `confirm`, `refund`, `getTransfer` at a safe block |
| terms of a transfer in | `server/server.go:351-421, 831` | local | amounts between the decimals of two tokens; the time lock of the IN |
| token routing and startup | `server/server.go:115-296, 319-349`, `server/main/` | token maps, filled once; approvals on the chains | choosing the destination token, approving tokens, starting everything |
| gateway client | `server/gateway.go`, `server/server.go:658-717` | what the gateway knows of the node | `GetFee`, `PingGateway` |
| summary service | `server/server.go:1021-1204` | none | `GetTotalSummary` and `GetTransfer`, two pages over the table |
| configuration and messages | `cbridgenode/`, `gatewayrpc/` | none | records read at the start, sent in pings, stored as numbers |
| contract bindings | `contracts/` | none | generated wrappers, of which the node uses a few |
| utilities | `server/util.go` | the keystore file | the account; hexadecimal strings |

### How they interact

`main` starts four workers and a ping loop as goroutines; every monitor runs its
callbacks in a goroutine of its own. None of them shares memory that changes after
the start, except a map of fees nothing reads: **they meet only in the transfer
table and on the chains.** A worker wakes up on a ticker, queries rows, and takes
them one after the other with what the query returned: it reads the contract at a
block some blocks behind the head, updates the row, submits a transaction. What
the transaction did comes back later as an event to a monitor, which writes the
same row.

### What is hard about it

* Every decision rests on a read that may be old: the queried row, the contract at
  the safe block, the row of the other transfer.
* Six writers share a row's status. `ConfirmTransfer`, `RefundTransfer` and
  `UpdateTransferStatus` overwrite it without looking at it; the other updates
  name the status they replace.
* What the node reads of a chain comes from two places, events and `getTransfer`, that must
  agree on how far behind the head they look, also on a chain that reorganises.
* Multi-step operations are not transactions: the two inserts for an OUT, the two
  updates for a confirmation, mark-then-submit in three workers. A crash or a
  failing call may come between any two.
* Transactions are slow, lost, or mined after the node has given them up.
* Events are redelivered after a restart, arrive in any order across monitors, and
  on some chains are missed (`server.go:788`).
* Deadlines: each query stops looking at a row at a different distance from its
  time lock (one hour, six minutes, never); the time lock of an IN passes through unsigned
  and signed seconds, nanoseconds and a column of microseconds.
* The start is a walk over chains and tokens with a transaction at each step, and may
  break off and be repeated anywhere.

`PROJECT.json` lists the hazards at their lines, with the properties that cover
them.

### What makes it correct

* *Table and chain agree*: a status is never ahead of the contract, and a settled
  status is never left.
* *The node does not lose funds*: an IN is backed by a final OUT, in amount and time
  lock; a refund is asked for only if no confirmation of the OUT was visible by the IN's time lock; the
  preimage that pays the node is never lost once its event is acknowledged.
* *Amounts*: fee and amount add up; the user is charged one fee, whichever try is mined; the conversion of decimals is
  exact as long as its power fits; the time lock of an IN never overflows into one that is later than it may be.
* *Progress*: an IN that is not claimed is refunded; an OUT whose IN is claimed is
  collected or refunded.
* *Events*: each is handled, in order, and none that is handled is undone by the chain.
* *The start*: a token is routed to one of its name and paid from an account that approved it;
  the gateway is told of no other.
* *Reports* say what the table holds.

## The modules

| Module | Models |
|---|---|
| `Bridge` | the constants: transfers, hash locks, time locks, the node's time parameters, which faults may happen; their assumptions |
| `TransferTable` | the `transfer` table and one operator per SQL statement and query |
| `CBridgeChain` | contracts at the head and at the safe block, pools, the clock (external, from how the node uses them and from the rules of the contract it embeds) |
| `RelayNode` | the monitors' callbacks and the four workers, composed with the two modules above; specification, fairness, properties |
| `RelayNodeInvariants` | the inductive invariant, in named parts |
| `RelayNodeProofs` | proof of type correctness; lemmas about steps that leave parts of the state alone |
| `RelayNodeSafetyProofs` | proofs of the invariant and of every safety property |
| `AtomicSwap` | the abstract specification: what the contracts see of a relay node, without rows, workers, events, pools or safe blocks |
| `RelaySwap`, `RelaySwapProofs` | the refinement mapping from `RelayNode` to `AtomicSwap`, and the proof that it is one |
| `TimelyRelay`, `MCTimelyRelay` | `RelayNode` with a clock that waits until node and chains have caught up; what a fault costs; the invariant that gives a deadline to everything at stake |
| `TimelyRelayProofs` | proofs that such a node never loses its funds |
| `MCRelayNode` | the small instances, and what a comment in the code and the README of the repository claim |
| `EventDelivery` | the abstract specification of a monitor: every event is handed over, in order |
| `EventMonitor`, `MCEventMonitor` | a chain that reorganises, the library that polls it, the `monitor` table and the start of the monitors; the refinement to `EventDelivery`; the inductive invariant |
| `EventMonitorProofs` | proofs of the invariant, of the safety properties and of the refinement |
| `AmountConversion` | the loop that converts amounts, with the width of its power |
| `TransferInTerms`, `MCTransferInTerms` | the same step by step, and then the time lock of the IN up to the transaction, with widths and roundings |
| `TransferInTermsProofs` | powers, remainders and conversions of integers; proofs about amounts and time locks for every width |
| `TokenRouting` | the configuration, the token maps, and the lookups the callback for an OUT makes in them |
| `GatewayClient` | the messages of a ping and what the client makes of the answer |
| `NodeStart`, `MCNodeStart` | the start on top of the two: keystore, maps, approvals, pings, failing and starting again; the inductive invariant |
| `NodeStartProofs` | proofs of the invariant and of the four properties for every configuration |
| `Reports`, `MCReports` | the counting of the total summary and the list of transfers; the inductive invariant |
| `ReportsProofs` | sums over finite sets; proofs that the pages are right for every table |

`NodeStart` extends `GatewayClient`, which extends `TokenRouting`; `TransferInTerms` extends `AmountConversion`;
the modules of the relay are `Bridge`, `TransferTable`, `CBridgeChain`, `RelayNode`, `RelayNodeInvariants`, and above
these `TimelyRelay`, `RelaySwap` and the proofs. Proof modules extend what they are about, and
`TimelyRelayProofs` also `RelayNodeSafetyProofs`. `MC` modules hold the values of constants.

### Correspondence

*Rows.* A column is a variable, a function from transfer ids; a transfer without a
row has the status `UNDEFINED`. `updatets` is modelled as `age`, the time since a
PENDING status was set: it is compared only in PENDING rows, and every statement
that sets a PENDING status sets it. Columns that are only reported are left out.

*Workers.* `todo[w]` holds the rows a worker has queried and not yet taken, `cur[w]`
the row it is at, `pc[w]` its next step. A step ends at every SQL statement, every
contract read and every submitted transaction. The Go variable `tx` is a snapshot of the
row; the model reads the row again where the code uses `tx`, which makes no
difference: the columns used (time lock, hash lock, related id, amount, fee, preimage) are
written only by the worker itself or, for the preimage, never change once set
(`PreimagesRevealed` in the invariant says what they hold). The status of the
snapshot is not used.

*Callbacks.* `handler[t][kind]` says how far the callback for an event has come:
not called, past its first statement (`"second"`), or acknowledged. A callback that
returns `true` is called again. Events of one kind are delivered in any order, which
allows more than the monitors do.

*Chains.* `cstatus` is a contract at the head, `cfinal` the same at the block the
node reads and receives events from (`getTransfer` subtracts the block delay, as
the monitors do); `Finalize` moves the second towards the first.

*Restart.* `Crash` forgets what the workers hold, keeps table and pools, calls
interrupted callbacks again and may deliver acknowledged events again.

*Events.* `EventMonitor` has what `RelayNode` takes for granted of `Finalize` and delivery. The
polling library is external, modelled from how `Init` configures it and from the three statements
it calls through `dal.go`. The chain is a sequence of blocks with events; any block less than the
delay behind the head may be replaced. `current` is the latest block the library asked for, which both
`FetchLogs` and `SafeBlkNum` subtract the delay from. A callback is one step here, since its parts are in
`RelayNode`; what matters is that the position of an event is saved in a statement after it, that may fail,
and that a restart begins at the position saved. `RelayNode`'s redelivery after a crash allows more than that: any
acknowledged event may come again there, here only the last ones of each monitor. `queue` is the set of the logs
fetched, which are gone through in the order of the chain (`IsFirst`); `handled`, `start` and `sent` are history.
`EventDelivery` has the events each monitor owes (`Emitted`: those since its first start, and all that the node's
own transactions cause) and those it has handed over; one more is handed over only if all before it have been.

*The swap.* `AtomicSwap` says the node's promise in terms of the contracts alone: the node
locks an IN only against an OUT that is locked and cannot have been refunded, for at most
what the OUT brings, and so that the IN can be refunded eight hours before the OUT. Its
`LockIn` is guarded by the OUT's status *at the head*; `RelayNode` has only old views and may
have submitted the transaction long ago. `RelaySwap` maps the contracts at the head to the
abstract state; which OUT an IN was locked against is the related id in the row of the IN.

*Timeliness.* `RelayNode` lets everything be late, so nothing it does can keep the node from
losing a race it never ran. `TimelyRelay` has the same steps, but lets time pass only when no
row, event, confirmation or refund waits. (A transferIn may stay in its pool for any time - the
repository's README, line 206, speaks of hours - so that an IN may be sent again with the first transaction still to be
mined: nothing is at stake before one is.) A unit of its time is longer than a few tickers, polls
and blocks together. A fault costs a retry: `RetryTime` is the period after which a row is tried again (`RetryAfter`) and the unit until the clock has passed it.

*Faults.* `FaultKinds` names what may happen in a run: `"crash"`; `"drop"`, a
transaction that is never mined; `"error"`, a failing database, gateway or chain
call at any step that can fail, including the two updates whose error is only
logged (`server.go:868, 917`) and the second try to submit a transferIn
(`server.go:836`); `"miss"`, an event the monitor never delivers.

*The start.* `NodeStart` takes one step per token, approval, chain and ping, as `Init` does; the nested maps
of `TokenRouting` are functions with `NoName`, `NoAddr`, `0` for what they do not hold, and keep the
code's keys, some the configured chain id and some the reported one. A failure anywhere ends the process, with
the approval at hand made or not, and a new one begins with empty maps. An approval stays in the pool when the process
dies and may be mined at any later time. The keystore may be exchanged while the node is down. A ping carries the tokens whose balance
could be read; the gateway may have taken one whose answer is lost.

*The terms of an IN.* `TransferInTerms` continues where the conversion of the amount ends. `Signed` and
`Unsigned` are the conversions between the 64-bit types, `Rounded` the column's microseconds. An instant is counted in
nanoseconds without a bound, a duration has 63 bits and a sign. In the instance all widths are smaller, in about
the proportions of the code.

*The pages.* `Reports` has the rows of the one query in `remaining` and takes them in any
order, as the statement has no ORDER BY; a query may return only some of them, because nobody asks
`rows.Err()`. Its tables are those `RelayNode` can have: an IN has its OUT (`InsPaired`).

*Definitions that begin with "Fault:"* in their comment are variants of the
definition that follows with a plausible mistake (a dropped condition, a read at the
wrong block, a missing check). The specification does not use them. `PROJECT.json`
pairs each with a property that fails when it takes the original's place.

## The runs

One pair of transfers, unless the table says otherwise. The OUT's time lock is 5, the
IN's 3, and time is counted up to 6, so a unit is about four hours: the 8 hours
between the time locks are 2 units, and the 16 an OUT must have left are taken as 3. The times are enough for
an OUT locked too late for the node, an IN sent at its margin, mined before or after its time
lock, refunded before the OUT can be, and for everything to happen after both time locks.
`relay_faults`, which needs no fair schedule, has 4, 2 and 4 instead: an OUT is in time at 0 and 1 and late after
that, and an IN may be sent at 0 and again at 1, so that two of its transactions are in the pool.
The periods shorter than a unit (six and fifteen minutes) are 0, and "longer than" is
kept, so that a retry still comes a unit after its mark. Two OUTs to one IN are the
only way pairs interact; one pair is enough otherwise, as no statement or contract call
touches another pair's rows.

| Run | Properties | Instance | Shows |
|---|---|---|---|
| `relay_faults` | `TypeOK`, `StatusMatchesChain`, `AmountConserved`, `OneFeeCharged`, `ConfirmedByNodeOnlyIfRevealed`, `RefundOnlyUnclaimed`, `SettledRowsStay`, `ImplementsAtomicSwap` | two faults out of crashes, failing calls, lost transactions and missed events; fees 1 and 3 for an amount of 2; sent twice | a crash anywhere, with redelivery, breaks neither agreement nor settled rows; retries never lose or create tokens, and charge one fee; no confirmation without a published preimage; the second look at the OUT's contract (`server.go:946`) is needed and suffices; every step is a step of the swap or a stutter |
| `relay_shared` | `InIsBacked`, `IInv` | two OUTs of amounts 3 and 1, one IN; fees 1, 3, 4; times 2 and 1; a failing call | one IN is backed by the OUT that was recorded first, also if one of the inserts fails and the event comes again; the inductive invariant holds |
| `live_drop` | `UnclaimedIsRefunded` | fair, a lost transaction | retries bring an unclaimed IN back |
| `timely_two_hours` | `NodeNeverLoses`, `PreimageKept`, `TimelyInv`, `ClaimedIsCollected`, `UnclaimedIsRefunded` | a unit is two hours, the code's ratios; fair; two of crash, failing call, lost transaction; a transferIn mined at any time | eight hours are enough for two faults; who keeps up collects and gets back, also after a crash; the inductive invariant holds |
| `transfer_in_terms` | `TypeOK`, `TermsInv`, `ConvertedExactly`, `PanicsOnlyPastWidth`, `OverflowHasOneSide`, `InExpiresBeforeOut`, `InExpiresNoEarlier` | amounts around the powers of ten, decimals 1 to 8, a power of 7 bits; integers of 6 bits, every time lock, two seconds of four nanoseconds | exact while the power fits, panics only at a difference of 7 (64 in the code) decimals, and in between pays too little or too much in one direction each; a time lock that overflows on the way gives an earlier IN or none; the inductive invariant holds |
| `event_monitor` | `ReadsAreSettled`, `ReadsSeeHandledEvents`, `HandledStayOnChain`, `MonitorInv`, `ImplementsDelivery`, `DeliversAll` | up to four blocks of up to two events, a delay of two blocks, ranges of two; two monitors, a crash; fair | no event is missed, out of order or undone; the contract is read where what was handled can be seen and nothing can be undone; in the end every event is handled; the inductive invariant holds |
| `node_start` | `StartInv`, `RoutesToSameName`, `SharedNamesAreRouted`, `PaysOnlyApproved`, `AdvertisedArePaid` | two chains, up to two tokens each: all lists over two addresses and two names, tokens of one name or one address included, with other decimals on each chain, and a token without decimals; two accounts; any number of starts and pings | the maps fit together; who restarts halfway or with another account misses no approval, and the gateway never hears of a token that lacks one; the inductive invariant holds |
| `reports` | `ReportMatchesTable`, `ReportNeverOverstates`, `ReportsInv`, `PageShowsLatest` | three transfers over both directions, two tokens, every stage of the IN; pages of 3 and 5 lines | any order of the rows gives the sums of the table, some of the rows give no more; nothing newer is missing from a page; the inductive invariant holds |
| `live_crash` | `ClaimedIsCollected` | fair, a crash | **violated**, finding 1 |
| `live_miss` | `UnclaimedIsRefunded` | fair, a missed event | **violated**, finding 2 |
| `hours_timeouts` | `DstTimeoutIsTwoHoursSmaller` | a unit is an hour | **violated**, finding 3 |
| `resent_fee` | `EarnedFeeIsShown` | no faults; fees 0 and 1 for an amount of 2; sent twice | **violated**, finding 4 |

Why these bounds are enough:

* `transfer_in_terms`: one below the width, at and above the limits of the power are all in reach, and so are time
  locks beyond a signed second, those whose duration is beyond a signed nanosecond, and every part of a
  second at both readings of the clock. The second after the eight hours in `InExpiresBeforeOut` is reached.
* `event_monitor`: four blocks with a delay of two let the last two blocks be replaced while the first two are
  fetched, in one range or two; an event may be in the block of another, of its own monitor or the other's; the
  crash may come while monitors are started, between a callback and its position, and between two monitors'
  first starts. A second crash repeats one of these from a state that is already reached.
* `node_start`: whatever a map does to a token it does to one of a pair of chains, and two tokens of a chain are the
  fewest that share a name or an address.
* `reports`: a third transfer is needed for two IN rows on the same pair with a row between them.

`TransferInTerms.cfg` and `Reports.cfg` turn off the deadlock check, for a computation ends.
In every other run the deadlock check is on; time always passes, a monitor polls and a node may exit, so it says little there,
and progress is what the liveness runs are for.

### How many faults eight hours are good for

`TimelyRelay` assumes (`TimelyAssumption`) that no event is missed and that

    DstTimeLockGap > 1 + MaxFaults * RetryTime + TimeLockSafeMargin

Under this assumption `NodeNeverLoses` is proved for every number of transfers. The gap must hold, besides one
retry for every fault: one unit, as the IN can be claimed in the last instant before its own time lock and what comes
of that takes until the clock moves on; and the margin before the OUT's time lock at which the recovery
job gives up (six minutes, `dal.go:290`). The bound is exact in the instances TLC can reach: with a gap equal to the right-hand side
`NodeNeverLoses` is violated (a gap of 1 without a fault, of 2 with one, of 3 with two, of 4 with three, when a
retry takes one unit and the margin none).

In the code's figures a retry takes fifteen minutes and a unit, so eight hours hold 23 faults if everything else the node and
the chains do takes five minutes at most. An outage of hours counts as one fault whose retry takes hours: of two
hours each, they hold two, which is the instance of `timely_two_hours`. That the node and the chains keep up otherwise is not a fact of the
code but what its operation asks for; nothing in the code checks it.

### Fairness

Safety runs use `Spec`, without fairness. `FairSpec` adds what the code's scheduling and
the chains provide:

* weak fairness of every callback: a monitor polls, and calls a callback again until it
  acknowledges;
* weak fairness of each worker as a whole: its ticker keeps waking it;
* strong fairness of each of the recovery worker's queries: it makes the three in turn
  (`server.go:758-760`), so a query whose rows come and go is made again and again, and weak
  fairness of the update of each row it found;
* weak fairness of mining, of the safe block and of the clock.

`FairTimelySpec` asks the same of `TimelyRelay`, and that the clock moves on when all have caught
up. Missed events are left out there: a row whose outcome was missed keeps its worker busy for
ever, and time would stop.

`EventMonitor`'s `FairSpec` asks that the operator starts a node that is down, that the library polls and fetches
(weak fairness of `StartService`, `StartMonitor`, `PollBlock`, `FetchLogs`), and that a callback or a saved position
that may fail does not fail for ever (strong fairness of `CallbackDone` and `Acknowledge`, which a failure
disables for a while). The chain owes no block.

Users owe nothing: nobody is obliged to lock, confirm or refund anything.

### Findings

1. `live_crash`: a node that dies between marking an OUT `CONFIRM_PENDING`
   (`server.go:867`) and submitting its confirmation (873), and is not up again in time,
   leaves the row where no query finds it once the time lock is less than six minutes away
   (`dal.go:290`). The contract would accept the preimage until the user refunds. The
   README of the repository (line 354) says it picks such transfers up.
2. `live_miss`: an IN whose `LogNewTransferIn` is missed is picked up only while its time
   lock is ahead; after that its row is never `LOCKED`, and only `LOCKED` rows are refunded.
   README line 349 says the node cancels an unclaimed IN after the deadline.
3. `hours_timeouts`: the IN's time lock is 8 hours earlier; the comment says 2.
4. `resent_fee`: a transferIn that is still in the pool when its row is taken up again is mined with the amount of the
   first try, while the row holds the fee of the second (`server.go:818`). No event corrects the row, and the
   summary adds up the rows' fees: the "earned fee" of the stats the README describes (lines 223 to 239) is then not
   what was earned. What holds is `OneFeeCharged`: the user is charged the fee of one of the tries.

## The proofs

`tlapm` checks every theorem to the last leaf. Every invariant, action property and refinement that a passing run
checks is also the statement of a theorem; what stays with TLC is named at the end of this section.

### The relay

These hold for any number of transfers
(finite or not), any amounts and time locks and any number of faults of all kinds, under
the assumptions named in `Bridge`: OUTs and INs have different ids; the id of an IN is
computed from the OUT's event and includes the hash lock, so the two share it (a hash lock is
identified with its only preimage); amounts, fees and times are natural numbers; the IN's
time lock is not earlier than the least time an OUT must have left (8 hours against 16); and
ages are counted further than the retry period.

| Theorem | Property |
|---|---|
| `TypeCorrect` | `TypeOK` |
| `RowsFollowContracts` | `StatusMatchesChain` |
| `SettledRowsAreFinal` | `SettledRowsStay` (an action property) |
| `InsAreBacked` | `InIsBacked` |
| `AmountsConserved` | `AmountConserved` |
| `OneFeeIsCharged` | `OneFeeCharged` |
| `NodeConfirmsOnlyRevealed` | `ConfirmedByNodeOnlyIfRevealed` |
| `PreimagesAreKept` | `PreimageKept`, if no event is missed |
| `RefundsOnlyUnclaimed` | `RefundOnlyUnclaimed` |
| `InvariantHolds` | `IInv`, the inductive invariant |
| `RelayImplementsSwap` | `ImplementsAtomicSwap`, the refinement |
| `TimelyInvHolds` | `TimelyInv`, the inductive invariant of a node that keeps up |
| `TheNodeNeverLoses` | `NodeNeverLoses`, of a node that keeps up |

None of the properties is inductive. `IInv` is the conjunction of

* `TypeInv`: types, and two facts they depend on: a worker in the middle of a row is at a
  transfer of its kind, and a callback about to insert an IN has checked the OUT's time lock;
* `RowsInv`: rows at hand exist, and name a transfer;
* `StatusInv`: the safe block follows the head and outcomes are final; what a worker is about
  to record it has seen. This gives `StatusMatchesChain`;
* `PairsInv`: the two rows of a pair name each other (for a shared IN, one of the OUTs), carry
  the time locks and amounts of the pair, and chains and pools hold only INs there is a row
  for. This gives `InIsBacked` and `AmountConserved`;
* `PreimageInv`: a preimage in a row is the right one and was published by one of the pair,
  and what a worker is about to confirm it has the preimage for. This gives
  `ConfirmedByNodeOnlyIfRevealed`;
* `RefundsExpired`: what the refund worker holds has passed its time lock, and when it is about
  to submit, the OUT was not confirmed in time. This gives `RefundOnlyUnclaimed`.

The parts are proved one on top of the other, each preserved by every action given those
before it. `OneFeeCharged` needs to know that the row of an IN
about to be submitted holds a fee the gateway has named (`FeeAtHand`); what is in the pool or mined was such a row once
and is not touched when the row changes. `SettledRowsStay` follows from `StatusMatchesChain` before and after a step, as
outcomes at the safe block are final: whatever a stale worker writes, it has seen it there.
`PreimageKept` is preserved given the parts of `IInv` up to `PreimageInv`, because an event is
acknowledged only by the second of the callback's two updates. It fails, as it must, if events can be
missed; the theorem assumes `"miss"` is not among `FaultKinds`.

*The refinement.* `RelayImplementsSwap` needs one more invariant, `OutsOnTime`: an OUT has its
user's time lock and was not refunded earlier. The step that matters is `MineTransferIn`. The
transaction was built from a row (`InsKnown`) that is paired with a final OUT (`InsPaired`,
`OutsPaired`), so the OUT was locked; the contract accepts it only before the IN's time lock,
which is the OUT's less the gap, so by `OutsOnTime` the OUT is not refunded. Every other step
of the contracts settles a transfer; every step of the node alone is a stutter, because rows
keep their related id (`RowsStay`).

*A node that keeps up.* It is a relay node whose clock sometimes waits (`TimelyIsRelayNode`), so all of the above
holds of it. Its theorems need `TimelyAssumption` besides (see "How many faults eight hours are
good for"). `TimelyInv` says what the rows and contracts of OUTs hold, that a row is `CONFIRM_PENDING` only with a
preimage, that an IN whose event is acknowledged has left `TRANSFER_IN_PENDING`, and gives a deadline to what is at stake.

An IN is *at stake* when it has been locked, is not refunded, and its OUT is not confirmed. Everything at
stake ends at `Latest(i)`: one unit after the IN's time lock and one retry for every fault so far. `StakesEndInTime` says that the
clock is not past it, that the OUT is not refunded, and that a row waiting for a retry with nothing under way has
time enough to grow old (`now + RetryTime <= Latest(i) + age`). A row comes to wait like that only by a fault, and the
fault moves the deadline by the very time the wait takes (`RefundWaited`, `ConfirmWaited`, `StakesUntimed`). The clock, in turn, moves on
only if something at stake waits for a retry or the IN's time lock is still ahead; in each case the
next instant is within the deadline (`StakesTick`). By `TimelyAssumption` the deadline is before the OUT's time lock
(`LatestBeforeOut`), before which nobody can refund the OUT. An IN that is still in a pool, once or twice, is not at
stake: when it is mined, its contract has the time lock the deadline counts from.

### The start of the node

For every configuration (any number of chains and tokens, names and addresses shared or not), every set of accounts
and any number of starts, given that a chain is configured once and under the id its endpoint reports, and that an address
listed twice on a chain has the same decimals (`ConfigsAssumption`):

| Theorem | Property |
|---|---|
| `StartInvHolds` | `StartInv`, the inductive invariant |
| `RoutedToSameName` | `RoutesToSameName` |
| `SharedNamesAreAlwaysRouted` | `SharedNamesAreRouted` |
| `RoutedAreApproved` | `PaysOnlyApproved` |
| `AdvertisedAreAlwaysPaid` | `AdvertisedArePaid` |

The properties speak of a running node and the gateway; what makes them true is what `Init`'s walk has done when it is at some
token. `StartInv` says that the maps hold the tokens that were walked through, and no other
(`RememberedAreMapped`, `MappedAreRemembered`), that all of these are approved (`FinishedAreApproved`), that a chain
is mapped only when all its tokens are through (`ChainsMapped`), and that the account is the keystore's
and a token waited for has its approval in the pool or mined (`StartedWithKeystore`). Only types and what the gateway was told survive an exit.

### The events

For every chain, delay, range, number of monitors and of crashes:

| Theorem | Property |
|---|---|
| `MonitorInvHolds` | `MonitorInv`, the inductive invariant |
| `HandledAlwaysStay` | `HandledStayOnChain` |
| `ReadsAreAlwaysSettled` | `ReadsAreSettled`, the wrapped-around subtraction included |
| `ReadsAlwaysSeeHandled` | `ReadsSeeHandledEvents` |
| `MonitorsDeliver` | `ImplementsDelivery`, the refinement |

assuming that the block delay is at least one and that block numbers do not reach 2^64 less the delay. `MonitorInv` says
that what is fetched, handled, or behind a cursor is settled, a first cursor excepted (`FetchedAreSettled`, `HandledAreSettled`,
`CursorsSettled`); that monitors were started before the workers could cause an event (`StartedFirst`); and that every event
behind a cursor is handled, and every event behind a fetch handled or queued (`NonePassedOver`). The last is what makes the refinement work: a
callback's event is the first of its queue, so all before it have been handled.

### The terms of an IN

For all amounts, decimals, time locks, widths and units, and every clock within signed seconds
(`ConversionAssumption`, `TermsAssumption`):

| Theorem | Property |
|---|---|
| `TermsInvHolds` | `TermsInv`, the inductive invariant |
| `TypesAreKept` | `TypeOK` |
| `AlwaysConvertedExactly` | `ConvertedExactly` |
| `NeverPanicsWithinWidth` | `PanicsOnlyPastWidth` |
| `OverflowsToOneSide` | `OverflowHasOneSide` |
| `InAlwaysExpiresBeforeOut` | `InExpiresBeforeOut` |
| `InNeverExpiresEarlier` | `InExpiresNoEarlier` |

The invariant of the loop is that the power is the low bits of ten to the counter. Ten to the `n` is defined
recursively, and facts about it need induction; the library states induction with an operator, which the provers cannot instantiate, so
`Induct` states it for a *set* of numbers and is proved from the least number outside it. That the division does not
panic is number theory: ten to less than `Width` is no multiple of 2^`Width` (`TenIsNoMultiple`, by induction: half of such a
multiple would be one of half the power). A power that overflowed has lost a multiple of 2^`Width`, so it is smaller than it
should be; a product with it is too small and a quotient too large (`SmallerDivisor`), and no property promises that the latter does not
happen to a node configured with decimals that differ by twenty or more. The two theorems on time locks go through the conversions one by one
(`SignedIs`, `TimeoutIs`, `RoundedIs`, `RowTimeLock`): each yields its argument or one that is less by a
multiple of its range, so what overflows is too early and never too late.

### The pages

For any finite tables in which every IN has its OUT, and a transfer one row of each type (`TablesAssumption`):

| Theorem | Property |
|---|---|
| `SummariesSumUpTheCounted` | `ReportsInv`, the inductive invariant |
| `ReportsMatchTheTable` | `ReportMatchesTable` |
| `ReportsNeverOverstate` | `ReportNeverOverstates` |
| `PagesShowTheLatest` | `PageShowsLatest` |

`ReportMatchesTable` speaks of the last row only. `ReportsInv` says it of every row: the summaries are those of the rows
counted so far, and there is one for every pair of chains an OUT *or an IN that was sent* has been about; that the INs
make none of their own in the end is the assumption that they have OUTs. That a row adds its amount to the sum
whatever has been counted before is a fact about folds over sets: the community modules' fold takes the elements in an order `CHOOSE` fixes,
and `SumsAre` shows that any element may be taken first. It, and that there are such sums at all, is an induction over finite sets,
again stated with a set (`SubsetInduction`) and taken from the well-foundedness of inclusion.

### Only model-checked

* The liveness properties `UnclaimedIsRefunded`, `ClaimedIsCollected` and `DeliversAll`: liveness under fairness is out of
  the prover's reach.
* That each of the assumptions above holds of some instance: TLC evaluates them in the runs.
* The four violations.

## Not modelled, and why

* Reorganisations deeper than the block delay; the code ignores them as well. `StartBlock` itself is not
  settled when it is saved (`server.go:303`); `EventMonitor` promises a user's event only from there on.
* Endpoints that lag behind others or answer a request for logs incompletely; `RelayNode` has the events
  missed that way. The library's second delay, `forwardBlockDelay`, is taken as 0, its default; the README of the
  repository recommends 500 for Arbitrum (lines 204 and 205).
* A transaction that is broadcast although the client reports an error is treated as not
  submitted. (`confirm` and `refund` are harmless when repeated, `transferIn` is refused by the
  contract.)
* Users' choices that make the node skip an event before it writes anything: another
  receiver, an unknown chain, or a token `TokenRouting` does not route.
* A negative fee: the gateway is trusted with it, `Fees` is a set of natural numbers.
* Fee rates, signatures, and the answer of a ping, a map of gas prices nothing reads; the node's name and version.
* The text of the pages, and columns that are converted to and from hexadecimal strings; the range of
  instants the column can hold, beyond which an insert fails for ever.
* A chain configured under another id than its endpoint reports; approvals that are
  mined and fail; a keystore exchanged while the node starts (`NodeStart` assumes none of these).
* What nothing calls: `UpsertMonitorBlock`, `SetTransferPreimage`, `GetTransferByRelatedTid`, `getRandomPreImage`.
* ABI packing, parsing, dialling, logging; the rest of the generated code, which is most of it.

Two disagreements are noted and not checked. The comment on
`PingRequest.eth_addr` says "no 0x prefix" (`gatewayrpc/gateway_rpc.pb.go:183`), and the node
sends the address with it (`server.go:679`), which is about a format alone. The comment at `dal.go:267` speaks of an IN
pending for an hour, and the constant is fifteen minutes (`dal.go:19`); the models have it as `RetryAfter`.

## Plan

1. Core: `Bridge`, `TransferTable`, `CBridgeChain`, `RelayNode`, its invariant and proofs,
   `AmountConversion`. *Done.*
2. `AtomicSwap` and the refinement, checked and proved; `TimelyRelay` for what the eight hours
   are good for. *Done.*
3. `TokenRouting`, `GatewayClient`, `NodeStart`: the start of the node and its pings. *Done.*
4. `EventDelivery`, `EventMonitor`: the cursor and the safe block. *Done.*
5. `TransferInTerms`: the time lock through its conversions. *Done.*
6. `Reports`: both pages. *Done.*
7. Proofs of every safety property and both refinements, for all values of the constants. *Done.*
