--------------------------- MODULE TransferInTerms ---------------------------
(***************************************************************************)
(* The terms of an IN: after the amount (AmountConversion), the time lock, *)
(* from the event of the OUT through the row of the IN to the transaction  *)
(* the send worker submits (server/server.go).                             *)
(*                                                                         *)
(* The contracts count unsigned seconds of 64 bits.  The callback computes *)
(* with signed seconds and with durations of signed nanoseconds, both of   *)
(* 64 bits, and with a clock that has nanoseconds; the column rounds to    *)
(* microseconds; the worker cuts the rest off again.  The width and the    *)
(* units are parameters.  An instant is counted in nanoseconds; of the     *)
(* range of instants only the part a duration reaches from now is used.    *)
(***************************************************************************)
EXTENDS AmountConversion

CONSTANTS
    Int64,           \* 2^63: what a signed integer stays below
    Second,          \* nanoseconds in a second
    Microsecond,     \* nanoseconds in the unit of the column
    MinSrcTimeout,   \* 16 hours
    DstTimeLockGap,  \* 8 hours
    SendMargin,      \* 1 hour
    Clock,           \* instants the node's clock may show
    NoLock

ASSUME TermsAssumption ==
    /\ Int64 \in Nat \ {0}
    /\ Microsecond \in Nat \ {0} /\ Second \in Nat \ {0} /\ Second % Microsecond = 0
    /\ MinSrcTimeout \in Nat /\ DstTimeLockGap \in 0 .. MinSrcTimeout
    /\ SendMargin \in Nat
    /\ Clock \subseteq Nat
    /\ \A now \in Clock : now \div Second < Int64

VARIABLES
    timelock,   \* of the OUT's event, in seconds
    tsNow,      \* the clock as the callback begins
    inTimeLock, \* the instant in the row of the IN
    sent        \* the seconds in the transaction that locks the IN

termVars == <<timelock, tsNow, inTimeLock, sent>>

TermsInit ==
    /\ Init
    /\ timelock \in 0 .. 2 * Int64 - 1
    /\ tsNow \in Clock
    /\ inTimeLock = NoLock
    /\ sent = NoLock

Signed(x) == ((x + Int64) % (2 * Int64)) - Int64

Unsigned(x) == x % (2 * Int64)

Unix(instant) == instant \div Second

Rounded(instant) == ((instant + Microsecond \div 2) \div Microsecond) * Microsecond

\* Fault: the present second counts as one that is still to come.
TimeoutRoundedUp == Signed(Signed(timelock) - Unix(tsNow)) + 1

\* Fault: the present second counts as one that has passed.
TimeoutRoundedDown == Signed(Signed(timelock) - Unix(tsNow)) - 1

Timeout == Signed(Signed(timelock) - Unix(tsNow))

\* A number of seconds as a duration, which may be too long for its type.
Duration(seconds) == Signed(seconds * Second)

Chain2TimeLock == tsNow + Duration(Timeout - DstTimeLockGap)

\* The row of the IN is inserted, unless the time left is too short.
SaveIn ==
    /\ stage = "done"
    /\ inTimeLock = NoLock
    /\ Timeout >= MinSrcTimeout
    /\ inTimeLock' = Rounded(Chain2TimeLock)
    /\ UNCHANGED <<vars, timelock, tsNow, sent>>

\* Fault: a row is sent whether or not it is due within the margin.
SendDue(now) ==
    /\ inTimeLock # NoLock
    /\ sent = NoLock
    /\ now >= tsNow
    /\ sent' = Unsigned(Unix(inTimeLock))
    /\ UNCHANGED <<vars, timelock, tsNow, inTimeLock>>

\* The worker takes a row that is not due within the margin.
SendIn(now) ==
    /\ inTimeLock # NoLock
    /\ sent = NoLock
    /\ now >= tsNow
    /\ inTimeLock > now + SendMargin * Second
    /\ sent' = Unsigned(Unix(inTimeLock))
    /\ UNCHANGED <<vars, timelock, tsNow, inTimeLock>>

TermsNext ==
    \/ Next /\ UNCHANGED termVars
    \/ SaveIn
    \/ \E now \in Clock : SendIn(now)

TermsSpec == TermsInit /\ [][TermsNext]_<<vars, termVars>>

-----------------------------------------------------------------------------
\* The row and the transaction carry the terms computed as the callback began, and
\* the transaction was signed well before the row was due.
TermsInv ==
    /\ LoopInv
    /\ timelock \in 0 .. 2 * Int64 - 1
    /\ tsNow \in Clock
    /\ inTimeLock # NoLock =>
          Timeout >= MinSrcTimeout /\ inTimeLock = Rounded(Chain2TimeLock)
    /\ sent # NoLock =>
          /\ inTimeLock # NoLock
          /\ sent = Unsigned(Unix(inTimeLock))
          /\ \E now \in Clock : now >= tsNow /\ inTimeLock > now + SendMargin * Second

\* Whatever time lock the OUT has, also one that overflows on the way, the IN is
\* locked for no longer than the OUT less the eight hours, and the one second
\* that rounding the present instant may add.
InExpiresBeforeOut == sent # NoLock => sent <= timelock - DstTimeLockGap + 1

\* An IN loses no time either: as long as its duration can be expressed, it is
\* locked as long as it may be.
InExpiresNoEarlier ==
    sent # NoLock /\ timelock * Second < Int64 => sent >= timelock - DstTimeLockGap
=============================================================================
