-------------------------- MODULE AmountConversion --------------------------
(***************************************************************************)
(* What an OUT is worth in units of the destination token: the loop in the *)
(* callback of LogNewTransferOut (server/server.go) that raises ten to the *)
(* difference of the two tokens' decimals.                                 *)
(*                                                                         *)
(* The amounts are big integers and exact.  The power is an unsigned       *)
(* integer of 64 bits and wraps around: it fits up to a difference of 19   *)
(* decimals, and is zero from a difference of 64 on, where the division    *)
(* panics.  Width is a parameter here, so that all three cases are within  *)
(* reach; nothing but the width distinguishes a power that fits.           *)
(***************************************************************************)
EXTENDS Integers

CONSTANTS
    Amounts,    \* amounts users lock, in units of the source token
    Decimals,   \* decimals a token may be configured with; Init requires > 0
    Width       \* bits of the power: 64

ASSUME ConversionAssumption ==
    /\ Amounts \subseteq Nat
    /\ Decimals \subseteq Nat \ {0}
    /\ Width \in Nat \ {0}

\* How many numbers the power can be: 2^Width.
TwoTo[n \in Nat] == IF n = 0 THEN 1 ELSE 2 * TwoTo[n - 1]

Word == TwoTo[Width]

VARIABLES
    srcAmount, srcDecimal, dstDecimal,  \* of the event and the configuration
    p,          \* the power so far
    i,          \* the loop's counter
    dstAmount,  \* the result
    stage       \* "loop", "done" or "panic"

vars == <<srcAmount, srcDecimal, dstDecimal, p, i, dstAmount, stage>>

Shrinks == srcDecimal > dstDecimal
Gap == IF Shrinks THEN srcDecimal - dstDecimal ELSE dstDecimal - srcDecimal

TypeOK ==
    /\ srcAmount \in Amounts
    /\ srcDecimal \in Decimals
    /\ dstDecimal \in Decimals
    /\ p \in 0 .. Word - 1
    /\ i \in 0 .. Gap
    /\ dstAmount \in Nat
    /\ stage \in {"loop", "done", "panic"}

Init ==
    /\ srcAmount \in Amounts
    /\ srcDecimal \in Decimals
    /\ dstDecimal \in Decimals
    /\ p = 1
    /\ i = 0
    /\ dstAmount = srcAmount
    /\ stage = "loop"

\* The value the power stands for.
TenTo[n \in Nat] == IF n = 0 THEN 1 ELSE 10 * TenTo[n - 1]

\* Fault: the loop runs once more than the decimals differ.
OneMoreDigit == i <= Gap

MoreDigits == i < Gap

Multiply ==
    /\ stage = "loop"
    /\ MoreDigits
    /\ p' = (p * 10) % Word
    /\ i' = i + 1
    /\ UNCHANGED <<srcAmount, srcDecimal, dstDecimal, dstAmount, stage>>

\* big.Int's Div panics on a zero divisor.
Convert ==
    /\ stage = "loop"
    /\ ~ MoreDigits
    /\ \/ /\ Shrinks /\ p = 0
          /\ stage' = "panic"
          /\ UNCHANGED dstAmount
       \/ /\ Shrinks /\ p # 0
          /\ dstAmount' = srcAmount \div p
          /\ stage' = "done"
       \/ /\ ~ Shrinks
          /\ dstAmount' = srcAmount * p
          /\ stage' = "done"
    /\ UNCHANGED <<srcAmount, srcDecimal, dstDecimal, p, i>>

Next == Multiply \/ Convert

Spec == Init /\ [][Next]_vars

-----------------------------------------------------------------------------
\* What the loop and the division behind it have done, at every point: the power
\* is the low bits of ten to the counter, and the result is made from the last.
LoopInv ==
    /\ TypeOK
    /\ p = TenTo[i] % Word
    /\ stage # "loop" => i = Gap
    /\ stage = "panic" => Shrinks /\ p = 0
    /\ stage = "done" =>
          IF Shrinks THEN p # 0 /\ dstAmount = srcAmount \div p
                     ELSE dstAmount = srcAmount * p

PowerFits == TenTo[Gap] < Word

\* While the power fits, the result is the amount the source amount is worth,
\* rounded down by less than one unit of the destination token.
ConvertedExactly ==
    stage = "done" /\ PowerFits =>
       IF Shrinks
       THEN /\ dstAmount * TenTo[Gap] <= srcAmount
            /\ srcAmount < (dstAmount + 1) * TenTo[Gap]
       ELSE dstAmount = srcAmount * TenTo[Gap]

\* The callback panics only on a difference of decimals as large as the width:
\* ten to any less is no multiple of 2^Width.
PanicsOnlyPastWidth == stage = "panic" => Gap >= Width

\* For all decimals, also those that overflow: a power that wraps around only gets
\* smaller.  With more decimals on the destination chain the user is never paid more
\* than the OUT is worth; with fewer never less, and what is paid beyond the OUT's
\* worth comes out of the node's pocket.
OverflowHasOneSide ==
    stage = "done" =>
       IF Shrinks THEN dstAmount >= srcAmount \div TenTo[Gap]
                  ELSE dstAmount <= srcAmount * TenTo[Gap]
=============================================================================
