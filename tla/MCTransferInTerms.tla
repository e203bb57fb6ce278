-------------------------- MODULE MCTransferInTerms --------------------------
(***************************************************************************)
(* A power of 7 bits: it fits up to a difference of 2 decimals, wraps      *)
(* around up to one of 6, and is zero from 7 on.  Signed integers of 6     *)
(* bits, seconds of four nanoseconds and microseconds of two: time locks   *)
(* overflow as seconds and as durations, and the clock shows every part of *)
(* a second.                                                               *)
(***************************************************************************)
EXTENDS TransferInTerms

\* Around the powers of ten, so that rounding is seen at both of its edges.
SomeAmounts == {0, 1, 9, 10, 11, 99, 100, 101, 200}
SomeDecimals == 1 .. 8
TwoSeconds == 4 .. 11
=============================================================================
