------------------------------ MODULE RelaySwap ------------------------------
(***************************************************************************)
(* RelayNode implements AtomicSwap.  The contracts at the head of the      *)
(* chains are the abstract state; which OUT an IN was locked against is    *)
(* what the node's row of the IN says of it.                               *)
(***************************************************************************)
EXTENDS RelayNodeInvariants

OutView == [o \in TransferOuts |-> cstatus[o]]
InView == [i \in TransferIns |-> cstatus[i]]
Backing == [i \in TransferIns |-> IF cstatus[i] = "Undefined" THEN NoTid ELSE relatedTid[i]]

Swap == INSTANCE AtomicSwap WITH out <- OutView, in <- InView, backing <- Backing, paid <- camount

\* Whatever the monitors, the workers and the faults do, the contracts see no
\* more than an atomic swap: in particular, no retry, stale read or lost event
\* makes the node lock an IN without an OUT, for more than the OUT or too late.
ImplementsAtomicSwap == Swap!Spec

\* An OUT has the time lock its user chose, and was not refunded any earlier.
\* That the OUT of an IN which can still be locked is not refunded depends on it.
OutsOnTime ==
    \A o \in TransferOuts :
       /\ cstatus[o] # "Undefined" => ctimelock[o] = OutTimeLock[o]
       /\ cstatus[o] = "Refunded" => OutTimeLock[o] <= now
=============================================================================
