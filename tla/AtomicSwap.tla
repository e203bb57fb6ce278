------------------------------ MODULE AtomicSwap ------------------------------
(***************************************************************************)
(* What a relay node promises, said of the contracts alone: there are no   *)
(* rows, workers, events, pools or safe blocks here.  The node locks an IN *)
(* only against an OUT that is locked and cannot have been refunded, for   *)
(* at most what the OUT brings, and so that the IN can be refunded         *)
(* DstTimeLockGap before the OUT can.  RelaySwap states that RelayNode     *)
(* implements this module.                                                 *)
(***************************************************************************)
EXTENDS Integers

CONSTANTS
    TransferOuts, TransferIns, RelatedIn, OutTimeLock, DstAmount, DstTimeLockGap, NoTid, Horizon

VARIABLES
    now,      \* the clock
    out,      \* status of every OUT
    in,       \* status of every IN
    backing,  \* the OUT an IN was locked against
    paid      \* the amount of an IN

vars == <<now, out, in, backing, paid>>

Init ==
    /\ now = 0
    /\ out = [o \in TransferOuts |-> "Undefined"]
    /\ in = [i \in TransferIns |-> "Undefined"]
    /\ backing = [i \in TransferIns |-> NoTid]
    /\ paid = [i \in TransferIns |-> 0]

InDeadline(o) == OutTimeLock[o] - DstTimeLockGap

LockOut(o) ==
    /\ out[o] = "Undefined"
    /\ now < OutTimeLock[o]
    /\ out' = [out EXCEPT ![o] = "Pending"]
    /\ UNCHANGED <<now, in, backing, paid>>

LockIn(i, o) ==
    /\ in[i] = "Undefined"
    /\ RelatedIn[o] = i
    /\ out[o] \in {"Pending", "Confirmed"}
    /\ now < InDeadline(o)
    /\ in' = [in EXCEPT ![i] = "Pending"]
    /\ backing' = [backing EXCEPT ![i] = o]
    /\ \E amount \in 1 .. DstAmount[o] : paid' = [paid EXCEPT ![i] = amount]
    /\ UNCHANGED <<now, out>>

SettleOut(o, outcome) ==
    /\ out[o] = "Pending"
    /\ outcome = "Refunded" => OutTimeLock[o] <= now
    /\ out' = [out EXCEPT ![o] = outcome]
    /\ UNCHANGED <<now, in, backing, paid>>

SettleIn(i, outcome) ==
    /\ in[i] = "Pending"
    /\ outcome = "Refunded" => InDeadline(backing[i]) <= now
    /\ in' = [in EXCEPT ![i] = outcome]
    /\ UNCHANGED <<now, out, backing, paid>>

TimePasses ==
    /\ now < Horizon
    /\ now' = now + 1
    /\ UNCHANGED <<out, in, backing, paid>>

Next ==
    \/ \E o \in TransferOuts : LockOut(o)
    \/ \E i \in TransferIns, o \in TransferOuts : LockIn(i, o)
    \/ \E o \in TransferOuts, outcome \in {"Confirmed", "Refunded"} : SettleOut(o, outcome)
    \/ \E i \in TransferIns, outcome \in {"Confirmed", "Refunded"} : SettleIn(i, outcome)
    \/ TimePasses

Spec == Init /\ [][Next]_vars
=============================================================================
