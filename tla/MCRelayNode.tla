----------------------------- MODULE MCRelayNode -----------------------------
(***************************************************************************)
(* Small instances of RelayNode.  One unit of time stands for about four   *)
(* hours, unless the configuration says otherwise.  With an OUT that       *)
(* expires at 5, an IN that expires at 3 and 6 as the last time that is    *)
(* counted, an OUT may be locked too late, an IN be sent at its margin,    *)
(* expire before or after it is mined, and be refunded before the OUT is.  *)
(***************************************************************************)
EXTENDS RelaySwap, TLC

CONSTANTS out1, out2, in1, secret1

OneRelatedIn == out1 :> in1
OneHashLock == (out1 :> secret1) @@ (in1 :> secret1)
OneOutTimeLock == out1 :> 5
OneDstAmount == out1 :> 2

EarlierOutTimeLock == out1 :> 4

\* Two users lock OUTs under one hash lock for one destination address.
SharedRelatedIn == (out1 :> in1) @@ (out2 :> in1)
SharedHashLock == OneHashLock @@ (out2 :> secret1)
SharedOutTimeLock == (out1 :> 2) @@ (out2 :> 2)
SharedDstAmount == (out1 :> 3) @@ (out2 :> 1)

\* In hours: an OUT locked for a day.
HoursRelatedIn == OneRelatedIn
HoursHashLock == OneHashLock
HoursOutTimeLock == out1 :> 24
HoursDstAmount == OneDstAmount

-----------------------------------------------------------------------------
\* What a comment in the code and the README say.

\* server.go, at the IN's time lock: "dst timeout should be 2 hour smaller than
\* src".  In hours.
DstTimeoutIsTwoHoursSmaller ==
    \A i \in TransferIns : HasRow(i) => timelock[i] = timelock[relatedTid[i]] - 2

\* README.md, "Query Relay Node Stats": the stats show the "earned fee".  They add up
\* the fees in the rows of the INs that are confirmed; the node earned the difference
\* between what the OUT brought and what the contract locked for the IN.
EarnedFeeIsShown ==
    \A i \in TransferIns :
       status[i] = "CONFIRMED" => fee[i] = DstAmount[relatedTid[i]] - camount[i]
=============================================================================
