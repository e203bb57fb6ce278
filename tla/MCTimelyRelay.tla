---------------------------- MODULE MCTimelyRelay ----------------------------
EXTENDS TimelyRelay, TLC

CONSTANTS out1, in1, secret1

OneRelatedIn == out1 :> in1
OneHashLock == (out1 :> secret1) @@ (in1 :> secret1)
OneOutTimeLock == out1 :> 10
OneDstAmount == out1 :> 2
=============================================================================
