--------------------------- MODULE MCEventMonitor ---------------------------
(* Two monitors, started in the order of the code: two OUTs of users and the *)
(* IN of the node, on blocks that hold up to two events.                     *)
EXTENDS EventMonitor, TLC

CONSTANTS out1, out2, in1

TwoMonitors == <<"LogNewTransferOut", "LogNewTransferIn">>

NameOf == (out1 :> TwoMonitors[1]) @@ (out2 :> TwoMonitors[1]) @@ (in1 :> TwoMonitors[2])

TwoBehind == [blockDelay |-> 2, maxBlockDelta |-> 2]

SomeBlocks == {<<>>, <<out1>>, <<in1>>, <<out1, out2>>, <<in1, out2>>}
=============================================================================
