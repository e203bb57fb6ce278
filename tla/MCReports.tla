------------------------------ MODULE MCReports ------------------------------
(***************************************************************************)
(* Three transfers on two chains: the first two in every direction, with   *)
(* either token and at every stage the IN may be, the third confirmed.     *)
(* Amounts and fees are distinct powers of two, so no sum is right by luck.*)
(* Two transfers were created at the same time, and one before them.       *)
(***************************************************************************)
EXTENDS Reports

CONSTANTS c1, c2, usdc, dai

Created(id) == IF id = 1 THEN 1 ELSE 2

OutRow(id, src, dst, t) ==
    [id |-> id, type |-> "OUT", status |-> "LOCKED", chain |-> src, related |-> dst,
     token |-> t, amount |-> 1000, fee |-> 0, created |-> Created(id)]

InRow(id, src, dst, t, status) ==
    [id |-> id, type |-> "IN", status |-> status, chain |-> dst, related |-> src,
     token |-> t, amount |-> 2^id, fee |-> 2^(id + 3), created |-> Created(id)]

Pair(id, src, dst, t, status) == {OutRow(id, src, dst, t), InRow(id, src, dst, t, status)}

Stages == {"START", "PENDING", "LOCKED", "REFUNDED", "CONFIRMED"}

Pairs(id) == {Pair(id, route[1], route[2], t, status) :
                 route \in {<<c1, c2>>, <<c2, c1>>}, t \in Tokens, status \in Stages}

SmallTables ==
    {a \union b \union Pair(3, c1, c2, usdc, "CONFIRMED") : a \in Pairs(1), b \in Pairs(2)}
=============================================================================
