----------------------------- MODULE MCNodeStart -----------------------------
(***************************************************************************)
(* Every configuration of two chains with up to two tokens each.  The same *)
(* two addresses are used on both chains, with other decimals.  Nothing    *)
(* tells the names apart, so the first token of chainA is USDC.            *)
(***************************************************************************)
EXTENDS NodeStart

CONSTANTS chainA, chainB, addr1, addr2, USDC, DAI, acct1, acct2

Decimal(c, a) == IF c = chainA THEN 6 ELSE IF a = addr1 THEN 18 ELSE 8

Listed(c) == {[addr |-> a, name |-> n, decimal |-> Decimal(c, a)] : a \in Addrs, n \in Names}

Invalid == [addr |-> addr1, name |-> USDC, decimal |-> 0]

TokenLists(c) ==
    {<<>>, <<Invalid>>} \union {<<t>> : t \in Listed(c)} \union {<<s, t>> : s, t \in Listed(c)}

TwoChains ==
    {<<[chainId |-> chainA, endpointId |-> chainA, tokens |-> a],
       [chainId |-> chainB, endpointId |-> chainB, tokens |-> b]>> :
         a \in {list \in TokenLists(chainA) : list # <<>> => Head(list).name = USDC},
         b \in TokenLists(chainB)}
=============================================================================
