---------------------------- MODULE TokenRouting ----------------------------
(***************************************************************************)
(* Which token of the destination chain stands for a token of the source   *)
(* chain: the configuration, the maps Init fills from it                   *)
(* (server/server.go), and the lookups the callback of LogNewTransferOut   *)
(* makes in them.  NodeStart says when Init does what.                     *)
(*                                                                         *)
(* Some maps are keyed by the chain id in the configuration and others by  *)
(* the one the chain's endpoint reports.  Left out: fee rates, gas tokens  *)
(* and the settings of transactions.                                       *)
(***************************************************************************)
EXTENDS Integers, Sequences

CONSTANTS
    ChainIds, Addrs, Names,
    NoName, NoAddr,   \* what a map does not hold
    Configs           \* the configurations the node may be started with

TokenConfigs == [addr : Addrs, name : Names, decimal : Nat]

\* endpointId is not configured: it is the chain id the configured endpoint reports.
ChainConfigs == [chainId : ChainIds, endpointId : ChainIds, tokens : Seq(TokenConfigs)]

CBridgeConfigs == Seq(ChainConfigs)

(* A chain is configured once and under the id its endpoint reports, and an *)
(* address that is listed twice on one chain has the same decimals.         *)
ASSUME ConfigsAssumption ==
    /\ NoName \notin Names /\ NoAddr \notin Addrs
    /\ \A cfg \in Configs :
       /\ cfg \in CBridgeConfigs
       /\ \A k \in DOMAIN cfg :
          /\ cfg[k].endpointId = cfg[k].chainId
          /\ \A i, j \in DOMAIN cfg[k].tokens :
                cfg[k].tokens[i].addr = cfg[k].tokens[j].addr
                   => cfg[k].tokens[i].decimal = cfg[k].tokens[j].decimal
       /\ \A k, l \in DOMAIN cfg : cfg[k].endpointId = cfg[l].endpointId => k = l

VARIABLES
    config,      \* of this node
    chainMap,    \* by reported id: which chain of the configuration, 0 if none
    nameMap,     \* by configured id: the names of tokens
    decimalMap,  \* by configured id: the decimals of tokens, 0 if unknown
    addrMap      \* by reported id: the tokens by their names

maps == <<chainMap, nameMap, decimalMap, addrMap>>

NoChains == [c \in ChainIds |-> 0]
NoNames == [c \in ChainIds |-> [a \in Addrs |-> NoName]]
NoDecimals == [c \in ChainIds |-> [a \in Addrs |-> 0]]
NoAddrs == [c \in ChainIds |-> [n \in Names |-> NoAddr]]

\* NewServer
MapsInit ==
    /\ chainMap = NoChains
    /\ nameMap = NoNames
    /\ decimalMap = NoDecimals
    /\ addrMap = NoAddrs

ForgetMaps ==
    /\ chainMap' = NoChains
    /\ nameMap' = NoNames
    /\ decimalMap' = NoDecimals
    /\ addrMap' = NoAddrs

-----------------------------------------------------------------------------
\* Init, at token t of chain c of the configuration

RememberToken(c, t) ==
    /\ nameMap' = [nameMap EXCEPT ![c.chainId][t.addr] = t.name]
    /\ decimalMap' = [decimalMap EXCEPT ![c.chainId][t.addr] = t.decimal]

\* Fault: the map of a chain is made anew for every token.
RememberOnlyAddr(c, t) ==
    addrMap' = [addrMap EXCEPT ![c.endpointId] =
                   [n \in Names |-> IF n = t.name THEN t.addr ELSE NoAddr]]

\* Fault: tokens are remembered under their names whatever their chain is.
RememberAddrAnywhere(c, t) ==
    addrMap' = [d \in ChainIds |-> [addrMap[d] EXCEPT ![t.name] = t.addr]]

\* A later token of the same name replaces an earlier one.
RememberAddr(c, t) == addrMap' = [addrMap EXCEPT ![c.endpointId][t.name] = t.addr]

RememberChain(k) == chainMap' = [chainMap EXCEPT ![config[k].endpointId] = k]

-----------------------------------------------------------------------------
\* The lookups for an OUT of token t on chain c to chain d

DstToken(c, t, d) == addrMap[d][nameMap[c][t]]

Routed(c, t, d) ==
    /\ chainMap[d] # 0
    /\ nameMap[c][t] # NoName
    /\ DstToken(c, t, d) # NoAddr
    /\ decimalMap[c][t] # 0
    /\ decimalMap[d][DstToken(c, t, d)] # 0

TokensOf(c) == UNION {{config[k].tokens[j] : j \in DOMAIN config[k].tokens} :
                         k \in {l \in DOMAIN config : config[l].endpointId = c}}
=============================================================================
