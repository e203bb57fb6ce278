---------------------------- MODULE GatewayClient ----------------------------
(***************************************************************************)
(* The messages the node and the gateway exchange in a ping (gatewayrpc/), *)
(* and what the client (server/gateway.go) makes of the answer.  The       *)
(* gateway is external.  A balance is reduced to whether there is one, and *)
(* the fee rates, the signature, the node's name and version and the gas   *)
(* prices of the answer, which nothing reads, are left out.  The chains    *)
(* and tokens a ping tells of are those of TokenRouting.                   *)
(***************************************************************************)
EXTENDS TokenRouting

CONSTANTS
    Accounts,     \* the relay nodes' accounts
    NoErr,        \* no error message in an answer
    NoAnswer      \* the call itself failed

ErrCodes == {"ERROR_CODE_UNDEFINED", "NODE_NOT_PERMITTED", "TRANSFER_NOT_FOUND"}

\* The tokens of each chain, those with a balance.
ChainInfos == [ChainIds -> SUBSET Addrs]

PingRequests == [ethAddr : Accounts, chainInfo : ChainInfos]

\* An error message of any code is an error, the undefined one too.
PingResponses == [err : ErrCodes \union {NoErr}]

\* What PingGateway may return: an answer, or that there was none.
PingGateway == PingResponses \union {NoAnswer}

Succeeds(resp) == resp # NoAnswer /\ resp.err = NoErr
=============================================================================
