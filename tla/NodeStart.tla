------------------------------ MODULE NodeStart ------------------------------
(***************************************************************************)
(* The start of the node (main, and Init in server/server.go), its pings   *)
(* of the gateway, and starting it again.                                  *)
(*                                                                         *)
(* Init loads the keystore, goes through the configured chains and the     *)
(* tokens of each, makes the cBridge contract of the chain an approved     *)
(* spender of each token, tells the gateway which tokens it serves, and    *)
(* only then starts the monitors.  Anything that fails on the way ends the *)
(* process.  The operator starts it again, perhaps with another account;   *)
(* what was approved stays approved on the chain, and an approval nobody   *)
(* waits for any more may be mined later.                                  *)
(***************************************************************************)
EXTENDS GatewayClient

CONSTANTS NoAccount, NoEntry

VARIABLES
    keystore,    \* the account of the keystore file
    account,     \* the account Init has loaded from it, or NoAccount
    phase,       \* "exited", "chains", "approving" or "running"
    chain,       \* the chain Init is at
    token,       \* the token of that chain Init is at
    pool,        \* approvals that no block holds yet
    approved,    \* by account and chain: the tokens its contract may spend
    registry     \* the gateway: what the last ping of each account said, or NoEntry

position == <<phase, chain, token>>
vars == <<config, maps, keystore, account, position, pool, approved, registry>>

Approvals == [by : Accounts, chain : ChainIds, token : Addrs]

Init ==
    /\ config \in Configs
    /\ MapsInit
    /\ keystore \in Accounts
    /\ account = NoAccount
    /\ phase = "exited"
    /\ chain = 1
    /\ token = 1
    /\ pool = {}
    /\ approved = [a \in Accounts |-> [c \in ChainIds |-> {}]]
    /\ registry = [a \in Accounts |-> NoEntry]

-----------------------------------------------------------------------------
\* The operator

\* The keystore is not exchanged while the node is starting: the file is read
\* again for every token, and approvals would be another account's.
ReplaceKeystore ==
    /\ phase = "exited"
    /\ keystore' \in Accounts \ {keystore}
    /\ UNCHANGED <<config, maps, account, position, pool, approved, registry>>

LoadKeystore == account' = keystore

\* The configuration, the database and the keystore are read.
Start ==
    /\ phase = "exited"
    /\ phase' = "chains"
    /\ LoadKeystore
    /\ chain' = 1
    /\ token' = 1
    /\ ForgetMaps
    /\ UNCHANGED <<config, keystore, pool, approved, registry>>

\* Init returns an error, or the process dies, wherever it is.
Exit ==
    /\ phase # "exited"
    /\ phase' = "exited"
    /\ UNCHANGED <<config, maps, keystore, account, chain, token, pool, approved, registry>>

-----------------------------------------------------------------------------
\* The chains and their tokens

AtChain == phase = "chains" /\ chain \in DOMAIN config
AtToken == AtChain /\ token \in DOMAIN config[chain].tokens

ThisChain == config[chain]
ThisToken == config[chain].tokens[token]

\* Fault: it is enough that some account has approved the token.
Allowance(c, t) == \E a \in Accounts : t.addr \in approved[a][c.endpointId]

\* The allowance is at least half of what Approve allows.
IsApproved(c, t) == t.addr \in approved[account][c.endpointId]

TokenKnown ==
    /\ AtToken
    /\ ThisToken.decimal > 0
    /\ RememberToken(ThisChain, ThisToken)
    /\ RememberAddr(ThisChain, ThisToken)

TokenReady ==
    /\ TokenKnown
    /\ IsApproved(ThisChain, ThisToken)
    /\ token' = token + 1
    /\ UNCHANGED <<config, chainMap, keystore, account, phase, chain, pool, approved, registry>>

\* The keystore file is opened again to sign the approval.
Approve ==
    /\ TokenKnown
    /\ ~ IsApproved(ThisChain, ThisToken)
    /\ pool' = pool \union {[by |-> keystore, chain |-> ThisChain.endpointId, token |-> ThisToken.addr]}
    /\ phase' = "approving"
    /\ UNCHANGED <<config, chainMap, keystore, account, chain, token, approved, registry>>

\* Fault: it is enough that the transaction was sent.
WaitSent(tx) == TRUE

\* The status of the receipt is not looked at; a token is assumed not to refuse.
WaitMined(tx) == tx \notin pool

ApprovalMined ==
    /\ phase = "approving"
    /\ WaitMined([by |-> keystore, chain |-> ThisChain.endpointId, token |-> ThisToken.addr])
    /\ phase' = "chains"
    /\ token' = token + 1
    /\ UNCHANGED <<config, maps, keystore, account, chain, pool, approved, registry>>

\* A block takes an approval, whether the node still waits for it or not.
MineApproval(tx) ==
    /\ tx \in pool
    /\ pool' = pool \ {tx}
    /\ approved' = [approved EXCEPT ![tx.by][tx.chain] = @ \union {tx.token}]
    /\ UNCHANGED <<config, maps, keystore, account, position, registry>>

ChainReady ==
    /\ AtChain
    /\ ~ AtToken
    /\ RememberChain(chain)
    /\ chain' = chain + 1
    /\ token' = 1
    /\ UNCHANGED <<config, nameMap, decimalMap, addrMap, keystore, account, phase, pool, approved, registry>>

-----------------------------------------------------------------------------
\* Pings

\* The chains Init is through with, and of their tokens those whose balance could be read.
Request(req) ==
    /\ req.ethAddr = account
    /\ \A c \in ChainIds :
          req.chainInfo[c] \subseteq IF chainMap[c] = 0 THEN {} ELSE {t.addr : t \in TokensOf(c)}

\* An answer may get lost on its way back.
GatewayTakes(req, resp) ==
    \/ /\ Succeeds(resp) \/ resp = NoAnswer
       /\ registry' = [registry EXCEPT ![req.ethAddr] = req.chainInfo]
    \/ ~ Succeeds(resp) /\ UNCHANGED registry

PingAndRefreshFee(resp) ==
    \E req \in PingRequests : Request(req) /\ GatewayTakes(req, resp)

InitializedChains == phase = "chains" /\ chain \notin DOMAIN config

PhaseAfter(resp) == IF Succeeds(resp) THEN "running" ELSE "exited"

\* The monitors start after the first ping, and main the workers after them.
FirstPing(resp) ==
    /\ InitializedChains
    /\ PingAndRefreshFee(resp)
    /\ phase' = PhaseAfter(resp)
    /\ UNCHANGED <<config, maps, keystore, account, chain, token, pool, approved>>

\* Every thirty seconds; a ping that fails is only logged.
PingCron(resp) ==
    /\ phase = "running"
    /\ PingAndRefreshFee(resp)
    /\ UNCHANGED <<config, maps, keystore, account, position, pool, approved>>

-----------------------------------------------------------------------------
Next ==
    \/ ReplaceKeystore \/ Start \/ Exit
    \/ TokenReady \/ Approve \/ ApprovalMined \/ ChainReady
    \/ \E tx \in pool : MineApproval(tx)
    \/ \E resp \in PingGateway : FirstPing(resp) \/ PingCron(resp)

Spec == Init /\ [][Next]_vars

-----------------------------------------------------------------------------
Monitored == {c \in ChainIds : phase = "running" /\ chainMap[c] # 0}

\* The user gets a token of the same name as the one locked, and the amount is
\* converted between the decimals these two tokens have on their chains, also
\* when one address stands for different tokens on different chains.
RoutesToSameName ==
    \A c \in Monitored, t \in Addrs, d \in ChainIds :
       Routed(c, t, d) =>
          \E src \in TokensOf(c), dst \in TokensOf(d) :
             /\ src.name = dst.name
             /\ src.addr = t /\ src.decimal = decimalMap[c][t]
             /\ dst.addr = DstToken(c, t, d) /\ dst.decimal = decimalMap[d][DstToken(c, t, d)]

\* No OUT is turned down that could be served: a token with a single name is
\* routed to every chain that has one of that name.
SharedNamesAreRouted ==
    \A c, d \in Monitored : \A src \in TokensOf(c) :
       /\ \A other \in TokensOf(c) : other.addr = src.addr => other.name = src.name
       /\ \E dst \in TokensOf(d) : dst.name = src.name
       => Routed(c, src.addr, d)

\* The node never takes on an OUT it could not pay for lack of an approval by the
\* account it runs with, also if it was started again halfway through its
\* approvals, or with another account.
PaysOnlyApproved ==
    \A c \in Monitored, t \in Addrs, d \in ChainIds :
       Routed(c, t, d) => DstToken(c, t, d) \in approved[account][d]

\* What the gateway has been told of an account, by whichever start and by a ping
\* that seemed to fail, that account can pay: users are only sent to a relay node
\* for tokens that its contracts may already take from it.
AdvertisedArePaid ==
    \A a \in Accounts : registry[a] # NoEntry =>
       \A c \in ChainIds : registry[a][c] \subseteq approved[a][c]

-----------------------------------------------------------------------------
(* What the four rest on: an inductive invariant.                            *)

TypeOK ==
    /\ config \in Configs
    /\ chainMap \in [ChainIds -> Nat]
    /\ nameMap \in [ChainIds -> [Addrs -> Names \union {NoName}]]
    /\ decimalMap \in [ChainIds -> [Addrs -> Nat]]
    /\ addrMap \in [ChainIds -> [Names -> Addrs \union {NoAddr}]]
    /\ keystore \in Accounts
    /\ account \in Accounts \union {NoAccount}
    /\ phase \in {"exited", "chains", "approving", "running"}
    /\ chain \in Nat \ {0}
    /\ token \in Nat \ {0}
    /\ pool \subseteq Approvals
    /\ approved \in [Accounts -> [ChainIds -> SUBSET Addrs]]
    /\ registry \in [Accounts -> ChainInfos \union {NoEntry}]

Configured(k, j) == k \in DOMAIN config /\ j \in DOMAIN config[k].tokens

\* Init is through with token j of chain k.
Finished(k, j) == k < chain \/ (k = chain /\ j < token)

\* The token is in the maps; Init may still wait for its approval.
Remembered(k, j) == Finished(k, j) \/ (phase = "approving" /\ k = chain /\ j = token)

\* Between the start and the exit the account is the one of the keystore, and who
\* waits for an approval has sent it.
StartedWithKeystore ==
    /\ account = keystore
    /\ phase = "approving" =>
          /\ Configured(chain, token)
          /\ \/ [by |-> keystore, chain |-> ThisChain.endpointId, token |-> ThisToken.addr] \in pool
             \/ IsApproved(ThisChain, ThisToken)
    /\ phase = "running" => chain \notin DOMAIN config

\* A chain is in the map when all of its tokens have been walked through.
ChainsMapped ==
    \A c \in ChainIds : chainMap[c] # 0 =>
       /\ chainMap[c] \in DOMAIN config
       /\ chainMap[c] < chain
       /\ config[chainMap[c]].endpointId = c

\* The maps of tokens hold what was remembered, and nothing else.
RememberedAreMapped ==
    \A k \in DOMAIN config : \A j \in DOMAIN config[k].tokens : Remembered(k, j) =>
       LET c == config[k].endpointId
           t == config[k].tokens[j]
       IN  /\ nameMap[c][t.addr] # NoName
           /\ t.decimal > 0 /\ decimalMap[c][t.addr] = t.decimal
           /\ addrMap[c][t.name] # NoAddr

IsRemembered(c, a, n) ==
    \E k \in DOMAIN config : \E j \in DOMAIN config[k].tokens :
       /\ Remembered(k, j)
       /\ config[k].endpointId = c
       /\ config[k].tokens[j].addr = a /\ config[k].tokens[j].name = n

MappedAreRemembered ==
    /\ \A c \in ChainIds, a \in Addrs :
          nameMap[c][a] # NoName => IsRemembered(c, a, nameMap[c][a])
    /\ \A c \in ChainIds, n \in Names :
          addrMap[c][n] # NoAddr => IsRemembered(c, addrMap[c][n], n)

FinishedAreApproved ==
    \A k \in DOMAIN config : \A j \in DOMAIN config[k].tokens :
       Finished(k, j) => IsApproved(config[k], config[k].tokens[j])

\* The four properties hold in every state, given this of a node that is not down.
StartInv ==
    /\ TypeOK
    /\ AdvertisedArePaid
    /\ phase # "exited" =>
          /\ StartedWithKeystore
          /\ ChainsMapped
          /\ RememberedAreMapped /\ MappedAreRemembered
          /\ FinishedAreApproved
=============================================================================
