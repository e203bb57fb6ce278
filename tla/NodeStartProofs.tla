--------------------------- MODULE NodeStartProofs ---------------------------
(***************************************************************************)
(* For every configuration: the token maps fit together, and the node      *)
(* pays, and tells the gateway of, approved tokens only.                   *)
(*                                                                         *)
(* StartInv is inductive.  It speaks of a node that is not down, and says  *)
(* how far its walk through the configuration has brought the maps and the *)
(* approvals; the maps of a node that is down are forgotten before they    *)
(* are looked at again.                                                    *)
(***************************************************************************)
EXTENDS NodeStart, TLAPS

-----------------------------------------------------------------------------
\* The configuration

LEMMA ChainConfigured ==
    ASSUME config \in Configs, NEW k \in DOMAIN config
    PROVE  /\ DOMAIN config = 1 .. Len(config) /\ Len(config) \in Nat
           /\ k \in Nat \ {0}
           /\ config[k] \in ChainConfigs
           /\ config[k].endpointId \in ChainIds
           /\ config[k].chainId = config[k].endpointId
           /\ config[k].tokens \in Seq(TokenConfigs)
           /\ DOMAIN config[k].tokens = 1 .. Len(config[k].tokens)
           /\ Len(config[k].tokens) \in Nat
<1>1. config \in Seq(ChainConfigs)
  BY ConfigsAssumption DEF CBridgeConfigs
<1>2. k \in 1 .. Len(config) /\ config[k] \in ChainConfigs /\ Len(config) \in Nat
  BY <1>1
<1>3. config[k].chainId = config[k].endpointId
  BY ConfigsAssumption
<1> QED BY <1>1, <1>2, <1>3 DEF ChainConfigs

LEMMA TokenConfigured ==
    ASSUME config \in Configs, NEW k \in DOMAIN config, NEW j \in DOMAIN config[k].tokens
    PROVE  /\ j \in Nat \ {0}
           /\ config[k].tokens[j] \in TokenConfigs
           /\ config[k].tokens[j].addr \in Addrs
           /\ config[k].tokens[j].name \in Names
           /\ config[k].tokens[j].decimal \in Nat
<1>1. config[k].tokens \in Seq(TokenConfigs)
  BY ChainConfigured
<1>2. j \in 1 .. Len(config[k].tokens) /\ config[k].tokens[j] \in TokenConfigs
  BY <1>1
<1> QED BY <1>1, <1>2 DEF TokenConfigs

LEMMA DecimalsAgree ==
    ASSUME config \in Configs, NEW k \in DOMAIN config, NEW l \in DOMAIN config,
           config[k].endpointId = config[l].endpointId,
           NEW i \in DOMAIN config[k].tokens, NEW j \in DOMAIN config[l].tokens,
           config[k].tokens[i].addr = config[l].tokens[j].addr
    PROVE  k = l /\ config[k].tokens[i].decimal = config[l].tokens[j].decimal
<1>1. k = l
  BY ConfigsAssumption
<1>2. \A m, n \in DOMAIN config[k].tokens :
         config[k].tokens[m].addr = config[k].tokens[n].addr
            => config[k].tokens[m].decimal = config[k].tokens[n].decimal
  BY ConfigsAssumption
<1> QED BY <1>1, <1>2

-----------------------------------------------------------------------------
\* Types

LEMMA InitTyped == Init => TypeOK
BY DEF Init, TypeOK, MapsInit, NoChains, NoNames, NoDecimals, NoAddrs

LEMMA MapsTyped ==
    ASSUME TypeOK, AtToken, TokenKnown
    PROVE  /\ nameMap' \in [ChainIds -> [Addrs -> Names \union {NoName}]]
           /\ decimalMap' \in [ChainIds -> [Addrs -> Nat]]
           /\ addrMap' \in [ChainIds -> [Names -> Addrs \union {NoAddr}]]
<1> DEFINE c == ThisChain.endpointId
           t == ThisToken
<1>1. /\ c \in ChainIds /\ ThisChain.chainId = c
      /\ t.addr \in Addrs /\ t.name \in Names /\ t.decimal \in Nat
  BY ChainConfigured, TokenConfigured DEF TypeOK, AtToken, AtChain, ThisChain, ThisToken
<1>2. nameMap' = [nameMap EXCEPT ![c] = [@ EXCEPT ![t.addr] = t.name]]
  BY <1>1 DEF TokenKnown, RememberToken
<1>3. decimalMap' = [decimalMap EXCEPT ![c] = [@ EXCEPT ![t.addr] = t.decimal]]
  BY <1>1 DEF TokenKnown, RememberToken
<1>4. addrMap' = [addrMap EXCEPT ![c] = [@ EXCEPT ![t.name] = t.addr]]
  BY <1>1 DEF TokenKnown, RememberAddr
<1> HIDE DEF c, t
<1> QED BY <1>1, <1>2, <1>3, <1>4 DEF TypeOK

LEMMA PingTyped ==
    ASSUME TypeOK, NEW resp \in PingGateway, PingAndRefreshFee(resp), phase # "exited", account = keystore
    PROVE  registry' \in [Accounts -> ChainInfos \union {NoEntry}]
<1>1. PICK req \in PingRequests : Request(req) /\ GatewayTakes(req, resp)
  BY DEF PingAndRefreshFee
<1>2. req.ethAddr \in Accounts /\ req.chainInfo \in ChainInfos
  BY DEF PingRequests
<1> QED BY <1>1, <1>2 DEF GatewayTakes, TypeOK

LEMMA NextTyped ==
    ASSUME TypeOK, phase # "exited" => StartedWithKeystore, [Next]_vars
    PROVE  TypeOK'
<1>1. CASE ReplaceKeystore
  BY <1>1 DEF ReplaceKeystore, TypeOK, maps, position
<1>2. CASE Start
  BY <1>2 DEF Start, LoadKeystore, ForgetMaps, NoChains, NoNames, NoDecimals, NoAddrs, TypeOK
<1>3. CASE Exit
  BY <1>3 DEF Exit, TypeOK, maps
<1>4. CASE TokenReady
  <2>1. AtToken /\ TokenKnown
    BY <1>4 DEF TokenReady, TokenKnown
  <2> QED BY <2>1, <1>4, MapsTyped DEF TokenReady, TypeOK
<1>5. CASE Approve
  <2>1. AtToken /\ TokenKnown
    BY <1>5 DEF Approve, TokenKnown
  <2>2. ThisChain.endpointId \in ChainIds /\ ThisToken.addr \in Addrs
    BY <2>1, ChainConfigured, TokenConfigured DEF TypeOK, AtToken, AtChain, ThisChain, ThisToken
  <2>3. pool' \subseteq Approvals
    BY <1>5, <2>2 DEF Approve, TypeOK, Approvals
  <2> QED BY <2>1, <2>3, <1>5, MapsTyped DEF Approve, TypeOK
<1>6. CASE ApprovalMined
  BY <1>6 DEF ApprovalMined, TypeOK, maps
<1>7. CASE ChainReady
  <2>1. chainMap' \in [ChainIds -> Nat]
    BY <1>7 DEF ChainReady, RememberChain, TypeOK
  <2> QED BY <1>7, <2>1 DEF ChainReady, TypeOK
<1>8. ASSUME NEW tx \in pool, MineApproval(tx)
      PROVE  TypeOK'
  <2>1. tx.by \in Accounts /\ tx.chain \in ChainIds /\ tx.token \in Addrs
    BY DEF TypeOK, Approvals
  <2> DEFINE mine == [approved[tx.by] EXCEPT ![tx.chain] = @ \union {tx.token}]
  <2>2. approved' = [approved EXCEPT ![tx.by] = mine]
    BY <1>8 DEF MineApproval
  <2>3. approved' \in [Accounts -> [ChainIds -> SUBSET Addrs]]
    <3>1. approved[tx.by] \in [ChainIds -> SUBSET Addrs]
      BY <2>1 DEF TypeOK
    <3>2. mine \in [ChainIds -> SUBSET Addrs]
      BY <2>1, <3>1
    <3> QED BY <2>1, <2>2, <3>2 DEF TypeOK
  <2> QED BY <1>8, <2>3 DEF MineApproval, TypeOK, maps, position
<1>9. ASSUME NEW resp \in PingGateway, FirstPing(resp)
      PROVE  TypeOK'
  <2>1. registry' \in [Accounts -> ChainInfos \union {NoEntry}]
    BY <1>9, PingTyped DEF FirstPing, InitializedChains, StartedWithKeystore
  <2> QED BY <1>9, <2>1 DEF FirstPing, PhaseAfter, TypeOK, maps
<1>10. ASSUME NEW resp \in PingGateway, PingCron(resp)
       PROVE  TypeOK'
  <2>1. registry' \in [Accounts -> ChainInfos \union {NoEntry}]
    BY <1>10, PingTyped DEF PingCron, StartedWithKeystore
  <2> QED BY <1>10, <2>1 DEF PingCron, TypeOK, maps, position
<1>11. CASE UNCHANGED vars
  BY <1>11 DEF vars, maps, position, TypeOK
<1> QED BY <1>1, <1>2, <1>3, <1>4, <1>5, <1>6, <1>7, <1>8, <1>9, <1>10, <1>11 DEF Next

-----------------------------------------------------------------------------
\* Tokens of the chains that are in the map

\* Of a chain in the map the tokens are those of one entry of the configuration,
\* and Init is through with all of them.
LEMMA ServedChain ==
    ASSUME TypeOK, ChainsMapped, NEW c \in ChainIds, chainMap[c] # 0,
           NEW t \in TokensOf(c)
    PROVE  /\ chainMap[c] \in DOMAIN config
           /\ config[chainMap[c]].endpointId = c
           /\ \E j \in DOMAIN config[chainMap[c]].tokens :
                 t = config[chainMap[c]].tokens[j] /\ Finished(chainMap[c], j)
<1>1. PICK k \in DOMAIN config : /\ config[k].endpointId = c
                                 /\ \E j \in DOMAIN config[k].tokens : t = config[k].tokens[j]
  BY DEF TokensOf
<1>2. chainMap[c] \in DOMAIN config /\ config[chainMap[c]].endpointId = c /\ chainMap[c] < chain
  BY DEF ChainsMapped
<1>3. chainMap[c] = k
  BY <1>1, <1>2, ConfigsAssumption DEF TypeOK
<1> QED BY <1>1, <1>2, <1>3 DEF Finished

LEMMA RememberedOnServedChain ==
    ASSUME TypeOK, ChainsMapped, NEW c \in ChainIds, chainMap[c] # 0,
           NEW k \in DOMAIN config, config[k].endpointId = c,
           NEW j \in DOMAIN config[k].tokens
    PROVE  k = chainMap[c] /\ Finished(k, j) /\ config[k].tokens[j] \in TokensOf(c)
<1>1. chainMap[c] \in DOMAIN config /\ config[chainMap[c]].endpointId = c /\ chainMap[c] < chain
  BY DEF ChainsMapped
<1>2. chainMap[c] = k
  BY <1>1, ConfigsAssumption DEF TypeOK
<1>3. config[k].tokens[j] \in TokensOf(c)
  BY DEF TokensOf
<1> QED BY <1>1, <1>2, <1>3 DEF Finished

LEMMA ServedAreApproved ==
    ASSUME TypeOK, ChainsMapped, FinishedAreApproved, NEW c \in ChainIds, chainMap[c] # 0,
           NEW t \in TokensOf(c)
    PROVE  t.addr \in approved[account][c]
BY ServedChain DEF FinishedAreApproved, IsApproved

-----------------------------------------------------------------------------
\* The parts of the invariant

\* What is approved stays approved, so what the gateway has been told stays true.
LEMMA AdvertisedStep ==
    ASSUME StartInv, [Next]_vars
    PROVE  AdvertisedArePaid'
<1>1. CASE UNCHANGED <<approved, registry>>
  BY <1>1 DEF StartInv, AdvertisedArePaid
<1>2. ASSUME NEW tx \in pool, MineApproval(tx)
      PROVE  AdvertisedArePaid'
  <2>1. tx.by \in Accounts /\ tx.chain \in ChainIds /\ tx.token \in Addrs
    BY DEF StartInv, TypeOK, Approvals
  <2>2. approved \in [Accounts -> [ChainIds -> SUBSET Addrs]]
    BY DEF StartInv, TypeOK
  <2>3. \A a \in Accounts, c \in ChainIds : approved[a][c] \subseteq approved'[a][c]
    BY <1>2, <2>1, <2>2 DEF MineApproval
  <2> QED BY <1>2, <2>3 DEF MineApproval, StartInv, AdvertisedArePaid
<1>3. ASSUME NEW resp \in PingGateway, PingAndRefreshFee(resp), phase # "exited",
             UNCHANGED approved
      PROVE  AdvertisedArePaid'
  <2>1. PICK req \in PingRequests : Request(req) /\ GatewayTakes(req, resp)
    BY <1>3 DEF PingAndRefreshFee
  <2>2. CASE UNCHANGED registry
    BY <1>1, <1>3, <2>2
  <2>3. CASE registry' = [registry EXCEPT ![account] = req.chainInfo]
    <3>1. \A c \in ChainIds : req.chainInfo[c] \subseteq approved[account][c]
      BY <1>3, <2>1, ServedAreApproved DEF Request, StartInv
    <3> QED BY <1>3, <2>3, <3>1 DEF StartInv, TypeOK, AdvertisedArePaid
  <2> QED BY <2>1, <2>2, <2>3 DEF GatewayTakes, Request
<1> QED
  BY <1>1, <1>2, <1>3 DEF Next, ReplaceKeystore, Start, Exit, TokenReady, Approve, ApprovalMined,
     ChainReady, FirstPing, PingCron, InitializedChains, vars

\* A step of Init at a token.
LEMMA TokenRemembered ==
    ASSUME TypeOK, RememberedAreMapped, MappedAreRemembered, TokenKnown, phase = "chains",
           UNCHANGED <<config, chain>>,
           \A k, j \in Nat \ {0} :
              Remembered(k, j)' <=> Remembered(k, j) \/ (k = chain /\ j = token)
    PROVE  RememberedAreMapped' /\ MappedAreRemembered'
<1> DEFINE c == ThisChain.endpointId
           t == ThisToken
<1>1. /\ c \in ChainIds /\ ThisChain.chainId = c
      /\ t.addr \in Addrs /\ t.name \in Names /\ t.decimal \in Nat \ {0}
      /\ chain \in DOMAIN config /\ token \in DOMAIN config[chain].tokens
  BY ChainConfigured, TokenConfigured
  DEF TypeOK, TokenKnown, AtToken, AtChain, ThisChain, ThisToken
<1>2. /\ nameMap' = [nameMap EXCEPT ![c] = [@ EXCEPT ![t.addr] = t.name]]
      /\ decimalMap' = [decimalMap EXCEPT ![c] = [@ EXCEPT ![t.addr] = t.decimal]]
      /\ addrMap' = [addrMap EXCEPT ![c] = [@ EXCEPT ![t.name] = t.addr]]
  BY <1>1 DEF TokenKnown, RememberToken, RememberAddr
<1>3. /\ nameMap \in [ChainIds -> [Addrs -> Names \union {NoName}]]
      /\ decimalMap \in [ChainIds -> [Addrs -> Nat]]
      /\ addrMap \in [ChainIds -> [Names -> Addrs \union {NoAddr}]]
  BY DEF TypeOK
<1>4. ASSUME NEW d \in ChainIds, NEW a \in Addrs
      PROVE  /\ nameMap'[d][a] = IF d = c /\ a = t.addr THEN t.name ELSE nameMap[d][a]
             /\ decimalMap'[d][a] = IF d = c /\ a = t.addr THEN t.decimal ELSE decimalMap[d][a]
  <2> HIDE DEF c, t
  <2> QED BY <1>1, <1>2, <1>3
<1>5. ASSUME NEW d \in ChainIds, NEW n \in Names
      PROVE  addrMap'[d][n] = IF d = c /\ n = t.name THEN t.addr ELSE addrMap[d][n]
  <2> HIDE DEF c, t
  <2> QED BY <1>1, <1>2, <1>3
<1>6. RememberedAreMapped'
  <2>0. \A k \in DOMAIN config : \A j \in DOMAIN config[k].tokens : k \in Nat \ {0} /\ j \in Nat \ {0}
    BY ChainConfigured, TokenConfigured DEF TypeOK
  <2> SUFFICES ASSUME NEW k \in DOMAIN config, NEW j \in DOMAIN config[k].tokens,
                      Remembered(k, j) \/ (k = chain /\ j = token)
               PROVE  LET d == config[k].endpointId
                          u == config[k].tokens[j]
                      IN  /\ nameMap'[d][u.addr] # NoName
                          /\ u.decimal > 0 /\ decimalMap'[d][u.addr] = u.decimal
                          /\ addrMap'[d][u.name] # NoAddr
    BY <2>0 DEF RememberedAreMapped
  <2> DEFINE d == config[k].endpointId
             u == config[k].tokens[j]
  <2>1. d \in ChainIds /\ u.addr \in Addrs /\ u.name \in Names
    BY ChainConfigured, TokenConfigured DEF TypeOK
  <2>2. NoName \notin Names /\ NoAddr \notin Addrs
    BY ConfigsAssumption
  <2>3. CASE k = chain /\ j = token
    <3>1. d = c /\ u = t
      BY <2>3 DEF ThisChain, ThisToken
    <3> QED BY <1>1, <1>4, <1>5, <2>1, <2>2, <3>1
  <2>4. CASE Remembered(k, j)
    <3>1. /\ nameMap[d][u.addr] # NoName
          /\ u.decimal > 0 /\ decimalMap[d][u.addr] = u.decimal
          /\ addrMap[d][u.name] # NoAddr
      BY <2>4 DEF RememberedAreMapped
    <3>2. ASSUME d = c, u.addr = t.addr
          PROVE  u.decimal = t.decimal
      <4>1. config \in Configs /\ chain \in DOMAIN config /\ token \in DOMAIN config[chain].tokens
        BY <1>1 DEF TypeOK
      <4>2. /\ config[k].endpointId = config[chain].endpointId
            /\ config[k].tokens[j].addr = config[chain].tokens[token].addr
        BY <3>2 DEF ThisChain, ThisToken
      <4> QED BY <4>1, <4>2, DecimalsAgree DEF ThisToken
    <3> QED BY <1>1, <1>4, <1>5, <2>1, <2>2, <3>1, <3>2
  <2> QED BY <2>3, <2>4
<1>7. \A d \in ChainIds, a \in Addrs, n \in Names :
         IsRemembered(d, a, n) \/ (d = c /\ a = t.addr /\ n = t.name) => IsRemembered(d, a, n)'
  <2>1. \A k \in DOMAIN config : \A j \in DOMAIN config[k].tokens : k \in Nat \ {0} /\ j \in Nat \ {0}
    BY ChainConfigured, TokenConfigured DEF TypeOK
  <2>2. config' = config
    OBVIOUS
  <2> QED BY <1>1, <2>1, <2>2 DEF IsRemembered, ThisChain, ThisToken
<1>8. MappedAreRemembered'
  <2>1. ASSUME NEW d \in ChainIds, NEW a \in Addrs, NEW n, n = nameMap'[d][a], n # NoName
        PROVE  IsRemembered(d, a, n)'
    <3>1. CASE d = c /\ a = t.addr
      BY <1>1, <1>4, <1>7, <2>1, <3>1
    <3>2. CASE ~ (d = c /\ a = t.addr)
      <4>1. n = nameMap[d][a] /\ n \in Names
        BY <1>3, <1>4, <2>1, <3>2
      <4>2. IsRemembered(d, a, n)
        BY <2>1, <4>1 DEF MappedAreRemembered
      <4> QED BY <1>7, <4>1, <4>2
    <3> QED BY <3>1, <3>2
  <2>2. ASSUME NEW d \in ChainIds, NEW n \in Names, NEW a, a = addrMap'[d][n], a # NoAddr
        PROVE  IsRemembered(d, a, n)'
    <3>1. CASE d = c /\ n = t.name
      BY <1>1, <1>5, <1>7, <2>2, <3>1
    <3>2. CASE ~ (d = c /\ n = t.name)
      <4>1. a = addrMap[d][n] /\ a \in Addrs
        BY <1>3, <1>5, <2>2, <3>2
      <4>2. IsRemembered(d, a, n)
        BY <2>2, <4>1 DEF MappedAreRemembered
      <4> QED BY <1>7, <4>1, <4>2
    <3> QED BY <3>1, <3>2
  <2> QED BY <2>1, <2>2 DEF MappedAreRemembered, IsRemembered
<1> QED BY <1>6, <1>8

\* The walk of Init that is under way.
Walk ==
    /\ StartedWithKeystore
    /\ ChainsMapped
    /\ RememberedAreMapped /\ MappedAreRemembered
    /\ FinishedAreApproved

\* Nothing the walk speaks of changes.
LEMMA WalkKept ==
    ASSUME Walk, UNCHANGED <<config, maps, keystore, account, phase, chain, token, pool, approved>>
    PROVE  Walk'
BY DEF Walk, StartedWithKeystore, ChainsMapped, RememberedAreMapped, MappedAreRemembered,
   FinishedAreApproved, IsRemembered, Remembered, Finished, Configured, IsApproved,
   ThisChain, ThisToken, maps

LEMMA WalkBegins ==
    ASSUME Start, TypeOK
    PROVE  Walk'
<1>1. /\ config' = config /\ config \in Configs
      /\ account' = keystore /\ keystore' = keystore /\ phase' = "chains"
      /\ chain' = 1 /\ token' = 1
      /\ chainMap' = NoChains /\ nameMap' = NoNames /\ addrMap' = NoAddrs
  BY DEF Start, LoadKeystore, ForgetMaps, TypeOK
<1>2. ASSUME NEW k \in DOMAIN config, NEW j \in DOMAIN config[k].tokens
      PROVE  ~ Remembered(k, j)' /\ ~ Finished(k, j)'
  BY <1>1, ChainConfigured, TokenConfigured DEF Remembered, Finished
<1>3. RememberedAreMapped' /\ FinishedAreApproved'
  BY <1>1, <1>2 DEF RememberedAreMapped, FinishedAreApproved
<1>4. MappedAreRemembered'
  BY <1>1 DEF MappedAreRemembered, NoNames, NoAddrs
<1> QED BY <1>1, <1>3, <1>4 DEF Walk, StartedWithKeystore, ChainsMapped, NoChains

LEMMA TokenReadyKeepsWalk ==
    ASSUME TypeOK, Walk, TokenReady
    PROVE  Walk'
<1>1. /\ TokenKnown /\ AtToken /\ IsApproved(ThisChain, ThisToken)
      /\ phase = "chains" /\ phase' = "chains" /\ token' = token + 1
      /\ UNCHANGED <<config, chainMap, keystore, account, chain, pool, approved, registry>>
  BY DEF TokenReady, TokenKnown, AtToken, AtChain
<1>2. token \in Nat \ {0} /\ chain \in Nat \ {0}
  BY DEF TypeOK
<1>3. \A k, j \in Nat \ {0} : /\ Remembered(k, j)' <=> Remembered(k, j) \/ (k = chain /\ j = token)
                              /\ Finished(k, j)' <=> Finished(k, j) \/ (k = chain /\ j = token)
  BY <1>1, <1>2 DEF Remembered, Finished
<1>4. RememberedAreMapped' /\ MappedAreRemembered'
  BY <1>1, <1>3, TokenRemembered DEF Walk
<1>5. FinishedAreApproved'
  <2>1. \A k \in DOMAIN config : \A j \in DOMAIN config[k].tokens : k \in Nat \ {0} /\ j \in Nat \ {0}
    BY ChainConfigured, TokenConfigured DEF TypeOK
  <2> QED BY <1>1, <1>3, <2>1 DEF Walk, FinishedAreApproved, IsApproved, ThisChain, ThisToken
<1> QED BY <1>1, <1>4, <1>5 DEF Walk, StartedWithKeystore, ChainsMapped

LEMMA ApproveKeepsWalk ==
    ASSUME TypeOK, Walk, Approve
    PROVE  Walk'
<1>1. /\ TokenKnown /\ AtToken
      /\ phase = "chains" /\ phase' = "approving"
      /\ [by |-> keystore, chain |-> ThisChain.endpointId, token |-> ThisToken.addr] \in pool'
      /\ UNCHANGED <<config, chainMap, keystore, account, chain, token, approved, registry>>
  BY DEF Approve, TokenKnown, AtToken, AtChain
<1>2. token \in Nat \ {0} /\ chain \in Nat \ {0}
  BY DEF TypeOK
<1>3. \A k, j \in Nat \ {0} : /\ Remembered(k, j)' <=> Remembered(k, j) \/ (k = chain /\ j = token)
                              /\ Finished(k, j)' <=> Finished(k, j)
  BY <1>1, <1>2 DEF Remembered, Finished
<1>4. RememberedAreMapped' /\ MappedAreRemembered'
  BY <1>1, <1>3, TokenRemembered DEF Walk
<1>5. FinishedAreApproved'
  BY <1>1 DEF Walk, FinishedAreApproved, Finished, IsApproved
<1>6. StartedWithKeystore'
  BY <1>1 DEF Walk, StartedWithKeystore, Configured, AtToken, AtChain, ThisChain, ThisToken
<1> QED BY <1>1, <1>4, <1>5, <1>6 DEF Walk, ChainsMapped

LEMMA ApprovalMinedKeepsWalk ==
    ASSUME TypeOK, Walk, ApprovalMined
    PROVE  Walk'
<1>1. /\ phase = "approving" /\ phase' = "chains" /\ token' = token + 1
      /\ [by |-> keystore, chain |-> ThisChain.endpointId, token |-> ThisToken.addr] \notin pool
      /\ UNCHANGED <<config, maps, keystore, account, chain, pool, approved, registry>>
  BY DEF ApprovalMined, WaitMined
<1>2. token \in Nat \ {0} /\ chain \in Nat \ {0}
  BY DEF TypeOK
<1>3. \A k, j \in Nat \ {0} : /\ Remembered(k, j)' <=> Remembered(k, j)
                              /\ Finished(k, j)' <=> Finished(k, j) \/ (k = chain /\ j = token)
  BY <1>1, <1>2 DEF Remembered, Finished
<1>4. \A k \in DOMAIN config : \A j \in DOMAIN config[k].tokens : k \in Nat \ {0} /\ j \in Nat \ {0}
  BY ChainConfigured, TokenConfigured DEF TypeOK
<1>5. IsApproved(ThisChain, ThisToken)
  BY <1>1 DEF Walk, StartedWithKeystore
<1>6. FinishedAreApproved'
  BY <1>1, <1>3, <1>4, <1>5 DEF Walk, FinishedAreApproved, IsApproved, ThisChain, ThisToken
<1>7. RememberedAreMapped' /\ MappedAreRemembered'
  BY <1>1, <1>3, <1>4 DEF Walk, RememberedAreMapped, MappedAreRemembered, IsRemembered, maps
<1> QED BY <1>1, <1>6, <1>7 DEF Walk, StartedWithKeystore, ChainsMapped, maps

LEMMA ChainReadyKeepsWalk ==
    ASSUME TypeOK, Walk, ChainReady
    PROVE  Walk'
<1>1. /\ chain \in DOMAIN config /\ ~ AtToken
      /\ phase = "chains" /\ phase' = "chains" /\ chain' = chain + 1 /\ token' = 1
      /\ chainMap' = [chainMap EXCEPT ![config[chain].endpointId] = chain]
      /\ UNCHANGED <<config, nameMap, decimalMap, addrMap, keystore, account, pool, approved>>
  BY DEF ChainReady, AtChain, RememberChain
<1>2. token \in Nat \ {0} /\ chain \in Nat \ {0} /\ token \notin DOMAIN config[chain].tokens
  BY <1>1 DEF TypeOK, AtToken, AtChain
<1>3. \A k \in DOMAIN config : \A j \in DOMAIN config[k].tokens :
         /\ Remembered(k, j)' <=> Remembered(k, j)
         /\ Finished(k, j)' <=> Finished(k, j)
  <2> SUFFICES ASSUME NEW k \in DOMAIN config, NEW j \in DOMAIN config[k].tokens
               PROVE  /\ Remembered(k, j)' <=> Remembered(k, j)
                      /\ Finished(k, j)' <=> Finished(k, j)
    OBVIOUS
  <2>1. k \in Nat \ {0} /\ j \in Nat \ {0}
    BY ChainConfigured, TokenConfigured DEF TypeOK
  <2>2. k = chain => j < token
    BY <1>2, <2>1, ChainConfigured DEF TypeOK
  <2> QED BY <1>1, <1>2, <2>1, <2>2 DEF Remembered, Finished
<1>4. FinishedAreApproved'
  BY <1>1, <1>3 DEF Walk, FinishedAreApproved, IsApproved
<1>5. RememberedAreMapped' /\ MappedAreRemembered'
  BY <1>1, <1>3 DEF Walk, RememberedAreMapped, MappedAreRemembered, IsRemembered
<1>6. ChainsMapped'
  <2>1. config[chain].endpointId \in ChainIds /\ chainMap \in [ChainIds -> Nat]
    BY <1>1, ChainConfigured DEF TypeOK
  <2>2. ASSUME NEW c \in ChainIds
        PROVE  chainMap'[c] = IF c = config[chain].endpointId THEN chain ELSE chainMap[c]
    BY <1>1, <2>1
  <2> QED BY <1>1, <1>2, <2>1, <2>2 DEF Walk, ChainsMapped
<1> QED BY <1>1, <1>4, <1>5, <1>6 DEF Walk, StartedWithKeystore

LEMMA MineApprovalKeepsWalk ==
    ASSUME TypeOK, Walk, NEW tx \in pool, MineApproval(tx)
    PROVE  Walk'
<1>1. /\ pool' = pool \ {tx}
      /\ UNCHANGED <<config, maps, keystore, account, phase, chain, token>>
  BY DEF MineApproval, position
<1>2. tx.by \in Accounts /\ tx.chain \in ChainIds /\ tx.token \in Addrs
  BY DEF TypeOK, Approvals
<1>3. approved \in [Accounts -> [ChainIds -> SUBSET Addrs]]
  BY DEF TypeOK
<1>4. /\ tx.token \in approved'[tx.by][tx.chain]
      /\ \A a \in Accounts, c \in ChainIds : approved[a][c] \subseteq approved'[a][c]
  BY <1>2, <1>3 DEF MineApproval
<1>5. account \in Accounts /\ account = keystore
  BY DEF TypeOK, Walk, StartedWithKeystore
<1>6. \A k \in DOMAIN config : \A j \in DOMAIN config[k].tokens :
         IsApproved(config[k], config[k].tokens[j]) => IsApproved(config[k], config[k].tokens[j])'
  BY <1>1, <1>4, <1>5, ChainConfigured DEF TypeOK, IsApproved
<1>7. FinishedAreApproved'
  BY <1>1, <1>6 DEF Walk, FinishedAreApproved, Finished
<1>8. StartedWithKeystore'
  <2> SUFFICES ASSUME phase = "approving"
               PROVE  \/ [by |-> keystore, chain |-> ThisChain.endpointId, token |-> ThisToken.addr] \in pool'
                      \/ ThisToken.addr \in approved'[account][ThisChain.endpointId]
    BY <1>1 DEF Walk, StartedWithKeystore, Configured, IsApproved, ThisChain, ThisToken
  <2>1. Configured(chain, token)
    BY DEF Walk, StartedWithKeystore
  <2>2. ThisChain.endpointId \in ChainIds
    BY <2>1, ChainConfigured DEF Configured, ThisChain, TypeOK
  <2>3. CASE IsApproved(ThisChain, ThisToken)
    BY <1>4, <1>5, <2>2, <2>3 DEF IsApproved
  <2>4. CASE tx = [by |-> keystore, chain |-> ThisChain.endpointId, token |-> ThisToken.addr]
    BY <1>4, <1>5, <2>4
  <2>5. CASE /\ tx # [by |-> keystore, chain |-> ThisChain.endpointId, token |-> ThisToken.addr]
             /\ ~ IsApproved(ThisChain, ThisToken)
    BY <1>1, <2>5 DEF Walk, StartedWithKeystore
  <2> QED BY <2>3, <2>4, <2>5
<1> QED BY <1>1, <1>7, <1>8 DEF Walk, ChainsMapped, RememberedAreMapped, MappedAreRemembered,
        IsRemembered, Remembered, Finished, maps

\* When the node begins to run, its walk stands still.
LEMMA FirstPingKeepsWalk ==
    ASSUME TypeOK, Walk, NEW resp, FirstPing(resp)
    PROVE  phase' # "exited" => Walk'
<1> SUFFICES ASSUME phase' # "exited"
             PROVE  Walk'
  OBVIOUS
<1>1. /\ phase = "chains" /\ phase' = "running" /\ chain \notin DOMAIN config
      /\ UNCHANGED <<config, maps, keystore, account, chain, token, pool, approved>>
  BY DEF FirstPing, InitializedChains, PhaseAfter
<1> QED BY <1>1 DEF Walk, StartedWithKeystore, ChainsMapped, RememberedAreMapped, MappedAreRemembered,
        FinishedAreApproved, IsRemembered, Remembered, Finished, IsApproved, maps

-----------------------------------------------------------------------------
\* The invariant

LEMMA StartInvInit == Init => StartInv
<1> SUFFICES ASSUME Init
             PROVE  StartInv
  OBVIOUS
<1>1. TypeOK
  BY InitTyped
<1>2. phase = "exited" /\ AdvertisedArePaid
  BY DEF Init, AdvertisedArePaid
<1> QED BY <1>1, <1>2 DEF StartInv

LEMMA StartInvStep == StartInv /\ [Next]_vars => StartInv'
<1> SUFFICES ASSUME StartInv, [Next]_vars
             PROVE  StartInv'
  OBVIOUS
<1>1. TypeOK /\ (phase # "exited" => Walk)
  BY DEF StartInv, Walk
<1>2. TypeOK'
  BY <1>1, NextTyped DEF Walk
<1>3. AdvertisedArePaid'
  BY AdvertisedStep
<1>4. ASSUME phase' # "exited"
      PROVE  Walk'
  <2>1. CASE ReplaceKeystore
    BY <1>4, <2>1 DEF ReplaceKeystore, position
  <2>2. CASE Start
    BY <1>1, <2>2, WalkBegins
  <2>3. CASE Exit
    BY <1>4, <2>3 DEF Exit
  <2>4. CASE TokenReady
    BY <1>1, <2>4, TokenReadyKeepsWalk DEF TokenReady, TokenKnown, AtToken, AtChain
  <2>5. CASE Approve
    BY <1>1, <2>5, ApproveKeepsWalk DEF Approve, TokenKnown, AtToken, AtChain
  <2>6. CASE ApprovalMined
    BY <1>1, <2>6, ApprovalMinedKeepsWalk DEF ApprovalMined
  <2>7. CASE ChainReady
    BY <1>1, <2>7, ChainReadyKeepsWalk DEF ChainReady, AtChain
  <2>8. ASSUME NEW tx \in pool, MineApproval(tx)
        PROVE  Walk'
    BY <1>1, <1>4, <2>8, MineApprovalKeepsWalk DEF MineApproval, position
  <2>9. ASSUME NEW resp \in PingGateway, FirstPing(resp)
        PROVE  Walk'
    BY <1>1, <1>4, <2>9, FirstPingKeepsWalk DEF FirstPing, InitializedChains
  <2>10. ASSUME NEW resp \in PingGateway, PingCron(resp)
         PROVE  Walk'
    BY <1>1, <2>10, WalkKept DEF PingCron, position
  <2>11. CASE UNCHANGED vars
    BY <1>1, <1>4, <2>11, WalkKept DEF vars, position
  <2> QED BY <2>1, <2>2, <2>3, <2>4, <2>5, <2>6, <2>7, <2>8, <2>9, <2>10, <2>11 DEF Next
<1> QED BY <1>2, <1>3, <1>4 DEF StartInv, Walk

\* The walk through the configuration is where its invariant says, whatever fails
\* and however often it begins anew.
THEOREM StartInvHolds == Spec => []StartInv
BY StartInvInit, StartInvStep, PTL DEF Spec

-----------------------------------------------------------------------------
\* The properties

\* The gateway is never told of a token that the account has not approved.
THEOREM AdvertisedAreAlwaysPaid == Spec => []AdvertisedArePaid
<1>1. StartInv => AdvertisedArePaid
  BY DEF StartInv
<1> QED BY <1>1, StartInvHolds, PTL

\* What a routed OUT is looked up to.
LEMMA RoutedTokens ==
    ASSUME StartInv, NEW c \in Monitored, NEW t \in Addrs, NEW d \in ChainIds, Routed(c, t, d)
    PROVE  \E src \in TokensOf(c), dst \in TokensOf(d) :
              /\ src.name = nameMap[c][t] /\ src.addr = t /\ src.decimal = decimalMap[c][t]
              /\ dst.name = nameMap[c][t] /\ dst.addr = DstToken(c, t, d)
              /\ dst.decimal = decimalMap[d][DstToken(c, t, d)]
              /\ dst.addr \in approved[account][d]
<1>1. /\ TypeOK /\ ChainsMapped /\ RememberedAreMapped /\ MappedAreRemembered /\ FinishedAreApproved
      /\ c \in ChainIds /\ chainMap[c] # 0 /\ chainMap[d] # 0
  BY DEF StartInv, Monitored, Routed
<1>2. nameMap[c][t] # NoName /\ nameMap[c][t] \in Names
  BY <1>1 DEF Routed, TypeOK
<1>3. PICK k \in DOMAIN config : \E i \in DOMAIN config[k].tokens :
         /\ Remembered(k, i) /\ config[k].endpointId = c
         /\ config[k].tokens[i].addr = t /\ config[k].tokens[i].name = nameMap[c][t]
  BY <1>1, <1>2 DEF MappedAreRemembered, IsRemembered
<1>4. PICK i \in DOMAIN config[k].tokens :
         /\ Remembered(k, i) /\ config[k].endpointId = c
         /\ config[k].tokens[i].addr = t /\ config[k].tokens[i].name = nameMap[c][t]
  BY <1>3
<1>5. addrMap[d][nameMap[c][t]] # NoAddr
  BY DEF Routed, DstToken
<1>6. PICK l \in DOMAIN config : \E j \in DOMAIN config[l].tokens :
         /\ Remembered(l, j) /\ config[l].endpointId = d
         /\ config[l].tokens[j].addr = DstToken(c, t, d) /\ config[l].tokens[j].name = nameMap[c][t]
  BY <1>1, <1>2, <1>5 DEF MappedAreRemembered, IsRemembered, DstToken
<1>7. PICK j \in DOMAIN config[l].tokens :
         /\ Remembered(l, j) /\ config[l].endpointId = d
         /\ config[l].tokens[j].addr = DstToken(c, t, d) /\ config[l].tokens[j].name = nameMap[c][t]
  BY <1>6
<1>8. /\ config[k].tokens[i].decimal = decimalMap[c][t]
      /\ config[l].tokens[j].decimal = decimalMap[d][DstToken(c, t, d)]
  BY <1>1, <1>4, <1>7 DEF RememberedAreMapped
<1>9. config[k].tokens[i] \in TokensOf(c) /\ config[l].tokens[j] \in TokensOf(d)
  BY <1>1, <1>4, <1>7, RememberedOnServedChain
<1>10. config[l].tokens[j].addr \in approved[account][d]
  BY <1>1, <1>9, ServedAreApproved
<1> QED BY <1>4, <1>7, <1>8, <1>9, <1>10

\* A token is only routed to one of its name, with the decimals of both.
THEOREM RoutedToSameName == Spec => []RoutesToSameName
<1>1. StartInv => RoutesToSameName
  BY RoutedTokens DEF RoutesToSameName
<1> QED BY <1>1, StartInvHolds, PTL

\* A token is only routed to one the node's account can pay.
THEOREM RoutedAreApproved == Spec => []PaysOnlyApproved
<1>1. StartInv => PaysOnlyApproved
  <2> SUFFICES ASSUME StartInv, NEW c \in Monitored, NEW t \in Addrs, NEW d \in ChainIds,
                      Routed(c, t, d)
               PROVE  DstToken(c, t, d) \in approved[account][d]
    BY DEF PaysOnlyApproved
  <2> QED BY RoutedTokens
<1> QED BY <1>1, StartInvHolds, PTL

\* A token with a single name is routed to every chain that has one of that name.
THEOREM SharedNamesAreAlwaysRouted == Spec => []SharedNamesAreRouted
<1>1. ASSUME StartInv
      PROVE  SharedNamesAreRouted
  <2> SUFFICES ASSUME NEW c \in Monitored, NEW d \in Monitored, NEW src \in TokensOf(c),
                      \A other \in TokensOf(c) : other.addr = src.addr => other.name = src.name,
                      NEW dst \in TokensOf(d), dst.name = src.name
               PROVE  Routed(c, src.addr, d)
    BY DEF SharedNamesAreRouted
  <2>1. /\ TypeOK /\ ChainsMapped /\ RememberedAreMapped /\ MappedAreRemembered
        /\ c \in ChainIds /\ chainMap[c] # 0 /\ d \in ChainIds /\ chainMap[d] # 0
    BY <1>1 DEF StartInv, Monitored
  <2> DEFINE k == chainMap[c]
             l == chainMap[d]
  <2>2. PICK i \in DOMAIN config[k].tokens : src = config[k].tokens[i] /\ Finished(k, i)
    BY <2>1, ServedChain
  <2>3. PICK j \in DOMAIN config[l].tokens : dst = config[l].tokens[j] /\ Finished(l, j)
    BY <2>1, ServedChain
  <2>4. /\ k \in DOMAIN config /\ config[k].endpointId = c
        /\ l \in DOMAIN config /\ config[l].endpointId = d
    BY <2>1, ServedChain
  <2>5. nameMap[c][src.addr] # NoName /\ src.decimal > 0 /\ decimalMap[c][src.addr] = src.decimal
    BY <2>1, <2>2, <2>4 DEF RememberedAreMapped, Remembered
  <2>6. addrMap[d][dst.name] # NoAddr
    BY <2>1, <2>3, <2>4 DEF RememberedAreMapped, Remembered
  <2>7. src.addr \in Addrs /\ src.name \in Names /\ src.decimal \in Nat
    BY <2>1, <2>2, <2>4, TokenConfigured DEF TypeOK
  <2>8. nameMap[c][src.addr] = src.name
    <3>1. IsRemembered(c, src.addr, nameMap[c][src.addr])
      BY <2>1, <2>5, <2>7 DEF MappedAreRemembered
    <3>2. PICK m \in DOMAIN config : \E n \in DOMAIN config[m].tokens :
             /\ config[m].endpointId = c
             /\ config[m].tokens[n].addr = src.addr
             /\ config[m].tokens[n].name = nameMap[c][src.addr]
      BY <3>1 DEF IsRemembered
    <3> QED BY <2>1, <3>2, RememberedOnServedChain
  <2>9. DstToken(c, src.addr, d) = addrMap[d][src.name] /\ DstToken(c, src.addr, d) # NoAddr
    BY <2>6, <2>8 DEF DstToken
  <2>10. decimalMap[d][DstToken(c, src.addr, d)] # 0
    <3>1. IsRemembered(d, addrMap[d][src.name], src.name)
      BY <2>1, <2>7, <2>9 DEF MappedAreRemembered
    <3>2. PICK m \in DOMAIN config : \E n \in DOMAIN config[m].tokens :
             /\ Remembered(m, n) /\ config[m].endpointId = d
             /\ config[m].tokens[n].addr = addrMap[d][src.name]
      BY <3>1 DEF IsRemembered
    <3>3. PICK n \in DOMAIN config[m].tokens :
             /\ Remembered(m, n) /\ config[m].endpointId = d
             /\ config[m].tokens[n].addr = addrMap[d][src.name]
      BY <3>2
    <3>4. /\ config[m].tokens[n].decimal > 0
          /\ decimalMap[d][addrMap[d][src.name]] = config[m].tokens[n].decimal
      BY <2>1, <3>3 DEF RememberedAreMapped
    <3> QED BY <2>9, <3>4
  <2> QED BY <2>1, <2>5, <2>8, <2>9, <2>10 DEF Routed
<1>2. StartInv => SharedNamesAreRouted
  BY <1>1
<1> QED BY <1>2, StartInvHolds, PTL
=============================================================================
