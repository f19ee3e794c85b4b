-------------------------- MODULE DeploymentProofs --------------------------
(***************************************************************************)
(* Proofs about Deployment, for any networks and any commands on them.     *)
(***************************************************************************)
EXTENDS Deployment, FiniteSetTheorems, SequenceTheorems, WellFoundedInduction, TLAPS

-----------------------------------------------------------------------------
(* What the table of scripts has in common.                                *)

\* A script that makes one contract, which is no HubPool; a pool asks the
\* HubPool of its l1 companion to be its admin.
SoleScript(s) ==
    /\ s.makes = <<s.makes[1]>> /\ s.makes[1] \notin {"HubPool", "SpokePool"}
    /\ s.by \in {"deploy", "proxy", "zkProxy", "zkDeploy", "prepareUpgrade"}
    /\ s.by \in {"proxy", "zkProxy"} => s.hub = "l1"

\* The script of the HubPool: it runs where there is a finder, and never
\* replaces the HubPool.
HubScript(s) ==
    /\ s.makes = <<"LpTokenFactory", "HubPool">> /\ s.by = "deploy"
    /\ s.skip /\ "finder" \in s.l1 /\ s.hub = "none"

ScriptOK(s) == SoleScript(s) \/ HubScript(s)

LEMMA TableOK == \A i \in DOMAIN Scripts : ScriptOK(Scripts[i])
<1>1. HubScript(deploy_hubpool)
  BY DEF HubScript, deploy_hubpool, HubSide, Contract
<1>2. SoleScript(deploy_optimism_adapter)
  BY DEF SoleScript, deploy_optimism_adapter, Verified, Replaced, HubSide, Contract
<1>3. SoleScript(deploy_optimism_spokepool)
  BY DEF SoleScript, deploy_optimism_spokepool, Pool, Contract
<1>4. SoleScript(deploy_arbitrum_adapter)
  BY DEF SoleScript, deploy_arbitrum_adapter, Verified, Replaced, HubSide, Contract
<1>5. SoleScript(deploy_arbitrum_spokepool)
  BY DEF SoleScript, deploy_arbitrum_spokepool, Pool, Contract
<1>6. SoleScript(deploy_ethereum_adapter)
  BY DEF SoleScript, deploy_ethereum_adapter, AfterHubPool, HubSide, Contract
<1>7. SoleScript(deploy_ethereum_spokepool)
  BY DEF SoleScript, deploy_ethereum_spokepool, Pool, Contract
<1>8. SoleScript(deploy_polygon_token_bridger_mainnet)
  BY DEF SoleScript, deploy_polygon_token_bridger_mainnet, AfterHubPool, WithHubPool, HubSide, Contract
<1>9. SoleScript(deploy_polygon_adapter)
  BY DEF SoleScript, deploy_polygon_adapter, Verified, Replaced, HubSide, Contract
<1>10. SoleScript(deploy_polygon_token_bridger_polygon)
  BY DEF SoleScript, deploy_polygon_token_bridger_polygon, Contract
<1>11. SoleScript(deploy_polygon_spokepool)
  BY DEF SoleScript, deploy_polygon_spokepool, Pool, Contract
<1>12. SoleScript(deploy_boba_adapter)
  BY DEF SoleScript, deploy_boba_adapter, AfterHubPool, HubSide, Contract
<1>13. SoleScript(deploy_boba_spokepool)
  BY DEF SoleScript, deploy_boba_spokepool, Pool, Contract
<1>14. SoleScript(deploy_config_store)
  BY DEF SoleScript, deploy_config_store, HubSide, Contract
<1>15. SoleScript(deploy_zksync_adapter)
  BY DEF SoleScript, deploy_zksync_adapter, HubSide, Contract
<1>16. SoleScript(deploy_zksync_spokepool)
  BY DEF SoleScript, deploy_zksync_spokepool, Pool, Contract
<1>17. SoleScript(deploy_ethereum_merkle_distributor)
  BY DEF SoleScript, deploy_ethereum_merkle_distributor, HubSide, Contract
<1>18. SoleScript(deploy_arbitrum_rescueadapter)
  BY DEF SoleScript, deploy_arbitrum_rescueadapter, HubSide, Contract
<1>19. SoleScript(deploy_bond_token)
  BY DEF SoleScript, deploy_bond_token, Verified, AfterHubPool, WithHubPool, HubSide, Contract
<1>20. SoleScript(deploy_arbitrum_sendtoken_adapter)
  BY DEF SoleScript, deploy_arbitrum_sendtoken_adapter, HubSide, Contract
<1>21. SoleScript(deploy_erc1155)
  BY DEF SoleScript, deploy_erc1155, Contract
<1>22. SoleScript(upgrade_spokepool)
  BY DEF SoleScript, upgrade_spokepool, Verified, Contract
<1>23. SoleScript(deploy_spoke_pool_verifier)
  BY DEF SoleScript, deploy_spoke_pool_verifier, Verified, Contract
<1>24. SoleScript(deploy_base_adapter)
  BY DEF SoleScript, deploy_base_adapter, Verified, Replaced, HubSide, Contract
<1>25. SoleScript(deploy_base_spokepool)
  BY DEF SoleScript, deploy_base_spokepool, Pool, Contract
<1>26. SoleScript(deploy_scroll_adapter)
  BY DEF SoleScript, deploy_scroll_adapter, Replaced, HubSide, Contract
<1>27. SoleScript(deploy_scroll_spokepool)
  BY DEF SoleScript, deploy_scroll_spokepool, Pool, Contract
<1>28. SoleScript(deploy_linea_adapter)
  BY DEF SoleScript, deploy_linea_adapter, AfterHubPool, HubSide, Contract
<1>29. SoleScript(deploy_linea_spokepool)
  BY DEF SoleScript, deploy_linea_spokepool, Pool, Contract
<1>30. SoleScript(deploy_polygon_zk_evm_adapter)
  BY DEF SoleScript, deploy_polygon_zk_evm_adapter, AfterHubPool, HubSide, Contract
<1>31. SoleScript(deploy_polygon_zk_evm_spokepool)
  BY DEF SoleScript, deploy_polygon_zk_evm_spokepool, Pool, Contract
<1>32. SoleScript(deploy_uniswap_swap_and_bridge)
  BY DEF SoleScript, deploy_uniswap_swap_and_bridge, Periphery, Contract
<1>33. SoleScript(deploy_uniswap_universal_swap_and_bridge)
  BY DEF SoleScript, deploy_uniswap_universal_swap_and_bridge, Periphery, Contract
<1>34. SoleScript(deploy_1inch_swap_and_bridge)
  BY DEF SoleScript, deploy_1inch_swap_and_bridge, Periphery, Contract
<1>35. SoleScript(deploy_universal_1inch_swap_and_bridge)
  BY DEF SoleScript, deploy_universal_1inch_swap_and_bridge, Periphery, Contract
<1>36. SoleScript(deploy_blast_spokepool)
  BY DEF SoleScript, deploy_blast_spokepool, Pool, Contract
<1>37. SoleScript(deploy_blast_adapter)
  BY DEF SoleScript, deploy_blast_adapter, AfterHubPool, HubSide, Contract
<1>38. SoleScript(deploy_mode_adapter)
  BY DEF SoleScript, deploy_mode_adapter, HubSide, Contract
<1>39. SoleScript(deploy_mode_spokepool)
  BY DEF SoleScript, deploy_mode_spokepool, Pool, Contract
<1>40. SoleScript(deploy_multicall_handler)
  BY DEF SoleScript, deploy_multicall_handler, Contract
<1>41. SoleScript(deploy_zk_multicall_handler)
  BY DEF SoleScript, deploy_zk_multicall_handler, Verified, Contract
<1>42. SoleScript(deploy_lisk_adapter)
  BY DEF SoleScript, deploy_lisk_adapter, HubSide, Contract
<1>43. SoleScript(deploy_lisk_spokepool)
  BY DEF SoleScript, deploy_lisk_spokepool, Pool, Contract
<1>44. SoleScript(deploy_blast_dai_retriever)
  BY DEF SoleScript, deploy_blast_dai_retriever, Verified, WithHubPool, HubSide, Contract
<1>45. SoleScript(deploy_blast_rescue_adapter)
  BY DEF SoleScript, deploy_blast_rescue_adapter, Verified, WithHubPool, HubSide, Contract
<1>46. SoleScript(deploy_redstone_adapter)
  BY DEF SoleScript, deploy_redstone_adapter, HubSide, Contract
<1>47. SoleScript(deploy_redstone_spokepool)
  BY DEF SoleScript, deploy_redstone_spokepool, Pool, Contract
<1>48. SoleScript(deploy_zora_adapter)
  BY DEF SoleScript, deploy_zora_adapter, HubSide, Contract
<1>49. SoleScript(deploy_zora_spokepool)
  BY DEF SoleScript, deploy_zora_spokepool, Pool, Contract
<1>50. SoleScript(deploy_worldchain_adapter)
  BY DEF SoleScript, deploy_worldchain_adapter, HubSide, Contract
<1>51. SoleScript(deploy_worldchain_spokepool)
  BY DEF SoleScript, deploy_worldchain_spokepool, Pool, Contract
<1> QED
  BY <1>1, <1>2, <1>3, <1>4, <1>5, <1>6, <1>7, <1>8, <1>9, <1>10, <1>11, <1>12, <1>13, <1>14, <1>15, <1>16, <1>17, <1>18, <1>19, <1>20, <1>21, <1>22, <1>23, <1>24, <1>25, <1>26, <1>27, <1>28, <1>29, <1>30, <1>31, <1>32, <1>33, <1>34, <1>35, <1>36, <1>37, <1>38, <1>39, <1>40, <1>41, <1>42, <1>43, <1>44, <1>45, <1>46, <1>47, <1>48, <1>49, <1>50, <1>51 DEF Scripts, ScriptOK

-----------------------------------------------------------------------------
(* The inductive invariant.                                                *)

\* The scripts that the plans can run.
Planned == UNION {Selected(c[1]) : c \in UNION Plans}

\* A pool's script runs on the pool's network.
Fitting(i, n) ==
    Scripts[i].by \in {"proxy", "zkProxy", "prepareUpgrade"} =>
      n \in {"polygon-amoy", "boba"} \/ Scripts[i].native = expectedWrappedNative(n)

Deployed ==
    [kind : {"plain", "zk", "implementation", "proxy"}, name : Names, release : Nat,
     hub : Nat, spoke : Nat, native : {Scripts[i].native : i \in DOMAIN Scripts},
     impl : Nat]

\* Types of what is on the chains and in the files.
ChainInv ==
    /\ plan \in Plans
    /\ chain \in [Nets -> Seq(Deployed)]
    /\ \A n \in Nets : Len(chain[n]) <= MaxContracts[n]
    /\ saved \in [Nets -> [Names -> Nat]] /\ json \in [Nets -> [JsonNames -> Nat]]
    /\ release \in 1 .. MaxReleases /\ failures \in 0 .. MaxFailures

\* Every artifact is the address of its contract, only hub chains have a
\* HubPool, and deployments.json agrees with the artifacts about it and has
\* proxies for pools.
RecordInv ==
    \A n \in Nets :
      /\ \A m \in Names :
           saved[n][m] # 0 => /\ saved[n][m] \in DOMAIN chain[n]
                              /\ chain[n][saved[n][m]].name = m
                              /\ m = "HubPool" => companionNetworks(n) = n
      /\ \A m \in JsonNames : json[n][m] # 0 => json[n][m] \in DOMAIN chain[n]
      /\ json[n]["SpokePool"] # 0 => chain[n][json[n]["SpokePool"]].kind = "proxy"
      /\ json[n]["HubPool"] # 0 =>
           "HubPool" \in Names /\ json[n]["HubPool"] = saved[n]["HubPool"]

\* What a contract was given is still in use; a proxy has an admin and an
\* implementation, and an implementation the network's native token.
Wired(n, cs, a) ==
    LET c == cs[a]
    IN  /\ c.hub # 0 => /\ companionNetworks(n) \in Nets /\ "HubPool" \in Names
                        /\ c.hub = saved[companionNetworks(n)]["HubPool"]
        /\ c.spoke # 0 => /\ c.spoke \in DOMAIN cs
                          /\ cs[c.spoke].kind = "proxy"
        /\ c.kind = "proxy" => /\ c.hub # 0 /\ c.impl \in DOMAIN cs
                               /\ cs[c.impl].kind = "implementation"
        /\ c.kind = "implementation" =>
             n \in {"polygon-amoy", "boba"} \/ c.native = expectedWrappedNative(n)

WiredInv == \A n \in Nets : \A a \in DOMAIN chain[n] : Wired(n, chain[n], a)

\* The contract a command is about to save is there, under the name it will
\* be saved with; a HubPool is saved only where there is none. A command that
\* is about to create a proxy has its implementation, its admin and the room.
CmdInv ==
    /\ cmd \in [net : Nets, todo : SUBSET Planned, at : Nat,
                pc : {"idle", "run", "proxy", "save", "verify"}, addr : Nat]
    /\ \A i \in cmd.todo : Fitting(i, cmd.net)
    /\ cmd.pc # "idle" => cmd.todo # {} /\ cmd.at \in 1 .. Len(script.makes)
    /\ cmd.pc = "save" =>
         /\ cmd.addr \in DOMAIN chain[cmd.net]
         /\ chain[cmd.net][cmd.addr].name = SavedAs
         /\ SavedAs = "HubPool" => /\ saved[cmd.net]["HubPool"] = 0
                                   /\ companionNetworks(cmd.net) = cmd.net
    /\ cmd.pc = "proxy" => /\ script.by \in {"proxy", "zkProxy"} /\ Fits(cmd.net, 1)
                           /\ HubPoolOf(script, cmd.net) # 0
                           /\ cmd.addr \in DOMAIN chain[cmd.net]
                           /\ chain[cmd.net][cmd.addr].kind = "implementation"

\* The token of every deposit route is the one of its origin, as is that of a
\* rebalance route, and one end of every deposit route has a rebalance route.
RouteInv ==
    /\ lp \in BOOLEAN /\ whitelisted \in BOOLEAN
    /\ rebalance \in [enabledChainIds -> {NO_SYMBOL} \union DOMAIN TOKEN_SYMBOLS_MAP]
    /\ \A c \in enabledChainIds : rebalance[c] \in {NO_SYMBOL, tokenOn(c)}
    /\ routes \subseteq enabledChainIds \X enabledChainIds \X DOMAIN TOKEN_SYMBOLS_MAP
    /\ \A r \in routes :
         /\ r[3] = tokenOn(r[1])
         /\ rebalance[r[1]] # NO_SYMBOL \/ rebalance[r[2]] # NO_SYMBOL

DeployInv == ChainInv /\ RecordInv /\ WiredInv /\ CmdInv

IInv == DeployInv /\ RouteInv

-----------------------------------------------------------------------------
(* Operators.                                                              *)

\* A nonempty set of numbers has a least one.
LEMMA LeastExists ==
  ASSUME NEW S \in SUBSET Nat, S # {}
  PROVE  \E n \in S : \A k \in S : n =< k
<1>1. PICK n \in S : \A k \in S : ~(<<k, n>> \in OpToRel(<, Nat))
  BY NatLessThanWellFounded, WFMin
<1>2. \A k \in S : ~(k < n) BY <1>1 DEF OpToRel
<1>3. \A k \in S : n =< k BY <1>2
<1> QED BY <1>3

LEMMA MinIn ==
  ASSUME NEW S \in SUBSET Nat, S # {}
  PROVE  Min(S) \in S
BY LeastExists DEF Min

LEMMA DomainIsSeq == DOMAIN Scripts \subseteq Nat
BY DEF Scripts

LEMMA PlannedScripts ==
  /\ Planned \subseteq DOMAIN Scripts /\ Planned \subseteq Nat
  /\ \A i \in Planned : /\ ScriptOK(Scripts[i]) /\ Len(Scripts[i].makes) \in Nat \ {0}
                        /\ \A k \in 1 .. Len(Scripts[i].makes) : Scripts[i].makes[k] \in Names
  /\ \A c \in UNION Plans : Selected(c[1]) \subseteq Planned
<1>1. Planned \subseteq DOMAIN Scripts BY DEF Planned, Selected
<1>2. \A i \in Planned : ScriptOK(Scripts[i]) BY <1>1, TableOK
<1>3. ASSUME NEW i \in Planned
      PROVE  /\ Len(Scripts[i].makes) \in Nat \ {0}
             /\ \A k \in 1 .. Len(Scripts[i].makes) : k \in DOMAIN Scripts[i].makes
  <2>1. PICK s : s = Scripts[i].makes OBVIOUS
  <2>2. CASE SoleScript(Scripts[i])
    <3>1. PICK m : s = <<m>> BY <2>1, <2>2 DEF SoleScript
    <3> QED BY <2>1, <3>1
  <2>3. CASE HubScript(Scripts[i])
    <3>1. s = <<"LpTokenFactory", "HubPool">> BY <2>1, <2>3 DEF HubScript
    <3> QED BY <2>1, <3>1
  <2> QED BY <1>2, <2>2, <2>3 DEF ScriptOK
<1>4. \A i \in Planned : \A k \in DOMAIN Scripts[i].makes : Scripts[i].makes[k] \in Names
  BY DEF Names, Planned, ToSet
<1> QED BY <1>1, <1>2, <1>3, <1>4, DomainIsSeq DEF Planned

\* The script that runs.
LEMMA CurrentScript ==
  ASSUME CmdInv, cmd.pc # "idle"
  PROVE  /\ Min(cmd.todo) \in Planned /\ Min(cmd.todo) \in cmd.todo
         /\ ScriptOK(script) /\ SavedAs \in Names /\ script.makes[1] \in Names
         /\ script.native \in {Scripts[i].native : i \in DOMAIN Scripts}
         /\ Len(script.makes) \in Nat /\ cmd.at \in 1 .. Len(script.makes)
         /\ script.by \in {"proxy", "zkProxy", "prepareUpgrade"} =>
              cmd.net \in {"polygon-amoy", "boba"} \/ script.native = expectedWrappedNative(cmd.net)
<1>1. cmd.todo \in SUBSET Planned /\ cmd.todo # {} BY DEF CmdInv
<1>2. cmd.todo \in SUBSET Nat BY <1>1, PlannedScripts
<1>3. PICK i : i = Min(cmd.todo) OBVIOUS
<1>4. i \in cmd.todo BY <1>1, <1>2, <1>3, MinIn
<1>5. i \in Planned /\ i \in DOMAIN Scripts BY <1>1, <1>4, PlannedScripts
<1>6. script = Scripts[i] BY <1>3 DEF script
<1>7. cmd.at \in 1 .. Len(script.makes) BY DEF CmdInv
<1>8. SavedAs \in Names /\ script.makes[1] \in Names /\ ScriptOK(script)
        /\ Len(script.makes) \in Nat
  BY <1>5, <1>6, <1>7, PlannedScripts DEF SavedAs
<1>9. Fitting(i, cmd.net) BY <1>4 DEF CmdInv
<1> QED BY <1>3, <1>4, <1>5, <1>6, <1>7, <1>8, <1>9 DEF Fitting

\* The HubPool that a script is given is the one of the hub chain.
LEMMA HubPoolFacts ==
  ASSUME ChainInv, RecordInv, NEW s, NEW n \in Nets
  PROVE  /\ HubPoolOf(s, n) \in Nat
         /\ HubPoolOf(s, n) # 0 =>
              /\ companionNetworks(n) \in Nets /\ "HubPool" \in Names
              /\ HubPoolOf(s, n) = saved[companionNetworks(n)]["HubPool"]
<1>1. PICK l : l = IF s.hub = "own" THEN n ELSE companionNetworks(n) OBVIOUS
<1>2. HubPoolOf(s, n) = IF s.hub # "none" /\ l \in Nets /\ "HubPool" \in Names
                        THEN saved[l]["HubPool"] ELSE 0
  BY <1>1 DEF HubPoolOf
<1>3. CASE s.hub # "none" /\ l \in Nets /\ "HubPool" \in Names
  <2>1. HubPoolOf(s, n) = saved[l]["HubPool"] BY <1>2, <1>3
  <2>2. saved[l]["HubPool"] \in Nat BY <1>3 DEF ChainInv
  <2>3. saved[l]["HubPool"] # 0 => companionNetworks(l) = l BY <1>3 DEF RecordInv
  <2> QED BY <1>1, <1>3, <2>1, <2>2, <2>3
<1>4. CASE ~(s.hub # "none" /\ l \in Nets /\ "HubPool" \in Names)
  BY <1>2, <1>4
<1> QED BY <1>3, <1>4

LEMMA SpokePoolFacts ==
  ASSUME ChainInv, RecordInv, NEW n \in Nets
  PROVE  /\ json[n]["SpokePool"] \in Nat
         /\ json[n]["SpokePool"] # 0 =>
              /\ json[n]["SpokePool"] \in DOMAIN chain[n]
              /\ chain[n][json[n]["SpokePool"]].kind = "proxy"
<1>1. "SpokePool" \in JsonNames BY DEF JsonNames
<1> QED BY <1>1 DEF ChainInv, RecordInv

-----------------------------------------------------------------------------
(* Steps on a chain.                                                       *)

\* The contracts of a network change; names and kinds of what was there stay.
LEMMA ChainStep ==
  ASSUME ChainInv, RecordInv, WiredInv, NEW n \in Nets, NEW cs \in Seq(Deployed),
         Len(cs) <= MaxContracts[n],
         \A a \in DOMAIN chain[n] : /\ a \in DOMAIN cs /\ cs[a].kind = chain[n][a].kind
                                    /\ cs[a].name = chain[n][a].name,
         \A a \in DOMAIN cs : Wired(n, cs, a),
         chain' = [chain EXCEPT ![n] = cs],
         UNCHANGED <<plan, saved, json, release, failures>>
  PROVE  ChainInv' /\ RecordInv' /\ WiredInv'
<1>1. \A m \in Nets : chain'[m] = IF m = n THEN cs ELSE chain[m] BY DEF ChainInv
<1>2. ChainInv'
  <2>1. chain' \in [Nets -> Seq(Deployed)] BY DEF ChainInv
  <2>2. \A m \in Nets : Len(chain'[m]) <= MaxContracts[m] BY <1>1 DEF ChainInv
  <2> QED BY <2>1, <2>2 DEF ChainInv
<1>3. \A m \in Nets : \A a \in DOMAIN chain[m] :
        /\ a \in DOMAIN chain'[m] /\ chain'[m][a].kind = chain[m][a].kind
        /\ chain'[m][a].name = chain[m][a].name
  BY <1>1
<1>4. RecordInv'
  <2> SUFFICES ASSUME NEW m \in Nets
               PROVE  /\ \A x \in Names :
                           saved[m][x] # 0 => /\ saved[m][x] \in DOMAIN chain'[m]
                                              /\ chain'[m][saved[m][x]].name = x
                                              /\ x = "HubPool" => companionNetworks(m) = m
                      /\ \A x \in JsonNames : json[m][x] # 0 => json[m][x] \in DOMAIN chain'[m]
                      /\ json[m]["SpokePool"] # 0 =>
                           chain'[m][json[m]["SpokePool"]].kind = "proxy"
                      /\ json[m]["HubPool"] # 0 =>
                           "HubPool" \in Names /\ json[m]["HubPool"] = saved[m]["HubPool"]
    BY DEF RecordInv
  <2>1. "SpokePool" \in JsonNames BY DEF JsonNames
  <2> QED BY <1>3, <2>1 DEF RecordInv
<1>5. ASSUME NEW m \in Nets, NEW a \in DOMAIN chain'[m] PROVE Wired(m, chain[m], a)'
  <2>1. PICK ds : ds = chain'[m] OBVIOUS
  <2>2. Wired(m, ds, a)
    <3>1. CASE m = n BY <1>1, <1>5, <2>1, <3>1
    <3>2. CASE m # n BY <1>1, <1>5, <2>1, <3>2 DEF WiredInv
    <3> QED BY <3>1, <3>2
  <2> QED BY <2>1, <2>2 DEF Wired
<1> QED BY <1>2, <1>4, <1>5 DEF WiredInv

AllWired(n, cs) == cs \in Seq(Deployed) /\ \A a \in DOMAIN cs : Wired(n, cs, a)

Longer(cs, ds) == \A a \in DOMAIN cs : a \in DOMAIN ds /\ ds[a] = cs[a]

Extended(cs, c, ds) ==
    Len(ds) = Len(cs) + 1 /\ ds[Len(cs) + 1] = c /\ Longer(cs, ds)

\* A contract is created.
LEMMA AppendStep ==
  ASSUME NEW n, NEW cs, AllWired(n, cs), NEW c \in Deployed, NEW ds,
         ds = Append(cs, c), Wired(n, ds, Len(cs) + 1)
  PROVE  AllWired(n, ds) /\ Extended(cs, c, ds)
<1> USE DEF AllWired
<1>1. /\ ds \in Seq(Deployed) /\ Len(ds) = Len(cs) + 1 /\ ds[Len(cs) + 1] = c
      /\ Len(cs) \in Nat /\ DOMAIN cs = 1 .. Len(cs) /\ DOMAIN ds = 1 .. Len(cs) + 1
  OBVIOUS
<1>2. \A a \in DOMAIN cs : a \in DOMAIN ds /\ ds[a] = cs[a] BY <1>1
<1>3. ASSUME NEW a \in DOMAIN cs PROVE Wired(n, ds, a)
  <2>1. Wired(n, cs, a) OBVIOUS
  <2> QED BY <1>2, <2>1 DEF Wired
<1>4. \A a \in DOMAIN ds : a \in DOMAIN cs \/ a = Len(cs) + 1 BY <1>1
<1> QED BY <1>1, <1>2, <1>3, <1>4 DEF Extended, Longer

\* The chain of a network gets longer.
LEMMA GrowStep ==
  ASSUME ChainInv, RecordInv, WiredInv, NEW n \in Nets, NEW ds, AllWired(n, ds),
         Longer(chain[n], ds), Len(ds) <= MaxContracts[n],
         chain' = [chain EXCEPT ![n] = ds],
         UNCHANGED <<plan, saved, json, release, failures>>
  PROVE  ChainInv' /\ RecordInv' /\ WiredInv'
<1>1. ds \in Seq(Deployed) /\ \A a \in DOMAIN ds : Wired(n, ds, a) BY DEF AllWired
<1>2. \A a \in DOMAIN chain[n] : /\ a \in DOMAIN ds /\ ds[a].kind = chain[n][a].kind
                                 /\ ds[a].name = chain[n][a].name
  BY DEF Longer
<1> QED BY <1>1, <1>2, ChainStep

-----------------------------------------------------------------------------
(* Steps of a command.                                                     *)

Commands == [net : Nets, todo : SUBSET Planned, at : Nat,
             pc : {"idle", "run", "proxy", "save", "verify"}, addr : Nat]

LEMMA IdleKeeps ==
  ASSUME cmd' = Idle
  PROVE  CmdInv'
<1>1. Idle \in Commands BY NetsAssumption DEF Idle, Commands
<1>2. Idle.pc = "idle" /\ Idle.todo = {} BY DEF Idle
<1> QED BY <1>1, <1>2 DEF CmdInv, Commands

\* A script starts.
LEMMA RunKeeps ==
  ASSUME NEW n \in Nets, NEW todo \in SUBSET Planned, todo # {},
         \A i \in todo : Fitting(i, n),
         cmd' = [Idle EXCEPT !.net = n, !.todo = todo, !.pc = "run"]
  PROVE  CmdInv'
<1>1. cmd' = [net |-> n, todo |-> todo, at |-> 1, pc |-> "run", addr |-> 0]
  BY DEF Idle
<1>2. cmd' \in Commands BY <1>1 DEF Commands
<1>3. todo \in SUBSET Nat BY PlannedScripts
<1>4. PICK i : i = Min(todo) OBVIOUS
<1>5. i \in todo BY <1>3, <1>4, MinIn
<1>6. script' = Scripts[i]
  <2>1. cmd'.todo = todo BY <1>1
  <2>2. Min(cmd.todo)' = i BY <1>4, <2>1 DEF Min
  <2> QED BY <2>2 DEF script
<1>7. Len(Scripts[i].makes) \in Nat \ {0} BY <1>5, PlannedScripts
<1>8. 1 \in 1 .. Len(script'.makes) BY <1>6, <1>7
<1>9. cmd'.net = n /\ cmd'.todo = todo /\ cmd'.pc = "run" /\ cmd'.at = 1
  BY ONLY <1>1
<1> QED BY <1>2, <1>8, <1>9 DEF CmdInv, Commands, Fitting

LEMMA NextScriptKeeps ==
  ASSUME CmdInv, cmd' = NextScript
  PROVE  CmdInv'
<1>1. PICK rest : rest = cmd.todo \ {Min(cmd.todo)} OBVIOUS
<1>2. CASE rest = {} BY <1>1, <1>2, IdleKeeps DEF NextScript
<1>3. CASE rest # {}
  <2>1. PICK n : n = cmd.net OBVIOUS
  <2>2. cmd' = [Idle EXCEPT !.net = n, !.todo = rest, !.pc = "run"]
    BY <1>1, <1>3, <2>1 DEF NextScript
  <2>3. n \in Nets /\ rest \in SUBSET Planned /\ \A i \in rest : Fitting(i, n)
    BY <1>1, <2>1 DEF CmdInv
  <2> QED BY <1>3, <2>2, <2>3, RunKeeps
<1> QED BY <1>2, <1>3

\* The command goes on with its script.
LEMMA SameScript ==
  ASSUME CmdInv, cmd.pc # "idle", cmd' \in Commands, cmd'.net = cmd.net,
         cmd'.todo = cmd.todo
  PROVE  /\ script' = script
         /\ (cmd'.pc \notin {"save", "proxy"} /\ cmd'.at \in 1 .. Len(script.makes)) => CmdInv'
<1>1. script' = script BY DEF script, Min
<1>2. cmd.todo # {} /\ \A i \in cmd.todo : Fitting(i, cmd.net) BY DEF CmdInv
<1>3. (\A i \in cmd.todo : Fitting(i, cmd.net))' BY <1>2 DEF Fitting
<1> QED BY <1>1, <1>2, <1>3 DEF CmdInv, Commands

LEMMA MadeKeeps ==
  ASSUME CmdInv, cmd.pc # "idle", cmd' = Made
  PROVE  CmdInv'
<1>1. cmd \in Commands /\ cmd.at \in 1 .. Len(script.makes) /\ Len(script.makes) \in Nat
  BY CurrentScript DEF CmdInv, Commands
<1>2. CASE cmd.at < Len(script.makes)
  <2>1. PICK k : k = cmd.at + 1 OBVIOUS
  <2>2. k \in 1 .. Len(script.makes) /\ k \in Nat BY <1>1, <1>2, <2>1
  <2>3. cmd' = [cmd EXCEPT !.at = k, !.pc = "run"] BY <1>2, <2>1 DEF Made
  <2>4. /\ cmd' \in Commands /\ cmd'.net = cmd.net /\ cmd'.todo = cmd.todo
        /\ cmd'.at = k /\ cmd'.pc = "run"
    BY <1>1, <2>2, <2>3 DEF Commands
  <2> QED BY <2>2, <2>4, SameScript
<1>3. CASE ~(cmd.at < Len(script.makes)) /\ script.verify
  <2>1. cmd' = [cmd EXCEPT !.pc = "verify"] BY <1>3 DEF Made
  <2>2. /\ cmd' \in Commands /\ cmd'.net = cmd.net /\ cmd'.todo = cmd.todo
        /\ cmd'.at = cmd.at /\ cmd'.pc = "verify"
    BY <1>1, <2>1 DEF Commands
  <2> QED BY <1>1, <2>2, SameScript
<1>4. CASE ~(cmd.at < Len(script.makes)) /\ ~script.verify
  BY <1>4, NextScriptKeeps DEF Made
<1> QED BY <1>2, <1>3, <1>4

\* A contract is there, and will be saved.
LEMMA ToSaveKeeps ==
  ASSUME CmdInv, cmd.pc \in {"run", "proxy"}, NEW x \in Nat,
         cmd' = [cmd EXCEPT !.pc = "save", !.addr = x],
         x \in DOMAIN chain'[cmd.net], chain'[cmd.net][x].name = SavedAs,
         SavedAs = "HubPool" => /\ saved[cmd.net]["HubPool"] = 0
                                /\ companionNetworks(cmd.net) = cmd.net,
         UNCHANGED saved
  PROVE  CmdInv'
<1>1. cmd \in Commands /\ cmd.pc # "idle" /\ cmd.at \in 1 .. Len(script.makes)
        /\ cmd.todo # {}
  BY DEF CmdInv, Commands
<1>2. /\ cmd' \in Commands /\ cmd'.net = cmd.net /\ cmd'.todo = cmd.todo
      /\ cmd'.at = cmd.at /\ cmd'.pc = "save" /\ cmd'.addr = x
  BY <1>1 DEF Commands
<1>3. script' = script BY <1>1, <1>2, SameScript
<1>4. SavedAs' = SavedAs BY <1>2, <1>3 DEF SavedAs
<1>5. (\A i \in cmd.todo : Fitting(i, cmd.net))' BY <1>2 DEF Fitting, CmdInv
<1> QED BY <1>1, <1>2, <1>3, <1>4, <1>5 DEF CmdInv, Commands

-----------------------------------------------------------------------------
(* Creating contracts.                                                     *)

\* Only the hub chains have a finder.
LEMMA FinderOnHubs ==
  ASSUME NEW n, "finder" \in L1_ADDRESS_MAP(n)
  PROVE  companionNetworks(n) = n
<1>1. n \in {"mainnet", "sepolia"} BY DEF L1_ADDRESS_MAP
<1>2. companionNetworks("mainnet") = "mainnet" BY DEF companionNetworks, networks
<1>3. companionNetworks("sepolia") = "sepolia"
  BY DEF companionNetworks, networks, testNetworks
<1> QED BY <1>1, <1>2, <1>3

\* What is saved as a HubPool is made by the HubPool's script.
LEMMA HubPoolScript ==
  ASSUME CmdInv, cmd.pc # "idle", SavedAs = "HubPool"
  PROVE  HubScript(script)
<1>1. ScriptOK(script) /\ cmd.at \in 1 .. Len(script.makes) BY CurrentScript
<1>2. ASSUME SoleScript(script) PROVE FALSE
  <2>1. PICK m : script.makes = <<m>> /\ m # "HubPool" BY <1>2 DEF SoleScript
  <2>2. cmd.at = 1 BY <1>1, <2>1
  <2> QED BY <2>1, <2>2 DEF SavedAs
<1> QED BY <1>1, <1>2 DEF ScriptOK

\* A script that does not use hardhat-deploy makes one contract.
LEMMA OtherScript ==
  ASSUME CmdInv, cmd.pc # "idle", script.by # "deploy"
  PROVE  /\ SoleScript(script) /\ SavedAs = script.makes[1]
         /\ SavedAs # "HubPool"
<1>1. ScriptOK(script) /\ cmd.at \in 1 .. Len(script.makes) BY CurrentScript
<1>2. SoleScript(script) BY <1>1 DEF ScriptOK, HubScript
<1>3. PICK m : script.makes = <<m>> /\ m # "HubPool" BY <1>2 DEF SoleScript
<1>4. cmd.at = 1 BY <1>1, <1>3
<1> QED BY <1>2, <1>3, <1>4 DEF SavedAs

LEMMA PlainFacts ==
  ASSUME ChainInv, RecordInv, WiredInv, CmdInv, cmd.pc # "idle", NEW name \in Names,
         NEW c, c = Plain(script, cmd.net, name),
         NEW ds, ds = Append(chain[cmd.net], c)
  PROVE  /\ c \in Deployed /\ c.kind = "plain" /\ c.name = name
         /\ AllWired(cmd.net, ds) /\ Extended(chain[cmd.net], c, ds)
<1>1. PICK n : n = cmd.net OBVIOUS
<1>2. n \in Nets BY <1>1 DEF CmdInv
<1>3. PICK h : h = HubPoolOf(script, n) OBVIOUS
<1>4. PICK p : p = IF script.spoke THEN json[n]["SpokePool"] ELSE 0 OBVIOUS
<1>5. /\ h \in Nat
      /\ h # 0 => /\ companionNetworks(n) \in Nets /\ "HubPool" \in Names
                  /\ h = saved[companionNetworks(n)]["HubPool"]
  BY <1>2, <1>3, HubPoolFacts
<1>6. p \in Nat /\ (p # 0 => p \in DOMAIN chain[n] /\ chain[n][p].kind = "proxy")
  BY <1>2, <1>4, SpokePoolFacts
<1>7. c = [kind |-> "plain", name |-> name, release |-> release, hub |-> h, spoke |-> p,
           native |-> script.native, impl |-> 0]
  BY <1>1, <1>3, <1>4 DEF Plain, Created, getDeployedAddress
<1>8. release \in Nat BY BoundsAssumption DEF ChainInv
<1>9. /\ c \in Deployed /\ c.kind = "plain" /\ c.name = name /\ c.hub = h /\ c.spoke = p
  BY <1>5, <1>6, <1>7, <1>8, CurrentScript DEF Deployed
<1>10. PICK cs : cs = chain[n] OBVIOUS
<1>11. AllWired(n, cs) /\ cs \in Seq(Deployed)
  BY <1>2, <1>10 DEF ChainInv, WiredInv, AllWired
<1>12. ds = Append(cs, c) BY <1>1, <1>10
<1>13. ds[Len(cs) + 1] = c /\ \A a \in DOMAIN cs : a \in DOMAIN ds /\ ds[a] = cs[a]
  BY <1>9, <1>11, <1>12
<1>14. Wired(n, ds, Len(cs) + 1)
  BY <1>5, <1>6, <1>9, <1>10, <1>13 DEF Wired
<1>15. AllWired(n, ds) /\ Extended(cs, c, ds) BY <1>9, <1>11, <1>12, <1>14, AppendStep
<1> QED BY <1>1, <1>9, <1>10, <1>11, <1>15

\* An address that Find returns.
LEMMA FindFacts ==
  ASSUME ChainInv, NEW n \in Nets, NEW c, NEW x, x = Find(n, c), x # 0
  PROVE  x \in DOMAIN chain[n] /\ chain[n][x] = c /\ x \in Nat
<1>1. chain[n] \in Seq(Deployed) BY DEF ChainInv
<1>2. DOMAIN chain[n] = 1 .. Len(chain[n]) BY <1>1
<1>3. \E a \in DOMAIN chain[n] : chain[n][a] = c BY DEF Find
<1>4. x \in DOMAIN chain[n] /\ chain[n][x] = c BY <1>3 DEF Find
<1> QED BY <1>2, <1>4

LEMMA DeployKeeps ==
  ASSUME DeployInv, deploy
  PROVE  DeployInv'
<1>1. ChainInv /\ RecordInv /\ WiredInv /\ CmdInv BY DEF DeployInv
<1>2. PICK n : n = cmd.net OBVIOUS
<1>3. PICK name : name = SavedAs OBVIOUS
<1>4. PICK c : c = Plain(script, n, name) OBVIOUS
<1>5. PICK twin : twin = IF script.salt THEN Find(n, c) ELSE 0 OBVIOUS
<1>6. /\ cmd.pc = "run" /\ script.by = "deploy" /\ Runs(script, n)
      /\ UNCHANGED <<plan, saved, json, release, failures>>
      /\ \/ /\ Kept(script, n, name)
            /\ cmd' = Made /\ UNCHANGED chain
         \/ /\ ~ Kept(script, n, name) /\ twin # 0
            /\ cmd' = [cmd EXCEPT !.pc = "save", !.addr = twin]
            /\ UNCHANGED chain
         \/ /\ ~ Kept(script, n, name) /\ twin = 0 /\ Fits(n, 1)
            /\ chain' = [chain EXCEPT ![n] = Append(chain[n], c)]
            /\ cmd' = [cmd EXCEPT !.pc = "save", !.addr = Len(chain[n]) + 1]
  BY <1>2, <1>3, <1>4, <1>5 DEF deploy, SavedAs
<1>7. n \in Nets /\ name \in Names BY <1>1, <1>2, <1>3, <1>6, CurrentScript DEF CmdInv
<1>8. ASSUME ~Kept(script, n, name), name = "HubPool"
      PROVE  saved[n]["HubPool"] = 0 /\ companionNetworks(n) = n
  <2>1. HubScript(script) BY <1>1, <1>3, <1>6, <1>8, HubPoolScript
  <2>2. saved[n]["HubPool"] = 0 BY <1>8, <2>1 DEF Kept, HubScript
  <2>3. "finder" \in L1_ADDRESS_MAP(n) BY <1>6, <2>1 DEF Runs, Resolves, HubScript
  <2> QED BY <2>2, <2>3, FinderOnHubs
<1>9. ASSUME UNCHANGED chain PROVE ChainInv' /\ RecordInv' /\ WiredInv'
  BY <1>1, <1>6, <1>9 DEF ChainInv, RecordInv, WiredInv, Wired
<1>10. CASE Kept(script, n, name)
  <2>1. cmd' = Made /\ UNCHANGED chain BY <1>6, <1>10
  <2> QED BY <1>1, <1>6, <1>9, <2>1, MadeKeeps DEF DeployInv
<1>11. PICK ds : ds = Append(chain[n], c) OBVIOUS
<1>12. /\ c \in Deployed /\ c.kind = "plain" /\ c.name = name
       /\ AllWired(n, ds) /\ Extended(chain[n], c, ds)
  <2>1. cmd.pc # "idle" BY <1>6
  <2>2. c = Plain(script, cmd.net, name) /\ ds = Append(chain[cmd.net], c)
    BY <1>2, <1>4, <1>11
  <2> QED BY <1>1, <1>2, <1>7, <2>1, <2>2, PlainFacts
<1>13. CASE ~Kept(script, n, name) /\ twin # 0
  <2>1. cmd' = [cmd EXCEPT !.pc = "save", !.addr = twin] /\ UNCHANGED chain
    BY <1>6, <1>13
  <2>2. twin \in DOMAIN chain[n] /\ chain[n][twin] = c /\ twin \in Nat
    BY <1>1, <1>5, <1>7, <1>13, FindFacts
  <2>3. CmdInv'
    BY <1>1, <1>2, <1>3, <1>6, <1>8, <1>12, <1>13, <2>1, <2>2, ToSaveKeeps
  <2> QED BY <1>9, <2>1, <2>3 DEF DeployInv
<1>14. CASE ~Kept(script, n, name) /\ twin = 0
  <2>1. /\ chain' = [chain EXCEPT ![n] = ds] /\ Fits(n, 1)
        /\ cmd' = [cmd EXCEPT !.pc = "save", !.addr = Len(chain[n]) + 1]
    BY <1>6, <1>11, <1>14
  <2>2. Len(ds) <= MaxContracts[n] BY <1>12, <2>1 DEF Fits, Extended
  <2>3. ChainInv' /\ RecordInv' /\ WiredInv'
    BY <1>1, <1>6, <1>7, <1>12, <2>1, <2>2, GrowStep DEF Extended
  <2>4. chain[n] \in Seq(Deployed) BY <1>1, <1>7 DEF ChainInv
  <2>8. PICK x \in Nat : x = Len(chain[n]) + 1 BY <2>4
  <2>5. chain'[n] = ds BY <1>1, <1>7, <2>1 DEF ChainInv
  <2>6. x \in DOMAIN ds /\ ds[x].name = name
    BY <1>12, <2>4, <2>8 DEF Extended, AllWired
  <2>7. CmdInv'
    BY <1>1, <1>2, <1>3, <1>6, <1>8, <1>14, <2>1, <2>8, <2>5, <2>6, ToSaveKeeps
  <2> QED BY <2>3, <2>7 DEF DeployInv
<1> QED BY <1>6, <1>10, <1>13, <1>14

LEMMA ImplementationFacts ==
  ASSUME ChainInv, RecordInv, WiredInv, CmdInv, cmd.pc # "idle",
         script.by \in {"proxy", "zkProxy", "prepareUpgrade"},
         NEW n, n = cmd.net, NEW name, name = script.makes[1],
         NEW cs, cs = WithImplementation(script, n, name),
         NEW impl, impl = ImplementationAddress(script, n, name)
  PROVE  /\ n \in Nets /\ name \in Names /\ AllWired(n, cs) /\ Longer(chain[n], cs)
         /\ Len(cs) \in {Len(chain[n]), Len(chain[n]) + 1} /\ Len(chain[n]) \in Nat
         /\ impl \in DOMAIN cs /\ impl \in Nat
         /\ cs[impl].kind = "implementation" /\ cs[impl].name = name
<1>1. n \in Nets /\ name \in Names BY CurrentScript DEF CmdInv
<1>2. PICK c : c = Implementation(script, name) OBVIOUS
<1>3. c = [kind |-> "implementation", name |-> name, release |-> release, hub |-> 0,
           spoke |-> 0, native |-> script.native, impl |-> 0]
  BY <1>2 DEF Implementation, Created
<1>4. release \in Nat BY BoundsAssumption DEF ChainInv
<1>5. /\ c \in Deployed /\ c.kind = "implementation" /\ c.name = name
      /\ c.hub = 0 /\ c.spoke = 0 /\ c.native = script.native
  BY <1>1, <1>3, <1>4, CurrentScript DEF Deployed
<1>6. n \in {"polygon-amoy", "boba"} \/ c.native = expectedWrappedNative(n) BY <1>5, CurrentScript
<1>7. AllWired(n, chain[n]) /\ chain[n] \in Seq(Deployed)
  BY <1>1 DEF ChainInv, WiredInv, AllWired
<1>8. Len(chain[n]) \in Nat BY <1>7
<1>9. PICK known : known = KnownImplementation(script, n, name) OBVIOUS
<1>10. CASE known # 0
  <2>1. cs = chain[n] /\ impl = known
    BY <1>9, <1>10 DEF WithImplementation, ImplementationAddress
  <2>2. known = Find(n, c) BY <1>2, <1>9, <1>10 DEF KnownImplementation
  <2>3. known \in DOMAIN chain[n] /\ chain[n][known] = c /\ known \in Nat
    BY <1>1, <1>10, <2>2, FindFacts
  <2> QED BY <1>1, <1>5, <1>7, <1>8, <2>1, <2>3 DEF Longer
<1>11. CASE known = 0
  <2>1. cs = Append(chain[n], c) /\ impl = Len(chain[n]) + 1
    BY <1>2, <1>9, <1>11 DEF WithImplementation, ImplementationAddress
  <2>2. cs[Len(chain[n]) + 1] = c BY <1>5, <1>7, <2>1
  <2>3. Wired(n, cs, Len(chain[n]) + 1) BY <1>5, <1>6, <2>2 DEF Wired
  <2>4. PICK bs : bs = chain[n] OBVIOUS
  <2>5. AllWired(n, cs) /\ Extended(bs, c, cs)
    BY <1>5, <1>7, <2>1, <2>3, <2>4, AppendStep
  <2>6. /\ Len(cs) = Len(chain[n]) + 1 /\ Longer(chain[n], cs)
    BY <2>4, <2>5 DEF Extended
  <2>7. impl \in DOMAIN cs /\ impl \in Nat BY <1>8, <2>1, <2>5, <2>6 DEF AllWired
  <2> QED BY <1>1, <1>5, <1>8, <2>1, <2>2, <2>5, <2>6, <2>7
<1> QED BY <1>10, <1>11

\* The first transaction: an implementation that is saved, or gets a proxy.
LEMMA DeployNewProxyKeeps ==
  ASSUME DeployInv, deployNewProxy
  PROVE  DeployInv'
<1>1. ChainInv /\ RecordInv /\ WiredInv /\ CmdInv BY DEF DeployInv
<1>2. PICK n : n = cmd.net OBVIOUS
<1>3. PICK name : name = script.makes[1] OBVIOUS
<1>4. PICK cs : cs = WithImplementation(script, n, name) OBVIOUS
<1>5. PICK impl : impl = ImplementationAddress(script, n, name) OBVIOUS
<1>6. PICK pc \in {"save", "proxy"} : pc = IF implementationOnly(n) THEN "save" ELSE "proxy"
  OBVIOUS
<1>7. /\ cmd.pc = "run" /\ script.by \in {"proxy", "zkProxy"} /\ Runs(script, n)
      /\ Fits(n, 2) /\ UNCHANGED <<plan, saved, json, release, failures>>
      /\ chain' = [chain EXCEPT ![n] = cs]
      /\ cmd' = [cmd EXCEPT !.pc = pc, !.addr = impl]
  BY <1>2, <1>3, <1>4, <1>5, <1>6 DEF deployNewProxy
<1>8. cmd.pc # "idle" /\ script.by # "deploy" BY <1>7
<1>9. /\ n \in Nets /\ name \in Names /\ AllWired(n, cs) /\ Longer(chain[n], cs)
      /\ Len(cs) \in {Len(chain[n]), Len(chain[n]) + 1} /\ Len(chain[n]) \in Nat
      /\ impl \in DOMAIN cs /\ impl \in Nat
      /\ cs[impl].kind = "implementation" /\ cs[impl].name = name
  BY <1>1, <1>2, <1>3, <1>4, <1>5, <1>7, <1>8, ImplementationFacts
<1>10. SavedAs = name /\ SavedAs # "HubPool" /\ script.hub = "l1"
  BY <1>1, <1>3, <1>7, <1>8, OtherScript DEF SoleScript
<1>11. MaxContracts[n] \in Nat /\ Len(chain[n]) + 2 <= MaxContracts[n]
  BY <1>7, <1>9, BoundsAssumption DEF Fits
<1>12. Len(cs) <= MaxContracts[n] /\ Len(cs) + 1 <= MaxContracts[n] BY <1>9, <1>11
<1>13. ChainInv' /\ RecordInv' /\ WiredInv' BY <1>1, <1>7, <1>9, <1>12, GrowStep
<1>14. chain'[n] = cs BY <1>1, <1>7, <1>9 DEF ChainInv
<1>15. CASE pc = "save"
  <2>1. CmdInv' BY <1>1, <1>2, <1>7, <1>9, <1>10, <1>14, <1>15, ToSaveKeeps
  <2> QED BY <1>13, <2>1 DEF DeployInv
<1>16. CASE pc = "proxy"
  <2>1. cmd \in Commands /\ cmd.at \in 1 .. Len(script.makes) /\ cmd.todo # {}
    BY <1>1, <1>7 DEF CmdInv, Commands
  <2>2. /\ cmd' \in Commands /\ cmd'.net = n /\ cmd'.todo = cmd.todo
        /\ cmd'.at = cmd.at /\ cmd'.pc = "proxy" /\ cmd'.addr = impl
    BY <1>2, <1>7, <1>9, <1>16, <2>1 DEF Commands
  <2>3. script' = script BY <1>1, <1>2, <1>8, <2>2, SameScript
  <2>4. HubPoolOf(script, n) # 0 BY <1>7, <1>10 DEF Runs
  <2>5. (HubPoolOf(script, cmd.net))' # 0
    <3>1. HubPoolOf(script, n)' = HubPoolOf(script, n) BY <1>7, <2>3 DEF HubPoolOf
    <3> QED BY <2>2, <2>4, <3>1 DEF HubPoolOf
  <2>6. Fits(cmd.net, 1)' BY <1>12, <1>14, <2>2 DEF Fits
  <2>7. (\A i \in cmd.todo : Fitting(i, cmd.net))' BY <1>1, <1>2, <2>2 DEF Fitting, CmdInv
  <2>8. CmdInv' BY <1>7, <1>9, <1>14, <2>1, <2>2, <2>3, <2>5, <2>6, <2>7 DEF CmdInv, Commands
  <2> QED BY <1>13, <2>8 DEF DeployInv
<1> QED BY <1>6, <1>15, <1>16

\* A contract without a native token of its own is put at the end of a chain
\* and will be saved.
LEMMA CreateKeeps ==
  ASSUME DeployInv, cmd.pc \in {"run", "proxy"}, script.by # "deploy",
         NEW n, n = cmd.net, Fits(n, 1), NEW name, name = script.makes[1],
         NEW kind \in {"zk", "proxy"}, NEW h \in Nat, NEW impl \in Nat,
         NEW c, c = Created(kind, name, h, 0, "none", impl),
         h # 0 => /\ companionNetworks(n) \in Nets /\ "HubPool" \in Names
                  /\ h = saved[companionNetworks(n)]["HubPool"],
         kind = "proxy" => /\ h # 0 /\ impl \in DOMAIN chain[n]
                           /\ chain[n][impl].kind = "implementation",
         chain' = [chain EXCEPT ![n] = Append(@, c)],
         cmd' = [cmd EXCEPT !.pc = "save", !.addr = Len(chain[n]) + 1],
         UNCHANGED <<plan, saved, json, release, failures>>
  PROVE  DeployInv'
<1>1. ChainInv /\ RecordInv /\ WiredInv /\ CmdInv /\ cmd.pc # "idle" BY DEF DeployInv
<1>2. n \in Nets /\ name \in Names BY <1>1, CurrentScript DEF CmdInv
<1>3. SavedAs = name /\ SavedAs # "HubPool" BY <1>1, OtherScript
<1>4. "none" \in {Scripts[i].native : i \in DOMAIN Scripts}
  <2>1. 1 \in DOMAIN Scripts /\ Scripts[1] = deploy_hubpool BY DEF Scripts
  <2>2. deploy_hubpool.native = "none" BY DEF deploy_hubpool, HubSide, Contract
  <2> QED BY <2>1, <2>2
<1>5. release \in Nat BY <1>1, BoundsAssumption DEF ChainInv
<1>6. /\ c \in Deployed /\ c.kind = kind /\ c.name = name
      /\ c.hub = h /\ c.spoke = 0 /\ c.impl = impl
  BY <1>2, <1>4, <1>5 DEF Deployed, Created
<1>7. PICK cs : cs = chain[n] OBVIOUS
<1>8. AllWired(n, cs) /\ cs \in Seq(Deployed)
  BY <1>1, <1>2, <1>7 DEF ChainInv, WiredInv, AllWired
<1>9. PICK ds : ds = Append(cs, c) OBVIOUS
<1>10. /\ ds[Len(cs) + 1] = c /\ Len(cs) \in Nat
       /\ \A a \in DOMAIN cs : a \in DOMAIN ds /\ ds[a] = cs[a]
       /\ Len(cs) + 1 \in DOMAIN ds
  BY <1>6, <1>8, <1>9
<1>11. Wired(n, ds, Len(cs) + 1) BY <1>6, <1>7, <1>10 DEF Wired
<1>12. AllWired(n, ds) /\ Extended(cs, c, ds) BY <1>6, <1>8, <1>9, <1>11, AppendStep
<1>13. Longer(chain[n], ds) /\ Len(ds) <= MaxContracts[n]
  BY <1>7, <1>12 DEF Extended, Fits
<1>14. chain' = [chain EXCEPT ![n] = ds] BY <1>7, <1>9
<1>15. ChainInv' /\ RecordInv' /\ WiredInv' BY <1>1, <1>2, <1>12, <1>13, <1>14, GrowStep
<1>16. chain'[n] = ds BY <1>1, <1>2, <1>14 DEF ChainInv
<1>17. PICK x \in Nat : x = Len(cs) + 1 BY <1>10
<1>18. x \in DOMAIN ds /\ ds[x].name = name BY <1>6, <1>10, <1>17
<1>19. CmdInv' BY <1>1, <1>3, <1>7, <1>16, <1>17, <1>18, ToSaveKeeps
<1> QED BY <1>15, <1>19 DEF DeployInv

\* The second transaction: the proxy, with its admin.
LEMMA DeployProxyKeeps ==
  ASSUME DeployInv, deployProxy
  PROVE  DeployInv'
<1>1. ChainInv /\ RecordInv /\ CmdInv BY DEF DeployInv
<1>2. PICK n : n = cmd.net OBVIOUS
<1>3. PICK h : h = HubPoolOf(script, n) OBVIOUS
<1>4. PICK impl : impl = cmd.addr OBVIOUS
<1>5. PICK c : c = Created("proxy", script.makes[1], h, 0, "none", impl) OBVIOUS
<1>6. /\ cmd.pc = "proxy" /\ chain' = [chain EXCEPT ![n] = Append(@, c)]
      /\ cmd' = [cmd EXCEPT !.pc = "save", !.addr = Len(chain[n]) + 1]
      /\ UNCHANGED <<plan, saved, json, release, failures>>
  BY <1>2, <1>3, <1>4, <1>5 DEF deployProxy
<1>7. /\ n \in Nets /\ impl \in Nat /\ script.by # "deploy" /\ Fits(n, 1) /\ h # 0
      /\ impl \in DOMAIN chain[n] /\ chain[n][impl].kind = "implementation"
  BY <1>1, <1>2, <1>3, <1>4, <1>6 DEF CmdInv
<1>8. /\ h \in Nat /\ companionNetworks(n) \in Nets /\ "HubPool" \in Names
      /\ h = saved[companionNetworks(n)]["HubPool"]
  BY <1>1, <1>3, <1>7, HubPoolFacts
<1> QED BY <1>2, <1>5, <1>6, <1>7, <1>8, CreateKeeps

LEMMA ZkDeployKeeps ==
  ASSUME DeployInv, zkDeploy
  PROVE  DeployInv'
<1>1. PICK n : n = cmd.net OBVIOUS
<1>2. PICK c : c = Created("zk", script.makes[1], 0, 0, "none", 0) OBVIOUS
<1>3. /\ cmd.pc = "run" /\ script.by # "deploy" /\ Fits(n, 1)
      /\ chain' = [chain EXCEPT ![n] = Append(@, c)]
      /\ cmd' = [cmd EXCEPT !.pc = "save", !.addr = Len(chain[n]) + 1]
      /\ UNCHANGED <<plan, saved, json, release, failures>>
  BY <1>1, <1>2 DEF zkDeploy
<1> QED BY <1>1, <1>2, <1>3, CreateKeeps

LEMMA PrepareUpgradeKeeps ==
  ASSUME DeployInv, prepareUpgrade
  PROVE  DeployInv'
<1>1. ChainInv /\ RecordInv /\ WiredInv /\ CmdInv BY DEF DeployInv
<1>2. PICK n : n = cmd.net OBVIOUS
<1>3. PICK name : name = script.makes[1] OBVIOUS
<1>4. PICK cs : cs = WithImplementation(script, n, name) OBVIOUS
<1>5. PICK impl : impl = ImplementationAddress(script, n, name) OBVIOUS
<1>6. /\ cmd.pc = "run" /\ script.by = "prepareUpgrade" /\ Fits(n, 1)
      /\ UNCHANGED <<plan, saved, json, release, failures>>
      /\ chain' = [chain EXCEPT ![n] = cs]
      /\ cmd' = [cmd EXCEPT !.pc = "verify"]
  BY <1>2, <1>3, <1>4 DEF prepareUpgrade
<1>7. /\ n \in Nets /\ AllWired(n, cs) /\ Longer(chain[n], cs)
      /\ Len(cs) \in {Len(chain[n]), Len(chain[n]) + 1} /\ Len(chain[n]) \in Nat
  BY <1>1, <1>2, <1>3, <1>4, <1>5, <1>6, ImplementationFacts
<1>8. MaxContracts[n] \in Nat /\ Len(chain[n]) + 1 <= MaxContracts[n]
  BY <1>6, <1>7, BoundsAssumption DEF Fits
<1>9. Len(cs) <= MaxContracts[n] BY <1>7, <1>8
<1>10. ChainInv' /\ RecordInv' /\ WiredInv' BY <1>1, <1>6, <1>7, <1>9, GrowStep
<1>11. cmd \in Commands /\ cmd.pc # "idle" /\ cmd.at \in 1 .. Len(script.makes)
  BY <1>1, <1>6 DEF CmdInv, Commands
<1>12. /\ cmd' \in Commands /\ cmd'.net = cmd.net /\ cmd'.todo = cmd.todo
       /\ cmd'.at = cmd.at /\ cmd'.pc = "verify"
  BY <1>6, <1>11 DEF Commands
<1>13. CmdInv' BY <1>1, <1>11, <1>12, SameScript
<1> QED BY <1>10, <1>13 DEF DeployInv

-----------------------------------------------------------------------------
(* Saving, and what happens between commands.                              *)

\* The artifact of a HubPool is written once: nothing was given its address
\* before, and nothing replaces it.
LEMMA SaveKeeps ==
  ASSUME DeployInv, save
  PROVE  DeployInv'
<1>1. ChainInv /\ RecordInv /\ WiredInv /\ CmdInv BY DEF DeployInv
<1>2. PICK n : n = cmd.net OBVIOUS
<1>3. PICK name : name = SavedAs OBVIOUS
<1>4. PICK x : x = cmd.addr OBVIOUS
<1>5. /\ cmd.pc = "save" /\ cmd' = Made
      /\ saved' = [saved EXCEPT ![n][name] = x]
      /\ UNCHANGED <<plan, chain, json, release, failures>>
  BY <1>2, <1>3, <1>4 DEF save
<1>6. /\ n \in Nets /\ x \in Nat /\ x \in DOMAIN chain[n] /\ chain[n][x].name = name
      /\ name = "HubPool" => saved[n]["HubPool"] = 0 /\ companionNetworks(n) = n
  BY <1>1, <1>2, <1>3, <1>4, <1>5 DEF CmdInv
<1>7. name \in Names BY <1>1, <1>3, <1>5, CurrentScript
<1>8. CmdInv' BY <1>1, <1>5, MadeKeeps
<1>9. saved' \in [Nets -> [Names -> Nat]] BY <1>1, <1>5, <1>6, <1>7 DEF ChainInv
<1>10. ChainInv' BY <1>1, <1>5, <1>9 DEF ChainInv
<1>11. \A l \in Nets, m \in Names :
         saved'[l][m] = IF l = n /\ m = name THEN x ELSE saved[l][m]
  BY <1>1, <1>5, <1>6, <1>7 DEF ChainInv
<1>12. \A l \in Nets : "HubPool" \in Names /\ saved[l]["HubPool"] # 0 =>
         saved'[l]["HubPool"] = saved[l]["HubPool"]
  BY <1>6, <1>11
<1>13. RecordInv'
  <2> SUFFICES ASSUME NEW l \in Nets
               PROVE  /\ \A m \in Names :
                           saved'[l][m] # 0 =>
                             /\ saved'[l][m] \in DOMAIN chain[l]
                             /\ chain[l][saved'[l][m]].name = m
                             /\ m = "HubPool" => companionNetworks(l) = l
                      /\ \A m \in JsonNames : json[l][m] # 0 => json[l][m] \in DOMAIN chain[l]
                      /\ json[l]["SpokePool"] # 0 =>
                           chain[l][json[l]["SpokePool"]].kind = "proxy"
                      /\ json[l]["HubPool"] # 0 =>
                           "HubPool" \in Names /\ json[l]["HubPool"] = saved'[l]["HubPool"]
    BY <1>5 DEF RecordInv
  <2>1. ASSUME NEW m \in Names, saved'[l][m] # 0
        PROVE  /\ saved'[l][m] \in DOMAIN chain[l]
               /\ chain[l][saved'[l][m]].name = m
               /\ m = "HubPool" => companionNetworks(l) = l
    <3>1. CASE l = n /\ m = name BY <1>6, <1>11, <2>1, <3>1
    <3>2. CASE ~(l = n /\ m = name)
      <4>1. saved'[l][m] = saved[l][m] BY <1>11, <3>2
      <4> QED BY <1>1, <2>1, <4>1 DEF RecordInv
    <3> QED BY <3>1, <3>2
  <2>2. json[l]["HubPool"] # 0 =>
          "HubPool" \in Names /\ json[l]["HubPool"] = saved'[l]["HubPool"]
    BY <1>1, <1>12 DEF RecordInv
  <2> QED BY <1>1, <2>1, <2>2 DEF RecordInv
<1>14. ASSUME NEW l \in Nets, NEW a \in DOMAIN chain[l] PROVE Wired(l, chain[l], a)'
  <2>1. Wired(l, chain[l], a) BY <1>1 DEF WiredInv
  <2> QED BY <1>5, <1>12, <2>1 DEF Wired
<1>15. WiredInv' BY <1>5, <1>14 DEF WiredInv
<1> QED BY <1>8, <1>10, <1>13, <1>15 DEF DeployInv

\* Only the command changes.
LEMMA CmdStep ==
  ASSUME DeployInv, CmdInv', UNCHANGED <<plan, chain, saved, json, release, failures>>
  PROVE  DeployInv'
BY DEF DeployInv, ChainInv, RecordInv, WiredInv, Wired

LEMMA VerifyKeeps ==
  ASSUME DeployInv, verify
  PROVE  DeployInv'
<1>1. CmdInv /\ cmd' = NextScript BY DEF DeployInv, verify
<1>2. CmdInv' BY <1>1, NextScriptKeeps
<1> QED BY <1>2, CmdStep DEF verify

LEMMA ThrowKeeps ==
  ASSUME DeployInv, Throw
  PROVE  DeployInv'
BY IdleKeeps, CmdStep DEF Throw

LEMMA FailKeeps ==
  ASSUME DeployInv, Fail
  PROVE  DeployInv'
<1>1. CmdInv' BY IdleKeeps DEF Fail
<1>2. failures' \in 0 .. MaxFailures
  BY BoundsAssumption DEF Fail, DeployInv, ChainInv
<1> QED BY <1>1, <1>2 DEF Fail, DeployInv, ChainInv, RecordInv, WiredInv, Wired

\* Operators run a pool's script on the pool's network.
LEMMA StartKeeps ==
  ASSUME DeployInv, NEW c \in plan, Start(c[1], c[2])
  PROVE  DeployInv'
<1>1. PICK n : n = c[2] OBVIOUS
<1>2. PICK todo : todo = Selected(c[1]) OBVIOUS
<1>3. c \in UNION Plans BY DEF DeployInv, ChainInv
<1>4. n \in Nets /\ todo \in SUBSET Planned
  BY <1>1, <1>2, <1>3, NetsAssumption, PlannedScripts
<1>5. \A i \in todo : Fitting(i, n)
  BY <1>1, <1>2, <1>3, PoolsAssumption DEF Fitting, expectedWrappedNative
<1>6. todo # {} /\ cmd' = [Idle EXCEPT !.net = n, !.todo = todo, !.pc = "run"]
  BY <1>1, <1>2 DEF Start, Idle
<1>7. CmdInv' BY <1>4, <1>5, <1>6, RunKeeps
<1> QED BY <1>7, CmdStep DEF Start

\* Nothing is running, and the command stays that way.
LEMMA StillIdle ==
  ASSUME CmdInv, cmd.pc = "idle", UNCHANGED cmd
  PROVE  CmdInv'
BY DEF CmdInv, Fitting

LEMMA NewReleaseKeeps ==
  ASSUME DeployInv, NewRelease
  PROVE  DeployInv'
<1>1. CmdInv' BY StillIdle DEF NewRelease, DeployInv
<1>2. release' \in 1 .. MaxReleases
  BY BoundsAssumption DEF NewRelease, DeployInv, ChainInv
<1> QED BY <1>1, <1>2 DEF NewRelease, DeployInv, ChainInv, RecordInv, WiredInv, Wired

\* Only deployments.json changes.
LEMMA JsonStep ==
  ASSUME DeployInv, cmd.pc = "idle",
         UNCHANGED <<plan, chain, saved, release, cmd, failures>>,
         json' \in [Nets -> [JsonNames -> Nat]],
         \A n \in Nets :
           /\ \A m \in JsonNames : json'[n][m] # 0 => json'[n][m] \in DOMAIN chain[n]
           /\ json'[n]["SpokePool"] # 0 => chain[n][json'[n]["SpokePool"]].kind = "proxy"
           /\ json'[n]["HubPool"] # 0 =>
                "HubPool" \in Names /\ json'[n]["HubPool"] = saved[n]["HubPool"]
  PROVE  DeployInv'
<1>1. CmdInv' BY StillIdle DEF DeployInv
<1>2. ChainInv' BY DEF DeployInv, ChainInv
<1>3. RecordInv' BY DEF DeployInv, RecordInv
<1>4. WiredInv' BY DEF DeployInv, WiredInv, Wired
<1> QED BY <1>1, <1>2, <1>3, <1>4 DEF DeployInv

LEMMA RecordByHandKeeps ==
  ASSUME DeployInv, NEW n \in Nets, NEW name \in JsonNames, RecordByHand(n, name)
  PROVE  DeployInv'
<1>1. ChainInv /\ RecordInv BY DEF DeployInv
<1>2. PICK a \in DOMAIN chain[n] :
        /\ IF name = "SpokePool" THEN chain[n][a].kind = "proxy"
                                 ELSE name \in Names /\ saved[n][name] = a
        /\ json' = [json EXCEPT ![n][name] = a]
  BY DEF RecordByHand
<1>3. a \in Nat
  <2>1. chain[n] \in Seq(Deployed) BY <1>1 DEF ChainInv
  <2>2. DOMAIN chain[n] = 1 .. Len(chain[n]) BY <2>1
  <2> QED BY <1>2, <2>2
<1>4. json' \in [Nets -> [JsonNames -> Nat]] BY <1>1, <1>2, <1>3 DEF ChainInv
<1>5. \A l \in Nets, m \in JsonNames :
        json'[l][m] = IF l = n /\ m = name THEN a ELSE json[l][m]
  BY <1>1, <1>2 DEF ChainInv
<1>6. "SpokePool" \in JsonNames /\ "HubPool" \in JsonNames BY DEF JsonNames
<1>7. ASSUME NEW l \in Nets
      PROVE  /\ \A m \in JsonNames : json'[l][m] # 0 => json'[l][m] \in DOMAIN chain[l]
             /\ json'[l]["SpokePool"] # 0 => chain[l][json'[l]["SpokePool"]].kind = "proxy"
             /\ json'[l]["HubPool"] # 0 =>
                  "HubPool" \in Names /\ json'[l]["HubPool"] = saved[l]["HubPool"]
  <2>1. \A m \in JsonNames : json'[l][m] # 0 => json'[l][m] \in DOMAIN chain[l]
    BY <1>1, <1>2, <1>5 DEF RecordInv
  <2>2. json'[l]["SpokePool"] # 0 => chain[l][json'[l]["SpokePool"]].kind = "proxy"
    BY <1>1, <1>2, <1>5, <1>6 DEF RecordInv
  <2>3. json'[l]["HubPool"] # 0 =>
          "HubPool" \in Names /\ json'[l]["HubPool"] = saved[l]["HubPool"]
    BY <1>1, <1>2, <1>5, <1>6 DEF RecordInv
  <2> QED BY <2>1, <2>2, <2>3
<1> QED BY <1>4, <1>7, JsonStep DEF RecordByHand

\* No script makes an artifact named SpokePool.
LEMMA NoSpokePoolArtifact == "SpokePool" \notin Names
<1> SUFFICES ASSUME NEW i \in Planned, NEW k \in DOMAIN Scripts[i].makes
             PROVE  Scripts[i].makes[k] # "SpokePool"
  BY DEF Names, Planned, ToSet
<1>1. ScriptOK(Scripts[i]) BY PlannedScripts
<1>2. PICK s : s = Scripts[i].makes OBVIOUS
<1>3. CASE SoleScript(Scripts[i])
  <2>1. PICK m : s = <<m>> /\ m # "SpokePool" BY <1>2, <1>3 DEF SoleScript
  <2> QED BY <1>2, <2>1
<1>4. CASE HubScript(Scripts[i])
  <2>1. s = <<"LpTokenFactory", "HubPool">> BY <1>2, <1>4 DEF HubScript
  <2> QED BY <1>2, <2>1
<1> QED BY <1>1, <1>3, <1>4 DEF ScriptOK

\* What the export writes are artifacts of contracts that are no pools.
LEMMA ExportKeeps ==
  ASSUME DeployInv, processHardhatExport
  PROVE  DeployInv'
<1>1. ChainInv /\ RecordInv BY DEF DeployInv
<1> DEFINE here == [n \in Nets |-> {m \in Names : saved[n][m] # 0}]
           entry(n, name) ==
             {saved[n][m] : m \in {x \in here[n] : /\ JsonName(n, x) = name
                                                   /\ json[n][x] <= saved[n][x]}}
<1>2. /\ cmd.pc = "idle"
      /\ \A n \in Nets : \A m \in here[n] : ~ ExportFails(n, m)
      /\ json' = [n \in Nets |-> [name \in JsonNames |->
                    IF entry(n, name) = {} THEN 0
                    ELSE CHOOSE a \in entry(n, name) : TRUE]]
      /\ UNCHANGED <<plan, chain, saved, release, cmd, failures>>
  BY DEF processHardhatExport
<1>3. \A n \in Nets : \A m \in here[n] : JsonName(n, m) = m
  BY <1>2 DEF ExportFails, JsonName
<1>4. ASSUME NEW n \in Nets, NEW name \in JsonNames, NEW a \in entry(n, name)
      PROVE  /\ name \in Names /\ a = saved[n][name] /\ a \in DOMAIN chain[n]
             /\ a \in Nat
  <2>1. PICK m \in here[n] : JsonName(n, m) = name /\ a = saved[n][m] BY <1>4
  <2>2. m = name /\ name \in Names /\ saved[n][m] # 0 BY <1>3, <2>1
  <2> QED BY <1>1, <2>1, <2>2 DEF RecordInv, ChainInv
<1> HIDE DEF here, entry
<1>5. ASSUME NEW n \in Nets, NEW name \in JsonNames
      PROVE  \/ json'[n][name] = 0
             \/ /\ name \in Names /\ json'[n][name] = saved[n][name]
                /\ json'[n][name] \in DOMAIN chain[n] /\ json'[n][name] \in Nat
  <2>1. json'[n][name] = IF entry(n, name) = {} THEN 0
                         ELSE CHOOSE a \in entry(n, name) : TRUE
    BY <1>2
  <2>2. CASE entry(n, name) = {} BY <2>1, <2>2
  <2>3. CASE entry(n, name) # {}
    <3>1. json'[n][name] \in entry(n, name) BY <2>1, <2>3
    <3> QED BY <1>4, <3>1
  <2> QED BY <2>2, <2>3
<1>6. json' \in [Nets -> [JsonNames -> Nat]]
  <2>1. \A n \in Nets, name \in JsonNames : json'[n][name] \in Nat BY <1>5
  <2>2. PICK v : v = json' OBVIOUS
  <2>3. v = [n \in Nets |-> [name \in JsonNames |-> v[n][name]]] BY <1>2, <2>2
  <2> QED BY <2>1, <2>2, <2>3
<1>7. "SpokePool" \in JsonNames /\ "HubPool" \in JsonNames BY DEF JsonNames
<1>8. \A n \in Nets : json'[n]["SpokePool"] = 0 BY <1>5, <1>7, NoSpokePoolArtifact
<1> QED BY <1>2, <1>5, <1>6, <1>7, <1>8, JsonStep

\* An upgrade gives the proxy another implementation, and nothing else.
LEMMA UpgradeToKeeps ==
  ASSUME DeployInv, NEW n \in Nets, NEW b \in DOMAIN chain[n], upgradeTo(n, b)
  PROVE  DeployInv'
<1>1. ChainInv /\ RecordInv /\ WiredInv /\ CmdInv BY DEF DeployInv
<1>2. PICK p : p = json[n]["SpokePool"] OBVIOUS
<1>3. PICK cs : cs = chain[n] OBVIOUS
<1>4. PICK ds : ds = [cs EXCEPT ![p].impl = b] OBVIOUS
<1>5. /\ cmd.pc = "idle" /\ p # 0 /\ cs[p].kind = "proxy"
      /\ cs[b].kind = "implementation"
      /\ UNCHANGED <<plan, saved, json, release, cmd, failures>>
  BY <1>2, <1>3 DEF upgradeTo
<1>6. chain' = [chain EXCEPT ![n] = ds]
  BY <1>1, <1>2, <1>3, <1>4 DEF upgradeTo, ChainInv
<1>7. cs \in Seq(Deployed) /\ b \in DOMAIN cs /\ p \in DOMAIN cs
  BY <1>1, <1>2, <1>3, <1>5, SpokePoolFacts DEF ChainInv
<1>8. DOMAIN cs = 1 .. Len(cs) /\ Len(cs) \in Nat /\ cs \in [1 .. Len(cs) -> Deployed]
  BY <1>7
<1>9. b \in Nat BY <1>7, <1>8
<1>10. PICK d : d = [cs[p] EXCEPT !.impl = b] OBVIOUS
<1>11. cs[p] \in Deployed BY <1>7, <1>8
<1>12. /\ d \in Deployed /\ d.kind = cs[p].kind /\ d.name = cs[p].name
       /\ d.hub = cs[p].hub /\ d.spoke = cs[p].spoke /\ d.impl = b
  BY <1>9, <1>10, <1>11 DEF Deployed
<1>13. ds = [cs EXCEPT ![p] = d] BY <1>4, <1>10
<1>14. ds \in [1 .. Len(cs) -> Deployed] BY <1>8, <1>12, <1>13
<1>15. ds \in Seq(Deployed) /\ DOMAIN ds = DOMAIN cs /\ Len(ds) = Len(cs)
  BY <1>8, <1>14
<1>16. \A a \in DOMAIN cs : ds[a] = IF a = p THEN d ELSE cs[a] BY <1>8, <1>13
<1>17. \A a \in DOMAIN cs : ds[a].kind = cs[a].kind /\ ds[a].name = cs[a].name
  BY <1>12, <1>16
<1>18. ASSUME NEW a \in DOMAIN ds PROVE Wired(n, ds, a)
  <2>1. Wired(n, cs, a) BY <1>1, <1>3, <1>15 DEF WiredInv
  <2>2. CASE a = p
    <3>1. ds[a] = d BY <1>15, <1>16, <2>2
    <3> QED BY <1>5, <1>7, <1>12, <1>15, <1>17, <2>1, <2>2, <3>1 DEF Wired
  <2>3. CASE a # p
    <3>1. ds[a] = cs[a] BY <1>15, <1>16, <2>3
    <3> QED BY <1>15, <1>17, <2>1, <3>1 DEF Wired
  <2> QED BY <2>2, <2>3
<1>19. Len(ds) <= MaxContracts[n] BY <1>1, <1>3, <1>15 DEF ChainInv
<1>20. \A a \in DOMAIN chain[n] : /\ a \in DOMAIN ds /\ ds[a].kind = chain[n][a].kind
                                  /\ ds[a].name = chain[n][a].name
  BY <1>3, <1>15, <1>17
<1>21. ChainInv' /\ RecordInv' /\ WiredInv'
  BY <1>1, <1>5, <1>6, <1>15, <1>18, <1>19, <1>20, ChainStep
<1>22. CmdInv' BY <1>1, <1>5, StillIdle
<1> QED BY <1>21, <1>22 DEF DeployInv

-----------------------------------------------------------------------------
(* Routes.                                                                 *)

\* The token a chain has, if it has one, is known.
LEMMA TokenOnIsKnown ==
  ASSUME NEW c
  PROVE  tokenOn(c) # NO_SYMBOL => tokenOn(c) \in DOMAIN TOKEN_SYMBOLS_MAP
<1> SUFFICES ASSUME tokenOn(c) # NO_SYMBOL
             PROVE  tokenOn(c) \in DOMAIN TOKEN_SYMBOLS_MAP
  OBVIOUS
<1> DEFINE kinds == <<"USDC", "USDC.e", "USDbC", "USDzC">>
           found == {i \in 1 .. 4 : HasToken(kinds[i], c)}
           there == IF Symbol = "DAI" /\ c = "blast" THEN "USDB" ELSE Symbol
<1>1. CASE Symbol = "USDC"
  <2>1. /\ found # {}
        /\ tokenOn(c) = kinds[CHOOSE i \in found : \A j \in found : i <= j]
    BY <1>1 DEF tokenOn, resolveTokenOnChain
  <2>2. found \in SUBSET Nat OBVIOUS
  <2>3. \E i \in found : \A j \in found : i <= j BY <2>1, <2>2, LeastExists
  <2>4. PICK j : j = CHOOSE i \in found : \A k \in found : i <= k OBVIOUS
  <2>5. j \in found BY <2>3, <2>4
  <2>6. HasToken(kinds[j], c) BY <2>5
  <2> QED BY <2>1, <2>4, <2>6 DEF HasToken
<1>2. CASE Symbol # "USDC"
  <2>1. HasToken(there, c) /\ tokenOn(c) = there
    BY <1>2 DEF tokenOn, resolveTokenOnChain
  <2> QED BY <2>1 DEF HasToken
<1> QED BY <1>1, <1>2

\* A run that lists chains adds routes at those chains only, and each of them
\* gets its rebalance route in the same call.
LEMMA EnableL1TokenKeeps ==
  ASSUME RouteInv, NEW I \in SUBSET enabledChainIds, NEW D \in SUBSET I,
         enableL1Token(I, D)
  PROVE  RouteInv'
<1>1. PICK chainIds : chainIds = enabledChainIds \intersect I OBVIOUS
<1>2. chainIds \subseteq enabledChainIds BY <1>1
<1>3. /\ lp' = (lp \/ D = {})
      /\ routes' = routes \union depositRoutes(chainIds, D)
      /\ rebalance' = [c \in enabledChainIds |->
                         IF c \in rebalanceRoutes(chainIds, D) THEN tokenOn(c)
                                                               ELSE rebalance[c]]
      /\ whitelisted' = (whitelisted \/ "arbitrum" \in D)
  BY <1>1 DEF enableL1Token
<1>4. lp' \in BOOLEAN /\ whitelisted' \in BOOLEAN BY <1>3, Zenon
<1>5. \A c \in enabledChainIds :
        \/ /\ c \in rebalanceRoutes(chainIds, D) /\ rebalance'[c] = tokenOn(c)
           /\ tokenOn(c) # NO_SYMBOL
        \/ /\ c \notin rebalanceRoutes(chainIds, D) /\ rebalance'[c] = rebalance[c]
  BY <1>3 DEF rebalanceRoutes
<1>6. \A c \in enabledChainIds :
        rebalance'[c] \in {NO_SYMBOL} \union DOMAIN TOKEN_SYMBOLS_MAP
  BY <1>5, TokenOnIsKnown DEF RouteInv
<1>7. rebalance' \in [enabledChainIds -> {NO_SYMBOL} \union DOMAIN TOKEN_SYMBOLS_MAP]
  <2>1. PICK v : v = rebalance' OBVIOUS
  <2>2. v = [c \in enabledChainIds |-> v[c]] BY <1>3, <2>1
  <2> QED BY <1>6, <2>1, <2>2
<1>8. \A c \in enabledChainIds : rebalance'[c] \in {NO_SYMBOL, tokenOn(c)}
  BY <1>5 DEF RouteInv
<1>9. ASSUME NEW r \in depositRoutes(chainIds, D)
      PROVE  /\ r \in enabledChainIds \X enabledChainIds \X DOMAIN TOKEN_SYMBOLS_MAP
             /\ r[3] = tokenOn(r[1])
             /\ rebalance'[r[1]] # NO_SYMBOL \/ rebalance'[r[2]] # NO_SYMBOL
  <2>1. PICK q \in chainIds \X chainIds :
          /\ r = <<q[1], q[2], tokenOn(q[1])>>
          /\ NO_SYMBOL \notin {tokenOn(q[1]), tokenOn(q[2])}
          /\ D = {} \/ q[1] \in D \/ q[2] \in D
    BY DEF depositRoutes
  <2>2. q[1] \in chainIds /\ q[2] \in chainIds BY <2>1
  <2>3. tokenOn(q[1]) \in DOMAIN TOKEN_SYMBOLS_MAP BY <2>1, TokenOnIsKnown
  <2>4. r[1] = q[1] /\ r[2] = q[2] /\ r[3] = tokenOn(q[1]) BY <2>1
  <2>5. r \in enabledChainIds \X enabledChainIds \X DOMAIN TOKEN_SYMBOLS_MAP
    BY <1>2, <2>1, <2>2, <2>3
  <2>6. q[1] \in rebalanceRoutes(chainIds, D) \/ q[2] \in rebalanceRoutes(chainIds, D)
    BY <2>1, <2>2 DEF rebalanceRoutes
  <2>7. rebalance'[q[1]] # NO_SYMBOL \/ rebalance'[q[2]] # NO_SYMBOL
    BY <1>2, <1>5, <2>2, <2>6
  <2> QED BY <2>4, <2>5, <2>7
<1>10. ASSUME NEW r \in routes
       PROVE  /\ r \in enabledChainIds \X enabledChainIds \X DOMAIN TOKEN_SYMBOLS_MAP
              /\ r[3] = tokenOn(r[1])
              /\ rebalance'[r[1]] # NO_SYMBOL \/ rebalance'[r[2]] # NO_SYMBOL
  <2>1. /\ r \in enabledChainIds \X enabledChainIds \X DOMAIN TOKEN_SYMBOLS_MAP
        /\ r[3] = tokenOn(r[1])
        /\ rebalance[r[1]] # NO_SYMBOL \/ rebalance[r[2]] # NO_SYMBOL
    BY DEF RouteInv
  <2>2. r[1] \in enabledChainIds /\ r[2] \in enabledChainIds BY <2>1
  <2> QED BY <1>5, <2>1, <2>2
<1>11. (\A c \in enabledChainIds : rebalance[c] \in {NO_SYMBOL, tokenOn(c)})'
  BY <1>8 DEF tokenOn, resolveTokenOnChain, HasToken
<1>12. (\A r \in routes : r[3] = tokenOn(r[1]))'
  BY <1>3, <1>9, <1>10
<1> QED BY <1>3, <1>4, <1>7, <1>9, <1>10, <1>11, <1>12 DEF RouteInv

LEMMA SetupArbitrumKeeps ==
  ASSUME RouteInv, setupArbitrumSpokePool
  PROVE  RouteInv'
<1>1. whitelisted' = TRUE /\ UNCHANGED <<lp, routes, rebalance>>
  BY DEF setupArbitrumSpokePool
<1> QED BY <1>1 DEF RouteInv

LEMMA RoutesStay ==
  ASSUME RouteInv, UNCHANGED tokenVars
  PROVE  RouteInv'
BY DEF RouteInv, tokenVars

-----------------------------------------------------------------------------
(* Invariance.                                                             *)

LEMMA InitIInv == Init => IInv
<1> SUFFICES ASSUME Init PROVE IInv OBVIOUS
<1>1. ChainInv
  <2>1. chain \in [Nets -> Seq(Deployed)] BY DEF Init
  <2>2. \A n \in Nets : Len(chain[n]) <= MaxContracts[n] BY BoundsAssumption DEF Init
  <2>3. saved \in [Nets -> [Names -> Nat]] /\ json \in [Nets -> [JsonNames -> Nat]]
    BY DEF Init
  <2> QED BY <2>1, <2>2, <2>3, BoundsAssumption DEF Init, ChainInv
<1>2. RecordInv
  <2>1. "SpokePool" \in JsonNames /\ "HubPool" \in JsonNames BY DEF JsonNames
  <2>2. \A n \in Nets : /\ \A m \in Names : saved[n][m] = 0
                        /\ \A m \in JsonNames : json[n][m] = 0
    BY DEF Init
  <2> QED BY <2>1, <2>2 DEF RecordInv
<1>3. WiredInv
  <2>1. \A n \in Nets : DOMAIN chain[n] = {} BY DEF Init
  <2> QED BY <2>1 DEF WiredInv
<1>4. CmdInv
  <2>1. cmd = Idle BY DEF Init
  <2>2. Idle \in Commands BY NetsAssumption DEF Idle, Commands
  <2>3. Idle.pc = "idle" /\ Idle.todo = {} BY DEF Idle
  <2> QED BY <2>1, <2>2, <2>3 DEF CmdInv, Commands
<1>5. RouteInv BY DEF Init, RouteInv
<1> QED BY <1>1, <1>2, <1>3, <1>4, <1>5 DEF IInv, DeployInv

\* A step of a command, or between commands, that is none of the token task.
DeployStep ==
    \/ \E c \in plan : Start(c[1], c[2])
    \/ deploy \/ deployNewProxy \/ deployProxy \/ zkDeploy \/ prepareUpgrade
    \/ save \/ verify \/ Throw \/ Fail
    \/ NewRelease
    \/ \E n \in Nets, name \in JsonNames : RecordByHand(n, name)
    \/ processHardhatExport
    \/ \E n \in Nets : \E a \in DOMAIN chain[n] : upgradeTo(n, a)

LEMMA DeployStepKeeps ==
  ASSUME DeployInv, DeployStep
  PROVE  DeployInv' /\ UNCHANGED tokenVars
<1>1. UNCHANGED tokenVars
  BY DEF DeployStep, Start, deploy, deployNewProxy, deployProxy, zkDeploy,
         prepareUpgrade, save, verify, Throw, Fail, NewRelease, RecordByHand, processHardhatExport, upgradeTo
<1> SUFFICES DeployInv' BY <1>1
<1>2. CASE \E c \in plan : Start(c[1], c[2]) BY <1>2, StartKeeps
<1>3. CASE deploy BY <1>3, DeployKeeps
<1>4. CASE deployNewProxy BY <1>4, DeployNewProxyKeeps
<1>5. CASE zkDeploy BY <1>5, ZkDeployKeeps
<1>6. CASE prepareUpgrade BY <1>6, PrepareUpgradeKeeps
<1>7. CASE save BY <1>7, SaveKeeps
<1>8. CASE verify BY <1>8, VerifyKeeps
<1>9. CASE Throw BY <1>9, ThrowKeeps
<1>10. CASE Fail BY <1>10, FailKeeps
<1>11. CASE NewRelease BY <1>11, NewReleaseKeeps
<1>12. CASE \E n \in Nets, name \in JsonNames : RecordByHand(n, name)
  BY <1>12, RecordByHandKeeps
<1>13. CASE processHardhatExport BY <1>13, ExportKeeps
<1>14. CASE \E n \in Nets : \E a \in DOMAIN chain[n] : upgradeTo(n, a)
  BY <1>14, UpgradeToKeeps
<1>15. CASE deployProxy BY <1>15, DeployProxyKeeps
<1> QED BY <1>1, <1>2, <1>3, <1>4, <1>5, <1>6, <1>7, <1>8, <1>9, <1>10, <1>11,
           <1>12, <1>13, <1>14, <1>15 DEF DeployStep

LEMMA DeploymentStays ==
  ASSUME DeployInv, UNCHANGED deployVars
  PROVE  DeployInv'
<1>1. UNCHANGED <<plan, chain, saved, json, release, cmd, failures>> BY DEF deployVars
<1>2. ChainInv' /\ RecordInv' BY <1>1 DEF DeployInv, ChainInv, RecordInv
<1>3. WiredInv' BY <1>1 DEF DeployInv, WiredInv, Wired
<1>4. script' = script /\ SavedAs' = SavedAs BY <1>1 DEF script, SavedAs, Min
<1>5. /\ HubPoolOf(script, cmd.net)' = HubPoolOf(script, cmd.net)
      /\ Fits(cmd.net, 1)' = Fits(cmd.net, 1)
  BY <1>1, <1>4 DEF HubPoolOf, Fits
<1>6. CmdInv' BY <1>1, <1>4, <1>5 DEF DeployInv, CmdInv, Fitting
<1> QED BY <1>2, <1>3, <1>6 DEF DeployInv

LEMMA NextIInv == IInv /\ [Next]_vars => IInv'
<1> SUFFICES ASSUME IInv, [Next]_vars PROVE IInv' OBVIOUS
<1>1. DeployInv /\ RouteInv BY DEF IInv
<1>2. CASE DeployStep BY <1>1, <1>2, DeployStepKeeps, RoutesStay DEF IInv
<1>3. ASSUME NEW I \in SUBSET enabledChainIds, NEW D \in SUBSET I, enableL1Token(I, D)
      PROVE  IInv'
  <2>1. UNCHANGED deployVars BY <1>3 DEF enableL1Token
  <2> QED BY <1>1, <1>3, <2>1, EnableL1TokenKeeps, DeploymentStays DEF IInv
<1>4. CASE setupArbitrumSpokePool
  <2>1. UNCHANGED deployVars BY <1>4 DEF setupArbitrumSpokePool
  <2> QED BY <1>1, <1>4, <2>1, SetupArbitrumKeeps, DeploymentStays DEF IInv
<1>5. CASE UNCHANGED vars
  BY <1>1, <1>5, RoutesStay, DeploymentStays DEF IInv, vars
<1>6. Next => \/ DeployStep \/ setupArbitrumSpokePool
              \/ \E I \in SUBSET enabledChainIds : \E D \in SUBSET I : enableL1Token(I, D)
  BY DEF Next, DeployStep
<1> QED BY <1>2, <1>3, <1>4, <1>5, <1>6

\* The inductive invariant holds.
THEOREM Invariance == Spec => []IInv
BY InitIInv, NextIInv, PTL DEF Spec

\* Every artifact is the address of a contract of that name, whatever commands
\* are run, fail and are run again (hre.deployments.save).
THEOREM TypeCorrect == Spec => []TypeOK
<1>1. IInv => TypeOK
  <2> SUFFICES ASSUME IInv PROVE TypeOK OBVIOUS
  <2>1. ChainInv /\ RecordInv /\ CmdInv /\ RouteInv BY DEF IInv, DeployInv
  <2>2. \A n \in Nets :
          /\ Len(chain[n]) <= MaxContracts[n]
          /\ \A m \in Names :
               saved[n][m] # 0 => /\ saved[n][m] \in DOMAIN chain[n]
                                  /\ chain[n][saved[n][m]].name = m
          /\ \A m \in JsonNames : json[n][m] \in {0} \union DOMAIN chain[n]
    BY <2>1 DEF ChainInv, RecordInv
  <2>3. release \in 1 .. MaxReleases /\ failures \in 0 .. MaxFailures
    BY <2>1 DEF ChainInv
  <2>4. cmd.net \in Nets /\ cmd.pc \in {"idle", "run", "proxy", "save", "verify"}
    BY <2>1 DEF CmdInv
  <2>5. /\ routes \subseteq enabledChainIds \X enabledChainIds \X DOMAIN TOKEN_SYMBOLS_MAP
        /\ \A c \in enabledChainIds :
             rebalance[c] \in {NO_SYMBOL} \union DOMAIN TOKEN_SYMBOLS_MAP
    BY <2>1 DEF RouteInv
  <2>6. lp \in BOOLEAN /\ whitelisted \in BOOLEAN BY <2>1, Zenon DEF RouteInv
  <2> QED BY <2>2, <2>3, <2>4, <2>5, <2>6 DEF TypeOK
<1> QED BY <1>1, Invariance, PTL

\* Nothing is wired to a HubPool that was replaced, or to an implementation of
\* a SpokePool (deployments.get and getDeployedAddress in the scripts).
THEOREM WiredToLive == Spec => []WiredToLivePools
<1>1. IInv => WiredToLivePools
  BY DEF IInv, DeployInv, WiredInv, Wired, WiredToLivePools
<1> QED BY <1>1, Invariance, PTL

\* The recorded pool passes the assertions of verify-spokepool: a proxy keeps
\* the admin it was given, which is the recorded HubPool, and every
\* implementation it is upgraded to was built for its network.
THEOREM RecordedConfigured == Spec => []RecordedPoolsConfigured
<1>1. IInv => RecordedPoolsConfigured
  <2> SUFFICES ASSUME IInv, NEW n \in Nets \ {"polygon-amoy", "boba"}, NEW a,
                      a = json[n]["SpokePool"], a # 0
               PROVE  /\ wrappedNativeToken(n, a) = expectedWrappedNative(n)
                      /\ json[hubChainId(n)]["HubPool"] # 0 =>
                           crossDomainAdmin(n, a) = json[hubChainId(n)]["HubPool"]
    BY DEF RecordedPoolsConfigured, getDeployedAddress
  <2>1. ChainInv /\ RecordInv /\ WiredInv BY DEF IInv, DeployInv
  <2>2. PICK c : c = chain[n][a] OBVIOUS
  <2>3. a \in DOMAIN chain[n] /\ c.kind = "proxy" BY <2>1, <2>2, SpokePoolFacts
  <2>4. Wired(n, chain[n], a) BY <2>1, <2>3 DEF WiredInv
  <2>5. /\ c.hub # 0 /\ companionNetworks(n) \in Nets
        /\ c.hub = saved[companionNetworks(n)]["HubPool"]
        /\ c.impl \in DOMAIN chain[n] /\ chain[n][c.impl].kind = "implementation"
    BY <2>2, <2>3, <2>4 DEF Wired
  <2>6. Wired(n, chain[n], c.impl) BY <2>1, <2>5 DEF WiredInv
  <2>7. chain[n][c.impl].native = expectedWrappedNative(n) BY <2>5, <2>6 DEF Wired
  <2>8. companionNetworks(n) = hubChainId(n)
    <3>1. CASE n \in DOMAIN networks
      BY <3>1 DEF companionNetworks, networks, hubChainId
    <3>2. CASE n \notin DOMAIN networks
      <4>1. n \in DOMAIN testNetworks BY <3>2, NetsAssumption DEF Networks
      <4>2. companionNetworks(n) = testNetworks[n] BY <3>2 DEF companionNetworks
      <4>3. "goerli" \notin Networks BY DEF Networks, networks, testNetworks
      <4>4. testNetworks[n] # "goerli" BY <2>5, <4>2, <4>3, NetsAssumption
      <4>5. testNetworks[n] = "sepolia" BY <4>1, <4>4 DEF testNetworks
      <4> QED BY <3>2, <4>2, <4>5 DEF hubChainId
    <3> QED BY <3>1, <3>2
  <2>9. json[hubChainId(n)]["HubPool"] # 0 =>
          json[hubChainId(n)]["HubPool"] = saved[hubChainId(n)]["HubPool"]
    BY <2>1, <2>5, <2>8 DEF RecordInv
  <2>10. wrappedNativeToken(n, a) = expectedWrappedNative(n)
    BY <2>2, <2>3, <2>7 DEF wrappedNativeToken
  <2>11. crossDomainAdmin(n, a) = saved[hubChainId(n)]["HubPool"]
    BY <2>2, <2>3, <2>5, <2>8 DEF crossDomainAdmin
  <2> QED BY <2>9, <2>10, <2>11
<1> QED BY <1>1, Invariance, PTL

\* No deposit route without a rebalance route at one of its ends, however the
\* runs of enable-l1-token-across-ecosystem list and leave out chains.
THEOREM RoutesAreRebalanced == Spec => []RoutesRebalanced
<1>1. IInv => RoutesRebalanced
  <2> SUFFICES ASSUME IInv, NEW r \in routes
               PROVE  /\ rebalance[r[1]] # NO_SYMBOL \/ rebalance[r[2]] # NO_SYMBOL
                      /\ rebalance[r[1]] \in {NO_SYMBOL, r[3]}
    BY DEF RoutesRebalanced
  <2>1. /\ r \in enabledChainIds \X enabledChainIds \X DOMAIN TOKEN_SYMBOLS_MAP
        /\ r[3] = tokenOn(r[1])
        /\ rebalance[r[1]] # NO_SYMBOL \/ rebalance[r[2]] # NO_SYMBOL
        /\ \A c \in enabledChainIds : rebalance[c] \in {NO_SYMBOL, tokenOn(c)}
    BY DEF IInv, RouteInv
  <2>2. r[1] \in enabledChainIds BY <2>1
  <2> QED BY <2>1, <2>2
<1> QED BY <1>1, Invariance, PTL
=============================================================================
