--------------------------- MODULE DeployScripts ---------------------------
(***************************************************************************)
(* The deploy scripts (deploy/NNN_*.ts), the address book they read        *)
(* (deploy/consts.ts) and the networks they run on (hardhat.config.ts), as *)
(* tables. A chain id is the name of its network. A script is a record:    *)
(*   makes    the artifacts it saves, in order                             *)
(*   by       how: hardhat-deploy's deploy, deployNewProxy, the zkSync     *)
(*            deployer and its proxies, or prepareUpgrade                  *)
(*   tags, deps   what selects it, and the tags it pulls in                *)
(*   skip     skipIfAlreadyDeployed                                        *)
(*   l1, l2   the keys it reads of L1_ADDRESS_MAP and L2_ADDRESS_MAP       *)
(*   hub      whose HubPool it passes on: the network's own, the one of    *)
(*            its l1 companion, or none                                    *)
(*   spoke    it passes on getDeployedAddress("SpokePool")                 *)
(*   native   the wrapped native token of a pool                           *)
(*   salt     the address is that of a create2 call                        *)
(*   verify   it ends with verify:verify, which may throw                  *)
(*   encodes  its literal arguments can be ABI-encoded                     *)
(***************************************************************************)
EXTENDS Naturals, Sequences

\* networks of hardhat.config.ts and their l1 companions.
networks ==
    [n \in {"mainnet", "zksync", "optimism", "arbitrum", "polygon", "boba",
            "base", "linea", "scroll", "polygon-zk-evm", "mode", "lisk",
            "redstone", "blast", "worldchain", "zora"} |-> "mainnet"]

testNetworks ==
    [n \in {"sepolia", "optimism-sepolia", "arbitrum-sepolia", "polygon-amoy",
            "base-sepolia", "scroll-sepolia", "polygon-zk-evm-testnet",
            "mode-sepolia", "lisk-sepolia", "blast-sepolia"}
       |-> IF n = "polygon-zk-evm-testnet" THEN "goerli" ELSE "sepolia"]

Networks == DOMAIN networks \union DOMAIN testNetworks

companionNetworks(n) ==
    IF n \in DOMAIN networks THEN networks[n] ELSE testNetworks[n]

\* etherscan.apiKey: the explorers there is a key for.
apiKey ==
    {"mainnet", "sepolia", "optimism", "optimism-sepolia", "arbitrum",
     "arbitrum-sepolia", "polygon", "polygon-amoy", "base", "base-sepolia",
     "linea", "scroll", "scroll-sepolia", "polygon-zk-evm",
     "polygon-zk-evm-testnet", "mode", "mode-sepolia", "lisk", "lisk-sepolia",
     "redstone", "blast", "blast-sepolia", "zora", "worldchain"}

\* etherscan.customChains: the explorers the plugin does not know by itself.
customChains ==
    {"base", "base-sepolia", "linea", "sepolia", "scroll", "scroll-sepolia",
     "optimism-sepolia", "polygon-zk-evm", "polygon-zk-evm-testnet",
     "polygon-amoy", "arbitrum-sepolia", "mode-sepolia", "mode", "lisk",
     "lisk-sepolia", "redstone", "blast", "blast-sepolia", "worldchain", "zora"}

\* Where verify:verify can succeed; zkSync has a verifyURL of its own.
Verifiable ==
    (apiKey \intersect
       (customChains \union {"mainnet", "optimism", "arbitrum", "polygon"}))
    \union {"zksync"}

-----------------------------------------------------------------------------
(* deploy/consts.ts                                                        *)

L1_Both ==
    {"optimismCrossDomainMessenger", "optimismStandardBridge",
     "bobaCrossDomainMessenger", "bobaStandardBridge", "finder",
     "l1ArbitrumInbox", "l1ERC20GatewayRouter", "polygonRootChainManager",
     "polygonFxRoot", "polygonERC20Predicate", "polygonRegistry",
     "polygonDepositManager", "baseCrossDomainMessenger", "baseStandardBridge",
     "l1BlastBridge", "blastCrossDomainMessenger", "blastStandardBridge",
     "cctpTokenMessenger", "cctpMessageTransmitter", "lineaMessageService",
     "lineaTokenBridge", "lineaUsdcBridge", "scrollERC20GatewayRouter",
     "scrollMessengerRelay", "scrollGasPriceOracle",
     "modeCrossDomainMessenger", "modeStandardBridge",
     "liskCrossDomainMessenger", "liskStandardBridge"}

L1_ADDRESS_MAP(n) ==
    CASE n = "mainnet" ->
           L1_Both \union
             {"blastYieldManager", "blastDaiRetriever",
              "redstoneCrossDomainMessenger", "redstoneStandardBridge",
              "zoraCrossDomainMessenger", "zoraStandardBridge",
              "worldChainCrossDomainMessenger", "worldChainStandardBridge"}
      [] n = "sepolia" -> L1_Both \union {"usdc"}
      [] OTHER -> {}

CCTP == {"cctpTokenMessenger", "cctpMessageTransmitter"}

L2_ADDRESS_MAP(n) ==
    CASE n = "arbitrum-sepolia" -> CCTP \union {"l2GatewayRouter"}
      [] n = "arbitrum" ->
           CCTP \union {"l2GatewayRouter", "uniswapV3SwapRouter", "1inchV6Router"}
      [] n = "polygon" ->
           CCTP \union {"fxChild", "uniswapV3SwapRouter", "1inchV6Router"}
      [] n = "polygon-amoy" -> CCTP \union {"fxChild"}
      [] n = "zksync" -> {"zkErc20Bridge", "1inchV6Router"}
      [] n \in {"optimism", "base"} ->
           CCTP \union {"uniswapV3SwapRouter", "1inchV6Router"}
      [] n \in {"optimism-sepolia", "base-sepolia"} ->
           CCTP \union {"uniswapV3SwapRouter"}
      [] n = "linea" ->
           {"lineaMessageService", "lineaUsdcBridge", "lineaTokenBridge"}
      [] n \in {"scroll", "scroll-sepolia"} ->
           {"scrollERC20GatewayRouter", "scrollGasPriceOracle", "scrollMessenger"}
      [] n = "polygon-zk-evm-testnet" -> {"l2Weth", "polygonZkEvmBridge"}
      [] OTHER -> {}

-----------------------------------------------------------------------------
(* Kinds of scripts.                                                       *)

Contract(name, tags) ==
    [makes |-> <<name>>, by |-> "deploy", tags |-> tags, deps |-> {},
     skip |-> TRUE, l1 |-> {}, l2 |-> {}, hub |-> "none", spoke |-> FALSE,
     native |-> "none", salt |-> FALSE, verify |-> FALSE,
     encodes |-> TRUE]

\* A contract of the hub chain that reads keys of L1_ADDRESS_MAP.
HubSide(name, tag, keys) ==
    [Contract(name, {tag, "mainnet"}) EXCEPT !.l1 = keys]

\* An adapter that is deployed again whenever its code or arguments change.
Replaced(s) == [s EXCEPT !.skip = FALSE]

Verified(s) == [s EXCEPT !.verify = TRUE]

AfterHubPool(s) == [s EXCEPT !.deps = {"HubPool"}]

WithHubPool(s) == [s EXCEPT !.hub = "own"]

\* A pool: its admin is the HubPool of getSpokePoolDeploymentInfo.
Pool(name, tag, group, keys) ==
    [Contract(name, {tag, group}) EXCEPT
        !.by = "proxy", !.l2 = keys, !.hub = "l1", !.native = "WETH",
        !.verify = TRUE]

\* A periphery contract in front of the recorded SpokePool.
Periphery(name, tags, key) ==
    [Contract(name, tags) EXCEPT !.l2 = {key}, !.spoke = TRUE]

-----------------------------------------------------------------------------
(* The scripts, in the order of their files.                               *)

deploy_hubpool_always ==
    [HubSide("HubPool", "HubPool", {"finder"})
       EXCEPT !.makes = <<"LpTokenFactory", "HubPool">>, !.skip = FALSE]

deploy_hubpool ==
    [HubSide("HubPool", "HubPool", {"finder"})
       EXCEPT !.makes = <<"LpTokenFactory", "HubPool">>]

deploy_optimism_adapter ==
    Verified(Replaced(HubSide("Optimism_Adapter", "OptimismAdapter",
        {"optimismCrossDomainMessenger", "optimismStandardBridge",
         "cctpTokenMessenger"})))

deploy_optimism_spokepool ==
    Pool("Optimism_SpokePool", "OptimismSpokePool", "optimism",
         {"cctpTokenMessenger"})

deploy_arbitrum_adapter ==
    Verified(Replaced(HubSide("Arbitrum_Adapter", "ArbitrumAdapter",
        {"l1ArbitrumInbox", "l1ERC20GatewayRouter", "cctpTokenMessenger"})))

deploy_arbitrum_spokepool ==
    Pool("Arbitrum_SpokePool", "ArbitrumSpokePool", "arbitrum",
         {"l2GatewayRouter", "cctpTokenMessenger"})

deploy_ethereum_adapter ==
    AfterHubPool(HubSide("Ethereum_Adapter", "EthereumAdapter", {}))

deploy_ethereum_spokepool ==
    Pool("Ethereum_SpokePool", "EthereumSpokePool", "mainnet", {})

deploy_polygon_token_bridger_mainnet ==
    [AfterHubPool(WithHubPool(HubSide("PolygonTokenBridger",
        "PolygonTokenBridgerL1", {"polygonRegistry"}))) EXCEPT !.salt = TRUE]

deploy_polygon_adapter ==
    Verified(Replaced(HubSide("Polygon_Adapter", "PolygonAdapter",
        {"polygonRootChainManager", "polygonFxRoot", "polygonDepositManager",
         "polygonERC20Predicate", "cctpTokenMessenger"})))

deploy_polygon_token_bridger_polygon ==
    [Contract("PolygonTokenBridger", {"PolygonTokenBridgerL2", "polygon"})
       EXCEPT !.hub = "l1", !.l1 = {"polygonRegistry"}, !.salt = TRUE]

deploy_polygon_spokepool ==
    [Pool("Polygon_SpokePool", "PolygonSpokePool", "polygon",
          {"fxChild", "cctpTokenMessenger"})
       EXCEPT !.native = "WMATIC"]

deploy_boba_adapter ==
    AfterHubPool(HubSide("Boba_Adapter", "BobaAdapter",
        {"bobaCrossDomainMessenger", "bobaStandardBridge"}))

deploy_boba_spokepool ==
    [Pool("Boba_SpokePool", "BobaSpokePool", "boba", {})
       EXCEPT !.native = "0xDeadDeAddeAddEAddeadDEaDDEAdDeaDDeAD0000"]

deploy_config_store == HubSide("AcrossConfigStore", "AcrossConfigStore", {})

deploy_zksync_adapter == HubSide("ZkSync_Adapter", "ZkSyncAdapter", {})

deploy_zksync_spokepool ==
    [Pool("ZkSync_SpokePool", "ZkSyncSpokePool", "zksync", {"zkErc20Bridge"})
       EXCEPT !.by = "zkProxy"]

deploy_ethereum_merkle_distributor ==
    HubSide("AcrossMerkleDistributor", "MerkleDistributor", {})

deploy_arbitrum_rescueadapter ==
    HubSide("Arbitrum_RescueAdapter", "ArbitrumRescueAdapter",
            {"l1ArbitrumInbox"})

deploy_bond_token ==
    Verified(AfterHubPool(WithHubPool(HubSide("BondToken", "BondToken", {}))))

deploy_arbitrum_sendtoken_adapter ==
    HubSide("Arbitrum_SendTokensAdapter", "ArbitrumSendTokensAdapter",
            {"l1ERC20GatewayRouter"})

deploy_erc1155 == Contract("MintableERC1155", {"MintableERC1155"})

\* Nothing is saved: a new implementation for the recorded pool.
upgrade_spokepool ==
    [Verified(Contract("Ethereum_SpokePool", {"UpgradeSpokePool"}))
       EXCEPT !.by = "prepareUpgrade", !.spoke = TRUE, !.native = "WETH"]

deploy_spoke_pool_verifier ==
    [Verified(Contract("SpokePoolVerifier", {"SpokePoolVerifier"}))
       EXCEPT !.salt = TRUE]

deploy_base_adapter ==
    Verified(Replaced(HubSide("Base_Adapter", "BaseAdapter",
        {"baseCrossDomainMessenger", "baseStandardBridge",
         "cctpTokenMessenger"})))

deploy_base_spokepool ==
    Pool("Base_SpokePool", "BaseSpokePool", "base",
         {"cctpTokenMessenger"})

deploy_scroll_adapter ==
    Replaced(HubSide("Scroll_Adapter", "ScrollAdapter",
        {"scrollERC20GatewayRouter", "scrollMessengerRelay",
         "scrollGasPriceOracle"}))

deploy_scroll_spokepool ==
    Pool("Scroll_SpokePool", "ScrollSpokePool", "scroll",
         {"scrollERC20GatewayRouter", "scrollMessenger"})

deploy_linea_adapter ==
    AfterHubPool(HubSide("Linea_Adapter", "LineaAdapter",
        {"lineaMessageService", "lineaTokenBridge", "lineaUsdcBridge"}))

deploy_linea_spokepool ==
    Pool("Linea_SpokePool", "LineaSpokePool", "linea",
         {"lineaMessageService", "lineaTokenBridge", "lineaUsdcBridge"})

deploy_polygon_zk_evm_adapter ==
    AfterHubPool(HubSide("PolygonZkEVM_Adapter", "PolygonZkEvmAdapter",
                         {"polygonZkEvmBridge"}))

deploy_polygon_zk_evm_spokepool ==
    Pool("PolygonZkEVM_SpokePool", "PolygonZkEvmSpokePool", "polygonZkEvm",
         {"polygonZkEvmBridge"})

deploy_uniswap_swap_and_bridge ==
    Periphery("UniswapV3_SwapAndBridge",
              {"UniswapV3_SwapAndBridge", "SwapAndBridge", "uniswapV3"},
              "uniswapV3SwapRouter")

deploy_uniswap_universal_swap_and_bridge ==
    Periphery("UniswapV3_UniversalSwapAndBridge",
              {"UniswapV3_UniversalSwapAndBridge", "UniversalSwapAndBridge",
               "uniswapV3"}, "uniswapV3SwapRouter")

deploy_1inch_swap_and_bridge ==
    Periphery("1inch_SwapAndBridge",
              {"1inch_SwapAndBridge", "SwapAndBridge", "1inch"},
              "1inchV6Router")

deploy_universal_1inch_swap_and_bridge ==
    Periphery("1inch_UniversalSwapAndBridge",
              {"1inch_UniversalSwapAndBridge", "UniversalSwapAndBridge",
               "1inch"}, "1inchV6Router")

\* The retriever of the hub chain is a constructor argument.
deploy_blast_spokepool ==
    [Pool("Blast_SpokePool", "BlastSpokePool", "blast", {})
       EXCEPT !.l1 = {"blastDaiRetriever"}]

\* The gas limit is the string "200_000", which is not a number to ethers.
deploy_blast_adapter ==
    [AfterHubPool(HubSide("Blast_Adapter", "BlastAdapter",
        {"blastCrossDomainMessenger", "blastStandardBridge", "l1BlastBridge"}))
       EXCEPT !.encodes = FALSE]

deploy_mode_adapter ==
    HubSide("Mode_Adapter", "ModeAdapter",
            {"modeCrossDomainMessenger", "modeStandardBridge"})

deploy_mode_spokepool ==
    Pool("Mode_SpokePool", "ModeSpokePool", "mode", {})

deploy_multicall_handler ==
    [Contract("Multicallhandler", {"Multicallhandler"}) EXCEPT !.salt = TRUE]

deploy_zk_multicall_handler ==
    [Verified(Contract("MulticallHandler", {"MulticallHandlerZk", "zksync"}))
       EXCEPT !.by = "zkDeploy", !.skip = FALSE]

deploy_lisk_adapter ==
    HubSide("Lisk_Adapter", "LiskAdapter",
            {"liskCrossDomainMessenger", "liskStandardBridge"})

deploy_lisk_spokepool ==
    Pool("Lisk_SpokePool", "LiskSpokePool", "lisk", {})

deploy_blast_dai_retriever ==
    Verified(WithHubPool(HubSide("Blast_DaiRetriever", "BlastDaiRetriever",
                                 {"blastYieldManager", "dai"})))

deploy_blast_rescue_adapter ==
    Verified(WithHubPool(HubSide("Blast_RescueAdapter", "BlastRescueAdapter",
                                 {"blastYieldManager"})))

deploy_redstone_adapter ==
    HubSide("Redstone_Adapter", "RedstoneAdapter",
            {"redstoneCrossDomainMessenger", "redstoneStandardBridge"})

deploy_redstone_spokepool ==
    Pool("Redstone_SpokePool", "RedstoneSpokePool", "redstone", {})

deploy_zora_adapter ==
    HubSide("Zora_Adapter", "ZoraAdapter",
            {"zoraCrossDomainMessenger", "zoraStandardBridge"})

deploy_zora_spokepool ==
    Pool("Zora_SpokePool", "ZoraSpokePool", "zora", {})

deploy_worldchain_adapter ==
    HubSide("WorldChain_Adapter", "WorldChainAdapter",
            {"worldChainCrossDomainMessenger", "worldChainStandardBridge"})

deploy_worldchain_spokepool ==
    Pool("WorldChain_SpokePool", "WorldChainSpokePool", "worldchain", {})

Scripts ==
    <<deploy_hubpool, deploy_optimism_adapter, deploy_optimism_spokepool,
      deploy_arbitrum_adapter, deploy_arbitrum_spokepool,
      deploy_ethereum_adapter, deploy_ethereum_spokepool,
      deploy_polygon_token_bridger_mainnet, deploy_polygon_adapter,
      deploy_polygon_token_bridger_polygon, deploy_polygon_spokepool,
      deploy_boba_adapter, deploy_boba_spokepool, deploy_config_store,
      deploy_zksync_adapter, deploy_zksync_spokepool,
      deploy_ethereum_merkle_distributor, deploy_arbitrum_rescueadapter,
      deploy_bond_token, deploy_arbitrum_sendtoken_adapter, deploy_erc1155,
      upgrade_spokepool, deploy_spoke_pool_verifier, deploy_base_adapter,
      deploy_base_spokepool, deploy_scroll_adapter, deploy_scroll_spokepool,
      deploy_linea_adapter, deploy_linea_spokepool,
      deploy_polygon_zk_evm_adapter, deploy_polygon_zk_evm_spokepool,
      deploy_uniswap_swap_and_bridge, deploy_uniswap_universal_swap_and_bridge,
      deploy_1inch_swap_and_bridge, deploy_universal_1inch_swap_and_bridge,
      deploy_blast_spokepool, deploy_blast_adapter, deploy_mode_adapter,
      deploy_mode_spokepool, deploy_multicall_handler,
      deploy_zk_multicall_handler, deploy_lisk_adapter, deploy_lisk_spokepool,
      deploy_blast_dai_retriever, deploy_blast_rescue_adapter,
      deploy_redstone_adapter, deploy_redstone_spokepool, deploy_zora_adapter,
      deploy_zora_spokepool, deploy_worldchain_adapter,
      deploy_worldchain_spokepool>>

-----------------------------------------------------------------------------

\* Scripts that "hardhat deploy --tags t" selects, by file number: those with
\* the tag and those with a tag they depend on.
Selected(t) ==
    LET tagged == {i \in DOMAIN Scripts : t \in Scripts[i].tags}
    IN  tagged \union
          {i \in DOMAIN Scripts :
             \E j \in tagged : Scripts[i].tags \intersect Scripts[j].deps # {}}

\* Every key the script reads is defined on the network (a missing one is
\* undefined, which the constructor call refuses), and its literals encode.
\* A pool reads L1_ADDRESS_MAP of its companion, as does the L2 token bridger.
Resolves(s, n) ==
    /\ s.l1 \subseteq
         L1_ADDRESS_MAP(IF s.hub = "l1" THEN companionNetworks(n) ELSE n)
    /\ s.l2 \subseteq L2_ADDRESS_MAP(n)
    /\ s.encodes
=============================================================================
