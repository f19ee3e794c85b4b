---------------------------- MODULE MCDeployment ----------------------------
(***************************************************************************)
(* Instances of Deployment: the hub chain with its own pool, with zkSync,  *)
(* with Polygon, and with the token task.                                  *)
(***************************************************************************)
EXTENDS Deployment

MCPlans ==
    {{<<"HubPool", "mainnet">>, <<"EthereumSpokePool", "mainnet">>,
      <<"UpgradeSpokePool", "mainnet">>},
     {<<"HubPool", "mainnet">>, <<"ZkSyncSpokePool", "zksync">>,
      <<"1inch_SwapAndBridge", "zksync">>, <<"MulticallHandlerZk", "zksync">>},
     {<<"PolygonTokenBridgerL1", "mainnet">>, <<"PolygonAdapter", "mainnet">>,
      <<"PolygonSpokePool", "polygon">>},
     {<<"HubPool", "mainnet">>, EnableToken, SetupArbitrum}}

MCMaxContracts == "mainnet" :> 5 @@ "polygon" :> 4 @@ "zksync" :> 4

\* L1 USDC is native on Polygon and Arbitrum, bridged on Optimism, and not on
\* Zora.
MCTokens ==
    "USDC" :> {"mainnet", "polygon", "arbitrum"} @@
    "USDC.e" :> {"polygon", "optimism", "arbitrum"}

MCChains == {"mainnet", "arbitrum", "optimism", "zora"}

\* The pairs of a script and a network its tags name on which it cannot run,
\* whatever is deployed: a key it reads is missing there, or an argument does
\* not encode.
ASSUME UnrunnableScripts ==
    LET at(n) == {Scripts[i].makes[1] : i \in
                    {j \in DOMAIN Scripts : /\ n \in Scripts[j].tags
                                           /\ ~ Resolves(Scripts[j], n)}}
    IN  \A n \in Networks :
          at(n) = IF n = "mainnet"
                  THEN {"PolygonZkEVM_Adapter", "Blast_Adapter", "Blast_DaiRetriever"}
                  ELSE {}

\* These and the zkEVM pool, whose tag polygonZkEvm is not the name of a
\* network, are the scripts that can run on no production network.
ASSUME NowhereRunnableScripts ==
    {Scripts[i].makes[1] : i \in
       {j \in DOMAIN Scripts : \A n \in DOMAIN networks : ~ Resolves(Scripts[j], n)}}
    = {"PolygonZkEVM_Adapter", "PolygonZkEVM_SpokePool", "Blast_Adapter",
       "Blast_DaiRetriever"}
=============================================================================
