----------------------------- MODULE Deployment -----------------------------
(***************************************************************************)
(* How the contracts get onto the chains and how the scripts find them     *)
(* again. An operator runs "hardhat deploy --tags t --network n": the      *)
(* selected scripts run one after the other and a throw ends the command.  *)
(* hardhat-deploy keeps an artifact per network and contract; the pools'   *)
(* addresses are kept by hand in deployments/deployments.json, which       *)
(* processHardhatExport.ts means to generate. Pools are proxies, upgraded  *)
(* by the HubPool through upgradeTo.                                       *)
(*                                                                         *)
(* The second part is the task enable-l1-token-across-ecosystem, which     *)
(* builds the HubPool calls that enable a token.                           *)
(*                                                                         *)
(* An address is the place of the contract in its chain's log of           *)
(* creations, which also orders blocks; 0 is undefined. One operator has   *)
(* the working copy: deployments.json does not change during a command.    *)
(***************************************************************************)
EXTENDS DeployScripts, Integers, FiniteSets, SequencesExt

CONSTANTS
    Nets,           \* the networks in use
    Plans,          \* bound: what operators run in one behaviour, a set of
                    \* pairs of a tag or a task and its network
    MaxContracts,   \* bound: network -> contracts created there
    MaxReleases,    \* bound: releases of the contracts' source
    MaxFailures,    \* bound: commands that end by an error or a kill
    Symbol,         \* the token of the task, a key of TOKEN_SYMBOLS_MAP
    TOKEN_SYMBOLS_MAP,   \* symbol -> the chains that have an address for it
    enabledChainIds      \* MAINNET_CHAIN_IDs without Boba

ASSUME NetsAssumption ==
    /\ Nets \subseteq Networks /\ "mainnet" \in Nets
    /\ \A c \in UNION Plans : c[2] \in Nets

ASSUME BoundsAssumption ==
    /\ MaxContracts \in [Nets -> Nat]
    /\ MaxReleases \in Nat \ {0} /\ MaxFailures \in Nat

\* Operators run the script of a pool on the network of that pool. (Boba's
\* pool has a fixed address for its token, Amoy's is not WETH.)
ASSUME PoolsAssumption ==
    \A c \in UNION Plans : \A i \in Selected(c[1]) :
      Scripts[i].by \in {"proxy", "zkProxy", "prepareUpgrade"} =>
        \/ c[2] \in {"polygon-amoy", "boba"}
        \/ Scripts[i].native = IF c[2] = "polygon" THEN "WMATIC" ELSE "WETH"

ASSUME TokensAssumption == Symbol \in DOMAIN TOKEN_SYMBOLS_MAP

VARIABLES
    plan,       \* the commands and tasks that are run, in any order
    chain,      \* per network, the sequence of contracts created
    saved,      \* per network, the artifacts: name -> address
    json,       \* deployments.json: per network, name -> address
    release,    \* the release that is checked out
    cmd,        \* the running command
    failures,   \* commands that failed
    lp,         \* the token is enabled for liquidity provision
    routes,     \* deposit routes: origin, destination, token on the origin
    rebalance,  \* pool rebalance routes: chain -> token there, or "----"
    whitelisted \* the Arbitrum pool knows the token

deployVars == <<plan, chain, saved, json, release, cmd, failures>>

tokenVars == <<lp, routes, rebalance, whitelisted>>

vars == <<deployVars, tokenVars>>

\* Artifact names the commands in use can save, and names in deployments.json.
Names == UNION {ToSet(Scripts[i].makes) : i \in UNION {Selected(c[1]) : c \in UNION Plans}}

JsonNames == Names \union {"SpokePool", "HubPool"}

Idle == [net |-> "mainnet", todo |-> {}, at |-> 1, pc |-> "idle", addr |-> 0]

NO_SYMBOL == "----"

\* The tasks a plan can name beside the tags of the scripts.
EnableToken == <<"enable-l1-token-across-ecosystem", "mainnet">>

SetupArbitrum == <<"setupArbitrumSpokePool", "mainnet">>

Init ==
    /\ plan \in Plans
    /\ chain = [n \in Nets |-> <<>>]
    /\ saved = [n \in Nets |-> [m \in Names |-> 0]]
    /\ json = [n \in Nets |-> [m \in JsonNames |-> 0]]
    /\ release = 1
    /\ cmd = Idle
    /\ failures = 0
    /\ lp = FALSE
    /\ routes = {}
    /\ rebalance = [c \in enabledChainIds |-> NO_SYMBOL]
    /\ whitelisted = FALSE

-----------------------------------------------------------------------------
(* Reading deployments.                                                    *)

\* getDeployedAddress(name, chainId, false).
getDeployedAddress(name, n) == json[n][name]

\* deployments.get("HubPool") of the network or of its l1 companion; getting
\* an artifact that does not exist throws.
HubPoolOf(s, n) ==
    LET l == IF s.hub = "own" THEN n ELSE companionNetworks(n)
    IN  IF s.hub # "none" /\ l \in Nets /\ "HubPool" \in Names
        THEN saved[l]["HubPool"] ELSE 0

\* The script reaches its deployment: nothing it looks up is missing.
Runs(s, n) ==
    /\ Resolves(s, n)
    /\ s.hub # "none" => HubPoolOf(s, n) # 0
    /\ s.spoke => getDeployedAddress("SpokePool", n) # 0

-----------------------------------------------------------------------------
(* Commands.                                                               *)

\* The selected scripts run in the order of their file names.
script == Scripts[Min(cmd.todo)]

Start(t, n) ==
    /\ cmd.pc = "idle" /\ Selected(t) # {}
    /\ cmd' = [Idle EXCEPT !.net = n, !.pc = "run", !.todo = Selected(t)]
    /\ UNCHANGED <<plan, chain, saved, json, release, failures, tokenVars>>

\* After the last contract of a script the next script runs.
NextScript ==
    LET rest == cmd.todo \ {Min(cmd.todo)}
    IN  IF rest = {} THEN Idle
        ELSE [Idle EXCEPT !.net = cmd.net, !.todo = rest, !.pc = "run"]

\* A contract of the script is there: the script's next contract, or its end.
Made ==
    IF cmd.at < Len(script.makes) THEN [cmd EXCEPT !.at = @ + 1, !.pc = "run"]
    ELSE IF script.verify THEN [cmd EXCEPT !.pc = "verify"]
    ELSE NextScript

\* Something the script looks up is missing, or there is no explorer.
Missing ==
    \/ cmd.pc = "run" /\ ~ Runs(script, cmd.net)
    \/ cmd.pc = "verify" /\ cmd.net \notin Verifiable

Throw ==
    /\ Missing
    /\ cmd' = Idle
    /\ UNCHANGED <<plan, chain, saved, json, release, failures, tokenVars>>

\* A call fails or the process is killed: whatever was created stays, and the
\* rest of the command does not happen.
Fail ==
    /\ cmd.pc # "idle" /\ failures < MaxFailures
    /\ cmd' = Idle
    /\ failures' = failures + 1
    /\ UNCHANGED <<plan, chain, saved, json, release, tokenVars>>

Created(kind, name, hub, spoke, native, impl) ==
    [kind |-> kind, name |-> name, release |-> release, hub |-> hub,
     spoke |-> spoke, native |-> native, impl |-> impl]

Plain(s, n, name) ==
    Created("plain", name, HubPoolOf(s, n),
            IF s.spoke THEN getDeployedAddress("SpokePool", n) ELSE 0,
            s.native, 0)

\* Address of a contract that is there already, or 0.
Find(n, c) == IF \E a \in DOMAIN chain[n] : chain[n][a] = c
              THEN CHOOSE a \in DOMAIN chain[n] : chain[n][a] = c ELSE 0

Fits(n, k) == Len(chain[n]) + k <= MaxContracts[n]

\* The contract of that artifact is kept: skipIfAlreadyDeployed, or neither
\* its code nor its arguments changed.
Kept(s, n, name) ==
    /\ saved[n][name] # 0
    /\ s.skip \/ chain[n][saved[n][name]] = Plain(s, n, name)

\* hre.deployments.deploy, for scripts that use hardhat-deploy: a create2
\* address that has the contract already is only saved.
deploy ==
    /\ cmd.pc = "run" /\ script.by = "deploy" /\ Runs(script, cmd.net)
    /\ LET n == cmd.net
           name == script.makes[cmd.at]
           c == Plain(script, n, name)
           twin == IF script.salt THEN Find(n, c) ELSE 0
       IN  \/ /\ Kept(script, n, name)
              /\ cmd' = Made
              /\ UNCHANGED chain
           \/ /\ ~ Kept(script, n, name) /\ twin # 0
              /\ cmd' = [cmd EXCEPT !.pc = "save", !.addr = twin]
              /\ UNCHANGED chain
           \/ /\ ~ Kept(script, n, name) /\ twin = 0 /\ Fits(n, 1)
              /\ chain' = [chain EXCEPT ![n] = Append(@, c)]
              /\ cmd' = [cmd EXCEPT !.pc = "save", !.addr = Len(chain[n]) + 1]
    /\ UNCHANGED <<plan, saved, json, release, failures, tokenVars>>

Implementation(s, name) == Created("implementation", name, 0, 0, s.native, 0)

\* The implementation of this release: the upgrades plugin's manifest
\* remembers it, so it is created once. The zkSync deployer has no manifest.
KnownImplementation(s, n, name) ==
    IF s.by = "zkProxy" /\ json[n]["SpokePool"] # 0 THEN 0
    ELSE Find(n, Implementation(s, name))

WithImplementation(s, n, name) ==
    IF KnownImplementation(s, n, name) # 0 THEN chain[n]
    ELSE Append(chain[n], Implementation(s, name))

ImplementationAddress(s, n, name) ==
    IF KnownImplementation(s, n, name) # 0 THEN KnownImplementation(s, n, name)
    ELSE Len(chain[n]) + 1

\* A pool recorded in deployments.json gets a new implementation only.
implementationOnly(n) == getDeployedAddress("SpokePool", n) # 0

\* deployNewProxy of utils.hre.ts, and the same steps in the zkSync script:
\* the transaction of the implementation, if there is one to send.
deployNewProxy ==
    /\ cmd.pc = "run" /\ script.by \in {"proxy", "zkProxy"} /\ Runs(script, cmd.net)
    /\ Fits(cmd.net, 2)
    /\ LET n == cmd.net
           name == script.makes[1]
       IN  /\ chain' = [chain EXCEPT ![n] = WithImplementation(script, n, name)]
           /\ cmd' = [cmd EXCEPT !.pc = IF implementationOnly(n) THEN "save" ELSE "proxy",
                                 !.addr = ImplementationAddress(script, n, name)]
    /\ UNCHANGED <<plan, saved, json, release, failures, tokenVars>>

\* ... and the second one, of the proxy, which initializes it.
deployProxy ==
    /\ cmd.pc = "proxy"
    /\ chain' = [chain EXCEPT ![cmd.net] =
                   Append(@, Created("proxy", script.makes[1],
                                     HubPoolOf(script, cmd.net), 0, "none", cmd.addr))]
    /\ cmd' = [cmd EXCEPT !.pc = "save", !.addr = Len(chain[cmd.net]) + 1]
    /\ UNCHANGED <<plan, saved, json, release, failures, tokenVars>>

\* deployer.deploy of the zkSync multicall handler: always a new contract.
zkDeploy ==
    /\ cmd.pc = "run" /\ script.by = "zkDeploy" /\ Fits(cmd.net, 1)
    /\ chain' = [chain EXCEPT ![cmd.net] =
                   Append(@, Created("zk", script.makes[1], 0, 0, "none", 0))]
    /\ cmd' = [cmd EXCEPT !.pc = "save", !.addr = Len(chain[cmd.net]) + 1]
    /\ UNCHANGED <<plan, saved, json, release, failures, tokenVars>>

\* prepareUpgrade of the recorded pool; nothing is saved.
prepareUpgrade ==
    /\ cmd.pc = "run" /\ script.by = "prepareUpgrade" /\ Runs(script, cmd.net)
    /\ Fits(cmd.net, 1)
    /\ chain' = [chain EXCEPT ![cmd.net] =
                   WithImplementation(script, cmd.net, script.makes[1])]
    /\ cmd' = [cmd EXCEPT !.pc = "verify"]
    /\ UNCHANGED <<plan, saved, json, release, failures, tokenVars>>

\* The artifact a new address is saved under.
SavedAsFirst == script.makes[1]

SavedAs == script.makes[cmd.at]

\* deployments.save: by hardhat-deploy, or by hand for what bypasses it.
save ==
    /\ cmd.pc = "save"
    /\ saved' = [saved EXCEPT ![cmd.net][SavedAs] = cmd.addr]
    /\ cmd' = Made
    /\ UNCHANGED <<plan, chain, json, release, failures, tokenVars>>

\* verify:verify succeeds only where there is an explorer; it may throw anyway.
verify ==
    /\ cmd.pc = "verify" /\ cmd.net \in Verifiable
    /\ cmd' = NextScript
    /\ UNCHANGED <<plan, chain, saved, json, release, failures, tokenVars>>

-----------------------------------------------------------------------------
(* What happens between commands.                                          *)

NewRelease ==
    /\ cmd.pc = "idle" /\ release < MaxReleases
    /\ release' = release + 1
    /\ UNCHANGED <<plan, chain, saved, json, cmd, failures, tokenVars>>

\* The operator writes a new contract into deployments.json: for a pool the
\* proxy that its script reported, otherwise the artifact's address.
RecordByHand(n, name) ==
    /\ cmd.pc = "idle" /\ json[n][name] = 0
    /\ \E a \in DOMAIN chain[n] :
         /\ IF name = "SpokePool" THEN chain[n][a].kind = "proxy"
                                  ELSE name \in Names /\ saved[n][name] = a
         /\ json' = [json EXCEPT ![n][name] = a]
    /\ UNCHANGED <<plan, chain, saved, release, cmd, failures, tokenVars>>

\* The export cannot read the block numbers of this artifact: a name that is
\* not in deployments.json (a pool is there as "SpokePool" only), or an
\* artifact saved by hand, which has no receipt.
ExportIgnoresMissing(n, name) == FALSE

ExportFails(n, name) ==
    json[n][name] = 0 \/ chain[n][saved[n][name]].kind # "plain"

JsonName(n, name) ==
    IF chain[n][saved[n][name]].kind \in {"proxy", "implementation"}
    THEN "SpokePool" ELSE name

\* processHardhatExport: one TypeError and nothing is written, silently;
\* otherwise the file is replaced by the artifacts, without those whose entry
\* is of a later block.
processHardhatExport ==
    LET here == [n \in Nets |-> {m \in Names : saved[n][m] # 0}]
        entry(n, name) ==
          {saved[n][m] : m \in {x \in here[n] : /\ JsonName(n, x) = name
                                                /\ json[n][x] <= saved[n][x]}}
    IN  /\ cmd.pc = "idle"
        /\ \A n \in Nets : \A m \in here[n] : ~ ExportFails(n, m)
        /\ json' = [n \in Nets |-> [name \in JsonNames |->
                      IF entry(n, name) = {} THEN 0
                      ELSE CHOOSE a \in entry(n, name) : TRUE]]
        /\ UNCHANGED <<plan, chain, saved, release, cmd, failures, tokenVars>>

\* upgradeTo, relayed by the HubPool to the recorded pool; an address that is
\* not an implementation is refused by the proxy.
upgradeTo(n, a) ==
    LET p == json[n]["SpokePool"]
    IN  /\ cmd.pc = "idle" /\ p # 0
        /\ chain[n][p].kind = "proxy" /\ chain[n][a].kind = "implementation"
        /\ chain[n][p].impl # a
        /\ chain' = [chain EXCEPT ![n][p].impl = a]
        /\ UNCHANGED <<plan, saved, json, release, cmd, failures, tokenVars>>

-----------------------------------------------------------------------------
(* The task verify-spokepool compares two answers of the recorded address. *)

\* A proxy answers with the constructor arguments of its implementation and
\* its own storage, an implementation has no admin.
wrappedNativeToken(n, a) ==
    IF chain[n][a].kind = "proxy" THEN chain[n][chain[n][a].impl].native
    ELSE chain[n][a].native

crossDomainAdmin(n, a) ==
    IF chain[n][a].kind = "proxy" THEN chain[n][a].hub ELSE 0

\* What they are compared with.
expectedWrappedNative(n) == IF n = "polygon" THEN "WMATIC" ELSE "WETH"

hubChainId(n) == IF n \in DOMAIN networks THEN "mainnet" ELSE "sepolia"

-----------------------------------------------------------------------------
(* enable-l1-token-across-ecosystem                                        *)

HasToken(symbol, c) ==
    symbol \in DOMAIN TOKEN_SYMBOLS_MAP /\ c \in TOKEN_SYMBOLS_MAP[symbol]

\* resolveTokenOnChain: USDC is the first of its kinds the chain has, DAI is
\* USDB on Blast.
resolveTokenOnChain(symbol, c) ==
    LET kinds == <<"USDC", "USDC.e", "USDbC", "USDzC">>
        found == {i \in 1 .. 4 : HasToken(kinds[i], c)}
        there == IF symbol = "DAI" /\ c = "blast" THEN "USDB" ELSE symbol
    IN  IF symbol = "USDC"
        THEN IF found = {} THEN NO_SYMBOL
             ELSE kinds[CHOOSE i \in found : \A j \in found : i <= j]
        ELSE IF HasToken(there, c) THEN there ELSE NO_SYMBOL

tokenOn(c) == resolveTokenOnChain(Symbol, c)

\* The setDepositRoute calls: between two chains with the token, one of them
\* listed if there is a list.
depositRoutes(chainIds, D) ==
    {<<q[1], q[2], tokenOn(q[1])>> : q \in
       {p \in chainIds \X chainIds :
          /\ p[1] # p[2]
          /\ NO_SYMBOL \notin {tokenOn(p[1]), tokenOn(p[2])}
          /\ D = {} \/ p[1] \in D \/ p[2] \in D}}

\* The setPoolRebalanceRoute calls.
rebalanceRoutesListedOnly(chainIds, D) ==
    {c \in chainIds : tokenOn(c) # NO_SYMBOL /\ c \in D}

rebalanceRoutes(chainIds, D) ==
    {c \in chainIds : tokenOn(c) # NO_SYMBOL /\ (D = {} \/ c \in D)}

\* The task with --execute: one multicall. A listed chain without the token,
\* or outside the chains of the run, ends the task before that.
enableL1Token(inputChains, D) ==
    LET chainIds == enabledChainIds \intersect inputChains
    IN  /\ EnableToken \in plan /\ cmd.pc = "idle" /\ "HubPool" \in Names
        /\ saved["mainnet"]["HubPool"] # 0
        /\ HasToken(Symbol, "mainnet")
        /\ \A c \in D : c \in chainIds /\ tokenOn(c) # NO_SYMBOL
        /\ lp' = (lp \/ D = {})
        /\ routes' = routes \union depositRoutes(chainIds, D)
        /\ rebalance' = [c \in enabledChainIds |->
                           IF c \in rebalanceRoutes(chainIds, D) THEN tokenOn(c)
                                                                 ELSE rebalance[c]]
        /\ whitelisted' = (whitelisted \/ "arbitrum" \in D)
        /\ UNCHANGED deployVars

\* setupArbitrumSpokePool: whitelistToken of every token of both chains.
setupArbitrumSpokePool ==
    /\ SetupArbitrum \in plan /\ cmd.pc = "idle"
    /\ HasToken(Symbol, "mainnet") /\ HasToken(Symbol, "arbitrum")
    /\ whitelisted' = TRUE
    /\ UNCHANGED <<deployVars, lp, routes, rebalance>>

-----------------------------------------------------------------------------

Next ==
    \/ \E c \in plan : Start(c[1], c[2])
    \/ deploy \/ deployNewProxy \/ deployProxy \/ zkDeploy \/ prepareUpgrade
    \/ save \/ verify \/ Throw \/ Fail
    \/ NewRelease
    \/ \E n \in Nets, name \in JsonNames : RecordByHand(n, name)
    \/ processHardhatExport
    \/ \E n \in Nets : \E a \in DOMAIN chain[n] : upgradeTo(n, a)
    \/ \E I \in SUBSET enabledChainIds : \E D \in SUBSET I : enableL1Token(I, D)
    \/ setupArbitrumSpokePool

Spec == Init /\ [][Next]_vars

-----------------------------------------------------------------------------
(* Properties.                                                             *)

\* Every artifact is the address of a contract of that name on its network.
TypeOK ==
    /\ \A n \in Nets :
         /\ Len(chain[n]) <= MaxContracts[n]
         /\ \A m \in Names :
              saved[n][m] # 0 => /\ saved[n][m] \in DOMAIN chain[n]
                                 /\ chain[n][saved[n][m]].name = m
         /\ \A m \in JsonNames : json[n][m] \in {0} \union DOMAIN chain[n]
    /\ release \in 1 .. MaxReleases /\ failures \in 0 .. MaxFailures
    /\ cmd.net \in Nets /\ cmd.pc \in {"idle", "run", "proxy", "save", "verify"}
    /\ lp \in BOOLEAN /\ whitelisted \in BOOLEAN
    /\ routes \subseteq enabledChainIds \X enabledChainIds \X
                          DOMAIN TOKEN_SYMBOLS_MAP
    /\ \A c \in enabledChainIds :
         rebalance[c] \in {NO_SYMBOL} \union DOMAIN TOKEN_SYMBOLS_MAP

\* The address recorded as a network's pool is configured the way the
\* assertions of verify-spokepool want it, with the recorded HubPool as its
\* admin and the network's wrapped native token, after any sequence of failed
\* and repeated deployments, upgrades and exports. (The task gets as far as
\* its assertions only where there is an artifact Ethereum_SpokePool. On Amoy
\* it expects WETH where the pool was given WMATIC; Boba's pool has a fixed
\* address.)
RecordedPoolsConfigured ==
    \A n \in Nets \ {"polygon-amoy", "boba"} :
      LET a == getDeployedAddress("SpokePool", n)
          hub == getDeployedAddress("HubPool", hubChainId(n))
      IN  a # 0 => /\ wrappedNativeToken(n, a) = expectedWrappedNative(n)
                   /\ hub # 0 => crossDomainAdmin(n, a) = hub

\* Whatever was given the address of a HubPool has the one in use on its hub
\* chain, never one that was replaced, and whatever was given a SpokePool has
\* a proxy, never an implementation. (Which proxy is not said: a network can
\* have several if its deployment failed before the first was recorded.)
WiredToLivePools ==
    \A n \in Nets : \A a \in DOMAIN chain[n] :
      LET c == chain[n][a]
      IN  /\ c.hub # 0 => c.hub = saved[companionNetworks(n)]["HubPool"]
          /\ c.spoke # 0 => chain[n][c.spoke].kind = "proxy"

\* However the runs of the token task list and leave out chains, no deposit
\* route joins two chains that both lack a pool rebalance route, and a chain
\* that has one has the token its deposit routes take in.
RoutesRebalanced ==
    \A r \in routes :
      /\ rebalance[r[1]] # NO_SYMBOL \/ rebalance[r[2]] # NO_SYMBOL
      /\ rebalance[r[1]] \in {NO_SYMBOL, r[3]}
=============================================================================
