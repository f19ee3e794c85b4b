CONSTANTS
    Nets = {"mainnet", "polygon", "zksync"}
    Plans <- MCPlans
    MaxContracts <- MCMaxContracts
    MaxReleases = 2
    MaxFailures = 1
    Symbol = "USDC"
    TOKEN_SYMBOLS_MAP <- MCTokens
    enabledChainIds <- MCChains
SPECIFICATION Spec
INVARIANTS WiredToLivePools RecordedPoolsConfigured TypeOK RoutesRebalanced
CHECK_DEADLOCK FALSE
