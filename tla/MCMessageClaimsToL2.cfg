\* RECEIVE_MESSAGES_ON=l2 (the default) on Arbitrum, with mainnet as its l1.
CONSTANTS
    Operators = {op}
    Messages <- MCToL2
    L1 = 1
    L2 = 42161
    CLAIM_ON <- MCToL2ClaimOn
    Contested = {}
    LOOKBACKS = {1, 2}
    MAX_BLOCK_LOOKBACK = 1
    PAGE = 2
    GasLimits = {2}
    MaxBlock = 4
    MaxTxs = 1
    MaxFaults = 1
SPECIFICATION Spec
PROPERTY ListsWindow
CHECK_DEADLOCK FALSE
