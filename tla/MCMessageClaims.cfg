\* One operator runs every script over and over. Look-backs of 3 and 2 blocks
\* in chunks of 2: the first needs two chunks, the second leaves out the head.
\* Blocks up to 8: what is sent in block 4 leaves every window.
CONSTANTS
    Operators = {op}
    Messages <- MCMessages
    L1 = 1
    L2 = 42161
    CLAIM_ON <- MCClaimOn
    Contested <- MCContested
    LOOKBACKS = {2, 3}
    MAX_BLOCK_LOOKBACK = 1
    PAGE = 1
    GasLimits = {2}
    MaxBlock = 8
    MaxTxs = 2
    MaxFaults = 1
SPECIFICATION FairSpec
INVARIANTS TypeOK ScanCoversWindow FinishedRunSettled
PROPERTIES RunTerminates EventuallyClaimed
CHECK_DEADLOCK FALSE
