CONSTANTS
    Relays <- MCRelays
    Signers = {"r1", "r2"}
    Default = "none"
    Leaves <- MCLeaves
    QuoteBuffer = 1
    DeadlineBuffer = 3
    DepositWindow = 2
    MaxTime = 3
    MaxBundles = 2
    MaxMessages = 2
    MaxDeposits = 2
    MaxRuns = 2
    Plans <- MCPlans
SPECIFICATION FairSpec
INVARIANTS TypeOK RefundsExplained
PROPERTIES RefinesLifecycle RentReclaimed
CHECK_DEADLOCK FALSE
