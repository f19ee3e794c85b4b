\* Fills of an L2 pool behind its proxy.
SPECIFICATION Spec
CONSTANTS
  zero = zero
  hub = hub
  alice = alice
  handler = handler
  wallet = wallet
  weth = weth
  usdc = usdc
  here = here
  there = there
  Address <- MCAddress
  ZeroAddress = zero
  Contract <- MCContract
  Depositor <- JustWallet
  Appointee <- None
  Token <- MCToken
  WrappedNative = weth
  ChainIds <- MCChainIds
  ChainId = here
  RelayData <- FillRelays
  SlowFillLeaf <- SlowLeaves
  RefundLeaf <- None
  RootBundles <- FillBundles
  UpdateDetails <- FillUpdates
  DepositV3Args <- None
  DepositArgs <- None
  Nonce <- None
  MsgValue <- None
  Amount <- Two
  MaxUint32 = 3
  DepositQuoteTimeBuffer = 1
  FillDeadlineBuffer = 2
  MaxExclusivityPeriod = 1
  MaxTransferSize = 2
  FeeUnit = 4
  AdminIsOwner = FALSE
  WrapHookToken <- HookTokens
  Deployments <- Proxy
  Deployer = alice
  InitialAdmin = hub
  InitialRecipient = hub
  InitialDepositId = 1
  MaxTime = 4
  MaxBundles = 1
  MaxDepth = 2
  MaxDeposits = 0
  MaxBalance = 2
INVARIANTS
  TypeOK
  FilledExactlyOnce
  CallbackSeesFilled
  LockMatchesStack
  FillsInWindow
  FillTypeTruthful
  FillHonoursTerms
PROPERTIES
  FastFillsSpendNoPoolFunds
  RefinesLifecycle
