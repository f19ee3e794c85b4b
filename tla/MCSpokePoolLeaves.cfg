\* Refund leaves and root bundles of an L2 pool behind its proxy.
SPECIFICATION Spec
CONSTANTS
  zero = zero
  hub = hub
  alice = alice
  handler = handler
  wallet = wallet
  weth = weth
  usdc = usdc
  here = here
  there = there
  Address <- MCAddress
  ZeroAddress = zero
  Contract <- MCContract
  Depositor <- None
  Appointee <- JustWallet
  Token <- MCToken
  WrappedNative = weth
  ChainIds <- MCChainIds
  ChainId = here
  RelayData <- LeafRelays
  SlowFillLeaf <- LeafSlow
  RefundLeaf <- RefundLeaves
  RootBundles <- LeafBundles
  UpdateDetails <- None
  DepositV3Args <- None
  DepositArgs <- None
  Nonce <- None
  MsgValue <- ZeroOne
  Amount <- Two
  MaxUint32 = 3
  DepositQuoteTimeBuffer = 1
  FillDeadlineBuffer = 2
  MaxExclusivityPeriod = 1
  MaxTransferSize = 2
  FeeUnit = 4
  AdminIsOwner = FALSE
  WrapHookToken <- HookTokens
  Deployments <- Proxy
  Deployer = alice
  InitialAdmin = hub
  InitialRecipient = hub
  InitialDepositId = 1
  MaxTime = 0
  MaxBundles = 2
  MaxDepth = 1
  MaxDeposits = 0
  MaxBalance = 2
INVARIANTS
  LeavesExecuteOnce
  RefundsAuthorised
  EventsExplainBalance
PROPERTIES
  BundleIdsNotReused
