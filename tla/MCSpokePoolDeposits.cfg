\* Deposits into an Ethereum pool that is used without a proxy.
SPECIFICATION Spec
CONSTANTS
  zero = zero
  hub = hub
  alice = alice
  handler = handler
  wallet = wallet
  weth = weth
  usdc = usdc
  here = here
  there = there
  Address <- Users
  ZeroAddress = zero
  Contract <- JustWallet
  Depositor <- JustAlice
  Appointee <- JustZero
  Token <- MCToken
  WrappedNative = weth
  ChainIds <- There
  ChainId = there
  RelayData <- None
  SlowFillLeaf <- None
  RefundLeaf <- None
  RootBundles <- None
  UpdateDetails <- DepositUpdates
  DepositV3Args <- V3Args
  DepositArgs <- LegacyArgs
  Nonce <- Zero
  MsgValue <- ZeroOne
  Amount <- One
  MaxUint32 = 3
  DepositQuoteTimeBuffer = 1
  FillDeadlineBuffer = 2
  MaxExclusivityPeriod = 1
  MaxTransferSize = 2
  FeeUnit = 4
  AdminIsOwner = TRUE
  WrapHookToken <- None
  Deployments <- Implementation
  Deployer = alice
  InitialAdmin = wallet
  InitialRecipient = wallet
  InitialDepositId = 1
  MaxTime = 5
  MaxBundles = 0
  MaxDepth = 0
  MaxDeposits = 2
  MaxBalance = 0
INVARIANTS
  DepositIdsUnambiguous
  DepositsFillable
  EventsExplainBalance
