\* Proposals, disputes and bonds.
SPECIFICATION Spec
CONSTANTS
  worker = worker
  nobody = nobody
  weth = weth
  abt = abt
  none = none
  l2 = l2
  id0 = id0
  order = order
  Owner = worker
  NoUser = nobody
  NoToken = none
  Chain <- JustL2
  InitialIdentifier = id0
  User <- JustWorker
  L1Token <- JustAbt
  AcrossBondToken = abt
  BondTokens <- JustAbt
  Leaf <- BundleLeaves
  Proposal <- BundleProposals
  Liquidity <- None
  Shares <- None
  Arrival <- None
  BondAmount <- One
  FinalFee <- ZeroTwo
  Liveness <- Two
  FeePct <- None
  Identifier <- None
  Haircut <- None
  AdminMessage <- Orders
  Pause <- YesNo
  Switch <- Yes
  Lendable <- None
  Delisted <- None
  Candidate <- JustWorker
  Unit = 2
  LpFeeRatePerSecond = 1
  MinLiveness = 0
  InitialLiveness = 1
  MaxUint32 = 6
  MaxTime = 4
  MaxProposals = 2
  MaxMessages = 2
  MaxBalance = 2
  MaxHaircut = 0
INVARIANTS
  TypeOK
  BondIsOwedOnce
  LeavesSurvivedChallenge
  LeavesExecuteOnce
  OnlyApprovedPropose
  LiveProposalsDisputable
