\* A haircut of everything a token has lent out.
SPECIFICATION Spec
CONSTANTS
  worker = worker
  nobody = nobody
  weth = weth
  abt = abt
  none = none
  l2 = l2
  id0 = id0
  order = order
  Owner = worker
  NoUser = nobody
  NoToken = none
  Chain <- JustL2
  InitialIdentifier = id0
  User <- JustWorker
  L1Token <- JustWeth
  AcrossBondToken = abt
  BondTokens <- JustWeth
  Leaf <- RateLeaves
  Proposal <- RateProposals
  Liquidity <- TwoThree
  Shares <- One
  Arrival <- Three
  BondAmount <- One
  FinalFee <- Zero
  Liveness <- None
  FeePct <- Two
  Identifier <- JustId
  Haircut <- Three
  AdminMessage <- None
  Pause <- None
  Switch <- Yes
  Lendable <- JustWeth
  Delisted <- JustWeth
  Candidate <- None
  Unit = 4
  LpFeeRatePerSecond = 2
  MinLiveness = 0
  InitialLiveness = 1
  MaxUint32 = 6
  MaxTime = 4
  MaxProposals = 1
  MaxMessages = 0
  MaxBalance = 5
  MaxHaircut = 3
PROPERTY
  NumeratorStaysPositive
