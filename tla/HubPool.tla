------------------------------- MODULE HubPool -------------------------------
(***************************************************************************)
(* The HubPool (contracts/HubPool.sol) on Ethereum, with the permissioned  *)
(* bond token (contracts/BondToken.sol) that may guard its proposals.      *)
(*                                                                         *)
(* Liquidity providers lend L1 tokens to the pool.  Data workers propose,  *)
(* against a bond, root bundles that say how to move the tokens between    *)
(* the pool and the SpokePools; a proposal that nobody disputes during its *)
(* challenge period is executed leaf by leaf.  A dispute moves the bond to *)
(* UMA's optimistic oracle and drops the proposal.                         *)
(*                                                                         *)
(* Every function that changes the pool is nonReentrant, so a call is one  *)
(* step and its reverts are the guards.  LP tokens are transferable, so    *)
(* only their supply matters; what users own elsewhere is not modelled.    *)
(* A Merkle root is the set of its leaves and a bitmap the set of its bits.*)
(***************************************************************************)
EXTENDS Integers, Sequences, FiniteSets, SequencesExt

CONSTANTS
    User,               \* accounts that propose, dispute and collect fees
    Owner,              \* the owner, who deployed the pool
    NoUser,             \* address(0)
    L1Token,            \* the ERC20 tokens on Ethereum
    NoToken,            \* the bond token before setBond
    AcrossBondToken,    \* the BondToken contract
    BondTokens,         \* the tokens on UMA's collateral whitelist
    Chain,              \* the chains with a SpokePool
    Leaf,               \* the PoolRebalanceLeaf structs
    Proposal,           \* the arguments of proposeRootBundle
    Liquidity,          \* amounts of L1 tokens LPs add
    Shares,             \* amounts of LP tokens LPs burn
    Arrival,            \* amounts of L1 tokens that arrive from anywhere
    BondAmount,         \* the arguments of setBond
    FinalFee,           \* UMA's final fees
    Liveness,           \* the arguments of setLiveness
    FeePct,             \* percentages for setProtocolFeeCapture
    Identifier,         \* the price identifiers UMA supports
    Haircut,            \* the arguments of haircutReserves
    AdminMessage,       \* calls the owner relays to a SpokePool
    Pause, Switch,      \* the flags the owner pauses with, and enables with
    Lendable, Delisted, \* the tokens the owner lists for lending, and delists
    Candidate           \* the accounts considered as approved proposers

CONSTANTS
    Unit,               \* 1e18, the fixed-point unit
    LpFeeRatePerSecond,
    MinLiveness,        \* 10 minutes, which a liveness exceeds
    InitialLiveness, InitialIdentifier,
    MaxUint32

CONSTANTS               \* bounds of the model
    MaxTime, MaxProposals, MaxMessages, MaxBalance, MaxHaircut

VARIABLES
    paused,
    rootBundleProposal,
    pooledTokens,
    poolRebalanceRoutes,    \* the <<token, chain>> pairs with a destination token
    crossChainContracts,    \* the chains whose adapter and SpokePool are set
    unclaimedAccumulatedProtocolFees,
    protocolFeeCaptureAddress, protocolFeeCapturePct,
    bondToken, bondAmount,
    liveness, identifier,
    balance,                \* ERC20 balances of the pool
    lpSupply,               \* total supply of each LP token
    proposers,              \* the approved proposers of the bond token
    finalFee,               \* what UMA's Store charges
    messages,               \* messages relayed to each SpokePool, in order
    now

VARIABLES                   \* what auditors derive from the event log
    proposalLog,            \* every proposal, what it executed and how it ended
    lpCapital,              \* lent by LPs and earned for them, less taken out
    lost,                   \* haircuts
    feesClaimed             \* protocol fees paid out

adminVars == <<paused, poolRebalanceRoutes, crossChainContracts,
               protocolFeeCaptureAddress, protocolFeeCapturePct, liveness,
               identifier>>
bondVars  == <<bondToken, bondAmount>>
lpVars    == <<pooledTokens, lpSupply, lpCapital, lost>>
feeVars   == <<unclaimedAccumulatedProtocolFees, feesClaimed>>
bundleVars == <<rootBundleProposal, proposalLog>>
umaVars   == <<proposers, finalFee>>
vars == <<adminVars, bondVars, lpVars, feeVars, bundleVars, umaVars,
          balance, messages, now>>

-----------------------------------------------------------------------------
(* Types *)

PoolRebalanceLeaf ==
    [chainId : Chain, groupIndex : Nat, leafId : Nat, l1Tokens : Seq(L1Token),
     netSendAmounts : Seq(Int), bundleLpFees : Seq(Nat)]

ProposalArg == [poolRebalanceLeafCount : Nat, poolRebalanceRoot : SUBSET Leaf]

RootBundle ==
    [poolRebalanceRoot : SUBSET Leaf, claimedBitMap : SUBSET Nat,
     proposer : User \cup {NoUser}, unclaimedPoolRebalanceLeafCount : Nat,
     challengePeriodEndTimestamp : 0..MaxUint32]

NoProposal == [poolRebalanceRoot |-> {}, claimedBitMap |-> {},
               proposer |-> NoUser, unclaimedPoolRebalanceLeafCount |-> 0,
               challengePeriodEndTimestamp |-> 0]

\* lpToken is a Boolean: whether the LP token has been created.
PooledToken ==
    [lpToken : BOOLEAN, isEnabled : BOOLEAN, lastLpFeeUpdate : 0..MaxUint32,
     utilizedReserves : Int, liquidReserves : Nat, undistributedLpFees : Nat]

NewPooledToken ==
    [lpToken |-> FALSE, isEnabled |-> FALSE, lastLpFeeUpdate |-> 0,
     utilizedReserves |-> 0, liquidReserves |-> 0, undistributedLpFees |-> 0]

Outcome == {"open", "executed", "disputed", "cancelled", "deleted"}

LogEntry ==
    [proposer : User, approved : BOOLEAN, token : L1Token, amount : Nat,
     proposedAt : Nat, period : Nat, count : Nat, outcome : Outcome,
     leaves : Seq([leaf : Leaf, at : Nat])]

Message == [roots : 1..MaxProposals] \cup AdminMessage

\* What the loop of executeRootBundle sends of a token, and the LP fees it
\* credits, of which the protocol takes its share leaf entry by leaf entry.
SentIn(leaf, t) ==
    SumFunction([i \in DOMAIN leaf.l1Tokens |->
        IF leaf.l1Tokens[i] = t /\ leaf.netSendAmounts[i] > 0
        THEN leaf.netSendAmounts[i] ELSE 0])

ProtocolFee(fee, pct) == (fee * pct) \div Unit

ProtocolFeesIn(leaf, t, pct) ==
    SumFunction([i \in DOMAIN leaf.l1Tokens |->
        IF leaf.l1Tokens[i] = t THEN ProtocolFee(leaf.bundleLpFees[i], pct) ELSE 0])

LpFeesIn(leaf, t, pct) ==
    SumFunction([i \in DOMAIN leaf.l1Tokens |->
        IF leaf.l1Tokens[i] = t
        THEN leaf.bundleLpFees[i] - ProtocolFee(leaf.bundleLpFees[i], pct) ELSE 0])

ASSUME NameAssumption ==
    /\ Owner \in User
    /\ NoUser \notin User
    /\ NoToken \notin L1Token
    /\ BondTokens \cup Lendable \cup Delisted \subseteq L1Token
    /\ Candidate \subseteq User
    /\ Pause \cup Switch \subseteq BOOLEAN

ASSUME NumberAssumption ==
    /\ {LpFeeRatePerSecond, MinLiveness, InitialLiveness, MaxUint32} \subseteq Nat
    /\ Unit \in Nat \ {0}
    /\ Liquidity \cup Shares \cup Arrival \cup FinalFee \cup BondAmount \subseteq Nat
    /\ Haircut \subseteq Int
    /\ FeePct \cup Liveness \subseteq Nat

ASSUME ArgumentAssumption ==
    /\ Leaf \subseteq PoolRebalanceLeaf
    /\ Proposal \subseteq ProposalArg

\* The arrays of a leaf "are required to be the same length" (the comment of
\* PoolRebalanceLeaf): an index beyond one of them would revert its execution.
ASSUME ParallelAssumption ==
    \A leaf \in Leaf : /\ Len(leaf.netSendAmounts) = Len(leaf.l1Tokens)
                       /\ Len(leaf.bundleLpFees) = Len(leaf.l1Tokens)

\* The model ends before time outgrows the uint32 it is cut to.
ASSUME BoundAssumption ==
    /\ {MaxTime, MaxProposals, MaxMessages, MaxBalance, MaxHaircut} \subseteq Nat
    /\ 1 <= MaxTime /\ MaxTime <= MaxUint32

TypeOK ==
    /\ paused \in BOOLEAN
    /\ rootBundleProposal \in RootBundle
    /\ pooledTokens \in [L1Token -> PooledToken]
    /\ poolRebalanceRoutes \subseteq L1Token \X Chain
    /\ crossChainContracts \subseteq Chain
    /\ unclaimedAccumulatedProtocolFees \in [L1Token -> Nat]
    /\ protocolFeeCaptureAddress \in User
    /\ protocolFeeCapturePct \in 0..Unit
    /\ bondToken \in L1Token \cup {NoToken}
    /\ bondAmount \in Nat
    /\ liveness \in Nat
    /\ identifier \in Identifier \cup {InitialIdentifier}
    /\ balance \in [L1Token -> Nat]
    /\ lpSupply \in [L1Token -> Nat]
    /\ proposers \subseteq User
    /\ finalFee \in Nat
    /\ messages \in [Chain -> Seq(Message)]
    /\ now \in Nat
    /\ proposalLog \in Seq(LogEntry)
    /\ lpCapital \in [L1Token -> Int]
    /\ lost \in [L1Token -> Nat]
    /\ feesClaimed \in [L1Token -> Nat]

Init ==
    /\ paused = FALSE
    /\ rootBundleProposal = NoProposal
    /\ pooledTokens = [t \in L1Token |-> NewPooledToken]
    /\ poolRebalanceRoutes = {}
    /\ crossChainContracts = {}
    /\ unclaimedAccumulatedProtocolFees = [t \in L1Token |-> 0]
    /\ protocolFeeCaptureAddress = Owner
    /\ protocolFeeCapturePct = 0
    /\ bondToken = NoToken
    /\ bondAmount = 0
    /\ liveness = InitialLiveness
    /\ identifier = InitialIdentifier
    /\ balance = [t \in L1Token |-> 0]
    /\ lpSupply = [t \in L1Token |-> 0]
    /\ proposers = {}
    /\ finalFee \in FinalFee
    /\ messages = [c \in Chain |-> <<>>]
    /\ now = 1
    /\ proposalLog = <<>>
    /\ lpCapital = [t \in L1Token |-> 0]
    /\ lost = [t \in L1Token |-> 0]
    /\ feesClaimed = [t \in L1Token |-> 0]

\* The cast uint32(x).
U32(x) == x % (MaxUint32 + 1)

\* _activeRequest
ActiveRequest == rootBundleProposal.unclaimedPoolRebalanceLeafCount # 0

-----------------------------------------------------------------------------
(* Liquidity accounting *)

BondHeld(t) == IF t = bondToken /\ ActiveRequest THEN bondAmount ELSE 0

\* balance - bondAmount is checked arithmetic.
CanSync(t) == balance[t] >= BondHeld(t)

\* Mutation: the liquid reserves grow but nothing comes off the utilized ones.
SyncedLiquidOnly(t, p) ==
    IF balance[t] - BondHeld(t) > p.liquidReserves
    THEN [p EXCEPT !.liquidReserves = balance[t] - BondHeld(t)]
    ELSE p

\* Mutation: the proposer's bond is taken for returned liquidity.
SyncedWithBond(t, p) ==
    IF balance[t] > p.liquidReserves
    THEN [p EXCEPT !.utilizedReserves = @ - (balance[t] - p.liquidReserves),
                   !.liquidReserves = balance[t]]
    ELSE p

\* _sync: tokens above the liquid reserves have come back from an L2.
Synced(t, p) ==
    LET free == balance[t] - BondHeld(t) IN
    IF free > p.liquidReserves
    THEN [p EXCEPT !.utilizedReserves = @ - (free - p.liquidReserves),
                   !.liquidReserves = free]
    ELSE p

\* _getAccumulatedFees
AccumulatedFees(p) ==
    LET due == (p.undistributedLpFees * LpFeeRatePerSecond
                    * (now - p.lastLpFeeUpdate)) \div Unit
    IN  IF due < p.undistributedLpFees THEN due ELSE p.undistributedLpFees

\* _updateAccumulatedLpFees
Accrued(p) ==
    [p EXCEPT !.undistributedLpFees = @ - AccumulatedFees(p),
              !.lastLpFeeUpdate = U32(now)]

\* What LPs own of a token, without the fees still being smeared.
Numerator(p) == p.liquidReserves + p.utilizedReserves - p.undistributedLpFees

\* The part of _exchangeRateCurrent that updates the token ...
Refreshed(t) ==
    IF lpSupply[t] = 0 THEN pooledTokens[t] ELSE Synced(t, Accrued(pooledTokens[t]))

\* ... and the rate it returns.
RateOf(p, supply) == IF supply = 0 THEN Unit ELSE (Numerator(p) * Unit) \div supply

\* It reverts without an LP token, if the pool cannot cover the bond, and if
\* the numerator is negative (its uint256 cast overflows the product).
RateExists(t) ==
    /\ pooledTokens[t].lpToken
    /\ lpSupply[t] # 0 => CanSync(t) /\ Numerator(Refreshed(t)) >= 0

-----------------------------------------------------------------------------
(* Admin functions, callable by the owner only *)

SetPaused(pause) ==
    /\ paused' = pause
    /\ UNCHANGED <<poolRebalanceRoutes, crossChainContracts, liveness, identifier,
                   protocolFeeCaptureAddress, protocolFeeCapturePct>>
    /\ UNCHANGED <<bondVars, lpVars, feeVars, bundleVars, umaVars, balance,
                   messages, now>>

SetProtocolFeeCapture(address, pct) ==
    /\ pct <= Unit
    /\ protocolFeeCaptureAddress' = address
    /\ protocolFeeCapturePct' = pct
    /\ UNCHANGED <<paused, poolRebalanceRoutes, crossChainContracts, liveness,
                   identifier>>
    /\ UNCHANGED <<bondVars, lpVars, feeVars, bundleVars, umaVars, balance,
                   messages, now>>

\* Mutation: the bond may change under an active proposal.
SetBondAnyTime(token, amount) ==
    /\ amount # 0
    /\ token \in BondTokens
    /\ bondToken' = token
    /\ bondAmount' = amount + finalFee
    /\ UNCHANGED <<adminVars, lpVars, feeVars, bundleVars, umaVars, balance,
                   messages, now>>

SetBond(token, amount) ==
    /\ ~ActiveRequest
    /\ amount # 0
    /\ token \in BondTokens
    /\ bondToken' = token
    /\ bondAmount' = amount + finalFee
    /\ UNCHANGED <<adminVars, lpVars, feeVars, bundleVars, umaVars, balance,
                   messages, now>>

SetLiveness(newLiveness) ==
    /\ newLiveness > MinLiveness
    /\ liveness' = newLiveness
    /\ UNCHANGED <<paused, poolRebalanceRoutes, crossChainContracts, identifier,
                   protocolFeeCaptureAddress, protocolFeeCapturePct>>
    /\ UNCHANGED <<bondVars, lpVars, feeVars, bundleVars, umaVars, balance,
                   messages, now>>

SetIdentifier(newIdentifier) ==
    /\ ~ActiveRequest
    /\ identifier' = newIdentifier
    /\ UNCHANGED <<paused, poolRebalanceRoutes, crossChainContracts, liveness,
                   protocolFeeCaptureAddress, protocolFeeCapturePct>>
    /\ UNCHANGED <<bondVars, lpVars, feeVars, bundleVars, umaVars, balance,
                   messages, now>>

\* Contracts may be set to invalid ones, to block a chain.
SetCrossChainContracts(chain, valid) ==
    /\ crossChainContracts' = IF valid THEN crossChainContracts \cup {chain}
                              ELSE crossChainContracts \ {chain}
    /\ UNCHANGED <<paused, poolRebalanceRoutes, liveness, identifier,
                   protocolFeeCaptureAddress, protocolFeeCapturePct>>
    /\ UNCHANGED <<bondVars, lpVars, feeVars, bundleVars, umaVars, balance,
                   messages, now>>

\* A zero destination token disables the route.
SetPoolRebalanceRoute(chain, t, enabled) ==
    /\ poolRebalanceRoutes' = IF enabled THEN poolRebalanceRoutes \cup {<<t, chain>>}
                              ELSE poolRebalanceRoutes \ {<<t, chain>>}
    /\ UNCHANGED <<paused, crossChainContracts, liveness, identifier,
                   protocolFeeCaptureAddress, protocolFeeCapturePct>>
    /\ UNCHANGED <<bondVars, lpVars, feeVars, bundleVars, umaVars, balance,
                   messages, now>>

\* The LP token and the timestamp are set once: enabling a token again keeps
\* the fees that accrued meanwhile.
EnableL1Token(t) ==
    /\ LET p == pooledTokens[t] IN
       pooledTokens' = [pooledTokens EXCEPT ![t] =
         [p EXCEPT !.isEnabled = TRUE, !.lpToken = TRUE,
                   !.lastLpFeeUpdate = IF p.lpToken THEN @ ELSE U32(now)]]
    /\ UNCHANGED <<lpSupply, lpCapital, lost>>
    /\ UNCHANGED <<adminVars, bondVars, feeVars, bundleVars, umaVars, balance,
                   messages, now>>

DisableL1Token(t) ==
    /\ pooledTokens' = [pooledTokens EXCEPT ![t].isEnabled = FALSE]
    /\ UNCHANGED <<lpSupply, lpCapital, lost>>
    /\ UNCHANGED <<adminVars, bondVars, feeVars, bundleVars, umaVars, balance,
                   messages, now>>

\* A negative amount takes a haircut back. An assumption about the owner, which
\* the code does not check: no more is taken back than was cut, since beyond
\* that LPs would be credited with tokens that nobody owes the pool.
HaircutReserves(t, amount) ==
    /\ lost[t] + amount \in 0..MaxHaircut
    /\ pooledTokens' = [pooledTokens EXCEPT ![t].utilizedReserves = @ - amount]
    /\ lost' = [lost EXCEPT ![t] = @ + amount]
    /\ UNCHANGED <<lpSupply, lpCapital>>
    /\ UNCHANGED <<adminVars, bondVars, feeVars, bundleVars, umaVars, balance,
                   messages, now>>

\* _relaySpokePoolAdminFunction; setDepositRoute relays setEnableRoute.
RelaySpokePoolAdminFunction(chain, message) ==
    /\ chain \in crossChainContracts
    /\ Len(messages[chain]) < MaxMessages
    /\ messages' = [messages EXCEPT ![chain] = Append(@, message)]
    /\ UNCHANGED <<adminVars, bondVars, lpVars, feeVars, bundleVars, umaVars,
                   balance, now>>

-----------------------------------------------------------------------------
(* Liquidity providers *)

\* Mutation: one more share than the deposit buys.
SharesForOneMore(amount, rate) == (amount * Unit) \div rate + 1

SharesFor(amount, rate) == (amount * Unit) \div rate

\* For WETH the amount may come as msg.value, which is wrapped.
AddLiquidity(t, amount) ==
    LET p    == Refreshed(t)
        rate == RateOf(p, lpSupply[t])
    IN
    /\ ~paused
    /\ pooledTokens[t].isEnabled
    /\ RateExists(t)
    /\ rate # 0
    /\ balance[t] + amount <= MaxBalance
    /\ pooledTokens' = [pooledTokens EXCEPT ![t] = [p EXCEPT !.liquidReserves = @ + amount]]
    /\ lpSupply' = [lpSupply EXCEPT ![t] = @ + SharesFor(amount, rate)]
    /\ balance' = [balance EXCEPT ![t] = @ + amount]
    /\ lpCapital' = [lpCapital EXCEPT ![t] = @ + amount]
    /\ UNCHANGED lost
    /\ UNCHANGED <<adminVars, bondVars, feeVars, bundleVars, umaVars, messages, now>>

RemoveLiquidity(t, shares) ==
    LET p      == Refreshed(t)
        amount == (shares * RateOf(p, lpSupply[t])) \div Unit
    IN
    /\ ~paused
    /\ RateExists(t)
    /\ shares <= lpSupply[t]
    /\ amount <= p.liquidReserves
    /\ amount <= balance[t]
    /\ pooledTokens' = [pooledTokens EXCEPT ![t] = [p EXCEPT !.liquidReserves = @ - amount]]
    /\ lpSupply' = [lpSupply EXCEPT ![t] = @ - shares]
    /\ balance' = [balance EXCEPT ![t] = @ - amount]
    /\ lpCapital' = [lpCapital EXCEPT ![t] = @ - amount]
    /\ UNCHANGED lost
    /\ UNCHANGED <<adminVars, bondVars, feeVars, bundleVars, umaVars, messages, now>>

\* exchangeRateCurrent is no view: it accrues fees and synchronises.
ExchangeRateCurrent(t) ==
    /\ RateExists(t)
    /\ pooledTokens' = [pooledTokens EXCEPT ![t] = Refreshed(t)]
    /\ UNCHANGED <<lpSupply, lpCapital, lost>>
    /\ UNCHANGED <<adminVars, bondVars, feeVars, bundleVars, umaVars, balance,
                   messages, now>>

\* sync, liquidityUtilizationCurrent and liquidityUtilizationPostRelay
Sync(t) ==
    /\ CanSync(t)
    /\ pooledTokens' = [pooledTokens EXCEPT ![t] = Synced(t, @)]
    /\ UNCHANGED <<lpSupply, lpCapital, lost>>
    /\ UNCHANGED <<adminVars, bondVars, feeVars, bundleVars, umaVars, balance,
                   messages, now>>

ClaimProtocolFeesCaptured(t) ==
    /\ balance[t] >= unclaimedAccumulatedProtocolFees[t]
    /\ balance' = [balance EXCEPT ![t] = @ - unclaimedAccumulatedProtocolFees[t]]
    /\ feesClaimed' = [feesClaimed EXCEPT ![t] = @ + unclaimedAccumulatedProtocolFees[t]]
    /\ unclaimedAccumulatedProtocolFees' =
         [unclaimedAccumulatedProtocolFees EXCEPT ![t] = 0]
    /\ UNCHANGED <<adminVars, bondVars, lpVars, bundleVars, umaVars, messages, now>>

-----------------------------------------------------------------------------
(* Root bundles *)

\* BondToken.transferFrom to the pool: the proposer the pool names at that
\* moment must be approved.  Other tokens do not ask.
BondTransferPermitted(src, proposer) ==
    bondToken = AcrossBondToken => src \in proposers \/ proposer # src

\* Mutation: the bond is pulled before the proposer is recorded.
ProposerWhenBondIsPulledBefore(user) == rootBundleProposal.proposer

\* proposeRootBundle records the proposer before it pulls the bond.
ProposerWhenBondIsPulled(user) == user

ProposeRootBundle(user, a) ==
    /\ ~ActiveRequest
    /\ ~paused
    /\ a.poolRebalanceLeafCount > 0
    /\ U32(now) + liveness <= MaxUint32
    /\ bondToken \in L1Token
    /\ BondTransferPermitted(user, ProposerWhenBondIsPulled(user))
    /\ Len(proposalLog) < MaxProposals
    /\ rootBundleProposal' =
         [poolRebalanceRoot |-> a.poolRebalanceRoot, claimedBitMap |-> {},
          proposer |-> user,
          unclaimedPoolRebalanceLeafCount |-> a.poolRebalanceLeafCount,
          challengePeriodEndTimestamp |-> U32(now) + liveness]
    /\ balance' = [balance EXCEPT ![bondToken] = @ + bondAmount]
    /\ proposalLog' = Append(proposalLog,
         [proposer |-> user, approved |-> user \in proposers,
          token |-> bondToken, amount |-> bondAmount, proposedAt |-> now,
          period |-> liveness, count |-> a.poolRebalanceLeafCount,
          outcome |-> "open", leaves |-> <<>>])
    /\ UNCHANGED <<adminVars, bondVars, lpVars, feeVars, umaVars, messages, now>>

\* Mutation: the challenge period is the one configured now.
ChallengePeriodIsOverNow ==
    now > rootBundleProposal.challengePeriodEndTimestamp - liveness + MinLiveness

ChallengePeriodIsOver == now > rootBundleProposal.challengePeriodEndTimestamp

\* Mutation: a leaf is not marked.
ClaimLeafUnmarked(leaf) ==
    [rootBundleProposal EXCEPT !.unclaimedPoolRebalanceLeafCount = @ - 1]

\* setClaimed1D and the countdown, a uint8 that may not go below zero.
ClaimLeaf(leaf) ==
    [rootBundleProposal EXCEPT !.claimedBitMap = @ \cup {leaf.leafId},
                               !.unclaimedPoolRebalanceLeafCount = @ - 1]

LastLeaf == rootBundleProposal.unclaimedPoolRebalanceLeafCount = 1

CloseProposal(outcome) ==
    [proposalLog EXCEPT ![Len(proposalLog)].outcome = outcome]

LogLeaf(leaf) ==
    LET e == proposalLog[Len(proposalLog)] IN
    [proposalLog EXCEPT ![Len(proposalLog)] =
        [e EXCEPT !.leaves = Append(@, [leaf |-> leaf, at |-> now]),
                  !.outcome = IF LastLeaf THEN "executed" ELSE @]]

\* Mutation: LP fees are set aside without being lent out.
AfterLeafFeesOnly(leaf, t, p) ==
    [p EXCEPT !.liquidReserves = @ - SentIn(leaf, t),
              !.utilizedReserves = @ + SentIn(leaf, t),
              !.undistributedLpFees = @ + LpFeesIn(leaf, t, protocolFeeCapturePct)]

\* _sendTokensToChainAndUpdatePooledTokenTrackers with
\* _allocateLpAndProtocolFees, for one token.
AfterLeaf(leaf, t, p) ==
    LET lpFees == LpFeesIn(leaf, t, protocolFeeCapturePct) IN
    [p EXCEPT !.liquidReserves = @ - SentIn(leaf, t),
              !.utilizedReserves = @ + SentIn(leaf, t) + lpFees,
              !.undistributedLpFees = @ + lpFees]

\* A leaf with group index 0 relays the roots too; the last one returns the bond.
ExecuteRootBundle(leaf) ==
    LET returned(t) == IF LastLeaf /\ t = bondToken THEN bondAmount ELSE 0 IN
    /\ ~paused
    /\ ChallengePeriodIsOver
    /\ leaf.leafId \notin rootBundleProposal.claimedBitMap
    /\ leaf \in rootBundleProposal.poolRebalanceRoot
    /\ leaf.chainId \in crossChainContracts
    /\ ActiveRequest
    /\ rootBundleProposal' = ClaimLeaf(leaf)
    /\ DOMAIN leaf.l1Tokens \subseteq DOMAIN leaf.netSendAmounts
                                       \cap DOMAIN leaf.bundleLpFees
    /\ \A i \in DOMAIN leaf.l1Tokens :
          <<leaf.l1Tokens[i], leaf.chainId>> \in poolRebalanceRoutes
    /\ \A t \in L1Token :
          /\ SentIn(leaf, t) <= pooledTokens[t].liquidReserves
          /\ SentIn(leaf, t) + returned(t) <= balance[t]
    /\ pooledTokens' = [t \in L1Token |-> AfterLeaf(leaf, t, pooledTokens[t])]
    /\ lpCapital' = [t \in L1Token |->
          lpCapital[t] + LpFeesIn(leaf, t, protocolFeeCapturePct)]
    /\ unclaimedAccumulatedProtocolFees' = [t \in L1Token |->
          unclaimedAccumulatedProtocolFees[t]
              + ProtocolFeesIn(leaf, t, protocolFeeCapturePct)]
    /\ balance' = [t \in L1Token |-> balance[t] - SentIn(leaf, t) - returned(t)]
    /\ leaf.groupIndex = 0 => Len(messages[leaf.chainId]) < MaxMessages
    /\ messages' = IF leaf.groupIndex = 0
                   THEN [messages EXCEPT ![leaf.chainId] =
                           Append(@, [roots |-> Len(proposalLog)])]
                   ELSE messages
    /\ proposalLog' = LogLeaf(leaf)
    /\ UNCHANGED <<lpSupply, lost, feesClaimed>>
    /\ UNCHANGED <<adminVars, bondVars, umaVars, now>>

\* Mutation: the proposal is dropped only after the disputer's bond is pulled.
ProposerWhenDisputeIsPaidBefore == rootBundleProposal.proposer

\* disputeRootBundle deletes the proposal before it pulls the disputer's bond.
ProposerWhenDisputeIsPaid == NoUser

\* Mutation: the disputer's bond is not pulled, so the pool pays the oracle both.
LeavesPoolOnDisputeUnpaid == 2 * bondAmount

\* What leaves the pool: _cancelBundle returns the proposer's bond, otherwise
\* the oracle takes it; the disputer's bond passes through.
LeavesPoolOnDispute == bondAmount

\* _cancelBundle is called if the final fee has outgrown the bond, and if the
\* oracle does not accept the price request.
Cancelled(accepted) == finalFee >= bondAmount \/ ~accepted

\* disputeRootBundle does not revert: not on its check of the time, not on its
\* transfers of bonds, not on currentTime + liveness, two uint32.
CanDispute(user, accepted) ==
    /\ U32(now) <= rootBundleProposal.challengePeriodEndTimestamp
    /\ balance[bondToken] >= bondAmount
    /\ ~Cancelled(accepted) =>
          /\ U32(now) + liveness <= MaxUint32
          /\ BondTransferPermitted(user, ProposerWhenDisputeIsPaid)

DisputeRootBundle(user, accepted) ==
    /\ CanDispute(user, accepted)
    /\ rootBundleProposal' = NoProposal
    /\ balance' = [balance EXCEPT ![bondToken] = @ - LeavesPoolOnDispute]
    /\ proposalLog' = CloseProposal(IF Cancelled(accepted) THEN "cancelled" ELSE "disputed")
    /\ UNCHANGED <<adminVars, bondVars, lpVars, feeVars, umaVars, messages, now>>

EmergencyDeleteProposal ==
    /\ rootBundleProposal' = NoProposal
    /\ IF ActiveRequest
       THEN /\ balance[bondToken] >= bondAmount
            /\ balance' = [balance EXCEPT ![bondToken] = @ - bondAmount]
            /\ proposalLog' = CloseProposal("deleted")
       ELSE UNCHANGED <<balance, proposalLog>>
    /\ UNCHANGED <<adminVars, bondVars, lpVars, feeVars, umaVars, messages, now>>

-----------------------------------------------------------------------------
(* The environment *)

\* BondToken.setProposer
SetProposer(user, enabled) ==
    /\ proposers' = IF enabled THEN proposers \cup {user} ELSE proposers \ {user}
    /\ UNCHANGED finalFee
    /\ UNCHANGED <<adminVars, bondVars, lpVars, feeVars, bundleVars, balance,
                   messages, now>>

\* UMA's Store changes the final fee.
SetFinalFee(fee) ==
    /\ finalFee' = fee
    /\ UNCHANGED proposers
    /\ UNCHANGED <<adminVars, bondVars, lpVars, feeVars, bundleVars, balance,
                   messages, now>>

\* Tokens come back from an L2, or anybody drops them (ETH is wrapped).
TokensArrive(t, amount) ==
    /\ balance[t] + amount <= MaxBalance
    /\ balance' = [balance EXCEPT ![t] = @ + amount]
    /\ UNCHANGED <<adminVars, bondVars, lpVars, feeVars, bundleVars, umaVars,
                   messages, now>>

Tick ==
    /\ now < MaxTime
    /\ now' = now + 1
    /\ UNCHANGED <<adminVars, bondVars, lpVars, feeVars, bundleVars, umaVars,
                   balance, messages>>

-----------------------------------------------------------------------------

OwnerStep ==
    \/ \E pause \in Pause : SetPaused(pause)
    \/ \E u \in User, pct \in FeePct : SetProtocolFeeCapture(u, pct)
    \/ \E t \in BondTokens, amount \in BondAmount : SetBond(t, amount)
    \/ \E l \in Liveness : SetLiveness(l)
    \/ \E id \in Identifier : SetIdentifier(id)
    \/ \E c \in Chain, valid \in Switch : SetCrossChainContracts(c, valid)
    \/ \E c \in Chain, t \in Lendable \cup Delisted, enabled \in Switch :
          SetPoolRebalanceRoute(c, t, enabled)
    \/ \E t \in Lendable : EnableL1Token(t)
    \/ \E t \in Delisted : DisableL1Token(t)
    \/ \E t \in L1Token, amount \in Haircut : HaircutReserves(t, amount)
    \/ \E c \in Chain, m \in AdminMessage : RelaySpokePoolAdminFunction(c, m)
    \/ EmergencyDeleteProposal

LiquidityStep ==
    \/ \E t \in L1Token, amount \in Liquidity : AddLiquidity(t, amount)
    \/ \E t \in L1Token, shares \in Shares : RemoveLiquidity(t, shares)
    \/ \E t \in L1Token :
          ExchangeRateCurrent(t) \/ Sync(t) \/ ClaimProtocolFeesCaptured(t)

BundleStep ==
    \/ \E u \in User, a \in Proposal : ProposeRootBundle(u, a)
    \/ \E leaf \in Leaf : ExecuteRootBundle(leaf)
    \/ \E u \in User, accepted \in BOOLEAN : DisputeRootBundle(u, accepted)

EnvironmentStep ==
    \/ \E u \in Candidate, enabled \in BOOLEAN : SetProposer(u, enabled)
    \/ \E fee \in FinalFee : SetFinalFee(fee)
    \/ \E t \in L1Token, amount \in Arrival : TokensArrive(t, amount)
    \/ Tick

Next == OwnerStep \/ LiquidityStep \/ BundleStep \/ EnvironmentStep

Spec == Init /\ [][Next]_vars

-----------------------------------------------------------------------------
(* Properties: proposals and bonds *)

\* The bond a proposer posted is settled exactly once: as long as leaves are
\* unclaimed the pool owes the bond of the last proposal, with the token, the
\* amount and the proposer it was posted with, although bondToken and
\* bondAmount are settings and not part of the proposal; and no other
\* proposal is open.
BondIsOwedOnce ==
    /\ \A i \in DOMAIN proposalLog :
         proposalLog[i].outcome = "open" <=> (ActiveRequest /\ i = Len(proposalLog))
    /\ ActiveRequest =>
         LET e == Last(proposalLog) IN
         /\ e.token = bondToken
         /\ e.amount = bondAmount
         /\ e.proposer = rootBundleProposal.proposer

\* Every executed leaf waited out the whole challenge period that was set when
\* its bundle was proposed, whatever happened to the settings since, and no
\* leaf of a disputed or cancelled bundle was executed.
LeavesSurvivedChallenge ==
    \A i \in DOMAIN proposalLog :
        LET e == proposalLog[i] IN
        /\ \A k \in DOMAIN e.leaves : e.leaves[k].at > e.proposedAt + e.period
        /\ e.outcome \in {"disputed", "cancelled"} => e.leaves = <<>>

\* Within a proposal every leaf id is executed at most once, and the bond comes
\* back exactly when as many leaves ran as the proposer announced.
LeavesExecuteOnce ==
    \A i \in DOMAIN proposalLog :
        LET e == proposalLog[i] IN
        /\ \A k, l \in DOMAIN e.leaves :
             e.leaves[k].leaf.leafId = e.leaves[l].leaf.leafId => k = l
        /\ e.outcome = "executed" <=> Len(e.leaves) = e.count

\* With the permissioned bond token only approved proposers propose.
OnlyApprovedPropose ==
    \A i \in DOMAIN proposalLog :
        proposalLog[i].token = AcrossBondToken => proposalLog[i].approved

\* Whatever the bond token permits, everybody can dispute a proposal up to the
\* end of its challenge period, whether the oracle takes the request or not:
\* also its own proposer, and also while the pool is paused.  Two things can
\* prevent it: uint32 time running out, and claims of protocol fees in the
\* bond's token that took more than the liquid reserves, and with it the bond.
LiveProposalsDisputable ==
    (/\ ActiveRequest
     /\ now <= rootBundleProposal.challengePeriodEndTimestamp
     /\ now + liveness <= MaxUint32
     /\ feesClaimed[bondToken] <= pooledTokens[bondToken].liquidReserves)
    => \A u \in User, accepted \in BOOLEAN : CanDispute(u, accepted)

-----------------------------------------------------------------------------
(* Properties: liquidity *)

\* The pool can pay its liquid reserves and the bond it holds, except for what
\* protocol fee claims took out: no order of syncs, proposals and executions
\* counts a bond as liquidity or liquidity twice.
ReservesBacked ==
    \A t \in L1Token :
        pooledTokens[t].liquidReserves + BondHeld(t) <= balance[t] + feesClaimed[t]

\* Liquid plus utilized reserves are what LPs brought and earned less what they
\* took and what was cut: tokens that move to an L2 and back, in any order with syncs,
\* neither create nor destroy a claim.
ReservesExplained ==
    \A t \in L1Token :
        pooledTokens[t].liquidReserves + pooledTokens[t].utilizedReserves
            = lpCapital[t] - lost[t]

\* As long as reserves were not cut, LPs never take out, rounding included, fees
\* that are still being smeared: the numerator of _exchangeRateCurrent, which is
\* cast to an unsigned integer, is never negative.
FeesCovered ==
    \A t \in L1Token : lost[t] = 0 => Numerator(pooledTokens[t]) >= 0

\* The exchange rate of an LP token never falls except by a haircut: adding
\* and removing liquidity round against the caller, new fees are smeared, and
\* bridged, returned, dropped and claimed tokens leave the rate alone.
RateNeverFalls ==
    [][\A t \in L1Token :
         (lpSupply[t] > 0 /\ lpSupply'[t] > 0
              /\ ~\E amount \in Haircut : HaircutReserves(t, amount))
         => RateOf(pooledTokens'[t], lpSupply'[t]) >= RateOf(pooledTokens[t], lpSupply[t])]_vars

-----------------------------------------------------------------------------
(* Properties: what a comment says and the code does not *)

\* _exchangeRateCurrent: "LiquidReserves + utilizedReserves will always be larger
\* than undistributedLpFees so this int will always be positive".  No step makes
\* the numerator negative, not even a haircutReserves that writes off no more
\* than the utilized reserves: those also hold the fees still undistributed.
NumeratorStaysPositive ==
    [][\A t \in L1Token :
         (Numerator(pooledTokens[t]) >= 0 /\ pooledTokens'[t].utilizedReserves >= 0)
             => Numerator(pooledTokens'[t]) >= 0]_vars

=============================================================================
