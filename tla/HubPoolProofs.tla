---------------------------- MODULE HubPoolProofs ----------------------------
(***************************************************************************)
(* Proofs about HubPool, for every choice of its constants.                *)
(***************************************************************************)
EXTENDS HubPool, SumTheorems, SequenceTheorems, TLAPS

USE DEF adminVars, bondVars, lpVars, feeVars, bundleVars, umaVars

-----------------------------------------------------------------------------
(* Facts about division, which rounds down *)

\* The quotient and the bounds of the remainder.
LEMMA DivFacts ==
  ASSUME NEW x \in Int, NEW d \in Nat \ {0}
  PROVE  /\ x \div d \in Int
         /\ d * (x \div d) <= x
         /\ x < d * (x \div d) + d
  OBVIOUS

\* The quotient is the greatest integer whose product with d is below x.
LEMMA DivIsGreatest ==
  ASSUME NEW x \in Int, NEW d \in Nat \ {0}, NEW q \in Int, q * d <= x
  PROVE  q <= x \div d
<1> DEFINE r == x \div d
<1>1. r \in Int /\ x < d * r + d BY DivFacts
<1> HIDE DEF r
<1>2. SUFFICES ASSUME r + 1 <= q PROVE FALSE BY <1>1 DEF r
<1>3. d * (r + 1) <= d * q BY <1>1, <1>2
<1>4. d * (r + 1) = d * r + d BY <1>1
<1> QED BY <1>1, <1>3, <1>4

LEMMA DivMonotonic ==
  ASSUME NEW x \in Int, NEW y \in Int, NEW d \in Nat \ {0}, x <= y
  PROVE  x \div d <= y \div d
<1>1. x \div d \in Int /\ d * (x \div d) <= x BY DivFacts
<1>2. (x \div d) * d <= y BY <1>1
<1> QED BY <1>1, <1>2, DivIsGreatest

LEMMA DivNat ==
  ASSUME NEW x \in Nat, NEW d \in Nat \ {0}
  PROVE  x \div d \in Nat
<1>1. 0 <= x \div d BY DivIsGreatest
<1> QED BY <1>1, DivFacts

LEMMA MulNat ==
  ASSUME NEW x \in Nat, NEW y \in Nat
  PROVE  x * y \in Nat
  OBVIOUS

-----------------------------------------------------------------------------
(* Facts about the helpers *)

\* What type correctness rests on: the clock stays within uint32 and no fee
\* update is in the future, the fee percentage is one that was set, and the
\* log holds the proposal whose leaves are being claimed.
BoundInv ==
    /\ now \in 1..MaxTime
    /\ \A t \in L1Token : pooledTokens[t].lastLpFeeUpdate <= now
    /\ protocolFeeCapturePct \in FeePct \cup {0}
    /\ Len(proposalLog) <= MaxProposals
    /\ ActiveRequest => Len(proposalLog) # 0

TypeInv == TypeOK /\ BoundInv

\* The named assumptions, one set at a time.
LEMMA Arguments ==
  /\ Liquidity \subseteq Nat /\ Shares \subseteq Nat /\ Arrival \subseteq Nat
  /\ FinalFee \subseteq Nat /\ BondAmount \subseteq Nat
  /\ FeePct \subseteq Nat /\ Liveness \subseteq Nat /\ Haircut \subseteq Int
  /\ BondTokens \subseteq L1Token /\ Lendable \subseteq L1Token
  /\ Delisted \subseteq L1Token /\ Candidate \subseteq User
  /\ Pause \subseteq BOOLEAN /\ Switch \subseteq BOOLEAN
  /\ Unit \in Nat \ {0} /\ LpFeeRatePerSecond \in Nat /\ InitialLiveness \in Nat
  /\ MinLiveness \in Nat /\ MaxUint32 \in Nat
<1>1. /\ Liquidity \subseteq Nat /\ Shares \subseteq Nat /\ Arrival \subseteq Nat
      /\ FinalFee \subseteq Nat /\ BondAmount \subseteq Nat
      /\ FeePct \subseteq Nat /\ Liveness \subseteq Nat /\ Haircut \subseteq Int
  BY NumberAssumption, Zenon
<1>2. /\ BondTokens \subseteq L1Token /\ Lendable \subseteq L1Token
      /\ Delisted \subseteq L1Token /\ Candidate \subseteq User
      /\ Pause \subseteq BOOLEAN /\ Switch \subseteq BOOLEAN
  BY NameAssumption, Zenon
<1> QED BY <1>1, <1>2, NumberAssumption

\* The model ends before the cast uint32(now) cuts anything off.
LEMMA NowIsUint32 ==
  ASSUME TypeInv
  PROVE  now \in Nat /\ U32(now) = now /\ now \in 0..MaxUint32 /\ MaxUint32 \in Nat
<1>1. now \in 1..MaxTime BY DEF TypeInv, BoundInv
<1>2. MaxTime \in Nat /\ MaxUint32 \in Nat /\ MaxTime <= MaxUint32
  BY BoundAssumption, NumberAssumption
<1> QED BY <1>1, <1>2 DEF U32

\* Fees accrue, but never more than there are.
LEMMA AccruedFacts ==
  ASSUME TypeInv, NEW p \in PooledToken, p.lastLpFeeUpdate <= now
  PROVE  /\ AccumulatedFees(p) \in Nat
         /\ AccumulatedFees(p) <= p.undistributedLpFees
         /\ Accrued(p) \in PooledToken
         /\ Accrued(p) = [p EXCEPT !.undistributedLpFees = @ - AccumulatedFees(p),
                                   !.lastLpFeeUpdate = now]
<1>1. /\ p.undistributedLpFees \in Nat /\ LpFeeRatePerSecond \in Nat
      /\ Unit \in Nat \ {0} /\ p.lastLpFeeUpdate \in Nat
  BY NumberAssumption DEF PooledToken
<1>2. now \in Nat /\ U32(now) = now /\ now \in 0..MaxUint32 BY NowIsUint32
<1>3. now - p.lastLpFeeUpdate \in Nat BY <1>1, <1>2
<1> DEFINE x == p.undistributedLpFees * LpFeeRatePerSecond * (now - p.lastLpFeeUpdate)
<1>4. x \in Nat BY <1>1, <1>3, MulNat
<1>5. x \div Unit \in Nat BY <1>1, <1>4, DivNat
<1>6. /\ AccumulatedFees(p) \in Nat
      /\ AccumulatedFees(p) <= p.undistributedLpFees
  BY <1>1, <1>5 DEF AccumulatedFees
<1>7. p.undistributedLpFees - AccumulatedFees(p) \in Nat BY <1>1, <1>6
<1> QED BY <1>2, <1>6, <1>7 DEF Accrued, PooledToken

\* Synchronising moves reserves from utilized to liquid.
LEMMA SyncedFacts ==
  ASSUME TypeInv, NEW t \in L1Token, NEW p \in PooledToken
  PROVE  /\ Synced(t, p) \in PooledToken
         /\ Synced(t, p).liquidReserves + Synced(t, p).utilizedReserves
              = p.liquidReserves + p.utilizedReserves
         /\ Synced(t, p).undistributedLpFees = p.undistributedLpFees
         /\ Synced(t, p).lastLpFeeUpdate = p.lastLpFeeUpdate
         /\ \/ Synced(t, p).liquidReserves = p.liquidReserves
            \/ Synced(t, p).liquidReserves = balance[t] - BondHeld(t)
<1> DEFINE free == balance[t] - BondHeld(t)
<1>1. free \in Int
  BY DEF TypeInv, TypeOK, BondHeld
<1>2. /\ p.liquidReserves \in Nat /\ p.utilizedReserves \in Int
      /\ p.undistributedLpFees \in Nat
  BY DEF PooledToken
<1> HIDE DEF free
<1>3. CASE ~(free > p.liquidReserves)
  <2>1. Synced(t, p) = p BY <1>3 DEF Synced, free
  <2> QED BY <2>1
<1>4. CASE free > p.liquidReserves
  <2> DEFINE u == p.utilizedReserves - (free - p.liquidReserves)
  <2>1. Synced(t, p) = [p EXCEPT !.utilizedReserves = u, !.liquidReserves = free]
    BY <1>4 DEF Synced, free
  <2>2. u \in Int /\ free \in Nat /\ free + u = p.liquidReserves + p.utilizedReserves
    BY <1>1, <1>2, <1>4
  <2> HIDE DEF u
  <2>3. /\ Synced(t, p) \in PooledToken
        /\ Synced(t, p).liquidReserves = free
        /\ Synced(t, p).utilizedReserves = u
        /\ Synced(t, p).undistributedLpFees = p.undistributedLpFees
        /\ Synced(t, p).lastLpFeeUpdate = p.lastLpFeeUpdate
    BY <2>1, <2>2 DEF PooledToken
  <2> QED BY <2>2, <2>3 DEF free
<1> QED BY <1>3, <1>4

\* What _exchangeRateCurrent does to a token.
LEMMA RefreshedFacts ==
  ASSUME TypeInv, NEW t \in L1Token
  PROVE  /\ Refreshed(t) \in PooledToken
         /\ Refreshed(t).lastLpFeeUpdate <= now
         /\ Refreshed(t).liquidReserves + Refreshed(t).utilizedReserves
              = pooledTokens[t].liquidReserves + pooledTokens[t].utilizedReserves
         /\ Numerator(Refreshed(t)) \in Int
         /\ Numerator(pooledTokens[t]) \in Int
         /\ Numerator(Refreshed(t)) >= Numerator(pooledTokens[t])
         /\ \/ Refreshed(t).liquidReserves = pooledTokens[t].liquidReserves
            \/ Refreshed(t).liquidReserves = balance[t] - BondHeld(t)
<1> DEFINE p == pooledTokens[t]
           q == Accrued(p)
<1>1. p \in PooledToken /\ p.lastLpFeeUpdate <= now
  BY DEF TypeInv, TypeOK, BoundInv
<1> HIDE DEF p
<1>2. /\ q \in PooledToken
      /\ q.lastLpFeeUpdate = now
      /\ q.undistributedLpFees <= p.undistributedLpFees
      /\ q.liquidReserves = p.liquidReserves
      /\ q.utilizedReserves = p.utilizedReserves
  <2>1. /\ q \in PooledToken
        /\ AccumulatedFees(p) \in Nat
        /\ q = [p EXCEPT !.undistributedLpFees = @ - AccumulatedFees(p),
                         !.lastLpFeeUpdate = now]
    BY <1>1, AccruedFacts
  <2> HIDE DEF q
  <2> QED BY <1>1, <2>1 DEF PooledToken
<1>3. now \in Nat BY NowIsUint32
<1> HIDE DEF q
<1>4. CASE lpSupply[t] = 0
  BY <1>1, <1>4 DEF Refreshed, Numerator, PooledToken, p
<1>5. CASE lpSupply[t] # 0
  <2>1. Refreshed(t) = Synced(t, q) BY <1>5 DEF Refreshed, p, q
  <2>2. /\ Synced(t, q) \in PooledToken
        /\ Synced(t, q).liquidReserves + Synced(t, q).utilizedReserves
             = q.liquidReserves + q.utilizedReserves
        /\ Synced(t, q).undistributedLpFees = q.undistributedLpFees
        /\ Synced(t, q).lastLpFeeUpdate = q.lastLpFeeUpdate
        /\ \/ Synced(t, q).liquidReserves = q.liquidReserves
           \/ Synced(t, q).liquidReserves = balance[t] - BondHeld(t)
    BY <1>2, SyncedFacts
  <2> QED BY <1>1, <1>2, <1>3, <2>1, <2>2 DEF Numerator, PooledToken, p
<1> QED BY <1>4, <1>5

\* The exchange rate is a rate: what it is multiplied by may be taken out.
LEMMA RateFacts ==
  ASSUME TypeInv, NEW t \in L1Token, RateExists(t)
  PROVE  /\ RateOf(Refreshed(t), lpSupply[t]) \in Nat
         /\ lpSupply[t] # 0 =>
              /\ Numerator(Refreshed(t)) \in Nat
              /\ RateOf(Refreshed(t), lpSupply[t]) * lpSupply[t]
                   <= Numerator(Refreshed(t)) * Unit
<1>1. lpSupply[t] \in Nat /\ Unit \in Nat \ {0}
  BY NumberAssumption DEF TypeInv, TypeOK
<1>2. CASE lpSupply[t] = 0
  BY <1>1, <1>2 DEF RateOf
<1>3. CASE lpSupply[t] # 0
  <2> DEFINE n == Numerator(Refreshed(t))
  <2>1. n \in Nat BY <1>3, RefreshedFacts DEF RateExists
  <2> HIDE DEF n
  <2>2. n * Unit \in Nat BY <1>1, <2>1, MulNat
  <2>3. /\ (n * Unit) \div lpSupply[t] \in Nat
        /\ lpSupply[t] * ((n * Unit) \div lpSupply[t]) <= n * Unit
    BY <1>1, <1>3, <2>2, DivNat, DivFacts
  <2>4. RateOf(Refreshed(t), lpSupply[t]) = (n * Unit) \div lpSupply[t]
    BY <1>3 DEF RateOf, n
  <2>5. RateOf(Refreshed(t), lpSupply[t]) * lpSupply[t] <= n * Unit
    BY <1>1, <2>3, <2>4
  <2> QED BY <2>1, <2>3, <2>4, <2>5 DEF n
<1> QED BY <1>2, <1>3

-----------------------------------------------------------------------------
(* Type correctness *)

LEMMA InitTypeInv == Init => TypeInv
<1> SUFFICES ASSUME Init PROVE TypeInv OBVIOUS
<1> USE NameAssumption, Arguments, BoundAssumption DEF Init
<1>1. rootBundleProposal \in RootBundle /\ ~ActiveRequest
  BY DEF NoProposal, RootBundle, ActiveRequest
<1>2. NewPooledToken \in PooledToken /\ NewPooledToken.lastLpFeeUpdate = 0
  BY DEF NewPooledToken, PooledToken
<1>3. /\ pooledTokens \in [L1Token -> PooledToken]
      /\ \A t \in L1Token : pooledTokens[t].lastLpFeeUpdate = 0
  BY <1>2
<1>4. /\ balance \in [L1Token -> Nat] /\ lpSupply \in [L1Token -> Nat]
      /\ unclaimedAccumulatedProtocolFees \in [L1Token -> Nat]
      /\ lost \in [L1Token -> Nat] /\ feesClaimed \in [L1Token -> Nat]
      /\ lpCapital \in [L1Token -> Int]
  OBVIOUS
<1>5. messages \in [Chain -> Seq(Message)] /\ proposalLog \in Seq(LogEntry)
        /\ Len(proposalLog) = 0
  OBVIOUS
<1>9. paused \in BOOLEAN BY Zenon
<1>6. /\ poolRebalanceRoutes \subseteq L1Token \X Chain
      /\ crossChainContracts \subseteq Chain /\ protocolFeeCaptureAddress \in User
      /\ protocolFeeCapturePct \in 0..Unit /\ bondToken \in L1Token \cup {NoToken}
      /\ bondAmount \in Nat /\ liveness \in Nat
      /\ identifier \in Identifier \cup {InitialIdentifier}
      /\ proposers \subseteq User /\ finalFee \in Nat /\ now \in Nat
  OBVIOUS
<1>7. TypeOK BY <1>1, <1>3, <1>4, <1>5, <1>6, <1>9 DEF TypeOK
<1>8. BoundInv BY <1>1, <1>3, <1>5 DEF BoundInv
<1> QED BY <1>7, <1>8 DEF TypeInv

\* A token's bookkeeping is replaced by one of the right type.
LEMMA PooledTokensType ==
  ASSUME TypeInv, NEW t \in L1Token, NEW p \in PooledToken,
         p.lastLpFeeUpdate <= now,
         pooledTokens' = [pooledTokens EXCEPT ![t] = p]
  PROVE  /\ pooledTokens' \in [L1Token -> PooledToken]
         /\ \A s \in L1Token : pooledTokens'[s].lastLpFeeUpdate <= now
  BY DEF TypeInv, TypeOK, BoundInv

\* Closing the last proposal changes nothing but its outcome.
LEMMA ClosedLog ==
  ASSUME TypeInv, NEW o \in Outcome
  PROVE  /\ CloseProposal(o) \in Seq(LogEntry)
         /\ Len(CloseProposal(o)) = Len(proposalLog)
         /\ \A i \in 1..Len(proposalLog) :
              CloseProposal(o)[i] = IF i = Len(proposalLog)
                                    THEN [proposalLog[i] EXCEPT !.outcome = o]
                                    ELSE proposalLog[i]
<1>1. proposalLog \in Seq(LogEntry) BY DEF TypeInv, TypeOK
<1> DEFINE n == Len(proposalLog)
           e == [proposalLog[n] EXCEPT !.outcome = o]
<1>2. CloseProposal(o) = [proposalLog EXCEPT ![n] = e] BY Zenon DEF CloseProposal
<1>3. CASE n = 0
  <2>1. proposalLog = <<>> BY <1>1, <1>3
  <2>2. CloseProposal(o) = <<>> BY <1>2, <2>1, <1>3
  <2> QED BY <2>1, <2>2
<1>4. CASE n # 0
  <2>1. n \in 1..Len(proposalLog) BY <1>1, <1>4
  <2>2. proposalLog[n] \in LogEntry BY <1>1, <2>1
  <2>3. e \in LogEntry BY <2>2 DEF LogEntry
  <2> HIDE DEF e
  <2> QED BY <1>1, <1>2, <2>1, <2>3 DEF e
<1> QED BY <1>3, <1>4

LEMMA OwnerTypeInv ==
  ASSUME TypeInv, OwnerStep
  PROVE  TypeInv'
<1> USE Arguments DEF TypeInv
<1>1. ASSUME NEW pause \in Pause, SetPaused(pause) PROVE TypeInv'
  BY <1>1 DEF SetPaused, TypeOK, BoundInv, ActiveRequest
<1>2. ASSUME NEW u \in User, NEW pct \in FeePct, SetProtocolFeeCapture(u, pct)
      PROVE  TypeInv'
  BY <1>2, SMTT(30) DEF SetProtocolFeeCapture, TypeOK, BoundInv, ActiveRequest
<1>3. ASSUME NEW t \in BondTokens, NEW amount \in BondAmount, SetBond(t, amount)
      PROVE  TypeInv'
  <2>1. bondToken' \in L1Token \cup {NoToken}
    BY <1>3 DEF SetBond
  <2>2. bondAmount' \in Nat
    BY <1>3 DEF SetBond, TypeOK
  <2> QED BY <1>3, <2>1, <2>2 DEF SetBond, TypeOK, BoundInv, ActiveRequest
<1>4. ASSUME NEW l \in Liveness, SetLiveness(l) PROVE TypeInv'
  BY <1>4 DEF SetLiveness, TypeOK, BoundInv, ActiveRequest
<1>5. ASSUME NEW id \in Identifier, SetIdentifier(id) PROVE TypeInv'
  BY <1>5 DEF SetIdentifier, TypeOK, BoundInv, ActiveRequest
<1>6. ASSUME NEW c \in Chain, NEW valid \in Switch, SetCrossChainContracts(c, valid)
      PROVE  TypeInv'
  BY <1>6 DEF SetCrossChainContracts, TypeOK, BoundInv, ActiveRequest
<1>7. ASSUME NEW c \in Chain, NEW t \in Lendable \cup Delisted,
             NEW enabled \in Switch, SetPoolRebalanceRoute(c, t, enabled)
      PROVE  TypeInv'
  <2>1. <<t, c>> \in L1Token \X Chain OBVIOUS
  <2>2. poolRebalanceRoutes' \subseteq poolRebalanceRoutes \cup {<<t, c>>}
    BY <1>7 DEF SetPoolRebalanceRoute
  <2>3. poolRebalanceRoutes' \subseteq L1Token \X Chain
    BY <2>1, <2>2, Zenon DEF TypeOK
  <2> QED BY <1>7, <2>3 DEF SetPoolRebalanceRoute, TypeOK, BoundInv, ActiveRequest
<1>8. ASSUME NEW t \in Lendable, EnableL1Token(t) PROVE TypeInv'
  <2>1. t \in L1Token /\ pooledTokens[t] \in PooledToken
          /\ pooledTokens[t].lastLpFeeUpdate <= now
    BY DEF TypeOK, BoundInv
  <2> DEFINE since == IF pooledTokens[t].lpToken THEN pooledTokens[t].lastLpFeeUpdate
                      ELSE U32(now)
             p == [pooledTokens[t] EXCEPT !.isEnabled = TRUE, !.lpToken = TRUE,
                                          !.lastLpFeeUpdate = since]
  <2>5. since \in 0..MaxUint32 /\ since <= now
    <3>1. pooledTokens[t].lastLpFeeUpdate \in 0..MaxUint32 BY <2>1 DEF PooledToken
    <3> QED BY <2>1, <3>1, NowIsUint32
  <2>3. pooledTokens' = [pooledTokens EXCEPT ![t] = p] BY <1>8, Zenon DEF EnableL1Token
  <2> HIDE DEF since
  <2>2. p \in PooledToken /\ p.lastLpFeeUpdate <= now
    BY <2>1, <2>5 DEF PooledToken
  <2> HIDE DEF p
  <2>4. /\ pooledTokens' \in [L1Token -> PooledToken]
        /\ \A s \in L1Token : pooledTokens'[s].lastLpFeeUpdate <= now
    BY <2>1, <2>2, <2>3, PooledTokensType
  <2> QED BY <1>8, <2>4 DEF EnableL1Token, TypeOK, BoundInv, ActiveRequest
<1>9. ASSUME NEW t \in Delisted, DisableL1Token(t) PROVE TypeInv'
  <2>1. t \in L1Token /\ pooledTokens[t] \in PooledToken
          /\ pooledTokens[t].lastLpFeeUpdate <= now
    BY DEF TypeOK, BoundInv
  <2> DEFINE p == [pooledTokens[t] EXCEPT !.isEnabled = FALSE]
  <2>2. p \in PooledToken /\ p.lastLpFeeUpdate <= now BY <2>1 DEF PooledToken
  <2>3. pooledTokens' = [pooledTokens EXCEPT ![t] = p] BY <1>9, <2>1 DEF DisableL1Token
  <2> HIDE DEF p
  <2>4. /\ pooledTokens' \in [L1Token -> PooledToken]
        /\ \A s \in L1Token : pooledTokens'[s].lastLpFeeUpdate <= now
    BY <2>1, <2>2, <2>3, PooledTokensType
  <2> QED BY <1>9, <2>4 DEF DisableL1Token, TypeOK, BoundInv, ActiveRequest
<1>10. ASSUME NEW t \in L1Token, NEW amount \in Haircut, HaircutReserves(t, amount)
       PROVE  TypeInv'
  <2>1. pooledTokens[t] \in PooledToken /\ pooledTokens[t].lastLpFeeUpdate <= now
    BY DEF TypeOK, BoundInv
  <2> DEFINE p == [pooledTokens[t] EXCEPT !.utilizedReserves = @ - amount]
  <2>2. p \in PooledToken /\ p.lastLpFeeUpdate <= now BY <2>1 DEF PooledToken
  <2>3. pooledTokens' = [pooledTokens EXCEPT ![t] = p] BY <1>10, <2>1 DEF HaircutReserves
  <2> HIDE DEF p
  <2>4. /\ pooledTokens' \in [L1Token -> PooledToken]
        /\ \A s \in L1Token : pooledTokens'[s].lastLpFeeUpdate <= now
    BY <2>1, <2>2, <2>3, PooledTokensType
  <2>5. lost[t] + amount \in Nat BY <1>10, BoundAssumption DEF HaircutReserves
  <2>6. lost' \in [L1Token -> Nat] BY <1>10, <2>5 DEF HaircutReserves, TypeOK
  <2> QED BY <1>10, <2>4, <2>6 DEF HaircutReserves, TypeOK, BoundInv, ActiveRequest
<1>11. ASSUME NEW c \in Chain, NEW m \in AdminMessage,
              RelaySpokePoolAdminFunction(c, m)
       PROVE  TypeInv'
  <2>1. Append(messages[c], m) \in Seq(Message)
    BY DEF TypeOK, Message
  <2>2. messages' \in [Chain -> Seq(Message)]
    BY <1>11, <2>1 DEF RelaySpokePoolAdminFunction, TypeOK
  <2> QED BY <1>11, <2>2 DEF RelaySpokePoolAdminFunction, TypeOK, BoundInv, ActiveRequest
<1>12. CASE EmergencyDeleteProposal
  <2>1. NoProposal \in RootBundle /\ NoProposal.unclaimedPoolRebalanceLeafCount = 0
    BY DEF NoProposal, RootBundle
  <2>2. balance' \in [L1Token -> Nat]
    <3>1. CASE ActiveRequest /\ bondToken \in L1Token
      <4>1. balance[bondToken] - bondAmount \in Nat
        BY <1>12, <3>1 DEF EmergencyDeleteProposal, TypeOK
      <4> QED BY <1>12, <3>1, <4>1 DEF EmergencyDeleteProposal, TypeOK
    <3>2. CASE ActiveRequest /\ bondToken \notin L1Token
      BY <1>12, <3>2 DEF EmergencyDeleteProposal, TypeOK
    <3>3. CASE ~ActiveRequest
      BY <1>12, <3>3 DEF EmergencyDeleteProposal, TypeOK
    <3> QED BY <3>1, <3>2, <3>3
  <2>3. proposalLog' \in Seq(LogEntry) /\ Len(proposalLog') = Len(proposalLog)
    <3>1. "deleted" \in Outcome BY DEF Outcome
    <3>2. CASE ActiveRequest BY <1>12, <3>1, <3>2, ClosedLog DEF EmergencyDeleteProposal
    <3>3. CASE ~ActiveRequest BY <1>12, <3>3 DEF EmergencyDeleteProposal, TypeOK
    <3> QED BY <3>2, <3>3
  <2> QED BY <1>12, <2>1, <2>2, <2>3
          DEF EmergencyDeleteProposal, TypeOK, BoundInv, ActiveRequest
<1> QED BY <1>1, <1>2, <1>3, <1>4, <1>5, <1>6, <1>7, <1>8, <1>9, <1>10, <1>11,
           <1>12 DEF OwnerStep

LEMMA LiquidityTypeInv ==
  ASSUME TypeInv, LiquidityStep
  PROVE  TypeInv'
<1> USE Arguments DEF TypeInv
<1>1. ASSUME NEW t \in L1Token, NEW amount \in Liquidity, AddLiquidity(t, amount)
      PROVE  TypeInv'
  <2> DEFINE p == Refreshed(t)
             rate == RateOf(p, lpSupply[t])
             q == [p EXCEPT !.liquidReserves = @ + amount]
  <2>1. p \in PooledToken /\ p.lastLpFeeUpdate <= now BY RefreshedFacts
  <2>2. rate \in Nat \ {0} BY <1>1, RateFacts DEF AddLiquidity
  <2>3. /\ pooledTokens' = [pooledTokens EXCEPT ![t] = q]
        /\ lpSupply' = [lpSupply EXCEPT ![t] = @ + SharesFor(amount, rate)]
    BY <1>1 DEF AddLiquidity
  <2> HIDE DEF p, rate
  <2>4. q \in PooledToken /\ q.lastLpFeeUpdate <= now BY <2>1 DEF PooledToken
  <2>5. SharesFor(amount, rate) \in Nat
    BY <2>2, MulNat, DivNat DEF SharesFor
  <2> HIDE DEF q
  <2>6. /\ pooledTokens' \in [L1Token -> PooledToken]
        /\ \A s \in L1Token : pooledTokens'[s].lastLpFeeUpdate <= now
    BY <2>3, <2>4, PooledTokensType
  <2>7. lpSupply' \in [L1Token -> Nat] BY <2>3, <2>5, SMTT(30) DEF TypeOK
  <2>9. balance[t] + amount \in Nat /\ lpCapital[t] + amount \in Int
    BY SMTT(30) DEF TypeOK
  <2>8. balance' \in [L1Token -> Nat] /\ lpCapital' \in [L1Token -> Int]
    BY <1>1, <2>9 DEF AddLiquidity, TypeOK
  <2> QED BY <1>1, <2>6, <2>7, <2>8 DEF AddLiquidity, TypeOK, BoundInv, ActiveRequest
<1>2. ASSUME NEW t \in L1Token, NEW shares \in Shares, RemoveLiquidity(t, shares)
      PROVE  TypeInv'
  <2> DEFINE p == Refreshed(t)
             amount == (shares * RateOf(p, lpSupply[t])) \div Unit
             q == [p EXCEPT !.liquidReserves = @ - amount]
  <2>1. p \in PooledToken /\ p.lastLpFeeUpdate <= now BY RefreshedFacts
  <2>2. amount \in Nat
    <3>1. RateOf(p, lpSupply[t]) \in Nat BY <1>2, RateFacts DEF RemoveLiquidity
    <3> QED BY <3>1, MulNat, DivNat
  <2>3. /\ pooledTokens' = [pooledTokens EXCEPT ![t] = q]
        /\ amount <= p.liquidReserves /\ amount <= balance[t] /\ shares <= lpSupply[t]
        /\ lpSupply' = [lpSupply EXCEPT ![t] = @ - shares]
        /\ balance' = [balance EXCEPT ![t] = @ - amount]
        /\ lpCapital' = [lpCapital EXCEPT ![t] = @ - amount]
    BY <1>2 DEF RemoveLiquidity
  <2> HIDE DEF p, amount
  <2>4. q \in PooledToken /\ q.lastLpFeeUpdate <= now
    BY <2>1, <2>2, <2>3 DEF PooledToken
  <2> HIDE DEF q
  <2>6. /\ pooledTokens' \in [L1Token -> PooledToken]
        /\ \A s \in L1Token : pooledTokens'[s].lastLpFeeUpdate <= now
    BY <2>3, <2>4, PooledTokensType
  <2>5. lpSupply[t] \in Nat /\ balance[t] \in Nat /\ lpCapital[t] \in Int
    BY DEF TypeOK
  <2>7. lpSupply[t] - shares \in Nat /\ balance[t] - amount \in Nat
          /\ lpCapital[t] - amount \in Int
    BY <2>2, <2>3, <2>5
  <2>8. lpSupply' \in [L1Token -> Nat] /\ balance' \in [L1Token -> Nat]
          /\ lpCapital' \in [L1Token -> Int]
    BY <2>3, <2>7 DEF TypeOK
  <2> QED BY <1>2, <2>6, <2>8 DEF RemoveLiquidity, TypeOK, BoundInv, ActiveRequest
<1>3. ASSUME NEW t \in L1Token, ExchangeRateCurrent(t) PROVE TypeInv'
  <2>1. /\ pooledTokens' \in [L1Token -> PooledToken]
        /\ \A s \in L1Token : pooledTokens'[s].lastLpFeeUpdate <= now
    BY <1>3, RefreshedFacts, PooledTokensType DEF ExchangeRateCurrent
  <2> QED BY <1>3, <2>1 DEF ExchangeRateCurrent, TypeOK, BoundInv, ActiveRequest
<1>4. ASSUME NEW t \in L1Token, Sync(t) PROVE TypeInv'
  <2>1. pooledTokens[t] \in PooledToken /\ pooledTokens[t].lastLpFeeUpdate <= now
    BY DEF TypeOK, BoundInv
  <2>2. /\ Synced(t, pooledTokens[t]) \in PooledToken
        /\ Synced(t, pooledTokens[t]).lastLpFeeUpdate <= now
    BY <2>1, SyncedFacts
  <2>3. /\ pooledTokens' \in [L1Token -> PooledToken]
        /\ \A s \in L1Token : pooledTokens'[s].lastLpFeeUpdate <= now
    BY <1>4, <2>2, PooledTokensType DEF Sync
  <2> QED BY <1>4, <2>3 DEF Sync, TypeOK, BoundInv, ActiveRequest
<1>5. ASSUME NEW t \in L1Token, ClaimProtocolFeesCaptured(t) PROVE TypeInv'
  <2>1. /\ balance[t] - unclaimedAccumulatedProtocolFees[t] \in Nat
        /\ feesClaimed[t] + unclaimedAccumulatedProtocolFees[t] \in Nat
    BY <1>5, SMTT(30) DEF ClaimProtocolFeesCaptured, TypeOK
  <2>2. /\ balance' \in [L1Token -> Nat]
        /\ feesClaimed' \in [L1Token -> Nat]
        /\ unclaimedAccumulatedProtocolFees' \in [L1Token -> Nat]
    BY <1>5, <2>1 DEF ClaimProtocolFeesCaptured, TypeOK
  <2> QED BY <1>5, <2>2 DEF ClaimProtocolFeesCaptured, TypeOK, BoundInv, ActiveRequest
<1> QED BY <1>1, <1>2, <1>3, <1>4, <1>5 DEF LiquidityStep

\* The fields of a proposal that is being executed.
LEMMA ClaimedFacts ==
  ASSUME TypeInv, ActiveRequest, NEW leaf \in Leaf
  PROVE  /\ ClaimLeaf(leaf) \in RootBundle
         /\ ClaimLeaf(leaf).claimedBitMap
              = rootBundleProposal.claimedBitMap \cup {leaf.leafId}
         /\ ClaimLeaf(leaf).unclaimedPoolRebalanceLeafCount
              = rootBundleProposal.unclaimedPoolRebalanceLeafCount - 1
         /\ ClaimLeaf(leaf).challengePeriodEndTimestamp
              = rootBundleProposal.challengePeriodEndTimestamp
         /\ ClaimLeaf(leaf).proposer = rootBundleProposal.proposer
<1>1. rootBundleProposal \in RootBundle BY DEF TypeInv, TypeOK
<1>2. leaf.leafId \in Nat BY ArgumentAssumption DEF PoolRebalanceLeaf
<1>3. rootBundleProposal.unclaimedPoolRebalanceLeafCount - 1 \in Nat
  BY <1>1 DEF ActiveRequest, RootBundle
<1> QED BY <1>1, <1>2, <1>3 DEF ClaimLeaf, RootBundle

\* Executing a leaf is logged in the entry of the last proposal.
LEMMA LoggedLeaf ==
  ASSUME TypeInv, Len(proposalLog) # 0, NEW leaf \in Leaf
  PROVE  /\ LogLeaf(leaf) \in Seq(LogEntry)
         /\ Len(LogLeaf(leaf)) = Len(proposalLog)
         /\ \A i \in 1..Len(proposalLog) :
              i # Len(proposalLog) => LogLeaf(leaf)[i] = proposalLog[i]
         /\ LogLeaf(leaf)[Len(proposalLog)]
              = [proposalLog[Len(proposalLog)] EXCEPT
                   !.leaves = Append(@, [leaf |-> leaf, at |-> now]),
                   !.outcome = IF LastLeaf THEN "executed" ELSE @]
<1>1. proposalLog \in Seq(LogEntry) BY DEF TypeInv, TypeOK
<1> DEFINE n == Len(proposalLog)
           e == [proposalLog[n] EXCEPT
                        !.leaves = Append(@, [leaf |-> leaf, at |-> now]),
                        !.outcome = IF LastLeaf THEN "executed" ELSE @]
<1>2. LogLeaf(leaf) = [proposalLog EXCEPT ![n] = e] BY Zenon DEF LogLeaf
<1>3. n \in 1..Len(proposalLog) BY <1>1
<1>4. proposalLog[n] \in LogEntry BY <1>1, <1>3
<1>5. [leaf |-> leaf, at |-> now] \in [leaf : Leaf, at : Nat] BY NowIsUint32
<1>6. e \in LogEntry
  <2>1. Append(proposalLog[n].leaves, [leaf |-> leaf, at |-> now])
          \in Seq([leaf : Leaf, at : Nat])
    BY <1>4, <1>5 DEF LogEntry
  <2>2. (IF LastLeaf THEN "executed" ELSE proposalLog[n].outcome) \in Outcome
    BY <1>4 DEF LogEntry, Outcome
  <2> QED BY <1>4, <2>1, <2>2 DEF LogEntry
<1> HIDE DEF e
<1>7. /\ LogLeaf(leaf) \in Seq(LogEntry)
      /\ Len(LogLeaf(leaf)) = Len(proposalLog)
      /\ \A i \in 1..Len(proposalLog) :
           i # Len(proposalLog) => LogLeaf(leaf)[i] = proposalLog[i]
      /\ LogLeaf(leaf)[n] = e
  BY <1>1, <1>2, <1>3, <1>6
<1> QED BY <1>7 DEF e

\* The protocol's share of a fee, which is no more than the fee.
LEMMA ProtocolShare ==
  ASSUME NEW fee \in Nat, NEW pct \in Nat, pct <= Unit
  PROVE  ProtocolFee(fee, pct) \in Nat /\ fee - ProtocolFee(fee, pct) \in Nat
<1>1. Unit \in Nat \ {0} BY Arguments
<1> DEFINE p == fee * pct
           q == p \div Unit
<1>2. p \in Nat /\ p <= fee * Unit BY <1>1
<1>3. fee * Unit \in Int /\ q \in Int /\ Unit * q <= p /\ 0 <= q
  BY <1>1, <1>2, DivFacts, DivIsGreatest
<1> HIDE DEF p, q
<1>4. q <= fee
  <2> SUFFICES ASSUME fee + 1 <= q PROVE FALSE BY <1>3
  <2>1. Unit * (fee + 1) <= Unit * q BY <1>1, <1>3
  <2>2. Unit * (fee + 1) = fee * Unit + Unit BY <1>1
  <2> QED BY <1>1, <1>2, <1>3, <2>1, <2>2
<1> QED BY <1>3, <1>4 DEF ProtocolFee, p, q

\* The sums over a leaf that an execution adds up.
LEMMA LeafSums ==
  ASSUME TypeInv, NEW leaf \in Leaf, NEW t \in L1Token
  PROVE  /\ SentIn(leaf, t) \in Nat
         /\ ProtocolFeesIn(leaf, t, protocolFeeCapturePct) \in Nat
         /\ LpFeesIn(leaf, t, protocolFeeCapturePct) \in Nat
<1>1. protocolFeeCapturePct \in FeePct \cup {0} /\ protocolFeeCapturePct \in 0..Unit
  BY DEF TypeInv, TypeOK, BoundInv
<1>2. PICK pct \in Nat : pct = protocolFeeCapturePct /\ pct <= Unit BY <1>1, Arguments
<1>3. /\ leaf.l1Tokens \in Seq(L1Token) /\ leaf.netSendAmounts \in Seq(Int)
      /\ leaf.bundleLpFees \in Seq(Nat)
  BY ArgumentAssumption DEF PoolRebalanceLeaf
<1>4. PICK n \in Nat : n = Len(leaf.l1Tokens) BY <1>3
<1>5. Len(leaf.netSendAmounts) = n /\ Len(leaf.bundleLpFees) = n
  BY <1>4, ParallelAssumption
<1>6. DOMAIN leaf.l1Tokens = 1..n /\ IsFiniteSet(1..n)
  <2>1. IsFiniteSet(1..n) BY FS_Interval
  <2> QED BY <1>3, <1>4, <2>1
<1>7. \A i \in 1..n : leaf.netSendAmounts[i] \in Int /\ leaf.bundleLpFees[i] \in Nat
  BY <1>3, <1>5
<1>8. \A i \in 1..n : /\ ProtocolFee(leaf.bundleLpFees[i], pct) \in Nat
                      /\ leaf.bundleLpFees[i] - ProtocolFee(leaf.bundleLpFees[i], pct) \in Nat
  <2> SUFFICES ASSUME NEW fee \in Nat
               PROVE  ProtocolFee(fee, pct) \in Nat /\ fee - ProtocolFee(fee, pct) \in Nat
    BY <1>7
  <2> QED BY <1>2, ProtocolShare
<1>9. SentIn(leaf, t) \in Nat
  <2> DEFINE f == [i \in 1..n |-> IF leaf.l1Tokens[i] = t /\ leaf.netSendAmounts[i] > 0
                                  THEN leaf.netSendAmounts[i] ELSE 0]
  <2>1. f \in [1..n -> Nat] BY <1>7
  <2> HIDE DEF f
  <2>2. SumFunction(f) \in Nat BY <1>6, <2>1, SumNat
  <2> QED BY <1>6, <2>2 DEF f, SentIn
<1>10. ProtocolFeesIn(leaf, t, pct) \in Nat
  <2> DEFINE f == [i \in 1..n |-> IF leaf.l1Tokens[i] = t
                                  THEN ProtocolFee(leaf.bundleLpFees[i], pct) ELSE 0]
  <2>1. f \in [1..n -> Nat] BY <1>8
  <2> HIDE DEF f
  <2>2. SumFunction(f) \in Nat BY <1>6, <2>1, SumNat
  <2> QED BY <1>6, <2>2 DEF f, ProtocolFeesIn
<1>11. LpFeesIn(leaf, t, pct) \in Nat
  <2> DEFINE f == [i \in 1..n |->
                     IF leaf.l1Tokens[i] = t
                     THEN leaf.bundleLpFees[i] - ProtocolFee(leaf.bundleLpFees[i], pct)
                     ELSE 0]
  <2>1. f \in [1..n -> Nat] BY <1>8
  <2> HIDE DEF f
  <2>2. SumFunction(f) \in Nat BY <1>6, <2>1, SumNat
  <2> QED BY <1>6, <2>2 DEF f, LpFeesIn
<1> QED BY <1>2, <1>9, <1>10, <1>11

\* What executing a leaf does to a token.
LEMMA AfterLeafFacts ==
  ASSUME TypeInv, NEW leaf \in Leaf, NEW t \in L1Token,
         SentIn(leaf, t) <= pooledTokens[t].liquidReserves
  PROVE  LET q == AfterLeaf(leaf, t, pooledTokens[t])
             p == pooledTokens[t]
         IN  /\ q \in PooledToken
             /\ q.lastLpFeeUpdate = p.lastLpFeeUpdate
             /\ q.liquidReserves = p.liquidReserves - SentIn(leaf, t)
             /\ q.liquidReserves + q.utilizedReserves
                  = p.liquidReserves + p.utilizedReserves
                      + LpFeesIn(leaf, t, protocolFeeCapturePct)
             /\ Numerator(q) = Numerator(p)
<1> DEFINE p == pooledTokens[t]
           sent == SentIn(leaf, t)
           fees == LpFeesIn(leaf, t, protocolFeeCapturePct)
           q == [p EXCEPT !.liquidReserves = @ - sent,
                          !.utilizedReserves = @ + sent + fees,
                          !.undistributedLpFees = @ + fees]
<1>1. p \in PooledToken BY DEF TypeInv, TypeOK
<1>2. sent \in Nat /\ fees \in Nat BY LeafSums
<1>3. AfterLeaf(leaf, t, p) = q BY Zenon DEF AfterLeaf
<1>4. sent <= p.liquidReserves OBVIOUS
<1> HIDE DEF p, sent, fees
<1>5. /\ p.liquidReserves - sent \in Nat
      /\ p.utilizedReserves + sent + fees \in Int
      /\ p.undistributedLpFees + fees \in Nat
  BY <1>1, <1>2, <1>4 DEF PooledToken
<1>6. /\ q \in PooledToken
      /\ q.lastLpFeeUpdate = p.lastLpFeeUpdate
      /\ q.liquidReserves = p.liquidReserves - sent
      /\ q.utilizedReserves = p.utilizedReserves + sent + fees
      /\ q.undistributedLpFees = p.undistributedLpFees + fees
  BY <1>1, <1>5 DEF PooledToken
<1> HIDE DEF q
<1>7. /\ p.liquidReserves \in Nat /\ p.utilizedReserves \in Int
      /\ p.undistributedLpFees \in Nat
  BY <1>1 DEF PooledToken
<1>8. /\ q.liquidReserves + q.utilizedReserves
           = p.liquidReserves + p.utilizedReserves + fees
      /\ Numerator(q) = Numerator(p)
  BY <1>2, <1>6, <1>7 DEF Numerator
<1> QED BY <1>3, <1>6, <1>8 DEF p, sent, fees

LEMMA BundleTypeInv ==
  ASSUME TypeInv, BundleStep
  PROVE  TypeInv'
<1>1. ASSUME NEW u \in User, NEW a \in Proposal, ProposeRootBundle(u, a)
      PROVE  TypeInv'
  <2> DEFINE b == [poolRebalanceRoot |-> a.poolRebalanceRoot, claimedBitMap |-> {},
                   proposer |-> u,
                   unclaimedPoolRebalanceLeafCount |-> a.poolRebalanceLeafCount,
                   challengePeriodEndTimestamp |-> U32(now) + liveness]
             e == [proposer |-> u, approved |-> u \in proposers,
                   token |-> bondToken, amount |-> bondAmount, proposedAt |-> now,
                   period |-> liveness, count |-> a.poolRebalanceLeafCount,
                   outcome |-> "open", leaves |-> <<>>]
  <2>1. a.poolRebalanceLeafCount \in Nat /\ a.poolRebalanceRoot \subseteq Leaf
    BY ArgumentAssumption DEF ProposalArg
  <2>2. U32(now) + liveness \in 0..MaxUint32
    <3>1. U32(now) + liveness <= MaxUint32 /\ liveness \in Nat
      BY <1>1 DEF ProposeRootBundle, TypeInv, TypeOK
    <3> QED BY <3>1, NowIsUint32
  <2>3. b \in RootBundle BY <2>1, <2>2 DEF RootBundle
  <2>4. e \in LogEntry
    <3>1. /\ bondToken \in L1Token /\ bondAmount \in Nat /\ now \in Nat
          /\ liveness \in Nat
      BY <1>1 DEF ProposeRootBundle, TypeInv, TypeOK
    <3>2. "open" \in Outcome BY DEF Outcome
    <3>3. (u \in proposers) \in BOOLEAN OBVIOUS
    <3>4. <<>> \in Seq([leaf : Leaf, at : Nat]) OBVIOUS
    <3> QED BY <2>1, <3>1, <3>2, <3>3, <3>4 DEF LogEntry
  <2>5. rootBundleProposal' = b /\ proposalLog' = Append(proposalLog, e)
    BY <1>1 DEF ProposeRootBundle
  <2> HIDE DEF b, e
  <2>6. /\ proposalLog' \in Seq(LogEntry)
        /\ Len(proposalLog') = Len(proposalLog) + 1
    BY <2>4, <2>5 DEF TypeInv, TypeOK
  <2>7. balance' \in [L1Token -> Nat]
    BY <1>1 DEF ProposeRootBundle, TypeInv, TypeOK
  <2>8. TypeOK' BY <1>1, <2>3, <2>5, <2>6, <2>7 DEF ProposeRootBundle, TypeInv, TypeOK
  <2>9. Len(proposalLog) < MaxProposals /\ Len(proposalLog) \in Nat /\ MaxProposals \in Nat
    BY <1>1, BoundAssumption DEF ProposeRootBundle, TypeInv, TypeOK
  <2>10. BoundInv' BY <1>1, <2>6, <2>9 DEF ProposeRootBundle, TypeInv, BoundInv
  <2> QED BY <2>8, <2>10 DEF TypeInv
<1>2. ASSUME NEW leaf \in Leaf, ExecuteRootBundle(leaf) PROVE TypeInv'
  <2> DEFINE returned(t) == IF LastLeaf /\ t = bondToken THEN bondAmount ELSE 0
  <2>1. ActiveRequest /\ Len(proposalLog) # 0
    BY <1>2 DEF ExecuteRootBundle, TypeInv, BoundInv
  <2>2. rootBundleProposal' \in RootBundle
    BY <1>2, <2>1, ClaimedFacts DEF ExecuteRootBundle
  <2>3. /\ proposalLog' \in Seq(LogEntry)
        /\ Len(proposalLog') = Len(proposalLog)
    BY <1>2, <2>1, LoggedLeaf DEF ExecuteRootBundle
  <2>4. /\ pooledTokens' \in [L1Token -> PooledToken]
        /\ \A t \in L1Token : pooledTokens'[t].lastLpFeeUpdate <= now
    <3>1. /\ pooledTokens' = [t \in L1Token |-> AfterLeaf(leaf, t, pooledTokens[t])]
          /\ \A t \in L1Token : SentIn(leaf, t) <= pooledTokens[t].liquidReserves
      BY <1>2 DEF ExecuteRootBundle
    <3>2. ASSUME NEW t \in L1Token
          PROVE  /\ pooledTokens'[t] \in PooledToken
                 /\ pooledTokens'[t].lastLpFeeUpdate <= now
      <4>1. pooledTokens'[t] = AfterLeaf(leaf, t, pooledTokens[t]) BY <3>1
      <4>2. pooledTokens[t].lastLpFeeUpdate <= now BY DEF TypeInv, BoundInv
      <4> QED BY <3>1, <4>1, <4>2, AfterLeafFacts
    <3> QED BY <3>1, <3>2
  <2>5. balance' \in [L1Token -> Nat]
    <3>1. /\ balance' = [t \in L1Token |-> balance[t] - SentIn(leaf, t) - returned(t)]
          /\ \A t \in L1Token : SentIn(leaf, t) + returned(t) <= balance[t]
      BY <1>2 DEF ExecuteRootBundle
    <3>2. \A t \in L1Token : returned(t) \in Nat BY DEF TypeInv, TypeOK
    <3> HIDE DEF returned
    <3>3. ASSUME NEW t \in L1Token
          PROVE  balance[t] - SentIn(leaf, t) - returned(t) \in Nat
      <4>1. balance[t] \in Nat /\ SentIn(leaf, t) \in Nat /\ returned(t) \in Nat
        BY <3>2, LeafSums DEF TypeInv, TypeOK
      <4> QED BY <3>1, <4>1
    <3> QED BY <3>1, <3>3
  <2>6. /\ lpCapital' \in [L1Token -> Int]
        /\ unclaimedAccumulatedProtocolFees' \in [L1Token -> Nat]
    <3>1. \A t \in L1Token : lpCapital[t] \in Int
                               /\ unclaimedAccumulatedProtocolFees[t] \in Nat
      BY DEF TypeInv, TypeOK
    <3>2. /\ lpCapital' = [t \in L1Token |->
               lpCapital[t] + LpFeesIn(leaf, t, protocolFeeCapturePct)]
          /\ unclaimedAccumulatedProtocolFees' = [t \in L1Token |->
               unclaimedAccumulatedProtocolFees[t]
                 + ProtocolFeesIn(leaf, t, protocolFeeCapturePct)]
      BY <1>2 DEF ExecuteRootBundle
    <3> QED BY <3>1, <3>2, LeafSums
  <2>7. messages' \in [Chain -> Seq(Message)]
    <3>1. Len(proposalLog) \in 1..MaxProposals
      BY <2>1, BoundAssumption DEF TypeInv, TypeOK, BoundInv
    <3>2. [roots |-> Len(proposalLog)] \in Message BY <3>1 DEF Message
    <3>3. leaf.chainId \in Chain BY ArgumentAssumption DEF PoolRebalanceLeaf
    <3>4. \/ messages' = messages
          \/ messages' = [messages EXCEPT ![leaf.chainId] =
                            Append(@, [roots |-> Len(proposalLog)])]
      BY <1>2 DEF ExecuteRootBundle
    <3>5. messages \in [Chain -> Seq(Message)] BY DEF TypeInv, TypeOK
    <3>6. Append(messages[leaf.chainId], [roots |-> Len(proposalLog)]) \in Seq(Message)
      BY <3>2, <3>3, <3>5
    <3> QED BY <3>4, <3>5, <3>6
  <2>8. TypeOK'
    BY <1>2, <2>2, <2>3, <2>4, <2>5, <2>6, <2>7 DEF ExecuteRootBundle, TypeInv, TypeOK
  <2>9. BoundInv'
    BY <1>2, <2>1, <2>3, <2>4 DEF ExecuteRootBundle, TypeInv, BoundInv
  <2> QED BY <2>8, <2>9 DEF TypeInv
<1>3. ASSUME NEW u \in User, NEW accepted \in BOOLEAN, DisputeRootBundle(u, accepted)
      PROVE  TypeInv'
  <2> DEFINE o == IF Cancelled(accepted) THEN "cancelled" ELSE "disputed"
  <2>1. NoProposal \in RootBundle /\ NoProposal.unclaimedPoolRebalanceLeafCount = 0
    BY NumberAssumption DEF NoProposal, RootBundle
  <2>2. o \in Outcome BY DEF Outcome
  <2>3. rootBundleProposal' = NoProposal /\ proposalLog' = CloseProposal(o)
    BY <1>3 DEF DisputeRootBundle
  <2>4. proposalLog' \in Seq(LogEntry) /\ Len(proposalLog') = Len(proposalLog)
    BY <2>2, <2>3, ClosedLog
  <2>5. balance' \in [L1Token -> Nat]
    <3>1. CASE bondToken \in L1Token
      <4>1. balance[bondToken] - bondAmount \in Nat
        BY <1>3, <3>1 DEF DisputeRootBundle, CanDispute, TypeInv, TypeOK
      <4> QED BY <1>3, <4>1 DEF DisputeRootBundle, LeavesPoolOnDispute, TypeInv, TypeOK
    <3>2. CASE bondToken \notin L1Token
      BY <1>3, <3>2 DEF DisputeRootBundle, TypeInv, TypeOK
    <3> QED BY <3>1, <3>2
  <2>6. TypeOK' BY <1>3, <2>1, <2>3, <2>4, <2>5 DEF DisputeRootBundle, TypeInv, TypeOK
  <2>7. BoundInv'
    BY <1>3, <2>1, <2>3, <2>4 DEF DisputeRootBundle, TypeInv, BoundInv, ActiveRequest
  <2> QED BY <2>6, <2>7 DEF TypeInv
<1> QED BY <1>1, <1>2, <1>3 DEF BundleStep

LEMMA EnvironmentTypeInv ==
  ASSUME TypeInv, EnvironmentStep
  PROVE  TypeInv'
<1> USE Arguments DEF TypeInv
<1>1. ASSUME NEW u \in Candidate, NEW enabled \in BOOLEAN, SetProposer(u, enabled)
      PROVE  TypeInv'
  BY <1>1 DEF SetProposer, TypeOK, BoundInv, ActiveRequest
<1>2. ASSUME NEW fee \in FinalFee, SetFinalFee(fee) PROVE TypeInv'
  BY <1>2 DEF SetFinalFee, TypeOK, BoundInv, ActiveRequest
<1>3. ASSUME NEW t \in L1Token, NEW amount \in Arrival, TokensArrive(t, amount)
      PROVE  TypeInv'
  <2>1. balance[t] + amount \in Nat BY DEF TypeOK
  <2>2. balance' \in [L1Token -> Nat] BY <1>3, <2>1 DEF TokensArrive, TypeOK
  <2> QED BY <1>3, <2>2 DEF TokensArrive, TypeOK, BoundInv, ActiveRequest
<1>4. CASE Tick
  <2>1. \A t \in L1Token : pooledTokens[t].lastLpFeeUpdate \in Nat
    BY DEF TypeOK, PooledToken
  <2>2. now' = now + 1 /\ now' \in 1..MaxTime /\ now \in Nat
    BY <1>4, BoundAssumption DEF Tick, BoundInv
  <2>3. \A t \in L1Token : pooledTokens[t].lastLpFeeUpdate <= now'
    BY <2>1, <2>2 DEF BoundInv
  <2>4. TypeOK' BY <1>4, <2>2 DEF Tick, TypeOK
  <2>5. BoundInv' BY <1>4, <2>2, <2>3 DEF Tick, BoundInv, ActiveRequest
  <2> QED BY <2>4, <2>5
<1> QED BY <1>1, <1>2, <1>3, <1>4 DEF EnvironmentStep

LEMMA NextTypeInv == TypeInv /\ [Next]_vars => TypeInv'
<1> SUFFICES ASSUME TypeInv, [Next]_vars PROVE TypeInv' OBVIOUS
<1>1. CASE UNCHANGED vars
  BY <1>1 DEF vars, TypeInv, TypeOK, BoundInv, ActiveRequest
<1> QED BY <1>1, OwnerTypeInv, LiquidityTypeInv, BundleTypeInv, EnvironmentTypeInv
        DEF Next

LEMMA TypeInvariant == Spec => []TypeInv
  BY InitTypeInv, NextTypeInv, PTL DEF Spec

\* Every reachable state has the types of the contract's storage: balances,
\* reserves, fees and LP supply never go below zero, and every timestamp fits.
THEOREM TypeCorrect == Spec => []TypeOK
  BY TypeInvariant, PTL DEF TypeInv

-----------------------------------------------------------------------------
(* Proposals and bonds *)

\* An entry of the log at a time: its leaves were executed after the challenge
\* period of its proposal, each once, and it ended as its leaves say.
EntryOK(e, time) ==
    /\ \A k \in 1..Len(e.leaves) :
         e.leaves[k].at > e.proposedAt + e.period /\ e.leaves[k].at <= time
    /\ \A k, l \in 1..Len(e.leaves) :
         e.leaves[k].leaf.leafId = e.leaves[l].leaf.leafId => k = l
    /\ e.outcome \in {"disputed", "cancelled"} => e.leaves = <<>>
    /\ e.outcome = "executed" <=> Len(e.leaves) = e.count

\* The entry of the proposal whose leaves are being claimed agrees with the
\* contract's storage.
OpenOK(e) ==
    /\ e.outcome = "open"
    /\ e.token = bondToken
    /\ e.amount = bondAmount
    /\ e.proposer = rootBundleProposal.proposer
    /\ e.proposedAt + e.period = rootBundleProposal.challengePeriodEndTimestamp
    /\ \A k \in 1..Len(e.leaves) :
         e.leaves[k].leaf.leafId \in rootBundleProposal.claimedBitMap
    /\ Len(e.leaves) + rootBundleProposal.unclaimedPoolRebalanceLeafCount = e.count

\* Without an active request nothing is open and nothing can be disputed.
BundleInv ==
    /\ \A i \in 1..Len(proposalLog) : EntryOK(proposalLog[i], now)
    /\ \A i \in 1..Len(proposalLog) :
         proposalLog[i].outcome = "open" => ActiveRequest /\ i = Len(proposalLog)
    /\ ActiveRequest => OpenOK(proposalLog[Len(proposalLog)])
    /\ ~ActiveRequest => rootBundleProposal.challengePeriodEndTimestamp < now

\* Every step outside this list leaves the proposal, its log and the bond alone.
LEMMA BundleSteps ==
  ASSUME Next
  PROVE  \/ UNCHANGED <<bundleVars, bondVars>> /\ (now' = now \/ now' = now + 1)
         \/ ~ActiveRequest /\ UNCHANGED <<bundleVars, now>>
         \/ \E u \in User, a \in Proposal : ProposeRootBundle(u, a)
         \/ \E leaf \in Leaf : ExecuteRootBundle(leaf)
         \/ \E u \in User, accepted \in BOOLEAN : DisputeRootBundle(u, accepted)
         \/ ActiveRequest /\ EmergencyDeleteProposal
         \/ ~ActiveRequest /\ EmergencyDeleteProposal
<1>1. CASE OwnerStep
  BY <1>1, Zenon DEF OwnerStep, SetPaused, SetProtocolFeeCapture, SetBond, SetLiveness,
     SetIdentifier, SetCrossChainContracts, SetPoolRebalanceRoute, EnableL1Token,
     DisableL1Token, HaircutReserves, RelaySpokePoolAdminFunction
<1>2. CASE LiquidityStep
  BY <1>2, ZenonT(40) DEF LiquidityStep, AddLiquidity, RemoveLiquidity, ExchangeRateCurrent,
     Sync, ClaimProtocolFeesCaptured
<1>3. CASE BundleStep BY <1>3, Zenon DEF BundleStep
<1>4. CASE EnvironmentStep
  BY <1>4, Zenon DEF EnvironmentStep, SetProposer, SetFinalFee, TokensArrive, Tick
<1> QED BY <1>1, <1>2, <1>3, <1>4 DEF Next

LEMMA InitBundleInv == Init => BundleInv
<1> SUFFICES ASSUME Init PROVE BundleInv OBVIOUS
<1>1. proposalLog = <<>> /\ ~ActiveRequest /\ now = 1
        /\ rootBundleProposal.challengePeriodEndTimestamp = 0
  BY DEF Init, ActiveRequest, NoProposal
<1>2. Len(proposalLog) = 0 BY <1>1
<1> QED BY <1>1, <1>2 DEF BundleInv

\* An entry stays in order while time passes.
LEMMA EntryLater ==
  ASSUME NEW e \in LogEntry, NEW time \in Nat, NEW later \in Nat, time <= later,
         EntryOK(e, time)
  PROVE  EntryOK(e, later)
<1> DEFINE R == [leaf : Leaf, at : Nat]
<1>1. e.leaves \in Seq(R) BY DEF LogEntry
<1>2. \A r \in R : r.at \in Nat OBVIOUS
<1> HIDE DEF R
<1>3. \A k \in 1..Len(e.leaves) : e.leaves[k].at \in Nat BY <1>1, <1>2
<1> QED BY <1>3 DEF EntryOK

\* A proposal starts an entry without leaves.
LEMMA ProposeBundleInv ==
  ASSUME TypeInv, BundleInv, NEW u \in User, NEW a \in Proposal,
         ProposeRootBundle(u, a)
  PROVE  BundleInv'
<1> DEFINE n == Len(proposalLog)
           e == [proposer |-> u, approved |-> u \in proposers,
                 token |-> bondToken, amount |-> bondAmount, proposedAt |-> now,
                 period |-> liveness, count |-> a.poolRebalanceLeafCount,
                 outcome |-> "open", leaves |-> <<>>]
<1>1. a.poolRebalanceLeafCount \in Nat \ {0}
  BY ArgumentAssumption DEF ProposalArg, ProposeRootBundle
<1>2. proposalLog' = Append(proposalLog, e) /\ now' = now /\ ~ActiveRequest
        /\ bondToken' = bondToken /\ bondAmount' = bondAmount
  BY DEF ProposeRootBundle
<1>3. /\ rootBundleProposal'.unclaimedPoolRebalanceLeafCount = a.poolRebalanceLeafCount
      /\ rootBundleProposal'.proposer = u
      /\ rootBundleProposal'.challengePeriodEndTimestamp = now + liveness
  BY NowIsUint32 DEF ProposeRootBundle
<1>4. proposalLog \in Seq(LogEntry) BY DEF TypeInv, TypeOK
<1>5. /\ e.leaves = <<>> /\ e.outcome = "open" /\ e.token = bondToken
      /\ e.amount = bondAmount /\ e.proposer = u /\ e.proposedAt = now
      /\ e.period = liveness /\ e.count = a.poolRebalanceLeafCount
  OBVIOUS
<1> HIDE DEF e
<1>6. /\ Len(proposalLog') = n + 1 /\ n \in Nat
      /\ proposalLog'[n + 1] = e
      /\ \A i \in 1..n : proposalLog'[i] = proposalLog[i]
  BY <1>2, <1>4
<1>7. ActiveRequest' BY <1>1, <1>3 DEF ActiveRequest
<1>8. EntryOK(e, now) BY <1>1, <1>5 DEF EntryOK
<1>9. \A i \in 1..n + 1 : EntryOK(proposalLog'[i], now')
  BY <1>2, <1>6, <1>8 DEF BundleInv
<1>10. \A i \in 1..n + 1 : proposalLog'[i].outcome = "open" => i = n + 1
  BY <1>2, <1>6 DEF BundleInv
<1>11. OpenOK(proposalLog[Len(proposalLog)])'
  BY <1>1, <1>2, <1>3, <1>5, <1>6 DEF OpenOK
<1> QED BY <1>6, <1>7, <1>9, <1>10, <1>11 DEF BundleInv

\* Executing a leaf extends the open entry, and closes it with the last leaf.
LEMMA ExecuteBundleInv ==
  ASSUME TypeInv, BundleInv, NEW leaf \in Leaf, ExecuteRootBundle(leaf)
  PROVE  BundleInv'
<1> DEFINE n == Len(proposalLog)
           e == proposalLog[n]
           f == proposalLog'[n]
           b == rootBundleProposal
           left == b.unclaimedPoolRebalanceLeafCount
           m == Len(e.leaves)
<1>1. /\ ActiveRequest /\ n # 0
      /\ now > b.challengePeriodEndTimestamp
      /\ leaf.leafId \notin b.claimedBitMap
      /\ rootBundleProposal' = ClaimLeaf(leaf) /\ proposalLog' = LogLeaf(leaf)
      /\ now' = now /\ bondToken' = bondToken /\ bondAmount' = bondAmount
  BY DEF ExecuteRootBundle, ChallengePeriodIsOver, TypeInv, BoundInv
<1>2. proposalLog \in Seq(LogEntry) /\ n \in Nat /\ n \in 1..n
  BY <1>1 DEF TypeInv, TypeOK
<1>3. e \in LogEntry BY <1>2
<1>4. /\ left \in Nat \ {0} /\ now \in Nat /\ b.challengePeriodEndTimestamp \in Nat
  BY <1>1 DEF TypeInv, TypeOK, RootBundle, ActiveRequest
<1>5. /\ rootBundleProposal'.unclaimedPoolRebalanceLeafCount = left - 1
      /\ rootBundleProposal'.claimedBitMap = b.claimedBitMap \cup {leaf.leafId}
      /\ rootBundleProposal'.challengePeriodEndTimestamp = b.challengePeriodEndTimestamp
      /\ rootBundleProposal'.proposer = b.proposer
  BY <1>1, ClaimedFacts
<1>6. /\ Len(proposalLog') = n
      /\ \A i \in 1..n : i # n => proposalLog'[i] = proposalLog[i]
      /\ f = [e EXCEPT !.leaves = Append(@, [leaf |-> leaf, at |-> now]),
                       !.outcome = IF LastLeaf THEN "executed" ELSE @]
  BY <1>1, LoggedLeaf
<1>7. /\ EntryOK(e, now) /\ OpenOK(e)
      /\ \A i \in 1..n : EntryOK(proposalLog[i], now)
      /\ \A i \in 1..n : proposalLog[i].outcome = "open" => i = n
  BY <1>1, <1>2 DEF BundleInv
<1>8. e.outcome = "open" BY <1>7 DEF OpenOK
<1>9. /\ f.leaves = Append(e.leaves, [leaf |-> leaf, at |-> now])
      /\ f.outcome = (IF left = 1 THEN "executed" ELSE "open")
      /\ f.proposer = e.proposer /\ f.token = e.token /\ f.amount = e.amount
      /\ f.proposedAt = e.proposedAt /\ f.period = e.period /\ f.count = e.count
  BY <1>3, <1>6, <1>8 DEF LogEntry, LastLeaf
<1>10. /\ e.proposedAt \in Nat /\ e.period \in Nat /\ e.count \in Nat
       /\ e.leaves \in Seq([leaf : Leaf, at : Nat])
  BY <1>3 DEF LogEntry
<1> HIDE DEF f, e
<1>11. /\ m \in Nat /\ Len(f.leaves) = m + 1
       /\ \A k \in 1..m : f.leaves[k] = e.leaves[k]
       /\ f.leaves[m + 1] = [leaf |-> leaf, at |-> now]
  <2> DEFINE R == [leaf : Leaf, at : Nat]
             r == [leaf |-> leaf, at |-> now]
  <2>1. r \in R /\ e.leaves \in Seq(R) BY <1>4, <1>10
  <2> HIDE DEF R, r
  <2>2. f.leaves = Append(e.leaves, r) BY <1>9 DEF r
  <2>3. /\ m \in Nat /\ Len(f.leaves) = m + 1
        /\ \A k \in 1..m : f.leaves[k] = e.leaves[k]
        /\ f.leaves[m + 1] = r
    BY <2>1, <2>2
  <2> QED BY <2>3 DEF r
<1>12. /\ f.leaves[m + 1].leaf = leaf /\ f.leaves[m + 1].at = now
  BY <1>11
<1>13. /\ m + left = e.count
       /\ \A k \in 1..m : e.leaves[k].leaf.leafId \in b.claimedBitMap
       /\ e.proposedAt + e.period = b.challengePeriodEndTimestamp
  BY <1>7 DEF OpenOK
<1>14. EntryOK(f, now)
  <2>1. \A k \in 1..m + 1 :
          f.leaves[k].at > f.proposedAt + f.period /\ f.leaves[k].at <= now
    BY <1>1, <1>4, <1>7, <1>9, <1>11, <1>12, <1>13 DEF EntryOK
  <2>2. \A k, l \in 1..m + 1 :
          f.leaves[k].leaf.leafId = f.leaves[l].leaf.leafId => k = l
    <3>1. \A k, l \in 1..m : e.leaves[k].leaf.leafId = e.leaves[l].leaf.leafId => k = l
      BY <1>7 DEF EntryOK
    <3>2. \A k \in 1..m : f.leaves[k].leaf.leafId # leaf.leafId
      BY <1>1, <1>11, <1>13
    <3>3. f.leaves[m + 1].leaf.leafId = leaf.leafId BY <1>12
    <3>4. \A k \in 1..m + 1 : k \in 1..m \/ k = m + 1 BY <1>11
    <3>5. \A k, l \in 1..m : f.leaves[k].leaf.leafId = f.leaves[l].leaf.leafId => k = l
      BY <1>11, <3>1
    <3> QED BY <3>2, <3>3, <3>4, <3>5
  <2>3. f.outcome = "executed" <=> m + 1 = f.count
    BY <1>4, <1>9, <1>10, <1>11, <1>13
  <2> QED BY <1>9, <1>11, <2>1, <2>2, <2>3 DEF EntryOK
<1>15. \A i \in 1..n : EntryOK(proposalLog'[i], now')
  BY <1>1, <1>6, <1>7, <1>14 DEF f
<1>16. ActiveRequest' <=> left # 1 BY <1>4, <1>5 DEF ActiveRequest
<1>17. \A i \in 1..n : proposalLog'[i].outcome = "open" => ActiveRequest' /\ i = n
  BY <1>6, <1>7, <1>9, <1>16 DEF f
<1>18. ASSUME ActiveRequest' PROVE OpenOK(proposalLog[Len(proposalLog)])'
  <2>1. \A k \in 1..m + 1 :
          f.leaves[k].leaf.leafId \in b.claimedBitMap \cup {leaf.leafId}
    <3>1. \A k \in 1..m : f.leaves[k].leaf.leafId \in b.claimedBitMap BY <1>11, <1>13
    <3>2. f.leaves[m + 1].leaf.leafId = leaf.leafId BY <1>12
    <3>3. \A k \in 1..m + 1 : k \in 1..m \/ k = m + 1 BY <1>11
    <3> HIDE DEF m, b
    <3> QED BY <3>1, <3>2, <3>3
  <2>2. Len(f.leaves) + (left - 1) = f.count
    <3>1. f.count = m + left /\ Len(f.leaves) = m + 1 BY <1>9, <1>11, <1>13
    <3> HIDE DEF m, left
    <3> QED BY <1>4, <1>11, <3>1
  <2>3. /\ f.outcome = "open" /\ f.token = bondToken /\ f.amount = bondAmount
        /\ f.proposer = b.proposer
        /\ f.proposedAt + f.period = b.challengePeriodEndTimestamp
    BY <1>7, <1>9, <1>16, <1>18 DEF OpenOK
  <2>4. proposalLog'[Len(proposalLog')] = f BY <1>6 DEF f
  <2> QED BY <1>1, <1>5, <1>11, <2>1, <2>2, <2>3, <2>4 DEF OpenOK
<1>19. rootBundleProposal'.challengePeriodEndTimestamp < now'
  BY <1>1, <1>4, <1>5
<1> QED BY <1>6, <1>15, <1>17, <1>18, <1>19 DEF BundleInv

\* Closing the open entry, before its challenge period is over or as deleted.
LEMMA CloseBundleInv ==
  ASSUME TypeInv, BundleInv, ActiveRequest, NEW o \in Outcome \ {"open", "executed"},
         o # "deleted" => now <= rootBundleProposal.challengePeriodEndTimestamp,
         rootBundleProposal' = NoProposal, proposalLog' = CloseProposal(o), now' = now
  PROVE  BundleInv'
<1> DEFINE n == Len(proposalLog)
           e == proposalLog[n]
           f == proposalLog'[n]
<1>1. n # 0 BY DEF TypeInv, BoundInv
<1>2. proposalLog \in Seq(LogEntry) /\ n \in Nat /\ n \in 1..n
  BY <1>1 DEF TypeInv, TypeOK
<1>3. e \in LogEntry BY <1>2
<1>4. /\ now \in Nat /\ now > 0
      /\ rootBundleProposal.unclaimedPoolRebalanceLeafCount \in Nat \ {0}
      /\ rootBundleProposal.challengePeriodEndTimestamp \in Nat
  BY BoundAssumption DEF TypeInv, TypeOK, BoundInv, RootBundle, ActiveRequest
<1>5. /\ Len(proposalLog') = n
      /\ \A i \in 1..n : i # n => proposalLog'[i] = proposalLog[i]
      /\ f = [e EXCEPT !.outcome = o]
  BY <1>2, ClosedLog
<1>6. /\ EntryOK(e, now) /\ OpenOK(e)
      /\ \A i \in 1..n : EntryOK(proposalLog[i], now)
      /\ \A i \in 1..n : proposalLog[i].outcome = "open" => i = n
  BY <1>1, <1>2 DEF BundleInv
<1>7. /\ f.leaves = e.leaves /\ f.outcome = o
      /\ f.proposedAt = e.proposedAt /\ f.period = e.period /\ f.count = e.count
  BY <1>3, <1>5 DEF LogEntry
<1>8. /\ e.leaves \in Seq([leaf : Leaf, at : Nat]) /\ e.count \in Nat
  BY <1>3 DEF LogEntry
<1> HIDE DEF e, f
<1>9. Len(e.leaves) \in Nat /\ (Len(e.leaves) = 0 => e.leaves = <<>>) BY <1>8
<1>10. Len(e.leaves) # e.count
  BY <1>4, <1>6, <1>8, <1>9 DEF OpenOK
<1>11. ASSUME o # "deleted" PROVE e.leaves = <<>>
  <2>1. SUFFICES ASSUME Len(e.leaves) # 0 PROVE FALSE BY <1>9
  <2>2. 1 \in 1..Len(e.leaves) BY <1>9, <2>1
  <2>3. e.leaves[1].at > e.proposedAt + e.period /\ e.leaves[1].at <= now
    BY <1>6, <2>2 DEF EntryOK
  <2>4. e.proposedAt + e.period = rootBundleProposal.challengePeriodEndTimestamp
    BY <1>6 DEF OpenOK
  <2>5. e.leaves[1].at \in Nat
    <3> DEFINE R == [leaf : Leaf, at : Nat]
    <3>1. e.leaves \in Seq(R) BY <1>8
    <3>2. \A r \in R : r.at \in Nat OBVIOUS
    <3> HIDE DEF R
    <3> QED BY <2>2, <3>1, <3>2
  <2> QED BY <1>4, <1>11, <2>3, <2>4, <2>5
<1>12. EntryOK(f, now)
  BY <1>6, <1>7, <1>10, <1>11 DEF EntryOK
<1>13. \A i \in 1..n : EntryOK(proposalLog'[i], now')
  BY <1>5, <1>6, <1>12 DEF f
<1>14. \A i \in 1..n : proposalLog'[i].outcome # "open"
  BY <1>5, <1>6, <1>7 DEF f
<1>15. ~ActiveRequest' /\ rootBundleProposal'.challengePeriodEndTimestamp = 0
  BY DEF ActiveRequest, NoProposal
<1> QED BY <1>4, <1>5, <1>13, <1>14, <1>15 DEF BundleInv

\* Only an active request can be disputed.
LEMMA DisputedIsActive ==
  ASSUME TypeInv, BundleInv, NEW u, NEW accepted, DisputeRootBundle(u, accepted)
  PROVE  ActiveRequest /\ now <= rootBundleProposal.challengePeriodEndTimestamp
<1>1. now <= rootBundleProposal.challengePeriodEndTimestamp
  BY NowIsUint32 DEF DisputeRootBundle, CanDispute
<1>2. now \in Nat /\ rootBundleProposal.challengePeriodEndTimestamp \in Nat
  BY NowIsUint32 DEF TypeInv, TypeOK, RootBundle
<1> QED BY <1>1, <1>2 DEF BundleInv

LEMMA NextBundleInv == TypeInv /\ BundleInv /\ [Next]_vars => BundleInv'
<1> SUFFICES ASSUME TypeInv, BundleInv, [Next]_vars PROVE BundleInv' OBVIOUS
<1>0. now \in Nat /\ proposalLog \in Seq(LogEntry)
        /\ rootBundleProposal.challengePeriodEndTimestamp \in Nat
  BY NowIsUint32 DEF TypeInv, TypeOK, RootBundle
<1>1. CASE UNCHANGED <<bundleVars, bondVars>> /\ (now' = now \/ now' = now + 1)
  <2>1. ActiveRequest' <=> ActiveRequest BY <1>1 DEF ActiveRequest
  <2>2. \A i \in 1..Len(proposalLog) : EntryOK(proposalLog[i], now')
    BY <1>0, <1>1, EntryLater DEF BundleInv
  <2>3. ActiveRequest => OpenOK(proposalLog[Len(proposalLog)])'
    BY <1>1 DEF BundleInv, OpenOK
  <2>4. ~ActiveRequest => rootBundleProposal.challengePeriodEndTimestamp < now'
    BY <1>0, <1>1 DEF BundleInv
  <2> QED BY <1>1, <2>1, <2>2, <2>3, <2>4 DEF BundleInv
<1>2. CASE ~ActiveRequest /\ UNCHANGED <<bundleVars, now>>
  <2>1. ~ActiveRequest' BY <1>2 DEF ActiveRequest
  <2> QED BY <1>2, <2>1 DEF BundleInv
<1>3. ASSUME NEW u \in User, NEW accepted \in BOOLEAN, DisputeRootBundle(u, accepted)
      PROVE  BundleInv'
  <2> DEFINE o == IF Cancelled(accepted) THEN "cancelled" ELSE "disputed"
  <2>1. /\ rootBundleProposal' = NoProposal /\ proposalLog' = CloseProposal(o)
        /\ now' = now
    BY <1>3 DEF DisputeRootBundle
  <2>2. o \in Outcome \ {"open", "executed"} BY DEF Outcome
  <2> HIDE DEF o
  <2> QED BY <1>3, <2>1, <2>2, DisputedIsActive, CloseBundleInv
<1>4. CASE ActiveRequest /\ EmergencyDeleteProposal
  <2>1. /\ rootBundleProposal' = NoProposal /\ proposalLog' = CloseProposal("deleted")
        /\ now' = now
    BY <1>4 DEF EmergencyDeleteProposal
  <2>2. "deleted" \in Outcome \ {"open", "executed"} BY DEF Outcome
  <2> QED BY <1>4, <2>1, <2>2, CloseBundleInv
<1>5. CASE ~ActiveRequest /\ EmergencyDeleteProposal
  <2>1. /\ rootBundleProposal' = NoProposal /\ proposalLog' = proposalLog /\ now' = now
    BY <1>5 DEF EmergencyDeleteProposal
  <2>2. ~ActiveRequest' /\ rootBundleProposal'.challengePeriodEndTimestamp = 0
    BY <2>1 DEF ActiveRequest, NoProposal
  <2>3. now > 0 BY BoundAssumption DEF TypeInv, BoundInv
  <2> QED BY <1>5, <2>1, <2>2, <2>3 DEF BundleInv
<1>6. CASE UNCHANGED vars BY <1>1, <1>6 DEF vars
<1>7. CASE Next
  BY <1>1, <1>2, <1>3, <1>4, <1>5, <1>7, BundleSteps, ProposeBundleInv, ExecuteBundleInv
<1> QED BY <1>6, <1>7

LEMMA BundleInvariant == Spec => [](TypeInv /\ BundleInv)
<1>1. Init => TypeInv /\ BundleInv BY InitTypeInv, InitBundleInv
<1>2. (TypeInv /\ BundleInv) /\ [Next]_vars => (TypeInv /\ BundleInv)'
  BY NextTypeInv, NextBundleInv
<1> QED BY <1>1, <1>2, PTL DEF Spec

\* The pool owes the bond of exactly the last proposal, while and only while
\* leaves of it are unclaimed, and still knows its token, amount and proposer:
\* setBond cannot change the settings under it.
THEOREM BondOwedOnce == Spec => []BondIsOwedOnce
<1>1. TypeInv /\ BundleInv => BondIsOwedOnce
  <2> SUFFICES ASSUME TypeInv, BundleInv PROVE BondIsOwedOnce OBVIOUS
  <2>1. proposalLog \in Seq(LogEntry) BY DEF TypeInv, TypeOK
  <2>2. DOMAIN proposalLog = 1..Len(proposalLog) BY <2>1
  <2>3. Last(proposalLog) = proposalLog[Len(proposalLog)] BY Zenon DEF Last
  <2>4. ActiveRequest => Len(proposalLog) \in 1..Len(proposalLog)
    BY <2>1 DEF TypeInv, BoundInv
  <2>5. \A i \in DOMAIN proposalLog :
          proposalLog[i].outcome = "open" <=> (ActiveRequest /\ i = Len(proposalLog))
    BY <2>2, <2>4 DEF BundleInv, OpenOK
  <2> QED BY <2>3, <2>5 DEF BundleInv, OpenOK, BondIsOwedOnce
<1> QED BY <1>1, BundleInvariant, PTL

\* Every leaf executed waited out the challenge period set when its bundle was
\* proposed, and a disputed or cancelled bundle executed none.
THEOREM ChallengeSurvived == Spec => []LeavesSurvivedChallenge
<1>1. TypeInv /\ BundleInv => LeavesSurvivedChallenge
  <2> SUFFICES ASSUME TypeInv, BundleInv, NEW i \in DOMAIN proposalLog
               PROVE  /\ \A k \in DOMAIN proposalLog[i].leaves :
                           proposalLog[i].leaves[k].at
                             > proposalLog[i].proposedAt + proposalLog[i].period
                      /\ proposalLog[i].outcome \in {"disputed", "cancelled"}
                           => proposalLog[i].leaves = <<>>
    BY DEF LeavesSurvivedChallenge
  <2>1. proposalLog \in Seq(LogEntry) BY DEF TypeInv, TypeOK
  <2>2. i \in 1..Len(proposalLog) /\ proposalLog[i] \in LogEntry BY <2>1
  <2>3. DOMAIN proposalLog[i].leaves = 1..Len(proposalLog[i].leaves)
    BY <2>2 DEF LogEntry
  <2> QED BY <2>2, <2>3 DEF BundleInv, EntryOK
<1> QED BY <1>1, BundleInvariant, PTL

\* A proposal executes every leaf id at most once and is finished exactly when
\* it executed as many leaves as its proposer announced.
THEOREM ExecutedOnce == Spec => []LeavesExecuteOnce
<1>1. TypeInv /\ BundleInv => LeavesExecuteOnce
  <2> SUFFICES ASSUME TypeInv, BundleInv, NEW i \in DOMAIN proposalLog
               PROVE  /\ \A k, l \in DOMAIN proposalLog[i].leaves :
                           proposalLog[i].leaves[k].leaf.leafId
                               = proposalLog[i].leaves[l].leaf.leafId => k = l
                      /\ proposalLog[i].outcome = "executed"
                           <=> Len(proposalLog[i].leaves) = proposalLog[i].count
    BY DEF LeavesExecuteOnce
  <2>1. proposalLog \in Seq(LogEntry) BY DEF TypeInv, TypeOK
  <2>2. i \in 1..Len(proposalLog) /\ proposalLog[i] \in LogEntry BY <2>1
  <2>3. DOMAIN proposalLog[i].leaves = 1..Len(proposalLog[i].leaves)
    BY <2>2 DEF LogEntry
  <2> QED BY <2>2, <2>3 DEF BundleInv, EntryOK
<1> QED BY <1>1, BundleInvariant, PTL

\* What a step does to the entries of the log: none is dropped, and what an
\* entry says about its proposal is never rewritten.
LEMMA LogOnlyGrows ==
  ASSUME TypeInv, BundleInv, [Next]_vars
  PROVE  /\ Len(proposalLog) \in Nat
         /\ Len(proposalLog') \in Nat
         /\ \A i \in 1..Len(proposalLog') :
              \/ /\ i \in 1..Len(proposalLog)
                 /\ proposalLog'[i].token = proposalLog[i].token
                 /\ proposalLog'[i].approved = proposalLog[i].approved
              \/ \E u \in User, a \in Proposal :
                   /\ ProposeRootBundle(u, a)
                   /\ proposalLog'[i].token = bondToken
                   /\ proposalLog'[i].approved = (u \in proposers)
<1>1. proposalLog \in Seq(LogEntry) BY DEF TypeInv, TypeOK
<1>2. CASE proposalLog' = proposalLog BY <1>1, <1>2
<1>3. ASSUME NEW u \in User, NEW a \in Proposal, ProposeRootBundle(u, a)
      PROVE  /\ Len(proposalLog') = Len(proposalLog) + 1
             /\ \A i \in 1..Len(proposalLog) : proposalLog'[i] = proposalLog[i]
             /\ proposalLog'[Len(proposalLog) + 1].token = bondToken
             /\ proposalLog'[Len(proposalLog) + 1].approved = (u \in proposers)
  <2> DEFINE e == [proposer |-> u, approved |-> u \in proposers,
                   token |-> bondToken, amount |-> bondAmount, proposedAt |-> now,
                   period |-> liveness, count |-> a.poolRebalanceLeafCount,
                   outcome |-> "open", leaves |-> <<>>]
  <2>1. proposalLog' = Append(proposalLog, e) BY <1>3 DEF ProposeRootBundle
  <2>2. e.token = bondToken /\ e.approved = (u \in proposers) BY Zenon
  <2> HIDE DEF e
  <2>3. /\ Len(proposalLog') = Len(proposalLog) + 1
        /\ \A i \in 1..Len(proposalLog) : proposalLog'[i] = proposalLog[i]
        /\ proposalLog'[Len(proposalLog) + 1] = e
    BY <1>1, <2>1
  <2> QED BY <2>2, <2>3, Zenon
<1>4. ASSUME NEW leaf \in Leaf, ExecuteRootBundle(leaf)
      PROVE  /\ Len(proposalLog') = Len(proposalLog)
             /\ \A i \in 1..Len(proposalLog) :
                  /\ proposalLog'[i].token = proposalLog[i].token
                  /\ proposalLog'[i].approved = proposalLog[i].approved
  <2>1. proposalLog' = LogLeaf(leaf) /\ Len(proposalLog) # 0
    BY <1>4 DEF ExecuteRootBundle, TypeInv, BoundInv
  <2>2. \A i \in 1..Len(proposalLog) : proposalLog[i] \in LogEntry BY <1>1
  <2>3. /\ Len(proposalLog') = Len(proposalLog)
        /\ \A i \in 1..Len(proposalLog) :
             i # Len(proposalLog) => proposalLog'[i] = proposalLog[i]
        /\ proposalLog'[Len(proposalLog)]
              = [proposalLog[Len(proposalLog)] EXCEPT
                   !.leaves = Append(@, [leaf |-> leaf, at |-> now]),
                   !.outcome = IF LastLeaf THEN "executed" ELSE @]
    BY <2>1, LoggedLeaf
  <2> DEFINE e == proposalLog[Len(proposalLog)]
             ls == Append(e.leaves, [leaf |-> leaf, at |-> now])
             o == IF LastLeaf THEN "executed" ELSE e.outcome
             f == [e EXCEPT !.leaves = ls, !.outcome = o]
  <2>4. proposalLog'[Len(proposalLog)] = f BY <2>3, Zenon
  <2>5. e \in LogEntry
    <3>1. Len(proposalLog) \in 1..Len(proposalLog) BY <1>1, <2>1
    <3> QED BY <2>2, <3>1
  <2> HIDE DEF e, ls, o
  <2>6. f.token = e.token BY <2>5 DEF LogEntry
  <2>8. f.approved = e.approved BY <2>5 DEF LogEntry
  <2>7. /\ proposalLog'[Len(proposalLog)].token = proposalLog[Len(proposalLog)].token
        /\ proposalLog'[Len(proposalLog)].approved = proposalLog[Len(proposalLog)].approved
    BY <2>4, <2>6, <2>8, Zenon DEF e
  <2> QED BY <2>3, <2>7, Zenon
<1>5. ASSUME NEW o \in Outcome, proposalLog' = CloseProposal(o)
      PROVE  /\ Len(proposalLog') = Len(proposalLog)
             /\ \A i \in 1..Len(proposalLog) :
                  /\ proposalLog'[i].token = proposalLog[i].token
                  /\ proposalLog'[i].approved = proposalLog[i].approved
  <2>1. \A i \in 1..Len(proposalLog) : proposalLog[i] \in LogEntry BY <1>1
  <2>2. \A e \in LogEntry : [e EXCEPT !.outcome = o].token = e.token BY DEF LogEntry
  <2>3. \A e \in LogEntry : [e EXCEPT !.outcome = o].approved = e.approved BY DEF LogEntry
  <2>4. /\ Len(proposalLog') = Len(proposalLog)
        /\ \A i \in 1..Len(proposalLog) :
             \/ proposalLog'[i] = [proposalLog[i] EXCEPT !.outcome = o]
             \/ proposalLog'[i] = proposalLog[i]
    BY <1>5, ClosedLog
  <2> QED BY <2>1, <2>2, <2>3, <2>4
<1>6. \/ proposalLog' = proposalLog
      \/ \E u \in User, a \in Proposal : ProposeRootBundle(u, a)
      \/ \E leaf \in Leaf : ExecuteRootBundle(leaf)
      \/ \E o \in Outcome : proposalLog' = CloseProposal(o)
  <2>1. {"cancelled", "disputed", "deleted"} \subseteq Outcome BY DEF Outcome
  <2>2. CASE UNCHANGED vars BY <2>2 DEF vars
  <2>3. CASE Next
    BY <2>1, <2>3, BundleSteps DEF DisputeRootBundle, EmergencyDeleteProposal
  <2> QED BY <2>2, <2>3
<1>7. CASE \E u \in User, a \in Proposal : ProposeRootBundle(u, a)
  <2>1. PICK u \in User, a \in Proposal : ProposeRootBundle(u, a) BY <1>7
  <2>2. Len(proposalLog) \in Nat BY <1>1
  <2> QED BY <1>3, <2>1, <2>2
<1>8. CASE \E leaf \in Leaf : ExecuteRootBundle(leaf) BY <1>1, <1>4, <1>8
<1>9. CASE \E o \in Outcome : proposalLog' = CloseProposal(o) BY <1>1, <1>5, <1>9
<1> QED BY <1>2, <1>6, <1>7, <1>8, <1>9

\* Nobody but an approved proposer ever proposes against the permissioned bond
\* token: the proposer is recorded before the bond is pulled.
THEOREM ApprovedProposers == Spec => []OnlyApprovedPropose
<1>1. Init => OnlyApprovedPropose BY DEF Init, OnlyApprovedPropose
<1>2. (TypeInv /\ BundleInv) /\ OnlyApprovedPropose /\ [Next]_vars => OnlyApprovedPropose'
  <2> SUFFICES ASSUME TypeInv, BundleInv, OnlyApprovedPropose, [Next]_vars,
                      NEW i \in DOMAIN proposalLog', proposalLog'[i].token = AcrossBondToken
               PROVE  proposalLog'[i].approved
    BY DEF OnlyApprovedPropose
  <2>1. proposalLog \in Seq(LogEntry) /\ proposalLog' \in Seq(LogEntry)
    <3>1. TypeInv' BY NextTypeInv
    <3> QED BY <3>1 DEF TypeInv, TypeOK
  <2>2. i \in 1..Len(proposalLog') /\ DOMAIN proposalLog = 1..Len(proposalLog) BY <2>1
  <2>3. CASE /\ i \in 1..Len(proposalLog)
             /\ proposalLog'[i].token = proposalLog[i].token
             /\ proposalLog'[i].approved = proposalLog[i].approved
    BY <2>2, <2>3 DEF OnlyApprovedPropose
  <2>4. ASSUME NEW u \in User, NEW a \in Proposal, ProposeRootBundle(u, a),
               proposalLog'[i].token = bondToken,
               proposalLog'[i].approved = (u \in proposers)
        PROVE  proposalLog'[i].approved
    BY <2>4 DEF ProposeRootBundle, BondTransferPermitted, ProposerWhenBondIsPulled
  <2> QED BY <2>2, <2>3, <2>4, LogOnlyGrows
<1> QED BY <1>1, <1>2, BundleInvariant, PTL DEF Spec

-----------------------------------------------------------------------------
(* Liquidity *)

\* The pool can pay a token's liquid reserves and the bond, its reserves are
\* what the LPs own less what was cut, and without the cuts the fees still being
\* smeared are covered by the reserves.
TokenInv(t) ==
    /\ pooledTokens[t].liquidReserves + BondHeld(t) <= balance[t] + feesClaimed[t]
    /\ pooledTokens[t].liquidReserves + pooledTokens[t].utilizedReserves
         = lpCapital[t] - lost[t]
    /\ Numerator(pooledTokens[t]) + lost[t] >= 0

LiquidityInv == \A t \in L1Token : TokenInv(t)

\* A step does not lower the exchange rate of a token.
RateHeld(t) ==
    (lpSupply[t] > 0 /\ lpSupply'[t] > 0) =>
        RateOf(pooledTokens'[t], lpSupply'[t]) >= RateOf(pooledTokens[t], lpSupply[t])

LEMMA TokenTypes ==
  ASSUME TypeInv, NEW t \in L1Token
  PROVE  /\ pooledTokens[t] \in PooledToken
         /\ pooledTokens[t].liquidReserves \in Nat
         /\ pooledTokens[t].utilizedReserves \in Int
         /\ pooledTokens[t].undistributedLpFees \in Nat
         /\ balance[t] \in Nat /\ feesClaimed[t] \in Nat /\ lpCapital[t] \in Int
         /\ lost[t] \in Nat /\ lpSupply[t] \in Nat /\ BondHeld(t) \in Nat
  BY DEF TypeInv, TypeOK, PooledToken, BondHeld

LEMMA TokenTypesNext ==
  ASSUME TypeInv', NEW t \in L1Token
  PROVE  /\ pooledTokens'[t] \in PooledToken
         /\ pooledTokens'[t].liquidReserves \in Nat
         /\ pooledTokens'[t].utilizedReserves \in Int
         /\ pooledTokens'[t].undistributedLpFees \in Nat
         /\ balance'[t] \in Nat /\ feesClaimed'[t] \in Nat /\ lpCapital'[t] \in Int
         /\ lost'[t] \in Nat /\ lpSupply'[t] \in Nat /\ BondHeld(t)' \in Nat
  BY DEF TypeInv, TypeOK, PooledToken, BondHeld

\* With the supply unchanged the rate follows the numerator.
LEMMA NumeratorHolds ==
  ASSUME NEW t, NEW s \in Nat, lpSupply[t] = s, lpSupply'[t] = s,
         Numerator(pooledTokens[t]) \in Int, Numerator(pooledTokens'[t]) \in Int,
         Numerator(pooledTokens'[t]) >= Numerator(pooledTokens[t])
  PROVE  RateHeld(t)
<1> DEFINE m == Numerator(pooledTokens[t])
           n == Numerator(pooledTokens'[t])
<1>1. m \in Int /\ n \in Int /\ m <= n OBVIOUS
<1>2. SUFFICES ASSUME s > 0 PROVE RateOf(pooledTokens'[t], s) >= RateOf(pooledTokens[t], s)
  BY DEF RateHeld
<1>3. RateOf(pooledTokens[t], s) = (m * Unit) \div s BY <1>2 DEF RateOf
<1>4. RateOf(pooledTokens'[t], s) = (n * Unit) \div s BY <1>2 DEF RateOf
<1> HIDE DEF m, n
<1>5. m * Unit \in Int /\ n * Unit \in Int /\ m * Unit <= n * Unit BY <1>1, Arguments
<1>6. (m * Unit) \div s <= (n * Unit) \div s BY <1>2, <1>5, DivMonotonic
<1>7. (m * Unit) \div s \in Int /\ (n * Unit) \div s \in Int BY <1>2, <1>5, DivFacts
<1> QED BY <1>3, <1>4, <1>6, <1>7

\* A step that leaves a token's books alone and takes nothing out of the pool
\* but bonds it holds no more and fees that are counted as claimed.
LEMMA IdleToken ==
  ASSUME TypeInv, TypeInv', NEW t \in L1Token, TokenInv(t),
         pooledTokens'[t].liquidReserves = pooledTokens[t].liquidReserves,
         pooledTokens'[t].utilizedReserves = pooledTokens[t].utilizedReserves,
         pooledTokens'[t].undistributedLpFees = pooledTokens[t].undistributedLpFees,
         lpSupply'[t] = lpSupply[t], lpCapital'[t] = lpCapital[t], lost'[t] = lost[t],
         balance'[t] + feesClaimed'[t] - BondHeld(t)'
           >= balance[t] + feesClaimed[t] - BondHeld(t)
  PROVE  TokenInv(t)' /\ RateHeld(t)
<1>1. Numerator(pooledTokens'[t]) = Numerator(pooledTokens[t])
        /\ Numerator(pooledTokens[t]) \in Int
  BY TokenTypes DEF Numerator
<1>2. RateHeld(t) BY <1>1, TokenTypes, NumeratorHolds
<1>3. TokenInv(t)' BY <1>1, TokenTypes, TokenTypesNext DEF TokenInv
<1> QED BY <1>2, <1>3

\* The same for a step that touches nothing of a token, with the bond.
LEMMA UntouchedToken ==
  ASSUME TypeInv, TypeInv', NEW t \in L1Token, TokenInv(t),
         pooledTokens'[t] = pooledTokens[t], lpSupply'[t] = lpSupply[t],
         lpCapital'[t] = lpCapital[t], lost'[t] = lost[t], balance'[t] = balance[t],
         feesClaimed'[t] = feesClaimed[t], BondHeld(t)' = BondHeld(t)
  PROVE  TokenInv(t)' /\ RateHeld(t)
  BY IdleToken, TokenTypes

\* Nothing the owner does, haircuts aside, costs the LPs anything.
LEMMA OwnerLiquidity ==
  ASSUME TypeInv, TypeInv', NEW t \in L1Token, TokenInv(t), OwnerStep
  PROVE  /\ TokenInv(t)'
         /\ RateHeld(t) \/ \E amount \in Haircut : HaircutReserves(t, amount)
<1>1. CASE UNCHANGED <<lpVars, feeVars, balance, bundleVars, bondVars>>
  <2>1. BondHeld(t)' = BondHeld(t) BY <1>1 DEF BondHeld, ActiveRequest
  <2> QED BY <1>1, <2>1, UntouchedToken
<1>2. ASSUME NEW u \in BondTokens, NEW amount \in BondAmount, SetBond(u, amount)
      PROVE  TokenInv(t)' /\ RateHeld(t)
  <2>1. BondHeld(t)' = BondHeld(t) BY <1>2 DEF SetBond, BondHeld, ActiveRequest
  <2> QED BY <1>2, <2>1, UntouchedToken DEF SetBond
<1>3. ASSUME NEW u \in Lendable, EnableL1Token(u) PROVE TokenInv(t)' /\ RateHeld(t)
  <2>1. BondHeld(t)' = BondHeld(t) BY <1>3 DEF EnableL1Token, BondHeld, ActiveRequest
  <2>2. /\ UNCHANGED <<lpSupply, lpCapital, lost, feesClaimed, balance>>
        /\ t # u => pooledTokens'[t] = pooledTokens[t]
    BY <1>3 DEF EnableL1Token, TypeInv, TypeOK
  <2>3. CASE t # u BY <2>1, <2>2, <2>3, UntouchedToken
  <2>4. CASE t = u
    <3> DEFINE p == pooledTokens[t]
               since == IF p.lpToken THEN p.lastLpFeeUpdate ELSE U32(now)
    <3>1. p \in PooledToken BY TokenTypes
    <3>2. pooledTokens' = [pooledTokens EXCEPT ![t] =
                 [p EXCEPT !.isEnabled = TRUE, !.lpToken = TRUE, !.lastLpFeeUpdate = since]]
      BY <1>3, <2>4, Zenon DEF EnableL1Token
    <3>3. pooledTokens'[t] =
              [p EXCEPT !.isEnabled = TRUE, !.lpToken = TRUE, !.lastLpFeeUpdate = since]
      BY <3>2 DEF TypeInv, TypeOK
    <3> HIDE DEF p, since
    <3>4. /\ pooledTokens'[t].liquidReserves = p.liquidReserves
          /\ pooledTokens'[t].utilizedReserves = p.utilizedReserves
          /\ pooledTokens'[t].undistributedLpFees = p.undistributedLpFees
      BY <3>1, <3>3 DEF PooledToken
    <3> QED BY <2>1, <2>2, <3>4, IdleToken, TokenTypes DEF p
  <2> QED BY <2>3, <2>4
<1>4. ASSUME NEW u \in Delisted, DisableL1Token(u) PROVE TokenInv(t)' /\ RateHeld(t)
  <2>1. BondHeld(t)' = BondHeld(t) BY <1>4 DEF DisableL1Token, BondHeld, ActiveRequest
  <2>2. /\ UNCHANGED <<lpSupply, lpCapital, lost, feesClaimed, balance>>
        /\ pooledTokens' = [pooledTokens EXCEPT ![u] = [pooledTokens[u] EXCEPT !.isEnabled = FALSE]]
    BY <1>4 DEF DisableL1Token
  <2>3. /\ pooledTokens'[t].liquidReserves = pooledTokens[t].liquidReserves
        /\ pooledTokens'[t].utilizedReserves = pooledTokens[t].utilizedReserves
        /\ pooledTokens'[t].undistributedLpFees = pooledTokens[t].undistributedLpFees
    BY <2>2, TokenTypes, ZenonT(40) DEF PooledToken, TypeInv, TypeOK
  <2> QED BY <2>1, <2>2, <2>3, IdleToken, TokenTypes
<1>5. ASSUME NEW u \in L1Token, NEW amount \in Haircut, HaircutReserves(u, amount)
      PROVE  TokenInv(t)' /\ (RateHeld(t) \/ u = t)
  <2>1. BondHeld(t)' = BondHeld(t) BY <1>5 DEF HaircutReserves, BondHeld, ActiveRequest
  <2>2. /\ UNCHANGED <<lpSupply, lpCapital, feesClaimed, balance>>
        /\ pooledTokens' = [pooledTokens EXCEPT ![u] =
               [pooledTokens[u] EXCEPT !.utilizedReserves = @ - amount]]
        /\ lost' = [lost EXCEPT ![u] = @ + amount]
    BY <1>5 DEF HaircutReserves
  <2>3. CASE t # u BY <2>1, <2>2, <2>3, UntouchedToken DEF TypeInv, TypeOK
  <2>4. CASE t = u
    <3>1. /\ pooledTokens'[t].liquidReserves = pooledTokens[t].liquidReserves
          /\ pooledTokens'[t].utilizedReserves = pooledTokens[t].utilizedReserves - amount
          /\ pooledTokens'[t].undistributedLpFees = pooledTokens[t].undistributedLpFees
          /\ lost'[t] = lost[t] + amount
      BY <2>2, <2>4, TokenTypes DEF PooledToken, TypeInv, TypeOK
    <3>2. amount \in Int BY Arguments
    <3>3. TokenInv(t)' BY <2>1, <2>2, <3>1, <3>2, TokenTypes DEF TokenInv, Numerator
    <3> QED BY <2>4, <3>3
  <2> QED BY <2>3, <2>4
<1>6. ASSUME EmergencyDeleteProposal PROVE TokenInv(t)' /\ RateHeld(t)
  <2>1. /\ UNCHANGED <<lpVars, feesClaimed, bondVars>>
        /\ ~ActiveRequest'
    BY <1>6 DEF EmergencyDeleteProposal, ActiveRequest, NoProposal
  <2>2. BondHeld(t)' = 0 BY <2>1 DEF BondHeld
  <2>3. balance'[t] = balance[t] - BondHeld(t)
    <3>1. CASE ActiveRequest BY <1>6, <3>1, TokenTypes
            DEF EmergencyDeleteProposal, BondHeld, TypeInv, TypeOK
    <3>2. CASE ~ActiveRequest BY <1>6, <3>2, TokenTypes
            DEF EmergencyDeleteProposal, BondHeld, TypeInv, TypeOK
    <3> QED BY <3>1, <3>2
  <2> QED BY <2>1, <2>2, <2>3, IdleToken, TokenTypes
<1>7. \/ UNCHANGED <<lpVars, feeVars, balance, bundleVars, bondVars>>
      \/ \E u \in BondTokens, amount \in BondAmount : SetBond(u, amount)
      \/ \E u \in Lendable : EnableL1Token(u)
      \/ \E u \in Delisted : DisableL1Token(u)
      \/ \E u \in L1Token, amount \in Haircut : HaircutReserves(u, amount)
      \/ EmergencyDeleteProposal
  BY Zenon DEF OwnerStep, SetPaused, SetProtocolFeeCapture, SetLiveness, SetIdentifier,
     SetCrossChainContracts, SetPoolRebalanceRoute, RelaySpokePoolAdminFunction
<1> QED BY <1>1, <1>2, <1>3, <1>4, <1>5, <1>6, <1>7

\* What _exchangeRateCurrent leaves of a token is as well backed as before.
LEMMA RefreshedBacked ==
  ASSUME TypeInv, NEW t \in L1Token, TokenInv(t)
  PROVE  /\ Refreshed(t).liquidReserves \in Nat
         /\ Refreshed(t).utilizedReserves \in Int
         /\ Refreshed(t).undistributedLpFees \in Nat
         /\ Refreshed(t).liquidReserves + BondHeld(t) <= balance[t] + feesClaimed[t]
         /\ Refreshed(t).liquidReserves + Refreshed(t).utilizedReserves
              = lpCapital[t] - lost[t]
         /\ Numerator(Refreshed(t)) + lost[t] >= 0
<1>1. /\ Refreshed(t).liquidReserves \in Nat
      /\ Refreshed(t).utilizedReserves \in Int
      /\ Refreshed(t).undistributedLpFees \in Nat
  BY RefreshedFacts DEF PooledToken
<1>2. /\ Refreshed(t).liquidReserves + Refreshed(t).utilizedReserves
           = lpCapital[t] - lost[t]
      /\ Numerator(Refreshed(t)) + lost[t] >= 0
  BY RefreshedFacts, TokenTypes DEF TokenInv
<1>3. Refreshed(t).liquidReserves + BondHeld(t) <= balance[t] + feesClaimed[t]
  BY <1>1, RefreshedFacts, TokenTypes DEF TokenInv
<1> QED BY <1>1, <1>2, <1>3

\* The rate that _exchangeRateCurrent returns is no lower than the stored one.
LEMMA RefreshedRate ==
  ASSUME TypeInv, NEW t \in L1Token, RateExists(t), lpSupply[t] > 0
  PROVE  /\ RateOf(Refreshed(t), lpSupply[t]) \in Nat
         /\ RateOf(pooledTokens[t], lpSupply[t]) \in Int
         /\ RateOf(pooledTokens[t], lpSupply[t]) <= RateOf(Refreshed(t), lpSupply[t])
<1> DEFINE m == Numerator(pooledTokens[t])
           n == Numerator(Refreshed(t))
           s == lpSupply[t]
<1>1. m \in Int /\ n \in Int /\ m <= n BY RefreshedFacts
<1>2. s \in Nat \ {0} BY TokenTypes
<1>3. RateOf(pooledTokens[t], s) = (m * Unit) \div s BY <1>2 DEF RateOf
<1>4. RateOf(Refreshed(t), s) = (n * Unit) \div s BY <1>2 DEF RateOf
<1>8. RateOf(Refreshed(t), s) \in Nat BY RateFacts
<1> HIDE DEF m, n, s
<1>5. m * Unit \in Int /\ n * Unit \in Int /\ m * Unit <= n * Unit BY <1>1, Arguments
<1>6. (m * Unit) \div s <= (n * Unit) \div s BY <1>2, <1>5, DivMonotonic
<1>7. (m * Unit) \div s \in Int BY <1>2, <1>5, DivFacts
<1> QED BY <1>3, <1>4, <1>6, <1>7, <1>8 DEF s

\* Shares are rounded down when they are bought ...
LEMMA AddKeepsRate ==
  ASSUME NEW n \in Nat, NEW s \in Nat \ {0}, NEW r \in Nat \ {0}, NEW a \in Nat,
         NEW u \in Nat \ {0}, r * s <= n * u
  PROVE  /\ s + (a * u) \div r \in Nat \ {0}
         /\ r <= ((n + a) * u) \div (s + (a * u) \div r)
<1> DEFINE k == (a * u) \div r
<1>1. a * u \in Nat BY MulNat
<1>2. k \in Nat /\ r * k <= a * u BY <1>1, DivNat, DivFacts
<1> HIDE DEF k
<1>3. s + k \in Nat \ {0} BY <1>2
<1>4. r * (s + k) = r * s + r * k BY <1>2
<1>5. (n + a) * u = n * u + a * u OBVIOUS
<1>6. r * s \in Int /\ r * k \in Int /\ n * u \in Int /\ (n + a) * u \in Int BY <1>2
<1>7. r * (s + k) <= (n + a) * u BY <1>1, <1>2, <1>4, <1>5, <1>6
<1>8. r <= ((n + a) * u) \div (s + k) BY <1>3, <1>6, <1>7, DivIsGreatest
<1> QED BY <1>3, <1>8 DEF k

\* ... and so are the tokens they are sold for.
LEMMA RemoveKeepsRate ==
  ASSUME NEW n \in Nat, NEW s \in Nat \ {0}, NEW r \in Nat, NEW h \in Nat,
         NEW u \in Nat \ {0}, h <= s, r * s <= n * u
  PROVE  /\ (h * r) \div u \in Nat
         /\ (h * r) \div u <= n
         /\ h < s => r <= ((n - (h * r) \div u) * u) \div (s - h)
<1> DEFINE a == (h * r) \div u
<1>1. h * r \in Nat /\ r * s \in Nat /\ n * u \in Nat /\ r * h = h * r BY MulNat
<1>2. a \in Nat /\ u * a <= h * r BY <1>1, DivNat, DivFacts
<1> HIDE DEF a
<1>3. r * (s - h) = r * s - h * r OBVIOUS
<1>4. r * (s - h) \in Nat
  <2>1. s - h \in Nat OBVIOUS
  <2> QED BY <2>1, MulNat
<1>5. h * r <= r * s BY <1>1, <1>3, <1>4
<1>6. u * a \in Int /\ a * u = u * a /\ a * u <= n * u BY <1>1, <1>2, <1>5
<1>7. a <= n
  <2>1. SUFFICES ASSUME n + 1 <= a PROVE FALSE BY <1>2
  <2>2. (n + 1) * u <= a * u BY <1>2, <2>1
  <2>3. (n + 1) * u = n * u + u OBVIOUS
  <2> QED BY <1>1, <1>6, <2>2, <2>3
<1>8. (n - a) * u = n * u - a * u BY <1>2
<1>9. r * (s - h) <= (n - a) * u BY <1>1, <1>2, <1>3, <1>6, <1>8
<1>10. (n - a) * u \in Int BY <1>1, <1>6, <1>8
<1>11. h < s => r <= ((n - a) * u) \div (s - h)
  <2>1. SUFFICES ASSUME h < s PROVE r <= ((n - a) * u) \div (s - h) OBVIOUS
  <2>2. s - h \in Nat \ {0} BY <2>1
  <2> QED BY <1>9, <1>10, <2>2, DivIsGreatest
<1> QED BY <1>2, <1>7, <1>11 DEF a

\* Whoever adds or removes liquidity, synchronises or claims fees, no LP loses.
LEMMA LiquidityLiquidity ==
  ASSUME TypeInv, TypeInv', NEW t \in L1Token, TokenInv(t), LiquidityStep
  PROVE  TokenInv(t)' /\ RateHeld(t)
<1> DEFINE p == Refreshed(t)
           s == lpSupply[t]
           r == RateOf(p, s)
           n == Numerator(p)
<1>1. p \in PooledToken /\ n \in Int BY RefreshedFacts
<1>2. /\ p.liquidReserves \in Nat /\ p.utilizedReserves \in Int
      /\ p.undistributedLpFees \in Nat
      /\ p.liquidReserves + BondHeld(t) <= balance[t] + feesClaimed[t]
      /\ p.liquidReserves + p.utilizedReserves = lpCapital[t] - lost[t]
      /\ n + lost[t] >= 0
  BY RefreshedBacked
<1>3. n = p.liquidReserves + p.utilizedReserves - p.undistributedLpFees
  BY DEF Numerator
<1>4. RateExists(t) => r \in Nat BY RateFacts
<1>5. RateExists(t) /\ s # 0 => n \in Nat /\ r * s <= n * Unit BY RateFacts
<1>6. RateExists(t) /\ s > 0 =>
        RateOf(pooledTokens[t], s) \in Int /\ RateOf(pooledTokens[t], s) <= r
  BY RefreshedRate
<1>7. s \in Nat /\ Unit \in Nat \ {0} BY TokenTypes, Arguments
<1>8. RateExists(t) /\ s > 0 => r = (n * Unit) \div s BY DEF RateOf
<1>9. Len(proposalLog) = Len(proposalLog)' /\ BondHeld(t)' = BondHeld(t)
  <2>1. UNCHANGED <<bundleVars, bondVars>>
    BY Zenon DEF LiquidityStep, AddLiquidity, RemoveLiquidity, ExchangeRateCurrent,
       Sync, ClaimProtocolFeesCaptured
  <2> QED BY <2>1 DEF BondHeld, ActiveRequest
<1>10. ASSUME NEW amount \in Liquidity, AddLiquidity(t, amount)
       PROVE  TokenInv(t)' /\ RateHeld(t)
  <2> DEFINE k == SharesFor(amount, r)
             q == pooledTokens'[t]
  <2>1. amount \in Nat BY Arguments
  <2>2. /\ RateExists(t) /\ r # 0
        /\ pooledTokens' = [pooledTokens EXCEPT ![t] = [p EXCEPT !.liquidReserves = @ + amount]]
        /\ lpSupply' = [lpSupply EXCEPT ![t] = @ + k]
        /\ balance' = [balance EXCEPT ![t] = @ + amount]
        /\ lpCapital' = [lpCapital EXCEPT ![t] = @ + amount]
        /\ lost' = lost /\ feesClaimed' = feesClaimed
    BY <1>10 DEF AddLiquidity
  <2> HIDE DEF p, s, r, n, k
  <2>3. /\ q = [p EXCEPT !.liquidReserves = @ + amount]
        /\ lpSupply'[t] = s + k /\ balance'[t] = balance[t] + amount
        /\ lpCapital'[t] = lpCapital[t] + amount
        /\ lost'[t] = lost[t] /\ feesClaimed'[t] = feesClaimed[t]
    BY <2>2 DEF TypeInv, TypeOK, s
  <2> HIDE DEF q
  <2>4. /\ q.liquidReserves = p.liquidReserves + amount
        /\ q.utilizedReserves = p.utilizedReserves
        /\ q.undistributedLpFees = p.undistributedLpFees
    BY <1>1, <2>3 DEF PooledToken
  <2>5. Numerator(q) = n + amount BY <1>2, <1>3, <2>1, <2>4 DEF Numerator
  <2>6. TokenInv(t)'
    <3>1. /\ balance[t] \in Nat /\ feesClaimed[t] \in Nat /\ lpCapital[t] \in Int
          /\ lost[t] \in Nat /\ BondHeld(t) \in Nat
      BY TokenTypes
    <3>2. q.liquidReserves + BondHeld(t)' <= balance'[t] + feesClaimed'[t]
      BY <1>2, <1>9, <2>1, <2>3, <2>4, <3>1, SMTT(30)
    <3>3. q.liquidReserves + q.utilizedReserves = lpCapital'[t] - lost'[t]
      BY <1>2, <2>1, <2>3, <2>4, <3>1
    <3>4. Numerator(q) + lost'[t] >= 0 BY <1>1, <1>2, <2>1, <2>3, <2>5, <3>1
    <3> QED BY <3>2, <3>3, <3>4 DEF TokenInv, q
  <2>7. RateHeld(t)
    <3>1. SUFFICES ASSUME s > 0, s + k > 0
                   PROVE  RateOf(q, s + k) >= RateOf(pooledTokens[t], s)
      BY <2>3 DEF RateHeld, q, s
    <3>2. r \in Nat \ {0} /\ n \in Nat /\ r * s <= n * Unit BY <1>4, <1>5, <2>2, <3>1
    <3>3. /\ s + k \in Nat \ {0}
          /\ r <= ((n + amount) * Unit) \div (s + k)
      BY <1>7, <2>1, <3>1, <3>2, AddKeepsRate DEF k, SharesFor
    <3>4. RateOf(q, s + k) = ((n + amount) * Unit) \div (s + k)
      BY <2>5, <3>3 DEF RateOf
    <3>5. ((n + amount) * Unit) \div (s + k) \in Int
      <4>1. (n + amount) * Unit \in Int BY <1>7, <2>1, <3>2
      <4> QED BY <3>3, <4>1, DivFacts
    <3> QED BY <1>6, <2>2, <3>1, <3>2, <3>3, <3>4, <3>5
  <2> QED BY <2>6, <2>7
<1>11. ASSUME NEW shares \in Shares, RemoveLiquidity(t, shares)
       PROVE  TokenInv(t)' /\ RateHeld(t)
  <2> DEFINE amount == (shares * r) \div Unit
             q == pooledTokens'[t]
  <2>1. shares \in Nat BY Arguments
  <2>2. /\ RateExists(t) /\ shares <= s
        /\ pooledTokens' = [pooledTokens EXCEPT ![t] = [p EXCEPT !.liquidReserves = @ - amount]]
        /\ lpSupply' = [lpSupply EXCEPT ![t] = @ - shares]
        /\ balance' = [balance EXCEPT ![t] = @ - amount]
        /\ lpCapital' = [lpCapital EXCEPT ![t] = @ - amount]
        /\ lost' = lost /\ feesClaimed' = feesClaimed
    BY <1>11 DEF RemoveLiquidity
  <2> HIDE DEF p, s, r, n
  <2>3. /\ amount \in Nat
        /\ s # 0 => amount <= n
        /\ s = 0 => amount = 0
        /\ shares < s => r <= ((n - amount) * Unit) \div (s - shares)
    <3>1. CASE s = 0
      <4>1. shares = 0 BY <2>1, <2>2, <3>1
      <4>2. shares * r = 0 BY <1>4, <2>2, <4>1
      <4>3. 0 \div Unit = 0 BY <1>7
      <4> QED BY <3>1, <4>1, <4>2, <4>3
    <3>2. CASE s # 0
      <4>1. r \in Nat /\ n \in Nat /\ r * s <= n * Unit BY <1>4, <1>5, <2>2, <3>2
      <4>2. s \in Nat \ {0} BY <1>7, <3>2
      <4> HIDE DEF amount
      <4>3. /\ (shares * r) \div Unit \in Nat
            /\ (shares * r) \div Unit <= n
            /\ shares < s => r <= ((n - (shares * r) \div Unit) * Unit) \div (s - shares)
        BY <1>7, <2>1, <2>2, <4>1, <4>2, RemoveKeepsRate
      <4> QED BY <3>2, <4>3 DEF amount
    <3> QED BY <3>1, <3>2
  <2> HIDE DEF amount
  <2>4. /\ q = [p EXCEPT !.liquidReserves = @ - amount]
        /\ lpSupply'[t] = s - shares /\ balance'[t] = balance[t] - amount
        /\ lpCapital'[t] = lpCapital[t] - amount
        /\ lost'[t] = lost[t] /\ feesClaimed'[t] = feesClaimed[t]
    BY <2>2 DEF TypeInv, TypeOK, s
  <2> HIDE DEF q
  <2>5. /\ q.liquidReserves = p.liquidReserves - amount
        /\ q.utilizedReserves = p.utilizedReserves
        /\ q.undistributedLpFees = p.undistributedLpFees
    BY <1>1, <2>4 DEF PooledToken
  <2>6. Numerator(q) = n - amount BY <1>2, <1>3, <2>3, <2>5 DEF Numerator
  <2>7. n - amount + lost[t] >= 0 BY <1>1, <1>2, <2>3, TokenTypes
  <2>8. TokenInv(t)'
    <3>1. /\ balance[t] \in Nat /\ feesClaimed[t] \in Nat /\ lpCapital[t] \in Int
          /\ lost[t] \in Nat /\ BondHeld(t) \in Nat
      BY TokenTypes
    <3>5. amount \in Nat BY <2>3
    <3>2. q.liquidReserves + BondHeld(t)' <= balance'[t] + feesClaimed'[t]
      BY <1>2, <1>9, <2>4, <2>5, <3>1, <3>5, SMTT(30)
    <3>3. q.liquidReserves + q.utilizedReserves = lpCapital'[t] - lost'[t]
      BY <1>2, <2>4, <2>5, <3>1, <3>5
    <3>4. Numerator(q) + lost'[t] >= 0 BY <2>4, <2>6, <2>7
    <3> QED BY <3>2, <3>3, <3>4 DEF TokenInv, q
  <2>9. RateHeld(t)
    <3>1. SUFFICES ASSUME s > 0, s - shares > 0
                   PROVE  RateOf(q, s - shares) >= RateOf(pooledTokens[t], s)
      BY <2>4 DEF RateHeld, q, s
    <3>2. r \in Nat /\ n \in Nat BY <1>4, <1>5, <2>2, <3>1
    <3>3. s - shares \in Nat \ {0} /\ r <= ((n - amount) * Unit) \div (s - shares)
      BY <1>7, <2>1, <2>3, <3>1
    <3>4. RateOf(q, s - shares) = ((n - amount) * Unit) \div (s - shares)
      BY <2>6, <3>3 DEF RateOf
    <3>5. ((n - amount) * Unit) \div (s - shares) \in Int
      <4>1. (n - amount) * Unit \in Int BY <1>7, <2>3, <3>2
      <4> QED BY <3>3, <4>1, DivFacts
    <3> QED BY <1>6, <2>2, <3>1, <3>2, <3>3, <3>4, <3>5
  <2> QED BY <2>8, <2>9
<1>12. CASE ExchangeRateCurrent(t)
  <2>1. /\ pooledTokens'[t] = p /\ UNCHANGED <<lpSupply, lpCapital, lost, feesClaimed, balance>>
    BY <1>12 DEF ExchangeRateCurrent, TypeInv, TypeOK
  <2>2. TokenInv(t)' BY <1>2, <1>9, <2>1 DEF TokenInv
  <2>3. RateHeld(t) BY <1>1, <1>7, <2>1, RefreshedFacts, NumeratorHolds
  <2> QED BY <2>2, <2>3
<1>13. CASE Sync(t)
  <2> DEFINE q == Synced(t, pooledTokens[t])
  <2>1. /\ pooledTokens'[t] = q
        /\ UNCHANGED <<lpSupply, lpCapital, lost, feesClaimed, balance>>
    BY <1>13 DEF Sync, TypeInv, TypeOK
  <2>2. /\ q \in PooledToken
        /\ q.liquidReserves + q.utilizedReserves
             = pooledTokens[t].liquidReserves + pooledTokens[t].utilizedReserves
        /\ q.undistributedLpFees = pooledTokens[t].undistributedLpFees
        /\ \/ q.liquidReserves = pooledTokens[t].liquidReserves
           \/ q.liquidReserves = balance[t] - BondHeld(t)
    BY TokenTypes, SyncedFacts
  <2> HIDE DEF q
  <2>3. /\ q.liquidReserves \in Nat /\ q.utilizedReserves \in Int
        /\ q.undistributedLpFees \in Nat
    BY <2>2 DEF PooledToken
  <2>4. Numerator(q) = Numerator(pooledTokens[t]) /\ Numerator(pooledTokens[t]) \in Int
    BY <2>2, <2>3, TokenTypes DEF Numerator
  <2>5. q.liquidReserves + BondHeld(t) <= balance[t] + feesClaimed[t]
    BY <2>2, <2>3, TokenTypes DEF TokenInv
  <2>6. TokenInv(t)' BY <1>9, <2>1, <2>2, <2>4, <2>5 DEF TokenInv
  <2>7. RateHeld(t) BY <1>7, <2>1, <2>4, NumeratorHolds
  <2> QED BY <2>6, <2>7
<1>14. CASE ClaimProtocolFeesCaptured(t)
  <2>1. /\ UNCHANGED <<pooledTokens, lpSupply, lpCapital, lost>>
        /\ balance'[t] = balance[t] - unclaimedAccumulatedProtocolFees[t]
        /\ feesClaimed'[t] = feesClaimed[t] + unclaimedAccumulatedProtocolFees[t]
        /\ unclaimedAccumulatedProtocolFees[t] \in Nat
    BY <1>14 DEF ClaimProtocolFeesCaptured, TypeInv, TypeOK
  <2>2. balance'[t] + feesClaimed'[t] - BondHeld(t)'
          >= balance[t] + feesClaimed[t] - BondHeld(t)
    BY <1>9, <2>1, TokenTypes
  <2> QED BY <2>1, <2>2, IdleToken
<1>15. ASSUME NEW u \in L1Token \ {t},
              \/ \E amount \in Liquidity : AddLiquidity(u, amount)
              \/ \E shares \in Shares : RemoveLiquidity(u, shares)
              \/ ExchangeRateCurrent(u) \/ Sync(u) \/ ClaimProtocolFeesCaptured(u)
       PROVE  TokenInv(t)' /\ RateHeld(t)
  <2>1. /\ pooledTokens'[t] = pooledTokens[t] /\ lpSupply'[t] = lpSupply[t]
        /\ lpCapital'[t] = lpCapital[t] /\ lost'[t] = lost[t]
        /\ balance'[t] = balance[t] /\ feesClaimed'[t] = feesClaimed[t]
    <3> USE DEF TypeInv, TypeOK
    <3>1. CASE \E amount \in Liquidity : AddLiquidity(u, amount)
      BY <3>1 DEF AddLiquidity
    <3>2. CASE \E shares \in Shares : RemoveLiquidity(u, shares)
      BY <3>2 DEF RemoveLiquidity
    <3>3. CASE ExchangeRateCurrent(u) BY <3>3 DEF ExchangeRateCurrent
    <3>4. CASE Sync(u) BY <3>4 DEF Sync
    <3>5. CASE ClaimProtocolFeesCaptured(u) BY <3>5 DEF ClaimProtocolFeesCaptured
    <3> QED BY <1>15, <3>1, <3>2, <3>3, <3>4, <3>5
  <2> QED BY <1>9, <2>1, UntouchedToken
<1>16. \E u \in L1Token : \/ \E amount \in Liquidity : AddLiquidity(u, amount)
                          \/ \E shares \in Shares : RemoveLiquidity(u, shares)
                          \/ ExchangeRateCurrent(u) \/ Sync(u) \/ ClaimProtocolFeesCaptured(u)
  BY Zenon DEF LiquidityStep
<1> QED BY <1>10, <1>11, <1>12, <1>13, <1>14, <1>15, <1>16

\* Proposals, disputes and executions move the bond and the reserves together.
LEMMA BundleLiquidity ==
  ASSUME TypeInv, TypeInv', BundleInv, NEW t \in L1Token, TokenInv(t), BundleStep
  PROVE  TokenInv(t)' /\ RateHeld(t)
<1>1. ASSUME NEW u \in User, NEW a \in Proposal, ProposeRootBundle(u, a)
      PROVE  TokenInv(t)' /\ RateHeld(t)
  <2>1. /\ UNCHANGED <<lpVars, feesClaimed, bondVars>> /\ ~ActiveRequest
        /\ balance' = [balance EXCEPT ![bondToken] = @ + bondAmount]
    BY <1>1 DEF ProposeRootBundle
  <2>2. BondHeld(t) = 0 BY <2>1 DEF BondHeld
  <2>3. ActiveRequest'
    <3>1. rootBundleProposal'.unclaimedPoolRebalanceLeafCount = a.poolRebalanceLeafCount
      BY <1>1 DEF ProposeRootBundle
    <3>2. a.poolRebalanceLeafCount \in Nat /\ a.poolRebalanceLeafCount > 0
      BY <1>1, ArgumentAssumption DEF ProposalArg, ProposeRootBundle
    <3> QED BY <3>1, <3>2 DEF ActiveRequest
  <2>4. balance'[t] = balance[t] + BondHeld(t)'
    <3>1. CASE t = bondToken BY <2>1, <2>3, <3>1 DEF BondHeld, TypeInv, TypeOK
    <3>2. CASE t # bondToken
      <4>1. BondHeld(t)' = 0 BY <2>1, <3>2 DEF BondHeld
      <4>2. balance'[t] = balance[t] BY <2>1, <3>2 DEF TypeInv, TypeOK
      <4> QED BY <4>1, <4>2, TokenTypes
    <3> QED BY <3>1, <3>2
  <2> QED BY <2>1, <2>2, <2>4, IdleToken, TokenTypes, TokenTypesNext
<1>2. ASSUME NEW leaf \in Leaf, ExecuteRootBundle(leaf)
      PROVE  TokenInv(t)' /\ RateHeld(t)
  <2> DEFINE returned == IF LastLeaf /\ t = bondToken THEN bondAmount ELSE 0
             sent == SentIn(leaf, t)
             fees == LpFeesIn(leaf, t, protocolFeeCapturePct)
             q == AfterLeaf(leaf, t, pooledTokens[t])
  <2>1. /\ ActiveRequest /\ UNCHANGED <<lpSupply, lost, feesClaimed, bondVars>>
        /\ rootBundleProposal' = ClaimLeaf(leaf)
        /\ sent <= pooledTokens[t].liquidReserves
        /\ pooledTokens' = [x \in L1Token |-> AfterLeaf(leaf, x, pooledTokens[x])]
        /\ lpCapital'[t] = lpCapital[t] + fees
    BY <1>2 DEF ExecuteRootBundle
  <2>2. pooledTokens'[t] = q BY <2>1, Zenon
  <2>3. balance'[t] = balance[t] - sent - returned
    BY <1>2 DEF ExecuteRootBundle
  <2>4. sent \in Nat /\ fees \in Nat /\ returned \in Nat
    BY LeafSums DEF TypeInv, TypeOK
  <2>5. /\ q \in PooledToken
        /\ q.liquidReserves = pooledTokens[t].liquidReserves - sent
        /\ q.liquidReserves + q.utilizedReserves
             = pooledTokens[t].liquidReserves + pooledTokens[t].utilizedReserves + fees
        /\ Numerator(q) = Numerator(pooledTokens[t])
    BY <2>1, AfterLeafFacts
  <2>6. BondHeld(t)' = BondHeld(t) - returned
    <3>1. rootBundleProposal.unclaimedPoolRebalanceLeafCount \in Nat
            /\ bondAmount \in Nat
      BY DEF TypeInv, TypeOK, RootBundle
    <3>2. ActiveRequest' <=> ~LastLeaf
      BY <2>1, <3>1, ClaimedFacts DEF ActiveRequest, LastLeaf
    <3> QED BY <2>1, <3>1, <3>2 DEF BondHeld
  <2> HIDE DEF returned, sent, fees, q
  <2>7. Numerator(pooledTokens[t]) \in Int BY TokenTypes DEF Numerator
  <2>8. RateHeld(t)
    <3>1. lpSupply[t] \in Nat BY TokenTypes
    <3>2. lpSupply'[t] = lpSupply[t] BY <2>1
    <3>3. Numerator(pooledTokens'[t]) = Numerator(pooledTokens[t]) BY <2>2, <2>5
    <3>4. Numerator(pooledTokens'[t]) >= Numerator(pooledTokens[t]) BY <2>7, <3>3
    <3> QED BY <2>7, <3>1, <3>2, <3>3, <3>4, NumeratorHolds
  <2>9. q.liquidReserves \in Nat /\ q.utilizedReserves \in Int BY <2>5 DEF PooledToken
  <2>10. TokenInv(t)'
    <3>1. /\ balance[t] \in Nat /\ feesClaimed[t] \in Nat /\ lpCapital[t] \in Int
          /\ lost[t] \in Nat /\ BondHeld(t) \in Nat
          /\ pooledTokens[t].liquidReserves \in Nat
          /\ pooledTokens[t].utilizedReserves \in Int
      BY TokenTypes
    <3>2. q.liquidReserves + BondHeld(t)' <= balance'[t] + feesClaimed'[t]
      BY <2>1, <2>3, <2>4, <2>5, <2>6, <2>9, <3>1 DEF TokenInv
    <3>3. q.liquidReserves + q.utilizedReserves = lpCapital'[t] - lost'[t]
      BY <2>1, <2>4, <2>5, <2>9, <3>1 DEF TokenInv
    <3>4. Numerator(q) + lost'[t] >= 0 BY <2>1, <2>5 DEF TokenInv
    <3> QED BY <2>2, <3>2, <3>3, <3>4 DEF TokenInv
  <2> QED BY <2>8, <2>10
<1>3. ASSUME NEW u \in User, NEW accepted \in BOOLEAN, DisputeRootBundle(u, accepted)
      PROVE  TokenInv(t)' /\ RateHeld(t)
  <2>1. /\ UNCHANGED <<lpVars, feesClaimed, bondVars>>
        /\ balance' = [balance EXCEPT ![bondToken] = @ - bondAmount]
        /\ ~ActiveRequest'
    BY <1>3 DEF DisputeRootBundle, LeavesPoolOnDispute, ActiveRequest, NoProposal
  <2>2. ActiveRequest BY <1>3, DisputedIsActive
  <2>3. BondHeld(t)' = 0 BY <2>1 DEF BondHeld
  <2>4. balance'[t] = balance[t] - BondHeld(t)
    <3>1. CASE t = bondToken BY <2>1, <2>2, <3>1 DEF BondHeld, TypeInv, TypeOK
    <3>2. CASE t # bondToken
      <4>1. BondHeld(t) = 0 BY <3>2 DEF BondHeld
      <4>2. balance'[t] = balance[t] BY <2>1, <3>2 DEF TypeInv, TypeOK
      <4> QED BY <4>1, <4>2, TokenTypes
    <3> QED BY <3>1, <3>2
  <2> QED BY <2>1, <2>3, <2>4, IdleToken, TokenTypes
<1> QED BY <1>1, <1>2, <1>3 DEF BundleStep

LEMMA EnvironmentLiquidity ==
  ASSUME TypeInv, TypeInv', NEW t \in L1Token, TokenInv(t), EnvironmentStep
  PROVE  TokenInv(t)' /\ RateHeld(t)
<1>1. ASSUME NEW u \in L1Token, NEW amount \in Arrival, TokensArrive(u, amount)
      PROVE  TokenInv(t)' /\ RateHeld(t)
  <2>1. UNCHANGED <<lpVars, feesClaimed, bondVars, bundleVars>>
    BY <1>1 DEF TokensArrive
  <2>2. balance'[t] >= balance[t]
    <3>1. amount \in Nat /\ balance[t] \in Nat BY Arguments, TokenTypes
    <3>2. balance' = [balance EXCEPT ![u] = @ + amount] BY <1>1 DEF TokensArrive
    <3>3. balance'[t] = IF t = u THEN balance[t] + amount ELSE balance[t]
      BY <3>2 DEF TypeInv, TypeOK
    <3> QED BY <3>1, <3>3
  <2>3. BondHeld(t)' = BondHeld(t) BY <2>1 DEF BondHeld, ActiveRequest
  <2> QED BY <2>1, <2>2, <2>3, IdleToken, TokenTypes, TokenTypesNext
<1>2. CASE UNCHANGED <<lpVars, feesClaimed, bondVars, bundleVars, balance>>
  <2>1. BondHeld(t)' = BondHeld(t) BY <1>2 DEF BondHeld, ActiveRequest
  <2> QED BY <1>2, <2>1, UntouchedToken
<1>3. \/ \E u \in L1Token, amount \in Arrival : TokensArrive(u, amount)
      \/ UNCHANGED <<lpVars, feesClaimed, bondVars, bundleVars, balance>>
  BY Zenon DEF EnvironmentStep, SetProposer, SetFinalFee, Tick
<1> QED BY <1>1, <1>2, <1>3

LEMMA NextToken ==
  ASSUME TypeInv, BundleInv, NEW t \in L1Token, TokenInv(t), [Next]_vars
  PROVE  /\ TokenInv(t)'
         /\ RateHeld(t) \/ \E amount \in Haircut : HaircutReserves(t, amount)
<1>1. TypeInv' BY NextTypeInv
<1>2. CASE UNCHANGED vars
  <2>1. BondHeld(t)' = BondHeld(t) BY <1>2 DEF vars, BondHeld, ActiveRequest
  <2>2. UNCHANGED <<lpVars, feesClaimed, balance>> BY <1>2 DEF vars
  <2> QED BY <1>1, <2>1, <2>2, UntouchedToken
<1> QED BY <1>1, <1>2, OwnerLiquidity, LiquidityLiquidity, BundleLiquidity,
        EnvironmentLiquidity DEF Next

LEMMA LiquidityInvariant == Spec => [](TypeInv /\ BundleInv /\ LiquidityInv)
<1>1. Init => LiquidityInv
  <2> SUFFICES ASSUME Init, NEW t \in L1Token PROVE TokenInv(t) BY DEF LiquidityInv
  <2>1. /\ pooledTokens[t] = NewPooledToken /\ balance[t] = 0 /\ feesClaimed[t] = 0
        /\ lpCapital[t] = 0 /\ lost[t] = 0
    BY DEF Init
  <2>2. BondHeld(t) = 0 BY DEF Init, BondHeld, ActiveRequest, NoProposal
  <2> QED BY <2>1, <2>2 DEF TokenInv, Numerator, NewPooledToken
<1>2. (TypeInv /\ BundleInv) /\ LiquidityInv /\ [Next]_vars => LiquidityInv'
  BY NextToken DEF LiquidityInv
<1> QED BY <1>1, <1>2, BundleInvariant, PTL DEF Spec

\* In every order of syncs, proposals, disputes, executions and claims the pool
\* holds its liquid reserves and the bond, up to the protocol fees paid out.
THEOREM ReservesAreBacked == Spec => []ReservesBacked
<1>1. LiquidityInv => ReservesBacked
  BY DEF LiquidityInv, TokenInv, ReservesBacked
<1> QED BY <1>1, LiquidityInvariant, PTL

\* Reserves are created by LPs and fees and destroyed by withdrawals and
\* haircuts only.
THEOREM ReservesAreExplained == Spec => []ReservesExplained
<1>1. LiquidityInv => ReservesExplained
  BY DEF LiquidityInv, TokenInv, ReservesExplained
<1> QED BY <1>1, LiquidityInvariant, PTL

\* Without haircuts the numerator of the exchange rate is never negative,
\* whatever the roundings of deposits and withdrawals add up to.
THEOREM FeesAreCovered == Spec => []FeesCovered
<1>1. TypeInv /\ LiquidityInv => FeesCovered
  <2> SUFFICES ASSUME TypeInv, LiquidityInv, NEW t \in L1Token, lost[t] = 0
               PROVE  Numerator(pooledTokens[t]) >= 0
    BY DEF FeesCovered
  <2>1. Numerator(pooledTokens[t]) \in Int BY TokenTypes DEF Numerator
  <2>2. Numerator(pooledTokens[t]) + lost[t] >= 0 BY DEF LiquidityInv, TokenInv
  <2> QED BY <2>1, <2>2
<1> QED BY <1>1, LiquidityInvariant, PTL

\* No step but a haircut of the token lowers its exchange rate, for any unit,
\* any amounts and any fee rate: every division rounds against the caller.
THEOREM RateHolds == Spec => RateNeverFalls
<1> DEFINE Held == \A t \in L1Token :
             (lpSupply[t] > 0 /\ lpSupply'[t] > 0
                  /\ ~\E amount \in Haircut : HaircutReserves(t, amount))
             => RateOf(pooledTokens'[t], lpSupply'[t])
                  >= RateOf(pooledTokens[t], lpSupply[t])
<1>1. TypeInv /\ BundleInv /\ LiquidityInv /\ [Next]_vars => [Held]_vars
  BY NextToken DEF LiquidityInv, RateHeld
<1> QED BY <1>1, LiquidityInvariant, PTL DEF Spec, RateNeverFalls

\* A live proposal can be disputed by everybody, in every order of what the
\* owner, UMA, the LPs and the fee collector did before: the bond is there
\* unless fee claims took it, and the bond token never asks about the disputer.
THEOREM ProposalsDisputable == Spec => []LiveProposalsDisputable
<1>1. TypeInv /\ BundleInv /\ LiquidityInv => LiveProposalsDisputable
  <2> SUFFICES ASSUME TypeInv, BundleInv, LiquidityInv, ActiveRequest,
                      now <= rootBundleProposal.challengePeriodEndTimestamp,
                      now + liveness <= MaxUint32,
                      feesClaimed[bondToken] <= pooledTokens[bondToken].liquidReserves,
                      NEW u \in User, NEW accepted \in BOOLEAN
               PROVE  CanDispute(u, accepted)
    BY DEF LiveProposalsDisputable
  <2>1. bondToken \in L1Token
    <3>1. Len(proposalLog) \in 1..Len(proposalLog)
            /\ proposalLog \in Seq(LogEntry)
      BY DEF TypeInv, TypeOK, BoundInv
    <3>2. proposalLog[Len(proposalLog)] \in LogEntry BY <3>1
    <3> QED BY <3>2 DEF BundleInv, OpenOK, LogEntry
  <2>2. BondHeld(bondToken) = bondAmount BY DEF BondHeld
  <2>3. pooledTokens[bondToken].liquidReserves + bondAmount
          <= balance[bondToken] + feesClaimed[bondToken]
    BY <2>1, <2>2 DEF LiquidityInv, TokenInv
  <2>4. balance[bondToken] >= bondAmount
    BY <2>1, <2>2, <2>3, TokenTypes
  <2>5. BondTransferPermitted(u, ProposerWhenDisputeIsPaid)
    BY NameAssumption DEF BondTransferPermitted, ProposerWhenDisputeIsPaid
  <2>6. U32(now) = now BY NowIsUint32
  <2> QED BY <2>4, <2>5, <2>6 DEF CanDispute
<1> QED BY <1>1, LiquidityInvariant, PTL
=============================================================================
