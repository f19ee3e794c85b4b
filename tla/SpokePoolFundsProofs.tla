------------------------ MODULE SpokePoolFundsProofs ------------------------
(***************************************************************************)
(* The pool's balances are what its events say: EventsExplainBalance, for  *)
(* every choice of the constants.  Every step that moves tokens writes one *)
(* entry into one of the logs, or counts an arrival or a removal.          *)
(***************************************************************************)
EXTENDS SpokePoolProofs

USE DEF adminVars, depositVars, bundleVars, leafVars, fillVars, callVars,
        fundVars, signVars

-----------------------------------------------------------------------------
(* The three sums, as weights of logs *)

DepositWeight(t) ==
    [e \in DepositEvent |-> IF e.inputToken = t THEN e.inputAmount ELSE 0]

SlowWeights(t) ==
    [r \in RelayData |-> [e \in FillEvent |->
        IF e.fillType = "SlowFill" /\ r.outputToken = t THEN e.paid ELSE 0]]

LeafPays(leaf) == RefundTotal(leaf) + leaf.amountToReturn

LeafWeights(t) ==
    [b \in BundleId |-> [leaf \in RefundLeaf |->
        IF leaf.l2TokenAddress = t THEN LeafPays(leaf) ELSE 0]]

DepositSum(log, t) == SumFunction(Weigh(log, DepositWeight(t)))

\* What a refund leaf pays out is a natural number.
LEMMA LeafPaysType == \A leaf \in RefundLeaf : LeafPays(leaf) \in Nat
<1>1. \A leaf \in RefundLeaf : leaf.amountToReturn \in Nat
  BY ArgumentAssumption DEF RelayerRefundLeaf
<1> QED BY <1>1, RefundTotalType DEF LeafPays

\* Weights are natural numbers.
LEMMA WeightTypes ==
  ASSUME NEW t
  PROVE  /\ DepositWeight(t) \in [DepositEvent -> Nat]
         /\ SlowWeights(t) \in [RelayData -> [FillEvent -> Nat]]
         /\ LeafWeights(t) \in [BundleId -> [RefundLeaf -> Nat]]
<1>1. \A e \in DepositEvent : e.inputAmount \in Nat BY DEF DepositEvent
<1>2. \A e \in FillEvent : e.paid \in Nat BY DEF FillEvent
<1>3. DepositWeight(t) \in [DepositEvent -> Nat] BY <1>1 DEF DepositWeight
<1>4. SlowWeights(t) \in [RelayData -> [FillEvent -> Nat]] BY <1>2 DEF SlowWeights
<1>5. LeafWeights(t) \in [BundleId -> [RefundLeaf -> Nat]]
  BY LeafPaysType DEF LeafWeights
<1> QED BY <1>3, <1>4, <1>5

\* There are finitely many logs to add up.
LEMMA FiniteIndices == IsFiniteSet(RelayData) /\ IsFiniteSet(BundleId)
<1>1. MaxBundles \in Nat BY BoundAssumption
<1>2. IsFiniteSet(1..MaxBundles) BY <1>1, FS_Interval
<1> QED BY <1>2, FiniteAssumption DEF BundleId

\* DepositedIn as the weight of a log.
LEMMA DepositedIs ==
  ASSUME NEW log \in Seq(DepositEvent), NEW t
  PROVE  SumFunction([i \in DOMAIN log |->
            IF log[i].inputToken = t THEN log[i].inputAmount ELSE 0])
           = DepositSum(log, t)
<1>1. \A i \in DOMAIN log : log[i] \in DepositEvent OBVIOUS
<1>2. [i \in DOMAIN log |-> IF log[i].inputToken = t THEN log[i].inputAmount ELSE 0]
        = Weigh(log, DepositWeight(t))
  BY <1>1 DEF Weigh, DepositWeight
<1> QED BY <1>2 DEF DepositSum

\* What the pool paid for slow fills, as the weight of the fill logs.
LEMMA SlowFilledIs ==
  ASSUME NEW logs \in [RelayData -> Seq(FillEvent)], NEW t
  PROVE  SumFunction([r \in RelayData |->
            SumFunction([i \in DOMAIN logs[r] |->
                IF logs[r][i].fillType = "SlowFill" /\ r.outputToken = t
                THEN logs[r][i].paid ELSE 0])])
           = FamilyWeight(logs, SlowWeights(t))
<1>1. ASSUME NEW r \in RelayData
      PROVE  [i \in DOMAIN logs[r] |->
                IF logs[r][i].fillType = "SlowFill" /\ r.outputToken = t
                THEN logs[r][i].paid ELSE 0]
               = Weigh(logs[r], SlowWeights(t)[r])
  <2> DEFINE log == logs[r]
  <2>1. \A i \in DOMAIN log : log[i] \in FillEvent
    <3>1. log \in Seq(FillEvent) OBVIOUS
    <3> HIDE DEF log
    <3> QED BY <3>1
  <2>2. \A e \in FillEvent : SlowWeights(t)[r][e] =
          IF e.fillType = "SlowFill" /\ r.outputToken = t THEN e.paid ELSE 0
    BY DEF SlowWeights
  <2> HIDE DEF log
  <2>3. [i \in DOMAIN log |->
           IF log[i].fillType = "SlowFill" /\ r.outputToken = t THEN log[i].paid ELSE 0]
          = Weigh(log, SlowWeights(t)[r])
    BY <2>1, <2>2 DEF Weigh
  <2> QED BY <2>3 DEF log
<1>2. [r \in RelayData |-> SumFunction([i \in DOMAIN logs[r] |->
                IF logs[r][i].fillType = "SlowFill" /\ r.outputToken = t
                THEN logs[r][i].paid ELSE 0])]
        = [r \in RelayData |-> SumFunction(Weigh(logs[r], SlowWeights(t)[r]))]
  BY <1>1
<1>3. DOMAIN logs = RelayData OBVIOUS
<1> QED BY <1>2, <1>3 DEF FamilyWeight, Weights

\* What it paid for refund leaves, as the weight of the leaf logs.
LEMMA PaidByLeavesIs ==
  ASSUME NEW logs \in [BundleId -> Seq(RefundLeaf)], NEW t
  PROVE  SumFunction([b \in BundleId |->
            SumFunction([i \in DOMAIN logs[b] |->
                IF logs[b][i].l2TokenAddress = t
                THEN RefundTotal(logs[b][i]) + logs[b][i].amountToReturn ELSE 0])])
           = FamilyWeight(logs, LeafWeights(t))
<1>1. ASSUME NEW b \in BundleId
      PROVE  [i \in DOMAIN logs[b] |->
                IF logs[b][i].l2TokenAddress = t
                THEN RefundTotal(logs[b][i]) + logs[b][i].amountToReturn ELSE 0]
               = Weigh(logs[b], LeafWeights(t)[b])
  <2> DEFINE log == logs[b]
  <2>1. \A i \in DOMAIN log : log[i] \in RefundLeaf
    <3>1. log \in Seq(RefundLeaf) OBVIOUS
    <3> HIDE DEF log
    <3> QED BY <3>1
  <2>2. \A e \in RefundLeaf : LeafWeights(t)[b][e] =
          IF e.l2TokenAddress = t THEN RefundTotal(e) + e.amountToReturn ELSE 0
    BY DEF LeafWeights, LeafPays
  <2> HIDE DEF log
  <2>3. [i \in DOMAIN log |-> IF log[i].l2TokenAddress = t
           THEN RefundTotal(log[i]) + log[i].amountToReturn ELSE 0]
          = Weigh(log, LeafWeights(t)[b])
    BY <2>1, <2>2 DEF Weigh
  <2> QED BY <2>3 DEF log
<1>2. [b \in BundleId |-> SumFunction([i \in DOMAIN logs[b] |->
                IF logs[b][i].l2TokenAddress = t
                THEN RefundTotal(logs[b][i]) + logs[b][i].amountToReturn ELSE 0])]
        = [b \in BundleId |-> SumFunction(Weigh(logs[b], LeafWeights(t)[b]))]
  BY <1>1
<1>3. DOMAIN logs = BundleId OBVIOUS
<1> QED BY <1>2, <1>3 DEF FamilyWeight, Weights

-----------------------------------------------------------------------------
(* The account of one token *)

Account(bal, deps, fills, leaves, arr, rem, t) ==
    bal[t] + FamilyWeight(fills, SlowWeights(t))
           + FamilyWeight(leaves, LeafWeights(t)) + rem[t]
      = arr[t] + DepositSum(deps, t)

\* The property, as one account for each token.
LEMMA AccountsExplain ==
  ASSUME TypeOK
  PROVE  EventsExplainBalance <=> \A t \in Token :
           Account(balance, depositEvents, fillEvents, leafEvents, arrived, removed, t)
<1>1. ASSUME NEW t \in Token
      PROVE  /\ DepositedIn(t) = DepositSum(depositEvents, t)
             /\ SlowFilledIn(t) = FamilyWeight(fillEvents, SlowWeights(t))
             /\ PaidByLeavesIn(t) = FamilyWeight(leafEvents, LeafWeights(t))
  <2>1. DepositedIn(t) = DepositSum(depositEvents, t)
    BY DepositedIs DEF DepositedIn, TypeOK
  <2>2. SlowFilledIn(t) = FamilyWeight(fillEvents, SlowWeights(t))
    BY SlowFilledIs DEF SlowFilledIn, TypeOK
  <2>3. PaidByLeavesIn(t) = FamilyWeight(leafEvents, LeafWeights(t))
    BY PaidByLeavesIs DEF PaidByLeavesIn, TypeOK
  <2> QED BY <2>1, <2>2, <2>3
<1> QED BY <1>1 DEF EventsExplainBalance, Account

\* The same in the next state.
LEMMA AccountsExplainPrimed ==
  ASSUME TypeOK'
  PROVE  EventsExplainBalance' <=> \A t \in Token :
           Account(balance', depositEvents', fillEvents', leafEvents', arrived', removed', t)
<1>1. ASSUME NEW t \in Token
      PROVE  /\ DepositedIn(t)' = DepositSum(depositEvents', t)
             /\ SlowFilledIn(t)' = FamilyWeight(fillEvents', SlowWeights(t))
             /\ PaidByLeavesIn(t)' = FamilyWeight(leafEvents', LeafWeights(t))
  <2>1. DepositedIn(t)' = DepositSum(depositEvents', t)
    BY DepositedIs DEF DepositedIn, TypeOK
  <2>2. SlowFilledIn(t)' = FamilyWeight(fillEvents', SlowWeights(t))
    BY SlowFilledIs DEF SlowFilledIn, TypeOK
  <2>3. PaidByLeavesIn(t)' = FamilyWeight(leafEvents', LeafWeights(t))
    BY PaidByLeavesIs DEF PaidByLeavesIn, TypeOK
  <2> QED BY <2>1, <2>2, <2>3
<1> QED BY <1>1 DEF EventsExplainBalance, Account

\* The items of an account are natural numbers.
LEMMA AccountTypes ==
  ASSUME TypeOK, NEW t \in Token
  PROVE  /\ balance[t] \in Nat /\ arrived[t] \in Nat /\ removed[t] \in Nat
         /\ FamilyWeight(fillEvents, SlowWeights(t)) \in Nat
         /\ FamilyWeight(leafEvents, LeafWeights(t)) \in Nat
         /\ DepositSum(depositEvents, t) \in Nat
<1>1. balance[t] \in Nat /\ arrived[t] \in Nat /\ removed[t] \in Nat BY DEF TypeOK
<1>2. FamilyWeight(fillEvents, SlowWeights(t)) \in Nat
  BY WeightTypes, FiniteIndices, FamilyIsNat DEF TypeOK
<1>3. FamilyWeight(leafEvents, LeafWeights(t)) \in Nat
  BY WeightTypes, FiniteIndices, FamilyIsNat DEF TypeOK
<1>4. DepositSum(depositEvents, t) \in Nat
  BY WeightTypes, WeightIsNat DEF TypeOK, DepositSum
<1> QED BY <1>1, <1>2, <1>3, <1>4

\* At first every item is zero.
LEMMA InitExplained == Init => EventsExplainBalance
<1> SUFFICES ASSUME Init PROVE EventsExplainBalance OBVIOUS
<1>1. TypeOK BY InitTypeOK
<1>2. ASSUME NEW t \in Token
      PROVE  Account(balance, depositEvents, fillEvents, leafEvents, arrived, removed, t)
  <2>1. balance[t] = 0 /\ arrived[t] = 0 /\ removed[t] = 0 BY DEF Init
  <2>2. DepositSum(depositEvents, t) = 0
    BY WeightOfNothing DEF Init, DepositSum
  <2>3. FamilyWeight(fillEvents, SlowWeights(t)) = 0
    BY FamilyOfNothing, FiniteIndices DEF Init
  <2>4. FamilyWeight(leafEvents, LeafWeights(t)) = 0
    BY FamilyOfNothing, FiniteIndices DEF Init
  <2> QED BY <2>1, <2>2, <2>3, <2>4 DEF Account
<1> QED BY <1>1, <1>2, AccountsExplain

-----------------------------------------------------------------------------
(* How steps move tokens *)

\* A deposit takes what its event says, and nothing else moves.
DepositMoves(e) ==
    /\ e \in DepositEvent
    /\ depositEvents' = Append(depositEvents, e)
    /\ balance' = [balance EXCEPT ![e.inputToken] = balance[e.inputToken] + e.inputAmount]
    /\ UNCHANGED <<arrived, removed, fillEvents, leafEvents>>

\* The wrapped native that a hook brings into the account of a token.
Wrapped(token, held, t) == IF t = WrappedNative THEN HookWraps(token, held) ELSE 0

\* A fill adds its event to its relay's log and pays what the event weighs.
FillMoves(r, e, hooked, held) ==
    /\ e \in FillEvent
    /\ fillEvents' = [fillEvents EXCEPT ![r] = Append(fillEvents[r], e)]
    /\ \A t \in Token :
         /\ balance'[t] = (balance[t] + Wrapped(hooked, held, t)) - SlowWeights(t)[r][e]
         /\ arrived'[t] = arrived[t] + Wrapped(hooked, held, t)
    /\ UNCHANGED <<removed, depositEvents, leafEvents>>

\* A refund leaf is written to its bundle's log and pays what it weighs.
LeafMoves(b, leaf, hooked, held) ==
    /\ leafEvents' = [leafEvents EXCEPT ![b] = Append(leafEvents[b], leaf)]
    /\ \A t \in Token :
         /\ balance'[t] = (balance[t] + Wrapped(hooked, held, t)) - LeafWeights(t)[b][leaf]
         /\ arrived'[t] = arrived[t] + Wrapped(hooked, held, t)
    /\ UNCHANGED <<removed, depositEvents, fillEvents>>

\* Tokens come or go without an event of the pool.
PlainMoves(token, came, went) ==
    /\ \A t \in Token :
         /\ balance'[t] = (balance[t] + IF t = token THEN came ELSE 0)
                            - (IF t = token THEN went ELSE 0)
         /\ arrived'[t] = arrived[t] + IF t = token THEN came ELSE 0
         /\ removed'[t] = removed[t] + IF t = token THEN went ELSE 0
    /\ UNCHANGED <<depositEvents, fillEvents, leafEvents>>

NothingMoves ==
    UNCHANGED <<balance, arrived, removed, depositEvents, fillEvents, leafEvents>>

\* What a typed log ends with is typed.
LEMMA LastIsTyped ==
  ASSUME NEW S, NEW log \in Seq(S), NEW e, NEW more \in Seq(S), more = Append(log, e)
  PROVE  e \in S
<1>1. Len(log) + 1 \in DOMAIN more /\ more[Len(log) + 1] = e OBVIOUS
<1> QED BY <1>1

\* A deposit that is recorded as V3FundsDeposited.
LEMMA V3DepositMoves ==
  ASSUME TypeOK, TypeOK', NEW sender, NEW id, NEW a, NEW value,
         DepositV3Internal(sender, id, a, value)
  PROVE  \E e : DepositMoves(e)
<1> DEFINE e == [id |-> id, sender |-> sender, depositor |-> a.depositor,
          recipient |-> a.recipient, inputToken |-> a.inputToken,
          outputToken |-> a.outputToken, inputAmount |-> a.inputAmount,
          outputAmount |-> a.outputAmount,
          destinationChainId |-> a.destinationChainId,
          exclusiveRelayer |-> a.exclusiveRelayer,
          quoteTimestamp |-> a.quoteTimestamp,
          fillDeadline |-> a.fillDeadline,
          exclusivityDeadline |-> ExclusivityDeadline(a.exclusivityParameter),
          message |-> a.message, at |-> now]
<1>1. depositEvents' = Append(depositEvents, e) BY DEF DepositV3Internal
<1>2. e.inputToken = a.inputToken /\ e.inputAmount = a.inputAmount OBVIOUS
<1> HIDE DEF e
<1>3. e \in DepositEvent BY <1>1, LastIsTyped DEF TypeOK
<1>4. /\ balance' = [balance EXCEPT ![a.inputToken] = balance[a.inputToken] + a.inputAmount]
      /\ UNCHANGED <<arrived, removed, fillEvents, leafEvents>>
  BY DEF DepositV3Internal, TakeInput
<1> QED BY <1>1, <1>2, <1>3, <1>4 DEF DepositMoves

\* A deposit in the old form, which is recorded the same way.
LEMMA LegacyDepositMoves ==
  ASSUME TypeOK, TypeOK', NEW sender, NEW depositor, NEW a, NEW value,
         DepositInternal(sender, depositor, a, value)
  PROVE  \E e : DepositMoves(e)
<1> DEFINE e == [id |-> SafeDepositId(numberOfDeposits),
          sender |-> sender, depositor |-> depositor,
          recipient |-> a.recipient, inputToken |-> a.originToken,
          outputToken |-> ZeroAddress, inputAmount |-> a.amount,
          outputAmount |-> ComputeAmountPostFees(a.amount, a.relayerFeePct),
          destinationChainId |-> a.destinationChainId,
          exclusiveRelayer |-> ZeroAddress,
          quoteTimestamp |-> a.quoteTimestamp,
          fillDeadline |-> MaxUint32, exclusivityDeadline |-> 0,
          message |-> a.message, at |-> now]
<1>1. depositEvents' = Append(depositEvents, e) BY DEF DepositInternal
<1>2. e.inputToken = a.originToken /\ e.inputAmount = a.amount OBVIOUS
<1> HIDE DEF e
<1>3. e \in DepositEvent BY <1>1, LastIsTyped DEF TypeOK
<1>4. /\ balance' = [balance EXCEPT ![a.originToken] = balance[a.originToken] + a.amount]
      /\ UNCHANGED <<arrived, removed, fillEvents, leafEvents>>
  BY DEF DepositInternal, TakeInput
<1> QED BY <1>1, <1>2, <1>3, <1>4 DEF DepositMoves

\* Every step of depositors moves one deposit or nothing.
LEMMA DepositStepMoves ==
  ASSUME TypeOK, TypeOK', NEW sender \in Address, DepositStep(sender)
  PROVE  NothingMoves \/ \E e : DepositMoves(e)
<1> DEFINE Moved == \E e : DepositMoves(e)
<1>1. ASSUME NEW a, NEW value, DepositV3(sender, a, value) PROVE Moved
  BY <1>1, V3DepositMoves DEF DepositV3
<1>2. ASSUME NEW a, NEW n, NEW value, UnsafeDepositV3(sender, a, n, value) PROVE Moved
  BY <1>2, V3DepositMoves DEF UnsafeDepositV3
<1>3. ASSUME NEW a, NEW value, DepositV3Now(sender, a, value) PROVE Moved
  BY <1>1, <1>3, Zenon DEF DepositV3Now
<1>4. ASSUME NEW a, NEW value, DepositExclusive(sender, a, value) PROVE Moved
  BY <1>1, <1>4 DEF DepositExclusive
<1>5. ASSUME NEW a, NEW value, Deposit(sender, a, value) PROVE Moved
  BY <1>5, LegacyDepositMoves DEF Deposit
<1>6. ASSUME NEW depositor, NEW a, NEW value, DepositFor(sender, depositor, a, value)
      PROVE  Moved
  BY <1>6, LegacyDepositMoves DEF DepositFor
<1>7. ASSUME NEW depositor, NEW details, SpeedUpV3Deposit(sender, depositor, details)
      PROVE  NothingMoves
  BY <1>7 DEF SpeedUpV3Deposit, NothingMoves
<1> HIDE DEF Moved
<1>8. NothingMoves \/ Moved
  BY <1>1, <1>2, <1>3, <1>4, <1>5, <1>6, <1>7 DEF DepositStep
<1> QED BY <1>8 DEF Moved

\* A fill takes from the funds it is given exactly what its event weighs.
LEMMA FillPays ==
  ASSUME TypeOK, NEW sender \in Address, NEW r \in RelayData, NEW terms \in Terms,
         NEW relayer \in Address, NEW isSlowFill \in BOOLEAN,
         NEW funds \in [Token -> Nat], NEW guarded \in BOOLEAN,
         FillRelayV3(sender, r, terms, relayer, isSlowFill, funds, guarded),
         NEW e, e = NewFillEvent(sender, r, terms, relayer, isSlowFill)
  PROVE  /\ e \in FillEvent
         /\ fillEvents' = [fillEvents EXCEPT ![r] = Append(fillEvents[r], e)]
         /\ \A t \in Token : balance'[t] = funds[t] - SlowWeights(t)[r][e]
<1> DEFINE token == r.outputToken
           pays == IF sender = terms.recipient /\ ~isSlowFill THEN 0 ELSE terms.amount
           left == funds[token] + Pulled(token, pays, isSlowFill)
                                - Sent(token, pays, isSlowFill)
<1>1. e \in FillEvent
  BY DEF NewFillEvent, FillEvent, FillTypeOf, FillType, TypeOK, Terms
<1>2. fillEvents' = [fillEvents EXCEPT ![r] = Append(fillEvents[r], e)]
  BY DEF FillRelayV3, NewFillEvent
<1>3. balance' = [funds EXCEPT ![token] = left] BY DEF FillRelayV3
<1>4. token \in Token /\ pays \in Nat BY ArgumentAssumption DEF V3RelayData, Terms
<1>5. e.paid = pays /\ (e.fillType = "SlowFill" <=> isSlowFill)
  BY DEF NewFillEvent, FillTypeOf
<1>6. ASSUME NEW t \in Token
      PROVE  SlowWeights(t)[r][e] = IF isSlowFill /\ token = t THEN pays ELSE 0
  BY <1>1, <1>5 DEF SlowWeights
<1>7. left = IF isSlowFill THEN funds[token] - pays ELSE funds[token]
  <2>1. funds[token] \in Nat BY <1>4
  <2> HIDE DEF token, pays
  <2> QED BY <1>4, <2>1 DEF Pulled, Sent
<1> HIDE DEF token, pays, left
<1>8. ASSUME NEW t \in Token PROVE balance'[t] = funds[t] - SlowWeights(t)[r][e]
  <2>1. funds[t] \in Nat OBVIOUS
  <2>2. CASE t = token
    <3>1. balance'[t] = left BY <1>3, <2>2
    <3> QED BY <1>4, <1>6, <1>7, <2>1, <2>2, <3>1
  <2>3. CASE t # token
    <3>1. balance'[t] = funds[t] BY <1>3, <2>3
    <3>2. SlowWeights(t)[r][e] = 0 BY <1>6, <2>3
    <3> QED BY <2>1, <3>1, <3>2
  <2> QED BY <2>2, <2>3
<1> QED BY <1>1, <1>2, <1>8

\* A fill by a relayer, whose hook wraps nothing.
LEMMA FastFillMoves ==
  ASSUME TypeOK, NEW sender \in Address, NEW r \in RelayData, NEW terms \in Terms,
         NEW guarded \in BOOLEAN,
         FillRelayV3(sender, r, terms, sender, FALSE, balance, guarded),
         UNCHANGED <<arrived, removed, depositEvents, leafEvents>>
  PROVE  \E e : FillMoves(r, e, WrappedNative, 0)
<1>1. balance \in [Token -> Nat] BY DEF TypeOK
<1>2. PICK slow \in BOOLEAN :
        FillRelayV3(sender, r, terms, sender, slow, balance, guarded)
  OBVIOUS
<1>event. PICK e : e = NewFillEvent(sender, r, terms, sender, slow) OBVIOUS
<1>3. /\ e \in FillEvent
      /\ fillEvents' = [fillEvents EXCEPT ![r] = Append(fillEvents[r], e)]
      /\ \A t \in Token : balance'[t] = balance[t] - SlowWeights(t)[r][e]
  BY <1>1, <1>2, <1>event, FillPays
<1>4. \A t \in Token : Wrapped(WrappedNative, 0, t) = 0 BY DEF Wrapped, HookWraps
<1>5. \A t \in Token : balance[t] + 0 = balance[t] /\ arrived[t] + 0 = arrived[t]
  BY DEF TypeOK
<1>6. \A t \in Token :
         /\ balance'[t] = (balance[t] + Wrapped(WrappedNative, 0, t)) - SlowWeights(t)[r][e]
         /\ arrived'[t] = arrived[t] + Wrapped(WrappedNative, 0, t)
  BY <1>3, <1>4, <1>5
<1> QED BY <1>3, <1>6 DEF FillMoves

\* What _preExecuteLeafHook wraps arrives as wrapped native tokens.
LEMMA HookMoves ==
  ASSUME TypeOK, NEW token \in Token, NEW held \in Nat, NEW t \in Token
  PROVE  /\ Wrapped(token, held, t) \in Nat
         /\ FundsAfterHook(token, held)[t] = balance[t] + Wrapped(token, held, t)
         /\ [arrived EXCEPT ![WrappedNative] =
               arrived[WrappedNative] + HookWraps(token, held)][t]
              = arrived[t] + Wrapped(token, held, t)
<1>1. HookWraps(token, held) \in Nat BY DEF HookWraps
<1>2. balance \in [Token -> Nat] /\ arrived \in [Token -> Nat] BY DEF TypeOK
<1>3. balance[t] + 0 = balance[t] /\ arrived[t] + 0 = arrived[t] BY <1>2
<1>4. CASE t = WrappedNative BY <1>1, <1>2, <1>4 DEF Wrapped, FundsAfterHook
<1>5. CASE t # WrappedNative BY <1>2, <1>3, <1>5 DEF Wrapped, FundsAfterHook
<1> QED BY <1>4, <1>5

\* A slow fill is paid out of the pool.
LEMMA SlowFillMoves ==
  ASSUME TypeOK, NEW sender \in Address, NEW b \in BundleId, NEW leaf \in SlowFillLeaf,
         ExecuteV3SlowRelayLeaf(sender, b, leaf)
  PROVE  \E e : FillMoves(leaf.relayData, e, leaf.relayData.outputToken, native)
<1> DEFINE r == leaf.relayData
           token == r.outputToken
           terms == [OwnTerms(r) EXCEPT !.amount = leaf.updatedOutputAmount]
           funds == FundsAfterHook(token, native)
<1>1. r \in RelayData /\ terms \in Terms BY TermsType
<1>2. token \in Token /\ native \in Nat BY <1>1, ArgumentAssumption DEF V3RelayData, TypeOK
<1>3. funds \in [Token -> Nat] BY <1>2, HookType
<1>4. ZeroAddress \in Address BY AddressAssumption
<1>5. /\ FillRelayV3(sender, r, terms, ZeroAddress, TRUE, funds, TRUE)
      /\ arrived' = [arrived EXCEPT ![WrappedNative] =
                       arrived[WrappedNative] + HookWraps(token, native)]
      /\ UNCHANGED <<removed, depositEvents, leafEvents>>
  BY DEF ExecuteV3SlowRelayLeaf
<1>6. PICK slow \in BOOLEAN, guarded \in BOOLEAN :
        FillRelayV3(sender, r, terms, ZeroAddress, slow, funds, guarded)
  BY <1>5
<1>event. PICK e : e = NewFillEvent(sender, r, terms, ZeroAddress, slow) OBVIOUS
<1> HIDE DEF r, token, terms
<1>7. /\ e \in FillEvent
      /\ fillEvents' = [fillEvents EXCEPT ![r] = Append(fillEvents[r], e)]
      /\ \A t \in Token : balance'[t] = funds[t] - SlowWeights(t)[r][e]
  <2> HIDE DEF funds
  <2> QED BY <1>1, <1>3, <1>4, <1>6, <1>event, FillPays
<1>8. \A t \in Token : funds[t] = balance[t] + Wrapped(token, native, t)
  BY <1>2, HookMoves
<1>9. \A t \in Token : arrived'[t] = arrived[t] + Wrapped(token, native, t)
  BY <1>2, <1>5, HookMoves
<1> HIDE DEF funds
<1>10. FillMoves(r, e, token, native) BY <1>5, <1>7, <1>8, <1>9 DEF FillMoves
<1> QED BY <1>10 DEF r, token

\* So is a refund leaf, and what it returns to the hub.
LEMMA RefundMoves ==
  ASSUME TypeOK, NEW sender \in Address, NEW b \in BundleId, NEW leaf \in RefundLeaf,
         NEW value \in MsgValue, ExecuteRelayerRefundLeaf(sender, b, leaf, value)
  PROVE  LeafMoves(b, leaf, leaf.l2TokenAddress, native + value)
<1> DEFINE token == leaf.l2TokenAddress
           held == native + value
           funds == FundsAfterHook(token, held)
           paidOut == LeafPays(leaf)
<1>1. token \in Token BY ArgumentAssumption DEF RelayerRefundLeaf
<1>2. held \in Nat BY NumberAssumption DEF TypeOK
<1>3. /\ leafEvents' = [leafEvents EXCEPT ![b] = Append(leafEvents[b], leaf)]
      /\ balance' = [funds EXCEPT ![token] = funds[token] - paidOut]
      /\ arrived' = [arrived EXCEPT ![WrappedNative] =
                       arrived[WrappedNative] + HookWraps(token, held)]
      /\ UNCHANGED <<removed, depositEvents, fillEvents>>
  BY DEF ExecuteRelayerRefundLeaf, DistributeRelayerRefunds, LeafPays
<1>4. paidOut \in Nat BY LeafPaysType
<1>5. \A t \in Token : LeafWeights(t)[b][leaf] = IF token = t THEN paidOut ELSE 0
  BY DEF LeafWeights
<1> HIDE DEF token, held, paidOut
<1>6. funds \in [Token -> Nat] BY <1>1, <1>2, HookType
<1>7. \A t \in Token : funds[t] = balance[t] + Wrapped(token, held, t)
  BY <1>1, <1>2, HookMoves
<1>8. \A t \in Token : arrived'[t] = arrived[t] + Wrapped(token, held, t)
  BY <1>1, <1>2, <1>3, HookMoves
<1> HIDE DEF funds
<1>9. ASSUME NEW t \in Token PROVE balance'[t] = funds[t] - LeafWeights(t)[b][leaf]
  <2>1. funds[t] \in Nat BY <1>6
  <2>2. CASE t = token
    <3>1. balance'[t] = funds[t] - paidOut BY <1>3, <1>6, <2>2
    <3> QED BY <1>5, <2>2, <3>1
  <2>3. CASE t # token
    <3>1. balance'[t] = funds[t] BY <1>3, <1>6, <2>3
    <3>2. LeafWeights(t)[b][leaf] = 0 BY <1>5, <2>3
    <3> QED BY <2>1, <3>1, <3>2
  <2> QED BY <2>2, <2>3
<1>10. LeafMoves(b, leaf, token, held) BY <1>3, <1>7, <1>8, <1>9 DEF LeafMoves
<1> QED BY <1>10 DEF token, held

\* Every step moves tokens in one of these ways or not at all.
LEMMA StepsOfFunds ==
  ASSUME TypeOK, TypeOK', [Next]_vars
  PROVE  \/ NothingMoves
         \/ \E e : DepositMoves(e)
         \/ \E r \in RelayData, e \in FillEvent, token \in Token, held \in Nat :
               FillMoves(r, e, token, held)
         \/ \E b \in BundleId, leaf \in RefundLeaf, token \in Token, held \in Nat :
               LeafMoves(b, leaf, token, held)
         \/ \E token \in Token, came \in Nat, went \in Nat :
               PlainMoves(token, came, went)
<1> DEFINE Deposited == \E e : DepositMoves(e)
           Filled == \E r \in RelayData, e \in FillEvent, token \in Token, held \in Nat :
                       FillMoves(r, e, token, held)
           Refunded == \E b \in BundleId, leaf \in RefundLeaf, token \in Token,
                          held \in Nat : LeafMoves(b, leaf, token, held)
           Plain == \E token \in Token, came \in Nat, went \in Nat :
                       PlainMoves(token, came, went)
<1>0. /\ balance \in [Token -> Nat] /\ arrived \in [Token -> Nat]
      /\ removed \in [Token -> Nat] /\ native \in Nat
  BY DEF TypeOK
<1>1. ASSUME UNCHANGED vars PROVE NothingMoves BY <1>1 DEF vars, NothingMoves
<1>2. ASSUME NEW sender \in Address, NEW amount \in Amount, NEW token \in Token,
             AdminRemoveFunds(sender, amount, token)
      PROVE  Plain
  <2>1. amount \in Nat BY NumberAssumption
  <2>2. PlainMoves(token, 0, amount)
    BY <1>0, <1>2, <2>1 DEF AdminRemoveFunds, PlainMoves
  <2> QED BY <2>1, <2>2
<1>3. ASSUME NEW sender \in Address, AdminStep(sender) PROVE NothingMoves \/ Plain
  <2> HIDE DEF Plain
  <2> QED
    BY <1>2, <1>3 DEF AdminStep, PauseDeposits, PauseFills, SetCrossDomainAdmin,
       SetWithdrawalRecipient, SetEnableRoute, RelayRootBundle,
       EmergencyDeleteRootBundle, TransferOwnership, NothingMoves
<1>4. ASSUME NEW sender \in Address, DepositStep(sender) PROVE NothingMoves \/ Deposited
  BY <1>4, DepositStepMoves
<1>5. ASSUME NEW sender \in Address, NEW r \in RelayData, FillV3Relay(sender, r)
      PROVE  Filled
  <2>1. OwnTerms(r) \in Terms BY TermsType
  <2>2. PICK guarded \in BOOLEAN :
          FillRelayV3(sender, r, OwnTerms(r), sender, FALSE, balance, guarded)
    BY <1>5 DEF FillV3Relay
  <2>3. PICK e : FillMoves(r, e, WrappedNative, 0)
    BY <1>5, <2>1, <2>2, FastFillMoves DEF FillV3Relay
  <2>4. e \in FillEvent BY <2>3 DEF FillMoves
  <2>5. WrappedNative \in Token /\ 0 \in Nat BY TokenAssumption
  <2> QED BY <2>3, <2>4, <2>5
<1>6. ASSUME NEW sender \in Address, NEW r \in RelayData, NEW details \in UpdateDetails,
             FillV3RelayWithUpdatedDeposit(sender, r, details)
      PROVE  Filled
  <2>1. details.terms \in Terms BY TermsType
  <2>2. PICK guarded \in BOOLEAN :
          FillRelayV3(sender, r, details.terms, sender, FALSE, balance, guarded)
    BY <1>6 DEF FillV3RelayWithUpdatedDeposit
  <2>3. PICK e : FillMoves(r, e, WrappedNative, 0)
    BY <1>6, <2>1, <2>2, FastFillMoves DEF FillV3RelayWithUpdatedDeposit
  <2>4. e \in FillEvent BY <2>3 DEF FillMoves
  <2>5. WrappedNative \in Token /\ 0 \in Nat BY TokenAssumption
  <2> QED BY <2>3, <2>4, <2>5
<1>7. ASSUME NEW sender \in Address, NEW b \in BundleId, NEW leaf \in SlowFillLeaf,
             ExecuteV3SlowRelayLeaf(sender, b, leaf)
      PROVE  Filled
  <2>1. leaf.relayData \in RelayData BY TermsType
  <2>2. leaf.relayData.outputToken \in Token BY <2>1, ArgumentAssumption DEF V3RelayData
  <2>3. PICK e : FillMoves(leaf.relayData, e, leaf.relayData.outputToken, native)
    BY <1>7, SlowFillMoves
  <2>4. e \in FillEvent BY <2>3 DEF FillMoves
  <2> QED BY <1>0, <2>1, <2>2, <2>3, <2>4
<1>8. ASSUME NEW sender \in Address, NEW b \in BundleId, NEW leaf \in RefundLeaf,
             NEW value \in MsgValue, ExecuteRelayerRefundLeaf(sender, b, leaf, value)
      PROVE  Refunded
  <2>1. leaf.l2TokenAddress \in Token BY ArgumentAssumption DEF RelayerRefundLeaf
  <2>2. native + value \in Nat BY <1>0, NumberAssumption
  <2>3. LeafMoves(b, leaf, leaf.l2TokenAddress, native + value) BY <1>8, RefundMoves
  <2> QED BY <2>1, <2>2, <2>3
<1>9. ASSUME NEW sender \in Address, NEW r \in RelayData, RequestV3SlowFill(sender, r)
      PROVE  NothingMoves
  BY <1>9 DEF RequestV3SlowFill, NothingMoves
<1>10. ASSUME NEW token \in Token, NEW amount \in Amount, TokensArrive(token, amount)
       PROVE  Plain
  <2>1. amount \in Nat BY NumberAssumption
  <2>2. PlainMoves(token, amount, 0)
    BY <1>0, <1>10, <2>1 DEF TokensArrive, PlainMoves
  <2> QED BY <2>1, <2>2
<1>11. ASSUME EnvironmentStep PROVE NothingMoves \/ Plain
  <2> HIDE DEF Plain
  <2> QED BY <1>10, <1>11 DEF EnvironmentStep, SignUpdate, RevokeUpdate,
             HandlerReturns, ReceiveNative, Tick, NothingMoves
<1> HIDE DEF Deposited, Filled, Refunded, Plain
<1>12. NothingMoves \/ Deposited \/ Filled \/ Refunded \/ Plain
  BY <1>1, <1>3, <1>4, <1>5, <1>6, <1>7, <1>8, <1>9, <1>11 DEF Next, FillStep
<1> QED BY <1>12 DEF Deposited, Filled, Refunded, Plain

\* An amount that arrives and one that is paid out of it keep an account balanced.
LEMMA PaidFromBalance ==
  \A bal, arr, f, l, d, h, x \in Nat, rem \in Nat :
    bal + f + l + rem = arr + d
      => ((bal + h) - x) + f + (l + x) + rem = (arr + h) + d
  OBVIOUS

\* The account of every token stays balanced.
LEMMA NextExplained ==
  TypeOK /\ TypeOK' /\ EventsExplainBalance /\ [Next]_vars => EventsExplainBalance'
<1> SUFFICES ASSUME TypeOK, TypeOK', EventsExplainBalance, [Next]_vars
             PROVE  EventsExplainBalance'
  OBVIOUS
<1> SUFFICES ASSUME NEW t \in Token
             PROVE  Account(balance', depositEvents', fillEvents', leafEvents',
                            arrived', removed', t)
  BY AccountsExplainPrimed
<1> DEFINE F == FamilyWeight(fillEvents, SlowWeights(t))
           L == FamilyWeight(leafEvents, LeafWeights(t))
           D == DepositSum(depositEvents, t)
           F2 == FamilyWeight(fillEvents', SlowWeights(t))
           L2 == FamilyWeight(leafEvents', LeafWeights(t))
           D2 == DepositSum(depositEvents', t)
<1>1. balance[t] + F + L + removed[t] = arrived[t] + D
  BY AccountsExplain DEF Account
<1>2. /\ balance[t] \in Nat /\ arrived[t] \in Nat /\ removed[t] \in Nat
      /\ F \in Nat /\ L \in Nat /\ D \in Nat
  BY AccountTypes
<1>3. SUFFICES balance'[t] + F2 + L2 + removed'[t] = arrived'[t] + D2
  BY DEF Account
<1>4. /\ UNCHANGED fillEvents => F2 = F
      /\ UNCHANGED leafEvents => L2 = L
      /\ UNCHANGED depositEvents => D2 = D
  OBVIOUS
<1>5. /\ depositEvents \in Seq(DepositEvent)
      /\ fillEvents \in [RelayData -> Seq(FillEvent)]
      /\ leafEvents \in [BundleId -> Seq(RefundLeaf)]
  BY DEF TypeOK
<1>6. /\ DepositWeight(t) \in [DepositEvent -> Nat]
      /\ SlowWeights(t) \in [RelayData -> [FillEvent -> Nat]]
      /\ LeafWeights(t) \in [BundleId -> [RefundLeaf -> Nat]]
  BY WeightTypes
<1>7. CASE NothingMoves
  <2> HIDE DEF F, L, D, F2, L2, D2
  <2> QED BY <1>1, <1>4, <1>7 DEF NothingMoves
<1>8. ASSUME NEW e, DepositMoves(e) PROVE balance'[t] + F2 + L2 + removed'[t] = arrived'[t] + D2
  <2> DEFINE x == DepositWeight(t)[e]
  <2>1. e \in DepositEvent /\ depositEvents' = Append(depositEvents, e)
    BY <1>8 DEF DepositMoves
  <2>2. D2 = D + x
    <3>1. PICK w \in [DepositEvent -> Nat] : w = DepositWeight(t) BY <1>6
    <3>2. PICK events \in Seq(DepositEvent) : events = depositEvents BY <1>5
    <3>3. SumFunction(Weigh(Append(events, e), w)) = SumFunction(Weigh(events, w)) + w[e]
      BY <2>1, WeightOfAppend
    <3> QED BY <2>1, <3>1, <3>2, <3>3 DEF DepositSum
  <2>3. x = IF e.inputToken = t THEN e.inputAmount ELSE 0 BY <2>1 DEF DepositWeight
  <2>4. x \in Nat BY <1>6, <2>1
  <2>5. balance'[t] = balance[t] + x
    <3>1. balance \in [Token -> Nat] BY DEF TypeOK
    <3>2. balance' = [balance EXCEPT ![e.inputToken] = balance[e.inputToken] + e.inputAmount]
      BY <1>8 DEF DepositMoves
    <3> HIDE DEF x
    <3>3. CASE e.inputToken = t BY <2>3, <3>1, <3>2, <3>3
    <3>4. CASE e.inputToken # t
      <4>1. balance'[t] = balance[t] BY <3>1, <3>2, <3>4
      <4> QED BY <1>2, <2>3, <3>4, <4>1
    <3> QED BY <3>3, <3>4
  <2>6. F2 = F /\ L2 = L /\ arrived' = arrived /\ removed' = removed
    BY <1>4, <1>8 DEF DepositMoves
  <2> HIDE DEF F, L, D, F2, L2, D2, x
  <2> QED BY <1>1, <1>2, <2>2, <2>4, <2>5, <2>6
<1>9. ASSUME NEW r \in RelayData, NEW e \in FillEvent, NEW token \in Token, NEW held \in Nat,
             FillMoves(r, e, token, held)
      PROVE  balance'[t] + F2 + L2 + removed'[t] = arrived'[t] + D2
  <2> DEFINE x == SlowWeights(t)[r][e]
             h == Wrapped(token, held, t)
  <2>1. e \in FillEvent /\ fillEvents' = [fillEvents EXCEPT ![r] = Append(fillEvents[r], e)]
    BY <1>9 DEF FillMoves
  <2>2. F2 = F + x
    <3>1. AddsEntry(RelayData, FillEvent, SlowWeights(t), fillEvents, r, e, fillEvents')
      BY <1>5, <1>6, <2>1, FiniteIndices DEF AddsEntry
    <3> QED BY <3>1, FamilyAppend
  <2>3. x \in Nat BY <1>6, <2>1
  <2>4. h \in Nat BY HookMoves
  <2>5. balance'[t] = (balance[t] + h) - x /\ arrived'[t] = arrived[t] + h
    BY <1>9 DEF FillMoves
  <2>6. D2 = D /\ L2 = L /\ removed' = removed BY <1>4, <1>9 DEF FillMoves
  <2> HIDE DEF F, L, D, F2, L2, D2, x, h
  <2> QED BY <1>1, <1>2, <2>2, <2>3, <2>4, <2>5, <2>6
<1>10. ASSUME NEW b \in BundleId, NEW leaf \in RefundLeaf, NEW token \in Token,
              NEW held \in Nat, LeafMoves(b, leaf, token, held)
       PROVE  balance'[t] + F2 + L2 + removed'[t] = arrived'[t] + D2
  <2> DEFINE x == LeafWeights(t)[b][leaf]
             h == Wrapped(token, held, t)
  <2>1. leafEvents' = [leafEvents EXCEPT ![b] = Append(leafEvents[b], leaf)]
    BY <1>10 DEF LeafMoves
  <2>2. L2 = L + x
    <3>1. AddsEntry(BundleId, RefundLeaf, LeafWeights(t), leafEvents, b, leaf, leafEvents')
      BY <1>5, <1>6, <2>1, FiniteIndices DEF AddsEntry
    <3> QED BY <3>1, FamilyAppend
  <2>3. x \in Nat BY <1>6
  <2>4. h \in Nat BY HookMoves
  <2>5. balance'[t] = (balance[t] + h) - x /\ arrived'[t] = arrived[t] + h
    BY <1>10 DEF LeafMoves
  <2>6. D2 = D /\ F2 = F /\ removed'[t] = removed[t] BY <1>4, <1>10 DEF LeafMoves
  <2> HIDE DEF F, L, D, F2, L2, D2, x, h
  <2>7. ((balance[t] + h) - x) + F + (L + x) + removed[t] = (arrived[t] + h) + D
    BY <1>1, <1>2, <2>3, <2>4, PaidFromBalance
  <2> QED BY <2>2, <2>5, <2>6, <2>7
<1>11. ASSUME NEW token \in Token, NEW came \in Nat, NEW went \in Nat,
              PlainMoves(token, came, went)
       PROVE  balance'[t] + F2 + L2 + removed'[t] = arrived'[t] + D2
  <2>1. /\ balance'[t] = (balance[t] + IF t = token THEN came ELSE 0)
                           - (IF t = token THEN went ELSE 0)
        /\ arrived'[t] = arrived[t] + IF t = token THEN came ELSE 0
        /\ removed'[t] = removed[t] + IF t = token THEN went ELSE 0
    BY <1>11 DEF PlainMoves
  <2>2. D2 = D /\ F2 = F /\ L2 = L BY <1>4, <1>11 DEF PlainMoves
  <2> HIDE DEF F, L, D, F2, L2, D2
  <2> QED BY <1>1, <1>2, <2>1, <2>2
<1> HIDE DEF F2, L2, D2
<1> QED BY <1>7, <1>8, <1>9, <1>10, <1>11, StepsOfFunds

\* At every moment, the pool's balance of a token is the deposits and arrivals
\* less the slow fills, the executed refund leaves and the owner's removals: for
\* any number of tokens, relays, leaves and callbacks.
THEOREM BalancesAreExplained == Spec => []EventsExplainBalance
<1> DEFINE Inv == TypeOK /\ EventsExplainBalance
<1>1. Init => Inv BY InitTypeOK, InitExplained
<1>2. Inv /\ [Next]_vars => Inv' BY NextTypeOK, NextExplained
<1> QED BY <1>1, <1>2, PTL DEF Spec

=============================================================================
