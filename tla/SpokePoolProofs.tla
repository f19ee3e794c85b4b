--------------------------- MODULE SpokePoolProofs ---------------------------
(***************************************************************************)
(* Proofs about SpokePool, for every choice of its constants.              *)
(***************************************************************************)
EXTENDS SpokePool, SumTheorems, SequenceTheorems, TLAPS

USE DEF adminVars, depositVars, bundleVars, leafVars, fillVars, callVars,
        fundVars, signVars

-----------------------------------------------------------------------------
(* Facts about the helpers *)

\* The cast uint32(x) yields a uint32.
LEMMA U32Type == \A x \in Nat : U32(x) \in 0..MaxUint32
  BY NumberAssumption DEF U32

\* A sequence with one element more, its last element, and the rest.
LEMMA AppendFacts ==
  ASSUME NEW S, NEW s \in Seq(S), NEW e \in S
  PROVE  /\ Append(s, e) \in Seq(S)
         /\ Len(Append(s, e)) = Len(s) + 1
         /\ \A i \in 1..Len(s) : Append(s, e)[i] = s[i]
         /\ Append(s, e)[Len(s) + 1] = e
         /\ Last(Append(s, e)) = e
  BY DEF Last

LEMMA FrontFacts ==
  ASSUME NEW S, NEW s \in Seq(S), s # <<>>
  PROVE  /\ Front(s) \in Seq(S)
         /\ Len(Front(s)) = Len(s) - 1
         /\ \A i \in 1..(Len(s) - 1) : Front(s)[i] = s[i]
         /\ Last(s) = s[Len(s)]
         /\ Last(s) \in S
         /\ Len(s) \in Nat \ {0}
<1>1. Len(s) \in Nat \ {0}
  OBVIOUS
<1>2. Len(s) - 1 \in Nat /\ Len(s) \in 1..Len(s)
  BY <1>1
<1>3. Last(s) = s[Len(s)] /\ Last(s) \in S
  BY <1>2 DEF Last
<1> DEFINE n == Len(s) - 1
<1>4. n \in Nat /\ \A i \in 1..n : s[i] \in S
  BY <1>1
<1> HIDE DEF n
<1>5. /\ SubSeq(s, 1, n) \in Seq(S)
      /\ Len(SubSeq(s, 1, n)) = IF 1 <= n THEN n - 1 + 1 ELSE 0
      /\ \A i \in 1..(n - 1 + 1) : SubSeq(s, 1, n)[i] = s[1 + i - 1]
  BY <1>4, SubSeqProperties
<1>6. /\ Len(SubSeq(s, 1, n)) = n
      /\ \A i \in 1..n : SubSeq(s, 1, n)[i] = s[i]
  BY <1>4, <1>5
<1> QED BY <1>1, <1>3, <1>5, <1>6 DEF Front, n

\* What a leaf pays out altogether is an amount.
LEMMA RefundTotalType == \A leaf \in RefundLeaf : RefundTotal(leaf) \in Nat
<1> SUFFICES ASSUME NEW leaf \in RefundLeaf PROVE RefundTotal(leaf) \in Nat OBVIOUS
<1> DEFINE amounts == leaf.refundAmounts
<1>1. amounts \in Seq(Nat) BY ArgumentAssumption DEF RelayerRefundLeaf
<1> HIDE DEF amounts
<1>2. amounts \in [1..Len(amounts) -> Nat] /\ Len(amounts) \in Nat BY <1>1
<1>3. IsFiniteSet(1..Len(amounts)) BY <1>2, FS_Interval
<1>4. SumFunction(amounts) \in Nat BY <1>2, <1>3, SumNat
<1> QED BY <1>4 DEF RefundTotal, amounts

-----------------------------------------------------------------------------
(* Type correctness *)

LEMMA InitTypeOK == Init => TypeOK
<1> SUFFICES ASSUME Init PROVE TypeOK OBVIOUS
<1> USE AddressAssumption, NumberAssumption DEF Init
<1>1. owner \in Address /\ crossDomainAdmin \in Address
        /\ withdrawalRecipient \in Address
  OBVIOUS
<1>2. numberOfDeposits \in 0..MaxUint32 OBVIOUS
<1>3. fillStatuses \in [RelayData -> FillStatus] BY DEF FillStatus
<1>4. claimedBitmap \in [BundleId -> SUBSET Nat]
        /\ leafEvents \in [BundleId -> Seq(RefundLeaf)]
  OBVIOUS
<1>5. fillEvents \in [RelayData -> Seq(FillEvent)] OBVIOUS
<1>6. depositEvents \in Seq(DepositEvent) /\ rootBundles \in Seq(RootBundle)
        /\ stack \in Seq(Frame)
  OBVIOUS
<1>7. balance \in [Token -> Nat] /\ arrived \in [Token -> Nat]
        /\ removed \in [Token -> Nat]
  OBVIOUS
<1> QED BY <1>1, <1>2, <1>3, <1>4, <1>5, <1>6, <1>7 DEF TypeOK

LEMMA AdminTypeOK ==
  ASSUME TypeOK, NEW sender \in Address, AdminStep(sender)
  PROVE  TypeOK'
<1>1. ASSUME NEW pause \in BOOLEAN, PauseDeposits(sender, pause) PROVE TypeOK'
  BY <1>1 DEF PauseDeposits, TypeOK
<1>2. ASSUME NEW pause \in BOOLEAN, PauseFills(sender, pause) PROVE TypeOK'
  BY <1>2 DEF PauseFills, TypeOK
<1>3. ASSUME NEW a \in Appointee, SetCrossDomainAdmin(sender, a) PROVE TypeOK'
  BY <1>3, AddressAssumption DEF SetCrossDomainAdmin, TypeOK
<1>4. ASSUME NEW a \in Appointee, SetWithdrawalRecipient(sender, a) PROVE TypeOK'
  BY <1>4, AddressAssumption DEF SetWithdrawalRecipient, TypeOK
<1>5. ASSUME NEW t \in Token, NEW c \in ChainIds, NEW enabled \in BOOLEAN,
             SetEnableRoute(sender, t, c, enabled)
      PROVE  TypeOK'
  <2>1. <<t, c>> \in Token \X ChainIds OBVIOUS
  <2>2. enabledDepositRoutes' \subseteq enabledDepositRoutes \cup {<<t, c>>}
    BY <1>5 DEF SetEnableRoute
  <2>3. enabledDepositRoutes' \subseteq Token \X ChainIds
    BY <2>1, <2>2, Zenon DEF TypeOK
  <2> QED BY <1>5, <2>3 DEF SetEnableRoute, TypeOK
<1>6. ASSUME NEW bundle \in RootBundles, RelayRootBundle(sender, bundle)
      PROVE  TypeOK'
  BY <1>6, ArgumentAssumption DEF RelayRootBundle, TypeOK
<1>7. ASSUME NEW b \in BundleId, EmergencyDeleteRootBundle(sender, b)
      PROVE  TypeOK'
  <2>1. EmptyBundle \in RootBundle BY DEF EmptyBundle, RootBundle
  <2>2. rootBundles' \in Seq(RootBundle)
    BY <1>7, <2>1 DEF EmergencyDeleteRootBundle, TypeOK
  <2> QED BY <1>7, <2>2 DEF EmergencyDeleteRootBundle, TypeOK
<1>8. ASSUME NEW amount \in Amount, NEW t \in Token,
             AdminRemoveFunds(sender, amount, t)
      PROVE  TypeOK'
  <2>1. amount \in Nat BY NumberAssumption
  <2>2. balance[t] \in Nat /\ removed[t] \in Nat BY DEF TypeOK
  <2>3. balance[t] - amount \in Nat /\ removed[t] + amount \in Nat
    BY <1>8, <2>1, <2>2 DEF AdminRemoveFunds
  <2>4. balance' \in [Token -> Nat] /\ removed' \in [Token -> Nat]
    BY <1>8, <2>3 DEF AdminRemoveFunds, TypeOK
  <2> QED BY <1>8, <2>4 DEF AdminRemoveFunds, TypeOK
<1>9. ASSUME NEW a \in Appointee, TransferOwnership(sender, a) PROVE TypeOK'
  BY <1>9, AddressAssumption DEF TransferOwnership, TypeOK
<1> QED
  BY <1>1, <1>2, <1>3, <1>4, <1>5, <1>6, <1>7, <1>8, <1>9 DEF AdminStep

\* What TakeInput does to the balances.
LEMMA TakeInputType ==
  ASSUME TypeOK, NEW token \in Token, NEW amount \in Nat, NEW value \in Nat,
         TakeInput(token, amount, value)
  PROVE  /\ balance' \in [Token -> Nat]
         /\ native' \in Nat
         /\ arrived' = arrived /\ removed' = removed
         /\ nativeReceived' = nativeReceived
<1>1. balance[token] + amount \in Nat BY DEF TypeOK
<1>2. balance' \in [Token -> Nat] BY <1>1 DEF TakeInput, TypeOK
<1>3. native' \in Nat BY DEF TakeInput, TypeOK
<1> QED BY <1>2, <1>3 DEF TakeInput

LEMMA DepositV3InternalType ==
  ASSUME TypeOK, NEW sender \in Address, NEW id \in DepositId,
         NEW a \in DepositV3Arg, NEW value \in Nat,
         numberOfDeposits' \in 0..MaxUint32,
         DepositV3Internal(sender, id, a, value)
  PROVE  TypeOK'
<1>1. /\ a.depositor \in Address /\ a.recipient \in Address
      /\ a.inputToken \in Token /\ a.outputToken \in Token
      /\ a.inputAmount \in Nat /\ a.outputAmount \in Nat
      /\ a.destinationChainId \in ChainIds /\ a.exclusiveRelayer \in Address
      /\ a.quoteTimestamp \in 0..MaxUint32 /\ a.fillDeadline \in 0..MaxUint32
      /\ a.exclusivityParameter \in 0..MaxUint32 /\ a.message \in BOOLEAN
  BY DEF DepositV3Arg
<1>2. ExclusivityDeadline(a.exclusivityParameter) \in 0..MaxUint32
  <2>1. U32(now) \in 0..MaxUint32 BY U32Type DEF TypeOK
  <2>2. ExclusivityDeadline(a.exclusivityParameter) <= MaxUint32
    BY DEF DepositV3Internal
  <2> QED BY <1>1, <2>1, <2>2, NumberAssumption DEF ExclusivityDeadline
<1>3. a.quoteTimestamp \in Nat /\ now \in Nat /\ a.outputAmount \in Int
  BY <1>1, NumberAssumption, SMTT(30) DEF TypeOK
<1>4. depositEvents' \in Seq(DepositEvent)
  <2> DEFINE d == [id |-> id, sender |-> sender, depositor |-> a.depositor,
          recipient |-> a.recipient, inputToken |-> a.inputToken,
          outputToken |-> a.outputToken, inputAmount |-> a.inputAmount,
          outputAmount |-> a.outputAmount,
          destinationChainId |-> a.destinationChainId,
          exclusiveRelayer |-> a.exclusiveRelayer,
          quoteTimestamp |-> a.quoteTimestamp,
          fillDeadline |-> a.fillDeadline,
          exclusivityDeadline |-> ExclusivityDeadline(a.exclusivityParameter),
          message |-> a.message, at |-> now]
  <2>1. d \in DepositEvent BY <1>1, <1>2, <1>3 DEF DepositEvent
  <2>2. depositEvents' = Append(depositEvents, d) BY DEF DepositV3Internal
  <2> HIDE DEF d
  <2> QED BY <2>1, <2>2, AppendFacts DEF TypeOK
<1>5. TakeInput(a.inputToken, a.inputAmount, value) BY DEF DepositV3Internal
<1>6. balance' \in [Token -> Nat] /\ native' \in Nat /\ arrived' = arrived
        /\ removed' = removed /\ nativeReceived' = nativeReceived
  BY <1>1, <1>5, TakeInputType
<1> QED BY <1>4, <1>6 DEF DepositV3Internal, TypeOK

LEMMA DepositInternalType ==
  ASSUME TypeOK, NEW sender \in Address, NEW depositor \in Address,
         NEW a \in DepositArg, NEW value \in Nat,
         DepositInternal(sender, depositor, a, value)
  PROVE  TypeOK'
<1>1. /\ a.recipient \in Address /\ a.originToken \in Token /\ a.amount \in Nat
      /\ a.destinationChainId \in ChainIds /\ a.relayerFeePct \in Int
      /\ a.quoteTimestamp \in 0..MaxUint32 /\ a.message \in BOOLEAN
  BY DEF DepositArg
<1>2. ComputeAmountPostFees(a.amount, a.relayerFeePct) \in Int
  BY <1>1, NumberAssumption DEF ComputeAmountPostFees
<1>3. /\ SafeDepositId(numberOfDeposits) \in DepositId
      /\ numberOfDeposits' \in 0..MaxUint32
  BY AddressAssumption, NumberAssumption, SMTT(30)
     DEF SafeDepositId, DepositId, TypeOK, DepositInternal, CountDeposit
<1>4. depositEvents' \in Seq(DepositEvent)
  <2> DEFINE d == [id |-> SafeDepositId(numberOfDeposits),
          sender |-> sender, depositor |-> depositor,
          recipient |-> a.recipient, inputToken |-> a.originToken,
          outputToken |-> ZeroAddress, inputAmount |-> a.amount,
          outputAmount |-> ComputeAmountPostFees(a.amount, a.relayerFeePct),
          destinationChainId |-> a.destinationChainId,
          exclusiveRelayer |-> ZeroAddress,
          quoteTimestamp |-> a.quoteTimestamp,
          fillDeadline |-> MaxUint32, exclusivityDeadline |-> 0,
          message |-> a.message, at |-> now]
  <2>1. d \in DepositEvent
    BY <1>1, <1>2, <1>3, AddressAssumption, NumberAssumption, SMTT(30)
       DEF DepositEvent, TypeOK
  <2>2. depositEvents' = Append(depositEvents, d) BY DEF DepositInternal
  <2> HIDE DEF d
  <2> QED BY <2>1, <2>2, AppendFacts DEF TypeOK
<1>5. TakeInput(a.originToken, a.amount, value) BY DEF DepositInternal
<1>6. balance' \in [Token -> Nat] /\ native' \in Nat /\ arrived' = arrived
        /\ removed' = removed /\ nativeReceived' = nativeReceived
  BY <1>1, <1>5, TakeInputType
<1> QED BY <1>3, <1>4, <1>6 DEF DepositInternal, TypeOK

LEMMA DepositTypeOK ==
  ASSUME TypeOK, NEW sender \in Address, DepositStep(sender)
  PROVE  TypeOK'
<1> USE NumberAssumption, ArgumentAssumption
<1>1. ASSUME NEW a \in DepositV3Arg, NEW value \in MsgValue,
             DepositV3(sender, a, value)
      PROVE  TypeOK'
  <2>1. /\ SafeDepositId(numberOfDeposits) \in DepositId
        /\ numberOfDeposits' \in 0..MaxUint32
    BY <1>1, AddressAssumption
       DEF SafeDepositId, DepositId, TypeOK, DepositV3, CountDeposit
  <2>2. DepositV3Internal(sender, SafeDepositId(numberOfDeposits), a, value)
    BY <1>1 DEF DepositV3
  <2>3. value \in Nat OBVIOUS
  <2> QED BY <2>1, <2>2, <2>3, DepositV3InternalType
<1>2. ASSUME NEW a \in DepositV3Args, NEW n \in Nonce, NEW value \in MsgValue,
             UnsafeDepositV3(sender, a, n, value)
      PROVE  TypeOK'
  <2>1. a \in DepositV3Arg /\ value \in Nat /\ n \in Nat OBVIOUS
  <2>2. GetUnsafeDepositId(sender, a.depositor, n) \in DepositId
    BY <2>1 DEF GetUnsafeDepositId, DepositId, DepositV3Arg
  <2>3. numberOfDeposits' \in 0..MaxUint32 BY <1>2 DEF UnsafeDepositV3, TypeOK
  <2>4. DepositV3Internal(sender, GetUnsafeDepositId(sender, a.depositor, n), a, value)
    BY <1>2 DEF UnsafeDepositV3
  <2> QED BY <2>1, <2>2, <2>3, <2>4, DepositV3InternalType
<1>3. ASSUME NEW a \in DepositV3Args, NEW value \in MsgValue,
             DepositV3Now(sender, a, value)
      PROVE  TypeOK'
  <2> DEFINE b == [a EXCEPT !.quoteTimestamp = U32(now),
                            !.fillDeadline = U32(now) + a.fillDeadline]
  <2>1. U32(now) \in 0..MaxUint32 BY U32Type DEF TypeOK
  <2>2. a \in DepositV3Arg /\ a.fillDeadline \in 0..MaxUint32 BY DEF DepositV3Arg
  <2>3. U32(now) + a.fillDeadline \in 0..MaxUint32
    BY <1>3, <2>1, <2>2 DEF DepositV3Now
  <2>4. b \in DepositV3Arg BY <2>1, <2>2, <2>3 DEF DepositV3Arg
  <2>5. DepositV3(sender, b, value) BY <1>3 DEF DepositV3Now
  <2> QED BY <2>4, <2>5, <1>1
<1>4. ASSUME NEW depositor \in Address, NEW a \in DepositArgs,
             NEW value \in MsgValue, DepositInternal(sender, depositor, a, value)
      PROVE  TypeOK'
  BY <1>4, DepositInternalType
<1>5. ASSUME NEW depositor \in Depositor, NEW details \in UpdateDetails,
             SpeedUpV3Deposit(sender, depositor, details)
      PROVE  TypeOK'
  <2>1. <<depositor, details>> \in Address \X UpdateDetails BY AddressAssumption
  <2>2. speedUps' \subseteq Address \X UpdateDetails
    BY <1>5, <2>1, Zenon DEF SpeedUpV3Deposit, TypeOK
  <2> QED BY <1>5, <2>2 DEF SpeedUpV3Deposit, TypeOK
<1> QED
  BY <1>1, <1>2, <1>3, <1>4, <1>5, AddressAssumption
     DEF DepositStep, DepositExclusive, Deposit, DepositFor

LEMMA FillRelayV3Type ==
  ASSUME TypeOK, NEW sender \in Address, NEW r \in RelayData, NEW terms \in Terms,
         NEW relayer \in Address, NEW isSlowFill \in BOOLEAN,
         NEW funds \in [Token -> Nat], NEW guarded \in BOOLEAN,
         FillRelayV3(sender, r, terms, relayer, isSlowFill, funds, guarded)
  PROVE  /\ fillStatuses' \in [RelayData -> FillStatus]
         /\ fillEvents' \in [RelayData -> Seq(FillEvent)]
         /\ balance' \in [Token -> Nat]
         /\ stack' \in Seq(Frame)
         /\ entered' \in BOOLEAN
<1> DEFINE token == r.outputToken
           selfRelay == sender = terms.recipient /\ ~isSlowFill
           pays == IF selfRelay THEN 0 ELSE terms.amount
           left == funds[token] + Pulled(token, pays, isSlowFill)
                                - Sent(token, pays, isSlowFill)
           e == [sender |-> sender, relayer |-> relayer,
                 fillType |-> FillTypeOf(r, isSlowFill), terms |-> terms,
                 paid |-> pays, at |-> now]
<1>1. token \in Token /\ terms.amount \in Nat /\ terms.recipient \in Address
  BY ArgumentAssumption DEF V3RelayData, Terms
<1>2. pays \in Nat BY <1>1
<1>3. left \in Nat
  BY <1>1, <1>2 DEF FillRelayV3, Pulled, Sent
<1>4. e \in FillEvent
  BY <1>2 DEF FillEvent, FillTypeOf, FillType, TypeOK
<1>5. fillEvents' = [fillEvents EXCEPT ![r] = Append(@, e)] BY DEF FillRelayV3
<1>6. fillEvents' \in [RelayData -> Seq(FillEvent)]
  <2>1. Append(fillEvents[r], e) \in Seq(FillEvent)
    BY <1>4, AppendFacts DEF TypeOK
  <2> HIDE DEF e
  <2> QED BY <1>5, <2>1 DEF TypeOK
<1>7. balance' \in [Token -> Nat]
  <2>1. balance' = [funds EXCEPT ![token] = left] BY DEF FillRelayV3
  <2> HIDE DEF left, token
  <2> QED BY <1>1, <1>3, <2>1
<1>8. fillStatuses' \in [RelayData -> FillStatus]
  BY DEF FillRelayV3, MarkFilled, TypeOK, FillStatus
<1>9. stack' \in Seq(Frame)
  <2>1. [relay |-> r, guarded |-> guarded] \in Frame BY DEF Frame
  <2>2. Append(stack, [relay |-> r, guarded |-> guarded]) \in Seq(Frame)
    BY <2>1, AppendFacts DEF TypeOK
  <2>3. stack' \in {stack, Append(stack, [relay |-> r, guarded |-> guarded])}
    BY DEF FillRelayV3
  <2> QED BY <2>2, <2>3 DEF TypeOK
<1>10. entered' \in BOOLEAN BY DEF FillRelayV3
<1> QED BY <1>6, <1>7, <1>8, <1>9, <1>10

\* The terms of a relay, and of a slow fill of it, are terms.
LEMMA TermsType ==
  /\ \A r \in RelayData : OwnTerms(r) \in Terms
  /\ \A leaf \in SlowFillLeaf :
        /\ leaf.relayData \in RelayData
        /\ [OwnTerms(leaf.relayData) EXCEPT !.amount = leaf.updatedOutputAmount] \in Terms
  /\ \A details \in UpdateDetails : details.terms \in Terms
  BY ArgumentAssumption
     DEF OwnTerms, Terms, V3RelayData, V3SlowFill, UpdateDepositDetails

\* The hook moves native into the wrapped token.
LEMMA HookType ==
  ASSUME TypeOK, NEW token \in Token, NEW held \in Nat
  PROVE  /\ HookWraps(token, held) \in Nat
         /\ held - HookWraps(token, held) \in Nat
         /\ FundsAfterHook(token, held) \in [Token -> Nat]
         /\ arrived[WrappedNative] + HookWraps(token, held) \in Nat
         /\ [arrived EXCEPT ![WrappedNative] = arrived[WrappedNative]
                                + HookWraps(token, held)] \in [Token -> Nat]
<1>1. HookWraps(token, held) \in Nat /\ held - HookWraps(token, held) \in Nat
  BY DEF HookWraps
<1>2. WrappedNative \in Token BY TokenAssumption
<1>3. /\ balance[WrappedNative] + HookWraps(token, held) \in Nat
      /\ arrived[WrappedNative] + HookWraps(token, held) \in Nat
  BY <1>1, <1>2, SMTT(30) DEF TypeOK
<1> QED BY <1>1, <1>2, <1>3 DEF FundsAfterHook, TypeOK

LEMMA FillTypeOK ==
  ASSUME TypeOK, NEW sender \in Address, FillStep(sender)
  PROVE  TypeOK'
<1>1. ASSUME NEW r \in RelayData, FillV3Relay(sender, r) PROVE TypeOK'
  <2>1. FillRelayV3(sender, r, OwnTerms(r), sender, FALSE, balance, FALSE)
    BY <1>1 DEF FillV3Relay
  <2>2. /\ OwnTerms(r) \in Terms /\ balance \in [Token -> Nat]
    BY TermsType DEF TypeOK
  <2>3. /\ fillStatuses' \in [RelayData -> FillStatus]
        /\ fillEvents' \in [RelayData -> Seq(FillEvent)]
        /\ balance' \in [Token -> Nat]
        /\ stack' \in Seq(Frame)
        /\ entered' \in BOOLEAN
    BY <2>1, <2>2, FillRelayV3Type
  <2> QED BY <1>1, <2>3 DEF FillV3Relay, TypeOK
<1>2. ASSUME NEW r \in RelayData, NEW details \in UpdateDetails,
             FillV3RelayWithUpdatedDeposit(sender, r, details)
      PROVE  TypeOK'
  <2>1. FillRelayV3(sender, r, details.terms, sender, FALSE, balance, TRUE)
    BY <1>2 DEF FillV3RelayWithUpdatedDeposit
  <2>2. details.terms \in Terms /\ balance \in [Token -> Nat]
    BY TermsType DEF TypeOK
  <2>3. /\ fillStatuses' \in [RelayData -> FillStatus]
        /\ fillEvents' \in [RelayData -> Seq(FillEvent)]
        /\ balance' \in [Token -> Nat]
        /\ stack' \in Seq(Frame)
        /\ entered' \in BOOLEAN
    BY <2>1, <2>2, FillRelayV3Type
  <2> QED BY <1>2, <2>3 DEF FillV3RelayWithUpdatedDeposit, TypeOK
<1>3. ASSUME NEW r \in RelayData, RequestV3SlowFill(sender, r) PROVE TypeOK'
  <2>1. <<r, now>> \in RelayData \X Nat BY DEF TypeOK
  <2>2. slowFillRequests' \subseteq RelayData \X Nat
    BY <1>3, <2>1, Zenon DEF RequestV3SlowFill, TypeOK
  <2>3. fillStatuses' \in [RelayData -> FillStatus]
    BY <1>3 DEF RequestV3SlowFill, TypeOK, FillStatus
  <2> QED BY <1>3, <2>2, <2>3 DEF RequestV3SlowFill, TypeOK
<1>4. ASSUME NEW b \in BundleId, NEW leaf \in SlowFillLeaf,
             ExecuteV3SlowRelayLeaf(sender, b, leaf)
      PROVE  TypeOK'
  <2> DEFINE r == leaf.relayData
             terms == [OwnTerms(r) EXCEPT !.amount = leaf.updatedOutputAmount]
             funds == FundsAfterHook(r.outputToken, native)
  <2>1. FillRelayV3(sender, r, terms, ZeroAddress, TRUE, funds, TRUE)
    BY <1>4 DEF ExecuteV3SlowRelayLeaf
  <2>2. r \in RelayData /\ terms \in Terms BY TermsType
  <2>3. r.outputToken \in Token BY <2>2, ArgumentAssumption DEF V3RelayData
  <2>4. funds \in [Token -> Nat] /\ native' \in Nat /\ arrived' \in [Token -> Nat]
    <3>1. native \in Nat BY DEF TypeOK
    <3> QED BY <1>4, <2>3, <3>1, HookType DEF ExecuteV3SlowRelayLeaf
  <2>5. ZeroAddress \in Address BY AddressAssumption
  <2> HIDE DEF r, terms, funds
  <2>6. /\ fillStatuses' \in [RelayData -> FillStatus]
        /\ fillEvents' \in [RelayData -> Seq(FillEvent)]
        /\ balance' \in [Token -> Nat]
        /\ stack' \in Seq(Frame)
        /\ entered' \in BOOLEAN
    BY <2>1, <2>2, <2>4, <2>5, FillRelayV3Type
  <2> QED BY <1>4, <2>4, <2>6 DEF ExecuteV3SlowRelayLeaf, TypeOK
<1>5. ASSUME NEW b \in BundleId, NEW leaf \in RefundLeaf, NEW value \in MsgValue,
             ExecuteRelayerRefundLeaf(sender, b, leaf, value)
      PROVE  TypeOK'
  <2> DEFINE token == leaf.l2TokenAddress
             held == native + value
             paidOut == RefundTotal(leaf) + leaf.amountToReturn
             funds == FundsAfterHook(token, held)
  <2>1. token \in Token /\ leaf.leafId \in Nat /\ leaf.amountToReturn \in Nat
    BY ArgumentAssumption DEF RelayerRefundLeaf
  <2>2. value \in Nat /\ held \in Nat BY NumberAssumption DEF TypeOK
  <2>3. paidOut \in Nat BY <2>1, RefundTotalType
  <2>4. funds \in [Token -> Nat] /\ native' \in Nat /\ arrived' \in [Token -> Nat]
    BY <1>5, <2>1, <2>2, HookType DEF ExecuteRelayerRefundLeaf
  <2>5. funds[token] >= paidOut /\ balance' = [funds EXCEPT ![token] = @ - paidOut]
    BY <1>5 DEF ExecuteRelayerRefundLeaf, DistributeRelayerRefunds
  <2>6. balance' \in [Token -> Nat]
    <3> HIDE DEF funds, paidOut, token
    <3>1. funds[token] - paidOut \in Nat BY <2>1, <2>3, <2>4, <2>5
    <3> QED BY <2>1, <2>4, <2>5, <3>1
  <2>7. claimedBitmap' \in [BundleId -> SUBSET Nat]
    BY <1>5, <2>1 DEF ExecuteRelayerRefundLeaf, SetClaimedLeaf, TypeOK
  <2>8. leafEvents' \in [BundleId -> Seq(RefundLeaf)]
    <3>1. Append(leafEvents[b], leaf) \in Seq(RefundLeaf)
      BY AppendFacts DEF TypeOK
    <3> QED BY <1>5, <3>1 DEF ExecuteRelayerRefundLeaf, TypeOK
  <2>9. nativeReceived' \in Nat
    BY <1>5, <2>2 DEF ExecuteRelayerRefundLeaf, TypeOK
  <2> QED
    BY <1>5, <2>4, <2>6, <2>7, <2>8, <2>9 DEF ExecuteRelayerRefundLeaf, TypeOK
<1> QED BY <1>1, <1>2, <1>3, <1>4, <1>5 DEF FillStep

LEMMA EnvironmentTypeOK ==
  ASSUME TypeOK, EnvironmentStep
  PROVE  TypeOK'
<1>1. ASSUME NEW depositor \in Depositor, NEW details \in UpdateDetails,
             SignUpdate(depositor, details) \/ RevokeUpdate(depositor, details)
      PROVE  TypeOK'
  <2>1. <<depositor, details>> \in Address \X UpdateDetails BY AddressAssumption
  <2>2. /\ signatures' \subseteq signatures \cup {<<depositor, details>>}
        /\ everSigned' \subseteq everSigned \cup {<<depositor, details>>}
    BY <1>1 DEF SignUpdate, RevokeUpdate
  <2>3. signatures' \subseteq Address \X UpdateDetails
    BY <2>1, <2>2, Zenon DEF TypeOK
  <2>4. everSigned' \subseteq Address \X UpdateDetails
    BY <2>1, <2>2, Zenon DEF TypeOK
  <2> QED BY <1>1, <2>3, <2>4 DEF SignUpdate, RevokeUpdate, TypeOK
<1>2. CASE HandlerReturns
  <2>1. stack' \in Seq(Frame) BY <1>2, FrontFacts DEF HandlerReturns, TypeOK
  <2>2. entered' \in BOOLEAN BY <1>2 DEF HandlerReturns
  <2> QED BY <1>2, <2>1, <2>2 DEF HandlerReturns, TypeOK
<1>3. ASSUME NEW value \in MsgValue, ReceiveNative(value) PROVE TypeOK'
  <2>1. value \in Nat BY NumberAssumption
  <2>2. native' \in Nat /\ nativeReceived' \in Nat
    BY <1>3, <2>1 DEF ReceiveNative, TypeOK
  <2> QED BY <1>3, <2>2 DEF ReceiveNative, TypeOK
<1>4. ASSUME NEW t \in Token, NEW amount \in Amount, TokensArrive(t, amount)
      PROVE  TypeOK'
  <2>1. amount \in Nat BY NumberAssumption
  <2>2. balance[t] + amount \in Nat /\ arrived[t] + amount \in Nat
    BY <2>1 DEF TypeOK
  <2>3. balance' \in [Token -> Nat] /\ arrived' \in [Token -> Nat]
    BY <1>4, <2>2 DEF TokensArrive, TypeOK
  <2> QED BY <1>4, <2>3 DEF TokensArrive, TypeOK
<1>5. CASE Tick
  BY <1>5 DEF Tick, TypeOK
<1> QED BY <1>1, <1>2, <1>3, <1>4, <1>5 DEF EnvironmentStep

LEMMA NextTypeOK == TypeOK /\ [Next]_vars => TypeOK'
<1> SUFFICES ASSUME TypeOK, [Next]_vars PROVE TypeOK' OBVIOUS
<1>1. CASE UNCHANGED vars BY <1>1 DEF vars, TypeOK
<1>2. CASE Next
  BY <1>2, AdminTypeOK, DepositTypeOK, FillTypeOK, EnvironmentTypeOK DEF Next
<1> QED BY <1>1, <1>2

\* The variables keep their types: in particular no balance of the pool and no
\* counter ever goes below zero, and numberOfDeposits stays a uint32.
THEOREM TypeCorrect == Spec => []TypeOK
  BY InitTypeOK, NextTypeOK, PTL DEF Spec

-----------------------------------------------------------------------------
(* Fills *)

\* Who agreed to the terms of a fill: for a slow fill a leaf of a root the pool
\* holds, for a fast one the deposit itself or a signature that is valid now.
TermsAgreed(r, terms, isSlowFill) ==
    IF isSlowFill
    THEN /\ terms = [OwnTerms(r) EXCEPT !.amount = terms.amount]
         /\ \E b \in DOMAIN rootBundles :
               LeafOf(r, terms.amount) \in rootBundles[b].slowRelayRoot
    ELSE \/ terms = OwnTerms(r)
         \/ \E details \in UpdateDetails :
               /\ <<r.depositor, details>> \in signatures
               /\ details.depositId = r.depositId
               /\ details.originChainId = r.originChainId
               /\ details.terms = terms

\* What one fill does to the fills and the callbacks, whoever makes it:
\* "guarded" says whether the call holds the lock, "funds" what it pays from.
FillBy(sender, r, terms, relayer, isSlowFill, funds, guarded) ==
    /\ FillRelayV3(sender, r, terms, relayer, isSlowFill, funds, guarded)
    /\ guarded => NonReentrant
    /\ isSlowFill => relayer = ZeroAddress
    /\ ~isSlowFill => /\ MayFill(sender, r) /\ relayer = sender
                      /\ funds = balance /\ native' = native
    /\ TermsAgreed(r, terms, isSlowFill)
    /\ UNCHANGED <<slowFillRequests, now>>

\* The FilledV3Relay event of a fill.
NewFillEvent(sender, r, terms, relayer, isSlowFill) ==
    [sender |-> sender, relayer |-> relayer,
     fillType |-> FillTypeOf(r, isSlowFill), terms |-> terms,
     paid |-> IF sender = terms.recipient /\ ~isSlowFill THEN 0 ELSE terms.amount,
     at |-> now]

\* The only steps that touch fills or callbacks are fills, slow fill requests
\* and returns from a callback.
LEMMA StepsOfFills ==
  ASSUME TypeOK, [Next]_vars
  PROVE  \/ UNCHANGED <<fillVars, callVars, slowFillRequests>>
         \/ \E sender \in Address, r \in RelayData, terms \in Terms,
               relayer \in Address, isSlowFill \in BOOLEAN,
               funds \in [Token -> Nat], guarded \in BOOLEAN :
               FillBy(sender, r, terms, relayer, isSlowFill, funds, guarded)
         \/ \E sender \in Address, r \in RelayData : RequestV3SlowFill(sender, r)
         \/ HandlerReturns
<1> DEFINE Same == UNCHANGED <<fillVars, callVars, slowFillRequests>>
           AFill == \E sender \in Address, r \in RelayData, terms \in Terms,
               relayer \in Address, isSlowFill \in BOOLEAN,
               funds \in [Token -> Nat], guarded \in BOOLEAN :
               FillBy(sender, r, terms, relayer, isSlowFill, funds, guarded)
<1>1. CASE UNCHANGED vars BY <1>1 DEF vars
<1>2. ASSUME NEW sender \in Address, AdminStep(sender) PROVE Same
  BY <1>2 DEF AdminStep, PauseDeposits, PauseFills, SetCrossDomainAdmin,
     SetWithdrawalRecipient, SetEnableRoute, RelayRootBundle,
     EmergencyDeleteRootBundle, AdminRemoveFunds, TransferOwnership
<1>3. ASSUME NEW sender \in Address, DepositStep(sender) PROVE Same
  BY <1>3, ZenonT(60) DEF DepositStep, DepositV3, UnsafeDepositV3, DepositV3Now,
     DepositExclusive, Deposit, DepositFor, DepositV3Internal, DepositInternal,
     SpeedUpV3Deposit
<1>4. ASSUME NEW sender \in Address, NEW r \in RelayData, FillV3Relay(sender, r)
      PROVE  AFill
  <2>1. OwnTerms(r) \in Terms /\ balance \in [Token -> Nat] BY TermsType DEF TypeOK
  <2>2. FillBy(sender, r, OwnTerms(r), sender, FALSE, balance, FALSE)
    BY <1>4 DEF FillV3Relay, FillBy, TermsAgreed
  <2> QED BY <2>1, <2>2
<1>5. ASSUME NEW sender \in Address, NEW r \in RelayData,
             NEW details \in UpdateDetails,
             FillV3RelayWithUpdatedDeposit(sender, r, details)
      PROVE  AFill
  <2>1. details.terms \in Terms /\ balance \in [Token -> Nat]
    BY TermsType DEF TypeOK
  <2>2. FillBy(sender, r, details.terms, sender, FALSE, balance, TRUE)
    BY <1>5 DEF FillV3RelayWithUpdatedDeposit, FillBy, TermsAgreed, VerifyUpdate
  <2> QED BY <2>1, <2>2
<1>6. ASSUME NEW sender \in Address, NEW b \in BundleId, NEW leaf \in SlowFillLeaf,
             ExecuteV3SlowRelayLeaf(sender, b, leaf)
      PROVE  AFill
  <2> DEFINE r == leaf.relayData
             terms == [OwnTerms(r) EXCEPT !.amount = leaf.updatedOutputAmount]
             funds == FundsAfterHook(r.outputToken, native)
  <2>1. r \in RelayData /\ terms \in Terms BY TermsType
  <2>2. TermsAgreed(r, terms, TRUE)
    <3>1. /\ b \in DOMAIN rootBundles
          /\ [leaf EXCEPT !.chainId = ChainId] \in rootBundles[b].slowRelayRoot
      BY <1>6 DEF ExecuteV3SlowRelayLeaf
    <3>2. terms.amount = leaf.updatedOutputAmount
            /\ terms = [OwnTerms(r) EXCEPT !.amount = terms.amount]
      BY DEF OwnTerms
    <3>3. [leaf EXCEPT !.chainId = ChainId] = LeafOf(r, leaf.updatedOutputAmount)
      BY ArgumentAssumption DEF LeafOf, V3SlowFill
    <3> HIDE DEF r, terms
    <3> QED BY <3>1, <3>2, <3>3 DEF TermsAgreed
  <2>3. FillBy(sender, r, terms, ZeroAddress, TRUE, funds, TRUE)
    BY <1>6, <2>2 DEF ExecuteV3SlowRelayLeaf, FillBy
  <2>4. r.outputToken \in Token /\ native \in Nat
    BY <2>1, ArgumentAssumption DEF V3RelayData, TypeOK
  <2>5. funds \in [Token -> Nat] BY <2>4, HookType
  <2>6. ZeroAddress \in Address BY AddressAssumption
  <2> HIDE DEF r, terms, funds
  <2> QED BY <2>1, <2>3, <2>5, <2>6
<1>7. ASSUME NEW sender \in Address, NEW b \in BundleId, NEW leaf \in RefundLeaf,
             NEW value \in MsgValue, ExecuteRelayerRefundLeaf(sender, b, leaf, value)
      PROVE  Same
  BY <1>7 DEF ExecuteRelayerRefundLeaf
<1>8. CASE EnvironmentStep
  BY <1>8 DEF EnvironmentStep, SignUpdate, RevokeUpdate, ReceiveNative,
     TokensArrive, Tick
<1> QED
  BY <1>1, <1>2, <1>3, <1>4, <1>5, <1>6, <1>7, <1>8 DEF Next, FillStep

FillInv == FilledExactlyOnce /\ CallbackSeesFilled /\ LockMatchesStack

LEMMA InitFillInv == Init => FillInv
  BY DEF Init, FillInv, FilledExactlyOnce, CallbackSeesFilled, LockMatchesStack

LEMMA FillKeepsFillInv ==
  ASSUME TypeOK, FillInv, NEW sender \in Address, NEW r \in RelayData,
         NEW terms \in Terms, NEW relayer \in Address,
         NEW isSlowFill \in BOOLEAN, NEW funds \in [Token -> Nat],
         NEW guarded \in BOOLEAN,
         FillBy(sender, r, terms, relayer, isSlowFill, funds, guarded)
  PROVE  FillInv'
<1> DEFINE f == [relay |-> r, guarded |-> guarded]
<1> USE DEF FillBy
<1>1. /\ fillStatuses[r] # "Filled"
      /\ fillStatuses' = [fillStatuses EXCEPT ![r] = "Filled"]
  BY DEF FillRelayV3, MarkFilled
<1>2. PICK e : fillEvents' = [fillEvents EXCEPT ![r] = Append(fillEvents[r], e)]
  BY DEF FillRelayV3
<1>3. \/ stack' = stack /\ entered' = entered
      \/ stack' = Append(stack, f) /\ entered' = (entered \/ guarded)
  BY DEF FillRelayV3, TypeOK
<1>4. FilledExactlyOnce'
  <2>1. fillEvents[r] \in Seq(FillEvent) BY DEF TypeOK
  <2>2. Len(fillEvents[r]) = 0 BY <1>1 DEF FillInv, FilledExactlyOnce
  <2>3. Len(Append(fillEvents[r], e)) = 1 BY <2>1, <2>2
  <2> QED BY <1>1, <1>2, <2>3 DEF FillInv, FilledExactlyOnce, TypeOK
<1>5. stack \in Seq(Frame) /\ f \in Frame BY DEF TypeOK, Frame
<1>6. ASSUME stack' = Append(stack, f)
      PROVE  /\ DOMAIN stack' = DOMAIN stack \cup {Len(stack) + 1}
             /\ Len(stack) + 1 \notin DOMAIN stack
             /\ \A i \in DOMAIN stack : stack'[i] = stack[i]
             /\ stack'[Len(stack) + 1] = f
  BY <1>5, <1>6
<1>7. CallbackSeesFilled'
  <2>1. CASE stack' = stack
    BY <1>1, <1>5, <2>1 DEF FillInv, CallbackSeesFilled, TypeOK, Frame
  <2>2. CASE stack' = Append(stack, f)
    BY <1>1, <1>5, <1>6, <2>2, SMTT(30) DEF FillInv, CallbackSeesFilled, TypeOK, Frame
  <2> QED BY <1>3, <2>1, <2>2
<1>8. LockMatchesStack'
  <2>1. CASE stack' = stack /\ entered' = entered
    BY <2>1 DEF FillInv, LockMatchesStack
  <2>2. CASE stack' = Append(stack, f) /\ entered' = (entered \/ guarded)
    <3>1. guarded => ~entered BY DEF NonReentrant
    <3>2. f.guarded = guarded OBVIOUS
    <3> HIDE DEF f
    <3> QED BY <1>6, <2>2, <3>1, <3>2 DEF FillInv, LockMatchesStack
  <2> QED BY <1>3, <2>1, <2>2
<1> QED BY <1>4, <1>7, <1>8 DEF FillInv

LEMMA NextFillInv == TypeOK /\ FillInv /\ [Next]_vars => FillInv'
<1> SUFFICES ASSUME TypeOK, FillInv, [Next]_vars PROVE FillInv' OBVIOUS
<1>1. CASE UNCHANGED <<fillVars, callVars, slowFillRequests>>
  BY <1>1 DEF FillInv, FilledExactlyOnce, CallbackSeesFilled, LockMatchesStack
<1>2. ASSUME NEW sender \in Address, NEW r \in RelayData,
             RequestV3SlowFill(sender, r)
      PROVE  FillInv'
  <2>1. /\ fillStatuses[r] = "Unfilled"
        /\ fillStatuses' = [fillStatuses EXCEPT ![r] = "RequestedSlowFill"]
        /\ UNCHANGED <<fillEvents, entered, stack>>
    BY <1>2 DEF RequestV3SlowFill
  <2>2. FilledExactlyOnce' BY <2>1 DEF FillInv, FilledExactlyOnce, TypeOK
  <2>3. CallbackSeesFilled'
    BY <2>1 DEF FillInv, CallbackSeesFilled, TypeOK, Frame
  <2>4. LockMatchesStack' BY <2>1 DEF FillInv, LockMatchesStack
  <2> QED BY <2>2, <2>3, <2>4 DEF FillInv
<1>3. CASE HandlerReturns
  <2>1. /\ stack # <<>> /\ stack' = Front(stack)
        /\ entered' = (entered /\ ~Last(stack).guarded)
        /\ UNCHANGED <<fillStatuses, fillEvents>>
    BY <1>3 DEF HandlerReturns
  <2>2. /\ DOMAIN stack = DOMAIN stack' \cup {Len(stack)}
        /\ Len(stack) \notin DOMAIN stack'
        /\ \A i \in DOMAIN stack' : stack'[i] = stack[i]
        /\ Last(stack) = stack[Len(stack)]
    <3>1. stack \in Seq(Frame) BY DEF TypeOK
    <3>2. /\ Front(stack) \in Seq(Frame) /\ Len(Front(stack)) = Len(stack) - 1
          /\ \A i \in 1..(Len(stack) - 1) : Front(stack)[i] = stack[i]
          /\ Last(stack) = stack[Len(stack)] /\ Len(stack) \in Nat \ {0}
      BY <2>1, <3>1, FrontFacts
    <3> QED BY <2>1, <3>1, <3>2
  <2>3. FilledExactlyOnce' BY <2>1 DEF FillInv, FilledExactlyOnce
  <2>4. CallbackSeesFilled' BY <2>1, <2>2 DEF FillInv, CallbackSeesFilled
  <2>5. LockMatchesStack' BY <2>1, <2>2 DEF FillInv, LockMatchesStack
  <2> QED BY <2>3, <2>4, <2>5 DEF FillInv
<1> QED BY <1>1, <1>2, <1>3, StepsOfFills, FillKeepsFillInv

LEMMA FillInvariant == Spec => [](TypeOK /\ FillInv)
<1>1. Init => TypeOK /\ FillInv BY InitTypeOK, InitFillInv
<1>2. (TypeOK /\ FillInv) /\ [Next]_vars => (TypeOK /\ FillInv)'
  BY NextTypeOK, NextFillInv
<1> QED BY <1>1, <1>2, PTL DEF Spec

\* No relay is ever filled twice, for any number of relays, callers and nested
\* callbacks, although fillV3Relay takes no lock.
THEOREM RelaysFilledOnce == Spec => []FilledExactlyOnce
<1>1. FillInv => FilledExactlyOnce BY DEF FillInv
<1> QED BY <1>1, FillInvariant, PTL

\* A handler that is called back always finds its own relay filled.
THEOREM EffectsBeforeInteraction == Spec => []CallbackSeesFilled
<1>1. FillInv => CallbackSeesFilled BY DEF FillInv
<1> QED BY <1>1, FillInvariant, PTL

\* The lock is held exactly while one locked call waits for its callback.
THEOREM LockIsSound == Spec => []LockMatchesStack
<1>1. FillInv => LockMatchesStack BY DEF FillInv
<1> QED BY <1>1, FillInvariant, PTL

\* As long as a relay has not expired, the time still fits in 32 bits.
LEMMA U32Identity ==
  ASSUME NEW t \in Nat, NEW d \in 0..MaxUint32, t <= d
  PROVE  U32(t) = t
<1>1. t \in 0..MaxUint32 BY NumberAssumption
<1>2. \A m \in Nat : t \in 0..m => t % (m + 1) = t OBVIOUS
<1> QED BY <1>1, <1>2, NumberAssumption DEF U32

LEMMA NextFillsInWindow == TypeOK /\ FillsInWindow /\ [Next]_vars => FillsInWindow'
<1> SUFFICES ASSUME TypeOK, FillsInWindow, [Next]_vars PROVE FillsInWindow' OBVIOUS
<1>1. CASE UNCHANGED fillEvents BY <1>1 DEF FillsInWindow
<1>2. ASSUME NEW sender \in Address, NEW r \in RelayData, NEW terms \in Terms,
             NEW relayer \in Address, NEW isSlowFill \in BOOLEAN,
             NEW funds \in [Token -> Nat], NEW guarded \in BOOLEAN,
             FillBy(sender, r, terms, relayer, isSlowFill, funds, guarded)
      PROVE  FillsInWindow'
  <2> DEFINE e == NewFillEvent(sender, r, terms, relayer, isSlowFill)
  <2>1. /\ fillEvents' = [fillEvents EXCEPT ![r] = Append(fillEvents[r], e)]
        /\ e.at = now /\ e.relayer = relayer
        /\ e.fillType = FillTypeOf(r, isSlowFill)
    BY <1>2 DEF FillBy, FillRelayV3, NewFillEvent
  <2> HIDE DEF e
  <2>2. /\ r.fillDeadline \in 0..MaxUint32 /\ r.exclusivityDeadline \in 0..MaxUint32
        /\ now \in Nat /\ now <= r.fillDeadline
    BY <1>2, ArgumentAssumption DEF V3RelayData, TypeOK, FillBy, FillRelayV3
  <2>3. U32(now) = now BY <2>2, U32Identity
  <2>4. \/ e.fillType = "SlowFill" \/ now > r.exclusivityDeadline
        \/ relayer = r.exclusiveRelayer
    <3>1. CASE isSlowFill BY <2>1, <3>1 DEF FillTypeOf
    <3>2. CASE ~isSlowFill
      <4>1. MayFill(sender, r) /\ relayer = sender BY <1>2, <3>2 DEF FillBy
      <4> QED BY <2>2, <2>3, <4>1, NumberAssumption DEF MayFill, FillIsExclusive
    <3> QED BY <3>1, <3>2
  <2>5. fillEvents[r] \in Seq(FillEvent) BY DEF TypeOK
  <2>6. /\ DOMAIN Append(fillEvents[r], e) = DOMAIN fillEvents[r] \cup {Len(fillEvents[r]) + 1}
        /\ \A i \in DOMAIN fillEvents[r] : Append(fillEvents[r], e)[i] = fillEvents[r][i]
        /\ Append(fillEvents[r], e)[Len(fillEvents[r]) + 1] = e
    BY <2>5
  <2> SUFFICES ASSUME NEW q \in RelayData, NEW i \in DOMAIN fillEvents'[q]
               PROVE  LET x == fillEvents'[q][i] IN
                      /\ x.at <= q.fillDeadline
                      /\ x.fillType = "SlowFill" \/ x.at > q.exclusivityDeadline
                                                 \/ x.relayer = q.exclusiveRelayer
    BY DEF FillsInWindow
  <2>7. CASE q # r \/ i \in DOMAIN fillEvents[r]
    <3>1. i \in DOMAIN fillEvents[q] /\ fillEvents'[q][i] = fillEvents[q][i]
      BY <2>1, <2>6, <2>7 DEF TypeOK
    <3> QED BY <3>1 DEF FillsInWindow
  <2>8. CASE q = r /\ i \notin DOMAIN fillEvents[r]
    <3>1. fillEvents'[q][i] = e BY <2>1, <2>6, <2>8 DEF TypeOK
    <3> QED BY <2>1, <2>2, <2>4, <2>8, <3>1
  <2> QED BY <2>7, <2>8
<1>3. ASSUME NEW sender \in Address, NEW r \in RelayData, RequestV3SlowFill(sender, r)
      PROVE  FillsInWindow'
  BY <1>1, <1>3 DEF RequestV3SlowFill
<1>4. CASE HandlerReturns BY <1>1, <1>4 DEF HandlerReturns
<1> QED BY <1>1, <1>2, <1>3, <1>4, StepsOfFills

\* No relay is filled after its deadline, nor by another relayer while it is
\* exclusive; casting the time to 32 bits opens no gap, whatever the deadlines.
THEOREM FillsStayInWindow == Spec => []FillsInWindow
<1>1. Init => FillsInWindow BY DEF Init, FillsInWindow
<1>2. (TypeOK /\ FillsInWindow) /\ [Next]_vars => (TypeOK /\ FillsInWindow)'
  BY NextTypeOK, NextFillsInWindow
<1> QED BY <1>1, <1>2, InitTypeOK, PTL DEF Spec

-----------------------------------------------------------------------------
(* What a fill records *)

\* A fill adds its one event to the relay's log and touches no other event.
LEMMA FillAppends ==
  ASSUME TypeOK, NEW sender \in Address, NEW r \in RelayData,
         NEW terms \in Terms, NEW relayer \in Address,
         NEW isSlowFill \in BOOLEAN, NEW funds \in [Token -> Nat],
         NEW guarded \in BOOLEAN,
         FillBy(sender, r, terms, relayer, isSlowFill, funds, guarded),
         NEW e, e = NewFillEvent(sender, r, terms, relayer, isSlowFill)
  PROVE  /\ fillStatuses[r] # "Filled"
         /\ fillStatuses' = [fillStatuses EXCEPT ![r] = "Filled"]
         /\ Last(fillEvents'[r]) = e
         /\ \A q \in RelayData : \A i \in DOMAIN fillEvents'[q] :
              \/ i \in DOMAIN fillEvents[q] /\ fillEvents'[q][i] = fillEvents[q][i]
              \/ q = r /\ fillEvents'[q][i] = e
<1>1. /\ fillStatuses[r] # "Filled"
      /\ fillStatuses' = [fillStatuses EXCEPT ![r] = "Filled"]
  BY DEF FillBy, FillRelayV3, MarkFilled
<1>2. fillEvents' = [fillEvents EXCEPT ![r] = Append(fillEvents[r], e)]
  BY DEF FillBy, FillRelayV3, NewFillEvent
<1>3. e \in FillEvent
  BY DEF NewFillEvent, FillEvent, FillTypeOf, FillType, TypeOK, Terms
<1>4. fillEvents[r] \in Seq(FillEvent) BY DEF TypeOK
<1>5. /\ Last(Append(fillEvents[r], e)) = e
      /\ DOMAIN Append(fillEvents[r], e) = DOMAIN fillEvents[r] \cup {Len(fillEvents[r]) + 1}
      /\ \A i \in DOMAIN fillEvents[r] : Append(fillEvents[r], e)[i] = fillEvents[r][i]
      /\ Append(fillEvents[r], e)[Len(fillEvents[r]) + 1] = e
  BY <1>3, <1>4, AppendFacts
<1>6. /\ fillEvents'[r] = Append(fillEvents[r], e)
      /\ \A q \in RelayData : q # r => fillEvents'[q] = fillEvents[q]
  BY <1>2 DEF TypeOK
<1> QED BY <1>1, <1>5, <1>6

LEMMA StepsOfTime ==
  ASSUME [Next]_vars
  PROVE  now' = now \/ (now < MaxTime /\ now' = now + 1)
<1>1. CASE UNCHANGED vars BY <1>1 DEF vars
<1>2. ASSUME NEW sender \in Address, AdminStep(sender) PROVE now' = now
  BY <1>2 DEF AdminStep, PauseDeposits, PauseFills, SetCrossDomainAdmin,
     SetWithdrawalRecipient, SetEnableRoute, RelayRootBundle,
     EmergencyDeleteRootBundle, AdminRemoveFunds, TransferOwnership
<1>3. ASSUME NEW sender \in Address, DepositStep(sender) PROVE now' = now
  BY <1>3, ZenonT(60) DEF DepositStep, DepositV3, UnsafeDepositV3, DepositV3Now,
     DepositExclusive, Deposit, DepositFor, DepositV3Internal, DepositInternal,
     SpeedUpV3Deposit
<1>4. ASSUME NEW sender \in Address, FillStep(sender) PROVE now' = now
  BY <1>4 DEF FillStep, FillV3Relay, FillV3RelayWithUpdatedDeposit,
     RequestV3SlowFill, ExecuteV3SlowRelayLeaf, ExecuteRelayerRefundLeaf
<1>5. ASSUME EnvironmentStep PROVE now' = now \/ (now < MaxTime /\ now' = now + 1)
  BY <1>5 DEF EnvironmentStep, SignUpdate, RevokeUpdate, HandlerReturns,
     ReceiveNative, TokensArrive, Tick
<1> QED BY <1>1, <1>2, <1>3, <1>4, <1>5 DEF Next

Requested(r) == \E t \in 0..MaxTime : <<r, t>> \in slowFillRequests

\* Truthful fill types are not inductive alone: the status a fill reads must
\* tell whether there was a request, and it stops telling once it is Filled,
\* so no request may come after a fill (FilledExactlyOnce gives that).
FillTypeInv ==
    /\ now \in 0..MaxTime
    /\ \A r \in RelayData :
         /\ fillStatuses[r] = "Unfilled" => ~Requested(r)
         /\ fillStatuses[r] = "RequestedSlowFill" => Requested(r)
    /\ FillTypeTruthful

LEMMA NextFillTypeInv ==
  TypeOK /\ FillInv /\ FillTypeInv /\ [Next]_vars => FillTypeInv'
<1> SUFFICES ASSUME TypeOK, FillInv, FillTypeInv, [Next]_vars PROVE FillTypeInv'
  OBVIOUS
<1>1. now' \in 0..MaxTime BY StepsOfTime, BoundAssumption DEF FillTypeInv
<1>2. CASE UNCHANGED <<fillStatuses, fillEvents, slowFillRequests>>
  BY <1>1, <1>2 DEF FillTypeInv, FillTypeTruthful, Requested
<1>3. ASSUME NEW sender \in Address, NEW r \in RelayData, NEW terms \in Terms,
             NEW relayer \in Address, NEW isSlowFill \in BOOLEAN,
             NEW funds \in [Token -> Nat], NEW guarded \in BOOLEAN,
             FillBy(sender, r, terms, relayer, isSlowFill, funds, guarded)
      PROVE  FillTypeInv'
  <2>1. PICK e : e = NewFillEvent(sender, r, terms, relayer, isSlowFill) OBVIOUS
  <2>2. /\ fillStatuses[r] # "Filled"
        /\ fillStatuses' = [fillStatuses EXCEPT ![r] = "Filled"]
        /\ \A q \in RelayData : \A i \in DOMAIN fillEvents'[q] :
              \/ i \in DOMAIN fillEvents[q] /\ fillEvents'[q][i] = fillEvents[q][i]
              \/ q = r /\ fillEvents'[q][i] = e
    BY <1>3, <2>1, FillAppends
  <2>3. slowFillRequests' = slowFillRequests BY <1>3 DEF FillBy
  <2>4. \A q \in RelayData : Requested(q)' = Requested(q) BY <2>3 DEF Requested
  <2>5. e.fillType = FillTypeOf(r, isSlowFill) BY <2>1 DEF NewFillEvent
  <2>6. e.fillType # "SlowFill" => (e.fillType = "ReplacedSlowFill" <=> Requested(r))
    <3>1. fillStatuses[r] \in {"Unfilled", "RequestedSlowFill"}
      BY <2>2 DEF TypeOK, FillStatus
    <3>2. (fillStatuses[r] = "RequestedSlowFill") <=> Requested(r)
      BY <3>1 DEF FillTypeInv
    <3> QED BY <2>5, <3>2 DEF FillTypeOf
  <2>7. \A q \in RelayData :
         /\ fillStatuses'[q] = "Unfilled" => ~Requested(q)
         /\ fillStatuses'[q] = "RequestedSlowFill" => Requested(q)
    BY <2>2 DEF FillTypeInv, TypeOK
  <2>8. \A q \in RelayData : \A i \in DOMAIN fillEvents'[q] :
          fillEvents'[q][i].fillType # "SlowFill" =>
            (fillEvents'[q][i].fillType = "ReplacedSlowFill" <=> Requested(q))
    BY <2>2, <2>6 DEF FillTypeInv, FillTypeTruthful, Requested
  <2> QED BY <1>1, <2>3, <2>7, <2>8 DEF FillTypeInv, FillTypeTruthful, Requested
<1>4. ASSUME NEW sender \in Address, NEW r \in RelayData, RequestV3SlowFill(sender, r)
      PROVE  FillTypeInv'
  <2>1. /\ fillStatuses[r] = "Unfilled"
        /\ fillStatuses' = [fillStatuses EXCEPT ![r] = "RequestedSlowFill"]
        /\ slowFillRequests' = slowFillRequests \cup {<<r, now>>}
        /\ fillEvents' = fillEvents
    BY <1>4 DEF RequestV3SlowFill
  <2>2. Requested(r)' BY <2>1 DEF Requested, FillTypeInv
  <2>3. \A q \in RelayData : q # r => (Requested(q)' <=> Requested(q))
    BY <2>1 DEF Requested
  <2>4. DOMAIN fillEvents[r] = {}
    <3>1. Len(fillEvents[r]) = 0 /\ fillEvents[r] \in Seq(FillEvent)
      BY <2>1 DEF FillInv, FilledExactlyOnce, TypeOK
    <3> QED BY <3>1
  <2>5. \A q \in RelayData :
         /\ fillStatuses'[q] = "Unfilled" => ~Requested(q)'
         /\ fillStatuses'[q] = "RequestedSlowFill" => Requested(q)'
    BY <2>1, <2>2, <2>3 DEF FillTypeInv, TypeOK
  <2>6. FillTypeTruthful'
    <3> SUFFICES ASSUME NEW q \in RelayData, NEW i \in DOMAIN fillEvents'[q],
                        fillEvents'[q][i].fillType # "SlowFill"
                 PROVE  fillEvents'[q][i].fillType = "ReplacedSlowFill" <=> Requested(q)'
      BY DEF FillTypeTruthful, Requested
    <3>1. q # r BY <2>1, <2>4
    <3>2. fillEvents[q][i].fillType = "ReplacedSlowFill" <=> Requested(q)
      BY <2>1 DEF FillTypeInv, FillTypeTruthful, Requested
    <3> QED BY <2>1, <2>3, <3>1, <3>2
  <2> QED BY <1>1, <2>5, <2>6 DEF FillTypeInv
<1>5. CASE HandlerReturns BY <1>2, <1>5 DEF HandlerReturns
<1> QED BY <1>2, <1>3, <1>4, <1>5, StepsOfFills

\* A fast fill says ReplacedSlowFill exactly when a slow fill of its relay was
\* requested, for any order of requests and fills.
THEOREM FillTypesAreTruthful == Spec => []FillTypeTruthful
<1>1. Init => FillTypeInv
  BY BoundAssumption DEF Init, FillTypeInv, FillTypeTruthful, Requested
<1>2. (TypeOK /\ FillInv /\ FillTypeInv) /\ [Next]_vars
         => (TypeOK /\ FillInv /\ FillTypeInv)'
  BY NextTypeOK, NextFillInv, NextFillTypeInv
<1>3. FillTypeInv => FillTypeTruthful BY DEF FillTypeInv
<1> QED BY <1>1, <1>2, <1>3, InitTypeOK, InitFillInv, PTL DEF Spec

-----------------------------------------------------------------------------
(* The pool implements the life cycle of its relays *)

Outcomes   == [r \in RelayData |-> OutcomeOf(r)]
Deliveries == [r \in RelayData |-> Len(fillEvents[r])]

LEMMA FillDelivers ==
  ASSUME TypeOK, NEW sender \in Address, NEW r \in RelayData,
         NEW terms \in Terms, NEW relayer \in Address,
         NEW isSlowFill \in BOOLEAN, NEW funds \in [Token -> Nat],
         NEW guarded \in BOOLEAN,
         FillBy(sender, r, terms, relayer, isSlowFill, funds, guarded),
         NEW how, how = FillTypeOf(r, isSlowFill)
  PROVE  Lifecycle!Deliver(r, how)
<1> DEFINE e == NewFillEvent(sender, r, terms, relayer, isSlowFill)
<1>1. /\ fillStatuses[r] # "Filled"
      /\ fillStatuses' = [fillStatuses EXCEPT ![r] = "Filled"]
  BY DEF FillBy, FillRelayV3, MarkFilled
<1>2. /\ fillEvents' = [fillEvents EXCEPT ![r] = Append(fillEvents[r], e)]
      /\ e.fillType = how
  BY DEF FillBy, FillRelayV3, NewFillEvent
<1>3. e \in FillEvent
  BY DEF NewFillEvent, FillEvent, FillTypeOf, FillType, TypeOK, Terms
<1>4. how \in {"SlowFill", IF fillStatuses[r] = "RequestedSlowFill"
                           THEN "ReplacedSlowFill" ELSE "FastFill"}
  BY DEF FillTypeOf
<1> HIDE DEF e
<1>5. fillEvents[r] \in Seq(FillEvent) BY DEF TypeOK
<1>6. /\ Last(Append(fillEvents[r], e)) = e
      /\ Append(fillEvents[r], e) # <<>>
      /\ Len(Append(fillEvents[r], e)) = Len(fillEvents[r]) + 1
  BY <1>3, <1>5, AppendFacts
<1>7. Outcomes' = [Outcomes EXCEPT ![r] = how]
  BY <1>2, <1>6 DEF Outcomes, OutcomeOf, TypeOK
<1>8. Deliveries' = [Deliveries EXCEPT ![r] = Deliveries[r] + 1]
  BY <1>2, <1>6 DEF Deliveries, TypeOK
<1> QED
  BY <1>1, <1>4, <1>7, <1>8 DEF Lifecycle!Deliver, Outcomes, Deliveries

LEMMA StepRefines ==
  ASSUME TypeOK, [Next]_vars
  PROVE  [Lifecycle!Next]_<<fillStatuses, Outcomes, Deliveries>>
<1>1. CASE UNCHANGED <<fillVars, callVars, slowFillRequests>>
  BY <1>1 DEF Outcomes, OutcomeOf, Deliveries
<1>2. ASSUME NEW sender \in Address, NEW r \in RelayData, NEW terms \in Terms,
             NEW relayer \in Address, NEW isSlowFill \in BOOLEAN,
             NEW funds \in [Token -> Nat], NEW guarded \in BOOLEAN,
             FillBy(sender, r, terms, relayer, isSlowFill, funds, guarded)
      PROVE  Lifecycle!Next
  <2>1. FillTypeOf(r, isSlowFill) \in {"FastFill", "ReplacedSlowFill", "SlowFill"}
    BY DEF FillTypeOf
  <2>2. PICK how \in {"FastFill", "ReplacedSlowFill", "SlowFill"} :
          how = FillTypeOf(r, isSlowFill)
    BY <2>1
  <2>3. Lifecycle!Deliver(r, how) BY <1>2, <2>2, FillDelivers
  <2> QED BY <2>3 DEF Lifecycle!Next
<1>3. ASSUME NEW sender \in Address, NEW r \in RelayData, RequestV3SlowFill(sender, r)
      PROVE  Lifecycle!Next
  <2>1. /\ fillStatuses[r] = "Unfilled"
        /\ fillStatuses' = [fillStatuses EXCEPT ![r] = "RequestedSlowFill"]
        /\ fillEvents' = fillEvents
    BY <1>3 DEF RequestV3SlowFill
  <2>2. Outcomes' = Outcomes /\ Deliveries' = Deliveries
    BY <2>1 DEF Outcomes, OutcomeOf, Deliveries
  <2>3. Lifecycle!RequestSlowFill(r)
    BY <2>1, <2>2 DEF Lifecycle!RequestSlowFill, Outcomes, Deliveries
  <2> QED BY <2>3 DEF Lifecycle!Next
<1>4. CASE HandlerReturns
  BY <1>4 DEF HandlerReturns, Outcomes, OutcomeOf, Deliveries
<1> QED BY <1>1, <1>2, <1>3, <1>4, StepsOfFills

\* The pool implements RelayLifecycle: every step requests a slow fill of one
\* open relay, delivers one open relay, or leaves all relays alone.
THEOREM PoolImplementsLifecycle == Spec => RefinesLifecycle
<1>1. Init => Lifecycle!Init
  <2> SUFFICES ASSUME Init PROVE Lifecycle!Init OBVIOUS
  <2>1. /\ fillStatuses = [r \in RelayData |-> "Unfilled"]
        /\ \A r \in RelayData : fillEvents[r] = <<>>
    BY DEF Init
  <2>2. \A r \in RelayData : OutcomeOf(r) = "None" /\ Len(fillEvents[r]) = 0
    BY <2>1 DEF OutcomeOf
  <2> QED BY <2>1, <2>2 DEF Lifecycle!Init
<1>2. TypeOK /\ [Next]_vars
        => [Lifecycle!Next]_<<fillStatuses, [r \in RelayData |-> OutcomeOf(r)],
                              [r \in RelayData |-> Len(fillEvents[r])]>>
  BY StepRefines DEF Outcomes, Deliveries
<1> QED
  BY <1>1, <1>2, TypeCorrect, PTL DEF Spec, RefinesLifecycle, Lifecycle!Spec

-----------------------------------------------------------------------------
(* Root bundles *)

LEMMA StepsOfLeaves ==
  ASSUME [Next]_vars
  PROVE  \/ UNCHANGED leafVars
         \/ \E sender \in Address, b \in BundleId, leaf \in RefundLeaf,
               value \in MsgValue : ExecuteRelayerRefundLeaf(sender, b, leaf, value)
<1>1. CASE UNCHANGED vars BY <1>1 DEF vars
<1>2. ASSUME NEW sender \in Address, AdminStep(sender) PROVE UNCHANGED leafVars
  BY <1>2 DEF AdminStep, PauseDeposits, PauseFills, SetCrossDomainAdmin,
     SetWithdrawalRecipient, SetEnableRoute, RelayRootBundle,
     EmergencyDeleteRootBundle, AdminRemoveFunds, TransferOwnership
<1>3. ASSUME NEW sender \in Address, DepositStep(sender) PROVE UNCHANGED leafVars
  BY <1>3, ZenonT(60) DEF DepositStep, DepositV3, UnsafeDepositV3, DepositV3Now,
     DepositExclusive, Deposit, DepositFor, DepositV3Internal, DepositInternal,
     SpeedUpV3Deposit
<1>4. ASSUME NEW sender \in Address, FillStep(sender)
      PROVE  \/ UNCHANGED leafVars
             \/ \E b \in BundleId, leaf \in RefundLeaf, value \in MsgValue :
                   ExecuteRelayerRefundLeaf(sender, b, leaf, value)
  BY <1>4 DEF FillStep, FillV3Relay, FillV3RelayWithUpdatedDeposit,
     RequestV3SlowFill, ExecuteV3SlowRelayLeaf
<1>5. CASE EnvironmentStep
  BY <1>5 DEF EnvironmentStep, SignUpdate, RevokeUpdate, HandlerReturns,
     ReceiveNative, TokensArrive, Tick
<1> QED BY <1>1, <1>2, <1>3, <1>4, <1>5 DEF Next

LEMMA NextLeavesExecuteOnce ==
  TypeOK /\ LeavesExecuteOnce /\ [Next]_vars => LeavesExecuteOnce'
<1> SUFFICES ASSUME TypeOK, LeavesExecuteOnce, [Next]_vars
             PROVE  LeavesExecuteOnce'
  OBVIOUS
<1>1. CASE UNCHANGED leafVars BY <1>1 DEF LeavesExecuteOnce
<1>2. ASSUME NEW sender \in Address, NEW b \in BundleId, NEW leaf \in RefundLeaf,
             NEW value \in MsgValue, ExecuteRelayerRefundLeaf(sender, b, leaf, value)
      PROVE  LeavesExecuteOnce'
  <2> DEFINE old == leafEvents[b]
             new == Append(old, leaf)
  <2>1. /\ leaf.leafId \notin claimedBitmap[b]
        /\ claimedBitmap' = [claimedBitmap EXCEPT ![b] = @ \cup {leaf.leafId}]
        /\ leafEvents' = [leafEvents EXCEPT ![b] = new]
    BY <1>2 DEF ExecuteRelayerRefundLeaf, SetClaimedLeaf
  <2>2. /\ DOMAIN new = DOMAIN old \cup {Len(old) + 1}
        /\ \A i \in DOMAIN old : new[i] = old[i]
        /\ new[Len(old) + 1] = leaf
    BY DEF TypeOK
  <2>3. claimedBitmap[b] = {old[i].leafId : i \in DOMAIN old}
    BY DEF LeavesExecuteOnce
  <2>4. claimedBitmap[b] \cup {leaf.leafId} = {new[i].leafId : i \in DOMAIN new}
    <3> HIDE DEF old, new
    <3> QED BY <2>2, <2>3
  <2>5. \A i, j \in DOMAIN new : new[i].leafId = new[j].leafId => i = j
    <3>1. \A i, j \in DOMAIN old : old[i].leafId = old[j].leafId => i = j
      BY DEF LeavesExecuteOnce
    <3>2. \A i \in DOMAIN old : old[i].leafId # leaf.leafId BY <2>1, <2>3
    <3> HIDE DEF old, new
    <3> QED BY <2>2, <3>1, <3>2
  <2>6. \A c \in BundleId : c # b => /\ leafEvents'[c] = leafEvents[c]
                                     /\ claimedBitmap'[c] = claimedBitmap[c]
    BY <2>1 DEF TypeOK
  <2>7. leafEvents'[b] = new /\ claimedBitmap'[b] = claimedBitmap[b] \cup {leaf.leafId}
    BY <2>1 DEF TypeOK
  <2> HIDE DEF old, new
  <2>8. ASSUME NEW c \in BundleId
        PROVE  /\ \A i, j \in DOMAIN leafEvents'[c] :
                    leafEvents'[c][i].leafId = leafEvents'[c][j].leafId => i = j
               /\ claimedBitmap'[c] =
                    {leafEvents'[c][i].leafId : i \in DOMAIN leafEvents'[c]}
    <3>1. CASE c = b BY <2>4, <2>5, <2>7, <3>1
    <3>2. CASE c # b BY <2>6, <3>2 DEF LeavesExecuteOnce
    <3> QED BY <3>1, <3>2
  <2> QED BY <2>8 DEF LeavesExecuteOnce
<1> QED BY <1>1, <1>2, StepsOfLeaves

\* Within one root bundle no leaf id is paid twice, for any leaves and roots.
THEOREM LeavesPaidOnce == Spec => []LeavesExecuteOnce
<1>1. Init => LeavesExecuteOnce BY DEF Init, LeavesExecuteOnce
<1>2. (TypeOK /\ LeavesExecuteOnce) /\ [Next]_vars => (TypeOK /\ LeavesExecuteOnce)'
  BY NextTypeOK, NextLeavesExecuteOnce
<1> QED BY <1>1, <1>2, InitTypeOK, PTL DEF Spec

LEMMA StepsOfBundles ==
  ASSUME TypeOK, [Next]_vars
  PROVE  \/ rootBundles' = rootBundles
         \/ \E bundle \in RootBundle : rootBundles' = Append(rootBundles, bundle)
         \/ \E b \in DOMAIN rootBundles :
               rootBundles' = [rootBundles EXCEPT ![b] = EmptyBundle]
<1> DEFINE Same == rootBundles' = rootBundles
           Grow == \E bundle \in RootBundle : rootBundles' = Append(rootBundles, bundle)
           Drop == \E b \in DOMAIN rootBundles :
                     rootBundles' = [rootBundles EXCEPT ![b] = EmptyBundle]
<1>1. ASSUME UNCHANGED vars PROVE Same BY <1>1 DEF vars, bundleVars
<1>2. ASSUME NEW sender \in Address, AdminStep(sender) PROVE Same \/ Grow \/ Drop
  <2>1. ASSUME NEW bundle \in RootBundles, RelayRootBundle(sender, bundle) PROVE Grow
    BY <2>1, ArgumentAssumption DEF RelayRootBundle
  <2>2. ASSUME NEW b \in BundleId, EmergencyDeleteRootBundle(sender, b) PROVE Drop
    BY <2>2 DEF EmergencyDeleteRootBundle
  <2> HIDE DEF Grow, Drop
  <2> QED
    BY <1>2, <2>1, <2>2 DEF AdminStep, PauseDeposits, PauseFills,
       SetCrossDomainAdmin, SetWithdrawalRecipient, SetEnableRoute,
       AdminRemoveFunds, TransferOwnership, bundleVars
<1>3. ASSUME NEW sender \in Address, DepositStep(sender) PROVE Same
  BY <1>3, ZenonT(60) DEF DepositStep, DepositV3, UnsafeDepositV3, DepositV3Now,
     DepositExclusive, Deposit, DepositFor, DepositV3Internal, DepositInternal,
     SpeedUpV3Deposit, bundleVars
<1>4. ASSUME NEW sender \in Address, FillStep(sender) PROVE Same
  BY <1>4 DEF FillStep, FillV3Relay, FillV3RelayWithUpdatedDeposit,
     RequestV3SlowFill, ExecuteV3SlowRelayLeaf, ExecuteRelayerRefundLeaf, bundleVars
<1>5. ASSUME EnvironmentStep PROVE Same
  BY <1>5 DEF EnvironmentStep, SignUpdate, RevokeUpdate, HandlerReturns,
     ReceiveNative, TokensArrive, Tick, bundleVars
<1> HIDE DEF Grow, Drop
<1>6. Same \/ Grow \/ Drop BY <1>1, <1>2, <1>3, <1>4, <1>5 DEF Next
<1> QED BY <1>6 DEF Grow, Drop

\* A root bundle id is never given other roots, and a deleted one pays nothing.
THEOREM BundleIdsStayPut == Spec => BundleIdsNotReused
<1> DEFINE A == \A b \in DOMAIN rootBundles :
         /\ b \in DOMAIN rootBundles'
         /\ rootBundles'[b] \in {rootBundles[b], EmptyBundle}
         /\ rootBundles[b] = EmptyBundle => leafEvents'[b] = leafEvents[b]
<1>1. TypeOK /\ [Next]_vars => A
  <2> SUFFICES ASSUME TypeOK, [Next]_vars, NEW b \in DOMAIN rootBundles
               PROVE  /\ b \in DOMAIN rootBundles'
                      /\ rootBundles'[b] \in {rootBundles[b], EmptyBundle}
                      /\ rootBundles[b] = EmptyBundle => leafEvents'[b] = leafEvents[b]
    OBVIOUS
  <2>1. b \in DOMAIN rootBundles' /\ rootBundles'[b] \in {rootBundles[b], EmptyBundle}
    <3>1. rootBundles \in Seq(RootBundle) BY DEF TypeOK
    <3>2. ASSUME NEW bundle \in RootBundle, rootBundles' = Append(rootBundles, bundle)
          PROVE  b \in DOMAIN rootBundles' /\ rootBundles'[b] = rootBundles[b]
      BY <3>1, <3>2
    <3>3. ASSUME NEW c \in DOMAIN rootBundles,
                 rootBundles' = [rootBundles EXCEPT ![c] = EmptyBundle]
          PROVE  /\ b \in DOMAIN rootBundles'
                 /\ rootBundles'[b] \in {rootBundles[b], EmptyBundle}
      BY <3>1, <3>3
    <3> QED BY <3>2, <3>3, StepsOfBundles
  <2>2. ASSUME rootBundles[b] = EmptyBundle PROVE leafEvents'[b] = leafEvents[b]
    <3>1. CASE UNCHANGED leafVars BY <3>1
    <3>2. ASSUME NEW sender \in Address, NEW c \in BundleId,
                 NEW leaf \in RefundLeaf, NEW value \in MsgValue,
                 ExecuteRelayerRefundLeaf(sender, c, leaf, value)
          PROVE  leafEvents'[b] = leafEvents[b]
      <4>1. leaf \in rootBundles[c].relayerRefundRoot
        BY <3>2 DEF ExecuteRelayerRefundLeaf, VerifyRelayerRefund
      <4>2. c # b BY <2>2, <4>1 DEF EmptyBundle
      <4>3. leafEvents' = [leafEvents EXCEPT ![c] = Append(@, leaf)]
        BY <3>2 DEF ExecuteRelayerRefundLeaf
      <4> QED BY <4>2, <4>3 DEF TypeOK
    <3> QED BY <3>1, <3>2, StepsOfLeaves
  <2> QED BY <2>1, <2>2
<1>2. TypeOK /\ [Next]_vars => [A]_vars BY <1>1
<1> QED BY <1>2, TypeCorrect, PTL DEF Spec, BundleIdsNotReused

-----------------------------------------------------------------------------
(* Who authorised a payment *)

\* Roots and signatures in force were given by the admin and the depositors;
\* what was once given is not forgotten although it may be deleted or revoked.
AuthorityInv ==
    /\ \A b \in DOMAIN rootBundles : rootBundles[b] \in relayedBundles \cup {EmptyBundle}
    /\ signatures \subseteq everSigned

LEMMA NextAuthorityInv ==
  ASSUME TypeOK, AuthorityInv, [Next]_vars
  PROVE  /\ AuthorityInv'
         /\ relayedBundles \subseteq relayedBundles'
         /\ everSigned \subseteq everSigned'
<1> DEFINE Kept == UNCHANGED <<bundleVars, signatures, everSigned>>
           Goal == /\ AuthorityInv'
                   /\ relayedBundles \subseteq relayedBundles'
                   /\ everSigned \subseteq everSigned'
<1>1. ASSUME Kept PROVE Goal BY <1>1 DEF AuthorityInv
<1>2. ASSUME NEW sender \in Address, NEW bundle \in RootBundles,
             RelayRootBundle(sender, bundle)
      PROVE  Goal
  <2>1. /\ rootBundles' = Append(rootBundles, bundle)
        /\ relayedBundles' = relayedBundles \cup {bundle}
        /\ UNCHANGED <<signatures, everSigned>>
    BY <1>2 DEF RelayRootBundle
  <2>2. rootBundles \in Seq(RootBundle) /\ bundle \in RootBundle
    BY ArgumentAssumption DEF TypeOK
  <2>3. \A b \in DOMAIN rootBundles' :
          rootBundles'[b] = bundle \/ (b \in DOMAIN rootBundles /\ rootBundles'[b] = rootBundles[b])
    BY <2>1, <2>2
  <2> QED BY <2>1, <2>3 DEF AuthorityInv
<1>3. ASSUME NEW sender \in Address, NEW b \in BundleId,
             EmergencyDeleteRootBundle(sender, b)
      PROVE  Goal
  <2>1. /\ b \in DOMAIN rootBundles
        /\ rootBundles' = [rootBundles EXCEPT ![b] = EmptyBundle]
        /\ UNCHANGED <<relayedBundles, signatures, everSigned>>
    BY <1>3 DEF EmergencyDeleteRootBundle
  <2>2. \A c \in DOMAIN rootBundles' :
          /\ c \in DOMAIN rootBundles
          /\ rootBundles'[c] \in {rootBundles[c], EmptyBundle}
    BY <2>1
  <2> QED BY <2>1, <2>2 DEF AuthorityInv
<1>4. ASSUME NEW depositor \in Depositor, NEW details \in UpdateDetails,
             SignUpdate(depositor, details) \/ RevokeUpdate(depositor, details)
      PROVE  Goal
  <2>1. /\ UNCHANGED bundleVars
        /\ everSigned \subseteq everSigned'
        /\ signatures' \subseteq everSigned'
    BY <1>4 DEF SignUpdate, RevokeUpdate, AuthorityInv
  <2> QED BY <2>1 DEF AuthorityInv
<1>5. ASSUME NEW sender \in Address, AdminStep(sender) PROVE Goal
  <2> HIDE DEF Goal
  <2> QED BY <1>1, <1>2, <1>3, <1>5 DEF AdminStep, PauseDeposits, PauseFills,
       SetCrossDomainAdmin, SetWithdrawalRecipient, SetEnableRoute,
       AdminRemoveFunds, TransferOwnership
<1>6. ASSUME NEW sender \in Address, DepositStep(sender) PROVE Kept
  BY <1>6, ZenonT(60) DEF DepositStep, DepositV3, UnsafeDepositV3, DepositV3Now,
     DepositExclusive, Deposit, DepositFor, DepositV3Internal, DepositInternal,
     SpeedUpV3Deposit
<1>7. ASSUME NEW sender \in Address, FillStep(sender) PROVE Kept
  BY <1>7 DEF FillStep, FillV3Relay, FillV3RelayWithUpdatedDeposit,
     RequestV3SlowFill, ExecuteV3SlowRelayLeaf, ExecuteRelayerRefundLeaf
<1>8. ASSUME EnvironmentStep PROVE Goal
  <2> HIDE DEF Goal
  <2> QED BY <1>1, <1>4, <1>8 DEF EnvironmentStep, HandlerReturns,
       ReceiveNative, TokensArrive, Tick
<1>9. ASSUME UNCHANGED vars PROVE Kept BY <1>9 DEF vars
<1> HIDE DEF Goal, Kept
<1>10. Goal BY <1>1, <1>5, <1>6, <1>7, <1>8, <1>9 DEF Next
<1> QED BY <1>10 DEF Goal

LEMMA NextRefundsAuthorised ==
  ASSUME TypeOK, AuthorityInv, RefundsAuthorised, [Next]_vars
  PROVE  RefundsAuthorised'
<1>1. relayedBundles \subseteq relayedBundles' BY NextAuthorityInv
<1>2. CASE UNCHANGED leafVars BY <1>1, <1>2 DEF RefundsAuthorised
<1>3. ASSUME NEW sender \in Address, NEW b \in BundleId, NEW leaf \in RefundLeaf,
             NEW value \in MsgValue, ExecuteRelayerRefundLeaf(sender, b, leaf, value)
      PROVE  RefundsAuthorised'
  <2>1. /\ leaf.chainId = ChainId
        /\ b \in DOMAIN rootBundles
        /\ leaf \in rootBundles[b].relayerRefundRoot
        /\ leafEvents' = [leafEvents EXCEPT ![b] = Append(leafEvents[b], leaf)]
    BY <1>3 DEF ExecuteRelayerRefundLeaf, VerifyRelayerRefund
  <2>2. rootBundles[b] # EmptyBundle BY <2>1 DEF EmptyBundle
  <2>3. rootBundles[b] \in relayedBundles' BY <1>1, <2>1, <2>2 DEF AuthorityInv
  <2>4. \A i \in DOMAIN Append(leafEvents[b], leaf) :
          \/ Append(leafEvents[b], leaf)[i] = leaf
          \/ /\ i \in DOMAIN leafEvents[b]
             /\ Append(leafEvents[b], leaf)[i] = leafEvents[b][i]
    BY DEF TypeOK
  <2>5. \A c \in BundleId : \A i \in DOMAIN leafEvents'[c] :
          \/ leafEvents'[c][i] = leaf
          \/ i \in DOMAIN leafEvents[c] /\ leafEvents'[c][i] = leafEvents[c][i]
    BY <2>1, <2>4 DEF TypeOK
  <2> SUFFICES ASSUME NEW c \in BundleId, NEW i \in DOMAIN leafEvents'[c]
               PROVE  /\ leafEvents'[c][i].chainId = ChainId
                      /\ \E bundle \in relayedBundles' :
                            leafEvents'[c][i] \in bundle.relayerRefundRoot
    BY DEF RefundsAuthorised
  <2>6. CASE leafEvents'[c][i] = leaf BY <2>1, <2>3, <2>6
  <2>7. CASE i \in DOMAIN leafEvents[c] /\ leafEvents'[c][i] = leafEvents[c][i]
    BY <1>1, <2>7 DEF RefundsAuthorised
  <2> QED BY <2>5, <2>6, <2>7
<1> QED BY <1>2, <1>3, StepsOfLeaves

\* Every refund leaf ever paid was for this chain and in a root the admin
\* relayed, also after that root was deleted.
THEOREM RefundsAreAuthorised == Spec => []RefundsAuthorised
<1>1. Init => AuthorityInv /\ RefundsAuthorised
  BY DEF Init, AuthorityInv, RefundsAuthorised
<1>2. (TypeOK /\ AuthorityInv /\ RefundsAuthorised) /\ [Next]_vars
         => (TypeOK /\ AuthorityInv /\ RefundsAuthorised)'
  BY NextTypeOK, NextAuthorityInv, NextRefundsAuthorised
<1> QED BY <1>1, <1>2, InitTypeOK, PTL DEF Spec

\* What FillHonoursTerms asks of one event, given the roots relayed and the
\* updates signed so far.
Honoured(r, e, bundles, signed) ==
    IF e.fillType = "SlowFill"
    THEN /\ e.relayer = ZeroAddress
         /\ e.terms = [OwnTerms(r) EXCEPT !.amount = e.terms.amount]
         /\ e.paid = e.terms.amount
         /\ \E bundle \in bundles : LeafOf(r, e.terms.amount) \in bundle.slowRelayRoot
    ELSE /\ e.relayer = e.sender
         /\ \/ e.terms = OwnTerms(r)
            \/ \E details \in UpdateDetails :
                  /\ <<r.depositor, details>> \in signed
                  /\ details.depositId = r.depositId
                  /\ details.originChainId = r.originChainId
                  /\ details.terms = e.terms
         /\ e.paid = IF e.sender = e.terms.recipient THEN 0 ELSE e.terms.amount

LEMMA HonouredMeansSo ==
  FillHonoursTerms <=>
    \A r \in RelayData : \A i \in DOMAIN fillEvents[r] :
        Honoured(r, fillEvents[r][i], relayedBundles, everSigned)
  BY DEF FillHonoursTerms, Honoured, SignedTerms

LEMMA HonouredStays ==
  ASSUME NEW r, NEW e, NEW bundles, NEW signed, NEW bundles2, NEW signed2,
         bundles \subseteq bundles2, signed \subseteq signed2,
         Honoured(r, e, bundles, signed)
  PROVE  Honoured(r, e, bundles2, signed2)
  BY DEF Honoured

LEMMA FillIsHonoured ==
  ASSUME AuthorityInv, NEW sender \in Address, NEW r \in RelayData,
         NEW terms \in Terms, NEW relayer \in Address,
         NEW isSlowFill \in BOOLEAN, NEW funds \in [Token -> Nat],
         NEW guarded \in BOOLEAN,
         FillBy(sender, r, terms, relayer, isSlowFill, funds, guarded),
         NEW e, e = NewFillEvent(sender, r, terms, relayer, isSlowFill)
  PROVE  Honoured(r, e, relayedBundles, everSigned)
<1>1. /\ e.sender = sender /\ e.relayer = relayer /\ e.terms = terms
      /\ e.fillType = FillTypeOf(r, isSlowFill)
      /\ e.paid = IF sender = terms.recipient /\ ~isSlowFill THEN 0 ELSE terms.amount
  BY DEF NewFillEvent
<1>2. TermsAgreed(r, terms, isSlowFill) BY DEF FillBy
<1>3. CASE isSlowFill
  <2>1. e.fillType = "SlowFill" /\ e.relayer = ZeroAddress /\ e.paid = terms.amount
    BY <1>1, <1>3 DEF FillTypeOf, FillBy
  <2>2. terms = [OwnTerms(r) EXCEPT !.amount = terms.amount]
    BY <1>2, <1>3 DEF TermsAgreed
  <2>3. PICK b \in DOMAIN rootBundles :
          LeafOf(r, terms.amount) \in rootBundles[b].slowRelayRoot
    BY <1>2, <1>3 DEF TermsAgreed
  <2>4. rootBundles[b] # EmptyBundle BY <2>3 DEF EmptyBundle
  <2>5. rootBundles[b] \in relayedBundles BY <2>4 DEF AuthorityInv
  <2> QED BY <1>1, <2>1, <2>2, <2>3, <2>5 DEF Honoured
<1>4. CASE ~isSlowFill
  <2>1. e.fillType # "SlowFill" /\ relayer = sender
    BY <1>1, <1>4 DEF FillTypeOf, FillBy
  <2>2. \/ terms = OwnTerms(r)
        \/ \E details \in UpdateDetails :
              /\ <<r.depositor, details>> \in everSigned
              /\ details.depositId = r.depositId
              /\ details.originChainId = r.originChainId
              /\ details.terms = terms
    BY <1>2, <1>4 DEF TermsAgreed, AuthorityInv
  <2> QED BY <1>1, <1>4, <2>1, <2>2 DEF Honoured
<1> QED BY <1>3, <1>4

LEMMA NextFillHonoursTerms ==
  ASSUME TypeOK, AuthorityInv, FillHonoursTerms, [Next]_vars
  PROVE  FillHonoursTerms'
<1>1. relayedBundles \subseteq relayedBundles' /\ everSigned \subseteq everSigned'
  BY NextAuthorityInv
<1>2. \A q \in RelayData : \A i \in DOMAIN fillEvents[q] :
        Honoured(q, fillEvents[q][i], relayedBundles', everSigned')
  BY <1>1, HonouredMeansSo, HonouredStays
<1> DEFINE StillHonoured ==
        \A q \in RelayData : \A i \in DOMAIN fillEvents'[q] :
            Honoured(q, fillEvents'[q][i], relayedBundles', everSigned')
<1>3. StillHonoured
  <2>1. CASE UNCHANGED fillEvents BY <1>2, <2>1
  <2>2. ASSUME NEW sender \in Address, NEW r \in RelayData, NEW terms \in Terms,
               NEW relayer \in Address, NEW isSlowFill \in BOOLEAN,
               NEW funds \in [Token -> Nat], NEW guarded \in BOOLEAN,
               FillBy(sender, r, terms, relayer, isSlowFill, funds, guarded)
        PROVE  StillHonoured
    <3>1. PICK e : e = NewFillEvent(sender, r, terms, relayer, isSlowFill) OBVIOUS
    <3>2. \A q \in RelayData : \A i \in DOMAIN fillEvents'[q] :
            \/ i \in DOMAIN fillEvents[q] /\ fillEvents'[q][i] = fillEvents[q][i]
            \/ q = r /\ fillEvents'[q][i] = e
      BY <2>2, <3>1, FillAppends
    <3>3. Honoured(r, e, relayedBundles, everSigned) BY <2>2, <3>1, FillIsHonoured
    <3>4. Honoured(r, e, relayedBundles', everSigned') BY <1>1, <3>3, HonouredStays
    <3> QED BY <1>2, <3>2, <3>4
  <2>3. ASSUME NEW sender \in Address, NEW r \in RelayData, RequestV3SlowFill(sender, r)
        PROVE  UNCHANGED fillEvents
    BY <2>3 DEF RequestV3SlowFill
  <2>4. ASSUME HandlerReturns PROVE UNCHANGED fillEvents BY <2>4 DEF HandlerReturns
  <2> QED BY <2>1, <2>2, <2>3, <2>4, StepsOfFills
<1> QED BY <1>3 DEF FillHonoursTerms, Honoured, SignedTerms

\* Every fill delivers terms that the deposit, its depositor's signature or a
\* relayed leaf agreed to, in full, for any roots, updates and revocations.
THEOREM FillsHonourTerms == Spec => []FillHonoursTerms
<1>1. Init => AuthorityInv /\ FillHonoursTerms
  BY DEF Init, AuthorityInv, FillHonoursTerms
<1>2. (TypeOK /\ AuthorityInv /\ FillHonoursTerms) /\ [Next]_vars
         => (TypeOK /\ AuthorityInv /\ FillHonoursTerms)'
  BY NextTypeOK, NextAuthorityInv, NextFillHonoursTerms
<1> QED BY <1>1, <1>2, InitTypeOK, PTL DEF Spec

\* A relayer's fill leaves the balances of the pool as they were, in every
\* token and from inside any callback.
THEOREM FastFillsAreFree == Spec => FastFillsSpendNoPoolFunds
<1> DEFINE A == \A r \in RelayData :
         (/\ fillStatuses[r] # "Filled"
          /\ fillStatuses'[r] = "Filled"
          /\ Last(fillEvents'[r]).fillType # "SlowFill")
         => UNCHANGED <<balance, native>>
<1>1. TypeOK /\ [Next]_vars => A
  <2> SUFFICES ASSUME TypeOK, [Next]_vars, NEW q \in RelayData,
                      fillStatuses[q] # "Filled", fillStatuses'[q] = "Filled",
                      Last(fillEvents'[q]).fillType # "SlowFill"
               PROVE  balance' = balance /\ native' = native
    OBVIOUS
  <2>1. fillStatuses' # fillStatuses OBVIOUS
  <2>2. ASSUME NEW sender \in Address, NEW r \in RelayData, RequestV3SlowFill(sender, r)
        PROVE  FALSE
    BY <2>2 DEF RequestV3SlowFill, TypeOK
  <2>3. PICK sender \in Address, r \in RelayData, terms \in Terms,
             relayer \in Address, isSlowFill \in BOOLEAN,
             funds \in [Token -> Nat], guarded \in BOOLEAN :
             FillBy(sender, r, terms, relayer, isSlowFill, funds, guarded)
    BY <2>1, <2>2, StepsOfFills DEF HandlerReturns
  <2>4. PICK e : e = NewFillEvent(sender, r, terms, relayer, isSlowFill) OBVIOUS
  <2>5. /\ fillStatuses' = [fillStatuses EXCEPT ![r] = "Filled"]
        /\ Last(fillEvents'[r]) = e
    BY <2>3, <2>4, FillAppends
  <2>6. q = r BY <2>5 DEF TypeOK
  <2>7. ~isSlowFill BY <2>4, <2>5, <2>6 DEF NewFillEvent, FillTypeOf
  <2>8. funds = balance /\ native' = native BY <2>3, <2>7 DEF FillBy
  <2> DEFINE token == r.outputToken
             pays == IF sender = terms.recipient THEN 0 ELSE terms.amount
  <2>9. balance' = [balance EXCEPT ![token] =
          balance[token] + Pulled(token, pays, FALSE) - Sent(token, pays, FALSE)]
    BY <2>3, <2>7, <2>8 DEF FillBy, FillRelayV3, Pulled, Sent
  <2>10. token \in Token /\ pays \in Nat
    BY ArgumentAssumption DEF V3RelayData, Terms
  <2>11. balance \in [Token -> Nat] BY DEF TypeOK
  <2> HIDE DEF token, pays
  <2>12. Pulled(token, pays, FALSE) = Sent(token, pays, FALSE) /\ Sent(token, pays, FALSE) \in Nat
    BY <2>10 DEF Pulled, Sent
  <2>13. balance[token] \in Nat BY <2>10, <2>11
  <2>14. balance[token] + Pulled(token, pays, FALSE) - Sent(token, pays, FALSE) = balance[token]
    <3>1. \A x, y \in Nat : x + y - y = x OBVIOUS
    <3> QED BY <2>12, <2>13, <3>1, Zenon
  <2>15. balance' = [balance EXCEPT ![token] = balance[token]] BY <2>9, <2>14
  <2> QED BY <2>8, <2>11, <2>15
<1>2. TypeOK /\ [Next]_vars => [A]_vars BY <1>1
<1> QED BY <1>2, TypeCorrect, PTL DEF Spec, FastFillsSpendNoPoolFunds

-----------------------------------------------------------------------------
(* Deposit ids *)

\* How a deposit gets its id: from the counter, which moves on, or from a hash
\* of the caller, which leaves the counter alone.
NumberedDeposit(e) ==
    /\ depositEvents' = Append(depositEvents, e)
    /\ e.id = SafeDepositId(numberOfDeposits)
    /\ numberOfDeposits' = numberOfDeposits + 1

HashedDeposit(e) ==
    /\ depositEvents' = Append(depositEvents, e)
    /\ e.id.kind = "unsafe"
    /\ e.id.sender = e.sender
    /\ numberOfDeposits' = numberOfDeposits

\* What DepositsFillable asks of one deposit.
FillableWhenMade(e) ==
    /\ e.at <= MaxUint32 => e.at <= e.fillDeadline
    /\ e.exclusivityDeadline >= e.at /\ e.exclusivityDeadline > 0
          => e.exclusiveRelayer # ZeroAddress

LEMMA V3DepositAppends ==
  ASSUME NEW sender, NEW id, NEW a, NEW value, DepositV3Internal(sender, id, a, value)
  PROVE  \E e : /\ depositEvents' = Append(depositEvents, e)
                /\ e.id = id /\ e.sender = sender
                /\ FillableWhenMade(e)
<1> DEFINE e == [id |-> id, sender |-> sender, depositor |-> a.depositor,
          recipient |-> a.recipient, inputToken |-> a.inputToken,
          outputToken |-> a.outputToken, inputAmount |-> a.inputAmount,
          outputAmount |-> a.outputAmount,
          destinationChainId |-> a.destinationChainId,
          exclusiveRelayer |-> a.exclusiveRelayer,
          quoteTimestamp |-> a.quoteTimestamp,
          fillDeadline |-> a.fillDeadline,
          exclusivityDeadline |-> ExclusivityDeadline(a.exclusivityParameter),
          message |-> a.message, at |-> now]
<1>1. depositEvents' = Append(depositEvents, e) BY DEF DepositV3Internal
<1>2. e.id = id /\ e.sender = sender OBVIOUS
<1>3. /\ e.at = now /\ e.fillDeadline = a.fillDeadline
      /\ e.exclusivityDeadline = ExclusivityDeadline(a.exclusivityParameter)
      /\ e.exclusiveRelayer = a.exclusiveRelayer
  OBVIOUS
<1> HIDE DEF e
<1>4. /\ now <= a.fillDeadline
      /\ ExclusivityNamesRelayer(a.exclusivityParameter, a.exclusiveRelayer)
  BY DEF DepositV3Internal
<1>5. ExclusivityDeadline(a.exclusivityParameter) > 0 => a.exclusivityParameter > 0
  BY DEF ExclusivityDeadline
<1>6. FillableWhenMade(e)
  BY <1>3, <1>4, <1>5 DEF FillableWhenMade, ExclusivityNamesRelayer
<1> QED BY <1>1, <1>2, <1>6

LEMMA V3DepositIsNumbered ==
  ASSUME NEW sender, NEW a, NEW value, DepositV3(sender, a, value)
  PROVE  \E e : NumberedDeposit(e) /\ FillableWhenMade(e)
<1>1. CountDeposit /\ DepositV3Internal(sender, SafeDepositId(numberOfDeposits), a, value)
  BY DEF DepositV3
<1>2. PICK e : /\ depositEvents' = Append(depositEvents, e)
               /\ e.id = SafeDepositId(numberOfDeposits)
               /\ FillableWhenMade(e)
  BY <1>1, V3DepositAppends
<1>3. NumberedDeposit(e) BY <1>1, <1>2 DEF NumberedDeposit, CountDeposit
<1> QED BY <1>2, <1>3

LEMMA LegacyDepositIsNumbered ==
  ASSUME NEW sender, NEW depositor, NEW a, NEW value,
         DepositInternal(sender, depositor, a, value)
  PROVE  \E e : NumberedDeposit(e) /\ FillableWhenMade(e)
<1> DEFINE e == [id |-> SafeDepositId(numberOfDeposits),
          sender |-> sender, depositor |-> depositor,
          recipient |-> a.recipient, inputToken |-> a.originToken,
          outputToken |-> ZeroAddress, inputAmount |-> a.amount,
          outputAmount |-> ComputeAmountPostFees(a.amount, a.relayerFeePct),
          destinationChainId |-> a.destinationChainId,
          exclusiveRelayer |-> ZeroAddress,
          quoteTimestamp |-> a.quoteTimestamp,
          fillDeadline |-> MaxUint32, exclusivityDeadline |-> 0,
          message |-> a.message, at |-> now]
<1>1. depositEvents' = Append(depositEvents, e) /\ CountDeposit BY DEF DepositInternal
<1>2. /\ e.id = SafeDepositId(numberOfDeposits)
      /\ e.fillDeadline = MaxUint32 /\ e.exclusivityDeadline = 0
  OBVIOUS
<1> HIDE DEF e
<1>3. FillableWhenMade(e) BY <1>2 DEF FillableWhenMade
<1> QED BY <1>1, <1>2, <1>3 DEF NumberedDeposit, CountDeposit

LEMMA StepsOfDeposits ==
  ASSUME [Next]_vars
  PROVE  \/ UNCHANGED depositVars
         \/ \E e : /\ NumberedDeposit(e) \/ HashedDeposit(e)
                   /\ FillableWhenMade(e)
<1> DEFINE Same == UNCHANGED depositVars
           Added == \E e : /\ NumberedDeposit(e) \/ HashedDeposit(e)
                           /\ FillableWhenMade(e)
<1>1. ASSUME UNCHANGED vars PROVE Same BY <1>1 DEF vars
<1>2. ASSUME NEW sender \in Address, AdminStep(sender) PROVE Same
  BY <1>2 DEF AdminStep, PauseDeposits, PauseFills, SetCrossDomainAdmin,
     SetWithdrawalRecipient, SetEnableRoute, RelayRootBundle,
     EmergencyDeleteRootBundle, AdminRemoveFunds, TransferOwnership
<1>3. ASSUME NEW sender \in Address, DepositStep(sender) PROVE Same \/ Added
  <2>1. ASSUME NEW a, NEW value, DepositV3(sender, a, value) PROVE Added
    BY <2>1, V3DepositIsNumbered
  <2>2. ASSUME NEW a, NEW n, NEW value, UnsafeDepositV3(sender, a, n, value)
        PROVE  Added
    <3> DEFINE id == GetUnsafeDepositId(sender, a.depositor, n)
    <3>1. DepositV3Internal(sender, id, a, value) /\ numberOfDeposits' = numberOfDeposits
      BY <2>2 DEF UnsafeDepositV3
    <3>2. id.kind = "unsafe" /\ id.sender = sender BY DEF GetUnsafeDepositId
    <3> HIDE DEF id
    <3>3. PICK e : /\ depositEvents' = Append(depositEvents, e)
                   /\ e.id = id /\ e.sender = sender
                   /\ FillableWhenMade(e)
      BY <3>1, V3DepositAppends
    <3>4. HashedDeposit(e) BY <3>1, <3>2, <3>3 DEF HashedDeposit
    <3> QED BY <3>3, <3>4
  <2>3. ASSUME NEW a, NEW value, DepositV3Now(sender, a, value) PROVE Added
    BY <2>1, <2>3, Zenon DEF DepositV3Now
  <2>4. ASSUME NEW a, NEW value, DepositExclusive(sender, a, value) PROVE Added
    BY <2>1, <2>4 DEF DepositExclusive
  <2>5. ASSUME NEW a, NEW value, Deposit(sender, a, value) PROVE Added
    BY <2>5, LegacyDepositIsNumbered DEF Deposit
  <2>6. ASSUME NEW depositor, NEW a, NEW value, DepositFor(sender, depositor, a, value)
        PROVE  Added
    BY <2>6, LegacyDepositIsNumbered DEF DepositFor
  <2>7. ASSUME NEW depositor, NEW details, SpeedUpV3Deposit(sender, depositor, details)
        PROVE  Same
    BY <2>7 DEF SpeedUpV3Deposit
  <2> HIDE DEF Added
  <2> QED BY <1>3, <2>1, <2>2, <2>3, <2>4, <2>5, <2>6, <2>7 DEF DepositStep
<1>4. ASSUME NEW sender \in Address, FillStep(sender) PROVE Same
  BY <1>4 DEF FillStep, FillV3Relay, FillV3RelayWithUpdatedDeposit,
     RequestV3SlowFill, ExecuteV3SlowRelayLeaf, ExecuteRelayerRefundLeaf
<1>5. ASSUME EnvironmentStep PROVE Same
  BY <1>5 DEF EnvironmentStep, SignUpdate, RevokeUpdate, HandlerReturns,
     ReceiveNative, TokensArrive, Tick
<1> HIDE DEF Added
<1>6. Same \/ Added BY <1>1, <1>2, <1>3, <1>4, <1>5 DEF Next
<1> QED BY <1>6 DEF Added

\* Unambiguous ids are not inductive alone: the counter must be ahead of every
\* id it gave out, and a hashed id must carry its caller.
DepositIdInv ==
    /\ DepositIdsUnambiguous
    /\ \A i \in DOMAIN depositEvents :
          \/ /\ depositEvents[i].id.kind = "safe"
             /\ depositEvents[i].id.nonce \in 0..(numberOfDeposits - 1)
          \/ /\ depositEvents[i].id.kind = "unsafe"
             /\ depositEvents[i].id.sender = depositEvents[i].sender

\* A deposit adds one event to the log.
LEMMA DepositAppends ==
  ASSUME TypeOK, NEW e, NumberedDeposit(e) \/ HashedDeposit(e)
  PROVE  /\ DOMAIN depositEvents' = DOMAIN depositEvents \cup {Len(depositEvents) + 1}
         /\ \A i \in DOMAIN depositEvents : depositEvents'[i] = depositEvents[i]
         /\ depositEvents'[Len(depositEvents) + 1] = e
<1> DEFINE S == DepositEvent \cup {e}
<1>1. depositEvents \in Seq(DepositEvent) BY DEF TypeOK
<1>2. depositEvents \in Seq(S)
  <2>1. \A i \in 1..Len(depositEvents) : depositEvents[i] \in S BY <1>1
  <2> QED BY <1>1, <2>1
<1>3. depositEvents' = Append(depositEvents, e)
  BY DEF NumberedDeposit, HashedDeposit
<1>4. e \in S OBVIOUS
<1> HIDE DEF S
<1>5. /\ Append(depositEvents, e) \in Seq(S)
      /\ Len(Append(depositEvents, e)) = Len(depositEvents) + 1
      /\ \A i \in 1..Len(depositEvents) :
            Append(depositEvents, e)[i] = depositEvents[i]
      /\ Append(depositEvents, e)[Len(depositEvents) + 1] = e
  BY <1>2, <1>4, AppendFacts
<1> QED BY <1>2, <1>3, <1>5

LEMMA NextDepositIdInv == TypeOK /\ DepositIdInv /\ [Next]_vars => DepositIdInv'
<1> SUFFICES ASSUME TypeOK, DepositIdInv, [Next]_vars PROVE DepositIdInv' OBVIOUS
<1>1. CASE UNCHANGED depositVars
  BY <1>1 DEF depositVars, DepositIdInv, DepositIdsUnambiguous
<1>2. ASSUME NEW e, NumberedDeposit(e) \/ HashedDeposit(e) PROVE DepositIdInv'
  <2> DEFINE old == depositEvents
             new == depositEvents'
  <2>1. /\ DOMAIN new = DOMAIN old \cup {Len(old) + 1}
        /\ \A i \in DOMAIN old : new[i] = old[i]
        /\ new[Len(old) + 1] = e
    BY <1>2, DepositAppends
  <2>2. numberOfDeposits \in Nat BY NumberAssumption DEF TypeOK
  <2>3. /\ numberOfDeposits' \in {numberOfDeposits, numberOfDeposits + 1}
        /\ \/ /\ e.id.kind = "safe"
              /\ e.id.nonce = numberOfDeposits
              /\ numberOfDeposits' = numberOfDeposits + 1
           \/ e.id.kind = "unsafe" /\ e.id.sender = e.sender
    BY <1>2 DEF NumberedDeposit, HashedDeposit, SafeDepositId
  <2>4. \A i \in DOMAIN old :
          \/ old[i].id.kind = "safe" /\ old[i].id.nonce \in 0..(numberOfDeposits - 1)
          \/ old[i].id.kind = "unsafe" /\ old[i].id.sender = old[i].sender
    BY DEF DepositIdInv
  <2>5. \A i, j \in DOMAIN old : old[i].id = old[j].id =>
          \/ i = j
          \/ old[i].id.kind = "unsafe" /\ old[i].sender = old[j].sender
    BY DEF DepositIdInv, DepositIdsUnambiguous
  <2> HIDE DEF old, new
  <2>6. \A i \in DOMAIN new :
          \/ /\ new[i].id.kind = "safe"
             /\ new[i].id.nonce \in 0..(numberOfDeposits' - 1)
          \/ new[i].id.kind = "unsafe" /\ new[i].id.sender = new[i].sender
    BY <2>1, <2>2, <2>3, <2>4
  <2>7. \A i \in DOMAIN old : old[i].id = e.id =>
          old[i].id.kind = "unsafe" /\ old[i].sender = e.sender
    BY <2>2, <2>3, <2>4
  <2>8. \A i, j \in DOMAIN new : new[i].id = new[j].id =>
          \/ i = j
          \/ new[i].id.kind = "unsafe" /\ new[i].sender = new[j].sender
    BY <2>1, <2>5, <2>7
  <2> QED BY <2>6, <2>8 DEF DepositIdInv, DepositIdsUnambiguous, new
<1> QED BY <1>1, <1>2, StepsOfDeposits

\* Deposit ids stay unambiguous for any number of deposits, callers and nonces.
THEOREM DepositIdsNeverClash == Spec => []DepositIdsUnambiguous
<1>1. Init => DepositIdInv BY DEF Init, DepositIdInv, DepositIdsUnambiguous
<1>2. (TypeOK /\ DepositIdInv) /\ [Next]_vars => (TypeOK /\ DepositIdInv)'
  BY NextTypeOK, NextDepositIdInv
<1>3. DepositIdInv => DepositIdsUnambiguous BY DEF DepositIdInv
<1> QED BY <1>1, <1>2, <1>3, InitTypeOK, PTL DEF Spec

LEMMA NextDepositsFillable ==
  TypeOK /\ DepositsFillable /\ [Next]_vars => DepositsFillable'
<1> SUFFICES ASSUME TypeOK, DepositsFillable, [Next]_vars PROVE DepositsFillable'
  OBVIOUS
<1>1. \A i \in DOMAIN depositEvents : FillableWhenMade(depositEvents[i])
  BY DEF DepositsFillable, FillableWhenMade
<1>2. \A i \in DOMAIN depositEvents' : FillableWhenMade(depositEvents'[i])
  <2>1. CASE UNCHANGED depositVars BY <1>1, <2>1
  <2>2. ASSUME NEW e, NumberedDeposit(e) \/ HashedDeposit(e), FillableWhenMade(e)
        PROVE  \A i \in DOMAIN depositEvents' : FillableWhenMade(depositEvents'[i])
    BY <1>1, <2>2, DepositAppends
  <2> QED BY <2>1, <2>2, StepsOfDeposits
<1> QED BY <1>2 DEF DepositsFillable, FillableWhenMade

\* Every deposit can be filled by somebody when it is made, whichever of the
\* six deposit functions made it and whatever its exclusivity parameter.
THEOREM DepositsStartFillable == Spec => []DepositsFillable
<1>1. Init => DepositsFillable BY DEF Init, DepositsFillable
<1>2. (TypeOK /\ DepositsFillable) /\ [Next]_vars => (TypeOK /\ DepositsFillable)'
  BY NextTypeOK, NextDepositsFillable
<1> QED BY <1>1, <1>2, InitTypeOK, PTL DEF Spec

=============================================================================
