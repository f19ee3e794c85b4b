------------------------------ MODULE SpokePool ------------------------------
(***************************************************************************)
(* One SpokePool (contracts/SpokePool.sol), the contract Across puts on    *)
(* every chain.  Users lock deposits in it on the origin chain; relayers   *)
(* fill those deposits through it on the destination chain; the HubPool    *)
(* sends it Merkle roots of refunds and slow fills that anybody executes.  *)
(*                                                                         *)
(* A call that reverts changes nothing, so the steps are the calls that    *)
(* succeed and the code's reverts are the guards.  Transactions are        *)
(* serialised by the chain; the only place where one call of the contract  *)
(* is interrupted is the handleV3AcrossMessage callback of a fill, which   *)
(* hands control to the recipient.  "stack" holds the calls that are       *)
(* waiting for their callback to return.                                   *)
(*                                                                         *)
(* A relay hash is the relay data itself, a Merkle root is the set of its  *)
(* leaves (the zero root is the empty set), a bitmap is the set of its     *)
(* set bits and a message is TRUE when it is not empty.                    *)
(***************************************************************************)
EXTENDS Integers, Sequences, FiniteSets, SequencesExt

CONSTANTS
    Address,            \* accounts, the pool itself left out
    ZeroAddress,        \* address(0)
    Contract,           \* the accounts with code on this chain
    Depositor,          \* the depositors callers name and that sign updates
    Appointee,          \* the addresses the admin and the owner appoint
    Token,              \* the ERC20 tokens
    WrappedNative,      \* wrappedNativeToken
    ChainIds,           \* chain ids
    ChainId,            \* chainId() of this pool
    RelayData,          \* the V3RelayData structs callers pass
    SlowFillLeaf,       \* the V3SlowFill leaves callers pass
    RefundLeaf,         \* the RelayerRefundLeaf leaves callers pass
    RootBundles,        \* the root pairs the admin may relay
    UpdateDetails,      \* the UpdateDepositDetails structs depositors may sign
    DepositV3Args,      \* the arguments of depositV3
    DepositArgs,        \* the arguments of the legacy deposit
    Nonce,              \* the nonces of unsafeDepositV3
    MsgValue,           \* the values of native token sent with a call
    Amount              \* the amounts of tokens that arrive or are removed

CONSTANTS
    MaxUint32,          \* type(uint32).max
    DepositQuoteTimeBuffer, FillDeadlineBuffer,
    MaxExclusivityPeriod,   \* MAX_EXCLUSIVITY_PERIOD_SECONDS
    MaxTransferSize,        \* MAX_TRANSFER_SIZE
    FeeUnit,                \* 1e18, the fixed-point unit of fees
    AdminIsOwner,       \* TRUE for Ethereum_SpokePool, FALSE for the L2 pools
    WrapHookToken,      \* tokens for which _preExecuteLeafHook wraps native
    Deployments,        \* how the pool is deployed: "proxy", "implementation"
    Deployer, InitialAdmin, InitialRecipient, InitialDepositId

CONSTANTS               \* bounds of the model
    MaxTime, MaxBundles, MaxDepth, MaxDeposits, MaxBalance

VARIABLES
    owner,                  \* Ownable._owner
    crossDomainAdmin, withdrawalRecipient,
    pausedFills, pausedDeposits,
    enabledDepositRoutes,   \* the enabled <<token, chain>> pairs
    numberOfDeposits,
    rootBundles,            \* the relayed root pairs, in order
    claimedBitmap,          \* leaf ids claimed, per root bundle
    fillStatuses,
    entered,                \* ReentrancyGuard status is _ENTERED
    stack,                  \* fills whose callback is running, outermost first
    balance,                \* ERC20 balances of the pool
    native,                 \* native balance of the pool
    signatures,             \* <<depositor, details>> isValidSignatureNow accepts
    now                     \* block.timestamp

VARIABLES                   \* the event log and what auditors derive from it
    depositEvents,          \* V3FundsDeposited, in order
    fillEvents,             \* FilledV3Relay, per relay
    slowFillRequests,       \* RequestedV3SlowFill: <<relay, time>>
    leafEvents,             \* ExecutedRelayerRefundRoot, per root bundle
    relayedBundles,         \* every root pair ever relayed
    everSigned,             \* every signature a depositor ever gave
    speedUps,               \* RequestedSpeedUpV3Deposit
    arrived, removed,       \* tokens sent to the pool, and taken by the owner
    nativeReceived          \* native sent to receive() or with a leaf

adminVars  == <<owner, crossDomainAdmin, withdrawalRecipient, pausedFills,
                pausedDeposits, enabledDepositRoutes>>
depositVars == <<numberOfDeposits, depositEvents>>
bundleVars == <<rootBundles, relayedBundles>>
leafVars   == <<claimedBitmap, leafEvents>>
fillVars   == <<fillStatuses, fillEvents>>
callVars   == <<entered, stack>>
fundVars   == <<balance, native, arrived, removed, nativeReceived>>
signVars   == <<signatures, everSigned, speedUps>>
vars == <<adminVars, depositVars, bundleVars, leafVars, fillVars,
          slowFillRequests, callVars, fundVars, signVars, now>>

-----------------------------------------------------------------------------
(* Types *)

FillStatus == {"Unfilled", "RequestedSlowFill", "Filled"}
FillType   == {"FastFill", "ReplacedSlowFill", "SlowFill"}

\* What a fill delivers: updatedOutputAmount, updatedRecipient, updatedMessage.
Terms == [amount : Nat, recipient : Address, message : BOOLEAN]

\* A deposit id: the counter, or the hash of <<msg.sender, depositor, nonce>>.
DepositId == [kind : {"safe", "unsafe"}, sender : Address,
              depositor : Address, nonce : Nat]

V3RelayData ==
    [depositor : Address, recipient : Address, exclusiveRelayer : Address,
     inputToken : Token, outputToken : Token, inputAmount : Nat,
     outputAmount : Nat, originChainId : ChainIds, depositId : DepositId,
     fillDeadline : 0..MaxUint32, exclusivityDeadline : 0..MaxUint32,
     message : BOOLEAN]

V3SlowFill == [relayData : RelayData, chainId : ChainIds,
               updatedOutputAmount : Nat]

RelayerRefundLeaf ==
    [amountToReturn : Nat, chainId : ChainIds, refundAmounts : Seq(Nat),
     leafId : Nat, l2TokenAddress : Token, refundAddresses : Seq(Address)]

RootBundle == [relayerRefundRoot : SUBSET RefundLeaf,
               slowRelayRoot : SUBSET SlowFillLeaf]

UpdateDepositDetails == [depositId : DepositId, originChainId : ChainIds,
                         terms : Terms]

\* What delete rootBundles[i] leaves: two zero roots, which prove no leaf.
EmptyBundle == [relayerRefundRoot |-> {}, slowRelayRoot |-> {}]

FillEvent == [sender : Address, relayer : Address, fillType : FillType,
              terms : Terms, paid : Nat, at : Nat]

DepositEvent ==
    [id : DepositId, sender : Address, depositor : Address,
     recipient : Address, inputToken : Token,
     outputToken : Token \cup {ZeroAddress}, inputAmount : Nat,
     outputAmount : Int, destinationChainId : ChainIds,
     exclusiveRelayer : Address, quoteTimestamp : Nat,
     fillDeadline : 0..MaxUint32, exclusivityDeadline : 0..MaxUint32,
     message : BOOLEAN, at : Nat]

Frame == [relay : RelayData, guarded : BOOLEAN]

DepositV3Arg ==
    [depositor : Address, recipient : Address, inputToken : Token,
     outputToken : Token, inputAmount : Nat, outputAmount : Nat,
     destinationChainId : ChainIds, exclusiveRelayer : Address,
     quoteTimestamp : 0..MaxUint32, fillDeadline : 0..MaxUint32,
     exclusivityParameter : 0..MaxUint32, message : BOOLEAN]

DepositArg ==
    [recipient : Address, originToken : Token, amount : Nat,
     destinationChainId : ChainIds, relayerFeePct : Int,
     quoteTimestamp : 0..MaxUint32, message : BOOLEAN]

\* rootBundles[i - 1] of the code is rootBundles[i] here.
BundleId == 1..MaxBundles

\* What the loop of _distributeRelayerRefunds pays out altogether.
RefundTotal(leaf) == SumFunction(leaf.refundAmounts)

ASSUME AddressAssumption ==
    /\ ZeroAddress \in Address
    /\ Contract \subseteq Address \ {ZeroAddress}
    /\ Depositor \subseteq Address
    /\ Appointee \subseteq Address
    /\ {Deployer, InitialAdmin, InitialRecipient} \subseteq Address \ {ZeroAddress}

ASSUME TokenAssumption ==
    /\ WrappedNative \in Token
    /\ WrapHookToken \subseteq Token
    /\ ChainId \in ChainIds

ASSUME NumberAssumption ==
    /\ {MaxUint32, DepositQuoteTimeBuffer, FillDeadlineBuffer,
        MaxExclusivityPeriod, MaxTransferSize, InitialDepositId} \subseteq Nat
    /\ FeeUnit \in Nat \ {0}
    /\ InitialDepositId <= MaxUint32
    /\ MsgValue \subseteq Nat
    /\ Amount \subseteq Nat
    /\ Nonce \subseteq Nat

ASSUME ArgumentAssumption ==
    /\ RelayData \subseteq V3RelayData
    /\ SlowFillLeaf \subseteq V3SlowFill
    /\ RefundLeaf \subseteq RelayerRefundLeaf
    /\ RootBundles \subseteq RootBundle
    /\ UpdateDetails \subseteq UpdateDepositDetails
    /\ DepositV3Args \subseteq DepositV3Arg
    /\ DepositArgs \subseteq DepositArg

\* A struct of fixed-width words and a message that fits in a block: there are
\* finitely many of them to pass.
ASSUME FiniteAssumption == IsFiniteSet(RelayData)

ASSUME ModeAssumption ==
    /\ AdminIsOwner \in BOOLEAN
    /\ Deployments \subseteq {"proxy", "implementation"}

ASSUME BoundAssumption ==
    {MaxTime, MaxBundles, MaxDepth, MaxDeposits, MaxBalance} \subseteq Nat

TypeOK ==
    /\ owner \in Address
    /\ crossDomainAdmin \in Address
    /\ withdrawalRecipient \in Address
    /\ pausedFills \in BOOLEAN
    /\ pausedDeposits \in BOOLEAN
    /\ enabledDepositRoutes \subseteq Token \X ChainIds
    /\ numberOfDeposits \in 0..MaxUint32
    /\ depositEvents \in Seq(DepositEvent)
    /\ rootBundles \in Seq(RootBundle)
    /\ relayedBundles \subseteq RootBundle
    /\ claimedBitmap \in [BundleId -> SUBSET Nat]
    /\ leafEvents \in [BundleId -> Seq(RefundLeaf)]
    /\ fillStatuses \in [RelayData -> FillStatus]
    /\ fillEvents \in [RelayData -> Seq(FillEvent)]
    /\ slowFillRequests \subseteq RelayData \X Nat
    /\ entered \in BOOLEAN
    /\ stack \in Seq(Frame)
    /\ balance \in [Token -> Nat]
    /\ native \in Nat
    /\ arrived \in [Token -> Nat]
    /\ removed \in [Token -> Nat]
    /\ nativeReceived \in Nat
    /\ signatures \subseteq Address \X UpdateDetails
    /\ everSigned \subseteq Address \X UpdateDetails
    /\ speedUps \subseteq Address \X UpdateDetails
    /\ now \in Nat

-----------------------------------------------------------------------------
(* Deployment *)

\* Ownable's constructor runs in the implementation's storage only, so behind
\* a proxy nobody owns the pool.  Used directly, the implementation has an
\* owner but its initializers are disabled.
Init ==
    /\ \E d \in Deployments :
         IF d = "proxy"
         THEN /\ owner = ZeroAddress
              /\ crossDomainAdmin = InitialAdmin
              /\ withdrawalRecipient = InitialRecipient
              /\ numberOfDeposits = InitialDepositId
         ELSE /\ owner = Deployer
              /\ crossDomainAdmin = ZeroAddress
              /\ withdrawalRecipient = ZeroAddress
              /\ numberOfDeposits = 0
    /\ pausedFills = FALSE
    /\ pausedDeposits = FALSE
    /\ enabledDepositRoutes = {}
    /\ rootBundles = <<>>
    /\ relayedBundles = {}
    /\ claimedBitmap = [b \in BundleId |-> {}]
    /\ leafEvents = [b \in BundleId |-> <<>>]
    /\ fillStatuses = [r \in RelayData |-> "Unfilled"]
    /\ fillEvents = [r \in RelayData |-> <<>>]
    /\ slowFillRequests = {}
    /\ entered = FALSE
    /\ stack = <<>>
    /\ balance = [t \in Token |-> 0]
    /\ arrived = [t \in Token |-> 0]
    /\ removed = [t \in Token |-> 0]
    /\ native = 0
    /\ nativeReceived = 0
    /\ signatures = {}
    /\ everSigned = {}
    /\ speedUps = {}
    /\ depositEvents = <<>>
    /\ now = 0

-----------------------------------------------------------------------------
(* Who may call *)

\* While a callback runs only contracts act: the transaction is not over.
CanCall(sender) ==
    /\ sender # ZeroAddress
    /\ stack = <<>> \/ sender \in Contract

NonReentrant == ~entered

\* _requireAdminSender: the owner on Ethereum; on an L2 the cross-domain admin,
\* whose message anybody may deliver, also from inside a callback.
OnlyAdmin(sender) ==
    IF AdminIsOwner
    THEN CanCall(sender) /\ sender = owner
    ELSE sender # ZeroAddress /\ sender = crossDomainAdmin

OnlyOwner(sender) == CanCall(sender) /\ sender = owner

-----------------------------------------------------------------------------
(* Admin functions *)

PauseDeposits(sender, pause) ==
    /\ OnlyAdmin(sender)
    /\ NonReentrant
    /\ pausedDeposits' = pause
    /\ UNCHANGED <<owner, crossDomainAdmin, withdrawalRecipient, pausedFills,
                   enabledDepositRoutes>>
    /\ UNCHANGED <<depositVars, bundleVars, leafVars, fillVars,
                   slowFillRequests, callVars, fundVars, signVars, now>>

PauseFills(sender, pause) ==
    /\ OnlyAdmin(sender)
    /\ NonReentrant
    /\ pausedFills' = pause
    /\ UNCHANGED <<owner, crossDomainAdmin, withdrawalRecipient,
                   pausedDeposits, enabledDepositRoutes>>
    /\ UNCHANGED <<depositVars, bundleVars, leafVars, fillVars,
                   slowFillRequests, callVars, fundVars, signVars, now>>

SetCrossDomainAdmin(sender, newCrossDomainAdmin) ==
    /\ OnlyAdmin(sender)
    /\ NonReentrant
    /\ newCrossDomainAdmin # ZeroAddress
    /\ crossDomainAdmin' = newCrossDomainAdmin
    /\ UNCHANGED <<owner, withdrawalRecipient, pausedFills, pausedDeposits,
                   enabledDepositRoutes>>
    /\ UNCHANGED <<depositVars, bundleVars, leafVars, fillVars,
                   slowFillRequests, callVars, fundVars, signVars, now>>

SetWithdrawalRecipient(sender, newWithdrawalRecipient) ==
    /\ OnlyAdmin(sender)
    /\ NonReentrant
    /\ newWithdrawalRecipient # ZeroAddress
    /\ withdrawalRecipient' = newWithdrawalRecipient
    /\ UNCHANGED <<owner, crossDomainAdmin, pausedFills, pausedDeposits,
                   enabledDepositRoutes>>
    /\ UNCHANGED <<depositVars, bundleVars, leafVars, fillVars,
                   slowFillRequests, callVars, fundVars, signVars, now>>

SetEnableRoute(sender, originToken, destinationChainId, enabled) ==
    /\ OnlyOwner(sender)
    /\ NonReentrant
    /\ enabledDepositRoutes' =
         IF enabled
         THEN enabledDepositRoutes \cup {<<originToken, destinationChainId>>}
         ELSE enabledDepositRoutes \ {<<originToken, destinationChainId>>}
    /\ UNCHANGED <<owner, crossDomainAdmin, withdrawalRecipient, pausedFills,
                   pausedDeposits>>
    /\ UNCHANGED <<depositVars, bundleVars, leafVars, fillVars,
                   slowFillRequests, callVars, fundVars, signVars, now>>

\* Mutation: the slot of a deleted root bundle is used again.
RelayRootBundleIntoFreeSlot(sender, bundle) ==
    /\ OnlyAdmin(sender)
    /\ NonReentrant
    /\ \E b \in BundleId :
         /\ b = Len(rootBundles) + 1
              \/ (b \in DOMAIN rootBundles /\ rootBundles[b] = EmptyBundle)
         /\ rootBundles' = [i \in DOMAIN rootBundles \cup {b} |->
                              IF i = b THEN bundle ELSE rootBundles[i]]
    /\ relayedBundles' = relayedBundles \cup {bundle}
    /\ UNCHANGED <<adminVars, depositVars, leafVars, fillVars,
                   slowFillRequests, callVars, fundVars, signVars, now>>

RelayRootBundle(sender, bundle) ==
    /\ OnlyAdmin(sender)
    /\ NonReentrant
    /\ Len(rootBundles) < MaxBundles
    /\ rootBundles' = Append(rootBundles, bundle)
    /\ relayedBundles' = relayedBundles \cup {bundle}
    /\ UNCHANGED <<adminVars, depositVars, leafVars, fillVars,
                   slowFillRequests, callVars, fundVars, signVars, now>>

\* Deleting the struct leaves the bitmap mapping and the array length alone.
EmergencyDeleteRootBundle(sender, rootBundleId) ==
    /\ OnlyAdmin(sender)
    /\ NonReentrant
    /\ rootBundleId \in DOMAIN rootBundles
    /\ rootBundles' = [rootBundles EXCEPT ![rootBundleId] = EmptyBundle]
    /\ UNCHANGED <<adminVars, depositVars, relayedBundles, leafVars, fillVars,
                   slowFillRequests, callVars, fundVars, signVars, now>>

\* The native branch comes after a safeTransfer on address(0), which reverts.
AdminRemoveFunds(sender, amount, token) ==
    /\ OnlyOwner(sender)
    /\ balance[token] >= amount
    /\ balance' = [balance EXCEPT ![token] = @ - amount]
    /\ removed' = [removed EXCEPT ![token] = @ + amount]
    /\ UNCHANGED <<native, arrived, nativeReceived>>
    /\ UNCHANGED <<adminVars, depositVars, bundleVars, leafVars, fillVars,
                   slowFillRequests, callVars, signVars, now>>

\* OpenZeppelin's Ownable; renounceOwnership is the case of ZeroAddress.
TransferOwnership(sender, newOwner) ==
    /\ OnlyOwner(sender)
    /\ owner' = newOwner
    /\ UNCHANGED <<crossDomainAdmin, withdrawalRecipient, pausedFills,
                   pausedDeposits, enabledDepositRoutes>>
    /\ UNCHANGED <<depositVars, bundleVars, leafVars, fillVars,
                   slowFillRequests, callVars, fundVars, signVars, now>>

-----------------------------------------------------------------------------
(* Deposits *)

\* The cast uint32(x).
U32(x) == x % (MaxUint32 + 1)

RouteEnabled(token, chain) == <<token, chain>> \in enabledDepositRoutes

\* now - quoteTimestamp is checked arithmetic: a quote of the future reverts.
QuoteIsRecent(quoteTimestamp) ==
    /\ quoteTimestamp <= now
    /\ now - quoteTimestamp <= DepositQuoteTimeBuffer

SafeDepositId(n) == [kind |-> "safe", sender |-> ZeroAddress,
                     depositor |-> ZeroAddress, nonce |-> n]

\* Mutation: the caller is left out of the hash.
GetUnsafeDepositIdWithoutSender(msgSender, depositor, nonce) ==
    [kind |-> "unsafe", sender |-> ZeroAddress, depositor |-> depositor,
     nonce |-> nonce]

GetUnsafeDepositId(msgSender, depositor, nonce) ==
    [kind |-> "unsafe", sender |-> msgSender, depositor |-> depositor,
     nonce |-> nonce]

WrapsValue(token, value) == token = WrappedNative /\ value > 0

\* Mutation: the value sent for wrapped native is kept and not wrapped.
TakeInputUnwrapped(token, amount, value) ==
    /\ WrapsValue(token, value) => value = amount
    /\ balance' = IF WrapsValue(token, value) THEN balance
                  ELSE [balance EXCEPT ![token] = @ + amount]
    /\ native' = native + value
    /\ UNCHANGED <<arrived, removed, nativeReceived>>

\* The pool wraps msg.value or pulls the token from the caller.  Value that
\* comes with a pulled token stays in the pool as native balance.
TakeInput(token, amount, value) ==
    /\ WrapsValue(token, value) => value = amount
    /\ balance' = [balance EXCEPT ![token] = @ + amount]
    /\ native' = IF WrapsValue(token, value) THEN native ELSE native + value
    /\ UNCHANGED <<arrived, removed, nativeReceived>>

\* numberOfDeposits++ in checked arithmetic.
CountDeposit ==
    /\ numberOfDeposits < MaxUint32
    /\ numberOfDeposits' = numberOfDeposits + 1

\* A parameter up to MAX_EXCLUSIVITY_PERIOD_SECONDS is an offset from now.
ExclusivityDeadline(parameter) ==
    IF parameter > 0 /\ parameter <= MaxExclusivityPeriod
    THEN parameter + U32(now)
    ELSE parameter

\* Mutation: an exclusivity period may name nobody.
ExclusivityMayNameNobody(parameter, exclusiveRelayer) == TRUE

ExclusivityNamesRelayer(parameter, exclusiveRelayer) ==
    parameter > 0 => exclusiveRelayer # ZeroAddress

DepositV3Internal(sender, id, a, value) ==
    /\ RouteEnabled(a.inputToken, a.destinationChainId)
    /\ QuoteIsRecent(a.quoteTimestamp)
    /\ now <= a.fillDeadline
    /\ a.fillDeadline <= now + FillDeadlineBuffer
    /\ ExclusivityDeadline(a.exclusivityParameter) <= MaxUint32
    /\ ExclusivityNamesRelayer(a.exclusivityParameter, a.exclusiveRelayer)
    /\ ~WrapsValue(a.inputToken, value) => value = 0
    /\ TakeInput(a.inputToken, a.inputAmount, value)
    /\ depositEvents' = Append(depositEvents,
         [id |-> id, sender |-> sender, depositor |-> a.depositor,
          recipient |-> a.recipient, inputToken |-> a.inputToken,
          outputToken |-> a.outputToken, inputAmount |-> a.inputAmount,
          outputAmount |-> a.outputAmount,
          destinationChainId |-> a.destinationChainId,
          exclusiveRelayer |-> a.exclusiveRelayer,
          quoteTimestamp |-> a.quoteTimestamp,
          fillDeadline |-> a.fillDeadline,
          exclusivityDeadline |-> ExclusivityDeadline(a.exclusivityParameter),
          message |-> a.message, at |-> now])
    /\ UNCHANGED <<adminVars, bundleVars, leafVars, fillVars,
                   slowFillRequests, callVars, signVars, now>>

\* The common guards of every deposit function; MaxDeposits bounds the model.
MayDeposit(sender) ==
    /\ CanCall(sender)
    /\ NonReentrant
    /\ ~pausedDeposits
    /\ Len(depositEvents) < MaxDeposits

DepositV3(sender, a, value) ==
    /\ MayDeposit(sender)
    /\ CountDeposit
    /\ DepositV3Internal(sender, SafeDepositId(numberOfDeposits), a, value)

UnsafeDepositV3(sender, a, nonce, value) ==
    /\ MayDeposit(sender)
    /\ DepositV3Internal(sender, GetUnsafeDepositId(sender, a.depositor, nonce),
                         a, value)
    /\ UNCHANGED numberOfDeposits

\* The fillDeadline of the arguments is an offset from the current time.
DepositV3Now(sender, a, value) ==
    /\ U32(now) + a.fillDeadline <= MaxUint32
    /\ DepositV3(sender,
                 [a EXCEPT !.quoteTimestamp = U32(now),
                           !.fillDeadline = U32(now) + a.fillDeadline],
                 value)

DepositExclusive(sender, a, value) == DepositV3(sender, a, value)

ComputeAmountPostFees(amount, feesPct) ==
    (amount * (FeeUnit - feesPct)) \div FeeUnit

DepositInternal(sender, depositor, a, value) ==
    /\ RouteEnabled(a.originToken, a.destinationChainId)
    /\ 2 * a.relayerFeePct < FeeUnit
    /\ -(2 * a.relayerFeePct) < FeeUnit
    /\ a.amount <= MaxTransferSize
    /\ QuoteIsRecent(a.quoteTimestamp)
    /\ CountDeposit
    /\ depositEvents' = Append(depositEvents,
         [id |-> SafeDepositId(numberOfDeposits),
          sender |-> sender, depositor |-> depositor,
          recipient |-> a.recipient, inputToken |-> a.originToken,
          outputToken |-> ZeroAddress, inputAmount |-> a.amount,
          outputAmount |-> ComputeAmountPostFees(a.amount, a.relayerFeePct),
          destinationChainId |-> a.destinationChainId,
          exclusiveRelayer |-> ZeroAddress,
          quoteTimestamp |-> a.quoteTimestamp,
          fillDeadline |-> MaxUint32, exclusivityDeadline |-> 0,
          message |-> a.message, at |-> now])
    /\ TakeInput(a.originToken, a.amount, value)
    /\ UNCHANGED <<adminVars, bundleVars, leafVars, fillVars,
                   slowFillRequests, callVars, signVars, now>>

\* deposit is depositFor with the caller as depositor.
Deposit(sender, a, value) ==
    MayDeposit(sender) /\ DepositInternal(sender, sender, a, value)

DepositFor(sender, depositor, a, value) ==
    MayDeposit(sender) /\ DepositInternal(sender, depositor, a, value)

-----------------------------------------------------------------------------
(* Signed updates of a deposit *)

\* A depositor signs an update, or (an EIP-1271 contract) takes it back.
SignUpdate(depositor, details) ==
    /\ signatures' = signatures \cup {<<depositor, details>>}
    /\ everSigned' = everSigned \cup {<<depositor, details>>}
    /\ UNCHANGED speedUps
    /\ UNCHANGED <<adminVars, depositVars, bundleVars, leafVars, fillVars,
                   slowFillRequests, callVars, fundVars, now>>

RevokeUpdate(depositor, details) ==
    /\ depositor \in Contract
    /\ signatures' = signatures \ {<<depositor, details>>}
    /\ UNCHANGED <<everSigned, speedUps>>
    /\ UNCHANGED <<adminVars, depositVars, bundleVars, leafVars, fillVars,
                   slowFillRequests, callVars, fundVars, now>>

\* Mutation: the signature is not checked.
VerifyUpdateSkipped(depositor, details) == TRUE

\* _verifyUpdateV3DepositMessage
VerifyUpdate(depositor, details) == <<depositor, details>> \in signatures

SpeedUpV3Deposit(sender, depositor, details) ==
    /\ CanCall(sender)
    /\ NonReentrant
    /\ details.originChainId = ChainId
    /\ VerifyUpdate(depositor, details)
    /\ speedUps' = speedUps \cup {<<depositor, details>>}
    /\ UNCHANGED <<signatures, everSigned>>
    /\ UNCHANGED <<adminVars, depositVars, bundleVars, leafVars, fillVars,
                   slowFillRequests, callVars, fundVars, now>>

-----------------------------------------------------------------------------
(* Fills *)

\* Mutation: the deadline itself is no longer exclusive.
FillIsExclusiveBefore(exclusivityDeadline, currentTime) ==
    exclusivityDeadline > currentTime

FillIsExclusive(exclusivityDeadline, currentTime) ==
    exclusivityDeadline >= currentTime

MayFill(sender, r) ==
    ~FillIsExclusive(r.exclusivityDeadline, U32(now)) \/ r.exclusiveRelayer = sender

\* Mutation: the event carries the status in place of the type.
FillTypeIsStatus(r, isSlowFill) ==
    IF isSlowFill THEN "SlowFill" ELSE fillStatuses[r]

\* Mutation: a requested slow fill is not noticed.
FillTypeWithoutRequest(r, isSlowFill) ==
    IF isSlowFill THEN "SlowFill" ELSE "FastFill"

FillTypeOf(r, isSlowFill) ==
    CASE isSlowFill -> "SlowFill"
      [] ~isSlowFill /\ fillStatuses[r] = "RequestedSlowFill" -> "ReplacedSlowFill"
      [] OTHER -> "FastFill"

OwnTerms(r) == [amount |-> r.outputAmount, recipient |-> r.recipient,
                message |-> r.message]

\* What passes through the pool when a fill pays: wrapped native is pulled
\* from the relayer first and then sent on (unwrapped if the recipient has no
\* code); another token goes from the relayer to the recipient directly; a
\* slow fill is paid from the pool.
PulledNothing(token, amount, isSlowFill) == 0   \* Mutation: the pool pays.

Pulled(token, amount, isSlowFill) ==
    IF token = WrappedNative /\ ~isSlowFill THEN amount ELSE 0

Sent(token, amount, isSlowFill) ==
    IF token = WrappedNative \/ isSlowFill THEN amount ELSE 0

\* Mutation: a filled relay is filled again.
MarkFilledAgain(r) ==
    fillStatuses' = [fillStatuses EXCEPT ![r] = "Filled"]

\* Mutation: a fill with a message is recorded only after the callback.
MarkFilledAfterCallback(r) ==
    /\ fillStatuses[r] # "Filled"
    /\ fillStatuses' = IF r.message THEN fillStatuses
                       ELSE [fillStatuses EXCEPT ![r] = "Filled"]

MarkFilled(r) ==
    /\ fillStatuses[r] # "Filled"
    /\ fillStatuses' = [fillStatuses EXCEPT ![r] = "Filled"]

\* _fillRelayV3, up to the callback: "funds" are the pool's token balances
\* when it is called and "guarded" says whether the caller holds the lock.
FillRelayV3(sender, r, terms, relayer, isSlowFill, funds, guarded) ==
    LET token     == r.outputToken
        selfRelay == sender = terms.recipient /\ ~isSlowFill
        pays      == IF selfRelay THEN 0 ELSE terms.amount
        left      == funds[token] + Pulled(token, pays, isSlowFill)
                                  - Sent(token, pays, isSlowFill)
        callsBack == ~selfRelay /\ terms.message /\ terms.recipient \in Contract
    IN  /\ r.fillDeadline >= now
        /\ MarkFilled(r)
        /\ fillEvents' = [fillEvents EXCEPT ![r] = Append(@,
             [sender |-> sender, relayer |-> relayer,
              fillType |-> FillTypeOf(r, isSlowFill), terms |-> terms,
              paid |-> pays, at |-> now])]
        /\ left >= 0
        /\ balance' = [funds EXCEPT ![token] = left]
        /\ callsBack => Len(stack) < MaxDepth
        /\ stack' = IF callsBack
                    THEN Append(stack, [relay |-> r, guarded |-> guarded])
                    ELSE stack
        /\ entered' = (entered \/ (callsBack /\ guarded))

\* nonReentrant and unpausedFills are commented out in the code.
FillV3Relay(sender, r) ==
    /\ CanCall(sender)
    /\ MayFill(sender, r)
    /\ FillRelayV3(sender, r, OwnTerms(r), sender, FALSE, balance, FALSE)
    /\ UNCHANGED <<native, arrived, removed, nativeReceived>>
    /\ UNCHANGED <<adminVars, depositVars, bundleVars, leafVars,
                   slowFillRequests, signVars, now>>

FillV3RelayWithUpdatedDeposit(sender, r, details) ==
    /\ CanCall(sender)
    /\ NonReentrant
    /\ ~pausedFills
    /\ MayFill(sender, r)
    /\ details.depositId = r.depositId
    /\ details.originChainId = r.originChainId
    /\ VerifyUpdate(r.depositor, details)
    /\ FillRelayV3(sender, r, details.terms, sender, FALSE, balance, TRUE)
    /\ UNCHANGED <<native, arrived, removed, nativeReceived>>
    /\ UNCHANGED <<adminVars, depositVars, bundleVars, leafVars,
                   slowFillRequests, signVars, now>>

\* Mutation: a relay that is already filled goes back to requested.
RequestV3SlowFillOfFilled(sender, r) ==
    /\ CanCall(sender)
    /\ NonReentrant
    /\ ~pausedFills
    /\ ~FillIsExclusive(r.exclusivityDeadline, U32(now))
    /\ r.fillDeadline >= U32(now)
    /\ fillStatuses[r] # "RequestedSlowFill"
    /\ fillStatuses' = [fillStatuses EXCEPT ![r] = "RequestedSlowFill"]
    /\ slowFillRequests' = slowFillRequests \cup {<<r, now>>}
    /\ UNCHANGED fillEvents
    /\ UNCHANGED <<adminVars, depositVars, bundleVars, leafVars, callVars,
                   fundVars, signVars, now>>

\* Both deadlines are compared with the time cut to 32 bits.
RequestV3SlowFill(sender, r) ==
    /\ CanCall(sender)
    /\ NonReentrant
    /\ ~pausedFills
    /\ ~FillIsExclusive(r.exclusivityDeadline, U32(now))
    /\ r.fillDeadline >= U32(now)
    /\ fillStatuses[r] = "Unfilled"
    /\ fillStatuses' = [fillStatuses EXCEPT ![r] = "RequestedSlowFill"]
    /\ slowFillRequests' = slowFillRequests \cup {<<r, now>>}
    /\ UNCHANGED fillEvents
    /\ UNCHANGED <<adminVars, depositVars, bundleVars, leafVars, callVars,
                   fundVars, signVars, now>>

-----------------------------------------------------------------------------
(* Leaves of relayed root bundles *)

\* _preExecuteLeafHook of the L2 pools wraps all native the pool holds.
HookWraps(token, held) == IF token \in WrapHookToken THEN held ELSE 0

FundsAfterHook(token, held) ==
    [balance EXCEPT ![WrappedNative] = @ + HookWraps(token, held)]

\* The leaf is proved with this chain's id in place of its own.
ExecuteV3SlowRelayLeaf(sender, rootBundleId, leaf) ==
    LET r == leaf.relayData IN
    /\ CanCall(sender)
    /\ NonReentrant
    /\ rootBundleId \in DOMAIN rootBundles
    /\ [leaf EXCEPT !.chainId = ChainId] \in rootBundles[rootBundleId].slowRelayRoot
    /\ FillRelayV3(sender, r,
                   [OwnTerms(r) EXCEPT !.amount = leaf.updatedOutputAmount],
                   ZeroAddress, TRUE, FundsAfterHook(r.outputToken, native), TRUE)
    /\ native' = native - HookWraps(r.outputToken, native)
    /\ arrived' = [arrived EXCEPT ![WrappedNative] =
                     @ + HookWraps(r.outputToken, native)]
    /\ UNCHANGED <<removed, nativeReceived>>
    /\ UNCHANGED <<adminVars, depositVars, bundleVars, leafVars,
                   slowFillRequests, signVars, now>>

\* Mutation: the bit is set without looking at it.
SetClaimedLeafUnchecked(rootBundleId, leafId) ==
    claimedBitmap' = [claimedBitmap EXCEPT ![rootBundleId] = @ \cup {leafId}]

\* _setClaimedLeaf
SetClaimedLeaf(rootBundleId, leafId) ==
    /\ leafId \notin claimedBitmap[rootBundleId]
    /\ claimedBitmap' = [claimedBitmap EXCEPT ![rootBundleId] = @ \cup {leafId}]

\* Mutation: the tokens to return are never bridged.
DistributeRelayerRefundsOnly(leaf, funds) ==
    /\ Len(leaf.refundAddresses) = Len(leaf.refundAmounts)
    /\ funds[leaf.l2TokenAddress] >= RefundTotal(leaf)
    /\ balance' = [funds EXCEPT ![leaf.l2TokenAddress] = @ - RefundTotal(leaf)]

\* _distributeRelayerRefunds pays the refunds and bridges amountToReturn to the
\* withdrawal recipient, all in the leaf's token.
DistributeRelayerRefunds(leaf, funds) ==
    LET paidOut == RefundTotal(leaf) + leaf.amountToReturn IN
    /\ Len(leaf.refundAddresses) = Len(leaf.refundAmounts)
    /\ funds[leaf.l2TokenAddress] >= paidOut
    /\ balance' = [funds EXCEPT ![leaf.l2TokenAddress] = @ - paidOut]

\* Mutation: any proof will do.
VerifyAnyRelayerRefund(rootBundleId, leaf) == TRUE

VerifyRelayerRefund(rootBundleId, leaf) ==
    leaf \in rootBundles[rootBundleId].relayerRefundRoot

ExecuteRelayerRefundLeaf(sender, rootBundleId, leaf, value) ==
    LET token == leaf.l2TokenAddress
        held  == native + value
    IN
    /\ CanCall(sender)
    /\ NonReentrant
    /\ leaf.chainId = ChainId
    /\ rootBundleId \in DOMAIN rootBundles
    /\ VerifyRelayerRefund(rootBundleId, leaf)
    /\ SetClaimedLeaf(rootBundleId, leaf.leafId)
    /\ DistributeRelayerRefunds(leaf, FundsAfterHook(token, held))
    /\ leafEvents' = [leafEvents EXCEPT ![rootBundleId] = Append(@, leaf)]
    /\ native' = held - HookWraps(token, held)
    /\ nativeReceived' = nativeReceived + value
    /\ arrived' = [arrived EXCEPT ![WrappedNative] = @ + HookWraps(token, held)]
    /\ UNCHANGED removed
    /\ UNCHANGED <<adminVars, depositVars, bundleVars, fillVars,
                   slowFillRequests, callVars, signVars, now>>

-----------------------------------------------------------------------------
(* The environment *)

\* Mutation: every return releases the lock.
HandlerReturnsUnlocking ==
    /\ stack # <<>>
    /\ stack' = Front(stack)
    /\ entered' = FALSE
    /\ UNCHANGED <<adminVars, depositVars, bundleVars, leafVars, fillVars,
                   slowFillRequests, fundVars, signVars, now>>

\* handleV3AcrossMessage returns, and with it the call that made it.  If it
\* reverts instead, everything since the call is undone: a state from before.
HandlerReturns ==
    /\ stack # <<>>
    /\ stack' = Front(stack)
    /\ entered' = (entered /\ ~Last(stack).guarded)
    /\ UNCHANGED <<adminVars, depositVars, bundleVars, leafVars, fillVars,
                   slowFillRequests, fundVars, signVars, now>>

\* receive()
ReceiveNative(value) ==
    /\ native + value <= MaxBalance
    /\ native' = native + value
    /\ nativeReceived' = nativeReceived + value
    /\ UNCHANGED <<balance, arrived, removed>>
    /\ UNCHANGED <<adminVars, depositVars, bundleVars, leafVars, fillVars,
                   slowFillRequests, callVars, signVars, now>>

\* A bridge from the HubPool, or anybody, sends tokens to the pool.
TokensArrive(token, amount) ==
    /\ balance[token] + amount <= MaxBalance
    /\ balance' = [balance EXCEPT ![token] = @ + amount]
    /\ arrived' = [arrived EXCEPT ![token] = @ + amount]
    /\ UNCHANGED <<native, removed, nativeReceived>>
    /\ UNCHANGED <<adminVars, depositVars, bundleVars, leafVars, fillVars,
                   slowFillRequests, callVars, signVars, now>>

\* Time passes between transactions only.
Tick ==
    /\ stack = <<>>
    /\ now < MaxTime
    /\ now' = now + 1
    /\ UNCHANGED <<adminVars, depositVars, bundleVars, leafVars, fillVars,
                   slowFillRequests, callVars, fundVars, signVars>>

-----------------------------------------------------------------------------

AdminStep(sender) ==
    \/ \E pause \in BOOLEAN : PauseDeposits(sender, pause)
    \/ \E pause \in BOOLEAN : PauseFills(sender, pause)
    \/ \E a \in Appointee : SetCrossDomainAdmin(sender, a)
    \/ \E a \in Appointee : SetWithdrawalRecipient(sender, a)
    \/ \E t \in Token, c \in ChainIds, enabled \in BOOLEAN :
          SetEnableRoute(sender, t, c, enabled)
    \/ \E bundle \in RootBundles : RelayRootBundle(sender, bundle)
    \/ \E b \in BundleId : EmergencyDeleteRootBundle(sender, b)
    \/ \E amount \in Amount, t \in Token : AdminRemoveFunds(sender, amount, t)
    \/ \E a \in Appointee : TransferOwnership(sender, a)

DepositStep(sender) ==
    \/ \E a \in DepositV3Args, value \in MsgValue : DepositV3(sender, a, value)
    \/ \E a \in DepositV3Args, n \in Nonce, value \in MsgValue :
          UnsafeDepositV3(sender, a, n, value)
    \/ \E a \in DepositV3Args, value \in MsgValue : DepositV3Now(sender, a, value)
    \/ \E a \in DepositV3Args, value \in MsgValue : DepositExclusive(sender, a, value)
    \/ \E a \in DepositArgs, value \in MsgValue : Deposit(sender, a, value)
    \/ \E depositor \in Depositor, a \in DepositArgs, value \in MsgValue :
          DepositFor(sender, depositor, a, value)
    \/ \E depositor \in Depositor, details \in UpdateDetails :
          SpeedUpV3Deposit(sender, depositor, details)

FillStep(sender) ==
    \/ \E r \in RelayData : FillV3Relay(sender, r)
    \/ \E r \in RelayData, details \in UpdateDetails :
          FillV3RelayWithUpdatedDeposit(sender, r, details)
    \/ \E r \in RelayData : RequestV3SlowFill(sender, r)
    \/ \E b \in BundleId, leaf \in SlowFillLeaf :
          ExecuteV3SlowRelayLeaf(sender, b, leaf)
    \/ \E b \in BundleId, leaf \in RefundLeaf, value \in MsgValue :
          ExecuteRelayerRefundLeaf(sender, b, leaf, value)

EnvironmentStep ==
    \/ \E depositor \in Depositor, details \in UpdateDetails :
          SignUpdate(depositor, details) \/ RevokeUpdate(depositor, details)
    \/ HandlerReturns
    \/ \E value \in MsgValue : ReceiveNative(value)
    \/ \E t \in Token, amount \in Amount : TokensArrive(t, amount)
    \/ Tick

Next ==
    \/ \E sender \in Address :
          AdminStep(sender) \/ DepositStep(sender) \/ FillStep(sender)
    \/ EnvironmentStep

Spec == Init /\ [][Next]_vars

-----------------------------------------------------------------------------
(* Properties: fills *)

\* _fillRelayV3 fills a relay hash at most once, and exactly when its status
\* is Filled there is one FilledV3Relay event for it: no interleaving of fast,
\* updated and slow fills, and no fill made from inside the callback of
\* another, delivers a deposit twice although fillV3Relay takes no lock.
FilledExactlyOnce ==
    \A r \in RelayData :
        Len(fillEvents[r]) = IF fillStatuses[r] = "Filled" THEN 1 ELSE 0

\* A call that is waiting for handleV3AcrossMessage has already recorded its
\* fill, so whatever the handler calls sees the relay as Filled.
CallbackSeesFilled ==
    \A i \in DOMAIN stack : fillStatuses[stack[i].relay] = "Filled"

\* The reentrancy lock of the nonReentrant functions is held exactly while a
\* locked call waits for its callback, and at most one such call waits:
\* unlocked fillV3Relay calls nested around or inside it neither release the
\* lock nor leave it held.
LockMatchesStack ==
    /\ entered <=> \E i \in DOMAIN stack : stack[i].guarded
    /\ \A i, j \in DOMAIN stack : stack[i].guarded /\ stack[j].guarded => i = j

\* No relay is filled after its fillDeadline, and while its exclusivity lasts
\* only the exclusive relayer fills it fast, at every time including the ones
\* that no longer fit in the uint32 that fillV3Relay casts the time to.
FillsInWindow ==
    \A r \in RelayData : \A i \in DOMAIN fillEvents[r] :
        LET e == fillEvents[r][i] IN
        /\ e.at <= r.fillDeadline
        /\ e.fillType = "SlowFill" \/ e.at > r.exclusivityDeadline
                                   \/ e.relayer = r.exclusiveRelayer

\* The fillType of a fill tells the dataworker truly whether a requested slow
\* fill was replaced, so that LP funds set aside for it come back: a fast fill
\* is a ReplacedSlowFill exactly when a slow fill of the relay was requested.
FillTypeTruthful ==
    \A r \in RelayData : \A i \in DOMAIN fillEvents[r] :
        fillEvents[r][i].fillType # "SlowFill" =>
            (fillEvents[r][i].fillType = "ReplacedSlowFill"
                <=> \E t \in 0..MaxTime : <<r, t>> \in slowFillRequests)

SignedTerms(r, terms) ==
    \E details \in UpdateDetails :
        /\ <<r.depositor, details>> \in everSigned
        /\ details.depositId = r.depositId
        /\ details.originChainId = r.originChainId
        /\ details.terms = terms

LeafOf(r, amount) ==
    [relayData |-> r, chainId |-> ChainId, updatedOutputAmount |-> amount]

\* Every fill delivers what somebody with the right to decide agreed to: a fast
\* fill the deposit's own terms or an update its depositor signed for that id
\* and origin chain; a slow fill the amount of a leaf for this chain in a root
\* the admin relayed, credited to no relayer.  And it pays in full, unless a
\* relayer fills a deposit whose recipient is itself.
FillHonoursTerms ==
    \A r \in RelayData : \A i \in DOMAIN fillEvents[r] :
        LET e == fillEvents[r][i] IN
        IF e.fillType = "SlowFill"
        THEN /\ e.relayer = ZeroAddress
             /\ e.terms = [OwnTerms(r) EXCEPT !.amount = e.terms.amount]
             /\ e.paid = e.terms.amount
             /\ \E bundle \in relayedBundles :
                   LeafOf(r, e.terms.amount) \in bundle.slowRelayRoot
        ELSE /\ e.relayer = e.sender
             /\ e.terms = OwnTerms(r) \/ SignedTerms(r, e.terms)
             /\ e.paid = IF e.sender = e.terms.recipient THEN 0 ELSE e.terms.amount

\* A fast fill, from inside a callback or not, leaves the pool's own tokens
\* alone: what a relayer's fill sends is what the relayer brought, also when
\* wrapped native passes through the pool.
FastFillsSpendNoPoolFunds ==
    [][\A r \in RelayData :
         (/\ fillStatuses[r] # "Filled"
          /\ fillStatuses'[r] = "Filled"
          /\ Last(fillEvents'[r]).fillType # "SlowFill")
         => UNCHANGED <<balance, native>>]_vars

-----------------------------------------------------------------------------
(* The pool implements the life cycle of its relays *)

OutcomeOf(r) == IF fillEvents[r] = <<>> THEN "None" ELSE Last(fillEvents[r]).fillType

Lifecycle == INSTANCE RelayLifecycle WITH
    Relay      <- RelayData,
    status     <- fillStatuses,
    outcome    <- [r \in RelayData |-> OutcomeOf(r)],
    deliveries <- [r \in RelayData |-> Len(fillEvents[r])]

\* Every step of the pool, in any nesting of callbacks, requests a slow fill of
\* one relay, delivers one relay once, or leaves all relays as they are.
RefinesLifecycle == Lifecycle!Spec

-----------------------------------------------------------------------------
(* Properties: root bundles *)

\* _setClaimedLeaf: within one root bundle a leaf id is paid out at most once,
\* whatever leaves share it, and the bitmap says which ids were paid.
LeavesExecuteOnce ==
    \A b \in BundleId :
        /\ \A i, j \in DOMAIN leafEvents[b] :
             leafEvents[b][i].leafId = leafEvents[b][j].leafId => i = j
        /\ claimedBitmap[b] =
             {leafEvents[b][i].leafId : i \in DOMAIN leafEvents[b]}

\* Every refund leaf that was paid is for this chain and in a root the admin
\* relayed at some time.
RefundsAuthorised ==
    \A b \in BundleId : \A i \in DOMAIN leafEvents[b] :
        /\ leafEvents[b][i].chainId = ChainId
        /\ \E bundle \in relayedBundles :
             leafEvents[b][i] \in bundle.relayerRefundRoot

\* A root bundle id keeps its roots until it is deleted, and a deleted one
\* stays empty and pays no further leaf: relayRootBundle never hands the id,
\* with its old bitmap, to other roots.
BundleIdsNotReused ==
    [][\A b \in DOMAIN rootBundles :
         /\ b \in DOMAIN rootBundles'
         /\ rootBundles'[b] \in {rootBundles[b], EmptyBundle}
         /\ rootBundles[b] = EmptyBundle => leafEvents'[b] = leafEvents[b]]_vars

-----------------------------------------------------------------------------
(* Properties: deposits and funds *)

\* Two deposits share an id only if the same caller made both through
\* unsafeDepositV3 with the same depositor and nonce: the counter never repeats
\* an id and nobody can take the id of another caller's unsafe deposit.
DepositIdsUnambiguous ==
    \A i, j \in DOMAIN depositEvents :
        depositEvents[i].id = depositEvents[j].id =>
            \/ i = j
            \/ /\ depositEvents[i].id.kind = "unsafe"
               /\ depositEvents[i].sender = depositEvents[j].sender

\* Somebody can fill every deposit at the moment it is made: it has not
\* expired and an exclusivity that is running names a relayer.  (The legacy
\* deposit never expires as long as time fits in 32 bits.)
DepositsFillable ==
    \A i \in DOMAIN depositEvents :
        LET d == depositEvents[i] IN
        /\ d.at <= MaxUint32 => d.at <= d.fillDeadline
        /\ d.exclusivityDeadline >= d.at /\ d.exclusivityDeadline > 0
              => d.exclusiveRelayer # ZeroAddress

DepositedIn(t) ==
    SumFunction([i \in DOMAIN depositEvents |->
        IF depositEvents[i].inputToken = t THEN depositEvents[i].inputAmount ELSE 0])

SlowFilledIn(t) ==
    SumFunction([r \in RelayData |->
        SumFunction([i \in DOMAIN fillEvents[r] |->
            IF fillEvents[r][i].fillType = "SlowFill" /\ r.outputToken = t
            THEN fillEvents[r][i].paid ELSE 0])])

PaidByLeavesIn(t) ==
    SumFunction([b \in BundleId |->
        SumFunction([i \in DOMAIN leafEvents[b] |->
            IF leafEvents[b][i].l2TokenAddress = t
            THEN RefundTotal(leafEvents[b][i]) + leafEvents[b][i].amountToReturn
            ELSE 0])])

\* The pool's balance of every token is what its events say it should be: the
\* deposits and arrivals, less the slow fills, the executed refund leaves and
\* what the owner removed.  The dataworker rebalances pools on this account.
EventsExplainBalance ==
    \A t \in Token :
        balance[t] + SlowFilledIn(t) + PaidByLeavesIn(t) + removed[t]
            = arrived[t] + DepositedIn(t)

-----------------------------------------------------------------------------
(* Properties: what the docs and tests say and the code does not *)

\* pauseFills "Affects fillRelayWithUpdatedDeposit() and fillRelay()": while
\* fills are paused no relayer fills a deposit.
PausedFillsHold ==
    [][\A r \in RelayData :
         (pausedFills /\ fillEvents'[r] # fillEvents[r])
            => Last(fillEvents'[r]).fillType = "SlowFill"]_vars

\* setEnableRoute is "Callable by admin only": the admin of the pool can enable
\* a deposit route whenever no call is in progress.
AdminCanEnableRoutes ==
    \A a \in Address : (OnlyAdmin(a) /\ stack = <<>>) =>
        \A t \in Token, c \in ChainIds : ENABLED SetEnableRoute(a, t, c, TRUE)

=============================================================================
