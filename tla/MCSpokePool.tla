----------------------------- MODULE MCSpokePool -----------------------------
(***************************************************************************)
(* Small instances of SpokePool for TLC.  Each instance opens one part of  *)
(* the pool and closes the others by giving them no arguments:             *)
(*   fills     two relays of an L2 pool, their callbacks, signed updates,  *)
(*             slow fills, and a clock that runs past 32 bits;             *)
(*   leaves    refund leaves of an L2 pool that share ids, deletion of     *)
(*             root bundles and wrapping of native before a leaf;          *)
(*   deposits  every deposit function of a pool with an owner.             *)
(***************************************************************************)
EXTENDS SpokePool

CONSTANTS zero, hub, alice, handler, wallet,    \* accounts
          weth, usdc,                           \* tokens
          here, there                           \* chains

MCAddress  == {zero, hub, alice, handler, wallet}
MCContract == {handler, wallet}
MCToken    == {weth, usdc}
MCChainIds == {here, there}
None       == {}

DepositIdOf(n) == [kind |-> "safe", sender |-> zero, depositor |-> zero, nonce |-> n]

\* Exclusive to alice up to time 1, for a contract that is called back.
RelayA == [depositor |-> alice, recipient |-> handler, exclusiveRelayer |-> alice,
           inputToken |-> weth, outputToken |-> weth, inputAmount |-> 1,
           outputAmount |-> 1, originChainId |-> there, depositId |-> DepositIdOf(0),
           fillDeadline |-> 2, exclusivityDeadline |-> 1, message |-> TRUE]

\* Open to everybody and without expiry, deposited by a contract wallet.
RelayB == [depositor |-> wallet, recipient |-> wallet, exclusiveRelayer |-> zero,
           inputToken |-> usdc, outputToken |-> usdc, inputAmount |-> 1,
           outputAmount |-> 1, originChainId |-> there, depositId |-> DepositIdOf(1),
           fillDeadline |-> 3, exclusivityDeadline |-> 0, message |-> TRUE]

FillRelays == {RelayA, RelayB}

\* The wallet offers more for B, to another contract, and may change its mind.
UpdateB == [depositId |-> DepositIdOf(1), originChainId |-> there,
            terms |-> [amount |-> 2, recipient |-> handler, message |-> TRUE]]
FillUpdates == {UpdateB}

SlowA == [relayData |-> RelayA, chainId |-> here, updatedOutputAmount |-> 1]
SlowB == [relayData |-> RelayB, chainId |-> here, updatedOutputAmount |-> 2]
SlowElsewhere == [relayData |-> RelayA, chainId |-> there, updatedOutputAmount |-> 2]
SlowLeaves == {SlowA, SlowB, SlowElsewhere}

FillBundles == {[relayerRefundRoot |-> {}, slowRelayRoot |-> {SlowB, SlowElsewhere}]}

-----------------------------------------------------------------------------
(* The leaves instance *)

LeafRelays == {RelayA}
LeafSlow   == {SlowA}

RefundLeafOf(id, chain, token, toReturn, amounts, to) ==
    [amountToReturn |-> toReturn, chainId |-> chain, refundAmounts |-> amounts,
     leafId |-> id, l2TokenAddress |-> token, refundAddresses |-> to]

\* Two leaves share an id, one is for another chain, one is malformed.
LeafWeth      == RefundLeafOf(0, here, weth, 0, <<1>>, <<alice>>)
LeafUsdc      == RefundLeafOf(0, here, usdc, 1, <<1, 0>>, <<alice, wallet>>)
LeafElsewhere == RefundLeafOf(1, there, weth, 0, <<1>>, <<alice>>)
LeafMalformed == RefundLeafOf(1, here, weth, 1, <<>>, <<alice>>)
RefundLeaves  == {LeafWeth, LeafUsdc, LeafElsewhere, LeafMalformed}

LeafBundles ==
    {[relayerRefundRoot |-> {LeafWeth, LeafUsdc}, slowRelayRoot |-> {SlowA}],
     [relayerRefundRoot |-> {LeafWeth, LeafElsewhere, LeafMalformed}, slowRelayRoot |-> {}]}

-----------------------------------------------------------------------------
(* The deposits instance *)

V3ArgOf(token, relayer, quote, deadline, exclusivity) ==
    [depositor |-> alice, recipient |-> wallet, inputToken |-> token,
     outputToken |-> usdc, inputAmount |-> 1, outputAmount |-> 1,
     destinationChainId |-> there, exclusiveRelayer |-> relayer,
     quoteTimestamp |-> quote, fillDeadline |-> deadline,
     exclusivityParameter |-> exclusivity, message |-> FALSE]

\* Without exclusivity, with an offset, with a timestamp, and one that names
\* nobody; quotes and deadlines that expire as time passes.
V3Args == {V3ArgOf(weth, zero, 0, 1, 0), V3ArgOf(usdc, alice, 1, 2, 1),
           V3ArgOf(weth, wallet, 2, 3, 3), V3ArgOf(usdc, zero, 1, 3, 2)}

LegacyArgOf(token, fee) ==
    [recipient |-> wallet, originToken |-> token, amount |-> 1,
     destinationChainId |-> there, relayerFeePct |-> fee, quoteTimestamp |-> 3,
     message |-> FALSE]
LegacyArgs == {LegacyArgOf(weth, -1), LegacyArgOf(usdc, 2)}

\* alice redirects her first deposit to herself.
UpdateHere == [depositId |-> DepositIdOf(0), originChainId |-> there,
               terms |-> [amount |-> 1, recipient |-> alice, message |-> FALSE]]
DepositUpdates == {UpdateHere}
There == {there}
JustZero == {zero}
Users == {zero, alice, wallet}

-----------------------------------------------------------------------------

Zero == {0}
One == {1}
Two == {2}
ZeroOne == {0, 1}
JustAlice == {alice}
JustWallet == {wallet}
HookTokens == {weth}
Proxy == {"proxy"}
Implementation == {"implementation"}
=============================================================================
