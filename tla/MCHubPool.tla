------------------------------ MODULE MCHubPool ------------------------------
(***************************************************************************)
(* Small instances of HubPool for TLC:                                     *)
(*   proposals  two proposals of two leaves, with disputes, settings that  *)
(*              change meanwhile and the permissioned bond token;          *)
(*   liquidity  one token whose LPs come and go while bundles send it out, *)
(*              it comes back, fees are smeared over time and the bonds of *)
(*              proposers are in the same token.                           *)
(***************************************************************************)
EXTENDS HubPool

CONSTANTS worker, nobody, weth, abt, none, l2, id0, order

None == {}
JustWorker == {worker}
JustL2 == {l2}
Zero == {0}
Yes == {TRUE}
YesNo == {TRUE, FALSE}
One == {1}
Two == {2}
Three == {3}

LeafOf(leafId, group, tokens, net, fee) ==
    [chainId |-> l2, groupIndex |-> group, leafId |-> leafId,
     l1Tokens |-> tokens, netSendAmounts |-> net, bundleLpFees |-> fee]

-----------------------------------------------------------------------------
(* The proposals instance *)

LeafA == LeafOf(0, 0, <<>>, <<>>, <<>>)
LeafB == LeafOf(1, 1, <<>>, <<>>, <<>>)
LeafC == LeafOf(1, 0, <<>>, <<>>, <<>>)     \* shares B's id
BundleLeaves == {LeafA, LeafB, LeafC}

\* One bundle announces both its leaves, one announces fewer than it has.
BundleProposals ==
    {[poolRebalanceLeafCount |-> 2, poolRebalanceRoot |-> {LeafA, LeafB}],
     [poolRebalanceLeafCount |-> 1, poolRebalanceRoot |-> {LeafA, LeafC}]}

JustAbt == {abt}
ZeroTwo == {0, 2}
Orders == {order}

-----------------------------------------------------------------------------
(* The liquidity instance *)

LeafFee  == LeafOf(0, 1, <<weth>>, <<2>>, <<2>>)
LeafBack == LeafOf(1, 1, <<weth, weth>>, <<-1, 1>>, <<3, 0>>)
RateLeaves == {LeafFee, LeafBack}
RateProposals == {[poolRebalanceLeafCount |-> 2, poolRebalanceRoot |-> {LeafFee, LeafBack}]}
JustWeth == {weth}
JustId == {id0}
TwoThree == {2, 3}
OneBack == {1, -1}
=============================================================================
