----------------------------- MODULE MCSvmSpoke -----------------------------
(***************************************************************************)
(* Instances of SvmSpoke: relayers with slow fills, refunds with claims,   *)
(* and the repayment script beside the HubPool's bundles.                  *)
(***************************************************************************)
EXTENDS SvmSpoke

MCRelays ==
    {[fillDeadline |-> 2, exclusivityDeadline |-> 1, exclusiveRelayer |-> "r1"]}

MCLeaves == {[to |-> <<"relayer", 1>>, amount |-> 1, ret |-> 1]}

MCPlans ==
    {{"clock", "enableRoute", "fills", "pauseFills", "deposits",
      "relayRootBundle"},
     {"enableRoute", "disableRoute", "deposits", "claims", "relayRootBundle",
      "emergencyDeleteRootBundle", "pauseDeposits"},
     {"enableRoute", "repayment", "relayRootBundle"}}
=============================================================================
