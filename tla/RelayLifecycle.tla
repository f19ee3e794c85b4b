--------------------------- MODULE RelayLifecycle ---------------------------
(***************************************************************************)
(* What a SpokePool promises about every relay on its destination chain: a *)
(* slow fill is requested at most once and only while the relay is open,   *)
(* the relay is delivered at most once, and how it was delivered says      *)
(* whether that made a requested slow fill superfluous.                    *)
(***************************************************************************)
EXTENDS Naturals

CONSTANT Relay

VARIABLES status,       \* the FillStatus of each relay
          outcome,      \* the FillType it was delivered with, or "None"
          deliveries    \* how often it was delivered

Init ==
    /\ status = [r \in Relay |-> "Unfilled"]
    /\ outcome = [r \in Relay |-> "None"]
    /\ deliveries = [r \in Relay |-> 0]

RequestSlowFill(r) ==
    /\ status[r] = "Unfilled"
    /\ status' = [status EXCEPT ![r] = "RequestedSlowFill"]
    /\ UNCHANGED <<outcome, deliveries>>

Deliver(r, how) ==
    /\ status[r] # "Filled"
    /\ how \in {"SlowFill", IF status[r] = "RequestedSlowFill"
                            THEN "ReplacedSlowFill" ELSE "FastFill"}
    /\ status' = [status EXCEPT ![r] = "Filled"]
    /\ outcome' = [outcome EXCEPT ![r] = how]
    /\ deliveries' = [deliveries EXCEPT ![r] = @ + 1]

Next ==
    \E r \in Relay :
        \/ RequestSlowFill(r)
        \/ \E how \in {"FastFill", "ReplacedSlowFill", "SlowFill"} : Deliver(r, how)

Spec == Init /\ [][Next]_<<status, outcome, deliveries>>

=============================================================================
