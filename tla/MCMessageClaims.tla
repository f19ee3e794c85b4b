-------------------------- MODULE MCMessageClaims --------------------------
(***************************************************************************)
(* An instance of MessageClaims: one operator, and two of four             *)
(* transactions, one of which sends over two bridges at once.              *)
(***************************************************************************)
EXTENDS MessageClaims

Message(bridge, src, tx, idx) ==
    [bridge |-> bridge, src |-> src, tx |-> tx, idx |-> idx, domain |-> 0,
     tokens |-> TRUE, usdc |-> FALSE, gas |-> 0]

\* From mainnet over Linea (tokens, and a message alone), the zkEVM bridge and
\* Scroll; to mainnet over Scroll.
MCMessages ==
    {Message("linea", "l1", "bundle", 1),
     [Message("linea", "l1", "roots", 1) EXCEPT !.tokens = FALSE],
     Message("zkevm", "l1", "others", 1),
     [Message("scroll", "l1", "others", 2) EXCEPT !.gas = 2],
     Message("scroll", "l2", "withdraw", 1)}

\* The Linea script is run in both directions, and bots claim its messages too.
MCClaimOn == [s \in Bridges |-> IF s = "linea" THEN Chains ELSE {"l2"}]

MCContested == {m \in MCMessages : m.bridge = "linea"}

\* A CCTP transfer from mainnet to Arbitrum.
MCToL2 ==
    {[Message("cctp", "l1", "bundle", 1) EXCEPT !.domain = 3, !.usdc = TRUE],
     Message("linea", "l1", "bundle", 2)}

MCToL2ClaimOn == [s \in Bridges |-> {"l2"}]
=============================================================================
