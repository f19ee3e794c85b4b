--------------------------- MODULE MessageClaims ---------------------------
(***************************************************************************)
(* The operators' scripts that finish what a bridge only half delivers:    *)
(*   finalizeCCTPMessages.ts, claimLineaMessages.ts                        *)
(*       scan a window of source blocks, collect the messages of the       *)
(*       transactions found, wait for the bridge, and claim one by one;    *)
(*   claimPolygonZkEvmMessages.ts, finalizeScrollClaims.ts                 *)
(*       ask the bridge's API for a page of claimable messages and claim   *)
(*       them;                                                             *)
(*   rescueStuckScrollTxn.ts                                               *)
(*       replays the message of an L1 transaction with more gas.           *)
(* The scripts keep nothing on disk: a run that is killed starts over.     *)
(* Two chains, "l1" and "l2"; a message is a record of its bridge, its     *)
(* source chain, the transaction that sent it and its place among that     *)
(* transaction's logs, what it is addressed to and what it needs.          *)
(*                                                                         *)
(* What this commit's tables and contracts do not have makes a script      *)
(* reject, and what would follow is not reached:                           *)
(*   - the scans of L2 query <prefix>TokensBridged and LineaTokensBridged, *)
(*     which no contract declares (scanRejects);                           *)
(*   - on a network that exists the zkEVM script finds no bridge address   *)
(*     once there is something to claim (getMessages);                     *)
(*   - so the CCTP script never has anything to receive: its scan of L1    *)
(*     finds nothing on mainnet and does not start on Sepolia. Were it to  *)
(*     get there, it would poll Circle's sandbox ("attest").               *)
(***************************************************************************)
EXTENDS Integers, FiniteSets

CONSTANTS
    Operators,            \* who runs the scripts, each one script at a time
    Messages,             \* the messages that may be sent (records, below)
    L1, L2,               \* chain ids of the CCTP script's network and its
                          \* l1 companion
    CLAIM_ON,             \* per script, the values of RECEIVE_MESSAGES_ON and
                          \* CLAIM_MESSAGES_ON in use
    Contested,            \* messages that others than the operators claim
    LOOKBACKS,            \* values of BLOCK_LOOKBACK, in blocks
    MAX_BLOCK_LOOKBACK,   \* MAX_L1_BLOCK_LOOKBACK, MAX_L2_BLOCK_LOOKBACK
    PAGE,                 \* messages an API returns at once (100)
    GasLimits,            \* gas limits an operator passes to the rescue task
    MaxBlock,             \* bound: last source block
    MaxTxs,               \* bound: transactions that are sent
    MaxFaults             \* bound: crashes and failed calls

Bridges == {"cctp", "linea", "zkevm", "scroll"}

Chains == {"l1", "l2"}

Other(c) == IF c = "l1" THEN "l2" ELSE "l1"

Txs == {m.tx : m \in Messages}

MaxLookback == CHOOSE b \in LOOKBACKS : \A c \in LOOKBACKS : c <= b

ASSUME MessagesAssumption ==
    \A m \in Messages : /\ m.bridge \in Bridges
                        /\ m.src \in Chains
                        /\ m.idx \in Nat
                        /\ m.gas \in Nat

ASSUME BoundsAssumption ==
    /\ LOOKBACKS \subseteq Nat /\ LOOKBACKS # {}
    /\ MAX_BLOCK_LOOKBACK \in Nat
    /\ \A b \in LOOKBACKS : b <= MaxBlock
    /\ PAGE \in Nat /\ MaxBlock \in Nat /\ MaxTxs \in Nat /\ MaxFaults \in Nat
    /\ GasLimits \subseteq Nat
    /\ L1 \in {1, 11155111}
    /\ Contested \subseteq Messages
    /\ \A s \in {"cctp", "linea", "zkevm"} : CLAIM_ON[s] \subseteq Chains

VARIABLES
    latest,    \* the head of the source chain
    sentAt,    \* the block of each transaction, 0 before it is mined
    ready,     \* messages attested, anchored or proven: they can be claimed
    claimed,   \* messages received on their destination
    pending,   \* Scroll claims sent and not mined yet
    gas,       \* the gas limit each Scroll L1 message is queued with
    run,       \* each operator's running script
    faults     \* crashes and failed calls so far

vars == <<latest, sentAt, ready, claimed, pending, gas, run, faults>>

chainVars == <<latest, sentAt, ready, gas>>

PCs == {"idle", "scan", "attest", "status", "claim", "relay", "done"}

Idle == [script |-> "none", on |-> "l2", pc |-> "idle", head |-> 0,
         back |-> 0, from |-> 0, txs |-> {}, found |-> {}, todo |-> {},
         failed |-> {}]

Init ==
    /\ latest = MaxLookback
    /\ sentAt = [t \in Txs |-> 0]
    /\ ready = {}
    /\ claimed = {}
    /\ pending = {}
    /\ gas = [m \in Messages |-> 0]
    /\ run = [o \in Operators |-> Idle]
    /\ faults = 0

-----------------------------------------------------------------------------
(* Tables of the scripts and of deploy/consts.ts.                          *)

\* Chains that have an artifact name; any other makes the script throw.
chainToArtifactPrefix == {1, 5, 10, 420, 42161, 421613, 8453, 84531, 137, 80001}

\* The L1 chains whose L1_ADDRESS_MAP entry has a "usdc" key.
L1_USDC == {11155111}

CIRCLE_DOMAIN_IDs ==
    [c \in {1, 10, 42161, 8453, 137, 11155111, 11155420, 421614, 84532, 80002}
       |-> CASE c \in {1, 11155111}     -> 0
             [] c \in {10, 11155420}    -> 2
             [] c \in {42161, 421614}   -> 3
             [] c \in {8453, 84532}     -> 6
             [] c \in {137, 80002}      -> 7]

-----------------------------------------------------------------------------
(* The chains and the bridges, as the scripts use them.                    *)

Sent(m) == sentAt[m.tx] # 0

TxsLeft == Cardinality({t \in Txs : sentAt[t] # 0}) < MaxTxs

\* A transaction is mined: its logs and its messages exist from this block on.
SendTx(t) ==
    /\ sentAt[t] = 0 /\ latest < MaxBlock
    /\ TxsLeft
    /\ latest' = latest + 1
    /\ sentAt' = [sentAt EXCEPT ![t] = latest + 1]
    /\ UNCHANGED <<ready, claimed, pending, gas, run, faults>>

MineBlock ==
    /\ latest < MaxBlock
    /\ latest' = latest + 1
    /\ UNCHANGED <<sentAt, ready, claimed, pending, gas, run, faults>>

\* Circle attests, Linea anchors, the zkEVM and Scroll prove.
BecomeReady(m) ==
    /\ Sent(m) /\ m \notin ready
    /\ ~ (m.bridge = "scroll" /\ m.src = "l1")
    /\ ready' = ready \union {m}
    /\ UNCHANGED <<latest, sentAt, claimed, pending, gas, run, faults>>

\* Anyone may claim a message that is ready.
OthersClaim(m) ==
    /\ m \in (ready \intersect Contested) \ claimed
    /\ claimed' = claimed \union {m}
    /\ UNCHANGED <<chainVars, pending, run, faults>>

\* A claim transaction: it reverts if the message is not ready or was received.
Claim(m) == claimed' = claimed \union ({m} \intersect ready)

\* relayMessageWithProof is mined; it reverts if the message was relayed.
MineRelay(m) ==
    /\ m \in pending
    /\ pending' = pending \ {m}
    /\ Claim(m)
    /\ UNCHANGED <<chainVars, run, faults>>

\* Scroll executes an L1 message on L2 if its gas limit is enough.
ExecuteOnScroll(m) ==
    /\ m.bridge = "scroll" /\ m.src = "l1"
    /\ Sent(m) /\ m \notin claimed
    /\ gas[m] >= m.gas
    /\ claimed' = claimed \union {m}
    /\ UNCHANGED <<chainVars, pending, run, faults>>

-----------------------------------------------------------------------------
(* Runs of the scripts.                                                    *)

Free(o) == run[o].pc \in {"idle", "done"}

Set(o, r) == run' = [run EXCEPT ![o] = r]

\* Arrays are in log order: by block, then by place in the transaction.
Earliest(S) ==
    CHOOSE m \in S : \A n \in S : \/ sentAt[m.tx] < sentAt[n.tx]
                                  \/ sentAt[m.tx] = sentAt[n.tx] /\ m.idx <= n.idx

Current(o) == Earliest(run[o].todo)

\* The loop's next iteration, or the end of the script.
Advance(o, pc, failed) ==
    LET todo == run[o].todo \ {Current(o)}
    IN  Set(o, [run[o] EXCEPT !.todo = todo, !.failed = @ \union failed,
                              !.pc = IF todo = {} THEN "done" ELSE pc])

\* The first block of the window.
initialFromBlockBefore(back) == latest - back - 1

initialFromBlock(back) == latest - back

\* main() of the CCTP and Linea scripts up to the first query.
StartScan(o, script, on, back) ==
    /\ Free(o)
    /\ script = "cctp" =>
         (IF on = "l1" THEN L2 ELSE L1) \in chainToArtifactPrefix
    /\ Set(o, [Idle EXCEPT !.script = script, !.on = on, !.pc = "scan",
                           !.head = latest, !.back = back,
                           !.from = initialFromBlock(back)])
    /\ UNCHANGED <<chainVars, claimed, pending, faults>>

\* queryFn of getL1SrcEvents (CCTP): the TokensRelayed events of the USDC in
\* L1_ADDRESS_MAP.
cctpQuery(from, to) ==
    {t \in Txs : /\ sentAt[t] \in from .. to /\ sentAt[t] # 0
                 /\ L1 \in L1_USDC
                 /\ \E m \in Messages : m.tx = t /\ m.src = "l1" /\ m.tokens /\ m.usdc}

\* queryFn of the Linea script: TokensRelayed and MessageRelayed of the HubPool.
lineaTokensQuery(from, to) ==
    {t \in Txs : /\ sentAt[t] \in from .. to /\ sentAt[t] # 0
                 /\ \E m \in Messages : m.tx = t /\ m.src = "l1" /\ m.tokens}

lineaQuery(from, to) ==
    {t \in Txs : /\ sentAt[t] \in from .. to /\ sentAt[t] # 0
                 /\ \E m \in Messages : m.tx = t /\ m.src = "l1"}

\* The first block of the next chunk.
NextChunkAfterGap(to) == to + 2

NextChunk(to) == to + 1

\* One iteration of getSrcEvents on L1. As written, with no test of its own
\* for an empty range: numBlocks is positive whenever the loop is entered.
getSrcEvents(o) ==
    /\ run[o].pc = "scan" /\ run[o].from < run[o].head /\ run[o].on = "l2"
    /\ LET r == run[o]
           numBlocks == r.head - r.from
           to == IF numBlocks > MAX_BLOCK_LOOKBACK
                 THEN r.from + MAX_BLOCK_LOOKBACK ELSE r.from + numBlocks
           txs == IF r.script = "cctp" THEN cctpQuery(r.from, to)
                                       ELSE lineaQuery(r.from, to)
       IN  Set(o, [r EXCEPT !.txs = @ \union txs, !.from = NextChunk(to)])
    /\ UNCHANGED <<chainVars, claimed, pending, faults>>

\* getL2SrcEvents: the first query names an event that the SpokePool's
\* interface does not have; queryFilter throws and main() rejects.
scanRejects(o) ==
    /\ run[o].pc = "scan" /\ run[o].from < run[o].head /\ run[o].on = "l1"
    /\ Set(o, Idle)
    /\ UNCHANGED <<chainVars, claimed, pending, faults>>

Scanned(o) == run[o].pc = "scan" /\ run[o].from >= run[o].head

\* The work list is fixed here; an empty one ends the script. What the scan
\* needed is forgotten.
Found(o, S, pc) ==
    Set(o, [Idle EXCEPT !.script = run[o].script, !.on = run[o].on,
                        !.found = S, !.todo = S,
                        !.pc = IF S = {} THEN "done" ELSE pc])

\* logs.find: the first MessageSent log of a transaction's receipt.
FirstMessageSent(t) ==
    {m \in Messages : /\ m.tx = t /\ m.bridge = "cctp"
                      /\ \A n \in Messages :
                           n.tx = t /\ n.bridge = "cctp" => m.idx <= n.idx}

\* parseMessageHashesAndBytes and the filter on the destination domain: that of
\* the chain the script receives on.
parseMessageHashesAndBytes(o) ==
    /\ run[o].script = "cctp" /\ Scanned(o)
    /\ Found(o, {m \in UNION {FirstMessageSent(t) : t \in run[o].txs} :
                    m.domain = CIRCLE_DOMAIN_IDs[IF run[o].on = "l1" THEN L1
                                                 ELSE L2]}, "attest")
    /\ UNCHANGED <<chainVars, claimed, pending, faults>>

\* getMessagesByTransactionHash: every Linea message of the transactions.
getMessagesByTransactionHash(o) ==
    /\ run[o].script = "linea" /\ Scanned(o)
    /\ Found(o, {m \in Messages : /\ m.bridge = "linea"
                                  /\ m.src = Other(run[o].on)
                                  /\ m.tx \in run[o].txs}, "status")
    /\ UNCHANGED <<chainVars, claimed, pending, faults>>

\* The status is no longer UNKNOWN: the message is CLAIMABLE or CLAIMED.
StatusKnownAtOnce(m) == TRUE

StatusClaimable(m) == m \in ready \ claimed

StatusKnown(m) == m \in ready

\* getMessageStatus, polled while UNKNOWN; CLAIMED is skipped.
getMessageStatus(o) ==
    /\ run[o].pc = "status" /\ StatusKnown(Current(o))
    /\ IF Current(o) \in claimed THEN Advance(o, "status", {})
                                 ELSE Set(o, [run[o] EXCEPT !.pc = "claim"])
    /\ UNCHANGED <<chainVars, claimed, pending, faults>>

\* claim on the destination message service, in a try block.
claimLinea(o) ==
    /\ run[o].pc = "claim"
    /\ Claim(Current(o))
    /\ Advance(o, "status", {})
    /\ UNCHANGED <<chainVars, pending, faults>>

\* A page of an API: every message of the kind, or any PAGE of them.
Pages(S) == IF Cardinality(S) <= PAGE THEN {S}
            ELSE {P \in SUBSET S : Cardinality(P) = PAGE}

\* The zkEVM script: a page of the messages to the pool, and the filter on what
\* is claimable. If nothing is, the script ends. Otherwise it asks
\* L1_ADDRESS_MAP[1] or L2_ADDRESS_MAP[1101] for polygonZkEvmBridge, which
\* neither has, and main() rejects. (Chain 1442 has an entry, but that network's
\* l1 companion is not configured.)
getMessages(o, on) ==
    /\ Free(o)
    /\ \E P \in Pages({m \in Messages : /\ m.bridge = "zkevm" /\ Sent(m)
                                        /\ m.src = Other(on)}) :
         Set(o, IF P \intersect (ready \ claimed) = {}
                THEN [Idle EXCEPT !.script = "zkevm", !.on = on, !.pc = "done"]
                ELSE Idle)
    /\ UNCHANGED <<chainVars, claimed, pending, faults>>

\* finalize-scroll-claims: the first page of claims for the operator.
claimList(o) ==
    /\ Free(o)
    /\ \E P \in Pages({m \in ready \ claimed : /\ m.bridge = "scroll"
                                               /\ m.src = "l2"}) :
         Set(o, [Idle EXCEPT !.script = "scroll", !.on = "l1",
                             !.found = P, !.todo = P,
                             !.pc = IF P = {} THEN "done" ELSE "relay"])
    /\ UNCHANGED <<chainVars, claimed, pending, faults>>

\* Promise.allSettled: the calls are independent, none is waited for; the
\* gas estimate rejects a claim that was relayed since the page was read.
relayMessageWithProof(o, m) ==
    /\ run[o].pc = "relay" /\ m \in run[o].todo
    /\ LET todo == run[o].todo \ {m}
       IN  Set(o, [run[o] EXCEPT !.todo = todo,
                     !.failed = IF m \in claimed THEN @ \union {m} ELSE @,
                     !.pc = IF todo = {} THEN "done" ELSE @])
    /\ pending' = IF m \in claimed THEN pending ELSE pending \union {m}
    /\ UNCHANGED <<chainVars, claimed, faults>>

\* rescue-stuck-scroll-txn: the first SentMessage log of the transaction is
\* replayed with the new gas limit; without one the task throws.
replayMessage(o, t, limit) ==
    /\ Free(o) /\ sentAt[t] # 0
    /\ \E m \in Messages :
         /\ m.tx = t /\ m.bridge = "scroll" /\ m.src = "l1"
         /\ \A n \in Messages :
              n.tx = t /\ n.bridge = "scroll" /\ n.src = "l1" => m.idx <= n.idx
         /\ gas' = [gas EXCEPT ![m] = limit]
    /\ UNCHANGED <<latest, sentAt, ready, claimed, pending, run, faults>>

\* A call inside a try block fails: it is logged and the loop continues. A
\* transaction that was sent may be mined all the same.
CallFails(o) ==
    /\ faults < MaxFaults
    /\ faults' = faults + 1
    /\ \/ /\ run[o].pc = "claim"
          /\ Advance(o, "status", {Current(o)})
          /\ Claim(Current(o)) \/ UNCHANGED claimed
       \/ /\ run[o].pc = "relay"
          /\ Advance(o, "relay", {Current(o)})
          /\ UNCHANGED claimed
    /\ UNCHANGED <<chainVars, pending>>

\* The process is killed, or a call outside a try block rejects main().
Crash(o) ==
    /\ faults < MaxFaults /\ ~ Free(o)
    /\ faults' = faults + 1
    /\ Set(o, Idle)
    /\ UNCHANGED <<chainVars, claimed, pending>>

-----------------------------------------------------------------------------

\* The next step of a script that is running.
Step(o) ==
    \/ getSrcEvents(o) \/ scanRejects(o) \/ parseMessageHashesAndBytes(o)
    \/ getMessagesByTransactionHash(o) \/ getMessageStatus(o) \/ claimLinea(o)
    \/ \E m \in Messages : relayMessageWithProof(o, m)

Next ==
    \/ \E t \in Txs : SendTx(t)
    \/ MineBlock
    \/ \E m \in Messages : \/ BecomeReady(m) \/ OthersClaim(m)
                           \/ MineRelay(m) \/ ExecuteOnScroll(m)
    \/ \E o \in Operators :
         \/ \E s \in {"cctp", "linea"}, b \in LOOKBACKS :
              \E on \in CLAIM_ON[s] : StartScan(o, s, on, b)
         \/ \E on \in CLAIM_ON["zkevm"] : getMessages(o, on)
         \/ claimList(o)
         \/ \E t \in Txs, g \in GasLimits : replayMessage(o, t, g)
         \/ Step(o)
         \/ CallFails(o)
         \/ Crash(o)

(* A started script keeps running (one process, awaiting each call), the   *)
(* bridges eventually anchor, prove and mine, and the operators run the    *)
(* Linea script (with their longest look-back) and the Scroll task again   *)
(* and again: nothing in the repository schedules the runs, so the strong  *)
(* fairness of starting them is a duty of the operators.                   *)
Fairness ==
    /\ \A o \in Operators :
         /\ WF_vars(Step(o))
         /\ SF_vars(StartScan(o, "linea", "l2", MaxLookback))
         /\ SF_vars(claimList(o))
    /\ \A m \in Messages : WF_vars(BecomeReady(m) \/ MineRelay(m))

Spec == Init /\ [][Next]_vars

FairSpec == Spec /\ Fairness

-----------------------------------------------------------------------------
(* Properties.                                                             *)

\* The types of the chains' and the operators' state.
TypeOK ==
    /\ latest \in 0 .. MaxBlock
    /\ sentAt \in [Txs -> 0 .. MaxBlock]
    /\ ready \subseteq Messages /\ claimed \subseteq Messages
    /\ pending \subseteq Messages
    /\ gas \in [Messages -> Nat]
    /\ faults \in 0 .. MaxFaults
    /\ \A o \in Operators :
         LET r == run[o]
         IN  /\ r.script \in Bridges \union {"none"} /\ r.on \in Chains
             /\ r.pc \in PCs /\ r.head \in 0 .. MaxBlock
             /\ r.back \in LOOKBACKS \union {0} /\ r.from \in 0 .. MaxBlock + 1
             /\ r.txs \subseteq Txs /\ r.found \subseteq Messages
             /\ r.todo \subseteq r.found /\ r.failed \subseteq r.found

\* The last block a scan with this look-back reads: all of them, except that
\* the head itself is left out when the chunks of MAX_BLOCK_LOOKBACK + 1
\* blocks end just before it.
LastScanned(head, back) ==
    IF back % (MAX_BLOCK_LOOKBACK + 1) = 0 THEN head - 1 ELSE head

\* When getSrcEvents returns, it has seen exactly the relevant transactions
\* of the window, however the chunks cut it and whatever was mined meanwhile.
ScanCoversWindow ==
    \A o \in Operators :
      Scanned(o) =>
        LET r == run[o]
            last == LastScanned(r.head, r.back)
        IN  r.txs = IF r.script = "cctp"
                    THEN cctpQuery(r.head - r.back, last)
                    ELSE lineaQuery(r.head - r.back, last)

\* A script that ended has dealt with every message it found: each one is
\* received, was logged as failed, or (Scroll) its claim is in flight; a
\* message another claimant took in the meantime counts as received.
FinishedRunSettled ==
    \A o \in Operators :
      run[o].pc = "done" =>
        run[o].found \subseteq claimed \union run[o].failed \union pending

\* Every script that is started ends: its waiting loops do not wait for
\* something that a claim by somebody else has made impossible.
RunTerminates == \A o \in Operators : []<>Free(o)

\* The messages a script claims: Linea's from L1, Scroll's to L1.
HasScript(m) == \/ m.bridge = "linea" /\ m.src = "l1"
                \/ m.bridge = "scroll" /\ m.src = "l2"

\* A scan that started now with the longest look-back would read the
\* message's block.
InWindow(m) ==
    sentAt[m.tx] \in (latest - MaxLookback) .. LastScanned(latest, MaxLookback)

\* A message of a script that works is claimed in the end, whatever crashes and
\* whoever else claims; one that claimLineaMessages.ts has to find in the blocks,
\* unless its block leaves the window for good before.
EventuallyClaimed ==
    \A m \in Messages :
      HasScript(m) =>
        []<>(Sent(m) /\ (m.bridge = "linea" => InWindow(m)) => m \in claimed)

\* "Script to claim L1->L2 or L2->L1 messages": when the CCTP script has made
\* its work list, the list holds every USDC message of the scanned window
\* that is addressed to the chain the script receives on.
ListsWindow ==
    [][\A o \in Operators :
         parseMessageHashesAndBytes(o) =>
           LET r == run[o]
               dest == IF r.on = "l1" THEN L1 ELSE L2
           IN  \A m \in Messages :
                 /\ m.bridge = "cctp" /\ m.src = Other(r.on) /\ m.usdc
                 /\ m.domain = CIRCLE_DOMAIN_IDs[dest] /\ Sent(m)
                 /\ sentAt[m.tx] \in
                      (r.head - r.back) .. LastScanned(r.head, r.back)
                 => m \in run'[o].found]_vars
=============================================================================
