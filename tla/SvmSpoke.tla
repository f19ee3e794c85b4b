------------------------------ MODULE SvmSpoke ------------------------------
(***************************************************************************)
(* The Solana SpokePool (programs/svm-spoke) and the scripts that operate  *)
(* it (scripts/svm): deposits, fills and slow fills, root bundles that the *)
(* HubPool relays through CCTP or the owner relays itself, refund leaves,  *)
(* claim accounts, and the rent the scripts get back by closing accounts.  *)
(*                                                                         *)
(* A transaction is atomic: an instruction that returns an error changes   *)
(* nothing. A relay stands for its hash, which names its fill status       *)
(* account. There is one token; a bundle has one refund leaf.              *)
(***************************************************************************)
EXTENDS Integers, Sequences, FiniteSets, Functions, SequencesExt

CONSTANTS
    Relays,         \* records: fillDeadline, exclusivityDeadline, exclusiveRelayer
    Signers,        \* the relayers
    Default,        \* Pubkey::default()
    Leaves,         \* refund leaves of the HubPool's bundles: to, amount, ret
    QuoteBuffer,    \* deposit_quote_time_buffer
    DeadlineBuffer, \* fill_deadline_buffer
    DepositWindow,  \* the 3600 s of simpleDeposit.ts
    MaxTime,        \* bound: the last time
    MaxBundles,     \* bound: root bundles
    MaxMessages,    \* bound: messages of the HubPool
    MaxDeposits,    \* bound: deposits
    MaxRuns,        \* bound: runs of simpleFakeRelayerRepayment.ts
    Plans           \* bound: who takes part in one behaviour

ASSUME TimesAssumption ==
    /\ QuoteBuffer \in Nat /\ DeadlineBuffer \in Nat /\ DepositWindow \in Nat
    /\ MaxTime \in Nat \ {0}
    /\ \A r \in Relays : r.fillDeadline \in Nat /\ r.exclusivityDeadline \in Nat
    /\ Default \notin Signers

\* A leaf is made of fixed-width words: there are finitely many.
ASSUME LeavesAssumption ==
    /\ IsFiniteSet(Leaves)
    /\ \A l \in Leaves : l.amount \in Nat /\ l.ret \in Nat

ASSUME LimitsAssumption ==
    {MaxBundles, MaxMessages, MaxDeposits, MaxRuns} \subseteq Nat

VARIABLES
    plan,       \* who takes part
    now,        \* unix_timestamp of the Clock
    state,      \* the State account
    route,      \* the route account is enabled
    fill,       \* relay -> its FillStatusAccount, or None
    log,        \* relay -> the events about it
    aged,       \* relay -> how many of them are no longer among the newest
                \* signatures, which is all a node returns in one page
    bundles,    \* root bundle id -> the RootBundle account, or None
    inbox,      \* CCTP messages of the HubPool that were not received
    mailed,     \* how many it sent
    vault,      \* tokens in the vault
    deposited,  \* tokens that depositors put into it
    received,   \* refund address -> tokens it got
    claim,      \* refund address -> its ClaimAccount, or None
    pending,    \* pending_to_hub_pool
    bridged,    \* tokens sent to the HubPool
    executed,   \* pairs of a bundle id and its leaf that were executed
    params,     \* the owner's instruction_params, Blank or None
    run,        \* the repayment script
    sent,       \* its execute transactions that have not landed
    tables,     \* run -> its address lookup table
    reaper,     \* closeDataWorkerLookUpTables.ts
    closer      \* relayer -> closeRelayerPdas.ts: relays left to look at

fillVars == <<fill, log, aged, closer>>

refundVars == <<received, claim, executed>>

scriptVars == <<params, run, sent, tables, reaper>>

tokenVars == <<vault, deposited, pending, bridged>>

vars == <<plan, now, state, route, bundles, inbox, mailed,
          fillVars, refundVars, scriptVars, tokenVars>>

None == [none |-> TRUE]

Ids == 0 .. MaxBundles - 1

\* The token account that a run of the repayment script creates.
Fresh(k) == <<"fresh", k>>

FreshLeaf(k) == [to |-> Fresh(k), amount |-> 1, ret |-> 0]

Addresses == {l.to : l \in Leaves} \union {Fresh(k) : k \in 1 .. MaxRuns}

\* Instruction parameters before their fragments are written.
Blank == [blank |-> TRUE]

Stopped == [pc |-> "idle", k |-> 0, id |-> 0]

Init ==
    /\ plan \in Plans
    /\ now = 1
    /\ state = None
    /\ route = FALSE
    /\ fill = [r \in Relays |-> None]
    /\ log = [r \in Relays |-> <<>>] /\ aged = [r \in Relays |-> 0]
    /\ bundles = [i \in Ids |-> None]
    /\ inbox = {} /\ mailed = 0
    /\ vault = 0 /\ deposited = 0 /\ pending = 0 /\ bridged = 0
    /\ received = [a \in Addresses |-> 0]
    /\ claim = [a \in Addresses |-> None]
    /\ executed = {}
    /\ params = None
    /\ run = Stopped
    /\ sent = {}
    /\ tables = [k \in 1 .. MaxRuns |-> "none"]
    /\ reaper = [left |-> {}, at |-> 0]
    /\ closer = [s \in Signers |-> {}]

Live == state # None

-----------------------------------------------------------------------------
(* Administration, by the owner's scripts or by the HubPool's messages.    *)

\* initialize.ts; the account is created with init, so only once.
initialize ==
    /\ ~ Live
    /\ state' = [pausedDeposits |-> FALSE, pausedFills |-> FALSE,
                 numberOfDeposits |-> 0, rootBundleId |-> 0]
    /\ UNCHANGED <<plan, now, route, bundles, inbox, mailed,
                   fillVars, refundVars, scriptVars, tokenVars>>

\* enableRoute.ts
enableRoute(enabled) ==
    /\ (IF enabled THEN "enableRoute" ELSE "disableRoute") \in plan
    /\ Live /\ route # enabled
    /\ route' = enabled
    /\ UNCHANGED <<plan, now, state, bundles, inbox, mailed,
                   fillVars, refundVars, scriptVars, tokenVars>>

\* What the HubPool can ask for: the calls translate_message knows, without
\* the admin's own replacement and setEnableRoute, which does what enableRoute
\* does. A bundle has a leaf and relays to fill slowly.
Calls ==
    {[call |-> "pauseDeposits", pause |-> b] : b \in BOOLEAN} \union
    {[call |-> "pauseFills", pause |-> b] : b \in BOOLEAN} \union
    {[call |-> "relayRootBundle", leaf |-> l, slow |-> S] :
       l \in Leaves, S \in SUBSET Relays} \union
    {[call |-> "emergencyDeleteRootBundle", id |-> i] : i \in Ids}

\* A message is sent, and will be attested; c is among what the plan needs.
sendMessage(c) ==
    /\ mailed < MaxMessages /\ c.call \in plan
    /\ inbox' = inbox \union {[n |-> mailed, body |-> c]}
    /\ mailed' = mailed + 1
    /\ UNCHANGED <<plan, now, state, route, bundles,
                   fillVars, refundVars, scriptVars, tokenVars>>

NewBundle(leaf, slow) == [leaf |-> leaf, slow |-> slow, claimed |-> FALSE]

\* relay_root_bundle: the account of the next id is created.
relay_root_bundle(leaf, slow) ==
    /\ state.rootBundleId \in Ids
    /\ bundles' = [bundles EXCEPT ![state.rootBundleId] = NewBundle(leaf, slow)]
    /\ state' = [state EXCEPT !.rootBundleId = @ + 1]

\* emergency_delete_root_bundle: the account must exist.
emergency_delete_root_bundle(i) ==
    /\ bundles[i] # None
    /\ bundles' = [bundles EXCEPT ![i] = None]
    /\ UNCHANGED state

\* receive_message, handle_receive_message and the call to itself, by anyone
\* with the attestation and in any order; a used nonce is refused. A message
\* whose call fails can be received again.
handle_receive_message(m) ==
    /\ Live /\ m \in inbox
    /\ inbox' = inbox \ {m}
    /\ \/ /\ m.body.call = "pauseDeposits"
          /\ state' = [state EXCEPT !.pausedDeposits = m.body.pause]
          /\ UNCHANGED bundles
       \/ /\ m.body.call = "pauseFills"
          /\ state' = [state EXCEPT !.pausedFills = m.body.pause]
          /\ UNCHANGED bundles
       \/ m.body.call = "relayRootBundle" /\ relay_root_bundle(m.body.leaf, m.body.slow)
       \/ m.body.call = "emergencyDeleteRootBundle"
            /\ emergency_delete_root_bundle(m.body.id)
    /\ UNCHANGED <<plan, now, route, mailed,
                   fillVars, refundVars, scriptVars, tokenVars>>

-----------------------------------------------------------------------------
(* Deposits.                                                               *)

\* deposit_v3: in u32 a quote of the future makes the subtraction fail.
DepositAllowed(quote, deadline) ==
    /\ Live /\ ~ state.pausedDeposits /\ route
    /\ quote <= now /\ now - quote <= QuoteBuffer
    /\ now <= deadline /\ deadline <= now + DeadlineBuffer

deposit_v3(quote, deadline, amount) ==
    /\ DepositAllowed(quote, deadline) /\ state.numberOfDeposits < MaxDeposits
    /\ state' = [state EXCEPT !.numberOfDeposits = @ + 1]
    /\ vault' = vault + amount
    /\ deposited' = deposited + amount
    /\ UNCHANGED <<pending, bridged>>

\* simpleDeposit.ts, on a host whose clock is at most 1 ahead.
simpleDeposit(wall) ==
    /\ "deposits" \in plan
    /\ deposit_v3(wall - 1, wall - 1 + DepositWindow, 1)
    /\ UNCHANGED <<plan, now, route, bundles, inbox, mailed,
                   fillVars, refundVars, scriptVars>>

-----------------------------------------------------------------------------
(* Fills.                                                                  *)

Event(name, type, relayer, legacy) ==
    [name |-> name, type |-> type, relayer |-> relayer, legacy |-> legacy]

Status(r) == IF fill[r] = None THEN "Unfilled" ELSE fill[r].status

\* fill_v3_relay: s pays the recipient; repay is the repayment address.
fill_v3_relay(r, s, repay, legacy) ==
    /\ Live /\ ~ state.pausedFills
    /\ \/ r.exclusiveRelayer \in {s, Default}
       \/ r.exclusivityDeadline < now
    /\ now <= r.fillDeadline
    /\ Status(r) # "Filled"
    /\ fill' = [fill EXCEPT ![r] = [status |-> "Filled", relayer |-> s]]
    /\ log' = [log EXCEPT ![r] = Append(@,
                 Event("filledV3Relay",
                       IF Status(r) = "RequestedSlowFill" THEN "ReplacedSlowFill"
                                                          ELSE "FastFill",
                       repay, legacy))]
    /\ UNCHANGED <<plan, now, state, route, bundles, inbox, mailed, aged, closer,
                   refundVars, scriptVars, tokenVars>>

\* simpleFill.ts: the signer is repaid, in a legacy transaction.
simpleFill(r, s) == "fills" \in plan /\ fill_v3_relay(r, s, s, TRUE)

\* Other relayers' programs may name another address or use version 0.
otherFill(r, s) ==
    /\ "fills" \in plan
    /\ \E repay \in Signers, legacy \in BOOLEAN :
         fill_v3_relay(r, s, repay, legacy)

request_v3_slow_fill(r, s) ==
    /\ "fills" \in plan
    /\ Live /\ ~ state.pausedFills
    /\ r.exclusivityDeadline < now /\ now <= r.fillDeadline
    /\ Status(r) = "Unfilled"
    /\ fill' = [fill EXCEPT ![r] = [status |-> "RequestedSlowFill", relayer |-> s]]
    /\ log' = [log EXCEPT ![r] = Append(@,
                 Event("requestedV3SlowFill", "None", Default, TRUE))]
    /\ UNCHANGED <<plan, now, state, route, bundles, inbox, mailed, aged, closer,
                   refundVars, scriptVars, tokenVars>>

\* execute_v3_slow_relay_leaf: pauses do not stop it; the fill status account
\* must exist, and keeps the relayer that made the request.
execute_v3_slow_relay_leaf(r, i) ==
    /\ Live /\ bundles[i] # None /\ r \in bundles[i].slow
    /\ now <= r.fillDeadline
    /\ fill[r] # None /\ Status(r) # "Filled" /\ vault >= 1
    /\ fill' = [fill EXCEPT ![r].status = "Filled"]
    /\ log' = [log EXCEPT ![r] = Append(@,
                 Event("filledV3Relay", "SlowFill", Default, TRUE))]
    /\ vault' = vault - 1
    /\ UNCHANGED <<plan, now, state, route, bundles, inbox, mailed, aged, closer,
                   refundVars, scriptVars, deposited, pending, bridged>>

\* close_fill_pda, the deadline's part.
CanCloseAtDeadline(r) == now >= r.fillDeadline

CanClose(r) == now > r.fillDeadline

-----------------------------------------------------------------------------
(* closeRelayerPdas.ts, run again and again by every relayer.              *)

\* A thousand newer transactions of the program push an event off the page.
signatureAges(r) ==
    /\ "fills" \in plan /\ aged[r] < Len(log[r])
    /\ aged' = [aged EXCEPT ![r] = @ + 1]
    /\ UNCHANGED <<plan, now, state, route, bundles, inbox, mailed, fill, log, closer,
                   refundVars, scriptVars, tokenVars>>

\* readProgramEvents: one page of signatures, getSignaturesForAddress being
\* called once; readEvents: the events of legacy transactions only.
readEvents(r) ==
    SelectSeq(SubSeq(log[r], aged[r] + 1, Len(log[r])), LAMBDA e : e.legacy)

\* The relays whose fill names the relayer.
fillEventsForExclusive(s) ==
    {r \in Relays : r.exclusiveRelayer = s /\ readEvents(r) # <<>>}

fillEvents(s) ==
    {r \in Relays : \E e \in ToSet(readEvents(r)) :
                      e.name = "filledV3Relay" /\ e.relayer = s}

closeExpiredRelays(s) ==
    /\ closer[s] = {} /\ fillEvents(s) # {}
    /\ closer' = [closer EXCEPT ![s] = fillEvents(s)]
    /\ UNCHANGED <<plan, now, state, route, bundles, inbox, mailed, fill, log, aged,
                   refundVars, scriptVars, tokenVars>>

\* The next relay of the list: not expired by the host's clock, already
\* closed, refused by the program (another relayer's account, or the chain's
\* clock is behind), or closed.
closeFillPda(s, wall) ==
    /\ closer[s] # {}
    /\ LET r == CHOOSE x \in closer[s] : TRUE
           closes == /\ wall > r.fillDeadline
                     /\ fill[r] # None /\ fill[r].relayer = s /\ CanClose(r)
       IN  /\ closer' = [closer EXCEPT ![s] = @ \ {r}]
           /\ fill' = IF closes THEN [fill EXCEPT ![r] = None] ELSE fill
    /\ UNCHANGED <<plan, now, state, route, bundles, inbox, mailed, log, aged,
                   refundVars, scriptVars, tokenVars>>

\* The requester of a slow fill closes the account with a program of its own.
closeOther(r) ==
    /\ "fills" \in plan /\ fill[r] # None /\ CanClose(r)
    /\ fill' = [fill EXCEPT ![r] = None]
    /\ UNCHANGED <<plan, now, state, route, bundles, inbox, mailed, log, aged, closer,
                   refundVars, scriptVars, tokenVars>>

-----------------------------------------------------------------------------
(* Refund leaves and claim accounts.                                       *)

IsClaimedNever(i) == FALSE

IsClaimed(i) == bundles[i].claimed

\* execute_relayer_refund_leaf, to the token account or to a claim account.
\* Leaves are well formed and for this chain: its own checks of the chain id
\* and of the lengths refuse every other one.
execute_relayer_refund_leaf(i, leaf, deferred) ==
    /\ bundles[i] # None /\ bundles[i].leaf = leaf /\ ~ IsClaimed(i)
    /\ bundles' = [bundles EXCEPT ![i].claimed = TRUE]
    /\ executed' = executed \union {<<i, leaf>>}
    /\ pending' = pending + leaf.ret
    /\ IF deferred
       THEN /\ claim[leaf.to] # None
            /\ claim' = [claim EXCEPT ![leaf.to].amount = @ + leaf.amount]
            /\ UNCHANGED <<vault, received>>
       ELSE /\ vault >= leaf.amount
            /\ vault' = vault - leaf.amount
            /\ received' = [received EXCEPT ![leaf.to] = @ + leaf.amount]
            /\ UNCHANGED claim

\* A data worker with instruction parameters of its own.
dataworker(i, deferred) ==
    /\ bundles[i] # None
    /\ execute_relayer_refund_leaf(i, bundles[i].leaf, deferred)
    /\ UNCHANGED <<plan, now, state, route, inbox, mailed, fillVars,
                   scriptVars, deposited, bridged>>

initialize_claim_account(a, s) ==
    /\ "claims" \in plan /\ claim[a] = None
    /\ claim' = [claim EXCEPT ![a] = [amount |-> 0, initializer |-> s]]
    /\ UNCHANGED <<plan, now, state, route, bundles, inbox, mailed, fillVars,
                   received, executed, scriptVars, tokenVars>>

\* claim_relayer_refund by anyone: the account is closed.
claim_relayer_refund(a) ==
    /\ claim[a] # None
    /\ claim[a].amount > 0 /\ vault >= claim[a].amount
    /\ vault' = vault - claim[a].amount
    /\ received' = [received EXCEPT ![a] = @ + claim[a].amount]
    /\ claim' = [claim EXCEPT ![a] = None]
    /\ UNCHANGED <<plan, now, state, route, bundles, inbox, mailed, fillVars,
                   executed, scriptVars, deposited, pending, bridged>>

close_claim_account(a) ==
    /\ claim[a] # None /\ claim[a].amount = 0
    /\ claim' = [claim EXCEPT ![a] = None]
    /\ UNCHANGED <<plan, now, state, route, bundles, inbox, mailed, fillVars,
                   received, executed, scriptVars, tokenVars>>

\* bridge_tokens_to_hub_pool, through CCTP's deposit_for_burn.
BridgeAllowedByVault(amount) == amount <= vault

BridgeAllowed(amount) == amount <= pending /\ amount <= vault

bridge_tokens_to_hub_pool(amount) ==
    /\ Live /\ BridgeAllowed(amount)
    /\ pending' = pending - amount
    /\ vault' = vault - amount
    /\ bridged' = bridged + amount
    /\ UNCHANGED <<plan, now, state, route, bundles, inbox, mailed, fillVars,
                   refundVars, scriptVars, deposited>>

-----------------------------------------------------------------------------
(* simpleFakeRelayerRepayment.ts, by the owner.                            *)

Goto(pc) == run' = [run EXCEPT !.pc = pc]

\* The deposit that puts the refunds into the vault.
repayDeposit ==
    /\ "repayment" \in plan /\ run.pc = "idle" /\ run.k < MaxRuns
    /\ deposit_v3(now - 1, now + DepositWindow, FreshLeaf(run.k + 1).amount)
    /\ run' = [pc |-> "fetch", k |-> run.k + 1, id |-> 0]
    /\ UNCHANGED <<plan, now, route, bundles, inbox, mailed, fillVars,
                   refundVars, params, sent, tables, reaper>>

\* The refund accounts, the tree, and the id the next bundle should get.
repayFetch ==
    /\ run.pc = "fetch"
    /\ run' = [run EXCEPT !.pc = "relay", !.id = state.rootBundleId]
    /\ UNCHANGED <<plan, now, state, route, bundles, inbox, mailed, fillVars,
                   refundVars, params, sent, tables, reaper, tokenVars>>

\* The account passed must be the one of the id the pool has by now.
repayRelay ==
    /\ run.pc = "relay" /\ run.id = state.rootBundleId
    /\ relay_root_bundle(FreshLeaf(run.k), {})
    /\ Goto("create")
    /\ UNCHANGED <<plan, now, route, inbox, mailed, fillVars,
                   refundVars, params, sent, tables, reaper, tokenVars>>

\* createLookupTable, then extendLookupTable, which needs it active.
repayCreateTable ==
    /\ run.pc = "create"
    /\ tables' = [tables EXCEPT ![run.k] = "active"]
    /\ Goto("extend")
    /\ UNCHANGED <<plan, now, state, route, bundles, inbox, mailed, fillVars,
                   refundVars, params, sent, reaper, tokenVars>>

repayExtendTable ==
    /\ run.pc = "extend" /\ tables[run.k] = "active"
    /\ Goto("load")
    /\ UNCHANGED <<plan, now, state, route, bundles, inbox, mailed, fillVars,
                   refundVars, params, sent, tables, reaper, tokenVars>>

\* getAddressLookupTable finds it, and the parameters are loaded: the account
\* of an earlier run is closed, a new one is created, its fragments written.
repayLoad ==
    /\ run.pc = "load" /\ tables[run.k] # "closed"
    /\ params' = Blank
    /\ Goto("write")
    /\ UNCHANGED <<plan, now, state, route, bundles, inbox, mailed, fillVars,
                   refundVars, sent, tables, reaper, tokenVars>>

repayWrite ==
    /\ run.pc = "write"
    /\ params' = [id |-> run.id, k |-> run.k]
    /\ Goto("send")
    /\ UNCHANGED <<plan, now, state, route, bundles, inbox, mailed, fillVars,
                   refundVars, sent, tables, reaper, tokenVars>>

\* sendTransaction does not wait for the transaction to land.
repaySend ==
    /\ run.pc = "send"
    /\ sent' = sent \union {[id |-> run.id, k |-> run.k]}
    /\ Goto("close")
    /\ UNCHANGED <<plan, now, state, route, bundles, inbox, mailed, fillVars,
                   refundVars, params, tables, reaper, tokenVars>>

\* closeInstructionParams, and the balances are printed.
repayClose ==
    /\ run.pc = "close"
    /\ params' = None
    /\ Goto("idle")
    /\ UNCHANGED <<plan, now, state, route, bundles, inbox, mailed, fillVars,
                   refundVars, sent, tables, reaper, tokenVars>>

\* A call of the script fails, for its own reasons or as the guards say.
repayThrow ==
    /\ run.pc # "idle"
    /\ Goto("idle")
    /\ UNCHANGED <<plan, now, state, route, bundles, inbox, mailed, fillVars,
                   refundVars, params, sent, tables, reaper, tokenVars>>

\* The execute transaction lands: the parameters must still be its own and
\* the lookup table be readable.
land(tx) ==
    /\ tx \in sent /\ params = tx /\ tables[tx.k] # "closed"
    /\ execute_relayer_refund_leaf(tx.id, FreshLeaf(tx.k), FALSE)
    /\ sent' = sent \ {tx}
    /\ UNCHANGED <<plan, now, state, route, inbox, mailed, fillVars,
                   params, run, tables, reaper, deposited, bridged>>

\* It fails, or its blockhash expires.
drop(tx) ==
    /\ tx \in sent
    /\ sent' = sent \ {tx}
    /\ UNCHANGED <<plan, now, state, route, bundles, inbox, mailed, fillVars,
                   refundVars, params, run, tables, reaper, tokenVars>>

-----------------------------------------------------------------------------
(* closeDataWorkerLookUpTables.ts, run periodically.                       *)

Existing == {k \in DOMAIN tables : tables[k] \notin {"none", "closed"}}

reapList ==
    /\ reaper.left = {} /\ Existing # {}
    /\ reaper' = [left |-> Existing, at |-> 0]
    /\ UNCHANGED <<plan, now, state, route, bundles, inbox, mailed, fillVars,
                   refundVars, params, run, sent, tables, tokenVars>>

\* The deactivation fails, quietly, unless the table is active.
reapDeactivate ==
    /\ reaper.at = 0 /\ reaper.left # {}
    /\ \E k \in reaper.left :
         /\ reaper' = [reaper EXCEPT !.at = k]
         /\ tables' = [tables EXCEPT ![k] = IF @ = "active" THEN "cooling" ELSE @]
    /\ UNCHANGED <<plan, now, state, route, bundles, inbox, mailed, fillVars,
                   refundVars, params, run, sent, tokenVars>>

\* The closing fails, quietly, until the deactivated table has cooled down.
reapClose ==
    /\ reaper.at # 0
    /\ reaper' = [left |-> reaper.left \ {reaper.at}, at |-> 0]
    /\ tables' = [tables EXCEPT ![reaper.at] = IF @ = "cooled" THEN "closed" ELSE @]
    /\ UNCHANGED <<plan, now, state, route, bundles, inbox, mailed, fillVars,
                   refundVars, params, run, sent, tokenVars>>

\* Enough slots passed since the deactivation.
coolDown(k) ==
    /\ tables[k] = "cooling"
    /\ tables' = [tables EXCEPT ![k] = "cooled"]
    /\ UNCHANGED <<plan, now, state, route, bundles, inbox, mailed, fillVars,
                   refundVars, params, run, sent, reaper, tokenVars>>

-----------------------------------------------------------------------------

Tick ==
    /\ "clock" \in plan /\ now < MaxTime
    /\ now' = now + 1
    /\ UNCHANGED <<plan, state, route, bundles, inbox, mailed, fillVars,
                   refundVars, scriptVars, tokenVars>>

closerStep(s) ==
    closeExpiredRelays(s) \/ \E wall \in now .. now + 1 : closeFillPda(s, wall)

reaperStep == reapList \/ reapDeactivate \/ reapClose

Next ==
    \/ Tick
    \/ initialize
    \/ \E b \in BOOLEAN : enableRoute(b)
    \/ \E c \in Calls : sendMessage(c)
    \/ \E m \in inbox : handle_receive_message(m)
    \/ \E wall \in now .. now + 1 : simpleDeposit(wall)
    \/ \E r \in Relays, s \in Signers :
         simpleFill(r, s) \/ otherFill(r, s) \/ request_v3_slow_fill(r, s)
    \/ \E r \in Relays, i \in Ids : execute_v3_slow_relay_leaf(r, i)
    \/ \E s \in Signers : closerStep(s)
    \/ \E r \in Relays : closeOther(r) \/ signatureAges(r)
    \/ \E i \in Ids, deferred \in BOOLEAN : dataworker(i, deferred)
    \/ \E a \in Addresses, s \in Signers : initialize_claim_account(a, s)
    \/ \E a \in Addresses : claim_relayer_refund(a) \/ close_claim_account(a)
    \/ bridge_tokens_to_hub_pool(1)
    \/ repayDeposit \/ repayFetch \/ repayRelay
    \/ repayCreateTable \/ repayExtendTable \/ repayLoad \/ repayWrite
    \/ repaySend \/ repayClose \/ repayThrow
    \/ \E tx \in sent : land(tx) \/ drop(tx)
    \/ reaperStep
    \/ \E k \in 1 .. MaxRuns : coolDown(k)

Spec == Init /\ [][Next]_vars

\* Time passes, and relayers and data workers rerun their closing scripts.
FairSpec ==
    /\ Spec /\ WF_vars(Tick) /\ WF_vars(reaperStep)
    /\ \A s \in Signers : WF_vars(closerStep(s))
    /\ \A k \in 1 .. MaxRuns : WF_vars(coolDown(k))

-----------------------------------------------------------------------------
(* Properties.                                                             *)

\* What is outstanding is never negative, accounts hold what their type says,
\* and every bundle id in use was handed out by the pool.
TypeOK ==
    /\ now \in 1 .. MaxTime /\ mailed \in 0 .. MaxMessages
    /\ state # None => /\ state.numberOfDeposits \in 0 .. MaxDeposits
                       /\ state.rootBundleId \in 0 .. MaxBundles
    /\ \A r \in Relays :
         fill[r] # None => /\ fill[r].status \in {"RequestedSlowFill", "Filled"}
                           /\ fill[r].relayer \in Signers
    /\ \A r \in Relays : aged[r] \in 0 .. Len(log[r])
    /\ \A i \in Ids : bundles[i] # None => i < state.rootBundleId
    /\ {vault, deposited, pending, bridged} \subseteq Nat
    /\ \A a \in Addresses : received[a] \in Nat
    /\ \A k \in DOMAIN tables :
         tables[k] \in {"none", "active", "cooling", "cooled", "closed"}

\* What the events of a relay say of it: the places of its fills, its stage,
\* and how it was delivered, which its last event says.
Delivered(l) == {i \in DOMAIN l : l[i].name = "filledV3Relay"}

StageOf(l) ==
    IF Delivered(l) # {} THEN "Filled"
    ELSE IF l # <<>> THEN "RequestedSlowFill" ELSE "Unfilled"

OutcomeOf(l) == IF Delivered(l) = {} THEN "None" ELSE Last(l).type

Lifecycle == INSTANCE RelayLifecycle WITH
    Relay <- Relays,
    status <- [r \in Relays |-> StageOf(log[r])],
    outcome <- [r \in Relays |-> OutcomeOf(log[r])],
    deliveries <- [r \in Relays |-> Cardinality(Delivered(log[r]))]

\* The program keeps the promise of the EVM SpokePools: a relay is delivered at
\* most once and its event says how, although the account that remembers it is
\* closed (close_fill_pda) and may be created again.
RefinesLifecycle == Lifecycle!Spec

Outstanding(a) == IF claim[a] = None THEN 0 ELSE claim[a].amount

\* The leaves that refund an address, and their amounts.
RefundsOf(a) == {x \in executed : x[2].to = a}

Refunded(a) == SumFunction([x \in RefundsOf(a) |-> x[2].amount])

SlowFilled == {r \in Relays : \E e \in ToSet(log[r]) : e.type = "SlowFill"}

\* Every refund that was executed was paid once, at once or by a claim, and the
\* vault is what was deposited without refunds, slow fills and bridged tokens:
\* whatever lands twice, late or after its parameters were replaced.
RefundsExplained ==
    /\ \A a \in Addresses : received[a] + Outstanding(a) = Refunded(a)
    /\ deposited = vault + bridged + SumFunction(received) + Cardinality(SlowFilled)

\* The rent of a lookup table is got back by the scripts, and so is that of
\* the fill status account of a relayer who is repaid itself in a legacy
\* transaction, unless its event leaves the page of signatures first.
RentReclaimed ==
    /\ \A k \in 1 .. MaxRuns : tables[k] = "active" ~> tables[k] = "closed"
    /\ \A r \in Relays, s \in Signers :
         (/\ fill[r] # None /\ fill[r].relayer = s
          /\ \E i \in aged[r] + 1 .. Len(log[r]) :
               log[r][i].legacy /\ log[r][i].relayer = s)
           ~> fill[r] = None \/ aged[r] = Len(log[r])
=============================================================================
