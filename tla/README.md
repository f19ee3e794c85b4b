# Across hub and spoke pools: a TLA+ verification project

The repository holds the contracts of the Across bridge: the `HubPool` on
Ethereum, a `SpokePool` on every other chain (and on Ethereum), the adapters
that carry tokens and messages between them, periphery contracts, a Solana
implementation of the spoke, and the TypeScript with which operators deploy,
configure and run all of it.  This directory models them in TLA+, checks the
models with TLC on small instances and proves theorems about them with TLAPS.

## The system

Users deposit tokens in the SpokePool of an origin chain.  Relayers pay the
recipient from their own funds on the destination chain (a *fast fill*), or the
system pays from the destination pool (a *slow fill*, which somebody requests).
Off-chain data workers read the events of all pools and propose *root bundles*
to the HubPool: Merkle roots of the tokens to move between the pools, of the
refunds of relayers and of the slow fills.  After a challenge period without
dispute the leaves are executed: the HubPool sends tokens and the roots to the
SpokePools, where anybody executes refund and slow fill leaves.  Liquidity
providers (LPs) lend the HubPool its tokens and earn fees.

Operators are part of the system: some bridges only deliver what somebody claims
on the other side (CCTP, Linea, Polygon zkEVM, Scroll); contracts get onto the
chains, and their addresses into `deployments.json`, by scripts that stop half
way and are run again; a token becomes usable by a batch of HubPool calls that a
task composes; and on Solana relayers and data workers close accounts to get
their rent back.  None of these programs keeps state between its runs except the
files of the working copy, so what one run sees may be stale at its next `await`.

### Inventory

| Component | State | Operations | What is hard | What makes it correct |
|---|---|---|---|---|
| SpokePool | fill statuses, root bundles and claimed bits, deposit counter, routes, pauses, admin and owner | deposits (6 kinds), speed-up, fills (2 kinds), slow fill request, slow fill and refund leaves, admin calls | the recipient's callback re-enters an unlocked `fillV3Relay`; races of fast and slow fills; deadlines in 32 bits; leaves repeated in any order | a relay is filled once, in its window, on its depositor's terms; a leaf is paid once; events account for every token |
| HubPool, BondToken | the proposal, pooled tokens, bond and other settings, protocol fees | propose, execute, dispute, emergency delete, add and remove liquidity, sync, fee claims, admin calls | settings that change under a proposal; disputes racing execution; an oracle that refuses; bonds mixed with liquidity; rounding | one bond per proposal settled once; leaves wait out the challenge period; reserves add up; the rate never falls |
| MerkleLib | bitmaps | verify, isClaimed, setClaimed | index arithmetic | a bit stands for one leaf |
| Lockable, LpTokenFactory | a lock; LP tokens | nonReentrant; create | | |
| Chain SpokePools (OVM family, Ethereum, Arbitrum, Polygon, ZkSync, Linea, Scroll, PolygonZkEVM, Succinct, Blast) | bridges, admin latches | `_requireAdminSender`, `_bridgeTokensToHubPool`, `_preExecuteLeafHook` | latches left open; native tokens that are wrapped late | only the hub's messages act as admin |
| Adapters, Router, forwarders, withdrawal helpers, CCTP | few settings | relayTokens, relayMessage | delivery in any order over two hops | what is sent arrives once at the right pool |
| ERC-7683 and Permit2 settlers, SwapAndBridge, SpokePoolVerifier, MulticallHandler | nonces | open, resolve, swap, handle | conversions, leftovers | the deposit is the order's |
| PermissionSplitterProxy, AcrossMerkleDistributor, MintableERC1155, AcrossConfigStore | roles, claims, config | | | |
| SVM spoke program | state, fill status, root bundle and claim accounts | deposit, fill, slow fill, bundles, deferred refunds, CCTP messages | accounts closed and opened again | as SpokePool: delivered once, refunds paid once |
| SVM scripts | none; the owner's instruction parameters and lookup tables on chain | initialize, route, deposit, fill, repayment, closing of fill accounts and lookup tables | an id read before an await; a transaction sent and not confirmed; parameters of two runs in one account; a reaper beside a running script | refunds are the bundle's, rent comes back |
| Claim scripts and tasks (CCTP, Linea, zkEVM, Scroll) | none | scan blocks in chunks, list messages, wait, claim; pages of an API; replay | blocks mined during a scan; others who claim; a failed call; a killed run; events and addresses that do not exist | a window is read completely, runs end, what a working script claims is claimed in the end |
| Deploy scripts, networks, address book | artifacts per network, `deployments.json`, the contracts on the chains | 51 scripts, export, upgrade, verify | commands that stop between creating and recording; repeated commands; new releases between them; two sources of addresses | nothing is wired to a replaced HubPool or to an implementation; a recorded pool is configured for its network |
| Token enabling | LP token, deposit routes, pool rebalance routes, Arbitrum whitelist | the task's batch of calls, the whitelist script | chains listed and left out, symbols that differ per chain | routes have a rebalance route with the same token |
| Other tooling (remote pause, queries, generators, relay data printers) | none | | | not modelled |

Components call each other within a transaction (adapters are delegate-called by
the HubPool, recipients are called back by the SpokePool), send messages over
bridges between chains, and otherwise interact only through tokens and events.

## Modules

* `SpokePool.tla`: `contracts/SpokePool.sol` with the parts of the chain pools that
  change its behaviour as parameters (`AdminIsOwner`, `WrapHookToken`).
* `RelayLifecycle.tla`: what a SpokePool promises about one relay: it may be
  requested as a slow fill, and it is delivered at most once, as a replaced slow
  fill exactly if a request came first.
* `MCSpokePool.tla` with `MCSpokePoolFills`, `-Leaves`, `-Deposits`, `-Paused` and
  `-Routes.cfg`: its instances.
* `SpokePoolProofs.tla`: the theorems about `SpokePool`; `SpokePoolFundsProofs.tla`: the
  one about its balances.
* `HubPool.tla`: `contracts/HubPool.sol` and `contracts/BondToken.sol`.
* `MCHubPool.tla` with `MCHubPoolProposals`, `-Liquidity` and `-Haircut.cfg`.
* `HubPoolProofs.tla`: the theorems about `HubPool`.
* `SvmSpoke.tla`: `programs/svm-spoke` and `scripts/svm` in one state space; it uses
  `RelayLifecycle` as its abstract specification, as `SpokePool` does.
  `MCSvmSpoke.tla` and `.cfg`: its instance.  `SvmSpokeProofs.tla` and
  `SvmSpokeFundsProofs.tla`: its theorems.
* `MessageClaims.tla`: the claim scripts beside the bridges they finish.
  `MCMessageClaims.tla` with `MCMessageClaims.cfg` and `MCMessageClaimsToL2.cfg`.
  `MessageClaimsProofs.tla`: its theorems.
* `DeployScripts.tla`: the 51 files of `deploy/` as records, with the tables they
  read (`consts.ts`, `hardhat.config.ts`); no state.  `Deployment.tla`: the commands
  that run them, and the token task.  `MCDeployment.tla` and `.cfg`.
  `DeploymentProofs.tla`: its theorems.
* `SumTheorems.tla`: facts about sums, for the proofs about tokens.

### How the SpokePool module corresponds to the code

Storage variables keep their names.  `fillStatuses` is indexed by the relay
instead of its hash, a Merkle root is the set of its leaves, a bitmap the set of
its bits, and `signatures` the updates that `isValidSignatureNow` accepts (an
EIP-1271 wallet may take one back).  Collisions of hashes are excluded.  Every
external function is an action whose guards are its modifiers and reverts.

The EVM runs one transaction at a time, but a fill with a message calls its
recipient.  A fill therefore ends, in the model, with its frame on `stack`;
until `HandlerReturns` pops it, the contracts (and only they) may take any step
whose lock permits it.  `entered` is the lock of `ReentrancyGuard`, which
`fillV3Relay` does not take because its modifiers are commented out.  A
callback that reverts restores an earlier state and needs no step.  On an L2
anybody may deliver the admin's message, also inside a callback.

Events are kept as variables (`depositEvents`, `fillEvents`, `leafEvents`, ...):
data workers see nothing else, and the properties compare them with the state.

Times are full integers where the code uses `uint256` and are cut to 32 bits
(`U32`) where it casts.  Tokens are well-behaved ERC20s, and a pool is not a
recipient of its own fills.  Whether wrapped native is delivered wrapped or
unwrapped is not told apart.  A multicall is a sequence of its caller's steps;
upgrades and `fill()` of ERC-7683 are not modelled.

### How the HubPool module corresponds to the code

All functions that change state are `nonReentrant`, so each is one step.  LP
tokens are transferable, so only their supply matters; any holder may burn.  The
oracle's acceptance of a price request is a nondeterministic choice, final fees
change at will, and tokens arrive at any time (a bridge, or anybody).  What the
hub relays to a spoke is appended to `messages`.  `proposalLog`, `lpCapital`,
`lost` and `feesClaimed` are what an auditor derives from the events.  `CanDispute`
gathers the guards of `disputeRootBundle` and `Cancelled` says when it cancels the
bundle instead of asking the oracle, so that "can be disputed" is stated without
`ENABLED`.  Raw ETH and the transfer of ownership are not modelled, and the model
ends before times outgrow `uint32` (`BoundAssumption`).  `HaircutReserves` with a negative
amount takes a haircut back; `HubPool.sol:436-439` does not bound it, and the model
assumes an owner who takes back no more than was cut.

### How the SvmSpoke module corresponds to the code

An instruction is an action; if it returns an error nothing changes.  Accounts are
functions from what seeds them to their contents or `None`: `fill` (per relay),
`bundles` (per root bundle id), `claim` (per refund address), `params` (the owner's).
`None` is also what a closed account leaves, and `init_if_needed` creates it again.
Events are the sequence `log` of a relay, with `legacy` false for events that a version-0
transaction carries: `readEvents` does not see those, and `closeRelayerPdas.ts`
works from what it sees.  It sees one page of the program's signatures, the newest
1000: `aged` counts the events of a relay that newer transactions have pushed out of
it, and `signatureAges` pushes out the next one at any time.  Stage and outcome of a relay, which the lifecycle speaks
of, are read off its log and not off its account, since the account may be gone.
A message of the HubPool is in `inbox` until CCTP's
`receiveMessage` passes it to `handle_receive_message`, in any order.

A script is a sequence of steps with a program counter (`run` for the repayment
script, `closer` and `reaper` for the closing ones); other actors act between any
two.  The repayment script reads the next bundle id (`repayFetch`), relays a bundle
under it, makes a lookup table, writes the parameters of its leaf into the one
account its signer has, sends the execute transaction without confirmation and
closes the parameters.  That transaction is then in `sent` and lands at any later
time, if the parameters and the table are still its own, or never.  `repayThrow`
ends the script at any call.  There is one token, and a bundle has one refund leaf, well formed and for this chain
(the checks of `bundle.rs:119-134` reject others before anything changes).
Routes are enabled and disabled by the owner's script only, not through the
HubPool; transfers of ownership and of the cross-domain admin are left out.

### How the MessageClaims module corresponds to the code

A running script is a record in `run`: which script, its program counter, the head
it read at the start, its look-back, the first block of the chunk it queries next,
transactions and messages found, what is left to do, what failed.  `StartScan` is
the head query, `getSrcEvents` one step per chunk of `MAX_BLOCK_LOOKBACK + 1` blocks,
then the parsing of receipts (for CCTP the first `MessageSent` log of a transaction
only), and for Linea the waiting loop and one claim per step.  The zkEVM and Scroll
scripts get a page of `PAGE` messages from an API instead.

At this commit the scripts reject in several places, and the model does too:

* `scanRejects`: the scans of L2 query `<prefix>TokensBridged` (CCTP,
  `finalizeCCTPMessages.ts:253-271`) and `LineaTokensBridged`
  (`claimLineaMessages.ts:167`); the pools declare `TokensBridged` only, so ethers'
  `queryFilter` throws in the first chunk.
* `getMessages`: once something is claimable the zkEVM script looks for
  `polygonZkEvmBridge` in the address maps, which have it neither for mainnet nor for
  chain 1101 (the Goerli testnet's L2 entry has it, but not its l1 companion).
* `StartScan`: a CCTP scan does not start on chains without an artifact name.

The CCTP script's scan of mainnet works but finds nothing (the finding of
`message_claims_to_l2`), so what follows its work list is never reached and has no
action: with a work list it would be at `"attest"`, where it polls Circle's sandbox
(line 173), which does not know messages of the main networks.

Environment: blocks are mined while a scan runs, bridges anchor or prove messages
(`BecomeReady`), others claim messages in `Contested`, Scroll claims are mined late,
calls fail and runs are killed (`MaxFaults`).  Look-backs are taken to be no longer than
the chain (`BoundsAssumption`).

### How the Deployment modules correspond to the code

A script of `DeployScripts` is a record: its tags, the contracts it makes and how
(direct, proxy, CREATE2, zkSync), whether it asks for the HubPool of its network or
of the l1 companion, whether it asks `getDeployedAddress` for the pool, and the keys
of `L1_ADDRESS_MAP`, `L2_ADDRESS_MAP` and the other tables that it reads.
`Resolves` says whether those keys exist.  Two assumptions in `MCDeployment`, which TLC
evaluates, list what cannot run whatever is deployed.  `UnrunnableScripts`: the scripts of
`PolygonZkEVM_Adapter`, `Blast_Adapter` and `Blast_DaiRetriever` on mainnet, the network
their tag names.  `NowhereRunnableScripts`: these three and script 031
(`PolygonZkEVM_SpokePool`), whose tag `polygonZkEvm` names no network and for whose chain
1101 `L2_ADDRESS_MAP` has no entry.

`Deployment` runs the selected scripts of a command in the order of their files:
`cmd.todo` is the set of scripts left, and the least runs next.  No script checks that
it runs on the network it was written for, so `PoolsAssumption` says that operators
run the script of a pool on that pool's network.  Creating an implementation, creating its
proxy, saving the artifact and verifying it are separate steps, and a command may fail
at each (`MaxFailures`).  `chain` is the log of
contracts created per network, with the pool and hub addresses each was given;
`saved` are hardhat-deploy's artifacts, `json` is `deployments.json`.  A new `release`
changes the bytecode: scripts with `skipIfAlreadyDeployed` still skip, the others
deploy again.  An artifact that was saved by hand (the pools' and the zkSync multicall
handler's) has no receipt, so the export fails on it.  Any implementation on the
network may be the target of `upgradeTo`.  The token task computes its calls from the chains that have
an address of the symbol, exactly as the task does, USDC and USDC.e included.

## Runs

| Run | Question | Result |
|---|---|---|
| `spoke_fills` | two relays (one exclusive, both calling back), a signed update that may be revoked, slow fills, two nested callbacks, a clock past 32 bits | holds: filled exactly once, recorded before the callback, lock sound, within its window, with a truthful type, on the depositor's or the bundle's terms, without pool funds for fast fills; refines `RelayLifecycle` |
| `spoke_leaves` | two root bundles with leaves that share ids, are malformed or for another chain; deletion; native to wrap | holds: leaves paid once, only what an authorised root contains; bundle ids not reused; events explain the balance |
| `spoke_deposits` | all deposit functions, two deposits, expiring quotes, exclusivity as offset and timestamp | holds: ids unambiguous, deposits fillable by somebody, events explain the balance |
| `hub_proposals` | two proposals, one announcing fewer leaves than its root has; disputes with an oracle that may refuse; changing bond, fee, liveness, pause, approvals | holds: one bond per proposal, settled once; the full challenge period; leaves once; only approved proposers; disputable to the last second |
| `hub_liquidity` | one token that is lent, returned, dropped, bonded, claimed and cut by one; two leaves with fees | holds: reserves backed and explained, fees covered, the rate never falls |
| `svm_spoke` | the Solana program beside all its scripts: three casts of actors (relayers and slow fills; deferred refunds, pauses and deletions; repayment script beside the HubPool's bundles) | holds: refines `RelayLifecycle` although fill accounts are closed and created again; every executed refund is paid once and the vault adds up; rent of tables comes back, and of fill accounts unless their event leaves the page of signatures that is read (liveness) |
| `message_claims` | all claim scripts run again and again while blocks are mined, others claim, a call fails or a run is killed | holds: an L1 scan reads its window exactly; a finished run has settled what it found; every run ends or rejects; Linea's L1 messages, unless they leave the window, and Scroll's withdrawals are claimed in the end (liveness) |
| `deployment` | four sets of commands in any order on mainnet, Polygon and zkSync, with one failure, two releases, recording by hand, exports, upgrades, and the token task | holds: contracts are given the live HubPool and proxies of SpokePools, recorded pools have what the assertions of `verify-spokepool` want, routes have matching rebalance routes |
| `spoke_paused` | does `pauseFills` stop fills, as its comment and a test say? | violated: `fillV3Relay` does not ask |
| `spoke_routes` | can the admin enable a route, as comment and tests say? | violated behind a proxy, which has no owner |
| `hub_haircut` | can the numerator of the exchange rate become negative? A comment says never | violated by a haircut of all utilized reserves |
| `message_claims_to_l2` | does the CCTP script list the L1 to L2 messages of its window, as its comment says? | violated: on mainnet `L1_ADDRESS_MAP` has no `usdc` to compare with |

Each passing property also has a mutant: a variant of one modelled definition, with a
plausible mistake, under which TLC finds the property violated.

Bounds, all named constants: `MaxTime` lets time pass every deadline and (spoke)
2^32, here 4; `MaxBundles`, `MaxDeposits` and `MaxProposals` are 2 in the
instance whose question is about them, so that two of a kind interfere, and
`MaxDepth` = 2 lets a callback be called back in the fills; `MaxBalance`,
`MaxMessages` and `MaxHaircut` only cut unbounded counters.  Amounts of 0 to 3
with a fixed-point unit of 4 produce rounding in both directions.  Each spoke
instance closes the functions that its question does not touch by giving them no
arguments; together the instances take every action.  In the pools every state
still has steps, so deadlock is checked there; the operators' models end where a
bound ends them and do not check it.

`Plans` in `SvmSpoke` and `Deployment` is the set of casts that may take part in one
behaviour: the actors of one cast share state that the others do not touch, and all
together would only multiply the states.  What the bounds let happen:

* `SvmSpoke`: time before, between and after both deadlines of the relay; a fill
  account closed and created again; two bundles and two messages, so that an id
  read by the script is taken by the HubPool's bundle; two runs of the repayment
  script, so that a transaction of the first lands during the second.
* `MessageClaims`: chunks of two blocks with look-backs of 2 and 3 (one ends on a
  chunk's edge and leaves out the head, one does not) over blocks 4 to 8: what is sent
  at the head comes into the window with the next block, and what is sent in block 4
  has left every window at block 8.  Two of four transactions, one of which sends over two
  bridges at once; pages of one message; one crash or failed call at any point.
* `Deployment`: three networks (hub, a proxy deployed by hardhat-upgrades, zkSync's
  own deployer), four or five contracts on each, so that a command is repeated after a
  failure and after a second release.

## Fairness

Nothing in one pool happens without a caller, so no fairness is stated for the
pools.  The operators' models state:

* `MessageClaims`: a started script keeps running (weak fairness of its steps: it is
  a process); bridges anchor, prove and mine in the end (weak fairness); and operators
  start the Linea script (for L1 messages, with their longest look-back) and the Scroll task
  again and again.  Nothing in the repository schedules the scripts, so the strong
  fairness of starting these two states the duty of the operators on which
  `EventuallyClaimed` rests.  `RunTerminates` needs only the first two.
* `SvmSpoke`: the clock ticks, closing scripts are run again and their steps
  happen, deactivated tables cool down (all weak).  No fairness for fills,
  deposits, bundles or the repayment script.

## Proofs

All theorems hold for every value of the constants (any sets of relays, leaves,
bundles, tokens, messages, networks and commands, any bounds), from the named
assumptions of the modules, which TLC evaluates on every instance.  Relays and leaves
are finitely many (they are made of fixed-width words) where sums range over them, and
the arrays of a pool rebalance leaf have one length (`ParallelAssumption`, the comment
of `PoolRebalanceLeaf` in `HubPoolInterface.sol:36`).

The inductive invariants are definitions of the proof modules; TLC finds no violation of
them on the instances above.

### SumTheorems

The properties about tokens add up events: deposits, fills, refunds.  `SumFunction` is
a recursive function over the subsets of a domain, which takes out an arbitrary element
at a time.  That it is well defined (`PartialSumsDef`) and that any element may be taken
out first (`TakeAny`) are inductions over finite sets, done without induction
schemata: among the subsets that violate the claim there is a smallest one
(`SmallestSubset`, from the well-foundedness of the subset ordering), and it leads
to a contradiction.  The rest follows: a sum grows by the term that is added (`SumAdd`),
changes by what one term changes by (`SumChange`), and is natural if its terms
are (`SumNat`); an entry adds its weight to a log (`WeightOfAppend`) and to a family of
logs (`FamilyAppend`).

### SpokePoolProofs

* `TypeCorrect`: `Spec => []TypeOK`.
* `RelaysFilledOnce`: a relay is `Filled` exactly if one fill event exists, at most
  one ever.  The invariant is inductive with `TypeOK`, because every fill goes
  through `MarkFilled`, which tests and sets the status before anything else.
* `EffectsBeforeInteraction`: relays on `stack` are `Filled`, from `MarkFilled` and the
  fact that no action leaves the status `Filled`.
* `LockIsSound`: `entered` says whether a guarded frame is on the stack.  The proof
  needs that a guarded fill is impossible while the lock is held, so that at most
  one frame is guarded.
* `FillsStayInWindow`: by the deadlines' guards in each of the three fills.
* `FillTypesAreTruthful`: strengthened by `FillTypeInv`.  The status that a fill reads
  has to tell whether there was a request, and it stops telling once it is `Filled`, so
  no request may come after a fill; that is where `RelaysFilledOnce` is needed.
* `FillsHonourTerms`, `RefundsAreAuthorised`: strengthened by `AuthorityInv`.  Roots and
  signatures in force were given by the admin and the depositors, and what was once
  given stays on record although it may be deleted or revoked afterwards.
* `FastFillsAreFree`: an action property, fill by fill, also where wrapped native passes
  through the pool.
* `PoolImplementsLifecycle`: initial states map to initial states, every step to
  a lifecycle step or a stutter, using `RelaysFilledOnce`.
* `LeavesPaidOnce`: a claimed bit for every executed leaf id, and no two events with
  one id; stable because bitmaps never shrink, not even when a bundle is deleted.
* `BundleIdsStayPut`: an action property from the shape of `rootBundles`.
* `DepositIdsNeverClash`: strengthened by `DepositIdInv`: every counter id in the log is
  below `numberOfDeposits`.
* `DepositsStartFillable`: from the guards of the deposits, the sum of offset and
  time in 32 bits included.

### SpokePoolFundsProofs

* `BalancesAreExplained`: `EventsExplainBalance`.  Of each token, the balance with what slow
  fills, refund leaves and removals paid is what deposits and arrivals brought.  With
  `TypeOK` the equation is inductive.  Every step moves tokens in one of five ways
  (`StepsOfFunds`): nothing, a deposit, a fill, a refund leaf, or an arrival or a removal;
  each appends at most one entry to one log, with the weight by which the
  balance changes (`NextExplained`).  Fast fills weigh nothing, also those that pass wrapped native
  through the pool, and what the hook wraps before a leaf counts as an arrival.

### HubPoolProofs

* `TypeCorrect`: `TypeOK` with the bounds of time and log (`TypeInv`).  That a leaf sends
  and credits natural numbers (`LeafSums`) needs that the protocol's share of a fee,
  rounded down, is at most the fee (`ProtocolShare`).
* `BondOwedOnce`, `ChallengeSurvived`, `ExecutedOnce`: from one invariant, `BundleInv`.  The
  entry of the open proposal agrees with the contract's storage: bond token, amount,
  proposer, end of the challenge period; its executed leaves are in the bitmap, and
  they and the unclaimed ones add up to the announced count (`OpenOK`).  Closed entries
  are as they should be for good (`EntryOK`), and without an active request the
  stored challenge period is over, so that a deleted proposal cannot be disputed.
* `ApprovedProposers`: from the order of the steps of `proposeRootBundle`.
* `ProposalsDisputable`: from `BundleInv` and `ReservesBacked`: the pool holds the bond that
  a dispute has to pay out.
* `ReservesAreBacked`, `ReservesAreExplained`, `FeesAreCovered`: together `LiquidityInv`.
  `FeesCovered` is not inductive as it stands, since a cut does not stop the fees from
  being smeared: the invariant is that the numerator is negative by no more than was
  cut.  Adding liquidity at a rounded rate needs the division lemmas.
* `RateHolds`: an action property.  With an unchanged supply the rate follows the
  numerator; where shares are minted or burnt, that the quotient rounds against the
  caller.

### SvmSpokeProofs

* `TypeCorrect`, and `ProgramImplementsLifecycle`: the second implementation of
  `RelayLifecycle`.  As long as a relay can be filled its account and its events agree;
  a relay without an account has no events or its fill deadline has passed
  (`RelayInv`), which is what makes closing accounts safe.

### SvmSpokeFundsProofs

* `RefundsAreExplained`: `RefundsExplained`.  What an address received or can claim is the sum
  of the leaves executed for it, and the vault is what was deposited less refunds,
  slow fills and bridged tokens.  It is not inductive: that a leaf is paid once
  rests on the bundle account, which the owner may delete.  `HistoryInv` says what
  remains: an executed leaf belongs to an id that was handed out, whose account is gone or
  marked, and ids are not handed out twice.  That a slow fill is counted once comes from
  `RelayInv`: a relay that can be filled has no fill among its events.

### MessageClaimsProofs

* `TypeCorrect`.
* `ScansCoverWindow`: the loop's invariant (`ScanOK`).  What was read so far is the
  window up to the next chunk (on L2 no chunk is read), and what is left of the window is the look-back less
  whole chunks, which decides whether the head is read.
* `FinishedRunsSettled`: a message leaves the work list only when it is claimed, logged as
  failed or in flight, and a script about to claim knows the message is ready
  (`SettleOK`).  Others who claim only help.

### DeploymentProofs

The table of the 51 scripts is used through one lemma (`TableOK`): a script makes one
contract that is no HubPool, or it is the script of the HubPool, which skips what
exists.

* `TypeCorrect`: with `RecordInv` and `CmdInv`: what a command is about to save is there
  under the name it will be saved with, and between the two transactions of a proxy the
  implementation is there.
* `WiredToLive`: `WiredInv`.  A HubPool is saved only where none was saved before
  (`CmdInv`), so an address once handed out stays the one in use.
* `RecordedConfigured`: a recorded pool is a proxy whose admin is the HubPool of its hub
  chain and whose implementation, also after upgrades, has the network's native
  token; `deployments.json` and the artifacts agree about the HubPool.  The only
  theorem that rests on `PoolsAssumption`.
* `RoutesAreRebalanced`: `RouteInv`, in which the token of a rebalance route is always the
  chain's own.

### Only model-checked

Liveness (`RunTerminates`, `EventuallyClaimed`, `RentReclaimed`), which is beyond the
prover: every invariant, every action property and both refinements that a passing
run checks are also proved.  What the four violation runs show are counterexamples.

## Observations

Facts met while modelling that no run states, because no line of the repository
promises otherwise or because they concern one line only:

* `enableL1TokenAcrossEcosystem.ts:222` sends `whitelistToken` only when the deposit
  route chains include Arbitrum; the comment above it reads the other way round.
* A constants upgrade that moves a chain from USDC.e to USDC and a second run of
  that task leave the old deposit routes with the new rebalance token.
* `processHardhatExport.ts` (lines 20 and 34) writes nothing once a pool artifact is
  in the export: a TypeError is swallowed by an empty `catch`.
* Scripts 008 and 010 deploy `PolygonTokenBridger` by CREATE2, at an address that
  depends on the release; script 011 has the address as a literal.
* `utils.hre.ts:57` decides by `deployments.json` alone: a second run before the
  address is recorded there, or after an export has dropped it, deploys a second proxy.
* `verifySpokePool.ts:34` gets the artifact `Ethereum_SpokePool` for its ABI, which throws on
  every network without it: the task does not get to its assertions on the L2s.
* `claimProtocolFeesCaptured` (`HubPool.sol:816-821`) pays from the pool's balance.  With a
  bond token that LPs also lend, claims beyond the liquid reserves take the bond, and
  disputes and the return of the bond revert until tokens arrive
  (`LiveProposalsDisputable` excludes this case).
* `verifySpokePool.ts:67` expects WETH on Amoy, where the pool was given WMATIC.
* The L2 to L1 scans of the CCTP and Linea scripts query events that no contract
  declares, and the zkEVM script finds no bridge address where its networks are
  configured (see above); attestations are always asked of Circle's sandbox
  (`finalizeCCTPMessages.ts:173`).
* The zkEVM claim script asks for one page (limit 100, offset 0), and the CCTP
  script reads only the first `MessageSent` log of a transaction (line 186).
* `remotePauseDeposits.ts:89` compares a number with a BigInt and, with the ethers
  version of the package, always throws.
* `closeRelayerPdas.ts:1` says that it closes all fill accounts of a relayer.  It reads the
  newest 1000 signatures only (`SvmUtils.ts:92`) and ignores version-0 transactions
  (line 48), and accounts of slow fill requesters are never found.
* The repayment script may close its parameters before its unconfirmed execute
  transaction lands, which then fails; the table reaper may deactivate a table
  that a running script still extends.  Neither loses tokens (`RefundsExplained`).

## Plan

1. (done) `SpokePool`, `RelayLifecycle`, their proofs, and `HubPool`.
2. (done) `SvmSpoke` as a second implementation of `RelayLifecycle`, with its scripts;
   `MessageClaims`; `DeployScripts` and `Deployment`.
3. (done) `HubPoolProofs`, and the remaining properties of `SpokePool`.
4. (done) `SvmSpokeProofs`, `MessageClaimsProofs`, `DeploymentProofs`.
5. (done) `SumTheorems`, and with it `SpokePoolFundsProofs` and `SvmSpokeFundsProofs`.
6. If the pools change: the admin latches of the Polygon, PolygonZkEVM and Succinct
   pools, and a composition of hub, bridges and spokes.

## Not modelled

* Of the contracts: the chain pools' bridge calls and admin latches, the
  adapters, router, forwarders and withdrawal helpers, CCTP's splitting, the
  ERC-7683 and Permit2 settlers, `SwapAndBridge`, `SpokePoolVerifier`,
  `MulticallHandler`, `PermissionSplitterProxy` and the Merkle distributor.  Each acts
  within one transaction, in front of or behind the pools, and keeps little or no
  state; in the models they are callers and messages that may do anything the
  pools' guards permit.  `MintableERC1155` and `AcrossConfigStore`, which the bridge's
  state never depends on; interfaces of external bridges; upgrades of the pools'
  logic; gas, fee-on-transfer or rebasing tokens.
* Of the TypeScript: the remote pause script, which cannot get past its first
  check; queries and generators, which print; typed-data helpers, Merkle tree
  construction and test fixtures; compiler settings, RPC URLs and verification
  keys of `hardhat.config.ts`.
