--------------------------- MODULE SvmSpokeProofs ---------------------------
(***************************************************************************)
(* Proofs about SvmSpoke: its type invariant, and that it implements       *)
(* RelayLifecycle.                                                         *)
(*                                                                         *)
(* The second is the one that takes an argument. The account that says a   *)
(* relay was filled can be closed, and the program then takes the relay    *)
(* for one that was never filled; but close_fill_pda waits until the fill  *)
(* deadline is over, and whatever would create the account again refuses   *)
(* an expired relay. So, as long as a relay can be filled, its account     *)
(* and its events agree: that is FillInv.                                  *)
(***************************************************************************)
EXTENDS SvmSpoke, FiniteSetTheorems, SequenceTheorems, TLAPS

AllLeaves == Leaves \union {FreshLeaf(k) : k \in 1 .. MaxRuns}

StateAccount ==
    [pausedDeposits : BOOLEAN, pausedFills : BOOLEAN,
     numberOfDeposits : 0 .. MaxDeposits, rootBundleId : 0 .. MaxBundles]

RootBundle == [leaf : AllLeaves, slow : SUBSET Relays, claimed : BOOLEAN]

FillStatusAccount ==
    [status : {"RequestedSlowFill", "Filled"}, relayer : Signers]

ClaimAccount == [amount : Nat, initializer : Signers]

Transaction == [id : Ids, k : 1 .. MaxRuns]

TableStates == {"none", "active", "cooling", "cooled", "closed"}

PCs == {"idle", "fetch", "relay", "create", "extend", "load", "write", "send",
        "close"}

\* The steps of the repayment script whose bundle has an id of the pool.
Relayed == {"create", "extend", "load", "write", "send", "close"}

AdminInv ==
    /\ now \in 1 .. MaxTime /\ mailed \in 0 .. MaxMessages
    /\ state \in {None} \union StateAccount
    /\ bundles \in [Ids -> {None} \union RootBundle]
    /\ \A i \in Ids : bundles[i] # None => Live /\ i < state.rootBundleId
    /\ \A m \in inbox : m.body \in Calls

\* The request of a slow fill, and a fill, in the events of a relay.
Request == Event("requestedV3SlowFill", "None", Default, TRUE)

Fills == [name : {"filledV3Relay"}, type : {"FastFill", "ReplacedSlowFill", "SlowFill"},
          relayer : Signers \union {Default}, legacy : BOOLEAN]

\* The events of a relay that was filled.
FilledLog(l) == \E e \in Fills : l = <<e>> \/ l = <<Request, e>>

RelayInv(r) ==
    /\ log[r] = <<>> \/ log[r] = <<Request>> \/ FilledLog(log[r])
    /\ fill[r] = None => log[r] = <<>> \/ r.fillDeadline < now
    /\ fill[r] # None =>
         IF fill[r].status = "Filled" THEN FilledLog(log[r]) ELSE log[r] = <<Request>>
    /\ aged[r] <= Len(log[r])

FillInv ==
    /\ fill \in [Relays -> {None} \union FillStatusAccount]
    /\ log \in [Relays -> Seq({Request} \union Fills)] /\ aged \in [Relays -> Nat]
    /\ closer \in [Signers -> SUBSET Relays]
    /\ \A r \in Relays : RelayInv(r)

TokenInv ==
    /\ vault \in Nat /\ deposited \in Nat /\ pending \in Nat /\ bridged \in Nat
    /\ received \in [Addresses -> Nat]
    /\ claim \in [Addresses -> {None} \union ClaimAccount]

ScriptInv ==
    /\ run \in [pc : PCs, k : 0 .. MaxRuns, id : 0 .. MaxBundles]
    /\ run.pc # "idle" => run.k # 0 /\ Live
    /\ run.pc \in Relayed => run.id \in Ids
    /\ sent \subseteq Transaction
    /\ tables \in [1 .. MaxRuns -> TableStates]
    /\ reaper \in [left : SUBSET (1 .. MaxRuns), at : 0 .. MaxRuns]

IInv == AdminInv /\ FillInv /\ TokenInv /\ ScriptInv

-----------------------------------------------------------------------------
(* None is no account.                                                     *)

LEMMA NoneIsNoAccount ==
  /\ None \notin StateAccount /\ None \notin RootBundle
  /\ None \notin FillStatusAccount /\ None \notin ClaimAccount
<1>1. DOMAIN None = {"none"} BY DEF None
<1>2. \A a \in StateAccount : "rootBundleId" \in DOMAIN a BY DEF StateAccount
<1>3. \A a \in RootBundle : "leaf" \in DOMAIN a BY DEF RootBundle
<1>4. \A a \in FillStatusAccount : "status" \in DOMAIN a BY DEF FillStatusAccount
<1>5. \A a \in ClaimAccount : "amount" \in DOMAIN a BY DEF ClaimAccount
<1> QED BY <1>1, <1>2, <1>3, <1>4, <1>5

LEMMA InitIInv == Init => IInv
<1> SUFFICES ASSUME Init PROVE IInv OBVIOUS
<1>1. AdminInv
  BY TimesAssumption, LimitsAssumption DEF Init, AdminInv, Live
<1>2. FillInv BY DEF Init, FillInv, RelayInv
<1>3. TokenInv BY DEF Init, TokenInv
<1>4. ScriptInv
  BY LimitsAssumption DEF Init, ScriptInv, Stopped, PCs, Relayed, TableStates
<1> QED BY <1>1, <1>2, <1>3, <1>4 DEF IInv

-----------------------------------------------------------------------------
(* Parts that a step leaves alone.                                         *)

LEMMA AdminKept ==
  ASSUME AdminInv, UNCHANGED <<now, mailed, state, bundles, inbox>>
  PROVE  AdminInv' /\ (Live => Live') /\ now' >= now
<1>1. now \in Nat BY DEF AdminInv
<1> QED BY <1>1 DEF AdminInv, Live

LEMMA FillKept ==
  ASSUME AdminInv, FillInv, UNCHANGED fillVars, now' \in 1 .. MaxTime, now' >= now
  PROVE  FillInv'
<1>1. UNCHANGED <<fill, log, aged, closer>> BY DEF fillVars
<1>2. ASSUME NEW r \in Relays PROVE RelayInv(r)'
  <2>1. now \in Nat /\ r.fillDeadline \in Nat BY TimesAssumption DEF AdminInv
  <2>2. r.fillDeadline < now => r.fillDeadline < now' BY <2>1
  <2>3. RelayInv(r) BY DEF FillInv
  <2> QED BY <1>1, <2>2, <2>3 DEF RelayInv
<1> QED BY <1>1, <1>2 DEF FillInv

LEMMA TokenKept ==
  ASSUME TokenInv, UNCHANGED <<tokenVars, received, claim>>
  PROVE  TokenInv'
BY DEF TokenInv, tokenVars

LEMMA ScriptKept ==
  ASSUME ScriptInv, UNCHANGED <<run, sent, tables, reaper>>, Live => Live'
  PROVE  ScriptInv'
BY DEF ScriptInv

-----------------------------------------------------------------------------
(* Steps about one relay.                                                  *)

\* A relay that may be filled or requested: its account and its events agree.
LEMMA OpenRelay ==
  ASSUME AdminInv, FillInv, NEW r \in Relays, now <= r.fillDeadline
  PROVE  /\ Status(r) = "Unfilled" <=> fill[r] = None
         /\ Status(r) = "Unfilled" => log[r] = <<>>
         /\ Status(r) = "RequestedSlowFill" => log[r] = <<Request>>
         /\ Status(r) \in {"Unfilled", "RequestedSlowFill", "Filled"}
<1>1. now \in Nat /\ r.fillDeadline \in Nat BY TimesAssumption DEF AdminInv
<1>2. ~(r.fillDeadline < now) BY <1>1
<1>3. RelayInv(r) /\ fill[r] \in {None} \union FillStatusAccount BY DEF FillInv
<1>4. CASE fill[r] = None BY <1>2, <1>3, <1>4 DEF RelayInv, Status
<1>5. CASE fill[r] # None
  <2>1. fill[r].status \in {"RequestedSlowFill", "Filled"}
    BY <1>3, <1>5 DEF FillStatusAccount
  <2> QED BY <1>3, <1>5, <2>1 DEF RelayInv, Status
<1> QED BY <1>4, <1>5

LEMMA RelayStep ==
  ASSUME FillInv, NEW r \in Relays, NEW a \in {None} \union FillStatusAccount,
         NEW l \in Seq({Request} \union Fills),
         fill' = [fill EXCEPT ![r] = a], log' = [log EXCEPT ![r] = l],
         closer' \in [Signers -> SUBSET Relays], UNCHANGED <<now, aged>>,
         Len(log[r]) <= Len(l),
         l = <<>> \/ l = <<Request>> \/ FilledLog(l),
         a = None => l = <<>> \/ r.fillDeadline < now,
         a # None => IF a.status = "Filled" THEN FilledLog(l) ELSE l = <<Request>>
  PROVE  FillInv'
<1>1. /\ fill' \in [Relays -> {None} \union FillStatusAccount]
      /\ log' \in [Relays -> Seq({Request} \union Fills)]
  BY DEF FillInv
<1>2. ASSUME NEW q \in Relays PROVE RelayInv(q)'
  <2>1. CASE q = r
    <3>1. fill'[q] = a /\ log'[q] = l BY <2>1 DEF FillInv
    <3>2. aged[r] <= Len(l)
      <4>1. aged[r] \in Nat /\ log[r] \in Seq({Request} \union Fills) BY DEF FillInv
      <4>2. Len(log[r]) \in Nat /\ Len(l) \in Nat /\ aged[r] <= Len(log[r])
        BY <4>1 DEF FillInv, RelayInv
      <4> QED BY <4>1, <4>2
    <3> QED BY <2>1, <3>1, <3>2 DEF RelayInv
  <2>2. CASE q # r
    <3>1. fill'[q] = fill[q] /\ log'[q] = log[q] BY <2>2 DEF FillInv
    <3>2. RelayInv(q) BY DEF FillInv
    <3> QED BY <3>1, <3>2 DEF RelayInv
  <2> QED BY <2>1, <2>2
<1> QED BY <1>1, <1>2 DEF FillInv

LEMMA AppendToOne ==
  ASSUME NEW S, NEW x \in S, NEW y \in S
  PROVE  Append(<<x>>, y) = <<x, y>>
<1>1. <<x>> \in Seq(S) /\ <<x, y>> \in Seq(S) OBVIOUS
<1>2. Len(Append(<<x>>, y)) = 2 /\ Append(<<x>>, y) \in Seq(S) BY <1>1
<1>3. \A i \in 1 .. 2 : Append(<<x>>, y)[i] = <<x, y>>[i]
  <2>1. Append(<<x>>, y)[1] = x /\ Append(<<x>>, y)[2] = y BY <1>1
  <2> QED BY <2>1
<1>4. Len(<<x, y>>) = 2 OBVIOUS
<1> QED BY <1>1, <1>2, <1>3, <1>4, SeqEqual

\* What a fill event is appended to, and what becomes of it.
LEMMA FillAppended ==
  ASSUME AdminInv, FillInv, NEW r \in Relays, now <= r.fillDeadline,
         Status(r) # "Filled", NEW e \in Fills
  PROVE  /\ FilledLog(Append(log[r], e))
         /\ Append(log[r], e) \in Seq({Request} \union Fills)
         /\ log[r] = <<>> => Append(log[r], e) = <<e>>
         /\ log[r] = <<Request>> => Append(log[r], e) = <<Request, e>>
         /\ log[r] = <<>> \/ log[r] = <<Request>>
         /\ Len(log[r]) <= Len(Append(log[r], e))
<1>1. log[r] = <<>> \/ log[r] = <<Request>> BY OpenRelay
<1>2. log[r] = <<>> => Append(log[r], e) = <<e>> OBVIOUS
<1>3. log[r] = <<Request>> => Append(log[r], e) = <<Request, e>>
  <2>1. Append(<<Request>>, e) = <<Request, e>>
    <3>1. Request \in {Request} \union Fills /\ e \in {Request} \union Fills OBVIOUS
    <3> QED BY <3>1, AppendToOne
  <2> QED BY <2>1
<1>4. log[r] \in Seq({Request} \union Fills) BY DEF FillInv
<1>5. FilledLog(Append(log[r], e)) BY <1>1, <1>2, <1>3 DEF FilledLog
<1>6. Len(log[r]) <= Len(Append(log[r], e)) BY <1>4
<1> QED BY <1>1, <1>2, <1>3, <1>4, <1>5, <1>6

\* The fill of a relay, as an event and a new account.
FilledBy(r, a, e) ==
    /\ now <= r.fillDeadline /\ Status(r) # "Filled"
    /\ a \in FillStatusAccount /\ a.status = "Filled" /\ e \in Fills
    /\ e.type = "SlowFill" \/ e.type = IF Status(r) = "RequestedSlowFill"
                                       THEN "ReplacedSlowFill" ELSE "FastFill"
    /\ fill' = [fill EXCEPT ![r] = a]
    /\ log' = [log EXCEPT ![r] = Append(log[r], e)]
    /\ UNCHANGED <<now, aged, closer>>

LEMMA FilledByKeeps ==
  ASSUME AdminInv, FillInv, NEW r \in Relays, NEW a, NEW e, FilledBy(r, a, e)
  PROVE  FillInv'
<1>1. e \in Fills /\ a \in FillStatusAccount /\ a.status = "Filled" BY DEF FilledBy
<1>2. PICK l : l = Append(log[r], e) OBVIOUS
<1>3. FilledLog(l) /\ l \in Seq({Request} \union Fills) /\ Len(log[r]) <= Len(l)
  BY <1>2, FillAppended DEF FilledBy
<1>4. /\ fill' = [fill EXCEPT ![r] = a] /\ log' = [log EXCEPT ![r] = l]
      /\ UNCHANGED <<now, aged>> /\ closer' \in [Signers -> SUBSET Relays]
  BY <1>2 DEF FilledBy, FillInv
<1>5. a # None BY <1>1, NoneIsNoAccount
<1> QED BY <1>1, <1>3, <1>4, <1>5, RelayStep

\* Every fill of the program is one.
LEMMA FastFillIsFill ==
  ASSUME NEW r \in Relays, NEW s \in Signers, NEW repay \in Signers,
         NEW legacy \in BOOLEAN, fill_v3_relay(r, s, repay, legacy)
  PROVE  \E a, e : FilledBy(r, a, e)
<1>1. PICK a : a = [status |-> "Filled", relayer |-> s] OBVIOUS
<1>2. a \in FillStatusAccount /\ a.status = "Filled" BY <1>1 DEF FillStatusAccount
<1>3. PICK type : type = IF Status(r) = "RequestedSlowFill" THEN "ReplacedSlowFill"
                         ELSE "FastFill" OBVIOUS
<1>4. PICK e : e = Event("filledV3Relay", type, repay, legacy) OBVIOUS
<1>5. e \in Fills /\ e.type = type BY <1>3, <1>4 DEF Event, Fills
<1>6. FilledBy(r, a, e)
  BY <1>1, <1>2, <1>3, <1>4, <1>5 DEF fill_v3_relay, FilledBy
<1> QED BY <1>6

LEMMA SlowFillIsFill ==
  ASSUME FillInv, NEW r \in Relays, NEW i \in Ids, execute_v3_slow_relay_leaf(r, i)
  PROVE  \E a, e : FilledBy(r, a, e)
<1>1. fill[r] \in FillStatusAccount BY DEF FillInv, execute_v3_slow_relay_leaf
<1>2. PICK a : a = [fill[r] EXCEPT !.status = "Filled"] OBVIOUS
<1>3. a \in FillStatusAccount /\ a.status = "Filled" BY <1>1, <1>2 DEF FillStatusAccount
<1>4. PICK e : e = Event("filledV3Relay", "SlowFill", Default, TRUE) OBVIOUS
<1>5. e \in Fills /\ e.type = "SlowFill" BY <1>4 DEF Event, Fills
<1>6. fill' = [fill EXCEPT ![r] = a] BY <1>2 DEF execute_v3_slow_relay_leaf
<1>7. FilledBy(r, a, e)
  BY <1>3, <1>4, <1>5, <1>6 DEF execute_v3_slow_relay_leaf, FilledBy
<1> QED BY <1>7

\* The request of a slow fill.
RequestedBy(r) ==
    /\ now <= r.fillDeadline /\ Status(r) = "Unfilled"
    /\ \E a \in FillStatusAccount :
         a.status = "RequestedSlowFill" /\ fill' = [fill EXCEPT ![r] = a]
    /\ log' = [log EXCEPT ![r] = Append(log[r], Request)]
    /\ UNCHANGED <<now, aged, closer>>

LEMMA RequestIsRequest ==
  ASSUME NEW r \in Relays, NEW s \in Signers, request_v3_slow_fill(r, s)
  PROVE  RequestedBy(r)
<1>1. PICK a : a = [status |-> "RequestedSlowFill", relayer |-> s] OBVIOUS
<1>2. a \in FillStatusAccount /\ a.status = "RequestedSlowFill"
  BY <1>1 DEF FillStatusAccount
<1>3. fill' = [fill EXCEPT ![r] = a] BY <1>1 DEF request_v3_slow_fill
<1> QED BY <1>2, <1>3 DEF request_v3_slow_fill, RequestedBy, Request

LEMMA RequestedByKeeps ==
  ASSUME AdminInv, FillInv, NEW r \in Relays, RequestedBy(r)
  PROVE  FillInv' /\ log[r] = <<>> /\ Append(log[r], Request) = <<Request>>
<1>1. PICK a \in FillStatusAccount :
        a.status = "RequestedSlowFill" /\ fill' = [fill EXCEPT ![r] = a]
  BY DEF RequestedBy
<1>2. log[r] = <<>> BY OpenRelay DEF RequestedBy
<1>3. Append(log[r], Request) = <<Request>> BY <1>2
<1>4. PICK l : l = <<Request>> OBVIOUS
<1>5. /\ log' = [log EXCEPT ![r] = l] /\ UNCHANGED <<now, aged>>
      /\ closer' \in [Signers -> SUBSET Relays]
  BY <1>3, <1>4 DEF RequestedBy, FillInv
<1>6. l \in Seq({Request} \union Fills) /\ Len(log[r]) <= Len(l) BY <1>2, <1>4
<1>7. a # None BY NoneIsNoAccount
<1> QED BY <1>1, <1>2, <1>3, <1>4, <1>5, <1>6, <1>7, RelayStep

\* An account is closed, or a closing script moves on.
ClosedBy(r) ==
    /\ r.fillDeadline < now
    /\ fill' = [fill EXCEPT ![r] = None]
    /\ UNCHANGED <<now, log, aged>>

LEMMA ClosedByKeeps ==
  ASSUME FillInv, NEW r \in Relays, ClosedBy(r),
         closer' \in [Signers -> SUBSET Relays]
  PROVE  FillInv'
<1>1. PICK l : l = log[r] OBVIOUS
<1>2. log' = [log EXCEPT ![r] = l] BY <1>1 DEF ClosedBy, FillInv
<1>3. l \in Seq({Request} \union Fills) /\ Len(log[r]) <= Len(l) BY <1>1 DEF FillInv
<1>4. l = <<>> \/ l = <<Request>> \/ FilledLog(l) BY <1>1 DEF FillInv, RelayInv
<1> QED BY <1>2, <1>3, <1>4, RelayStep DEF ClosedBy

LEMMA CloserStep ==
  ASSUME AdminInv, FillInv, NEW s \in Signers, closerStep(s)
  PROVE  /\ closer' \in [Signers -> SUBSET Relays]
         /\ UNCHANGED <<now, fill, log, aged>> \/ \E r \in Relays : ClosedBy(r)
<1>1. CASE closeExpiredRelays(s)
  <2>1. fillEvents(s) \in SUBSET Relays BY DEF fillEvents
  <2> QED BY <1>1, <2>1 DEF closeExpiredRelays, FillInv
<1>2. ASSUME NEW wall \in now .. now + 1, closeFillPda(s, wall)
      PROVE  /\ closer' \in [Signers -> SUBSET Relays]
             /\ UNCHANGED <<now, fill, log, aged>> \/ \E r \in Relays : ClosedBy(r)
  <2>1. PICK r : r = CHOOSE x \in closer[s] : TRUE OBVIOUS
  <2>2. r \in closer[s] BY <1>2, <2>1 DEF closeFillPda
  <2>3. closer[s] \in SUBSET Relays BY DEF FillInv
  <2>4. r \in Relays BY <2>2, <2>3
  <2>5. /\ closer' = [closer EXCEPT ![s] = @ \ {r}]
        /\ \/ CanClose(r) /\ fill' = [fill EXCEPT ![r] = None]
           \/ fill' = fill
        /\ UNCHANGED <<now, log, aged>>
    BY <1>2, <2>1 DEF closeFillPda
  <2>6. closer' \in [Signers -> SUBSET Relays] BY <2>3, <2>5 DEF FillInv
  <2>7. CanClose(r) => r.fillDeadline < now
    BY <2>4, TimesAssumption DEF CanClose, AdminInv
  <2> QED BY <2>4, <2>5, <2>6, <2>7 DEF ClosedBy
<1> QED BY <1>1, <1>2 DEF closerStep

LEMMA CloseOtherCloses ==
  ASSUME AdminInv, FillInv, NEW r \in Relays, closeOther(r)
  PROVE  ClosedBy(r) /\ closer' \in [Signers -> SUBSET Relays]
BY TimesAssumption DEF closeOther, CanClose, ClosedBy, AdminInv, FillInv

LEMMA AgingKeeps ==
  ASSUME FillInv, NEW r \in Relays, signatureAges(r)
  PROVE  FillInv'
<1>1. /\ aged[r] \in Nat /\ aged[r] < Len(log[r]) /\ log[r] \in Seq({Request} \union Fills)
      /\ aged' = [aged EXCEPT ![r] = aged[r] + 1] /\ UNCHANGED <<now, fill, log, closer>>
  BY DEF signatureAges, FillInv
<1>2. Len(log[r]) \in Nat BY <1>1
<1>3. aged' \in [Relays -> Nat] BY <1>1 DEF FillInv
<1>4. ASSUME NEW q \in Relays PROVE RelayInv(q)'
  <2>1. RelayInv(q) BY DEF FillInv
  <2>2. aged'[q] <= Len(log[q])
    <3>1. aged'[q] = IF q = r THEN aged[r] + 1 ELSE aged[q] BY <1>1 DEF FillInv
    <3> QED BY <1>1, <1>2, <2>1, <3>1 DEF RelayInv
  <2> QED BY <1>1, <2>1, <2>2 DEF RelayInv
<1> QED BY <1>1, <1>3, <1>4 DEF FillInv

\* The steps that change what the program knows or said about relays.
FillAction ==
    \/ \E r \in Relays, s \in Signers :
         simpleFill(r, s) \/ otherFill(r, s) \/ request_v3_slow_fill(r, s)
    \/ \E r \in Relays, i \in Ids : execute_v3_slow_relay_leaf(r, i)
    \/ \E s \in Signers : closerStep(s)
    \/ \E r \in Relays : closeOther(r) \/ signatureAges(r)

\* What they do, in terms of the relay.
LEMMA FillActions ==
  ASSUME AdminInv, FillInv, FillAction
  PROVE  \/ \E r \in Relays : \E a, e : FilledBy(r, a, e)
         \/ \E r \in Relays : RequestedBy(r)
         \/ /\ closer' \in [Signers -> SUBSET Relays]
            /\ UNCHANGED <<now, fill, log, aged>> \/ \E r \in Relays : ClosedBy(r)
         \/ \E r \in Relays : signatureAges(r)
<1>1. ASSUME NEW r \in Relays, NEW s \in Signers, simpleFill(r, s) \/ otherFill(r, s)
      PROVE  \E a, e : FilledBy(r, a, e)
  <2>1. \E repay \in Signers, legacy \in BOOLEAN : fill_v3_relay(r, s, repay, legacy)
    BY <1>1 DEF simpleFill, otherFill
  <2> QED BY <2>1, FastFillIsFill
<1>2. ASSUME NEW r \in Relays, NEW s \in Signers, request_v3_slow_fill(r, s)
      PROVE  RequestedBy(r)
  BY <1>2, RequestIsRequest
<1>3. ASSUME NEW r \in Relays, NEW i \in Ids, execute_v3_slow_relay_leaf(r, i)
      PROVE  \E a, e : FilledBy(r, a, e)
  BY <1>3, SlowFillIsFill
<1>4. ASSUME NEW s \in Signers, closerStep(s)
      PROVE  /\ closer' \in [Signers -> SUBSET Relays]
             /\ UNCHANGED <<now, fill, log, aged>> \/ \E r \in Relays : ClosedBy(r)
  BY <1>4, CloserStep
<1>5. ASSUME NEW r \in Relays, closeOther(r)
      PROVE  ClosedBy(r) /\ closer' \in [Signers -> SUBSET Relays]
  BY <1>5, CloseOtherCloses
<1> QED BY <1>1, <1>2, <1>3, <1>4, <1>5 DEF FillAction

LEMMA FillActionKeeps ==
  ASSUME IInv, FillAction
  PROVE  IInv'
<1>1. AdminInv /\ FillInv /\ TokenInv /\ ScriptInv BY DEF IInv
<1>2. FillInv'
  <2>1. ASSUME UNCHANGED <<now, fill, log, aged>>, closer' \in [Signers -> SUBSET Relays]
        PROVE  FillInv'
    BY <1>1, <2>1 DEF FillInv, RelayInv
  <2> QED
    BY <1>1, <2>1, FillActions, FilledByKeeps, RequestedByKeeps, ClosedByKeeps, AgingKeeps
<1>3. /\ UNCHANGED <<now, mailed, state, bundles, inbox, received, claim,
                     deposited, pending, bridged, run, sent, tables, reaper>>
      /\ vault' = vault \/ (vault >= 1 /\ vault' = vault - 1)
  BY ZenonT(40) DEF FillAction, simpleFill, otherFill, fill_v3_relay, request_v3_slow_fill,
         execute_v3_slow_relay_leaf, closerStep, closeExpiredRelays, closeFillPda,
         closeOther, signatureAges, refundVars, scriptVars, tokenVars
<1>4. AdminInv' /\ (Live => Live') BY <1>1, <1>3, AdminKept
<1>5. TokenInv'
  <2>1. vault' \in Nat BY <1>1, <1>3 DEF TokenInv
  <2> QED BY <1>1, <1>3, <2>1 DEF TokenInv
<1>6. ScriptInv' BY <1>1, <1>3, <1>4, ScriptKept
<1> QED BY <1>2, <1>4, <1>5, <1>6 DEF IInv

-----------------------------------------------------------------------------
(* Administration and deposits.                                            *)

\* What relay_root_bundle does to the pool's accounts.
LEMMA RelayRootBundle ==
  ASSUME AdminInv, Live, NEW leaf \in AllLeaves, NEW slow \in SUBSET Relays,
         relay_root_bundle(leaf, slow), UNCHANGED <<now, mailed>>,
         \A m \in inbox' : m.body \in Calls
  PROVE  AdminInv' /\ Live'
<1>1. state \in StateAccount BY DEF AdminInv, Live
<1>2. PICK n : n = state.rootBundleId OBVIOUS
<1>3. n \in Ids /\ n + 1 \in 0 .. MaxBundles /\ n \in Nat
  BY <1>2, LimitsAssumption DEF relay_root_bundle, Ids
<1>4. state' = [state EXCEPT !.rootBundleId = n + 1]
  BY <1>2 DEF relay_root_bundle
<1>5. state' \in StateAccount /\ state'.rootBundleId = n + 1
  BY <1>1, <1>3, <1>4 DEF StateAccount
<1>6. PICK b : b = NewBundle(leaf, slow) OBVIOUS
<1>7. b \in RootBundle BY <1>6 DEF NewBundle, RootBundle
<1>8. bundles' = [bundles EXCEPT ![n] = b] BY <1>2, <1>6 DEF relay_root_bundle
<1>9. bundles' \in [Ids -> {None} \union RootBundle]
  BY <1>3, <1>7, <1>8 DEF AdminInv
<1>10. Live' BY <1>5, NoneIsNoAccount DEF Live
<1>11. ASSUME NEW i \in Ids, bundles'[i] # None PROVE i < state'.rootBundleId
  <2>1. i \in Nat BY DEF Ids
  <2>2. CASE i = n BY <1>3, <1>5, <2>1, <2>2
  <2>3. CASE i # n
    <3>1. bundles[i] # None BY <1>8, <1>11, <2>3 DEF AdminInv
    <3>2. i < n BY <1>2, <3>1 DEF AdminInv
    <3> QED BY <1>3, <1>5, <2>1, <3>2
  <2> QED BY <2>2, <2>3
<1> QED BY <1>5, <1>9, <1>10, <1>11 DEF AdminInv

\* The state account changes, but not its next bundle id.
LEMMA StateStep ==
  ASSUME AdminInv, Live, state' \in StateAccount,
         state'.rootBundleId = state.rootBundleId,
         UNCHANGED <<now, mailed>>, \A m \in inbox' : m.body \in Calls,
         UNCHANGED bundles \/ \E i \in Ids : bundles' = [bundles EXCEPT ![i] = None]
  PROVE  AdminInv' /\ Live'
<1>1. Live' BY NoneIsNoAccount DEF Live
<1>2. bundles' \in [Ids -> {None} \union RootBundle] BY DEF AdminInv
<1>3. \A i \in Ids : bundles'[i] # None => bundles'[i] = bundles[i] BY DEF AdminInv
<1>4. \A i \in Ids : bundles'[i] # None => i < state'.rootBundleId
  BY <1>3 DEF AdminInv
<1> QED BY <1>1, <1>2, <1>4 DEF AdminInv

LEMMA MessageKeeps ==
  ASSUME AdminInv, NEW m \in inbox, handle_receive_message(m)
  PROVE  AdminInv' /\ Live'
<1>1. Live /\ m.body \in Calls /\ state \in StateAccount
  BY DEF handle_receive_message, AdminInv, Live
<1>2. UNCHANGED <<now, mailed>> /\ \A q \in inbox' : q.body \in Calls
  BY DEF handle_receive_message, AdminInv
<1>3. PICK c : c = m.body OBVIOUS
<1>4. CASE c.call \in {"pauseDeposits", "pauseFills"}
  <2>1. c.pause \in BOOLEAN BY <1>1, <1>3, <1>4 DEF Calls
  <2>2. UNCHANGED bundles BY <1>3, <1>4 DEF handle_receive_message
  <2>3. \/ state' = [state EXCEPT !.pausedDeposits = c.pause]
        \/ state' = [state EXCEPT !.pausedFills = c.pause]
    BY <1>3, <1>4 DEF handle_receive_message
  <2>4. state' \in StateAccount /\ state'.rootBundleId = state.rootBundleId
    BY <1>1, <2>1, <2>3 DEF StateAccount
  <2> QED BY <1>1, <1>2, <2>2, <2>4, StateStep
<1>5. CASE c.call = "relayRootBundle"
  <2>1. c.leaf \in AllLeaves /\ c.slow \in SUBSET Relays
    BY <1>1, <1>3, <1>5 DEF Calls, AllLeaves
  <2>2. relay_root_bundle(c.leaf, c.slow) BY <1>3, <1>5 DEF handle_receive_message
  <2> QED BY <1>1, <1>2, <2>1, <2>2, RelayRootBundle
<1>6. CASE c.call = "emergencyDeleteRootBundle"
  <2>1. c.id \in Ids BY <1>1, <1>3, <1>6 DEF Calls
  <2>2. bundles' = [bundles EXCEPT ![c.id] = None] /\ UNCHANGED state
    BY <1>3, <1>6 DEF handle_receive_message, emergency_delete_root_bundle
  <2> QED BY <1>1, <1>2, <2>1, <2>2, StateStep
<1> QED BY <1>3, <1>4, <1>5, <1>6 DEF handle_receive_message

LEMMA DepositKeeps ==
  ASSUME AdminInv, TokenInv, NEW q, NEW d, NEW n \in Nat, deposit_v3(q, d, n),
         UNCHANGED <<now, mailed, bundles, inbox, received, claim>>
  PROVE  AdminInv' /\ Live' /\ TokenInv'
<1>1. Live /\ state \in StateAccount BY DEF deposit_v3, DepositAllowed, AdminInv, Live
<1>2. PICK k : k = state.numberOfDeposits + 1 OBVIOUS
<1>3. k \in 0 .. MaxDeposits
  BY <1>1, <1>2, LimitsAssumption DEF deposit_v3, StateAccount
<1>4. state' = [state EXCEPT !.numberOfDeposits = k] BY <1>2 DEF deposit_v3
<1>5. state' \in StateAccount /\ state'.rootBundleId = state.rootBundleId
  BY <1>1, <1>3, <1>4 DEF StateAccount
<1>6. \A m \in inbox' : m.body \in Calls BY DEF AdminInv
<1>7. AdminInv' /\ Live' BY <1>1, <1>5, <1>6, StateStep
<1>8. vault' \in Nat /\ deposited' \in Nat /\ UNCHANGED <<pending, bridged>>
  BY DEF deposit_v3, TokenInv
<1> QED BY <1>7, <1>8 DEF TokenInv

\* The clock, the owner's calls, the HubPool's messages and deposits.
AdminAction ==
    \/ Tick \/ initialize
    \/ \E b \in BOOLEAN : enableRoute(b)
    \/ \E c \in Calls : sendMessage(c)
    \/ \E m \in inbox : handle_receive_message(m)
    \/ \E wall \in now .. now + 1 : simpleDeposit(wall)

LEMMA AdminActionKeeps ==
  ASSUME IInv, AdminAction
  PROVE  IInv'
<1>1. AdminInv /\ FillInv /\ TokenInv /\ ScriptInv BY DEF IInv
<1>2. UNCHANGED <<fillVars, received, claim, run, sent, tables, reaper>>
  BY DEF AdminAction, Tick, initialize, enableRoute, sendMessage,
         handle_receive_message, simpleDeposit, refundVars, scriptVars
<1>3. CASE Tick
  <2>1. /\ now < MaxTime /\ now' = now + 1
        /\ UNCHANGED <<mailed, state, bundles, inbox, tokenVars>>
    BY <1>3 DEF Tick
  <2>2. now' \in 1 .. MaxTime /\ now' >= now
    BY <1>1, <2>1, TimesAssumption DEF AdminInv
  <2>3. AdminInv' /\ (Live => Live') BY <1>1, <2>1, <2>2 DEF AdminInv, Live
  <2> QED BY <1>1, <1>2, <2>1, <2>2, <2>3, FillKept, TokenKept, ScriptKept DEF IInv
<1>4. ASSUME AdminInv', Live => Live', TokenInv', UNCHANGED now PROVE IInv'
  <2>1. now' \in 1 .. MaxTime /\ now' >= now BY <1>1, <1>4 DEF AdminInv
  <2> QED BY <1>1, <1>2, <1>4, <2>1, FillKept, ScriptKept DEF IInv
<1>5. CASE initialize
  <2>1. UNCHANGED <<now, mailed, bundles, inbox, tokenVars>> /\ ~Live
    BY <1>5 DEF initialize
  <2>2. state' \in StateAccount
    BY <1>5, LimitsAssumption DEF initialize, StateAccount
  <2>3. \A i \in Ids : bundles[i] = None BY <1>1, <2>1 DEF AdminInv
  <2>4. AdminInv' BY <1>1, <2>1, <2>2, <2>3 DEF AdminInv
  <2> QED BY <1>1, <1>2, <1>4, <2>1, <2>4, TokenKept
<1>6. ASSUME NEW b \in BOOLEAN, enableRoute(b) PROVE IInv'
  <2>1. UNCHANGED <<now, mailed, state, bundles, inbox, tokenVars>>
    BY <1>6 DEF enableRoute
  <2> QED BY <1>1, <1>2, <1>4, <2>1, AdminKept, TokenKept
<1>7. ASSUME NEW c \in Calls, sendMessage(c) PROVE IInv'
  <2>1. /\ UNCHANGED <<now, state, bundles, tokenVars>>
        /\ mailed < MaxMessages /\ mailed' = mailed + 1
        /\ inbox' = inbox \union {[n |-> mailed, body |-> c]}
    BY <1>7 DEF sendMessage
  <2>2. mailed' \in 0 .. MaxMessages BY <1>1, <2>1, LimitsAssumption DEF AdminInv
  <2>3. \A m \in inbox' : m.body \in Calls BY <1>1, <2>1 DEF AdminInv
  <2>4. AdminInv' /\ (Live => Live') BY <1>1, <2>1, <2>2, <2>3 DEF AdminInv, Live
  <2> QED BY <1>1, <1>2, <1>4, <2>1, <2>4, TokenKept
<1>8. ASSUME NEW m \in inbox, handle_receive_message(m) PROVE IInv'
  <2>1. UNCHANGED <<now, tokenVars>> BY <1>8 DEF handle_receive_message
  <2> QED BY <1>1, <1>2, <1>4, <1>8, <2>1, MessageKeeps, TokenKept
<1>9. ASSUME NEW wall \in now .. now + 1, simpleDeposit(wall) PROVE IInv'
  <2>1. /\ deposit_v3(wall - 1, wall - 1 + DepositWindow, 1)
        /\ UNCHANGED <<now, mailed, bundles, inbox>>
    BY <1>9 DEF simpleDeposit
  <2>2. AdminInv' /\ Live' /\ TokenInv' BY <1>1, <1>2, <2>1, DepositKeeps
  <2> QED BY <1>4, <2>1, <2>2
<1> QED BY <1>3, <1>5, <1>6, <1>7, <1>8, <1>9 DEF AdminAction

-----------------------------------------------------------------------------
(* Refunds and claims.                                                     *)

\* Leaves have amounts, and pay to an address.
LEMMA LeafFacts ==
  ASSUME NEW l \in AllLeaves
  PROVE  l.amount \in Nat /\ l.ret \in Nat /\ l.to \in Addresses
<1>1. CASE l \in Leaves BY <1>1, LeavesAssumption DEF Addresses
<1>2. ASSUME NEW k \in 1 .. MaxRuns, l = FreshLeaf(k)
      PROVE  l.amount \in Nat /\ l.ret \in Nat /\ l.to \in Addresses
  BY <1>2 DEF FreshLeaf, Addresses
<1> QED BY <1>1, <1>2 DEF AllLeaves

LEMMA RefundKeeps ==
  ASSUME AdminInv, TokenInv, NEW i \in Ids, NEW leaf, NEW deferred \in BOOLEAN,
         execute_relayer_refund_leaf(i, leaf, deferred),
         UNCHANGED <<now, mailed, state, inbox, deposited, bridged>>
  PROVE  AdminInv' /\ (Live => Live') /\ TokenInv'
<1>1. bundles[i] \in RootBundle /\ bundles[i].leaf = leaf
  BY DEF execute_relayer_refund_leaf, AdminInv
<1>2. leaf \in AllLeaves BY <1>1 DEF RootBundle
<1>3. leaf.amount \in Nat /\ leaf.ret \in Nat /\ leaf.to \in Addresses
  BY <1>2, LeafFacts
<1>4. PICK b : b = [bundles[i] EXCEPT !.claimed = TRUE] OBVIOUS
<1>5. b \in RootBundle BY <1>1, <1>4 DEF RootBundle
<1>6. bundles' = [bundles EXCEPT ![i] = b]
  BY <1>4 DEF execute_relayer_refund_leaf
<1>7. bundles' \in [Ids -> {None} \union RootBundle] BY <1>5, <1>6 DEF AdminInv
<1>8. \A j \in Ids : bundles'[j] # None => bundles[j] # None
  BY <1>1, <1>6, NoneIsNoAccount DEF AdminInv
<1>9. AdminInv' /\ (Live => Live') BY <1>7, <1>8 DEF AdminInv, Live
<1>10. pending' \in Nat BY <1>3 DEF execute_relayer_refund_leaf, TokenInv
<1>11. CASE deferred
  <2>1. claim[leaf.to] \in ClaimAccount /\ UNCHANGED <<vault, received>>
    BY <1>3, <1>11 DEF execute_relayer_refund_leaf, TokenInv
  <2>2. PICK c : c = [claim[leaf.to] EXCEPT !.amount = claim[leaf.to].amount + leaf.amount]
    OBVIOUS
  <2>3. c \in ClaimAccount BY <1>3, <2>1, <2>2 DEF ClaimAccount
  <2>4. claim' = [claim EXCEPT ![leaf.to] = c]
    BY <1>11, <2>2 DEF execute_relayer_refund_leaf
  <2>5. claim' \in [Addresses -> {None} \union ClaimAccount]
    BY <2>3, <2>4 DEF TokenInv
  <2> QED BY <1>9, <1>10, <2>1, <2>5 DEF TokenInv
<1>12. CASE ~deferred
  <2>1. /\ vault >= leaf.amount /\ vault' = vault - leaf.amount /\ UNCHANGED claim
        /\ received' = [received EXCEPT ![leaf.to] = @ + leaf.amount]
    BY <1>12 DEF execute_relayer_refund_leaf
  <2>2. vault' \in Nat BY <1>3, <2>1 DEF TokenInv
  <2>3. received' \in [Addresses -> Nat] BY <1>3, <2>1 DEF TokenInv
  <2> QED BY <1>9, <1>10, <2>1, <2>2, <2>3 DEF TokenInv
<1> QED BY <1>11, <1>12

RefundAction ==
    \/ \E i \in Ids, deferred \in BOOLEAN : dataworker(i, deferred)
    \/ \E a \in Addresses, s \in Signers : initialize_claim_account(a, s)
    \/ \E a \in Addresses : claim_relayer_refund(a) \/ close_claim_account(a)
    \/ bridge_tokens_to_hub_pool(1)

LEMMA RefundActionKeeps ==
  ASSUME IInv, RefundAction
  PROVE  IInv'
<1>1. AdminInv /\ FillInv /\ TokenInv /\ ScriptInv BY DEF IInv
<1>2. UNCHANGED <<now, fillVars, run, sent, tables, reaper, mailed, state, inbox>>
  BY DEF RefundAction, dataworker, initialize_claim_account, claim_relayer_refund,
         close_claim_account, bridge_tokens_to_hub_pool, scriptVars
<1>3. ASSUME AdminInv', Live => Live', TokenInv' PROVE IInv'
  <2>1. now' \in 1 .. MaxTime /\ now' >= now BY <1>1, <1>2 DEF AdminInv
  <2> QED BY <1>1, <1>2, <1>3, <2>1, FillKept, ScriptKept DEF IInv
<1>4. ASSUME NEW i \in Ids, NEW deferred \in BOOLEAN, dataworker(i, deferred)
      PROVE  IInv'
  <2>1. PICK leaf : leaf = bundles[i].leaf OBVIOUS
  <2>2. /\ execute_relayer_refund_leaf(i, leaf, deferred)
        /\ UNCHANGED <<deposited, bridged>>
    BY <1>4, <2>1 DEF dataworker
  <2> QED BY <1>1, <1>2, <1>3, <2>2, RefundKeeps
<1>5. ASSUME UNCHANGED bundles, TokenInv' PROVE IInv'
  BY <1>1, <1>2, <1>3, <1>5, AdminKept
<1>6. ASSUME NEW a \in Addresses, NEW s \in Signers, initialize_claim_account(a, s)
      PROVE  IInv'
  <2>1. PICK c : c = [amount |-> 0, initializer |-> s] OBVIOUS
  <2>2. c \in ClaimAccount BY <2>1 DEF ClaimAccount
  <2>3. /\ claim' = [claim EXCEPT ![a] = c]
        /\ UNCHANGED <<received, vault, deposited, pending, bridged, bundles>>
    BY <1>6, <2>1 DEF initialize_claim_account, tokenVars
  <2>4. TokenInv' BY <1>1, <2>2, <2>3 DEF TokenInv
  <2> QED BY <1>5, <2>3, <2>4
<1>7. ASSUME NEW a \in Addresses, claim_relayer_refund(a) PROVE IInv'
  <2>1. PICK n : n = claim[a].amount OBVIOUS
  <2>2. /\ claim[a] # None /\ vault >= n /\ vault' = vault - n
        /\ received' = [received EXCEPT ![a] = @ + n]
        /\ claim' = [claim EXCEPT ![a] = None]
        /\ UNCHANGED <<deposited, pending, bridged, bundles>>
    BY <1>7, <2>1 DEF claim_relayer_refund
  <2>3. claim[a] \in ClaimAccount BY <1>1, <2>2 DEF TokenInv
  <2>4. n \in Nat BY <2>1, <2>3 DEF ClaimAccount
  <2>5. vault' \in Nat BY <1>1, <2>2, <2>4 DEF TokenInv
  <2>6. received' \in [Addresses -> Nat] BY <1>1, <2>2, <2>4 DEF TokenInv
  <2>7. TokenInv' BY <1>1, <2>2, <2>5, <2>6 DEF TokenInv
  <2> QED BY <1>5, <2>2, <2>7
<1>8. ASSUME NEW a \in Addresses, close_claim_account(a) PROVE IInv'
  <2>1. /\ claim' = [claim EXCEPT ![a] = None]
        /\ UNCHANGED <<received, vault, deposited, pending, bridged, bundles>>
    BY <1>8 DEF close_claim_account, tokenVars
  <2>2. TokenInv' BY <1>1, <2>1 DEF TokenInv
  <2> QED BY <1>5, <2>1, <2>2
<1>9. CASE bridge_tokens_to_hub_pool(1)
  <2>1. /\ vault >= 1 /\ pending >= 1 /\ vault' = vault - 1 /\ pending' = pending - 1
        /\ bridged' = bridged + 1 /\ UNCHANGED <<received, claim, deposited, bundles>>
    BY <1>1, <1>9 DEF bridge_tokens_to_hub_pool, BridgeAllowed, refundVars, TokenInv
  <2>2. TokenInv' BY <1>1, <2>1 DEF TokenInv
  <2> QED BY <1>5, <2>1, <2>2
<1> QED BY <1>4, <1>6, <1>7, <1>8, <1>9 DEF RefundAction

-----------------------------------------------------------------------------
(* The repayment script and the closing of lookup tables.                  *)

\* The script's steps that touch neither the pool nor tokens.
LocalAction ==
    \/ repayFetch \/ repayCreateTable \/ repayExtendTable \/ repayLoad
    \/ repayWrite \/ repaySend \/ repayClose \/ repayThrow
    \/ \E tx \in sent : drop(tx)
    \/ reaperStep
    \/ \E k \in 1 .. MaxRuns : coolDown(k)

LEMMA GotoKeeps ==
  ASSUME ScriptInv, NEW pc \in PCs, Goto(pc), Live',
         pc \in Relayed => run.pc \in Relayed, pc = "idle" \/ run.pc # "idle",
         UNCHANGED reaper, sent' \subseteq Transaction,
         tables' \in [1 .. MaxRuns -> TableStates]
  PROVE  ScriptInv'
<1>1. run' \in [pc : PCs, k : 0 .. MaxRuns, id : 0 .. MaxBundles]
  BY DEF ScriptInv, Goto
<1>2. run'.pc = pc /\ run'.k = run.k /\ run'.id = run.id BY DEF ScriptInv, Goto
<1> QED BY <1>1, <1>2 DEF ScriptInv

LEMMA LocalActionScripts ==
  ASSUME AdminInv, ScriptInv, LocalAction, Live => Live'
  PROVE  ScriptInv'
<1>1. /\ run \in [pc : PCs, k : 0 .. MaxRuns, id : 0 .. MaxBundles]
      /\ run.pc # "idle" => run.k \in 1 .. MaxRuns /\ Live
      /\ run.pc \in Relayed => run.id \in Ids
  BY LimitsAssumption DEF ScriptInv
<1>2. CASE repayFetch
  <2>1. run.pc = "fetch" BY <1>2 DEF repayFetch
  <2>2. state.rootBundleId \in 0 .. MaxBundles
    BY <1>1, <2>1, NoneIsNoAccount DEF AdminInv, Live, StateAccount
  <2>3. PICK n : n = state.rootBundleId OBVIOUS
  <2>4. /\ run' = [run EXCEPT !.pc = "relay", !.id = n]
        /\ UNCHANGED <<sent, tables, reaper>>
    BY <1>2, <2>3 DEF repayFetch
  <2>5. run' \in [pc : PCs, k : 0 .. MaxRuns, id : 0 .. MaxBundles]
    BY <1>1, <2>2, <2>3, <2>4 DEF PCs
  <2>6. run'.pc = "relay" /\ run'.k = run.k BY <1>1, <2>4
  <2> QED BY <1>1, <2>1, <2>4, <2>5, <2>6 DEF ScriptInv, Relayed
<1>3. CASE repayCreateTable \/ repayExtendTable \/ repayLoad \/ repayWrite \/ repayClose
             \/ repayThrow \/ repaySend
  <2>1. run.pc # "idle"
    BY <1>3 DEF repayCreateTable, repayExtendTable, repayLoad, repayWrite, repayClose,
                repayThrow, repaySend
  <2>2. PICK pc \in PCs : /\ Goto(pc)
                          /\ pc \in Relayed => run.pc \in Relayed
    BY <1>3 DEF repayCreateTable, repayExtendTable, repayLoad, repayWrite, repayClose,
                repayThrow, repaySend, PCs, Relayed
  <2>3. UNCHANGED reaper
    BY <1>3 DEF repayCreateTable, repayExtendTable, repayLoad, repayWrite, repayClose,
                repayThrow, repaySend
  <2>4. sent' \subseteq Transaction
    <3>1. CASE repaySend
      <4>1. run.pc \in Relayed /\ sent' = sent \union {[id |-> run.id, k |-> run.k]}
        BY <3>1 DEF repaySend, Relayed
      <4>2. [id |-> run.id, k |-> run.k] \in Transaction
        BY <1>1, <2>1, <4>1 DEF Transaction
      <4> QED BY <4>1, <4>2 DEF ScriptInv
    <3>2. CASE ~repaySend
      <4>1. sent' = sent
        BY <1>3, <3>2 DEF repayCreateTable, repayExtendTable, repayLoad, repayWrite,
                          repayClose, repayThrow
      <4> QED BY <4>1 DEF ScriptInv
    <3> QED BY <3>1, <3>2
  <2>5. tables' \in [1 .. MaxRuns -> TableStates]
    <3>1. \/ tables' = tables
          \/ tables' = [tables EXCEPT ![run.k] = "active"]
      BY <1>3 DEF repayCreateTable, repayExtendTable, repayLoad, repayWrite, repayClose,
                  repayThrow, repaySend
    <3> QED BY <3>1 DEF ScriptInv, TableStates
  <2> QED BY <1>1, <2>1, <2>2, <2>3, <2>4, <2>5, GotoKeeps
<1>4. ASSUME NEW tx \in sent, drop(tx) PROVE ScriptInv'
  <2>1. sent' = sent \ {tx} /\ UNCHANGED <<run, tables, reaper>> BY <1>4 DEF drop
  <2> QED BY <2>1 DEF ScriptInv
<1>5. ASSUME UNCHANGED <<run, sent>>, tables' \in [1 .. MaxRuns -> TableStates],
             reaper' \in [left : SUBSET (1 .. MaxRuns), at : 0 .. MaxRuns]
      PROVE  ScriptInv'
  BY <1>5 DEF ScriptInv
<1>6. /\ reaper.left \in SUBSET (1 .. MaxRuns) /\ reaper.at \in 0 .. MaxRuns
      /\ reaper \in [left : SUBSET (1 .. MaxRuns), at : 0 .. MaxRuns]
      /\ tables \in [1 .. MaxRuns -> TableStates]
  BY DEF ScriptInv
<1>7. CASE reapList
  <2>1. /\ reaper' = [left |-> Existing, at |-> 0]
        /\ UNCHANGED <<run, sent, tables>>
    BY <1>7 DEF reapList
  <2>2. Existing \in SUBSET (1 .. MaxRuns) BY <1>6 DEF Existing
  <2>3. 0 \in 0 .. MaxRuns BY LimitsAssumption
  <2> QED BY <1>5, <1>6, <2>1, <2>2, <2>3
<1>8. CASE reapDeactivate
  <2>1. PICK k \in reaper.left :
          /\ reaper' = [reaper EXCEPT !.at = k]
          /\ tables' = [tables EXCEPT ![k] = IF tables[k] = "active" THEN "cooling"
                                             ELSE tables[k]]
    BY <1>8 DEF reapDeactivate
  <2>2. k \in 1 .. MaxRuns /\ k \in 0 .. MaxRuns BY <1>6
  <2>3. tables' \in [1 .. MaxRuns -> TableStates] BY <1>6, <2>1, <2>2 DEF TableStates
  <2>4. UNCHANGED <<run, sent>> BY <1>8 DEF reapDeactivate
  <2> QED BY <1>5, <1>6, <2>1, <2>2, <2>3, <2>4
<1>9. CASE reapClose
  <2>1. PICK k : k = reaper.at OBVIOUS
  <2>2. /\ k # 0 /\ reaper' = [left |-> reaper.left \ {k}, at |-> 0]
        /\ tables' = [tables EXCEPT ![k] = IF tables[k] = "cooled" THEN "closed"
                                           ELSE tables[k]]
        /\ UNCHANGED <<run, sent>>
    BY <1>9, <2>1 DEF reapClose
  <2>3. k \in 1 .. MaxRuns /\ 0 \in 0 .. MaxRuns BY <1>6, <2>1, <2>2, LimitsAssumption
  <2>4. tables' \in [1 .. MaxRuns -> TableStates] BY <1>6, <2>2, <2>3 DEF TableStates
  <2> QED BY <1>5, <1>6, <2>2, <2>3, <2>4
<1>10. ASSUME NEW k \in 1 .. MaxRuns, coolDown(k) PROVE ScriptInv'
  <2>1. tables' = [tables EXCEPT ![k] = "cooled"] /\ UNCHANGED <<run, sent, reaper>>
    BY <1>10 DEF coolDown
  <2>2. tables' \in [1 .. MaxRuns -> TableStates] BY <1>6, <2>1 DEF TableStates
  <2> QED BY <1>5, <1>6, <2>1, <2>2
<1> QED BY <1>2, <1>3, <1>4, <1>7, <1>8, <1>9, <1>10 DEF LocalAction, reaperStep

LEMMA LocalActionKeeps ==
  ASSUME IInv, LocalAction
  PROVE  IInv'
<1>1. AdminInv /\ FillInv /\ TokenInv /\ ScriptInv BY DEF IInv
<1>2. UNCHANGED <<now, fillVars, mailed, state, bundles, inbox, tokenVars, received, claim>>
  BY DEF LocalAction, repayFetch, repayCreateTable, repayExtendTable, repayLoad,
         repayWrite, repaySend, repayClose, repayThrow, drop, reaperStep, reapList,
         reapDeactivate, reapClose, coolDown, refundVars
<1>3. AdminInv' /\ (Live => Live') BY <1>1, <1>2, AdminKept
<1>4. now' \in 1 .. MaxTime /\ now' >= now BY <1>1, <1>2 DEF AdminInv
<1> QED BY <1>1, <1>2, <1>3, <1>4, FillKept, TokenKept, LocalActionScripts DEF IInv

\* The script's deposit, its bundle, and its refund when it lands.
PoolAction == repayDeposit \/ repayRelay \/ \E tx \in sent : land(tx)

LEMMA PoolActionKeeps ==
  ASSUME IInv, PoolAction
  PROVE  IInv'
<1>1. AdminInv /\ FillInv /\ TokenInv /\ ScriptInv BY DEF IInv
<1>2. UNCHANGED <<now, fillVars, mailed, inbox, tables, reaper>>
  BY DEF PoolAction, repayDeposit, repayRelay, land
<1>3. now' \in 1 .. MaxTime /\ now' >= now BY <1>1, <1>2 DEF AdminInv
<1>4. FillInv' BY <1>1, <1>2, <1>3, FillKept
<1>5. run \in [pc : PCs, k : 0 .. MaxRuns, id : 0 .. MaxBundles] /\ MaxRuns \in Nat
  BY <1>1, LimitsAssumption DEF ScriptInv
<1>6. CASE repayDeposit
  <2>1. PICK k : k = run.k + 1 OBVIOUS
  <2>2. PICK n : n = FreshLeaf(k).amount OBVIOUS
  <2>3. /\ run.k < MaxRuns /\ deposit_v3(now - 1, now + DepositWindow, n)
        /\ run' = [pc |-> "fetch", k |-> k, id |-> 0]
        /\ UNCHANGED <<bundles, received, claim, sent>>
    BY <1>6, <2>1, <2>2 DEF repayDeposit, refundVars
  <2>4. n \in Nat BY <2>2 DEF FreshLeaf
  <2>5. AdminInv' /\ Live' /\ TokenInv' BY <1>1, <1>2, <2>3, <2>4, DepositKeeps
  <2>6. k \in 0 .. MaxRuns /\ k # 0 BY <1>5, <2>1, <2>3
  <2>7. run' \in [pc : PCs, k : 0 .. MaxRuns, id : 0 .. MaxBundles]
    BY <2>3, <2>6, LimitsAssumption DEF PCs
  <2>8. ScriptInv' BY <1>1, <1>2, <2>3, <2>5, <2>6, <2>7 DEF ScriptInv, Relayed
  <2> QED BY <1>4, <2>5, <2>8 DEF IInv
<1>7. CASE repayRelay
  <2>1. /\ run.pc = "relay" /\ run.id = state.rootBundleId
        /\ relay_root_bundle(FreshLeaf(run.k), {}) /\ Goto("create")
        /\ UNCHANGED <<received, claim, sent, tokenVars>>
    BY <1>7 DEF repayRelay, refundVars
  <2>2. Live /\ run.k \in 1 .. MaxRuns BY <1>1, <1>5, <2>1 DEF ScriptInv
  <2>3. FreshLeaf(run.k) \in AllLeaves BY <2>2 DEF AllLeaves
  <2>4. \A m \in inbox' : m.body \in Calls BY <1>1, <1>2 DEF AdminInv
  <2>5. AdminInv' /\ Live'
    <3>1. PICK leaf \in AllLeaves : leaf = FreshLeaf(run.k) BY <2>3
    <3>2. relay_root_bundle(leaf, {}) BY <2>1, <3>1
    <3> QED BY <1>1, <1>2, <2>2, <2>4, <3>2, RelayRootBundle
  <2>6. run.id \in Ids BY <2>1 DEF relay_root_bundle
  <2>7. run' = [run EXCEPT !.pc = "create"] BY <2>1 DEF Goto
  <2>8. /\ run' \in [pc : PCs, k : 0 .. MaxRuns, id : 0 .. MaxBundles]
        /\ run'.k = run.k /\ run'.id = run.id
    BY <1>5, <2>7 DEF PCs
  <2>9. ScriptInv' BY <1>1, <1>2, <2>1, <2>2, <2>5, <2>6, <2>8 DEF ScriptInv
  <2>10. TokenInv' BY <1>1, <2>1, TokenKept
  <2> QED BY <1>4, <2>5, <2>9, <2>10 DEF IInv
<1>8. ASSUME NEW tx \in sent, land(tx) PROVE IInv'
  <2>1. PICK leaf : leaf = FreshLeaf(tx.k) OBVIOUS
  <2>2. PICK i : i = tx.id OBVIOUS
  <2>3. /\ execute_relayer_refund_leaf(i, leaf, FALSE) /\ sent' = sent \ {tx}
        /\ UNCHANGED <<state, run, deposited, bridged>>
    BY <1>8, <2>1, <2>2 DEF land
  <2>4. i \in Ids BY <1>1, <2>2 DEF ScriptInv, Transaction
  <2>5. AdminInv' /\ (Live => Live') /\ TokenInv'
    BY <1>1, <1>2, <2>3, <2>4, RefundKeeps
  <2>6. ScriptInv' BY <1>1, <1>2, <2>3, <2>5 DEF ScriptInv
  <2> QED BY <1>4, <2>5, <2>6 DEF IInv
<1> QED BY <1>6, <1>7, <1>8 DEF PoolAction

LEMMA NextActions ==
  ASSUME Next
  PROVE  AdminAction \/ FillAction \/ RefundAction \/ LocalAction \/ PoolAction
BY DEF Next, AdminAction, FillAction, RefundAction, LocalAction, PoolAction

LEMMA StutterKeeps ==
  ASSUME IInv, UNCHANGED vars
  PROVE  IInv'
<1>1. AdminInv /\ FillInv /\ TokenInv /\ ScriptInv BY DEF IInv
<1>2. UNCHANGED <<now, fillVars, mailed, state, bundles, inbox, tokenVars, received,
                  claim, run, sent, tables, reaper>>
  BY DEF vars, refundVars, scriptVars
<1>3. AdminInv' /\ (Live => Live') BY <1>1, <1>2, AdminKept
<1>4. now' \in 1 .. MaxTime /\ now' >= now BY <1>1, <1>2 DEF AdminInv
<1> QED BY <1>1, <1>2, <1>3, <1>4, FillKept, TokenKept, ScriptKept DEF IInv

LEMMA NextIInv == IInv /\ [Next]_vars => IInv'
BY NextActions, AdminActionKeeps, FillActionKeeps, RefundActionKeeps,
   LocalActionKeeps, PoolActionKeeps, StutterKeeps

THEOREM Invariance == Spec => []IInv
BY InitIInv, NextIInv, PTL DEF Spec

-----------------------------------------------------------------------------
(* What follows from it.                                                   *)

\* The accounts hold what their types say, tokens never go below zero, and
\* every bundle account in use has an id that relay_root_bundle handed out.
THEOREM TypeCorrect == Spec => []TypeOK
<1>1. IInv => TypeOK
  <2> SUFFICES ASSUME IInv PROVE TypeOK OBVIOUS
  <2>1. AdminInv /\ FillInv /\ TokenInv /\ ScriptInv BY DEF IInv
  <2>2. state # None => /\ state.numberOfDeposits \in 0 .. MaxDeposits
                        /\ state.rootBundleId \in 0 .. MaxBundles
    BY <2>1 DEF AdminInv, StateAccount
  <2>3. \A r \in Relays :
          fill[r] # None => /\ fill[r].status \in {"RequestedSlowFill", "Filled"}
                            /\ fill[r].relayer \in Signers
    BY <2>1 DEF FillInv, FillStatusAccount
  <2>4. \A i \in Ids : bundles[i] # None => i < state.rootBundleId
    BY <2>1 DEF AdminInv
  <2>5. \A k \in DOMAIN tables :
          tables[k] \in {"none", "active", "cooling", "cooled", "closed"}
    BY <2>1 DEF ScriptInv, TableStates
  <2>6. {vault, deposited, pending, bridged} \subseteq Nat
          /\ \A a \in Addresses : received[a] \in Nat
    BY <2>1 DEF TokenInv
  <2>7. \A r \in Relays : aged[r] \in 0 .. Len(log[r])
    <3>1. \A r \in Relays : /\ aged[r] \in Nat /\ log[r] \in Seq({Request} \union Fills)
                            /\ aged[r] <= Len(log[r])
      BY <2>1 DEF FillInv, RelayInv
    <3> QED BY <3>1
  <2> QED BY <2>1, <2>2, <2>3, <2>4, <2>5, <2>6, <2>7 DEF TypeOK, AdminInv
<1> QED BY <1>1, Invariance, PTL

-----------------------------------------------------------------------------
(* The program implements the life cycle of its relays.                    *)

Stages     == [r \in Relays |-> StageOf(log[r])]
Outcomes   == [r \in Relays |-> OutcomeOf(log[r])]
Deliveries == [r \in Relays |-> Cardinality(Delivered(log[r]))]

\* The events of a relay that was not filled.
LEMMA OpenLog ==
  /\ StageOf(<<>>) = "Unfilled" /\ OutcomeOf(<<>>) = "None"
  /\ Cardinality(Delivered(<<>>)) = 0
  /\ StageOf(<<Request>>) = "RequestedSlowFill" /\ OutcomeOf(<<Request>>) = "None"
  /\ Cardinality(Delivered(<<Request>>)) = 0
<1>1. Delivered(<<>>) = {} BY DEF Delivered
<1>2. Delivered(<<Request>>) = {}
  <2>1. DOMAIN <<Request>> = {1} /\ <<Request>>[1] = Request OBVIOUS
  <2>2. Request.name = "requestedV3SlowFill" BY DEF Request, Event
  <2> QED BY <2>1, <2>2 DEF Delivered
<1>3. <<Request>> # <<>> OBVIOUS
<1> QED BY <1>1, <1>2, <1>3, FS_EmptySet DEF StageOf, OutcomeOf

\* The events of a relay that was.
LEMMA ClosedLog ==
  ASSUME NEW e \in Fills, NEW l, l = <<e>> \/ l = <<Request, e>>
  PROVE  /\ StageOf(l) = "Filled" /\ OutcomeOf(l) = e.type
         /\ Cardinality(Delivered(l)) = 1
<1>1. e.name = "filledV3Relay" /\ Request.name = "requestedV3SlowFill"
  BY DEF Fills, Request, Event
<1>2. PICK n : Delivered(l) = {n} /\ Last(l) = e
  <2>1. CASE l = <<e>>
    <3>1. DOMAIN l = {1} /\ l[1] = e /\ Last(l) = e BY <2>1 DEF Last
    <3>2. Delivered(l) = {1} BY <1>1, <3>1 DEF Delivered
    <3> QED BY <3>1, <3>2
  <2>2. CASE l = <<Request, e>>
    <3>1. DOMAIN l = {1, 2} /\ l[1] = Request /\ l[2] = e /\ Last(l) = e
      BY <2>2 DEF Last
    <3>2. Delivered(l) = {2} BY <1>1, <3>1 DEF Delivered
    <3> QED BY <3>1, <3>2
  <2> QED BY <2>1, <2>2
<1>3. Cardinality(Delivered(l)) = 1 BY <1>2, FS_Singleton
<1> QED BY <1>2, <1>3 DEF StageOf, OutcomeOf

\* A step that changes the events of one relay changes only what is said of it.
LEMMA OneLog ==
  ASSUME FillInv, NEW r \in Relays, NEW l, log' = [log EXCEPT ![r] = l]
  PROVE  /\ Stages' = [Stages EXCEPT ![r] = StageOf(l)]
         /\ Outcomes' = [Outcomes EXCEPT ![r] = OutcomeOf(l)]
         /\ Deliveries' = [Deliveries EXCEPT ![r] = Cardinality(Delivered(l))]
<1>1. \A q \in Relays : log'[q] = IF q = r THEN l ELSE log[q] BY DEF FillInv
<1>2. \A q \in Relays : StageOf(log[q])' = StageOf(IF q = r THEN l ELSE log[q])
  BY <1>1 DEF StageOf, Delivered
<1>3. ASSUME NEW q \in Relays
      PROVE  OutcomeOf(log[q])' = OutcomeOf(IF q = r THEN l ELSE log[q])
  <2>1. PICK m : m = IF q = r THEN l ELSE log[q] OBVIOUS
  <2>2. log'[q] = m BY <1>1, <2>1
  <2>3. OutcomeOf(log[q])' = OutcomeOf(m) BY <2>2 DEF OutcomeOf, Delivered, Last
  <2> QED BY <2>1, <2>3
<1>4. \A q \in Relays : Cardinality(Delivered(log[q]))'
                          = Cardinality(Delivered(IF q = r THEN l ELSE log[q]))
  BY <1>1 DEF Delivered
<1> QED BY <1>2, <1>3, <1>4 DEF Stages, Outcomes, Deliveries

LEMMA FillDelivers ==
  ASSUME AdminInv, FillInv, NEW r \in Relays, NEW a, NEW e, FilledBy(r, a, e)
  PROVE  Lifecycle!Deliver(r, e.type)
<1>1. PICK l : l = Append(log[r], e) OBVIOUS
<1>2. e \in Fills /\ log' = [log EXCEPT ![r] = l] BY <1>1 DEF FilledBy
<1>3. /\ log[r] = <<>> \/ log[r] = <<Request>>
      /\ l = <<e>> \/ l = <<Request, e>>
  BY <1>1, <1>2, FillAppended DEF FilledBy
<1>4. /\ StageOf(l) = "Filled" /\ OutcomeOf(l) = e.type
      /\ Cardinality(Delivered(l)) = 1
  BY <1>2, <1>3, ClosedLog
<1>5. /\ Stages[r] = Status(r) /\ Stages[r] # "Filled" /\ Deliveries[r] = 0
  <2>1. CASE log[r] = <<>>
    <3>1. Stages[r] = "Unfilled" /\ Deliveries[r] = 0
      BY <2>1, OpenLog DEF Stages, Deliveries
    <3>2. Status(r) = "Unfilled" BY <2>1, OpenRelay DEF FilledBy
    <3> QED BY <3>1, <3>2
  <2>2. CASE log[r] = <<Request>>
    <3>1. Stages[r] = "RequestedSlowFill" /\ Deliveries[r] = 0
      BY <2>2, OpenLog DEF Stages, Deliveries
    <3>2. Status(r) = "RequestedSlowFill" BY <2>2, OpenRelay DEF FilledBy
    <3> QED BY <3>1, <3>2
  <2> QED BY <1>3, <2>1, <2>2
<1>6. e.type \in {"SlowFill", IF Stages[r] = "RequestedSlowFill"
                              THEN "ReplacedSlowFill" ELSE "FastFill"}
  BY <1>5 DEF FilledBy
<1>7. /\ Stages' = [Stages EXCEPT ![r] = "Filled"]
      /\ Outcomes' = [Outcomes EXCEPT ![r] = e.type]
      /\ Deliveries' = [Deliveries EXCEPT ![r] = Deliveries[r] + 1]
  <2>1. /\ Stages' = [Stages EXCEPT ![r] = StageOf(l)]
        /\ Outcomes' = [Outcomes EXCEPT ![r] = OutcomeOf(l)]
        /\ Deliveries' = [Deliveries EXCEPT ![r] = Cardinality(Delivered(l))]
    BY <1>2, OneLog, Zenon
  <2> QED BY <1>4, <1>5, <2>1
<1> QED
  BY <1>5, <1>6, <1>7 DEF Lifecycle!Deliver, Stages, Outcomes, Deliveries

LEMMA RequestRequests ==
  ASSUME AdminInv, FillInv, NEW r \in Relays, RequestedBy(r)
  PROVE  Lifecycle!RequestSlowFill(r)
<1>1. PICK l : l = <<Request>> OBVIOUS
<1>2. log[r] = <<>> /\ log' = [log EXCEPT ![r] = l]
  BY <1>1, RequestedByKeeps DEF RequestedBy
<1>3. Stages[r] = "Unfilled" /\ Outcomes[r] = "None" /\ Deliveries[r] = 0
  BY <1>2, OpenLog DEF Stages, Outcomes, Deliveries
<1>4. /\ Stages' = [Stages EXCEPT ![r] = "RequestedSlowFill"]
      /\ Outcomes' = [Outcomes EXCEPT ![r] = "None"]
      /\ Deliveries' = [Deliveries EXCEPT ![r] = 0]
  <2>1. /\ Stages' = [Stages EXCEPT ![r] = StageOf(l)]
        /\ Outcomes' = [Outcomes EXCEPT ![r] = OutcomeOf(l)]
        /\ Deliveries' = [Deliveries EXCEPT ![r] = Cardinality(Delivered(l))]
    BY <1>2, OneLog, Zenon
  <2> QED BY <1>1, <2>1, OpenLog
<1>5. Outcomes' = Outcomes /\ Deliveries' = Deliveries
  BY <1>3, <1>4 DEF Outcomes, Deliveries
<1> QED
  BY <1>3, <1>4, <1>5 DEF Lifecycle!RequestSlowFill, Stages, Outcomes, Deliveries

LEMMA StepRefines ==
  ASSUME IInv, [Next]_vars
  PROVE  [Lifecycle!Next]_<<Stages, Outcomes, Deliveries>>
<1>1. AdminInv /\ FillInv BY DEF IInv
<1>2. ASSUME UNCHANGED log PROVE UNCHANGED <<Stages, Outcomes, Deliveries>>
  BY <1>2 DEF Stages, Outcomes, Deliveries, StageOf, OutcomeOf, Delivered, Last
<1>3. CASE FillAction
  <2>1. ASSUME NEW r \in Relays, NEW a, NEW e, FilledBy(r, a, e) PROVE Lifecycle!Next
    <3>1. Lifecycle!Deliver(r, e.type) BY <1>1, <2>1, FillDelivers
    <3>2. e.type \in {"FastFill", "ReplacedSlowFill", "SlowFill"}
      BY <2>1 DEF FilledBy, Fills
    <3> QED BY <3>1, <3>2 DEF Lifecycle!Next
  <2>2. ASSUME NEW r \in Relays, RequestedBy(r) PROVE Lifecycle!Next
    BY <1>1, <2>2, RequestRequests DEF Lifecycle!Next
  <2>3. ASSUME UNCHANGED log PROVE [Lifecycle!Next]_<<Stages, Outcomes, Deliveries>>
    BY <1>2, <2>3
  <2> QED BY <1>1, <1>3, <2>1, <2>2, <2>3, FillActions DEF ClosedBy, signatureAges
<1>4. CASE ~FillAction
  <2>1. UNCHANGED log
    <3>1. CASE UNCHANGED vars BY <3>1 DEF vars, fillVars
    <3>2. CASE AdminAction
      BY <3>2 DEF AdminAction, Tick, initialize, enableRoute, sendMessage,
                  handle_receive_message, simpleDeposit, fillVars
    <3>3. CASE RefundAction
      BY <3>3 DEF RefundAction, dataworker, initialize_claim_account,
                  claim_relayer_refund, close_claim_account,
                  bridge_tokens_to_hub_pool, fillVars
    <3>4. CASE LocalAction
      BY <3>4 DEF LocalAction, repayFetch, repayCreateTable, repayExtendTable,
                  repayLoad, repayWrite, repaySend, repayClose, repayThrow, drop,
                  reaperStep, reapList, reapDeactivate, reapClose, coolDown, fillVars
    <3>5. CASE PoolAction
      BY <3>5 DEF PoolAction, repayDeposit, repayRelay, land, fillVars
    <3> QED BY <1>4, <3>1, <3>2, <3>3, <3>4, <3>5, NextActions
  <2> QED BY <1>2, <2>1
<1> QED BY <1>3, <1>4

\* Although close_fill_pda removes the account that remembers a fill, and the
\* account may be created again, every step requests a slow fill of one open
\* relay, delivers one open relay, or leaves what was said of relays alone.
THEOREM ProgramImplementsLifecycle == Spec => RefinesLifecycle
<1>1. Init => Lifecycle!Init
  <2> SUFFICES ASSUME Init PROVE Lifecycle!Init OBVIOUS
  <2>1. \A r \in Relays : log[r] = <<>> BY DEF Init
  <2> QED BY <2>1, OpenLog DEF Lifecycle!Init
<1>2. IInv /\ [Next]_vars
        => [Lifecycle!Next]_<<[r \in Relays |-> StageOf(log[r])],
                              [r \in Relays |-> OutcomeOf(log[r])],
                              [r \in Relays |-> Cardinality(Delivered(log[r]))]>>
  BY StepRefines DEF Stages, Outcomes, Deliveries
<1> QED
  BY <1>1, <1>2, Invariance, PTL DEF Spec, RefinesLifecycle, Lifecycle!Spec
=============================================================================
