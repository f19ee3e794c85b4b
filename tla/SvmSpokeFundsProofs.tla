------------------------ MODULE SvmSpokeFundsProofs ------------------------
(***************************************************************************)
(* Proof that the tokens of SvmSpoke are explained by what was executed:   *)
(* RefundsExplained, for any number of leaves, bundles, relays and runs.   *)
(*                                                                         *)
(* It is not inductive. A leaf is paid once only because the bundle        *)
(* account remembers it; the account may be deleted, but its id is never   *)
(* handed out again (HistoryInv). A slow fill is counted once because a    *)
(* relay that can be filled has no fill among its events (FillInv).        *)
(***************************************************************************)
EXTENDS SvmSpokeProofs, SumTheorems

\* What is known of the leaves that were executed.
HistoryInv ==
    /\ IsFiniteSet(executed)
    /\ \A x \in executed :
         /\ x \in Ids \X AllLeaves
         /\ Live /\ x[1] < state.rootBundleId
         /\ bundles[x[1]] = None \/ bundles[x[1]].claimed

FundsInv == HistoryInv /\ IsFiniteSet(SlowFilled) /\ RefundsExplained

-----------------------------------------------------------------------------
(* Finite sets and sums of what they hold.                                 *)

\* Refunds are paid to finitely many addresses.
LEMMA FiniteAddresses == IsFiniteSet(Addresses)
<1>1. IsFiniteSet({l.to : l \in Leaves})
  <2> DEFINE T == {l.to : l \in Leaves}
             f == [l \in Leaves |-> l.to]
  <2>1. f \in Surjection(Leaves, T) BY DEF Surjection
  <2> HIDE DEF T, f
  <2>2. IsFiniteSet(T) BY <2>1, LeavesAssumption, FS_Surjection
  <2> QED BY <2>2 DEF T
<1>2. IsFiniteSet({Fresh(k) : k \in 1 .. MaxRuns})
  <2> DEFINE S == 1 .. MaxRuns
             T == {Fresh(k) : k \in S}
             f == [k \in S |-> Fresh(k)]
  <2>1. IsFiniteSet(S) BY LimitsAssumption, FS_Interval
  <2>2. f \in Surjection(S, T) BY DEF Surjection
  <2> HIDE DEF S, T, f
  <2>3. IsFiniteSet(T) BY <2>1, <2>2, FS_Surjection
  <2> QED BY <2>3 DEF S, T
<1> QED BY <1>1, <1>2, FS_Union DEF Addresses

\* A payment to an address adds to what all of them got.
LEMMA PaymentsAdd ==
  ASSUME TokenInv, NEW a \in Addresses, NEW n \in Nat,
         received' = [received EXCEPT ![a] = received[a] + n]
  PROVE  /\ SumFunction(received') = SumFunction(received) + n
         /\ SumFunction(received) \in Nat
<1>1. received \in [Addresses -> Nat] BY DEF TokenInv
<1>2. received' \in [Addresses -> Nat] /\ received'[a] = received[a] + n BY <1>1
<1>3. \A b \in Addresses : b # a => received'[b] = received[b] BY <1>1
<1>4. received \in [Addresses -> Int] /\ received' \in [Addresses -> Int]
  BY <1>1, <1>2, NatFunction
<1>5. ChangesTerm(Addresses, received, a, received')
  BY <1>3, <1>4, FiniteAddresses, Zenon DEF ChangesTerm
<1>6. SumFunction(received') = SumFunction(received) + (received'[a] - received[a])
  <2>1. PICK f, g : f = received /\ g = received' OBVIOUS
  <2>2. ChangesTerm(Addresses, f, a, g) BY <1>5, <2>1
  <2>3. SumFunction(g) = SumFunction(f) + (g[a] - f[a]) BY <2>2, SumChange
  <2> QED BY <2>1, <2>3
<1>7. received'[a] - received[a] = n BY <1>1, <1>2
<1>8. SumFunction(received) \in Nat BY <1>1, FiniteAddresses, SumNat
<1> QED BY <1>6, <1>7, <1>8

\* What was refunded to an address is a natural number.
LEMMA RefundedType ==
  ASSUME HistoryInv, NEW a \in Addresses
  PROVE  /\ IsFiniteSet(RefundsOf(a))
         /\ [x \in RefundsOf(a) |-> x[2].amount] \in [RefundsOf(a) -> Nat]
         /\ Refunded(a) \in Nat
<1>1. IsFiniteSet(RefundsOf(a)) BY FS_Subset DEF HistoryInv, RefundsOf
<1> DEFINE f == [x \in RefundsOf(a) |-> x[2].amount]
<1>2. ASSUME NEW x \in RefundsOf(a) PROVE x[2].amount \in Nat
  <2>1. x[2] \in AllLeaves BY DEF HistoryInv, RefundsOf
  <2> QED BY <2>1, LeafFacts
<1>3. f \in [RefundsOf(a) -> Nat] BY <1>2
<1> HIDE DEF f
<1>4. SumFunction(f) \in Nat BY <1>1, <1>3, SumNat
<1> QED BY <1>1, <1>3, <1>4 DEF f, Refunded

\* A leaf that was not executed before adds its amount to what its address gets.
LEMMA RefundAdds ==
  ASSUME HistoryInv, NEW x \in Ids \X AllLeaves, x \notin executed,
         executed' = executed \union {x}, NEW a \in Addresses
  PROVE  Refunded(a)' = Refunded(a) + IF x[2].to = a THEN x[2].amount ELSE 0
<1> DEFINE D == RefundsOf(a)
           f == [y \in RefundsOf(a) |-> y[2].amount]
           g == [y \in RefundsOf(a)' |-> y[2].amount]
<1>1. x[2] \in AllLeaves /\ x[2].amount \in Nat BY LeafFacts
<1>2. Refunded(a) = SumFunction(f) /\ Refunded(a)' = SumFunction(g) BY DEF Refunded
<1>3. IsFiniteSet(D) /\ f \in [D -> Nat] /\ Refunded(a) \in Nat BY RefundedType
<1>4. CASE x[2].to = a
  <2>1. RefundsOf(a)' = D \union {x} BY <1>4 DEF RefundsOf
  <2>2. x \notin D BY DEF RefundsOf
  <2>3. g \in [D \union {x} -> Nat] /\ g[x] = x[2].amount
    <3>1. \A y \in D : f[y] \in Nat /\ f[y] = y[2].amount BY <1>3
    <3> QED BY <1>1, <2>1, <3>1
  <2>4. \A y \in D : g[y] = f[y] BY <2>1
  <2> HIDE DEF D, f, g
  <2>5. f \in [D -> Int] /\ g \in [D \union {x} -> Int] BY <1>3, <2>3, NatFunction
  <2>6. AddsTerm(D, f, x, g) BY <1>3, <2>2, <2>4, <2>5, Zenon DEF AddsTerm
  <2>7. SumFunction(g) = SumFunction(f) + g[x] BY <2>6, SumAdd
  <2> QED BY <1>2, <1>4, <2>3, <2>7
<1>5. CASE x[2].to # a
  <2>1. RefundsOf(a)' = D BY <1>5 DEF RefundsOf
  <2>2. g = f BY <2>1
  <2> HIDE DEF D, f, g
  <2> QED BY <1>2, <1>3, <1>5, <2>2
<1> QED BY <1>4, <1>5

-----------------------------------------------------------------------------
(* The relays that were filled slowly.                                     *)

HasSlowFill(l) == \E e \in ToSet(l) : e.type = "SlowFill"

\* The events of an open relay hold no slow fill; a fill adds one if it is one.
LEMMA SlowFillOfLog ==
  /\ ~HasSlowFill(<<>>) /\ ~HasSlowFill(<<Request>>)
  /\ \A e \in Fills : /\ HasSlowFill(<<e>>) <=> e.type = "SlowFill"
                      /\ HasSlowFill(<<Request, e>>) <=> e.type = "SlowFill"
<1>1. Request.type = "None" BY DEF Request, Event
<1>2. ToSet(<<>>) = {} BY DEF ToSet
<1>3. \A x : ToSet(<<x>>) = {x} BY DEF ToSet
<1>4. ASSUME NEW x, NEW y PROVE ToSet(<<x, y>>) = {x, y}
  <2>1. DOMAIN <<x, y>> = {1, 2} /\ <<x, y>>[1] = x /\ <<x, y>>[2] = y OBVIOUS
  <2> QED BY <2>1 DEF ToSet
<1> QED BY <1>1, <1>2, <1>3, <1>4 DEF HasSlowFill

\* Events about one relay change the set in that relay only.
LEMMA SlowFilledStep ==
  ASSUME FillInv, NEW r \in Relays, NEW l, log' = [log EXCEPT ![r] = l],
         ~HasSlowFill(log[r])
  PROVE  /\ r \notin SlowFilled
         /\ SlowFilled' = IF HasSlowFill(l) THEN SlowFilled \union {r} ELSE SlowFilled
<1>1. \A q \in Relays : log'[q] = IF q = r THEN l ELSE log[q] BY DEF FillInv
<1>2. SlowFilled = {q \in Relays : HasSlowFill(log[q])}
  BY DEF SlowFilled, HasSlowFill
<1>3. SlowFilled' = {q \in Relays : HasSlowFill(log'[q])}
  BY DEF SlowFilled, HasSlowFill, ToSet
<1> HIDE DEF HasSlowFill
<1> QED BY <1>1, <1>2, <1>3

-----------------------------------------------------------------------------
(* What a step does to tokens, claims and the memory of what was executed. *)

\* Bundle ids are not handed out again, and a bundle's leaf stays executed.
PoolKept ==
    /\ UNCHANGED executed
    /\ Live => /\ Live' /\ state'.rootBundleId \in Nat
               /\ state'.rootBundleId >= state.rootBundleId
               /\ \A i \in Ids : i < state.rootBundleId => bundles'[i] \in {None, bundles[i]}

NothingMoves ==
    /\ PoolKept
    /\ UNCHANGED <<received, claim, vault, bridged, deposited>> /\ SlowFilled' = SlowFilled

DepositMoves(n) ==
    /\ PoolKept /\ n \in Nat
    /\ deposited' = deposited + n /\ vault' = vault + n
    /\ UNCHANGED <<received, claim, bridged>> /\ SlowFilled' = SlowFilled

SlowFillMoves(r) ==
    /\ PoolKept
    /\ vault' = vault - 1
    /\ r \notin SlowFilled /\ SlowFilled' = SlowFilled \union {r}
    /\ UNCHANGED <<received, claim, bridged, deposited>>

BridgeMoves ==
    /\ PoolKept
    /\ vault' = vault - 1 /\ bridged' = bridged + 1
    /\ UNCHANGED <<received, claim, deposited>> /\ SlowFilled' = SlowFilled

\* The claim account of a becomes c, and n of its tokens are paid.
ClaimMoves(a, c, n) ==
    /\ PoolKept /\ n \in Nat
    /\ claim' = [claim EXCEPT ![a] = c]
    /\ Outstanding(a) = n /\ (c # None => c.amount = 0)
    /\ vault' = vault - n
    /\ received' = [received EXCEPT ![a] = received[a] + n]
    /\ UNCHANGED <<bridged, deposited>> /\ SlowFilled' = SlowFilled

LeafMoves(i, leaf, deferred) ==
    /\ execute_relayer_refund_leaf(i, leaf, deferred)
    /\ UNCHANGED <<state, bridged, deposited>> /\ SlowFilled' = SlowFilled

\* What is known of executed leaves stays true, and no refund is added.
LEMMA HistoryKept ==
  ASSUME AdminInv, HistoryInv, PoolKept
  PROVE  HistoryInv' /\ \A a \in Addresses : Refunded(a)' = Refunded(a)
<1>1. executed' = executed BY DEF PoolKept
<1>2. ASSUME NEW x \in executed
      PROVE  /\ x \in Ids \X AllLeaves
             /\ Live' /\ x[1] < state'.rootBundleId
             /\ bundles'[x[1]] = None \/ bundles'[x[1]].claimed
  <2>1. /\ x \in Ids \X AllLeaves /\ Live /\ x[1] < state.rootBundleId
        /\ bundles[x[1]] = None \/ bundles[x[1]].claimed
    BY DEF HistoryInv
  <2>2. x[1] \in Ids /\ x[1] \in Nat BY <2>1 DEF Ids
  <2>3. state.rootBundleId \in Nat BY <2>1 DEF AdminInv, Live, StateAccount
  <2>4. /\ Live' /\ state'.rootBundleId \in Nat
        /\ state'.rootBundleId >= state.rootBundleId
        /\ bundles'[x[1]] \in {None, bundles[x[1]]}
    BY <2>1, <2>2 DEF PoolKept
  <2> QED BY <2>1, <2>2, <2>3, <2>4
<1>3. HistoryInv' BY <1>1, <1>2 DEF HistoryInv
<1>4. \A a \in Addresses : Refunded(a)' = Refunded(a)
  BY <1>1 DEF Refunded, RefundsOf
<1> QED BY <1>3, <1>4

\* The types of the two accounts.
LEMMA FundsTypes ==
  ASSUME TokenInv, FundsInv
  PROVE  /\ vault \in Nat /\ bridged \in Nat /\ deposited \in Nat
         /\ SumFunction(received) \in Nat /\ Cardinality(SlowFilled) \in Nat
         /\ \A a \in Addresses : received[a] \in Nat /\ Outstanding(a) \in Nat
<1>1. SumFunction(received) \in Nat BY FiniteAddresses, SumNat DEF TokenInv
<1>2. Cardinality(SlowFilled) \in Nat BY FS_CardinalityType DEF FundsInv
<1>3. \A a \in Addresses : received[a] \in Nat /\ Outstanding(a) \in Nat
  BY DEF TokenInv, Outstanding, ClaimAccount
<1> QED BY <1>1, <1>2, <1>3 DEF TokenInv

\* The accounts of addresses that a step leaves alone stay balanced.
LEMMA AddressesKept ==
  ASSUME FundsInv, UNCHANGED <<received, claim>>,
         \A a \in Addresses : Refunded(a)' = Refunded(a)
  PROVE  \A a \in Addresses : received'[a] + Outstanding(a)' = Refunded(a)'
<1>1. \A a \in Addresses : Outstanding(a)' = Outstanding(a) BY DEF Outstanding
<1>2. \A a \in Addresses : received[a] + Outstanding(a) = Refunded(a)
  BY DEF FundsInv, RefundsExplained
<1> QED BY <1>1, <1>2

\* The vault's balance is explained, before and after a step.
LEMMA VaultExplained ==
  /\ FundsInv => deposited = vault + bridged + SumFunction(received)
                               + Cardinality(SlowFilled)
  /\ (/\ HistoryInv' /\ IsFiniteSet(SlowFilled')
      /\ \A a \in Addresses : received'[a] + Outstanding(a)' = Refunded(a)'
      /\ deposited' = vault' + bridged' + SumFunction(received')
                        + Cardinality(SlowFilled'))
       => FundsInv'
<1>1. Cardinality(SlowFilled)' = Cardinality(SlowFilled')
        /\ IsFiniteSet(SlowFilled)' = IsFiniteSet(SlowFilled')
        /\ SumFunction(received)' = SumFunction(received')
  OBVIOUS
<1> QED BY <1>1 DEF FundsInv, RefundsExplained

-----------------------------------------------------------------------------
(* Every way in which tokens move keeps the accounts balanced.             *)

\* Steps that pay no refund.
LEMMA PlainMovesKeep ==
  ASSUME IInv, FundsInv,
         \/ NothingMoves \/ BridgeMoves
         \/ \E n \in Nat : DepositMoves(n)
         \/ \E r \in Relays : SlowFillMoves(r)
  PROVE  FundsInv'
<1>1. /\ PoolKept /\ UNCHANGED <<received, claim>>
  BY DEF NothingMoves, BridgeMoves, DepositMoves, SlowFillMoves
<1>2. HistoryInv' /\ \A a \in Addresses : Refunded(a)' = Refunded(a)
  BY <1>1, HistoryKept DEF IInv, FundsInv
<1>3. \A a \in Addresses : received'[a] + Outstanding(a)' = Refunded(a)'
  BY <1>1, <1>2, AddressesKept
<1> DEFINE R == SumFunction(received)
           C == Cardinality(SlowFilled)
           C2 == Cardinality(SlowFilled')
<1>4. vault \in Nat /\ bridged \in Nat /\ deposited \in Nat /\ R \in Nat /\ C \in Nat
  BY FundsTypes DEF IInv
<1>5. deposited = vault + bridged + R + C BY VaultExplained
<1>6. SumFunction(received') = R BY <1>1
<1>7. IsFiniteSet(SlowFilled) BY DEF FundsInv
<1>8. SUFFICES IsFiniteSet(SlowFilled') /\ deposited' = vault' + bridged' + R + C2
  BY <1>2, <1>3, <1>6, VaultExplained
<1>9. CASE NothingMoves
  <2>1. SlowFilled' = SlowFilled /\ UNCHANGED <<vault, bridged, deposited>>
    BY <1>9 DEF NothingMoves
  <2> QED BY <1>5, <1>7, <2>1
<1>10. CASE BridgeMoves
  <2>1. SlowFilled' = SlowFilled BY <1>10 DEF BridgeMoves
  <2>2. vault' = vault - 1 /\ bridged' = bridged + 1 /\ deposited' = deposited
    BY <1>10 DEF BridgeMoves
  <2>3. C2 = C BY <2>1
  <2> HIDE DEF R, C, C2
  <2>4. (vault - 1) + (bridged + 1) + R + C = vault + bridged + R + C BY <1>4
  <2> QED BY <1>5, <1>7, <2>1, <2>2, <2>3, <2>4
<1>11. ASSUME NEW n \in Nat, DepositMoves(n)
       PROVE  IsFiniteSet(SlowFilled') /\ deposited' = vault' + bridged' + R + C2
  <2>1. SlowFilled' = SlowFilled BY <1>11 DEF DepositMoves
  <2>2. vault' = vault + n /\ bridged' = bridged /\ deposited' = deposited + n
    BY <1>11 DEF DepositMoves
  <2>3. C2 = C BY <2>1
  <2> HIDE DEF R, C, C2
  <2>4. (vault + n) + bridged + R + C = (vault + bridged + R + C) + n BY <1>4
  <2> QED BY <1>5, <1>7, <2>1, <2>2, <2>3, <2>4
<1>12. ASSUME NEW r \in Relays, SlowFillMoves(r)
       PROVE  IsFiniteSet(SlowFilled') /\ deposited' = vault' + bridged' + R + C2
  <2>1. r \notin SlowFilled /\ SlowFilled' = SlowFilled \union {r}
    BY <1>12 DEF SlowFillMoves
  <2>2. vault' = vault - 1 /\ bridged' = bridged /\ deposited' = deposited
    BY <1>12 DEF SlowFillMoves
  <2>3. IsFiniteSet(SlowFilled') /\ C2 = C + 1
    <3>1. PICK S : S = SlowFilled OBVIOUS
    <3>2. IsFiniteSet(S \union {r}) /\ Cardinality(S \union {r}) = Cardinality(S) + 1
      BY <1>7, <2>1, <3>1, FS_AddElement
    <3> QED BY <2>1, <3>1, <3>2
  <2> HIDE DEF R, C, C2
  <2>4. (vault - 1) + bridged + R + (C + 1) = vault + bridged + R + C BY <1>4
  <2> QED BY <1>5, <2>2, <2>3, <2>4
<1> QED BY <1>9, <1>10, <1>11, <1>12

\* Claim accounts that are opened, paid or closed.
LEMMA ClaimMovesKeep ==
  ASSUME IInv, FundsInv, NEW a \in Addresses, NEW c \in {None} \union ClaimAccount,
         NEW n \in Nat, ClaimMoves(a, c, n)
  PROVE  FundsInv'
<1>1. /\ PoolKept /\ claim' = [claim EXCEPT ![a] = c] /\ Outstanding(a) = n
      /\ c # None => c.amount = 0
      /\ received' = [received EXCEPT ![a] = received[a] + n]
      /\ vault' = vault - n /\ UNCHANGED <<bridged, deposited>>
      /\ SlowFilled' = SlowFilled
  BY DEF ClaimMoves
<1>2. HistoryInv' /\ \A b \in Addresses : Refunded(b)' = Refunded(b)
  BY <1>1, HistoryKept DEF IInv, FundsInv
<1>3. received \in [Addresses -> Nat] /\ claim \in [Addresses -> {None} \union ClaimAccount]
  BY DEF IInv, TokenInv
<1>4. ASSUME NEW b \in Addresses PROVE received'[b] + Outstanding(b)' = Refunded(b)'
  <2>1. received[b] + Outstanding(b) = Refunded(b) BY DEF FundsInv, RefundsExplained
  <2>2. CASE b = a
    <3>1. Outstanding(b)' = 0 BY <1>1, <1>3, <2>2 DEF Outstanding
    <3>2. received'[b] = received[b] + n /\ received[b] \in Nat BY <1>1, <1>3, <2>2
    <3> QED BY <1>1, <1>2, <2>1, <2>2, <3>1, <3>2
  <2>3. CASE b # a
    <3>1. Outstanding(b)' = Outstanding(b) BY <1>1, <1>3, <2>3 DEF Outstanding
    <3>2. received'[b] = received[b] BY <1>1, <1>3, <2>3
    <3> QED BY <1>2, <2>1, <3>1, <3>2
  <2> QED BY <2>2, <2>3
<1> DEFINE R == SumFunction(received)
           R2 == SumFunction(received')
           C == Cardinality(SlowFilled)
<1>5. vault \in Nat /\ bridged \in Nat /\ deposited \in Nat /\ R \in Nat /\ C \in Nat
  BY FundsTypes DEF IInv
<1>6. deposited = vault + bridged + R + C BY VaultExplained
<1>7. R2 = R + n BY <1>1, PaymentsAdd DEF IInv
<1>8. IsFiniteSet(SlowFilled') /\ Cardinality(SlowFilled') = C BY <1>1 DEF FundsInv
<1>9. deposited' = vault' + bridged' + R2 + C
  <2> HIDE DEF R, R2, C
  <2>1. (vault - n) + bridged + (R + n) + C = vault + bridged + R + C BY <1>5
  <2> QED BY <1>1, <1>6, <1>7, <2>1
<1> QED BY <1>2, <1>4, <1>8, <1>9, VaultExplained

\* A refund: at once, or put into the claim account.
LEMMA LeafMovesKeep ==
  ASSUME IInv, IInv', FundsInv, NEW i \in Ids, NEW leaf, NEW deferred \in BOOLEAN,
         LeafMoves(i, leaf, deferred)
  PROVE  FundsInv'
<1>1. AdminInv /\ TokenInv /\ HistoryInv BY DEF IInv, FundsInv
<1>2. /\ bundles[i] # None /\ bundles[i].leaf = leaf /\ ~bundles[i].claimed
      /\ bundles' = [bundles EXCEPT ![i].claimed = TRUE]
      /\ executed' = executed \union {<<i, leaf>>}
      /\ UNCHANGED <<state, bridged, deposited>> /\ SlowFilled' = SlowFilled
  BY DEF LeafMoves, execute_relayer_refund_leaf, IsClaimed
<1>3. bundles[i] \in RootBundle /\ leaf \in AllLeaves BY <1>1, <1>2 DEF AdminInv, RootBundle
<1>4. leaf.amount \in Nat /\ leaf.to \in Addresses BY <1>3, LeafFacts
<1>5. PICK x : x = <<i, leaf>> OBVIOUS
<1>6. x \in Ids \X AllLeaves /\ x[1] = i /\ x[2] = leaf BY <1>3, <1>5
<1>7. x \notin executed BY <1>1, <1>2, <1>6 DEF HistoryInv
<1>8. HistoryInv'
  <2>1. IsFiniteSet(executed') BY <1>1, <1>2, <1>5, FS_AddElement DEF HistoryInv
  <2>2. /\ bundles'[i].claimed = TRUE
        /\ \A j \in Ids : j # i => bundles'[j] = bundles[j]
    BY <1>1, <1>2, <1>3 DEF AdminInv, RootBundle
  <2>3. Live' /\ Live /\ i < state'.rootBundleId BY <1>1, <1>2 DEF AdminInv, Live
  <2>4. ASSUME NEW y \in executed'
        PROVE  /\ y \in Ids \X AllLeaves
               /\ Live' /\ y[1] < state'.rootBundleId
               /\ bundles'[y[1]] = None \/ bundles'[y[1]].claimed
    <3>1. CASE y = x BY <1>6, <2>2, <2>3, <3>1
    <3>2. CASE y \in executed
      <4>1. /\ y \in Ids \X AllLeaves /\ y[1] < state.rootBundleId
            /\ bundles[y[1]] = None \/ bundles[y[1]].claimed
        BY <1>1, <3>2 DEF HistoryInv
      <4>2. y[1] # i BY <1>2, <4>1
      <4>3. bundles'[y[1]] = bundles[y[1]] BY <2>2, <4>1, <4>2
      <4> QED BY <1>2, <2>3, <4>1, <4>3
    <3> QED BY <1>2, <1>5, <3>1, <3>2
  <2> QED BY <2>1, <2>4 DEF HistoryInv
<1>9. \A a \in Addresses :
        Refunded(a)' = Refunded(a) + IF leaf.to = a THEN leaf.amount ELSE 0
  BY <1>1, <1>2, <1>5, <1>6, <1>7, RefundAdds
<1>10. PICK to \in Addresses, n \in Nat : to = leaf.to /\ n = leaf.amount BY <1>4
<1>11. received \in [Addresses -> Nat] /\ claim \in [Addresses -> {None} \union ClaimAccount]
  BY <1>1 DEF TokenInv
<1>12. PICK paid \in Nat :
         /\ paid = IF deferred THEN 0 ELSE n
         /\ vault' = vault - paid
         /\ received' = [received EXCEPT ![to] = received[to] + paid]
  <2>1. CASE deferred
    <3>1. UNCHANGED <<vault, received>>
      BY <2>1 DEF LeafMoves, execute_relayer_refund_leaf
    <3>2. vault' = vault - 0 /\ received' = [received EXCEPT ![to] = received[to] + 0]
      BY <1>1, <1>11, <3>1 DEF TokenInv
    <3> QED BY <2>1, <3>2
  <2>2. CASE ~deferred
    BY <1>10, <2>2 DEF LeafMoves, execute_relayer_refund_leaf
  <2> QED BY <2>1, <2>2
<1>13. /\ Outstanding(to)' = Outstanding(to) + IF deferred THEN n ELSE 0
       /\ \A a \in Addresses : a # to => Outstanding(a)' = Outstanding(a)
  <2>0. Outstanding(to) \in Nat BY FundsTypes DEF IInv
  <2>1. CASE deferred
    <3>1. claim[to] \in ClaimAccount
      BY <1>10, <1>11, <2>1 DEF LeafMoves, execute_relayer_refund_leaf
    <3>2. claim' = [claim EXCEPT ![to].amount = claim[to].amount + n]
      BY <1>10, <2>1 DEF LeafMoves, execute_relayer_refund_leaf
    <3>3. claim'[to].amount = claim[to].amount + n /\ claim'[to] \in ClaimAccount
      BY <1>11, <3>1, <3>2 DEF ClaimAccount
    <3>4. \A a \in Addresses : a # to => claim'[a] = claim[a] BY <1>11, <3>2
    <3> QED BY <2>1, <3>1, <3>3, <3>4, NoneIsNoAccount DEF Outstanding
  <2>2. CASE ~deferred
    <3>1. UNCHANGED claim BY <2>2 DEF LeafMoves, execute_relayer_refund_leaf
    <3>2. \A a \in Addresses : Outstanding(a)' = Outstanding(a) BY <3>1 DEF Outstanding
    <3> QED BY <2>0, <2>2, <3>2
  <2> QED BY <2>1, <2>2
<1>14. ASSUME NEW a \in Addresses PROVE received'[a] + Outstanding(a)' = Refunded(a)'
  <2>1. received[a] + Outstanding(a) = Refunded(a) BY DEF FundsInv, RefundsExplained
  <2>2. received[a] \in Nat /\ Outstanding(a) \in Nat /\ Refunded(a) \in Nat
    BY <1>1, FundsTypes, RefundedType
  <2>3. CASE a = to
    <3>1. received'[a] = received[a] + paid BY <1>11, <1>12, <2>3
    <3>2. Refunded(a)' = Refunded(a) + n BY <1>9, <1>10, <2>3
    <3>3. Outstanding(a)' = Outstanding(a) + IF deferred THEN n ELSE 0 BY <1>13, <2>3
    <3> QED BY <1>12, <2>1, <2>2, <3>1, <3>2, <3>3
  <2>4. CASE a # to
    <3>1. received'[a] = received[a] BY <1>11, <1>12, <2>4
    <3>2. Refunded(a)' = Refunded(a) BY <1>9, <1>10, <2>2, <2>4
    <3>3. Outstanding(a)' = Outstanding(a) BY <1>13, <2>4
    <3> QED BY <2>1, <3>1, <3>2, <3>3
  <2> QED BY <2>3, <2>4
<1> DEFINE R == SumFunction(received)
           R2 == SumFunction(received')
           C == Cardinality(SlowFilled)
<1>15. vault \in Nat /\ bridged \in Nat /\ deposited \in Nat /\ R \in Nat /\ C \in Nat
  BY <1>1, FundsTypes
<1>16. deposited = vault + bridged + R + C BY VaultExplained
<1>17. R2 = R + paid BY <1>1, <1>12, PaymentsAdd
<1>18. IsFiniteSet(SlowFilled') /\ Cardinality(SlowFilled') = C BY <1>2 DEF FundsInv
<1>19. deposited' = vault' + bridged' + R2 + C
  <2> HIDE DEF R, R2, C
  <2>1. (vault - paid) + bridged + (R + paid) + C = vault + bridged + R + C BY <1>15
  <2> QED BY <1>2, <1>12, <1>16, <1>17, <2>1
<1> QED BY <1>8, <1>14, <1>18, <1>19, VaultExplained

-----------------------------------------------------------------------------
(* Every step moves tokens in one of these ways.                           *)

\* A step that leaves the pool's accounts and the executed leaves alone.
LEMMA SamePool ==
  ASSUME AdminInv, UNCHANGED <<state, bundles, executed>>
  PROVE  PoolKept
<1>1. Live => state.rootBundleId \in Nat BY DEF AdminInv, Live, StateAccount
<1> QED BY <1>1 DEF PoolKept, Live

\* A step that leaves the events of relays alone.
LEMMA SameLogs ==
  ASSUME UNCHANGED log
  PROVE  SlowFilled' = SlowFilled
BY DEF SlowFilled, ToSet

\* A new bundle takes the next id.
LEMMA NewBundleKeeps ==
  ASSUME AdminInv, NEW leaf, NEW slow, relay_root_bundle(leaf, slow), Live,
         UNCHANGED executed
  PROVE  PoolKept
<1>1. state \in StateAccount BY DEF AdminInv, Live
<1>2. PICK n \in Nat : n = state.rootBundleId BY <1>1 DEF StateAccount
<1>3. state' = [state EXCEPT !.rootBundleId = n + 1]
  BY <1>2 DEF relay_root_bundle
<1>4. state'.rootBundleId = n + 1 /\ state' # None
  <2>1. state'.rootBundleId = n + 1 /\ DOMAIN state' = DOMAIN state
    BY <1>1, <1>3 DEF StateAccount
  <2>2. "rootBundleId" \in DOMAIN state BY <1>1 DEF StateAccount
  <2>3. DOMAIN None = {"none"} BY DEF None
  <2> QED BY <2>1, <2>2, <2>3
<1>5. PICK b : b = NewBundle(leaf, slow) OBVIOUS
<1>6. bundles' = [bundles EXCEPT ![n] = b] BY <1>2, <1>5 DEF relay_root_bundle
<1>7. ASSUME NEW i \in Ids, i < n PROVE bundles'[i] = bundles[i]
  <2>1. i # n BY <1>2, <1>7 DEF Ids
  <2> QED BY <1>6, <2>1 DEF AdminInv
<1> QED BY <1>2, <1>4, <1>7 DEF PoolKept, Live

\* The state account changes, but not its next bundle id.
LEMMA StateStepKeeps ==
  ASSUME AdminInv, state' \in StateAccount, state'.rootBundleId = state.rootBundleId,
         UNCHANGED executed,
         UNCHANGED bundles \/ \E i \in Ids : bundles' = [bundles EXCEPT ![i] = None]
  PROVE  PoolKept
<1>1. state'.rootBundleId \in Nat BY DEF StateAccount
<1>2. Live' BY NoneIsNoAccount DEF Live
<1>3. \A i \in Ids : bundles'[i] \in {None, bundles[i]} BY DEF AdminInv
<1> QED BY <1>1, <1>2, <1>3 DEF PoolKept

\* A message of the HubPool moves no tokens.
LEMMA MessageMoves ==
  ASSUME AdminInv, NEW m \in inbox, handle_receive_message(m)
  PROVE  NothingMoves
<1>1. Live /\ m.body \in Calls /\ state \in StateAccount
  BY DEF handle_receive_message, AdminInv, Live
<1>2. UNCHANGED <<log, received, claim, executed, vault, bridged, deposited>>
  BY DEF handle_receive_message, fillVars, refundVars, tokenVars
<1>3. PICK c : c = m.body OBVIOUS
<1>4. PoolKept
  <2>1. CASE c.call \in {"pauseDeposits", "pauseFills"}
    <3>1. c.pause \in BOOLEAN BY <1>1, <1>3, <2>1 DEF Calls
    <3>2. UNCHANGED bundles BY <1>3, <2>1 DEF handle_receive_message
    <3>3. \/ state' = [state EXCEPT !.pausedDeposits = c.pause]
          \/ state' = [state EXCEPT !.pausedFills = c.pause]
      BY <1>3, <2>1 DEF handle_receive_message
    <3>4. state' \in StateAccount /\ state'.rootBundleId = state.rootBundleId
      BY <1>1, <3>1, <3>3 DEF StateAccount
    <3> QED BY <1>2, <3>2, <3>4, StateStepKeeps
  <2>2. CASE c.call = "relayRootBundle"
    <3>1. relay_root_bundle(c.leaf, c.slow) BY <1>3, <2>2 DEF handle_receive_message
    <3> QED BY <1>1, <1>2, <3>1, NewBundleKeeps
  <2>3. CASE c.call = "emergencyDeleteRootBundle"
    <3>1. c.id \in Ids BY <1>1, <1>3, <2>3 DEF Calls
    <3>2. bundles' = [bundles EXCEPT ![c.id] = None] /\ UNCHANGED state
      BY <1>3, <2>3 DEF handle_receive_message, emergency_delete_root_bundle
    <3> QED BY <1>1, <1>2, <3>1, <3>2, StateStepKeeps
  <2> QED BY <1>3, <2>1, <2>2, <2>3 DEF handle_receive_message
<1> QED BY <1>2, <1>4, SameLogs DEF NothingMoves

\* A deposit puts its amount into the vault.
LEMMA DepositIsMove ==
  ASSUME AdminInv, NEW q, NEW d, NEW n \in Nat, deposit_v3(q, d, n),
         UNCHANGED <<bundles, executed, received, claim, log>>
  PROVE  DepositMoves(n)
<1>1. Live /\ state \in StateAccount BY DEF deposit_v3, DepositAllowed, AdminInv, Live
<1>2. PICK k : k = state.numberOfDeposits + 1 OBVIOUS
<1>3. k \in 0 .. MaxDeposits
  BY <1>1, <1>2, LimitsAssumption DEF deposit_v3, StateAccount
<1>4. state' = [state EXCEPT !.numberOfDeposits = k] BY <1>2 DEF deposit_v3
<1>5. state' \in StateAccount /\ state'.rootBundleId = state.rootBundleId
  BY <1>1, <1>3, <1>4 DEF StateAccount
<1>6. PoolKept BY <1>5, StateStepKeeps
<1> QED BY <1>6, SameLogs DEF DepositMoves, deposit_v3

\* Of the clock, the owner, messages and deposits, only deposits move tokens.
LEMMA AdminActionMoves ==
  ASSUME IInv, AdminAction
  PROVE  NothingMoves \/ \E n \in Nat : DepositMoves(n)
<1>1. AdminInv BY DEF IInv
<1>2. CASE Tick \/ (\E b \in BOOLEAN : enableRoute(b)) \/ \E c \in Calls : sendMessage(c)
  <2>1. UNCHANGED <<state, bundles, log, received, claim, executed, vault, bridged,
                    deposited>>
    BY <1>2 DEF Tick, enableRoute, sendMessage, fillVars, refundVars, tokenVars
  <2> QED BY <1>1, <2>1, SamePool, SameLogs DEF NothingMoves
<1>3. CASE initialize
  <2>1. /\ ~Live
        /\ UNCHANGED <<log, received, claim, executed, vault, bridged, deposited>>
    BY <1>3 DEF initialize, fillVars, refundVars, tokenVars
  <2>2. PoolKept BY <2>1 DEF PoolKept
  <2> QED BY <2>1, <2>2, SameLogs DEF NothingMoves
<1>4. ASSUME NEW m \in inbox, handle_receive_message(m) PROVE NothingMoves
  BY <1>1, <1>4, MessageMoves
<1>5. ASSUME NEW wall \in now .. now + 1, simpleDeposit(wall) PROVE DepositMoves(1)
  <2>1. /\ deposit_v3(wall - 1, wall - 1 + DepositWindow, 1)
        /\ UNCHANGED <<bundles, executed, received, claim, log>>
    BY <1>5 DEF simpleDeposit, fillVars, refundVars
  <2> QED BY <1>1, <2>1, DepositIsMove
<1> QED BY <1>2, <1>3, <1>4, <1>5 DEF AdminAction

\* Of the steps about relays, only slow fills move tokens of the vault.
LEMMA FillActionMoves ==
  ASSUME IInv, FillAction
  PROVE  NothingMoves \/ \E r \in Relays : SlowFillMoves(r)
<1>1. AdminInv /\ FillInv BY DEF IInv
<1>2. UNCHANGED <<state, bundles, executed, received, claim, bridged, deposited>>
  BY ZenonT(40) DEF FillAction, simpleFill, otherFill, fill_v3_relay, request_v3_slow_fill,
         execute_v3_slow_relay_leaf, closerStep, closeExpiredRelays, closeFillPda,
         closeOther, signatureAges, refundVars, tokenVars
<1>3. PoolKept BY <1>1, <1>2, SamePool
<1>4. ASSUME UNCHANGED vault, SlowFilled' = SlowFilled PROVE NothingMoves
  BY <1>2, <1>3, <1>4 DEF NothingMoves
<1>5. ASSUME NEW r \in Relays, NEW s \in Signers, NEW repay \in Signers,
             NEW legacy \in BOOLEAN, fill_v3_relay(r, s, repay, legacy)
      PROVE  NothingMoves
  <2>1. PICK type : type = IF Status(r) = "RequestedSlowFill" THEN "ReplacedSlowFill"
                           ELSE "FastFill" OBVIOUS
  <2>2. PICK e : e = Event("filledV3Relay", type, repay, legacy) OBVIOUS
  <2>3. e \in Fills /\ e.type # "SlowFill" BY <2>1, <2>2 DEF Event, Fills
  <2>4. PICK l : l = Append(log[r], e) OBVIOUS
  <2>5. log' = [log EXCEPT ![r] = l] /\ UNCHANGED vault
    BY <1>5, <2>1, <2>2, <2>4 DEF fill_v3_relay, tokenVars
  <2>6. /\ log[r] = <<>> \/ log[r] = <<Request>>
        /\ l = <<e>> \/ l = <<Request, e>>
    BY <1>1, <1>5, <2>3, <2>4, FillAppended DEF fill_v3_relay
  <2>7. ~HasSlowFill(log[r]) /\ ~HasSlowFill(l) BY <2>3, <2>6, SlowFillOfLog
  <2>8. SlowFilled' = SlowFilled BY <1>1, <2>5, <2>7, SlowFilledStep
  <2> QED BY <1>4, <2>5, <2>8
<1>6. ASSUME NEW r \in Relays, NEW s \in Signers, request_v3_slow_fill(r, s)
      PROVE  NothingMoves
  <2>1. PICK l : l = <<Request>> OBVIOUS
  <2>2. log[r] = <<>> /\ log' = [log EXCEPT ![r] = l] /\ UNCHANGED vault
    BY <1>1, <1>6, <2>1, RequestIsRequest, RequestedByKeeps
       DEF RequestedBy, request_v3_slow_fill, tokenVars
  <2>3. ~HasSlowFill(log[r]) /\ ~HasSlowFill(l) BY <2>1, <2>2, SlowFillOfLog
  <2>4. SlowFilled' = SlowFilled BY <1>1, <2>2, <2>3, SlowFilledStep
  <2> QED BY <1>4, <2>2, <2>4
<1>7. ASSUME NEW r \in Relays, NEW i \in Ids, execute_v3_slow_relay_leaf(r, i)
      PROVE  SlowFillMoves(r)
  <2>1. PICK e : e = Event("filledV3Relay", "SlowFill", Default, TRUE) OBVIOUS
  <2>2. e \in Fills /\ e.type = "SlowFill" BY <2>1 DEF Event, Fills
  <2>3. PICK l : l = Append(log[r], e) OBVIOUS
  <2>4. log' = [log EXCEPT ![r] = l] /\ vault' = vault - 1
    BY <1>7, <2>1, <2>3 DEF execute_v3_slow_relay_leaf
  <2>5. /\ log[r] = <<>> \/ log[r] = <<Request>>
        /\ l = <<e>> \/ l = <<Request, e>>
    BY <1>1, <1>7, <2>2, <2>3, FillAppended DEF execute_v3_slow_relay_leaf
  <2>6. ~HasSlowFill(log[r]) /\ HasSlowFill(l) BY <2>2, <2>5, SlowFillOfLog
  <2>7. r \notin SlowFilled /\ SlowFilled' = SlowFilled \union {r}
    BY <1>1, <2>4, <2>6, SlowFilledStep
  <2> QED BY <1>2, <1>3, <2>4, <2>7 DEF SlowFillMoves
<1>8. CASE \/ \E s \in Signers : closerStep(s)
           \/ \E r \in Relays : closeOther(r) \/ signatureAges(r)
  <2>1. UNCHANGED <<log, vault>>
    BY <1>8 DEF closerStep, closeExpiredRelays, closeFillPda, closeOther,
                signatureAges, tokenVars
  <2> QED BY <1>4, <2>1, SameLogs
<1> QED BY <1>5, <1>6, <1>7, <1>8 DEF FillAction, simpleFill, otherFill

\* The three instructions for claim accounts.
LEMMA ClaimActionsMove ==
  ASSUME IInv, NEW a \in Addresses,
         \/ \E s \in Signers : initialize_claim_account(a, s)
         \/ claim_relayer_refund(a) \/ close_claim_account(a)
  PROVE  \E c \in {None} \union ClaimAccount, n \in Nat : ClaimMoves(a, c, n)
<1>1. AdminInv /\ TokenInv BY DEF IInv
<1>2. UNCHANGED <<state, bundles, log, executed, bridged, deposited>>
  BY DEF initialize_claim_account, claim_relayer_refund, close_claim_account, fillVars,
         tokenVars
<1>3. PoolKept /\ SlowFilled' = SlowFilled BY <1>1, <1>2, SamePool, SameLogs
<1>4. /\ received \in [Addresses -> Nat] /\ vault \in Nat
      /\ claim[a] \in {None} \union ClaimAccount
  BY <1>1 DEF TokenInv
<1>5. vault - 0 = vault /\ [received EXCEPT ![a] = received[a] + 0] = received BY <1>4
<1>6. ASSUME NEW s \in Signers, initialize_claim_account(a, s)
      PROVE  \E c \in ClaimAccount : ClaimMoves(a, c, 0)
  <2>1. PICK c : c = [amount |-> 0, initializer |-> s] OBVIOUS
  <2>2. c \in ClaimAccount /\ c.amount = 0 BY <2>1 DEF ClaimAccount
  <2>3. /\ claim[a] = None /\ claim' = [claim EXCEPT ![a] = c]
        /\ UNCHANGED <<received, vault>>
    BY <1>6, <2>1 DEF initialize_claim_account, tokenVars
  <2>4. Outstanding(a) = 0 BY <2>3 DEF Outstanding
  <2>5. ClaimMoves(a, c, 0) BY <1>2, <1>3, <1>5, <2>2, <2>3, <2>4 DEF ClaimMoves
  <2> QED BY <2>2, <2>5
<1>7. CASE claim_relayer_refund(a)
  <2>1. PICK n : n = claim[a].amount OBVIOUS
  <2>2. claim[a] \in ClaimAccount /\ claim[a] # None
    BY <1>4, <1>7 DEF claim_relayer_refund
  <2>3. n \in Nat /\ Outstanding(a) = n BY <2>1, <2>2 DEF ClaimAccount, Outstanding
  <2>4. /\ claim' = [claim EXCEPT ![a] = None] /\ vault' = vault - n
        /\ received' = [received EXCEPT ![a] = received[a] + n]
    BY <1>7, <2>1 DEF claim_relayer_refund
  <2>5. ClaimMoves(a, None, n) BY <1>2, <1>3, <2>3, <2>4 DEF ClaimMoves
  <2> QED BY <2>3, <2>5
<1>8. CASE close_claim_account(a)
  <2>1. /\ claim[a] # None /\ claim[a].amount = 0 /\ claim' = [claim EXCEPT ![a] = None]
        /\ UNCHANGED <<received, vault>>
    BY <1>8 DEF close_claim_account, tokenVars
  <2>2. Outstanding(a) = 0 BY <2>1 DEF Outstanding
  <2>3. ClaimMoves(a, None, 0) BY <1>2, <1>3, <1>5, <2>1, <2>2 DEF ClaimMoves
  <2> QED BY <2>3
<1> QED BY <1>6, <1>7, <1>8

\* The steps of the scripts that touch neither the pool nor tokens.
LEMMA LocalActionMoves ==
  ASSUME IInv, LocalAction
  PROVE  NothingMoves
<1>1. UNCHANGED <<state, bundles, log, received, claim, executed, vault, bridged, deposited>>
  BY DEF LocalAction, repayFetch, repayCreateTable, repayExtendTable, repayLoad,
         repayWrite, repaySend, repayClose, repayThrow, drop, reaperStep, reapList,
         reapDeactivate, reapClose, coolDown, fillVars, refundVars, tokenVars
<1> QED BY <1>1, SamePool, SameLogs DEF NothingMoves, IInv

\* Refunds, claims and bridging keep the accounts balanced.
LEMMA RefundActionFunds ==
  ASSUME IInv, IInv', FundsInv, RefundAction
  PROVE  FundsInv'
<1>1. AdminInv /\ TokenInv BY DEF IInv
<1>2. ASSUME NEW i \in Ids, NEW deferred \in BOOLEAN, dataworker(i, deferred)
      PROVE  FundsInv'
  <2>1. PICK leaf : leaf = bundles[i].leaf OBVIOUS
  <2>2. /\ execute_relayer_refund_leaf(i, leaf, deferred)
        /\ UNCHANGED <<state, deposited, bridged, log>>
    BY <1>2, <2>1 DEF dataworker, fillVars
  <2>3. LeafMoves(i, leaf, deferred) BY <2>2, SameLogs DEF LeafMoves
  <2> QED BY <2>3, LeafMovesKeep
<1>3. ASSUME NEW a \in Addresses,
             \/ \E s \in Signers : initialize_claim_account(a, s)
             \/ claim_relayer_refund(a) \/ close_claim_account(a)
      PROVE  FundsInv'
  <2>1. PICK c \in {None} \union ClaimAccount, n \in Nat : ClaimMoves(a, c, n)
    BY <1>3, ClaimActionsMove
  <2> QED BY <2>1, ClaimMovesKeep
<1>4. CASE bridge_tokens_to_hub_pool(1)
  <2>1. /\ UNCHANGED <<state, bundles, log, received, claim, executed, deposited>>
        /\ vault' = vault - 1 /\ bridged' = bridged + 1
    BY <1>4 DEF bridge_tokens_to_hub_pool, fillVars, refundVars
  <2>2. BridgeMoves BY <1>1, <2>1, SamePool, SameLogs DEF BridgeMoves
  <2> QED BY <2>2, PlainMovesKeep
<1> QED BY <1>2, <1>3, <1>4 DEF RefundAction

\* So do the deposit, the bundle and the refund of the repayment script.
LEMMA PoolActionFunds ==
  ASSUME IInv, IInv', FundsInv, PoolAction
  PROVE  FundsInv'
<1>1. AdminInv /\ ScriptInv BY DEF IInv
<1>2. CASE repayDeposit
  <2>1. PICK n : n = FreshLeaf(run.k + 1).amount OBVIOUS
  <2>2. n \in Nat BY <2>1 DEF FreshLeaf
  <2>3. /\ deposit_v3(now - 1, now + DepositWindow, n)
        /\ UNCHANGED <<bundles, executed, received, claim, log>>
    BY <1>2, <2>1 DEF repayDeposit, fillVars, refundVars
  <2>4. DepositMoves(n) BY <1>1, <2>2, <2>3, DepositIsMove
  <2> QED BY <2>2, <2>4, PlainMovesKeep
<1>3. CASE repayRelay
  <2>1. /\ run.pc = "relay" /\ relay_root_bundle(FreshLeaf(run.k), {})
        /\ UNCHANGED <<received, claim, executed, log, vault, bridged, deposited>>
    BY <1>3 DEF repayRelay, fillVars, refundVars, tokenVars
  <2>2. Live BY <1>1, <2>1 DEF ScriptInv
  <2>3. PoolKept
    <3>1. PICK leaf : leaf = FreshLeaf(run.k) OBVIOUS
    <3>2. relay_root_bundle(leaf, {}) BY <2>1, <3>1
    <3> QED BY <1>1, <2>1, <2>2, <3>2, NewBundleKeeps
  <2>4. NothingMoves BY <2>1, <2>3, SameLogs DEF NothingMoves
  <2> QED BY <2>4, PlainMovesKeep
<1>4. ASSUME NEW tx \in sent, land(tx) PROVE FundsInv'
  <2>1. PICK leaf : leaf = FreshLeaf(tx.k) OBVIOUS
  <2>2. PICK i : i = tx.id OBVIOUS
  <2>3. /\ execute_relayer_refund_leaf(i, leaf, FALSE)
        /\ UNCHANGED <<state, deposited, bridged, log>>
    BY <1>4, <2>1, <2>2 DEF land, fillVars
  <2>4. i \in Ids BY <1>1, <2>2 DEF ScriptInv, Transaction
  <2>5. LeafMoves(i, leaf, FALSE) BY <2>3, SameLogs DEF LeafMoves
  <2> QED BY <2>4, <2>5, LeafMovesKeep
<1> QED BY <1>2, <1>3, <1>4 DEF PoolAction

-----------------------------------------------------------------------------
(* The invariant.                                                          *)

\* At first there is nothing to explain.
LEMMA InitFunds == Init => FundsInv
<1> SUFFICES ASSUME Init PROVE FundsInv OBVIOUS
<1>1. executed = {} /\ IsFiniteSet(executed) BY FS_EmptySet DEF Init
<1>2. HistoryInv BY <1>1 DEF HistoryInv
<1>3. SlowFilled = {} BY SlowFillOfLog DEF SlowFilled, HasSlowFill, Init
<1>4. IsFiniteSet(SlowFilled) /\ Cardinality(SlowFilled) = 0 BY <1>3, FS_EmptySet
<1>5. SumFunction(received) = 0
  <2>1. PICK f \in [Addresses -> Int] : f = received /\ \A a \in Addresses : f[a] = 0
    BY DEF Init
  <2>2. SumFunction(f) = 0 BY <2>1, FiniteAddresses, SumZero
  <2> QED BY <2>1, <2>2
<1>6. ASSUME NEW a \in Addresses PROVE received[a] + Outstanding(a) = Refunded(a)
  <2>1. received[a] = 0 /\ Outstanding(a) = 0 BY DEF Init, Outstanding
  <2> DEFINE f == [x \in RefundsOf(a) |-> x[2].amount]
  <2>2. DOMAIN f = {} BY <1>1 DEF RefundsOf
  <2> HIDE DEF f
  <2>3. SumFunction(f) = 0 BY <2>2, SumEmpty
  <2> QED BY <2>1, <2>3 DEF f, Refunded
<1>7. deposited = 0 /\ vault = 0 /\ bridged = 0 BY DEF Init
<1> QED BY <1>2, <1>4, <1>5, <1>6, <1>7 DEF FundsInv, RefundsExplained

\* Every step keeps what is known of funds.
LEMMA NextFunds == IInv /\ IInv' /\ FundsInv /\ [Next]_vars => FundsInv'
<1> SUFFICES ASSUME IInv, IInv', FundsInv, [Next]_vars PROVE FundsInv' OBVIOUS
<1>1. CASE UNCHANGED vars
  <2>1. UNCHANGED <<state, bundles, log, received, claim, executed, vault, bridged,
                    deposited>>
    BY <1>1 DEF vars, fillVars, refundVars, tokenVars
  <2>2. NothingMoves BY <2>1, SamePool, SameLogs DEF NothingMoves, IInv
  <2> QED BY <2>2, PlainMovesKeep
<1>2. CASE AdminAction BY <1>2, AdminActionMoves, PlainMovesKeep
<1>3. CASE FillAction BY <1>3, FillActionMoves, PlainMovesKeep
<1>4. CASE LocalAction BY <1>4, LocalActionMoves, PlainMovesKeep
<1>5. CASE RefundAction BY <1>5, RefundActionFunds
<1>6. CASE PoolAction BY <1>6, PoolActionFunds
<1> QED BY <1>1, <1>2, <1>3, <1>4, <1>5, <1>6, NextActions

\* Every refund leaf that was executed was paid once, at once or through a
\* claim account, and the vault holds what was deposited less the refunds, the
\* slow fills and what was bridged: whatever lands twice, late or after its
\* parameters were replaced, and although bundle accounts can be deleted.
THEOREM RefundsAreExplained == Spec => []RefundsExplained
<1> DEFINE Inv == IInv /\ FundsInv
<1>1. Init => Inv BY InitIInv, InitFunds
<1>2. Inv /\ [Next]_vars => Inv' BY NextIInv, NextFunds
<1>3. Inv => RefundsExplained BY DEF FundsInv
<1> QED BY <1>1, <1>2, <1>3, PTL DEF Spec

=============================================================================
