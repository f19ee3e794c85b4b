------------------------ MODULE MessageClaimsProofs ------------------------
(***************************************************************************)
(* Proofs about MessageClaims, for every choice of its constants.          *)
(***************************************************************************)
EXTENDS MessageClaims, WellFoundedInduction, TLAPS

-----------------------------------------------------------------------------
(* The inductive invariant *)

Run == [script : Bridges \union {"none"}, on : Chains, pc : PCs,
        head : 0 .. MaxBlock, back : LOOKBACKS \union {0},
        from : 0 .. MaxBlock + 1, txs : SUBSET Txs, found : SUBSET Messages,
        todo : SUBSET Messages, failed : SUBSET Messages]

\* Where a script goes over its work list: it has a current message.
Looping == {"attest", "status", "claim", "relay"}

ChainOK ==
    /\ latest \in 0 .. MaxBlock /\ \A b \in LOOKBACKS : b <= latest
    /\ sentAt \in [Txs -> 0 .. MaxBlock]
    /\ gas \in [Messages -> Nat] /\ faults \in 0 .. MaxFaults
    /\ claimed \subseteq Messages
    /\ ready \subseteq Messages /\ \A m \in ready : Sent(m)
    /\ pending \subseteq ready

RunOK(r) ==
    /\ r \in Run
    /\ r.todo \subseteq r.found /\ r.failed \subseteq r.found
    /\ r.pc \in Looping => r.todo # {}
    /\ r.pc = "done" => r.todo = {}

Query(r, from, to) ==
    IF r.script = "cctp" THEN cctpQuery(from, to)
                         ELSE lineaQuery(from, to)

\* Between two chunks the scan has read the window up to the next chunk, and
\* what is left of it is the look-back less whole chunks.
ScanOK(r) ==
    r.pc = "scan" =>
        /\ r.head <= latest
        /\ r.head - r.back <= r.from /\ r.from <= r.head + 1
        /\ r.txs = Query(r, r.head - r.back, r.from - 1)
        /\ r.from <= r.head =>
             (r.head - r.from) % (MAX_BLOCK_LOOKBACK + 1)
                = r.back % (MAX_BLOCK_LOOKBACK + 1)
        /\ r.from = r.head + 1 => r.back % (MAX_BLOCK_LOOKBACK + 1) # 0

\* A message leaves the work list only when it is dealt with; a script that
\* is about to claim a message knows that it is ready.
SettleOK(r) ==
    /\ \A m \in r.found : Sent(m)
    /\ r.found \subseteq claimed \union r.failed \union pending \union r.todo
    /\ r.pc = "relay" => r.todo \subseteq ready
    /\ r.pc = "claim" => Earliest(r.todo) \in ready

Good(r) == RunOK(r) /\ ScanOK(r) /\ SettleOK(r)

IInv ==
    /\ ChainOK
    /\ run \in [Operators -> Run]
    /\ \A o \in Operators : Good(run[o])

-----------------------------------------------------------------------------
(* Arithmetic, the order of the work list, and the queries *)

LEMMA LeastNat ==
  ASSUME NEW S \in SUBSET Nat, S # {}
  PROVE  \E n \in S : \A k \in S : n <= k
<1>1. PICK n \in S : \A k \in S : ~(<<k, n>> \in OpToRel(<, Nat))
  BY NatLessThanWellFounded, WFMin
<1>2. \A k \in S : ~(k < n) BY <1>1 DEF OpToRel
<1> QED BY <1>2

\* Two numbers below n apart and a multiple of n apart are equal.
LEMMA SmallMultiple ==
  ASSUME NEW n \in Nat \ {0}, NEW k \in Int, -n < n * k, n * k < n
  PROVE  k = 0
<1>1. CASE k >= 1
  <2>1. n * k >= n BY <1>1
  <2> QED BY <2>1
<1>2. CASE k <= -1
  <2>1. n * k <= -n BY <1>2
  <2> QED BY <2>1
<1> QED BY <1>1, <1>2

LEMMA ModSmall ==
  ASSUME NEW n \in Nat \ {0}, NEW d \in Nat, d < n
  PROVE  d % n = d
<1>1. \A k \in Nat : d \in 0 .. k => d % (k + 1) = d OBVIOUS
<1>2. n - 1 \in Nat /\ d \in 0 .. (n - 1) OBVIOUS
<1> QED BY <1>1, <1>2

LEMMA ModLess ==
  ASSUME NEW n \in Nat \ {0}, NEW d \in Nat, d >= n
  PROVE  (d - n) % n = d % n
<1> DEFINE e == d - n
           k == (d \div n) - (e \div n) - 1
<1>1. /\ d = n * (d \div n) + (d % n) /\ 0 <= d % n /\ d % n < n
      /\ d \div n \in Int /\ d % n \in Int
  OBVIOUS
<1>2. e \in Nat OBVIOUS
<1>3. /\ e = n * (e \div n) + (e % n) /\ 0 <= e % n /\ e % n < n
      /\ e \div n \in Int /\ e % n \in Int
  BY <1>2
<1>4. n * k = (e % n) - (d % n) /\ k \in Int BY <1>1, <1>3
<1> HIDE DEF k
<1>5. -n < n * k /\ n * k < n BY <1>1, <1>3, <1>4
<1>6. k = 0 BY <1>4, <1>5, SmallMultiple
<1>7. (e % n) - (d % n) = 0 BY <1>4, <1>6
<1> QED BY <1>1, <1>3, <1>7

\* The largest look-back exists, because the bound of the model exceeds all.
LEMMA MaxLookbackFacts ==
  MaxLookback \in LOOKBACKS /\ \A b \in LOOKBACKS : b <= MaxLookback
<1> DEFINE S == {MaxBlock - b : b \in LOOKBACKS}
<1>1. /\ LOOKBACKS # {} /\ MaxBlock \in Nat
      /\ \A b \in LOOKBACKS : b \in Nat /\ b <= MaxBlock
  BY BoundsAssumption
<1>2. S \in SUBSET Nat /\ S # {}
  <2>1. \A b \in LOOKBACKS : MaxBlock - b \in Nat BY <1>1
  <2> QED BY <1>1, <2>1, Zenon
<1>3. PICK n \in S : \A k \in S : n <= k
  <2> HIDE DEF S
  <2> QED BY <1>2, LeastNat
<1>4. PICK b \in LOOKBACKS : n = MaxBlock - b OBVIOUS
<1>5. ASSUME NEW c \in LOOKBACKS PROVE c <= b
  <2>1. n <= MaxBlock - c BY <1>3
  <2> HIDE DEF S
  <2> QED BY <1>1, <1>4, <2>1
<1> QED BY <1>4, <1>5 DEF MaxLookback

LEMMA EarliestIn ==
  ASSUME sentAt \in [Txs -> 0 .. MaxBlock], NEW S \in SUBSET Messages, S # {}
  PROVE  Earliest(S) \in S
<1> DEFINE T == {sentAt[m.tx] : m \in S}
<1>1. \A m \in S : sentAt[m.tx] \in Nat /\ m.idx \in Nat
  BY BoundsAssumption, MessagesAssumption DEF Txs
<1>2. T \in SUBSET Nat /\ T # {} BY <1>1
<1>3. PICK s \in T : \A k \in T : s <= k
  <2> HIDE DEF T
  <2> QED BY <1>2, LeastNat
<1> DEFINE J == {m.idx : m \in {q \in S : sentAt[q.tx] = s}}
<1>4. J \in SUBSET Nat /\ J # {} BY <1>1, <1>3
<1>5. PICK j \in J : \A k \in J : j <= k
  <2> HIDE DEF J
  <2> QED BY <1>4, LeastNat
<1>6. PICK m \in S : sentAt[m.tx] = s /\ m.idx = j BY <1>5
<1>7. ASSUME NEW n \in S
      PROVE  \/ sentAt[m.tx] < sentAt[n.tx]
             \/ sentAt[m.tx] = sentAt[n.tx] /\ m.idx <= n.idx
  <2>1. s <= sentAt[n.tx] BY <1>3
  <2>2. sentAt[n.tx] = s => j <= n.idx BY <1>5
  <2>3. sentAt[m.tx] = s /\ sentAt[n.tx] \in Nat /\ s \in Nat BY <1>1, <1>6
  <2> QED BY <1>6, <2>1, <2>2, <2>3
<1> QED BY <1>7, Zenon DEF Earliest

LEMMA RunNumbers ==
  ASSUME NEW r \in Run
  PROVE  r.head \in Nat /\ r.back \in Nat /\ r.from \in Nat
<1>1. /\ MaxBlock \in Nat /\ LOOKBACKS \union {0} \subseteq Nat
  BY BoundsAssumption
<1>2. /\ r.head \in 0 .. MaxBlock /\ r.back \in LOOKBACKS \union {0}
      /\ r.from \in 0 .. MaxBlock + 1
  BY DEF Run
<1>3. r.head \in Nat /\ r.from \in Nat BY <1>1, <1>2
<1> QED BY <1>1, <1>2, <1>3

LEMMA QuerySplits ==
  ASSUME sentAt \in [Txs -> 0 .. MaxBlock], NEW r, NEW a \in Int, NEW b \in Int,
         NEW c \in Int, a <= b, b <= c + 1
  PROVE  Query(r, a, c) = Query(r, a, b - 1) \union Query(r, b, c)
<1>1. \A t \in Txs : sentAt[t] \in a .. c
                       <=> sentAt[t] \in a .. (b - 1) \/ sentAt[t] \in b .. c
  BY BoundsAssumption
<1> QED BY <1>1 DEF Query, cctpQuery, lineaQuery

LEMMA EmptyQuery ==
  ASSUME sentAt \in [Txs -> 0 .. MaxBlock], NEW r, NEW a \in Int
  PROVE  Query(r, a, a - 1) = {}
<1>1. \A t \in Txs : sentAt[t] \notin a .. (a - 1) BY BoundsAssumption
<1> QED BY <1>1 DEF Query, cctpQuery, lineaQuery

\* What the chains may do meanwhile: the head moves on, and a transaction that
\* is mined gets a block above it; nothing that was ready, claimed or in flight
\* is lost.
ChainGrows ==
    /\ latest' >= latest
    /\ \A t \in Txs : sentAt'[t] = sentAt[t] \/ (sentAt[t] = 0 /\ sentAt'[t] > latest)
    /\ ready \subseteq ready'
    /\ claimed \union pending \subseteq claimed' \union pending'

LEMMA GoodStays ==
  ASSUME ChainOK, ChainOK', ChainGrows, NEW r \in Run, Good(r)
  PROVE  Good(r)'
<1>1. RunOK(r)' BY DEF Good, RunOK
<1>2. ASSUME r.pc = "scan" PROVE ScanOK(r)'
  <2>1. /\ r.head <= latest /\ r.head \in Int /\ r.back \in Int /\ r.from \in Int
        /\ latest \in Int /\ latest' \in Int
    <3>1. r.head <= latest BY <1>2 DEF Good, ScanOK
    <3>2. latest \in Int /\ latest' \in Int BY DEF ChainOK
    <3> QED BY <3>1, <3>2, RunNumbers
  <2>2. r.from - 1 <= latest BY <1>2, <2>1 DEF Good, ScanOK
  <2>3. \A t \in Txs : sentAt[t] \in Int /\ sentAt'[t] \in Int BY BoundsAssumption DEF ChainOK
  <2>4. ASSUME NEW a \in Int, NEW b \in Int, b <= latest
        PROVE  Query(r, a, b)' = Query(r, a, b)
    <3>1. \A t \in Txs : (sentAt'[t] \in a .. b /\ sentAt'[t] # 0)
                           <=> (sentAt[t] \in a .. b /\ sentAt[t] # 0)
      BY <2>1, <2>3, <2>4 DEF ChainGrows
    <3> QED BY <3>1 DEF Query, cctpQuery, lineaQuery
  <2>5. Query(r, r.head - r.back, r.from - 1)' = Query(r, r.head - r.back, r.from - 1)
    BY <2>1, <2>2, <2>4
  <2>6. r.head <= latest' BY <2>1 DEF ChainGrows
  <2> QED BY <1>2, <2>5, <2>6 DEF Good, ScanOK
<1>3. SettleOK(r)'
  <2>1. \A m \in r.found : Sent(m) BY DEF Good, SettleOK
  <2>2. r.found \subseteq Messages /\ r.todo \subseteq r.found
    BY DEF Good, RunOK, Run
  <2>3. \A m \in r.found : m.tx \in Txs /\ sentAt'[m.tx] = sentAt[m.tx]
    BY <2>1, <2>2 DEF ChainGrows, Sent, Txs
  <2>4. \A m \in r.found : Sent(m)' BY <2>1, <2>3 DEF Sent
  <2>5. Earliest(r.todo)' = Earliest(r.todo) BY <2>2, <2>3 DEF Earliest
  <2> QED BY <2>4, <2>5 DEF Good, SettleOK, ChainGrows
<1> QED BY <1>1, <1>2, <1>3 DEF Good, ScanOK
-----------------------------------------------------------------------------
(* Steps keep the invariant *)

LEMMA InitIInv == Init => IInv
<1> SUFFICES ASSUME Init PROVE IInv OBVIOUS
<1>1. ChainOK
  <2>1. latest \in 0 .. MaxBlock /\ \A b \in LOOKBACKS : b <= latest
    BY MaxLookbackFacts, BoundsAssumption DEF Init
  <2> QED BY <2>1, BoundsAssumption DEF Init, ChainOK
<1>2. Idle \in Run BY BoundsAssumption DEF Idle, Run, Chains, PCs
<1>3. /\ Idle.pc = "idle" /\ Idle.found = {} /\ Idle.todo = {} /\ Idle.failed = {}
  BY DEF Idle
<1>4. Good(Idle)
  BY <1>2, <1>3, Zenon DEF Good, RunOK, ScanOK, SettleOK, Looping
<1> QED BY <1>1, <1>2, <1>4 DEF IInv, Init

\* When one script moves on to s, the others find the chains as they need them.
LEMMA OperatorStep ==
  ASSUME IInv, ChainOK', ChainGrows, NEW o \in Operators, NEW s,
         Set(o, s), Good(s)'
  PROVE  IInv'
<1>1. s \in Run BY DEF Good, RunOK
<1>2. /\ run' \in [Operators -> Run] /\ run'[o] = s
      /\ \A p \in Operators : p # o => run'[p] = run[p]
  BY <1>1 DEF Set, IInv
<1>3. ASSUME NEW p \in Operators PROVE Good(run[p])'
  <2>1. CASE p = o BY <1>2, <2>1 DEF Good, RunOK, ScanOK, SettleOK
  <2>2. CASE p # o
    <3>1. PICK r \in Run : r = run[p] BY DEF IInv
    <3>2. Good(r) BY <3>1 DEF IInv
    <3>3. Good(r)' BY <3>2, GoodStays DEF IInv
    <3>4. run'[p] = r BY <1>2, <2>2, <3>1
    <3> QED BY <3>3, <3>4
  <2> QED BY <2>1, <2>2
<1> QED BY <1>2, <1>3 DEF IInv

LEMMA OthersStep ==
  ASSUME IInv, ChainOK', ChainGrows, run' = run
  PROVE  IInv'
<1>1. ASSUME NEW p \in Operators PROVE Good(run[p])'
  <2>1. PICK r \in Run : r = run[p] BY DEF IInv
  <2>2. Good(r) BY <2>1 DEF IInv
  <2>3. Good(r)' BY <2>2, GoodStays DEF IInv
  <2> QED BY <2>1, <2>3
<1> QED BY <1>1 DEF IInv

LEMMA ChainKept ==
  ASSUME ChainOK, UNCHANGED chainVars, claimed \subseteq claimed',
         claimed' \subseteq Messages, pending \subseteq claimed' \union pending',
         pending' \subseteq ready, faults' \in 0 .. MaxFaults
  PROVE  ChainOK' /\ ChainGrows
<1>1. ChainOK' BY DEF ChainOK, chainVars, Sent
<1>2. latest' >= latest BY DEF ChainOK, chainVars
<1> QED BY <1>1, <1>2 DEF ChainGrows, chainVars

\* The current message of a script that goes over its list.
LEMMA CurrentFacts ==
  ASSUME IInv, NEW o \in Operators, run[o].pc \in Looping
  PROVE  /\ run[o] \in Run /\ RunOK(run[o])
         /\ Current(o) \in run[o].todo
         /\ Current(o) \in Messages
         /\ Current(o) = Earliest(run[o].todo)
<1>1. run[o] \in Run /\ RunOK(run[o]) BY DEF IInv, Good
<1>2. run[o].todo \in SUBSET Messages /\ run[o].todo # {} BY <1>1 DEF RunOK, Run
<1>3. sentAt \in [Txs -> 0 .. MaxBlock] BY DEF IInv, ChainOK
<1> QED BY <1>1, <1>2, <1>3, EarliestIn DEF Current

\* The script with message m taken off its list, F of it failed.
Advanced(r, m, pc, F) ==
    [r EXCEPT !.todo = r.todo \ {m}, !.failed = r.failed \union F,
              !.pc = IF r.todo \ {m} = {} THEN "done" ELSE pc]

\* A message leaves the list because it is received, in flight or has failed.
LEMMA AdvanceKeeps ==
  ASSUME IInv, ChainOK', ChainGrows, UNCHANGED chainVars, NEW o \in Operators,
         NEW m \in run[o].todo, NEW F \in SUBSET {m},
         run[o].pc \in Looping, NEW pc \in {"status", "relay"},
         NEW s, Set(o, s), s = Advanced(run[o], m, pc, F),
         m \in claimed' \union pending' \union F,
         pc # "status" => run[o].todo \subseteq ready
  PROVE  IInv'
<1> DEFINE r == run[o]
<1>1. r \in Run /\ RunOK(r) /\ SettleOK(r) BY DEF IInv, Good
<1>2. /\ r.found \in SUBSET Messages /\ r.todo \in SUBSET Messages
      /\ r.failed \in SUBSET Messages
      /\ r.todo \subseteq r.found /\ r.failed \subseteq r.found
  BY <1>1 DEF Run, RunOK
<1>3. /\ s.found = r.found /\ s.todo = r.todo \ {m} /\ s.failed = r.failed \union F
      /\ s.pc = IF s.todo = {} THEN "done" ELSE pc
  BY <1>1 DEF Run, Advanced
<1>4. s \in Run
  <2>1. pc \in PCs /\ "done" \in PCs BY DEF PCs
  <2>2. /\ r.todo \ {m} \in SUBSET Messages /\ r.failed \union F \in SUBSET Messages
    BY <1>2
  <2> QED BY <1>1, <2>1, <2>2 DEF Run, Advanced
<1>5. s.pc \in {"done", "status", "relay"} BY <1>3
<1> HIDE DEF r
<1>6. RunOK(s)
  BY <1>2, <1>3, <1>4, <1>5 DEF RunOK, Looping, r
<1>7. ScanOK(s)' BY <1>5 DEF ScanOK
<1>8. SettleOK(s)'
  <2>1. \A n \in s.found : Sent(n)' BY <1>1, <1>3 DEF SettleOK, Sent, chainVars
  <2>2. r.found \subseteq claimed \union r.failed \union pending \union r.todo
    BY <1>1 DEF SettleOK
  <2>3. s.found \subseteq claimed' \union s.failed \union pending' \union s.todo
    BY <1>3, <2>2 DEF ChainGrows
  <2>4. s.pc = "relay" => s.todo \subseteq ready'
    BY <1>3 DEF r, chainVars
  <2> QED BY <1>5, <2>1, <2>3, <2>4 DEF SettleOK
<1>9. Good(s)' BY <1>6, <1>7, <1>8 DEF Good, RunOK
<1> QED BY <1>9, OperatorStep
-----------------------------------------------------------------------------
(* The actions, one by one *)

LEMMA StartScanKeeps ==
  ASSUME IInv, NEW o \in Operators, NEW script \in {"cctp", "linea"},
         NEW on \in Chains, NEW back \in LOOKBACKS, StartScan(o, script, on, back)
  PROVE  IInv'
<1>1. PICK s : s = [Idle EXCEPT !.script = script, !.on = on, !.pc = "scan",
                                !.head = latest, !.back = back,
                                !.from = latest - back]
  OBVIOUS
<1>2. ChainOK' /\ ChainGrows
  BY ChainKept DEF StartScan, IInv, ChainOK
<1>3. latest \in 0 .. MaxBlock /\ back \in Nat /\ back <= latest /\ MaxBlock \in Nat
  BY BoundsAssumption DEF IInv, ChainOK
<1>4. latest - back \in 0 .. MaxBlock + 1 BY <1>3
<1>5. s \in Run
  BY <1>1, <1>3, <1>4 DEF Idle, Run, Bridges, PCs
<1>6. /\ s.pc = "scan" /\ s.head = latest /\ s.back = back /\ s.from = latest - back
      /\ s.txs = {} /\ s.found = {} /\ s.todo = {} /\ s.failed = {}
  BY <1>1 DEF Idle
<1>7. latest' = latest BY DEF StartScan, chainVars
<1>8. ScanOK(s)'
  <2>1. (latest - back) \in Int BY <1>4
  <2>2. Query(s, latest - back, (latest - back) - 1) = {}
    BY <2>1, EmptyQuery DEF IInv, ChainOK
  <2>3. Query(s, latest - back, (latest - back) - 1)' = {}
    BY <2>2 DEF StartScan, chainVars, Query, cctpQuery, lineaQuery
  <2>4. s.txs = Query(s, s.head - s.back, s.from - 1)'
    BY <1>6, <1>7, <2>3
  <2>5. latest - (latest - back) = back /\ latest - back # latest + 1 BY <1>3
  <2>6. s.head <= latest' /\ s.head - s.back <= s.from /\ s.from <= s.head + 1
    BY <1>3, <1>6, <1>7
  <2> QED BY <1>6, <2>4, <2>5, <2>6 DEF ScanOK
<1>9. RunOK(s) BY <1>5, <1>6 DEF RunOK, Looping
<1>10. SettleOK(s)' BY <1>6 DEF SettleOK
<1>11. Good(s)' BY <1>8, <1>9, <1>10 DEF Good, RunOK
<1>12. Set(o, s) BY <1>1 DEF StartScan, initialFromBlock
<1> QED BY <1>2, <1>11, <1>12, OperatorStep

LEMMA GetSrcEventsKeeps ==
  ASSUME IInv, NEW o \in Operators, getSrcEvents(o)
  PROVE  IInv'
<1>1. PICK r \in Run : r = run[o] BY DEF IInv
<1>2. Good(r) /\ r.pc = "scan" /\ r.from < r.head
  BY <1>1 DEF IInv, getSrcEvents
<1> DEFINE n == MAX_BLOCK_LOOKBACK + 1
           left == r.head - r.from
           a == r.head - r.back
           to == IF left > MAX_BLOCK_LOOKBACK
                 THEN r.from + MAX_BLOCK_LOOKBACK ELSE r.from + left
<1>3. /\ r.head \in Nat /\ r.back \in Nat /\ r.from \in Nat
      /\ MAX_BLOCK_LOOKBACK \in Nat /\ MaxBlock \in Nat
      /\ r.head \in 0 .. MaxBlock /\ latest \in Int
  BY RunNumbers, BoundsAssumption DEF Run, IInv, ChainOK
<1>4. /\ r.head <= latest /\ a <= r.from
      /\ r.txs = Query(r, a, r.from - 1)
      /\ left % n = r.back % n
  BY <1>2, <1>3 DEF Good, ScanOK
<1>5. /\ to \in Int /\ r.from <= to /\ to <= r.head
      /\ left \in Nat \ {0} /\ n \in Nat \ {0} /\ a \in Int
  BY <1>2, <1>3
<1>6. PICK s : s = [r EXCEPT !.txs = r.txs \union Query(r, r.from, to),
                             !.from = to + 1]
  OBVIOUS
<1>7. Set(o, s) BY <1>1, <1>6 DEF getSrcEvents, Query, NextChunk
<1>8. ChainOK' /\ ChainGrows BY ChainKept DEF getSrcEvents, IInv, ChainOK
<1>9. Query(r, r.from, to) \subseteq Txs BY DEF Query, cctpQuery, lineaQuery
<1>10. /\ s.script = r.script /\ s.on = r.on /\ s.pc = "scan" /\ s.head = r.head
       /\ s.back = r.back /\ s.from = to + 1 /\ s.found = r.found
       /\ s.todo = r.todo /\ s.failed = r.failed
       /\ s.txs = r.txs \union Query(r, r.from, to)
  BY <1>2, <1>6 DEF Run
<1>11. s \in Run
  <2>1. to + 1 \in 0 .. MaxBlock + 1 BY <1>3, <1>5
  <2>2. r.txs \union Query(r, r.from, to) \in SUBSET Txs BY <1>9 DEF Run
  <2> HIDE DEF to
  <2> QED BY <1>6, <2>1, <2>2 DEF Run
<1>12. RunOK(s) BY <1>2, <1>10, <1>11 DEF Good, RunOK, Looping
<1>13. ScanOK(s)'
  <2>1. s.txs = Query(r, a, to)
    <3> HIDE DEF a, to
    <3>1. /\ r.from \in Int /\ a \in Int /\ to \in Int
          /\ a <= r.from /\ r.from <= to + 1
      BY <1>3, <1>4, <1>5
    <3>2. sentAt \in [Txs -> 0 .. MaxBlock] BY DEF IInv, ChainOK
    <3>3. Query(r, a, to) = Query(r, a, r.from - 1) \union Query(r, r.from, to)
      BY <3>1, <3>2, QuerySplits
    <3> QED BY <1>4, <1>10, <3>3
  <2>2. Query(s, a, to)' = Query(r, a, to)
    BY <1>10 DEF Query, cctpQuery, lineaQuery, getSrcEvents, chainVars
  <2>3. s.head - s.back = a /\ s.from - 1 = to
    <3> HIDE DEF to
    <3> QED BY <1>5, <1>10
  <2>4. s.txs = Query(s, s.head - s.back, s.from - 1)' BY <2>1, <2>2, <2>3
  <2>5. ASSUME s.from <= s.head PROVE (s.head - s.from) % n = s.back % n
    <3>1. left >= n /\ s.head - s.from = left - n BY <1>3, <1>5, <1>10, <2>5
    <3>2. (left - n) % n = left % n
      <4> HIDE DEF left, n
      <4> QED BY <1>5, <3>1, ModLess
    <3> QED BY <1>4, <1>10, <3>1, <3>2
  <2>6. ASSUME s.from = s.head + 1 PROVE s.back % n # 0
    <3>1. left < n BY <1>3, <1>5, <1>10, <2>6
    <3>2. left % n = left
      <4> HIDE DEF left, n
      <4> QED BY <1>5, <3>1, ModSmall
    <3> QED BY <1>4, <1>5, <1>10, <3>2
  <2>7. s.head <= latest' BY <1>4, <1>10 DEF getSrcEvents, chainVars
  <2>8. s.head - s.back <= s.from /\ s.from <= s.head + 1
    <3> HIDE DEF to
    <3> QED BY <1>3, <1>4, <1>5, <1>10
  <2> QED BY <2>4, <2>5, <2>6, <2>7, <2>8 DEF ScanOK
<1>14. SettleOK(s)'
  BY <1>2, <1>10 DEF Good, SettleOK, getSrcEvents, chainVars, Sent
<1>15. Good(s)' BY <1>12, <1>13, <1>14 DEF Good, RunOK
<1> QED BY <1>7, <1>8, <1>15, OperatorStep
\* A script that has made its list of sent messages S, to be gone over at pc.
LEMMA FoundKeeps ==
  ASSUME IInv, ChainOK', ChainGrows, UNCHANGED chainVars, NEW o \in Operators,
         NEW script \in Bridges \union {"none"}, NEW on \in Chains,
         NEW S \in SUBSET Messages, \A m \in S : Sent(m),
         NEW pc \in {"attest", "status", "relay"}, pc = "relay" => S \subseteq ready,
         NEW s, Set(o, s),
         s = [Idle EXCEPT !.script = script, !.on = on, !.found = S, !.todo = S,
                          !.pc = IF S = {} THEN "done" ELSE pc]
  PROVE  IInv'
<1>1. /\ s.pc = IF S = {} THEN "done" ELSE pc
      /\ s.found = S /\ s.todo = S /\ s.failed = {}
  BY DEF Idle
<1>2. s \in Run
  <2>1. "done" \in PCs /\ pc \in PCs BY DEF PCs
  <2>2. 0 \in 0 .. MaxBlock /\ 0 \in 0 .. MaxBlock + 1 BY BoundsAssumption
  <2> QED BY <2>1, <2>2 DEF Idle, Run
<1>3. RunOK(s) BY <1>1, <1>2 DEF RunOK, Looping
<1>4. ScanOK(s)' BY <1>1 DEF ScanOK
<1>5. SettleOK(s)'
  <2>1. \A m \in s.found : Sent(m)' BY <1>1 DEF Sent, chainVars
  <2>2. ready' = ready BY DEF chainVars
  <2> QED BY <1>1, <2>1, <2>2 DEF SettleOK
<1>6. Good(s)' BY <1>3, <1>4, <1>5 DEF Good, RunOK
<1> QED BY <1>6, OperatorStep

LEMMA ParseKeeps ==
  ASSUME IInv, NEW o \in Operators,
         parseMessageHashesAndBytes(o) \/ getMessagesByTransactionHash(o)
  PROVE  IInv'
<1>1. UNCHANGED <<chainVars, claimed, pending, faults>> /\ Scanned(o)
  BY DEF parseMessageHashesAndBytes, getMessagesByTransactionHash
<1>2. ChainOK' /\ ChainGrows BY <1>1, ChainKept DEF IInv, ChainOK
<1>3. PICK r \in Run : r = run[o] BY DEF IInv
<1>4. r.script \in Bridges \union {"none"} /\ r.on \in Chains BY DEF Run
<1>5. \A t \in r.txs : t \in Txs /\ sentAt[t] # 0
  <2>1. r.pc = "scan" /\ Good(r) BY <1>1, <1>3 DEF Scanned, IInv
  <2> QED BY <2>1 DEF Good, ScanOK, Query, cctpQuery, lineaQuery
<1>6. ASSUME NEW S \in SUBSET Messages, \A m \in S : m.tx \in r.txs,
             NEW pc \in {"attest", "status"}, Found(o, S, pc)
      PROVE  IInv'
  <2>1. PICK s : s = [Idle EXCEPT !.script = r.script, !.on = r.on, !.found = S,
                          !.todo = S, !.pc = IF S = {} THEN "done" ELSE pc]
    OBVIOUS
  <2>2. Set(o, s) BY <1>3, <1>6, <2>1 DEF Found
  <2>3. \A m \in S : Sent(m) BY <1>5, <1>6 DEF Sent
  <2> QED BY <1>1, <1>2, <1>4, <2>1, <2>2, <2>3, FoundKeeps
<1>7. CASE parseMessageHashesAndBytes(o)
  <2>1. PICK S : S = {m \in UNION {FirstMessageSent(t) : t \in r.txs} :
                        m.domain = CIRCLE_DOMAIN_IDs[IF r.on = "l1" THEN L1 ELSE L2]}
    OBVIOUS
  <2>2. S \in SUBSET Messages /\ \A m \in S : m.tx \in r.txs
    BY <2>1 DEF FirstMessageSent
  <2>3. Found(o, S, "attest") BY <1>3, <1>7, <2>1 DEF parseMessageHashesAndBytes
  <2> QED BY <1>6, <2>2, <2>3
<1>8. CASE getMessagesByTransactionHash(o)
  <2>1. PICK S : S = {m \in Messages : /\ m.bridge = "linea"
                                       /\ m.src = Other(run[o].on)
                                       /\ m.tx \in r.txs}
    OBVIOUS
  <2>2. S \in SUBSET Messages /\ \A m \in S : m.tx \in r.txs BY <2>1
  <2>3. Found(o, S, "status") BY <1>3, <1>8, <2>1 DEF getMessagesByTransactionHash
  <2> QED BY <1>6, <2>2, <2>3
<1> QED BY <1>7, <1>8

\* A script that is killed, rejects or finds nothing.
LEMMA StoppedKeeps ==
  ASSUME IInv, NEW o \in Operators, NEW s \in Run, Set(o, s),
         s.pc \in {"idle", "done"}, s.found = {}, s.todo = {}, s.failed = {},
         UNCHANGED <<chainVars, claimed, pending>>, faults' \in 0 .. MaxFaults
  PROVE  IInv'
<1>1. ChainOK BY DEF IInv
<1>2. ChainOK' /\ ChainGrows BY <1>1, ChainKept DEF ChainOK
<1>3. Good(s)' BY DEF Good, RunOK, ScanOK, SettleOK, Looping
<1> QED BY <1>2, <1>3, OperatorStep

LEMMA IdleKeeps ==
  ASSUME IInv, NEW o \in Operators, Set(o, Idle),
         UNCHANGED <<chainVars, claimed, pending>>, faults' \in 0 .. MaxFaults
  PROVE  IInv'
<1>1. PICK s : s = Idle OBVIOUS
<1>2. s \in Run BY <1>1, BoundsAssumption DEF Idle, Run, Chains, PCs
<1>3. /\ s.pc = "idle" /\ s.found = {} /\ s.todo = {} /\ s.failed = {}
  BY <1>1 DEF Idle
<1> QED BY <1>1, <1>2, <1>3, StoppedKeeps

LEMMA PageKeeps ==
  ASSUME IInv, NEW o \in Operators,
         (\E on \in Chains : getMessages(o, on)) \/ claimList(o)
  PROVE  IInv'
<1>1. UNCHANGED <<chainVars, claimed, pending, faults>>
  BY DEF getMessages, claimList
<1>2. ChainOK' /\ ChainGrows BY <1>1, ChainKept DEF IInv, ChainOK
<1>3. \A S : \A P \in Pages(S) : P \subseteq S BY DEF Pages
<1>4. ready \subseteq Messages /\ \A m \in ready : Sent(m) BY DEF IInv, ChainOK
<1>5. ASSUME NEW on \in Chains, getMessages(o, on) PROVE IInv'
  <2>1. CASE Set(o, Idle) BY <1>1, <2>1, IdleKeeps DEF IInv, ChainOK
  <2>2. CASE Set(o, [Idle EXCEPT !.script = "zkevm", !.on = on, !.pc = "done"])
    <3>1. PICK s : s = [Idle EXCEPT !.script = "zkevm", !.on = on, !.pc = "done"]
      OBVIOUS
    <3>2. s \in Run
      <4>1. "zkevm" \in Bridges /\ "done" \in PCs BY DEF Bridges, PCs
      <4>2. 0 \in 0 .. MaxBlock /\ 0 \in 0 .. MaxBlock + 1 BY BoundsAssumption
      <4> QED BY <3>1, <4>1, <4>2 DEF Idle, Run
    <3>3. /\ s.pc = "done" /\ s.found = {} /\ s.todo = {} /\ s.failed = {}
      BY <3>1 DEF Idle
    <3>4. Set(o, s) BY <2>2, <3>1
    <3> QED BY <1>1, <3>2, <3>3, <3>4, StoppedKeeps DEF IInv, ChainOK
  <2> QED BY <1>5, <2>1, <2>2 DEF getMessages
<1>6. CASE claimList(o)
  <2>1. PICK P \in Pages({m \in ready \ claimed : /\ m.bridge = "scroll"
                                                  /\ m.src = "l2"}) :
          Set(o, [Idle EXCEPT !.script = "scroll", !.on = "l1",
                              !.found = P, !.todo = P,
                              !.pc = IF P = {} THEN "done" ELSE "relay"])
    BY <1>6 DEF claimList
  <2>2. P \in SUBSET Messages /\ P \subseteq ready /\ \A m \in P : Sent(m)
    BY <1>3, <1>4
  <2>3. PICK s : s = [Idle EXCEPT !.script = "scroll", !.on = "l1", !.found = P,
                         !.todo = P, !.pc = IF P = {} THEN "done" ELSE "relay"]
    OBVIOUS
  <2>4. Set(o, s) BY <2>1, <2>3
  <2>5. "scroll" \in Bridges \union {"none"} /\ "l1" \in Chains
    BY DEF Bridges, Chains
  <2> QED BY <1>1, <1>2, <2>2, <2>3, <2>4, <2>5, FoundKeeps
<1> QED BY <1>5, <1>6
LEMMA AdvanceStep ==
  ASSUME IInv, ChainOK', ChainGrows, UNCHANGED chainVars, NEW o \in Operators,
         NEW m, m = Current(o), NEW F \in SUBSET {m},
         run[o].pc \in Looping, NEW pc \in {"status", "relay"},
         Advance(o, pc, F), m \in claimed' \union pending' \union F,
         pc # "status" => run[o].todo \subseteq ready
  PROVE  IInv'
<1>1. PICK s : s = Advanced(run[o], m, pc, F) OBVIOUS
<1>2. Set(o, s) BY <1>1 DEF Advance, Advanced
<1>3. m \in run[o].todo BY CurrentFacts
<1> QED BY <1>1, <1>2, <1>3, AdvanceKeeps

\* A claim of a message that is ready leaves it received.
LEMMA ClaimFacts ==
  ASSUME ChainOK, NEW m, Claim(m)
  PROVE  /\ claimed \subseteq claimed' /\ claimed' \subseteq Messages
         /\ m \in ready => m \in claimed'
  BY DEF ChainOK, Claim

\* A script that goes from asking for the status to claiming.
LEMMA MovedKeeps ==
  ASSUME IInv, ChainOK', ChainGrows, UNCHANGED chainVars, NEW o \in Operators,
         run[o].pc \in Looping, Current(o) \in ready,
         Set(o, [run[o] EXCEPT !.pc = "claim"])
  PROVE  IInv'
<1>1. PICK r \in Run : r = run[o] /\ Good(r) BY DEF IInv
<1>2. PICK s : s = [r EXCEPT !.pc = "claim"] OBVIOUS
<1>3. /\ s.found = r.found /\ s.todo = r.todo /\ s.failed = r.failed /\ s.pc = "claim"
  BY <1>2 DEF Run
<1>4. s \in Run BY <1>2 DEF Run, PCs
<1>5. r.todo # {} BY <1>1 DEF Good, RunOK
<1>6. RunOK(s) BY <1>1, <1>3, <1>4, <1>5 DEF Good, RunOK
<1>7. ScanOK(s)' BY <1>3 DEF ScanOK
<1>8. SettleOK(s)'
  <2>1. \A m \in s.found : Sent(m)' BY <1>1, <1>3 DEF Good, SettleOK, Sent, chainVars
  <2>2. s.found \subseteq claimed' \union s.failed \union pending' \union s.todo
    BY <1>1, <1>3 DEF Good, SettleOK, ChainGrows
  <2>3. Earliest(s.todo)' \in ready'
    <3>1. Earliest(s.todo)' = Earliest(s.todo) BY DEF Earliest, chainVars
    <3>2. Earliest(s.todo) = Current(o) BY <1>1, <1>3 DEF Current
    <3> QED BY <3>1, <3>2 DEF chainVars
  <2> QED BY <1>3, <2>1, <2>2, <2>3 DEF SettleOK
<1>9. Good(s)' BY <1>6, <1>7, <1>8 DEF Good, RunOK
<1>10. Set(o, s) BY <1>1, <1>2
<1> QED BY <1>9, <1>10, OperatorStep

LEMMA LineaKeeps ==
  ASSUME IInv, NEW o \in Operators, getMessageStatus(o) \/ claimLinea(o)
  PROVE  IInv'
<1>1. run[o].pc \in Looping /\ UNCHANGED <<chainVars, pending, faults>>
  BY DEF getMessageStatus, claimLinea, Looping
<1>2. PICK m : m = Current(o) OBVIOUS
<1>3. ChainOK /\ Good(run[o]) BY DEF IInv
<1>4. ASSUME claimed \subseteq claimed', claimed' \subseteq Messages
      PROVE  ChainOK' /\ ChainGrows
  BY <1>1, <1>3, <1>4, ChainKept DEF ChainOK
<1>5. CASE getMessageStatus(o)
  <2>1. claimed' = claimed BY <1>5 DEF getMessageStatus
  <2>2. ChainOK' /\ ChainGrows BY <1>3, <1>4, <2>1 DEF ChainOK
  <2>3. CASE m \in claimed
    <3>1. Advance(o, "status", {}) BY <1>2, <1>5, <2>3 DEF getMessageStatus
    <3> QED BY <1>1, <1>2, <2>1, <2>2, <2>3, <3>1, AdvanceStep
  <2>4. CASE m \notin claimed
    <3>1. Set(o, [run[o] EXCEPT !.pc = "claim"]) /\ Current(o) \in ready
      BY <1>2, <1>5, <2>4 DEF getMessageStatus, StatusKnown
    <3> QED BY <1>1, <2>2, <3>1, MovedKeeps
  <2> QED BY <2>3, <2>4
<1>6. CASE claimLinea(o)
  <2>1. Claim(m) /\ Advance(o, "status", {}) /\ run[o].pc = "claim"
    BY <1>2, <1>6 DEF claimLinea
  <2>2. ChainOK' /\ ChainGrows BY <1>3, <1>4, <2>1, ClaimFacts
  <2>3. m \in ready BY <1>2, <1>3, <2>1 DEF Good, SettleOK, Current
  <2>4. m \in claimed' BY <1>3, <2>1, <2>3, ClaimFacts
  <2> QED BY <1>1, <1>2, <2>1, <2>2, <2>4, AdvanceStep
<1> QED BY <1>5, <1>6

LEMMA RelayKeeps ==
  ASSUME IInv, NEW o \in Operators, NEW m \in Messages, relayMessageWithProof(o, m)
  PROVE  IInv'
<1>1. /\ run[o].pc = "relay" /\ m \in run[o].todo
      /\ UNCHANGED <<chainVars, claimed, faults>>
      /\ pending' = IF m \in claimed THEN pending ELSE pending \union {m}
  BY DEF relayMessageWithProof
<1>2. run[o] \in Run /\ ChainOK /\ SettleOK(run[o]) BY DEF IInv, Good
<1>3. run[o].todo \subseteq ready BY <1>1, <1>2 DEF SettleOK
<1>4. ChainOK' /\ ChainGrows
  <2>1. pending' \subseteq ready /\ pending \subseteq pending'
    BY <1>1, <1>2, <1>3 DEF ChainOK
  <2> QED BY <1>1, <1>2, <2>1, ChainKept DEF ChainOK
<1>5. PICK F : F = IF m \in claimed THEN {m} ELSE {} OBVIOUS
<1>6. F \in SUBSET {m} /\ m \in claimed' \union pending' \union F BY <1>1, <1>5
<1>7. PICK s : s = Advanced(run[o], m, "relay", F) OBVIOUS
<1>8. Set(o, s)
  <2>1. run[o].failed \union F = IF m \in claimed THEN run[o].failed \union {m}
                                 ELSE run[o].failed
    BY <1>5
  <2> QED BY <1>1, <1>7, <2>1 DEF relayMessageWithProof, Advanced
<1> QED BY <1>1, <1>3, <1>4, <1>6, <1>7, <1>8, AdvanceKeeps DEF Looping

LEMMA CallFailsKeeps ==
  ASSUME IInv, NEW o \in Operators, CallFails(o)
  PROVE  IInv'
<1>1. /\ run[o].pc \in {"claim", "relay"}
      /\ UNCHANGED <<chainVars, pending>> /\ faults < MaxFaults /\ faults' = faults + 1
  BY DEF CallFails
<1>2. PICK m : m = Current(o) OBVIOUS
<1>3. ChainOK /\ Good(run[o]) BY DEF IInv
<1>4. claimed \subseteq claimed' /\ claimed' \subseteq Messages
  <2>1. Claim(m) \/ claimed' = claimed BY <1>2 DEF CallFails
  <2> QED BY <1>3, <2>1, ClaimFacts DEF ChainOK
<1>5. ChainOK' /\ ChainGrows
  <2>1. faults' \in 0 .. MaxFaults BY <1>1, <1>3, BoundsAssumption DEF ChainOK
  <2> QED BY <1>1, <1>3, <1>4, <2>1, ChainKept DEF ChainOK
<1>6. run[o].pc # "claim" => run[o].todo \subseteq ready
  BY <1>1, <1>3 DEF Good, SettleOK
<1>7. PICK pc \in {"status", "relay"} :
        Advance(o, pc, {m}) /\ (pc # "status" => run[o].pc # "claim")
  BY <1>2 DEF CallFails
<1> QED BY <1>1, <1>2, <1>5, <1>6, <1>7, AdvanceStep DEF Looping

LEMMA CrashKeeps ==
  ASSUME IInv, NEW o \in Operators, Crash(o) \/ scanRejects(o)
  PROVE  IInv'
<1>1. /\ Set(o, Idle) /\ UNCHANGED <<chainVars, claimed, pending>>
      /\ faults' \in 0 .. MaxFaults
  BY BoundsAssumption DEF Crash, scanRejects, IInv, ChainOK
<1> QED BY <1>1, IdleKeeps

\* The steps of the chains, of the bridges and of other claimants.
LEMMA ChainStepKeeps ==
  ASSUME IInv, \/ \E t \in Txs : SendTx(t)
               \/ MineBlock
               \/ \E m \in Messages : \/ BecomeReady(m) \/ OthersClaim(m)
                                      \/ MineRelay(m) \/ ExecuteOnScroll(m)
               \/ \E o \in Operators, t \in Txs, g \in GasLimits : replayMessage(o, t, g)
               \/ UNCHANGED vars
  PROVE  IInv'
<1>1. ChainOK BY DEF IInv
<1> USE BoundsAssumption
<1>2. ASSUME NEW t \in Txs, SendTx(t) PROVE ChainOK' /\ ChainGrows
  <2>1. /\ sentAt[t] = 0 /\ latest < MaxBlock /\ latest' = latest + 1
        /\ sentAt' = [sentAt EXCEPT ![t] = latest + 1]
        /\ UNCHANGED <<ready, claimed, pending, gas, faults>>
    BY <1>2 DEF SendTx
  <2>2. latest \in Nat /\ latest + 1 \in 0 .. MaxBlock BY <1>1, <2>1 DEF ChainOK
  <2>3. latest' \in 0 .. MaxBlock /\ \A b \in LOOKBACKS : b <= latest'
    BY <1>1, <2>1, <2>2 DEF ChainOK
  <2>4. sentAt' \in [Txs -> 0 .. MaxBlock] BY <1>1, <2>1, <2>2 DEF ChainOK
  <2>5. \A u \in Txs : sentAt'[u] = IF u = t THEN latest + 1 ELSE sentAt[u]
    BY <1>1, <2>1 DEF ChainOK
  <2>6. \A m \in ready : Sent(m)'
    <3>1. \A m \in ready : m.tx \in Txs /\ m.tx # t BY <1>1, <2>1 DEF ChainOK, Sent, Txs
    <3> QED BY <1>1, <2>5, <3>1 DEF ChainOK, Sent
  <2>7. ChainOK' BY <1>1, <2>1, <2>3, <2>4, <2>6 DEF ChainOK
  <2>8. \A u \in Txs : sentAt'[u] = sentAt[u] \/ (sentAt[u] = 0 /\ sentAt'[u] > latest)
    BY <2>1, <2>2, <2>5
  <2> QED BY <2>1, <2>2, <2>7, <2>8 DEF ChainGrows
<1>3. ASSUME MineBlock PROVE ChainOK' /\ ChainGrows
  <2>1. /\ latest < MaxBlock /\ latest' = latest + 1
        /\ UNCHANGED <<sentAt, ready, claimed, pending, gas, faults>>
    BY <1>3 DEF MineBlock
  <2>2. /\ latest' \in 0 .. MaxBlock /\ latest' >= latest
        /\ \A b \in LOOKBACKS : b <= latest'
    BY <1>1, <2>1 DEF ChainOK
  <2>3. (\A m \in ready : Sent(m))' BY <1>1, <2>1 DEF ChainOK, Sent
  <2>4. ChainOK' BY <1>1, <2>1, <2>2, <2>3 DEF ChainOK
  <2>5. ChainGrows BY <2>1, <2>2 DEF ChainGrows
  <2> QED BY <2>4, <2>5
<1>4. ASSUME NEW m \in Messages, BecomeReady(m) PROVE ChainOK' /\ ChainGrows
  <2>1. Sent(m) /\ ready' = ready \union {m}
          /\ UNCHANGED <<latest, sentAt, claimed, pending, gas, faults>>
    BY <1>4 DEF BecomeReady
  <2>2. latest' >= latest BY <1>1, <2>1 DEF ChainOK
  <2> QED BY <1>1, <2>1, <2>2 DEF ChainOK, ChainGrows, Sent
<1>5. ASSUME NEW m \in Messages,
             OthersClaim(m) \/ MineRelay(m) \/ ExecuteOnScroll(m)
      PROVE  ChainOK' /\ ChainGrows
  <2>1. /\ UNCHANGED <<chainVars, faults>>
        /\ claimed \subseteq claimed' /\ claimed' \subseteq Messages
    BY <1>1, <1>5 DEF OthersClaim, MineRelay, ExecuteOnScroll, Claim, ChainOK
  <2>2. pending \subseteq claimed' \union pending' /\ pending' \subseteq ready
    BY <1>1, <1>5 DEF OthersClaim, MineRelay, ExecuteOnScroll, Claim, ChainOK
  <2>3. faults' \in 0 .. MaxFaults BY <1>1, <2>1 DEF ChainOK
  <2> QED BY <1>1, <2>1, <2>2, <2>3, ChainKept
<1>6. ASSUME NEW o \in Operators, NEW t \in Txs, NEW g \in GasLimits, replayMessage(o, t, g)
      PROVE  ChainOK' /\ ChainGrows
  <2>1. /\ gas' \in [Messages -> Nat]
        /\ UNCHANGED <<latest, sentAt, ready, claimed, pending, faults>>
    BY <1>1, <1>6 DEF replayMessage, ChainOK
  <2>2. latest' >= latest BY <1>1, <2>1 DEF ChainOK
  <2> QED BY <1>1, <2>1, <2>2 DEF ChainOK, ChainGrows, Sent
<1>7. ASSUME UNCHANGED vars PROVE ChainOK' /\ ChainGrows
  <2>1. latest' >= latest BY <1>1, <1>7 DEF ChainOK, vars
  <2> QED BY <1>1, <1>7, <2>1 DEF ChainOK, ChainGrows, Sent, vars
<1>8. run' = run
  BY DEF SendTx, MineBlock, BecomeReady, OthersClaim, MineRelay, ExecuteOnScroll,
         replayMessage, vars
<1> QED BY <1>2, <1>3, <1>4, <1>5, <1>6, <1>7, <1>8, OthersStep

LEMMA NextIInv == IInv /\ [Next]_vars => IInv'
<1> SUFFICES ASSUME IInv, [Next]_vars PROVE IInv' OBVIOUS
<1>1. ASSUME NEW o \in Operators, Step(o) PROVE IInv'
  BY <1>1, GetSrcEventsKeeps, CrashKeeps, ParseKeeps, LineaKeeps, RelayKeeps
     DEF Step
<1>2. ASSUME NEW o \in Operators, NEW s \in {"cctp", "linea"}, NEW b \in LOOKBACKS,
             NEW on \in CLAIM_ON[s], StartScan(o, s, on, b)
      PROVE  IInv'
  <2>1. on \in Chains BY BoundsAssumption
  <2> QED BY <1>2, <2>1, StartScanKeeps
<1>3. ASSUME NEW o \in Operators, NEW on \in CLAIM_ON["zkevm"], getMessages(o, on)
      PROVE  IInv'
  <2>1. on \in Chains BY BoundsAssumption
  <2> QED BY <1>3, <2>1, PageKeeps
<1>4. ASSUME NEW o \in Operators, claimList(o) PROVE IInv' BY <1>4, PageKeeps
<1>5. ASSUME NEW o \in Operators, CallFails(o) \/ Crash(o) PROVE IInv'
  BY <1>5, CallFailsKeeps, CrashKeeps
<1> QED BY <1>1, <1>2, <1>3, <1>4, <1>5, ChainStepKeeps DEF Next

-----------------------------------------------------------------------------
(* What follows from it *)

\* The chains' and the scripts' state keep their types; in particular a scan
\* never starts before block 0 and every current message is on the work list.
THEOREM TypeCorrect == Spec => []TypeOK
<1>1. IInv => TypeOK
  <2> SUFFICES ASSUME IInv PROVE TypeOK OBVIOUS
  <2>1. ChainOK BY DEF IInv
  <2>2. \A o \in Operators : run[o] \in Run /\ RunOK(run[o]) BY DEF IInv, Good
  <2> QED BY <2>1, <2>2 DEF TypeOK, ChainOK, RunOK, Run
<1> QED BY <1>1, InitIInv, NextIInv, PTL DEF Spec

\* getSrcEvents reads every block of its window but possibly the head exactly
\* once, for every look-back and chunk size and whatever is mined meanwhile.
THEOREM ScansCoverWindow == Spec => []ScanCoversWindow
<1>1. IInv => ScanCoversWindow
  <2> SUFFICES ASSUME IInv, NEW o \in Operators, Scanned(o)
               PROVE  LET r == run[o]
                          last == LastScanned(r.head, r.back)
                      IN  r.txs = IF r.script = "cctp"
                                  THEN cctpQuery(r.head - r.back, last)
                                  ELSE lineaQuery(r.head - r.back, last)
    BY DEF ScanCoversWindow
  <2>1. PICK r \in Run : r = run[o] BY DEF IInv
  <2>2. ScanOK(r) /\ r.pc = "scan" /\ r.from >= r.head
    BY <2>1 DEF IInv, Good, Scanned
  <2>3. r.head \in Nat /\ r.back \in Nat /\ r.from \in Nat BY RunNumbers
  <2>4. r.from - 1 = LastScanned(r.head, r.back)
    <3>1. CASE r.from = r.head
      <4>1. 0 % (MAX_BLOCK_LOOKBACK + 1) = 0
        <5>1. MAX_BLOCK_LOOKBACK + 1 \in Nat \ {0} BY BoundsAssumption
        <5> QED BY <5>1, ModSmall
      <4>2. r.head - r.from = 0 /\ r.from <= r.head BY <2>3, <3>1
      <4>3. r.back % (MAX_BLOCK_LOOKBACK + 1) = 0 BY <2>2, <4>1, <4>2 DEF ScanOK
      <4> QED BY <3>1, <4>3 DEF LastScanned
    <3>2. CASE r.from = r.head + 1
      <4>1. r.back % (MAX_BLOCK_LOOKBACK + 1) # 0 BY <2>2, <3>2 DEF ScanOK
      <4>2. r.from - 1 = r.head BY <2>3, <3>2
      <4> QED BY <4>1, <4>2 DEF LastScanned
    <3>3. r.from <= r.head + 1 BY <2>2 DEF ScanOK
    <3> QED BY <2>2, <2>3, <3>1, <3>2, <3>3
  <2>5. r.txs = Query(r, r.head - r.back, r.from - 1) BY <2>2 DEF ScanOK
  <2> QED BY <2>1, <2>4, <2>5 DEF Query
<1> QED BY <1>1, InitIInv, NextIInv, PTL DEF Spec

\* A script that ends leaves no message it found unsettled, for any number of
\* operators, competing claimants, crashes and failed calls.
THEOREM FinishedRunsSettled == Spec => []FinishedRunSettled
<1>1. IInv => FinishedRunSettled
  BY DEF IInv, Good, RunOK, SettleOK, FinishedRunSettled
<1> QED BY <1>1, InitIInv, NextIInv, PTL DEF Spec
=============================================================================
