-------------------------- MODULE EventScanProofs --------------------------
(***************************************************************************)
(* Proofs about EventScan: a scan in pages implements the scan at one      *)
(* instant, reads no log twice and leaves none out, whatever the instances *)
(* of HyperSync answer; the signatures of a Solana wallet are an unbroken  *)
(* run of its history, and its events are all there and in order.          *)
(***************************************************************************)
EXTENDS EventScan, DataLemmas

\* The selected logs of the blocks from first up to n, exclusive.
Below(n) == {l \in onChain : first <= l.block /\ l.block < n}

\* What the scan has read at each of its places.
EvmInv ==
  /\ height \in Nat /\ first \in Nat /\ to \in Nat /\ query \in Nat
  /\ \A l \in onChain : l.block \in 1 .. height
  /\ again = {}
  /\ evmPc # "done" => answer = NoAnswer
  /\ evmPc \in {"idle", "height"} => logs = {}
  /\ evmPc \in {"page", "parse", "done"} => to <= height
  /\ evmPc = "page" => /\ first <= query /\ (query <= height + 1 \/ query = first)
                       /\ logs = Below(query)
  /\ evmPc = "parse" => /\ \E n \in 1 .. height + 1 : logs = Below(n)
                        /\ ~short => Below(to) \subseteq logs
  /\ RangeIsCovered

LEMMA EvmInvHolds == Spec => []EvmInv
<1>1. Init => EvmInv
  BY DEF Init, EvmInit, EvmInv, RangeIsCovered, Below
<1>2. EvmInv /\ [Next]_vars => EvmInv'
  <2> SUFFICES ASSUME EvmInv, [Next]_vars PROVE EvmInv'
    OBVIOUS
  <2> USE DEF EvmInv
  <2>1. CASE UNCHANGED evmVars
    BY <2>1 DEF evmVars, chain, evmScan, RangeIsCovered, Below
  <2>2. CASE Mine
    <3>1. height' = height + 1 /\ UNCHANGED evmScan
      BY <2>2 DEF Mine
    <3>2. onChain \subseteq onChain' /\ \A l \in onChain' \ onChain : l.block = height + 1
      BY <2>2 DEF Mine
    <3>3. \A n \in Nat : n <= height + 1 => Below(n)' = Below(n)
      BY <3>1, <3>2 DEF Below, evmScan
    <3>4. Below(first)' = {} /\ Below(first) = {}
      BY <3>1, <3>2 DEF Below, evmScan
    <3>5. RangeIsCovered'
      BY <3>1, <3>3 DEF RangeIsCovered, Below, evmScan
    <3> QED
      BY <3>1, <3>2, <3>3, <3>4, <3>5 DEF evmScan
  <2>3. ASSUME NEW f \in 0 .. MaxHeight + 1, StartEvm(f) PROVE EvmInv'
    BY <2>3 DEF StartEvm, RangeIsCovered, chain
  <2>4. CASE GetHeight
    BY <2>4 DEF GetHeight, RangeIsCovered, Below, chain
  <2>5. ASSUME NEW indexed \in 0 .. height, NEW told \in BOOLEAN, NEW next \in 0 .. MaxHeight + 1,
               GetPage(indexed, told, next)
        PROVE EvmInv'
    <3> DEFINE archive == IF told THEN indexed ELSE 0
    <3>1. evmPc = "page" /\ UNCHANGED <<chain, first, to, answer>>
      BY <2>5 DEF GetPage
    <3>2. /\ query <= next
          /\ next <= height + 1 \/ next = query
      BY <2>5, <3>1 DEF GetPage, NextBlocks
    <3>3. logs' = Below(next) /\ again' = {}
      BY <2>5, <3>1, <3>2 DEF GetPage, PageLogs, Below
    <3>4. CASE IsLast(next, archive)
      <4>1. evmPc' = "parse" /\ query' = query /\ short' = (archive < to)
        BY <2>5, <3>4 DEF GetPage
      <4>2. ~short' => to <= next
        <5>1. CASE archive < to
          BY <4>1, <5>1, Zenon
        <5>2. CASE ~(archive < to)
          BY <3>4, <5>2 DEF IsLast
        <5> QED BY <5>1, <5>2
      <4>3. Below(to) \subseteq Below(next) \/ short'
        BY <4>2, <2>5 DEF Below
      <4>4. \E n \in 1 .. height + 1 : Below(next) = Below(n)
        <5>1. CASE next \in 1 .. height + 1
          BY <5>1
        <5>2. CASE next \notin 1 .. height + 1
          <6>1. Below(next) = {} /\ Below(1) = {}
            BY <5>2, <3>1, <3>2, <2>5 DEF Below
          <6> QED BY <6>1
        <5> QED BY <5>1, <5>2
      <4> QED
        BY <3>1, <3>3, <4>1, <4>3, <4>4 DEF chain, Below, RangeIsCovered
    <3>5. CASE ~IsLast(next, archive)
      <4>1. evmPc' = "page" /\ query' = next /\ short' = short
        BY <2>5, <3>1, <3>5 DEF GetPage, Cursor
      <4> QED
        BY <3>1, <3>2, <3>3, <4>1 DEF chain, Below, RangeIsCovered
    <3> QED BY <3>4, <3>5
  <2>6. CASE ParseLogs
    BY <2>6 DEF ParseLogs, RangeIsCovered, Below, EventsOf, chain
  <2>7. CASE EvmRaises
    BY <2>7 DEF EvmRaises, RangeIsCovered, chain
  <2> QED
    BY <2>1, <2>2, <2>3, <2>4, <2>5, <2>6, <2>7
    DEF Next, ScanEvmEvents, ScanSolanaEvents, EvmNext, EvmStep, vars
<1> QED
  BY <1>1, <1>2, PTL DEF Spec

-----------------------------------------------------------------------------
\* Whatever the pages, no log is read twice.
THEOREM NoLogTwice == Spec => []LogsReadOnce
<1>1. EvmInv => LogsReadOnce
  BY DEF EvmInv, LogsReadOnce
<1> QED
  BY <1>1, EvmInvHolds, PTL

\* None below to_block is left out, but by an instance that lags behind it.
THEOREM PagesAreComplete == Spec => []RangeIsCovered
<1>1. EvmInv => RangeIsCovered
  BY DEF EvmInv
<1> QED
  BY <1>1, EvmInvHolds, PTL

\* The loop over the pages ends: what it does not stop at moves it on.
THEOREM PagingEnds == Spec => []PagesAdvance
<1>1. EvmInv => PagesAdvance
  <2> SUFFICES ASSUME EvmInv, evmPc = "page",
                      NEW indexed \in 0 .. height, NEW told \in BOOLEAN, NEW next \in NextBlocks(indexed),
                      ~IsLast(next, IF told THEN indexed ELSE 0)
               PROVE  query < Cursor(next) /\ Cursor(next) <= to
    BY DEF PagesAdvance
  <2>1. query \in Nat /\ to \in Nat /\ indexed \in Nat
    BY DEF EvmInv
  <2>2. next < to
    BY <2>1 DEF IsLast, NextBlocks
  \* Beyond what is indexed the archive height ends the loop, told or not.
  <2>3. next # query
    BY <2>1 DEF IsLast, NextBlocks
  <2> QED
    BY <2>1, <2>2, <2>3 DEF NextBlocks, Cursor
<1> QED
  BY <1>1, EvmInvHolds, PTL

\* The events of the logs below block n are those a scan at one instant has.
LEMMA WindowOfEvents ==
  ASSUME EvmInv, NEW n \in Nat
  PROVE  Atomic!Window(n) = EventsOf(Below(n + 1))
<1> DEFINE E(l) == [block |-> l.block, index |-> l.index, action |-> ActionOf(l.log)]
<1>1. EventsOf(onChain) = {E(l) : l \in {k \in onChain : ActionOf(k.log) # "none"}}
  BY DEF EventsOf
<1>2. EventsOf(Below(n + 1)) = {E(l) : l \in {k \in Below(n + 1) : ActionOf(k.log) # "none"}}
  BY DEF EventsOf
<1>3. \A l : E(l).block = l.block
  OBVIOUS
<1>4. \A l \in onChain : l.block \in Nat
  BY DEF EvmInv
<1>5. first \in Nat
  BY DEF EvmInv
<1> HIDE DEF E
<1> QED
  BY <1>1, <1>2, <1>3, <1>4, <1>5 DEF Atomic!Window, Below

\* A scan in pages answers as a scan at one instant would.
THEOREM ScanIsAtomic == Spec => ImplementsAtomicScan
<1>1. Init => Atomic!Init
  BY DEF Init, EvmInit, Atomic!Init, EventsOf
<1>2. EvmInv /\ [Next]_vars => [Atomic!Next]_(Atomic!vars)
  <2> SUFFICES ASSUME EvmInv, [Next]_vars PROVE [Atomic!Next]_(Atomic!vars)
    OBVIOUS
  <2>1. CASE UNCHANGED evmVars
    BY <2>1 DEF evmVars, chain, evmScan, Atomic!vars, EventsOf
  <2>2. CASE Mine
    <3>1. height' = height + 1 /\ UNCHANGED evmScan
      BY <2>2 DEF Mine
    <3>2. onChain \subseteq onChain' /\ \A l \in onChain' \ onChain : l.block = height + 1
      BY <2>2 DEF Mine
    <3>3. EventsOf(onChain) \subseteq EventsOf(onChain')
      BY <3>2 DEF EventsOf
    <3>4. \A e \in EventsOf(onChain') \ EventsOf(onChain) : e.block = height + 1
      BY <3>2 DEF EventsOf
    <3>5. Atomic!Extend
      BY <3>1, <3>3, <3>4 DEF Atomic!Extend, evmScan, EventsOf
    <3> QED BY <3>5 DEF Atomic!Next
  <2>3. ASSUME NEW f \in 0 .. MaxHeight + 1, StartEvm(f) PROVE Atomic!Ask
    BY <2>3, EvmBoundsAssumption DEF StartEvm, EvmInv, Atomic!Ask, chain, EventsOf
  <2>4. CASE GetHeight
    BY <2>4 DEF GetHeight, chain, Atomic!vars, EventsOf
  <2>5. ASSUME NEW indexed \in 0 .. height, NEW told \in BOOLEAN, NEW next \in 0 .. MaxHeight + 1,
               GetPage(indexed, told, next)
        PROVE UNCHANGED Atomic!vars
    BY <2>5 DEF GetPage, chain, Atomic!vars, EventsOf
  <2>6. CASE ParseLogs
    <3>1. PICK n \in 1 .. height + 1 : logs = Below(n)
      BY <2>6 DEF ParseLogs, EvmInv
    <3>2. n - 1 \in 0 .. height /\ n - 1 \in Nat /\ (n - 1) + 1 = n
      BY DEF EvmInv
    <3>3. Atomic!Window(n - 1) = EventsOf(logs)
      BY <3>1, <3>2, WindowOfEvents
    <3>4. Highest(EventsOf(logs)) = Atomic!Max({first} \cup {e.block : e \in Atomic!Window(n - 1)})
      BY <3>3 DEF Highest, Max, Atomic!Max
    <3>5. answer = NoAnswer /\ UNCHANGED <<height, onChain, first>>
      BY <2>6 DEF ParseLogs, EvmInv, chain
    <3>6. UNCHANGED EventsOf(onChain)
      BY <3>5 DEF EventsOf
    <3>7. answer' = [events |-> EventsOf(logs), highest |-> Highest(EventsOf(logs))]
      BY <2>6 DEF ParseLogs
    <3>8. Atomic!Answer(n - 1)
      BY <3>3, <3>4, <3>5, <3>6, <3>7 DEF Atomic!Answer
    <3> QED BY <3>2, <3>8 DEF Atomic!Next
  <2>7. CASE EvmRaises
    BY <2>7 DEF EvmRaises, chain, Atomic!vars, EventsOf
  <2> QED
    BY <2>1, <2>2, <2>3, <2>4, <2>5, <2>6, <2>7
    DEF Next, ScanEvmEvents, ScanSolanaEvents, EvmNext, EvmStep, vars, Atomic!Next
<1> QED
  BY <1>1, <1>2, EvmInvHolds, PTL DEF Spec, ImplementsAtomicScan, Atomic!Spec

-----------------------------------------------------------------------------
\* What has been read of the history, and where the next page begins.
SolInv ==
  /\ history \in Seq(Tx)
  /\ pages \in Nat /\ began \in 0 .. Len(history)
  /\ sigs \in Seq(Nat) /\ Len(sigs) <= began
  /\ \A i \in 1 .. Len(sigs) : sigs[i] = began + 1 - i
  /\ solPc = "idle" => pages = 0
  /\ pages = 0 => sigs = <<>>
  /\ solPc = "signatures" /\ pages # 0 => sigs # <<>>

LEMMA SolInvHolds == Spec => []SolInv
<1>1. Init => SolInv
  BY DEF Init, SolInit, SolInv
<1>2. SolInv /\ [Next]_vars => SolInv'
  <2> SUFFICES ASSUME SolInv, [Next]_vars PROVE SolInv'
    OBVIOUS
  <2> USE DEF SolInv
  <2>1. CASE UNCHANGED solVars
    BY <2>1 DEF solVars, solScan
  <2>2. CASE StartSolana
    BY <2>2 DEF StartSolana
  <2>3. CASE GetSignatures
    <3>1. UNCHANGED history /\ pages' = pages + 1 /\ sigs' = sigs \o Page
      BY <2>3 DEF GetSignatures
    <3>2. began' \in 0 .. Len(history) /\ Before = began' + 1 - Len(sigs) /\ Len(sigs) <= began'
      BY <2>3 DEF GetSignatures, Before, Last
    <3> DEFINE n == IF Before - 1 < Limit THEN Before - 1 ELSE Limit
    <3>3. n \in Nat /\ Len(sigs) + n <= began'
      BY <3>2, SolBoundsAssumption
    <3>4. Page = [i \in 1 .. n |-> Before - i]
      BY DEF Page
    <3> HIDE DEF n
    <3>5. Page \in Seq(Nat) /\ Len(Page) = n
      <4>1. \A i \in 1 .. n : Before - i \in Nat
        BY <3>2, <3>3
      <4> QED BY <3>3, <3>4, <4>1
    <3>6. sigs' \in Seq(Nat) /\ Len(sigs') = Len(sigs) + n
      BY <3>1, <3>5, ConcatProperties
    <3>7. \A i \in 1 .. Len(sigs') : sigs'[i] = began' + 1 - i
      <4> SUFFICES ASSUME NEW i \in 1 .. Len(sigs') PROVE sigs'[i] = began' + 1 - i
        OBVIOUS
      <4>1. CASE i <= Len(sigs)
        <5>1. began' = began
          BY <2>3, <4>1, <3>6 DEF GetSignatures
        <5>2. sigs'[i] = sigs[i]
          BY <3>1, <3>5, <4>1, <3>6
        <5> QED BY <5>1, <5>2, <4>1, <3>6
      <4>2. CASE i > Len(sigs)
        <5>1. i - Len(sigs) \in 1 .. n
          BY <3>3, <3>6, <4>2
        <5>2. sigs'[i] = Page[i - Len(sigs)]
          BY <3>1, <3>5, <3>6, <4>2, ConcatProperties
        <5> QED BY <5>1, <5>2, <3>2, <3>4
      <4> QED BY <4>1, <4>2, <3>6
    <3>8. solPc' = "signatures" => sigs' # <<>>
      <4> SUFFICES ASSUME solPc' = "signatures" PROVE Len(sigs') > 0
        BY <3>6
      <4>1. Len(Page) = Limit
        BY <2>3 DEF GetSignatures, MoreToRead, HasMore
      <4> QED BY <4>1, <3>5, <3>6, SolBoundsAssumption
    <3>9. solPc' # "idle"
      BY <2>3 DEF GetSignatures
    <3> QED BY <3>1, <3>2, <3>3, <3>6, <3>7, <3>8, <3>9
  <2>4. CASE SolRaises
    BY <2>4 DEF SolRaises
  <2>5. CASE GetTransaction
    BY <2>5 DEF GetTransaction
  <2>6. CASE Finish
    BY <2>6 DEF Finish
  <2>7. ASSUME NEW tx \in Tx, Finalize(tx) PROVE SolInv'
    BY <2>7 DEF Finalize, solScan
  <2> QED
    BY <2>1, <2>2, <2>3, <2>4, <2>5, <2>6, <2>7
    DEF Next, ScanEvmEvents, ScanSolanaEvents, SolNext, SolStep, vars
<1> QED
  BY <1>1, <1>2, PTL DEF Spec

\* The signatures read are those of the history at the first page, newest
\* first, each once and with none left out, whatever is finalized meanwhile.
THEOREM HistoryIsUnbroken == Spec => []SignaturesUnbroken
<1>1. SolInv => SignaturesUnbroken
  <2> SUFFICES ASSUME SolInv PROVE SignaturesUnbroken
    OBVIOUS
  <2>1. sigs \in [1 .. Len(sigs) -> Nat] /\ DOMAIN sigs = 1 .. Len(sigs)
    BY DEF SolInv
  <2>2. \A i \in DOMAIN sigs : sigs[i] = began + 1 - i
    BY <2>1 DEF SolInv
  <2> HIDE DEF SolInv
  <2> QED BY <2>1, <2>2 DEF SignaturesUnbroken
<1> QED
  BY <1>1, SolInvHolds, PTL

-----------------------------------------------------------------------------
(* Events of Solana.                                                       *)

\* Where the scan is, and how much of the history it has read.
PlaceInv ==
  /\ SolTypeOK
  /\ solPc \notin {"transactions", "done"} => fetched = 1 /\ events = <<>>
  /\ solPc \in {"idle", "signatures"} => pages < MaxPages
  /\ solPc = "signatures" => Len(sigs) = pages * Limit
  /\ solPc \in {"transactions", "done"} /\ Len(sigs) < MaxPages * Limit => Len(sigs) = began
  /\ solPc = "done" => fetched = Len(sigs) + 1

\* Every movement of a transaction fetched so far is among the events, or one
\* could not be fetched.
FoundInv ==
  \A i \in 1 .. fetched - 1 :
    Moves(sigs[i]) => missed \/ \E e \in DOMAIN events : events[e].tx = sigs[i]

\* Time goes on.  Events are read against it and then sorted by it.
OrderInv ==
  /\ \A i, j \in DOMAIN history : i <= j => history[i].second <= history[j].second
  /\ \A e \in DOMAIN events : began + 1 - events[e].tx < fetched
  /\ \A d, e \in DOMAIN events : d < e =>
       IF solPc = "done"
         THEN /\ events[d].tx # events[e].tx
              /\ history[events[d].tx].second <= history[events[e].tx].second
         ELSE events[d].tx > events[e].tx

\* An event as the scan has it.
Event == [tx : DOMAIN history, action : Action]

LEMMA PlaceType ==
  ASSUME SolInv, PlaceInv
  PROVE  /\ DOMAIN history = 1 .. Len(history) /\ Len(history) \in Nat
         /\ DOMAIN sigs = 1 .. Len(sigs) /\ Len(sigs) \in Nat
         /\ DOMAIN events = 1 .. Len(events) /\ Len(events) \in Nat
         /\ events \in Seq(Event)
         /\ \A i \in 1 .. Len(history) : history[i] \in Tx /\ history[i].second \in Nat
         /\ \A i \in 1 .. Len(sigs) : sigs[i] \in 1 .. Len(history) /\ sigs[i] = began + 1 - i
         /\ \A e \in 1 .. Len(events) : events[e].tx \in 1 .. Len(history)
         /\ began \in Nat /\ fetched \in Nat
<1>1. /\ history \in Seq(Tx) /\ sigs \in Seq(DOMAIN history) /\ events \in Seq(Event)
      /\ began \in 0 .. Len(history) /\ fetched \in 1 .. Len(sigs) + 1
  BY DEF PlaceInv, SolTypeOK, Event
<1>2. \A t \in Tx : t.second \in Nat
  BY SolBoundsAssumption DEF Tx
<1>3. /\ DOMAIN history = 1 .. Len(history) /\ Len(history) \in Nat
      /\ DOMAIN sigs = 1 .. Len(sigs) /\ Len(sigs) \in Nat
      /\ DOMAIN events = 1 .. Len(events) /\ Len(events) \in Nat
  BY <1>1
<1>4. \A i \in 1 .. Len(history) : history[i] \in Tx
  BY <1>1
<1>5. \A i \in 1 .. Len(sigs) : sigs[i] \in 1 .. Len(history) /\ sigs[i] = began + 1 - i
  BY <1>1, <1>3 DEF SolInv
<1>6. \A e \in 1 .. Len(events) : events[e].tx \in 1 .. Len(history)
  <2>1. \A e \in 1 .. Len(events) : events[e] \in Event
    BY <1>1
  <2> QED
    BY <1>3, <2>1 DEF Event
<1> QED
  BY <1>1, <1>2, <1>3, <1>4, <1>5, <1>6

\* Sorting puts the same events in the order of their seconds.
LEMMA TimeSorted ==
  ASSUME SolInv, PlaceInv
  PROVE  \E o \in [1 .. Len(events) -> 1 .. Len(events)] :
           /\ ByTime(events) = [i \in 1 .. Len(events) |-> events[o[i]]]
           /\ \A i, j \in 1 .. Len(events) : o[i] = o[j] => i = j
           /\ \A e \in 1 .. Len(events) : \E i \in 1 .. Len(events) : o[i] = e
           /\ \A i, j \in 1 .. Len(events) : i < j =>
                history[events[o[i]].tx].second <= history[events[o[j]].tx].second
<1> DEFINE D == 1 .. Len(events)
           time(i) == history[events[i].tx].second
           R == {p \in D \X D : time(p[1]) < time(p[2]) \/ (time(p[1]) = time(p[2]) /\ p[1] < p[2])}
           order == CHOOSE o \in SetToSeqs(D) :
                      \A i, j \in DOMAIN o :
                        i < j => (time(o[i]) < time(o[j]) \/ (time(o[i]) = time(o[j]) /\ o[i] < o[j]))
<1>1. IsFiniteSet(D) /\ DOMAIN events = D /\ \A i \in D : time(i) \in Nat /\ i \in Nat
  <2>1. IsFiniteSet(D)
    <3>1. 1 \in Int /\ Len(events) \in Int
      BY PlaceType
    <3> QED
      BY <3>1, FS_Interval
  <2> QED
    BY <2>1, PlaceType
<1>2. ByTime(events) = [i \in D |-> events[order[i]]]
  BY <1>1 DEF ByTime
<1> HIDE DEF D
<1>3. \E o \in SetToSeqs(D) :
        \A i, j \in DOMAIN o :
          i < j => (time(o[i]) < time(o[j]) \/ (time(o[i]) = time(o[j]) /\ o[i] < o[j]))
  <2> HIDE DEF time
  <2>1. Orders(R, D)
    <3>1. \A x, y \in D : x = y \/ <<x, y>> \in R \/ <<y, x>> \in R
      BY <1>1
    <3>2. \A x, y, z \in D : <<x, y>> \in R /\ <<y, z>> \in R => <<x, z>> \in R
      BY <1>1
    <3> HIDE DEF R
    <3> QED
      BY <3>1, <3>2 DEF Orders
  <2>2. PICK o \in SetToSeqs(D) : SortedBy(o, R)
    <3> HIDE DEF R
    <3> QED
      BY <1>1, <2>1, SortExists
  <2>3. \A i, j \in DOMAIN o :
          i < j => (time(o[i]) < time(o[j]) \/ (time(o[i]) = time(o[j]) /\ o[i] < o[j]))
    BY <2>2 DEF SortedBy
  <2> QED
    BY <2>2, <2>3
<1>4. /\ order \in SetToSeqs(D)
      /\ \A i, j \in DOMAIN order :
           i < j => (time(order[i]) < time(order[j]) \/ (time(order[i]) = time(order[j]) /\ order[i] < order[j]))
  BY <1>3
<1> HIDE DEF order
<1>5. /\ order \in Seq(D) /\ Len(order) = Cardinality(D) /\ DOMAIN order = 1 .. Len(order)
      /\ \A i, j \in 1 .. Len(order) : order[i] = order[j] => i = j
      /\ \A x \in D : \E i \in 1 .. Len(order) : order[i] = x
  BY <1>1, <1>4, EnumerationType
<1>6. 1 .. Len(order) = D
  <2>1. Cardinality(D) = Len(events)
    <3>1. 1 \in Int /\ Len(events) \in Int /\ Len(events) \in Nat
      BY PlaceType
    <3>2. Cardinality(1 .. Len(events)) = IF 1 > Len(events) THEN 0 ELSE Len(events) - 1 + 1
      BY <3>1, FS_Interval
    <3> QED
      BY <3>1, <3>2 DEF D
  <2> QED
    BY <1>5, <2>1 DEF D
<1>7. order \in [D -> D]
  BY <1>5, <1>6
<1>8. \A i, j \in D : i < j => time(order[i]) <= time(order[j])
  <2> HIDE DEF time
  <2> SUFFICES ASSUME NEW i \in D, NEW j \in D, i < j PROVE time(order[i]) <= time(order[j])
    OBVIOUS
  <2>1. order[i] \in D /\ order[j] \in D
    BY <1>7
  <2>2. time(order[i]) \in Nat /\ time(order[j]) \in Nat
    BY <1>1, <2>1
  <2>3. time(order[i]) < time(order[j]) \/ time(order[i]) = time(order[j])
    BY <1>4, <1>5, <1>6
  <2> QED
    BY <2>2, <2>3
<1> QED
  BY <1>2, <1>5, <1>6, <1>7, <1>8 DEF D

LEMMA PlaceStep == SolInv /\ SolInv' /\ PlaceInv /\ [Next]_vars => PlaceInv'
<1> SUFFICES ASSUME SolInv, SolInv', PlaceInv, [Next]_vars PROVE PlaceInv'
  OBVIOUS
<1> USE DEF PlaceInv, SolTypeOK
<1>0. /\ MaxPages \in Nat /\ Limit \in Nat /\ MaxTxs \in Nat
      /\ Len(history) \in Nat /\ Len(sigs) \in Nat
  BY SolBoundsAssumption
<1>1. CASE UNCHANGED solVars
  BY <1>1 DEF solVars, solScan
<1>2. CASE StartSolana
  <2>1. pages = 0 /\ sigs = <<>> /\ solPc = "idle"
    BY <1>2 DEF StartSolana, SolInv
  <2>2. Len(sigs) = pages * Limit
    BY <1>0, <2>1
  <2> QED
    BY <1>2, <2>1, <2>2 DEF StartSolana
<1>3. CASE GetSignatures
  <2>1. /\ solPc = "signatures" /\ UNCHANGED <<history, fetched, events, missed>>
        /\ sigs' = sigs \o Page /\ pages' = pages + 1
        /\ began' = (IF pages = 0 THEN Len(history) ELSE began)
        /\ solPc' = IF MoreToRead(Page) THEN "signatures" ELSE "transactions"
    BY <1>3 DEF GetSignatures
  <2>2. /\ began' \in 0 .. Len(history) /\ Before = began' + 1 - Len(sigs) /\ Len(sigs) <= began'
    <3>1. CASE pages = 0
      <4>1. sigs = <<>> /\ began' = Len(history)
        BY <2>1, <3>1 DEF SolInv
      <4> QED
        BY <1>0, <4>1 DEF Before
    <3>2. CASE pages # 0
      <4>1. sigs # <<>> /\ began' = began /\ began \in 0 .. Len(history) /\ Len(sigs) <= began
        BY <2>1, <3>2 DEF SolInv
      <4>2. Len(sigs) \in 1 .. Len(sigs) /\ Last(sigs) = sigs[Len(sigs)]
        BY <1>0, <4>1 DEF Last
      <4>3. Last(sigs) = began + 1 - Len(sigs)
        BY <4>2 DEF SolInv
      <4> QED
        BY <4>1, <4>3 DEF Before
    <3> QED
      BY <3>1, <3>2
  <2> DEFINE n == IF Before - 1 < Limit THEN Before - 1 ELSE Limit
  <2>3. n \in Nat /\ (n = Limit \/ Len(sigs) + n = began') /\ (n # Limit => Len(sigs) + n = began')
    <3>1. Before - 1 = began' - Len(sigs) /\ began' \in Nat
      BY <1>0, <2>2
    <3> QED
      BY <1>0, <2>2, <3>1
  <2>4. Page = [i \in 1 .. n |-> Before - i]
    BY DEF Page
  <2> HIDE DEF n
  <2>5. Page \in Seq(Int) /\ Len(Page) = n
    <3>1. \A i \in 1 .. n : Before - i \in Int
      BY <1>0, <2>2, <2>3
    <3> QED
      BY <2>3, <2>4, <3>1
  <2>6. Len(sigs') = Len(sigs) + n
    <3>1. sigs \in Seq(Int)
      BY DEF SolInv
    <3> QED
      BY <2>1, <2>5, <3>1, ConcatProperties
  <2>7. sigs' \in Seq(DOMAIN history)
    <3>1. /\ sigs' \in Seq(Nat) /\ Len(sigs') <= began'
          /\ \A i \in 1 .. Len(sigs') : sigs'[i] = began' + 1 - i
      BY DEF SolInv
    <3>2. \A i \in 1 .. Len(sigs') : sigs'[i] \in DOMAIN history
      BY <1>0, <2>2, <3>1
    <3> QED
      BY <3>1, <3>2, SeqOfElements
  <2>8. Len(sigs) = pages * Limit /\ pages \in Nat /\ pages < MaxPages
    BY <2>1
  <2>9. CASE MoreToRead(Page)
    <3>1. n = Limit /\ pages + 1 < MaxPages
      BY <2>5, <2>9 DEF MoreToRead, HasMore
    <3>2. (pages + 1) * Limit = pages * Limit + Limit
      BY <1>0, <2>8
    <3>3. Len(sigs') = pages' * Limit
      BY <2>1, <2>6, <2>8, <3>1, <3>2
    <3>4. pages' \in 0 .. MaxPages /\ pages' < MaxPages /\ solPc' = "signatures"
      BY <1>0, <2>1, <2>8, <2>9, <3>1
    <3>5. fetched' = 1 /\ events' = <<>> /\ fetched' \in 1 .. Len(sigs') + 1
      BY <1>0, <2>1, <2>3, <2>6
    <3> QED
      BY <2>1, <2>2, <2>7, <3>3, <3>4, <3>5
  <2>10. CASE ~MoreToRead(Page)
    <3>1. n # Limit \/ pages + 1 >= MaxPages
      BY <1>0, <2>5, <2>8, <2>10 DEF MoreToRead, HasMore
    <3>2. Len(sigs') < MaxPages * Limit => Len(sigs') = began'
      <4>1. CASE n # Limit
        BY <2>3, <2>6, <4>1
      <4>2. CASE n = Limit
        <5>1. pages + 1 = MaxPages
          BY <1>0, <2>8, <3>1, <4>2
        <5>2. (pages + 1) * Limit = pages * Limit + Limit
          BY <1>0, <2>8
        <5>3. Len(sigs') = MaxPages * Limit
          BY <2>6, <2>8, <4>2, <5>1, <5>2
        <5>4. MaxPages * Limit \in Int
          BY <1>0
        <5> QED
          BY <5>3, <5>4
      <4> QED
        BY <4>1, <4>2
    <3>3. pages' \in 0 .. MaxPages /\ solPc' = "transactions"
      BY <1>0, <2>1, <2>8, <2>10
    <3>4. fetched' = 1 /\ events' = <<>> /\ fetched' \in 1 .. Len(sigs') + 1
      BY <1>0, <2>1, <2>3, <2>6
    <3> QED
      BY <2>1, <2>2, <2>7, <3>2, <3>3, <3>4
  <2> QED
    BY <2>9, <2>10
<1>4. CASE SolRaises
  BY <1>4 DEF SolRaises
<1>5. CASE GetTransaction
  <2>1. /\ solPc = "transactions" /\ fetched <= Len(sigs) /\ fetched' = fetched + 1
        /\ UNCHANGED <<history, solPc, pages, sigs, began>>
    BY <1>5 DEF GetTransaction
  <2>2. fetched' \in 1 .. Len(sigs) + 1
    BY <1>0, <2>1
  <2>3. missed' \in BOOLEAN
    BY <1>5 DEF GetTransaction
  <2>4. events' \in Seq([tx : DOMAIN history, action : Action])
    <3>1. CASE events' = events
      BY <3>1
    <3>2. CASE /\ Moves(sigs[fetched])
               /\ events' = Append(events, [tx |-> sigs[fetched], action |-> history[sigs[fetched]].result])
      <4>1. sigs[fetched] \in DOMAIN history
        BY <1>0, <2>1
      <4>2. [tx |-> sigs[fetched], action |-> history[sigs[fetched]].result]
              \in [tx : DOMAIN history, action : Action]
        BY <3>2, <4>1 DEF Moves
      <4> QED
        BY <3>2, <4>2
    <3> QED
      BY <1>5, <3>1, <3>2 DEF GetTransaction
  <2> QED
    BY <2>1, <2>2, <2>3, <2>4
<1>6. CASE Finish
  <2>1. /\ solPc = "transactions" /\ fetched > Len(sigs) /\ solPc' = "done" /\ events' = ByTime(events)
        /\ UNCHANGED <<history, pages, sigs, fetched, began, missed>>
    BY <1>6 DEF Finish
  <2>2. fetched = Len(sigs) + 1
    BY <1>0, <2>1
  <2>3. events' \in Seq([tx : DOMAIN history, action : Action])
    <3>1. PICK o \in [1 .. Len(events) -> 1 .. Len(events)] :
            ByTime(events) = [i \in 1 .. Len(events) |-> events[o[i]]]
      BY TimeSorted
    <3>2. events \in Seq(Event) /\ Len(events) \in Nat
      BY PlaceType
    <3> HIDE DEF PlaceInv, SolTypeOK
    <3>3. \A i \in 1 .. Len(events) : events[o[i]] \in Event
      BY <3>1, <3>2
    <3>4. ByTime(events) \in Seq(Event)
      BY <3>1, <3>2, <3>3
    <3> QED
      BY <2>1, <3>4 DEF Event
  <2> QED
    BY <2>1, <2>2, <2>3
<1>7. ASSUME NEW tx \in Tx, Finalize(tx) PROVE PlaceInv'
  <2>1. /\ Len(history) < MaxTxs /\ history' = Append(history, tx)
        /\ UNCHANGED <<solPc, pages, sigs, fetched, events, began, missed>>
    BY <1>7 DEF Finalize, solScan
  <2>2. /\ history' \in Seq(Tx) /\ Len(history') = Len(history) + 1 /\ Len(history') <= MaxTxs
    BY <1>0, <2>1
  <2>3. DOMAIN history \subseteq DOMAIN history' /\ began \in 0 .. Len(history')
    <3> DEFINE n == Len(history)
               m == Len(history')
    <3>1. /\ DOMAIN history = 1 .. n /\ DOMAIN history' = 1 .. m
          /\ n \in Nat /\ m = n + 1 /\ began \in 0 .. n
      BY <1>0, <2>2
    <3> HIDE DEF n, m
    <3>2. 1 .. n \subseteq 1 .. m /\ began \in 0 .. m
      BY <3>1
    <3>3. DOMAIN history \subseteq DOMAIN history'
      BY <3>1, <3>2
    <3> QED
      BY <3>2, <3>3 DEF m
  <2>4. sigs \in Seq(DOMAIN history') /\ events \in Seq([tx : DOMAIN history', action : Action])
    <3>1. \A i \in 1 .. Len(sigs) : sigs[i] \in DOMAIN history'
      BY <2>3
    <3>2. \A i \in 1 .. Len(events) : events[i] \in [tx : DOMAIN history', action : Action]
      <4>1. \A i \in 1 .. Len(events) : events[i] \in Event
        BY PlaceType
      <4>2. Event \subseteq [tx : DOMAIN history', action : Action]
        BY <2>3 DEF Event
      <4> QED
        BY <4>1, <4>2
    <3> QED
      BY <3>1, <3>2, SeqOfElements
  <2> QED
    BY <2>1, <2>2, <2>3, <2>4
<1> QED
  BY <1>1, <1>2, <1>3, <1>4, <1>5, <1>6, <1>7
  DEF Next, ScanEvmEvents, ScanSolanaEvents, SolNext, SolStep, vars

LEMMA PlaceInvHolds == Spec => []PlaceInv
<1>1. Init => PlaceInv
  <2> SUFFICES ASSUME Init PROVE PlaceInv
    OBVIOUS
  <2>1. /\ history = <<>> /\ solPc = "idle" /\ pages = 0 /\ sigs = <<>> /\ fetched = 1
        /\ events = <<>> /\ began = 0 /\ missed = FALSE
    BY DEF Init, SolInit
  <2>2. MaxTxs \in Nat /\ MaxPages \in Nat \ {0} /\ Len(<<>>) = 0
    BY SolBoundsAssumption
  <2>3. SolTypeOK
    <3>1. <<>> \in Seq(Tx) /\ <<>> \in Seq(DOMAIN <<>>) /\ <<>> \in Seq([tx : DOMAIN <<>>, action : Action])
      OBVIOUS
    <3>2. 0 \in 0 .. MaxPages /\ 1 \in 1 .. Len(<<>>) + 1 /\ 0 \in 0 .. Len(<<>>) /\ Len(<<>>) <= MaxTxs
      BY <2>2
    <3> QED
      BY <2>1, <3>1, <3>2 DEF SolTypeOK
  <2> QED
    BY <2>1, <2>2, <2>3 DEF PlaceInv
<1> QED
  BY <1>1, PlaceStep, SolInvHolds, PTL DEF Spec

\* What a fetch does to the events.
LEMMA FetchEvents ==
  ASSUME GetTransaction
  PROVE  /\ fetched <= Len(sigs) /\ fetched' = fetched + 1 /\ solPc = "transactions"
         /\ UNCHANGED <<history, solPc, pages, sigs, began>>
         /\ \/ /\ events' = Append(events, [tx |-> sigs[fetched], action |-> history[sigs[fetched]].result])
               /\ missed' = missed
            \/ events' = events /\ missed'
            \/ events' = events /\ missed' = missed /\ ~Moves(sigs[fetched])
  BY DEF GetTransaction

LEMMA FoundStep ==
  SolInv /\ PlaceInv /\ FoundInv /\ [Next]_vars => FoundInv'
<1> SUFFICES ASSUME SolInv, PlaceInv, FoundInv, [Next]_vars PROVE FoundInv'
  OBVIOUS
<1>0. /\ DOMAIN history = 1 .. Len(history) /\ Len(history) \in Nat /\ Len(sigs) \in Nat
      /\ DOMAIN events = 1 .. Len(events) /\ Len(events) \in Nat /\ events \in Seq(Event)
      /\ fetched \in 1 .. Len(sigs) + 1
      /\ \A i \in 1 .. Len(sigs) : sigs[i] \in 1 .. Len(history)
  BY PlaceType DEF PlaceInv, SolTypeOK
<1>1. CASE UNCHANGED solVars
  BY <1>1 DEF solVars, solScan, FoundInv, Moves
<1>2. CASE StartSolana \/ SolRaises
  BY <1>2 DEF StartSolana, SolRaises, FoundInv, Moves
<1>3. CASE GetSignatures
  <2>1. fetched' = 1
    BY <1>3 DEF GetSignatures, PlaceInv
  <2> QED
    BY <2>1 DEF FoundInv
<1>4. CASE GetTransaction
  <2>1. /\ fetched <= Len(sigs) /\ fetched' = fetched + 1 /\ UNCHANGED <<history, sigs>>
        /\ \/ /\ events' = Append(events, [tx |-> sigs[fetched], action |-> history[sigs[fetched]].result])
              /\ missed' = missed
           \/ events' = events /\ missed'
           \/ events' = events /\ missed' = missed /\ ~Moves(sigs[fetched])
    BY <1>4, FetchEvents
  <2> SUFFICES ASSUME NEW i \in 1 .. fetched, Moves(sigs[i]), ~missed'
               PROVE  \E e \in DOMAIN events' : events'[e].tx = sigs[i]
    BY <1>0, <2>1 DEF FoundInv, Moves
  <2>2. ~missed
    BY <2>1
  <2>3. CASE i = fetched
    <3>1. events' = Append(events, [tx |-> sigs[fetched], action |-> history[sigs[fetched]].result])
      BY <2>1, <2>3
    <3>2. Len(events) + 1 \in DOMAIN events' /\ events'[Len(events) + 1].tx = sigs[fetched]
      BY <1>0, <3>1
    <3> QED
      BY <2>3, <3>2
  <2>4. CASE i \in 1 .. fetched - 1
    <3>1. PICK e \in DOMAIN events : events[e].tx = sigs[i]
      BY <2>2, <2>4 DEF FoundInv
    <3>2. e \in DOMAIN events' /\ events'[e] = events[e]
      BY <1>0, <2>1
    <3> QED
      BY <3>1, <3>2
  <2> QED
    BY <1>0, <2>3, <2>4
<1>5. CASE Finish
  <2>1. events' = ByTime(events) /\ UNCHANGED <<history, sigs, fetched, missed>>
    BY <1>5 DEF Finish
  <2>2. PICK o \in [1 .. Len(events) -> 1 .. Len(events)] :
          /\ ByTime(events) = [i \in 1 .. Len(events) |-> events[o[i]]]
          /\ \A e \in 1 .. Len(events) : \E i \in 1 .. Len(events) : o[i] = e
    BY TimeSorted
  <2>3. \A e \in DOMAIN events : \E i \in DOMAIN events' : events'[i] = events[e]
    <3> SUFFICES ASSUME NEW e \in 1 .. Len(events)
                 PROVE  \E i \in DOMAIN events' : events'[i] = events[e]
      BY <1>0
    <3>1. PICK i \in 1 .. Len(events) : o[i] = e
      BY <2>2
    <3>2. i \in DOMAIN events' /\ events'[i] = events[e]
      BY <2>1, <2>2, <3>1
    <3> QED
      BY <3>2
  <2> QED
    BY <2>1, <2>3 DEF FoundInv, Moves
<1>6. ASSUME NEW tx \in Tx, Finalize(tx) PROVE FoundInv'
  <2>1. history' = Append(history, tx) /\ UNCHANGED <<sigs, fetched, events, missed>>
    BY <1>6 DEF Finalize, solScan
  <2>2. history \in Seq(Tx)
    BY DEF SolInv
  <2>3. \A i \in 1 .. Len(history) : history'[i] = history[i]
    BY <2>1, <2>2
  <2>4. \A i \in 1 .. fetched - 1 : sigs[i] \in 1 .. Len(history)
    BY <1>0
  <2> QED
    BY <2>1, <2>3, <2>4 DEF FoundInv, Moves
<1> QED
  BY <1>1, <1>2, <1>3, <1>4, <1>5, <1>6
  DEF Next, ScanEvmEvents, ScanSolanaEvents, SolNext, SolStep, vars

\* A scan that was neither capped nor failed to fetch a transaction returns
\* every movement there was when it began.
THEOREM MovementsFound == Spec => []MovementsAreFound
<1>1. Init => FoundInv
  BY DEF Init, SolInit, FoundInv
<1>2. SolInv /\ PlaceInv /\ FoundInv => MovementsAreFound
  <2> SUFFICES ASSUME SolInv, PlaceInv, FoundInv, solPc = "done", ~missed,
                      Len(sigs) < MaxPages * Limit, NEW i \in 1 .. began, Moves(i)
               PROVE  \E e \in DOMAIN events : events[e].tx = i
    BY DEF MovementsAreFound
  <2>1. Len(sigs) = began /\ fetched = Len(sigs) + 1 /\ began \in Nat
    BY PlaceType DEF PlaceInv
  <2> DEFINE j == began + 1 - i
  <2>2. j \in 1 .. Len(sigs) /\ j \in 1 .. fetched - 1
    BY <2>1
  <2>3. sigs[j] = began + 1 - j
    BY <2>2, PlaceType
  <2>4. sigs[j] = i
    BY <2>1, <2>3
  <2> HIDE DEF j
  <2> QED
    BY <2>2, <2>4 DEF FoundInv
<1> QED
  BY <1>1, <1>2, FoundStep, SolInvHolds, PlaceInvHolds, PTL DEF Spec

LEMMA OrderStep ==
  SolInv /\ PlaceInv /\ OrderInv /\ [Next]_vars => OrderInv'
<1> SUFFICES ASSUME SolInv, PlaceInv, OrderInv, [Next]_vars PROVE OrderInv'
  OBVIOUS
<1>0. /\ DOMAIN history = 1 .. Len(history) /\ Len(history) \in Nat /\ Len(sigs) \in Nat
      /\ DOMAIN events = 1 .. Len(events) /\ Len(events) \in Nat /\ events \in Seq(Event)
      /\ fetched \in Nat /\ began \in Nat /\ history \in Seq(Tx)
      /\ \A i \in 1 .. Len(history) : history[i].second \in Nat
      /\ \A e \in 1 .. Len(events) : events[e].tx \in 1 .. Len(history)
      /\ \A i \in 1 .. Len(sigs) : sigs[i] \in 1 .. Len(history) /\ sigs[i] = began + 1 - i
  BY PlaceType DEF SolInv
<1>1. CASE UNCHANGED solVars
  BY <1>1 DEF solVars, solScan, OrderInv
<1>2. CASE StartSolana \/ SolRaises
  <2>1. /\ UNCHANGED <<history, began, events, fetched>> /\ solPc # "done" /\ solPc' # "done"
    BY <1>2 DEF StartSolana, SolRaises
  <2> QED
    BY <2>1 DEF OrderInv
<1>3. CASE GetSignatures
  <2>1. events = <<>> /\ UNCHANGED <<history, events>>
    BY <1>3 DEF GetSignatures, PlaceInv
  <2>2. DOMAIN events = {}
    BY <2>1
  <2> QED
    BY <2>1, <2>2 DEF OrderInv
<1>4. CASE GetTransaction
  <2>1. /\ fetched <= Len(sigs) /\ fetched' = fetched + 1 /\ solPc = "transactions"
        /\ UNCHANGED <<history, solPc, pages, sigs, began>>
        /\ \/ events' = Append(events, [tx |-> sigs[fetched], action |-> history[sigs[fetched]].result])
           \/ events' = events
    BY <1>4, FetchEvents
  <2>2. /\ \A e \in 1 .. Len(events) : began + 1 - events[e].tx < fetched
        /\ \A d, e \in 1 .. Len(events) : d < e => events[d].tx > events[e].tx
    BY <1>0, <2>1 DEF OrderInv
  <2>3. CASE events' = events
    <3>1. \A e \in 1 .. Len(events) : began + 1 - events[e].tx < fetched + 1
      <4> SUFFICES ASSUME NEW e \in 1 .. Len(events) PROVE began + 1 - events[e].tx < fetched + 1
        OBVIOUS
      <4>1. events[e].tx \in Nat /\ began + 1 - events[e].tx < fetched
        BY <1>0, <2>2
      <4> QED
        BY <1>0, <4>1
    <3> QED
      BY <1>0, <2>1, <2>3, <3>1 DEF OrderInv
  <2>4. CASE events' = Append(events, [tx |-> sigs[fetched], action |-> history[sigs[fetched]].result])
    <3> DEFINE n == Len(events)
    <3>1. /\ DOMAIN events' = 1 .. n + 1 /\ events'[n + 1].tx = sigs[fetched]
          /\ \A e \in 1 .. n : events'[e] = events[e]
      BY <1>0, <2>4
    <3>2. fetched >= 1 /\ sigs[fetched] = began + 1 - fetched /\ sigs[fetched] \in Nat
      BY <1>0, <2>1 DEF PlaceInv, SolTypeOK
    <3>3. \A e \in 1 .. n : events[e].tx \in Nat /\ events[e].tx > sigs[fetched]
      <4> SUFFICES ASSUME NEW e \in 1 .. n PROVE events[e].tx \in Nat /\ events[e].tx > sigs[fetched]
        OBVIOUS
      <4>1. events[e].tx \in Nat /\ began + 1 - events[e].tx < fetched
        BY <1>0, <2>2
      <4> QED
        BY <1>0, <3>2, <4>1
    <3>4. \A e \in 1 .. n + 1 : began + 1 - events'[e].tx < fetched + 1
      <4> SUFFICES ASSUME NEW e \in 1 .. n + 1 PROVE began + 1 - events'[e].tx < fetched + 1
        OBVIOUS
      <4>1. CASE e = n + 1
        BY <1>0, <3>1, <3>2, <4>1
      <4>2. CASE e \in 1 .. n
        BY <1>0, <3>1, <3>2, <3>3, <4>2
      <4> QED
        BY <1>0, <4>1, <4>2
    <3>5. \A d, e \in 1 .. n + 1 : d < e => events'[d].tx > events'[e].tx
      <4> SUFFICES ASSUME NEW d \in 1 .. n + 1, NEW e \in 1 .. n + 1, d < e
                   PROVE  events'[d].tx > events'[e].tx
        OBVIOUS
      <4>1. d \in 1 .. n
        BY <1>0
      <4>2. CASE e = n + 1
        BY <3>1, <3>3, <4>1, <4>2
      <4>3. CASE e \in 1 .. n
        BY <2>2, <3>1, <4>1, <4>3
      <4> QED
        BY <1>0, <4>2, <4>3
    <3> QED
      BY <2>1, <3>1, <3>4, <3>5 DEF OrderInv
  <2> QED
    BY <2>1, <2>3, <2>4
<1>5. CASE Finish
  <2>1. /\ solPc = "transactions" /\ solPc' = "done" /\ events' = ByTime(events)
        /\ UNCHANGED <<history, sigs, fetched, began>>
    BY <1>5 DEF Finish
  <2> DEFINE D == 1 .. Len(events)
  <2>2. PICK o \in [D -> D] :
          /\ ByTime(events) = [i \in D |-> events[o[i]]]
          /\ \A i, j \in D : o[i] = o[j] => i = j
          /\ \A i, j \in D : i < j =>
               history[events[o[i]].tx].second <= history[events[o[j]].tx].second
    BY TimeSorted
  <2>3. DOMAIN events' = D /\ \A i \in D : events'[i] = events[o[i]] /\ o[i] \in D
    BY <2>1, <2>2
  <2>4. \A d, e \in D : d # e => events[d].tx # events[e].tx
    <3> SUFFICES ASSUME NEW d \in D, NEW e \in D, d # e PROVE events[d].tx # events[e].tx
      OBVIOUS
    <3>1. events[d].tx \in Nat /\ events[e].tx \in Nat
      BY <1>0
    <3>2. d < e \/ e < d
      BY <1>0
    <3>3. (d < e => events[d].tx > events[e].tx) /\ (e < d => events[e].tx > events[d].tx)
      BY <1>0, <2>1 DEF OrderInv
    <3> QED
      BY <3>1, <3>2, <3>3
  <2>5. \A i, j \in D : i < j => o[i] # o[j]
    <3> SUFFICES ASSUME NEW i \in D, NEW j \in D, i < j PROVE o[i] # o[j]
      OBVIOUS
    <3>1. i # j
      BY <1>0
    <3> QED
      BY <2>2, <3>1
  <2>6. \A e \in D : began + 1 - events[e].tx < fetched
    BY <1>0 DEF OrderInv
  <2> HIDE DEF D
  <2>7. \A i, j \in D : i < j => /\ events'[i].tx # events'[j].tx
                                 /\ history[events'[i].tx].second <= history[events'[j].tx].second
    BY <2>2, <2>3, <2>4, <2>5
  <2>8. \A i \in D : began + 1 - events'[i].tx < fetched
    BY <2>3, <2>6
  <2> QED
    BY <2>1, <2>3, <2>7, <2>8 DEF OrderInv
<1>6. ASSUME NEW tx \in Tx, Finalize(tx) PROVE OrderInv'
  <2> DEFINE n == Len(history)
  <2>1. /\ IF history = <<>> THEN tx.second = 1 ELSE tx.second - Last(history).second \in {0, 1}
        /\ history' = Append(history, tx) /\ UNCHANGED <<solPc, sigs, fetched, events, began>>
    BY <1>6 DEF Finalize, solScan
  <2>2. /\ DOMAIN history' = 1 .. n + 1 /\ history'[n + 1] = tx
        /\ \A i \in 1 .. n : history'[i] = history[i]
    BY <1>0, <2>1
  <2>3. tx.second \in Nat
    BY SolBoundsAssumption DEF Tx
  <2>4. \A i \in 1 .. n : history[i].second <= tx.second
    <3> SUFFICES ASSUME NEW i \in 1 .. n PROVE history[i].second <= tx.second
      OBVIOUS
    <3>1. history # <<>> /\ n \in 1 .. n /\ Last(history) = history[n] /\ i <= n
      BY <1>0 DEF Last
    <3>2. history[i].second <= history[n].second
      BY <1>0, <3>1 DEF OrderInv
    <3>3. history[n].second \in Nat /\ history[i].second \in Nat
      BY <1>0, <3>1
    <3>4. tx.second - history[n].second \in {0, 1}
      BY <2>1, <3>1
    <3> QED
      BY <2>3, <3>2, <3>3, <3>4
  <2>5. \A i, j \in 1 .. n + 1 : i <= j => history'[i].second <= history'[j].second
    <3> SUFFICES ASSUME NEW i \in 1 .. n + 1, NEW j \in 1 .. n + 1, i <= j
                 PROVE  history'[i].second <= history'[j].second
      OBVIOUS
    <3>1. CASE j \in 1 .. n
      <4>1. i \in 1 .. n
        BY <1>0, <3>1
      <4> QED
        BY <1>0, <2>2, <3>1, <4>1 DEF OrderInv
    <3>2. CASE j = n + 1 /\ i \in 1 .. n
      BY <2>2, <2>4, <3>2
    <3>3. CASE j = n + 1 /\ i = n + 1
      BY <2>2, <2>3, <3>3
    <3> QED
      BY <1>0, <3>1, <3>2, <3>3
  <2>6. \A e \in DOMAIN events : history'[events[e].tx] = history[events[e].tx]
    BY <1>0, <2>2
  <2> HIDE DEF n
  <2>7. \A i, j \in DOMAIN history' : i <= j => history'[i].second <= history'[j].second
    BY <2>2, <2>5
  <2>8. UNCHANGED <<solPc, events, began, fetched>>
    BY <2>1
  <2>9. \A e \in DOMAIN events' : began' + 1 - events'[e].tx < fetched'
    BY <2>8 DEF OrderInv
  <2>10. ASSUME NEW d \in DOMAIN events', NEW e \in DOMAIN events', d < e
         PROVE  IF solPc' = "done"
                  THEN /\ events'[d].tx # events'[e].tx
                       /\ history'[events'[d].tx].second <= history'[events'[e].tx].second
                  ELSE events'[d].tx > events'[e].tx
    <3>1. /\ history'[events[d].tx].second = history[events[d].tx].second
          /\ history'[events[e].tx].second = history[events[e].tx].second
      BY <2>6, <2>8
    <3>2. IF solPc = "done"
            THEN /\ events[d].tx # events[e].tx
                 /\ history[events[d].tx].second <= history[events[e].tx].second
            ELSE events[d].tx > events[e].tx
      BY <2>8, <2>10 DEF OrderInv
    <3> QED
      BY <2>8, <3>1, <3>2
  <2> QED
    BY <2>7, <2>9, <2>10 DEF OrderInv
<1> QED
  BY <1>1, <1>2, <1>3, <1>4, <1>5, <1>6
  DEF Next, ScanEvmEvents, ScanSolanaEvents, SolNext, SolStep, vars

\* The events of a wallet with no two transactions in one second come in the
\* order of the chain, although they were read against it.
THEOREM EventsInOrder == Spec => []EventsInChainOrder
<1>1. Init => OrderInv
  BY DEF Init, SolInit, OrderInv
<1>2. SolInv /\ PlaceInv /\ OrderInv => EventsInChainOrder
  <2> SUFFICES ASSUME SolInv, PlaceInv, OrderInv, solPc = "done",
                      \A i, j \in DOMAIN history : history[i].second = history[j].second => i = j,
                      NEW i \in DOMAIN events, NEW j \in DOMAIN events, i < j
               PROVE  events[i].tx < events[j].tx
    BY DEF EventsInChainOrder
  <2> DEFINE x == events[i].tx
             y == events[j].tx
  <2>1. x \in DOMAIN history /\ y \in DOMAIN history /\ x \in Nat /\ y \in Nat
    BY PlaceType
  <2>2. x # y /\ history[x].second <= history[y].second
    BY DEF OrderInv
  <2> HIDE DEF x, y
  <2>3. y < x => history[y].second <= history[x].second
    BY <2>1 DEF OrderInv
  <2>4. history[x].second \in Nat /\ history[y].second \in Nat
    BY <2>1, PlaceType
  <2>5. history[x].second # history[y].second
    BY <2>1, <2>2
  <2>6. x < y
    BY <2>1, <2>2, <2>3, <2>4, <2>5
  <2> QED
    BY <2>6 DEF x, y
<1> QED
  BY <1>1, <1>2, OrderStep, SolInvHolds, PlaceInvHolds, PTL DEF Spec

-----------------------------------------------------------------------------
\* Types.

LEMMA EvmTypes == Spec => []EvmTypeOK
<1>1. Init => EvmTypeOK
  <2> SUFFICES ASSUME Init PROVE EvmTypeOK
    OBVIOUS
  <2>1. 0 \in 0 .. MaxHeight /\ 0 \in Blocks
    BY EvmBoundsAssumption DEF Blocks
  <2>2. /\ height = 0 /\ onChain = {} /\ evmPc = "idle" /\ first = 0 /\ to = 0 /\ query = 0
        /\ logs = {} /\ again = {}
    BY DEF Init, EvmInit
  <2>3. short \in BOOLEAN
    BY DEF Init, EvmInit
  <2> QED
    BY <2>1, <2>2, <2>3 DEF EvmTypeOK
<1>2. EvmInv /\ EvmInv' /\ EvmTypeOK /\ [Next]_vars => EvmTypeOK'
  <2> SUFFICES ASSUME EvmInv, EvmInv', EvmTypeOK, [Next]_vars PROVE EvmTypeOK'
    OBVIOUS
  <2> USE DEF EvmTypeOK, Blocks
  <2>0. height \in Nat /\ MaxHeight \in Nat /\ MaxLogs \in Nat /\ again = {} /\ again' = {}
    BY EvmBoundsAssumption DEF EvmInv
  <2>1. CASE UNCHANGED evmVars
    BY <2>1 DEF evmVars, chain, evmScan
  <2>2. CASE Mine
    <3>1. height < MaxHeight /\ height' = height + 1 /\ UNCHANGED evmScan
      BY <2>2 DEF Mine
    <3>2. PICK n \in 0 .. MaxLogs : \E ls \in [1 .. n -> Log] :
            onChain' = onChain \cup {[block |-> height + 1, index |-> i, log |-> ls[i]] : i \in 1 .. n}
      BY <2>2 DEF Mine
    <3>3. PICK ls \in [1 .. n -> Log] :
            onChain' = onChain \cup {[block |-> height + 1, index |-> i, log |-> ls[i]] : i \in 1 .. n}
      BY <3>2
    <3>4. \A i \in 1 .. n : [block |-> height + 1, index |-> i, log |-> ls[i]] \in ChainLog
      BY <2>0, <3>1 DEF ChainLog
    <3>5. onChain' \subseteq ChainLog /\ onChain \subseteq onChain'
      BY <3>3, <3>4
    <3>6. height' \in 0 .. MaxHeight
      BY <2>0, <3>1
    <3> QED
      BY <3>1, <3>5, <3>6 DEF evmScan
  <2>3. ASSUME NEW f \in 0 .. MaxHeight + 1, StartEvm(f) PROVE EvmTypeOK'
    BY <2>3 DEF StartEvm, chain
  <2>4. CASE GetHeight
    <3>1. to' \in 0 .. MaxHeight + 1
      BY <2>0, <2>4 DEF GetHeight
    <3> QED
      BY <2>4, <3>1 DEF GetHeight, chain
  <2>5. ASSUME NEW indexed \in 0 .. height, NEW told \in BOOLEAN, NEW next \in 0 .. MaxHeight + 1,
               GetPage(indexed, told, next)
        PROVE EvmTypeOK'
    <3> DEFINE archive == IF told THEN indexed ELSE 0
    <3>1. /\ UNCHANGED <<chain, first, to, answer>> /\ logs' = logs \cup PageLogs(next)
          /\ PageLogs(next) \subseteq onChain
      BY <2>5 DEF GetPage, PageLogs
    <3>2. CASE IsLast(next, archive)
      <4>1. evmPc' = "parse" /\ query' = query /\ short' = (archive < to)
        BY <2>5, <3>2 DEF GetPage
      <4>2. short' \in BOOLEAN
        <5> HIDE DEF archive
        <5>1. CASE archive < to
          BY <4>1, <5>1, Zenon
        <5>2. CASE ~(archive < to)
          <6>1. short' <=> FALSE
            BY <4>1, <5>2
          <6> QED
            BY <4>1, <5>2, <6>1, SMT
        <5> QED
          BY <5>1, <5>2
      <4> QED
        BY <2>0, <3>1, <4>1, <4>2 DEF chain
    <3>3. CASE ~IsLast(next, archive)
      <4>1. evmPc' = evmPc /\ query' = next /\ short' = short
        BY <2>5, <3>3 DEF GetPage, Cursor
      <4> QED
        BY <2>0, <3>1, <4>1 DEF chain
    <3> QED
      BY <3>2, <3>3
  <2>6. CASE ParseLogs
    BY <2>6 DEF ParseLogs, chain
  <2>7. CASE EvmRaises
    BY <2>7 DEF EvmRaises, chain
  <2> QED
    BY <2>1, <2>2, <2>3, <2>4, <2>5, <2>6, <2>7
    DEF Next, ScanEvmEvents, ScanSolanaEvents, EvmNext, EvmStep, vars
<1> QED
  BY <1>1, <1>2, EvmInvHolds, PTL DEF Spec

\* Every variable of either scan keeps its type.
THEOREM ScanTypes == Spec => []TypeOK
<1>1. PlaceInv => SolTypeOK
  BY DEF PlaceInv
<1> QED
  BY <1>1, EvmTypes, PlaceInvHolds, PTL DEF TypeOK
=============================================================================
