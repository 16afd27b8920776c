-------------------------- MODULE MarketDataProofs --------------------------
(***************************************************************************)
(* Proofs about MarketData: what is cached, published and stored of a      *)
(* price agree, and a vault that was switched off stays so.                *)
(***************************************************************************)
EXTENDS MarketData, TLAPS

USE DEF Time, Quote

LEMMA OverType ==
  ASSUME NEW f \in [Asset -> Time], NEW g \in [Asset -> Time]
  PROVE  Over(f, g) \in [Asset -> Time]
  BY DEF Over

LEMMA NoneType == None \in [Asset -> Time]
  BY PriceAssumption DEF None

\* The tasks' frame keeps its own variables in order.
LEMMA FrameTypes ==
  ASSUME TypeOK,
         \/ \E w \in Worker : Start(w) \/ Raise(w) \/ Release(w) \/ Crash(w)
         \/ Expire \/ Settle \/ UNCHANGED beat
  PROVE  /\ key' \in BOOLEAN /\ quiet' \in BOOLEAN
         /\ pc' \in [Worker -> {"idle", "load", "fetch", "cache", "persist", "publish",
                                "adapters", "upsert", "release"}]
  BY DEF TypeOK, Start, Raise, Release, Crash, Expire, Settle, beat, Goto

\* refresh_prices keeps every variable in its type.
LEMMA RefreshTypes ==
  ASSUME TypeOK, NEW w \in Worker, Refresh(w), UNCHANGED <<kind, tracking>>
  PROVE  TypeOK'
<1>1. ASSUME NEW S \in SUBSET Asset, LoadTracked(w, S) PROVE TypeOK'
  BY <1>1, NoneType DEF TypeOK, LoadTracked, Goto, backfill, tracking
<1>2. ASSUME NEW B \in SUBSET want[w], NEW ok \in BOOLEAN, FetchBatch(w, B, ok) PROVE TypeOK'
  <2>1. Answer(w, B, ok) \in [Asset -> Time]
    BY DEF Answer, TypeOK
  <2> QED
    BY <1>2, <2>1 DEF TypeOK, FetchBatch, beat, backfill, tracking
<1>3. CASE AllFetched(w)
  BY <1>3 DEF TypeOK, AllFetched, Goto, feed, tracking
<1>4. CASE CachePrices(w)
  BY <1>4, OverType DEF TypeOK, CachePrices, Goto, locals, backfill, tracking
<1>5. CASE PersistPrices(w)
  BY <1>5 DEF TypeOK, PersistPrices, Rows, Goto, locals, backfill, tracking
<1>6. CASE PublishUpdates(w)
  BY <1>6, OverType DEF TypeOK, PublishUpdates, Goto, locals, backfill, tracking
<1> QED
  BY <1>1, <1>2, <1>3, <1>4, <1>5, <1>6 DEF Refresh

\* So does backfill_prices.
LEMMA BackfillTypes ==
  ASSUME TypeOK, Backfill, UNCHANGED <<kind, beat, tracking>>
  PROVE  TypeOK'
<1> USE DEF TypeOK, beat, locals, tracking
<1>1. ASSUME NEW S \in SUBSET Past, StartBackfill(S) PROVE TypeOK'
  BY <1>1, PriceAssumption DEF StartBackfill
<1>2. ASSUME NEW t \in 1 .. MaxTime, NEW B \in SUBSET fill.ask, NEW A \in SUBSET B,
             FetchHistorical(t, B, A)
      PROVE TypeOK'
  BY <1>2 DEF FetchHistorical
<1>3. CASE PersistBackfill
  BY <1>3 DEF PersistBackfill
<1>4. CASE BuildLots
  BY <1>4 DEF BuildLots, NoFill
<1>5. CASE BackfillRaises
  BY <1>5 DEF BackfillRaises, NoFill
<1> QED
  BY <1>1, <1>2, <1>3, <1>4, <1>5 DEF Backfill

\* refresh_vault_metrics keeps every variable in its type.
LEMMA MeasureTypes ==
  ASSUME TypeOK, NEW w \in Worker, Measure(w), UNCHANGED <<kind, feed>>
  PROVE  TypeOK'
<1> USE DEF TypeOK, feed, locals, backfill, table, run
<1>1. CASE LoadVaults(w)
  BY <1>1 DEF LoadVaults, Goto
<1>2. ASSUME NEW p \in Label, NEW v \in Vault, NEW answered \in SUBSET {"vaults", "markets"},
             RunAdapter(w, p, ChainOf[v], answered)
      PROVE TypeOK'
  <2>1. Group(w, p, ChainOf[v]) \subseteq asked[w] /\ asked[w] \subseteq Label \X Vault
    BY DEF Group
  <2>2. Reported(w, p, ChainOf[v], answered) \subseteq Vault
    BY <2>1 DEF Reported
  <2>3. metrics' \in [Worker -> SUBSET Vault]
    BY <1>2, <2>2 DEF RunAdapter, AfterAdapter
  <2>4. asked' \in [Worker -> SUBSET (Label \X Vault)]
    BY <1>2, <2>1 DEF RunAdapter
  <2> QED
    BY <1>2, <2>3, <2>4 DEF RunAdapter, AfterAdapter, beat
<1>3. CASE AllCollected(w)
  BY <1>3 DEF AllCollected, Goto, tracking
<1>4. ASSUME NEW Z \in SUBSET metrics[w], PersistMetrics(w, Z) PROVE TypeOK'
  BY <1>4 DEF PersistMetrics, Goto
<1>5. CASE UpsertVaults(w)
  BY <1>5 DEF UpsertVaults, Upserted, Goto, Label, Registered, Morpho
<1> QED
  BY <1>1, <1>2, <1>3, <1>4, <1>5 DEF Measure

\* And so do the pipelines, the daily task and the administrator.
LEMMA TrackingTypes ==
  ASSUME TypeOK, Discovery \/ Lifecycle, UNCHANGED <<kind, beat, feed>>
  PROVE  TypeOK'
<1> USE DEF TypeOK, beat, feed, locals, backfill, table, run
<1>1. ASSUME NEW F \in SUBSET Vault, NEW b \in BOOLEAN, ScanFinds(F, b) PROVE TypeOK'
  BY <1>1 DEF ScanFinds
<1>2. CASE DiscoverVaults
  BY <1>2, VaultAssumption DEF DiscoverVaults
<1>3. CASE StorePositions
  BY <1>3 DEF StorePositions, NoPipe
<1>4. CASE PipelineRaises
  BY <1>4 DEF PipelineRaises, NoPipe
<1>5. CASE Detrack
  BY <1>5 DEF Detrack
<1>6. ASSUME NEW v \in Vault, ClosePosition(v) \/ MetricsAge(v) \/ Register(v) \/ SwitchOff(v)
      PROVE TypeOK'
  BY <1>6 DEF ClosePosition, MetricsAge, Register, SwitchOff, Label, Registered, Morpho
<1> QED
  BY <1>1, <1>2, <1>3, <1>4, <1>5, <1>6 DEF Discovery, Lifecycle

\* Every variable keeps its type, for all assets, vaults and workers.
THEOREM MarketTypes == Spec => []TypeOK
<1>1. Init => TypeOK
  <2>1. None \in [Asset -> Time] /\ EventLabel \in [Vault -> Label]
    BY NoneType, VaultAssumption
  <2> SUFFICES ASSUME Init PROVE TypeOK
    OBVIOUS
  <2> QED
    BY <2>1, KindsAssumption DEF Init, BeatInit, PriceInit, VaultInit, TypeOK, NoFill, NoPipe
<1>2. TypeOK /\ [Next]_vars => TypeOK'
  <2> SUFFICES ASSUME TypeOK, [Next]_vars PROVE TypeOK'
    OBVIOUS
  <2>1. CASE UNCHANGED vars
    BY <2>1 DEF TypeOK, vars, beat, feed, locals, backfill, tracking
  <2>2. ASSUME NEW w \in Worker, Start(w) \/ Raise(w), UNCHANGED <<kind, feed, tracking>>
        PROVE TypeOK'
    BY <2>2, FrameTypes DEF TypeOK, feed, tracking
  <2>3. CASE (Expire \/ Settle) /\ UNCHANGED <<kind, feed, tracking>>
    BY <2>3, FrameTypes DEF TypeOK, feed, tracking
  <2>4. ASSUME NEW w \in Worker, EndRun(w), UNCHANGED <<kind, tracking>> PROVE TypeOK'
    BY <2>4, FrameTypes, NoneType DEF TypeOK, EndRun, backfill, tracking
  <2>5. ASSUME NEW a \in Asset, NewQuote(a) \/ CacheExpires(a), UNCHANGED <<kind, beat, tracking>>
        PROVE TypeOK'
    <3>1. CASE NewQuote(a)
      <4>1. quoted[a] + 1 \in Time
        BY <3>1, PriceAssumption DEF TypeOK, NewQuote
      <4> QED
        BY <2>5, <3>1, <4>1 DEF TypeOK, NewQuote, beat, locals, backfill, tracking
    <3>2. CASE CacheExpires(a)
      BY <2>5, <3>2, PriceAssumption DEF TypeOK, CacheExpires, beat, locals, backfill, tracking
    <3> QED
      BY <2>5, <3>1, <3>2
  <2>6. ASSUME NEW w \in Worker, EndRefresh(w), UNCHANGED <<kind, feed>> PROVE TypeOK'
    BY <2>6, FrameTypes DEF TypeOK, EndRefresh, feed, locals, backfill, table
  <2> QED
    BY <2>1, <2>2, <2>3, <2>4, <2>5, <2>6, RefreshTypes, BackfillTypes, MeasureTypes, TrackingTypes
       DEF Next, RefreshPrices, BackfillPrices, RefreshVaultMetrics, PriceNext, BackfillNext, VaultNext
<1> QED
  BY <1>1, <1>2, PTL DEF Spec

-----------------------------------------------------------------------------
(* One run at a time.  A start needs the key unset, so that there is no    *)
(* run; a delete is then the only run's own; an expiry waits for its end.  *)

LEMMA OneRunStep ==
  ASSUME TypeOK, OneRun, [Next]_vars PROVE OneRun'
<1> USE DEF OneRun, Running
<1>1. ASSUME Running' \subseteq Running, key' = key PROVE OneRun'
  BY <1>1
<1>2. ASSUME NEW w \in Worker, Start(w) PROVE OneRun'
  BY <1>2 DEF Start, KeyFree, Goto, TypeOK
<1>3. ASSUME NEW w \in Worker, Release(w) PROVE OneRun'
  <2>1. w \in Running /\ Running' = Running \ {w}
    BY <1>3 DEF Release, Goto, TypeOK
  <2> QED
    BY <2>1
<1>4. CASE Expire
  BY <1>4 DEF Expire, Expiring
<1>5. ASSUME NEW w \in Worker, Raise(w) \/ Crash(w) PROVE OneRun'
  BY <1>1, <1>5 DEF Raise, Crash, Goto, TypeOK
<1>6. ASSUME NEW w \in Worker, Refresh(w) PROVE OneRun'
  <2>1. Running' \subseteq Running /\ key' = key
    BY <1>6 DEF Refresh, LoadTracked, FetchBatch, AllFetched, CachePrices, PersistPrices,
                PublishUpdates, beat, Goto, TypeOK
  <2> QED
    BY <1>1, <2>1
<1>7. ASSUME NEW w \in Worker, Measure(w) PROVE OneRun'
  <2>1. Running' \subseteq Running /\ key' = key
    BY <1>7 DEF Measure, LoadVaults, RunAdapter, AfterAdapter, AllCollected, PersistMetrics,
                UpsertVaults, beat, Goto, TypeOK
  <2> QED
    BY <1>1, <2>1
<1>8. CASE UNCHANGED <<key, pc>>
  BY <1>1, <1>8
<1> QED
  BY <1>2, <1>3, <1>4, <1>5, <1>6, <1>7, <1>8
     DEF Next, RefreshPrices, BackfillPrices, RefreshVaultMetrics, PriceNext, BackfillNext,
         VaultNext, EndRun, EndRefresh, Settle, vars, beat
-----------------------------------------------------------------------------
(* Freshness.  A run that has an answer has one at least as new as any     *)
(* published before, because DeFiLlama's quotes do not go back and nobody  *)
(* else publishes meanwhile; what it has cached nobody replaces before it  *)
(* publishes.                                                              *)

FreshInv ==
  /\ OneRun
  /\ kind # "prices" => got = [w \in Worker |-> None]
  /\ \A a \in Asset : heard[a] <= quoted[a] /\ (cache[a] # 0 => cache[a] >= heard[a])
  /\ \A w \in Worker, a \in Asset :
       /\ got[w][a] <= quoted[a]
       /\ pc[w] \in {"fetch", "cache", "persist", "publish"} /\ got[w][a] # 0
            => got[w][a] >= heard[a]
       /\ pc[w] \in {"persist", "publish"} /\ got[w][a] # 0 /\ cache[a] # 0
            => cache[a] >= got[w][a]

LEMMA FreshRefresh ==
  ASSUME TypeOK, FreshInv, RunsFitTTL, OneRun', kind = "prices", UNCHANGED kind,
         NEW w \in Worker, Refresh(w)
  PROVE  FreshInv'
<1> USE DEF FreshInv
<1>1. ASSUME NEW S \in SUBSET Asset, LoadTracked(w, S) PROVE FreshInv'
  BY <1>1 DEF LoadTracked, Goto, TypeOK, None
<1>2. ASSUME NEW B \in SUBSET want[w], NEW ok \in BOOLEAN, FetchBatch(w, B, ok) PROVE FreshInv'
  <2>1. \A a \in Asset : got'[w][a] \in {got[w][a], quoted[a]}
    BY <1>2 DEF FetchBatch, Answer, TypeOK
  <2>2. \A v \in Worker \ {w} : got'[v] = got[v]
    BY <1>2 DEF FetchBatch, TypeOK
  <2>3. UNCHANGED <<pc, quoted, cache, heard>> /\ pc[w] = "fetch"
    BY <1>2 DEF FetchBatch, beat
  <2>4. \A v \in Worker, a \in Asset :
          /\ got'[v][a] <= quoted[a]
          /\ pc[v] \in {"fetch", "cache", "persist", "publish"} /\ got'[v][a] # 0
               => got'[v][a] >= heard[a]
    <3> TAKE v \in Worker, a \in Asset
    <3>1. quoted[a] \in Nat /\ quoted[a] <= quoted[a] /\ quoted[a] >= heard[a]
      BY PriceAssumption DEF TypeOK
    <3>2. CASE v = w
      BY <2>1, <3>1, <3>2
    <3>3. CASE v # w
      BY <2>2, <3>3
    <3> QED
      BY <3>2, <3>3
  <2>5. \A v \in Worker \ {w} : got'[v] = got[v]
    BY <2>2
  <2> QED
    BY <2>3, <2>4, <2>5
<1>3. CASE AllFetched(w)
  BY <1>3 DEF AllFetched, Goto, TypeOK, feed, locals
<1>4. ASSUME \A v \in Worker : pc[v] # "idle" => v = w, pc[w] # "idle",
             CachePrices(w) \/ PersistPrices(w) \/ PublishUpdates(w)
      PROVE FreshInv'
  <2>1. \A v \in Worker \ {w} : pc'[v] = "idle"
    BY <1>4 DEF CachePrices, PersistPrices, PublishUpdates, Goto, TypeOK
  <2>2. UNCHANGED <<quoted, got>>
    BY <1>4 DEF CachePrices, PersistPrices, PublishUpdates, locals
  <2>3. CASE CachePrices(w)
    BY <2>1, <2>2, <2>3 DEF CachePrices, Over, Goto, TypeOK
  <2>4. CASE PersistPrices(w)
    BY <2>1, <2>2, <2>4 DEF PersistPrices, Goto, TypeOK
  <2>5. CASE PublishUpdates(w)
    BY <2>1, <2>2, <2>5 DEF PublishUpdates, Over, Goto, TypeOK
  <2> QED
    BY <1>4, <2>3, <2>4, <2>5
<1> QED
  BY <1>1, <1>2, <1>3, <1>4 DEF Refresh, OneRun, Running, CachePrices, PersistPrices, PublishUpdates

\* With a key that outlives its run, the cache never falls behind the updates.
THEOREM CacheIsFresh == RunsFitTTL => (Spec => []CacheNotBehindUpdates)
<1> SUFFICES ASSUME RunsFitTTL PROVE Spec => []CacheNotBehindUpdates
  OBVIOUS
<1>1. Init => FreshInv
  BY PriceAssumption DEF Init, BeatInit, PriceInit, FreshInv, OneRun, Running, None
<1>2. TypeOK /\ FreshInv /\ [Next]_vars => FreshInv'
  <2> SUFFICES ASSUME TypeOK, FreshInv, [Next]_vars PROVE FreshInv'
    OBVIOUS
  <2>1. OneRun'
    BY OneRunStep DEF FreshInv
  <2>2. CASE UNCHANGED <<kind, pc, quoted, cache, heard, got>>
    BY <2>1, <2>2 DEF FreshInv
  <2>3. ASSUME NEW w \in Worker, Start(w) \/ Raise(w), UNCHANGED <<kind, feed>> PROVE FreshInv'
    BY <2>1, <2>3 DEF FreshInv, Start, Raise, Goto, TypeOK, feed, locals
  <2>4. ASSUME NEW w \in Worker, EndRun(w), kind = "prices", UNCHANGED kind PROVE FreshInv'
    BY <2>1, <2>4, PriceAssumption DEF FreshInv, EndRun, Release, Crash, Goto, TypeOK, None
  <2>5. ASSUME NEW a \in Asset, NewQuote(a) \/ CacheExpires(a), UNCHANGED <<kind, beat>>
        PROVE FreshInv'
    <3>1. CASE NewQuote(a)
      <4>1. \A b \in Asset : quoted'[b] >= quoted[b] /\ quoted[b] \in Nat /\ quoted'[b] \in Nat
        BY <3>1, PriceAssumption DEF NewQuote, TypeOK
      <4>2. \A b \in Asset : heard[b] \in Nat /\ \A w \in Worker : got[w][b] \in Nat
        BY PriceAssumption DEF TypeOK
      <4>3. UNCHANGED <<kind, pc, cache, heard, got>>
        BY <2>5, <3>1 DEF NewQuote, beat, locals
      <4> QED
        BY <2>1, <4>1, <4>2, <4>3 DEF FreshInv
    <3>2. CASE CacheExpires(a)
      BY <2>1, <2>5, <3>2 DEF FreshInv, CacheExpires, TypeOK, beat, locals
    <3> QED
      BY <2>5, <3>1, <3>2
  <2>6. CASE RefreshVaultMetrics
    <3>1. UNCHANGED <<kind, quoted, cache, heard, got>> /\ got = [w \in Worker |-> None]
      BY <2>6 DEF RefreshVaultMetrics, FreshInv, feed, locals
    <3> QED
      BY <2>1, <3>1 DEF FreshInv, TypeOK, None
  <2>7. CASE Backfill /\ UNCHANGED <<kind, beat>>
    BY <2>2, <2>7 DEF Backfill, StartBackfill, FetchHistorical, PersistBackfill, BuildLots,
                 BackfillRaises, beat, locals
  <2> QED
    BY <2>1, <2>2, <2>3, <2>4, <2>5, <2>6, <2>7, FreshRefresh
       DEF Next, RefreshPrices, BackfillPrices, PriceNext, BackfillNext, Expire, Settle, vars, beat,
           feed, locals
<1>3. FreshInv => CacheNotBehindUpdates
  BY DEF FreshInv, CacheNotBehindUpdates
<1> QED
  BY <1>1, <1>2, <1>3, MarketTypes, PTL DEF Spec
-----------------------------------------------------------------------------
(* The record.  Rows are only added, so that what a run or a backfill has  *)
(* stored before it tells anybody is there for good; no lock is involved.  *)

RecordInv ==
  /\ PricesAreOnRecord
  /\ fill.at = "build" => fill.has \subseteq history
  /\ \A w \in Worker : pc[w] = "publish" => Rows(got[w]) \subseteq history

LEMMA RecordRefresh ==
  ASSUME TypeOK, RecordInv, NEW w \in Worker, Refresh(w)
  PROVE  RecordInv'
<1> USE DEF RecordInv, PricesAreOnRecord
<1>1. ASSUME \E place \in {"release", "fetch", "cache", "persist"} : Goto(w, place),
             \A v \in Worker \ {w} : got'[v] = got[v],
             UNCHANGED <<history, heard, priced, fill>>
      PROVE  RecordInv'
  BY <1>1 DEF Goto, TypeOK, Rows
<1>2. ASSUME NEW S \in SUBSET Asset, LoadTracked(w, S) PROVE RecordInv'
  BY <1>1, <1>2 DEF LoadTracked, backfill, TypeOK
<1>3. ASSUME NEW B \in SUBSET want[w], NEW ok \in BOOLEAN, FetchBatch(w, B, ok) PROVE RecordInv'
  BY <1>3 DEF FetchBatch, beat, backfill, TypeOK, Rows
<1>4. CASE AllFetched(w) \/ CachePrices(w)
  BY <1>1, <1>4 DEF AllFetched, CachePrices, feed, locals, backfill
<1>5. CASE PersistPrices(w)
  <2>1. history \subseteq history' /\ Rows(got[w]) \subseteq history'
    BY <1>5 DEF PersistPrices
  <2>2. UNCHANGED <<heard, got, priced, fill>> /\ \A v \in Worker \ {w} : pc'[v] = pc[v]
    BY <1>5 DEF PersistPrices, locals, backfill, Goto, TypeOK
  <2> QED
    BY <2>1, <2>2 DEF Rows
<1>6. CASE PublishUpdates(w)
  <2>1. \A a \in Asset : heard'[a] # 0 => <<a, heard'[a]>> \in history
    <3> SUFFICES ASSUME NEW a \in Asset, heard'[a] # 0 PROVE <<a, heard'[a]>> \in history
      OBVIOUS
    <3>1. CASE got[w][a] = 0
      BY <1>6, <3>1 DEF PublishUpdates, Over
    <3>2. CASE got[w][a] # 0
      <4>1. heard'[a] = got[w][a] /\ got[w][a] \in 1 .. MaxTime
        BY <1>6, <3>2, PriceAssumption DEF PublishUpdates, Over, TypeOK
      <4>2. <<a, got[w][a]>> \in Rows(got[w])
        BY <4>1 DEF Rows
      <4> QED
        BY <1>6, <4>1, <4>2 DEF PublishUpdates
    <3> QED
      BY <3>1, <3>2
  <2>2. UNCHANGED <<history, got, priced, fill>> /\ \A v \in Worker : pc'[v] = "publish" => pc[v] = "publish"
    BY <1>6 DEF PublishUpdates, locals, backfill, Goto, TypeOK
  <2> QED
    BY <2>1, <2>2 DEF Rows
<1> QED
  BY <1>2, <1>3, <1>4, <1>5, <1>6 DEF Refresh

LEMMA RecordBackfill ==
  ASSUME TypeOK, RecordInv, Backfill, UNCHANGED beat
  PROVE  RecordInv'
<1> USE DEF RecordInv, PricesAreOnRecord, beat, locals, Rows
<1>1. CASE UNCHANGED <<history, heard, got, priced>> /\ fill'.at # "build"
  BY <1>1
<1>2. ASSUME NEW S \in SUBSET Past, StartBackfill(S) PROVE RecordInv'
  BY <1>1, <1>2 DEF StartBackfill
<1>3. ASSUME NEW t \in 1 .. MaxTime, NEW B \in SUBSET fill.ask, NEW A \in SUBSET B,
             FetchHistorical(t, B, A)
      PROVE RecordInv'
  <2>1. fill'.at = "fetch"
    BY <1>3 DEF FetchHistorical, TypeOK
  <2> QED
    BY <1>1, <1>3, <2>1 DEF FetchHistorical
<1>4. CASE PersistBackfill
  <2>1. fill'.has = fill.has
    BY <1>4 DEF PersistBackfill, TypeOK
  <2> QED
    BY <1>4, <2>1 DEF PersistBackfill
<1>5. CASE BuildLots
  BY <1>5 DEF BuildLots, NoFill
<1>6. CASE BackfillRaises
  BY <1>1, <1>6 DEF BackfillRaises, NoFill
<1> QED
  BY <1>2, <1>3, <1>4, <1>5, <1>6 DEF Backfill

\* Every published price and every price of a lot is a row of price_history,
\* whatever is cut off where, and whether or not keys keep runs apart.
THEOREM PricesRecorded == Spec => []PricesAreOnRecord
<1>1. Init => RecordInv
  BY DEF Init, BeatInit, PriceInit, RecordInv, PricesAreOnRecord, NoFill, None
<1>2. TypeOK /\ RecordInv /\ [Next]_vars => RecordInv'
  <2> SUFFICES ASSUME TypeOK, RecordInv, [Next]_vars PROVE RecordInv'
    OBVIOUS
  <2> USE DEF RecordInv, PricesAreOnRecord, Rows
  <2>1. CASE UNCHANGED <<history, heard, priced, fill, got, pc>>
    BY <2>1
  <2>2. ASSUME NEW w \in Worker, Start(w) \/ Raise(w), UNCHANGED feed PROVE RecordInv'
    <3>1. \A v \in Worker : pc'[v] = "publish" => pc[v] = "publish"
      BY <2>2 DEF Start, Raise, Goto, TypeOK
    <3> QED
      BY <2>2, <3>1 DEF feed, locals, backfill
  <2>3. ASSUME NEW w \in Worker, EndRun(w) PROVE RecordInv'
    BY <2>3 DEF EndRun, Release, Crash, Goto, TypeOK, backfill
  <2>4. ASSUME NEW w \in Worker, EndRefresh(w), UNCHANGED feed PROVE RecordInv'
    BY <2>4 DEF EndRefresh, Release, Crash, Goto, TypeOK, feed, locals, backfill
  <2>5. ASSUME NEW w \in Worker, Measure(w), UNCHANGED feed PROVE RecordInv'
    <3>1. \A v \in Worker : pc'[v] = "publish" => pc[v] = "publish"
      BY <2>5 DEF Measure, LoadVaults, RunAdapter, AfterAdapter, AllCollected, PersistMetrics,
                  UpsertVaults, Goto, TypeOK, beat
    <3> QED
      BY <2>5, <3>1 DEF feed, locals, backfill
  <2>6. ASSUME NEW a \in Asset, NewQuote(a) \/ CacheExpires(a), UNCHANGED beat PROVE RecordInv'
    BY <2>1, <2>6 DEF NewQuote, CacheExpires, beat, locals, backfill
  <2> QED
    BY <2>1, <2>2, <2>3, <2>4, <2>5, <2>6, RecordRefresh, RecordBackfill
       DEF Next, RefreshPrices, BackfillPrices, RefreshVaultMetrics, PriceNext, BackfillNext,
           VaultNext, Expire, Settle, vars, beat, feed, locals, backfill
<1>3. RecordInv => PricesAreOnRecord
  BY DEF RecordInv
<1> QED
  BY <1>1, <1>2, <1>3, MarketTypes, PTL DEF Spec
-----------------------------------------------------------------------------
\* A run that still has a switched-off vault on its list does not bring it
\* back; only the discovery of a reconstruction does.
THEOREM OffStaysOff == Spec => SwitchedOffStaysOff
<1> DEFINE Back == \A v \in Vault : row[v] = "off" /\ row'[v] = "on" =>
                     pipe.at = "discover" /\ v \in pipe.found
<1>1. TypeOK /\ [Next]_vars => [Back]_row
  <2> SUFFICES ASSUME TypeOK, [Next]_vars, row' # row PROVE Back
    OBVIOUS
  <2>1. CASE DiscoverVaults
    BY <2>1 DEF DiscoverVaults
  <2>2. CASE Detrack
    BY <2>2 DEF Detrack
  <2>3. ASSUME NEW v \in Vault, Register(v) \/ SwitchOff(v) PROVE Back
    BY <2>3 DEF Register, SwitchOff, TypeOK
  <2>4. ASSUME NEW v \in Vault, ClosePosition(v) \/ MetricsAge(v) PROVE FALSE
    BY <2>4 DEF ClosePosition, MetricsAge, table
  <2>5. ASSUME NEW w \in Worker, Measure(w) \/ EndRefresh(w) PROVE FALSE
    BY <2>5 DEF Measure, EndRefresh, LoadVaults, RunAdapter, AllCollected, PersistMetrics,
                UpsertVaults, Upserted, tracking, table
  <2> QED
    BY <2>1, <2>2, <2>3, <2>4, <2>5
       DEF Next, RefreshPrices, BackfillPrices, RefreshVaultMetrics, VaultNext, Discovery,
           Lifecycle, ScanFinds, StorePositions, PipelineRaises, vars, tracking, table
<1> QED
  BY <1>1, MarketTypes, PTL DEF Spec, SwitchedOffStaysOff
=============================================================================
