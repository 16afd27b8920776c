----------------------------- MODULE PriceFeed -----------------------------
(***************************************************************************)
(* Prices: refresh_prices, which caches, stores and publishes DeFiLlama's  *)
(* current quotes, and backfill_prices, which stores the historical quotes *)
(* a reconstruction or a sync gives to its lots.  A price is known by its  *)
(* asset and its time; 0 is no price.                                      *)
(***************************************************************************)
EXTENDS BeatTask

CONSTANTS
  Asset,
  Held,     \* assets of positions that stay active; others come and go
  Batch,    \* MAX_COINS_PER_REQUEST
  MaxTime,  \* bounds the times of quotes
  Past      \* bounds the prices that events ask for

ASSUME PriceAssumption ==
  /\ Held \subseteq Asset
  /\ Batch \in Nat \ {0}
  /\ MaxTime \in Nat
  /\ Past \subseteq Asset \X (1 .. MaxTime)

Time  == 0 .. MaxTime
Quote == Asset \X (1 .. MaxTime)

VARIABLES
  quoted,   \* time of DeFiLlama's newest quote of each asset
  cache,    \* Redis: time of the price under price:current:<chain>:<address>
  history,  \* rows of price_history
  heard,    \* time of the price last published on price_updates
  want,     \* per worker: the assets not asked for yet
  got,      \* per worker: the times of the prices answered
  fill,     \* the backfill under way: place, quotes to ask for, prices it has
  priced    \* lots with a price

feed     == <<quoted, cache, history, heard, want, got, fill, priced>>
locals   == <<want, got>>
backfill == <<fill, priced>>

None   == [a \in Asset |-> 0]
NoFill == [at |-> "idle", ask |-> {}, has |-> {}]

PriceInit ==
  /\ quoted = None /\ cache = None /\ history = {} /\ heard = None
  /\ want = [w \in Worker |-> {}] /\ got = [w \in Worker |-> None]
  /\ fill = NoFill /\ priced = {}

\* The prices of new, and those of old for the assets that new leaves out.
Over(old, new) == [a \in Asset |-> IF new[a] # 0 THEN new[a] ELSE old[a]]

\* Faulty: a row for every asset, answered or not.
RowsOfAll(prices) == {<<a, prices[a]>> : a \in Asset}

\* The rows that an upsert of prices leaves behind.
Rows(prices) == {q \in Quote : q[2] = prices[q[1]]}

\* The slices of a list of unknown order, all of one length but the last.
Slices(S) == {B \in SUBSET S :
  B # {} /\ (Cardinality(B) = Batch \/ (B = S /\ Cardinality(B) < Batch))}
-----------------------------------------------------------------------------
(* The world: DeFiLlama quotes anew; a cached price expires or is evicted. *)

NewQuote(a) ==
  /\ quoted[a] < MaxTime
  /\ quoted' = [quoted EXCEPT ![a] = @ + 1]
  /\ UNCHANGED <<cache, history, heard, locals, backfill>>

CacheExpires(a) ==
  /\ cache[a] # 0
  /\ cache' = [cache EXCEPT ![a] = 0]
  /\ UNCHANGED <<quoted, history, heard, locals, backfill>>
-----------------------------------------------------------------------------
(* refresh_prices                                                          *)

LoadTracked(w, S) ==
  /\ pc[w] = "load"
  /\ Goto(w, IF S = {} THEN "release" ELSE "fetch")
  /\ want' = [want EXCEPT ![w] = S]
  /\ got' = [got EXCEPT ![w] = None]
  /\ UNCHANGED <<key, quiet, quoted, cache, history, heard, backfill>>

\* A batch that DeFiLlama fails to answer is passed over.
Answer(w, B, ok) ==
  IF ok THEN [a \in Asset |-> IF a \in B THEN quoted[a] ELSE got[w][a]] ELSE got[w]

FetchBatch(w, B, ok) ==
  /\ pc[w] = "fetch" /\ want[w] # {}
  /\ B \in Slices(want[w])
  /\ ok \/ ~quiet
  /\ want' = [want EXCEPT ![w] = @ \ B]
  /\ got' = [got EXCEPT ![w] = Answer(w, B, ok)]
  /\ UNCHANGED <<beat, quoted, cache, history, heard, backfill>>

AllFetched(w) ==
  /\ pc[w] = "fetch" /\ want[w] = {}
  /\ Goto(w, IF got[w] = None THEN "release" ELSE "cache")
  /\ UNCHANGED <<key, quiet, feed>>

\* Faulty: subscribers are told before the prices are stored.
CacheAndPublish(w) ==
  /\ pc[w] = "cache"
  /\ cache' = Over(cache, got[w])
  /\ heard' = Over(heard, got[w])
  /\ Goto(w, "persist")
  /\ UNCHANGED <<key, quiet, quoted, history, locals, backfill>>

CachePrices(w) ==
  /\ pc[w] = "cache"
  /\ cache' = Over(cache, got[w])
  /\ Goto(w, "persist")
  /\ UNCHANGED <<key, quiet, quoted, history, heard, locals, backfill>>

PersistPrices(w) ==
  /\ pc[w] = "persist"
  /\ history' = history \cup Rows(got[w])
  /\ Goto(w, "publish")
  /\ UNCHANGED <<key, quiet, quoted, cache, heard, locals, backfill>>

PublishUpdates(w) ==
  /\ pc[w] = "publish"
  /\ heard' = Over(heard, got[w])
  /\ Goto(w, "release")
  /\ UNCHANGED <<key, quiet, quoted, cache, history, locals, backfill>>

\* Leaving a run, by whichever way, forgets its locals.
EndRun(w) ==
  /\ Release(w) \/ Crash(w)
  /\ want' = [want EXCEPT ![w] = {}]
  /\ got' = [got EXCEPT ![w] = None]
  /\ UNCHANGED <<quoted, cache, history, heard, backfill>>

Refresh(w) ==
  \/ \E S \in SUBSET Asset : Held \subseteq S /\ LoadTracked(w, S)
  \/ \E B \in SUBSET want[w], ok \in BOOLEAN : FetchBatch(w, B, ok)
  \/ AllFetched(w)
  \/ CachePrices(w)
  \/ PersistPrices(w)
  \/ PublishUpdates(w)
-----------------------------------------------------------------------------
(* backfill_prices, called between a scan and create_lots                  *)

\* The events of a scan, by asset and second; history is asked for the past.
StartBackfill(S) ==
  /\ fill.at = "idle" /\ S # {}
  /\ fill' = [at |-> "fetch", ask |-> S, has |-> {}]
  /\ UNCHANGED <<quoted, cache, history, heard, locals, priced>>

\* One request: one second, a slice of its coins, the prices A that come back.
FetchHistorical(t, B, A) ==
  /\ fill.at = "fetch"
  /\ B \in Slices({q \in fill.ask : q[2] = t})
  /\ A \subseteq B
  /\ fill' = [fill EXCEPT !.ask = @ \ B, !.has = @ \cup A]
  /\ UNCHANGED <<quoted, cache, history, heard, locals, priced>>

PersistBackfill ==
  /\ fill.at = "fetch" /\ fill.ask = {}
  /\ history' = history \cup fill.has
  /\ fill' = [fill EXCEPT !.at = "build"]
  /\ UNCHANGED <<quoted, cache, heard, locals, priced>>

\* The enriched events become lots; those without an answer have no price.
BuildLots ==
  /\ fill.at = "build"
  /\ priced' = priced \cup fill.has
  /\ fill' = NoFill
  /\ UNCHANGED <<quoted, cache, history, heard, locals>>

BackfillRaises ==
  /\ ~quiet /\ fill.at # "idle"
  /\ fill' = NoFill
  /\ UNCHANGED <<quoted, cache, history, heard, locals, priced>>

Backfill ==
  \/ \E S \in SUBSET Past : StartBackfill(S)
  \/ \E t \in 1 .. MaxTime, B \in SUBSET fill.ask :
       \E A \in SUBSET B : FetchHistorical(t, B, A)
  \/ PersistBackfill
  \/ BuildLots
  \/ BackfillRaises
-----------------------------------------------------------------------------
PriceNext ==
  \/ \E w \in Worker : (Start(w) \/ Raise(w)) /\ UNCHANGED feed
  \/ (Expire \/ Settle) /\ UNCHANGED feed
  \/ \E w \in Worker : EndRun(w) \/ Refresh(w)
  \/ \E a \in Asset : (NewQuote(a) \/ CacheExpires(a)) /\ UNCHANGED beat

BackfillNext == Backfill /\ UNCHANGED beat
=============================================================================
