--------------------------- MODULE VaultTracking ---------------------------
(***************************************************************************)
(* Which vaults are tracked and measured: discovery from a wallet's events, *)
(* the 5-minute refresh_vault_metrics over the adapters of each protocol   *)
(* and chain, and the daily detracking of vaults without value.            *)
(***************************************************************************)
EXTENDS BeatTask

CONSTANTS
  Vault,
  ChainOf,     \* the chain of each vault
  Market,      \* the ones that are Morpho Blue markets, known by no address
  Served,      \* the ones that Morpho's API lists
  Odd,         \* the ones whose figures VaultMetricsData refuses
  EventLabel   \* the protocol that the events of each vault are labelled with

\* The adapters that the registry knows, and the one that is implemented; the
\* label erc4626 stands for every label without an adapter.
Morpho     == "morpho"
Registered == {Morpho, "aave_v3", "euler", "pendle"}
Label      == Registered \cup {"erc4626"}

ASSUME VaultAssumption ==
  /\ Market \subseteq Vault /\ Served \subseteq Vault /\ Odd \subseteq Served
  /\ EventLabel \in [Vault -> Label]

VARIABLES
  row,         \* vaults: no row, or is_tracked
  label,       \* vaults.protocol, where there is a row
  seen,        \* vault_metrics: never, only zero TVL in 7 days, or more than that
  active,      \* vaults of active positions
  pipe,        \* a wallet's pipeline: place, and the vaults its events name
  asked,       \* per worker: the vaults to ask for, with the label they had
  metrics      \* per worker: the vaults that all_metrics holds

tracking == <<row, label, seen, active, pipe, asked, metrics>>
table    == <<row, label, seen>>
run      == <<asked, metrics>>

NoPipe == [at |-> "idle", found |-> {}]

VaultInit ==
  /\ row = [v \in Vault |-> "absent"]
  /\ label = EventLabel
  /\ seen = [v \in Vault |-> "never"]
  /\ active = {} /\ pipe = NoPipe
  /\ asked = [w \in Worker |-> {}] /\ metrics = [w \in Worker |-> {}]
-----------------------------------------------------------------------------
(* The pipeline: the events of a wallet, then its positions                *)

\* A reconstruction discovers the vaults of its events; a sync does not.
ScanFinds(F, reconstruction) ==
  /\ pipe.at = "idle" /\ F # {} /\ F \subseteq Vault \ Market
  /\ pipe' = [at |-> IF reconstruction THEN "discover" ELSE "store", found |-> F]
  /\ UNCHANGED <<table, active, run>>

DiscoverVaults ==
  /\ pipe.at = "discover"
  /\ row' = [v \in Vault |-> IF v \in pipe.found THEN "on" ELSE row[v]]
  /\ label' = [v \in Vault |-> IF v \in pipe.found THEN EventLabel[v] ELSE label[v]]
  /\ pipe' = [pipe EXCEPT !.at = "store"]
  /\ UNCHANGED <<seen, active, run>>

StorePositions ==
  /\ pipe.at = "store"
  /\ active' = active \cup pipe.found
  /\ pipe' = NoPipe
  /\ UNCHANGED <<table, run>>

PipelineRaises ==
  /\ ~quiet /\ pipe.at # "idle"
  /\ pipe' = NoPipe
  /\ UNCHANGED <<table, active, run>>

ClosePosition(v) ==
  /\ v \in active
  /\ active' = active \ {v}
  /\ UNCHANGED <<table, pipe, run>>
-----------------------------------------------------------------------------
(* The life of a row                                                       *)

Stale(v) == row[v] = "on" /\ v \notin active /\ seen[v] = "zero"

\* One UPDATE for all: no active position, metrics, none above zero in 7 days.
Detrack ==
  /\ \E v \in Vault : Stale(v)
  /\ row' = [v \in Vault |-> IF Stale(v) THEN "off" ELSE row[v]]
  /\ UNCHANGED <<label, seen, active, pipe, run>>

\* Seven days without a metric above zero.
MetricsAge(v) ==
  /\ seen[v] = "positive"
  /\ seen' = [seen EXCEPT ![v] = "zero"]
  /\ UNCHANGED <<row, label, active, pipe, run>>

\* An administrator keeps the table by hand too: a row with the label of the
\* vault's adapter, or the switch.
Register(v) ==
  /\ row[v] = "absent" /\ v \in Served
  /\ row' = [row EXCEPT ![v] = "on"]
  /\ label' = [label EXCEPT ![v] = Morpho]
  /\ UNCHANGED <<seen, active, pipe, run>>

SwitchOff(v) ==
  /\ row[v] = "on"
  /\ row' = [row EXCEPT ![v] = "off"]
  /\ UNCHANGED <<label, seen, active, pipe, run>>
-----------------------------------------------------------------------------
(* refresh_vault_metrics                                                   *)

LoadVaults(w) ==
  /\ pc[w] = "load"
  /\ asked' = [asked EXCEPT ![w] = {<<label[v], v>> : v \in {u \in Vault : row[u] = "on"}}]
  /\ metrics' = [metrics EXCEPT ![w] = {}]
  /\ Goto(w, IF asked'[w] = {} THEN "release" ELSE "adapters")
  /\ UNCHANGED <<key, quiet, table, active, pipe>>

Group(w, p, c) == {x \in asked[w] : x[1] = p /\ ChainOf[x[2]] = c}

\* What the adapter of a group reports when Morpho answers its queries about
\* vaults, about markets, or both; the adapters of the others report nothing.
Reported(w, p, c, answered) ==
  {x[2] : x \in {y \in Group(w, p, c) :
     p = Morpho /\ y[2] \in Served /\ (IF y[2] \in Market THEN "markets" ELSE "vaults") \in answered}}

\* Faulty: the exception of one adapter ends the run.
AfterAdapterRaises(w, reported) ==
  IF reported \cap Odd = {}
  THEN metrics' = [metrics EXCEPT ![w] = @ \cup reported] /\ UNCHANGED beat
  ELSE Goto(w, "release") /\ UNCHANGED <<metrics, key, quiet>>

\* An adapter that raises costs the run its own group and nothing else.
AfterAdapter(w, reported) ==
  /\ metrics' = [metrics EXCEPT ![w] = @ \cup (IF reported \cap Odd = {} THEN reported ELSE {})]
  /\ UNCHANGED beat

\* The threads end in any order.  A label without an adapter is passed over.
RunAdapter(w, p, c, answered) ==
  /\ pc[w] = "adapters" /\ Group(w, p, c) # {}
  /\ answered = {"vaults", "markets"} \/ ~quiet
  /\ asked' = [asked EXCEPT ![w] = @ \ Group(w, p, c)]
  /\ AfterAdapter(w, Reported(w, p, c, answered))
  /\ UNCHANGED <<table, active, pipe>>

AllCollected(w) ==
  /\ pc[w] = "adapters" /\ asked[w] = {}
  /\ Goto(w, IF metrics[w] = {} THEN "release" ELSE "persist")
  /\ UNCHANGED <<key, quiet, tracking>>

\* The rows of all adapters in one transaction; Z had no value when asked.
PersistMetrics(w, Z) ==
  /\ pc[w] = "persist"
  /\ seen' = [v \in Vault |->
       IF v \in metrics[w] \ Z THEN "positive"
       ELSE IF v \in metrics[w] /\ seen[v] = "never" THEN "zero" ELSE seen[v]]
  /\ Goto(w, "upsert")
  /\ UNCHANGED <<key, quiet, row, label, active, pipe, run>>

\* Faulty: SET is_tracked = EXCLUDED.is_tracked.
UpsertedOn(old, found) == [v \in Vault |-> IF v \in found THEN "on" ELSE old[v]]

\* ON CONFLICT: the row keeps is_tracked, and is the adapter's again.  No row
\* is ever deleted, so that the vaults of a run all have one.
Upserted(old, found) == old
UpsertVaults(w) ==
  /\ pc[w] = "upsert"
  /\ row' = Upserted(row, metrics[w])
  /\ label' = [v \in Vault |-> IF v \in metrics[w] THEN Morpho ELSE label[v]]
  /\ Goto(w, "release")
  /\ UNCHANGED <<key, quiet, seen, active, pipe, run>>

EndRefresh(w) ==
  /\ Release(w) \/ Crash(w)
  /\ asked' = [asked EXCEPT ![w] = {}]
  /\ metrics' = [metrics EXCEPT ![w] = {}]
  /\ UNCHANGED <<table, active, pipe>>

Measure(w) ==
  \/ LoadVaults(w)
  \/ \E p \in Label, v \in Vault, answered \in SUBSET {"vaults", "markets"} :
       RunAdapter(w, p, ChainOf[v], answered)
  \/ AllCollected(w)
  \/ \E Z \in SUBSET metrics[w] : PersistMetrics(w, Z)
  \/ UpsertVaults(w)
-----------------------------------------------------------------------------
Discovery ==
  \/ \E F \in SUBSET Vault, reconstruction \in BOOLEAN : ScanFinds(F, reconstruction)
  \/ DiscoverVaults
  \/ StorePositions
  \/ PipelineRaises

Lifecycle ==
  \/ Detrack
  \/ \E v \in Vault : ClosePosition(v) \/ MetricsAge(v) \/ Register(v) \/ SwitchOff(v)

VaultNext ==
  \/ \E w \in Worker : (Start(w) \/ Raise(w)) /\ UNCHANGED tracking
  \/ (Expire \/ Settle) /\ UNCHANGED tracking
  \/ \E w \in Worker : EndRefresh(w) \/ Measure(w)
  \/ (Discovery \/ Lifecycle) /\ UNCHANGED beat
=============================================================================
