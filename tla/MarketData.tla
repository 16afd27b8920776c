----------------------------- MODULE MarketData -----------------------------
(***************************************************************************)
(* What fetches market data: prices every 30 seconds, vault metrics every  *)
(* 5 minutes, each with its own key, and the backfill of a pipeline.  They *)
(* share nothing but price_history, to which the first and the last only   *)
(* add: a behaviour is about one of them.                                  *)
(***************************************************************************)
EXTENDS PriceFeed, VaultTracking

CONSTANT Kinds  \* what a behaviour may be about

ASSUME KindsAssumption == Kinds \subseteq {"prices", "backfill", "vaults"}

VARIABLE kind

vars == <<kind, beat, feed, tracking>>

Init == kind \in Kinds /\ BeatInit /\ PriceInit /\ VaultInit

RefreshPrices       == kind = "prices" /\ PriceNext /\ UNCHANGED <<kind, tracking>>
BackfillPrices      == kind = "backfill" /\ BackfillNext /\ UNCHANGED <<kind, tracking>>
RefreshVaultMetrics == kind = "vaults" /\ VaultNext /\ UNCHANGED <<kind, feed>>

Next == RefreshPrices \/ BackfillPrices \/ RefreshVaultMetrics

Spec == Init /\ [][Next]_vars

\* Beat sends each task for ever, a worker goes on with the run it has, and a
\* key left behind expires.  Nothing else has to happen.
StartsAgain    == (\E w \in Worker : Start(w)) /\ UNCHANGED <<kind, feed, tracking>>
KeyExpires     == Expire /\ UNCHANGED <<kind, feed, tracking>>
PriceRun(w)    == kind = "prices" /\ (EndRun(w) \/ Refresh(w)) /\ UNCHANGED <<kind, tracking>>
VaultRun(w)    == kind = "vaults" /\ (EndRefresh(w) \/ Measure(w)) /\ UNCHANGED <<kind, feed>>

Fairness ==
  /\ WF_vars(StartsAgain)
  /\ WF_vars(KeyExpires)
  /\ \A w \in Worker : WF_vars(PriceRun(w) \/ VaultRun(w))

FairSpec == Spec /\ Fairness
-----------------------------------------------------------------------------
\* Type invariant.
TypeOK ==
  /\ kind \in {"prices", "backfill", "vaults"}
  /\ key \in BOOLEAN /\ quiet \in BOOLEAN
  /\ pc \in [Worker -> {"idle", "load", "fetch", "cache", "persist", "publish",
                        "adapters", "upsert", "release"}]
  /\ quoted \in [Asset -> Time] /\ cache \in [Asset -> Time] /\ heard \in [Asset -> Time]
  /\ history \subseteq Quote /\ priced \subseteq Quote
  /\ want \in [Worker -> SUBSET Asset] /\ got \in [Worker -> [Asset -> Time]]
  /\ fill \in [at : {"idle", "fetch", "build"}, ask : SUBSET Quote, has : SUBSET Quote]
  /\ row \in [Vault -> {"absent", "on", "off"}]
  /\ label \in [Vault -> Label]
  /\ seen \in [Vault -> {"never", "zero", "positive"}]
  /\ active \subseteq Vault
  /\ pipe \in [at : {"idle", "discover", "store"}, found : SUBSET Vault]
  /\ asked \in [Worker -> SUBSET (Label \X Vault)]
  /\ metrics \in [Worker -> SUBSET Vault]

\* A cached price may be missing but is never older than the last one that
\* subscribers of price_updates were told: refresh_prices caches before it
\* publishes, and its key keeps a slow run from caching over a later one.
CacheNotBehindUpdates == \A a \in Asset : cache[a] # 0 => cache[a] >= heard[a]

\* A price that subscribers were told, or that a lot was given, is a row of
\* price_history, wherever a run or a backfill was cut off.
PricesAreOnRecord ==
  /\ \A a \in Asset : heard[a] # 0 => <<a, heard[a]>> \in history
  /\ priced \subseteq history

\* Once steps stop failing, the price of a held asset that DeFiLlama quotes
\* is cached again, whatever failed runs and dead workers left behind.
PricesComeBack == \A a \in Held : quiet /\ quoted[a] # 0 ~> cache[a] # 0

\* A vault that was switched off comes back only by an event of a wallet that
\* is being reconstructed: a run that still has it on its list and the upsert
\* of its metrics do not bring it back.
SwitchedOffStaysOff ==
  [][\A v \in Vault : row[v] = "off" /\ row'[v] = "on" =>
       pipe.at = "discover" /\ v \in pipe.found]_row

\* Once steps stop failing, a tracked vault that Morpho lists under its label
\* is measured, although the adapter of another chain raises in every run.
ServedVaultIsMeasured ==
  \A v \in {u \in Served : \A o \in Odd : ChainOf[o] # ChainOf[u]} :
    quiet /\ row[v] = "on" /\ label[v] = Morpho
      ~> seen[v] # "never" \/ row[v] # "on" \/ label[v] # Morpho

\* The lifecycle of is_tracked as vault_discovery.py describes it: while it is
\* true, the vault is measured.
TrackedIsMeasured ==
  \A v \in Served : quiet /\ row[v] = "on" ~> seen[v] # "never" \/ row[v] # "on"
=============================================================================
