# Verification of Vault-Monitoring

A TLA+ model of the parts of Vault-Monitoring that keep state: which events of a
wallet reach the ledger and when, what the ledger's lots add up to, which prices
and vault metrics are kept, and who may use the service. TLC checks the modules
on small instances; TLAPS proves the main safety results for every instance.

Paths are relative to the repository root. `workers/` holds the Celery tasks,
`backend/app/` the FastAPI service, `backend/alembic/` the schema.

## 1. The system

| Component | Source | State it keeps | Operations that change it |
|---|---|---|---|
| Wallet API and service | `backend/app/api/wallets.py`, `services/wallet.py` | `wallets` rows: `is_active`, `sync_status`, `last_synced_block` | create (new, or a deleted one reactivated), PATCH, DELETE |
| Request transaction | `backend/app/database.py` | one transaction per request | commit after the handler, rollback when it raises |
| Reconstruction task | `workers/tasks/reconstruction.py` | Redis key `lock:reconstruction:<id>`, the wallet row, the Celery message | skip, start, load, mark, pipeline, finalise, error and retry, release |
| Periodic sync task | `workers/tasks/positions.py` | Redis key `lock:sync_new_events`, wallet rows | skip, start, list, per wallet the pipeline and the stamp, release |
| Event scanner and chain clients | `workers/services/event_scanner.py`, `backend/app/services/hypersync_client.py`, `helius_client.py` | none between scans; cursors and what has been read during one | EVM scan by block pages, Solana scan by signature pages |
| Lot builder | `workers/services/lot_builder.py` | `transaction_lots` rows | one row per event |
| Position computer | `workers/services/position_computer.py` | `positions`, and `remaining_amount`, `position_id` of lots | read, FIFO/WAC loop, upsert, update and link |
| Broker and Beat | `workers/celeryconfig.py`, `celery_app.py` | messages in Redis | deliver, redeliver, acknowledge, schedule |
| Accounts | `backend/app/services/auth.py`, `admin.py`, `account_deletion.py`, `dependencies.py`, migration 003 | `profiles`, Supabase logins, Redis set `pending_auth_deletions` | create on first sight, first-user trigger, approve, reject, delete |
| Account cleanup | `workers/tasks/account_cleanup.py` | the same set and logins | retry each member |
| Prices | `workers/tasks/prices.py`, `backend/app/services/prices.py` | Redis keys `price:current:*`, `lock:refresh_prices`, channel `price_updates`, `price_history` | fetch, cache, upsert, publish |
| Price backfill | `workers/services/price_backfill.py` | `price_history`, prices of the events that become lots | fetch, upsert, enrich |
| Vault discovery, metrics, adapters | `workers/services/vault_discovery.py`, `workers/tasks/vault_metrics.py`, `backend/app/adapters/` | `vaults`, `vault_metrics`, `lock:refresh_vault_metrics` | discover, measure, upsert, detrack |
| Notifications, frontend, placeholders | `services/notifications.py`, `frontend/`, `workers/tasks/risk.py` and others | none the rest depends on | - |

### How they interact

`POST /wallets` flushes an INSERT (or the UPDATE that reactivates a row), sends
the Celery message, and only when the handler has returned does `get_db`
commit. A worker takes the message, claims the wallet's Redis key, and drives
the pipeline: scan the chain from the checkpoint, insert lots, recompute
positions, stamp the checkpoint. Beat starts `sync_new_events` every 15 minutes;
it claims one key for all wallets, reads the synced rows once, and drives the
same pipeline for each. A scan pages through a service that indexes the chain while
both go on. Reconstruction and sync share tables but no lock: only
`sync_status` keeps them off each other's wallets.

`compute_positions` reads in one transaction and writes in another, by address
and not by wallet, and updates only the lots it drew on.

Beat sends `refresh_prices` every 30 s and `refresh_vault_metrics` every 5 minutes.
Each takes a Redis key, reads its list from the database (assets of active
positions, tracked vaults), asks DeFiLlama or the adapters, and writes. A
pipeline adds to `price_history` too, and a reconstruction to `vaults`: what a
refresh has read is old by the time it writes.

Every authenticated request reads its caller's profile and creates it when it
is missing, in the transaction of the request itself. Deletion calls Supabase
inside that transaction, before its commit, and leaves failures to the hourly
cleanup through a Redis set.

### What is hard

* **Interleaving**: API requests, worker slots, Beat, and two lock domains over one table.
* **Ordering**: a message that overtakes its commit; a call to Supabase before its commit.
* **Crash and redelivery**: `acks_late`, a visibility timeout, locks that outlive or are outlived by their run, unconditional deletes of keys.
* **Staleness**: checkpoints read once per sync run; a list of vaults read minutes before its upsert; lots read in one transaction and used in the next; ORM updates of the columns that changed.
* **Paging**: a cursor over a chain that grows, answered by instances that lag; a cap on pages; a page that is exactly full.
* **Partial failure**: a run cut off between the cache, the table and the channel; one adapter that raises among many; a batch without an answer.
* **Boundaries**: a scan of an empty range; an overdraft; two lots of one block.
* **Retries**: of tasks whose inserts are not idempotent, of calls whose answer was lost.

`PROJECT.json` lists each of these at its line, with the property that covers it
or the reason why none does.

## 2. Modules

| Module | Models | Checked by | Proved in |
|---|---|---|---|
| `WalletIngestion` | wallet requests, broker, both tasks, locks, checkpoints, ledger | `MCWalletIngestion` | `WalletIngestionProofs`, `CalmIngestionProofs` |
| `EventLedger` | abstract: a ledger complete up to each checkpoint | through `ImplementsLedger` | same |
| `EvmScan`, `SolanaScan` | one scan of one wallet, request by request | the next | `EventScanProofs` |
| `EventScan` | `scan_events`: the scanner of the wallet's chain | `MCEventScan` | same |
| `AtomicScan` | abstract: the wallet's events as they were at one instant | through `ImplementsAtomicScan` | same |
| `FifoLots` | FIFO in closed form, as a fold over rows | through the next two | `DataLemmas` |
| `LotAccounting` | the loop of `compute_positions`, one round per step | itself | `LotAccountingProofs` |
| `PositionTables` | `compute_positions` as two transactions on three tables | `MCPositionTables` | `PositionTablesProofs` |
| `BeatTask` | the frame of the refresh tasks: key, finally clause, retry, crash | `MarketData` | `MarketDataProofs` |
| `PriceFeed` | `refresh_prices`, `backfill_prices` | `MarketData` | same |
| `VaultTracking` | discovery, `refresh_vault_metrics`, detracking | `MarketData` | same |
| `MarketData` | a behaviour of one of these three, its fairness and properties | `MCMarketData` | same |
| `Accounts` | requests as transactions on `profiles`, Supabase, cleanup | itself | `AccountsProofs` |

`WalletIngestion` is the centre. `EventScan` refines its `ScanEvm` and
`ScanSolana` steps to the requests they are made of. `PositionTables` refines its `ReadLots` and
`WritePositions` steps to rows; `LotAccounting` refines what happens between
those two steps. `FifoLots` is the reference both are checked against.
`PriceFeed` and `VaultTracking` refine two steps of the pipeline that
`WalletIngestion` knows only as steps that may raise. `Accounts` shares no table
with them.

### WalletIngestion and EventLedger

State. `active`, `status`, `block` are the columns of `wallets` (`absent` until
the row is committed); `txn` is the request transaction open on a row;
`broker` the messages a worker may be given; `reconLock`, `syncLock` the Redis
keys; `stored` the events with a lot, `again` those with more than one; `pos`
the events whose lots the stored positions account for. A worker slot has a
program counter and the locals of its task (`from`, `found`, `high`, `snap`, and
for a sync run the wallets `todo` with the checkpoints `cps` it read).

| Action | Code |
|---|---|
| `Submit`, `Commit`, `Rollback` | `create_wallet`; `get_db` after and on failure |
| `SetActive` | `update_wallet`, `soft_delete_wallet` (`is_active` alone) |
| `SkipLocked`, `StartRecon` | `SET NX EX` at the top of the task |
| `LoadWallet`, `SetSyncing` | `_load_wallet`, `_set_wallet_syncing` |
| `StartSync`, `LoadSynced`, `SyncWallet`, `SyncDone` | `sync_new_events`, `_load_synced_wallets`, `_sync_wallet` |
| `ScanEvm`, `ScanSolana` | `_scan_evm_events_async`, `_scan_solana_events_async` |
| `CreateLots`, `ReadLots`, `WritePositions` | `create_lots`, the two transactions of `compute_positions` |
| `FinishRecon`, `FinishSync`, `ReportComplete` | `_finalise_wallet`, `_update_wallet_after_sync`, last progress update |
| `ReconRaises`, `MarkError`, `RetryTask`, `HandlerRaises`, `SyncWalletRaises`, `SyncRaises` | the `except` clauses and what raises into them |
| `ReleaseRecon`, `ReleaseSync` | the `finally` clauses |
| `Crash`, `Redeliver`, `ExpireRecon`, `ExpireSync` | a lost worker, the visibility timeout or a lost connection to the broker, key TTLs (an eviction under `allkeys-lru` is an expiry) |

Boolean constants switch each kind of mishap on, so that a run can say what a
property needs: `Faults`, `Crashes`, `RunsFitTTL` (a run ends before its key
expires), `ChainAdvances` (a scan starts below the chain's head),
`CommitFirst` (no message overtakes its commit), `PatchActive`.

Abstractions. An event is one that the parser accepts. One request at a time is
open on a wallet row: a second one would wait for the row's lock. The threads of
a sync run visit disjoint rows and are modelled one after the other; what they do
to rows they share, the lots of one address on two chains, is in
`PositionTables`. Vault discovery and the price backfill are steps that may raise
here; what they write is in `PriceFeed` and `VaultTracking`.

### EventScan: EvmScan, SolanaScan, AtomicScan

| Action | Code |
|---|---|
| `StartEvm`, `GetHeight` | `scan_evm_events` down to `get_chain_height`, which any instance answers |
| `GetPage` | one round of the `while` loop of `_scan_evm_events_async`: `NextBlocks` is what an instance may answer, `Cursor` and `IsLast` what the loop makes of it |
| `ParseLogs` | `_parse_evm_log` (`ActionOf`), the sort, `highest_block` (`Highest`) |
| `GetSignatures` | one round of `get_all_signatures_for_address`: `Before`, `HasMore`, `MoreToRead` |
| `GetTransaction`, `Finish` | the loop over signatures of `scan_solana_events`; its sort (`ByTime`) |
| `EvmRaises`, `SolRaises` | a request that fails |
| `Mine`, `Finalize` | the environment: the chain goes on during a scan |

Abstractions. A block stands for its timestamp and is never taken back. What an
EVM scan has read is a set, with what was read twice in `again`: its sort key
(timestamp, log index) is unique, so the order of its answer is too. `short`
remembers that the last page came from an instance behind `to_block`, or from one
that told no archive height, which ends the paging early. A Solana transaction
moves at most one thing.

`ImplementsAtomicScan` is what allows `WalletIngestion` to take the whole EVM
scan in one step: an answer is the chain's window up to some block, as one
instant showed it. An instance that lags behind the first
block itself is the case of `skipped`.

### LotAccounting, FifoLots, PositionTables

`LotAccounting` takes arbitrary rows (in or out, amount, price or none) and runs
`process_withdrawal_wac` as one step and `process_withdrawal_fifo` as one step
per round of its loop. Amounts are integers, and `wac` counts in units of
1/`Scale`, where `Scale` is a multiple of every amount that can be open, so that
no average is rounded: the rounding of `Decimal` is the one thing left out of the
arithmetic.

`PositionTables` has rows of `transaction_lots` (`table`, `remaining`, `link`)
and `positions`. `ReadTables` is the first transaction with its query order
(timestamp, block: two lots of one block come in any order). Its two `SELECT`s
are one step: the second reads positions of the call's own wallet only, which
nothing but another call for that wallet writes, and `Overlap` = FALSE excludes
that one. `WriteTables` is the second with upsert, update of drawn-on lots and
links, `AbortWrite` its rollback. `address` gives each wallet's address: two
wallets may be one address on two chains, and `OnOneChain` says that a wallet is
not. The foreign key on `position_id` was dropped by migration 006, so nothing
in the schema keeps links right.

### MarketData: BeatTask, PriceFeed, VaultTracking

| Action | Code |
|---|---|
| `Start`, `Raise`, `Release`, `Crash`, `Expire` | `SET NX EX` at the top of both tasks, the `except` and `finally` clauses, a lost worker, the key's TTL |
| `LoadTracked`, `FetchBatch`, `AllFetched` | `_get_tracked_assets`, one round of the loop of `_fetch_current_prices`, the two early returns |
| `CachePrices`, `PersistPrices`, `PublishUpdates` | the functions of these names, in the order of the task |
| `StartBackfill`, `FetchHistorical`, `PersistBackfill`, `BuildLots` | `backfill_prices`: one request per second and slice, the upsert, `EnrichedEvent.from_raw` |
| `ScanFinds`, `DiscoverVaults`, `StorePositions` | a reconstruction between its scan and its positions, or a sync, which discovers nothing |
| `LoadVaults`, `RunAdapter`, `AllCollected` | `_load_tracked_vaults`, one thread of the pool and what `as_completed` makes of it (`Reported`, `AfterAdapter`), the end of the pool |
| `PersistMetrics`, `UpsertVaults` | `_persist_metrics`, `_discover_vaults` |
| `Detrack`, `ClosePosition`, `MetricsAge` | `detrack_stale_vaults_sync`, a recomputation that closes a position, seven days |
| `Register`, `SwitchOff` | the administrator's "direct DB update" (`services/vault_discovery.py:11`) |
| `NewQuote`, `CacheExpires` | DeFiLlama goes on; the 30 s TTL of a cached price |

`kind` says which of the three a behaviour is about. They share one table,
`price_history`, to which both that write it only add, so that their product
would check nothing that the sum does not. A Celery retry and a redelivery are
starts like any other, since Beat starts the task for ever; a run that finds the
key taken changes nothing and has no action. `quiet` is the time after which no
step raises and no worker dies: liveness is promised from then on.

A price is its asset and its time, so that an upsert of the same row changes
nothing, and a vault metric is its last sign: none, zero, or above. `Served` is
what Morpho lists, by address or, for a `Market`, by a key that no event names.
`Odd` are vaults whose figures have more digits than the fields of
`VaultMetricsData` admit: building the record raises outside the handler of the
query, and the adapter of the whole group with it. The other three adapters
return nothing.

### Accounts

`profile` is the committed table, with row locks from `wrote`; `login` the
Supabase users; `queue` the Redis set; `sweep` what the cleanup has read and not
tried. A request goes through `GetProfile`, `BeforeInsert` (the trigger counts
committed rows), `InsertProfile` (waits on the key, and reads again on a
conflict), `Admit` or `Refuse`, then `ReadTarget`, `UpdateTarget` or
`DeleteTarget`, `DeleteLogin`, `QueueLogin`, `Commit`. An `UPDATE` or a `DELETE`
waits for the lock on a row it sees; a row gone since it was read, or inserted
and not yet committed by another request, it does not find and does not wait
for: the `UPDATE` raises, the `DELETE` goes on. `Updated` is what the ORM
sends: only the columns whose new value differs from what was read.

Left out: an account deletion with the wrong `confirm_email` (it changes
nothing), a backend without Supabase configured, the e-mails, the listing.

## 3. Runs

Every `.cfg` turns deadlock checking off: the systems may stop, when the bounded
chain, requests or lots are used up.

| Run | Constants that matter | Shows |
|---|---|---|
| `mishaps` | every mishap on, `RunsFitTTL`, `ChainAdvances`, one wallet, one block of events, 2 workers, 1 retry, 2 creations | `TypeOK`, `ReconExclusive`, `SyncExclusive`, `EventsCoveredByCheckpoint`, `ImplementsLedger` |
| `calm` | no mishap, an EVM and a Solana wallet, 2 workers, created once | `OneLotPerEvent`, `PipelineExclusive`, `PositionsCoverCheckpoint`, `CheckpointNeverRegresses` |
| `live` | no mishap, Beat running, 3 blocks | `CreatedIsReconstructed`, `EventIsIngested` |
| `accounting` | 4 rows, amounts 0 to 2, prices 1, 3 or none | the FIFO and WAC results |
| `tables` | 2 wallets, of one address or two, 3 lots, 3 calls | `LinksResolve`, `LinkedToOwner`, `AmountIsChronological`, `LotsAgreeWithPosition` |
| `pages` | 4 blocks; 5 transactions, 2 pages of 2 | a scan is complete, repeats nothing, never stands still, and implements `AtomicScan` |
| `accounts` | an administrator, a pending user, a new one; empty table too; 2 handlers, 3 requests | the account properties |
| `market` | 2 workers, 2 assets of which one is always held, batches of 1, 2 quotes; a MetaMorpho vault, a market with refused figures on another chain | cache, table and channel agree; prices, metrics and the switch of a vault survive failures |
| `orphaned` | messages may overtake commits | violates `CreatedIsReconstructed` |
| `skipped` | scans may start at the head | violates `EventsCoveredByCheckpoint` |
| `unmeasured` | the same vaults, no figure refused | violates `TrackedIsMeasured` |
| `unlisted` | an administrator and a new user | violates `CreatedAwaitsApproval` |

**Why the bounds are enough.** Two workers are what it takes for two runs to
meet, a third adds no new pair. Two blocks give a checkpoint to pass and an event
beyond it; `live` has a third so that a stamp is followed by another. `mishaps`
has one block of events, seen or missed by each of two scans: its properties, and
those of `calm`, are proved for any number (section 5). Two
creations and one retry give a message that outlives its run. Four rows give
`accounting` a deposit, two withdrawals and a later deposit in every order; three
lots give `tables` one of each kind before and after another. Three calls let one
overlap another and a third read what both left. Four blocks are read in up to
four pages, with blocks mined between them; five transactions are one more than
two full pages of two, so that the cap, a full last page and a short one all
occur. In `market` two batches make a run answered by halves, two quotes a slow run
that is overtaken, two chains an adapter that raises next to one that does not. Three requests are a decision, a
counter-decision and a request of the user they are about.

**What fails when a switch is turned.** These are the limits of the passing
runs, each confirmed by a counterexample:

* `mishaps` with `ChainAdvances = FALSE` is `skipped`; without `RunsFitTTL` the locks fail, and the ledger holds all the same, by the theorems of section 5.
* `OneLotPerEvent` stated for Solana wallets too: every sync rescans the whole history and inserts every lot again.
* `OneLotPerEvent` with `Faults`: a retry inserts the lots again, under new ids.
* `PipelineExclusive` and `CheckpointNeverRegresses` with `MaxSubmits = 2`: a wallet deleted and created again is reconstructed while a sync that listed it is still under way.
* `CreatedIsReconstructed` with `MaxSubmits = 2`: the new message finds the key held, is skipped and acknowledged, and the wallet stays `pending`.
* `LinkedToOwner` and `LotsAgreeWithPosition` without `OnOneChain`: the query of `compute_positions` (line 188) selects by address without the chain. Each wallet gets the positions of all, and the last call takes the links.
* `AmountIsChronological` with `SameBlock`: the query does not fix the order of one block's lots.
* `LinksResolve` with `Overlap`: the second of two calls links lots to an id that its upsert does not keep.
* `EventsInChainOrder` with two transactions of one second: the sort is stable and they were read newest first.
* `MovementsAreFound` beyond the cap, or after a failed fetch: the older history is left out, the transaction passed over, and the scan succeeds.
* `RangeIsCovered` with `short`: the paging stops at an instance's archive height, not at `to_block`.
* `DecidedOneWay` without `DecisionsAlone`: an approval and a rejection write different columns of one row, which ends up approved and rejected.
* `AdministratorsAreFixed` without `FirstUserAlone`: two first users both find an empty table.
* `LoginOutlivesProfile` without `DeletionsCommit`: the login is gone and the rollback brings the profile back.
* `DeletedLosesLogin` with `RedisFails`: a lost SADD is only logged.
* `CacheNotBehindUpdates` without `RunsFitTTL`: a refresh that outlives its 60 s key caches a price older than the one a later run has published, and deletes that run's key.
* `ServedVaultIsMeasured` for a vault that shares its chain with an `Odd` one: the group's adapter raises in every run.
* WAC alone does not conserve profit: its average is taken over lots that FIFO has drawn on. `MethodsAgreeOnOnePrice` is the strongest agreement that holds.

**Fairness.** `FairSpec`: a worker that has a task goes on with it (`WF` of
`Advance`), the request reaches its commit, the chain produces blocks, and a
message is handed to a worker that is idle again and again (`SF` of `Deliver`:
runs started by Beat claim the idle workers in between). `BeatSpec` adds the
schedule of `sync_new_events`: Beat sends it every 15 minutes for ever, so it
starts whenever it can start again and again (`SF`: its key may be held at any
one tick). No mishap is ever due. In `Accounts` the server finishes every request,
Beat starts the cleanup hourly, and Supabase does not fail for ever on one user
(`SF` of `RetryDone`). In `MarketData` everything is `WF`: Beat starts each task for
ever, a worker goes on with the run it has, and a key that is left behind
expires. No service is assumed to answer before `quiet`, which need not come.

## 4. Disagreements found

1. **A new user is never listed** (`unlisted`). `get_or_create_profile` inserts the profile, the check after it raises 403, and `get_db` rolls the INSERT back. Only the first user, whom the trigger approves, is ever stored. The test of the path overrides `get_db` by a version that does not roll back.
2. **A wallet pending for ever** (`orphaned`). The message is sent before the commit; a task that finds no row returns without a retry.
3. **A skipped block** (`skipped`). `highest_block` of an empty scan is its first block, which is stamped unseen.
4. **A tracked vault that is never measured** (`unmeasured`). The event scanner labels ERC-4626 deposits `erc4626`, discovery stores that label, and no adapter is registered under it: a user's MetaMorpho vault is skipped in every run.

Met, and not the subject of a run. Solana lots are inserted again at each sync
(`positions.py:107`). `VaultMetricsData` admits four decimals and rounds nothing,
so that one rate with more digits costs a protocol and chain all its metrics.
`base.py:283` says that a vault with a TVL above the limit is marked tracked; no
`ON CONFLICT` clause touches `is_tracked`. An answer with status 5xx is not retried:
`raise_for_status` stands outside `_retry_with_backoff` (`morpho.py:263`). A sync
stores positions in vaults it does not register. All metrics of a run are one
transaction, which one bad row aborts.

Also met and not the subject of a run: `send_task` in the backend uses Celery's
default queue while the workers consume `critical` and `default`, and the backend
does not configure a broker; `workers/tasks/vault_metrics.py` lines 19-37 are
unmerged text that does not parse, in a module that Celery includes; the scheduled
`check_vault_lifecycle` does not exist. The models assume that messages reach
workers.

## 5. What is proved

All of it holds for any sets of wallets, workers, users and requests and any bounds.

| Theorem | Assumes | Statement |
|---|---|---|
| `TypeCorrect` | - | `Spec => []TypeOK` |
| `MutualExclusion` | `RunsFitTTL` | `Spec => []ReconExclusive` |
| `OneSyncAtATime` | `RunsFitTTL` | `Spec => []SyncExclusive` |
| `NoEventLost` | `ChainAdvances` | `Spec => []EventsCoveredByCheckpoint` |
| `LedgerImplemented` | `ChainAdvances` | `Spec => ImplementsLedger` |
| `TasksTakeTurns` | `Calm` | `Spec => []PipelineExclusive` |
| `EventsGetOneLot` | `Calm` | `Spec => []OneLotPerEvent` |
| `PositionsAccount` | `Calm` | `Spec => []PositionsCoverCheckpoint` |
| `CheckpointsAdvance` | `Calm` | `Spec => CheckpointNeverRegresses` |
| `ScanIsAtomic` | - | `Spec => ImplementsAtomicScan` |
| `NoLogTwice` | - | `Spec => []LogsReadOnce` |
| `PagesAreComplete` | - | `Spec => []RangeIsCovered` |
| `PagingEnds` | - | `Spec => []PagesAdvance` |
| `HistoryIsUnbroken` | - | `Spec => []SignaturesUnbroken` |
| `MovementsFound` | - | `Spec => []MovementsAreFound` |
| `EventsInOrder` | - | `Spec => []EventsInChainOrder` |
| `ScanTypes` | - | `Spec => []TypeOK` |
| `FifoOrder` | - | `Spec => []FifoOldestFirst` |
| `LotTypes` | - | `Spec => []TypeOK` |
| `CurrentIsNetFlow` | - | `Spec => []CurrentIsFlow` |
| `LoopIsReplay` | - | `Spec => []RemainingIsReplay` |
| `FifoConserves` | - | `Spec => []FifoConservesPnl` |
| `MethodsAgree` | - | `Spec => []MethodsAgreeOnOnePrice` |
| `TableTypes` | - | `Spec => []TypeOK` |
| `LinksNeverDangle` | `Overlap = FALSE` | `Spec => []LinksResolve` |
| `LinksGoToOwner` | `Overlap = FALSE` | `Spec => []LinkedToOwner` |
| `StoredAmounts` | `SameBlock = FALSE` | `Spec => []AmountIsChronological` |
| `RemainingAddsUp` | `Overlap = FALSE`, `SameBlock = FALSE` | `Spec => []LotsAgreeWithPosition` |
| `MarketTypes` | - | `Spec => []TypeOK` |
| `CacheIsFresh` | `RunsFitTTL` | `Spec => []CacheNotBehindUpdates` |
| `PricesRecorded` | - | `Spec => []PricesAreOnRecord` |
| `OffStaysOff` | - | `Spec => SwitchedOffStaysOff` |
| `AccountTypes` | - | `Spec => []TypeOK` |
| `AdministratorsStay` | `FirstUserAlone` | `Spec => AdministratorsAreFixed` |
| `DecisionsAreOneWay` | `FirstUserAlone`, `DecisionsAlone` | `Spec => []DecidedOneWay` |
| `LoginIsKept` | `FirstUserAlone`, `DeletionsCommit` | `Spec => []LoginOutlivesProfile` |

*Types.* `TypeOK` is not inductive: that a worker at `store` has a wallet and a
kind of job follows from the control flow. `Typed` adds `ControlOK`, which ties
`job`, `wal` and `msg` to the program counter.

*Mutual exclusion.* The keys carry no owner and the `finally` clauses delete them
unconditionally, so "at most one holder" is not inductive either. `LockOK` says
that whoever is in a section finds its key set, and alone: `SET NX` admits nobody
to a set key, an expiry takes only a key without a holder (`RunsFitTTL`), and a
delete therefore only takes one's own.

*No event lost.* `CoverOK` says of every stored checkpoint, and of what every
worker is about to stamp, that all the wallet's events up to it have lots and
that the chain is past it (`Settled`): of `cps` for a sync run, of `from - 1` at
a scan, of `high` once the lots are in, and of `high` given the lots in `found`
at `store`. The ledger and the chain only grow (`NextGrows`), so what one worker
relies on no other undoes, locks or no locks.

*Refinement.* From `CoverOK`, scans and locks map to stutters, `CreateLots` to
`Record`, the stamps to `Stamp` and `Mine` to `Extend`.

*Turns.* `Calm` is `RunsFitTTL`, no `Faults`, no `Crashes`, and at most one
creation of a wallet; section 3 lists what happens without each. The two tasks
take different keys, so that they stay apart rests on `sync_status` alone.
`TurnsOK` says who may be at work in which status: a message waits for a wallet, or
a reconstruction of it runs, only while it is not `synced`, and a sync run lists
and visits `synced` wallets only. A wallet gets `synced` once, by the last step of
its one reconstruction, and nothing takes it back. `BooksOK` says what the ledger
holds by the worker's place: at rest no lot lies beyond the checkpoint, what a scan
has found does, and between the INSERT and the stamp every lot is at or below
`high`. It needs `TurnsOK`: another worker on the wallet would insert lots between
the read and the stamp of this one.

*Scans.* `EvmInv` says that what has been read is, page after page, exactly the
logs of the chain from `first` to below the cursor, which new blocks cannot
change because an instance's next block is never beyond the chain. The answer is
then the window of the chain at the last page. That the loop ends is stated as
an invariant, `PagesAdvance`, and not as liveness: an instance that answered the
same page for ever would be a stutter of the model. `SolInv` says that the i-th
signature read is number `began + 1 - i` of the history: the cursor counts from
the oldest one read, so what is finalized later does not shift the pages.

What becomes of the signatures is in three more invariants. `PlaceInv` ties
`fetched`, `pages` and `sigs` to the place of the scan: all of the history is read
when it is neither cut by the cap nor still going on. `FoundInv` says that each
movement of a transaction fetched so far is among the events, or `missed` is set.
`OrderInv` says that events are read strictly against the order of the chain, and
that after the sort the seconds do not fall; where no two transactions share a
second, one order follows. The sort chooses an enumeration, so that the proof
needs that one exists (`SortExists`).

*Induction over data.* The induction theorems of the library take an operator,
which the provers here cannot instantiate. `DataLemmas` restates induction for a
set (`NatSetInduction`, `SubsetInduction`, `SeqInduction`: a set that has the base
and is closed under the step has everything), and gets from it what `Withdraw`,
`Replay` and `SumOf` compute: that a fold is defined and follows its equation
(`FoldExists`, `IterDef`), sums by their terms (`SumRemove`, `SumExtend`,
`SumChange`, `SumScale`), the replay of one row more (`ReplayAppend`), that later
rows never leave more of an older one (`ReplayShrinks`), and that finite sets can
be sorted, sets of numbers in one way (`AscendingUnique`).

*Accounting.* `FifoInv` adds, in the middle of a withdrawal, that every deposit the
cursor has passed is used up. The others count what the loop has still to
withdraw (`left`) as if it were gone. `FlowInv`: what is held is then the net flow
since some row, and at least that since any row; the two meet again at the end,
when what no deposit covered is dropped. `MoneyInv`: the gain, with what is pending
at the price of the withdrawal, is what came in less the cost of what went out.
`AgreeInv` does the same for the average, which is the one price while there is
only one. `ReplayInv`: the lots before the cursor have what `Withdraw` leaves of
them, those after it what they had before.

*Tables.* That links resolve needs to know of every running call that its
accumulators have the ids of the rows it will meet (`IdInv`): true when it starts,
and kept by the others only because no other call is for that wallet (`OneInv`,
from `Overlap = FALSE`). In the code that is what the Redis keys and `sync_status`
give (`MutualExclusion`, `OneSyncAtATime`, `TasksTakeTurns`, under their own
assumptions); section 3 has what happens otherwise. That a lot goes to its own
wallet needs `ReadInv` besides: a call has only lots of its wallet's address.
`AmountInv` holds with any overlap. What a call has read, and what a position
accounts for, is a beginning of the chain (`PrefixInv`), and an INSERT adds to a
chain at its end only (`OrderAppend`), so that an old snapshot stays a beginning
and an old amount stays the amount of its rows. `SameBlock = FALSE` is a limit of
the result and nothing the code ensures: the query does not order two lots of one
block, and their snapshot need be no beginning.
The remaining amounts need both. `_update_lot_remaining_amounts` writes a lot only
if FIFO leaves less than its amount, which is right only if a lot it does not write
was never drawn on before: `RemainInv` with `GrowInv`, that a call has read no fewer
lots than the position accounts for, and `LeftShrinks`, that more rows leave no more
of a deposit.

*Market data.* That a cached price is not behind the channel needs `FreshInv`: one
run at a time has the key (`OneRun`, the argument of mutual exclusion again),
what it has answered is no older than what is published and
no newer than DeFiLlama's quote, and between `cache` and `publish` the cache has
it or has lost it. `RecordInv` says what is in the table at each place: the rows of
a run once it is past `persist`, those of a backfill once it is past its upsert.
Tables only grow, so this needs no lock. `SwitchedOffStaysOff` is a property of
steps: each action is shown to leave `row` alone, to insert an absent one, or to
be a discovery.

*Accounts.* The trigger makes an administrator of whoever inserts into an empty
table, so that administrators are fixed rests on the table not getting empty
again: an administrator cannot be deleted, and somebody is approved only where
there is one (`ApprovedByAdmin`). The hard part is the time before the first
commit, when several requests of one user (`OneCaller`) have been told by the
trigger that they found the table. `RequestInv` says at each place of a request
what it may rely on: a row it is about to insert is an administrator's only while
the table is empty (`InsertedRow`), a row it has written is locked (`Locked`) and
keeps its `is_admin` (`KeepsAdmin`), and whoever is past the checks was let in by
an administrator or is the founder (`Founding`), who can only approve himself.
`DecisionInv` adds that no other request changes the columns between a decision's
SELECT and its UPDATE: a second decision is excluded by `DecisionsAlone`, and a
deletion followed by a new sign-up by the invariant before. `LoginInv` says that a
login is gone, queued or retried only while there is an administrator, and only
of a user who has no profile or is losing it: a token that outlives its login then
gets a profile that waits for approval, which the refusal rolls back.

Only model-checked: liveness (`CreatedIsReconstructed`, `EventIsIngested`,
`DeletedLosesLogin`, `PricesComeBack`, `ServedVaultIsMeasured`), since the prover has
no `ENABLED`. Every invariant, action property and refinement that a passing run
checks is a theorem.

## 6. Not modelled, and the plan

Not modelled: notifications, frontend and placeholder tasks (no state others
depend on), row-level security (the backend connects as a superuser and the
workers with BYPASSRLS, which no policy binds), aggregates and retention, the
decoding of logs, borrow positions (the builder never makes one).

Left out of components that are otherwise modelled: the counters of API usage,
`PriceService` and the async vault discovery of the backend (no caller), the
adapters' `fetch_positions` and `fetch_historical_events` and the persistence in
`base.py` (no caller), `check_vault_lifecycle` (no body), the limit of wallets per user,
which is counted before the INSERT and can be passed by requests at a time.

What remains, in order:

1. `WalletRegistry`: the limit of wallets per user and the unique key, by concurrent requests.
2. Proofs: that a stored position is the net flow of its rows, from `CurrentIsNetFlow` for the closed form; that `PositionTables` implements an account which takes each lot once.
