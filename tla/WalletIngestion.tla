-------------------------- MODULE WalletIngestion --------------------------
(***************************************************************************)
(* Event ingestion for tracked wallets: the API request that registers a   *)
(* wallet and dispatches its history reconstruction, the Celery broker     *)
(* that carries the message, the reconstruct_wallet_history task, the      *)
(* periodic sync_new_events task, the two Redis locks, and the wallets,    *)
(* transaction_lots and positions tables they write.                       *)
(*                                                                         *)
(* Both tasks drive one pipeline (scan_events, create_lots,                *)
(* compute_positions, stamp the checkpoint), so its steps are shared here, *)
(* one action per database transaction or network read of a worker.        *)
(*                                                                         *)
(* The environment is parameterised: a BOOLEAN constant switches on each   *)
(* kind of mishap (a step raising, a worker dying, a lock outlived by its  *)
(* run), so that a run can say under which assumptions a property holds.   *)
(***************************************************************************)
EXTENDS Integers, FiniteSets

CONSTANTS
  Wallet,         \* wallets of the deployment
  Solana,         \* those on Solana, whose scan has no block numbers
  Worker,         \* Celery worker slots
  NoWallet,       \* the wallet of a slot that runs none
  MaxHeight,      \* bound: last block number the chain may reach
  MaxSubmits,     \* bound: create requests accepted per wallet
  MaxRetries,     \* max_retries of the task decorator
  RunsFitTTL,     \* every run ends before its lock expires
  ChainAdvances,  \* at a scan the chain is past the scan's first block
  CommitFirst,    \* a message is delivered after its request's commit
  PatchActive,    \* users may switch is_active back on by PATCH
  Faults,         \* a step may raise
  Crashes         \* a worker may die or lose its connection to the broker

ASSUME SolanaAssumption == Solana \subseteq Wallet
ASSUME NoWalletAssumption == NoWallet \notin Wallet
ASSUME BoundsAssumption == MaxHeight \in Nat /\ MaxSubmits \in Nat /\ MaxRetries \in Nat
ASSUME SwitchAssumption ==
  {RunsFitTTL, ChainAdvances, CommitFirst, PatchActive, Faults, Crashes} \subseteq BOOLEAN

VARIABLES
  height,     \* first block number not yet visible to a scan
  events,     \* <<wallet, block>> pairs: vault events on chain
  active,     \* wallets.is_active
  status,     \* wallets.sync_status, "absent" before the row is committed
  block,      \* COALESCE(wallets.last_synced_block, 0)
  txn,        \* the request transaction open on the row
  submits,    \* number of create requests so far
  broker,     \* messages a worker may be given
  reconLock,  \* wallets whose key lock:reconstruction:<id> exists
  syncLock,   \* the key lock:sync_new_events exists
  stored,     \* events that have at least one transaction_lots row
  again,      \* events that have more than one
  pos,        \* events whose lots the stored positions account for
  pc, job, msg, wal, from, found, high, snap, \* locals of a worker's task
  todo, cps   \* wallets (and their checkpoints) a sync run has yet to visit

chain  == <<height, events>>
row    == <<active, status, block>>
api    == <<txn, submits>>
locks  == <<reconLock, syncLock>>
ledger == <<stored, again, pos>>
locals == <<job, msg, wal, from, found, high, snap>>
batch  == <<todo, cps>>
vars   == <<chain, row, api, broker, locks, ledger, pc, locals, batch>>

Block   == 1 .. MaxHeight
Event   == Wallet \X Block
Message == [wallet : Wallet, id : 0 .. MaxSubmits, retries : 0 .. MaxRetries]
NoMsg   == [wallet |-> NoWallet, id |-> 0, retries |-> 0]

\* The program points of the two tasks.
Pipeline == {"scan", "store", "read", "write", "finish"}
ReconPC  == Pipeline \cup {"load", "mark", "report", "except", "retry", "release"}
SyncPC   == Pipeline \cup {"list", "next", "release"}

\* The worker slots inside a reconstruction of wallet w, and inside a sync run.
Reconstructing(w) == {p \in Worker : job[p] = "recon" /\ wal[p] = w}
Syncing           == {p \in Worker : job[p] = "sync"}

Init ==
  /\ height = 1 /\ events = {}
  /\ active = [w \in Wallet |-> FALSE]
  /\ status = [w \in Wallet |-> "absent"]
  /\ block = [w \in Wallet |-> 0]
  /\ txn = [w \in Wallet |-> "none"]
  /\ submits = [w \in Wallet |-> 0]
  /\ broker = {} /\ reconLock = {} /\ syncLock = FALSE
  /\ stored = {} /\ again = {} /\ pos = {}
  /\ pc = [p \in Worker |-> "idle"]
  /\ job = [p \in Worker |-> "none"]
  /\ msg = [p \in Worker |-> NoMsg]
  /\ wal = [p \in Worker |-> NoWallet]
  /\ from = [p \in Worker |-> 0]
  /\ found = [p \in Worker |-> {}]
  /\ high = [p \in Worker |-> 0]
  /\ snap = [p \in Worker |-> {}]
  /\ todo = [p \in Worker |-> {}]
  /\ cps = [p \in Worker |-> [w \in Wallet |-> 0]]

-----------------------------------------------------------------------------
(* The chain: a new block becomes visible, with an event for some wallets. *)

Mine ==
  /\ height <= MaxHeight
  /\ \E S \in SUBSET Wallet : events' = events \cup (S \X {height})
  /\ height' = height + 1
  /\ UNCHANGED <<row, api, broker, locks, ledger, pc, locals, batch>>

-----------------------------------------------------------------------------
(* API requests.  create_wallet flushes its INSERT or UPDATE, dispatches   *)
(* the task, and only then does get_db commit.                             *)

Submit(w) ==
  /\ txn[w] = "none" /\ submits[w] < MaxSubmits
  /\ ~active[w]
  /\ txn' = [txn EXCEPT ![w] = IF status[w] = "absent" THEN "insert" ELSE "reactivate"]
  /\ submits' = [submits EXCEPT ![w] = @ + 1]
  /\ \/ broker' = broker \cup {[wallet |-> w, id |-> submits[w], retries |-> 0]}
     \/ Faults /\ broker' = broker   \* the dispatch error is logged and swallowed
  /\ UNCHANGED <<chain, row, locks, ledger, pc, locals, batch>>

Commit(w) ==
  /\ txn[w] # "none"
  /\ txn' = [txn EXCEPT ![w] = "none"]
  /\ active' = [active EXCEPT ![w] = TRUE]
  /\ status' = [status EXCEPT ![w] = "pending"]
  /\ UNCHANGED <<chain, block, submits, broker, locks, ledger, pc, locals, batch>>

Rollback(w) ==
  /\ Faults /\ txn[w] # "none"
  /\ txn' = [txn EXCEPT ![w] = "none"]
  /\ UNCHANGED <<chain, row, submits, broker, locks, ledger, pc, locals, batch>>

\* DELETE /wallets/{id} and PATCH /wallets/{id} touch is_active alone.
SetActive(w, a) ==
  /\ txn[w] = "none" /\ status[w] # "absent"
  /\ active[w] # a
  /\ a => PatchActive
  /\ active' = [active EXCEPT ![w] = a]
  /\ UNCHANGED <<chain, status, block, api, broker, locks, ledger, pc, locals, batch>>

-----------------------------------------------------------------------------
(* Delivery and the reconstruction lock.                                   *)

\* A retry has a countdown of 60 s, longer than what is left of its task.
Due(m) ==
  /\ \A p \in Worker : pc[p] = "release" => msg[p].wallet # m.wallet \/ msg[p].id # m.id
  /\ CommitFirst => txn[m.wallet] = "none"

\* Mutant: one key for reconstructions and sync runs.
ReconKeyFreeShared(w) == w \notin reconLock /\ ~syncLock

ReconKeyFree(w) == w \notin reconLock

\* Mutant: SET NX inside the try, so that a skipped task runs the finally clause.
SkipLockedDeletes(p, m) ==
  /\ pc[p] = "idle" /\ m \in broker /\ Due(m)
  /\ ~ReconKeyFree(m.wallet)
  /\ broker' = broker \ {m}
  /\ reconLock' = reconLock \ {m.wallet}
  /\ UNCHANGED <<chain, row, api, syncLock, ledger, pc, locals, batch>>

\* SET NX fails: the task returns, and returning acknowledges the message.
SkipLocked(p, m) ==
  /\ pc[p] = "idle" /\ m \in broker /\ Due(m)
  /\ ~ReconKeyFree(m.wallet)
  /\ broker' = broker \ {m}
  /\ UNCHANGED <<chain, row, api, locks, ledger, pc, locals, batch>>

StartRecon(p, m) ==
  /\ pc[p] = "idle" /\ m \in broker /\ Due(m)
  /\ ReconKeyFree(m.wallet)
  /\ broker' = broker \ {m}
  /\ reconLock' = reconLock \cup {m.wallet}
  /\ pc' = [pc EXCEPT ![p] = "load"]
  /\ job' = [job EXCEPT ![p] = "recon"]
  /\ msg' = [msg EXCEPT ![p] = m]
  /\ wal' = [wal EXCEPT ![p] = m.wallet]
  /\ UNCHANGED <<chain, row, api, syncLock, ledger, from, found, high, snap, batch>>

\* A row that is missing or inactive ends the task without a retry.
LoadWallet(p) ==
  /\ pc[p] = "load"
  /\ IF active[wal[p]]
       THEN /\ from' = [from EXCEPT ![p] = block[wal[p]]]
            /\ pc' = [pc EXCEPT ![p] = "mark"]
       ELSE /\ from' = from
            /\ pc' = [pc EXCEPT ![p] = "release"]
  /\ UNCHANGED <<chain, row, api, broker, locks, ledger, job, msg, wal, found, high, snap, batch>>

\* A worker's UPDATE waits for the request that holds the row's lock.  The row
\* of an uncommitted INSERT is not visible, so nothing waits for that.
RowFree(w) == txn[w] # "reactivate"

SetSyncing(p) ==
  /\ pc[p] = "mark" /\ RowFree(wal[p])
  /\ status' = [status EXCEPT ![wal[p]] = "syncing"]
  /\ pc' = [pc EXCEPT ![p] = "scan"]
  /\ UNCHANGED <<chain, active, block, api, broker, locks, ledger, locals, batch>>

-----------------------------------------------------------------------------
(* The periodic sync run: one lock for all wallets, a snapshot of the      *)
(* synced rows, then the wallets one after the other.                      *)

\* Mutant: SET without NX.
SyncKeyIgnored == TRUE

SyncKeyFree == ~syncLock

StartSync(p) ==
  /\ pc[p] = "idle" /\ SyncKeyFree
  /\ syncLock' = TRUE
  /\ pc' = [pc EXCEPT ![p] = "list"]
  /\ job' = [job EXCEPT ![p] = "sync"]
  /\ UNCHANGED <<chain, row, api, broker, reconLock, ledger, msg, wal, from, found, high, snap, batch>>

\* Mutant: wallets under reconstruction are listed too.
SyncedWalletsAll == {w \in Wallet : active[w] /\ status[w] \in {"syncing", "synced"}}

SyncedWallets == {w \in Wallet : active[w] /\ status[w] = "synced"}

LoadSynced(p) ==
  /\ pc[p] = "list"
  /\ todo' = [todo EXCEPT ![p] = SyncedWallets]
  /\ cps' = [cps EXCEPT ![p] = block]
  /\ pc' = [pc EXCEPT ![p] = "next"]
  /\ UNCHANGED <<chain, row, api, broker, locks, ledger, locals>>

\* Mutants: the checkpoint's block is scanned again; a block is jumped over.
SyncFromInclusive(p, w) == IF w \in Solana THEN 0 ELSE cps[p][w]
SyncFromSkipping(p, w)  == IF w \in Solana THEN 0 ELSE cps[p][w] + 2

SyncFrom(p, w) == IF w \in Solana THEN 0 ELSE cps[p][w] + 1

SyncWallet(p) ==
  /\ pc[p] = "next"
  /\ \E w \in todo[p] :
       /\ todo' = [todo EXCEPT ![p] = @ \ {w}]
       /\ wal' = [wal EXCEPT ![p] = w]
       /\ from' = [from EXCEPT ![p] = SyncFrom(p, w)]
  /\ pc' = [pc EXCEPT ![p] = "scan"]
  /\ UNCHANGED <<chain, row, api, broker, locks, ledger, job, msg, found, high, snap, cps>>

SyncDone(p) ==
  /\ pc[p] = "next" /\ todo[p] = {}
  /\ pc' = [pc EXCEPT ![p] = "release"]
  /\ UNCHANGED <<chain, row, api, broker, locks, ledger, locals, batch>>

-----------------------------------------------------------------------------
(* The shared pipeline.                                                    *)

\* Mutant: the first block of the range is left out.
VisibleAfter(w, n) == {b \in Block : <<w, b>> \in events /\ n < b}

\* The blocks of w's events a scan from block n returns.
Visible(w, n) == {b \in Block : <<w, b>> \in events /\ n <= b}

\* Mutant: the highest block starts from genesis instead of the scan's first block.
HighestFromGenesis(h, n, B) == h \in {0} \cup B /\ \A b \in B : b <= h

\* highest_block is the last block with an event, or the scan's first block.
Highest(h, n, B) == h \in {n} \cup B /\ \A b \in {n} \cup B : b <= h

\* Mutant: the checkpoint is stamped and the events are dropped.
AfterScanDrops(B) == "finish"

AfterScan(B) == IF B = {} THEN "finish" ELSE "store"

\* HyperSync answers for [from, height): the end of the range is exclusive.
ScanEvm(p) ==
  /\ pc[p] = "scan" /\ wal[p] \notin Solana
  /\ ChainAdvances => from[p] < height
  /\ LET B == Visible(wal[p], from[p])
     IN /\ found' = [found EXCEPT ![p] = B]
        /\ \E h \in 0 .. MaxHeight + 1 :  \* bound: one empty scan past the last block
             Highest(h, from[p], B) /\ high' = [high EXCEPT ![p] = h]
        /\ pc' = [pc EXCEPT ![p] = AfterScan(B)]
  /\ UNCHANGED <<chain, row, api, broker, locks, ledger, job, msg, wal, from, snap, batch>>

\* Every signature of the address; a transaction that cannot be fetched is
\* left out, and the scan still succeeds.
ScanSolana(p) ==
  /\ pc[p] = "scan" /\ wal[p] \in Solana
  /\ \E B \in SUBSET Visible(wal[p], 1) :
       /\ B # Visible(wal[p], 1) => Faults
       /\ found' = [found EXCEPT ![p] = B]
       /\ pc' = [pc EXCEPT ![p] = AfterScan(B)]
  /\ UNCHANGED <<chain, row, api, broker, locks, ledger, job, msg, wal, from, high, snap, batch>>

\* create_lots gives every row a fresh uuid, so ON CONFLICT (id) never applies.
CreateLots(p) ==
  /\ pc[p] = "store"
  /\ LET E == {wal[p]} \X found[p]
     IN /\ again' = again \cup (stored \cap E)
        /\ stored' = stored \cup E
  /\ pc' = [pc EXCEPT ![p] = "read"]
  /\ UNCHANGED <<chain, row, api, broker, locks, pos, locals, batch>>

\* Mutant: only the lots of the events just found.
NewLots(p) == found[p]

AllLots(p) == {b \in Block : <<wal[p], b>> \in stored}

\* compute_positions reads the lots in one transaction ...
ReadLots(p) ==
  /\ pc[p] = "read"
  /\ snap' = [snap EXCEPT ![p] = AllLots(p)]
  /\ pc' = [pc EXCEPT ![p] = "write"]
  /\ UNCHANGED <<chain, row, api, broker, locks, ledger, job, msg, wal, from, found, high, batch>>

\* ... and upserts the positions in another.
WritePositions(p) ==
  /\ pc[p] = "write"
  /\ pos' = (pos \ ({wal[p]} \X Block)) \cup ({wal[p]} \X snap[p])
  /\ pc' = [pc EXCEPT ![p] = "finish"]
  /\ UNCHANGED <<chain, row, api, broker, locks, stored, again, locals, batch>>

\* The task's locals that hold no value between two wallets.
Forget(p) ==
  /\ from' = [from EXCEPT ![p] = 0]
  /\ found' = [found EXCEPT ![p] = {}]
  /\ high' = [high EXCEPT ![p] = 0]
  /\ snap' = [snap EXCEPT ![p] = {}]

StampBlock(p) ==
  block' = IF wal[p] \in Solana THEN block ELSE [block EXCEPT ![wal[p]] = high[p]]

FinishRecon(p) ==
  /\ pc[p] = "finish" /\ job[p] = "recon" /\ RowFree(wal[p])
  /\ StampBlock(p)
  /\ status' = [status EXCEPT ![wal[p]] = "synced"]
  /\ pc' = [pc EXCEPT ![p] = "report"]
  /\ Forget(p)
  /\ UNCHANGED <<chain, active, api, broker, locks, ledger, job, msg, wal, batch>>

FinishSync(p) ==
  /\ pc[p] = "finish" /\ job[p] = "sync" /\ RowFree(wal[p])
  /\ StampBlock(p)
  /\ pc' = [pc EXCEPT ![p] = "next"]
  /\ wal' = [wal EXCEPT ![p] = NoWallet]
  /\ Forget(p)
  /\ UNCHANGED <<chain, active, status, api, broker, locks, ledger, job, msg, batch>>

\* The last progress update, outside the transaction that finalised the row.
ReportComplete(p) ==
  /\ pc[p] = "report"
  /\ pc' = [pc EXCEPT ![p] = "release"]
  /\ UNCHANGED <<chain, row, api, broker, locks, ledger, locals, batch>>

-----------------------------------------------------------------------------
(* Failures and the end of a run.                                          *)

\* A step of the reconstruction raises; its transaction is rolled back.
ReconRaises(p) ==
  /\ Faults /\ job[p] = "recon" /\ pc[p] \in ReconPC \ {"except", "retry", "release"}
  /\ pc' = [pc EXCEPT ![p] = "except"]
  /\ Forget(p)
  /\ UNCHANGED <<chain, row, api, broker, locks, ledger, job, msg, wal, batch>>

\* Mutant: one retry too many.
MayRetryOnceMore(m) == m.retries <= MaxRetries

MayRetry(m) == m.retries < MaxRetries

Retry(m) == [wallet |-> m.wallet, id |-> m.id, retries |-> m.retries + 1]

\* The except clause: mark the wallet, if its row is there ...
MarkError(p) ==
  /\ pc[p] = "except" /\ RowFree(wal[p])
  /\ status' = [status EXCEPT ![wal[p]] = IF @ = "absent" THEN @ ELSE "error"]
  /\ pc' = [pc EXCEPT ![p] = "retry"]
  /\ UNCHANGED <<chain, active, block, api, broker, locks, ledger, locals, batch>>

\* ... and, once that is committed, self.retry, up to MaxRetries times.
RetryTask(p) ==
  /\ pc[p] = "retry"
  /\ broker' = IF MayRetry(msg[p])
                 THEN broker \cup {Retry(msg[p])}
                 ELSE broker
  /\ pc' = [pc EXCEPT ![p] = "release"]
  /\ UNCHANGED <<chain, row, api, locks, ledger, locals, batch>>

\* The except clause raises itself: the UPDATE fails, or the message cannot be sent.
HandlerRaises(p) ==
  /\ Faults /\ pc[p] \in {"except", "retry"}
  /\ pc' = [pc EXCEPT ![p] = "release"]
  /\ UNCHANGED <<chain, row, api, broker, locks, ledger, locals, batch>>

\* One wallet's failure is caught and the sync run goes on with the next.
SyncWalletRaises(p) ==
  /\ Faults /\ job[p] = "sync" /\ pc[p] \in Pipeline
  /\ pc' = [pc EXCEPT ![p] = "next"]
  /\ wal' = [wal EXCEPT ![p] = NoWallet]
  /\ Forget(p)
  /\ UNCHANGED <<chain, row, api, broker, locks, ledger, job, msg, batch>>

SyncRaises(p) ==
  /\ Faults /\ pc[p] = "list"
  /\ pc' = [pc EXCEPT ![p] = "release"]
  /\ UNCHANGED <<chain, row, api, broker, locks, ledger, locals, batch>>

\* A slot forgets its task: it returned, or its process died.
Reset(p) ==
  /\ pc' = [pc EXCEPT ![p] = "idle"]
  /\ job' = [job EXCEPT ![p] = "none"]
  /\ msg' = [msg EXCEPT ![p] = NoMsg]
  /\ wal' = [wal EXCEPT ![p] = NoWallet]
  /\ todo' = [todo EXCEPT ![p] = {}]
  /\ cps' = [cps EXCEPT ![p] = [w \in Wallet |-> 0]]
  /\ Forget(p)

\* The finally clauses delete the key whoever set it.
ReleaseRecon(p) ==
  /\ pc[p] = "release" /\ job[p] = "recon"
  /\ reconLock' = reconLock \ {wal[p]}
  /\ Reset(p)
  /\ UNCHANGED <<chain, row, api, broker, syncLock, ledger>>

ReleaseSync(p) ==
  /\ pc[p] = "release" /\ job[p] = "sync"
  /\ syncLock' = FALSE
  /\ Reset(p)
  /\ UNCHANGED <<chain, row, api, broker, reconLock, ledger>>

\* acks_late: the message of a worker that died comes back, unless Celery
\* acknowledged it on losing the child process.  The locks stay.
Crash(p) ==
  /\ Crashes /\ pc[p] # "idle"
  /\ \/ broker' = broker
     \/ job[p] = "recon" /\ broker' = broker \cup {msg[p]}
  /\ Reset(p)
  /\ UNCHANGED <<chain, row, api, locks, ledger>>

\* Redis drops a key at the end of its TTL.
ExpireRecon(w) ==
  /\ w \in reconLock
  /\ RunsFitTTL => Reconstructing(w) = {}
  /\ reconLock' = reconLock \ {w}
  /\ UNCHANGED <<chain, row, api, broker, syncLock, ledger, pc, locals, batch>>

ExpireSync ==
  /\ syncLock
  /\ RunsFitTTL => Syncing = {}
  /\ syncLock' = FALSE
  /\ UNCHANGED <<chain, row, api, broker, reconLock, ledger, pc, locals, batch>>

\* An unacknowledged message is handed out again, though its run goes on: the
\* visibility timeout has passed, or the worker lost its connection to the broker.
Redeliver(p) ==
  /\ Crashes /\ job[p] = "recon"
  /\ broker' = broker \cup {msg[p]}
  /\ UNCHANGED <<chain, row, api, locks, ledger, pc, locals, batch>>

-----------------------------------------------------------------------------
Request(w) ==
  \/ Submit(w) \/ Commit(w) \/ Rollback(w)
  \/ SetActive(w, FALSE) \/ SetActive(w, TRUE)

Deliver(p) == \E m \in broker : SkipLocked(p, m) \/ StartRecon(p, m)

\* What a worker does once it has a task, when nothing goes wrong.
Advance(p) ==
  \/ LoadWallet(p) \/ SetSyncing(p)
  \/ LoadSynced(p) \/ SyncWallet(p) \/ SyncDone(p)
  \/ ScanEvm(p) \/ ScanSolana(p) \/ CreateLots(p)
  \/ ReadLots(p) \/ WritePositions(p)
  \/ FinishRecon(p) \/ FinishSync(p) \/ ReportComplete(p)
  \/ MarkError(p) \/ RetryTask(p) \/ ReleaseRecon(p) \/ ReleaseSync(p)

Mishap(p) ==
  \/ ReconRaises(p) \/ HandlerRaises(p) \/ SyncWalletRaises(p) \/ SyncRaises(p)
  \/ Crash(p) \/ Redeliver(p)

Expire == ExpireSync \/ \E w \in Wallet : ExpireRecon(w)

Next ==
  \/ Mine
  \/ \E w \in Wallet : Request(w)
  \/ \E p \in Worker : Deliver(p) \/ StartSync(p) \/ Advance(p) \/ Mishap(p)
  \/ Expire

Spec == Init /\ [][Next]_vars

(***************************************************************************)
(* Fairness: Celery keeps a live worker running its task, hands messages   *)
(* to idle workers, the request handler reaches its commit, and the chain  *)
(* goes on producing blocks.  A sync run is started by Beat, which may be  *)
(* down, and a mishap is never due.  Delivery is strongly fair since the   *)
(* sync runs of Beat also claim the idle workers.                          *)
(***************************************************************************)
Fairness ==
  /\ WF_vars(Mine)
  /\ \A w \in Wallet : WF_vars(Commit(w))
  /\ \A p \in Worker : WF_vars(Advance(p)) /\ SF_vars(Deliver(p))

FairSpec == Spec /\ Fairness
-----------------------------------------------------------------------------
(* Properties.                                                             *)

\* Type invariant: every variable holds a value the program can give it.
TypeOK ==
  /\ height \in 1 .. MaxHeight + 1
  /\ events \subseteq Event
  /\ active \in [Wallet -> BOOLEAN]
  /\ status \in [Wallet -> {"absent", "pending", "syncing", "synced", "error"}]
  /\ block \in [Wallet -> Nat]
  /\ txn \in [Wallet -> {"none", "insert", "reactivate"}]
  /\ submits \in [Wallet -> 0 .. MaxSubmits]
  /\ broker \subseteq Message
  /\ reconLock \subseteq Wallet /\ syncLock \in BOOLEAN
  /\ stored \subseteq Event /\ again \subseteq Event /\ pos \subseteq Event
  /\ pc \in [Worker -> {"idle"} \cup ReconPC \cup SyncPC]
  /\ job \in [Worker -> {"none", "recon", "sync"}]
  /\ msg \in [Worker -> Message \cup {NoMsg}]
  /\ wal \in [Worker -> Wallet \cup {NoWallet}]
  /\ from \in [Worker -> Nat] /\ high \in [Worker -> Nat]
  /\ found \in [Worker -> SUBSET Block] /\ snap \in [Worker -> SUBSET Block]
  /\ todo \in [Worker -> SUBSET Wallet]
  /\ cps \in [Worker -> [Wallet -> Nat]]

\* lock:reconstruction:<id> keeps two workers from reconstructing one wallet
\* at a time, whatever is redelivered, retried or crashes, as long as no run
\* outlives its key: the unconditional delete then only removes one's own key.
ReconExclusive ==
  \A w \in Wallet : \A p, q \in Reconstructing(w) : p = q

\* lock:sync_new_events does the same for the runs of sync_new_events.
SyncExclusive == \A p, q \in Syncing : p = q

\* A stamped last_synced_block promises that every event of the wallet up to
\* that block has a lot: neither task ever scans below it again.
EventsCoveredByCheckpoint ==
  \A w \in Wallet \ Solana : \A b \in Block :
    <<w, b>> \in events /\ b <= block[w] => <<w, b>> \in stored

\* Recording and stamping implement the ledger's promise, whichever mishaps
\* occur: events are recorded at least once before a checkpoint covers them.
Ledger == INSTANCE EventLedger
ImplementsLedger == Ledger!Spec

\* create_lots never gives one event of an EVM wallet two lots.  (A Solana
\* wallet's whole history gets new ones at each sync: its scan has no start.)
OneLotPerEvent == again \cap ((Wallet \ Solana) \X Block) = {}

\* Two tasks never drive the pipeline of one wallet at a time; the sync and
\* the reconstruction of a wallet do not share a lock.
PipelineExclusive ==
  \A p, q \in Worker :
    pc[p] \in Pipeline /\ pc[q] \in Pipeline /\ wal[p] = wal[q] => p = q

\* The stored positions account for every lot up to the checkpoint: the read
\* and the write of compute_positions straddle no other run's lots.
PositionsCoverCheckpoint ==
  \A w \in Wallet \ Solana : \A b \in Block :
    <<w, b>> \in stored /\ b <= block[w] => <<w, b>> \in pos

\* No step moves a wallet's checkpoint back.
CheckpointNeverRegresses ==
  [][\A w \in Wallet : block'[w] >= block[w]]_block

\* A wallet whose creation committed gets its history reconstructed, or is
\* marked as failed, unless its user deletes it first.
CreatedIsReconstructed ==
  \A w \in Wallet :
    status[w] = "pending" ~> (status[w] \in {"synced", "error"} \/ ~active[w])

\* Beat keeps sending sync_new_events, and a free worker takes it.
BeatSpec == FairSpec /\ SF_vars(\E p \in Worker : StartSync(p))

\* Every event of a tracked wallet reaches the ledger.
EventIsIngested ==
  \A w \in Wallet : \A b \in Block :
    (<<w, b>> \in events /\ active[w] /\ status[w] = "synced")
      ~> (<<w, b>> \in stored \/ ~active[w])
=============================================================================
