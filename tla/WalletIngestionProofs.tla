----------------------- MODULE WalletIngestionProofs -----------------------
(***************************************************************************)
(* Theorems about WalletIngestion, for every set of wallets and workers    *)
(* and every value of the bounds and switches.                             *)
(***************************************************************************)
EXTENDS WalletIngestion, TLAPS

USE SolanaAssumption, NoWalletAssumption, BoundsAssumption, SwitchAssumption

-----------------------------------------------------------------------------
(* Typing, and the program points a task of each kind can be at.           *)

ControlOK ==
  \A p \in Worker :
    /\ pc[p] = "idle" <=> job[p] = "none"
    /\ job[p] = "recon" => pc[p] \in ReconPC /\ wal[p] \in Wallet /\ msg[p] \in Message
    /\ job[p] = "sync" => pc[p] \in SyncPC
    /\ pc[p] \in Pipeline => wal[p] \in Wallet

Typed == TypeOK /\ ControlOK

\* Before the first request every worker is idle and nothing is stored.
LEMMA TypedInit == Init => Typed
  <1> SUFFICES ASSUME Init  PROVE Typed
    OBVIOUS
  <1>1. /\ height \in 1 .. MaxHeight + 1
        /\ status \in [Wallet -> {"absent", "pending", "syncing", "synced", "error"}]
        /\ txn \in [Wallet -> {"none", "insert", "reactivate"}]
        /\ pc \in [Worker -> {"idle"} \cup ReconPC \cup SyncPC]
        /\ job \in [Worker -> {"none", "recon", "sync"}]
    BY DEF Init
  <1>2. /\ msg \in [Worker -> Message \cup {NoMsg}]
        /\ wal \in [Worker -> Wallet \cup {NoWallet}]
        /\ todo \in [Worker -> SUBSET Wallet]
        /\ cps \in [Worker -> [Wallet -> Nat]]
    BY DEF Init
  <1>3. TypeOK
    <2>1. /\ active \in [Wallet -> BOOLEAN] /\ block \in [Wallet -> Nat]
          /\ submits \in [Wallet -> 0 .. MaxSubmits]
          /\ from \in [Worker -> Nat] /\ high \in [Worker -> Nat]
      BY DEF Init
    <2>2. found \in [Worker -> SUBSET Block] /\ snap \in [Worker -> SUBSET Block]
      BY DEF Init
    <2> QED
      BY <1>1, <1>2, <2>1, <2>2 DEF Init, TypeOK
  <1>4. ControlOK
    BY DEF Init, ControlOK, ReconPC, SyncPC, Pipeline
  <1> QED
    BY <1>3, <1>4 DEF Typed

\* Requests, the chain and the expiry of keys preserve the types.
LEMMA TypedEnvironment ==
  ASSUME Typed, Mine \/ (\E w \in Wallet : Request(w)) \/ Expire
  PROVE  Typed'
  <1> USE DEF Typed, TypeOK, ControlOK, row, api, locks, ledger, locals, batch
  <1>1. CASE Mine
    BY <1>1 DEF Mine, Event, Block
  <1>2. ASSUME NEW w \in Wallet, Submit(w)  PROVE Typed'
    BY <1>2 DEF Submit, chain, Message
  <1>3. ASSUME NEW w \in Wallet, Commit(w)  PROVE Typed'
    BY <1>3 DEF Commit, chain
  <1>4. ASSUME NEW w \in Wallet, Rollback(w)  PROVE Typed'
    BY <1>4 DEF Rollback, chain
  <1>5. ASSUME NEW w \in Wallet, SetActive(w, FALSE) \/ SetActive(w, TRUE)  PROVE Typed'
    BY <1>5 DEF SetActive, chain
  <1>6. CASE Expire
    BY <1>6 DEF Expire, ExpireSync, ExpireRecon, chain
  <1> QED
    BY <1>1, <1>2, <1>3, <1>4, <1>5, <1>6 DEF Request

\* A worker's steps preserve the types.
LEMMA TypedWorker ==
  ASSUME Typed, NEW p \in Worker, Deliver(p) \/ StartSync(p) \/ Advance(p) \/ Mishap(p)
  PROVE  Typed'
  <1> USE DEF Typed, TypeOK, ControlOK, chain, row, api, locks, ledger, locals, batch,
              ReconPC, SyncPC, Pipeline
  <1>1. ASSUME NEW m \in broker, SkipLocked(p, m)  PROVE Typed'
    BY <1>1 DEF SkipLocked
  <1>2. ASSUME NEW m \in broker, StartRecon(p, m)  PROVE Typed'
    BY <1>2 DEF StartRecon, Message
  <1>3. CASE StartSync(p)
    BY <1>3 DEF StartSync
  <1>4. CASE LoadWallet(p)
    <2>1. wal[p] \in Wallet /\ pc[p] = "load"
      BY <1>4 DEF LoadWallet
    <2>2. CASE active[wal[p]]
      <3>1. from' = [from EXCEPT ![p] = block[wal[p]]] /\ pc' = [pc EXCEPT ![p] = "mark"]
        BY <1>4, <2>2 DEF LoadWallet
      <3>2. block[wal[p]] \in Nat
        BY <2>1
      <3>3. from' \in [Worker -> Nat]
        BY <3>1, <3>2
      <3> QED
        BY <1>4, <2>1, <3>1, <3>3 DEF LoadWallet
    <2>3. CASE ~active[wal[p]]
      BY <1>4, <2>1, <2>3 DEF LoadWallet
    <2> QED
      BY <2>2, <2>3
  <1>5. CASE SetSyncing(p)
    BY <1>5 DEF SetSyncing
  <1>6. CASE LoadSynced(p)
    BY <1>6 DEF LoadSynced, SyncedWallets
  <1>7. CASE SyncWallet(p)
    BY <1>7 DEF SyncWallet, SyncFrom
  <1>8. CASE SyncDone(p)
    BY <1>8 DEF SyncDone
  <1>9. CASE ScanEvm(p)
    BY <1>9 DEF ScanEvm, Visible, Highest, AfterScan
  <1>10. CASE ScanSolana(p)
    <2>1. PICK B \in SUBSET Block :
            found' = [found EXCEPT ![p] = B] /\ pc' = [pc EXCEPT ![p] = AfterScan(B)]
      BY <1>10 DEF ScanSolana, Visible
    <2>2. wal[p] \in Wallet /\ AfterScan(B) \in {"store", "finish"}
      BY <1>10 DEF ScanSolana, AfterScan
    <2> QED
      BY <1>10, <2>1, <2>2 DEF ScanSolana
  <1>11. CASE CreateLots(p)
    BY <1>11 DEF CreateLots, Event
  <1>12. CASE ReadLots(p)
    BY <1>12 DEF ReadLots, AllLots
  <1>13. CASE WritePositions(p)
    BY <1>13 DEF WritePositions, Event
  <1>14. CASE FinishRecon(p)
    BY <1>14 DEF FinishRecon, StampBlock, Forget
  <1>15. CASE FinishSync(p)
    BY <1>15 DEF FinishSync, StampBlock, Forget
  <1>16. CASE ReportComplete(p)
    BY <1>16 DEF ReportComplete
  <1>17. CASE MarkError(p)
    BY <1>17 DEF MarkError
  <1>26. CASE RetryTask(p)
    <2>1. msg[p] \in Message
      BY <1>26 DEF RetryTask
    <2>2. MayRetry(msg[p]) => Retry(msg[p]) \in Message
      BY <2>1 DEF MayRetry, Retry, Message
    <2>3. broker' \subseteq Message
      BY <1>26, <2>2 DEF RetryTask
    <2> QED
      BY <1>26, <2>3 DEF RetryTask
  <1>18. CASE ReleaseRecon(p)
    BY <1>18 DEF ReleaseRecon, Reset, Forget
  <1>19. CASE ReleaseSync(p)
    BY <1>19 DEF ReleaseSync, Reset, Forget
  <1>20. CASE ReconRaises(p)
    BY <1>20 DEF ReconRaises, Forget
  <1>21. CASE HandlerRaises(p)
    BY <1>21 DEF HandlerRaises
  <1>22. CASE SyncWalletRaises(p)
    BY <1>22 DEF SyncWalletRaises, Forget
  <1>23. CASE SyncRaises(p)
    BY <1>23 DEF SyncRaises
  <1>24. CASE Crash(p)
    BY <1>24 DEF Crash, Reset, Forget
  <1>25. CASE Redeliver(p)
    BY <1>25 DEF Redeliver
  <1> QED
    BY <1>1, <1>2, <1>3, <1>4, <1>5, <1>6, <1>7, <1>8, <1>9, <1>10, <1>11, <1>12, <1>13,
       <1>14, <1>15, <1>16, <1>17, <1>18, <1>19, <1>20, <1>21, <1>22, <1>23, <1>24, <1>25, <1>26
       DEF Deliver, Advance, Mishap

\* Every step preserves the types.
LEMMA TypedStep == Typed /\ [Next]_vars => Typed'
  <1> SUFFICES ASSUME Typed, [Next]_vars  PROVE Typed'
    OBVIOUS
  <1>1. CASE UNCHANGED vars
    BY <1>1 DEF vars, chain, row, api, locks, ledger, locals, batch, Typed, TypeOK, ControlOK
  <1> QED
    BY <1>1, TypedEnvironment, TypedWorker DEF Next

\* The types, and where each kind of task can be, hold in every state.
LEMMA TypedAlways == Spec => []Typed
  BY TypedInit, TypedStep, PTL DEF Spec

\* Every variable keeps its type, whatever the switches allow.
THEOREM TypeCorrect == Spec => []TypeOK
  <1>1. Typed => TypeOK
    BY DEF Typed
  <1> QED
    BY <1>1, TypedAlways, PTL

-----------------------------------------------------------------------------
(* Mutual exclusion.  The locks carry no owner, so the invariant ties each *)
(* key to the one worker inside the section it guards: a release then can  *)
(* only delete its own key, and an expiry none that is in use.             *)

ReconLockOK ==
  /\ \A p \in Worker : job[p] = "recon" => wal[p] \in reconLock
  /\ \A p, q \in Worker : job[p] = "recon" /\ job[q] = "recon" /\ wal[p] = wal[q] => p = q

SyncLockOK ==
  /\ \A p \in Worker : job[p] = "sync" => syncLock
  /\ \A p, q \in Worker : job[p] = "sync" /\ job[q] = "sync" => p = q

LockOK == ReconLockOK /\ SyncLockOK

\* Steps that leave the keys, the tasks and a reconstruction's wallet alone.
LEMMA LockOKFrame ==
  ASSUME LockOK, UNCHANGED <<locks, job>>,
         \A p \in Worker : job[p] = "recon" => wal'[p] = wal[p]
  PROVE  LockOK'
  BY DEF LockOK, ReconLockOK, SyncLockOK, locks

\* Every step keeps each key tied to the worker inside its section: SET NX is
\* refused while one is there, and only that one deletes the key.
LEMMA LockOKStep ==
  ASSUME RunsFitTTL, Typed, LockOK, [Next]_vars
  PROVE  LockOK'
  <1> USE DEF Typed, TypeOK, ControlOK, ReconPC, SyncPC, Pipeline, locals
  <1>1. CASE Mine \/ UNCHANGED vars
    BY <1>1, LockOKFrame DEF Mine, vars
  <1>2. ASSUME NEW w \in Wallet, Request(w)  PROVE LockOK'
    BY <1>2, LockOKFrame DEF Request, Submit, Commit, Rollback, SetActive
  <1>3. CASE Expire
    BY <1>3 DEF Expire, ExpireSync, ExpireRecon, Reconstructing, Syncing,
                LockOK, ReconLockOK, SyncLockOK
  <1>4. ASSUME NEW p \in Worker, Deliver(p)  PROVE LockOK'
    <2>1. ASSUME NEW m \in broker, SkipLocked(p, m)  PROVE LockOK'
      BY <2>1, LockOKFrame DEF SkipLocked
    <2>2. ASSUME NEW m \in broker, StartRecon(p, m)  PROVE LockOK'
      BY <2>2 DEF StartRecon, ReconKeyFree, LockOK, ReconLockOK, SyncLockOK
    <2> QED
      BY <1>4, <2>1, <2>2 DEF Deliver
  <1>5. ASSUME NEW p \in Worker, StartSync(p)  PROVE LockOK'
    BY <1>5 DEF StartSync, SyncKeyFree, LockOK, ReconLockOK, SyncLockOK
  <1>6. ASSUME NEW p \in Worker, Advance(p)  PROVE LockOK'
    <2>1. CASE ReleaseRecon(p)
      BY <2>1 DEF ReleaseRecon, Reset, LockOK, ReconLockOK, SyncLockOK
    <2>2. CASE ReleaseSync(p)
      BY <2>2 DEF ReleaseSync, Reset, LockOK, ReconLockOK, SyncLockOK
    <2>3. CASE SyncWallet(p)
      BY <2>3, LockOKFrame DEF SyncWallet
    <2>4. CASE FinishSync(p)
      BY <2>4, LockOKFrame DEF FinishSync
    <2>5. CASE LoadWallet(p) \/ SetSyncing(p) \/ LoadSynced(p) \/ SyncDone(p)
      BY <2>5, LockOKFrame DEF LoadWallet, SetSyncing, LoadSynced, SyncDone
    <2>6. CASE ScanEvm(p) \/ ScanSolana(p) \/ CreateLots(p) \/ ReadLots(p) \/ WritePositions(p)
      BY <2>6, LockOKFrame DEF ScanEvm, ScanSolana, CreateLots, ReadLots, WritePositions
    <2>7. CASE FinishRecon(p) \/ ReportComplete(p) \/ MarkError(p) \/ RetryTask(p)
      BY <2>7, LockOKFrame DEF FinishRecon, ReportComplete, MarkError, RetryTask
    <2> QED
      BY <1>6, <2>1, <2>2, <2>3, <2>4, <2>5, <2>6, <2>7 DEF Advance
  <1>7. ASSUME NEW p \in Worker, Mishap(p)  PROVE LockOK'
    <2>1. CASE Crash(p)
      BY <2>1 DEF Crash, Reset, locks, LockOK, ReconLockOK, SyncLockOK
    <2>2. CASE SyncWalletRaises(p)
      BY <2>2, LockOKFrame DEF SyncWalletRaises
    <2>3. CASE ReconRaises(p) \/ HandlerRaises(p) \/ SyncRaises(p) \/ Redeliver(p)
      BY <2>3, LockOKFrame DEF ReconRaises, HandlerRaises, SyncRaises, Redeliver
    <2> QED
      BY <1>7, <2>1, <2>2, <2>3 DEF Mishap
  <1> QED
    BY <1>1, <1>2, <1>3, <1>4, <1>5, <1>6, <1>7 DEF Next

LEMMA LockAlways ==
  ASSUME RunsFitTTL
  PROVE  Spec => []LockOK
  <1>1. Init => LockOK
    BY DEF Init, LockOK, ReconLockOK, SyncLockOK
  <1>2. Typed /\ LockOK /\ [Next]_vars => LockOK'
    BY LockOKStep
  <1> QED
    BY <1>1, <1>2, TypedAlways, PTL DEF Spec

\* As long as no run outlives its key, at most one worker reconstructs a
\* wallet, across retries, crashes, redeliveries and the keys left behind by
\* dead workers.
THEOREM MutualExclusion ==
  ASSUME RunsFitTTL
  PROVE  Spec => []ReconExclusive
  <1>1. LockOK => ReconExclusive
    BY DEF LockOK, ReconLockOK, ReconExclusive, Reconstructing
  <1> QED
    BY <1>1, LockAlways, PTL

\* Under the same assumption at most one worker runs sync_new_events.
THEOREM OneSyncAtATime ==
  ASSUME RunsFitTTL
  PROVE  Spec => []SyncExclusive
  <1>1. LockOK => SyncExclusive
    BY DEF LockOK, SyncLockOK, SyncExclusive, Syncing
  <1> QED
    BY <1>1, LockAlways, PTL

-----------------------------------------------------------------------------
(* The ledger.  A block number in a worker's hands is settled if nothing   *)
(* is missing up to it and nothing can still appear there; settled blocks  *)
(* stay settled, so a stale one is as good as a fresh one.                 *)

Settled(w, n) == Ledger!Settled(w, n)

\* What the worker has yet to record of the blocks it is about to cover.
PendingOK(p) ==
  /\ high[p] < height
  /\ \A b \in Block :
       <<wal[p], b>> \in events /\ b <= high[p] => <<wal[p], b>> \in stored \/ b \in found[p]

WorkerOK(p) ==
  /\ pc[p] = "store" => {wal[p]} \X found[p] \subseteq events
  /\ \A w \in Wallet \ Solana : w \in todo[p] => Settled(w, cps[p][w])
  /\ wal[p] \notin Solana =>
       /\ pc[p] \in {"mark", "scan"} => Settled(wal[p], from[p] - 1)
       /\ pc[p] = "store" => PendingOK(p)
       /\ pc[p] \in {"read", "write", "finish"} => Settled(wal[p], high[p])

CoverOK ==
  /\ \A w \in Wallet, b \in Block : <<w, b>> \in events => b < height
  /\ \A w \in Wallet \ Solana : Settled(w, block[w])
  /\ \A p \in Worker : WorkerOK(p)

\* The chain and the ledger only grow, and the chain grows at its end.
Grows ==
  /\ height <= height' /\ stored \subseteq stored' /\ events \subseteq events'
  /\ \A w \in Wallet, b \in Block : <<w, b>> \in events' \ events => height <= b

\* A worker's obligations survive any step that does not touch its locals.
LEMMA WorkerOKStable ==
  ASSUME Typed, Typed', Grows, NEW p \in Worker, WorkerOK(p),
         pc'[p] = pc[p], wal'[p] = wal[p], from'[p] = from[p], found'[p] = found[p],
         high'[p] = high[p], todo'[p] = todo[p], cps'[p] = cps[p]
  PROVE  WorkerOK(p)'
  <1> USE DEF Typed, TypeOK, Settled, Ledger!Settled, Grows, Block
  <1>1. /\ from[p] \in Nat /\ high[p] \in Nat /\ height \in Nat /\ height' \in Nat
        /\ \A w \in Wallet : cps[p][w] \in Nat
        /\ todo[p] \subseteq Wallet
        /\ pc[p] \in {"mark", "scan", "store", "read", "write", "finish"} => wal[p] \in Wallet
    <2>1. job[p] \in {"none", "recon", "sync"}
      OBVIOUS
    <2>2. pc[p] \in {"mark", "scan", "store", "read", "write", "finish"} => wal[p] \in Wallet
      BY <2>1 DEF ControlOK, Pipeline, ReconPC, SyncPC
    <2> QED
      BY <2>2
  <1>2. (pc[p] = "store" => {wal[p]} \X found[p] \subseteq events)'
    BY DEF WorkerOK
  <1>3. (\A w \in Wallet \ Solana : w \in todo[p] => Settled(w, cps[p][w]))'
    <2> SUFFICES ASSUME NEW w \in Wallet \ Solana, w \in todo[p]
                 PROVE  Settled(w, cps[p][w])'
      OBVIOUS
    <2>1. Settled(w, cps[p][w]) /\ cps[p][w] \in Nat
      BY <1>1 DEF WorkerOK
    <2> QED
      BY <1>1, <2>1
  <1>4. ASSUME wal[p] \notin Solana, pc[p] \in {"mark", "scan"}
        PROVE  Settled(wal[p], from[p] - 1)'
    <2>1. Settled(wal[p], from[p] - 1)
      BY <1>4 DEF WorkerOK
    <2> QED
      BY <1>1, <1>4, <2>1
  <1>5. ASSUME wal[p] \notin Solana, pc[p] = "store"
        PROVE  PendingOK(p)'
    <2>1. PendingOK(p)
      BY <1>5 DEF WorkerOK
    <2> QED
      BY <1>1, <1>5, <2>1 DEF PendingOK
  <1>6. ASSUME wal[p] \notin Solana, pc[p] \in {"read", "write", "finish"}
        PROVE  Settled(wal[p], high[p])'
    <2>1. Settled(wal[p], high[p])
      BY <1>6 DEF WorkerOK
    <2> QED
      BY <1>1, <1>6, <2>1
  <1> QED
    BY <1>2, <1>3, <1>4, <1>5, <1>6 DEF WorkerOK

\* The chain is never ahead of its height, and everything only grows.
LEMMA NextGrows ==
  ASSUME Typed, Typed', [Next]_vars
  PROVE  Grows
  <1> USE DEF Grows, chain, ledger
  <1>1. height \in Nat
    BY DEF Typed, TypeOK
  <1>2. CASE Mine
    BY <1>1, <1>2 DEF Mine
  <1>3. ASSUME NEW p \in Worker, CreateLots(p)  PROVE Grows
    BY <1>1, <1>3 DEF CreateLots
  <1>4. CASE UNCHANGED <<chain, stored>>
    BY <1>1, <1>4
  <1>5. ASSUME NEW w \in Wallet, Request(w)  PROVE UNCHANGED <<chain, stored>>
    BY <1>5 DEF Request, Submit, Commit, Rollback, SetActive
  <1>6. Expire => UNCHANGED <<chain, stored>>
    BY DEF Expire, ExpireSync, ExpireRecon
  <1>7. ASSUME NEW p \in Worker, Deliver(p) \/ StartSync(p) \/ Mishap(p)
        PROVE  UNCHANGED <<chain, stored>>
    BY <1>7 DEF Deliver, SkipLocked, StartRecon, StartSync, Mishap, ReconRaises, HandlerRaises,
                SyncWalletRaises, SyncRaises, Crash, Redeliver
  <1>8. ASSUME NEW p \in Worker, Advance(p), ~CreateLots(p)
        PROVE  UNCHANGED <<chain, stored>>
    BY <1>8 DEF Advance, LoadWallet, SetSyncing, LoadSynced, SyncWallet, SyncDone, ScanEvm,
                ScanSolana, ReadLots, WritePositions, FinishRecon, FinishSync, ReportComplete,
                MarkError, RetryTask, ReleaseRecon, ReleaseSync
  <1> QED
    BY <1>2, <1>3, <1>4, <1>5, <1>6, <1>7, <1>8 DEF Next, vars

\* What is left to show of a step that touches no worker but p.
LEMMA CoverFrame ==
  ASSUME Typed, Typed', Grows, CoverOK, NEW p \in Worker, WorkerOK(p)',
         \A q \in Worker \ {p} :
           /\ pc'[q] = pc[q] /\ wal'[q] = wal[q] /\ from'[q] = from[q] /\ found'[q] = found[q]
           /\ high'[q] = high[q] /\ todo'[q] = todo[q] /\ cps'[q] = cps[q],
         UNCHANGED chain,
         \A w \in Wallet \ Solana : block'[w] = block[w] \/ Settled(w, block[w])'
  PROVE  CoverOK'
  <1>1. (\A w \in Wallet, b \in Block : <<w, b>> \in events => b < height)'
    BY DEF CoverOK, chain
  <1>2. (\A w \in Wallet \ Solana : Settled(w, block[w]))'
    BY DEF CoverOK, Settled, Ledger!Settled, Grows, chain
  <1>3. ASSUME NEW q \in Worker  PROVE WorkerOK(q)'
    BY WorkerOKStable DEF CoverOK
  <1> QED
    BY <1>1, <1>2, <1>3 DEF CoverOK

\* The steps between two network reads or transactions of a task.
LEMMA CoverOKAdvance ==
  ASSUME ChainAdvances, Typed, Typed', Grows, CoverOK, NEW p \in Worker, Advance(p)
  PROVE  CoverOK'
  <1> USE DEF Typed, TypeOK, row, ledger, locals, batch
  <1>1. WorkerOK(p)
    BY DEF CoverOK
  <1>2. CASE LoadWallet(p)
    <2>1. wal[p] \in Wallet
      BY <1>2 DEF LoadWallet, ControlOK, SyncPC, Pipeline
    <2>2. wal[p] \notin Solana => Settled(wal[p], block[wal[p]])
      BY <2>1 DEF CoverOK
    <2>3. WorkerOK(p)'
      BY <1>1, <1>2, <2>1, <2>2 DEF LoadWallet, WorkerOK, Settled, Ledger!Settled, chain, Block
    <2> QED
      BY <1>2, <2>3, CoverFrame DEF LoadWallet
  <1>3. CASE SetSyncing(p)
    <2>1. WorkerOK(p)'
      BY <1>1, <1>3 DEF SetSyncing, WorkerOK, Settled, Ledger!Settled, chain
    <2> QED
      BY <1>3, <2>1, CoverFrame DEF SetSyncing
  <1>4. CASE LoadSynced(p)
    <2>1. \A w \in Wallet \ Solana : Settled(w, block[w])
      BY DEF CoverOK
    <2>2. WorkerOK(p)'
      BY <1>1, <1>4, <2>1 DEF LoadSynced, WorkerOK, Settled, Ledger!Settled, chain
    <2> QED
      BY <1>4, <2>2, CoverFrame DEF LoadSynced
  <1>5. CASE SyncWallet(p)
    <2>1. PICK w \in todo[p] :
            /\ todo' = [todo EXCEPT ![p] = @ \ {w}]
            /\ wal' = [wal EXCEPT ![p] = w]
            /\ from' = [from EXCEPT ![p] = SyncFrom(p, w)]
      BY <1>5 DEF SyncWallet
    <2>2. w \in Wallet /\ cps[p][w] \in Nat
      OBVIOUS
    <2>3. w \notin Solana => Settled(w, cps[p][w])
      BY <1>1, <2>2 DEF WorkerOK
    <2>4. WorkerOK(p)'
      <3>1. /\ pc'[p] = "scan" /\ wal'[p] = w /\ todo'[p] \subseteq todo[p]
            /\ from'[p] = SyncFrom(p, w)
            /\ cps' = cps /\ UNCHANGED <<height, events, stored>>
        BY <1>5, <2>1 DEF SyncWallet, chain
      <3>2. w \notin Solana => from'[p] - 1 = cps[p][w]
        BY <2>2, <3>1 DEF SyncFrom
      <3>3. w \notin Solana => Settled(wal[p], from[p] - 1)'
        BY <2>3, <3>1, <3>2 DEF Settled, Ledger!Settled
      <3>4. (\A v \in Wallet \ Solana : v \in todo[p] => Settled(v, cps[p][v]))'
        BY <1>1, <3>1 DEF WorkerOK, Settled, Ledger!Settled
      <3> QED
        BY <3>1, <3>3, <3>4 DEF WorkerOK
    <2> QED
      BY <1>5, <2>1, <2>4, CoverFrame DEF SyncWallet
  <1>6. CASE ScanEvm(p)
    <2>1. wal[p] \in Wallet \ Solana /\ from[p] \in Nat /\ height \in Nat
      BY <1>6 DEF ScanEvm, ControlOK, Pipeline
    <2> DEFINE B == Visible(wal[p], from[p])
    <2>2. PICK h \in 0 .. MaxHeight + 1 :
            Highest(h, from[p], B) /\ high' = [high EXCEPT ![p] = h]
      BY <1>6 DEF ScanEvm
    <2>3. from[p] < height /\ Settled(wal[p], from[p] - 1)
      BY <1>1, <1>6, <2>1 DEF ScanEvm, WorkerOK
    <2>4. h < height
      BY <2>1, <2>2, <2>3 DEF Highest, Visible, CoverOK
    <2>5. \A b \in Block : <<wal[p], b>> \in events /\ b <= h =>
            <<wal[p], b>> \in stored \/ b \in B
      <3> SUFFICES ASSUME NEW b \in Block, <<wal[p], b>> \in events
                   PROVE  <<wal[p], b>> \in stored \/ b \in B
        OBVIOUS
      <3>1. CASE b <= from[p] - 1
        BY <2>3, <3>1 DEF Settled, Ledger!Settled
      <3>2. CASE from[p] <= b
        BY <3>2 DEF Visible
      <3> QED
        BY <2>1, <3>1, <3>2 DEF Block
    <2>6. found' = [found EXCEPT ![p] = B] /\ pc' = [pc EXCEPT ![p] = AfterScan(B)]
      BY <1>6 DEF ScanEvm
    <2>7. {wal[p]} \X B \subseteq events
      <3>1. \A b \in B : <<wal[p], b>> \in events
        BY DEF Visible
      <3> HIDE DEF B
      <3> QED
        BY <3>1
    <2>8. WorkerOK(p)'
      <3> HIDE DEF B
      <3>1. /\ wal'[p] = wal[p] /\ found'[p] = B /\ high'[p] = h /\ pc'[p] = AfterScan(B)
            /\ todo'[p] = todo[p] /\ cps'[p] = cps[p]
            /\ UNCHANGED <<height, events, stored>>
        BY <1>6, <2>2, <2>6 DEF ScanEvm, chain
      <3>2. CASE B = {}
        <4>1. pc'[p] = "finish" /\ Settled(wal[p], high[p])'
          BY <2>4, <2>5, <3>1, <3>2 DEF AfterScan, Settled, Ledger!Settled
        <4> QED
          BY <1>1, <3>1, <4>1 DEF WorkerOK, Settled, Ledger!Settled
      <3>3. CASE B # {}
        <4>1. pc'[p] = "store" /\ PendingOK(p)'
          BY <2>4, <2>5, <3>1, <3>3 DEF AfterScan, PendingOK
        <4> QED
          BY <1>1, <2>7, <3>1, <4>1 DEF WorkerOK, Settled, Ledger!Settled
      <3> QED
        BY <3>2, <3>3
    <2> QED
      BY <1>6, <2>2, <2>6, <2>8, CoverFrame DEF ScanEvm
  <1>7. CASE ScanSolana(p)
    <2>1. PICK B \in SUBSET Visible(wal[p], 1) :
            found' = [found EXCEPT ![p] = B] /\ pc' = [pc EXCEPT ![p] = AfterScan(B)]
      BY <1>7 DEF ScanSolana
    <2>2. AfterScan(B) \in {"store", "finish"} /\ {wal[p]} \X B \subseteq events
      BY DEF AfterScan, Visible
    <2>3. WorkerOK(p)'
      BY <1>1, <1>7, <2>1, <2>2 DEF ScanSolana, WorkerOK, Settled, Ledger!Settled, chain
    <2> QED
      BY <1>7, <2>1, <2>3, CoverFrame DEF ScanSolana
  <1>8. CASE CreateLots(p)
    <2>1. wal[p] \in Wallet
      BY <1>8 DEF CreateLots, ControlOK, Pipeline
    <2>2. WorkerOK(p)'
      BY <1>1, <1>8, <2>1 DEF CreateLots, WorkerOK, PendingOK, Settled, Ledger!Settled, chain
    <2> QED
      BY <1>8, <2>2, CoverFrame DEF CreateLots
  <1>9. CASE ReadLots(p) \/ WritePositions(p)
    <2>1. WorkerOK(p)'
      BY <1>1, <1>9 DEF ReadLots, WritePositions, WorkerOK, Settled, Ledger!Settled, chain
    <2> QED
      BY <1>9, <2>1, CoverFrame DEF ReadLots, WritePositions
  <1>10. CASE FinishRecon(p) \/ FinishSync(p)
    <2>1. wal[p] \in Wallet /\ pc[p] = "finish"
      BY <1>10 DEF FinishRecon, FinishSync, ControlOK, Pipeline
    <2>2. WorkerOK(p)'
      BY <1>1, <1>10, <2>1
         DEF FinishRecon, FinishSync, Forget, WorkerOK, Settled, Ledger!Settled, chain
    <2>3. wal[p] \notin Solana => Settled(wal[p], high[p])
      BY <1>1, <2>1 DEF WorkerOK
    <2>4. \A w \in Wallet \ Solana : block'[w] = block[w] \/ Settled(w, block[w])'
      BY <1>10, <2>1, <2>3
         DEF FinishRecon, FinishSync, StampBlock, Settled, Ledger!Settled, chain
    <2> QED
      BY <1>10, <2>2, <2>4, CoverFrame DEF FinishRecon, FinishSync, Forget
  <1>11. CASE SyncDone(p) \/ ReportComplete(p) \/ MarkError(p) \/ RetryTask(p)
    <2>1. WorkerOK(p)'
      BY <1>1, <1>11
         DEF SyncDone, ReportComplete, MarkError, RetryTask, WorkerOK, Settled, Ledger!Settled,
             chain
    <2> QED
      BY <1>11, <2>1, CoverFrame DEF SyncDone, ReportComplete, MarkError, RetryTask
  <1>12. CASE ReleaseRecon(p) \/ ReleaseSync(p)
    <2>1. WorkerOK(p)'
      BY <1>1, <1>12 DEF ReleaseRecon, ReleaseSync, Reset, Forget, WorkerOK
    <2> QED
      BY <1>12, <2>1, CoverFrame DEF ReleaseRecon, ReleaseSync, Reset, Forget
  <1> QED
    BY <1>2, <1>3, <1>4, <1>5, <1>6, <1>7, <1>8, <1>9, <1>10, <1>11, <1>12 DEF Advance

\* Every step keeps what is settled, settled: the block a task stamps covers no
\* event without a lot, however old the checkpoint its scan started from.
LEMMA CoverOKStep ==
  ASSUME ChainAdvances, Typed, Typed', CoverOK, [Next]_vars
  PROVE  CoverOK'
  <1> USE DEF locals, batch, ledger, row
  <1>1. Grows
    BY NextGrows
  <1>2. CASE Mine
    <2>1. (\A w \in Wallet, b \in Block : <<w, b>> \in events => b < height)'
      BY <1>2 DEF Mine, CoverOK, Typed, TypeOK, Block
    <2>2. (\A w \in Wallet \ Solana : Settled(w, block[w]))'
      BY <1>1, <1>2 DEF Mine, CoverOK, Settled, Ledger!Settled, Grows, Typed, TypeOK, Block
    <2>3. \A p \in Worker : WorkerOK(p)'
      BY <1>1, <1>2, WorkerOKStable DEF Mine, CoverOK
    <2> QED
      BY <2>1, <2>2, <2>3 DEF CoverOK
  <1>3. ASSUME UNCHANGED <<chain, block, ledger, pc, locals, batch>>  PROVE CoverOK'
    <2>1. \A p \in Worker : WorkerOK(p)'
      BY <1>1, <1>3, WorkerOKStable DEF CoverOK
    <2> QED
      BY <1>3, <2>1 DEF CoverOK, Settled, Ledger!Settled, chain
  <1>4. ASSUME NEW w \in Wallet, Request(w)
        PROVE  UNCHANGED <<chain, block, ledger, pc, locals, batch>>
    BY <1>4 DEF Request, Submit, Commit, Rollback, SetActive
  <1>5. Expire \/ UNCHANGED vars => UNCHANGED <<chain, block, ledger, pc, locals, batch>>
    BY DEF Expire, ExpireSync, ExpireRecon, vars
  <1>6. ASSUME NEW p \in Worker, Deliver(p) \/ StartSync(p) \/ Mishap(p)  PROVE CoverOK'
    <2>1. WorkerOK(p)
      BY DEF CoverOK
    <2>2. CASE \E m \in broker : SkipLocked(p, m)
      BY <1>3, <2>2 DEF SkipLocked
    <2>3. CASE Redeliver(p)
      BY <1>3, <2>3 DEF Redeliver
    <2>4. CASE (\E m \in broker : StartRecon(p, m)) \/ StartSync(p)
      <3>1. WorkerOK(p)'
        BY <2>1, <2>4 DEF StartRecon, StartSync, WorkerOK, Settled, Ledger!Settled, chain, Typed, TypeOK
      <3> QED
        BY <1>1, <2>4, <3>1, CoverFrame DEF StartRecon, StartSync, Typed, TypeOK
    <2>5. CASE ReconRaises(p) \/ HandlerRaises(p) \/ SyncWalletRaises(p) \/ SyncRaises(p)
      <3>1. WorkerOK(p)'
        BY <2>1, <2>5 DEF ReconRaises, HandlerRaises, SyncWalletRaises, SyncRaises, WorkerOK,
                         Settled, Ledger!Settled, chain, Typed, TypeOK
      <3> QED
        BY <1>1, <2>5, <3>1, CoverFrame
           DEF ReconRaises, HandlerRaises, SyncWalletRaises, SyncRaises, Forget, Typed, TypeOK
    <2>6. CASE Crash(p)
      <3>1. WorkerOK(p)'
        BY <2>6 DEF Crash, Reset, WorkerOK, Typed, TypeOK
      <3> QED
        BY <1>1, <2>6, <3>1, CoverFrame DEF Crash, Reset, Forget, Typed, TypeOK
    <2> QED
      BY <1>6, <2>2, <2>3, <2>4, <2>5, <2>6 DEF Deliver, Mishap
  <1>7. ASSUME NEW p \in Worker, Advance(p)  PROVE CoverOK'
    BY <1>1, <1>7, CoverOKAdvance
  <1> QED
    BY <1>2, <1>3, <1>4, <1>5, <1>6, <1>7 DEF Next

\* Every checkpoint, and every block number a task may still stamp, is settled.
LEMMA CoverOKAlways ==
  ASSUME ChainAdvances
  PROVE  Spec => []CoverOK
  <1>1. Init => CoverOK
    BY DEF Init, CoverOK, WorkerOK, Settled, Ledger!Settled
  <1>2. Typed /\ Typed' /\ CoverOK /\ [Next]_vars => CoverOK'
    BY CoverOKStep
  <1> QED
    BY <1>1, <1>2, TypedAlways, PTL DEF Spec

\* When every scan finds the chain past its first block, no event is ever lost:
\* each one up to a wallet's last_synced_block has a lot, through retries,
\* crashes, duplicate deliveries and tasks that overlap on a wallet.
THEOREM NoEventLost ==
  ASSUME ChainAdvances
  PROVE  Spec => []EventsCoveredByCheckpoint
  <1>1. CoverOK => EventsCoveredByCheckpoint
    BY DEF CoverOK, EventsCoveredByCheckpoint, Settled, Ledger!Settled
  <1> QED
    BY <1>1, CoverOKAlways, PTL

-----------------------------------------------------------------------------
(* Refinement.  A scan hands over events of the chain only, and stamps a   *)
(* block that is settled; every other step is invisible to the ledger.     *)

\* A step that writes lots or a checkpoint is a step of the ledger.
LEMMA LedgerWrite ==
  ASSUME Typed, Typed', CoverOK, NEW p \in Worker,
         CreateLots(p) \/ FinishRecon(p) \/ FinishSync(p)
  PROVE  [Ledger!Next]_Ledger!vars
  <1> USE DEF Ledger!vars, chain, row
  <1>1. WorkerOK(p) /\ wal[p] \in Wallet
    BY DEF CreateLots, FinishRecon, FinishSync, CoverOK, Typed, ControlOK, Pipeline
  <1>2. CASE CreateLots(p)
    <2>1. found[p] \in SUBSET Block /\ {wal[p]} \X found[p] \subseteq events
      BY <1>1, <1>2 DEF CreateLots, WorkerOK, Typed, TypeOK
    <2>2. Ledger!Record(wal[p], found[p])
      BY <1>2, <2>1 DEF CreateLots, Ledger!Record
    <2> QED
      BY <1>1, <2>1, <2>2 DEF Ledger!Next
  <1>3. CASE FinishRecon(p) \/ FinishSync(p)
    <2>1. UNCHANGED <<height, events, stored>> /\ StampBlock(p) /\ pc[p] = "finish"
      BY <1>3 DEF FinishRecon, FinishSync, ledger
    <2>2. CASE wal[p] \in Solana
      BY <2>1, <2>2 DEF StampBlock
    <2>3. CASE wal[p] \notin Solana
      <3>1. Ledger!Settled(wal[p], high[p])
        BY <1>1, <2>1, <2>3 DEF WorkerOK, Settled
      <3>2. Ledger!Stamp(wal[p], high[p])
        BY <2>1, <2>3, <3>1 DEF StampBlock, Ledger!Stamp
      <3>3. high[p] \in Block \cup {0}
        <4>1. high[p] < height /\ high[p] \in Nat /\ height \in 1 .. MaxHeight + 1
          BY <3>1 DEF Ledger!Settled, Typed, TypeOK
        <4> QED
          BY <4>1 DEF Block
      <3> QED
        BY <1>1, <3>2, <3>3 DEF Ledger!Next
    <2> QED
      BY <2>2, <2>3
  <1> QED
    BY <1>2, <1>3

\* Every step is one of the ledger or leaves it alone.
LEMMA LedgerStep ==
  ASSUME Typed, Typed', CoverOK, [Next]_vars
  PROVE  [Ledger!Next]_Ledger!vars
  <1> USE DEF Ledger!vars, chain, row, ledger
  <1>1. CASE Mine
    <2>1. PICK S \in SUBSET Wallet : events' = events \cup (S \X {height})
      BY <1>1 DEF Mine
    <2>2. height \in Block
      BY <1>1 DEF Mine, Block, Typed, TypeOK
    <2>3. Ledger!Extend(S)
      BY <1>1, <2>1, <2>2 DEF Mine, Ledger!Extend
    <2> QED
      BY <2>3 DEF Ledger!Next
  <1>2. ASSUME NEW w \in Wallet, Request(w)  PROVE UNCHANGED Ledger!vars
    BY <1>2 DEF Request, Submit, Commit, Rollback, SetActive
  <1>3. Expire \/ UNCHANGED vars => UNCHANGED Ledger!vars
    BY DEF Expire, ExpireSync, ExpireRecon, vars
  <1>4. ASSUME NEW p \in Worker, Deliver(p) \/ StartSync(p) \/ Mishap(p)
        PROVE  UNCHANGED Ledger!vars
    BY <1>4 DEF Deliver, SkipLocked, StartRecon, StartSync, Mishap, ReconRaises, HandlerRaises,
                SyncWalletRaises, SyncRaises, Crash, Redeliver
  <1>5. ASSUME NEW p \in Worker, Advance(p),
               ~(CreateLots(p) \/ FinishRecon(p) \/ FinishSync(p))
        PROVE  UNCHANGED Ledger!vars
    BY <1>5 DEF Advance, LoadWallet, SetSyncing, LoadSynced, SyncWallet, SyncDone, ScanEvm,
                ScanSolana, ReadLots, WritePositions, ReportComplete, MarkError, RetryTask,
                ReleaseRecon, ReleaseSync
  <1> QED
    BY <1>1, <1>2, <1>3, <1>4, <1>5, LedgerWrite DEF Next

\* The tasks implement the ledger: whatever is retried, dies or overlaps, lots
\* are only ever added, for events of the chain, and a checkpoint only moves to
\* a block up to which the ledger is complete and the chain can add nothing.
THEOREM LedgerImplemented ==
  ASSUME ChainAdvances
  PROVE  Spec => ImplementsLedger
  <1>1. Init => Ledger!Init
    BY DEF Init, Ledger!Init
  <1>2. Typed /\ Typed' /\ CoverOK /\ [Next]_vars => [Ledger!Next]_Ledger!vars
    BY LedgerStep
  <1> QED
    BY <1>1, <1>2, TypedAlways, CoverOKAlways, PTL DEF Spec, ImplementsLedger, Ledger!Spec
=============================================================================
